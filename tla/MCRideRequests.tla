--------------------------- MODULE MCRideRequests ---------------------------
(***************************************************************************)
(* Small instances of RideRequests: three requests for one slot, two of    *)
(* them by the same employee, and one planned trip with a single place.    *)
(***************************************************************************)
EXTENDS RideRequests, TLC

CONSTANTS r1, r2, r3, e1, e2, d1, d2, p1, p2

MCRider == r1 :> e1 @@ r2 :> e1 @@ r3 :> e2
MCSlotOf == [r \in Requests |-> "inbound"]
MCTarget == r1 :> d1 @@ r2 :> NoDriver @@ r3 :> d1
MCPlanSlot == [p \in Planned |-> "inbound"]
MCPlanDriver == [p \in Planned |-> d1]
MCPlanStatus == [p \in Planned |-> IF p = p1 THEN "assigned" ELSE "completed"]
MCPlanCapacity == [p \in Planned |-> 1]
=============================================================================
