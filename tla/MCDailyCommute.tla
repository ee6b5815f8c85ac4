--------------------------- MODULE MCDailyCommute ---------------------------
(***************************************************************************)
(* Small instances of DailyCommute: one planned trip of one place, one     *)
(* request by e1, one driver and one vehicle, one stop of the planned trip. *)
(***************************************************************************)
EXTENDS DailyCommute

CONSTANTS e1, e2, p1, d1

MCRider == [r \in Requests |-> e1]
MCSlotOf == [r \in Requests |-> "inbound"]
MCTarget == [r \in Requests |-> d1]
MCPlanSlot == [p \in Planned |-> "inbound"]
MCPlanDriver == [p \in Planned |-> NoDriver]
MCPlanStatus == [p \in Planned |-> "none"]
MCPlanCapacity == [p \in Planned |-> 1]
MCTripOf == [k \in Stops |-> p1]
MCRouteWait == [t \in Trips |-> NoWait]
MCSeats == [v \in Vehicles |-> 1]
=============================================================================
