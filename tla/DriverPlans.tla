------------------------------ MODULE DriverPlans ------------------------------
(***************************************************************************)
(* A driver's route plan for one day (app/routes_driver_plan.ts): he        *)
(* proposes it, which replaces what he proposed before, and dispatch        *)
(* approves or rejects it.  The zones of a plan share its fate.             *)
(***************************************************************************)
CONSTANTS
    Plans,     \* rows driver_route_plan may come to hold for the day
    Handlers,  \* requests served at once
    NoPlan     \* none of them

VARIABLES
    plan,  \* driver_route_plan.status, and whether there is a row
    desk   \* desk[h]: what a proposal has read

planVars == <<plan, desk>>

Idle == [at |-> "idle"]

Status(p) == IF p = NoPlan THEN "none" ELSE plan[p]

\* uq_driver_plan: the row of the driver and the day.
Present == {p \in Plans : plan[p] \notin {"none", "deleted"}}

Init ==
    /\ plan = [p \in Plans |-> "none"]
    /\ desk = [h \in Handlers |-> Idle]

\* Slip: an approved plan is looked at like any other.
ProposeReadAny(h) ==
    /\ desk[h] = Idle
    /\ \E p \in Present \cup {NoPlan} :
           /\ p = NoPlan => Present = {}
           /\ desk' = [desk EXCEPT ![h] = [at |-> "proposing", old |-> p, seen |-> Status(p)]]
    /\ UNCHANGED plan

\* The plan of the day, if there is one, is not approved.
ProposeRead(h) ==
    /\ desk[h] = Idle
    /\ \E p \in Present \cup {NoPlan} :
           /\ p = NoPlan => Present = {}
           /\ Status(p) # "approved"
           /\ desk' = [desk EXCEPT ![h] = [at |-> "proposing", old |-> p, seen |-> Status(p)]]
    /\ UNCHANGED plan

(* The row that was read is deleted, whatever its status now, and the new    *)
(* one inserted with its zones; another row of the day refuses it.          *)
ProposeReplace(h, p) ==
    /\ desk[h].at = "proposing" /\ plan[p] = "none"
    /\ Present \subseteq {desk[h].old}
    /\ plan' = [q \in Plans |-> IF q = p THEN "proposed"
                               ELSE IF q = desk[h].old THEN "deleted" ELSE plan[q]]
    /\ desk' = [desk EXCEPT ![h] = Idle]

\* A guard or the key throws.
GiveUp(h) ==
    /\ desk[h] # Idle
    /\ desk' = [desk EXCEPT ![h] = Idle]
    /\ UNCHANGED plan

\* approve and reject: an UPDATE guarded by the status.
Decide(p, to) ==
    /\ plan[p] = "proposed"
    /\ plan' = [plan EXCEPT ![p] = to]
    /\ UNCHANGED desk

Handle(h) == ProposeRead(h) \/ GiveUp(h) \/ \E p \in Plans : ProposeReplace(h, p)
Dispatch == \E p \in Plans, to \in {"approved", "rejected"} : Decide(p, to)
Next == Dispatch \/ \E h \in Handlers : Handle(h)

Spec == Init /\ [][Next]_planVars

-----------------------------------------------------------------------------
(* Properties.                                                             *)

PlansTypeOK ==
    /\ plan \in [Plans -> {"none", "proposed", "approved", "rejected", "deleted"}]
    /\ \A h \in Handlers :
           desk[h] # Idle => /\ desk[h].old \in Plans \cup {NoPlan}
                             /\ desk[h].seen \in {"none", "proposed", "rejected"}

(* "an approved plan is locked": it goes only at the hand of a proposal that *)
(* had looked at it before it was approved and was still under way, and then *)
(* a new plan of the day stands in its place.                               *)
KeepsApproved ==
    \A p \in Plans : plan[p] = "approved" /\ plan'[p] # "approved" =>
        /\ \E h \in Handlers : desk[h] # Idle /\ desk[h].old = p /\ desk[h].seen # "approved"
        /\ Present' # {}
=============================================================================
