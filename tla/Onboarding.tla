------------------------------- MODULE Onboarding -------------------------------
(***************************************************************************)
(* What becomes of a roster entry: it registers (Registration), a driver    *)
(* then proposes his plans (DriverPlans), a rider's eligibility is decided  *)
(* (Eligibility).  An approval inserts the driver's or the employee's row   *)
(* the two others look up; each process serves one request at a time.       *)
(***************************************************************************)
EXTENDS Registration

CONSTANTS Plans, NoPlan, Decisions, Excess, Changes, Patches, Minors

ASSUME NoPlanAssumption == NoPlan \notin Plans

VARIABLES plan, desk, facts, blocks, policy, decision, bench

P == INSTANCE DriverPlans
E == INSTANCE Eligibility

planState == <<plan, desk>>
staffState == <<facts, blocks, policy, decision, bench>>
vars == <<registrationVars, planState, staffState>>

OnboardingInit == Init /\ P!Init /\ E!Init

\* Handlers that serve a request of another part.
Planning(h) == desk[h] # P!Idle
Evaluating(h) == bench[h] # E!Idle

RegistrationStep ==
    /\ \/ \E h \in Handlers : ~ Planning(h) /\ ~ Evaluating(h) /\ Handle(h)
       \/ \E q \in Requests : Reject(q)
       \/ \E k \in Contacts, kind \in Kinds : Upload(k, kind)
    /\ UNCHANGED <<planState, staffState>>

\* The caller's account is linked to a driver.
PlanStep ==
    /\ "driver" \in linked
    /\ P!Dispatch \/ \E h \in Handlers : Free(h) /\ ~ Evaluating(h) /\ P!Handle(h)
    /\ UNCHANGED <<registrationVars, staffState>>

\* The employee's row exists.
StaffStep ==
    /\ "rider" \in linked
    /\ E!Office \/ \E h \in Handlers : Free(h) /\ ~ Planning(h) /\ E!Handle(h)
    /\ UNCHANGED <<registrationVars, planState>>

OnboardingNext == RegistrationStep \/ PlanStep \/ StaffStep

OnboardingSpec == OnboardingInit /\ [][OnboardingNext]_vars

-----------------------------------------------------------------------------
(* Properties of the parts, for the runs.                                  *)

(* "an approved plan is locked" (DriverPlans): only a proposal that had read *)
(* the plan before it was approved replaces it.                             *)
ApprovedPlansLocked == [][P!KeepsApproved]_planState

(* Green approves in live mode only (Eligibility): an approval by the rules  *)
(* fits the facts when it is recorded, unless they changed after they were   *)
(* read, and rests on none that did not stand while it was being made.      *)
ApprovalsWarranted == E!ApprovalsWarranted
=============================================================================
