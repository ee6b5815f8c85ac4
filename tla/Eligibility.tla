------------------------------ MODULE Eligibility ------------------------------
(***************************************************************************)
(* Whether an employee may be transported: the rule engine                  *)
(* (domain/eligibility/eligibility_engine.ts), the decisions that record    *)
(* its answer and the reviewers who override them                           *)
(* (app/routes_eligibility.ts), HR's sync of blocking violations             *)
(* (domain/hr/hr_sync_service.ts).  A decision reads employee, violations    *)
(* and policy in statements of their own.                                   *)
(***************************************************************************)
EXTENDS Naturals, FiniteSets

CONSTANTS
    Decisions,  \* rows eligibility_decision may come to hold
    Handlers,   \* requests served at once
    Excess,     \* km beyond the service radius, rounded up, that a home may have
    Changes,    \* the employee's records that HR may file, sets of facts
    Patches,    \* the policies that a PATCH may leave
    Minors      \* minor violations on file

VARIABLES
    facts,     \* employee: what holds of the row
    blocks,    \* hr_violation: the active blocking ones, by type
    policy,    \* eligibility_policy
    decision,  \* eligibility_decision
    bench      \* bench[h]: what an evaluation has read

eligibilityVars == <<facts, blocks, policy, decision, bench>>

Signals == {"transport_block", "employment_ended"}
EmployeeFacts == {"present", "eligible", "numbered", "resident", "home"}

Idle == [at |-> "idle"]
NoDecision == [outcome |-> "none"]

-----------------------------------------------------------------------------
(* The engine.                                                             *)

\* The hard gates: all of them, and a pickup at the residence or at home.
GatesPass(f, b) ==
    /\ {"present", "eligible", "numbered"} \subseteq f
    /\ b \cap Signals = {}
    /\ f \cap {"resident", "home"} # {}

\* DEFAULT_WEIGHTS, shortTenure apart, which no caller sets.
Weights == [perKm |-> 8, minor |-> 15, mismatch |-> 25, missing |-> 20, residence |-> 20]

\* i: what the score counts - kilometres, violations, the documents' flaws.
RawScore(f, i) ==
    i.km * Weights.perKm + i.minor * Weights.minor
        + (IF "mismatch" \in i.flaws THEN Weights.mismatch ELSE 0)
        + (IF "missing" \in i.flaws THEN Weights.missing ELSE 0)

RiskScore(f, i) ==
    LET reduction == IF "resident" \in f THEN Weights.residence ELSE 0
        raw == RawScore(f, i)
    IN  IF raw <= reduction THEN 0
        ELSE IF raw - reduction >= 100 THEN 100 ELSE raw - reduction

Band(f, b, i, p) ==
    IF ~ GatesPass(f, b) THEN "red"
    ELSE IF RiskScore(f, i) <= p.green THEN "green"
    ELSE IF RiskScore(f, i) <= p.amber THEN "amber" ELSE "red"

\* Slip: a green employee is approved in shadow mode, too.
OutcomeLive(band, p) ==
    IF band = "red" THEN "rejected" ELSE IF band = "green" THEN "approved" ELSE "needs_review"

\* What is recorded: green approves in live mode only.
Outcome(band, p) ==
    IF band = "red" THEN "rejected"
    ELSE IF band = "green" /\ p.mode = "live" THEN "approved" ELSE "needs_review"

-----------------------------------------------------------------------------
Init ==
    /\ facts \in Changes
    /\ blocks = {}
    /\ policy = [green |-> 20, amber |-> 60, mode |-> "shadow"]
    /\ decision = [d \in Decisions |-> NoDecision]
    /\ bench = [h \in Handlers |-> Idle]

\* What an approval rests on, as far as the three tables warrant it.
Grounds(f, b, p) ==
    {g \in {"employee", "unblocked", "live"} :
        CASE g = "employee"  -> GatesPass(f, {})
          [] g = "unblocked" -> b \cap Signals = {}
          [] g = "live"      -> p.mode = "live"}

(* For the property: a table has changed.  The evaluations under way that    *)
(* had read it, those past the given stages, are stale; all have seen the    *)
(* grounds of now.                                                          *)
Overtaken(stages, grounds) ==
    [h \in Handlers |->
        IF bench[h] = Idle THEN Idle
        ELSE [bench[h] EXCEPT !.stale = @ \/ bench[h].at \in stages,
                              !.stood = @ \cup grounds]]

\* The employee's row: what it is when its first read finds it.
ReadEmployee(h) ==
    /\ bench[h] = Idle
    /\ bench' = [bench EXCEPT ![h] = [at |-> "violations", f |-> facts, stale |-> FALSE,
                                      stood |-> Grounds(facts, blocks, policy)]]
    /\ UNCHANGED <<facts, blocks, policy, decision>>

ReadViolations(h) ==
    /\ bench[h].at = "violations"
    /\ bench' = [bench EXCEPT ![h] = [at |-> "policy", f |-> @.f, b |-> blocks, stale |-> @.stale,
                                      stood |-> @.stood]]
    /\ UNCHANGED <<facts, blocks, policy, decision>>

\* The distance, from the home the row has by now, and the policy or its defaults.
ReadPolicy(h) ==
    /\ bench[h].at = "policy"
    /\ bench' = [bench EXCEPT ![h] = [at |-> "deciding", f |-> @.f, b |-> @.b, p |-> policy,
                                      housed |-> "home" \in facts, stale |-> @.stale,
                                      stood |-> @.stood]]
    /\ UNCHANGED <<facts, blocks, policy, decision>>

(* The model's findings, the engine, the INSERT and the commit.  A mere      *)
(* evaluation, and one that fails, ends in Leave.                           *)
Decide(h, d) ==
    /\ bench[h].at = "deciding" /\ decision[d] = NoDecision
    /\ \E km \in Excess, minor \in Minors, flaws \in SUBSET {"mismatch", "missing"} :
           LET i == [km |-> IF bench[h].housed THEN km ELSE 0, minor |-> minor, flaws |-> flaws]
           IN  decision' = [decision EXCEPT ![d] =
                   [outcome |-> Outcome(Band(bench[h].f, bench[h].b, i, bench[h].p), bench[h].p),
                    source |-> "auto_rules",
                    warranted |-> policy.mode = "live" /\ Band(facts, blocks, i, policy) = "green",
                    stale |-> bench[h].stale, stood |-> bench[h].stood]]
    /\ bench' = [bench EXCEPT ![h] = Idle]
    /\ UNCHANGED <<facts, blocks, policy>>

Leave(h) ==
    /\ bench[h] # Idle
    /\ bench' = [bench EXCEPT ![h] = Idle]
    /\ UNCHANGED <<facts, blocks, policy, decision>>

-----------------------------------------------------------------------------
(* Those who change what an evaluation reads.                              *)

\* An administrator's update or deletion of the employee.
FileRecord(f) ==
    /\ facts' = f
    /\ bench' = Overtaken({"violations", "policy", "deciding"}, Grounds(f, blocks, policy))
    /\ UNCHANGED <<blocks, policy, decision>>

(* HR's sync: the two signals of the record, if an employee has its number;  *)
(* once or ten times, the last record counts.                               *)
Sync(b) ==
    /\ {"present", "numbered"} \subseteq facts
    /\ blocks' = b
    /\ bench' = Overtaken({"policy", "deciding"}, Grounds(facts, b, policy))
    /\ UNCHANGED <<facts, policy, decision>>

\* PATCH of the policy; ck_policy_bands refuses bands that cross.
PatchPolicy(p) ==
    /\ p.green < p.amber
    /\ policy' = p
    /\ bench' = Overtaken({"deciding"}, Grounds(facts, blocks, p))
    /\ UNCHANGED <<facts, blocks, decision>>

\* A reviewer's word on any decision, at any time.
Override(d, outcome) ==
    /\ decision[d] # NoDecision
    /\ decision' = [decision EXCEPT ![d].outcome = outcome, ![d].source = "human"]
    /\ UNCHANGED <<facts, blocks, policy, bench>>

Handle(h) ==
    \/ ReadEmployee(h) \/ ReadViolations(h) \/ ReadPolicy(h) \/ Leave(h)
    \/ \E d \in Decisions : Decide(h, d)

Office ==
    \/ \E f \in Changes : FileRecord(f)
    \/ \E b \in SUBSET Signals : Sync(b)
    \/ \E p \in Patches : PatchPolicy(p)
    \/ \E d \in Decisions, outcome \in {"approved", "rejected"} : Override(d, outcome)

Next == Office \/ \E h \in Handlers : Handle(h)

Spec == Init /\ [][Next]_eligibilityVars

-----------------------------------------------------------------------------
(* Properties.                                                             *)

(* "GREEN auto-approves ONLY in live mode": whom the rules approved they     *)
(* would approve on the employee, the violations and the policy as they      *)
(* stood together when it was recorded, whatever changed before it was read, *)
(* unless one of the three changed after the evaluation had read it.  Even   *)
(* then the mixture of what it read approves nobody whose gates failed,      *)
(* whom a violation blocked, or whose company was in shadow mode all the     *)
(* time from the first of its reads.                                        *)
ApprovalsWarranted ==
    \A d \in Decisions :
        decision[d] # NoDecision /\ decision[d].outcome = "approved"
            /\ decision[d].source = "auto_rules"
        => /\ decision[d].stale \/ decision[d].warranted
           /\ decision[d].stood = {"employee", "unblocked", "live"}
=============================================================================
