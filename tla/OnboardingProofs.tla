---------------------------- MODULE OnboardingProofs ----------------------------
(***************************************************************************)
(* Proofs about Onboarding, for any requests, handlers, plans and decisions. *)
(* Registration: after an approval that nothing raced every handler is free, *)
(* and as no request is live none can start again (SettledInv).  Plans: what *)
(* a proposal read was not approved.  Eligibility: what an evaluation that   *)
(* nothing overtook has read is what still holds (BenchInv).                *)
(***************************************************************************)
EXTENDS Onboarding, FiniteSetTheorems, TLAPS

-----------------------------------------------------------------------------
(* Registration.                                                           *)

Statuses == {"none", "pending_otp", "pending_review", "approved", "rejected", "deleted"}

Works ==
    {Idle, [at |-> "starting"]}
    \cup [at : {"verifying"}, q : Requests]
    \cup [at : {"approving"}, q : Requests, contact : Contacts, kind : Kinds]

OneLive == \A p \in Requests : \A q \in Requests : req[p] \in Live /\ req[q] \in Live => p = q

Settled ==
    /\ roster.registered = TRUE
    /\ \A h \in Handlers : Free(h)
    /\ Cardinality(accounts) = 1
    /\ \E q \in Requests : \A p \in Requests :
           IF p = q THEN req[p] = "approved" ELSE req[p] \notin Live \cup {"approved"}

RegistrationTypes ==
    /\ req \in [Requests -> Statuses]
    /\ roster \in [contact : Contacts, kind : Kinds, registered : BOOLEAN]
    /\ work \in [Handlers -> Works]
    /\ raced \in BOOLEAN

SettledInv ==
    /\ RegistrationTypes
    /\ OneLive
    /\ accounts = {} => \A q \in Requests : req[q] # "approved"
    /\ accounts # {} /\ raced = FALSE => Settled

LEMMA WorkKinds ==
    /\ Idle \in Works /\ Idle.at = "idle"
    /\ [at |-> "starting"] \in Works
    /\ \A q \in Requests : [at |-> "verifying", q |-> q] \in Works
    /\ \A q \in Requests : \A k \in Contacts : \A kind \in Kinds :
           [at |-> "approving", q |-> q, contact |-> k, kind |-> kind] \in Works
    /\ \A w \in Works : w.at \in {"verifying", "approving"} => w.q \in Requests
BY DEF Works, Idle

LEMMA RegistrationStart == Init => SettledInv
BY WorkKinds DEF Init, RegistrationTypes, SettledInv, Statuses, OneLive, Live

LEMMA RegistrationTyped ==
    ASSUME RegistrationTypes, Next
    PROVE  RegistrationTypes'
<1> USE WorkKinds DEF RegistrationTypes, Statuses
<1>1. ASSUME NEW h \in Handlers, StartRead(h) \/ Abort(h)
      PROVE  RegistrationTypes'
  BY <1>1 DEF StartRead, Abort
<1>2. ASSUME NEW h \in Handlers, NEW q \in Requests, StartWrite(h, q)
      PROVE  RegistrationTypes'
  BY <1>2 DEF StartWrite
<1>3. ASSUME NEW h \in Handlers, NEW q \in Requests, VerifyRead(h, q)
      PROVE  RegistrationTypes'
  BY <1>3 DEF VerifyRead
<1>4. ASSUME NEW h \in Handlers, NEW q \in Requests, ApproveRead(h, q)
      PROVE  RegistrationTypes'
  <2>1. roster.contact \in Contacts /\ roster.kind \in Kinds
    OBVIOUS
  <2> QED
    BY <1>4, <2>1 DEF ApproveRead
<1>5. ASSUME NEW h \in Handlers, VerifyWrite(h)
      PROVE  RegistrationTypes'
  BY <1>5 DEF VerifyWrite
<1>6. ASSUME NEW h \in Handlers, ApproveWrite(h)
      PROVE  RegistrationTypes'
  <2>1. raced' \in BOOLEAN
    <3>1. raced' = (raced \/ Others(h) # {} \/ req[work[h].q] # "pending_review")
      BY <1>6 DEF ApproveWrite
    <3> QED
      BY <3>1, Zenon
  <2>2. /\ req' = [req EXCEPT ![work[h].q] = IF @ = "deleted" THEN @ ELSE "approved"]
        /\ work' = [work EXCEPT ![h] = Idle]
        /\ roster' = [roster EXCEPT !.registered = TRUE]
    BY <1>6 DEF ApproveWrite
  <2> QED
    BY <2>1, <2>2
<1>7. ASSUME NEW q \in Requests, Reject(q)
      PROVE  RegistrationTypes'
  BY <1>7 DEF Reject
<1>8. ASSUME NEW k \in Contacts, NEW kind \in Kinds, Upload(k, kind)
      PROVE  RegistrationTypes'
  BY <1>8 DEF Upload
<1> QED
  BY <1>1, <1>2, <1>3, <1>4, <1>5, <1>6, <1>7, <1>8 DEF Next, Handle

LEMMA RegistrationNext ==
    ASSUME SettledInv, Next
    PROVE  SettledInv'
<1> DEFINE Rest == /\ OneLive
                   /\ accounts = {} => \A q \in Requests : req[q] # "approved"
                   /\ accounts # {} /\ raced = FALSE => Settled
<1> USE DEF Live
<1>1. /\ req \in [Requests -> Statuses] /\ work \in [Handlers -> Works]
      /\ raced \in BOOLEAN
      /\ roster \in [contact : Contacts, kind : Kinds, registered : BOOLEAN]
      /\ Rest
  BY DEF SettledInv, RegistrationTypes
<1>2. ASSUME NEW h \in Handlers, StartRead(h)
      PROVE  Rest'
  <2>1. accounts # {} => raced = TRUE
    BY <1>1, <1>2 DEF StartRead, Settled
  <2> QED
    BY <1>1, <1>2, <2>1 DEF StartRead, OneLive
<1>3. ASSUME NEW h \in Handlers, NEW q \in Requests, StartWrite(h, q)
      PROVE  Rest'
  <2>1. accounts # {} => raced = TRUE
    BY <1>1, <1>3, WorkKinds DEF StartWrite, Free, Settled
  <2>2. OneLive'
    BY <1>1, <1>3 DEF StartWrite, OneLive
  <2> QED
    BY <1>1, <1>3, <2>1, <2>2 DEF StartWrite
<1>4. ASSUME NEW h \in Handlers, NEW q \in Requests, VerifyRead(h, q) \/ ApproveRead(h, q)
      PROVE  Rest'
  <2>1. accounts # {} => raced = TRUE
    BY <1>1, <1>4 DEF VerifyRead, ApproveRead, Settled
  <2> QED
    BY <1>1, <1>4, <2>1 DEF VerifyRead, ApproveRead, OneLive
<1>5. ASSUME NEW h \in Handlers, VerifyWrite(h)
      PROVE  Rest'
  <2>1. accounts # {} => raced = TRUE
    BY <1>1, <1>5, WorkKinds DEF VerifyWrite, Free, Settled
  <2>2. work[h].q \in Requests
    BY <1>1, <1>5, WorkKinds DEF VerifyWrite
  <2>3. OneLive'
    BY <1>1, <1>5, <2>2 DEF VerifyWrite, OneLive
  <2> QED
    BY <1>1, <1>5, <2>1, <2>2, <2>3 DEF VerifyWrite
<1>6. ASSUME NEW h \in Handlers, ApproveWrite(h)
      PROVE  Rest'
  <2> DEFINE q == work[h].q
  <2>1. /\ ~ Free(h) /\ q \in Requests
        /\ accounts' = accounts \cup {work[h].contact}
        /\ roster' = [roster EXCEPT !.registered = TRUE]
        /\ req' = [req EXCEPT ![q] = IF @ = "deleted" THEN @ ELSE "approved"]
        /\ work' = [work EXCEPT ![h] = Idle]
    BY <1>1, <1>6, WorkKinds DEF ApproveWrite, Free
  <2>2. raced' = FALSE => /\ raced = FALSE /\ Others(h) = {}
                          /\ req[q] = "pending_review"
    <3>1. raced' = (raced \/ Others(h) # {} \/ req[q] # "pending_review")
      BY <1>6 DEF ApproveWrite
    <3> HIDE DEF q
    <3> QED
      BY <1>1, <3>1, Zenon
  <2>3. OneLive'
    BY <1>1, <2>1 DEF OneLive
  <2>4. ASSUME raced' = FALSE
        PROVE  Settled'
    <3>1. accounts = {}
      BY <1>1, <2>1, <2>2, <2>4 DEF Settled
    <3>2. Cardinality(accounts') = 1
      <4>1. accounts' = {work[h].contact}
        BY <2>1, <3>1
      <4> QED
        BY <4>1, FS_Singleton, Zenon
    <3>3. \A g \in Handlers : Free(g)'
      BY <1>1, <2>1, <2>2, <2>4 DEF Others, Free
    <3>4. \A p \in Requests : IF p = q THEN req'[p] = "approved"
                              ELSE req'[p] \notin Live \cup {"approved"}
      BY <1>1, <2>1, <2>2, <2>4, <3>1 DEF OneLive
    <3>5. roster'.registered = TRUE
      BY <1>1, <2>1
    <3> QED
      BY <2>1, <3>2, <3>3, <3>4, <3>5 DEF Settled
  <2>5. accounts' # {}
    BY <2>1
  <2> QED
    BY <2>3, <2>4, <2>5
<1>7. ASSUME NEW h \in Handlers, Abort(h)
      PROVE  Rest'
  <2>1. accounts # {} => raced = TRUE
    BY <1>1, <1>7 DEF Abort, Settled
  <2> QED
    BY <1>1, <1>7, <2>1 DEF Abort, OneLive
<1>8. ASSUME NEW q \in Requests, Reject(q)
      PROVE  Rest'
  <2>1. accounts # {} => raced = TRUE
    BY <1>1, <1>8 DEF Reject, Settled
  <2> QED
    BY <1>1, <1>8, <2>1 DEF Reject, OneLive
<1>9. ASSUME NEW k \in Contacts, NEW kind \in Kinds, Upload(k, kind)
      PROVE  Rest'
  <2>1. roster'.registered = roster.registered
    BY <1>1, <1>9 DEF Upload
  <2> QED
    BY <1>1, <1>9, <2>1 DEF Upload, OneLive, Settled, Free
<1>10. Rest'
  BY <1>2, <1>3, <1>4, <1>5, <1>6, <1>7, <1>8, <1>9 DEF Next, Handle
<1>11. RegistrationTypes'
  BY RegistrationTyped DEF SettledInv
<1> QED
  BY <1>10, <1>11 DEF SettledInv

LEMMA RegistrationRests ==
    ASSUME SettledInv, UNCHANGED registrationVars
    PROVE  SettledInv'
BY DEF registrationVars, SettledInv, RegistrationTypes, OneLive, Settled, Free

-----------------------------------------------------------------------------
(* Plans.                                                                  *)

LEMMA PlansStart == P!Init => P!PlansTypeOK
BY DEF P!Init, P!PlansTypeOK

LEMMA PlansNext ==
    ASSUME P!PlansTypeOK, P!Next
    PROVE  /\ P!PlansTypeOK'
           /\ P!KeepsApproved
<1> USE DEF P!PlansTypeOK
<1>1. ASSUME NEW h \in Handlers, P!ProposeRead(h)
      PROVE  P!PlansTypeOK' /\ plan' = plan
  BY <1>1, NoPlanAssumption DEF P!ProposeRead, P!Present, P!Status, P!Idle
<1>2. ASSUME NEW h \in Handlers, P!GiveUp(h)
      PROVE  P!PlansTypeOK' /\ plan' = plan
  BY <1>2 DEF P!GiveUp
<1>3. ASSUME NEW h \in Handlers, NEW p \in Plans, P!ProposeReplace(h, p)
      PROVE  /\ P!PlansTypeOK'
             /\ \A q \in Plans : plan[q] = "approved" /\ plan'[q] # "approved" => q = desk[h].old
             /\ desk[h] # P!Idle /\ desk[h].seen # "approved"
             /\ P!Present' # {}
  BY <1>3 DEF P!ProposeReplace, P!Idle, P!Present
<1>4. ASSUME NEW p \in Plans, NEW to \in {"approved", "rejected"}, P!Decide(p, to)
      PROVE  P!PlansTypeOK' /\ \A q \in Plans : plan[q] = "approved" => plan'[q] = "approved"
  BY <1>4 DEF P!Decide
<1> QED
  BY <1>1, <1>2, <1>3, <1>4 DEF P!Next, P!Dispatch, P!Handle, P!KeepsApproved

LEMMA PlansRest ==
    ASSUME P!PlansTypeOK, UNCHANGED planState
    PROVE  P!PlansTypeOK'
BY DEF planState, P!PlansTypeOK

-----------------------------------------------------------------------------
(* Eligibility.                                                            *)

\* What it has read, as far as it has come.
Current(b) ==
    /\ b.f = facts
    /\ b.at \in {"policy", "deciding"} => b.b = blocks
    /\ b.at = "deciding" => b.p = policy

Stages == {"violations", "policy", "deciding"}

\* What it has read passed, when it was read.
Witnessed(b) ==
    /\ E!GatesPass(b.f, {}) => "employee" \in b.stood
    /\ b.at \in {"policy", "deciding"} /\ b.b \cap E!Signals = {} => "unblocked" \in b.stood
    /\ b.at = "deciding" /\ b.p.mode = "live" => "live" \in b.stood

AllGrounds == {"employee", "unblocked", "live"}

Evaluation(b) ==
    /\ {"at", "f", "stale", "stood"} \subseteq DOMAIN b
    /\ b.at \in {"policy", "deciding"} => "b" \in DOMAIN b
    /\ b.at = "deciding" => "p" \in DOMAIN b
    /\ b.at \in Stages /\ b.stale \in BOOLEAN /\ b.stood \subseteq AllGrounds
    /\ Witnessed(b)

\* The grounds of this moment, which every evaluation under way has seen.
Standing == E!Grounds(facts, blocks, policy)

BenchInv ==
    /\ bench = [h \in Handlers |-> bench[h]]
    /\ \A h \in Handlers :
           bench[h] # E!Idle => /\ Evaluation(bench[h])
                                /\ Standing \subseteq bench[h].stood
                                /\ bench[h].stale = FALSE => Current(bench[h])

WarrantedInv ==
    /\ decision = [d \in Decisions |-> decision[d]]
    /\ \A d \in Decisions :
           /\ decision[d] # E!NoDecision
           /\ decision[d].outcome = "approved"
           /\ decision[d].source = "auto_rules"
           => /\ decision[d].stale = FALSE => decision[d].warranted = TRUE
              /\ decision[d].stood = AllGrounds

StaffInv == BenchInv /\ WarrantedInv

LEMMA StaffStart == E!Init => StaffInv
BY DEF E!Init, StaffInv, BenchInv, WarrantedInv

\* Grounds says of each ground whether it stands.
LEMMA GroundsFacts ==
    ASSUME NEW f, NEW b, NEW p
    PROVE  /\ E!Grounds(f, b, p) \subseteq AllGrounds
           /\ E!GatesPass(f, {}) => "employee" \in E!Grounds(f, b, p)
           /\ b \cap E!Signals = {} => "unblocked" \in E!Grounds(f, b, p)
           /\ p.mode = "live" => "live" \in E!Grounds(f, b, p)
BY DEF E!Grounds, AllGrounds

\* An approval passed every gate, with the employee's and the violations' own.
LEMMA GreenFacts ==
    ASSUME NEW f, NEW b, NEW i, NEW p, E!Outcome(E!Band(f, b, i, p), p) = "approved"
    PROVE  /\ E!Band(f, b, i, p) = "green" /\ p.mode = "live"
           /\ E!GatesPass(f, {}) /\ b \cap E!Signals = {}
<1>1. E!Band(f, b, i, p) = "green" /\ p.mode = "live"
  BY DEF E!Outcome
<1>2. E!GatesPass(f, b)
  BY <1>1 DEF E!Band
<1> QED
  BY <1>1, <1>2 DEF E!GatesPass

\* One evaluation goes a stage on; nothing else changes.
LEMMA Advances ==
    ASSUME BenchInv, NEW h \in Handlers, NEW b,
           bench' = [bench EXCEPT ![h] = b],
           UNCHANGED <<facts, blocks, policy>>,
           b # E!Idle => /\ Evaluation(b) /\ Standing \subseteq b.stood
                         /\ b.stale = FALSE => Current(b)
    PROVE  BenchInv'
<1>1. bench' = [g \in Handlers |-> bench'[g]]
  BY DEF BenchInv
<1>2. ASSUME NEW g \in Handlers, bench'[g] # E!Idle
      PROVE  /\ Evaluation(bench'[g]) /\ Standing' \subseteq bench'[g].stood
             /\ bench'[g].stale = FALSE => Current(bench[g])'
  BY <1>2 DEF BenchInv, Current, Standing
<1> QED
  BY <1>1, <1>2 DEF BenchInv, Current, Evaluation, Witnessed

\* Someone changes what evaluations past some stages have read.
LEMMA Overtakes ==
    ASSUME BenchInv, NEW stages, NEW grounds, grounds \subseteq AllGrounds,
           grounds = Standing', bench' = E!Overtaken(stages, grounds),
           \A h \in Handlers : bench[h].at \in Stages \ stages /\ Current(bench[h]) =>
               /\ bench[h].f = facts'
               /\ bench[h].at \in {"policy", "deciding"} => bench[h].b = blocks'
               /\ bench[h].at = "deciding" => bench[h].p = policy'
    PROVE  BenchInv'
<1>1. ASSUME NEW h \in Handlers, bench'[h] # E!Idle
      PROVE  /\ Evaluation(bench'[h]) /\ Standing' \subseteq bench'[h].stood
             /\ bench'[h].stale = FALSE => Current(bench[h])'
  <2> DEFINE b == bench[h]
  <2> DEFINE c == [b EXCEPT !.stale = @ \/ b.at \in stages, !.stood = @ \cup grounds]
  <2>1. b # E!Idle /\ bench'[h] = c
    BY <1>1 DEF E!Overtaken
  <2>2. Evaluation(b) /\ (b.stale = FALSE => Current(b))
    BY <2>1 DEF BenchInv
  <2>3. /\ c.at = b.at /\ c.f = b.f /\ DOMAIN c = DOMAIN b
        /\ c.stale = (b.stale \/ b.at \in stages) /\ c.stood = b.stood \cup grounds
        /\ b.at \in {"policy", "deciding"} => c.b = b.b
        /\ b.at = "deciding" => c.p = b.p
    BY <2>2 DEF Evaluation
  <2>4. Evaluation(c)
    BY <2>2, <2>3 DEF Evaluation, Witnessed
  <2>5. ASSUME c.stale = FALSE
        PROVE  /\ c.f = facts'
               /\ c.at \in {"policy", "deciding"} => c.b = blocks'
               /\ c.at = "deciding" => c.p = policy'
    BY <2>2, <2>3, <2>5 DEF Evaluation
  <2>6. Standing' \subseteq c.stood
    BY <2>3
  <2> HIDE DEF c
  <2> QED
    BY <2>1, <2>4, <2>5, <2>6 DEF Current
<1> QED
  BY <1>1 DEF BenchInv, E!Overtaken

LEMMA StaffNext ==
    ASSUME StaffInv, E!Next
    PROVE  StaffInv'
<1> USE DEF StaffInv
<1>1. ASSUME NEW h \in Handlers, E!ReadEmployee(h)
      PROVE  StaffInv'
  <2> DEFINE g == E!Grounds(facts, blocks, policy)
             b == [at |-> "violations", f |-> facts, stale |-> FALSE, stood |-> g]
  <2>1. Evaluation(b) /\ Current(b) /\ Standing \subseteq b.stood
    BY GroundsFacts DEF Stages, Current, Evaluation, Witnessed, Standing
  <2>2. bench' = [bench EXCEPT ![h] = b] /\ UNCHANGED <<facts, blocks, policy, decision>>
    BY <1>1 DEF E!ReadEmployee
  <2> HIDE DEF b
  <2> QED
    BY <2>1, <2>2, Advances DEF WarrantedInv
<1>2. ASSUME NEW h \in Handlers, E!ReadViolations(h)
      PROVE  StaffInv'
  <2> DEFINE b == [at |-> "policy", f |-> bench[h].f, b |-> blocks, stale |-> bench[h].stale,
                   stood |-> bench[h].stood]
  <2>1. bench[h] # E!Idle /\ bench[h].at = "violations"
    BY <1>2 DEF E!ReadViolations, E!Idle
  <2>2. Evaluation(b) /\ (b.stale = FALSE => Current(b)) /\ Standing \subseteq b.stood
    BY <2>1, GroundsFacts DEF Stages, Current, BenchInv, Evaluation, Witnessed, Standing
  <2>3. bench' = [bench EXCEPT ![h] = b] /\ UNCHANGED <<facts, blocks, policy, decision>>
    BY <1>2 DEF E!ReadViolations
  <2> HIDE DEF b
  <2> QED
    BY <2>2, <2>3, Advances DEF WarrantedInv
<1>3. ASSUME NEW h \in Handlers, E!ReadPolicy(h)
      PROVE  StaffInv'
  <2> DEFINE b == [at |-> "deciding", f |-> bench[h].f, b |-> bench[h].b, p |-> policy,
                   housed |-> "home" \in facts, stale |-> bench[h].stale, stood |-> bench[h].stood]
  <2>1. bench[h] # E!Idle /\ bench[h].at = "policy"
    BY <1>3 DEF E!ReadPolicy, E!Idle
  <2>2. Evaluation(b) /\ (b.stale = FALSE => Current(b)) /\ Standing \subseteq b.stood
    BY <2>1, GroundsFacts DEF Stages, Current, BenchInv, Evaluation, Witnessed, Standing
  <2>3. bench' = [bench EXCEPT ![h] = b] /\ UNCHANGED <<facts, blocks, policy, decision>>
    BY <1>3 DEF E!ReadPolicy
  <2> HIDE DEF b
  <2> QED
    BY <2>2, <2>3, Advances DEF WarrantedInv
<1>4. ASSUME NEW h \in Handlers, E!Leave(h)
      PROVE  StaffInv'
  BY <1>4, Advances DEF E!Leave, WarrantedInv
<1>5. ASSUME NEW h \in Handlers, NEW d \in Decisions, E!Decide(h, d)
      PROVE  StaffInv'
  <2>1. bench[h] # E!Idle /\ bench[h].at = "deciding"
    BY <1>5 DEF E!Decide, E!Idle
  <2>2. PICK i :
            LET f == bench[h].f
                b == bench[h].b
                p == bench[h].p
            IN  decision' = [decision EXCEPT ![d] =
                    [outcome |-> E!Outcome(E!Band(f, b, i, p), p),
                     source |-> "auto_rules",
                     warranted |-> policy.mode = "live" /\ E!Band(facts, blocks, i, policy) = "green",
                     stale |-> bench[h].stale, stood |-> bench[h].stood]]
    BY <1>5 DEF E!Decide
  <2> DEFINE band == E!Band(bench[h].f, bench[h].b, i, bench[h].p)
             now == E!Band(facts, blocks, i, policy)
             row == [outcome |-> E!Outcome(band, bench[h].p), source |-> "auto_rules",
                     warranted |-> policy.mode = "live" /\ now = "green",
                     stale |-> bench[h].stale, stood |-> bench[h].stood]
  <2>3. decision' = [decision EXCEPT ![d] = row]
    BY <2>2
  <2>4. ASSUME row.outcome = "approved", row.stale = FALSE
        PROVE  row.warranted = TRUE
    <3>1. bench[h].f = facts /\ bench[h].b = blocks /\ bench[h].p = policy
      BY <2>1, <2>4 DEF BenchInv, Current
    <3>2. band = now
      BY <3>1
    <3>3. E!Outcome(band, policy) = "approved"
      BY <2>4, <3>1
    <3>4. band = "green" /\ policy.mode = "live"
      BY <3>3 DEF E!Outcome
    <3>5. row.warranted = (policy.mode = "live" /\ now = "green")
      OBVIOUS
    <3> QED
      BY <3>2, <3>4, <3>5
  <2>7. ASSUME row.outcome = "approved"
        PROVE  row.stood = AllGrounds
    <3>1. E!Outcome(band, bench[h].p) = "approved"
      BY <2>7
    <3>2. /\ bench[h].p.mode = "live" /\ E!GatesPass(bench[h].f, {})
          /\ bench[h].b \cap E!Signals = {}
      BY <3>1, GreenFacts
    <3>3. Evaluation(bench[h])
      BY <2>1 DEF BenchInv
    <3>4. bench[h].stood = AllGrounds
      BY <2>1, <3>2, <3>3 DEF Evaluation, Witnessed, AllGrounds
    <3> QED
      BY <3>4
  <2> HIDE DEF row
  <2>5. WarrantedInv'
    BY <2>3, <2>4, <2>7 DEF WarrantedInv
  <2>6. BenchInv'
    BY <1>5, Advances DEF E!Decide
  <2> QED
    BY <2>5, <2>6
<1>6. ASSUME E!FileRecord(facts') \/ E!Sync(blocks') \/ E!PatchPolicy(policy')
      PROVE  StaffInv'
  <2>1. UNCHANGED decision
    BY <1>6 DEF E!FileRecord, E!Sync, E!PatchPolicy
  <2>2. CASE E!FileRecord(facts')
    <3> DEFINE g == E!Grounds(facts', blocks, policy)
    <3>1. /\ bench' = E!Overtaken({"violations", "policy", "deciding"}, g)
          /\ UNCHANGED <<blocks, policy>>
      BY <2>2 DEF E!FileRecord
    <3>2. g \subseteq AllGrounds /\ g = Standing'
      BY <3>1, GroundsFacts DEF Standing
    <3> HIDE DEF g
    <3> QED
      BY <2>1, <3>1, <3>2, Overtakes DEF WarrantedInv, Stages
  <2>3. CASE E!Sync(blocks')
    <3> DEFINE g == E!Grounds(facts, blocks', policy)
    <3>1. bench' = E!Overtaken({"policy", "deciding"}, g) /\ UNCHANGED <<facts, policy>>
      BY <2>3 DEF E!Sync
    <3>2. g \subseteq AllGrounds /\ g = Standing'
      BY <3>1, GroundsFacts DEF Standing
    <3> HIDE DEF g
    <3> QED
      BY <2>1, <3>1, <3>2, Overtakes DEF WarrantedInv, Stages, Current
  <2>4. CASE E!PatchPolicy(policy')
    <3> DEFINE g == E!Grounds(facts, blocks, policy')
    <3>1. bench' = E!Overtaken({"deciding"}, g) /\ UNCHANGED <<facts, blocks>>
      BY <2>4 DEF E!PatchPolicy
    <3>2. g \subseteq AllGrounds /\ g = Standing'
      BY <3>1, GroundsFacts DEF Standing
    <3> HIDE DEF g
    <3> QED
      BY <2>1, <3>1, <3>2, Overtakes DEF WarrantedInv, Stages, Current
  <2> QED
    BY <1>6, <2>2, <2>3, <2>4
<1>7. ASSUME NEW d \in Decisions, NEW outcome \in {"approved", "rejected"}, E!Override(d, outcome)
      PROVE  StaffInv'
  <2> DEFINE row == [[decision[d] EXCEPT !.outcome = outcome] EXCEPT !.source = "human"]
  <2>1. decision' = [decision EXCEPT ![d] = row]
    BY <1>7, Zenon DEF E!Override
  <2>2. decision[d] # E!NoDecision /\ UNCHANGED <<facts, blocks, policy, bench>>
    BY <1>7 DEF E!Override
  <2>3. row.source # "auto_rules" \/ row = decision[d]
    OBVIOUS
  <2> HIDE DEF row
  <2>4. WarrantedInv'
    BY <2>1, <2>2, <2>3 DEF WarrantedInv
  <2>5. BenchInv'
    BY <2>2 DEF BenchInv, Current, Evaluation, Witnessed, Standing
  <2> QED
    BY <2>4, <2>5
<1>8. CASE E!Office
  <2>1. ASSUME NEW f \in Changes, E!FileRecord(f) PROVE E!FileRecord(facts')
    <3>1. facts' = f
      BY <2>1 DEF E!FileRecord
    <3> QED BY <2>1, <3>1
  <2>2. ASSUME NEW b \in SUBSET E!Signals, E!Sync(b) PROVE E!Sync(blocks')
    <3>1. blocks' = b
      BY <2>2 DEF E!Sync
    <3> QED BY <2>2, <3>1
  <2>3. ASSUME NEW p \in Patches, E!PatchPolicy(p) PROVE E!PatchPolicy(policy')
    <3>1. policy' = p
      BY <2>3 DEF E!PatchPolicy
    <3> QED BY <2>3, <3>1
  <2> QED
    BY <1>6, <1>7, <1>8, <2>1, <2>2, <2>3 DEF E!Office
<1> QED
  BY <1>1, <1>2, <1>3, <1>4, <1>5, <1>8 DEF E!Next, E!Handle

LEMMA StaffRests ==
    ASSUME StaffInv, UNCHANGED staffState
    PROVE  StaffInv'
BY DEF staffState, StaffInv, BenchInv, WarrantedInv, Current, Evaluation, Witnessed, Standing

-----------------------------------------------------------------------------
(* Together.                                                               *)

OnboardingInv == SettledInv /\ P!PlansTypeOK /\ StaffInv

LEMMA OnboardingKept ==
    ASSUME OnboardingInv, [OnboardingNext]_vars
    PROVE  OnboardingInv'
<1> USE DEF OnboardingInv
<1>1. CASE UNCHANGED vars
  BY <1>1, RegistrationRests, PlansRest, StaffRests DEF vars
<1>2. CASE RegistrationStep
  BY <1>2, RegistrationNext, PlansRest, StaffRests DEF RegistrationStep, Next
<1>3. CASE PlanStep
  BY <1>3, RegistrationRests, PlansNext, StaffRests DEF PlanStep, P!Next
<1>4. CASE StaffStep
  BY <1>4, RegistrationRests, PlansRest, StaffNext DEF StaffStep, E!Next
<1> QED
  BY <1>1, <1>2, <1>3, <1>4 DEF OnboardingNext

LEMMA OnboardingInvariant == OnboardingSpec => []OnboardingInv
<1>1. OnboardingInit => OnboardingInv
  BY RegistrationStart, PlansStart, StaffStart DEF OnboardingInit, OnboardingInv
<1> QED
  BY <1>1, OnboardingKept, PTL DEF OnboardingSpec

(* An entry with an account has one, and one approved request and no live    *)
(* one, unless handlers of the entry overlapped when it was made.           *)
THEOREM Settles == OnboardingSpec => []SettledUnlessRaced
<1>1. OnboardingInv => SettledUnlessRaced
  <2> SUFFICES ASSUME OnboardingInv, accounts # {}, ~ raced
               PROVE  Settled
    BY DEF SettledUnlessRaced, Settled
  <2>1. raced = FALSE
    BY DEF OnboardingInv, SettledInv, RegistrationTypes
  <2> QED
    BY <2>1 DEF OnboardingInv, SettledInv
<1> QED
  BY <1>1, OnboardingInvariant, PTL

(* An approved plan goes only at the hand of a proposal that read it before  *)
(* it was approved.                                                         *)
THEOREM PlansLocked == OnboardingSpec => ApprovedPlansLocked
<1>1. ASSUME OnboardingInv, [OnboardingNext]_vars
      PROVE  [P!KeepsApproved]_planState
  <2>1. CASE UNCHANGED planState
    BY <2>1
  <2>2. CASE P!Next
    BY <1>1, <2>2, PlansNext DEF OnboardingInv
  <2> QED
    BY <1>1, <2>1, <2>2 DEF OnboardingNext, RegistrationStep, PlanStep, StaffStep, P!Next, vars
<1>2. OnboardingSpec => [][P!KeepsApproved]_planState
  BY <1>1, OnboardingInvariant, PTL DEF OnboardingSpec
<1> QED
  BY <1>2 DEF ApprovedPlansLocked

(* What the rules approved they would approve on the facts as they stood     *)
(* when it was recorded, unless one of them changed after it was read; and   *)
(* even then each ground stood at some moment of the evaluation.            *)
THEOREM ApprovalsAreWarranted == OnboardingSpec => []ApprovalsWarranted
<1>1. OnboardingInv => ApprovalsWarranted
  <2> SUFFICES ASSUME OnboardingInv, NEW d \in Decisions,
                      decision[d] # E!NoDecision, decision[d].outcome = "approved",
                      decision[d].source = "auto_rules"
               PROVE  /\ decision[d].stale \/ decision[d].warranted
                      /\ decision[d].stood = AllGrounds
    BY DEF ApprovalsWarranted, E!ApprovalsWarranted, AllGrounds
  <2> QED
    BY DEF OnboardingInv, StaffInv, WarrantedInv
<1> QED
  BY <1>1, OnboardingInvariant, PTL
=============================================================================
