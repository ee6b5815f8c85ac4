-------------------------- MODULE AuthSessionsProofs --------------------------
(***************************************************************************)
(* Theorems about AuthSessions, for any number of tokens, single sign-on    *)
(* flows, handlers and changes of the password.                            *)
(***************************************************************************)
EXTENDS AuthSessions, TLAPS

\* Jobs that have read an account they will issue a session for.
Granting(h) == job[h].at \in {"refreshing", "issuing"}

\* The token or flow that a job will replace by a session.
Hand(h) == IF job[h].at \in {"refreshing", "issuing", "returning"} THEN job[h].from ELSE NoToken

\* What can be replaced no more.
Spent(x) == IF x \in Tokens THEN row[x] = "revoked" ELSE flow[x] = "gone"

-----------------------------------------------------------------------------
\* A running handler that is marked as overlapping is otherwise unchanged.
LEMMA Marked ==
    ASSUME NEW j \in Jobs, j.at \notin {"idle", "changed"}
    PROVE  /\ [j EXCEPT !.over = TRUE] \in Jobs
           /\ [j EXCEPT !.over = TRUE].at = j.at
           /\ [j EXCEPT !.over = TRUE].from = j.from
           /\ [j EXCEPT !.over = TRUE].epoch = j.epoch
           /\ [j EXCEPT !.over = TRUE].over
<1> DEFINE R == [at : {"refreshing", "leaving"}, from : Tokens, epoch : Nat, over : BOOLEAN]
           F == [at : {"returning"}, from : Flows, epoch : Nat, over : BOOLEAN]
           I == [at : {"issuing"}, from : Tokens \cup Flows \cup {NoToken}, epoch : Nat, over : BOOLEAN]
           C == [at : {"changing"}, from : {NoToken}, epoch : Nat, over : BOOLEAN]
           k == [j EXCEPT !.over = TRUE]
<1>1. ASSUME NEW A, NEW B, j \in [at : A, from : B, epoch : Nat, over : BOOLEAN]
      PROVE  /\ k \in [at : A, from : B, epoch : Nat, over : BOOLEAN]
             /\ k.at = j.at /\ k.from = j.from /\ k.epoch = j.epoch /\ k.over
  BY <1>1
<1>2. j \in R \cup F \cup I \cup C
  BY DEF Jobs, Idle
<1> HIDE DEF k
<1>3. k \in R \cup F \cup I \cup C /\ k.at = j.at /\ k.from = j.from /\ k.epoch = j.epoch /\ k.over
  <2>1. CASE j \in R
    BY <1>1, <2>1
  <2>2. CASE j \in F
    BY <1>1, <2>2
  <2>3. CASE j \in I
    BY <1>1, <2>3
  <2>4. CASE j \in C
    BY <1>1, <2>4
  <2> QED BY <1>2, <2>1, <2>2, <2>3, <2>4
<1> QED
  BY <1>3 DEF k, Jobs

(* Every state is well typed, a token that is being replaced is revoked and *)
(* a flow that was answered is gone.                                        *)
LEMMA TypeStep == SessionsTypeOK /\ [Next]_sessionVars => SessionsTypeOK'
<1>. SUFFICES ASSUME SessionsTypeOK, [Next]_sessionVars
              PROVE  SessionsTypeOK'
  OBVIOUS
<1>. USE DEF SessionsTypeOK, Jobs, Idle, Running, Changing
<1>1. ASSUME NEW h \in Handlers, Login(h)
      PROVE  SessionsTypeOK'
  BY <1>1, TokensAssumption DEF Login, Begin, Job
<1>2. ASSUME NEW h \in Handlers, NEW t \in Tokens, RefreshLookup(h, t)
      PROVE  SessionsTypeOK'
  BY <1>2, TokensAssumption DEF RefreshLookup, Begin, Job, InHand
<1>3. ASSUME NEW h \in Handlers, RefreshRevoke(h)
      PROVE  SessionsTypeOK'
  BY <1>3 DEF RefreshRevoke
<1>4. ASSUME NEW h \in Handlers, NEW t \in Tokens, Issue(h, t)
      PROVE  SessionsTypeOK'
  BY <1>4 DEF Issue
<1>5. ASSUME NEW h \in Handlers, NEW t \in Tokens, LogoutLookup(h, t)
      PROVE  SessionsTypeOK'
  BY <1>5 DEF LogoutLookup, Begin, Job
<1>6. ASSUME NEW h \in Handlers, LogoutRevoke(h)
      PROVE  SessionsTypeOK'
  BY <1>6 DEF LogoutRevoke
<1>7. ASSUME NEW t \in Tokens, Expire(t)
      PROVE  SessionsTypeOK'
  BY <1>7 DEF Expire
<1>8. ASSUME NEW h \in Handlers, ChangeVerify(h)
      PROVE  SessionsTypeOK'
  BY <1>8, TokensAssumption DEF ChangeVerify, Begin, Job
<1>9. ASSUME NEW h \in Handlers, ChangeWrite(h)
      PROVE  SessionsTypeOK'
  <2>1. ASSUME NEW g \in Handlers
        PROVE  /\ job'[g] \in Jobs
               /\ \A t \in Tokens : job'[g].at = "issuing" /\ job'[g].from = t => row[t] = "revoked"
    <3>1. CASE g = h
      BY <1>9, <3>1 DEF ChangeWrite
    <3>2. CASE g # h /\ Running(g)
      <4>1. job'[g] = [job[g] EXCEPT !.over = TRUE]
        BY <1>9, <3>2 DEF ChangeWrite
      <4>2. job[g] \in Jobs /\ job[g].at \notin {"idle", "changed"}
        BY <1>9, <3>2 DEF ChangeWrite
      <4>3. /\ job'[g] \in Jobs
            /\ job'[g].at = job[g].at
            /\ job'[g].from = job[g].from
        BY <4>1, <4>2, Marked
      <4> QED BY <4>3
    <3>3. CASE g # h /\ ~ Running(g)
      <4>1. job'[g] = job[g]
        BY <1>9, <3>3 DEF ChangeWrite
      <4> QED BY <4>1
    <3> QED BY <3>1, <3>2, <3>3
  <2>2. job' \in [Handlers -> Jobs]
    BY <1>9, <2>1 DEF ChangeWrite
  <2> QED BY <1>9, <2>1, <2>2 DEF ChangeWrite
<1>10. ASSUME NEW h \in Handlers, ChangeCommit(h)
       PROVE  SessionsTypeOK'
  BY <1>10 DEF ChangeCommit
<1>11. ASSUME NEW f \in Flows, Authorize(f)
       PROVE  SessionsTypeOK'
  BY <1>11 DEF Authorize
<1>12. ASSUME NEW f \in Flows, FlowExpires(f)
       PROVE  SessionsTypeOK'
  BY <1>12 DEF FlowExpires
<1>13. ASSUME NEW h \in Handlers, NEW f \in Flows, Callback(h, f)
       PROVE  SessionsTypeOK'
  BY <1>13 DEF Callback, Begin, Job
<1>14. ASSUME NEW h \in Handlers, Match(h)
       PROVE  SessionsTypeOK'
  <2>1. job[h].from \in Flows
    BY <1>14 DEF Match
  <2> QED BY <1>14, <2>1, TokensAssumption DEF Match, Begin, Job
<1>15. ASSUME NEW b \in BOOLEAN, SetStatus(b)
       PROVE  SessionsTypeOK'
  <2>1. ASSUME NEW g \in Handlers
        PROVE  /\ job'[g] \in Jobs
               /\ \A t \in Tokens : job'[g].at = "issuing" /\ job'[g].from = t => row[t] = "revoked"
    <3>1. CASE Granting(g)
      <4>1. job'[g] = [job[g] EXCEPT !.over = TRUE]
        BY <1>15, <3>1 DEF SetStatus, Granting
      <4>2. /\ job'[g] \in Jobs
            /\ job'[g].at = job[g].at
            /\ job'[g].from = job[g].from
        BY <3>1, <4>1, Marked DEF Granting
      <4> QED BY <4>2
    <3>2. CASE ~ Granting(g)
      <4>1. job'[g] = job[g]
        BY <1>15, <3>2 DEF SetStatus, Granting
      <4> QED BY <4>1
    <3> QED BY <3>1, <3>2
  <2>2. job' \in [Handlers -> Jobs]
    BY <1>15, <2>1 DEF SetStatus
  <2> QED BY <1>15, <2>1, <2>2 DEF SetStatus
<1>16. ASSUME NEW h \in Handlers, Fail(h)
       PROVE  SessionsTypeOK'
  BY <1>16 DEF Fail
<1>17. CASE UNCHANGED sessionVars
  BY <1>17 DEF sessionVars
<1>. QED
  BY <1>1, <1>2, <1>3, <1>4, <1>5, <1>6, <1>7, <1>8, <1>9, <1>10, <1>11, <1>12, <1>13,
     <1>14, <1>15, <1>16, <1>17 DEF Next, Handle

\* For any tokens, flows and handlers, every reachable state is well typed,
\* and a handler that will issue a token's successor has revoked the token.
THEOREM SessionsTyped == Spec => []SessionsTypeOK
<1>1. Init => SessionsTypeOK
  BY DEF Init, SessionsTypeOK, Jobs, Idle
<1> QED BY <1>1, TypeStep, PTL DEF Spec

-----------------------------------------------------------------------------
(* Successors.                                                             *)

\* The inductive invariant: what has a successor is spent, and nobody holds
\* it, unless it was shared; two hold one thing only if it was shared.
Succession ==
    /\ \A t \in Tokens : source[t] # NoToken => row[t] # "none"
    /\ \A t \in Tokens, x \in Tokens \cup Flows : source[t] = x => Spent(x)
    /\ \A t \in Tokens, h \in Handlers, x \in Tokens \cup Flows :
           source[t] = x /\ Hand(h) = x => x \in shared
    /\ \A g, h \in Handlers, x \in Tokens \cup Flows :
           g # h /\ Hand(g) = x /\ Hand(h) = x => x \in shared
    /\ \A h \in Handlers, f \in Flows : Hand(h) = f => Spent(f)
    /\ OneSuccessor

\* Steps that issue nothing and take nothing in hand.
LEMMA NothingTaken ==
    ASSUME SessionsTypeOK, Succession, UNCHANGED <<source, shared>>,
           \A h \in Handlers : Hand(h)' \in {Hand(h), NoToken},
           \A x \in Tokens \cup Flows : Spent(x) => Spent(x)',
           \A t \in Tokens : row[t] # "none" => row'[t] # "none"
    PROVE  Succession'
<1>1. NoToken \notin Tokens \cup Flows
  BY TokensAssumption
<1> QED
  BY <1>1 DEF Succession, OneSuccessor

LEMMA SuccessionStep ==
    ASSUME SessionsTypeOK, Succession, [Next]_sessionVars
    PROVE  Succession'
<1>a. NoToken \notin Tokens \cup Flows /\ Tokens \cap Flows = {}
  BY TokensAssumption
<1>b. /\ row \in [Tokens -> {"none", "live", "expired", "revoked"}]
      /\ flow \in [Flows -> {"none", "pending", "stale", "gone"}]
      /\ job \in [Handlers -> Jobs]
      /\ source \in [Tokens -> Tokens \cup Flows \cup {NoToken}]
  BY DEF SessionsTypeOK
<1>c. ASSUME NEW h \in Handlers, NEW k, job' = [job EXCEPT ![h] = k],
             k.at \notin {"refreshing", "issuing", "returning"} \/ k.from \in {Hand(h), NoToken}
      PROVE  \A g \in Handlers : Hand(g)' \in {Hand(g), NoToken}
  BY <1>b, <1>c DEF Hand
<1>1. ASSUME NEW h \in Handlers, NEW t \in Tokens, RefreshLookup(h, t)
      PROVE  Succession'
  <2>1. /\ row[t] = "live" /\ UNCHANGED <<row, flow, source>>
        /\ job' = [job EXCEPT ![h] = Job("refreshing", t, issued[t], Changing # {})]
        /\ shared' = IF InHand(t) = {} THEN shared ELSE shared \cup {t}
    BY <1>1 DEF RefreshLookup, Begin
  <2>2. \A g \in Handlers : Hand(g)' = IF g = h THEN t ELSE Hand(g)
    BY <1>b, <2>1 DEF Hand, Job
  <2>3. \A g \in Handlers : Hand(g) = t => t \in shared'
    <3>1. ASSUME NEW g \in Handlers, Hand(g) = t
          PROVE  g \in InHand(t)
      BY <1>a, <1>b, <3>1 DEF Hand, InHand, Jobs, Idle
    <3> QED BY <2>1, <3>1
  <2>4. ~ Spent(t) /\ \A x \in Tokens \cup Flows : Spent(x)' <=> Spent(x)
    BY <2>1 DEF Spent
  <2>5. shared \subseteq shared'
    BY <2>1
  <2> QED BY <1>a, <2>1, <2>2, <2>3, <2>4, <2>5 DEF Succession, OneSuccessor
<1>2. ASSUME NEW h \in Handlers, NEW f \in Flows, Callback(h, f)
      PROVE  Succession'
  <2>1. /\ flow[f] = "pending" /\ flow' = [flow EXCEPT ![f] = "gone"]
        /\ UNCHANGED <<row, source, shared>>
        /\ job' = [job EXCEPT ![h] = Job("returning", f, epoch, Changing # {})]
    BY <1>2 DEF Callback, Begin
  <2>2. \A g \in Handlers : Hand(g)' = IF g = h THEN f ELSE Hand(g)
    BY <1>b, <2>1 DEF Hand, Job
  <2>3. ~ Spent(f) /\ Spent(f)' /\ \A x \in Tokens \cup Flows : Spent(x) => Spent(x)'
    BY <1>a, <1>b, <2>1 DEF Spent
  <2> QED BY <1>a, <2>1, <2>2, <2>3 DEF Succession, OneSuccessor
<1>3. ASSUME NEW h \in Handlers, NEW t \in Tokens, Issue(h, t)
      PROVE  Succession'
  <2>1. /\ job[h].at = "issuing" /\ row[t] = "none"
        /\ row' = [row EXCEPT ![t] = "live"]
        /\ source' = [source EXCEPT ![t] = job[h].from]
        /\ job' = [job EXCEPT ![h] = Idle]
        /\ UNCHANGED <<flow, shared>>
    BY <1>3 DEF Issue
  <2>2. Hand(h) = job[h].from /\ \A g \in Handlers : Hand(g)' = IF g = h THEN NoToken ELSE Hand(g)
    BY <1>b, <2>1 DEF Hand, Idle
  <2>3. source[t] = NoToken
    BY <2>1 DEF Succession
  <2>4. /\ ~ Spent(t)
        /\ \A x \in Tokens \cup Flows : Spent(x) => Spent(x)'
        /\ \A x \in Tokens \cup Flows : Hand(h) = x => Spent(x)
    BY <1>a, <1>b, <2>1, <2>2 DEF Spent, SessionsTypeOK, Succession
  <2>5. \A u \in Tokens : source'[u] = IF u = t THEN Hand(h) ELSE source[u]
    BY <1>b, <2>1, <2>2
  <2>6. \A u \in Tokens : row[u] # "none" => row'[u] # "none"
    BY <1>b, <2>1
  <2>7. \A u \in Tokens : source'[u] # NoToken => row'[u] # "none"
    BY <1>b, <2>1, <2>5, <2>6 DEF Succession
  <2>8. \A u \in Tokens, x \in Tokens \cup Flows : source'[u] = x => Spent(x)'
    BY <2>4, <2>5 DEF Succession
  <2>9. \A u \in Tokens, g \in Handlers, x \in Tokens \cup Flows :
            source'[u] = x /\ Hand(g)' = x => x \in shared
    BY <1>a, <2>2, <2>5 DEF Succession
  <2>10. \A u \in Tokens : u # t /\ source[u] = Hand(h) /\ Hand(h) # NoToken => Hand(h) \in shared
    BY <1>b DEF Succession
  <2>11. OneSuccessor'
    BY <2>1, <2>5, <2>10 DEF Succession, OneSuccessor
  <2> QED BY <1>a, <2>1, <2>2, <2>4, <2>7, <2>8, <2>9, <2>11 DEF Succession
<1>4. ASSUME NEW h \in Handlers,
             \/ Login(h) \/ ChangeVerify(h) \/ LogoutRevoke(h) \/ RefreshRevoke(h)
             \/ ChangeCommit(h) \/ Match(h) \/ Fail(h)
             \/ \E t \in Tokens : LogoutLookup(h, t)
      PROVE  Succession'
  <2>1. \A g \in Handlers : Hand(g)' \in {Hand(g), NoToken}
    <3>1. CASE Login(h) \/ ChangeVerify(h)
      BY <3>1, <1>c DEF Login, ChangeVerify, Begin, Job
    <3>2. CASE LogoutRevoke(h) \/ ChangeCommit(h) \/ Fail(h)
      BY <3>2, <1>c DEF LogoutRevoke, ChangeCommit, Fail, Idle
    <3>3. CASE \E t \in Tokens : LogoutLookup(h, t)
      BY <3>3, <1>c DEF LogoutLookup, Begin, Job
    <3>4. CASE Match(h)
      BY <3>4, <1>c DEF Match, Begin, Job, Hand
    <3>5. CASE RefreshRevoke(h)
      BY <3>5, <1>b DEF RefreshRevoke, Hand, Jobs, Idle
    <3> QED BY <1>4, <3>1, <3>2, <3>3, <3>4, <3>5
  <2>2. /\ UNCHANGED <<source, shared, flow>>
        /\ \A t \in Tokens : /\ row[t] = "revoked" => row'[t] = "revoked"
                             /\ row[t] # "none" => row'[t] # "none"
    BY <1>4, <1>b DEF Login, ChangeVerify, LogoutRevoke, RefreshRevoke, ChangeCommit, Match, Fail,
                LogoutLookup
  <2> QED BY <2>1, <2>2, NothingTaken DEF Spent
<1>5. ASSUME NEW h \in Handlers, ChangeWrite(h)
      PROVE  Succession'
  <2>1. ASSUME NEW g \in Handlers
        PROVE  Hand(g)' \in {Hand(g), NoToken}
    <3>1. CASE g = h
      BY <1>5, <3>1 DEF ChangeWrite, Hand
    <3>2. CASE g # h /\ Running(g)
      <4>1. job'[g] = [job[g] EXCEPT !.over = TRUE] /\ job[g].at \notin {"idle", "changed"}
        BY <1>5, <3>2 DEF ChangeWrite, Changing, Running
      <4> QED BY <1>b, <4>1, Marked DEF Hand
    <3>3. CASE g # h /\ ~ Running(g)
      BY <1>5, <3>3 DEF ChangeWrite, Hand
    <3> QED BY <3>1, <3>2, <3>3
  <2> QED BY <1>5, <2>1, NothingTaken DEF ChangeWrite, Spent
<1>6. ASSUME NEW b \in BOOLEAN, SetStatus(b)
      PROVE  Succession'
  <2>1. ASSUME NEW g \in Handlers
        PROVE  Hand(g)' \in {Hand(g), NoToken}
    <3>1. CASE Granting(g)
      <4>1. job'[g] = [job[g] EXCEPT !.over = TRUE] /\ job[g].at \notin {"idle", "changed"}
        BY <1>6, <3>1 DEF SetStatus, Granting
      <4> QED BY <1>b, <4>1, Marked DEF Hand
    <3>2. CASE ~ Granting(g)
      BY <1>6, <3>2 DEF SetStatus, Hand, Granting
    <3> QED BY <3>1, <3>2
  <2> QED BY <1>6, <2>1, NothingTaken DEF SetStatus, Spent
<1>7. ASSUME \/ \E t \in Tokens : Expire(t)
             \/ \E f \in Flows : Authorize(f) \/ FlowExpires(f)
             \/ UNCHANGED sessionVars
      PROVE  Succession'
  <2>1. /\ UNCHANGED <<job, source, shared>>
        /\ \A t \in Tokens : /\ row[t] = "revoked" => row'[t] = "revoked"
                             /\ row[t] # "none" => row'[t] # "none"
        /\ \A f \in Flows : flow[f] = "gone" => flow'[f] = "gone"
    BY <1>7, <1>b DEF Expire, Authorize, FlowExpires, sessionVars
  <2>2. \A h \in Handlers : Hand(h)' = Hand(h)
    BY <2>1 DEF Hand
  <2> QED BY <2>1, <2>2, NothingTaken DEF Spent
<1> QED
  BY <1>1, <1>2, <1>3, <1>4, <1>5, <1>6, <1>7 DEF Next, Handle

\* Refresh rotates the token: for any tokens and handlers, a token has one
\* successor unless refreshes had it in hand together, and one single sign-on
\* yields one session.
THEOREM OneSuccessorEach == Spec => []OneSuccessor
<1>1. Init => Succession
  <2>1. Init => \A h \in Handlers : Hand(h) = NoToken
    BY DEF Init, Hand, Idle
  <2> QED BY <2>1, TokensAssumption DEF Init, Succession, OneSuccessor
<1>2. Succession => OneSuccessor
  BY DEF Succession
<1> QED BY <1>1, <1>2, SuccessionStep, SessionsTyped, PTL DEF Spec

-----------------------------------------------------------------------------
(* Old sessions.                                                           *)

\* The inductive invariant.  While a change of the password is uncommitted
\* every other handler is marked; an unmarked handler grants by the password
\* and the status in force; a change will revoke all that is not marked.
Ages ==
    /\ \A g, h \in Handlers :
           g \in Changing /\ Running(h) /\ job[h].at # "changed" => job[h].over
    /\ \A h \in Handlers :
           Granting(h) /\ ~ job[h].over =>
               /\ active
               /\ job[h].from \in late \/ job[h].epoch = epoch
    /\ \A h \in Changing, t \in Tokens : row[t] \in Unrevoked => t \in job[h].revoked \cup late
    /\ OldSessionsGone

LEMMA AgesStep ==
    ASSUME SessionsTypeOK, Ages, [Next]_sessionVars
    PROVE  Ages'
<1>b. /\ row \in [Tokens -> {"none", "live", "expired", "revoked"}]
      /\ job \in [Handlers -> Jobs]
      /\ issued \in [Tokens -> Nat]
      /\ epoch \in Nat
      /\ cold \subseteq Tokens /\ late \subseteq Tokens
  BY DEF SessionsTypeOK
<1>c. NoToken \notin Tokens
  BY TokensAssumption
<1> USE DEF Ages, OldSessionsGone, Changing, Running, Granting, Unrevoked
\* Handlers begin or end, and change no row.
<1>d. ASSUME NEW h \in Handlers, NEW k, job' = [job EXCEPT ![h] = k]
      PROVE  \A g \in Handlers : job'[g] = IF g = h THEN k ELSE job[g]
  BY <1>b, <1>d
<1>e. ASSUME NEW h \in Handlers, NEW at, NEW from, NEW e, Begin(h, at, from, e), at # "changed",
             at \in {"refreshing", "issuing"} => active /\ (from \in late \/ e = epoch),
             UNCHANGED <<row, epoch, active, issued, cold, late>>
      PROVE  Ages'
  <2>1. \A g \in Handlers : job'[g] = IF g = h THEN Job(at, from, e, Changing # {}) ELSE job[g]
    BY <1>d, <1>e DEF Begin
  <2>2. /\ Job(at, from, e, Changing # {}).at = at
        /\ Job(at, from, e, Changing # {}).from = from
        /\ Job(at, from, e, Changing # {}).epoch = e
        /\ Job(at, from, e, Changing # {}).over = (Changing # {})
    BY DEF Job
  <2> HIDE DEF Job
  <2>3. \A g \in Handlers : g \in Changing' => g \in Changing /\ job'[g] = job[g]
    BY <2>1, <2>2, <1>e
  <2> QED BY <2>1, <2>2, <2>3, <1>e, <1>b
<1>1. ASSUME NEW h \in Handlers, Login(h) \/ ChangeVerify(h) \/ Match(h) \/ Fail(h)
      PROVE  Ages'
  <2>1. CASE Login(h) \/ ChangeVerify(h) \/ Match(h)
    BY <2>1, <1>e DEF Login, ChangeVerify, Match
  <2>2. CASE Fail(h)
    BY <2>2, <1>d, <1>b DEF Fail, Idle
  <2> QED BY <1>1, <2>1, <2>2
<1>2. ASSUME NEW h \in Handlers, NEW t \in Tokens, RefreshLookup(h, t) \/ LogoutLookup(h, t)
      PROVE  Ages'
  <2>1. row[t] = "live" => t \in late \/ issued[t] = epoch
    OBVIOUS
  <2> QED BY <1>2, <1>e, <2>1 DEF RefreshLookup, LogoutLookup
<1>3. ASSUME NEW h \in Handlers, NEW f \in Flows, Callback(h, f)
      PROVE  Ages'
  BY <1>3, <1>e DEF Callback
\* Rows are revoked or expire.
<1>4. ASSUME NEW h \in Handlers, RefreshRevoke(h) \/ LogoutRevoke(h)
      PROVE  Ages'
  <2>1. CASE RefreshRevoke(h)
    <3>1. job[h].at = "refreshing" /\ job' = [job EXCEPT ![h].at = "issuing"]
      BY <2>1 DEF RefreshRevoke
    <3>2. /\ job'[h].at = "issuing" /\ job'[h].from = job[h].from
          /\ job'[h].over = job[h].over /\ job'[h].epoch = job[h].epoch
          /\ \A g \in Handlers \ {h} : job'[g] = job[g]
      BY <1>b, <3>1 DEF Jobs, Idle
    <3>3. /\ UNCHANGED <<epoch, active, issued, cold, late>>
          /\ \A t \in Tokens : row'[t] \in {row[t], "revoked"}
      BY <1>b, <2>1 DEF RefreshRevoke
    <3> QED BY <3>1, <3>2, <3>3, <1>b
  <2>2. CASE LogoutRevoke(h)
    <3>1. \A g \in Handlers : job'[g] = IF g = h THEN Idle ELSE job[g]
      BY <2>2, <1>d DEF LogoutRevoke
    <3>2. /\ UNCHANGED <<epoch, active, issued, cold, late>>
          /\ \A t \in Tokens : row'[t] \in {row[t], "revoked"}
      BY <1>b, <2>2 DEF LogoutRevoke
    <3> QED BY <3>1, <3>2, <1>b DEF Idle
  <2> QED BY <1>4, <2>1, <2>2
<1>5. ASSUME NEW t \in Tokens, Expire(t)
      PROVE  Ages'
  BY <1>5, <1>b DEF Expire
<1>6. ASSUME NEW h \in Handlers, NEW t \in Tokens, Issue(h, t)
      PROVE  Ages'
  BY <1>6, <1>b, <1>c DEF Issue, Idle
\* The password and the status.
<1>7. ASSUME NEW h \in Handlers, ChangeWrite(h)
      PROVE  Ages'
  <2>1. \A g \in Handlers :
            IF g = h THEN job'[g] = [at |-> "changed", revoked |-> {t \in Tokens : row[t] \in Unrevoked}]
            ELSE IF Running(g) THEN job'[g].over /\ job'[g].at = job[g].at
            ELSE job'[g] = job[g]
    <3>1. ASSUME NEW g \in Handlers, g # h, Running(g)
          PROVE  job'[g].over /\ job'[g].at = job[g].at
      <4>1. job'[g] = [job[g] EXCEPT !.over = TRUE] /\ job[g].at \notin {"idle", "changed"}
        BY <1>7, <3>1 DEF ChangeWrite
      <4> QED BY <1>b, <4>1, Marked
    <3> QED BY <1>7, <3>1 DEF ChangeWrite
  <2>2. UNCHANGED <<row, epoch, active, issued, cold, late>>
    BY <1>7 DEF ChangeWrite
  <2>3. \A g \in Handlers : job[g].at # "changed"
    BY <1>7 DEF ChangeWrite
  <2>4. /\ job'[h].at = "changed"
        /\ job'[h].revoked = {t \in Tokens : row[t] \in Unrevoked}
        /\ \A g \in Handlers \ {h} : /\ job'[g].at = job[g].at
                                     /\ job[g].at # "idle" => job'[g].over
    <3>1. job'[h] = [at |-> "changed", revoked |-> {t \in Tokens : row[t] \in Unrevoked}]
      BY <2>1
    <3>2. ASSUME NEW g \in Handlers \ {h}
          PROVE  job'[g].at = job[g].at /\ (job[g].at # "idle" => job'[g].over)
      BY <2>1
    <3> QED BY <3>1, <3>2
  <2> HIDE DEF OldSessionsGone
  <2>5. OldSessionsGone'
    BY <2>2 DEF OldSessionsGone
  <2> QED BY <2>2, <2>3, <2>4, <2>5
<1>8. ASSUME NEW h \in Handlers, ChangeCommit(h)
      PROVE  Ages'
  BY <1>8, <1>b DEF ChangeCommit, Idle
<1>9. ASSUME NEW b \in BOOLEAN, SetStatus(b)
      PROVE  Ages'
  <2>1. \A g \in Handlers :
            IF Granting(g) THEN job'[g].over /\ job'[g].at = job[g].at ELSE job'[g] = job[g]
    <3>1. ASSUME NEW g \in Handlers, Granting(g)
          PROVE  job'[g].over /\ job'[g].at = job[g].at
      <4>1. job'[g] = [job[g] EXCEPT !.over = TRUE] /\ job[g].at \notin {"idle", "changed"}
        BY <1>9, <3>1 DEF SetStatus
      <4> QED BY <1>b, <4>1, Marked
    <3> QED BY <1>9, <3>1 DEF SetStatus
  <2>2. UNCHANGED <<row, epoch, issued, cold, late>>
    BY <1>9 DEF SetStatus
  <2> QED BY <2>1, <2>2, <1>b
<1>10. ASSUME \/ \E f \in Flows : Authorize(f) \/ FlowExpires(f)
              \/ UNCHANGED sessionVars
       PROVE  Ages'
  BY <1>10 DEF Authorize, FlowExpires, sessionVars
<1> QED
  BY <1>1, <1>2, <1>3, <1>4, <1>5, <1>6, <1>7, <1>8, <1>9, <1>10 DEF Next, Handle

\* "Force re-login on other devices after a password change", for any number
\* of tokens, handlers and changes: a session of an earlier password, or of an
\* inactive account, was issued by a handler that overlapped the change.
THEOREM OldSessionsAreGone == Spec => []OldSessionsGone
<1>1. Init => Ages
  BY DEF Init, Ages, OldSessionsGone, Changing, Running, Granting, Idle
<1>2. Ages => OldSessionsGone
  BY DEF Ages
<1> QED BY <1>1, <1>2, AgesStep, SessionsTyped, PTL DEF Spec
=============================================================================
