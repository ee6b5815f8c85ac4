------------------------ MODULE NotificationOutboxProofs ------------------------
(***************************************************************************)
(* Theorems about NotificationOutbox, for any number of messages and       *)
(* workers, any batch size, retry budget and number of faults.             *)
(***************************************************************************)
EXTENDS NotificationOutbox, FiniteSetTheorems, TLAPS

\* What a worker has claimed is a finite set, so that it can be counted.
ClaimedFinite == \A w \in Workers : IsFiniteSet(claimed[w])

\* A row the workers may take has an attempt left.
BudgetLeft ==
    \A m \in Messages :
        /\ status[m] = "none" => attempts[m] = 0
        /\ status[m] = "queued" => attempts[m] < MaxAttempts

Typed == TypeOK /\ ClaimedFinite /\ BudgetLeft

-----------------------------------------------------------------------------
(* The operators.                                                          *)

\* planRetry() ends within the budget, and requeues only what has one left.
LEMMA PlanRetryWithinBudget ==
    ASSUME NEW previous \in 0..(MaxAttempts - 1), NEW ok \in BOOLEAN
    PROVE  /\ PlanRetry(previous, ok).status \in {"queued", "sent", "failed"}
           /\ PlanRetry(previous, ok).attempts = previous + 1
           /\ previous + 1 \in 0..MaxAttempts
           /\ PlanRetry(previous, ok).status = "queued" => previous + 1 < MaxAttempts
           /\ PlanRetry(previous, ok).status = "sent" <=> ok
           /\ PlanRetry(previous, ok).status = "failed" => previous + 1 = MaxAttempts
  BY OutboxAssumption DEF PlanRetry

\* A delivery to be recorded is that of a row the worker still holds.
LEMMA ResultType ==
    ASSUME TypeOK, NEW w \in Workers, result[w] # NoResult
    PROVE  /\ result[w].row \in claimed[w]
           /\ result[w].row \in Row
           /\ result[w].row.msg \in Messages
           /\ result[w].row.attempts \in 0..(MaxAttempts - 1)
           /\ result[w].ok \in BOOLEAN
  BY DEF TypeOK, Row

\* Reading a row's id and attempts for every message of a batch yields no more
\* rows than the batch has messages.
LEMMA BatchCounted ==
    ASSUME NEW batch \in SUBSET Messages
    PROVE  LET rows == {[msg |-> m, attempts |-> attempts[m]] : m \in batch}
           IN  IsFiniteSet(rows) /\ Cardinality(rows) <= Cardinality(batch)
<1> DEFINE rows == {[msg |-> m, attempts |-> attempts[m]] : m \in batch}
           f == [m \in batch |-> [msg |-> m, attempts |-> attempts[m]]]
<1>1. IsFiniteSet(batch)
  BY OutboxAssumption, FS_Subset
<1>2. f \in Surjection(batch, rows)
  BY DEF Surjection
<1> HIDE DEF f, rows
<1>3. IsFiniteSet(rows) /\ Cardinality(rows) <= Cardinality(batch)
  BY <1>1, <1>2, FS_Surjection
<1> QED
  BY <1>3 DEF rows

-----------------------------------------------------------------------------
(* Type correctness.                                                       *)

LEMMA InitTyped == Init => Typed
<1> SUFFICES ASSUME Init PROVE Typed
  OBVIOUS
<1>1. IsFiniteSet({}) /\ Cardinality({}) = 0
  BY FS_EmptySet
<1>2. \A w \in Workers : claimed[w] = {} /\ result[w] = NoResult
  BY DEF Init
<1>3. TypeOK
  BY <1>1, <1>2, OutboxAssumption DEF Init, TypeOK
<1>4. ClaimedFinite
  BY <1>1, <1>2 DEF ClaimedFinite
<1>5. BudgetLeft
  BY DEF Init, BudgetLeft
<1> QED
  BY <1>3, <1>4, <1>5 DEF Typed

LEMMA ClaimTyped ==
    ASSUME Typed, NEW w \in Workers, Claim(w)
    PROVE  Typed'
<1> USE DEF Typed
<1>1. PICK batch \in SUBSET Due \ {{}} :
        /\ Cardinality(batch) <= BatchSize
        /\ claimed' = [claimed EXCEPT ![w] = {[msg |-> m, attempts |-> attempts[m]] : m \in batch}]
        /\ due' = [m \in Messages |-> due[m] /\ m \notin batch]
  BY DEF Claim
<1> DEFINE rows == {[msg |-> m, attempts |-> attempts[m]] : m \in batch}
<1>2. UNCHANGED <<status, attempts, result, sender, faults, tries, accepted, overrun>>
      /\ result[w] = NoResult
  BY DEF Claim, history
<1>3. batch \in SUBSET Messages
  BY <1>1 DEF Due
<1>4. IsFiniteSet(batch) /\ Cardinality(batch) \in Nat
  BY <1>3, OutboxAssumption, FS_Subset, FS_CardinalityType
<1>5. IsFiniteSet(rows) /\ Cardinality(rows) <= Cardinality(batch)
  BY <1>3, BatchCounted
<1>6. Cardinality(rows) <= BatchSize
  <2>1. Cardinality(rows) \in Nat
    BY <1>5, FS_CardinalityType
  <2> QED BY <1>1, <1>4, <1>5, <2>1, OutboxAssumption
<1>7. \A m \in batch : attempts[m] \in 0..(MaxAttempts - 1)
  BY <1>1, <1>3, OutboxAssumption DEF TypeOK, BudgetLeft, Due
<1>8. rows \in SUBSET Row
  BY <1>3, <1>7 DEF Row
<1>9. \A r1, r2 \in rows : r1.msg = r2.msg => r1 = r2
  OBVIOUS
<1> HIDE DEF rows
<1>10. claimed' = [claimed EXCEPT ![w] = rows]
  BY <1>1 DEF rows
<1>11. claimed' \in [Workers -> SUBSET Row]
  BY <1>8, <1>10 DEF TypeOK
<1>12. ASSUME NEW v \in Workers
       PROVE  /\ IsFiniteSet(claimed'[v])
              /\ Cardinality(claimed'[v]) <= BatchSize
              /\ \A r1, r2 \in claimed'[v] : r1.msg = r2.msg => r1 = r2
              /\ result'[v] # NoResult => result'[v].row \in claimed'[v]
  <2>1. CASE v = w
    <3>1. claimed'[v] = rows
      BY <1>10, <2>1 DEF TypeOK
    <3> QED BY <3>1, <1>2, <1>5, <1>6, <1>9, <2>1
  <2>2. CASE v # w
    <3>1. claimed'[v] = claimed[v]
      BY <1>10, <2>2 DEF TypeOK
    <3> QED BY <3>1, <1>2 DEF TypeOK, ClaimedFinite
  <2> QED BY <2>1, <2>2
<1>13. due' \in [Messages -> BOOLEAN]
  BY <1>1 DEF TypeOK
<1>14. TypeOK'
  BY <1>2, <1>11, <1>12, <1>13 DEF TypeOK
<1>15. ClaimedFinite' /\ BudgetLeft'
  BY <1>2, <1>12 DEF ClaimedFinite, BudgetLeft
<1> QED
  BY <1>14, <1>15

LEMMA DeliverTyped ==
    ASSUME Typed, NEW w \in Workers, NEW row \in claimed[w], NEW ok \in BOOLEAN,
           Deliver(w, row, ok)
    PROVE  Typed'
<1> USE DEF Typed
<1>1. row \in Row /\ row.msg \in Messages
  BY DEF TypeOK, Row
<1>2. UNCHANGED <<status, attempts, due, claimed, sender, faults, overrun>>
  BY DEF Deliver
<1>3. tries' \in [Messages -> Nat] /\ accepted' \in [Messages -> Nat]
  BY <1>1 DEF Deliver, Provider, TypeOK
<1>4. result' = [result EXCEPT ![w] = [row |-> row, ok |-> ok]]
  BY DEF Deliver
<1>5. result' \in [Workers -> [row : Row, ok : BOOLEAN] \cup {NoResult}]
  BY <1>1, <1>4 DEF TypeOK
<1>6. \A v \in Workers : result'[v] # NoResult => result'[v].row \in claimed'[v]
  BY <1>2, <1>4 DEF TypeOK
<1>7. TypeOK'
  BY <1>2, <1>3, <1>5, <1>6 DEF TypeOK
<1>8. ClaimedFinite' /\ BudgetLeft'
  BY <1>2 DEF ClaimedFinite, BudgetLeft
<1> QED
  BY <1>7, <1>8

\* A worker's set of rows that only loses some stays one.
LEMMA FewerClaimed ==
    ASSUME Typed, NEW w \in Workers, NEW rows \in SUBSET claimed[w],
           claimed' = [claimed EXCEPT ![w] = rows],
           result' = [result EXCEPT ![w] = NoResult]
    PROVE  /\ claimed' \in [Workers -> SUBSET Row]
           /\ result' \in [Workers -> [row : Row, ok : BOOLEAN] \cup {NoResult}]
           /\ ClaimedFinite'
           /\ \A v \in Workers :
                 /\ Cardinality(claimed'[v]) <= BatchSize
                 /\ \A r1, r2 \in claimed'[v] : r1.msg = r2.msg => r1 = r2
                 /\ result'[v] # NoResult => result'[v].row \in claimed'[v]
<1> USE DEF Typed
<1>1. /\ claimed' \in [Workers -> SUBSET Row]
      /\ result' \in [Workers -> [row : Row, ok : BOOLEAN] \cup {NoResult}]
  BY DEF TypeOK
<1>2. IsFiniteSet(rows) /\ Cardinality(rows) <= BatchSize
  <2>1. IsFiniteSet(claimed[w]) /\ Cardinality(claimed[w]) <= BatchSize
    BY DEF ClaimedFinite, TypeOK
  <2>2. IsFiniteSet(rows) /\ Cardinality(rows) <= Cardinality(claimed[w])
    BY <2>1, FS_Subset
  <2>3. Cardinality(rows) \in Nat /\ Cardinality(claimed[w]) \in Nat
    BY <2>1, <2>2, FS_CardinalityType
  <2> QED BY <2>1, <2>2, <2>3, OutboxAssumption
<1>3. ASSUME NEW v \in Workers
      PROVE  /\ IsFiniteSet(claimed'[v])
             /\ Cardinality(claimed'[v]) <= BatchSize
             /\ \A r1, r2 \in claimed'[v] : r1.msg = r2.msg => r1 = r2
             /\ result'[v] # NoResult => result'[v].row \in claimed'[v]
  <2>1. CASE v = w
    <3>1. claimed'[v] = rows /\ result'[v] = NoResult
      BY <2>1 DEF TypeOK
    <3> QED BY <3>1, <1>2, <2>1 DEF TypeOK
  <2>2. CASE v # w
    <3>1. claimed'[v] = claimed[v] /\ result'[v] = result[v]
      BY <2>2 DEF TypeOK
    <3> QED BY <3>1 DEF TypeOK, ClaimedFinite
  <2> QED BY <2>1, <2>2
<1> QED
  BY <1>1, <1>3 DEF ClaimedFinite

LEMMA RecordTyped ==
    ASSUME Typed, NEW w \in Workers, Record(w)
    PROVE  Typed'
<1> USE DEF Typed
<1> DEFINE row == result[w].row
           plan == PlanRetry(row.attempts, result[w].ok)
<1>1. result[w] # NoResult
  BY DEF Record
<1>2. row.msg \in Messages /\ row.attempts \in 0..(MaxAttempts - 1) /\ result[w].ok \in BOOLEAN
  BY <1>1, ResultType
<1>3. /\ plan.status \in {"queued", "sent", "failed"}
      /\ plan.attempts \in 0..MaxAttempts
      /\ plan.status = "queued" => plan.attempts < MaxAttempts
  BY <1>2, PlanRetryWithinBudget
<1>4. /\ status' = [status EXCEPT ![row.msg] = plan.status]
      /\ attempts' = [attempts EXCEPT ![row.msg] = plan.attempts]
      /\ due' = [due EXCEPT ![row.msg] = plan.status # "queued"]
      /\ claimed' = [claimed EXCEPT ![w] = claimed[w] \ {row}]
      /\ result' = [result EXCEPT ![w] = NoResult]
      /\ UNCHANGED <<sender, faults, tries, accepted, overrun>>
  BY DEF Record, history
<1> HIDE DEF row, plan
<1>5. /\ status' \in [Messages -> {"none", "queued", "sent", "failed"}]
      /\ attempts' \in [Messages -> 0..MaxAttempts]
      /\ due' \in [Messages -> BOOLEAN]
  BY <1>2, <1>3, <1>4 DEF TypeOK
<1>6. claimed[w] \ {row} \in SUBSET claimed[w]
  OBVIOUS
<1>7. TypeOK' /\ ClaimedFinite'
  BY <1>4, <1>5, <1>6, FewerClaimed DEF TypeOK
<1>8. BudgetLeft'
  BY <1>2, <1>3, <1>4 DEF BudgetLeft, TypeOK
<1> QED
  BY <1>7, <1>8

LEMMA CutShortTyped ==
    ASSUME Typed, NEW w \in Workers, CutShort(w)
    PROVE  Typed'
<1> USE DEF Typed
<1>1. /\ claimed' = [claimed EXCEPT ![w] = {}]
      /\ result' = [result EXCEPT ![w] = NoResult]
      /\ faults < MaxFaults /\ faults' = faults + 1
      /\ overrun' = overrun \cup {row.msg : row \in claimed[w]}
      /\ UNCHANGED <<status, attempts, due, sender, tries, accepted>>
  BY DEF CutShort
<1>2. faults' \in 0..MaxFaults
  BY <1>1, OutboxAssumption DEF TypeOK
<1>3. overrun' \subseteq Messages
  BY <1>1 DEF TypeOK, Row
<1>4. {} \in SUBSET claimed[w]
  OBVIOUS
<1>5. TypeOK' /\ ClaimedFinite'
  BY <1>1, <1>2, <1>3, <1>4, FewerClaimed DEF TypeOK
<1>6. BudgetLeft'
  BY <1>1 DEF BudgetLeft
<1> QED
  BY <1>5, <1>6


LEMMA MessageStepTyped ==
    ASSUME Typed, NEW m \in Messages,
           \/ Enqueue(m) \/ SendInsert(m) \/ SendGoesOn(m) \/ SendCutShort(m) \/ BecomeDue(m)
    PROVE  Typed'
<1> USE DEF Typed
<1>1. CASE Enqueue(m)
  BY <1>1, OutboxAssumption DEF Enqueue, history, TypeOK, ClaimedFinite, BudgetLeft
<1>2. CASE SendInsert(m)
  BY <1>2, OutboxAssumption DEF SendInsert, history, TypeOK, ClaimedFinite, BudgetLeft
<1>3. ASSUME NEW ok \in BOOLEAN, SendDeliver(m, ok) PROVE Typed'
  BY <1>3 DEF SendDeliver, Provider, TypeOK, ClaimedFinite, BudgetLeft
<1>4. CASE SendRecord(m)
  BY <1>4 DEF SendRecord, history, TypeOK, ClaimedFinite, BudgetLeft
<1>5. CASE SendCutShort(m)
  BY <1>5, OutboxAssumption DEF SendCutShort, history, TypeOK, ClaimedFinite, BudgetLeft
<1>6. CASE BecomeDue(m)
  BY <1>6, OutboxAssumption DEF BecomeDue, TypeOK, ClaimedFinite, BudgetLeft
<1> QED
  BY <1>1, <1>2, <1>3, <1>4, <1>5, <1>6 DEF SendGoesOn

LEMMA TypedHolds == Spec => []Typed
<1>1. Typed /\ [Next]_vars => Typed'
  <2> SUFFICES ASSUME Typed, [Next]_vars PROVE Typed'
    OBVIOUS
  <2>1. ASSUME NEW w \in Workers, Claim(w) PROVE Typed'
    BY <2>1, ClaimTyped
  <2>2. ASSUME NEW w \in Workers, NEW row \in claimed[w], NEW ok \in BOOLEAN,
               Deliver(w, row, ok)
        PROVE  Typed'
    BY <2>2, DeliverTyped
  <2>3. ASSUME NEW w \in Workers, Record(w) PROVE Typed'
    BY <2>3, RecordTyped
  <2>4. ASSUME NEW w \in Workers, CutShort(w) PROVE Typed'
    BY <2>4, CutShortTyped
  <2>5. ASSUME NEW m \in Messages,
               \/ Enqueue(m) \/ SendInsert(m) \/ SendGoesOn(m)
               \/ SendCutShort(m) \/ BecomeDue(m)
        PROVE  Typed'
    BY <2>5, MessageStepTyped
  <2>6. CASE UNCHANGED vars
    BY <2>6 DEF vars, Typed, TypeOK, ClaimedFinite, BudgetLeft
  <2> QED
    BY <2>1, <2>2, <2>3, <2>4, <2>5, <2>6 DEF Next, Tick
<1> QED
  BY <1>1, InitTyped, PTL DEF Spec

\* The columns hold what they may, whatever steps are taken: attempts stays
\* within the budget and a tick holds at most a batch, each message once.
THEOREM OutboxTyped == Spec => []TypeOK
<1>1. Typed => TypeOK
  BY DEF Typed
<1> QED
  BY <1>1, TypedHolds, PTL

-----------------------------------------------------------------------------
(* 'sent' means accepted.                                                  *)

(* Wherever a success is written or waits to be written, the provider has   *)
(* accepted the message: the outcome travels with the row, not with the     *)
(* table, so overtaking writers cannot invent one.                          *)
SuccessWasAccepted ==
    /\ SentWasAccepted
    /\ \A w \in Workers : result[w].ok => accepted[result[w].row.msg] > 0
    /\ \A m \in Messages : sender[m] = "accepted" => accepted[m] > 0

\* A call of the provider is counted, and no earlier success is forgotten.
LEMMA ProviderCounts ==
    ASSUME TypeOK, NEW m \in Messages, NEW ok \in BOOLEAN, Provider(m, ok)
    PROVE  /\ ok => accepted'[m] > 0
           /\ tries'[m] = tries[m] + 1
           /\ \A n \in Messages : /\ accepted[n] > 0 => accepted'[n] > 0
                                  /\ tries'[n] \in Nat /\ tries[n] \in Nat
                                  /\ tries[n] <= tries'[n]
  BY DEF Provider, TypeOK

LEMMA WorkerStepHonest ==
    ASSUME Typed, SuccessWasAccepted, NEW w \in Workers, Tick(w) \/ CutShort(w)
    PROVE  SuccessWasAccepted'
<1> USE DEF Typed
<1>1. CASE Claim(w)
  BY <1>1 DEF Claim, history, SuccessWasAccepted, SentWasAccepted
<1>2. ASSUME NEW row \in claimed[w], NEW ok \in BOOLEAN, Deliver(w, row, ok)
      PROVE  SuccessWasAccepted'
  <2>1. row.msg \in Messages
    BY DEF TypeOK, Row
  <2>2. /\ result' = [result EXCEPT ![w] = [row |-> row, ok |-> ok]]
        /\ Provider(row.msg, ok)
        /\ UNCHANGED <<status, sender>>
    BY <1>2 DEF Deliver
  <2>3. /\ ok => accepted'[row.msg] > 0
        /\ \A n \in Messages : accepted[n] > 0 => accepted'[n] > 0
    BY <2>1, <2>2, ProviderCounts
  <2>4. ASSUME NEW v \in Workers, result'[v].ok
        PROVE  accepted'[result'[v].row.msg] > 0
    <3>1. CASE v = w
      BY <3>1, <2>2, <2>3, <2>4 DEF TypeOK
    <3>2. CASE v # w
      <4>1. result'[v] = result[v]
        BY <3>2, <2>2 DEF TypeOK
      <4>2. result[v] # NoResult
        BY <4>1, <2>4 DEF NoResult
      <4>3. result[v].row.msg \in Messages
        BY <4>2, ResultType
      <4> QED BY <4>1, <4>3, <2>3, <2>4 DEF SuccessWasAccepted
    <3> QED BY <3>1, <3>2
  <2> QED BY <2>2, <2>3, <2>4 DEF SuccessWasAccepted, SentWasAccepted
<1>3. CASE Record(w)
  <2>1. result[w] # NoResult
    BY <1>3 DEF Record
  <2> DEFINE m == result[w].row.msg
             plan == PlanRetry(result[w].row.attempts, result[w].ok)
  <2>2. m \in Messages /\ (plan.status = "sent" <=> result[w].ok)
    BY <2>1, ResultType, PlanRetryWithinBudget
  <2>3. /\ status' = [status EXCEPT ![m] = plan.status]
        /\ result' = [result EXCEPT ![w] = NoResult]
        /\ UNCHANGED <<sender, accepted>>
    BY <1>3 DEF Record, history
  <2> HIDE DEF plan
  <2>4. SentWasAccepted'
    BY <2>2, <2>3 DEF SuccessWasAccepted, SentWasAccepted, TypeOK
  <2> QED BY <2>3, <2>4 DEF SuccessWasAccepted, TypeOK, NoResult
<1>4. CASE CutShort(w)
  BY <1>4 DEF CutShort, SuccessWasAccepted, SentWasAccepted, TypeOK, NoResult
<1> QED
  BY <1>1, <1>2, <1>3, <1>4 DEF Tick

LEMMA MessageStepHonest ==
    ASSUME Typed, SuccessWasAccepted, NEW m \in Messages,
           \/ Enqueue(m) \/ SendInsert(m) \/ SendGoesOn(m) \/ SendCutShort(m) \/ BecomeDue(m)
    PROVE  SuccessWasAccepted'
<1> USE DEF Typed, SuccessWasAccepted, SentWasAccepted
<1>1. CASE Enqueue(m)
  BY <1>1 DEF Enqueue, history, TypeOK
<1>2. CASE SendInsert(m)
  BY <1>2 DEF SendInsert, history, TypeOK
<1>3. ASSUME NEW ok \in BOOLEAN, SendDeliver(m, ok) PROVE SuccessWasAccepted'
  <2>1. /\ sender' = [sender EXCEPT ![m] = IF ok THEN "accepted" ELSE "refused"]
        /\ Provider(m, ok)
        /\ UNCHANGED <<status, result>>
    BY <1>3 DEF SendDeliver
  <2>2. /\ ok => accepted'[m] > 0
        /\ \A n \in Messages : accepted[n] > 0 => accepted'[n] > 0
    BY <2>1, ProviderCounts
  <2>3. \A w \in Workers : result[w].ok => result[w].row.msg \in Messages
    BY ResultType DEF NoResult
  <2> QED BY <2>1, <2>2, <2>3 DEF TypeOK
<1>4. CASE SendRecord(m)
  BY <1>4 DEF SendRecord, history, TypeOK
<1>5. CASE SendCutShort(m)
  BY <1>5 DEF SendCutShort, history, TypeOK
<1>6. CASE BecomeDue(m)
  BY <1>6 DEF BecomeDue
<1> QED
  BY <1>1, <1>2, <1>3, <1>4, <1>5, <1>6 DEF SendGoesOn

\* A message marked 'sent' was accepted by its provider, whichever of the
\* workers and the send endpoint wrote last, with crashes and lapsed leases.
THEOREM Honest == Spec => []SentWasAccepted
<1>1. Init => SuccessWasAccepted
  BY DEF Init, SuccessWasAccepted, SentWasAccepted, NoResult
<1>2. Typed /\ SuccessWasAccepted /\ [Next]_vars => SuccessWasAccepted'
  <2> SUFFICES ASSUME Typed, SuccessWasAccepted, [Next]_vars PROVE SuccessWasAccepted'
    OBVIOUS
  <2>1. CASE UNCHANGED vars
    BY <2>1 DEF vars, SuccessWasAccepted, SentWasAccepted
  <2> QED
    BY <2>1, WorkerStepHonest, MessageStepHonest DEF Next
<1>3. SuccessWasAccepted => SentWasAccepted
  BY DEF SuccessWasAccepted
<1> QED
  BY <1>1, <1>2, <1>3, TypedHolds, PTL DEF Spec

-----------------------------------------------------------------------------
(* Nothing is given up early.                                              *)

(* Every count of attempts in the system, in the table or in a worker's     *)
(* memory, is one of calls that were made; so an old count that overwrites  *)
(* a newer one can only put the giving up off.                              *)
CountedWereMade ==
    /\ \A m \in Messages :
           /\ attempts[m] <= tries[m]
           /\ m \notin Inline /\ status[m] = "failed" => tries[m] >= MaxAttempts
           /\ sender[m] # "idle" => m \in Inline
    /\ \A w \in Workers :
           /\ \A row \in claimed[w] : row.attempts <= tries[row.msg]
           /\ result[w] # NoResult =>
                  result[w].row.attempts + 1 <= tries[result[w].row.msg]

LEMMA WorkerStepCounted ==
    ASSUME Typed, CountedWereMade, NEW w \in Workers, Tick(w) \/ CutShort(w)
    PROVE  CountedWereMade'
<1> USE DEF Typed
<1>1. CASE Claim(w)
  <2>1. PICK batch \in SUBSET Due \ {{}} :
            claimed' = [claimed EXCEPT ![w] = {[msg |-> m, attempts |-> attempts[m]] : m \in batch}]
    BY <1>1 DEF Claim
  <2>2. batch \subseteq Messages
    BY DEF Due
  <2>3. UNCHANGED <<status, attempts, result, sender, tries>>
    BY <1>1 DEF Claim, history
  <2>4. \A v \in Workers : \A row \in claimed'[v] : row.attempts <= tries[row.msg]
    <3> TAKE v \in Workers
    <3>1. CASE v = w
      BY <3>1, <2>1, <2>2 DEF CountedWereMade, TypeOK
    <3>2. CASE v # w
      BY <3>2, <2>1 DEF CountedWereMade, TypeOK
    <3> QED BY <3>1, <3>2
  <2> QED BY <2>3, <2>4 DEF CountedWereMade
<1>2. ASSUME NEW row \in claimed[w], NEW ok \in BOOLEAN, Deliver(w, row, ok)
      PROVE  CountedWereMade'
  <2>1. row.msg \in Messages /\ row.attempts \in Nat
    BY DEF TypeOK, Row
  <2>2. /\ result' = [result EXCEPT ![w] = [row |-> row, ok |-> ok]]
        /\ Provider(row.msg, ok)
        /\ UNCHANGED <<status, attempts, claimed, sender>>
    BY <1>2 DEF Deliver
  <2>3. /\ tries'[row.msg] = tries[row.msg] + 1
        /\ \A n \in Messages : tries'[n] \in Nat /\ tries[n] \in Nat /\ tries[n] <= tries'[n]
    BY <2>1, <2>2, ProviderCounts
  <2>4. \A m \in Messages :
            /\ attempts'[m] <= tries'[m]
            /\ m \notin Inline /\ status'[m] = "failed" => tries'[m] >= MaxAttempts
            /\ sender'[m] # "idle" => m \in Inline
    BY <2>2, <2>3, OutboxAssumption DEF CountedWereMade, TypeOK
  <2>5. ASSUME NEW v \in Workers, NEW r \in claimed'[v]
        PROVE  r.attempts <= tries'[r.msg]
    <3>1. r \in claimed[v] /\ r.msg \in Messages /\ r.attempts \in Nat
      BY <2>2, <2>5 DEF TypeOK, Row
    <3> QED BY <3>1, <2>3 DEF CountedWereMade
  <2>6. ASSUME NEW v \in Workers, result'[v] # NoResult
        PROVE  result'[v].row.attempts + 1 <= tries'[result'[v].row.msg]
    <3>1. CASE v = w
      <4>1. result'[v].row = row
        BY <3>1, <2>2 DEF TypeOK
      <4>2. row.attempts <= tries[row.msg]
        BY DEF CountedWereMade
      <4> QED BY <4>1, <4>2, <2>1, <2>3
    <3>2. CASE v # w
      <4>1. result'[v] = result[v]
        BY <3>2, <2>2 DEF TypeOK
      <4>2. result[v].row.msg \in Messages /\ result[v].row.attempts \in Nat
        BY <4>1, <2>6, ResultType
      <4> QED BY <4>1, <4>2, <2>3, <2>6 DEF CountedWereMade
    <3> QED BY <3>1, <3>2
  <2> QED BY <2>4, <2>5, <2>6 DEF CountedWereMade
<1>3. CASE Record(w)
  <2>1. result[w] # NoResult
    BY <1>3 DEF Record
  <2> DEFINE m == result[w].row.msg
             previous == result[w].row.attempts
             plan == PlanRetry(previous, result[w].ok)
  <2>2. /\ m \in Messages
        /\ plan.attempts = previous + 1
        /\ plan.status = "failed" => previous + 1 = MaxAttempts
    BY <2>1, ResultType, PlanRetryWithinBudget
  <2>3. previous + 1 <= tries[m]
    BY <2>1 DEF CountedWereMade
  <2>4. /\ status' = [status EXCEPT ![m] = plan.status]
        /\ attempts' = [attempts EXCEPT ![m] = plan.attempts]
        /\ claimed' = [claimed EXCEPT ![w] = @ \ {result[w].row}]
        /\ result' = [result EXCEPT ![w] = NoResult]
        /\ UNCHANGED <<sender, tries>>
    BY <1>3 DEF Record, history
  <2> HIDE DEF m, previous, plan
  <2>5. \A n \in Messages :
            /\ attempts'[n] <= tries'[n]
            /\ n \notin Inline /\ status'[n] = "failed" => tries'[n] >= MaxAttempts
            /\ sender'[n] # "idle" => n \in Inline
    BY <2>2, <2>3, <2>4 DEF CountedWereMade, TypeOK
  <2>6. \A v \in Workers :
            /\ \A row \in claimed'[v] : row.attempts <= tries'[row.msg]
            /\ result'[v] # NoResult =>
                  result'[v].row.attempts + 1 <= tries'[result'[v].row.msg]
    BY <2>4 DEF CountedWereMade, TypeOK
  <2> QED BY <2>5, <2>6 DEF CountedWereMade
<1>4. CASE CutShort(w)
  BY <1>4 DEF CutShort, CountedWereMade, TypeOK
<1> QED
  BY <1>1, <1>2, <1>3, <1>4 DEF Tick

LEMMA MessageStepCounted ==
    ASSUME Typed, CountedWereMade, NEW m \in Messages,
           \/ Enqueue(m) \/ SendInsert(m) \/ SendGoesOn(m) \/ SendCutShort(m) \/ BecomeDue(m)
    PROVE  CountedWereMade'
<1> USE DEF Typed
<1>1. CASE Enqueue(m)
  BY <1>1 DEF Enqueue, history, CountedWereMade, TypeOK
<1>2. CASE SendInsert(m)
  BY <1>2 DEF SendInsert, history, CountedWereMade, TypeOK
<1>3. ASSUME NEW ok \in BOOLEAN, SendDeliver(m, ok) PROVE CountedWereMade'
  <2>1. /\ sender[m] = "inserted"
        /\ sender' = [sender EXCEPT ![m] = IF ok THEN "accepted" ELSE "refused"]
        /\ Provider(m, ok)
        /\ UNCHANGED <<status, attempts, claimed, result>>
    BY <1>3 DEF SendDeliver
  <2>2. \A n \in Messages : tries'[n] \in Nat /\ tries[n] \in Nat /\ tries[n] <= tries'[n]
    BY <2>1, ProviderCounts
  <2>3. \A n \in Messages :
            /\ attempts'[n] <= tries'[n]
            /\ n \notin Inline /\ status'[n] = "failed" => tries'[n] >= MaxAttempts
            /\ sender'[n] # "idle" => n \in Inline
    BY <2>1, <2>2, OutboxAssumption DEF CountedWereMade, TypeOK
  <2>4. ASSUME NEW v \in Workers, NEW r \in claimed'[v]
        PROVE  r.attempts <= tries'[r.msg]
    <3>1. r \in claimed[v] /\ r.msg \in Messages /\ r.attempts \in Nat
      BY <2>1, <2>4 DEF TypeOK, Row
    <3> QED BY <3>1, <2>2 DEF CountedWereMade
  <2>5. ASSUME NEW v \in Workers, result'[v] # NoResult
        PROVE  result'[v].row.attempts + 1 <= tries'[result'[v].row.msg]
    <3>1. result'[v] = result[v] /\ result[v].row.msg \in Messages /\ result[v].row.attempts \in Nat
      BY <2>1, <2>5, ResultType
    <3> QED BY <3>1, <2>2, <2>5 DEF CountedWereMade
  <2> QED BY <2>3, <2>4, <2>5 DEF CountedWereMade
<1>4. CASE SendRecord(m)
  BY <1>4 DEF SendRecord, history, CountedWereMade, TypeOK
<1>5. CASE SendCutShort(m)
  BY <1>5 DEF SendCutShort, history, CountedWereMade, TypeOK
<1>6. CASE BecomeDue(m)
  BY <1>6 DEF BecomeDue, CountedWereMade
<1> QED
  BY <1>1, <1>2, <1>3, <1>4, <1>5, <1>6 DEF SendGoesOn

\* A row the workers alone handle is given up only after the provider was
\* called the allowed number of times, and its count never runs ahead of the
\* calls, even if workers whose lease ended overwrite one another.
THEOREM NeverGivenUpEarly == Spec => []GivenUpLate
<1>1. Init => CountedWereMade
  BY DEF Init, CountedWereMade
<1>2. Typed /\ CountedWereMade /\ [Next]_vars => CountedWereMade'
  <2> SUFFICES ASSUME Typed, CountedWereMade, [Next]_vars PROVE CountedWereMade'
    OBVIOUS
  <2>1. CASE UNCHANGED vars
    BY <2>1 DEF vars, CountedWereMade
  <2> QED
    BY <2>1, WorkerStepCounted, MessageStepCounted DEF Next
<1>3. CountedWereMade => GivenUpLate
  BY DEF CountedWereMade, GivenUpLate
<1> QED
  BY <1>1, <1>2, <1>3, TypedHolds, PTL DEF Spec

-----------------------------------------------------------------------------
(* At least once, and once where nothing went wrong.                       *)

(* The inductive invariant, for a message that the workers alone handle and *)
(* nobody has outlived: one worker has it, while its row is queued and not  *)
(* due, and a delivery that was accepted is recorded or with that worker.   *)
Unspoilt == Messages \ (Inline \cup overrun)

OneHolder ==
    \A m \in Unspoilt, v, w \in Workers : \A r1 \in claimed[v], r2 \in claimed[w] :
        r1.msg = m /\ r2.msg = m => v = w
HeldIsLeased ==
    \A m \in Unspoilt, w \in Workers : \A row \in claimed[w] :
        row.msg = m => ~ due[m] /\ status[m] = "queued"
Accepts(w, m) == result[w] # NoResult /\ result[w].row.msg = m /\ result[w].ok
AcceptedIsKept ==
    \A m \in Unspoilt :
        /\ accepted[m] <= 1
        /\ accepted[m] = 1 => status[m] = "sent" \/ \E w \in Workers : Accepts(w, m)
OnceInv == OneHolder /\ HeldIsLeased /\ AcceptedIsKept

LEMMA WorkerStepOnce ==
    ASSUME Typed, OnceInv, NEW w \in Workers, Tick(w) \/ CutShort(w)
    PROVE  OnceInv'
<1> USE DEF Typed, OnceInv, Unspoilt
<1>1. CASE Claim(w)
  <2>1. PICK batch \in SUBSET Due \ {{}} :
            /\ claimed' = [claimed EXCEPT ![w] = {[msg |-> m, attempts |-> attempts[m]] : m \in batch}]
            /\ due' = [m \in Messages |-> due[m] /\ m \notin batch]
    BY <1>1 DEF Claim
  <2>2. claimed[w] = {} /\ UNCHANGED <<status, result, accepted, overrun>>
    BY <1>1 DEF Claim, history
  <2>3. \A v \in Workers \ {w} : claimed'[v] = claimed[v]
    BY <2>1 DEF TypeOK
  <2>4. \A row \in claimed'[w] : row.msg \in batch
    BY <2>1 DEF TypeOK
  <2>5. \A m \in batch : m \in Messages /\ status[m] = "queued" /\ due[m]
    BY DEF Due
  <2>6. \A m \in Unspoilt, v \in Workers \ {w} : \A row \in claimed[v] : row.msg = m => m \notin batch
    BY <2>5 DEF HeldIsLeased
  <2>7. OneHolder'
    BY <2>2, <2>3, <2>4, <2>6 DEF OneHolder
  <2>8. HeldIsLeased'
    <3> SUFFICES ASSUME NEW m \in Unspoilt, NEW v \in Workers, NEW row \in claimed'[v], row.msg = m
                 PROVE  ~ due'[m] /\ status[m] = "queued"
      BY <2>2 DEF HeldIsLeased
    <3>1. CASE v = w
      BY <3>1, <2>1, <2>4, <2>5
    <3>2. CASE v # w
      BY <3>2, <2>1, <2>3 DEF HeldIsLeased
    <3> QED BY <3>1, <3>2
  <2>9. AcceptedIsKept'
    BY <2>2 DEF AcceptedIsKept, Accepts
  <2> QED BY <2>7, <2>8, <2>9
<1>2. ASSUME NEW row \in claimed[w], NEW ok \in BOOLEAN, Deliver(w, row, ok)
      PROVE  OnceInv'
  <2>1. /\ result[w] = NoResult
        /\ result' = [result EXCEPT ![w] = [row |-> row, ok |-> ok]]
        /\ accepted' = [accepted EXCEPT ![row.msg] = IF ok THEN @ + 1 ELSE @]
        /\ UNCHANGED <<status, due, claimed, overrun>>
    BY <1>2 DEF Deliver, Provider
  <2>2. OneHolder' /\ HeldIsLeased'
    BY <2>1 DEF OneHolder, HeldIsLeased
  <2>3. /\ [row |-> row, ok |-> ok].row.msg = row.msg
        /\ [row |-> row, ok |-> ok].ok = ok
    OBVIOUS
  <2>4. \A v \in Workers \ {w} : result'[v] = result[v]
    BY <2>1 DEF TypeOK
  <2>5. /\ result'[w] = [row |-> row, ok |-> ok]
        /\ row.attempts \in Nat /\ row.msg \in Messages
    BY <2>1 DEF TypeOK, Row
  <2>6. ASSUME NEW m \in Unspoilt
        PROVE  /\ accepted'[m] <= 1
               /\ accepted'[m] = 1 => status[m] = "sent" \/ \E v \in Workers : Accepts(v, m)'
    <3>1. accepted[m] \in Nat
      BY DEF TypeOK
    <3>2. CASE m # row.msg
      <4>1. accepted'[m] = accepted[m]
        BY <3>2, <2>1 DEF TypeOK
      <4>2. \A v \in Workers : Accepts(v, m) => Accepts(v, m)'
        BY <2>1, <2>4 DEF Accepts
      <4> QED BY <4>1, <4>2 DEF AcceptedIsKept
    <3>3. CASE m = row.msg
      <4>1. status[m] = "queued"
        BY <3>3 DEF HeldIsLeased
      <4>2. ASSUME NEW v \in Workers, Accepts(v, m) PROVE FALSE
        <5>1. result[v].row \in claimed[v] /\ result[v].row.msg = m
          BY <4>2 DEF Accepts, TypeOK
        <5>2. v = w
          BY <5>1, <3>3 DEF OneHolder
        <5> QED BY <5>2, <4>2, <2>1 DEF Accepts
      <4>3. accepted[m] = 0
        BY <4>1, <4>2, <3>1 DEF AcceptedIsKept
      <4>4. accepted'[m] = IF ok THEN 1 ELSE 0
        BY <4>3, <3>3, <2>1 DEF TypeOK
      <4>5. ok => Accepts(w, m)'
        <5>1. [row |-> row, ok |-> ok] # NoResult \/ ~ ok
          BY DEF NoResult
        <5> QED BY <5>1, <3>3, <2>3, <2>5 DEF Accepts
      <4> QED BY <4>4, <4>5
    <3> QED BY <3>2, <3>3
  <2>7. AcceptedIsKept'
    BY <2>1, <2>6 DEF AcceptedIsKept
  <2> QED BY <2>2, <2>7
<1>3. CASE Record(w)
  <2>1. result[w] # NoResult
    BY <1>3 DEF Record
  <2> DEFINE done == result[w].row
             plan == PlanRetry(done.attempts, result[w].ok)
  <2>2. /\ done \in claimed[w] /\ done.msg \in Messages
        /\ plan.status = "sent" <=> result[w].ok
    BY <2>1, ResultType, PlanRetryWithinBudget
  <2>3. /\ status' = [status EXCEPT ![done.msg] = plan.status]
        /\ due' = [due EXCEPT ![done.msg] = plan.status # "queued"]
        /\ claimed' = [claimed EXCEPT ![w] = @ \ {done}]
        /\ result' = [result EXCEPT ![w] = NoResult]
        /\ UNCHANGED <<accepted, overrun>>
    BY <1>3 DEF Record, history
  <2> HIDE DEF plan
  <2>4. \A v \in Workers : claimed'[v] \subseteq claimed[v]
    BY <2>3 DEF TypeOK
  <2>5. \A m \in Messages \ {done.msg} : status'[m] = status[m] /\ due'[m] = due[m]
    BY <2>3 DEF TypeOK
  <2>6. OneHolder'
    BY <2>3, <2>4 DEF OneHolder
  <2>7. ASSUME NEW m \in Unspoilt, NEW v \in Workers, NEW row \in claimed'[v], row.msg = m
        PROVE  m # done.msg
    <3>1. row \in claimed[v]
      BY <2>4
    <3>2. CASE v = w
      <4>1. row # done /\ row \in claimed[w] /\ done \in claimed[w]
        BY <3>1, <3>2, <2>2, <2>3 DEF TypeOK
      <4> QED BY <4>1, <2>7 DEF TypeOK
    <3>3. CASE v # w
      BY <3>1, <3>3, <2>2, <2>7 DEF OneHolder
    <3> QED BY <3>2, <3>3
  <2>8. HeldIsLeased'
    BY <2>3, <2>4, <2>5, <2>7 DEF HeldIsLeased
  <2>9. ASSUME NEW m \in Unspoilt, accepted[m] = 1
        PROVE  status'[m] = "sent" \/ \E v \in Workers : Accepts(v, m)'
    <3>1. CASE m # done.msg
      <4>1. \A v \in Workers : Accepts(v, m) => v # w
        BY <3>1 DEF Accepts
      <4>2. \A v \in Workers \ {w} : result'[v] = result[v]
        BY <2>3 DEF TypeOK
      <4>3. \A v \in Workers : Accepts(v, m) => Accepts(v, m)'
        BY <4>1, <4>2 DEF Accepts
      <4>4. status[m] = status'[m]
        BY <3>1, <2>5
      <4> QED BY <4>3, <4>4, <2>9 DEF AcceptedIsKept
    <3>2. CASE m = done.msg
      <4>1. status[m] = "queued"
        BY <3>2, <2>2 DEF HeldIsLeased
      <4>2. PICK v \in Workers : Accepts(v, m)
        BY <4>1, <2>9 DEF AcceptedIsKept
      <4>3. result[v].row \in claimed[v] /\ result[v].row.msg = m
        BY <4>2 DEF Accepts, TypeOK
      <4>4. v = w
        BY <4>3, <3>2, <2>2 DEF OneHolder
      <4>5. plan.status = "sent"
        BY <4>2, <4>4, <2>2 DEF Accepts
      <4> QED BY <4>5, <3>2, <2>2, <2>3 DEF TypeOK
    <3> QED BY <3>1, <3>2
  <2>10. AcceptedIsKept'
    BY <2>3, <2>9 DEF AcceptedIsKept
  <2> QED BY <2>6, <2>8, <2>10
<1>4. CASE CutShort(w)
  <2>1. /\ claimed' = [claimed EXCEPT ![w] = {}]
        /\ result' = [result EXCEPT ![w] = NoResult]
        /\ overrun' = overrun \cup {row.msg : row \in claimed[w]}
        /\ UNCHANGED <<status, due, accepted>>
    BY <1>4 DEF CutShort
  <2>2. \A v \in Workers : claimed'[v] \subseteq claimed[v]
    BY <2>1 DEF TypeOK
  <2>3. OneHolder' /\ HeldIsLeased'
    BY <2>1, <2>2 DEF OneHolder, HeldIsLeased
  <2>4. ASSUME NEW m \in Unspoilt, m \notin overrun', NEW v \in Workers, Accepts(v, m)
        PROVE  Accepts(v, m)'
    <3>1. result[v].row \in claimed[v] /\ result[v].row.msg = m
      BY <2>4 DEF Accepts, TypeOK
    <3>2. v # w
      BY <3>1, <2>1, <2>4
    <3>3. result'[v] = result[v]
      BY <3>2, <2>1 DEF TypeOK
    <3> QED BY <3>3, <2>4 DEF Accepts
  <2>5. AcceptedIsKept'
    BY <2>1, <2>4 DEF AcceptedIsKept
  <2> QED BY <2>3, <2>5
<1> QED
  BY <1>1, <1>2, <1>3, <1>4 DEF Tick

LEMMA MessageStepOnce ==
    ASSUME Typed, CountedWereMade, OnceInv, NEW m \in Messages,
           \/ Enqueue(m) \/ SendInsert(m) \/ SendGoesOn(m) \/ SendCutShort(m) \/ BecomeDue(m)
    PROVE  OnceInv'
<1> USE DEF Typed, OnceInv, Unspoilt
<1>1. CASE Enqueue(m) \/ SendInsert(m)
  BY <1>1 DEF Enqueue, SendInsert, history, TypeOK, OneHolder, HeldIsLeased, AcceptedIsKept, Accepts
<1>2. ASSUME NEW ok \in BOOLEAN, SendDeliver(m, ok) PROVE OnceInv'
  <2>1. m \in Inline
    BY <1>2 DEF SendDeliver, CountedWereMade
  <2> QED
    BY <1>2, <2>1 DEF SendDeliver, Provider, TypeOK, OneHolder, HeldIsLeased, AcceptedIsKept, Accepts
<1>3. CASE SendRecord(m)
  <2>1. m \in Inline
    BY <1>3 DEF SendRecord, CountedWereMade
  <2> QED
    BY <1>3, <2>1 DEF SendRecord, history, TypeOK, OneHolder, HeldIsLeased, AcceptedIsKept, Accepts
<1>4. CASE SendCutShort(m)
  BY <1>4 DEF SendCutShort, history, OneHolder, HeldIsLeased, AcceptedIsKept, Accepts
<1>5. CASE BecomeDue(m)
  BY <1>5 DEF BecomeDue, Held, TypeOK, OneHolder, HeldIsLeased, AcceptedIsKept, Accepts
<1>6. CASE SendGoesOn(m)
  BY <1>2, <1>3, <1>6 DEF SendGoesOn
<1> QED
  BY <1>1, <1>4, <1>5, <1>6

(* "At least once", and never twice of its own accord: a message that the   *)
(* workers alone handle is accepted by a provider a second time only if a   *)
(* worker that had it was cut short or outlived its lease.                  *)
THEOREM TwiceOnlyAfterOverrun == Spec => []OnceUnlessOverrun
<1>1. Init => CountedWereMade /\ OnceInv
  BY DEF Init, CountedWereMade, OnceInv, Unspoilt, OneHolder, HeldIsLeased, AcceptedIsKept
<1>2. Typed /\ CountedWereMade /\ OnceInv /\ [Next]_vars => (CountedWereMade /\ OnceInv)'
  <2> SUFFICES ASSUME Typed, CountedWereMade, OnceInv, [Next]_vars
               PROVE  CountedWereMade' /\ OnceInv'
    OBVIOUS
  <2>1. CASE UNCHANGED vars
    BY <2>1 DEF vars, CountedWereMade, OnceInv, Unspoilt, OneHolder, HeldIsLeased,
                AcceptedIsKept, Accepts
  <2> QED
    BY <2>1, WorkerStepCounted, MessageStepCounted, WorkerStepOnce, MessageStepOnce DEF Next
<1>3. OnceInv => OnceUnlessOverrun
  BY DEF OnceInv, AcceptedIsKept, OnceUnlessOverrun, Unspoilt
<1> QED
  BY <1>1, <1>2, <1>3, TypedHolds, PTL DEF Spec
=============================================================================
