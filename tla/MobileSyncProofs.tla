---------------------------- MODULE MobileSyncProofs ----------------------------
(***************************************************************************)
(* What holds of the app's outbox for any changes, any batch size and any   *)
(* number of overlapping calls of drain().                                  *)
(***************************************************************************)
EXTENDS MobileSync, Integers, FiniteSetTheorems, SequenceTheorems, WellFoundedInduction, TLAPS

(* The parts of the type that the arguments need: functions over their      *)
(* domains.  What a batch holds plays no role.                              *)
Functional ==
    /\ outbox \in [Changes -> {"none", "pending", "syncing", "failed", "gone"}]
    /\ DOMAIN pc = Drains
    /\ DOMAIN batch = Drains

(* A call that is about to delete a row knows that the server answered.     *)
SentIsDelivered == \A d \in Drains : pc[d] = "sent" => Entry(d) \in delivered

(* A change leaves the table only once the server has it.                   *)
GoneWasDelivered == \A c \in Changes : outbox[c] = "gone" => c \in delivered

(* The inductive invariants: what a statement of drain() is about to write  *)
(* is true of the entry in hand, whatever other calls wrote meanwhile.      *)
DeliveryInv == Functional /\ SentIsDelivered /\ GoneWasDelivered
HandInv == Functional /\ SyncingIsInHand

-----------------------------------------------------------------------------
(* The table and the calls stay functions over their domains.               *)
LEMMA FunctionalHolds == Spec => []Functional
<1>1. Init => Functional
  BY DEF Init, Functional
<1>2. Functional /\ [Next]_vars => Functional'
  <2> SUFFICES ASSUME Functional, [Next]_vars PROVE Functional'
    OBVIOUS
  <2> USE DEF Functional
  <2>1. ASSUME NEW c \in Changes, Enqueue(c) PROVE Functional'
    BY <2>1 DEF Enqueue, CallDrain
  <2>2. CASE TimerFires
    BY <2>2 DEF TimerFires, CallDrain
  <2>3. CASE Register
    BY <2>3 DEF Register, drain
  <2>4. CASE GoOnline
    BY <2>4 DEF GoOnline, CallDrain
  <2>5. CASE GoOffline
    BY <2>5 DEF GoOffline, drain
  <2>6. CASE Kill
    BY <2>6 DEF Kill
  <2>7. CASE Launch
    BY <2>7 DEF Launch, CallDrain
  <2>8. ASSUME NEW d \in Drains, Drain(d) PROVE Functional'
    BY <2>8 DEF Drain, Check, Fetch, Skip, MarkSyncing, SendOk, SendRefused,
                MarkDone, MarkFailed, Proceed
  <2>9. ASSUME NEW d \in Drains, NEW arrived \in BOOLEAN, SendLost(d, arrived)
        PROVE  Functional'
    BY <2>9 DEF SendLost
  <2>10. CASE UNCHANGED vars
    BY <2>10 DEF vars, drain
  <2> QED
    BY <2>1, <2>2, <2>3, <2>4, <2>5, <2>6, <2>7, <2>8, <2>9, <2>10 DEF Next
<1> QED
  BY <1>1, <1>2, PTL DEF Spec

-----------------------------------------------------------------------------
(* A call of drain() that starts neither sends nor settles anything.        *)
LEMMA CallDrainIdle ==
    ASSUME Functional, CallDrain
    PROVE  /\ DOMAIN pc' = Drains
           /\ \A d \in Drains : pc'[d] \notin {"idle", "checking"} => pc'[d] = pc[d]
           /\ \A d \in Drains : pc[d] # "idle" => pc'[d] = pc[d]
  BY DEF CallDrain, Functional

LEMMA DeliveryHolds == Spec => []DeliveryInv
<1>1. Init => SentIsDelivered /\ GoneWasDelivered
  BY DEF Init, SentIsDelivered, GoneWasDelivered
<1>2. DeliveryInv /\ [Next]_vars => (SentIsDelivered /\ GoneWasDelivered)'
  <2> SUFFICES ASSUME DeliveryInv, [Next]_vars
               PROVE  SentIsDelivered' /\ GoneWasDelivered'
    OBVIOUS
  <2> USE DEF DeliveryInv
  <2>1. ASSUME NEW c \in Changes, Enqueue(c) PROVE SentIsDelivered' /\ GoneWasDelivered'
    BY <2>1, CallDrainIdle
       DEF Enqueue, SentIsDelivered, GoneWasDelivered, Functional, Entry, history
  <2>2. CASE TimerFires
    BY <2>2, CallDrainIdle DEF TimerFires, SentIsDelivered, GoneWasDelivered, Entry, history
  <2>3. CASE Register
    BY <2>3 DEF Register, SentIsDelivered, GoneWasDelivered, Entry, history, drain
  <2>4. CASE GoOnline
    BY <2>4, CallDrainIdle DEF GoOnline, SentIsDelivered, GoneWasDelivered, Entry, history
  <2>5. CASE GoOffline
    BY <2>5 DEF GoOffline, SentIsDelivered, GoneWasDelivered, Entry, history, drain
  <2>6. CASE Kill
    BY <2>6 DEF Kill, SentIsDelivered, GoneWasDelivered, Entry
  <2>7. CASE Launch
    BY <2>7, CallDrainIdle DEF Launch, SentIsDelivered, GoneWasDelivered, Entry, history
  <2>8. ASSUME NEW d \in Drains, Drain(d) PROVE SentIsDelivered' /\ GoneWasDelivered'
    <3> USE DEF SentIsDelivered, GoneWasDelivered, Functional, Entry
    <3>1. CASE Check(d) \/ Fetch(d)
      BY <3>1 DEF Check, Fetch, history
    <3>2. CASE Skip(d)
      BY <3>2 DEF Skip, Proceed
    <3>3. CASE MarkSyncing(d)
      BY <3>3 DEF MarkSyncing, history
    <3>4. CASE SendOk(d)
      BY <3>4 DEF SendOk
    <3>5. CASE SendRefused(d)
      BY <3>5 DEF SendRefused
    <3>6. CASE MarkDone(d)
      BY <3>6 DEF MarkDone, Proceed, history
    <3>7. CASE MarkFailed(d)
      BY <3>7 DEF MarkFailed, Proceed, history
    <3> QED
      BY <2>8, <3>1, <3>2, <3>3, <3>4, <3>5, <3>6, <3>7 DEF Drain
  <2>9. ASSUME NEW d \in Drains, NEW arrived \in BOOLEAN, SendLost(d, arrived)
        PROVE  SentIsDelivered' /\ GoneWasDelivered'
    BY <2>9 DEF SendLost, SentIsDelivered, GoneWasDelivered, Functional, Entry
  <2>10. CASE UNCHANGED vars
    BY <2>10 DEF vars, drain, history, SentIsDelivered, GoneWasDelivered, Entry
  <2> QED
    BY <2>1, <2>2, <2>3, <2>4, <2>5, <2>6, <2>7, <2>8, <2>9, <2>10 DEF Next
<1> QED
  BY <1>1, <1>2, FunctionalHolds, PTL DEF Spec, DeliveryInv

(* A change leaves the table only once the server has it (markDone is the   *)
(* only DELETE, and follows the handler's return), however many calls of    *)
(* drain() handle it at once.                                               *)
THEOREM NothingDropped == Spec => []GoneWasDelivered
<1>1. DeliveryInv => GoneWasDelivered
  BY DEF DeliveryInv
<1> QED
  BY <1>1, DeliveryHolds, PTL

-----------------------------------------------------------------------------
(* A row that says 'syncing' is in the hands of a running call, or was when *)
(* the app died: no failure that _process catches leaves one behind, so     *)
(* that death is the only way to strand a change.                           *)
THEOREM NothingStranded == Spec => []SyncingIsInHand
<1>1. Init => SyncingIsInHand
  BY DEF Init, SyncingIsInHand
<1>2. HandInv /\ [Next]_vars => SyncingIsInHand'
  <2> SUFFICES ASSUME HandInv, [Next]_vars PROVE SyncingIsInHand'
    OBVIOUS
  <2> USE DEF HandInv
  <2>1. ASSUME NEW c \in Changes, Enqueue(c) PROVE SyncingIsInHand'
    BY <2>1, CallDrainIdle DEF Enqueue, SyncingIsInHand, Functional, Entry, history
  <2>2. CASE TimerFires
    BY <2>2, CallDrainIdle DEF TimerFires, SyncingIsInHand, Entry, history
  <2>3. CASE Register
    BY <2>3 DEF Register, SyncingIsInHand, Entry, history, drain
  <2>4. CASE GoOnline
    BY <2>4, CallDrainIdle DEF GoOnline, SyncingIsInHand, Entry, history
  <2>5. CASE GoOffline
    BY <2>5 DEF GoOffline, SyncingIsInHand, Entry, history, drain
  <2>6. CASE Kill
    BY <2>6 DEF Kill, SyncingIsInHand
  <2>7. CASE Launch
    BY <2>7, CallDrainIdle DEF Launch, SyncingIsInHand, Entry, history
  <2>8. ASSUME NEW d \in Drains, Drain(d) PROVE SyncingIsInHand'
    <3> USE DEF SyncingIsInHand, Functional, Entry
    <3>1. CASE Check(d) \/ Fetch(d)
      BY <3>1 DEF Check, Fetch, history
    <3>2. CASE Skip(d)
      BY <3>2 DEF Skip, Proceed
    <3>3. CASE MarkSyncing(d)
      BY <3>3 DEF MarkSyncing, history
    <3>4. CASE SendOk(d)
      BY <3>4 DEF SendOk
    <3>5. CASE SendRefused(d)
      BY <3>5 DEF SendRefused
    <3>6. CASE MarkDone(d)
      BY <3>6 DEF MarkDone, Proceed, history
    <3>7. CASE MarkFailed(d)
      BY <3>7 DEF MarkFailed, Proceed, history
    <3> QED
      BY <2>8, <3>1, <3>2, <3>3, <3>4, <3>5, <3>6, <3>7 DEF Drain
  <2>9. ASSUME NEW d \in Drains, NEW arrived \in BOOLEAN, SendLost(d, arrived)
        PROVE  SyncingIsInHand'
    BY <2>9 DEF SendLost, SyncingIsInHand, Functional, Entry
  <2>10. CASE UNCHANGED vars
    BY <2>10 DEF vars, drain, history, SyncingIsInHand, Entry
  <2> QED
    BY <2>1, <2>2, <2>3, <2>4, <2>5, <2>6, <2>7, <2>8, <2>9, <2>10 DEF Next
<1> QED
  BY <1>1, <1>2, FunctionalHolds, PTL DEF Spec, HandInv

-----------------------------------------------------------------------------
(* Places and ranks.                                                       *)

\* A set of numbers that is not empty has a least element.
LEMMA NatMinimum ==
    ASSUME NEW T \in SUBSET Nat, T # {}
    PROVE  \E x \in T : \A y \in T : x <= y
<1>1. PICK x \in T : \A y \in T : ~ (<<y, x>> \in OpToRel(<, Nat))
  BY NatLessThanWellFounded, WFMin, Zenon
<1>2. \A y \in T : ~ (y < x)
  BY <1>1 DEF OpToRel
<1> QED BY <1>2

\* Of n things put in a row, exactly one has m before it, for every m < n.
LEMMA Ranks ==
    ASSUME NEW N \in Nat
    PROVE  \A T \in SUBSET (1..N), m \in Nat : m < Cardinality(T) =>
               \E i \in T : Cardinality({j \in T : j < i}) = m
<1> DEFINE Ranked(T) == \A m \in Nat : m < Cardinality(T) =>
                            \E i \in T : Cardinality({j \in T : j < i}) = m
           Bad == {n \in Nat : ~ \A T \in SUBSET (1..n) : Ranked(T)}
<1>1. CASE Bad = {}
  BY <1>1
<1>2. CASE Bad # {}
  <2>1. PICK n \in Bad : \A y \in Bad : n <= y
    BY <1>2, NatMinimum
  <2>0. n \in Nat
    BY <2>1
  <2>2. PICK T \in SUBSET (1..n) : ~ Ranked(T)
    BY <2>1
  <2>3. IsFiniteSet(T) /\ Cardinality(T) \in Nat
    <3>1. n \in Nat /\ IsFiniteSet(1..n)
      BY <2>1, FS_Interval
    <3>2. IsFiniteSet(T)
      BY <2>2, <3>1, FS_Subset
    <3> QED BY <3>2, FS_CardinalityType
  <2>4. n # 0
    <3>1. n = 0 => T = {}
      BY <2>2
    <3>2. T = {} => Cardinality(T) = 0
      BY FS_EmptySet
    <3>3. n = 0 => Ranked(T)
      BY <3>1, <3>2
    <3> QED BY <2>2, <3>3
  <2>5. n - 1 \in Nat /\ n - 1 \notin Bad
    <3> HIDE DEF Bad
    <3>1. n - 1 \in Nat /\ ~ (n <= n - 1)
      BY <2>0, <2>4
    <3> QED BY <2>1, <3>1
  <2>6. \A U \in SUBSET (1..n - 1) : Ranked(U)
    BY <2>5
  <2>7. CASE n \notin T
    BY <2>2, <2>5, <2>6, <2>7
  <2>8. CASE n \in T
    <3> DEFINE U == T \ {n}
    <3>1. U \in SUBSET (1..n - 1) /\ Cardinality(U) = Cardinality(T) - 1 /\ Cardinality(U) \in Nat
      <4>1. IsFiniteSet(U) /\ Cardinality(U) = Cardinality(T) - 1
        BY <2>3, <2>8, FS_RemoveElement
      <4>2. Cardinality(U) \in Nat
        BY <4>1, FS_CardinalityType
      <4>3. U \in SUBSET (1..n - 1)
        BY <2>1, <2>2
      <4> QED BY <4>1, <4>2, <4>3
    <3>2. Ranked(T)
      <4> SUFFICES ASSUME NEW m \in Nat, m < Cardinality(T)
                   PROVE  \E i \in T : Cardinality({j \in T : j < i}) = m
        OBVIOUS
      <4>1. CASE m = Cardinality(U)
        <5>1. \A j \in T : j < n <=> j \in U
          BY <2>0, <2>2
        <5>2. {j \in T : j < n} = U
          BY <5>1
        <5> QED BY <2>8, <4>1, <5>2
      <4>2. CASE m # Cardinality(U)
        <5>1. PICK i \in U : Cardinality({j \in U : j < i}) = m
          BY <2>3, <2>6, <3>1, <4>2
        <5>2. {j \in U : j < i} = {j \in T : j < i}
          BY <2>1, <2>2, <3>1, <5>1
        <5> QED BY <5>1, <5>2
      <4> QED BY <4>1, <4>2
    <3> QED BY <2>2, <3>2
  <2> QED BY <2>7, <2>8
<1> QED BY <1>1, <1>2

-----------------------------------------------------------------------------
(* The table, the calls and their batches.                                 *)

Working == {"processing", "sending", "sent", "refused"}

\* The rows: one place in the order for each, and for nothing else.
Rows ==
    /\ outbox \in [Changes -> {"none", "pending", "syncing", "failed", "gone"}]
    /\ order \in Seq(Changes)
    /\ \A i, j \in 1..Len(order) : order[i] = order[j] => i = j
    /\ \A c \in Changes : outbox[c] # "none" <=> \E i \in 1..Len(order) : order[i] = c

\* The calls: each has in hand the rest of a batch of rows, or nothing.
Calls ==
    /\ pc \in [Drains -> {"idle", "checking", "fetching"} \cup Working]
    /\ batch \in [Drains -> Seq(Changes)]
    /\ \A d \in Drains : /\ Len(batch[d]) <= BatchSize
                         /\ pc[d] \in Working <=> batch[d] # <<>>
                         /\ \A k \in 1..Len(batch[d]) : outbox[batch[d][k]] # "none"

Histories ==
    /\ delivered \subseteq Changes /\ failed \subseteq Changes /\ interrupted \subseteq Changes
    /\ faults \in 0..MaxFaults

Flagged == draining => \E d \in Drains : Looping(d)

QueueTyped == Rows /\ Calls /\ Histories /\ Flagged

LEMMA TypedIsTypeOK == QueueTyped => TypeOK
<1> SUFFICES ASSUME QueueTyped PROVE TypeOK
  OBVIOUS
<1> USE DEF QueueTyped, Rows, Calls, Histories, Flagged, Working
<1>1. ToSet(order) = {order[i] : i \in 1..Len(order)}
  BY DEF ToSet
<1>2. ToSet(order) = {c \in Changes : outbox[c] # "none"}
  BY <1>1
<1>3. \A d \in Drains : ToSet(batch[d]) \subseteq ToSet(order)
  <2> SUFFICES ASSUME NEW d \in Drains PROVE ToSet(batch[d]) \subseteq ToSet(order)
    OBVIOUS
  <2>1. ToSet(batch[d]) = {batch[d][k] : k \in 1..Len(batch[d])}
    BY DEF ToSet
  <2>2. \A k \in 1..Len(batch[d]) : batch[d][k] \in Changes /\ outbox[batch[d][k]] # "none"
    OBVIOUS
  <2> QED BY <1>2, <2>1, <2>2
<1> QED
  BY <1>2, <1>3 DEF TypeOK

\* The entry in hand is a row of the table.
LEMMA EntryFacts ==
    ASSUME QueueTyped, NEW d \in Drains, pc[d] \in Working
    PROVE  /\ Entry(d) = batch[d][1] /\ Entry(d) \in Changes
           /\ Len(batch[d]) \in Nat \ {0} /\ outbox[Entry(d)] # "none"
BY DEF QueueTyped, Calls, Entry

LEMMA RowsKept ==
    ASSUME Rows, UNCHANGED order,
           outbox' \in [Changes -> {"none", "pending", "syncing", "failed", "gone"}],
           \A c \in Changes : outbox'[c] = "none" <=> outbox[c] = "none"
    PROVE  Rows'
BY DEF Rows

LEMMA RowsEnqueue ==
    ASSUME Rows, NEW c \in Changes, outbox[c] = "none",
           outbox' = [outbox EXCEPT ![c] = "pending"], order' = Append(order, c)
    PROVE  Rows'
<1> USE DEF Rows
<1>1. /\ order' \in Seq(Changes) /\ Len(order') = Len(order) + 1
      /\ order'[Len(order) + 1] = c
      /\ \A i \in 1..Len(order) : order'[i] = order[i] /\ order[i] # c
  OBVIOUS
<1>2. \A i, j \in 1..Len(order') : order'[i] = order'[j] => i = j
  BY <1>1
<1>3. \A b \in Changes : outbox'[b] # "none" <=> \E i \in 1..Len(order') : order'[i] = b
  <2> SUFFICES ASSUME NEW b \in Changes
               PROVE  outbox'[b] # "none" <=> \E i \in 1..Len(order') : order'[i] = b
    OBVIOUS
  <2>1. CASE b = c
    BY <1>1, <2>1
  <2>2. CASE b # c
    <3>1. outbox'[b] = outbox[b]
      BY <2>2
    <3>2. (\E i \in 1..Len(order') : order'[i] = b) <=> \E i \in 1..Len(order) : order[i] = b
      BY <1>1, <2>2
    <3> QED BY <3>1, <3>2
  <2> QED BY <2>1, <2>2
<1> QED
  BY <1>1, <1>2, <1>3

LEMMA CallsKept ==
    ASSUME Calls, UNCHANGED batch,
           pc' \in [Drains -> {"idle", "checking", "fetching"} \cup Working],
           \A d \in Drains : pc'[d] \in Working <=> pc[d] \in Working,
           \A c \in Changes : outbox[c] # "none" => outbox'[c] # "none"
    PROVE  Calls'
BY DEF Calls

\* The rest of a batch, after its first entry.
LEMMA TailFacts ==
    ASSUME NEW S, NEW s \in Seq(S), s # <<>>
    PROVE  /\ Tail(s) \in Seq(S) /\ Len(Tail(s)) = Len(s) - 1 /\ Len(s) \in Nat \ {0}
           /\ \A k \in 1..Len(Tail(s)) : Tail(s)[k] = s[k + 1]
           /\ Tail(s) = <<>> <=> Len(s) = 1
<1>1. /\ Tail(s) \in Seq(S) /\ Len(Tail(s)) = Len(s) - 1
      /\ \A k \in 1..Len(Tail(s)) : Tail(s)[k] = s[k + 1]
  BY HeadTailProperties
<1>2. Len(s) \in Nat \ {0}
  BY EmptySeq
<1>3. Tail(s) = <<>> <=> Len(Tail(s)) = 0
  BY <1>1, EmptySeq
<1> QED
  BY <1>1, <1>2, <1>3

LEMMA CallsProceed ==
    ASSUME Calls, NEW d \in Drains, pc[d] \in Working, Proceed(d),
           \A c \in Changes : outbox[c] # "none" => outbox'[c] # "none"
    PROVE  Calls'
<1> USE DEF Calls
<1>1. batch[d] \in Seq(Changes) /\ batch[d] # <<>>
  OBVIOUS
<1>2. /\ batch'[d] = Tail(batch[d])
      /\ pc'[d] = IF Len(batch[d]) = 1 THEN "fetching" ELSE "processing"
      /\ \A e \in Drains \ {d} : batch'[e] = batch[e] /\ pc'[e] = pc[e]
  BY DEF Proceed
<1>3. /\ batch'[d] \in Seq(Changes) /\ Len(batch'[d]) <= BatchSize
      /\ pc'[d] \in Working <=> batch'[d] # <<>>
      /\ \A k \in 1..Len(batch'[d]) : outbox'[batch'[d][k]] # "none"
  <2>1. /\ Tail(batch[d]) \in Seq(Changes) /\ Len(Tail(batch[d])) = Len(batch[d]) - 1
        /\ Len(batch[d]) \in Nat \ {0}
        /\ \A k \in 1..Len(Tail(batch[d])) : Tail(batch[d])[k] = batch[d][k + 1]
        /\ Tail(batch[d]) = <<>> <=> Len(batch[d]) = 1
    BY <1>1, TailFacts
  <2>2. Len(batch'[d]) <= BatchSize
    BY <1>2, <2>1, ChangesAssumption
  <2>3. \A k \in 1..Len(batch'[d]) : outbox'[batch'[d][k]] # "none"
    BY <1>2, <2>1
  <2> QED BY <1>2, <2>1, <2>2, <2>3 DEF Working
<1>4. /\ pc' \in [Drains -> {"idle", "checking", "fetching"} \cup Working]
      /\ batch' \in [Drains -> Seq(Changes)]
  <2>1. pc' = [pc EXCEPT ![d] = IF Len(batch[d]) = 1 THEN "fetching" ELSE "processing"]
    BY DEF Proceed
  <2>2. batch' = [batch EXCEPT ![d] = Tail(batch[d])]
    BY DEF Proceed
  <2>3. Tail(batch[d]) \in Seq(Changes)
    BY <1>2, <1>3
  <2> QED BY <2>1, <2>2, <2>3 DEF Working
<1>5. \A e \in Drains \ {d} :
          /\ Len(batch'[e]) <= BatchSize
          /\ pc'[e] \in Working <=> batch'[e] # <<>>
          /\ \A k \in 1..Len(batch'[e]) : outbox'[batch'[e][k]] # "none"
  <2>1. \A e \in Drains : \A k \in 1..Len(batch[e]) : batch[e][k] \in Changes
    OBVIOUS
  <2> QED BY <1>2, <2>1
<1> QED
  BY <1>3, <1>4, <1>5

-----------------------------------------------------------------------------
(* The query for the next batch.                                           *)

\* Whom Rank counts is a finite set of places, the same for all of them.
LEMMA DueFacts ==
    ASSUME Rows
    PROVE  /\ Due \in SUBSET (1..Len(order)) /\ Len(order) \in Nat
           /\ IsFiniteSet(Due) /\ Cardinality(Due) \in Nat
           /\ \A i \in Due : Rank(i) \in Nat
           /\ \A m \in Nat : m < Cardinality(Due) => \E i \in Due : Rank(i) = m
<1>1. Due \in SUBSET (1..Len(order)) /\ Len(order) \in Nat
  BY DEF Due, Rows
<1>2. IsFiniteSet(1..Len(order))
  BY <1>1, FS_Interval
<1>3. IsFiniteSet(Due)
  BY <1>1, <1>2, FS_Subset
<1>4. Cardinality(Due) \in Nat
  BY <1>3, FS_CardinalityType
<1>5. ASSUME NEW i \in Due PROVE Rank(i) \in Nat
  <2>1. IsFiniteSet({j \in Due : j < i})
    BY <1>3, FS_Subset
  <2> QED BY <2>1, FS_CardinalityType DEF Rank
<1>6. \A m \in Nat : m < Cardinality(Due) =>
          \E i \in Due : Cardinality({j \in Due : j < i}) = m
  BY <1>1, Ranks
<1>7. \A m \in Nat : m < Cardinality(Due) => \E i \in Due : Rank(i) = m
  BY <1>6 DEF Rank
<1> QED
  BY <1>1, <1>3, <1>4, <1>5, <1>7

\* Ranks tell the places apart, and are in their order.
LEMMA RankOrders ==
    ASSUME Rows, NEW i \in Due, NEW j \in Due, i < j
    PROVE  Rank(i) < Rank(j)
<1> DEFINE I == {h \in Due : h < i}
           J == {h \in Due : h < j}
<1>0. Due \in SUBSET (1..Len(order)) /\ Len(order) \in Nat
  BY DueFacts
<1>1. i \in Nat /\ j \in Nat /\ Due \subseteq Nat
  BY <1>0
<1>2. I \in SUBSET J /\ i \in J /\ i \notin I
  <2>1. \A h \in Due : h < i => h < j
    BY <1>1
  <2>2. ~ (i < i)
    BY <1>1
  <2> QED BY <2>1, <2>2
<1>3. IsFiniteSet(J)
  BY DueFacts, FS_Subset
<1>4. IsFiniteSet(I) /\ Cardinality(I) <= Cardinality(J) /\ (Cardinality(J) = Cardinality(I) => J = I)
  BY <1>2, <1>3, FS_Subset
<1>5. Cardinality(I) \in Nat /\ Cardinality(J) \in Nat
  BY <1>3, <1>4, FS_CardinalityType
<1>6. Cardinality(I) # Cardinality(J)
  BY <1>2, <1>4
<1> QED
  BY <1>4, <1>5, <1>6 DEF Rank

\* What pending() returns: rows that are due, at most a batch of them, and with
\* each all the due rows that are older than it, before it.
LEMMA PendingFacts ==
    ASSUME Rows
    PROVE  /\ Pending \in Seq(Changes)
           /\ Len(Pending) <= BatchSize
           /\ \A k \in 1..Len(Pending) :
                  \E j \in Due : /\ Pending[k] = order[j]
                                 /\ \A i \in Due : i < j =>
                                        \E m \in 1..k - 1 : Pending[m] = order[i]
<1> DEFINE n == IF Cardinality(Due) < BatchSize THEN Cardinality(Due) ELSE BatchSize
           place(k) == CHOOSE i \in Due : Rank(i) = k - 1
<1>1. n \in Nat /\ n <= BatchSize /\ n <= Cardinality(Due) /\ Cardinality(Due) \in Nat
  BY DueFacts, ChangesAssumption
<1>2. \A k \in 1..n : place(k) \in Due /\ Rank(place(k)) = k - 1
  <2> SUFFICES ASSUME NEW k \in 1..n PROVE place(k) \in Due /\ Rank(place(k)) = k - 1
    OBVIOUS
  <2>1. k - 1 \in Nat /\ k - 1 < Cardinality(Due)
    BY <1>1
  <2>2. \E i \in Due : Rank(i) = k - 1
    BY <2>1, DueFacts
  <2> QED BY <2>2
<1>3. Pending = [k \in 1..n |-> order[place(k)]]
  BY DEF Pending
<1> HIDE DEF n, place
<1>4. \A k \in 1..n : order[place(k)] \in Changes
  BY <1>2, DueFacts DEF Rows
<1>5. Pending \in Seq(Changes) /\ Len(Pending) = n
  BY <1>1, <1>3, <1>4
<1>6. ASSUME NEW k \in 1..n, NEW i \in Due, i < place(k)
      PROVE  \E m \in 1..k - 1 : Pending[m] = order[i]
  <2>1. Rank(i) < k - 1 /\ Rank(i) \in Nat
    BY <1>2, <1>6, RankOrders, DueFacts
  <2> DEFINE m == Rank(i) + 1
  <2>2. m \in 1..k - 1 /\ m \in 1..n
    BY <1>1, <2>1
  <2>3. place(m) \in Due /\ Rank(place(m)) = Rank(i)
    BY <1>2, <2>1, <2>2
  <2>4. place(m) = i
    <3>1. place(m) \in Nat /\ i \in Nat
      BY <2>3, DueFacts
    <3>2. ~ (place(m) < i) /\ ~ (i < place(m))
      BY <2>3, RankOrders, DueFacts
    <3> QED BY <3>1, <3>2
  <2>5. Pending[m] = order[place(m)]
    BY <1>3, <2>2
  <2> QED BY <2>2, <2>4, <2>5
<1>7. \A k \in 1..n : Pending[k] = order[place(k)]
  BY <1>3
<1> QED
  BY <1>1, <1>2, <1>5, <1>6, <1>7

-----------------------------------------------------------------------------
(* Every statement of the app keeps the table, the calls, the histories and *)
(* the flag in their types.                                                 *)

\* What a statement does that leaves the rows and the batches alone.
LEMMA QueueKept ==
    ASSUME QueueTyped, UNCHANGED <<outbox, order, batch>>,
           pc' \in [Drains -> {"idle", "checking", "fetching"} \cup Working],
           \A d \in Drains : pc'[d] \in Working <=> pc[d] \in Working,
           Histories', Flagged'
    PROVE  QueueTyped'
<1>1. Rows'
  BY DEF QueueTyped, Rows
<1>2. Calls'
  BY CallsKept DEF QueueTyped
<1> QED BY <1>1, <1>2 DEF QueueTyped

LEMMA CallDrainTyped ==
    ASSUME Calls, CallDrain
    PROVE  /\ pc' \in [Drains -> {"idle", "checking", "fetching"} \cup Working]
           /\ \A d \in Drains : pc'[d] \in Working <=> pc[d] \in Working
           /\ \A d \in Drains : Looping(d) => Looping(d)'
BY DEF Calls, CallDrain, Working, Looping

LEMMA HistoriesKept ==
    ASSUME Histories, UNCHANGED <<delivered, failed, interrupted, faults>>
    PROVE  Histories'
BY DEF Histories

\* The flag stays as it is, and no call leaves its loop.
LEMMA FlaggedKept ==
    ASSUME Flagged, draining' => draining, \A d \in Drains : Looping(d) => Looping(d)'
    PROVE  Flagged'
BY DEF Flagged

LEMMA DrainTyped ==
    ASSUME QueueTyped, NEW d \in Drains, Drain(d)
    PROVE  QueueTyped'
<1> USE DEF QueueTyped
<1>0. /\ pc \in [Drains -> {"idle", "checking", "fetching"} \cup Working]
      /\ outbox \in [Changes -> {"none", "pending", "syncing", "failed", "gone"}]
  BY DEF Calls, Rows
<1>1. CASE Check(d)
  <2>1. /\ pc' \in [Drains -> {"idle", "checking", "fetching"} \cup Working]
        /\ \A e \in Drains : pc'[e] \in Working <=> pc[e] \in Working
    BY <1>0, <1>1 DEF Check, Working
  <2>2. Flagged'
    BY <1>0, <1>1 DEF Check, Flagged, Looping
  <2>3. Histories'
    BY <1>1, HistoriesKept DEF Check, history, device
  <2> QED BY <1>1, <2>1, <2>2, <2>3, QueueKept DEF Check
<1>2. CASE Fetch(d)
  <2>1. /\ Pending \in Seq(Changes) /\ Len(Pending) <= BatchSize
        /\ \A k \in 1..Len(Pending) : outbox[Pending[k]] # "none"
    <3>1. \A k \in 1..Len(Pending) : \E j \in Due : Pending[k] = order[j]
      BY PendingFacts
    <3>2. \A j \in Due : outbox[order[j]] # "none"
      BY DEF Due
    <3> QED BY <3>1, <3>2, PendingFacts
  <2>2. /\ batch' = [batch EXCEPT ![d] = Pending]
        /\ pc' = [pc EXCEPT ![d] = IF Pending = <<>> THEN "idle" ELSE "processing"]
        /\ UNCHANGED <<outbox, order>>
    BY <1>2 DEF Fetch
  <2>3. Calls'
    <3> HIDE DEF Pending
    <3> USE DEF Calls
    <3>1. pc' \in [Drains -> {"idle", "checking", "fetching"} \cup Working]
      BY <1>0, <2>2 DEF Working
    <3>2. batch' \in [Drains -> Seq(Changes)]
      BY <2>1, <2>2
    <3>3. /\ Len(batch'[d]) <= BatchSize
          /\ pc'[d] \in Working <=> batch'[d] # <<>>
          /\ \A k \in 1..Len(batch'[d]) : outbox'[batch'[d][k]] # "none"
      BY <1>0, <2>1, <2>2 DEF Working
    <3>4. \A e \in Drains \ {d} : batch'[e] = batch[e] /\ pc'[e] = pc[e]
      BY <1>0, <2>2
    <3> QED BY <2>2, <3>1, <3>2, <3>3, <3>4
  <2>4. Rows'
    BY <2>2 DEF Rows
  <2>5. Histories'
    BY <1>2, HistoriesKept DEF Fetch, history, device
  <2>6. Flagged'
    <3>1. CASE Pending = <<>>
      BY <1>2, <3>1 DEF Fetch, Flagged
    <3>2. CASE Pending # <<>>
      <4>1. \A e \in Drains : Looping(e) => Looping(e)'
        BY <1>0, <2>2, <3>2 DEF Looping
      <4>2. draining' = draining
        BY <1>2, <3>2 DEF Fetch
      <4> QED BY <4>1, <4>2, FlaggedKept
    <3> QED BY <3>1, <3>2
  <2> QED BY <2>3, <2>4, <2>5, <2>6
<1>3. CASE Skip(d) \/ MarkDone(d) \/ MarkFailed(d)
  <2>1. pc[d] \in Working /\ Proceed(d)
    BY <1>3 DEF Skip, MarkDone, MarkFailed, Working
  <2>2. Entry(d) \in Changes /\ outbox[Entry(d)] # "none"
    BY <2>1, EntryFacts
  <2>3. /\ outbox' \in [Changes -> {"none", "pending", "syncing", "failed", "gone"}]
        /\ \A c \in Changes : outbox'[c] = "none" <=> outbox[c] = "none"
        /\ order' = order
    BY <1>0, <1>3, <2>2 DEF Skip, MarkDone, MarkFailed
  <2>4. Rows'
    BY <2>3, RowsKept
  <2>5. Calls'
    BY <2>1, <2>3, CallsProceed
  <2>6. Histories'
    BY <1>3, <2>2 DEF Skip, MarkDone, MarkFailed, Histories, history, device
  <2>7. \A e \in Drains : Looping(e) => Looping(e)'
    BY <1>0, <2>1 DEF Proceed, Looping
  <2>8. draining' = draining
    BY <1>3 DEF Skip, MarkDone, MarkFailed
  <2>9. Flagged'
    BY <2>7, <2>8, FlaggedKept
  <2> QED BY <2>4, <2>5, <2>6, <2>9
<1>4. CASE MarkSyncing(d)
  <2>1. pc[d] = "processing" /\ pc' = [pc EXCEPT ![d] = "sending"]
    BY <1>4 DEF MarkSyncing
  <2>2. Entry(d) \in Changes /\ outbox[Entry(d)] # "none"
    BY <2>1, EntryFacts DEF Working
  <2>3. /\ outbox' \in [Changes -> {"none", "pending", "syncing", "failed", "gone"}]
        /\ \A c \in Changes : outbox'[c] = "none" <=> outbox[c] = "none"
        /\ order' = order /\ batch' = batch
    BY <1>0, <1>4, <2>2 DEF MarkSyncing
  <2>4. Rows'
    BY <2>3, RowsKept
  <2>5. /\ pc' \in [Drains -> {"idle", "checking", "fetching"} \cup Working]
        /\ \A e \in Drains : pc'[e] \in Working <=> pc[e] \in Working
    BY <1>0, <2>1 DEF Working
  <2>6. Calls'
    BY <2>3, <2>5, CallsKept
  <2>7. Histories'
    BY <1>4, HistoriesKept DEF MarkSyncing, history, device
  <2>8. \A e \in Drains : Looping(e) => Looping(e)'
    BY <1>0, <2>1 DEF Looping
  <2>9. Flagged'
    BY <1>4, <2>8, FlaggedKept DEF MarkSyncing
  <2> QED BY <2>4, <2>6, <2>7, <2>9
<1>5. CASE SendOk(d) \/ SendRefused(d)
  <2>1. pc[d] = "sending" /\ \E s \in {"sent", "refused"} : pc' = [pc EXCEPT ![d] = s]
    BY <1>5 DEF SendOk, SendRefused
  <2>2. Entry(d) \in Changes
    BY <2>1, EntryFacts DEF Working
  <2>3. /\ pc' \in [Drains -> {"idle", "checking", "fetching"} \cup Working]
        /\ \A e \in Drains : pc'[e] \in Working <=> pc[e] \in Working
    BY <1>0, <2>1 DEF Working
  <2>4. Histories'
    BY <1>5, <2>2 DEF SendOk, SendRefused, Histories, device
  <2>5. \A e \in Drains : Looping(e) => Looping(e)'
    BY <1>0, <2>1 DEF Looping
  <2>6. Flagged'
    BY <1>5, <2>5, FlaggedKept DEF SendOk, SendRefused
  <2> QED BY <1>5, <2>3, <2>4, <2>6, QueueKept DEF SendOk, SendRefused
<1> QED
  BY <1>1, <1>2, <1>3, <1>4, <1>5 DEF Drain

LEMMA SendLostTyped ==
    ASSUME QueueTyped, NEW d \in Drains, NEW arrived \in BOOLEAN, SendLost(d, arrived)
    PROVE  QueueTyped'
<1> USE DEF QueueTyped
<1>0. /\ pc \in [Drains -> {"idle", "checking", "fetching"} \cup Working]
      /\ pc[d] = "sending" /\ pc' = [pc EXCEPT ![d] = "refused"]
  BY DEF Calls, SendLost
<1>1. Entry(d) \in Changes
  BY <1>0, EntryFacts DEF Working
<1>2. /\ pc' \in [Drains -> {"idle", "checking", "fetching"} \cup Working]
      /\ \A e \in Drains : pc'[e] \in Working <=> pc[e] \in Working
  BY <1>0 DEF Working
<1>3. Histories'
  BY <1>1, ChangesAssumption DEF SendLost, Histories
<1>4. \A e \in Drains : Looping(e) => Looping(e)'
  BY <1>0 DEF Looping
<1>5. Flagged'
  BY <1>4, FlaggedKept DEF SendLost
<1> QED BY <1>2, <1>3, <1>5, QueueKept DEF SendLost

LEMMA QueueTypedHolds == Spec => []QueueTyped
<1>1. Init => QueueTyped
  <2> SUFFICES ASSUME Init PROVE QueueTyped
    OBVIOUS
  <2>1. Rows
    BY DEF Init, Rows
  <2>2. Calls
    BY ChangesAssumption DEF Init, Calls, Working
  <2>3. Histories /\ Flagged
    BY ChangesAssumption DEF Init, Histories, Flagged
  <2> QED BY <2>1, <2>2, <2>3 DEF QueueTyped
<1>2. QueueTyped /\ [Next]_vars => QueueTyped'
  <2> SUFFICES ASSUME QueueTyped, [Next]_vars PROVE QueueTyped'
    OBVIOUS
  <2>0. Rows /\ Calls /\ Histories /\ Flagged
    BY DEF QueueTyped
  <2>1. ASSUME NEW c \in Changes, Enqueue(c) PROVE QueueTyped'
    <3>1. Rows'
      BY <2>0, <2>1, RowsEnqueue DEF Enqueue
    <3>2. \A b \in Changes : outbox[b] # "none" => outbox'[b] # "none"
      BY <2>0, <2>1 DEF Enqueue, Rows
    <3>3. Calls'
      BY <2>0, <2>1, <3>2, CallDrainTyped, CallsKept DEF Enqueue
    <3>4. Histories' /\ Flagged'
      BY <2>0, <2>1, CallDrainTyped, HistoriesKept, FlaggedKept DEF Enqueue, device, history
    <3> QED BY <3>1, <3>3, <3>4 DEF QueueTyped
  <2>2. CASE TimerFires
    BY <2>0, <2>2, CallDrainTyped, HistoriesKept, FlaggedKept, QueueKept
       DEF TimerFires, device, history
  <2>3. CASE Register \/ GoOffline
    <3>1. UNCHANGED <<outbox, order, pc, batch, draining>>
      BY <2>3 DEF Register, GoOffline, drain
    <3>2. Histories'
      BY <2>0, <2>3, ChangesAssumption DEF Register, GoOffline, Histories, device, history
    <3>3. Flagged'
      BY <2>0, <3>1 DEF Flagged, Looping
    <3> QED BY <2>0, <3>1, <3>2, <3>3, QueueKept DEF Calls
  <2>4. CASE GoOnline \/ Launch
    <3>1. UNCHANGED <<outbox, order, batch, draining>>
      BY <2>4 DEF GoOnline, Launch
    <3>2. /\ pc' \in [Drains -> {"idle", "checking", "fetching"} \cup Working]
          /\ \A d \in Drains : pc'[d] \in Working <=> pc[d] \in Working
          /\ \A d \in Drains : Looping(d) => Looping(d)'
      BY <2>0, <2>4, CallDrainTyped DEF GoOnline, Launch, Calls, Looping
    <3>3. Histories' /\ Flagged'
      BY <2>0, <2>4, <3>1, <3>2, HistoriesKept, FlaggedKept DEF GoOnline, Launch, history
    <3> QED BY <3>1, <3>2, <3>3, QueueKept
  <2>6. CASE Kill
    <3>1. Rows'
      BY <2>0, <2>6 DEF Kill, Rows
    <3>2. Calls'
      <4>1. \A d \in Drains : pc'[d] = "idle" /\ batch'[d] = <<>>
        BY <2>6 DEF Kill
      <4>2. pc' \in [Drains -> {"idle", "checking", "fetching"} \cup Working]
        BY <2>6 DEF Kill
      <4>3. batch' \in [Drains -> Seq(Changes)]
        BY <2>6 DEF Kill
      <4> QED BY <4>1, <4>2, <4>3, ChangesAssumption DEF Calls, Working
    <3>3. Histories' /\ Flagged'
      BY <2>0, <2>6, ChangesAssumption DEF Kill, Histories, Flagged
    <3> QED BY <3>1, <3>2, <3>3 DEF QueueTyped
  <2>8. ASSUME NEW d \in Drains, Drain(d) PROVE QueueTyped'
    BY <2>8, DrainTyped
  <2>9. ASSUME NEW d \in Drains, NEW arrived \in BOOLEAN, SendLost(d, arrived)
        PROVE  QueueTyped'
    BY <2>9, SendLostTyped
  <2>10. CASE UNCHANGED vars
    <3>1. UNCHANGED <<outbox, order, pc, batch, draining, delivered, failed, interrupted, faults>>
      BY <2>10 DEF vars, drain, device, history
    <3>2. Histories' /\ Flagged'
      BY <2>0, <3>1 DEF Histories, Flagged, Looping
    <3> QED BY <2>0, <3>1, <3>2, QueueKept DEF Calls
  <2> QED
    BY <2>1, <2>2, <2>3, <2>4, <2>6, <2>8, <2>9, <2>10 DEF Next
<1> QED
  BY <1>1, <1>2, PTL DEF Spec

\* Every name a batch holds is a row the table has held, while rows are written
\* and calls overlap and die; and _draining is set only while a call that will
\* clear it is at work.
THEOREM SyncTypeCorrect == Spec => []TypeOK
  BY QueueTypedHolds, TypedIsTypeOK, PTL

-----------------------------------------------------------------------------
(* The order of what is sent.                                              *)

\* A call that is about to write a failure back knows of it.
RefusedIsFailed == \A d \in Drains : pc[d] = "refused" => Entry(d) \in failed

\* The server has nothing that was not in the table.
DeliveredIsRow == \A c \in delivered : outbox[c] # "none"

(* What was made before an entry of a batch comes before it in that batch,  *)
(* or had had its turn when the batch was fetched.                          *)
InOrder ==
    \A d \in Drains : \A k \in 1..Len(batch[d]) : \A i, j \in 1..Len(order) :
        i < j /\ order[j] = batch[d][k] =>
            Tried(order[i]) \/ \E m \in 1..k - 1 : batch[d][m] = order[i]

SettledInv == RefusedIsFailed /\ DeliveredIsRow
OrderInv == InOrder /\ OvertakesOnlyTrouble
SendingInv == QueueTyped /\ DeliveryInv /\ SettledInv /\ OrderInv

\* What has had its turn has had it for good.
LEMMA TriedStays ==
    ASSUME SendingInv, [Next]_vars
    PROVE  \A c \in Changes : Tried(c) => Tried(c)'
<1> SUFFICES ASSUME NEW c \in Changes, Tried(c) PROVE Tried(c)'
  OBVIOUS
<1>0. outbox \in [Changes -> {"none", "pending", "syncing", "failed", "gone"}]
  BY DEF SendingInv, QueueTyped, Rows
<1> USE DEF Tried
<1>1. ASSUME NEW b \in Changes, Enqueue(b) PROVE Tried(c)'
  BY <1>0, <1>1 DEF Enqueue, history
<1>2. CASE TimerFires \/ Register \/ GoOnline \/ GoOffline \/ Launch \/ UNCHANGED vars
  BY <1>2 DEF TimerFires, Register, GoOnline, GoOffline, Launch, vars, history
<1>3. CASE Kill
  BY <1>3 DEF Kill
<1>4. ASSUME NEW d \in Drains, Drain(d) PROVE Tried(c)'
  <2>1. CASE Check(d) \/ Fetch(d)
    BY <2>1 DEF Check, Fetch, history
  <2>2. CASE Skip(d) \/ SendOk(d) \/ SendRefused(d)
    BY <2>2 DEF Skip, SendOk, SendRefused
  <2>3. CASE MarkSyncing(d)
    BY <1>0, <2>3 DEF MarkSyncing, history
  <2>4. CASE MarkDone(d)
    <3>1. Entry(d) \in delivered
      BY <2>4 DEF MarkDone, SendingInv, DeliveryInv, SentIsDelivered
    <3> QED BY <1>0, <2>4, <3>1 DEF MarkDone, history
  <2>5. CASE MarkFailed(d)
    <3>1. Entry(d) \in failed
      BY <2>5 DEF MarkFailed, SendingInv, SettledInv, RefusedIsFailed
    <3> QED BY <1>0, <2>5, <3>1 DEF MarkFailed, history
  <2> QED
    BY <1>4, <2>1, <2>2, <2>3, <2>4, <2>5 DEF Drain
<1>5. ASSUME NEW d \in Drains, NEW arrived \in BOOLEAN, SendLost(d, arrived)
      PROVE  Tried(c)'
  BY <1>5 DEF SendLost
<1> QED
  BY <1>1, <1>2, <1>3, <1>4, <1>5 DEF Next

\* The table in its order, and what names of it a batch holds.
LEMMA PlacesAreChanges ==
    ASSUME QueueTyped
    PROVE  /\ order \in Seq(Changes) /\ Len(order) \in Nat
           /\ \A i \in 1..Len(order) : order[i] \in Changes
           /\ \A i, j \in 1..Len(order) : order[i] = order[j] => i = j
           /\ batch \in [Drains -> Seq(Changes)]
           /\ \A d \in Drains : Len(batch[d]) \in Nat
BY DEF QueueTyped, Rows, Calls

\* A statement that delivers nothing new and leaves the batches.
LEMMA OrderKept ==
    ASSUME QueueTyped, OrderInv, UNCHANGED <<order, batch, delivered>>,
           \A c \in Changes : Tried(c) => Tried(c)'
    PROVE  OrderInv'
<1>1. \A i \in 1..Len(order) : order[i] \in Changes /\ (Tried(order[i]) => Tried(order[i])')
  BY PlacesAreChanges
<1>2. InOrder'
  BY <1>1 DEF OrderInv, InOrder
<1>3. OvertakesOnlyTrouble'
  BY <1>1 DEF OrderInv, OvertakesOnlyTrouble, Tried
<1> QED
  BY <1>2, <1>3 DEF OrderInv

\* The entry in hand is delivered: all before it have had their turn.
LEMMA OrderSend ==
    ASSUME QueueTyped, OrderInv, NEW d \in Drains, pc[d] \in Working,
           UNCHANGED <<order, batch>>, delivered' \subseteq delivered \cup {Entry(d)},
           \A c \in Changes : Tried(c) => Tried(c)'
    PROVE  OrderInv'
<1>1. \A i \in 1..Len(order) : order[i] \in Changes /\ (Tried(order[i]) => Tried(order[i])')
  BY PlacesAreChanges
<1>2. InOrder'
  BY <1>1 DEF OrderInv, InOrder
<1>3. \A i, j \in 1..Len(order) : i < j /\ order[j] = Entry(d) => Tried(order[i])
  <2>1. Entry(d) = batch[d][1] /\ 1 \in 1..Len(batch[d])
    BY EntryFacts
  <2>2. \A m \in 1..1 - 1 : FALSE
    OBVIOUS
  <2> QED BY <2>1, <2>2 DEF OrderInv, InOrder
<1>4. ASSUME NEW i \in 1..Len(order), NEW j \in 1..Len(order), i < j, order[j] \in delivered'
      PROVE  Tried(order[i])'
  <2>1. CASE order[j] \in delivered
    BY <1>1, <1>4, <2>1 DEF OrderInv, OvertakesOnlyTrouble, Tried
  <2>2. CASE order[j] = Entry(d)
    BY <1>1, <1>3, <1>4, <2>2
  <2> QED BY <1>4, <2>1, <2>2
<1>5. OvertakesOnlyTrouble'
  BY <1>4 DEF OvertakesOnlyTrouble, Tried
<1> QED
  BY <1>2, <1>5 DEF OrderInv

\* The loop leaves the entry in hand behind, which has had its turn by now.
LEMMA OrderProceed ==
    ASSUME QueueTyped, OrderInv, NEW d \in Drains, pc[d] \in Working, Proceed(d),
           UNCHANGED <<order, delivered>>, NEW b, b = Entry(d), Tried(b)',
           \A c \in Changes : Tried(c) => Tried(c)'
    PROVE  OrderInv'
<1>1. \A i \in 1..Len(order) : order[i] \in Changes /\ (Tried(order[i]) => Tried(order[i])')
  BY PlacesAreChanges
<1>2. OvertakesOnlyTrouble'
  BY <1>1 DEF OrderInv, OvertakesOnlyTrouble, Tried
<1>3. /\ batch' = [batch EXCEPT ![d] = Tail(batch[d])]
      /\ batch'[d] = Tail(batch[d])
      /\ \A e \in Drains \ {d} : batch'[e] = batch[e]
      /\ Entry(d) = batch[d][1] /\ Len(batch[d]) \in Nat \ {0}
  BY PlacesAreChanges, EntryFacts DEF Proceed
<1>4. /\ Len(Tail(batch[d])) = Len(batch[d]) - 1
      /\ \A k \in 1..Len(Tail(batch[d])) : Tail(batch[d])[k] = batch[d][k + 1]
  <2>1. batch[d] \in Seq(Changes) /\ batch[d] # <<>>
    BY <1>3, PlacesAreChanges, EmptySeq
  <2> QED BY <2>1, TailFacts
<1>5. ASSUME NEW k \in 1..Len(batch'[d]), NEW i \in 1..Len(order), NEW j \in 1..Len(order),
             i < j, order[j] = batch'[d][k]
      PROVE  Tried(order[i])' \/ \E m \in 1..k - 1 : batch'[d][m] = order[i]
  <2>0. k \in 1..Len(Tail(batch[d])) /\ order[j] = Tail(batch[d])[k]
    BY <1>3, <1>5
  <2>1. k + 1 \in 1..Len(batch[d]) /\ order[j] = batch[d][k + 1]
    BY <1>3, <1>4, <2>0
  <2>2. Tried(order[i]) \/ \E m \in 1..(k + 1) - 1 : batch[d][m] = order[i]
    BY <1>5, <2>1 DEF OrderInv, InOrder
  <2>3. CASE Tried(order[i])
    BY <1>1, <2>3
  <2>4. ASSUME NEW m \in 1..(k + 1) - 1, batch[d][m] = order[i]
        PROVE  Tried(order[i])' \/ \E n \in 1..k - 1 : batch'[d][n] = order[i]
    <3>1. CASE m = 1
      <4>1. order[i] = b /\ order' = order
        BY <1>3, <2>4, <3>1
      <4> QED BY <4>1
    <3>2. CASE m # 1
      <4>1. m - 1 \in 1..k - 1 /\ m - 1 \in 1..Len(Tail(batch[d])) /\ (m - 1) + 1 = m
        BY <1>3, <1>4, <2>4, <3>2
      <4>2. batch'[d][m - 1] = order[i]
        BY <1>3, <1>4, <2>4, <4>1
      <4> QED BY <4>1, <4>2
    <3> QED BY <3>1, <3>2
  <2> QED BY <2>2, <2>3, <2>4
<1>6. ASSUME NEW e \in Drains \ {d}, NEW k \in 1..Len(batch'[e]),
             NEW i \in 1..Len(order), NEW j \in 1..Len(order), i < j, order[j] = batch'[e][k]
      PROVE  Tried(order[i])' \/ \E m \in 1..k - 1 : batch'[e][m] = order[i]
  BY <1>1, <1>3, <1>6 DEF OrderInv, InOrder
<1>7. InOrder'
  BY <1>5, <1>6 DEF InOrder
<1> QED
  BY <1>2, <1>7 DEF OrderInv

\* A fetched batch: a row that pending() leaves out is on its way or delivered.
LEMMA OrderFetch ==
    ASSUME SendingInv, NEW d \in Drains, UNCHANGED <<outbox, order, history>>,
           batch' = [batch EXCEPT ![d] = Pending]
    PROVE  OrderInv'
<1> USE DEF SendingInv
<1>1. \A i \in 1..Len(order) : order[i] \in Changes /\ (Tried(order[i]) <=> Tried(order[i])')
  BY PlacesAreChanges DEF Tried, history
<1>2. OvertakesOnlyTrouble'
  BY DEF OrderInv, OvertakesOnlyTrouble, Tried, history
<1>3. batch'[d] = Pending /\ \A e \in Drains \ {d} : batch'[e] = batch[e]
  BY PlacesAreChanges
<1>4. ASSUME NEW i \in 1..Len(order), i \notin Due PROVE Tried(order[i])
  <2>1. order[i] \in Changes /\ outbox[order[i]] # "none"
    BY DEF QueueTyped, Rows
  <2>2. outbox[order[i]] \in {"syncing", "gone"}
    BY <1>4, <2>1 DEF Due, QueueTyped, Rows
  <2> QED BY <2>1, <2>2 DEF Tried, DeliveryInv, GoneWasDelivered
<1>5. ASSUME NEW k \in 1..Len(Pending), NEW i \in 1..Len(order), NEW j \in 1..Len(order),
             i < j, order[j] = Pending[k]
      PROVE  Tried(order[i])' \/ \E m \in 1..k - 1 : Pending[m] = order[i]
  <2>1. PICK h \in Due : /\ Pending[k] = order[h]
                         /\ \A g \in Due : g < h => \E m \in 1..k - 1 : Pending[m] = order[g]
    BY PendingFacts DEF QueueTyped
  <2>2. h \in 1..Len(order)
    BY DEF Due
  <2>3. h = j
    BY <1>5, <2>1, <2>2, PlacesAreChanges
  <2> QED BY <1>1, <1>4, <1>5, <2>1, <2>3
<1>6. ASSUME NEW e \in Drains \ {d}, NEW k \in 1..Len(batch'[e]),
             NEW i \in 1..Len(order), NEW j \in 1..Len(order), i < j, order[j] = batch'[e][k]
      PROVE  Tried(order[i])' \/ \E m \in 1..k - 1 : batch'[e][m] = order[i]
  BY <1>1, <1>3, <1>6 DEF OrderInv, InOrder
<1>7. \A e \in Drains : \A k \in 1..Len(batch'[e]) : \A i, j \in 1..Len(order) :
          i < j /\ order[j] = batch'[e][k] =>
              Tried(order[i])' \/ \E m \in 1..k - 1 : batch'[e][m] = order[i]
  <2> SUFFICES ASSUME NEW e \in Drains
               PROVE  \A k \in 1..Len(batch'[e]) : \A i, j \in 1..Len(order) :
                          i < j /\ order[j] = batch'[e][k] =>
                              Tried(order[i])' \/ \E m \in 1..k - 1 : batch'[e][m] = order[i]
    OBVIOUS
  <2>1. CASE e = d
    BY <1>3, <1>5, <2>1
  <2>2. CASE e # d
    BY <1>6, <2>2
  <2> QED BY <2>1, <2>2
<1>8. InOrder'
  BY <1>7 DEF InOrder
<1> QED
  BY <1>2, <1>8 DEF OrderInv

\* A new row is the last in the order, and neither in a batch nor delivered.
LEMMA OrderEnqueue ==
    ASSUME SendingInv, NEW c \in Changes, Enqueue(c),
           \A b \in Changes : Tried(b) => Tried(b)'
    PROVE  OrderInv'
<1> USE DEF SendingInv
<1>1. \A i \in 1..Len(order) : order[i] \in Changes
  BY PlacesAreChanges
<1>2. /\ Len(order') = Len(order) + 1 /\ order'[Len(order) + 1] = c
      /\ \A i \in 1..Len(order) : order'[i] = order[i]
      /\ UNCHANGED <<batch, history>> /\ outbox[c] = "none"
  BY PlacesAreChanges DEF Enqueue
<1>3. c \notin delivered
  BY <1>2 DEF SettledInv, DeliveredIsRow
<1>4. \A d \in Drains : \A k \in 1..Len(batch[d]) : batch[d][k] # c
  BY <1>2 DEF QueueTyped, Calls
<1>5. \A i, j \in 1..Len(order') : i < j /\ order'[j] # c =>
          i \in 1..Len(order) /\ j \in 1..Len(order)
  BY <1>2, PlacesAreChanges
<1>6. ASSUME NEW d \in Drains, NEW k \in 1..Len(batch[d]),
             NEW i \in 1..Len(order'), NEW j \in 1..Len(order'), i < j, order'[j] = batch[d][k]
      PROVE  Tried(order[i])' \/ \E m \in 1..k - 1 : batch[d][m] = order'[i]
  <2>1. i \in 1..Len(order) /\ j \in 1..Len(order)
    BY <1>4, <1>5, <1>6
  <2>2. order'[i] = order[i] /\ order[j] = batch[d][k]
    BY <1>2, <1>6, <2>1
  <2>3. Tried(order[i]) \/ \E m \in 1..k - 1 : batch[d][m] = order[i]
    BY <1>6, <2>1, <2>2 DEF OrderInv, InOrder
  <2>4. CASE Tried(order[i])
    <3>1. PICK b \in Changes : b = order[i]
      BY <1>1, <2>1
    <3>2. Tried(b)' /\ order'[i] = b
      BY <2>2, <2>4, <3>1
    <3> QED BY <3>2
  <2> QED BY <2>2, <2>3, <2>4
<1>7. InOrder'
  BY <1>2, <1>6 DEF InOrder
<1>8. ASSUME NEW i \in 1..Len(order'), NEW j \in 1..Len(order'), i < j, order'[j] \in delivered
      PROVE  order'[i] \in (delivered \cup failed \cup interrupted)' \/ outbox'[order'[i]] = "syncing"
  <2>1. i \in 1..Len(order) /\ j \in 1..Len(order)
    BY <1>3, <1>5, <1>8
  <2>2. order'[i] = order[i] /\ order[j] \in delivered
    BY <1>2, <1>8, <2>1
  <2>3. Tried(order[i])
    BY <1>8, <2>1, <2>2 DEF OrderInv, OvertakesOnlyTrouble, Tried
  <2>4. PICK b \in Changes : b = order[i]
    BY <1>1, <2>1
  <2>5. Tried(b)'
    BY <2>3, <2>4
  <2> QED BY <2>2, <2>4, <2>5 DEF Tried
<1>9. OvertakesOnlyTrouble'
  BY <1>2, <1>8 DEF OvertakesOnlyTrouble, Tried, history
<1> QED
  BY <1>7, <1>9 DEF OrderInv

-----------------------------------------------------------------------------
LEMMA SettledStep ==
    ASSUME QueueTyped, SettledInv, [Next]_vars
    PROVE  SettledInv'
<1> USE DEF SettledInv
<1>0. /\ outbox \in [Changes -> {"none", "pending", "syncing", "failed", "gone"}]
      /\ DOMAIN pc = Drains /\ DOMAIN batch = Drains /\ Functional
      /\ delivered \subseteq Changes
  BY DEF QueueTyped, Rows, Calls, Histories, Functional
<1> USE DEF RefusedIsFailed, DeliveredIsRow
<1>1. ASSUME NEW c \in Changes, Enqueue(c) PROVE SettledInv'
  BY <1>0, <1>1, CallDrainIdle DEF Enqueue, Entry, history
<1>2. CASE TimerFires
  BY <1>0, <1>2, CallDrainIdle DEF TimerFires, Entry, history
<1>3. CASE Register \/ GoOffline \/ UNCHANGED vars
  BY <1>3 DEF Register, GoOffline, vars, drain, Entry, history
<1>4. CASE GoOnline \/ Launch
  BY <1>0, <1>4, CallDrainIdle DEF GoOnline, Launch, Entry, history
<1>5. CASE Kill
  BY <1>5 DEF Kill, Entry
<1>6. ASSUME NEW d \in Drains, Drain(d) PROVE SettledInv'
  <2>0. pc[d] \in Working => Entry(d) \in Changes /\ outbox[Entry(d)] # "none"
    BY EntryFacts
  <2> USE DEF Entry, Working
  <2>1. CASE Check(d) \/ Fetch(d)
    BY <1>0, <2>1 DEF Check, Fetch, history
  <2>2. CASE Skip(d)
    BY <1>0, <2>2 DEF Skip, Proceed
  <2>3. CASE MarkSyncing(d)
    BY <1>0, <2>3 DEF MarkSyncing, history
  <2>4. CASE SendOk(d)
    BY <1>0, <2>0, <2>4 DEF SendOk
  <2>5. CASE SendRefused(d)
    BY <1>0, <2>5 DEF SendRefused
  <2>6. CASE MarkDone(d)
    BY <1>0, <2>6 DEF MarkDone, Proceed, history
  <2>7. CASE MarkFailed(d)
    BY <1>0, <2>7 DEF MarkFailed, Proceed, history
  <2> QED
    BY <1>6, <2>1, <2>2, <2>3, <2>4, <2>5, <2>6, <2>7 DEF Drain
<1>7. ASSUME NEW d \in Drains, NEW arrived \in BOOLEAN, SendLost(d, arrived)
      PROVE  SettledInv'
  <2>1. Entry(d) \in Changes /\ outbox[Entry(d)] # "none"
    BY <1>7, EntryFacts DEF SendLost, Working
  <2> QED BY <1>0, <1>7, <2>1 DEF SendLost, Entry
<1> QED
  BY <1>1, <1>2, <1>3, <1>4, <1>5, <1>6, <1>7 DEF Next

LEMMA OrderStep ==
    ASSUME SendingInv, [Next]_vars
    PROVE  OrderInv'
<1> USE DEF SendingInv
<1>0. \A c \in Changes : Tried(c) => Tried(c)'
  BY TriedStays
<1>1. ASSUME NEW c \in Changes, Enqueue(c) PROVE OrderInv'
  BY <1>0, <1>1, OrderEnqueue
<1>2. CASE TimerFires \/ Register \/ GoOnline \/ GoOffline \/ Launch \/ UNCHANGED vars
  <2>1. UNCHANGED <<order, batch, delivered>>
    BY <1>2 DEF TimerFires, Register, GoOnline, GoOffline, Launch, vars, drain, history
  <2> QED BY <1>0, <2>1, OrderKept
<1>3. CASE Kill
  <2>1. \A d \in Drains : Len(batch'[d]) = 0
    BY <1>3 DEF Kill
  <2>2. InOrder'
    BY <2>1 DEF InOrder
  <2>3. UNCHANGED <<order, delivered>>
    BY <1>3 DEF Kill
  <2>4. \A i \in 1..Len(order) : order[i] \in Changes /\ (Tried(order[i]) => Tried(order[i])')
    BY <1>0, <2>3, PlacesAreChanges
  <2>5. OvertakesOnlyTrouble'
    BY <2>3, <2>4 DEF OrderInv, OvertakesOnlyTrouble, Tried
  <2> QED BY <2>2, <2>5 DEF OrderInv
<1>4. ASSUME NEW d \in Drains, Drain(d) PROVE OrderInv'
  <2>1. CASE Check(d) \/ MarkSyncing(d) \/ SendRefused(d)
    <3>1. UNCHANGED <<order, batch, delivered>>
      BY <2>1 DEF Check, MarkSyncing, SendRefused, history
    <3> QED BY <1>0, <3>1, OrderKept
  <2>2. CASE Fetch(d)
    <3>1. UNCHANGED <<outbox, order, history>> /\ batch' = [batch EXCEPT ![d] = Pending]
      BY <2>2 DEF Fetch
    <3> QED BY <3>1, OrderFetch
  <2>3. CASE SendOk(d)
    <3>1. /\ pc[d] \in Working /\ UNCHANGED <<order, batch>>
          /\ delivered' \subseteq delivered \cup {Entry(d)}
      BY <2>3 DEF SendOk, Working
    <3> QED BY <1>0, <3>1, OrderSend
  <2>4. CASE Skip(d) \/ MarkDone(d) \/ MarkFailed(d)
    <3>1. pc[d] \in Working /\ Proceed(d) /\ UNCHANGED <<order, delivered>>
      BY <2>4 DEF Skip, MarkDone, MarkFailed, Working, history
    <3>2. PICK e : e = Entry(d)
      OBVIOUS
    <3>3. e \in (failed \cup delivered)'
      BY <2>4, <3>2 DEF Skip, MarkDone, MarkFailed, history, DeliveryInv, SentIsDelivered,
                   SettledInv, RefusedIsFailed
    <3>4. Tried(e)'
      BY <3>3 DEF Tried
    <3> QED BY <1>0, <3>1, <3>2, <3>4, OrderProceed
  <2> QED
    BY <1>4, <2>1, <2>2, <2>3, <2>4 DEF Drain
<1>5. ASSUME NEW d \in Drains, NEW arrived \in BOOLEAN, SendLost(d, arrived)
      PROVE  OrderInv'
  <2>1. /\ pc[d] \in Working /\ UNCHANGED <<order, batch>>
        /\ delivered' \subseteq delivered \cup {Entry(d)}
    BY <1>5 DEF SendLost, Working
  <2> QED BY <1>0, <2>1, OrderSend
<1> QED
  BY <1>1, <1>2, <1>3, <1>4, <1>5 DEF Next

(* The server gets the changes in the order they were made, for any batch   *)
(* size and however the calls of drain() overlap: a change goes past an     *)
(* older one only if that one was passed over, failed, was interrupted or   *)
(* is still being sent.  pending() gives each call the oldest due rows in   *)
(* their order; what it leaves out of a batch is in the hands of another.   *)
THEOREM OvertakesOnlyPastTrouble == Spec => []OvertakesOnlyTrouble
<1>1. Init => SettledInv /\ OrderInv
  BY DEF Init, SettledInv, RefusedIsFailed, DeliveredIsRow, OrderInv, InOrder, OvertakesOnlyTrouble
<1>2. SendingInv /\ [Next]_vars => (SettledInv /\ OrderInv)'
  BY SettledStep, OrderStep DEF SendingInv
<1>3. OrderInv => OvertakesOnlyTrouble
  BY DEF OrderInv
<1> QED
  BY <1>1, <1>2, <1>3, QueueTypedHolds, DeliveryHolds, PTL DEF Spec, SendingInv

-----------------------------------------------------------------------------
(* The outbox implements the queue.                                        *)

\* The change in hand of a call that is about to send it, or has, is tried.
HandTried == \A d \in Drains : pc[d] \in {"sending", "sent", "refused"} => Tried(Entry(d))

LEMMA HandTriedStep ==
    ASSUME SendingInv, HandTried, [Next]_vars
    PROVE  HandTried'
<1> USE DEF SendingInv
<1>0. /\ DOMAIN pc = Drains /\ DOMAIN batch = Drains /\ Functional
      /\ outbox \in [Changes -> {"none", "pending", "syncing", "failed", "gone"}]
  BY DEF QueueTyped, Rows, Calls, Functional
<1>1. \A c \in Changes : Tried(c) => Tried(c)'
  BY TriedStays
<1>2. \A d \in Drains : pc[d] \in Working => Entry(d) \in Changes
  BY EntryFacts
<1>3. ASSUME NEW d \in Drains, pc'[d] \in {"sending", "sent", "refused"},
             pc[d] \in {"sending", "sent", "refused"}, batch'[d] = batch[d]
      PROVE  Tried(Entry(d))'
  <2>1. PICK c \in Changes : c = Entry(d)
    BY <1>2, <1>3 DEF Working
  <2>2. Tried(c)' /\ Entry(d)' = c
    BY <1>1, <1>3, <2>1 DEF HandTried, Entry
  <2> QED BY <2>2 DEF Tried
<1>4. ASSUME \A d \in Drains : /\ batch'[d] = batch[d]
                               /\ pc'[d] \in {"sending", "sent", "refused"} =>
                                      pc[d] \in {"sending", "sent", "refused"}
      PROVE  HandTried'
  BY <1>3, <1>4 DEF HandTried
<1>5. ASSUME NEW c \in Changes, Enqueue(c) PROVE HandTried'
  BY <1>0, <1>4, <1>5, CallDrainIdle DEF Enqueue
<1>6. CASE TimerFires \/ GoOnline \/ Launch
  BY <1>0, <1>4, <1>6, CallDrainIdle DEF TimerFires, GoOnline, Launch
<1>7. CASE Register \/ GoOffline \/ UNCHANGED vars
  BY <1>4, <1>7 DEF Register, GoOffline, vars, drain
<1>8. CASE Kill
  BY <1>8 DEF Kill, HandTried
<1>9. ASSUME NEW d \in Drains, Drain(d) \/ \E arrived \in BOOLEAN : SendLost(d, arrived)
      PROVE  HandTried'
  <2>1. CASE Check(d) \/ Fetch(d) \/ Skip(d) \/ MarkDone(d) \/ MarkFailed(d)
    <3>1. /\ pc'[d] \notin {"sending", "sent", "refused"}
          /\ \A e \in Drains \ {d} : pc'[e] = pc[e] /\ batch'[e] = batch[e]
      BY <1>0, <2>1 DEF Check, Fetch, Skip, MarkDone, MarkFailed, Proceed
    <3> QED BY <1>3, <3>1 DEF HandTried
  <2>2. CASE SendOk(d) \/ SendRefused(d) \/ \E arrived \in BOOLEAN : SendLost(d, arrived)
    <3>1. /\ batch' = batch /\ pc[d] = "sending"
          /\ \A e \in Drains \ {d} : pc'[e] = pc[e]
      BY <1>0, <2>2 DEF SendOk, SendRefused, SendLost
    <3> QED BY <1>4, <3>1
  <2>3. CASE MarkSyncing(d)
    <3>1. /\ batch' = batch /\ UNCHANGED history
          /\ outbox' = [outbox EXCEPT ![Entry(d)] = IF @ = "gone" THEN @ ELSE "syncing"]
          /\ \A e \in Drains \ {d} : pc'[e] = pc[e]
      BY <1>0, <2>3 DEF MarkSyncing
    <3>2. Entry(d) \in Changes /\ Entry(d)' = Entry(d)
      BY <1>2, <2>3, <3>1 DEF MarkSyncing, Working, Entry
    <3>3. outbox[Entry(d)] = "gone" => Entry(d) \in delivered
      BY <3>2 DEF DeliveryInv, GoneWasDelivered
    <3>4. Tried(Entry(d))'
      BY <1>0, <3>1, <3>2, <3>3 DEF Tried, history
    <3> QED BY <1>3, <3>1, <3>4 DEF HandTried
  <2> QED BY <1>9, <2>1, <2>2, <2>3 DEF Drain
<1> QED
  BY <1>5, <1>6, <1>7, <1>8, <1>9 DEF Next

\* A step that brings no change its turn, applies none and moves no row is none
\* of the queue's.
LEMMA QueueStutter ==
    ASSUME UNCHANGED <<order, delivered>>,
           \A c \in Changes : Tried(c)' <=> Tried(c),
           \A c \in Changes : outbox'[c] \in {"none", "gone"} <=> outbox[c] \in {"none", "gone"}
    PROVE  UNCHANGED Queue!queueVars
<1>1. {c \in Changes : Tried(c)}' = {c \in Changes : Tried(c)}
  OBVIOUS
<1>2. {c \in Changes : outbox[c] \notin {"none", "gone"}}' = {c \in Changes : outbox[c] \notin {"none", "gone"}}
  OBVIOUS
<1> QED BY <1>1, <1>2 DEF Queue!queueVars

\* The turn of the entry in hand.
LEMMA QueueTry ==
    ASSUME SendingInv, NEW d \in Drains, pc[d] \in Working, UNCHANGED <<order, delivered>>,
           NEW b, b = Entry(d),
           \A c \in Changes : Tried(c)' <=> Tried(c) \/ c = b,
           \A c \in Changes : outbox'[c] \in {"none", "gone"} <=> outbox[c] \in {"none", "gone"}
    PROVE  Queue!Next
<1> USE DEF SendingInv
<1>1. /\ b = batch[d][1] /\ 1 \in 1..Len(batch[d]) /\ b \in Changes
      /\ outbox[b] # "none"
  BY EntryFacts
<1>2. PICK j \in 1..Len(order) : order[j] = b
  BY <1>1 DEF QueueTyped, Rows
<1>3. \A i \in 1..Len(order) : i < j => Tried(order[i])
  <2>1. \A m \in 1..1 - 1 : FALSE
    OBVIOUS
  <2> QED BY <1>1, <1>2, <2>1 DEF OrderInv, InOrder
<1>4. \A i \in 1..j - 1 : order[i] \in {c \in Changes : Tried(c)}
  <2>1. \A i \in 1..j - 1 : i \in 1..Len(order) /\ i < j
    BY PlacesAreChanges
  <2> QED BY <1>3, <2>1, PlacesAreChanges
<1>5. {c \in Changes : Tried(c)}' = {c \in Changes : Tried(c)} \cup {order[j]}
  BY <1>1, <1>2
<1>6. {c \in Changes : outbox[c] \notin {"none", "gone"}}' = {c \in Changes : outbox[c] \notin {"none", "gone"}}
  OBVIOUS
<1>7. Queue!Try(j)
  BY <1>4, <1>5, <1>6 DEF Queue!Try
<1> QED BY <1>7 DEF Queue!Next

LEMMA QueueDrain ==
    ASSUME SendingInv, HandTried, [Next]_vars, NEW d \in Drains,
           Drain(d) \/ \E arrived \in BOOLEAN : SendLost(d, arrived)
    PROVE  [Queue!Next]_(Queue!queueVars)
<1> USE DEF SendingInv
<1>0. outbox \in [Changes -> {"none", "pending", "syncing", "failed", "gone"}]
  BY DEF QueueTyped, Rows
<1>1. pc[d] \in Working => Entry(d) \in Changes /\ outbox[Entry(d)] # "none"
  BY EntryFacts
<1>2. \A c \in Changes : Tried(c) => Tried(c)'
  BY TriedStays
<1>3. PICK b : b = Entry(d)
  OBVIOUS
<1>4. CASE Check(d) \/ Fetch(d)
  <2>1. UNCHANGED <<outbox, order, history>>
    BY <1>4 DEF Check, Fetch
  <2> QED BY <2>1, QueueStutter DEF Tried, history
<1>5. CASE Skip(d)
  <2>1. /\ pc[d] \in Working /\ UNCHANGED <<outbox, order, delivered, interrupted>>
        /\ failed' = failed \cup {b}
    BY <1>3, <1>5 DEF Skip, Working
  <2>2. \A c \in Changes : Tried(c)' <=> Tried(c) \/ c = b
    BY <2>1 DEF Tried
  <2> QED BY <1>3, <2>1, <2>2, QueueTry
<1>6. CASE MarkSyncing(d)
  <2>1. /\ pc[d] \in Working /\ UNCHANGED <<order, history>>
        /\ outbox' = [outbox EXCEPT ![b] = IF @ = "gone" THEN @ ELSE "syncing"]
    BY <1>3, <1>6 DEF MarkSyncing, Working
  <2>2. b \in Changes /\ outbox[b] # "none" /\ (outbox[b] = "gone" => b \in delivered)
    BY <1>1, <1>3, <2>1 DEF DeliveryInv, GoneWasDelivered
  <2>3. \A c \in Changes : Tried(c)' <=> Tried(c) \/ c = b
    BY <1>0, <2>1, <2>2 DEF Tried, history
  <2>4. \A c \in Changes : outbox'[c] \in {"none", "gone"} <=> outbox[c] \in {"none", "gone"}
    BY <1>0, <2>1, <2>2
  <2>5. UNCHANGED <<order, delivered>>
    BY <2>1 DEF history
  <2> QED BY <1>3, <2>1, <2>3, <2>4, <2>5, QueueTry
<1>7. CASE SendOk(d) \/ SendRefused(d) \/ \E arrived \in BOOLEAN : SendLost(d, arrived)
  <2>1. /\ pc[d] = "sending" /\ UNCHANGED <<outbox, order, interrupted>>
        /\ delivered' \in {delivered, delivered \cup {b}} /\ failed' \in {failed, failed \cup {b}}
    BY <1>3, <1>7 DEF SendOk, SendRefused, SendLost
  <2>2. b \in Changes /\ Tried(b)
    BY <1>1, <1>3, <2>1 DEF HandTried, Working
  <2>3. \A c \in Changes : Tried(c)' <=> Tried(c)
    BY <2>1, <2>2 DEF Tried
  <2>4. CASE delivered' = delivered
    BY <2>1, <2>3, <2>4, QueueStutter
  <2>5. CASE delivered' = delivered \cup {b}
    <3>1. {c \in Changes : Tried(c)}' = {c \in Changes : Tried(c)}
      BY <2>3
    <3>2. b \in {c \in Changes : Tried(c)}
      BY <2>2
    <3>3. Queue!Apply(b)
      BY <2>1, <2>5, <3>1, <3>2 DEF Queue!Apply
    <3> QED BY <2>2, <3>3 DEF Queue!Next
  <2> QED BY <2>1, <2>4, <2>5
<1>8. CASE MarkDone(d)
  <2>1. /\ pc[d] = "sent" /\ UNCHANGED <<order, history>>
        /\ outbox' = [outbox EXCEPT ![b] = "gone"]
    BY <1>3, <1>8 DEF MarkDone
  <2>2. b \in Changes /\ outbox[b] # "none" /\ b \in delivered
    BY <1>1, <1>3, <2>1 DEF Working, DeliveryInv, SentIsDelivered
  <2>3. \A c \in Changes : Tried(c)' <=> Tried(c)
    BY <1>0, <2>1, <2>2 DEF Tried, history
  <2>4. UNCHANGED <<order, delivered>>
    BY <2>1 DEF history
  <2>5. CASE outbox[b] = "gone"
    <3>1. \A c \in Changes : outbox'[c] \in {"none", "gone"} <=> outbox[c] \in {"none", "gone"}
      BY <1>0, <2>1, <2>2, <2>5
    <3> QED BY <2>3, <2>4, <3>1, QueueStutter
  <2>6. CASE outbox[b] # "gone"
    <3>1. {c \in Changes : Tried(c)}' = {c \in Changes : Tried(c)}
      BY <2>3
    <3>2. {c \in Changes : outbox[c] \notin {"none", "gone"}}'
              = {c \in Changes : outbox[c] \notin {"none", "gone"}} \ {b}
      BY <1>0, <2>1, <2>2
    <3>3. b \in {c \in Changes : outbox[c] \notin {"none", "gone"}} \cap delivered
      BY <2>2, <2>6
    <3>4. Queue!Forget(b)
      BY <2>4, <3>1, <3>2, <3>3 DEF Queue!Forget
    <3> QED BY <2>2, <3>4 DEF Queue!Next
  <2> QED BY <2>5, <2>6
<1>9. CASE MarkFailed(d)
  <2>1. /\ pc[d] = "refused" /\ UNCHANGED <<order, history>>
        /\ outbox' = [outbox EXCEPT ![b] = IF @ = "gone" THEN @ ELSE "failed"]
    BY <1>3, <1>9 DEF MarkFailed
  <2>2. b \in Changes /\ outbox[b] # "none" /\ b \in failed
    BY <1>1, <1>3, <2>1 DEF Working, SettledInv, RefusedIsFailed
  <2>3. \A c \in Changes : Tried(c)' <=> Tried(c)
    BY <1>0, <2>1, <2>2 DEF Tried, history
  <2>4. \A c \in Changes : outbox'[c] \in {"none", "gone"} <=> outbox[c] \in {"none", "gone"}
    BY <1>0, <2>1, <2>2
  <2> QED BY <2>1, <2>3, <2>4, QueueStutter DEF history
<1> QED
  BY <1>4, <1>5, <1>6, <1>7, <1>8, <1>9 DEF Drain

(* However many calls of drain() overlap, fail and die, the outbox is a queue: *)
(* turns come in the order in which the changes were made, the server applies  *)
(* nothing whose turn has not come, and a row is deleted once, after that, for *)
(* good.                                                                       *)
THEOREM ImplementsQueue == Spec => QueueSpec
<1>1. Init => Queue!Init
  <2> SUFFICES ASSUME Init PROVE Queue!Init
    OBVIOUS
  <2>1. {c \in Changes : Tried(c)} = {} /\ {c \in Changes : outbox[c] \notin {"none", "gone"}} = {}
    BY DEF Init, Tried
  <2> QED BY <2>1 DEF Init, Queue!Init
<1>2. Init => SettledInv /\ OrderInv /\ HandTried
  BY DEF Init, SettledInv, RefusedIsFailed, DeliveredIsRow, OrderInv, InOrder, OvertakesOnlyTrouble,
         HandTried
<1>3. SendingInv /\ HandTried /\ [Next]_vars => (SettledInv /\ OrderInv /\ HandTried)'
  BY SettledStep, OrderStep, HandTriedStep DEF SendingInv
<1>4. SendingInv /\ HandTried /\ [Next]_vars => [Queue!Next]_(Queue!queueVars)
  <2> SUFFICES ASSUME SendingInv, HandTried, [Next]_vars
               PROVE  [Queue!Next]_(Queue!queueVars)
    OBVIOUS
  <2> USE DEF SendingInv
  <2>0. outbox \in [Changes -> {"none", "pending", "syncing", "failed", "gone"}]
    BY DEF QueueTyped, Rows
  <2>1. ASSUME NEW c \in Changes, Enqueue(c) PROVE Queue!Next
    <3>1. /\ outbox[c] = "none" /\ outbox' = [outbox EXCEPT ![c] = "pending"]
          /\ order' = Append(order, c) /\ UNCHANGED history
      BY <2>1 DEF Enqueue
    <3>2. {b \in Changes : Tried(b)}' = {b \in Changes : Tried(b)}
      BY <2>0, <3>1 DEF Tried, history
    <3>3. {b \in Changes : outbox[b] \notin {"none", "gone"}}'
              = {b \in Changes : outbox[b] \notin {"none", "gone"}} \cup {c}
      BY <2>0, <3>1
    <3>4. \A i \in 1..Len(order) : order[i] # c
      BY <3>1 DEF QueueTyped, Rows
    <3>5. Queue!Make(c)
      BY <3>1, <3>2, <3>3, <3>4 DEF Queue!Make, history
    <3> QED BY <3>5 DEF Queue!Next
  <2>2. CASE TimerFires \/ Register \/ GoOnline \/ GoOffline \/ Launch \/ UNCHANGED vars
    <3>1. UNCHANGED <<outbox, order, history>>
      BY <2>2 DEF TimerFires, Register, GoOnline, GoOffline, Launch, vars
    <3> QED BY <3>1, QueueStutter DEF Tried, history
  <2>3. CASE Kill
    <3>1. /\ UNCHANGED <<outbox, order, delivered, failed>>
          /\ interrupted' = interrupted \cup {c \in Changes : outbox[c] = "syncing"}
      BY <2>3 DEF Kill
    <3>2. \A c \in Changes : Tried(c)' <=> Tried(c)
      BY <3>1 DEF Tried
    <3> QED BY <3>1, <3>2, QueueStutter
  <2>4. ASSUME NEW d \in Drains, Drain(d) \/ \E arrived \in BOOLEAN : SendLost(d, arrived)
        PROVE  [Queue!Next]_(Queue!queueVars)
    BY <2>4, QueueDrain
  <2> QED BY <2>1, <2>2, <2>3, <2>4 DEF Next
<1> QED
  BY <1>1, <1>2, <1>3, <1>4, QueueTypedHolds, DeliveryHolds, PTL
     DEF Spec, SendingInv, QueueSpec, Queue!Spec
=============================================================================
