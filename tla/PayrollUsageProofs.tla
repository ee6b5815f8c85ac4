--------------------------- MODULE PayrollUsageProofs ---------------------------
(***************************************************************************)
(* Theorems about PayrollUsage, for any finite set of rides and of         *)
(* connections, any employees, periods and targets.                        *)
(***************************************************************************)
EXTENDS PayrollUsage, FiniteSetTheorems, TLAPS

-----------------------------------------------------------------------------
(* The batch.                                                              *)

\* The dates of finitely many rides are finitely many.
LEMMA DatesFinite ==
    ASSUME NEW rides \in SUBSET Rides
    PROVE  IsFiniteSet(rides) /\ IsFiniteSet(DatesOf(rides))
<1> DEFINE f == [r \in rides |-> DateOf[r]]
<1>1. IsFiniteSet(rides)
  BY RidesAssumption, FS_Subset
<1>2. f \in Surjection(rides, DatesOf(rides))
  BY DEF Surjection, DatesOf
<1> HIDE DEF f
<1>3. IsFiniteSet(DatesOf(rides))
  BY <1>1, <1>2, FS_Surjection
<1> QED
  BY <1>1, <1>3

\* The key derived for some rides is one.
LEMMA KeyType ==
    ASSUME NEW period \in Periods, NEW target \in Targets, NEW rides \in SUBSET Rides
    PROVE  Key(period, target, rides) \in Keys
<1>1. ASSUME NEW e \in Employees
      PROVE  [rides |-> Cardinality(RidesOf(e, rides)),
              days |-> Cardinality(DatesOf(RidesOf(e, rides)))] \in [rides : Nat, days : Nat]
  <2>1. RidesOf(e, rides) \in SUBSET Rides
    BY DEF RidesOf
  <2>2. /\ Cardinality(RidesOf(e, rides)) \in Nat
        /\ Cardinality(DatesOf(RidesOf(e, rides))) \in Nat
    BY <2>1, DatesFinite, FS_CardinalityType
  <2> QED BY <2>2
<1>2. Summary(rides) \in Counts
  BY <1>1 DEF Summary, Counts
<1> QED
  BY <1>2 DEF Key, Keys

-----------------------------------------------------------------------------
(* Type correctness.                                                       *)

LEMMA InitTyped == Init => TypeOK
  BY DEF Init, TypeOK, NoJob

\* A step in which one connection's transaction ends.
LEMMA JobEnds ==
    ASSUME TypeOK, NEW s \in Sessions, job' = [job EXCEPT ![s] = NoJob]
    PROVE  /\ job' \in [Sessions -> [at : {"idle", "read", "new", "inserted"},
                                     rides : SUBSET Rides, key : Keys \cup {NoKey}]]
           /\ \A t \in Sessions :
                 IF job'[t].at = "idle" THEN job'[t] = NoJob
                 ELSE /\ job'[t].rides # {}
                      /\ \E period \in Periods, target \in Targets :
                             job'[t].key = Key(period, target, job'[t].rides)
  BY DEF TypeOK, NoJob

\* A step in which it only moves on.
LEMMA JobMovesOn ==
    ASSUME TypeOK, NEW s \in Sessions, job[s].at # "idle",
           NEW at \in {"new", "inserted"}, job' = [job EXCEPT ![s].at = at]
    PROVE  /\ job' \in [Sessions -> [at : {"idle", "read", "new", "inserted"},
                                     rides : SUBSET Rides, key : Keys \cup {NoKey}]]
           /\ \A t \in Sessions :
                 IF job'[t].at = "idle" THEN job'[t] = NoJob
                 ELSE /\ job'[t].rides # {}
                      /\ \E period \in Periods, target \in Targets :
                             job'[t].key = Key(period, target, job'[t].rides)
  BY DEF TypeOK

LEMMA ReadTyped ==
    ASSUME TypeOK, NEW s \in Sessions, NEW period \in Periods, NEW target \in Targets,
           ExportRead(s, period, target)
    PROVE  TypeOK'
<1> DEFINE rides == Exportable(period)
           key == Key(period, target, rides)
<1>1. rides \in SUBSET Rides /\ rides # {}
  BY DEF Exportable, ExportRead
<1>2. key \in Keys
  BY <1>1, KeyType
<1>3. /\ job' = [job EXCEPT ![s] = [at |-> "read", rides |-> rides, key |-> key]]
      /\ UNCHANGED <<ledger, billable, exportId, exports, raced, told>>
  BY DEF ExportRead
<1>4. job'[s] = [at |-> "read", rides |-> rides, key |-> key]
  BY <1>3 DEF TypeOK
<1> HIDE DEF rides
<1>5. job' \in [Sessions -> [at : {"idle", "read", "new", "inserted"},
                             rides : SUBSET Rides, key : Keys \cup {NoKey}]]
  BY <1>1, <1>2, <1>3 DEF TypeOK
<1>6. ASSUME NEW t \in Sessions
      PROVE  IF job'[t].at = "idle" THEN job'[t] = NoJob
             ELSE /\ job'[t].rides # {}
                  /\ \E p \in Periods, g \in Targets :
                         job'[t].key = Key(p, g, job'[t].rides)
  <2>1. CASE t = s
    <3>1. job'[t].at # "idle" /\ job'[t].rides = rides /\ job'[t].key = key
      BY <1>4, <2>1
    <3> QED BY <1>1, <3>1
  <2>2. CASE t # s
    <3>1. job'[t] = job[t]
      BY <1>3, <2>2 DEF TypeOK
    <3> QED BY <3>1 DEF TypeOK
  <2> QED BY <2>1, <2>2
<1> QED
  BY <1>3, <1>5, <1>6 DEF TypeOK

LEMMA PostTyped ==
    ASSUME TypeOK, NEW s \in Sessions, ExportPost(s)
    PROVE  TypeOK'
<1>1. /\ job[s].at = "inserted"
      /\ ledger' = [r \in Rides |-> IF r \in job[s].rides THEN "exported" ELSE ledger[r]]
      /\ exportId' = [r \in Rides |-> IF r \in job[s].rides THEN job[s].key ELSE exportId[r]]
      /\ exports' = exports \cup {[key |-> job[s].key, counted |-> job[s].rides]}
      /\ job' = [job EXCEPT ![s] = NoJob]
      /\ UNCHANGED <<billable, raced, told>>
  BY DEF ExportPost
<1>2. job[s].rides \in SUBSET Rides
  BY DEF TypeOK
<1>3. PICK period \in Periods, target \in Targets :
          job[s].key = Key(period, target, job[s].rides)
  BY <1>1 DEF TypeOK
<1>4. job[s].key \in Keys
  BY <1>2, <1>3, KeyType
<1>5. exports' \subseteq [key : Keys, counted : SUBSET Rides]
  BY <1>1, <1>2, <1>4 DEF TypeOK
<1>6. /\ ledger' \in [Rides -> {"none", "pending", "exported", "waived"}]
      /\ exportId' \in [Rides -> Keys \cup {NoKey}]
  BY <1>1, <1>4 DEF TypeOK
<1> QED
  BY <1>1, <1>5, <1>6, JobEnds DEF TypeOK

\* Every reachable state of the ledger is well typed, and a running export has
\* rides to hand over and the key they give.
THEOREM PayrollTyped == Spec => []TypeOK
<1>1. TypeOK /\ [Next]_vars => TypeOK'
  <2> SUFFICES ASSUME TypeOK, [Next]_vars PROVE TypeOK'
    OBVIOUS
  <2>1. ASSUME NEW r \in Rides, InsertRide(r) PROVE TypeOK'
    BY <2>1 DEF InsertRide, TypeOK
  <2>2. ASSUME NEW r \in Rides, Waive(r) PROVE TypeOK'
    BY <2>2 DEF Waive, TypeOK
  <2>3. ASSUME NEW s \in Sessions, NEW period \in Periods, NEW target \in Targets,
               ExportRead(s, period, target)
        PROVE  TypeOK'
    BY <2>3, ReadTyped
  <2>4. ASSUME NEW s \in Sessions, ExportExisting(s) PROVE TypeOK'
    BY <2>4, JobEnds DEF ExportExisting, TypeOK
  <2>5. ASSUME NEW s \in Sessions, ExportNew(s) PROVE TypeOK'
    BY <2>5, JobMovesOn DEF ExportNew, TypeOK
  <2>6. ASSUME NEW s \in Sessions, ExportInsert(s) PROVE TypeOK'
    BY <2>6, JobMovesOn DEF ExportInsert, TypeOK
  <2>7. ASSUME NEW s \in Sessions, ExportPost(s) PROVE TypeOK'
    BY <2>7, PostTyped
  <2>8. ASSUME NEW s \in Sessions, Abort(s) PROVE TypeOK'
    BY <2>8, JobEnds DEF Abort, TypeOK
  <2>9. CASE UNCHANGED vars
    BY <2>9 DEF vars, TypeOK
  <2> QED
    BY <2>1, <2>2, <2>3, <2>4, <2>5, <2>6, <2>7, <2>8, <2>9
       DEF Next, CheckIn, RecordManually
<1> QED
  BY <1>1, InitTyped, PTL DEF Spec

-----------------------------------------------------------------------------
(* What a step does to the exports in progress and to the batches.         *)

\* The exports that have a ride in hand.
Pursuing(r) == {s \in Sessions : r \in job[s].rides}

(* Every step either reads, or posts, or leaves the batches alone and takes *)
(* no ride into an export's hand.                                           *)
QuietStep ==
    /\ exports' = exports
    /\ exportId' = exportId
    /\ \A s \in Sessions : job'[s].rides \in {job[s].rides, {}}
    /\ \A r \in Rides :
           \/ ledger'[r] = ledger[r] /\ billable'[r] = billable[r]
           \/ ledger[r] = "none" /\ ledger'[r] = "pending" /\ billable'[r] = billable[r]
           \/ /\ ledger[r] = "pending" /\ ledger'[r] = "waived"
              /\ Pursuing(r) # {} => r \in raced'
    /\ raced \subseteq raced'

LEMMA StepKinds ==
    ASSUME TypeOK, [Next]_vars
    PROVE  \/ QuietStep
           \/ \E s \in Sessions, period \in Periods, target \in Targets :
                  ExportRead(s, period, target)
           \/ \E s \in Sessions : ExportPost(s)
<1>1. ASSUME NEW r \in Rides, InsertRide(r) PROVE QuietStep
  BY <1>1 DEF InsertRide, QuietStep, TypeOK
<1>2. ASSUME NEW r \in Rides, Waive(r) PROVE QuietStep
  <2>1. Pursuing(r) # {} => r \in raced'
    BY <1>2 DEF Waive, Pursuing, ReadBy
  <2>2. raced \subseteq raced'
    BY <1>2 DEF Waive
  <2> QED BY <1>2, <2>1, <2>2 DEF Waive, QuietStep, TypeOK
<1>3. ASSUME NEW s \in Sessions,
             ExportExisting(s) \/ ExportNew(s) \/ ExportInsert(s) \/ Abort(s)
      PROVE  QuietStep
  <2>1. \A t \in Sessions : job'[t].rides \in {job[t].rides, {}}
    BY <1>3 DEF ExportExisting, ExportNew, ExportInsert, Abort, TypeOK, NoJob
  <2> QED
    BY <1>3, <2>1 DEF ExportExisting, ExportNew, ExportInsert, Abort, QuietStep
<1>4. CASE UNCHANGED vars
  BY <1>4 DEF vars, QuietStep
<1> QED
  BY <1>1, <1>2, <1>3, <1>4 DEF Next, CheckIn, RecordManually

\* An export that reads takes exactly the pending rides of its period in hand.
LEMMA ReadEffect ==
    ASSUME TypeOK, NEW s \in Sessions, NEW period \in Periods, NEW target \in Targets,
           ExportRead(s, period, target)
    PROVE  /\ UNCHANGED <<ledger, billable, exportId, exports, raced>>
           /\ job[s].rides = {}
           /\ \A r \in job'[s].rides : r \in Rides /\ ledger[r] = "pending" /\ billable[r]
           /\ \A t \in Sessions : t # s => job'[t] = job[t]
  BY DEF ExportRead, Exportable, TypeOK, NoJob

\* An export that posts adds one batch and marks what that batch counts.
LEMMA PostEffect ==
    ASSUME TypeOK, NEW s \in Sessions, ExportPost(s)
    PROVE  /\ UNCHANGED <<billable, raced>>
           /\ job'[s].rides = {}
           /\ \A t \in Sessions : t # s => job'[t] = job[t]
           /\ \A r \in Rides :
                 IF r \in job[s].rides
                 THEN /\ ledger'[r] = "exported"
                      /\ exportId'[r] = job[s].key
                      /\ Deductions(r)' =
                             Deductions(r) \cup {[key |-> job[s].key, counted |-> job[s].rides]}
                 ELSE /\ ledger'[r] = ledger[r]
                      /\ exportId'[r] = exportId[r]
                      /\ Deductions(r)' = Deductions(r)
  BY DEF ExportPost, Deductions, TypeOK, NoJob

-----------------------------------------------------------------------------
(* The ledger and the documents agree.                                     *)

LEMMA StepMatches ==
    ASSUME TypeOK, LedgerMatchesBatches, [Next]_vars
    PROVE  LedgerMatchesBatches'
<1>1. CASE QuietStep
  BY <1>1 DEF QuietStep, LedgerMatchesBatches, Deductions
<1>2. ASSUME NEW s \in Sessions, NEW period \in Periods, NEW target \in Targets,
             ExportRead(s, period, target)
      PROVE  LedgerMatchesBatches'
  BY <1>2, ReadEffect DEF LedgerMatchesBatches, Deductions
<1>3. ASSUME NEW s \in Sessions, ExportPost(s) PROVE LedgerMatchesBatches'
  <2>1. ASSUME NEW r \in Rides
        PROVE  /\ ledger'[r] = "exported" <=> Deductions(r)' # {}
               /\ ledger'[r] = "exported" => \E x \in Deductions(r)' : x.key = exportId'[r]
    <3>1. CASE r \in job[s].rides
      <4> DEFINE batch == [key |-> job[s].key, counted |-> job[s].rides]
      <4>1. ledger'[r] = "exported" /\ exportId'[r] = batch.key /\ batch \in Deductions(r)'
        BY <1>3, <3>1, PostEffect
      <4> QED BY <4>1
    <3>2. CASE r \notin job[s].rides
      BY <1>3, <3>2, PostEffect DEF LedgerMatchesBatches
    <3> QED BY <3>1, <3>2
  <2> QED BY <2>1 DEF LedgerMatchesBatches
<1> QED
  BY <1>1, <1>2, <1>3, StepKinds

\* A ride is marked exported exactly if a posted batch counts it, and it points
\* to such a batch, whatever ran between the read and the mark.
THEOREM LedgerAndBatchesAgree == Spec => []LedgerMatchesBatches
<1>1. Init => LedgerMatchesBatches
  BY DEF Init, LedgerMatchesBatches, Deductions
<1>2. TypeOK /\ LedgerMatchesBatches /\ [Next]_vars => LedgerMatchesBatches'
  BY StepMatches
<1> QED
  BY <1>1, <1>2, PayrollTyped, PTL DEF Spec

-----------------------------------------------------------------------------
(* How often a ride is deducted.                                           *)

(* Once a batch counts a ride nobody reads it again, so every further one   *)
(* is posted by an export that has it in hand already.                      *)
DeductionsAndPursuits ==
    \A r \in Rides :
        /\ IsFiniteSet(Deductions(r))
        /\ Deductions(r) # {} =>
               Cardinality(Deductions(r)) + Cardinality(Pursuing(r)) <= Cardinality(Sessions)

LEMMA PursuingFinite ==
    ASSUME NEW r \in Rides
    PROVE  /\ IsFiniteSet(Pursuing(r))
           /\ Cardinality(Pursuing(r)) \in Nat
           /\ Cardinality(Pursuing(r)) <= Cardinality(Sessions)
           /\ Cardinality(Sessions) \in Nat
<1>1. Pursuing(r) \in SUBSET Sessions
  BY DEF Pursuing
<1> QED
  BY <1>1, SessionsAssumption, FS_Subset, FS_CardinalityType

\* Exports that let a ride go leave room.
LEMMA FewerPursuits ==
    ASSUME NEW r \in Rides, DeductionsAndPursuits, Deductions(r)' = Deductions(r),
           Pursuing(r)' \in SUBSET Pursuing(r)
    PROVE  /\ IsFiniteSet(Deductions(r)')
           /\ Deductions(r)' # {} =>
                  Cardinality(Deductions(r)') + Cardinality(Pursuing(r)') <= Cardinality(Sessions)
<1> DEFINE before == Pursuing(r)
           after == Pursuing(r)'
           paid == Deductions(r)
<1>1. IsFiniteSet(before) /\ Cardinality(before) \in Nat /\ Cardinality(Sessions) \in Nat
  BY PursuingFinite
<1>2. IsFiniteSet(paid) /\ (paid # {} =>
          Cardinality(paid) + Cardinality(before) <= Cardinality(Sessions))
  BY DEF DeductionsAndPursuits
<1>3. after \in SUBSET before /\ Deductions(r)' = paid
  OBVIOUS
<1> HIDE DEF before, after, paid
<1>4. IsFiniteSet(after) /\ Cardinality(after) <= Cardinality(before)
  BY <1>1, <1>3, FS_Subset
<1>5. Cardinality(after) \in Nat /\ Cardinality(paid) \in Nat
  BY <1>2, <1>4, FS_CardinalityType
<1>6. IsFiniteSet(paid) /\ (paid # {} =>
          Cardinality(paid) + Cardinality(after) <= Cardinality(Sessions))
  BY <1>1, <1>2, <1>4, <1>5
<1> QED
  BY <1>3, <1>6 DEF after

\* A post of a ride exchanges one export that has it in hand for one batch.
LEMMA PostExchanges ==
    ASSUME TypeOK, DeductionsAndPursuits, NEW s \in Sessions, ExportPost(s),
           NEW r \in job[s].rides
    PROVE  /\ IsFiniteSet(Deductions(r)')
           /\ Cardinality(Deductions(r)') + Cardinality(Pursuing(r)') <= Cardinality(Sessions)
<1> DEFINE before == Pursuing(r)
           after == Pursuing(r)'
           paid == Deductions(r)
           batch == [key |-> job[s].key, counted |-> job[s].rides]
<1>1. r \in Rides
  BY DEF TypeOK
<1>2. /\ IsFiniteSet(before) /\ Cardinality(before) \in Nat
      /\ Cardinality(before) <= Cardinality(Sessions) /\ Cardinality(Sessions) \in Nat
  BY <1>1, PursuingFinite
<1>3. IsFiniteSet(paid) /\ (paid # {} =>
          Cardinality(paid) + Cardinality(before) <= Cardinality(Sessions))
  BY <1>1 DEF DeductionsAndPursuits
<1>4. Deductions(r)' = paid \cup {batch}
  BY <1>1, PostEffect
<1>5. s \in before /\ after = before \ {s}
  BY PostEffect DEF Pursuing
<1> HIDE DEF before, after, paid, batch
<1>6. Cardinality(after) = Cardinality(before) - 1
  BY <1>2, <1>5, FS_RemoveElement
<1>7. /\ IsFiniteSet(paid \cup {batch})
      /\ Cardinality(paid \cup {batch}) <= Cardinality(paid) + 1
      /\ Cardinality(paid \cup {batch}) \in Nat /\ Cardinality(paid) \in Nat
  <2>1. Cardinality(paid) \in Nat
    BY <1>3, FS_CardinalityType
  <2>2. IsFiniteSet(paid \cup {batch}) /\ Cardinality(paid \cup {batch}) =
            IF batch \in paid THEN Cardinality(paid) ELSE Cardinality(paid) + 1
    BY <1>3, FS_AddElement
  <2> QED BY <2>1, <2>2
<1>8. paid = {} => Cardinality(paid) = 0
  BY FS_EmptySet
<1>9. Cardinality(paid \cup {batch}) + Cardinality(after) <= Cardinality(Sessions)
  BY <1>2, <1>3, <1>6, <1>7, <1>8
<1> QED
  BY <1>4, <1>7, <1>9 DEF after

LEMMA StepBounded ==
    ASSUME TypeOK, LedgerMatchesBatches, DeductionsAndPursuits, [Next]_vars
    PROVE  DeductionsAndPursuits'
<1> SUFFICES ASSUME NEW r \in Rides
             PROVE  /\ IsFiniteSet(Deductions(r)')
                    /\ Deductions(r)' # {} =>
                           Cardinality(Deductions(r)') + Cardinality(Pursuing(r)')
                               <= Cardinality(Sessions)
  BY DEF DeductionsAndPursuits
<1>1. CASE QuietStep
  <2>1. Deductions(r)' = Deductions(r) /\ Pursuing(r)' \in SUBSET Pursuing(r)
    BY <1>1 DEF QuietStep, Deductions, Pursuing
  <2> QED BY <2>1, FewerPursuits
<1>2. ASSUME NEW s \in Sessions, NEW period \in Periods, NEW target \in Targets,
             ExportRead(s, period, target)
      PROVE  /\ IsFiniteSet(Deductions(r)')
             /\ Deductions(r)' # {} =>
                    Cardinality(Deductions(r)') + Cardinality(Pursuing(r)')
                        <= Cardinality(Sessions)
  <2>1. Deductions(r)' = Deductions(r)
    BY <1>2, ReadEffect DEF Deductions
  <2>2. CASE r \in job'[s].rides
    <3>1. Deductions(r) = {}
      BY <1>2, <2>2, ReadEffect DEF LedgerMatchesBatches
    <3> QED BY <2>1, <3>1 DEF DeductionsAndPursuits
  <2>3. CASE r \notin job'[s].rides
    <3>1. Pursuing(r)' \in SUBSET Pursuing(r)
      BY <1>2, <2>3, ReadEffect DEF Pursuing
    <3> QED BY <2>1, <3>1, FewerPursuits
  <2> QED BY <2>2, <2>3
<1>3. ASSUME NEW s \in Sessions, ExportPost(s)
      PROVE  /\ IsFiniteSet(Deductions(r)')
             /\ Deductions(r)' # {} =>
                    Cardinality(Deductions(r)') + Cardinality(Pursuing(r)')
                        <= Cardinality(Sessions)
  <2>1. CASE r \in job[s].rides
    BY <1>3, <2>1, PostExchanges
  <2>2. CASE r \notin job[s].rides
    <3>1. Deductions(r)' = Deductions(r) /\ Pursuing(r)' \in SUBSET Pursuing(r)
      BY <1>3, <2>2, PostEffect DEF Pursuing
    <3> QED BY <3>1, FewerPursuits
  <2> QED BY <2>1, <2>2
<1> QED
  BY <1>1, <1>2, <1>3, StepKinds

\* A ride is in at most as many batches as exports can run side by side: with
\* one at a time it is deducted once.
THEOREM DeductedAtMostOncePerSession == Spec => []DeductionsBounded
<1>1. Init => DeductionsAndPursuits
  BY FS_EmptySet DEF Init, DeductionsAndPursuits, Deductions
<1>2. TypeOK /\ LedgerMatchesBatches /\ DeductionsAndPursuits /\ [Next]_vars
          => DeductionsAndPursuits'
  BY StepBounded
<1>3. DeductionsAndPursuits => DeductionsBounded
  <2> SUFFICES ASSUME DeductionsAndPursuits, NEW r \in Rides
               PROVE  Cardinality(Deductions(r)) <= Cardinality(Sessions)
    BY DEF DeductionsBounded
  <2>1. /\ Cardinality(Pursuing(r)) \in Nat
        /\ Cardinality(Sessions) \in Nat
    BY PursuingFinite
  <2>2. Cardinality(Deductions(r)) \in Nat
    BY FS_CardinalityType DEF DeductionsAndPursuits
  <2>3. CASE Deductions(r) = {}
    BY <2>1, <2>3, FS_EmptySet
  <2>4. CASE Deductions(r) # {}
    BY <2>1, <2>2, <2>4 DEF DeductionsAndPursuits
  <2> QED BY <2>3, <2>4
<1> QED
  BY <1>1, <1>2, <1>3, PayrollTyped, LedgerAndBatchesAgree, PTL DEF Spec

-----------------------------------------------------------------------------
(* Waived rides.                                                           *)

\* A ride waived while no export had it in hand is in nobody's hand for good.
WaivedIsOut ==
    \A r \in Rides :
        /\ ~ billable[r] => ledger[r] \in {"waived", "exported"}
        /\ ~ billable[r] /\ r \notin raced => ledger[r] = "waived" /\ Pursuing(r) = {}

LEMMA StepWaived ==
    ASSUME TypeOK, WaivedIsOut, [Next]_vars
    PROVE  WaivedIsOut'
<1>1. CASE QuietStep
  <2>1. ASSUME NEW r \in Rides
        PROVE  Pursuing(r)' \in SUBSET Pursuing(r)
    BY <1>1 DEF QuietStep, Pursuing
  <2> QED BY <1>1, <2>1 DEF QuietStep, WaivedIsOut
<1>2. ASSUME NEW s \in Sessions, NEW period \in Periods, NEW target \in Targets,
             ExportRead(s, period, target)
      PROVE  WaivedIsOut'
  <2>1. ASSUME NEW r \in Rides, ~ billable[r] PROVE Pursuing(r)' \in SUBSET Pursuing(r)
    BY <1>2, <2>1, ReadEffect DEF Pursuing
  <2> QED BY <1>2, <2>1, ReadEffect DEF WaivedIsOut
<1>3. ASSUME NEW s \in Sessions, ExportPost(s) PROVE WaivedIsOut'
  <2>1. ASSUME NEW r \in Rides PROVE Pursuing(r)' \in SUBSET Pursuing(r)
    BY <1>3, PostEffect DEF Pursuing
  <2>2. ASSUME NEW r \in Rides, Pursuing(r) = {} PROVE ledger'[r] = ledger[r]
    BY <1>3, <2>2, PostEffect DEF Pursuing
  <2>3. ASSUME NEW r \in Rides PROVE ledger'[r] \in {ledger[r], "exported"}
    BY <1>3, PostEffect
  <2>4. UNCHANGED <<billable, raced>>
    BY <1>3, PostEffect
  <2> QED BY <2>1, <2>2, <2>3, <2>4 DEF WaivedIsOut
<1> QED
  BY <1>1, <1>2, <1>3, StepKinds

\* A waived ride is in no batch, unless an export had read it when it was
\* waived.
THEOREM WaivedStaysOut == Spec => []WaivedNotDeducted
<1>1. Init => WaivedIsOut
  BY DEF Init, WaivedIsOut
<1>2. TypeOK /\ WaivedIsOut /\ [Next]_vars => WaivedIsOut'
  BY StepWaived
<1>3. WaivedIsOut /\ LedgerMatchesBatches => WaivedNotDeducted
  BY DEF WaivedIsOut, LedgerMatchesBatches, WaivedNotDeducted
<1> QED
  BY <1>1, <1>2, <1>3, PayrollTyped, LedgerAndBatchesAgree, PTL DEF Spec
=============================================================================
