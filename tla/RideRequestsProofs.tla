------------------------- MODULE RideRequestsProofs -------------------------
(***************************************************************************)
(* Theorems about RideRequests, for any number of requests, employees,     *)
(* drivers, trips and connections, and about DailyCommute, which puts the  *)
(* manifest and the trip lifecycle beside it on the same tables.           *)
(***************************************************************************)
EXTENDS DailyCommute, FiniteSetTheorems, TLAPS

Row == [Employees -> PassengerStatus \cup {Absent}]

-----------------------------------------------------------------------------
(* Counting.                                                               *)

\* The occupants of a manifest are finitely many, so the count is a number.
LEMMA OccupantsFinite ==
    ASSUME NEW row \in Row
    PROVE  /\ IsFiniteSet(Occupants(row))
           /\ ActiveCount(row) \in Nat
<1>1. Occupants(row) \in SUBSET Employees
  BY DEF Occupants, Row
<1>2. IsFiniteSet(Occupants(row))
  BY <1>1, FiniteAssumption, FS_Subset
<1> QED
  BY <1>2, FS_CardinalityType DEF ActiveCount

\* Writing one employee's row adds at most that employee to the occupants.
LEMMA OccupantsGrow ==
    ASSUME NEW row \in Row, NEW e \in Employees, NEW st
    PROVE  Cardinality(Occupants([row EXCEPT ![e] = st]))
               <= Cardinality(Occupants(row)) + 1
<1> DEFINE new == [row EXCEPT ![e] = st]
<1>1. IsFiniteSet(Occupants(row)) /\ Cardinality(Occupants(row)) \in Nat
  BY OccupantsFinite DEF ActiveCount
<1>2. IsFiniteSet(Occupants(row) \cup {e})
      /\ Cardinality(Occupants(row) \cup {e}) <= Cardinality(Occupants(row)) + 1
  <2> DEFINE old == Occupants(row)
  <2>1. IsFiniteSet(old \cup {e})
        /\ Cardinality(old \cup {e}) =
              IF e \in old THEN Cardinality(old) ELSE Cardinality(old) + 1
    <3> HIDE DEF old
    <3> QED BY <1>1, FS_AddElement DEF old
  <2> QED BY <1>1, <2>1
<1>3. Occupants(new) \in SUBSET (Occupants(row) \cup {e})
  BY DEF Occupants, Row
<1>4. Cardinality(Occupants(new)) <= Cardinality(Occupants(row) \cup {e})
      /\ IsFiniteSet(Occupants(new))
  BY <1>2, <1>3, FS_Subset
<1>5. Cardinality(Occupants(new)) \in Nat /\ Cardinality(Occupants(row) \cup {e}) \in Nat
  BY <1>2, <1>4, FS_CardinalityType
<1> QED
  BY <1>1, <1>2, <1>4, <1>5

\* Writing a status that does not occupy a place does not add an occupant.
LEMMA OccupantsShrink ==
    ASSUME NEW row \in Row, NEW e \in Employees
    PROVE  Cardinality(Occupants([row EXCEPT ![e] = "removed"]))
               <= Cardinality(Occupants(row))
<1>1. Occupants([row EXCEPT ![e] = "removed"]) \in SUBSET Occupants(row)
  BY DEF Occupants, Row, OnManifest, Awaited
<1> QED
  BY <1>1, OccupantsFinite, FS_Subset

-----------------------------------------------------------------------------
(* Type correctness.                                                       *)

\* What a session sees of its trip's manifest is a manifest.
LEMMA ManifestSeenType ==
    ASSUME TypeOK, NEW s \in Sessions, tx[s].at # "idle", tx[s].trip \in Trips
    PROVE  ManifestSeen(s) \in Row
<1>1. pax[tx[s].trip] \in Row
  BY DEF TypeOK, Row
<1>2. {"expected", "removed"} \subseteq PassengerStatus
  BY DEF PassengerStatus
<1> QED
  BY <1>1, <1>2 DEF ManifestSeen, Row

\* A step that replaces one session's transaction and touches no table.
LEMMA TypeTxStep ==
    ASSUME TypeOK, UNCHANGED tables, NEW s \in Sessions, NEW x \in TxRecord,
           HandlerOK(x), tx' = [tx EXCEPT ![s] = x]
    PROVE  TypeOK'
<1>1. tx' \in [Sessions -> TxRecord]
  BY DEF TypeOK
<1>2. \A z \in Sessions : HandlerOK(tx'[z])
  BY DEF TypeOK
<1>3. \A z \in Sessions : HandlerOK(tx[z])'
  BY <1>2 DEF HandlerOK
<1> QED
  BY <1>1, <1>3 DEF TypeOK, tables

LEMMA IdleType == Idle \in TxRecord /\ HandlerOK(Idle)
BY DEF Idle, TxRecord, HandlerOK, ClaimPoints, CancelPoints

\* A session's transaction is well formed in every state TypeOK allows.
LEMMA TxFacts ==
    ASSUME TypeOK, NEW s \in Sessions
    PROVE  /\ tx[s] \in TxRecord
           /\ HandlerOK(tx[s])
BY DEF TypeOK

LEMMA TypeStep == TypeOK /\ [Next]_vars => TypeOK'
<1> SUFFICES ASSUME TypeOK, [Next]_vars PROVE TypeOK'
  OBVIOUS
<1> USE DEF ClaimPoints, CancelPoints
<1>1. ASSUME NEW r \in Requests, Create(r) PROVE TypeOK'
  BY <1>1 DEF Create, TypeOK
<1>2. ASSUME NEW s \in Sessions, NEW r \in Requests, NEW d \in Drivers, ClaimTake(s, r, d)
      PROVE  TypeOK'
  <2> DEFINE x == [Idle EXCEPT !.at = "claimed", !.req = r, !.by = d]
  <2>1. x \in TxRecord /\ HandlerOK(x)
    BY DEF Idle, TxRecord, HandlerOK
  <2>2. tx' = [tx EXCEPT ![s] = x] /\ UNCHANGED tables
    BY <1>2 DEF ClaimTake
  <2> HIDE DEF x
  <2> QED BY <2>1, <2>2, TypeTxStep
<1>3. ASSUME NEW s \in Sessions, FindTrip(s) PROVE TypeOK'
  <2>1. PICK t \in Trips : tx' = [tx EXCEPT ![s].at = "found", ![s].trip = t]
    BY <1>3, TxFacts DEF FindTrip, Trips, OpenTrips, HandlerOK
  <2> DEFINE x == [tx[s] EXCEPT !.at = "found", !.trip = t]
  <2>2. x \in TxRecord /\ HandlerOK(x)
    BY <1>3, TxFacts DEF FindTrip, TxRecord, HandlerOK
  <2>3. tx' = [tx EXCEPT ![s] = x] /\ UNCHANGED tables
    BY <1>3, <2>1 DEF FindTrip, TypeOK
  <2> HIDE DEF x
  <2> QED BY <2>2, <2>3, TypeTxStep
<1>4. ASSUME NEW s \in Sessions, CheckCapacity(s) PROVE TypeOK'
  <2> DEFINE x == [tx[s] EXCEPT !.at = "checked"]
  <2>1. x \in TxRecord /\ HandlerOK(x)
    BY <1>4, TxFacts DEF CheckCapacity, TxRecord, HandlerOK
  <2>2. tx' = [tx EXCEPT ![s] = x] /\ UNCHANGED tables
    BY <1>4 DEF CheckCapacity, TypeOK
  <2> HIDE DEF x
  <2> QED BY <2>1, <2>2, TypeTxStep
<1>5. ASSUME NEW s \in Sessions, RejectFull(s) \/ Abort(s) PROVE TypeOK'
  BY <1>5, IdleType, TypeTxStep DEF RejectFull, Abort
<1>6. ASSUME NEW s \in Sessions, AddRider(s) PROVE TypeOK'
  <2> DEFINE new == pax[tx[s].trip][Rider[tx[s].req]] = Absent
             x == [tx[s] EXCEPT !.at = "seated", !.pid = new]
  <2>1. new \in BOOLEAN
    OBVIOUS
  <2>2. tx' = [tx EXCEPT ![s] = x] /\ UNCHANGED tables
    BY <1>6 DEF AddRider, TypeOK
  <2>3. tx[s].at = "checked"
    BY <1>6 DEF AddRider
  <2> HIDE DEF new
  <2>4. x \in TxRecord /\ HandlerOK(x)
    BY <2>1, <2>3, TxFacts DEF TxRecord, HandlerOK
  <2> HIDE DEF x
  <2> QED BY <2>2, <2>4, TypeTxStep
<1>7. ASSUME NEW s \in Sessions, Recount(s) PROVE TypeOK'
  <2> DEFINE n == ActiveCount(ManifestSeen(s))
             x == [tx[s] EXCEPT !.at = "counted", !.seats = n]
  <2>1. tx[s].at = "seated" /\ tx' = [tx EXCEPT ![s] = x] /\ UNCHANGED tables
    BY <1>7 DEF Recount, TypeOK
  <2>2. n \in Nat
    BY <2>1, TxFacts, ManifestSeenType, OccupantsFinite DEF HandlerOK
  <2> HIDE DEF n
  <2>3. x \in TxRecord /\ HandlerOK(x)
    BY <2>1, <2>2, TxFacts DEF TxRecord, HandlerOK
  <2> HIDE DEF x
  <2> QED BY <2>1, <2>3, TypeTxStep
<1>8. ASSUME NEW s \in Sessions, FinishClaim(s) PROVE TypeOK'
  <2> DEFINE r == tx[s].req
             t == tx[s].trip
  <2>1. /\ r \in Requests
        /\ t \in Trips
        /\ tx[s].by \in Drivers
        /\ tx[s].pid \in BOOLEAN
        /\ tx[s].seats \in Nat
        /\ tx[s].at # "idle"
    BY <1>8, TxFacts DEF FinishClaim, HandlerOK, TxRecord
  <2>2. ManifestSeen(s) \in Row
    BY <2>1, ManifestSeenType
  <2>3. pax' \in [Trips -> Row]
    BY <1>8, <2>1, <2>2 DEF FinishClaim, TypeOK, Row
  <2>4. tx' \in [Sessions -> TxRecord] /\ \A z \in Sessions : HandlerOK(tx'[z])
    BY <1>8, IdleType DEF FinishClaim, TypeOK
  <2>5. /\ reqStatus' \in [Requests -> {"none", "open", "assigned", "cancelled"}]
        /\ offered' \in [Requests -> SUBSET Drivers]
        /\ claimedBy' \in [Requests -> Drivers \cup {NoDriver}]
        /\ reqTrip' \in [Requests -> Trips \cup {NoTrip}]
        /\ reqPax' \in [Requests -> BOOLEAN]
    BY <1>8, <2>1 DEF FinishClaim, TypeOK
  <2>6. /\ tripStatus' \in [Trips -> TripStatus \cup {"none"}]
        /\ tripDriver' \in [Trips -> Drivers \cup {NoDriver}]
        /\ seatsTaken' \in [Trips -> Nat]
    BY <1>8, <2>1 DEF FinishClaim, TypeOK, TripStatus
  <2>7. \A q \in Requests : reqPax'[q] => reqTrip'[q] \in Trips
    BY <1>8, <2>1 DEF FinishClaim, TypeOK
  <2> QED BY <2>3, <2>4, <2>5, <2>6, <2>7 DEF TypeOK, Row, HandlerOK
<1>9. ASSUME NEW s \in Sessions, NEW r \in Requests, NEW manager \in BOOLEAN,
             CancelRead(s, r, manager)
      PROVE  TypeOK'
  <2> DEFINE x == [Idle EXCEPT !.at = "cancelling", !.req = r,
                               !.trip = reqTrip[r], !.pid = reqPax[r]]
  <2>1. x \in TxRecord /\ HandlerOK(x)
    BY DEF Idle, TxRecord, HandlerOK, TypeOK
  <2>2. tx' = [tx EXCEPT ![s] = x] /\ UNCHANGED tables
    BY <1>9 DEF CancelRead
  <2> HIDE DEF x
  <2> QED BY <2>1, <2>2, TypeTxStep
<1>10. ASSUME NEW s \in Sessions, CancelRemove(s) PROVE TypeOK'
  <2> DEFINE x == [tx[s] EXCEPT !.at = "removed"]
  <2>1. x \in TxRecord /\ HandlerOK(x)
    BY <1>10, TxFacts DEF CancelRemove, TxRecord, HandlerOK
  <2>2. tx' = [tx EXCEPT ![s] = x] /\ UNCHANGED tables
    BY <1>10 DEF CancelRemove, TypeOK
  <2> HIDE DEF x
  <2> QED BY <2>1, <2>2, TypeTxStep
<1>11. ASSUME NEW s \in Sessions, CancelRecount(s) PROVE TypeOK'
  <2> DEFINE n == ActiveCount(ManifestSeen(s))
             x == [tx[s] EXCEPT !.at = "recounted", !.seats = n]
  <2>1. tx[s].at = "removed" /\ tx' = [tx EXCEPT ![s] = x] /\ UNCHANGED tables
    BY <1>11 DEF CancelRecount, TypeOK
  <2>2. n \in Nat
    BY <2>1, TxFacts, ManifestSeenType, OccupantsFinite DEF HandlerOK
  <2> HIDE DEF n
  <2>3. x \in TxRecord /\ HandlerOK(x)
    BY <2>1, <2>2, TxFacts DEF TxRecord, HandlerOK
  <2> HIDE DEF x
  <2> QED BY <2>1, <2>3, TypeTxStep
<1>12. ASSUME NEW s \in Sessions, FinishCancel(s) PROVE TypeOK'
  <2>1. tx[s].req \in Requests /\ tx[s].seats \in Nat /\ tx[s].at # "idle"
    BY <1>12, TxFacts DEF FinishCancel, HandlerOK, TxRecord
  <2>2. seatsTaken' \in [Trips -> Nat] /\ pax' \in [Trips -> Row]
    <3>1. CASE tx[s].at = "recounted"
      <4>1. tx[s].trip \in Trips
        BY <3>1, TxFacts DEF HandlerOK
      <4>2. ManifestSeen(s) \in Row
        BY <2>1, <4>1, ManifestSeenType
      <4> QED BY <1>12, <2>1, <3>1, <4>1, <4>2 DEF FinishCancel, TypeOK, Row
    <3>2. CASE tx[s].at = "cancelling"
      BY <1>12, <3>2 DEF FinishCancel, TypeOK, Row
    <3> QED BY <1>12, <3>1, <3>2 DEF FinishCancel
  <2>3. tx' \in [Sessions -> TxRecord] /\ \A z \in Sessions : HandlerOK(tx'[z])
    BY <1>12, IdleType DEF FinishCancel, TypeOK
  <2>4. reqStatus' \in [Requests -> {"none", "open", "assigned", "cancelled"}]
    BY <1>12, <2>1 DEF FinishCancel, TypeOK
  <2> QED BY <1>12, <2>2, <2>3, <2>4 DEF FinishCancel, TypeOK, Row, HandlerOK
<1>13. CASE UNCHANGED vars
  BY <1>13 DEF vars, TypeOK, HandlerOK
<1> QED
  BY <1>1, <1>2, <1>3, <1>4, <1>5, <1>6, <1>7, <1>8, <1>9, <1>10, <1>11, <1>12, <1>13
     DEF Next, Advance

LEMMA TypeInit == Init => TypeOK
BY DataAssumption, IdleType
   DEF Init, TypeOK, Trips, PassengerStatus, Awaited, Idle, HandlerOK, ClaimPoints, CancelPoints

(* Every reachable state is well typed: a handler never reaches a statement *)
(* without the rows that statement reads.                                   *)
THEOREM TypeCorrect == Spec => []TypeOK
BY TypeInit, TypeStep, PTL DEF Spec

-----------------------------------------------------------------------------
(* The first driver wins.                                                  *)

(* What the status='open' guard and the row lock give together: a request   *)
(* in a claim's hands is still open, was offered to that driver, and is in  *)
(* no other claim's hands.  A cancellation works on a request that exists.  *)
ClaimInv ==
    /\ \A s \in Sessions : tx[s].at \in ClaimPoints =>
           /\ reqStatus[tx[s].req] = "open"
           /\ tx[s].by \in offered[tx[s].req]
    /\ \A s1, s2 \in Sessions :
           /\ tx[s1].at \in ClaimPoints
           /\ tx[s2].at \in ClaimPoints
           /\ tx[s1].req = tx[s2].req
           => s1 = s2
    /\ \A s \in Sessions : tx[s].at \in CancelPoints => reqStatus[tx[s].req] # "none"

\* A step inside a transaction: the request stays in the hands it was in.
LEMMA ClaimTxStep ==
    ASSUME TypeOK, ClaimInv, UNCHANGED tables, NEW s \in Sessions, NEW x,
           tx' = [tx EXCEPT ![s] = x],
           x.at \in ClaimPoints =>
               tx[s].at \in ClaimPoints /\ x.req = tx[s].req /\ x.by = tx[s].by,
           x.at \in CancelPoints => reqStatus[x.req] # "none"
    PROVE  ClaimInv'
<1>1. \A z \in Sessions : tx'[z] = IF z = s THEN x ELSE tx[z]
  BY DEF TypeOK
<1>2. \A z \in Sessions : tx'[z].at \in ClaimPoints =>
          tx[z].at \in ClaimPoints /\ tx'[z].req = tx[z].req /\ tx'[z].by = tx[z].by
  BY <1>1
<1>3. \A z \in Sessions : tx'[z].at \in CancelPoints => reqStatus'[tx'[z].req] # "none"
  BY <1>1 DEF ClaimInv, tables
<1> QED
  BY <1>2, <1>3 DEF ClaimInv, tables

LEMMA ClaimStep == TypeOK /\ ClaimInv /\ [Next]_vars => ClaimInv'
<1> SUFFICES ASSUME TypeOK, ClaimInv, [Next]_vars PROVE ClaimInv'
  OBVIOUS
<1>0. \A s \in Sessions : /\ tx[s] \in TxRecord
                          /\ tx[s].at # "idle" => tx[s].req \in Requests
  BY TxFacts DEF HandlerOK
<1>1. ASSUME NEW r \in Requests, Create(r) PROVE ClaimInv'
  BY <1>0, <1>1 DEF Create, ClaimInv, TypeOK, ClaimPoints, CancelPoints
<1>2. ASSUME NEW s \in Sessions, NEW r \in Requests, NEW d \in Drivers, ClaimTake(s, r, d)
      PROVE  ClaimInv'
  <2>1. \A z \in Sessions : z # s => tx'[z] = tx[z]
    BY <1>2 DEF ClaimTake, TypeOK
  <2>2. tx'[s].req = r /\ tx'[s].by = d /\ tx'[s].at \notin CancelPoints
    BY <1>2 DEF ClaimTake, TypeOK, Idle, CancelPoints
  <2> QED BY <1>2, <2>1, <2>2 DEF ClaimTake, ClaimInv, HoldsRequest, tables
<1>3. ASSUME NEW s \in Sessions,
             FindTrip(s) \/ CheckCapacity(s) \/ AddRider(s) \/ Recount(s)
      PROVE  ClaimInv'
  <2> DEFINE x == tx'[s]
  <2>1. tx' = [tx EXCEPT ![s] = x] /\ UNCHANGED tables
    BY <1>3 DEF FindTrip, CheckCapacity, AddRider, Recount, TypeOK
  <2>2. /\ tx[s].at \in ClaimPoints /\ x.req = tx[s].req /\ x.by = tx[s].by
        /\ x.at \notin CancelPoints
    BY <1>0, <1>3
       DEF FindTrip, CheckCapacity, AddRider, Recount, TypeOK, TxRecord, ClaimPoints,
           CancelPoints
  <2> HIDE DEF x
  <2> QED BY <2>1, <2>2, ClaimTxStep
<1>4. ASSUME NEW s \in Sessions, RejectFull(s) \/ Abort(s) PROVE ClaimInv'
  BY <1>4, ClaimTxStep DEF RejectFull, Abort, Idle, ClaimPoints, CancelPoints
<1>5. ASSUME NEW s \in Sessions, CancelRemove(s) \/ CancelRecount(s) PROVE ClaimInv'
  <2> DEFINE x == tx'[s]
  <2>1. tx' = [tx EXCEPT ![s] = x] /\ UNCHANGED tables
    BY <1>5 DEF CancelRemove, CancelRecount, TypeOK
  <2>2. tx[s].at \in CancelPoints /\ x.at \notin ClaimPoints /\ x.req = tx[s].req
    BY <1>0, <1>5
       DEF CancelRemove, CancelRecount, TypeOK, TxRecord, ClaimPoints, CancelPoints
  <2>3. reqStatus[x.req] # "none"
    BY <2>2 DEF ClaimInv
  <2> HIDE DEF x
  <2> QED BY <2>1, <2>2, <2>3, ClaimTxStep
<1>6. ASSUME NEW s \in Sessions, NEW r \in Requests, NEW manager \in BOOLEAN,
             CancelRead(s, r, manager)
      PROVE  ClaimInv'
  <2> DEFINE x == [Idle EXCEPT !.at = "cancelling", !.req = r,
                               !.trip = reqTrip[r], !.pid = reqPax[r]]
  <2>1. tx' = [tx EXCEPT ![s] = x] /\ UNCHANGED tables
    BY <1>6 DEF CancelRead
  <2>2. x.at \notin ClaimPoints /\ reqStatus[x.req] # "none"
    BY <1>6 DEF CancelRead, Idle, ClaimPoints
  <2> HIDE DEF x
  <2> QED BY <2>1, <2>2, ClaimTxStep
<1>7. ASSUME NEW s \in Sessions, FinishClaim(s) \/ FinishCancel(s) PROVE ClaimInv'
  <2> DEFINE r == tx[s].req
  <2>1. \A z \in Sessions : tx'[z] = IF z = s THEN Idle ELSE tx[z]
    BY <1>7 DEF FinishClaim, FinishCancel, TypeOK
  <2>2. \A z \in Sessions : tx'[z].at \in ClaimPoints =>
            z # s /\ tx'[z] = tx[z] /\ tx[z].req # r
    BY <1>7, <2>1
       DEF FinishClaim, FinishCancel, ClaimInv, HoldsRequest, Idle, ClaimPoints
  <2>3. \A q \in Requests : IF q = r THEN reqStatus'[q] # "none"
                                     ELSE reqStatus'[q] = reqStatus[q]
    BY <1>7 DEF FinishClaim, FinishCancel, TypeOK
  <2>4. offered' = offered
    BY <1>7 DEF FinishClaim, FinishCancel
  <2>5. \A z \in Sessions : tx'[z].at \in CancelPoints =>
            tx'[z] = tx[z] /\ tx[z].req \in Requests
    BY <1>0, <2>1 DEF Idle, CancelPoints
  <2>6. \A z \in Sessions : tx'[z].at \in ClaimPoints => tx[z].req \in Requests
    BY <1>0, <2>2 DEF ClaimPoints
  <2> QED BY <2>2, <2>3, <2>4, <2>5, <2>6 DEF ClaimInv
<1>8. CASE UNCHANGED vars
  BY <1>8 DEF vars, ClaimInv
<1> QED
  BY <1>1, <1>2, <1>3, <1>4, <1>5, <1>6, <1>7, <1>8 DEF Next, Advance

LEMMA ClaimInit == Init => ClaimInv
BY DEF Init, ClaimInv, Idle, ClaimPoints, CancelPoints

THEOREM ClaimExclusive == Spec => []ClaimInv
BY TypeInit, TypeStep, ClaimInit, ClaimStep, PTL DEF Spec

LEMMA BoardInit == Init => Board!Init
BY DEF Init, Board!Init

\* A commit of a handler is a step of the board, everything else a stutter.
LEMMA BoardStep == TypeOK /\ ClaimInv /\ [Next]_vars => [Board!Next]_(Board!boardVars)
<1> SUFFICES ASSUME TypeOK, ClaimInv, [Next]_vars
             PROVE  Board!Next \/ UNCHANGED <<reqStatus, offered, claimedBy>>
  BY DEF Board!boardVars
<1>1. ASSUME NEW r \in Requests, Create(r) PROVE Board!Post(r)
  BY <1>1 DEF Create, Board!Post
<1>2. ASSUME NEW s \in Sessions, FinishClaim(s)
      PROVE  tx[s].req \in Requests /\ Board!Assign(tx[s].req)
  <2>1. /\ tx[s].req \in Requests
        /\ reqStatus[tx[s].req] = "open"
        /\ tx[s].by \in offered[tx[s].req]
    BY <1>2, TxFacts DEF FinishClaim, ClaimInv, ClaimPoints, HandlerOK
  <2> QED BY <1>2, <2>1 DEF FinishClaim, Board!Assign
<1>3. ASSUME NEW s \in Sessions, FinishCancel(s)
      PROVE  tx[s].req \in Requests /\ Board!Withdraw(tx[s].req)
  <2>1. tx[s].req \in Requests /\ reqStatus[tx[s].req] # "none"
    BY <1>3, TxFacts DEF FinishCancel, HandlerOK, ClaimInv, CancelPoints
  <2> QED BY <1>3, <2>1 DEF FinishCancel, Board!Withdraw
<1>4. ASSUME UNCHANGED tables PROVE UNCHANGED <<reqStatus, offered, claimedBy>>
  BY <1>4 DEF tables
<1>5. CASE UNCHANGED vars
  BY <1>5 DEF vars
<1> QED
  BY <1>1, <1>2, <1>3, <1>4, <1>5
     DEF Next, Advance, Board!Next, ClaimTake, FindTrip, CheckCapacity, RejectFull, AddRider,
         Recount, CancelRead, CancelRemove, CancelRecount, Abort

(* "Atomic first-wins claim": every commit of the handlers is a step of the *)
(* abstract board, so a request has one winner, a driver it was offered to, *)
(* and a cancelled request never gets one.                                  *)
THEOREM ImplementsBoard == Spec => BoardSpec
BY BoardInit, BoardStep, TypeInit, TypeStep, ClaimInit, ClaimStep, PTL
   DEF Spec, BoardSpec, Board!Spec

-----------------------------------------------------------------------------
(* The bound on overbooking.                                               *)

\* The two numbers the bound adds up.
LEMMA BoardingFinite ==
    ASSUME NEW t \in Trips
    PROVE  /\ IsFiniteSet(Boarding(t))
           /\ Cardinality(Boarding(t)) \in Nat
           /\ Cardinality(Boarding(t)) <= Cardinality(Sessions)
           /\ Cardinality(Sessions) \in Nat
<1>1. Boarding(t) \in SUBSET Sessions
  BY DEF Boarding
<1> QED
  BY <1>1, FiniteAssumption, FS_Subset, FS_CardinalityType

LEMMA CapacityType ==
    ASSUME NEW t \in Trips, Capacity(t) # NoLimit
    PROVE  Capacity(t) \in Nat
BY DataAssumption DEF Capacity, Trips

LEMMA PaxRow ==
    ASSUME TypeOK, NEW t \in Trips
    PROVE  /\ pax[t] \in Row
           /\ Cardinality(Occupants(pax[t])) \in Nat
<1>1. pax[t] \in Row
  BY DEF TypeOK, Row
<1> QED
  BY <1>1, OccupantsFinite DEF ActiveCount

\* A step after which no trip has more occupants or more claims in flight.
LEMMA BoundShrinkStep ==
    ASSUME TypeOK, TypeOK', OverbookingBounded, NEW t \in Trips, Capacity(t) # NoLimit,
           Cardinality(Occupants(pax'[t])) <= Cardinality(Occupants(pax[t])),
           Boarding(t)' \subseteq Boarding(t)
    PROVE  Cardinality(Occupants(pax'[t])) + Cardinality(Boarding(t)')
               <= Capacity(t) + Cardinality(Sessions) - 1
<1>1. /\ Cardinality(Boarding(t)') <= Cardinality(Boarding(t))
      /\ IsFiniteSet(Boarding(t)')
  <2>1. Boarding(t)' \in SUBSET Boarding(t)
    OBVIOUS
  <2> QED BY <2>1, BoardingFinite, FS_Subset
<1>2. Cardinality(Boarding(t)') \in Nat
  BY <1>1, FS_CardinalityType
<1>3. Cardinality(Occupants(pax'[t])) \in Nat
  <2>1. pax'[t] \in Row
    BY DEF TypeOK, Row
  <2> QED BY <2>1, OccupantsFinite DEF ActiveCount
<1>4. Cardinality(Occupants(pax[t])) + Cardinality(Boarding(t))
          <= Capacity(t) + Cardinality(Sessions) - 1
  BY DEF OverbookingBounded
<1> QED
  BY <1>1, <1>2, <1>3, <1>4, PaxRow, BoardingFinite, CapacityType

LEMMA BoundStep ==
    TypeOK /\ TypeOK' /\ OverbookingBounded /\ [Next]_vars => OverbookingBounded'
<1> SUFFICES ASSUME TypeOK, TypeOK', OverbookingBounded, [Next]_vars,
                    NEW t \in Trips, Capacity(t) # NoLimit
             PROVE  Cardinality(Occupants(pax'[t])) + Cardinality(Boarding(t)')
                        <= Capacity(t) + Cardinality(Sessions) - 1
  BY DEF OverbookingBounded, Capacity
<1> DEFINE Goal == Cardinality(Occupants(pax'[t])) + Cardinality(Boarding(t)')
                       <= Capacity(t) + Cardinality(Sessions) - 1
           Shrinks == /\ Cardinality(Occupants(pax'[t])) <= Cardinality(Occupants(pax[t]))
                      /\ Boarding(t)' \subseteq Boarding(t)
<1>0. Shrinks => Goal
  BY BoundShrinkStep
<1>a. ASSUME pax'[t] = pax[t] PROVE Cardinality(Occupants(pax'[t])) <= Cardinality(Occupants(pax[t]))
  BY <1>a, PaxRow
<1>1. CASE UNCHANGED vars \/ \E r \in Requests : Create(r)
  BY <1>0, <1>1, <1>a DEF vars, Create, Boarding
<1>2. ASSUME NEW s \in Sessions,
             \/ \E r \in Requests, d \in Drivers : ClaimTake(s, r, d)
             \/ \E r \in Requests, manager \in BOOLEAN : CancelRead(s, r, manager)
             \/ FindTrip(s) \/ RejectFull(s) \/ Recount(s)
             \/ CancelRemove(s) \/ CancelRecount(s) \/ Abort(s)
      PROVE  Goal
  <2>1. /\ \A z \in Sessions : z # s => tx'[z] = tx[z]
        /\ pax' = pax
    BY <1>2 DEF ClaimTake, CancelRead, FindTrip, RejectFull, Recount, CancelRemove,
                CancelRecount, Abort, TypeOK, tables
  <2>2. s \in Boarding(t)' => s \in Boarding(t)
    <3>1. CASE Recount(s)
      <4>1. /\ tx[s].at = "seated"
            /\ tx'[s].trip = tx[s].trip
            /\ tx'[s].pid = tx[s].pid
            /\ tx'[s].at = "counted"
        BY <3>1, TxFacts DEF Recount, TypeOK, TxRecord
      <4> QED BY <4>1 DEF Boarding
    <3>2. CASE ~ Recount(s)
      <4>1. tx'[s].at \notin {"checked", "seated", "counted"}
        <5>1. CASE \E r \in Requests, manager \in BOOLEAN : CancelRead(s, r, manager)
          BY <5>1, TxFacts DEF CancelRead, TypeOK, Idle
        <5>2. CASE \E r \in Requests, d \in Drivers : ClaimTake(s, r, d)
          BY <5>2, TxFacts DEF ClaimTake, TypeOK, Idle
        <5>3. CASE RejectFull(s) \/ Abort(s)
          BY <5>3, TxFacts DEF RejectFull, Abort, TypeOK, Idle
        <5>4. CASE FindTrip(s) \/ CancelRemove(s) \/ CancelRecount(s)
          BY <5>4, TxFacts DEF FindTrip, CancelRemove, CancelRecount, TypeOK, TxRecord
        <5> QED BY <1>2, <3>2, <5>1, <5>2, <5>3, <5>4
      <4> QED BY <4>1 DEF Boarding
    <3> QED BY <3>1, <3>2
  <2>3. Boarding(t)' \subseteq Boarding(t)
    BY <2>1, <2>2 DEF Boarding
  <2> QED BY <1>0, <1>a, <2>1, <2>3
<1>3. ASSUME NEW s \in Sessions, AddRider(s) PROVE Goal
  <2>1. /\ \A z \in Sessions : z # s => tx'[z] = tx[z]
        /\ pax' = pax
        /\ tx[s].at = "checked" /\ tx'[s].trip = tx[s].trip
    BY <1>3, TxFacts DEF AddRider, TypeOK, tables, TxRecord
  <2>2. Boarding(t)' \subseteq Boarding(t)
    BY <2>1 DEF Boarding
  <2> QED BY <1>0, <1>a, <2>1, <2>2
<1>4. ASSUME NEW s \in Sessions, CheckCapacity(s) PROVE Goal
  <2>1. /\ \A z \in Sessions : z # s => tx'[z] = tx[z]
        /\ pax' = pax
        /\ tx[s].at = "found" /\ tx'[s].trip = tx[s].trip
    BY <1>4, TxFacts DEF CheckCapacity, TypeOK, tables, TxRecord
  <2>2. CASE tx[s].trip = t
    <3>1. ManifestSeen(s) = pax[t]
      BY <2>1, <2>2 DEF ManifestSeen, HoldsRow
    <3>2. Cardinality(Occupants(pax[t])) < Capacity(t)
      BY <1>4, <2>2, <3>1, PaxRow, CapacityType DEF CheckCapacity, Full, ActiveCount
    <3>3. /\ Cardinality(Boarding(t)') \in Nat
          /\ Cardinality(Boarding(t)') <= Cardinality(Sessions)
      <4>1. Boarding(t)' \in SUBSET Sessions
        BY DEF Boarding
      <4> QED BY <4>1, FiniteAssumption, FS_Subset, FS_CardinalityType
    <3> QED BY <2>1, <3>2, <3>3, PaxRow, CapacityType, BoardingFinite
  <2>3. CASE tx[s].trip # t
    <3>1. Boarding(t)' \subseteq Boarding(t)
      BY <2>1, <2>3 DEF Boarding
    <3> QED BY <1>0, <1>a, <2>1, <3>1
  <2> QED BY <2>2, <2>3
<1>5. ASSUME NEW s \in Sessions, FinishClaim(s) PROVE Goal
  <2>1. /\ \A z \in Sessions : z # s => tx'[z] = tx[z]
        /\ tx'[s] = Idle
        /\ tx[s].at = "counted"
        /\ tx[s].trip \in Trips
        /\ tx[s].req \in Requests
        /\ pax' = [pax EXCEPT ![tx[s].trip] = ManifestSeen(s)]
    BY <1>5, TxFacts DEF FinishClaim, TypeOK, HandlerOK, ClaimPoints
  <2>2. Boarding(t)' \subseteq Boarding(t) /\ s \notin Boarding(t)'
    BY <2>1 DEF Boarding, Idle
  <2>3. CASE tx[s].trip = t /\ tx[s].pid
    <3> DEFINE e == Rider[tx[s].req]
    <3>1. pax'[t] = [pax[t] EXCEPT ![e] = "expected"] /\ e \in Employees
      BY <2>1, <2>3, DataAssumption DEF ManifestSeen, HoldsRow, ClaimPoints, TypeOK
    <3>2. Cardinality(Occupants(pax'[t])) <= Cardinality(Occupants(pax[t])) + 1
      BY <3>1, PaxRow, OccupantsGrow
    <3>3. s \in Boarding(t)
      BY <2>1, <2>3 DEF Boarding
    <3>4. Cardinality(Boarding(t)') <= Cardinality(Boarding(t)) - 1
          /\ Cardinality(Boarding(t)') \in Nat
      <4>1. /\ IsFiniteSet(Boarding(t) \ {s})
            /\ Cardinality(Boarding(t) \ {s}) = Cardinality(Boarding(t)) - 1
        BY <3>3, BoardingFinite, FS_RemoveElement
      <4>2. Boarding(t)' \in SUBSET (Boarding(t) \ {s})
        BY <2>2
      <4>3. /\ IsFiniteSet(Boarding(t)')
            /\ Cardinality(Boarding(t)') <= Cardinality(Boarding(t) \ {s})
        BY <4>1, <4>2, FS_Subset
      <4> QED BY <4>1, <4>3, BoardingFinite, FS_CardinalityType
    <3>5. Cardinality(Occupants(pax'[t])) \in Nat
      <4>1. pax'[t] \in Row
        BY DEF TypeOK, Row
      <4> QED BY <4>1, OccupantsFinite DEF ActiveCount
    <3>6. Cardinality(Occupants(pax[t])) + Cardinality(Boarding(t))
              <= Capacity(t) + Cardinality(Sessions) - 1
      BY DEF OverbookingBounded
    <3> QED BY <3>2, <3>4, <3>5, <3>6, PaxRow, BoardingFinite, CapacityType
  <2>4. CASE ~ (tx[s].trip = t /\ tx[s].pid)
    <3>1. pax'[t] = pax[t]
      BY <2>1, <2>4 DEF ManifestSeen, HoldsRow, TypeOK
    <3> QED BY <1>0, <1>a, <2>2, <3>1
  <2> QED BY <2>3, <2>4
<1>6. ASSUME NEW s \in Sessions, FinishCancel(s) PROVE Goal
  <2>1. /\ \A z \in Sessions : z # s => tx'[z] = tx[z]
        /\ tx'[s] = Idle
    BY <1>6 DEF FinishCancel, TypeOK
  <2>2. Boarding(t)' \subseteq Boarding(t)
    BY <2>1 DEF Boarding, Idle
  <2>3. CASE tx[s].at = "recounted" /\ tx[s].trip = t
    <3> DEFINE e == Rider[tx[s].req]
    <3>1. tx[s].pid /\ tx[s].req \in Requests
      BY <2>3, TxFacts DEF HandlerOK
    <3>2. pax'[t] = [pax[t] EXCEPT ![e] = "removed"] /\ e \in Employees
      BY <1>6, <2>3, <3>1, DataAssumption
         DEF FinishCancel, ManifestSeen, HoldsRow, ClaimPoints, TypeOK
    <3> QED BY <1>0, <2>2, <3>2, PaxRow, OccupantsShrink
  <2>4. CASE ~ (tx[s].at = "recounted" /\ tx[s].trip = t)
    <3>1. pax'[t] = pax[t]
      BY <1>6, <2>4 DEF FinishCancel, TypeOK
    <3> QED BY <1>0, <1>a, <2>2, <3>1
  <2> QED BY <2>3, <2>4
<1> QED
  BY <1>1, <1>2, <1>3, <1>4, <1>5, <1>6 DEF Next, Advance

LEMMA BoundInit == Init => OverbookingBounded
<1> SUFFICES ASSUME Init, NEW t \in Trips, Capacity(t) # NoLimit
             PROVE  Cardinality(Occupants(pax[t])) + Cardinality(Boarding(t))
                        <= Capacity(t) + Cardinality(Sessions) - 1
  BY DEF OverbookingBounded
<1>1. Occupants(pax[t]) = {} /\ Boarding(t) = {}
  BY DEF Init, Occupants, OnManifest, Awaited, Absent, Boarding, Idle
<1>2. Cardinality(Sessions) # 0
  BY FiniteAssumption, FS_EmptySet
<1> QED
  BY <1>1, <1>2, FS_EmptySet, CapacityType, BoardingFinite

(* FR-22, as far as the code keeps it: however the claims interleave, a     *)
(* trip carries at most one rider fewer than its places and the connections *)
(* that run claims together, because a handler adds at most one rider       *)
(* between its own capacity check and its commit.                           *)
THEOREM OverbookingIsBounded == Spec => []OverbookingBounded
BY TypeInit, TypeStep, BoundInit, BoundStep, PTL DEF Spec

-----------------------------------------------------------------------------
(* Rows and requests.                                                      *)

\* A request that was claimed or cancelled.
Past(r) == reqStatus[r] \notin {"none", "open"}

\* A claim's trip is its own, or one that exists.
Aboard(x) ==
    x.trip # x.req =>
        /\ tripStatus[x.trip] # "none"
        /\ x.trip \in Requests => Past(x.trip)

\* HoldsRow, of a transaction's record.
Writes(x) == x.at \in {"seated", "counted", "removed", "recounted"} /\ x.pid

(* The inductive invariant: who has written a manifest row, committed or    *)
(* not.  A trip named after a request exists only once that was claimed.    *)
Claimed ==
    /\ \A r \in Requests : reqPax[r] => Past(r) /\ pax[reqTrip[r]][Rider[r]] # Absent
    /\ \A r, t \in Requests : reqTrip[r] = t => Past(t)
    /\ \A t \in Requests : tripStatus[t] # "none" => Past(t)
    /\ \A t \in Trips, e \in Employees : pax[t][e] # Absent => tripStatus[t] # "none"
Handled ==
    /\ \A s \in Sessions : tx[s].at \in ClaimPoints \ {"claimed"} => Aboard(tx[s])
    /\ \A s \in Sessions : tx[s].at \in {"seated", "counted"} /\ tx[s].pid =>
           pax[tx[s].trip][Rider[tx[s].req]] = Absent
    /\ \A s \in Sessions : tx[s].at \in CancelPoints /\ tx[s].pid =>
           reqPax[tx[s].req] /\ reqTrip[tx[s].req] = tx[s].trip
    /\ \A s1, s2 \in Sessions :
           /\ Writes(tx[s1]) /\ Writes(tx[s2])
           /\ tx[s1].trip = tx[s2].trip
           /\ Rider[tx[s1].req] = Rider[tx[s2].req]
           => s1 = s2
RowsInv == Claimed /\ Handled /\ OneRequestPerRow

\* A step inside a transaction that takes nobody else's row.
LEMMA RowsTxStep ==
    ASSUME TypeOK, RowsInv, UNCHANGED tables, NEW s \in Sessions, NEW x,
           tx' = [tx EXCEPT ![s] = x],
           x.at \in ClaimPoints \ {"claimed"} => Aboard(x),
           x.at \in {"seated", "counted"} /\ x.pid => pax[x.trip][Rider[x.req]] = Absent,
           x.at \in CancelPoints /\ x.pid => reqPax[x.req] /\ reqTrip[x.req] = x.trip,
           Writes(x) => \A z \in Sessions \ {s} :
               ~ (Writes(tx[z]) /\ tx[z].trip = x.trip /\ Rider[tx[z].req] = Rider[x.req])
    PROVE  RowsInv'
<1>1. \A z \in Sessions : tx'[z] = IF z = s THEN x ELSE tx[z]
  BY DEF TypeOK
<1>2. Claimed' /\ OneRequestPerRow'
  BY DEF RowsInv, Claimed, OneRequestPerRow, tables, Past
<1>3. \A z \in Sessions : tx'[z].at \in ClaimPoints \ {"claimed"} => Aboard(tx'[z])
  BY <1>1 DEF RowsInv, Handled
<1>4. \A z \in Sessions : (tx'[z].at \in ClaimPoints \ {"claimed"} => Aboard(tx[z])')
  BY <1>3 DEF Aboard, Past, tables
<1>5. \A z \in Sessions : tx'[z].at \in {"seated", "counted"} /\ tx'[z].pid =>
          pax'[tx'[z].trip][Rider[tx'[z].req]] = Absent
  BY <1>1 DEF RowsInv, Handled, tables
<1>6. \A z \in Sessions : tx'[z].at \in CancelPoints /\ tx'[z].pid =>
          reqPax'[tx'[z].req] /\ reqTrip'[tx'[z].req] = tx'[z].trip
  BY <1>1 DEF RowsInv, Handled, tables
<1>7. \A s1, s2 \in Sessions :
          /\ Writes(tx'[s1]) /\ Writes(tx'[s2])
          /\ tx'[s1].trip = tx'[s2].trip
          /\ Rider[tx'[s1].req] = Rider[tx'[s2].req]
          => s1 = s2
  BY <1>1 DEF RowsInv, Handled
<1>8. Handled'
  BY <1>4, <1>5, <1>6, <1>7 DEF Handled, Writes
<1> QED
  BY <1>2, <1>8 DEF RowsInv

\* The steps that write no table.
LEMMA RowsStatement ==
    ASSUME TypeOK, RowsInv, NEW s \in Sessions,
           \/ \E r \in Requests, d \in Drivers : ClaimTake(s, r, d)
           \/ \E r \in Requests, manager \in BOOLEAN : CancelRead(s, r, manager)
           \/ FindTrip(s) \/ CheckCapacity(s) \/ RejectFull(s) \/ AddRider(s) \/ Recount(s)
           \/ CancelRemove(s) \/ CancelRecount(s) \/ Abort(s)
    PROVE  RowsInv'
<1> USE DEF ClaimPoints, CancelPoints
<1>a. tx[s] \in TxRecord /\ HandlerOK(tx[s])
  BY TxFacts
<1>b. /\ tx[s].at \in ClaimPoints \ {"claimed"} => Aboard(tx[s])
      /\ tx[s].at \in {"seated", "counted"} /\ tx[s].pid =>
             pax[tx[s].trip][Rider[tx[s].req]] = Absent
      /\ tx[s].at \in CancelPoints /\ tx[s].pid =>
             reqPax[tx[s].req] /\ reqTrip[tx[s].req] = tx[s].trip
      /\ Writes(tx[s]) => \A z \in Sessions \ {s} :
             ~ (Writes(tx[z]) /\ tx[z].trip = tx[s].trip /\ Rider[tx[z].req] = Rider[tx[s].req])
  BY DEF RowsInv, Handled
<1>1. ASSUME NEW r \in Requests, NEW d \in Drivers, ClaimTake(s, r, d) PROVE RowsInv'
  <2> DEFINE x == [Idle EXCEPT !.at = "claimed", !.req = r, !.by = d]
  <2>1. tx' = [tx EXCEPT ![s] = x] /\ UNCHANGED tables
    BY <1>1 DEF ClaimTake
  <2>2. x.at = "claimed" /\ ~ Writes(x)
    BY DEF Idle, Writes
  <2> HIDE DEF x
  <2> QED BY <2>1, <2>2, RowsTxStep
<1>2. ASSUME NEW r \in Requests, NEW manager \in BOOLEAN, CancelRead(s, r, manager)
      PROVE  RowsInv'
  <2> DEFINE x == [Idle EXCEPT !.at = "cancelling", !.req = r,
                               !.trip = reqTrip[r], !.pid = reqPax[r]]
  <2>1. tx' = [tx EXCEPT ![s] = x] /\ UNCHANGED tables
    BY <1>2 DEF CancelRead
  <2>2. /\ x.at = "cancelling" /\ ~ Writes(x)
        /\ x.pid => reqPax[x.req] /\ reqTrip[x.req] = x.trip
    BY DEF Idle, Writes
  <2> HIDE DEF x
  <2> QED BY <2>1, <2>2, RowsTxStep
<1>3. CASE FindTrip(s)
  <2>1. PICK u \in Trips : /\ tx' = [tx EXCEPT ![s].at = "found", ![s].trip = u]
                           /\ u = tx[s].req \/ u \in OpenTrips(tx[s].by, SlotOf[tx[s].req])
    BY <1>3, <1>a DEF FindTrip, Trips, OpenTrips, HandlerOK
  <2> DEFINE x == [tx[s] EXCEPT !.at = "found", !.trip = u]
  <2>2. tx' = [tx EXCEPT ![s] = x] /\ UNCHANGED tables
    BY <1>3, <2>1 DEF FindTrip, TypeOK
  <2>3. x.at = "found" /\ x.trip = u /\ x.req = tx[s].req /\ x.by = tx[s].by
    BY <1>a DEF TxRecord
  <2>4. Aboard(x)
    BY <2>1, <2>3 DEF Aboard, OpenTrips, RowsInv, Claimed
  <2> HIDE DEF x
  <2> QED BY <2>2, <2>3, <2>4, RowsTxStep DEF Writes
<1>4. CASE CheckCapacity(s)
  <2> DEFINE x == [tx[s] EXCEPT !.at = "checked"]
  <2>1. tx' = [tx EXCEPT ![s] = x] /\ UNCHANGED tables /\ tx[s].at = "found"
    BY <1>4 DEF CheckCapacity, TypeOK
  <2>2. x.at = "checked" /\ x.trip = tx[s].trip /\ x.req = tx[s].req /\ x.by = tx[s].by
    BY <1>a DEF TxRecord
  <2> HIDE DEF x
  <2>3. Aboard(x) /\ ~ Writes(x)
    BY <1>b, <2>1, <2>2 DEF Aboard, Writes
  <2> QED BY <2>1, <2>2, <2>3, RowsTxStep
<1>5. CASE RejectFull(s) \/ Abort(s)
  <2>1. tx' = [tx EXCEPT ![s] = Idle] /\ UNCHANGED tables
    BY <1>5 DEF RejectFull, Abort
  <2> QED BY <2>1, RowsTxStep DEF Idle, Writes
<1>6. CASE AddRider(s)
  <2> DEFINE new == pax[tx[s].trip][Rider[tx[s].req]] = Absent
             x == [tx[s] EXCEPT !.at = "seated", !.pid = new]
  <2>1. tx' = [tx EXCEPT ![s] = x] /\ UNCHANGED tables /\ tx[s].at = "checked"
    BY <1>6 DEF AddRider, TypeOK
  <2>2. /\ x.at = "seated" /\ x.trip = tx[s].trip /\ x.req = tx[s].req /\ x.by = tx[s].by
        /\ x.pid => new
    BY <1>a DEF TxRecord
  <2>3. new => \A z \in Sessions : ~ HoldsRow(z, tx[s].trip, Rider[tx[s].req])
    BY <1>6 DEF AddRider
  <2> HIDE DEF x
  <2>4. Aboard(x) /\ (x.pid => pax[x.trip][Rider[x.req]] = Absent)
    BY <1>b, <2>1, <2>2 DEF Aboard
  <2>5. Writes(x) => \A z \in Sessions \ {s} :
            ~ (Writes(tx[z]) /\ tx[z].trip = x.trip /\ Rider[tx[z].req] = Rider[x.req])
    BY <2>2, <2>3 DEF Writes, HoldsRow
  <2> QED BY <2>1, <2>2, <2>4, <2>5, RowsTxStep
<1>7. CASE Recount(s)
  <2> DEFINE n == ActiveCount(ManifestSeen(s))
             x == [tx[s] EXCEPT !.at = "counted", !.seats = n]
  <2>1. tx' = [tx EXCEPT ![s] = x] /\ UNCHANGED tables /\ tx[s].at = "seated"
    BY <1>7 DEF Recount, TypeOK
  <2> HIDE DEF n
  <2>2. /\ x.at = "counted" /\ x.trip = tx[s].trip /\ x.req = tx[s].req /\ x.by = tx[s].by
        /\ x.pid = tx[s].pid
    BY <1>a DEF TxRecord
  <2> HIDE DEF x
  <2>3. Aboard(x) /\ (Writes(x) => Writes(tx[s]))
    BY <1>b, <2>1, <2>2 DEF Aboard, Writes
  <2> QED BY <1>b, <2>1, <2>2, <2>3, RowsTxStep
<1>8. CASE CancelRemove(s)
  <2> DEFINE x == [tx[s] EXCEPT !.at = "removed"]
  <2>1. tx' = [tx EXCEPT ![s] = x] /\ UNCHANGED tables /\ tx[s].at = "cancelling"
    BY <1>8 DEF CancelRemove, TypeOK
  <2>2. x.at = "removed" /\ x.trip = tx[s].trip /\ x.req = tx[s].req /\ x.pid = tx[s].pid
    BY <1>a DEF TxRecord
  <2>3. \A z \in Sessions : ~ HoldsRow(z, tx[s].trip, Rider[tx[s].req])
    BY <1>8 DEF CancelRemove
  <2> HIDE DEF x
  <2>4. Writes(x) => \A z \in Sessions \ {s} :
            ~ (Writes(tx[z]) /\ tx[z].trip = x.trip /\ Rider[tx[z].req] = Rider[x.req])
    BY <2>2, <2>3 DEF Writes, HoldsRow
  <2> QED BY <1>b, <2>1, <2>2, <2>4, RowsTxStep
<1>9. CASE CancelRecount(s)
  <2> DEFINE n == ActiveCount(ManifestSeen(s))
             x == [tx[s] EXCEPT !.at = "recounted", !.seats = n]
  <2>1. tx' = [tx EXCEPT ![s] = x] /\ UNCHANGED tables /\ tx[s].at = "removed"
    BY <1>9 DEF CancelRecount, TypeOK
  <2> HIDE DEF n
  <2>2. x.at = "recounted" /\ x.trip = tx[s].trip /\ x.req = tx[s].req /\ x.pid = tx[s].pid
    BY <1>a DEF TxRecord
  <2> HIDE DEF x
  <2>3. Writes(x) => Writes(tx[s])
    BY <2>1, <2>2 DEF Writes
  <2> QED BY <1>b, <2>1, <2>2, <2>3, RowsTxStep
<1> QED
  BY <1>1, <1>2, <1>3, <1>4, <1>5, <1>6, <1>7, <1>8, <1>9

\* What a claim's commit writes: its request's row, and the manifest row it inserted.
LEMMA ClaimCommit ==
    ASSUME TypeOK, NEW s \in Sessions, FinishClaim(s)
    PROVE  LET r == tx[s].req
               t == tx[s].trip
               e == Rider[r]
           IN  /\ tx[s].at = "counted" /\ r \in Requests /\ t \in Trips /\ e \in Employees
               /\ tx[s].pid \in BOOLEAN /\ tx[s].by \in Drivers
               /\ \A q \in Requests : reqStatus'[q] = IF q = r THEN "assigned" ELSE reqStatus[q]
               /\ \A q \in Requests : claimedBy'[q] = IF q = r THEN tx[s].by ELSE claimedBy[q]
               /\ \A q \in Requests : reqTrip'[q] = IF q = r THEN t ELSE reqTrip[q]
               /\ \A q \in Requests : reqPax'[q] = IF q = r THEN tx[s].pid ELSE reqPax[q]
               /\ \A u \in Trips :
                      tripStatus'[u] = IF u = t /\ t = r THEN "assigned" ELSE tripStatus[u]
               /\ \A u \in Trips :
                      tripDriver'[u] = IF u = t /\ t = r THEN tx[s].by ELSE tripDriver[u]
               /\ \A z \in Sessions : tx'[z] = IF z = s THEN Idle ELSE tx[z]
               /\ \A u \in Trips, f \in Employees :
                      pax'[u][f] = IF tx[s].pid /\ u = t /\ f = e THEN "expected" ELSE pax[u][f]
<1> DEFINE r == tx[s].req
           t == tx[s].trip
           e == Rider[r]
<1> USE DEF ClaimPoints, CancelPoints
<1>1. /\ tx[s].at = "counted" /\ r \in Requests /\ t \in Trips /\ e \in Employees
      /\ tx[s].pid \in BOOLEAN /\ tx[s].by \in Drivers
  BY TxFacts, DataAssumption DEF FinishClaim, HandlerOK, TxRecord
<1>2. /\ \A q \in Requests : reqStatus'[q] = IF q = r THEN "assigned" ELSE reqStatus[q]
      /\ \A q \in Requests : claimedBy'[q] = IF q = r THEN tx[s].by ELSE claimedBy[q]
      /\ \A q \in Requests : reqTrip'[q] = IF q = r THEN t ELSE reqTrip[q]
      /\ \A q \in Requests : reqPax'[q] = IF q = r THEN tx[s].pid ELSE reqPax[q]
      /\ \A u \in Trips : tripStatus'[u] = IF u = t /\ t = r THEN "assigned" ELSE tripStatus[u]
      /\ \A u \in Trips : tripDriver'[u] = IF u = t /\ t = r THEN tx[s].by ELSE tripDriver[u]
      /\ \A z \in Sessions : tx'[z] = IF z = s THEN Idle ELSE tx[z]
  BY <1>1 DEF FinishClaim, TypeOK
<1>3. \A u \in Trips, f \in Employees :
          pax'[u][f] = IF tx[s].pid /\ u = t /\ f = e THEN "expected" ELSE pax[u][f]
  <2>1. ManifestSeen(s) = IF tx[s].pid THEN [pax[t] EXCEPT ![e] = "expected"] ELSE pax[t]
    BY <1>1 DEF ManifestSeen, HoldsRow
  <2>2. pax' = [pax EXCEPT ![t] = ManifestSeen(s)]
    BY DEF FinishClaim
  <2>3. pax \in [Trips -> [Employees -> PassengerStatus \cup {Absent}]]
    BY DEF TypeOK
  <2> QED BY <1>1, <2>1, <2>2, <2>3
<1> QED
  BY <1>1, <1>2, <1>3

\* A claim's commit: its request's row, and the manifest row it inserted.
LEMMA RowsFinishClaim ==
    ASSUME TypeOK, ClaimInv, RowsInv, NEW s \in Sessions, FinishClaim(s)
    PROVE  RowsInv'
<1> DEFINE r == tx[s].req
           t == tx[s].trip
           e == Rider[r]
<1> USE DEF ClaimPoints, CancelPoints, Past
<1>1. /\ tx[s].at = "counted" /\ r \in Requests /\ t \in Trips /\ e \in Employees
      /\ tx[s].pid \in BOOLEAN /\ tx[s].by \in Drivers
  BY ClaimCommit
<1>2. reqStatus[r] = "open" /\ ~ reqPax[r]
  BY <1>1 DEF ClaimInv, RowsInv, Claimed, Past
<1>3. Aboard(tx[s]) /\ (tx[s].pid => pax[t][e] = Absent)
  BY <1>1 DEF RowsInv, Handled
<1>4. /\ \A q \in Requests : reqStatus'[q] = IF q = r THEN "assigned" ELSE reqStatus[q]
      /\ \A q \in Requests : reqTrip'[q] = IF q = r THEN t ELSE reqTrip[q]
      /\ \A q \in Requests : reqPax'[q] = IF q = r THEN tx[s].pid ELSE reqPax[q]
      /\ \A u \in Trips : tripStatus'[u] = IF u = t /\ t = r THEN "assigned" ELSE tripStatus[u]
      /\ \A z \in Sessions : tx'[z] = IF z = s THEN Idle ELSE tx[z]
  BY ClaimCommit
<1>5. \A u \in Trips, f \in Employees :
          pax'[u][f] = IF tx[s].pid /\ u = t /\ f = e THEN "expected" ELSE pax[u][f]
  BY ClaimCommit
<1>6. \A q \in Requests : reqTrip[q] # NoTrip => reqTrip[q] \in Trips
  BY DEF TypeOK
<1>7. \A q \in Requests : (Past(q) \/ q = r => Past(q)')
  BY <1>1, <1>4 DEF Past
\* Nobody is on a trip named after a request that is open.
<1>8. t = r => \A q \in Requests : reqTrip[q] # t
  BY <1>1, <1>2 DEF RowsInv, Claimed, Past
<1>9. Claimed'
  <2>1. \A q \in Requests : reqPax'[q] => Past(q)' /\ pax'[reqTrip'[q]][Rider[q]] # Absent
    <3> SUFFICES ASSUME NEW q \in Requests, reqPax'[q]
                 PROVE  Past(q)' /\ pax'[reqTrip'[q]][Rider[q]] # Absent
      OBVIOUS
    <3>1. CASE q = r
      BY <1>1, <1>4, <1>5, <1>7, <3>1 DEF Absent
    <3>2. CASE q # r
      <4>1. reqPax[q] /\ reqTrip'[q] = reqTrip[q] /\ reqTrip[q] \in Trips /\ Rider[q] \in Employees
        BY <1>4, <3>2, DataAssumption DEF TypeOK
      <4>2. Past(q) /\ pax[reqTrip[q]][Rider[q]] # Absent
        BY <4>1 DEF RowsInv, Claimed
      <4> QED BY <1>5, <1>7, <4>1, <4>2 DEF Absent
    <3> QED BY <3>1, <3>2
  <2>2. \A q, u \in Requests : reqTrip'[q] = u => Past(u)'
    <3>1. \A u \in Requests : u = t => Past(u)'
      BY <1>1, <1>3, <1>7 DEF Aboard
    <3>2. \A q, u \in Requests : reqTrip[q] = u => Past(u)
      BY DEF RowsInv, Claimed
    <3> SUFFICES ASSUME NEW q \in Requests, NEW u \in Requests, reqTrip'[q] = u PROVE Past(u)'
      OBVIOUS
    <3>3. u = t \/ reqTrip[q] = u
      BY <1>4
    <3> QED BY <1>7, <3>1, <3>2, <3>3
  <2>3. \A u \in Requests : tripStatus'[u] # "none" => Past(u)'
    BY <1>1, <1>4, <1>7 DEF RowsInv, Claimed, Trips
  <2>4. \A u \in Trips, f \in Employees : pax'[u][f] # Absent => tripStatus'[u] # "none"
    BY <1>1, <1>3, <1>4, <1>5 DEF Aboard, RowsInv, Claimed
  <2> QED BY <2>1, <2>2, <2>3, <2>4 DEF Claimed, Past
<1>10. \A z \in Sessions : Writes(tx'[z]) => z # s /\ Writes(tx[z]) /\ tx'[z] = tx[z]
  BY <1>4 DEF Writes, Idle
<1>11. Handled'
  <2>1. \A z \in Sessions : tx'[z].at \in ClaimPoints \ {"claimed"} => (Aboard(tx[z]))'
    <3> SUFFICES ASSUME NEW z \in Sessions, tx'[z].at \in ClaimPoints \ {"claimed"}
                 PROVE  Aboard(tx[z])'
      OBVIOUS
    <3>1. z # s /\ tx'[z] = tx[z]
      BY <1>4 DEF Idle
    <3>a. tx[z].trip \in Trips /\ tx[z].req \in Requests
      BY <3>1, TxFacts DEF HandlerOK
    <3>b. tx[z].req # r
      BY <1>1, <3>1 DEF ClaimInv
    <3>c. Aboard(tx[z])
      BY <3>1 DEF RowsInv, Handled
    <3>2. Aboard(tx[z]) /\ tx[z].trip \in Trips /\ tx[z].req \in Requests /\ tx[z].req # r
      BY <3>a, <3>b, <3>c
    <3>3. tx[z].trip # tx[z].req => tripStatus'[tx[z].trip] # "none"
      BY <1>4, <3>2 DEF Aboard
    <3> QED BY <1>7, <3>1, <3>2, <3>3 DEF Aboard, Past
  <2>2. \A z \in Sessions : tx'[z].at \in {"seated", "counted"} /\ tx'[z].pid =>
            pax'[tx'[z].trip][Rider[tx'[z].req]] = Absent
    <3> SUFFICES ASSUME NEW z \in Sessions, tx'[z].at \in {"seated", "counted"}, tx'[z].pid
                 PROVE  pax'[tx'[z].trip][Rider[tx'[z].req]] = Absent
      OBVIOUS
    <3>1. z # s /\ tx'[z] = tx[z]
      BY <1>4 DEF Idle
    <3>a. tx[z].at \in {"seated", "counted"} /\ tx[z].pid
      BY <3>1
    <3>b. tx[z].trip \in Trips /\ tx[z].req \in Requests
      BY <3>a, TxFacts DEF HandlerOK
    <3>c. pax[tx[z].trip][Rider[tx[z].req]] = Absent
      BY <3>a DEF RowsInv, Handled
    <3>2. /\ pax[tx[z].trip][Rider[tx[z].req]] = Absent
          /\ tx[z].trip \in Trips /\ Rider[tx[z].req] \in Employees
      BY <3>b, <3>c, DataAssumption
    <3>d. Writes(tx[z]) /\ (tx[s].pid => Writes(tx[s]))
      BY <1>1, <3>a DEF Writes
    <3>3. ~ (tx[s].pid /\ tx[z].trip = t /\ Rider[tx[z].req] = e)
      BY <3>1, <3>d DEF RowsInv, Handled
    <3> QED BY <1>5, <3>1, <3>2, <3>3
  <2>3. \A z \in Sessions : tx'[z].at \in CancelPoints /\ tx'[z].pid =>
            reqPax'[tx'[z].req] /\ reqTrip'[tx'[z].req] = tx'[z].trip
    <3> SUFFICES ASSUME NEW z \in Sessions, tx'[z].at \in CancelPoints, tx'[z].pid
                 PROVE  reqPax'[tx'[z].req] /\ reqTrip'[tx'[z].req] = tx'[z].trip
      OBVIOUS
    <3>1. z # s /\ tx'[z] = tx[z]
      BY <1>4 DEF Idle
    <3>2. /\ reqPax[tx[z].req] /\ reqTrip[tx[z].req] = tx[z].trip
          /\ tx[z].req \in Requests
      BY <3>1, TxFacts DEF RowsInv, Handled, HandlerOK
    <3> QED BY <1>2, <1>4, <3>1, <3>2
  <2>4. \A s1, s2 \in Sessions :
            /\ Writes(tx'[s1]) /\ Writes(tx'[s2])
            /\ tx'[s1].trip = tx'[s2].trip
            /\ Rider[tx'[s1].req] = Rider[tx'[s2].req]
            => s1 = s2
    BY <1>10 DEF RowsInv, Handled
  <2> QED BY <2>1, <2>2, <2>3, <2>4 DEF Handled, Writes
<1>12. OneRequestPerRow'
  <2> SUFFICES ASSUME NEW r1 \in Requests, NEW r2 \in Requests, reqPax'[r1], reqPax'[r2],
                      reqTrip'[r1] = reqTrip'[r2], Rider[r1] = Rider[r2]
               PROVE  r1 = r2
    BY DEF OneRequestPerRow
  <2>1. ASSUME NEW q \in Requests, q # r, reqPax[q], reqTrip[q] = t, Rider[q] = e, tx[s].pid
        PROVE  FALSE
    BY <1>3, <2>1 DEF RowsInv, Claimed
  <2> QED BY <1>1, <1>4, <2>1 DEF RowsInv, OneRequestPerRow
<1> QED
  BY <1>9, <1>11, <1>12 DEF RowsInv

\* What a cancellation's commit writes.
LEMMA CancelCommit ==
    ASSUME TypeOK, NEW s \in Sessions, FinishCancel(s)
    PROVE  LET r == tx[s].req
               t == tx[s].trip
               e == Rider[r]
               removes == tx[s].at = "recounted"
           IN  /\ tx[s].at \in {"recounted", "cancelling"} /\ r \in Requests /\ e \in Employees
               /\ removes => t \in Trips /\ tx[s].pid
               /\ \A q \in Requests : reqStatus'[q] = IF q = r THEN "cancelled" ELSE reqStatus[q]
               /\ \A z \in Sessions : tx'[z] = IF z = s THEN Idle ELSE tx[z]
               /\ UNCHANGED <<claimedBy, reqTrip, reqPax, tripStatus, tripDriver>>
               /\ \A u \in Trips, f \in Employees :
                      pax'[u][f] = IF removes /\ u = t /\ f = e THEN "removed" ELSE pax[u][f]
<1> DEFINE r == tx[s].req
           t == tx[s].trip
           e == Rider[r]
           removes == tx[s].at = "recounted"
<1> USE DEF ClaimPoints, CancelPoints
<1>1. /\ tx[s].at \in {"recounted", "cancelling"} /\ r \in Requests /\ e \in Employees
      /\ removes => t \in Trips /\ tx[s].pid
  BY TxFacts, DataAssumption DEF FinishCancel, HandlerOK, TxRecord
<1>2. /\ \A q \in Requests : reqStatus'[q] = IF q = r THEN "cancelled" ELSE reqStatus[q]
      /\ \A z \in Sessions : tx'[z] = IF z = s THEN Idle ELSE tx[z]
      /\ UNCHANGED <<claimedBy, reqTrip, reqPax, tripStatus, tripDriver>>
  BY <1>1 DEF FinishCancel, TypeOK
<1>3. \A u \in Trips, f \in Employees :
          pax'[u][f] = IF removes /\ u = t /\ f = e THEN "removed" ELSE pax[u][f]
  <2>1. CASE removes
    <3>1. ManifestSeen(s) = [pax[t] EXCEPT ![e] = "removed"]
      BY <1>1, <2>1 DEF ManifestSeen, HoldsRow
    <3>2. pax' = [pax EXCEPT ![t] = ManifestSeen(s)]
      BY <2>1 DEF FinishCancel
    <3>3. pax \in [Trips -> [Employees -> PassengerStatus \cup {Absent}]]
      BY DEF TypeOK
    <3> QED BY <1>1, <2>1, <3>1, <3>2, <3>3
  <2>2. CASE ~ removes
    BY <1>1, <2>2 DEF FinishCancel
  <2> QED BY <2>1, <2>2
<1> QED
  BY <1>1, <1>2, <1>3

\* A cancellation's commit: the row it removes is the one its request put there.
LEMMA RowsFinishCancel ==
    ASSUME TypeOK, RowsInv, NEW s \in Sessions, FinishCancel(s)
    PROVE  RowsInv'
<1> DEFINE r == tx[s].req
           t == tx[s].trip
           e == Rider[r]
           removes == tx[s].at = "recounted"
<1> USE DEF ClaimPoints, CancelPoints, Past
<1>1. /\ tx[s].at \in {"recounted", "cancelling"} /\ r \in Requests /\ e \in Employees
      /\ removes => t \in Trips /\ tx[s].pid
  BY CancelCommit
<1>2. removes => reqPax[r] /\ reqTrip[r] = t /\ pax[t][e] # Absent
  BY <1>1 DEF RowsInv, Handled, Claimed
<1>3. /\ \A q \in Requests : reqStatus'[q] = IF q = r THEN "cancelled" ELSE reqStatus[q]
      /\ \A z \in Sessions : tx'[z] = IF z = s THEN Idle ELSE tx[z]
      /\ UNCHANGED <<reqTrip, reqPax, tripStatus>>
  BY CancelCommit
<1>4. \A u \in Trips, f \in Employees :
          pax'[u][f] = IF removes /\ u = t /\ f = e THEN "removed" ELSE pax[u][f]
  BY CancelCommit
<1>5. \A q \in Requests : Past(q) => Past(q)'
  BY <1>3
<1>6. Claimed'
  <2>1. \A q \in Requests : reqPax'[q] => Past(q)' /\ pax'[reqTrip'[q]][Rider[q]] # Absent
    <3> SUFFICES ASSUME NEW q \in Requests, reqPax'[q]
                 PROVE  Past(q)' /\ pax'[reqTrip'[q]][Rider[q]] # Absent
      OBVIOUS
    <3>1. reqPax[q] /\ reqTrip'[q] = reqTrip[q] /\ reqTrip[q] \in Trips /\ Rider[q] \in Employees
      BY <1>3, DataAssumption DEF TypeOK
    <3>2. Past(q) /\ pax[reqTrip[q]][Rider[q]] # Absent
      BY <3>1 DEF RowsInv, Claimed
    <3> QED BY <1>4, <1>5, <3>1, <3>2 DEF Absent
  <2>2. \A q, u \in Requests : reqTrip'[q] = u => Past(u)'
    BY <1>3, <1>5 DEF RowsInv, Claimed
  <2>3. \A u \in Requests : tripStatus'[u] # "none" => Past(u)'
    BY <1>3, <1>5 DEF RowsInv, Claimed
  <2>4. \A u \in Trips, f \in Employees : pax'[u][f] # Absent => tripStatus'[u] # "none"
    BY <1>2, <1>3, <1>4 DEF RowsInv, Claimed
  <2> QED BY <2>1, <2>2, <2>3, <2>4 DEF Claimed
<1>7. \A z \in Sessions : tx'[z].at # "idle" => z # s /\ tx'[z] = tx[z]
  BY <1>3 DEF Idle
<1>8. Handled'
  <2>1. \A z \in Sessions : tx'[z].at \in ClaimPoints \ {"claimed"} => Aboard(tx[z])'
    <3> SUFFICES ASSUME NEW z \in Sessions, tx'[z].at \in ClaimPoints \ {"claimed"}
                 PROVE  Aboard(tx[z])'
      OBVIOUS
    <3>1. tx'[z] = tx[z]
      BY <1>7
    <3>2. Aboard(tx[z])
      BY <3>1 DEF RowsInv, Handled
    <3> QED BY <1>3, <1>5, <3>1, <3>2 DEF Aboard
  <2>2. \A z \in Sessions : tx'[z].at \in {"seated", "counted"} /\ tx'[z].pid =>
            pax'[tx'[z].trip][Rider[tx'[z].req]] = Absent
    <3> SUFFICES ASSUME NEW z \in Sessions, tx'[z].at \in {"seated", "counted"}, tx'[z].pid
                 PROVE  pax'[tx'[z].trip][Rider[tx'[z].req]] = Absent
      OBVIOUS
    <3>1. tx'[z] = tx[z] /\ tx[z].at \in {"seated", "counted"} /\ tx[z].pid
      BY <1>7
    <3>2. tx[z].trip \in Trips /\ tx[z].req \in Requests
      BY <3>1, TxFacts DEF HandlerOK
    <3>3. pax[tx[z].trip][Rider[tx[z].req]] = Absent
      BY <3>1 DEF RowsInv, Handled
    <3>4. ~ (removes /\ tx[z].trip = t /\ Rider[tx[z].req] = e)
      BY <1>2, <3>3
    <3> QED BY <1>4, <3>1, <3>2, <3>3, <3>4, DataAssumption
  <2>3. \A z \in Sessions : tx'[z].at \in CancelPoints /\ tx'[z].pid =>
            reqPax'[tx'[z].req] /\ reqTrip'[tx'[z].req] = tx'[z].trip
    BY <1>3, <1>7 DEF RowsInv, Handled
  <2>4. \A s1, s2 \in Sessions :
            /\ Writes(tx'[s1]) /\ Writes(tx'[s2])
            /\ tx'[s1].trip = tx'[s2].trip
            /\ Rider[tx'[s1].req] = Rider[tx'[s2].req]
            => s1 = s2
    BY <1>7 DEF RowsInv, Handled, Writes
  <2> QED BY <2>1, <2>2, <2>3, <2>4 DEF Handled, Writes
<1>9. OneRequestPerRow'
  BY <1>3 DEF RowsInv, OneRequestPerRow
<1> QED
  BY <1>6, <1>8, <1>9 DEF RowsInv

LEMMA RowsStep == TypeOK /\ ClaimInv /\ RowsInv /\ [Next]_vars => RowsInv'
<1> SUFFICES ASSUME TypeOK, ClaimInv, RowsInv, [Next]_vars PROVE RowsInv'
  OBVIOUS
<1>1. ASSUME NEW r \in Requests, Create(r) PROVE RowsInv'
  <2>1. /\ \A q \in Requests : reqStatus'[q] = IF q = r THEN "open" ELSE reqStatus[q]
        /\ reqStatus[r] = "none"
        /\ UNCHANGED <<claimedBy, reqTrip, reqPax, tripStatus, tripDriver, pax, tx>>
    BY <1>1 DEF Create, TypeOK
  <2>2. \A q \in Requests : Past(q) => Past(q)'
    BY <2>1 DEF Past
  <2>3. Claimed'
    BY <2>1, <2>2 DEF RowsInv, Claimed
  <2>4. \A s \in Sessions : Aboard(tx[s]) => Aboard(tx[s])'
    BY <2>1, <2>2 DEF Aboard
  <2>5. Handled'
    BY <2>1, <2>4 DEF RowsInv, Handled, Writes
  <2>6. OneRequestPerRow'
    BY <2>1 DEF RowsInv, OneRequestPerRow
  <2> QED BY <2>3, <2>5, <2>6 DEF RowsInv
<1>2. ASSUME NEW s \in Sessions,
             \/ \E r \in Requests, d \in Drivers : ClaimTake(s, r, d)
             \/ \E r \in Requests, manager \in BOOLEAN : CancelRead(s, r, manager)
             \/ Advance(s)
             \/ Abort(s)
      PROVE  RowsInv'
  BY <1>2, RowsStatement, RowsFinishClaim, RowsFinishCancel DEF Advance
<1>3. CASE UNCHANGED vars
  BY <1>3 DEF vars, RowsInv, Claimed, Handled, OneRequestPerRow, Past, Aboard,
              Writes
<1> QED
  BY <1>1, <1>2, <1>3 DEF Next

LEMMA RowsInit == Init => RowsInv
<1> SUFFICES ASSUME Init PROVE RowsInv
  OBVIOUS
<1>1. Claimed
  BY NamesAssumption DEF Init, Claimed, Past, Trips
<1>2. Handled
  BY DEF Init, Handled, Idle, Writes, ClaimPoints, CancelPoints
<1>3. OneRequestPerRow
  BY DEF Init, OneRequestPerRow
<1> QED
  BY <1>1, <1>2, <1>3 DEF RowsInv

-----------------------------------------------------------------------------
(* Who drives the riders.                                                  *)

\* A claim's trip is its own, or one of its driver's for the request's slot.
Driven(x) ==
    x.trip # x.req => tripDriver[x.trip] = x.by /\ TripSlot(x.trip) = SlotOf[x.req]

\* Nobody but a claim gives a trip a driver here: see DailyCommute for who else does.
DrivenInv ==
    /\ \A s \in Sessions : tx[s].at \in ClaimPoints \ {"claimed"} => Driven(tx[s])
    /\ RowsBacked

BackingInv == RowsInv /\ DrivenInv

\* The steps that write no table.
LEMMA DrivenStatement ==
    ASSUME TypeOK, DrivenInv, NEW s \in Sessions,
           \/ \E r \in Requests, d \in Drivers : ClaimTake(s, r, d)
           \/ \E r \in Requests, manager \in BOOLEAN : CancelRead(s, r, manager)
           \/ FindTrip(s) \/ CheckCapacity(s) \/ RejectFull(s) \/ AddRider(s) \/ Recount(s)
           \/ CancelRemove(s) \/ CancelRecount(s) \/ Abort(s)
    PROVE  DrivenInv'
<1> USE DEF ClaimPoints, CancelPoints
<1>1. UNCHANGED tables /\ \A z \in Sessions : z # s => tx'[z] = tx[z]
  BY DEF TypeOK, ClaimTake, CancelRead, FindTrip, CheckCapacity, RejectFull, AddRider, Recount,
         CancelRemove, CancelRecount, Abort
<1>2. tx[s] \in TxRecord /\ HandlerOK(tx[s])
  BY TxFacts
<1>3. tx'[s].at \in ClaimPoints \ {"claimed"} =>
          \/ FindTrip(s)
          \/ /\ tx[s].at \in ClaimPoints \ {"claimed"}
             /\ tx'[s].trip = tx[s].trip /\ tx'[s].req = tx[s].req /\ tx'[s].by = tx[s].by
  <2>1. CASE \/ \E r \in Requests, d \in Drivers : ClaimTake(s, r, d)
             \/ \E r \in Requests, manager \in BOOLEAN : CancelRead(s, r, manager)
    BY <2>1 DEF TypeOK, Idle, ClaimTake, CancelRead
  <2>2. CASE CheckCapacity(s) \/ AddRider(s) \/ Recount(s)
    BY <1>2, <2>2 DEF TypeOK, TxRecord, CheckCapacity, AddRider, Recount
  <2>3. CASE RejectFull(s) \/ CancelRemove(s) \/ CancelRecount(s) \/ Abort(s)
    BY <1>2, <2>3 DEF TypeOK, TxRecord, Idle, RejectFull, CancelRemove, CancelRecount, Abort
  <2> QED BY <2>1, <2>2, <2>3
<1>4. ASSUME FindTrip(s)
      PROVE  \/ tx'[s].trip = tx'[s].req
             \/ tripDriver[tx'[s].trip] = tx'[s].by /\ TripSlot(tx'[s].trip) = SlotOf[tx'[s].req]
  <2>1. PICK u \in Trips : /\ tx' = [tx EXCEPT ![s].at = "found", ![s].trip = u]
                           /\ u = tx[s].req \/ u \in OpenTrips(tx[s].by, SlotOf[tx[s].req])
    BY <1>2, <1>4 DEF FindTrip, Trips, OpenTrips, HandlerOK
  <2>2. tx'[s].trip = u /\ tx'[s].req = tx[s].req /\ tx'[s].by = tx[s].by
    BY <1>2, <2>1 DEF TypeOK, TxRecord
  <2> QED BY <2>1, <2>2 DEF OpenTrips
<1>5. tx'[s].at \in ClaimPoints \ {"claimed"} =>
          (tx'[s].trip # tx'[s].req =>
              tripDriver[tx'[s].trip] = tx'[s].by /\ TripSlot(tx'[s].trip) = SlotOf[tx'[s].req])
  BY <1>3, <1>4 DEF DrivenInv, Driven
<1>6. \A z \in Sessions : tx'[z].at \in ClaimPoints \ {"claimed"} => Driven(tx[z])'
  BY <1>1, <1>5 DEF DrivenInv, Driven, TripSlot, tables
<1>7. RowsBacked'
  BY <1>1 DEF DrivenInv, RowsBacked, TripSlot, tables
<1> QED
  BY <1>6, <1>7 DEF DrivenInv

LEMMA DrivenFinishClaim ==
    ASSUME TypeOK, ClaimInv, BackingInv, NEW s \in Sessions, FinishClaim(s)
    PROVE  DrivenInv'
<1> DEFINE r == tx[s].req
           t == tx[s].trip
           e == Rider[r]
<1> USE DEF ClaimPoints, CancelPoints, Past
<1>1. /\ tx[s].at = "counted" /\ r \in Requests /\ t \in Trips /\ e \in Employees
      /\ tx[s].pid \in BOOLEAN /\ tx[s].by \in Drivers
  BY ClaimCommit
<1>2. reqStatus[r] = "open" /\ ~ reqPax[r]
  BY <1>1 DEF ClaimInv, BackingInv, RowsInv, Claimed, Past
<1>3. Driven(tx[s])
  BY <1>1 DEF BackingInv, DrivenInv
<1>4. /\ \A q \in Requests : reqStatus'[q] = IF q = r THEN "assigned" ELSE reqStatus[q]
      /\ \A q \in Requests : claimedBy'[q] = IF q = r THEN tx[s].by ELSE claimedBy[q]
      /\ \A q \in Requests : reqTrip'[q] = IF q = r THEN t ELSE reqTrip[q]
      /\ \A q \in Requests : reqPax'[q] = IF q = r THEN tx[s].pid ELSE reqPax[q]
      /\ \A u \in Trips : tripDriver'[u] = IF u = t /\ t = r THEN tx[s].by ELSE tripDriver[u]
      /\ \A z \in Sessions : tx'[z] = IF z = s THEN Idle ELSE tx[z]
  BY ClaimCommit
<1>5. \A u \in Trips, f \in Employees :
          pax'[u][f] = IF tx[s].pid /\ u = t /\ f = e THEN "expected" ELSE pax[u][f]
  BY ClaimCommit
\* Nobody is on a trip named after a request that is open.
<1>8. t = r => \A q \in Requests : reqTrip[q] # t
  BY <1>1, <1>2 DEF BackingInv, RowsInv, Claimed, Past
<1>9. \A z \in Sessions : tx'[z].at \in ClaimPoints \ {"claimed"} => (Driven(tx[z]))'
  <2> SUFFICES ASSUME NEW z \in Sessions, tx'[z].at \in ClaimPoints \ {"claimed"}
               PROVE  Driven(tx[z])'
    OBVIOUS
  <2>1. z # s /\ tx'[z] = tx[z]
    BY <1>4 DEF Idle
  <2>2. Driven(tx[z]) /\ Aboard(tx[z])
    BY <2>1 DEF BackingInv, RowsInv, Handled, DrivenInv
  <2>3. tx[z].trip \in Trips /\ tx[z].req \in Requests
    BY <2>1, TxFacts DEF HandlerOK
  <2>4. tx[z].trip # tx[z].req => tripDriver'[tx[z].trip] = tripDriver[tx[z].trip]
    BY <1>1, <1>2, <1>4, <2>2, <2>3 DEF Aboard, Past
  <2> QED BY <2>1, <2>2, <2>4 DEF Driven, TripSlot
<1>10. RowsBacked'
  <2> SUFFICES ASSUME NEW u \in Trips, NEW f \in Employees, pax'[u][f] # Absent
               PROVE  \E q \in Requests : /\ Rider[q] = f
                                          /\ reqTrip'[q] = u
                                          /\ reqPax'[q]
                                          /\ claimedBy'[q] = tripDriver'[u]
                                          /\ TripSlot(u) = SlotOf[q]
                                          /\ pax'[u][f] = "removed" => reqStatus'[q] = "cancelled"
    BY DEF RowsBacked, TripSlot
  <2>1. CASE tx[s].pid /\ u = t /\ f = e
    <3>1. claimedBy'[r] = tripDriver'[t] /\ TripSlot(t) = SlotOf[r]
      BY <1>1, <1>3, <1>4, NamesAssumption DEF Driven, TripSlot
    <3> QED BY <1>1, <1>4, <1>5, <2>1, <3>1
  <2>2. CASE ~ (tx[s].pid /\ u = t /\ f = e)
    <3>1. pax'[u][f] = pax[u][f]
      BY <1>5, <2>2
    <3>2. PICK q \in Requests : /\ Rider[q] = f
                                /\ reqTrip[q] = u
                                /\ reqPax[q]
                                /\ claimedBy[q] = tripDriver[u]
                                /\ TripSlot(u) = SlotOf[q]
                                /\ pax[u][f] = "removed" => reqStatus[q] = "cancelled"
      BY <3>1 DEF BackingInv, DrivenInv, RowsBacked
    <3>3. q # r /\ tripDriver'[u] = tripDriver[u]
      BY <1>2, <1>4, <1>8, <3>2
    <3> QED BY <1>4, <3>1, <3>2, <3>3
  <2> QED BY <2>1, <2>2
<1> QED
  BY <1>9, <1>10 DEF DrivenInv

LEMMA DrivenFinishCancel ==
    ASSUME TypeOK, BackingInv, NEW s \in Sessions, FinishCancel(s)
    PROVE  DrivenInv'
<1> DEFINE r == tx[s].req
           t == tx[s].trip
           e == Rider[r]
           removes == tx[s].at = "recounted"
<1> USE DEF ClaimPoints, CancelPoints
<1>1. /\ tx[s].at \in {"recounted", "cancelling"} /\ r \in Requests /\ e \in Employees
      /\ removes => t \in Trips /\ tx[s].pid
  BY CancelCommit
<1>2. removes => reqPax[r] /\ reqTrip[r] = t /\ pax[t][e] # Absent
  BY <1>1 DEF BackingInv, RowsInv, Handled, Claimed
<1>3. /\ \A q \in Requests : reqStatus'[q] = IF q = r THEN "cancelled" ELSE reqStatus[q]
      /\ \A z \in Sessions : tx'[z] = IF z = s THEN Idle ELSE tx[z]
      /\ UNCHANGED <<claimedBy, reqTrip, reqPax, tripStatus, tripDriver>>
  BY CancelCommit
<1>4. \A u \in Trips, f \in Employees :
          pax'[u][f] = IF removes /\ u = t /\ f = e THEN "removed" ELSE pax[u][f]
  BY CancelCommit
<1>5. \A z \in Sessions : tx'[z].at \in ClaimPoints \ {"claimed"} => Driven(tx[z])'
  BY <1>3 DEF Idle, BackingInv, DrivenInv, Driven, TripSlot
<1>10. RowsBacked'
  <2> SUFFICES ASSUME NEW u \in Trips, NEW f \in Employees, pax'[u][f] # Absent
               PROVE  \E q \in Requests : /\ Rider[q] = f
                                          /\ reqTrip'[q] = u
                                          /\ reqPax'[q]
                                          /\ claimedBy'[q] = tripDriver'[u]
                                          /\ TripSlot(u) = SlotOf[q]
                                          /\ pax'[u][f] = "removed" => reqStatus'[q] = "cancelled"
    BY DEF RowsBacked, TripSlot
  <2>1. pax[u][f] # Absent
    BY <1>2, <1>4
  <2>2. PICK q \in Requests : /\ Rider[q] = f
                              /\ reqTrip[q] = u
                              /\ reqPax[q]
                              /\ claimedBy[q] = tripDriver[u]
                              /\ TripSlot(u) = SlotOf[q]
                              /\ pax[u][f] = "removed" => reqStatus[q] = "cancelled"
    BY <2>1 DEF BackingInv, DrivenInv, RowsBacked
  <2>3. removes /\ u = t /\ f = e => q = r
    BY <1>1, <1>2, <2>2 DEF BackingInv, RowsInv, OneRequestPerRow
  <2> QED BY <1>3, <1>4, <2>2, <2>3
<1> QED
  BY <1>5, <1>10 DEF DrivenInv

LEMMA DrivenStep == TypeOK /\ ClaimInv /\ BackingInv /\ [Next]_vars => DrivenInv'
<1> SUFFICES ASSUME TypeOK, ClaimInv, BackingInv, [Next]_vars PROVE DrivenInv'
  OBVIOUS
<1>1. ASSUME UNCHANGED <<claimedBy, reqTrip, reqPax, tripDriver, pax, tx>>,
             \A q \in Requests : reqStatus[q] = "cancelled" => reqStatus'[q] = "cancelled"
      PROVE  DrivenInv'
  BY <1>1 DEF BackingInv, DrivenInv, Driven, RowsBacked, TripSlot
<1>2. ASSUME NEW r \in Requests, Create(r) PROVE DrivenInv'
  BY <1>1, <1>2 DEF Create, TypeOK
<1>3. ASSUME NEW s \in Sessions,
             \/ \E r \in Requests, d \in Drivers : ClaimTake(s, r, d)
             \/ \E r \in Requests, manager \in BOOLEAN : CancelRead(s, r, manager)
             \/ Advance(s)
             \/ Abort(s)
      PROVE  DrivenInv'
  BY <1>3, DrivenStatement, DrivenFinishClaim, DrivenFinishCancel DEF Advance, BackingInv
<1>4. CASE UNCHANGED vars
  BY <1>1, <1>4 DEF vars
<1> QED
  BY <1>2, <1>3, <1>4 DEF Next

LEMMA DrivenInit == Init => DrivenInv
BY DEF Init, DrivenInv, RowsBacked, Idle, ClaimPoints

LEMMA Backed == Spec => []BackingInv
<1>1. Init => BackingInv
  BY RowsInit, DrivenInit DEF BackingInv
<1>2. TypeOK /\ ClaimInv /\ BackingInv /\ [Next]_vars => BackingInv'
  BY RowsStep, DrivenStep DEF BackingInv
<1> QED BY <1>1, <1>2, TypeInit, TypeStep, ClaimInit, ClaimStep, PTL DEF Spec

(* A manifest row belongs to one request: the loser of an INSERT knows, and *)
(* cancelling his request leaves the winner's row alone.                    *)
THEOREM OwnsItsRow == Spec => []OneRequestPerRow
<1>1. BackingInv => OneRequestPerRow
  BY DEF BackingInv, RowsInv
<1> QED BY <1>1, Backed, PTL

(* Who is on a manifest was put there by a request that the trip's driver   *)
(* claimed for the trip's slot, and who was removed, by its cancellation.   *)
THEOREM EveryRowIsBacked == Spec => []RowsBacked
<1>1. BackingInv => RowsBacked
  BY DEF BackingInv, DrivenInv
<1> QED BY <1>1, Backed, PTL
-----------------------------------------------------------------------------
(* The daily commute: types.                                               *)

\* What an arrive, depart or assign handler has read.
VisitRecord == [at : {"idle", "arrive", "depart"}, stop : Stops \cup {NoStop}, wait : Nat]
DispatchRecord == [at : {"idle", "read", "checked"}, trip : Trips \cup {NoTrip},
                   vehicle : Vehicles \cup {NoVehicle}, driver : Drivers \cup {NoDriver}]

Visiting(x) == x.at # "idle" => x.stop \in Stops
Dispatching(x) ==
    x.at # "idle" => x.trip \in Trips /\ x.vehicle \in Vehicles /\ x.driver \in Drivers

CommuteTyped ==
    /\ CommuteTypeOK
    /\ visit \in [Sessions -> VisitRecord]
    /\ \A s \in Sessions : Visiting(visit[s])
    /\ dispatch \in [Sessions -> DispatchRecord]
    /\ \A s \in Sessions : Dispatching(dispatch[s])
    /\ ended \in [Trips -> BOOLEAN]
    /\ events \in [Trips -> SUBSET {"started", "completed"}]

LEMMA RequestsAreNotPlanned == Requests = Trips \ Planned
BY NamesAssumption DEF Trips

\* What the handlers of RideRequests do to a manifest row.
LEMMA RideMove ==
    ASSUME TypeOK, ClaimInv, RowsInv, [Next]_vars, NEW t \in Trips, NEW e \in Employees
    PROVE  \/ pax'[t][e] = pax[t][e]
           \/ pax[t][e] = Absent /\ pax'[t][e] = "expected"
           \/ /\ pax[t][e] # Absent /\ pax'[t][e] = "removed"
              /\ \E r \in Requests : /\ reqPax[r] /\ reqTrip[r] = t /\ Rider[r] = e
                                     /\ reqStatus[r] # "none" /\ reqStatus'[r] = "cancelled"
<1> USE DEF ClaimPoints, CancelPoints
<1>1. ASSUME NEW s \in Sessions, FinishClaim(s)
      PROVE  \/ pax'[t][e] = pax[t][e]
             \/ pax[t][e] = Absent /\ pax'[t][e] = "expected"
  <2>1. /\ tx[s].at = "counted"
        /\ pax'[t][e] = IF tx[s].pid /\ t = tx[s].trip /\ e = Rider[tx[s].req]
                        THEN "expected" ELSE pax[t][e]
    BY <1>1, ClaimCommit
  <2>2. tx[s].pid => pax[tx[s].trip][Rider[tx[s].req]] = Absent
    BY <2>1 DEF RowsInv, Handled
  <2> QED BY <2>1, <2>2
<1>2. ASSUME NEW s \in Sessions, FinishCancel(s), pax'[t][e] # pax[t][e]
      PROVE  /\ pax[t][e] # Absent /\ pax'[t][e] = "removed"
             /\ \E r \in Requests : /\ reqPax[r] /\ reqTrip[r] = t /\ Rider[r] = e
                                    /\ reqStatus[r] # "none" /\ reqStatus'[r] = "cancelled"
  <2> DEFINE r == tx[s].req
  <2>1. /\ tx[s].at = "recounted" /\ tx[s].pid /\ t = tx[s].trip /\ e = Rider[r]
        /\ r \in Requests /\ reqStatus'[r] = "cancelled" /\ pax'[t][e] = "removed"
    BY <1>2, CancelCommit
  <2>2. reqPax[r] /\ reqTrip[r] = t /\ pax[t][e] # Absent
    BY <2>1 DEF RowsInv, Handled, Claimed
  <2>3. reqStatus[r] # "none"
    BY <2>1 DEF ClaimInv
  <2> QED BY <2>1, <2>2, <2>3
<1>3. ASSUME UNCHANGED tables PROVE pax' = pax
  BY <1>3 DEF tables
<1>4. CASE UNCHANGED vars
  BY <1>4 DEF vars
<1> QED
  BY <1>1, <1>2, <1>3, <1>4
     DEF Next, Advance, Create, ClaimTake, FindTrip, CheckCapacity, RejectFull, AddRider,
         Recount, CancelRead, CancelRemove, CancelRecount, Abort

\* What they do to a trip: a claim that found none inserts one, with its driver.
LEMMA RideTrip ==
    ASSUME TypeOK, ClaimInv, RowsInv, [Next]_vars, NEW t \in Trips
    PROVE  \/ tripStatus'[t] = tripStatus[t] /\ tripDriver'[t] = tripDriver[t]
           \/ tripStatus[t] = "none" /\ tripStatus'[t] = "assigned" /\ tripDriver'[t] \in Drivers
<1>1. ASSUME NEW s \in Sessions, FinishClaim(s)
      PROVE  \/ tripStatus'[t] = tripStatus[t] /\ tripDriver'[t] = tripDriver[t]
             \/ tripStatus[t] = "none" /\ tripStatus'[t] = "assigned" /\ tripDriver'[t] \in Drivers
  <2> DEFINE r == tx[s].req
             u == tx[s].trip
  <2>1. /\ tx[s].at = "counted" /\ r \in Requests /\ tx[s].by \in Drivers
        /\ tripStatus'[t] = IF t = u /\ u = r THEN "assigned" ELSE tripStatus[t]
        /\ tripDriver'[t] = IF t = u /\ u = r THEN tx[s].by ELSE tripDriver[t]
    BY <1>1, ClaimCommit
  <2>2. tripStatus[r] = "none"
    BY <2>1 DEF ClaimInv, ClaimPoints, RowsInv, Claimed, Past
  <2> QED BY <2>1, <2>2
<1>2. ASSUME UNCHANGED tables PROVE tripStatus' = tripStatus /\ tripDriver' = tripDriver
  BY <1>2 DEF tables
<1>3. CASE UNCHANGED vars
  BY <1>3 DEF vars
<1> QED
  BY <1>1, <1>2, <1>3
     DEF Next, Advance, Create, ClaimTake, FindTrip, CheckCapacity, RejectFull, AddRider,
         Recount, CancelRead, CancelRemove, CancelRecount, FinishCancel, Abort

\* What the manifest's handlers do to a row: nobody's row is taken away, a new
\* one is on a trip that exists, and a no-show is queued a push.
LEMMA ManifestMove ==
    ASSUME CommuteTyped, ManifestStep, NEW t \in Trips, NEW e \in Employees
    PROVE  /\ pax'[t][e] \in PassengerStatus \cup {Absent}
           /\ pax[t][e] # Absent => pax'[t][e] # Absent
           /\ pax[t][e] = Absent /\ pax'[t][e] # Absent => tripStatus[t] # "none"
           /\ LegalMove(t, e)
           /\ /\ pax'[t][e] = "no_show" /\ pax[t][e] # "no_show" /\ e \in HasUser
              => [code |-> "no_show", trip |-> t, to |-> e] \in outbox'
<1> USE DEF PassengerStatus, Awaited, Absent
<1>0. pax \in [Trips -> [Employees -> PassengerStatus \cup {Absent}]]
  BY DEF CommuteTyped, CommuteTypeOK, TypeOK
<1>1. pax[t][e] = Absent /\ pax'[t][e] # Absent => tripStatus[t] # "none"
  BY DEF ManifestStep, ForeignKeys
<1>2. CASE pax'[t][e] = pax[t][e]
  BY <1>0, <1>1, <1>2 DEF LegalMove
<1>3. CASE pax'[t][e] # pax[t][e]
  <2>1. ASSUME NEW u \in Trips, NEW f \in Employees, NEW k \in Stops \cup {NoStop},
               M!AddPassenger(u, f, k)
        PROVE  pax[t][e] = Absent /\ pax'[t][e] = "expected"
    BY <1>0, <1>3, <2>1 DEF M!AddPassenger, M!Absent
  <2>2. ASSUME NEW u \in Trips, NEW f \in Employees, M!Board(u, f)
        PROVE  pax[t][e] \in Awaited /\ pax'[t][e] = "boarded"
    BY <1>0, <1>3, <2>2 DEF M!Board, M!Awaited
  <2>3. ASSUME NEW u \in Trips, NEW f \in Employees, M!OnTheWay(u, f)
        PROVE  pax[t][e] = "expected" /\ pax'[t][e] = "on_the_way"
    BY <1>0, <1>3, <2>3 DEF M!OnTheWay
  <2>4. ASSUME NEW u \in Trips, NEW f \in Employees, NEW st \in Corrections,
               M!SetStatus(u, f, st)
        PROVE  /\ pax[t][e] \notin {Absent, "boarded"}
               /\ pax'[t][e] \in {"excused", "on_leave", "removed", "expected"}
    BY <1>0, <1>3, <2>4, CommuteAssumption DEF M!SetStatus, M!Absent
  <2>5. ASSUME NEW s \in Sessions, M!Depart(s)
        PROVE  /\ pax[t][e] \in Awaited /\ pax'[t][e] = "no_show"
               /\ e \in HasUser => [code |-> "no_show", trip |-> t, to |-> e] \in outbox'
    <3> DEFINE k == visit[s].stop
    <3>1. t = TripOf[k] /\ e \in M!WaitingAt(k) /\ pax'[t][e] = "no_show"
      <4>1. pax' = [pax EXCEPT ![TripOf[k]] = [f \in Employees |->
                       IF f \in M!WaitingAt(k) THEN "no_show" ELSE pax[TripOf[k]][f]]]
        BY <2>5 DEF M!Depart
      <4> QED BY <1>0, <1>3, <4>1
    <3>2. pax[t][e] \in Awaited
      BY <3>1 DEF M!WaitingAt, M!Awaited
    <3>3. outbox' = outbox \cup M!Pushes("no_show", t, M!WaitingAt(k))
      BY <2>5, <3>1 DEF M!Depart
    <3>4. e \in HasUser =>
              [code |-> "no_show", trip |-> t, to |-> e] \in M!Pushes("no_show", t, M!WaitingAt(k))
      <4> HIDE DEF k
      <4> QED BY <3>1 DEF M!Pushes
    <3> QED BY <3>1, <3>2, <3>3, <3>4
  <2>6. \/ \E u \in Trips, f \in Employees :
               \/ \E k \in Stops \cup {NoStop} : M!AddPassenger(u, f, k)
               \/ M!Board(u, f) \/ M!OnTheWay(u, f)
               \/ \E st \in Corrections : M!SetStatus(u, f, st)
        \/ \E s \in Sessions : M!Depart(s)
    BY <1>3 DEF ManifestStep, M!Next, M!SetPolicy, M!AddStop, M!CountdownEnds, M!VisitStop,
                M!Arrive, M!GiveUp
  <2>7. CASE pax[t][e] = Absent /\ pax'[t][e] = "expected"
    BY <1>1, <2>7 DEF LegalMove
  <2>8. CASE pax[t][e] \in Awaited /\ pax'[t][e] = "boarded"
    BY <1>1, <2>8 DEF LegalMove
  <2>9. CASE pax[t][e] = "expected" /\ pax'[t][e] = "on_the_way"
    BY <1>1, <2>9 DEF LegalMove
  <2>10. CASE /\ pax[t][e] \notin {Absent, "boarded"}
              /\ pax'[t][e] \in {"excused", "on_leave", "removed", "expected"}
    BY <1>1, <2>10 DEF LegalMove
  <2>11. CASE /\ pax[t][e] \in Awaited /\ pax'[t][e] = "no_show"
              /\ e \in HasUser => [code |-> "no_show", trip |-> t, to |-> e] \in outbox'
    BY <1>1, <2>11 DEF LegalMove
  <2> QED BY <2>1, <2>2, <2>3, <2>4, <2>5, <2>6, <2>7, <2>8, <2>9, <2>10, <2>11
<1> QED
  BY <1>2, <1>3

\* No push is taken back.
LEMMA PushesStay == ManifestStep => outbox \subseteq outbox'
BY DEF ManifestStep, M!Next, M!SetPolicy, M!AddStop, M!AddPassenger, M!Board, M!OnTheWay,
       M!SetStatus, M!VisitStop, M!Arrive, M!Depart, M!GiveUp, M!CountdownEnds

\* What the lifecycle's handlers do to a trip.
LEMMA LifecycleMove ==
    ASSUME CommuteTyped, LifecycleStep, NEW t \in Trips
    PROVE  \/ /\ tripStatus'[t] = tripStatus[t] /\ tripDriver'[t] = tripDriver[t]
              /\ ended'[t] = ended[t] /\ events'[t] = events[t]
           \/ /\ tripStatus[t] = "none" /\ tripStatus'[t] = "scheduled"
              /\ tripDriver'[t] = tripDriver[t]
              /\ ended'[t] = ended[t] /\ events'[t] = events[t]
           \/ /\ tripStatus'[t] = "assigned" /\ tripDriver'[t] \in Drivers
              /\ \E s \in Sessions : dispatch[s].at = "checked" /\ dispatch[s].trip = t
              /\ ended'[t] = ended[t] /\ events'[t] = events[t]
           \/ /\ tripStatus[t] = "assigned" /\ tripStatus'[t] = "started"
              /\ tripDriver'[t] = tripDriver[t]
              /\ ended'[t] = ended[t] /\ events'[t] = events[t] \cup {"started"}
           \/ /\ tripStatus[t] \in {"started", "in_progress"} /\ tripStatus'[t] = "completed"
              /\ tripDriver'[t] = tripDriver[t]
              /\ ended'[t] = TRUE /\ events'[t] = events[t] \cup {"completed"}
<1>0. /\ tripStatus \in [Trips -> TripStatus \cup {"none"}]
      /\ tripDriver \in [Trips -> Drivers \cup {NoDriver}]
      /\ ended \in [Trips -> BOOLEAN]
      /\ events \in [Trips -> SUBSET {"started", "completed"}]
      /\ \A s \in Sessions : Dispatching(dispatch[s])
  BY DEF CommuteTyped, CommuteTypeOK, TypeOK
<1>1. ASSUME NEW u \in Trips, NEW n \in Booked, L!CreateTrip(u, n)
      PROVE  /\ tripStatus'[t] = tripStatus[t] \/ (tripStatus[t] = "none" /\ tripStatus'[t] = "scheduled")
             /\ UNCHANGED <<tripDriver, ended, events>>
  BY <1>0, <1>1 DEF L!CreateTrip
<1>2. ASSUME NEW u \in Trips, L!Start(u)
      PROVE  /\ UNCHANGED <<tripDriver, ended>>
             /\ \/ tripStatus'[t] = tripStatus[t] /\ events'[t] = events[t]
                \/ /\ tripStatus[t] = "assigned" /\ tripStatus'[t] = "started"
                   /\ events'[t] = events[t] \cup {"started"}
  BY <1>0, <1>2 DEF L!Start
<1>3. ASSUME NEW u \in Trips, L!Complete(u)
      PROVE  /\ UNCHANGED tripDriver
             /\ \/ tripStatus'[t] = tripStatus[t] /\ events'[t] = events[t] /\ ended'[t] = ended[t]
                \/ /\ tripStatus[t] \in {"started", "in_progress"} /\ tripStatus'[t] = "completed"
                   /\ ended'[t] = TRUE /\ events'[t] = events[t] \cup {"completed"}
  BY <1>0, <1>3 DEF L!Complete
<1>4. ASSUME NEW s \in Sessions, L!AssignWrite(s)
      PROVE  /\ UNCHANGED <<ended, events>>
             /\ \/ tripStatus'[t] = tripStatus[t] /\ tripDriver'[t] = tripDriver[t]
                \/ /\ tripStatus'[t] = "assigned" /\ tripDriver'[t] \in Drivers
                   /\ dispatch[s].at = "checked" /\ dispatch[s].trip = t
  BY <1>0, <1>4 DEF L!AssignWrite, Dispatching
<1>5. \/ \E u \in Trips : (\E n \in Booked : L!CreateTrip(u, n)) \/ L!Start(u) \/ L!Complete(u)
      \/ \E s \in Sessions : L!AssignWrite(s)
      \/ UNCHANGED <<tripStatus, tripDriver, ended, events>>
  BY DEF LifecycleStep, L!Next, L!VerifyDriver, L!AssignRead, L!AssignCheckDriver, L!AssignFail
<1>6. CASE UNCHANGED <<tripStatus, tripDriver, ended, events>>
  BY <1>6
<1> QED
  BY <1>1, <1>2, <1>3, <1>4, <1>5, <1>6

\* The steps of the three components keep the commute's own tables well typed.
LEMMA RideTyped ==
    ASSUME CommuteTyped, ClaimInv, RowsInv, RideStep
    PROVE  CommuteTyped'
<1>1. TypeOK' /\ RowsInv'
  BY TypeStep, RowsStep DEF CommuteTyped, CommuteTypeOK, RideStep
<1>2. UNCHANGED <<manifestOnly, lifecycleOnly>>
  BY DEF RideStep
<1>3. \A t \in Trips : tripStatus'[t] = "none" => \A e \in Employees : pax'[t][e] = Absent
  BY <1>1 DEF RowsInv, Claimed
<1> QED
  BY <1>1, <1>2, <1>3 DEF CommuteTyped, CommuteTypeOK, Visiting, Dispatching, manifestOnly,
                          lifecycleOnly

LEMMA ManifestTyped ==
    ASSUME CommuteTyped, ManifestStep
    PROVE  CommuteTyped'
<1> USE DEF CommuteTyped, CommuteTypeOK
<1>1. UNCHANGED <<reqStatus, offered, claimedBy, reqTrip, reqPax, tripStatus, tripDriver,
                  seatsTaken, tx, tripVehicle, ended, events, verified, dispatch>>
  BY DEF ManifestStep, lifecycleOnly
<1>2. pax' \in [Trips -> [Employees -> PassengerStatus \cup {Absent}]]
  <2>1. pax \in [Trips -> [Employees -> PassengerStatus \cup {Absent}]]
    BY DEF TypeOK
  <2>2. CASE pax' = pax
    BY <2>1, <2>2
  <2>3. ASSUME NEW u \in Trips, NEW f \in Employees, NEW st, pax' = [pax EXCEPT ![u][f] = st]
        PROVE  pax' \in [Trips -> [Employees -> PassengerStatus \cup {Absent}]]
    <3>1. pax'[u][f] = st
      BY <2>1, <2>3
    <3>2. st \in PassengerStatus \cup {Absent}
      BY <3>1, ManifestMove
    <3> QED BY <2>1, <2>3, <3>2
  <2>4. ASSUME NEW s \in Sessions, M!Depart(s)
        PROVE  pax' \in [Trips -> [Employees -> PassengerStatus \cup {Absent}]]
    <3> DEFINE u == TripOf[visit[s].stop]
               row == [e \in Employees |->
                          IF e \in M!WaitingAt(visit[s].stop) THEN "no_show" ELSE pax[u][e]]
    <3>1. u \in Trips
      BY <2>4, CommuteAssumption DEF M!Depart, Visiting
    <3>2. row \in [Employees -> PassengerStatus \cup {Absent}]
      BY <2>1, <3>1 DEF PassengerStatus
    <3>3. pax' = [pax EXCEPT ![u] = row]
      BY <2>4 DEF M!Depart
    <3> HIDE DEF row
    <3> QED BY <2>1, <3>2, <3>3
  <2>5. \/ \E u \in Trips, f \in Employees, st \in Corrections \cup PassengerStatus :
               pax' = [pax EXCEPT ![u][f] = st]
        \/ \E s \in Sessions : M!Depart(s)
        \/ pax' = pax
    BY DEF ManifestStep, M!Next, M!SetPolicy, M!AddStop, M!AddPassenger, M!Board, M!OnTheWay,
           M!SetStatus, M!VisitStop, M!Arrive, M!GiveUp, M!CountdownEnds, PassengerStatus
  <2> QED BY <2>2, <2>3, <2>4, <2>5
<1>3. \A t \in Trips : tripStatus'[t] = "none" => \A e \in Employees : pax'[t][e] = Absent
  BY <1>1, ManifestMove
<1>4. TypeOK'
  BY <1>1, <1>2 DEF TypeOK, HandlerOK
<1>5. /\ policyWait' \in Waits \cup {NoWait}
      /\ paxStop' \in [Trips -> [Employees -> Stops \cup {NoStop}]]
      /\ stopStatus' \in [Stops -> {"none", "pending", "arrived", "departed"}]
  <2>1. ASSUME NEW s \in Sessions, M!Arrive(s) \/ M!Depart(s) PROVE visit[s].stop \in Stops
    BY <2>1 DEF M!Arrive, M!Depart, Visiting
  <2>2. policyWait' \in Waits \cup {NoWait}
    BY DEF ManifestStep, M!Next, M!SetPolicy, M!AddStop, M!AddPassenger, M!Board, M!OnTheWay,
           M!SetStatus, M!VisitStop, M!Arrive, M!Depart, M!GiveUp, M!CountdownEnds
  <2>3. \/ \E t \in Trips, e \in Employees, k \in Stops \cup {NoStop} :
               paxStop' = [paxStop EXCEPT ![t][e] = k]
        \/ paxStop' = paxStop
    BY DEF ManifestStep, M!Next, M!SetPolicy, M!AddStop, M!AddPassenger, M!Board, M!OnTheWay,
           M!SetStatus, M!VisitStop, M!Arrive, M!Depart, M!GiveUp, M!CountdownEnds
  <2>4. \/ \E k \in Stops, st \in {"pending", "arrived", "departed"} :
               stopStatus' = [stopStatus EXCEPT ![k] = st]
        \/ stopStatus' = stopStatus
    BY <2>1 DEF ManifestStep, M!Next, M!SetPolicy, M!AddStop, M!AddPassenger, M!Board,
           M!OnTheWay, M!SetStatus, M!VisitStop, M!Arrive, M!Depart, M!GiveUp, M!CountdownEnds
  <2>5. paxStop' \in [Trips -> [Employees -> Stops \cup {NoStop}]]
    <3>1. paxStop \in [Trips -> [Employees -> Stops \cup {NoStop}]]
      OBVIOUS
    <3>2. ASSUME NEW t \in Trips, NEW e \in Employees, NEW k \in Stops \cup {NoStop},
                 paxStop' = [paxStop EXCEPT ![t][e] = k]
          PROVE  paxStop' \in [Trips -> [Employees -> Stops \cup {NoStop}]]
      BY <3>1, <3>2
    <3> QED BY <2>3, <3>1, <3>2
  <2>6. stopStatus' \in [Stops -> {"none", "pending", "arrived", "departed"}]
    BY <2>4
  <2> QED BY <2>2, <2>5, <2>6
<1>6. countdown' \in [Stops -> {"none", "running", "over"}]
  BY DEF ManifestStep, M!Next, M!SetPolicy, M!AddStop, M!AddPassenger, M!Board, M!OnTheWay,
         M!SetStatus, M!VisitStop, M!Arrive, M!Depart, M!GiveUp, M!CountdownEnds
<1>7. outbox' \subseteq [code : {"bus_arrived", "no_show"}, trip : Trips, to : HasUser]
  <2>1. ASSUME NEW s \in Sessions, M!Arrive(s) \/ M!Depart(s)
        PROVE  outbox' \subseteq [code : {"bus_arrived", "no_show"}, trip : Trips, to : HasUser]
    <3>1. TripOf[visit[s].stop] \in Trips
      BY <2>1, CommuteAssumption DEF M!Arrive, M!Depart, Visiting
    <3>2. PICK c \in {"bus_arrived", "no_show"}, es \in SUBSET Employees :
              outbox' = outbox \cup M!Pushes(c, TripOf[visit[s].stop], es)
      <4>1. M!WaitingAt(visit[s].stop) \in SUBSET Employees
        BY DEF M!WaitingAt
      <4> QED BY <2>1, <4>1 DEF M!Arrive, M!Depart
    <3>3. M!Pushes(c, TripOf[visit[s].stop], es)
              \subseteq [code : {"bus_arrived", "no_show"}, trip : Trips, to : HasUser]
      BY <3>1 DEF M!Pushes
    <3> QED BY <3>2, <3>3
  <2>2. \/ \E s \in Sessions : M!Arrive(s) \/ M!Depart(s)
        \/ outbox' = outbox
    BY DEF ManifestStep, M!Next, M!SetPolicy, M!AddStop, M!AddPassenger, M!Board, M!OnTheWay,
           M!SetStatus, M!VisitStop, M!GiveUp, M!CountdownEnds
  <2> QED BY <2>1, <2>2
<1>8. visit' \in [Sessions -> VisitRecord] /\ \A s \in Sessions : Visiting(visit'[s])
  <2>1. ASSUME NEW s \in Sessions, NEW x, visit' = [visit EXCEPT ![s] = x],
               x \in VisitRecord, Visiting(x)
        PROVE  visit' \in [Sessions -> VisitRecord] /\ \A z \in Sessions : Visiting(visit'[z])
    BY <2>1
  <2>2. M!NoVisit \in VisitRecord /\ Visiting(M!NoVisit)
    BY DEF M!NoVisit, VisitRecord, Visiting
  <2>3. ASSUME NEW s \in Sessions, NEW k \in Stops, NEW kind \in {"arrive", "depart"},
               M!VisitStop(s, k, kind)
        PROVE  visit' \in [Sessions -> VisitRecord] /\ \A z \in Sessions : Visiting(visit'[z])
    <3> DEFINE x == [at |-> kind, stop |-> k, wait |-> M!EffectiveWait(TripOf[k])]
    <3>1. visit' = [visit EXCEPT ![s] = x]
      BY <2>3 DEF M!VisitStop
    <3>2. M!EffectiveWait(TripOf[k]) \in Nat
      BY CommuteAssumption DEF M!EffectiveWait
    <3>3. x \in VisitRecord /\ Visiting(x)
      BY <3>2 DEF VisitRecord, Visiting
    <3> HIDE DEF x
    <3> QED BY <2>1, <3>1, <3>3
  <2>4. ASSUME NEW s \in Sessions, M!Arrive(s) \/ M!Depart(s) \/ M!GiveUp(s)
        PROVE  visit' \in [Sessions -> VisitRecord] /\ \A z \in Sessions : Visiting(visit'[z])
    BY <2>1, <2>2, <2>4 DEF M!Arrive, M!Depart, M!GiveUp
  <2>5. CASE visit' = visit
    BY <2>5
  <2>6. \/ \E s \in Sessions :
               \/ \E k \in Stops, kind \in {"arrive", "depart"} : M!VisitStop(s, k, kind)
               \/ M!Arrive(s) \/ M!Depart(s) \/ M!GiveUp(s)
        \/ visit' = visit
    BY DEF ManifestStep, M!Next, M!SetPolicy, M!AddStop, M!AddPassenger, M!Board, M!OnTheWay,
           M!SetStatus, M!CountdownEnds
  <2> QED BY <2>3, <2>4, <2>5, <2>6
<1> QED
  BY <1>1, <1>3, <1>4, <1>5, <1>6, <1>7, <1>8 DEF Visiting, Dispatching

LEMMA LifecycleTyped ==
    ASSUME CommuteTyped, LifecycleStep
    PROVE  CommuteTyped'
<1> USE DEF CommuteTyped, CommuteTypeOK
<1>1. UNCHANGED <<reqStatus, offered, claimedBy, reqTrip, reqPax, pax, tx, paxStop, stopStatus,
                  countdown, policyWait, outbox, visit>>
  BY DEF LifecycleStep, manifestOnly
<1>2. tripStatus' \in [Trips -> TripStatus \cup {"none"}]
  <2>1. \/ \E t \in Trips, st \in {"scheduled", "assigned", "started", "completed"} :
               tripStatus' = [tripStatus EXCEPT ![t] = st]
        \/ tripStatus' = tripStatus
    <3>1. \A s \in Sessions : L!AssignWrite(s) => dispatch[s].trip \in Trips
      BY DEF L!AssignWrite, Dispatching
    <3> QED BY <3>1 DEF LifecycleStep, L!Next, L!CreateTrip, L!Start, L!Complete, L!VerifyDriver,
                        L!AssignRead, L!AssignCheckDriver, L!AssignWrite, L!AssignFail
  <2> QED BY <2>1 DEF TypeOK, TripStatus
<1>3. /\ tripDriver' \in [Trips -> Drivers \cup {NoDriver}]
      /\ tripVehicle' \in [Trips -> Vehicles \cup {NoVehicle}]
  <2>1. ASSUME NEW s \in Sessions, L!AssignWrite(s)
        PROVE  /\ dispatch[s].driver \in Drivers
               /\ dispatch[s].vehicle \in Vehicles
    BY <2>1 DEF L!AssignWrite, Dispatching
  <2>2. ASSUME NEW s \in Sessions, L!AssignWrite(s)
        PROVE  /\ tripDriver' \in [Trips -> Drivers \cup {NoDriver}]
               /\ tripVehicle' \in [Trips -> Vehicles \cup {NoVehicle}]
    BY <2>1, <2>2 DEF L!AssignWrite, TypeOK
  <2>3. (\E s \in Sessions : L!AssignWrite(s)) \/ UNCHANGED <<tripDriver, tripVehicle>>
    BY DEF LifecycleStep, L!Next, L!CreateTrip, L!Start, L!Complete, L!VerifyDriver,
           L!AssignRead, L!AssignCheckDriver, L!AssignFail
  <2> QED BY <2>2, <2>3 DEF TypeOK
<1>4. seatsTaken' \in [Trips -> Nat] /\ verified' \subseteq Drivers
  <2>1. (\E t \in Trips, n \in Nat : seatsTaken' = [seatsTaken EXCEPT ![t] = n])
        \/ seatsTaken' = seatsTaken
    BY CommuteAssumption
       DEF LifecycleStep, L!Next, L!CreateTrip, L!Start, L!Complete, L!VerifyDriver,
           L!AssignRead, L!AssignCheckDriver, L!AssignWrite, L!AssignFail
  <2>2. (\E d \in Drivers : verified' = verified \cup {d} \/ verified' = verified \ {d})
        \/ verified' = verified
    BY DEF LifecycleStep, L!Next, L!CreateTrip, L!Start, L!Complete, L!VerifyDriver,
           L!AssignRead, L!AssignCheckDriver, L!AssignWrite, L!AssignFail
  <2>3. seatsTaken' \in [Trips -> Nat]
    BY <2>1 DEF TypeOK
  <2>4. verified' \subseteq Drivers
    BY <2>2
  <2> QED BY <2>3, <2>4
<1>5. ended' \in [Trips -> BOOLEAN] /\ events' \in [Trips -> SUBSET {"started", "completed"}]
  <2>1. (\E t \in Trips : ended' = [ended EXCEPT ![t] = TRUE]) \/ ended' = ended
    BY DEF LifecycleStep, L!Next, L!CreateTrip, L!Start, L!Complete, L!VerifyDriver,
           L!AssignRead, L!AssignCheckDriver, L!AssignWrite, L!AssignFail
  <2>2. (\E t \in Trips, x \in {"started", "completed"} :
             events' = [events EXCEPT ![t] = @ \cup {x}]) \/ events' = events
    BY DEF LifecycleStep, L!Next, L!CreateTrip, L!Start, L!Complete, L!VerifyDriver,
           L!AssignRead, L!AssignCheckDriver, L!AssignWrite, L!AssignFail
  <2>3. ended' \in [Trips -> BOOLEAN]
    BY <2>1
  <2>4. events' \in [Trips -> SUBSET {"started", "completed"}]
    BY <2>2
  <2> QED BY <2>3, <2>4
<1>6. /\ dispatch' \in [Sessions -> DispatchRecord]
      /\ \A s \in Sessions : Dispatching(dispatch'[s])
  <2>1. ASSUME NEW s \in Sessions, NEW x, dispatch' = [dispatch EXCEPT ![s] = x],
               x \in DispatchRecord, Dispatching(x)
        PROVE  /\ dispatch' \in [Sessions -> DispatchRecord]
               /\ \A z \in Sessions : Dispatching(dispatch'[z])
    BY <2>1
  <2>2. L!NoDispatch \in DispatchRecord /\ Dispatching(L!NoDispatch)
    BY DEF L!NoDispatch, DispatchRecord, Dispatching
  <2>3. ASSUME NEW s \in Sessions, NEW t \in Trips, NEW v \in Vehicles, NEW d \in Drivers,
               L!AssignRead(s, t, v, d)
        PROVE  /\ dispatch' \in [Sessions -> DispatchRecord]
               /\ \A z \in Sessions : Dispatching(dispatch'[z])
    <3> DEFINE x == [at |-> "read", trip |-> t, vehicle |-> v, driver |-> d]
    <3>1. dispatch' = [dispatch EXCEPT ![s] = x] /\ x \in DispatchRecord /\ Dispatching(x)
      BY <2>3 DEF L!AssignRead, DispatchRecord, Dispatching
    <3> HIDE DEF x
    <3> QED BY <2>1, <3>1
  <2>4. ASSUME NEW s \in Sessions, L!AssignCheckDriver(s)
        PROVE  /\ dispatch' \in [Sessions -> DispatchRecord]
               /\ \A z \in Sessions : Dispatching(dispatch'[z])
    <3> DEFINE x == [dispatch[s] EXCEPT !.at = "checked"]
    <3>1. dispatch[s] \in DispatchRecord /\ Dispatching(dispatch[s])
      OBVIOUS
    <3>2. dispatch' = [dispatch EXCEPT ![s] = x] /\ dispatch[s].at = "read"
      BY <2>4 DEF L!AssignCheckDriver
    <3>3. x \in DispatchRecord /\ Dispatching(x)
      BY <3>1, <3>2 DEF DispatchRecord, Dispatching
    <3> HIDE DEF x
    <3> QED BY <2>1, <3>2, <3>3
  <2>5. ASSUME NEW s \in Sessions, L!AssignWrite(s) \/ L!AssignFail(s)
        PROVE  /\ dispatch' \in [Sessions -> DispatchRecord]
               /\ \A z \in Sessions : Dispatching(dispatch'[z])
    BY <2>1, <2>2, <2>5 DEF L!AssignWrite, L!AssignFail
  <2>6. CASE dispatch' = dispatch
    BY <2>6
  <2>7. \/ \E s \in Sessions :
               \/ \E t \in Trips, v \in Vehicles, d \in Drivers : L!AssignRead(s, t, v, d)
               \/ L!AssignCheckDriver(s) \/ L!AssignWrite(s) \/ L!AssignFail(s)
        \/ dispatch' = dispatch
    BY DEF LifecycleStep, L!Next, L!CreateTrip, L!Start, L!Complete, L!VerifyDriver
  <2> QED BY <2>3, <2>4, <2>5, <2>6, <2>7
<1>7. \A t \in Trips : tripStatus'[t] = "none" => \A e \in Employees : pax'[t][e] = Absent
  <2>1. \A t \in Trips : tripStatus'[t] = "none" => tripStatus[t] = "none"
    <3> SUFFICES ASSUME NEW t \in Trips, tripStatus'[t] = "none" PROVE tripStatus[t] = "none"
      OBVIOUS
    <3> HIDE DEF CommuteTyped, CommuteTypeOK
    <3> QED BY LifecycleMove
  <2> QED BY <1>1, <2>1
<1>8. TypeOK'
  <2>1. /\ reqStatus' \in [Requests -> {"none", "open", "assigned", "cancelled"}]
        /\ offered' \in [Requests -> SUBSET Drivers]
        /\ claimedBy' \in [Requests -> Drivers \cup {NoDriver}]
        /\ reqTrip' \in [Requests -> Trips \cup {NoTrip}]
        /\ reqPax' \in [Requests -> BOOLEAN]
        /\ pax' \in [Trips -> [Employees -> PassengerStatus \cup {Absent}]]
        /\ tx' \in [Sessions -> TxRecord]
        /\ \A r \in Requests : reqPax'[r] => reqTrip'[r] \in Trips
    BY <1>1 DEF TypeOK
  <2>2. \A s \in Sessions : HandlerOK(tx[s])'
    BY <1>1 DEF TypeOK, HandlerOK
  <2> QED BY <1>2, <1>3, <1>4, <2>1, <2>2 DEF TypeOK
<1> QED
  BY <1>1, <1>3, <1>4, <1>5, <1>6, <1>7, <1>8 DEF Visiting

LEMMA CommuteInitTyped == CommuteInit => CommuteTyped
<1> SUFFICES ASSUME CommuteInit PROVE CommuteTyped
  OBVIOUS
<1>1. TypeOK /\ tripStatus \in [Trips -> TripStatus \cup {"none"}]
  BY TypeInit DEF CommuteInit, TypeOK
<1>2. /\ paxStop \in [Trips -> [Employees -> Stops \cup {NoStop}]]
      /\ stopStatus \in [Stops -> {"none", "pending", "arrived", "departed"}]
      /\ countdown \in [Stops -> {"none", "running", "over"}]
      /\ policyWait \in Waits \cup {NoWait}
      /\ outbox \subseteq [code : {"bus_arrived", "no_show"}, trip : Trips, to : HasUser]
      /\ tripVehicle \in [Trips -> Vehicles \cup {NoVehicle}]
      /\ verified \subseteq Drivers
  BY DEF CommuteInit, M!Init
<1>6. \A t \in Trips : tripStatus[t] = "none" => \A e \in Employees : pax[t][e] = Absent
  BY DEF CommuteInit, Init
<1>3. visit \in [Sessions -> VisitRecord] /\ \A s \in Sessions : Visiting(visit[s])
  BY DEF CommuteInit, M!Init, M!NoVisit, VisitRecord, Visiting
<1>4. dispatch \in [Sessions -> DispatchRecord] /\ \A s \in Sessions : Dispatching(dispatch[s])
  BY DEF CommuteInit, L!NoDispatch, DispatchRecord, Dispatching
<1>5. ended \in [Trips -> BOOLEAN] /\ events \in [Trips -> SUBSET {"started", "completed"}]
  BY DEF CommuteInit
<1> QED
  BY <1>1, <1>2, <1>3, <1>4, <1>5, <1>6 DEF CommuteTyped, CommuteTypeOK

-----------------------------------------------------------------------------
(* The daily commute: what the three components rely on.                   *)

\* A step of another component keeps what the ride requests rely on: it takes
\* no row that a claim has written, and no trip away.
LEMMA RowsOthers ==
    ASSUME RowsInv,
           UNCHANGED <<reqStatus, reqTrip, reqPax, tx>>,
           \A t \in Trips, e \in Employees :
               /\ pax[t][e] # Absent => pax'[t][e] # Absent
               /\ pax[t][e] = Absent /\ pax'[t][e] # Absent => tripStatus[t] # "none",
           RowLocks,
           \A t \in Trips : tripStatus[t] # "none" => tripStatus'[t] # "none",
           \A t \in Requests : tripStatus[t] = "none" => tripStatus'[t] = "none",
           TypeOK
    PROVE  RowsInv'
<1> USE DEF ClaimPoints, CancelPoints
<1>1. Claimed'
  <2>1. \A r \in Requests : reqPax[r] => reqTrip[r] \in Trips /\ Rider[r] \in Employees
    BY DataAssumption DEF TypeOK
  <2>2. \A r \in Requests : Past(r)' <=> Past(r)
    BY DEF Past
  <2>3. \A r \in Requests : reqPax'[r] => Past(r)' /\ pax'[reqTrip'[r]][Rider[r]] # Absent
    BY <2>1, <2>2 DEF RowsInv, Claimed
  <2>4. \A t \in Trips, e \in Employees : pax'[t][e] # Absent => tripStatus'[t] # "none"
    BY DEF RowsInv, Claimed
  <2> QED BY <2>2, <2>3, <2>4 DEF RowsInv, Claimed
<1>2. Handled'
  <2>1. \A s \in Sessions : tx[s].at \in ClaimPoints \ {"claimed"} => Aboard(tx[s])'
    <3>1. \A s \in Sessions : tx[s].at \in ClaimPoints \ {"claimed"} => tx[s].trip \in Trips
      BY TxFacts DEF HandlerOK
    <3> QED BY <3>1 DEF RowsInv, Handled, Aboard, Past
  <2>2. \A s \in Sessions : tx[s].at \in {"seated", "counted"} /\ tx[s].pid =>
            pax'[tx[s].trip][Rider[tx[s].req]] = Absent
    <3> SUFFICES ASSUME NEW s \in Sessions, tx[s].at \in {"seated", "counted"}, tx[s].pid
                 PROVE  pax'[tx[s].trip][Rider[tx[s].req]] = Absent
      OBVIOUS
    <3>1. tx[s].trip \in Trips /\ Rider[tx[s].req] \in Employees
      BY TxFacts, DataAssumption DEF HandlerOK
    <3>2. HoldsRow(s, tx[s].trip, Rider[tx[s].req])
      BY DEF HoldsRow
    <3>3. pax[tx[s].trip][Rider[tx[s].req]] = Absent
      BY DEF RowsInv, Handled
    <3> QED BY <3>1, <3>2, <3>3 DEF RowLocks
  <2> QED BY <2>1, <2>2 DEF RowsInv, Handled, Writes
<1>3. OneRequestPerRow'
  BY DEF RowsInv, OneRequestPerRow
<1> QED
  BY <1>1, <1>2, <1>3 DEF RowsInv

\* What the event log holds of a trip under way.
Logged ==
    /\ \A t \in Trips : tripStatus[t] \in {"started", "in_progress"} => "started" \in events[t]
    /\ EventsComplete

(* The inductive invariant of the composition.  The ride requests' own      *)
(* invariants survive the other two components' steps because those wait    *)
(* for the rows a claim has written and never delete a row or a trip.       *)
CommuteInv ==
    /\ CommuteTyped
    /\ ClaimInv
    /\ RowsInv
    /\ NoShowTold
    /\ AssignedHasDriver
    /\ Logged

LEMMA CommuteInitInv == CommuteInit => CommuteInv
<1> SUFFICES ASSUME CommuteInit PROVE CommuteInv
  OBVIOUS
<1>1. CommuteTyped
  BY CommuteInitTyped
<1>2. ClaimInv /\ RowsInv
  BY ClaimInit, RowsInit DEF CommuteInit
<1>3. NoShowTold
  <2>1. \A t \in Trips, e \in Employees : pax[t][e] = Absent
    BY DEF CommuteInit, Init
  <2> QED BY <2>1, CommuteAssumption DEF NoShowTold, Absent
<1>4. AssignedHasDriver
  BY PlanAssumption DEF CommuteInit, Init, AssignedHasDriver
<1>5. Logged
  <2>1. \A t \in Trips :
            /\ ended[t] = (tripStatus[t] = "completed")
            /\ events[t] = IF tripStatus[t] = "completed" THEN {"started", "completed"}
                           ELSE IF tripStatus[t] \in {"started", "in_progress"} THEN {"started"}
                           ELSE {}
    BY DEF CommuteInit
  <2> QED BY <2>1 DEF Logged, EventsComplete
<1> QED
  BY <1>1, <1>2, <1>3, <1>4, <1>5 DEF CommuteInv

LEMMA RideInv == CommuteInv /\ RideStep => CommuteInv'
<1> SUFFICES ASSUME CommuteInv, RideStep PROVE CommuteInv'
  OBVIOUS
<1>0. TypeOK /\ ClaimInv /\ RowsInv /\ [Next]_vars /\ UNCHANGED <<outbox, ended, events>>
  BY DEF CommuteInv, CommuteTyped, CommuteTypeOK, RideStep, manifestOnly, lifecycleOnly
<1>1. CommuteTyped'
  BY RideTyped DEF CommuteInv
<1>2. ClaimInv' /\ RowsInv'
  BY <1>0, ClaimStep, RowsStep
<1>3. NoShowTold'
  <2> SUFFICES ASSUME NEW t \in Trips, NEW e \in HasUser, pax'[t][e] = "no_show"
               PROVE  [code |-> "no_show", trip |-> t, to |-> e] \in outbox'
    BY DEF NoShowTold
  <2>1. e \in Employees
    BY CommuteAssumption
  <2>2. pax[t][e] = "no_show"
    BY <1>0, <2>1, RideMove
  <2> QED BY <1>0, <2>2 DEF CommuteInv, NoShowTold
<1>4. AssignedHasDriver'
  <2> SUFFICES ASSUME NEW t \in Trips, tripStatus'[t] \notin {"none", "scheduled"}
               PROVE  tripDriver'[t] \in Drivers
    BY DEF AssignedHasDriver
  <2> QED BY <1>0, RideTrip DEF CommuteInv, AssignedHasDriver
<1>5. Logged'
  <2>1. \A t \in Trips : tripStatus'[t] = tripStatus[t] \/ tripStatus'[t] = "assigned"
    BY <1>0, RideTrip
  <2> QED BY <1>0, <2>1 DEF CommuteInv, Logged, EventsComplete
<1> QED
  BY <1>1, <1>2, <1>3, <1>4, <1>5 DEF CommuteInv

LEMMA ManifestInv == CommuteInv /\ ManifestStep => CommuteInv'
<1> SUFFICES ASSUME CommuteInv, ManifestStep PROVE CommuteInv'
  OBVIOUS
<1>0. UNCHANGED <<reqStatus, offered, reqTrip, reqPax, tripStatus, tripDriver, tx, ended, events>>
  BY DEF ManifestStep, lifecycleOnly
<1>1. CommuteTyped /\ CommuteTyped'
  BY ManifestTyped DEF CommuteInv
<1>2. ClaimInv'
  BY <1>0 DEF CommuteInv, ClaimInv
<1>3. RowsInv'
  <2>1. TypeOK /\ RowsInv /\ RowLocks
    BY DEF CommuteInv, CommuteTyped, CommuteTypeOK, ManifestStep
  <2>2. \A t \in Trips, e \in Employees :
            /\ pax[t][e] # Absent => pax'[t][e] # Absent
            /\ pax[t][e] = Absent /\ pax'[t][e] # Absent => tripStatus[t] # "none"
    BY <1>1, ManifestMove
  <2> QED BY <1>0, <2>1, <2>2, RowsOthers
<1>4. NoShowTold'
  <2> SUFFICES ASSUME NEW t \in Trips, NEW e \in HasUser, pax'[t][e] = "no_show"
               PROVE  [code |-> "no_show", trip |-> t, to |-> e] \in outbox'
    BY DEF NoShowTold
  <2>1. e \in Employees
    BY CommuteAssumption
  <2>2. CASE pax[t][e] = "no_show"
    BY <2>2, PushesStay DEF CommuteInv, NoShowTold
  <2>3. CASE pax[t][e] # "no_show"
    BY <1>1, <2>1, <2>3, ManifestMove
  <2> QED BY <2>2, <2>3
<1>5. AssignedHasDriver' /\ Logged'
  BY <1>0 DEF CommuteInv, AssignedHasDriver, Logged, EventsComplete
<1> QED
  BY <1>1, <1>2, <1>3, <1>4, <1>5 DEF CommuteInv

LEMMA LifecycleInv == CommuteInv /\ LifecycleStep => CommuteInv'
<1> SUFFICES ASSUME CommuteInv, LifecycleStep PROVE CommuteInv'
  OBVIOUS
<1>0. UNCHANGED <<reqStatus, offered, reqTrip, reqPax, pax, tx, outbox>>
  BY DEF LifecycleStep, manifestOnly
<1>1. CommuteTyped /\ CommuteTyped'
  BY LifecycleTyped DEF CommuteInv
<1>2. ClaimInv'
  BY <1>0 DEF CommuteInv, ClaimInv
<1>3. RowsInv'
  <2>1. TypeOK /\ RowsInv /\ RowLocks
    BY <1>0 DEF CommuteInv, CommuteTyped, CommuteTypeOK, RowLocks
  <2>2. \A t \in Trips : tripStatus[t] # "none" => tripStatus'[t] # "none"
    BY <1>1, LifecycleMove
  <2>3. \A t \in Requests : tripStatus[t] = "none" => tripStatus'[t] = "none"
    BY RequestsAreNotPlanned DEF LifecycleStep
  <2>4. \A t \in Trips, e \in Employees :
            /\ pax[t][e] # Absent => pax'[t][e] # Absent
            /\ pax[t][e] = Absent /\ pax'[t][e] # Absent => tripStatus[t] # "none"
    BY <1>0
  <2> QED BY <1>0, <2>1, <2>2, <2>3, <2>4, RowsOthers
<1>4. NoShowTold'
  BY <1>0 DEF CommuteInv, NoShowTold
<1>5. AssignedHasDriver'
  <2> SUFFICES ASSUME NEW t \in Trips, tripStatus'[t] \notin {"none", "scheduled"}
               PROVE  tripDriver'[t] \in Drivers
    BY DEF AssignedHasDriver
  <2> QED BY <1>1, LifecycleMove DEF CommuteInv, AssignedHasDriver
<1>6. Logged'
  <2> SUFFICES ASSUME NEW t \in Trips
               PROVE  /\ tripStatus'[t] \in {"started", "in_progress"} => "started" \in events'[t]
                      /\ tripStatus'[t] = "completed" \/ ended'[t] =>
                             {"started", "completed"} \subseteq events'[t]
    BY DEF Logged, EventsComplete
  <2>1. /\ tripStatus[t] \in {"started", "in_progress"} => "started" \in events[t]
        /\ tripStatus[t] = "completed" \/ ended[t] => {"started", "completed"} \subseteq events[t]
    BY DEF CommuteInv, Logged, EventsComplete
  <2> QED BY <1>1, <2>1, LifecycleMove
<1> QED
  BY <1>1, <1>2, <1>3, <1>4, <1>5, <1>6 DEF CommuteInv

LEMMA CommuteStutter == CommuteInv /\ UNCHANGED commuteVars => CommuteInv'
<1> SUFFICES ASSUME CommuteInv, UNCHANGED commuteVars PROVE CommuteInv'
  OBVIOUS
<1>1. /\ UNCHANGED vars /\ [Next]_vars
      /\ UNCHANGED <<reqStatus, offered, claimedBy, reqTrip, reqPax, tripStatus, tripDriver,
                     seatsTaken, pax, tx>>
      /\ UNCHANGED <<paxStop, stopStatus, countdown, policyWait, outbox, visit, tripVehicle,
                     ended, events, verified, dispatch>>
  BY DEF commuteVars, vars, manifestOnly, lifecycleOnly
<1>2. TypeOK' /\ ClaimInv' /\ RowsInv'
  BY <1>1, TypeStep, ClaimStep, RowsStep DEF CommuteInv, CommuteTyped, CommuteTypeOK
<1>3. CommuteTyped'
  BY <1>1, <1>2 DEF CommuteInv, CommuteTyped, CommuteTypeOK, Visiting, Dispatching
<1> QED
  BY <1>1, <1>2, <1>3 DEF CommuteInv, NoShowTold, AssignedHasDriver, Logged, EventsComplete

LEMMA CommuteHolds == CommuteSpec => []CommuteInv
<1>1. CommuteInv /\ [CommuteNext]_commuteVars => CommuteInv'
  BY RideInv, ManifestInv, LifecycleInv, CommuteStutter DEF CommuteNext
<1> QED BY <1>1, CommuteInitInv, PTL DEF CommuteSpec

(* The tables three components write stay well typed, and nobody is on the  *)
(* manifest of a trip that does not exist.                                  *)
THEOREM CommuteTypeCorrect == CommuteSpec => []CommuteTypeOK
<1>1. CommuteInv => CommuteTypeOK
  BY DEF CommuteInv, CommuteTyped
<1> QED BY <1>1, CommuteHolds, PTL

(* A no-show with an account has his push queued in the commit that makes   *)
(* him one, whatever the ride requests do to his row before and after.      *)
THEOREM NoShowIsTold == CommuteSpec => []NoShowTold
<1>1. CommuteInv => NoShowTold
  BY DEF CommuteInv
<1> QED BY <1>1, CommuteHolds, PTL

(* No trip leaves 'scheduled' without a driver, whether the dispatcher's    *)
(* assign or the insert of a claim takes it from there.                     *)
THEOREM AssignedIsDriven == CommuteSpec => []AssignedHasDriver
<1>1. CommuteInv => AssignedHasDriver
  BY DEF CommuteInv
<1> QED BY <1>1, CommuteHolds, PTL

(* A trip with an end has both its events, and keeps them through a late    *)
(* assign and the second start that may follow it.                          *)
THEOREM EventsAreComplete == CommuteSpec => []EventsComplete
<1>1. CommuteInv => EventsComplete
  BY DEF CommuteInv, Logged
<1> QED BY <1>1, CommuteHolds, PTL

(* Attendance: of all the writers of a row none makes a move but these; the *)
(* cancellation that takes a boarded rider off is that of his own request.  *)
THEOREM MovesAreLegal == CommuteSpec => LegalMoves
<1>1. CommuteInv /\ [CommuteNext]_commuteVars =>
          [\A t \in Trips, e \in Employees : LegalMove(t, e)]_commuteVars
  <2> SUFFICES ASSUME CommuteInv, [CommuteNext]_commuteVars, commuteVars' # commuteVars,
                      NEW t \in Trips, NEW e \in Employees
               PROVE  LegalMove(t, e)
    OBVIOUS
  <2>1. CommuteTyped /\ TypeOK /\ ClaimInv /\ RowsInv
    BY DEF CommuteInv, CommuteTyped, CommuteTypeOK
  <2>2. CASE RideStep
    <3>1. [Next]_vars
      BY <2>2 DEF RideStep
    <3>2. \/ pax'[t][e] = pax[t][e]
          \/ pax[t][e] = Absent /\ pax'[t][e] = "expected"
          \/ /\ pax[t][e] # Absent /\ pax'[t][e] = "removed"
             /\ \E r \in Requests : /\ reqPax[r] /\ reqTrip[r] = t /\ Rider[r] = e
                                    /\ reqStatus[r] # "none" /\ reqStatus'[r] = "cancelled"
      BY <2>1, <3>1, RideMove
    <3> QED BY <3>2 DEF LegalMove
  <2>3. CASE ManifestStep
    BY <2>1, <2>3, ManifestMove
  <2>4. CASE LifecycleStep
    BY <2>4 DEF LifecycleStep, LegalMove
  <2> QED BY <2>2, <2>3, <2>4 DEF CommuteNext
<1> QED BY <1>1, CommuteHolds, PTL DEF CommuteSpec, LegalMoves

(* A completed trip is reopened by nothing but the write of an assign that  *)
(* had read it before it was started.                                       *)
THEOREM OnlyAssignReopens == CommuteSpec => ReopenedByAssign
<1> DEFINE Reopened(t) ==
        tripStatus[t] = "completed" /\ tripStatus'[t] # "completed" =>
            /\ tripStatus'[t] = "assigned"
            /\ \E s \in Sessions : dispatch[s].at = "checked" /\ dispatch[s].trip = t
<1>1. CommuteInv /\ [CommuteNext]_commuteVars => [\A t \in Trips : Reopened(t)]_commuteVars
  <2> SUFFICES ASSUME CommuteInv, [CommuteNext]_commuteVars, commuteVars' # commuteVars,
                      NEW t \in Trips, tripStatus[t] = "completed", tripStatus'[t] # "completed"
               PROVE  /\ tripStatus'[t] = "assigned"
                      /\ \E s \in Sessions : dispatch[s].at = "checked" /\ dispatch[s].trip = t
    OBVIOUS
  <2>1. CommuteTyped /\ TypeOK /\ ClaimInv /\ RowsInv
    BY DEF CommuteInv, CommuteTyped, CommuteTypeOK
  <2>2. CASE RideStep
    <3>1. [Next]_vars
      BY <2>2 DEF RideStep
    <3> QED BY <2>1, <3>1, RideTrip
  <2>3. CASE ManifestStep
    BY <2>3 DEF ManifestStep
  <2>4. CASE LifecycleStep
    BY <2>1, <2>4, LifecycleMove
  <2> QED BY <2>2, <2>3, <2>4 DEF CommuteNext
<1> QED BY <1>1, CommuteHolds, PTL DEF CommuteSpec, ReopenedByAssign

(* The first driver still wins when drivers, dispatchers and attendance     *)
(* work on the same tables: the composition implements the board.           *)
THEOREM CommuteImplementsBoard == CommuteSpec => BoardSpec
<1>1. CommuteInit => Board!Init
  BY BoardInit DEF CommuteInit
<1>2. CommuteInv /\ [CommuteNext]_commuteVars => [Board!Next]_(Board!boardVars)
  <2> SUFFICES ASSUME CommuteInv, [CommuteNext]_commuteVars
               PROVE  [Board!Next]_(Board!boardVars)
    OBVIOUS
  <2>1. TypeOK /\ ClaimInv
    BY DEF CommuteInv, CommuteTyped, CommuteTypeOK
  <2>2. CASE RideStep
    <3>1. [Next]_vars
      BY <2>2 DEF RideStep
    <3> QED BY <2>1, <3>1, BoardStep
  <2>3. CASE ManifestStep \/ LifecycleStep \/ UNCHANGED commuteVars
    BY <2>3 DEF ManifestStep, LifecycleStep, commuteVars, vars, Board!boardVars
  <2> QED BY <2>2, <2>3 DEF CommuteNext
<1> QED BY <1>1, <1>2, CommuteHolds, PTL DEF CommuteSpec, BoardSpec, Board!Spec

(* A manifest row still belongs to one request when dispatchers add the     *)
(* rider by hand, trips are planned and completed and attendance rewrites   *)
(* the row between a claim's statements.                                    *)
THEOREM CommuteOwnsItsRow == CommuteSpec => []OneRequestPerRow
<1>1. CommuteInv => OneRequestPerRow
  BY DEF CommuteInv, RowsInv
<1> QED BY <1>1, CommuteHolds, PTL
=============================================================================
