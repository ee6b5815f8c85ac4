---------------------------- MODULE CompaniesProofs ----------------------------
(***************************************************************************)
(* Proofs about Companies, for any number of transactions, processes,       *)
(* requests and any time to live.  The audit trail: a transaction that is   *)
(* still open was open when every later one began (AlongInv), so that the   *)
(* one that overwrites a later one's row had overlapped it.  The flags: a   *)
(* cache in force that is not late shows the last toggle, or was loaded     *)
(* before it in another process (CacheInv).                                 *)
(***************************************************************************)
EXTENDS Companies, TLAPS

Began == {"begun", "looked", "wrote", "cleared", "committed"}

Transactions ==
    {NotBegun, Undone} \cup
    [at : Began, items : Requests, proc : Processes, seen : 0 .. MaxTx, along : SUBSET Numbers]

CompaniesTypeOK ==
    /\ FlagsTypeOK
    /\ tx \in [Numbers -> Transactions]
    /\ made \in [Items -> 0 .. MaxTx]
    /\ trail = {n \in Numbers : tx[n].at = "committed"}

\* They begin in the order of their numbers, and know who was open then.
AlongInv ==
    \A n \in Numbers : \A m \in Numbers :
        n < m =>
            /\ tx[n] = NotBegun => tx[m] = NotBegun
            /\ tx[m].at \in Began /\ Open(n) => n \in tx[m].along

\* A toggle about to commit finds the cache of its process empty or late.
ClearedInv ==
    \A n \in Numbers : \A p \in Processes :
        tx[n].at = "cleared" /\ tx[n].proc = p /\ Fresh(p) => cache[p].late = TRUE

\* A load that no toggle has overtaken shows the last one.
AskingInv ==
    \A a \in Asks : asking[a] # Idle /\ asking[a].over = FALSE => asking[a].by = made["flag"]

Outdated(p) == Fresh(p) /\ cache[p].late = FALSE /\ cache[p].by # made["flag"]

\* A cache that is not late and outdated is older than the toggle, elsewhere.
CacheInv ==
    \A p \in Processes :
        Outdated(p) =>
            /\ made["flag"] \in trail
            /\ since <= cache[p].age
            /\ p # tx[made["flag"]].proc

-----------------------------------------------------------------------------
(* What the actions do to a transaction.                                    *)

LEMMA Kinds ==
    ASSUME CompaniesTypeOK, NEW n \in Numbers
    PROVE  /\ tx[n] = NotBegun => tx[n].at = "none"
           /\ tx[n] = Undone => tx[n].at = "undone"
           /\ tx[n].at \in Began =>
                  tx[n] \in [at : Began, items : Requests, proc : Processes,
                             seen : 0 .. MaxTx, along : SUBSET Numbers]
           /\ tx[n].at \notin Began => tx[n] \in {NotBegun, Undone}
           /\ Open(n) => tx[n].at \in Began
           /\ tx[n].at \in Began => tx[n] \notin {NotBegun, Undone}
<1>1. tx[n] \in Transactions
  BY DEF CompaniesTypeOK
<1> QED
  BY <1>1 DEF Transactions, NotBegun, Undone, Began, Open

LEMMA TypeStep ==
    ASSUME CompaniesTypeOK, [CompaniesNext]_vars
    PROVE  CompaniesTypeOK'
<1> USE MaxTxAssumption, TTLAssumption
<1>1. CASE UNCHANGED vars
  BY <1>1 DEF CompaniesTypeOK, FlagsTypeOK, vars, flagVars, companyVars
<1>2. ASSUME NEW n \in Numbers, NEW items \in Requests, NEW p \in Processes, Begin(n, items, p)
      PROVE  CompaniesTypeOK'
  BY <1>2 DEF CompaniesTypeOK, FlagsTypeOK, flagVars, Begin, Transactions, Began, NotBegun, Numbers, Open
<1>3. ASSUME NEW n \in Numbers, Look(n)
      PROVE  CompaniesTypeOK'
  <2>1. tx[n] \in [at : Began, items : Requests, proc : Processes,
                   seen : 0 .. MaxTx, along : SUBSET Numbers]
    BY <1>3, Kinds DEF Look, Began
  <2>2. made["plan"] \in 0 .. MaxTx
    BY DEF CompaniesTypeOK, Items
  <2>3. tx' \in [Numbers -> Transactions]
    BY <1>3, <2>1, <2>2 DEF CompaniesTypeOK, Look, Transactions, Began
  <2>4. trail' = {m \in Numbers : tx'[m].at = "committed"}
    BY <1>3 DEF CompaniesTypeOK, Look
  <2> QED
    BY <1>3, <2>3, <2>4 DEF CompaniesTypeOK, FlagsTypeOK, flagVars, Look
<1>4. ASSUME NEW n \in Numbers, Write(n)
      PROVE  CompaniesTypeOK'
  <2>1. tx[n].at \in {"begun", "looked"}
    BY <1>4 DEF Write, Provisions, SetsStatus, SetsPlan, SetsFeature
  <2>2. tx[n] \in [at : Began, items : Requests, proc : Processes,
                   seen : 0 .. MaxTx, along : SUBSET Numbers]
    BY <2>1, Kinds DEF Began
  <2>3. tx' \in [Numbers -> Transactions]
    BY <1>4, <2>2 DEF CompaniesTypeOK, Write, Transactions, Began
  <2>4. trail' = {m \in Numbers : tx'[m].at = "committed"}
    BY <1>4, <2>1 DEF CompaniesTypeOK, Write
  <2> QED
    BY <1>4, <2>3, <2>4 DEF CompaniesTypeOK, FlagsTypeOK, flagVars, Write
<1>5. ASSUME NEW n \in Numbers, Invalidate(n)
      PROVE  CompaniesTypeOK'
  <2>1. tx[n].at = "wrote"
    BY <1>5 DEF Invalidate
  <2>2. tx[n] \in [at : Began, items : Requests, proc : Processes,
                   seen : 0 .. MaxTx, along : SUBSET Numbers]
    BY <2>1, Kinds DEF Began
  <2>3. tx' \in [Numbers -> Transactions]
    BY <1>5, <2>2 DEF CompaniesTypeOK, Invalidate, Transactions, Began
  <2>4. trail' = {m \in Numbers : tx'[m].at = "committed"}
    BY <1>5, <2>1 DEF CompaniesTypeOK, Invalidate
  <2>5. FlagsTypeOK'
    <3>1. Nothing \in [by : Nat, age : 0 .. TTL, late : BOOLEAN]
      BY DEF Nothing
    <3> QED
      BY <1>5, <3>1 DEF CompaniesTypeOK, FlagsTypeOK, Invalidate, Drop
  <2> QED
    BY <1>5, <2>3, <2>4, <2>5 DEF CompaniesTypeOK, Invalidate
<1>6. ASSUME NEW n \in Numbers, Commit(n)
      PROVE  CompaniesTypeOK'
  <2>1. tx[n].at \in {"cleared", "wrote"}
    BY <1>6 DEF Commit
  <2>2. tx[n] \in [at : Began, items : Requests, proc : Processes,
                   seen : 0 .. MaxTx, along : SUBSET Numbers]
    BY <2>1, Kinds DEF Began
  <2> DEFINE row == [tx[n] EXCEPT !.at = "committed", !.seen = 0]
  <2>7. row \in Transactions
    <3> DEFINE done == [tx[n] EXCEPT !.at = "committed"]
    <3>1. done \in [at : Began, items : Requests, proc : Processes,
                   seen : 0 .. MaxTx, along : SUBSET Numbers]
      BY <2>2 DEF Began
    <3>2. row = [done EXCEPT !.seen = 0]
      OBVIOUS
    <3> HIDE DEF done, row
    <3> QED
      BY <3>1, <3>2 DEF Transactions
  <2>8. tx' = [tx EXCEPT ![n] = row]
    BY <1>6, Zenon DEF Commit
  <2>3. tx' \in [Numbers -> Transactions]
    <3> HIDE DEF row
    <3> QED
      BY <2>7, <2>8 DEF CompaniesTypeOK
  <2>4. trail' = {m \in Numbers : tx'[m].at = "committed"}
    BY <1>6, <2>1, <2>2 DEF CompaniesTypeOK, Commit
  <2>5. made' \in [Items -> 0 .. MaxTx]
    BY <1>6 DEF CompaniesTypeOK, Commit, Numbers
  <2>6. FlagsTypeOK'
    <3>1. CASE UNCHANGED flagVars
      BY <3>1 DEF CompaniesTypeOK, FlagsTypeOK, flagVars
    <3>2. CASE Toggled
      <4>1. \A a \in Asks : asking'[a] \in {Idle} \cup
                [at : {"loading"}, proc : Processes, by : Nat, over : BOOLEAN]
        <5> SUFFICES ASSUME NEW a \in Asks
                     PROVE  asking'[a] \in {Idle} \cup
                                [at : {"loading"}, proc : Processes, by : Nat, over : BOOLEAN]
          OBVIOUS
        <5>1. CASE asking[a] = Idle
          BY <3>2, <5>1 DEF Toggled
        <5>2. CASE asking[a] # Idle
          BY <3>2, <5>2 DEF Toggled, CompaniesTypeOK, FlagsTypeOK
        <5> QED
          BY <5>1, <5>2
      <4>2. asking' = [a \in Asks |-> asking'[a]]
        BY <3>2 DEF Toggled
      <4> QED
        BY <3>2, <4>1, <4>2 DEF CompaniesTypeOK, FlagsTypeOK, Toggled
    <3> QED
      BY <1>6, <3>1, <3>2 DEF Commit
  <2> QED
    BY <2>3, <2>4, <2>5, <2>6 DEF CompaniesTypeOK
<1>7. ASSUME NEW n \in Numbers, Abort(n)
      PROVE  CompaniesTypeOK'
  <2>1. tx[n].at # "committed"
    BY <1>7 DEF Abort, Open
  <2> QED
    BY <1>7, <2>1 DEF CompaniesTypeOK, FlagsTypeOK, flagVars, Abort, Transactions, Undone
<1>8. ASSUME NEW p \in Processes, Restart(p)
      PROVE  CompaniesTypeOK'
  <2>1. FlagsTypeOK'
    BY <1>8 DEF CompaniesTypeOK, FlagsTypeOK, Restart, Forget, Nothing
  <2>2. tx' \in [Numbers -> Transactions]
    BY <1>8 DEF CompaniesTypeOK, Restart, Transactions
  <2>3. trail' = {m \in Numbers : tx'[m].at = "committed"}
    BY <1>8 DEF CompaniesTypeOK, Restart, Open, Undone
  <2> QED
    BY <1>8, <2>1, <2>2, <2>3 DEF CompaniesTypeOK, Restart
<1>9. ASSUME NEW a \in Asks, NEW p \in Processes, Load(a, p, made["flag"]), UNCHANGED companyVars
      PROVE  CompaniesTypeOK'
  <2>1. made["flag"] \in Nat
    BY DEF CompaniesTypeOK, Items
  <2> QED
    BY <1>9, <2>1 DEF CompaniesTypeOK, FlagsTypeOK, Load, companyVars
<1>10. ASSUME NEW a \in Asks, asking[a] # Idle, Fill(a, Toggling(asking[a].proc)), UNCHANGED companyVars
       PROVE  CompaniesTypeOK'
  <2>1. asking[a] \in [at : {"loading"}, proc : Processes, by : Nat, over : BOOLEAN]
    BY <1>10 DEF CompaniesTypeOK, FlagsTypeOK
  <2>2. Toggling(asking[a].proc) \in BOOLEAN
    BY DEF Toggling
  <2>3. (asking[a].over \/ Toggling(asking[a].proc)) \in BOOLEAN
    OBVIOUS
  <2> DEFINE row == [by |-> asking[a].by, age |-> 0,
                     late |-> asking[a].over \/ Toggling(asking[a].proc)]
  <2>4. row \in [by : Nat, age : 0 .. TTL, late : BOOLEAN]
    BY <2>1, <2>3
  <2>5. cache' = [cache EXCEPT ![asking[a].proc] = row]
    BY <1>10 DEF Fill
  <2> HIDE DEF row
  <2> QED
    BY <1>10, <2>4, <2>5 DEF CompaniesTypeOK, FlagsTypeOK, Fill, companyVars
<1>11. CASE Pass
  <2>1. cache' \in [Processes -> [by : Nat, age : 0 .. TTL, late : BOOLEAN]]
    BY <1>11 DEF Pass, Tick, Older, Nothing, CompaniesTypeOK, FlagsTypeOK
  <2>2. since' \in 0 .. TTL
    BY <1>11 DEF Pass, Tick, Older, CompaniesTypeOK, FlagsTypeOK
  <2> QED
    BY <1>11, <2>1, <2>2 DEF Pass, Tick, companyVars, CompaniesTypeOK, FlagsTypeOK
<1> QED
  BY <1>1, <1>2, <1>3, <1>4, <1>5, <1>6, <1>7, <1>8, <1>9, <1>10, <1>11
     DEF CompaniesNext, Operate, Ask


-----------------------------------------------------------------------------
(* The audit trail.                                                        *)

\* What every step leaves of the transactions that have begun.
TxSteps ==
    \A n \in Numbers :
        /\ tx[n] # NotBegun => tx'[n] # NotBegun
        /\ tx'[n].at \in Began /\ tx[n] # NotBegun =>
               /\ tx[n].at \in Began
               /\ tx'[n].items = tx[n].items
               /\ tx'[n].proc = tx[n].proc
               /\ tx'[n].along = tx[n].along
        /\ Open(n)' /\ tx[n] # NotBegun => Open(n)

LEMMA TxStep ==
    ASSUME CompaniesTypeOK, [CompaniesNext]_vars
    PROVE  TxSteps
<1>1. CASE UNCHANGED tx
  BY <1>1 DEF TxSteps, Open
<1>2. ASSUME NEW n \in Numbers, NEW items \in Requests, NEW p \in Processes, Begin(n, items, p)
      PROVE  TxSteps
  BY <1>2 DEF Begin, TxSteps, CompaniesTypeOK, NotBegun, Open
<1>3. ASSUME NEW n \in Numbers, Look(n) \/ Write(n) \/ Invalidate(n) \/ Commit(n)
      PROVE  TxSteps
  <2>1. tx[n].at \in Began /\ Open(n)
    BY <1>3 DEF Look, Write, Invalidate, Commit, Began, Open,
                Provisions, SetsStatus, SetsPlan, SetsFeature
  <2>2. tx[n] \in [at : Began, items : Requests, proc : Processes,
                   seen : 0 .. MaxTx, along : SUBSET Numbers]
    BY <2>1, Kinds
  <2>3. PICK row : /\ tx' = [tx EXCEPT ![n] = row]
                   /\ row.at \in Began /\ row.items = tx[n].items
                   /\ row.proc = tx[n].proc /\ row.along = tx[n].along
    <3>1. CASE Look(n)
      <4> WITNESS [[tx[n] EXCEPT !.at = "looked"] EXCEPT !.seen = made["plan"]]
      <4>1. tx' = [tx EXCEPT ![n] = [[tx[n] EXCEPT !.at = "looked"] EXCEPT !.seen = made["plan"]]]
        BY <3>1, Zenon DEF Look
      <4> QED
        BY <2>2, <4>1 DEF Began
    <3>2. CASE Write(n)
      <4> WITNESS [tx[n] EXCEPT !.at = "wrote"]
      <4>1. tx' = [tx EXCEPT ![n] = [tx[n] EXCEPT !.at = "wrote"]]
        BY <3>2, Zenon DEF Write
      <4> QED
        BY <2>2, <4>1 DEF Began
    <3>3. CASE Invalidate(n)
      <4> WITNESS [tx[n] EXCEPT !.at = "cleared"]
      <4>1. tx' = [tx EXCEPT ![n] = [tx[n] EXCEPT !.at = "cleared"]]
        BY <3>3, Zenon DEF Invalidate
      <4> QED
        BY <2>2, <4>1 DEF Began
    <3>4. CASE Commit(n)
      <4> WITNESS [[tx[n] EXCEPT !.at = "committed"] EXCEPT !.seen = 0]
      <4>1. tx' = [tx EXCEPT ![n] = [[tx[n] EXCEPT !.at = "committed"] EXCEPT !.seen = 0]]
        BY <3>4, Zenon DEF Commit
      <4> QED
        BY <2>2, <4>1 DEF Began
    <3> QED
      BY <1>3, <3>1, <3>2, <3>3, <3>4
  <2> QED
    BY <2>1, <2>3 DEF TxSteps, CompaniesTypeOK, Open, NotBegun, Began
<1>4. ASSUME NEW n \in Numbers, Abort(n)
      PROVE  TxSteps
  BY <1>4 DEF Abort, TxSteps, CompaniesTypeOK, Undone, NotBegun, Open, Began
<1>5. ASSUME NEW p \in Processes, Restart(p)
      PROVE  TxSteps
  BY <1>5 DEF Restart, TxSteps, CompaniesTypeOK, Undone, NotBegun, Open, Began
<1> QED
  BY <1>1, <1>2, <1>3, <1>4, <1>5 DEF CompaniesNext, Operate, Ask, Pass, vars, companyVars

LEMMA AlongStep ==
    ASSUME CompaniesTypeOK, AlongInv, [CompaniesNext]_vars
    PROVE  AlongInv'
<1>1. TxSteps /\ CompaniesTypeOK'
  BY TxStep, TypeStep
<1>2. CASE \A n \in Numbers : tx[n] = NotBegun => tx'[n] = NotBegun
  <2> SUFFICES ASSUME NEW n \in Numbers, NEW m \in Numbers, n < m
               PROVE  /\ tx'[n] = NotBegun => tx'[m] = NotBegun
                      /\ tx'[m].at \in Began /\ Open(n)' => n \in tx'[m].along
    BY DEF AlongInv
  <2>1. tx'[n] = NotBegun => tx'[m] = NotBegun
    BY <1>1, <1>2 DEF TxSteps, AlongInv
  <2>2. ASSUME tx'[m].at \in Began, Open(n)'
        PROVE  n \in tx'[m].along
    <3>1. tx[m] # NotBegun /\ tx[n] # NotBegun
      BY <1>2, <2>2 DEF NotBegun, Open, Began
    <3>2. tx[m].at \in Began /\ tx'[m].along = tx[m].along /\ Open(n)
      BY <1>1, <2>2, <3>1 DEF TxSteps
    <3> QED
      BY <3>2 DEF AlongInv
  <2> QED
    BY <2>1, <2>2
<1>3. ASSUME NEW k \in Numbers, NEW items \in Requests, NEW p \in Processes, Begin(k, items, p)
      PROVE  AlongInv'
  <2> SUFFICES ASSUME NEW n \in Numbers, NEW m \in Numbers, n < m
               PROVE  /\ tx'[n] = NotBegun => tx'[m] = NotBegun
                      /\ tx'[m].at \in Began /\ Open(n)' => n \in tx'[m].along
    BY DEF AlongInv
  <2>1. /\ tx'[k] = [at |-> "begun", items |-> items, proc |-> p, seen |-> 0,
                     along |-> {j \in Numbers : Open(j)}]
        /\ \A j \in Numbers \ {k} : tx'[j] = tx[j]
        /\ tx[k] = NotBegun
        /\ \A j \in Numbers : j < k => tx[j] # NotBegun
    BY <1>3 DEF Begin, CompaniesTypeOK
  <2>2. CASE m = k
    BY <2>1, <2>2 DEF Open
  <2>3. CASE m # k /\ n = k
    BY <2>1, <2>3 DEF AlongInv, Open, NotBegun, Began
  <2>4. CASE m # k /\ n # k
    BY <2>1, <2>4 DEF AlongInv, Open
  <2> QED
    BY <2>2, <2>3, <2>4
<1>4. ASSUME NEW k \in Numbers, Look(k) \/ Write(k) \/ Invalidate(k) \/ Commit(k) \/ Abort(k)
      PROVE  \A n \in Numbers : tx[n] = NotBegun => tx'[n] = NotBegun
  BY <1>4 DEF Look, Write, Invalidate, Commit, Abort, NotBegun, Open, CompaniesTypeOK,
              Provisions, SetsStatus, SetsPlan, SetsFeature
<1>5. ASSUME NEW p \in Processes, Restart(p)
      PROVE  \A n \in Numbers : tx[n] = NotBegun => tx'[n] = NotBegun
  BY <1>5 DEF Restart, NotBegun, Open
<1>6. CASE UNCHANGED tx
  BY <1>2, <1>6
<1> QED
  BY <1>2, <1>3, <1>4, <1>5, <1>6 DEF CompaniesNext, Operate, Ask, Pass, vars, companyVars

LEMMA TrailStep ==
    ASSUME CompaniesTypeOK, AlongInv, TrailTellsState, [CompaniesNext]_vars
    PROVE  TrailTellsState'
<1>1. TxSteps /\ CompaniesTypeOK'
  BY TxStep, TypeStep
<1> DEFINE About(i) == {n \in trail : i \in tx[n].items}
<1>2. CASE UNCHANGED <<made, trail>>
  <2>1. \A n \in trail : tx'[n].items = tx[n].items /\ tx'[n].along = tx[n].along
    BY <1>1, <1>2 DEF TxSteps, CompaniesTypeOK, NotBegun, Began
  <2> QED
    BY <1>2, <2>1 DEF TrailTellsState
<1>3. ASSUME NEW n \in Numbers, Commit(n)
      PROVE  TrailTellsState'
  <2>1. /\ tx[n].at \in Began /\ Open(n) /\ tx[n] # NotBegun
        /\ trail' = trail \cup {n} /\ n # 0 /\ n \notin trail
    BY <1>3, Kinds DEF Commit, Open, Began, Numbers, CompaniesTypeOK
  <2>2. \A m \in trail' : /\ m \in Numbers /\ tx[m].at \in Began
                          /\ tx'[m].items = tx[m].items /\ tx'[m].along = tx[m].along
    BY <1>1, <2>1 DEF TxSteps, CompaniesTypeOK, NotBegun, Began
  <2> SUFFICES ASSUME NEW i \in Items
               PROVE  /\ made'[i] = 0 <=> About(i)' = {}
                      /\ \A m \in About(i)' : m > made'[i] => made'[i] \in tx'[m].along
    BY DEF TrailTellsState
  <2>3. CASE i \in tx[n].items
    <3>1. made'[i] = n
      BY <1>3, <2>3 DEF Commit
    <3>2. n \in About(i)'
      BY <2>1, <2>2, <2>3
    <3>3. \A m \in About(i)' : m > n => n \in tx'[m].along
      BY <2>1, <2>2 DEF AlongInv
    <3> QED
      BY <2>1, <3>1, <3>2, <3>3
  <2>4. CASE i \notin tx[n].items
    <3>1. made'[i] = made[i]
      BY <1>3, <2>4 DEF Commit
    <3>2. About(i)' = About(i)
      BY <2>1, <2>2, <2>4
    <3> QED
      BY <2>2, <3>1, <3>2 DEF TrailTellsState
  <2> QED
    BY <2>3, <2>4
<1> QED
  BY <1>2, <1>3 DEF CompaniesNext, Operate, Begin, Look, Write, Invalidate, Abort, Restart,
                    Ask, Pass, vars, companyVars

LEMMA CompaniesStart ==
    ASSUME CompaniesInit
    PROVE  CompaniesTypeOK /\ AlongInv /\ TrailTellsState
BY MaxTxAssumption, TTLAssumption
   DEF CompaniesInit, FlagsInit, CompaniesTypeOK, FlagsTypeOK, Transactions, Nothing,
       NotBegun, AlongInv, TrailTellsState, Began, Open

(* The audit trail tells the state: the status, plan and flag that stand     *)
(* were written by the last transaction with a row about them, or by one    *)
(* that overlapped it.                                                      *)
THEOREM TrailTells == CompaniesSpec => []TrailTellsState
<1>1. CompaniesInit => CompaniesTypeOK /\ AlongInv /\ TrailTellsState
  BY CompaniesStart
<1>2. CompaniesTypeOK /\ AlongInv /\ TrailTellsState /\ [CompaniesNext]_vars
          => (CompaniesTypeOK /\ AlongInv /\ TrailTellsState)'
  BY TypeStep, AlongStep, TrailStep
<1> QED
  BY <1>1, <1>2, PTL DEF CompaniesSpec


-----------------------------------------------------------------------------
(* The flags.                                                              *)

FlagInv == ClearedInv /\ AskingInv /\ CacheInv

(* A step that writes neither caches nor loads nor the flag, and clears no   *)
(* cache that it says it has cleared.                                       *)
LEMMA FlagsKept ==
    ASSUME CompaniesTypeOK, CompaniesTypeOK', TxSteps, FlagInv,
           UNCHANGED flagVars, made'["flag"] = made["flag"], trail \subseteq trail',
           \A n \in Numbers : tx'[n].at = "cleared" => tx[n].at = "cleared"
    PROVE  FlagInv'
<1>1. /\ cache' = cache /\ asking' = asking /\ since' = since
      /\ \A p \in Processes : Fresh(p)' <=> Fresh(p)
  BY DEF flagVars, Fresh
<1>2. ClearedInv'
  <2> SUFFICES ASSUME NEW n \in Numbers, NEW p \in Processes,
                      tx'[n].at = "cleared", tx'[n].proc = p, Fresh(p)'
               PROVE  cache'[p].late = TRUE
    BY DEF ClearedInv
  <2>1. tx[n].at = "cleared" /\ tx[n].proc = p
    BY DEF TxSteps, NotBegun, Began
  <2> QED
    BY <1>1, <2>1 DEF FlagInv, ClearedInv
<1>3. AskingInv'
  BY <1>1 DEF FlagInv, AskingInv
<1>4. CacheInv'
  <2> SUFFICES ASSUME NEW p \in Processes, Outdated(p)'
               PROVE  /\ made'["flag"] \in trail'
                      /\ since' <= cache'[p].age
                      /\ p # tx'[made'["flag"]].proc
    BY DEF CacheInv
  <2>1. Outdated(p)
    BY <1>1 DEF Outdated
  <2>2. /\ made["flag"] \in trail /\ since <= cache[p].age
        /\ p # tx[made["flag"]].proc
    BY <2>1 DEF FlagInv, CacheInv
  <2>3. tx'[made["flag"]].proc = tx[made["flag"]].proc
    BY <2>2 DEF TxSteps, CompaniesTypeOK, NotBegun, Began
  <2> QED
    BY <1>1, <2>2, <2>3
<1> QED
  BY <1>2, <1>3, <1>4 DEF FlagInv

\* A step that leaves what the operators did.
LEMMA FlagStep ==
    ASSUME CompaniesTypeOK, FlagInv, [CompaniesNext]_vars
    PROVE  FlagInv'
<1> USE TTLAssumption
<1>1. TxSteps /\ CompaniesTypeOK'
  BY TxStep, TypeStep
<1>2. CASE UNCHANGED vars
  BY <1>1, <1>2, FlagsKept DEF vars, companyVars
<1>3. ASSUME NEW n \in Numbers, NEW items \in Requests, NEW p \in Processes, Begin(n, items, p)
      PROVE  FlagInv'
  <2>1. \A m \in Numbers : tx'[m].at = "cleared" => tx[m].at = "cleared"
    BY <1>3 DEF Begin, CompaniesTypeOK
  <2> QED
    BY <1>1, <1>3, <2>1, FlagsKept DEF Begin
<1>4. ASSUME NEW n \in Numbers, Look(n) \/ Write(n) \/ Abort(n)
      PROVE  FlagInv'
  <2>1. \A m \in Numbers \ {n} : tx'[m] = tx[m]
    BY <1>4 DEF Look, Write, Abort, CompaniesTypeOK
  <2>2. tx'[n].at # "cleared"
    <3>1. CASE Abort(n)
      BY <3>1 DEF Abort, Undone, CompaniesTypeOK
    <3>2. CASE Write(n)
      <4>1. tx'[n] = [tx[n] EXCEPT !.at = "wrote"]
        BY <3>2 DEF Write, CompaniesTypeOK
      <4>2. tx[n].at \in Began
        BY <3>2 DEF Write, Provisions, SetsStatus, SetsPlan, SetsFeature, Began
      <4> QED
        BY <4>1, <4>2, Kinds
    <3>3. CASE Look(n)
      <4>1. tx' = [tx EXCEPT ![n] = [[tx[n] EXCEPT !.at = "looked"] EXCEPT !.seen = made["plan"]]]
        BY <3>3, Zenon DEF Look
      <4>2. tx[n].at \in Began
        BY <3>3 DEF Look, Began
      <4>3. [[tx[n] EXCEPT !.at = "looked"] EXCEPT !.seen = made["plan"]].at = "looked"
        BY <4>2, Kinds
      <4> QED
        BY <4>1, <4>3 DEF CompaniesTypeOK
    <3> QED
      BY <1>4, <3>1, <3>2, <3>3
  <2>3. UNCHANGED <<made, trail, flagVars>>
    BY <1>4 DEF Look, Write, Abort
  <2> QED
    BY <1>1, <2>1, <2>2, <2>3, FlagsKept
<1>5. ASSUME NEW n \in Numbers, Invalidate(n)
      PROVE  FlagInv'
  <2>1. /\ tx[n].at = "wrote" /\ cache' = [cache EXCEPT ![tx[n].proc] = Nothing]
        /\ UNCHANGED <<asking, since, made, trail>>
    BY <1>5 DEF Invalidate, Drop
  <2>2. /\ tx[n].proc \in Processes
        /\ \A m \in Numbers \ {n} : tx'[m] = tx[m]
        /\ tx'[n].proc = tx[n].proc
    BY <1>5, <2>1, Kinds DEF Invalidate, CompaniesTypeOK, Began
  <2>3. \A p \in Processes :
            /\ Fresh(p)' => p # tx[n].proc
            /\ p # tx[n].proc => cache'[p] = cache[p] /\ (Fresh(p)' <=> Fresh(p))
    BY <2>1, <2>2 DEF Fresh, Nothing, CompaniesTypeOK, FlagsTypeOK
  <2>4. ClearedInv'
    <3> SUFFICES ASSUME NEW m \in Numbers, NEW p \in Processes,
                        tx'[m].at = "cleared", tx'[m].proc = p, Fresh(p)'
                 PROVE  cache'[p].late = TRUE
      BY DEF ClearedInv
    <3>1. p # tx[n].proc
      BY <2>3, Zenon
    <3>2. m # n /\ tx[m].at = "cleared" /\ tx[m].proc = p
      BY <2>2, <3>1
    <3> QED
      BY <2>3, <3>1, <3>2 DEF FlagInv, ClearedInv
  <2>5. AskingInv'
    BY <2>1 DEF FlagInv, AskingInv
  <2>6. CacheInv'
    <3> SUFFICES ASSUME NEW p \in Processes, Outdated(p)'
                 PROVE  /\ made'["flag"] \in trail'
                        /\ since' <= cache'[p].age
                        /\ p # tx'[made'["flag"]].proc
      BY DEF CacheInv
    <3>1. p # tx[n].proc /\ cache'[p] = cache[p] /\ Fresh(p)
      BY <2>3 DEF Outdated
    <3>2. Outdated(p)
      BY <2>1, <3>1 DEF Outdated
    <3>3. /\ made["flag"] \in trail /\ since <= cache[p].age
          /\ p # tx[made["flag"]].proc
      BY <3>2 DEF FlagInv, CacheInv
    <3>4. tx'[made["flag"]].proc = tx[made["flag"]].proc
      BY <2>2, <3>3 DEF CompaniesTypeOK
    <3> QED
      BY <2>1, <3>1, <3>3, <3>4
  <2> QED
    BY <2>4, <2>5, <2>6 DEF FlagInv
<1>6. ASSUME NEW n \in Numbers, Commit(n)
      PROVE  FlagInv'
  <2>1. /\ tx[n].at \in {"wrote", "cleared"} /\ tx[n].at \in Began
        /\ trail' = trail \cup {n}
    BY <1>6 DEF Commit, Began
  <2>2. tx'[n].at # "cleared" /\ \A m \in Numbers \ {n} : tx'[m] = tx[m]
    <3>1. tx' = [tx EXCEPT ![n] = [[tx[n] EXCEPT !.at = "committed"] EXCEPT !.seen = 0]]
      BY <1>6, Zenon DEF Commit
    <3>2. [[tx[n] EXCEPT !.at = "committed"] EXCEPT !.seen = 0].at = "committed"
      BY <2>1, Kinds
    <3> QED
      BY <3>1, <3>2 DEF CompaniesTypeOK
  <2>3. CASE "flag" \notin tx[n].items
    <3>1. UNCHANGED flagVars /\ made'["flag"] = made["flag"]
      BY <1>6, <2>3 DEF Commit, Items
    <3> QED
      BY <1>1, <2>1, <2>2, <3>1, FlagsKept
  <2>4. CASE "flag" \in tx[n].items
    <3>1. /\ tx[n].at = "cleared" /\ made'["flag"] = n
          /\ since' = 0 /\ cache' = cache
          /\ asking' = [a \in Asks |-> IF asking[a] = Idle THEN Idle
                                      ELSE [asking[a] EXCEPT !.over = TRUE]]
      BY <1>6, <2>4 DEF Commit, Toggled, Items
    <3>2. \A p \in Processes : Fresh(p)' <=> Fresh(p)
      BY <3>1 DEF Fresh
    <3>3. \A m \in Numbers : tx'[m].at \in Began => tx[m] # NotBegun /\ tx'[m].proc = tx[m].proc
      BY <1>1, <2>1, <2>2 DEF TxSteps, NotBegun, Began
    <3>4. ClearedInv'
      BY <2>2, <3>1, <3>2, <3>3 DEF FlagInv, ClearedInv, Began
    <3>5. AskingInv'
      <4> SUFFICES ASSUME NEW a \in Asks, asking'[a] # Idle
                   PROVE  asking'[a].over = TRUE
        BY DEF AskingInv
      <4>1. asking[a] # Idle
        BY <3>1
      <4>2. asking[a] \in [at : {"loading"}, proc : Processes, by : Nat, over : BOOLEAN]
        BY <4>1 DEF CompaniesTypeOK, FlagsTypeOK
      <4> QED
        BY <3>1, <4>1, <4>2
    <3>6. CacheInv'
      <4>2. tx'[n].proc = tx[n].proc
        BY <1>1, <1>6, <2>1 DEF TxSteps, CompaniesTypeOK, NotBegun, Began
      <4> SUFFICES ASSUME NEW p \in Processes, Outdated(p)'
                   PROVE  p # tx[n].proc /\ 0 <= cache[p].age
        BY <2>1, <3>1, <4>2 DEF CacheInv
      <4>1. Fresh(p) /\ cache[p].late = FALSE
        BY <3>1, <3>2 DEF Outdated
      <4> QED
        BY <3>1, <4>1 DEF FlagInv, ClearedInv, CompaniesTypeOK, FlagsTypeOK
    <3> QED
      BY <3>4, <3>5, <3>6 DEF FlagInv
  <2> QED
    BY <2>3, <2>4
<1>7. ASSUME NEW p \in Processes, Restart(p)
      PROVE  FlagInv'
  <2>1. /\ cache' = [cache EXCEPT ![p] = Nothing] /\ ~ Fresh(p)'
        /\ \A q \in Processes \ {p} : cache'[q] = cache[q] /\ (Fresh(q)' <=> Fresh(q))
        /\ UNCHANGED <<since, made, trail>>
        /\ \A a \in Asks : asking'[a] # Idle => asking'[a] = asking[a] /\ asking[a] # Idle
    BY <1>7 DEF Restart, Forget, Fresh, Nothing, CompaniesTypeOK, FlagsTypeOK
  <2>2. \A n \in Numbers : tx'[n].at \in Began => tx'[n] = tx[n] /\ tx[n].proc \in Processes
    BY <1>7, Kinds DEF Restart, Undone, Began
  <2>3. ClearedInv'
    <3> SUFFICES ASSUME NEW n \in Numbers, NEW q \in Processes,
                        tx'[n].at = "cleared", tx'[n].proc = q, Fresh(q)'
                 PROVE  cache'[q].late = TRUE
      BY DEF ClearedInv
    <3>1. q # p /\ tx[n].at = "cleared" /\ tx[n].proc = q
      BY <2>1, <2>2 DEF Began
    <3> QED
      BY <2>1, <3>1 DEF FlagInv, ClearedInv
  <2>4. AskingInv'
    BY <2>1 DEF FlagInv, AskingInv
  <2>5. CacheInv'
    <3> SUFFICES ASSUME NEW q \in Processes, Outdated(q)'
                 PROVE  /\ made'["flag"] \in trail'
                        /\ since' <= cache'[q].age
                        /\ q # tx'[made'["flag"]].proc
      BY DEF CacheInv
    <3>1. Outdated(q) /\ cache'[q] = cache[q]
      BY <2>1 DEF Outdated
    <3>2. /\ made["flag"] \in trail /\ since <= cache[q].age
          /\ q # tx[made["flag"]].proc
      BY <3>1 DEF FlagInv, CacheInv
    <3>3. tx'[made["flag"]] = tx[made["flag"]]
      BY <1>7, <3>2 DEF Restart, CompaniesTypeOK, Open
    <3> QED
      BY <2>1, <3>1, <3>2, <3>3
  <2> QED
    BY <2>3, <2>4, <2>5 DEF FlagInv
<1>8. ASSUME NEW a \in Asks, NEW p \in Processes, Load(a, p, made["flag"]), UNCHANGED companyVars
      PROVE  FlagInv'
  <2>1. /\ UNCHANGED <<cache, since, tx, made, trail>>
        /\ \A b \in Asks \ {a} : asking'[b] = asking[b]
        /\ asking'[a].by = made["flag"]
    BY <1>8 DEF Load, companyVars, CompaniesTypeOK, FlagsTypeOK
  <2> QED
    BY <2>1 DEF FlagInv, ClearedInv, AskingInv, CacheInv, Outdated, Fresh
<1>9. ASSUME NEW a \in Asks, asking[a] # Idle, Fill(a, Toggling(asking[a].proc)), UNCHANGED companyVars
      PROVE  FlagInv'
  <2> DEFINE q == asking[a].proc
             row == [by |-> asking[a].by, age |-> 0, late |-> asking[a].over \/ Toggling(q)]
  <2>1. asking[a] \in [at : {"loading"}, proc : Processes, by : Nat, over : BOOLEAN]
    BY <1>9 DEF CompaniesTypeOK, FlagsTypeOK
  <2>2. /\ cache' = [cache EXCEPT ![q] = row]
        /\ UNCHANGED <<since, tx, made, trail>>
        /\ asking' = [asking EXCEPT ![a] = Idle]
    BY <1>9 DEF Fill, companyVars
  <2>3. /\ row.by = asking[a].by
        /\ row.late = FALSE => asking[a].over = FALSE /\ ~ Toggling(q)
        /\ Toggling(q) => row.late = TRUE
    <3>1. row.late = (asking[a].over \/ Toggling(q)) /\ row.by = asking[a].by
      OBVIOUS
    <3>2. asking[a].over \in BOOLEAN /\ Toggling(q) \in BOOLEAN
      BY <2>1 DEF Toggling
    <3> HIDE DEF row
    <3> QED
      BY <3>1, <3>2, Zenon
  <2>4. /\ cache'[q] = row
        /\ \A p \in Processes \ {q} : cache'[p] = cache[p] /\ (Fresh(p)' <=> Fresh(p))
    BY <2>1, <2>2 DEF Fresh, CompaniesTypeOK, FlagsTypeOK
  <2> HIDE DEF row
  <2>5. ClearedInv'
    <3> SUFFICES ASSUME NEW n \in Numbers, NEW p \in Processes,
                        tx[n].at = "cleared", tx[n].proc = p, Fresh(p)'
                 PROVE  cache'[p].late = TRUE
      BY <2>2 DEF ClearedInv
    <3>1. CASE p = q
      BY <2>3, <2>4, <3>1 DEF Toggling
    <3>2. CASE p # q
      BY <2>4, <3>2 DEF FlagInv, ClearedInv
    <3> QED
      BY <3>1, <3>2
  <2>6. AskingInv'
    BY <2>2 DEF FlagInv, AskingInv, CompaniesTypeOK, FlagsTypeOK
  <2>7. CacheInv'
    <3> SUFFICES ASSUME NEW p \in Processes, Outdated(p)'
                 PROVE  /\ made["flag"] \in trail
                        /\ since <= cache'[p].age
                        /\ p # tx[made["flag"]].proc
      BY <2>2 DEF CacheInv
    <3>1. p # q
      <4> SUFFICES ASSUME p = q
                   PROVE  FALSE
        OBVIOUS
      <4>1. row.late = FALSE /\ row.by # made["flag"]
        BY <2>2, <2>4 DEF Outdated
      <4> QED
        BY <1>9, <2>3, <4>1 DEF FlagInv, AskingInv
    <3>2. Outdated(p) /\ cache'[p] = cache[p]
      BY <2>2, <2>4, <3>1 DEF Outdated
    <3> QED
      BY <3>2 DEF FlagInv, CacheInv
  <2> QED
    BY <2>5, <2>6, <2>7 DEF FlagInv
<1>10. CASE Pass
  <2>1. UNCHANGED <<asking, tx, made, trail>>
    BY <1>10 DEF Pass, Tick, companyVars
  <2>2. ASSUME NEW p \in Processes, Fresh(p)'
        PROVE  /\ Fresh(p) /\ cache'[p].by = cache[p].by /\ cache'[p].late = cache[p].late
               /\ cache'[p].age = cache[p].age + 1
    <3>1. cache[p] \in [by : Nat, age : 0 .. TTL, late : BOOLEAN]
      BY DEF CompaniesTypeOK, FlagsTypeOK
    <3>2. cache'[p] = IF cache[p].age + 1 < TTL
                      THEN [cache[p] EXCEPT !.age = Older(@)] ELSE Nothing
      BY <1>10 DEF Pass, Tick
    <3>3. CASE cache[p].age + 1 < TTL
      <4>1. Older(cache[p].age) = cache[p].age + 1
        BY <3>1, <3>3 DEF Older
      <4>2. cache'[p] = [cache[p] EXCEPT !.age = cache[p].age + 1]
        BY <3>2, <3>3, <4>1
      <4> QED
        BY <3>1, <3>3, <4>2 DEF Fresh
    <3>4. CASE ~ (cache[p].age + 1 < TTL)
      BY <2>2, <3>2, <3>4 DEF Fresh, Nothing
    <3> QED
      BY <3>3, <3>4
  <2>3. \A p \in Processes : since <= cache[p].age => since' <= cache[p].age + 1
    BY <1>10 DEF Pass, Tick, Older, CompaniesTypeOK, FlagsTypeOK
  <2>4. ClearedInv'
    <3> SUFFICES ASSUME NEW n \in Numbers, NEW p \in Processes,
                        tx[n].at = "cleared", tx[n].proc = p, Fresh(p)'
                 PROVE  cache'[p].late = TRUE
      BY <2>1 DEF ClearedInv
    <3> QED
      BY <2>2 DEF FlagInv, ClearedInv
  <2>5. AskingInv'
    BY <2>1 DEF FlagInv, AskingInv
  <2>6. CacheInv'
    <3> SUFFICES ASSUME NEW p \in Processes, Outdated(p)'
                 PROVE  /\ made["flag"] \in trail
                        /\ since' <= cache'[p].age
                        /\ p # tx[made["flag"]].proc
      BY <2>1 DEF CacheInv
    <3>1. Fresh(p)'
      BY DEF Outdated
    <3>2. Outdated(p)
      BY <2>1, <2>2, <3>1 DEF Outdated
    <3> QED
      BY <2>2, <2>3, <3>1, <3>2 DEF FlagInv, CacheInv
  <2> QED
    BY <2>4, <2>5, <2>6 DEF FlagInv
<1> QED
  BY <1>2, <1>3, <1>4, <1>5, <1>6, <1>7, <1>8, <1>9, <1>10 DEF CompaniesNext, Operate, Ask

LEMMA FlagStart ==
    ASSUME CompaniesInit
    PROVE  FlagInv
BY TTLAssumption DEF CompaniesInit, FlagsInit, FlagInv, ClearedInv, AskingInv, CacheInv,
                     Outdated, Fresh, Nothing, NotBegun

(* "cross-process changes take effect within the TTL": a cache in force that *)
(* does not show the last toggle was loaded late, or is another process's   *)
(* and the toggle younger than the TTL.                                     *)
THEOREM FlagsDoFollow == CompaniesSpec => []FlagsFollow
<1>1. CompaniesInit => CompaniesTypeOK /\ FlagInv
  BY CompaniesStart, FlagStart
<1>2. CompaniesTypeOK /\ FlagInv /\ [CompaniesNext]_vars => (CompaniesTypeOK /\ FlagInv)'
  BY TypeStep, FlagStep
<1>3. CompaniesTypeOK /\ FlagInv => FlagsFollow
  <2> SUFFICES ASSUME CompaniesTypeOK, FlagInv,
                      NEW p \in Processes, Fresh(p), cache[p].by # made["flag"],
                      ~ cache[p].late
               PROVE  since < TTL /\ p # tx[made["flag"]].proc
    BY DEF FlagsFollow
  <2>1. cache[p].late = FALSE
    BY DEF CompaniesTypeOK, FlagsTypeOK
  <2>2. since <= cache[p].age /\ p # tx[made["flag"]].proc
    BY <2>1 DEF FlagInv, CacheInv, Outdated
  <2> QED
    BY <2>2, TTLAssumption DEF Fresh, CompaniesTypeOK, FlagsTypeOK
<1> QED
  BY <1>1, <1>2, <1>3, PTL DEF CompaniesSpec
=============================================================================
