--------------------------- MODULE LiveTrackingProofs ---------------------------
(***************************************************************************)
(* Proofs about LiveTracking, for any vehicles, batches, connections and    *)
(* clients.  Positions: at most one transaction has touched a vehicle's     *)
(* last position, and what it will commit is the newest of what was there   *)
(* and what it stored (RowInv).  The hub: who is subscribed has a stream    *)
(* that is on, and a stream's client is connected or left early (StreamInv).*)
(* The streams: what one was sent of a vehicle is never newer than the last *)
(* position, and is that position, or will be told it, once the vehicle      *)
(* moved (SentInv).                                                        *)
(***************************************************************************)
EXTENDS LiveTracking, TLAPS

-----------------------------------------------------------------------------
(* Positions.                                                              *)

OneHolder ==
    \A s \in Sessions : \A t \in Sessions : \A v \in Vehicles :
        Holds(s, v) /\ Holds(t, v) => s = t

RowInv ==
    \A s \in Sessions : \A v \in Vehicles :
        Holds(s, v) =>
            /\ last[v] <= batch[s].row[v]
            /\ batch[s].row[v] \in AtOf(v, batch[s].done) \cup {last[v]}
            /\ \A t \in AtOf(v, batch[s].done) : t <= batch[s].row[v]

PositionsInv == PositionsTypeOK /\ OneHolder /\ RowInv /\ LastPositionIsNewest

LEMMA TimesAreNaturals == \A t \in Times \cup {0} : t \in Nat
BY TimesAssumption

LEMMA PositionsStart == Init => PositionsInv
<1> SUFFICES ASSUME Init
             PROVE  PositionsInv
  OBVIOUS
<1>1. Quiet \in [todo : Seq(Pings), done : SUBSET Pings, row : [Vehicles -> Times \cup {0}]]
  BY DEF Quiet
<1>2. PositionsTypeOK
  BY <1>1 DEF Init, PositionsTypeOK
<1>3. \A s \in Sessions : \A v \in Vehicles : ~ Holds(s, v)
  BY DEF Init, Holds, Quiet
<1>4. LastPositionIsNewest
  BY DEF Init, LastPositionIsNewest, AtOf
<1> QED
  BY <1>2, <1>3, <1>4 DEF PositionsInv, OneHolder, RowInv

\* A batch ends: its connection holds nothing, the others what they held.
LEMMA Ends ==
    ASSUME PositionsTypeOK, NEW s \in Sessions, batch' = [batch EXCEPT ![s] = Quiet]
    PROVE  /\ batch' \in [Sessions -> [todo : Seq(Pings), done : SUBSET Pings,
                                       row : [Vehicles -> Times \cup {0}]]]
           /\ batch'[s].done = {}
           /\ \A t \in Sessions \ {s} : batch'[t] = batch[t]
<1>1. Quiet \in [todo : Seq(Pings), done : SUBSET Pings, row : [Vehicles -> Times \cup {0}]]
  BY DEF Quiet
<1>2. Quiet.done = {}
  BY DEF Quiet
<1> QED
  BY <1>1, <1>2 DEF PositionsTypeOK

LEMMA PositionsStep ==
    ASSUME PositionsInv, [Next]_positionVars
    PROVE  PositionsInv'
<1> USE TimesAreNaturals
<1>1. CASE UNCHANGED positionVars
  BY <1>1 DEF positionVars, PositionsInv, PositionsTypeOK, OneHolder, RowInv,
              LastPositionIsNewest, Holds, AtOf
<1>2. ASSUME NEW s \in Sessions, NEW b \in Batches, Post(s, b)
      PROVE  PositionsInv'
  <2>1. /\ \A t \in Sessions : batch'[t].done = batch[t].done /\ batch'[t].row = batch[t].row
        /\ pings' = pings /\ last' = last
    BY <1>2 DEF Post, PositionsInv, PositionsTypeOK
  <2>2. PositionsTypeOK'
    BY <1>2, BatchesAssumption DEF Post, PositionsInv, PositionsTypeOK
  <2>3. \A t \in Sessions : \A v \in Vehicles : Holds(t, v)' <=> Holds(t, v)
    BY <2>1 DEF Holds
  <2> QED
    BY <2>1, <2>2, <2>3 DEF PositionsInv, OneHolder, RowInv, LastPositionIsNewest, AtOf
<1>3. ASSUME NEW s \in Sessions, Ingest(s)
      PROVE  PositionsInv'
  <2> DEFINE p == Head(batch[s].todo)
             at == Upsert(Seen(s, p.vehicle), p.at)
             new == [todo |-> Tail(batch[s].todo), done |-> batch[s].done \cup {p},
                     row |-> [batch[s].row EXCEPT ![p.vehicle] = at]]
  <2>1. /\ batch[s].todo \in Seq(Pings) /\ batch[s].todo # <<>>
        /\ batch[s].done \in SUBSET Pings /\ batch[s].row \in [Vehicles -> Times \cup {0}]
    BY <1>3 DEF Ingest, PositionsInv, PositionsTypeOK
  <2>2. p \in Pings /\ Tail(batch[s].todo) \in Seq(Pings)
    BY <2>1
  <2>3. p.vehicle \in Vehicles /\ p.at \in Times
    BY <2>2 DEF Pings
  <2>4. ASSUME NEW v \in Vehicles
        PROVE  Seen(s, v) \in Times \cup {0} /\ last[v] <= Seen(s, v)
    <3>1. last[v] \in Nat /\ last[v] \in Times \cup {0}
      BY DEF PositionsInv, PositionsTypeOK
    <3>2. CASE Holds(s, v)
      BY <2>1, <3>2 DEF Seen, PositionsInv, RowInv
    <3>3. CASE ~ Holds(s, v)
      BY <3>1, <3>3 DEF Seen
    <3> QED
      BY <3>2, <3>3
  <2>5. /\ at \in {p.at, Seen(s, p.vehicle)} /\ at \in Times \cup {0}
        /\ p.at <= at /\ Seen(s, p.vehicle) <= at
    <3> DEFINE old == Seen(s, p.vehicle)
               t == p.at
    <3>1. old \in Times \cup {0} /\ old \in Nat /\ t \in Times /\ t \in Nat
      BY <2>3, <2>4
    <3>2. at = IF old <= t THEN t ELSE old
      BY DEF Upsert
    <3> HIDE DEF old, t, at
    <3>3. at \in {t, old} /\ at \in Times \cup {0} /\ t <= at /\ old <= at
      BY <3>1, <3>2
    <3> QED
      BY <3>3 DEF old, t
  <2>6. /\ batch' = [batch EXCEPT ![s] = new]
        /\ pings' = pings /\ last' = last
        /\ \A t \in Sessions \ {s} : ~ Holds(t, p.vehicle)
    BY <1>3 DEF Ingest
  <2> HIDE DEF p, at
  <2>7. new \in [todo : Seq(Pings), done : SUBSET Pings, row : [Vehicles -> Times \cup {0}]]
    BY <2>1, <2>2, <2>3, <2>5
  <2>8. /\ batch'[s].done = batch[s].done \cup {p}
        /\ batch'[s].row = [batch[s].row EXCEPT ![p.vehicle] = at]
        /\ \A t \in Sessions \ {s} : batch'[t] = batch[t]
    BY <2>6 DEF PositionsInv, PositionsTypeOK
  <2> HIDE DEF new
  <2>9. PositionsTypeOK'
    BY <2>6, <2>7 DEF PositionsInv, PositionsTypeOK
  <2>10. /\ \A v \in Vehicles : Holds(s, v)' <=> (Holds(s, v) \/ v = p.vehicle)
         /\ \A t \in Sessions \ {s} : \A v \in Vehicles : Holds(t, v)' <=> Holds(t, v)
    BY <2>8 DEF Holds
  <2>11. OneHolder'
    BY <2>6, <2>10 DEF PositionsInv, OneHolder
  <2>12. RowInv'
    <3> SUFFICES ASSUME NEW t \in Sessions, NEW v \in Vehicles, Holds(t, v)'
                 PROVE  /\ last[v] <= batch'[t].row[v]
                        /\ batch'[t].row[v] \in AtOf(v, batch'[t].done) \cup {last[v]}
                        /\ \A u \in AtOf(v, batch'[t].done) : u <= batch'[t].row[v]
      BY <2>6 DEF RowInv, AtOf
    <3>1. CASE t # s
      BY <2>8, <2>10, <3>1 DEF PositionsInv, RowInv
    <3>2. CASE t = s /\ v # p.vehicle
      <4>1. batch'[s].row[v] = batch[s].row[v] /\ Holds(s, v)
        BY <2>1, <2>8, <2>10, <3>2
      <4>2. AtOf(v, batch'[s].done) = AtOf(v, batch[s].done)
        BY <2>8, <3>2 DEF AtOf
      <4> QED
        BY <3>2, <4>1, <4>2 DEF PositionsInv, RowInv
    <3>3. CASE t = s /\ v = p.vehicle
      <4>1. batch'[s].row[v] = at
        BY <2>1, <2>3, <2>8, <3>3
      <4>2. AtOf(v, batch'[s].done) = AtOf(v, batch[s].done) \cup {p.at}
        BY <2>8, <3>3 DEF AtOf
      <4>9. last[v] <= Seen(s, v) /\ Seen(s, v) <= at /\ p.at <= at
        BY <2>4, <2>5, <3>3
      <4>3. CASE Holds(s, v)
        <5>1. Seen(s, v) = batch[s].row[v]
          BY <4>3 DEF Seen
        <5>2. \A u \in AtOf(v, batch[s].done) : u \in Nat /\ u <= batch[s].row[v]
          BY <2>1, <4>3 DEF PositionsInv, RowInv, AtOf, Pings
        <5>3. batch[s].row[v] \in AtOf(v, batch[s].done) \cup {last[v]}
          BY <4>3 DEF PositionsInv, RowInv
        <5>4. last[v] \in Nat /\ at \in Nat /\ batch[s].row[v] \in Nat
          BY <2>1, <2>5 DEF PositionsInv, PositionsTypeOK
        <5>5. last[v] <= at /\ \A u \in AtOf(v, batch[s].done) : u <= at
          BY <4>9, <5>1, <5>2, <5>4
        <5>6. at \in AtOf(v, batch[s].done) \cup {p.at} \cup {last[v]}
          BY <2>5, <3>3, <5>1, <5>3
        <5> QED
          BY <3>3, <4>1, <4>2, <4>9, <5>5, <5>6
      <4>4. CASE ~ Holds(s, v)
        <5>1. Seen(s, v) = last[v] /\ AtOf(v, batch[s].done) = {}
          BY <4>4 DEF Seen, Holds, AtOf
        <5> QED
          BY <2>5, <3>3, <4>1, <4>2, <4>9, <5>1
      <4> QED
        BY <4>3, <4>4
    <3> QED
      BY <3>1, <3>2, <3>3
  <2>13. LastPositionIsNewest'
    BY <2>6 DEF PositionsInv, LastPositionIsNewest, AtOf
  <2> QED
    BY <2>9, <2>11, <2>12, <2>13 DEF PositionsInv
<1>4. ASSUME NEW s \in Sessions, Abort(s)
      PROVE  PositionsInv'
  <2>1. /\ batch' = [batch EXCEPT ![s] = Quiet] /\ pings' = pings /\ last' = last
        /\ PositionsTypeOK
    BY <1>4 DEF Abort, PositionsInv
  <2>2. PositionsTypeOK'
    BY <2>1, Ends DEF PositionsTypeOK
  <2>3. /\ \A v \in Vehicles : ~ Holds(s, v)'
        /\ \A t \in Sessions \ {s} : /\ batch'[t] = batch[t]
                                     /\ \A v \in Vehicles : Holds(t, v)' <=> Holds(t, v)
    BY <2>1, Ends DEF Holds
  <2>4. OneHolder'
    BY <2>3 DEF PositionsInv, OneHolder
  <2>5. RowInv'
    <3> SUFFICES ASSUME NEW t \in Sessions, NEW v \in Vehicles, Holds(t, v)'
                 PROVE  /\ last[v] <= batch'[t].row[v]
                        /\ batch'[t].row[v] \in AtOf(v, batch'[t].done) \cup {last[v]}
                        /\ \A u \in AtOf(v, batch'[t].done) : u <= batch'[t].row[v]
      BY <2>1 DEF RowInv, AtOf
    <3> QED
      BY <2>3 DEF PositionsInv, RowInv
  <2>6. LastPositionIsNewest'
    BY <2>1 DEF PositionsInv, LastPositionIsNewest, AtOf
  <2> QED
    BY <2>2, <2>4, <2>5, <2>6 DEF PositionsInv
<1>5. ASSUME NEW s \in Sessions, Commit(s)
      PROVE  PositionsInv'
  <2>1. /\ batch' = [batch EXCEPT ![s] = Quiet]
        /\ pings' = pings \cup batch[s].done
        /\ last' = [v \in Vehicles |-> Seen(s, v)]
        /\ PositionsTypeOK
    BY <1>5 DEF Commit, PositionsInv
  <2>2. /\ batch[s].done \in SUBSET Pings
        /\ \A v \in Vehicles : Seen(s, v) \in Times \cup {0}
    BY <2>1 DEF PositionsTypeOK, Seen
  <2>3. PositionsTypeOK'
    BY <2>1, <2>2, Ends DEF PositionsTypeOK
  <2>4. /\ \A v \in Vehicles : ~ Holds(s, v)'
        /\ \A t \in Sessions \ {s} : /\ batch'[t] = batch[t]
                                     /\ \A v \in Vehicles : Holds(t, v)' <=> Holds(t, v)
    BY <2>1, Ends DEF Holds
  <2>5. OneHolder'
    BY <2>4 DEF PositionsInv, OneHolder
  <2>6. RowInv'
    <3> SUFFICES ASSUME NEW t \in Sessions, NEW v \in Vehicles, Holds(t, v)'
                 PROVE  /\ last'[v] <= batch'[t].row[v]
                        /\ batch'[t].row[v] \in AtOf(v, batch'[t].done) \cup {last'[v]}
                        /\ \A u \in AtOf(v, batch'[t].done) : u <= batch'[t].row[v]
      BY DEF RowInv, AtOf
    <3>1. t # s /\ Holds(t, v) /\ batch'[t] = batch[t]
      BY <2>4
    <3>2. last'[v] = last[v]
      BY <2>1, <3>1 DEF PositionsInv, OneHolder, Seen
    <3> QED
      BY <3>1, <3>2 DEF PositionsInv, RowInv
  <2>7. LastPositionIsNewest'
    <3> SUFFICES ASSUME NEW v \in Vehicles
                 PROVE  /\ last'[v] \in AtOf(v, pings') \cup {0}
                        /\ \A t \in AtOf(v, pings') : t <= last'[v]
      BY DEF LastPositionIsNewest, AtOf
    <3>1. AtOf(v, pings') = AtOf(v, pings) \cup AtOf(v, batch[s].done)
      BY <2>1 DEF AtOf
    <3>2. /\ last[v] \in AtOf(v, pings) \cup {0}
          /\ \A t \in AtOf(v, pings) : t \in Nat /\ t <= last[v]
          /\ last[v] \in Nat
      BY <2>1 DEF PositionsInv, PositionsTypeOK, LastPositionIsNewest, AtOf, Pings
    <3>3. CASE ~ Holds(s, v)
      <4>1. last'[v] = last[v]
        BY <2>1, <3>3 DEF Seen
      <4>2. AtOf(v, batch[s].done) = {}
        BY <3>3 DEF Holds, AtOf
      <4> QED
        BY <3>1, <3>2, <4>1, <4>2
    <3>4. CASE Holds(s, v)
      <4>1. last'[v] = batch[s].row[v] /\ last'[v] \in Nat
        BY <2>1, <2>2, <3>4 DEF Seen
      <4>2. /\ last[v] <= last'[v]
            /\ last'[v] \in AtOf(v, batch[s].done) \cup {last[v]}
            /\ \A t \in AtOf(v, batch[s].done) : t <= last'[v]
        BY <3>4, <4>1 DEF PositionsInv, RowInv
      <4>3. last'[v] \in AtOf(v, pings') \cup {0}
        BY <3>1, <3>2, <4>2
      <4>4. \A t \in AtOf(v, pings) : t <= last'[v]
        BY <3>2, <4>1, <4>2
      <4> QED
        BY <3>1, <4>2, <4>3, <4>4
    <3> QED
      BY <3>3, <3>4
  <2> QED
    BY <2>3, <2>5, <2>6, <2>7 DEF PositionsInv
<1> QED
  BY <1>1, <1>2, <1>3, <1>4, <1>5 DEF Next, Working

-----------------------------------------------------------------------------
(* The hub.                                                                *)

StreamInv ==
    /\ \A c \in subs : stream[c] = "on"
    /\ \A c \in Clients : stream[c] # "out" => c \in connected \cup early

HubInv == H!HubTypeOK /\ H!DarkOnlyAfterFailure /\ StreamInv

LEMMA HubStart == H!Init => HubInv
BY DEF H!Init, HubInv, H!HubTypeOK, H!DarkOnlyAfterFailure, StreamInv, H!Waiting

LEMMA HubStepOK ==
    ASSUME HubInv, H!Next
    PROVE  HubInv'
<1> USE DEF HubInv, H!HubTypeOK, H!DarkOnlyAfterFailure, StreamInv, H!Waiting
<1>1. ASSUME NEW c \in Clients, H!Open(c)
      PROVE  HubInv'
  BY <1>1 DEF H!Open
<1>2. ASSUME NEW c \in Clients, H!Forbid(c)
      PROVE  HubInv'
  BY <1>2 DEF H!Forbid
<1>3. ASSUME NEW c \in Clients, H!Subscribe(c)
      PROVE  HubInv'
  BY <1>3 DEF H!Subscribe
<1>4. ASSUME NEW c \in Clients, H!Leave(c)
      PROVE  HubInv'
  BY <1>4 DEF H!Leave
<1>5. CASE H!StartSucceeds
  BY <1>5 DEF H!StartSucceeds
<1>6. CASE H!StartFails
  BY <1>6 DEF H!StartFails
<1>7. CASE H!Drop
  BY <1>7 DEF H!Drop
<1>8. CASE H!Close
  BY <1>8 DEF H!Close
<1> QED
  BY <1>1, <1>2, <1>3, <1>4, <1>5, <1>6, <1>7, <1>8 DEF H!Next, H!Start

LEMMA HubRests ==
    ASSUME HubInv, UNCHANGED hubState
    PROVE  HubInv'
BY DEF hubState, HubInv, H!HubTypeOK, H!DarkOnlyAfterFailure, StreamInv, H!Waiting

-----------------------------------------------------------------------------
(* Together.                                                               *)

LEMMA LiveInvariant == LiveSpec => [](PositionsInv /\ HubInv)
<1>1. LiveInit => PositionsInv /\ HubInv
  BY PositionsStart, HubStart DEF LiveInit
<1>2. ASSUME PositionsInv, HubInv, [LiveNext]_vars
      PROVE  PositionsInv' /\ HubInv'
  <2>1. CASE UNCHANGED vars
    BY <1>2, <2>1, PositionsStep, HubRests DEF vars
  <2>2. CASE PositionStep
    BY <1>2, <2>2, PositionsStep, HubRests DEF PositionStep, Published, Next
  <2>3. CASE HubStep
    BY <1>2, <2>3, PositionsStep, HubStepOK DEF HubStep
  <2>4. ASSUME NEW e \in wire, Deliver(e)
        PROVE  PositionsInv' /\ HubInv'
    BY <1>2, <2>4, PositionsStep, HubRests DEF Deliver
  <2> QED
    BY <1>2, <2>1, <2>2, <2>3, <2>4 DEF LiveNext
<1> QED
  BY <1>1, <1>2, PTL DEF LiveSpec

(* The last position of a vehicle is that of its newest stored ping, for any *)
(* batches in any order on any number of connections.                       *)
THEOREM LastIsNewest == LiveSpec => []LastPositionIsNewest
<1>1. PositionsInv => LastPositionIsNewest
  BY DEF PositionsInv
<1> QED
  BY <1>1, LiveInvariant, PTL

(* While there is a stream the hub listens or is about to, unless the last   *)
(* attempt failed.                                                          *)
THEOREM DarkOnlyThen == LiveSpec => []DarkOnlyAfterFailure
<1>1. HubInv => DarkOnlyAfterFailure
  BY DEF HubInv, DarkOnlyAfterFailure
<1> QED
  BY <1>1, LiveInvariant, PTL

(* A subscription outlives its client only if that left before the close     *)
(* handler was set.                                                         *)
THEOREM OnlyThoseLinger == LiveSpec => []OnlyEarlyLeaversLinger
<1>1. HubInv => OnlyEarlyLeaversLinger
  BY DEF HubInv, H!HubTypeOK, StreamInv, OnlyEarlyLeaversLinger, H!OnlyEarlyLeaversLinger
<1> QED
  BY <1>1, LiveInvariant, PTL

-----------------------------------------------------------------------------
(* What the streams were sent.                                             *)

\* The static part of what a stream shows: its token and its filter.
Matches(c, v) ==
    /\ TenantOf[c] = OwnerOf[v]
    /\ v \in FilterOf[c].vehicle
    /\ Trips \subseteq FilterOf[c].trip

SentTyped ==
    /\ wire \subseteq Pings
    /\ wire # {} => client
    /\ seen \in [Clients -> [Vehicles -> Nat]]
    /\ base \in [Clients -> [Vehicles -> Nat]]
    /\ missed \subseteq Clients

\* Nothing a stream knows or will be told is newer than what the database holds.
NotAhead ==
    /\ \A c \in Clients : \A v \in Vehicles : seen[c][v] <= last[v] /\ base[c][v] <= last[v]
    /\ \A e \in wire : e.at <= last[e.vehicle]

OwnOnly == \A c \in Clients : \A v \in Vehicles : seen[c][v] # 0 => TenantOf[c] = OwnerOf[v]

\* The last position of a vehicle is on its way to the hub.
Coming(v) == \E e \in wire : e.vehicle = v /\ e.at = last[v]

\* Once a vehicle moved, a stream that is to show it knows where it is or will
\* be told, whether or not the hub listens at this moment.
UpToDate ==
    \A c \in subs \ missed : \A v \in Vehicles :
        Matches(c, v) /\ last[v] # base[c][v] => seen[c][v] = last[v] \/ Coming(v)

SentInv == SentTyped /\ NotAhead /\ OwnOnly /\ UpToDate

\* What a commit does to the last position of a vehicle and the streams of it.
LEMMA CommitMoves ==
    ASSUME PositionsInv, NEW s \in Sessions, Commit(s), NEW v \in Vehicles
    PROVE  /\ last[v] \in Nat /\ last'[v] \in Nat /\ last[v] <= last'[v]
           /\ \A t \in AtOf(v, Done(s)) : t \in Nat /\ t <= last'[v]
           /\ last'[v] \in AtOf(v, Done(s)) \cup {last[v]}
<1> USE TimesAreNaturals
<1>1. batch[s].done \in SUBSET Pings /\ last' = [u \in Vehicles |-> Seen(s, u)]
  BY DEF Commit, PositionsInv, PositionsTypeOK
<1>2. last[v] \in Nat /\ batch[s].row[v] \in Nat
  BY DEF PositionsInv, PositionsTypeOK
<1>3. CASE Holds(s, v)
  <2>1. last'[v] = batch[s].row[v]
    BY <1>1, <1>3 DEF Seen
  <2>2. \A t \in AtOf(v, batch[s].done) : t \in Nat
    BY <1>1 DEF AtOf, Pings
  <2> QED BY <1>2, <1>3, <2>1, <2>2 DEF PositionsInv, RowInv, Done
<1>4. CASE ~ Holds(s, v)
  <2>1. last'[v] = last[v]
    BY <1>1, <1>4 DEF Seen
  <2>2. AtOf(v, batch[s].done) = {}
    BY <1>4 DEF Holds, AtOf
  <2> QED BY <1>2, <2>1, <2>2 DEF Done
<1> QED BY <1>3, <1>4

LEMMA CommitSent ==
    ASSUME PositionsInv, HubInv, SentInv, NEW s \in Sessions, Published(s),
           wire' = IF client THEN wire \cup Done(s) ELSE wire,
           missed' = IF client THEN missed ELSE missed \cup subs,
           UNCHANGED <<hubState, seen, base>>
    PROVE  SentInv'
<1> USE DEF SentInv
<1>0. Commit(s) /\ UNCHANGED <<client, subs, seen, base>> /\ subs \subseteq Clients
  BY DEF Published, hubState, HubInv, H!HubTypeOK
<1>1. Done(s) \subseteq Pings
  BY DEF Done, PositionsInv, PositionsTypeOK
<1>2. \A v \in Vehicles :
          /\ last[v] \in Nat /\ last'[v] \in Nat /\ last[v] <= last'[v]
          /\ \A t \in AtOf(v, Done(s)) : t \in Nat /\ t <= last'[v]
          /\ last'[v] \in AtOf(v, Done(s)) \cup {last[v]}
  BY <1>0, CommitMoves
<1>3. SentTyped'
  BY <1>0, <1>1 DEF SentTyped
<1>4. NotAhead'
  <2>1. ASSUME NEW c \in Clients, NEW v \in Vehicles
        PROVE  seen[c][v] <= last'[v] /\ base[c][v] <= last'[v]
    <3>1. /\ seen[c][v] \in Nat /\ seen[c][v] <= last[v]
          /\ base[c][v] \in Nat /\ base[c][v] <= last[v]
      BY DEF SentTyped, NotAhead
    <3> QED BY <1>2, <3>1
  <2>2. ASSUME NEW e \in wire' PROVE e.at <= last'[e.vehicle]
    <3>1. e \in Pings /\ e.vehicle \in Vehicles /\ e.at \in Nat
      BY <1>3, TimesAreNaturals DEF SentTyped, Pings
    <3>2. CASE e \in wire
      <4>1. e.at <= last[e.vehicle]
        BY <3>2 DEF NotAhead
      <4> QED BY <1>2, <3>1, <4>1
    <3>3. CASE e \in Done(s)
      BY <1>2, <3>1, <3>3 DEF AtOf
    <3> QED BY <2>2, <3>2, <3>3
  <2> QED BY <1>0, <2>1, <2>2 DEF NotAhead
<1>5. OwnOnly'
  BY <1>0 DEF OwnOnly
<1>6. ASSUME NEW c \in subs \ missed', NEW v \in Vehicles,
             Matches(c, v), last'[v] # base[c][v]
      PROVE  seen[c][v] = last'[v] \/ Coming(v)'
  <2>1. client /\ c \in subs \ missed
    BY <1>0
  <2>2. wire' = wire \cup Done(s)
    BY <2>1
  <2>3. CASE last'[v] \in AtOf(v, Done(s))
    BY <2>2, <2>3 DEF AtOf, Coming
  <2>4. CASE last'[v] = last[v]
    BY <1>6, <2>1, <2>2, <2>4 DEF UpToDate, Coming
  <2> QED BY <1>2, <2>3, <2>4
<1>7. UpToDate'
  <2>1. UNCHANGED <<subs, seen, base>> /\ \A c \in subs : \A v \in Vehicles : Matches(c, v)' <=> Matches(c, v)
    BY <1>0 DEF Matches
  <2> QED BY <1>6, <2>1 DEF UpToDate
<1> QED
  BY <1>3, <1>4, <1>5, <1>7

LEMMA WorkingSent ==
    ASSUME SentInv, UNCHANGED <<hubState, wire, history, last>>
    PROVE  SentInv'
BY DEF SentInv, SentTyped, NotAhead, OwnOnly, UpToDate, Matches, Coming, hubState, history

LEMMA DeliverSent ==
    ASSUME PositionsInv, HubInv, SentInv, NEW e \in wire, Deliver(e)
    PROVE  SentInv'
<1> USE DEF SentInv
<1>1. /\ UNCHANGED <<last, client, subs, base, missed>> /\ wire' = wire \ {e}
      /\ seen' = [c \in Clients |->
             IF c \in H!Receivers(e) /\ seen[c][e.vehicle] < e.at
             THEN [seen[c] EXCEPT ![e.vehicle] = e.at] ELSE seen[c]]
  BY DEF Deliver, positionVars, hubState
<1>2. e \in Pings /\ e.vehicle \in Vehicles /\ e.at \in Nat /\ e.trip \in Trips
  BY TimesAreNaturals DEF SentTyped, Pings
<1>3. ASSUME NEW c \in Clients, NEW v \in Vehicles
      PROVE  /\ seen[c][v] \in Nat /\ seen'[c][v] \in Nat /\ seen[c][v] <= seen'[c][v]
             /\ \/ seen'[c][v] = seen[c][v]
                \/ v = e.vehicle /\ seen'[c][v] = e.at /\ c \in H!Receivers(e)
             /\ v = e.vehicle /\ c \in H!Receivers(e) => e.at <= seen'[c][v]
  <2>1. seen[c] \in [Vehicles -> Nat]
    BY DEF SentTyped
  <2>2. CASE c \in H!Receivers(e) /\ seen[c][e.vehicle] < e.at
    <3>1. seen'[c] = [seen[c] EXCEPT ![e.vehicle] = e.at]
      BY <1>1, <2>2
    <3> QED BY <1>2, <2>1, <2>2, <3>1
  <2>3. CASE ~ (c \in H!Receivers(e) /\ seen[c][e.vehicle] < e.at)
    <3>1. seen'[c] = seen[c]
      BY <1>1, <2>3
    <3> QED BY <1>2, <2>1, <2>3, <3>1
  <2> QED BY <2>2, <2>3
<1>4. SentTyped'
  <2>1. \A c \in Clients : seen'[c] \in [Vehicles -> Nat]
    BY <1>1, <1>2 DEF SentTyped
  <2>2. seen' \in [Clients -> [Vehicles -> Nat]]
    BY <1>1, <2>1
  <2> QED BY <1>1, <2>2 DEF SentTyped
<1>5. NotAhead'
  <2> SUFFICES ASSUME NEW c \in Clients, NEW v \in Vehicles PROVE seen'[c][v] <= last[v]
    BY <1>1 DEF NotAhead
  <2>1. seen[c][v] <= last[v] /\ e.at <= last[e.vehicle]
    BY DEF NotAhead
  <2> QED BY <1>3, <2>1
<1>6. OwnOnly'
  <2> SUFFICES ASSUME NEW c \in Clients, NEW v \in Vehicles, seen'[c][v] # 0
               PROVE  TenantOf[c] = OwnerOf[v]
    BY DEF OwnOnly
  <2> QED BY <1>3 DEF OwnOnly, H!Receivers, H!Passes
<1>7. UpToDate'
  <2> SUFFICES ASSUME NEW c \in subs \ missed, NEW v \in Vehicles,
                      Matches(c, v), last[v] # base[c][v]
               PROVE  seen'[c][v] = last[v] \/ Coming(v)'
    BY <1>1 DEF UpToDate, Matches
  <2>1. c \in Clients
    BY DEF HubInv, H!HubTypeOK
  <2>2. seen'[c][v] <= last[v] /\ last[v] \in Nat
    BY <1>5, <1>1, <2>1, TimesAreNaturals DEF NotAhead, PositionsInv, PositionsTypeOK
  <2>3. CASE seen[c][v] = last[v]
    BY <1>3, <2>1, <2>2, <2>3
  <2>4. CASE Coming(v)
    <3>1. PICK x \in wire : x.vehicle = v /\ x.at = last[v]
      BY <2>4 DEF Coming
    <3>2. CASE x # e
      BY <1>1, <3>1, <3>2 DEF Coming
    <3>3. CASE x = e
      <4>1. c \in H!Receivers(e)
        BY <1>2, <3>1, <3>3 DEF Matches, H!Receivers, H!Passes
      <4>2. last[v] <= seen'[c][v] /\ seen'[c][v] \in Nat
        BY <1>3, <2>1, <3>1, <3>3, <4>1
      <4> QED BY <2>2, <4>2
    <3> QED BY <3>2, <3>3
  <2> QED BY <2>3, <2>4 DEF UpToDate
<1> QED
  BY <1>4, <1>5, <1>6, <1>7

LEMMA HubSent ==
    ASSUME PositionsInv, HubInv, SentInv, HubStep
    PROVE  SentInv'
<1> USE DEF SentInv
<1>1. /\ UNCHANGED last
      /\ wire' \subseteq wire /\ (wire' # {} => client') /\ (wire' = {} \/ wire' = wire)
      /\ seen' = [c \in Clients |-> IF c \in subs \cap subs' THEN seen[c] ELSE Zero]
      /\ base' = [c \in Clients |-> IF c \in subs' \ subs THEN last
                                    ELSE IF c \in subs' THEN base[c] ELSE Zero]
      /\ missed \cap subs' \subseteq missed' /\ missed' \subseteq subs'
      /\ wire' # wire => subs \cap subs' \subseteq missed'
  BY DEF HubStep, positionVars
<1>2. last \in [Vehicles -> Nat] /\ Zero \in [Vehicles -> Nat] /\ \A v \in Vehicles : Zero[v] = 0
  BY TimesAreNaturals DEF PositionsInv, PositionsTypeOK, Zero
<1>3. subs' \subseteq Clients
  BY HubStepOK DEF HubStep, HubInv, H!HubTypeOK
<1> HIDE DEF Zero
<1>4. SentTyped'
  BY <1>1, <1>2, <1>3 DEF SentTyped
<1>5. NotAhead'
  <2> SUFFICES ASSUME NEW c \in Clients, NEW v \in Vehicles
               PROVE  seen'[c][v] <= last[v] /\ base'[c][v] <= last[v]
    BY <1>1 DEF NotAhead
  <2>1. /\ seen[c][v] <= last[v] /\ base[c][v] <= last[v]
        /\ last[v] \in Nat /\ Zero[v] = 0
    BY <1>2 DEF NotAhead
  <2>2. seen'[c][v] \in {seen[c][v], Zero[v]} /\ base'[c][v] \in {last[v], base[c][v], Zero[v]}
    BY <1>1
  <2> QED BY <2>1, <2>2
<1>6. OwnOnly'
  BY <1>1, <1>2 DEF OwnOnly
<1>7. UpToDate'
  <2> SUFFICES ASSUME NEW c \in subs' \ missed', NEW v \in Vehicles,
                      Matches(c, v), last[v] # base'[c][v]
               PROVE  seen'[c][v] = last[v] \/ Coming(v)'
    BY <1>1 DEF UpToDate, Matches
  <2>1. c \in Clients
    BY <1>3
  <2>2. c \in subs \ missed
    BY <1>1, <2>1
  <2>3. seen'[c] = seen[c] /\ base'[c] = base[c] /\ wire' = wire
    BY <1>1, <2>1, <2>2
  <2> QED BY <1>1, <2>2, <2>3 DEF UpToDate, Coming
<1> QED
  BY <1>4, <1>5, <1>6, <1>7

LEMMA SentStart == LiveInit => SentInv
<1> SUFFICES ASSUME LiveInit PROVE SentInv
  OBVIOUS
<1>1. /\ last = [v \in Vehicles |-> 0] /\ subs = {} /\ missed = {} /\ wire = {}
      /\ seen = [c \in Clients |-> Zero] /\ base = [c \in Clients |-> Zero]
  BY DEF LiveInit, Init, H!Init
<1> QED
  BY <1>1 DEF SentInv, SentTyped, NotAhead, OwnOnly, UpToDate, Zero

LEMMA SentInvariant == LiveSpec => []SentInv
<1>1. ASSUME PositionsInv, HubInv, SentInv, [LiveNext]_vars
      PROVE  SentInv'
  <2>1. CASE UNCHANGED vars
    BY <1>1, <2>1, WorkingSent DEF vars, positionVars
  <2>2. CASE PositionStep
    <3>1. CASE Working /\ UNCHANGED <<hubState, wire, history>>
      BY <1>1, <3>1, WorkingSent DEF Working, Post, Ingest, Abort
    <3> QED BY <1>1, <2>2, <3>1, CommitSent DEF PositionStep
  <2>3. CASE HubStep
    BY <1>1, <2>3, HubSent
  <2>4. ASSUME NEW e \in wire, Deliver(e) PROVE SentInv'
    BY <1>1, <2>4, DeliverSent
  <2> QED
    BY <1>1, <2>1, <2>2, <2>3, <2>4 DEF LiveNext
<1> QED
  BY <1>1, SentStart, LiveInvariant, PTL DEF LiveSpec

(* Batches are stored and committed by any number of connections, streams    *)
(* come, wait, are refused and leave, and no handler is left waiting for a   *)
(* start that is not under way: what each variable may hold.                *)
THEOREM LiveTypeCorrect == LiveSpec => []LiveTypeOK
<1>1. PositionsInv /\ HubInv /\ SentInv => LiveTypeOK
  BY DEF PositionsInv, HubInv, SentInv, SentTyped, LiveTypeOK
<1> QED
  BY <1>1, LiveInvariant, SentInvariant, PTL

(* A stream that missed no event has been sent of each vehicle it is to show *)
(* the very position the database has as the last one, or has it on its way, *)
(* as soon as that is not the one it was subscribed with, and was never sent *)
(* anything newer or a vehicle of another company.                          *)
THEOREM StreamsAgree == LiveSpec => []StreamsAgreeWithFleetView
<1>1. ASSUME PositionsInv, HubInv, SentInv
      PROVE  StreamsAgreeWithFleetView
  <2> SUFFICES ASSUME NEW c \in subs \ missed, NEW v \in Vehicles
               PROVE  /\ Shows(c, v) /\ last[v] # base[c][v] => seen[c][v] = last[v] \/ Coming(v)
                      /\ seen[c][v] <= last[v]
                      /\ seen[c][v] # 0 => TenantOf[c] = OwnerOf[v]
    BY DEF StreamsAgreeWithFleetView, Coming
  <2>1. c \in Clients
    BY <1>1 DEF HubInv, H!HubTypeOK
  <2>2. ASSUME Shows(c, v), last[v] # base[c][v]
        PROVE  seen[c][v] = last[v] \/ Coming(v)
    <3>1. last[v] # 0
      <4>1. /\ last[v] \in Nat /\ base[c][v] \in Nat /\ base[c][v] <= last[v]
        BY <1>1, <2>1, TimesAreNaturals
           DEF PositionsInv, PositionsTypeOK, SentInv, SentTyped, NotAhead
      <4> QED BY <2>2, <4>1
    <3>2. last[v] \in Times
      BY <1>1, <3>1 DEF PositionsInv, PositionsTypeOK
    <3>3. PICK p \in pings : p.vehicle = v
      BY <1>1, <3>1 DEF PositionsInv, LastPositionIsNewest, AtOf
    <3>4. p \in Pings
      BY <1>1 DEF PositionsInv, PositionsTypeOK
    <3>5. H!Passes(c, p)
      BY <2>2, <3>3, <3>4 DEF Shows
    <3>6. ASSUME NEW t \in Trips PROVE t \in FilterOf[c].trip
      <4> DEFINE q == [vehicle |-> v, trip |-> t, at |-> last[v]]
      <4>1. q \in Pings /\ q.vehicle = v /\ q.trip = t
        BY <3>2 DEF Pings
      <4> HIDE DEF q
      <4>2. H!Passes(c, q)
        BY <2>2, <4>1 DEF Shows
      <4> QED BY <4>1, <4>2 DEF H!Passes
    <3>7. Matches(c, v)
      BY <3>3, <3>5, <3>6 DEF H!Passes, Matches
    <3> QED BY <1>1, <2>2, <3>7 DEF SentInv, UpToDate
  <2>3. seen[c][v] # 0 => TenantOf[c] = OwnerOf[v]
    BY <1>1, <2>1 DEF SentInv, OwnOnly
  <2>4. seen[c][v] <= last[v]
    BY <1>1, <2>1 DEF SentInv, NotAhead
  <2> QED BY <2>2, <2>3, <2>4
<1> QED
  BY <1>1, LiveInvariant, SentInvariant, PTL
=============================================================================
