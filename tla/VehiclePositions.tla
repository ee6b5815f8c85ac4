---------------------------- MODULE VehiclePositions ----------------------------
(***************************************************************************)
(* The ingest of GPS pings (POST /v1/tracking/pings of                     *)
(* app/routes_tracking.ts).  A driver's app posts a batch, in any order and *)
(* perhaps late, and one transaction stores each ping and lifts the         *)
(* vehicle's row of vehicle_last_position.  The tables hold committed rows;  *)
(* batch[s] is what the transaction on connection s has still to do and has *)
(* done.  What it publishes with pg_notify leaves the database when it      *)
(* commits: Done(s).                                                        *)
(***************************************************************************)
EXTENDS Naturals, Sequences, FiniteSets

CONSTANTS
    Vehicles,
    Trips,      \* trip ids a ping may carry, or the value for none
    Times,      \* recorded_at
    Batches,    \* the batches a client may post
    Sessions    \* pooled connections

Pings == [vehicle : Vehicles, trip : Trips, at : Times]

ASSUME TimesAssumption == Times \subseteq Nat \ {0}
ASSUME BatchesAssumption == Batches \subseteq Seq(Pings) \ {<<>>}

VARIABLES
    pings,  \* rows of vehicle_ping
    last,   \* vehicle_last_position.recorded_at, 0 for no row
    batch   \* batch[s]: the ingest running on connection s

positionVars == <<pings, last, batch>>

Quiet == [todo |-> <<>>, done |-> {}, row |-> [v \in Vehicles |-> 0]]

Init ==
    /\ pings = {}
    /\ last = [v \in Vehicles |-> 0]
    /\ batch = [s \in Sessions |-> Quiet]

\* ON CONFLICT DO UPDATE locks the row, updated or not, until the commit.
Holds(s, v) == \E p \in batch[s].done : p.vehicle = v

\* The row as the transaction sees it.
Seen(s, v) == IF Holds(s, v) THEN batch[s].row[v] ELSE last[v]

\* Slip: the upsert takes whatever comes.
UpsertAny(old, at) == at

\* ... WHERE vehicle_last_position.recorded_at <= EXCLUDED.recorded_at.
Upsert(old, at) == IF old <= at THEN at ELSE old

Post(s, b) ==
    /\ batch[s] = Quiet
    /\ batch' = [batch EXCEPT ![s].todo = b]
    /\ UNCHANGED <<pings, last>>

\* The statements for the next ping of the batch.
Ingest(s) ==
    LET p == Head(batch[s].todo)
        v == p.vehicle
    IN  /\ batch[s].todo # <<>>
        /\ \A t \in Sessions \ {s} : ~ Holds(t, v)
        /\ batch' = [batch EXCEPT ![s] =
               [todo |-> Tail(@.todo),
                done |-> @.done \cup {p},
                row |-> [@.row EXCEPT ![v] = Upsert(Seen(s, v), p.at)]]]
        /\ UNCHANGED <<pings, last>>

\* The events of a transaction: they go out with its commit, all or none.
Done(s) == batch[s].done

Commit(s) ==
    /\ batch[s].todo = <<>> /\ batch[s].done # {}
    /\ pings' = pings \cup batch[s].done
    /\ last' = [v \in Vehicles |-> Seen(s, v)]
    /\ batch' = [batch EXCEPT ![s] = Quiet]

(* A statement throws: batches that name vehicles in opposite orders block  *)
(* each other, and PostgreSQL ends one of them.                             *)
Abort(s) ==
    /\ batch[s] # Quiet
    /\ batch' = [batch EXCEPT ![s] = Quiet]
    /\ UNCHANGED <<pings, last>>

Working == \E s \in Sessions : \/ \E b \in Batches : Post(s, b)
                               \/ Ingest(s) \/ Abort(s)

Next == Working \/ \E s \in Sessions : Commit(s)

Spec == Init /\ [][Next]_positionVars

-----------------------------------------------------------------------------
(* Properties.                                                             *)

PositionsTypeOK ==
    /\ pings \subseteq Pings
    /\ last \in [Vehicles -> Times \cup {0}]
    /\ batch \in [Sessions -> [todo : Seq(Pings), done : SUBSET Pings,
                               row : [Vehicles -> Times \cup {0}]]]

AtOf(v, ps) == {p.at : p \in {q \in ps : q.vehicle = v}}

(* "hot cache": the last position of a vehicle is that of its newest stored *)
(* ping, whatever the order in which late and concurrent batches commit,    *)
(* wait for one another or are aborted half way.                            *)
LastPositionIsNewest ==
    \A v \in Vehicles :
        /\ last[v] \in AtOf(v, pings) \cup {0}
        /\ \A t \in AtOf(v, pings) : t <= last[v]
=============================================================================
