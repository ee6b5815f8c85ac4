------------------------------ MODULE LiveTracking ------------------------------
(***************************************************************************)
(* Positions from the driver's app to the streams: a committed batch is    *)
(* published (NOTIFY), its events travel on the connection on which the hub  *)
(* of this process listens, and the hub forwards each to its subscribers     *)
(* when it comes.  While the hub does not listen they are lost, and so are   *)
(* those still on their way when the connection drops; the hub keeps         *)
(* nothing.  Late pings are published, too: for the properties, seen[c] is   *)
(* the newest time a stream was sent of a vehicle, so that the order of the  *)
(* events does not matter, base[c] the last positions when it was            *)
(* subscribed.                                                             *)
(***************************************************************************)
EXTENDS VehiclePositions

CONSTANTS Clients, TenantOf, FilterOf, OwnerOf

VARIABLES
    client, starting, subs, stream, connected, closed, early, failed,
    wire,    \* events on their way to the hub
    seen, base,
    missed   \* subscribers that were there when an event was lost

H == INSTANCE TrackingHub

hubState == <<client, starting, subs, stream, connected, closed, early, failed>>
history == <<seen, base, missed>>
vars == <<positionVars, hubState, wire, history>>

Zero == [v \in Vehicles |-> 0]

LiveInit ==
    /\ Init
    /\ H!Init
    /\ wire = {}
    /\ seen = [c \in Clients |-> Zero]
    /\ base = [c \in Clients |-> Zero]
    /\ missed = {}

\* Slip: what a batch has stored is published when it is aborted, too.
PublishedTwice(s) == Commit(s) \/ Abort(s)

\* pg_notify is transactional: the commit publishes.
Published(s) == Commit(s)

PositionStep ==
    \/ /\ Working
       /\ UNCHANGED <<hubState, wire, history>>
    \/ \E s \in Sessions :
           /\ Published(s)
           /\ wire' = IF client THEN wire \cup Done(s) ELSE wire
           /\ missed' = IF client THEN missed ELSE missed \cup subs
           /\ UNCHANGED <<hubState, seen, base>>

\* The connection's on('notification').
Deliver(e) ==
    /\ e \in wire
    /\ wire' = wire \ {e}
    /\ seen' = [c \in Clients |->
           IF c \in H!Receivers(e) /\ seen[c][e.vehicle] < e.at
           THEN [seen[c] EXCEPT ![e.vehicle] = e.at] ELSE seen[c]]
    /\ UNCHANGED <<positionVars, hubState, base, missed>>

\* With the connection goes what was on its way.
HubStep ==
    LET new == subs' \ subs
        cut == wire # {} /\ ~ client'
    IN  /\ H!Next
        /\ wire' = IF cut THEN {} ELSE wire
        /\ seen' = [c \in Clients |-> IF c \in subs \cap subs' THEN seen[c] ELSE Zero]
        /\ base' = [c \in Clients |-> IF c \in new THEN last
                                     ELSE IF c \in subs' THEN base[c] ELSE Zero]
        /\ missed' = (IF cut THEN missed \cup subs ELSE missed) \cap subs'
        /\ UNCHANGED positionVars

LiveNext == PositionStep \/ HubStep \/ \E e \in wire : Deliver(e)

(* A connection attempt ends, as TCP and PostgreSQL give it up at last, and  *)
(* a handler that was answered goes on.                                     *)
LiveSpec ==
    /\ LiveInit /\ [][LiveNext]_vars
    /\ WF_vars(H!Start /\ HubStep)
    /\ \A c \in Clients : WF_vars((H!Forbid(c) \/ H!Subscribe(c)) /\ HubStep)

-----------------------------------------------------------------------------
(* Properties.                                                             *)

LiveTypeOK ==
    /\ PositionsTypeOK
    /\ H!HubTypeOK
    /\ wire \subseteq Pings
    /\ wire # {} => client
    /\ seen \in [Clients -> [Vehicles -> Nat]]
    /\ base \in [Clients -> [Vehicles -> Nat]]
    /\ missed \subseteq Clients

DarkOnlyAfterFailure == H!DarkOnlyAfterFailure
OnlyEarlyLeaversLinger == H!OnlyEarlyLeaversLinger

\* What stream c is to show of vehicle v.
Shows(c, v) == \A p \in Pings : p.vehicle = v => H!Passes(c, p)

(* "get each position pushed the moment it lands": a stream that missed no  *)
(* event has been sent, of each vehicle that moved since it was subscribed, *)
(* the very position that the fleet view reads from the database, or has it *)
(* on its way - late pings, aborted batches, drops and reconnects included, *)
(* also while the hub does not listen - and was sent nothing newer and      *)
(* nothing of others.                                                      *)
StreamsAgreeWithFleetView ==
    \A c \in subs \ missed : \A v \in Vehicles :
        /\ Shows(c, v) /\ last[v] # base[c][v] =>
               seen[c][v] = last[v] \/ \E e \in wire : e.vehicle = v /\ e.at = last[v]
        /\ seen[c][v] <= last[v]
        /\ seen[c][v] # 0 => TenantOf[c] = OwnerOf[v]

(* A client that asks for a stream gets it or is refused, however often the *)
(* connection drops under it and others come and go.                        *)
StreamsAnswered ==
    \A c \in Clients : stream[c] \in {"asking", "waiting"} ~> stream[c] \in {"out", "on"}
=============================================================================
