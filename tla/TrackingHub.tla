------------------------------- MODULE TrackingHub -------------------------------
(***************************************************************************)
(* The fan-out of vehicle positions in one API process                     *)
(* (app/tracking_hub.ts) and the event streams that feed on it (GET        *)
(* /v1/tracking/stream of app/routes_tracking.ts).  The hub opens its      *)
(* LISTEN connection with the first subscriber; while it does, later ones   *)
(* wait for the same promise.  What happens between two awaits is one       *)
(* action; a client may leave in any of them.                              *)
(***************************************************************************)
EXTENDS FiniteSets

CONSTANTS
    Clients,   \* streams that may be opened
    TenantOf,  \* tenant of a client's token
    FilterOf,  \* its ?tripId and ?vehicleId, a set of the values it lets pass
    OwnerOf    \* tenant of a vehicle

VARIABLES
    client,    \* this.client is set: LISTEN is in force
    starting,  \* this.starting is set
    subs,      \* this.subs
    stream,    \* stream[c]: how far the handler of c has come
    connected, \* clients whose socket is open
    closed,    \* onClose has run
    early,     \* history: clients that left before the close handler was set
    failed     \* history: the last attempt to listen failed, with subscribers

hubVars == <<client, starting, subs, stream, connected, closed, early, failed>>

Init ==
    /\ client = FALSE /\ starting = FALSE
    /\ subs = {} /\ connected = {} /\ early = {}
    /\ stream = [c \in Clients |-> "out"]
    /\ closed = FALSE /\ failed = FALSE

Waiting == {c \in Clients : stream[c] = "waiting"}

\* What a client's token and filter let through of an event e.
Passes(c, e) ==
    /\ TenantOf[c] = OwnerOf[e.vehicle]
    /\ e.vehicle \in FilterOf[c].vehicle
    /\ e.trip \in FilterOf[c].trip

\* The subscribers a NOTIFY for event e is sent to.
Receivers(e) == {c \in subs : Passes(c, e)}

-----------------------------------------------------------------------------
(* The handler of a stream.                                                *)

\* A valid token with tracking.read; the feature's flag is awaited.
Open(c) ==
    /\ stream[c] = "out" /\ c \notin early /\ ~ closed
    /\ stream' = [stream EXCEPT ![c] = "asking"]
    /\ connected' = connected \cup {c}
    /\ UNCHANGED <<client, starting, subs, closed, early, failed>>

\* live_tracking is off for the company: 403.
Forbid(c) ==
    /\ stream[c] = "asking"
    /\ stream' = [stream EXCEPT ![c] = "out"]
    /\ connected' = connected \ {c}
    /\ UNCHANGED <<client, starting, subs, closed, early, failed>>

\* The socket is taken over and the hub asked: it listens, or will.
Subscribe(c) ==
    /\ stream[c] = "asking"
    /\ IF client
       THEN /\ stream' = [stream EXCEPT ![c] = "on"]
            /\ subs' = subs \cup {c}
            /\ UNCHANGED starting
       ELSE /\ stream' = [stream EXCEPT ![c] = "waiting"]
            /\ starting' = TRUE
            /\ UNCHANGED subs
    /\ UNCHANGED <<client, connected, closed, early, failed>>

\* Slip: the stream ends and its subscription stays.
LeaveSubscribed(c) ==
    /\ c \in connected
    /\ connected' = connected \ {c}
    /\ stream' = [stream EXCEPT ![c] = IF @ = "on" THEN "out" ELSE @]
    /\ early' = IF stream[c] = "on" THEN early ELSE early \cup {c}
    /\ UNCHANGED <<client, starting, subs, closed, failed>>

(* The client closes its connection.  The handlers for that are set after   *)
(* the subscription: before, nobody notices.                                *)
Leave(c) ==
    /\ c \in connected
    /\ connected' = connected \ {c}
    /\ IF stream[c] = "on"
       THEN /\ stream' = [stream EXCEPT ![c] = "out"]
            /\ subs' = subs \ {c}
            /\ UNCHANGED early
       ELSE /\ early' = early \cup {c}
            /\ UNCHANGED <<stream, subs>>
    /\ UNCHANGED <<client, starting, closed, failed>>

-----------------------------------------------------------------------------
(* The connection.                                                         *)

\* Connected and LISTENing: all who waited are subscribed in the same turn.
StartSucceeds ==
    /\ starting
    /\ starting' = FALSE /\ client' = TRUE /\ failed' = FALSE
    /\ subs' = subs \cup Waiting
    /\ stream' = [c \in Clients |-> IF c \in Waiting THEN "on" ELSE stream[c]]
    /\ UNCHANGED <<connected, closed, early>>

\* Slip: the failure is swallowed, and with it the promise of those who wait.
StartFailsSilently ==
    /\ starting
    /\ starting' = FALSE
    /\ failed' = (subs # {})
    /\ UNCHANGED <<client, subs, stream, connected, closed, early>>

\* Connecting or LISTEN throws: those who waited are told and let go.
StartFails ==
    /\ starting
    /\ starting' = FALSE
    /\ failed' = (subs # {})
    /\ stream' = [c \in Clients |-> IF c \in Waiting THEN "out" ELSE stream[c]]
    /\ connected' = connected \ Waiting
    /\ UNCHANGED <<client, subs, closed, early>>

\* Slip: the drop is noted and nothing more.
DropQuietly ==
    /\ client
    /\ client' = FALSE
    /\ UNCHANGED <<starting, subs, stream, connected, closed, early, failed>>

\* onDrop: the connection ends; it is opened anew while there are streams.
Drop ==
    /\ client
    /\ client' = FALSE
    /\ starting' = (subs # {})
    /\ UNCHANGED <<subs, stream, connected, closed, early, failed>>

\* The server closes; a start under way is not awaited.
Close ==
    /\ ~ closed
    /\ closed' = TRUE
    /\ subs' = {} /\ client' = FALSE /\ failed' = FALSE
    /\ UNCHANGED <<starting, stream, connected, early>>

Start == StartSucceeds \/ StartFails

Next ==
    \/ \E c \in Clients : Open(c) \/ Forbid(c) \/ Subscribe(c) \/ Leave(c)
    \/ Start \/ Drop \/ Close

-----------------------------------------------------------------------------
(* Properties.                                                             *)

HubTypeOK ==
    /\ client \in BOOLEAN /\ starting \in BOOLEAN
    /\ closed \in BOOLEAN /\ failed \in BOOLEAN
    /\ subs \subseteq Clients /\ connected \subseteq Clients /\ early \subseteq Clients
    /\ stream \in [Clients -> {"out", "asking", "waiting", "on"}]
    /\ ~ closed => subs = {c \in Clients : stream[c] = "on"}
    /\ Waiting # {} => starting
    /\ ~ (client /\ starting)

(* "so existing SSE streams keep getting positions instead of silently      *)
(* going dark": while there is a stream the hub listens or is about to,     *)
(* through any sequence of drops, late subscribers and departures; the one  *)
(* exception is a reconnect that failed, which nobody repeats.              *)
DarkOnlyAfterFailure == subs # {} => client \/ starting \/ failed

(* "a broken pipe is cleaned up by the route's close handler": a            *)
(* subscription outlives its client only if the client left while its       *)
(* handler awaited the flag or the hub.                                     *)
OnlyEarlyLeaversLinger == subs \subseteq connected \cup early
=============================================================================
