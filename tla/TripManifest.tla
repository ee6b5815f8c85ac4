---------------------------- MODULE TripManifest ----------------------------
(***************************************************************************)
(* The daily-commute manifest (routes_manifest.ts): stops with a waiting   *)
(* countdown, and one attendance row per employee and trip.  Boarding, "on *)
(* the way" and the dispatcher's corrections are single guarded UPDATEs.   *)
(* Arrive and depart first read the stop without a lock and then write:    *)
(* what they write is one action, because the rows they lock meanwhile     *)
(* only make others wait.  No handler here looks at trip.status.           *)
(***************************************************************************)
EXTENDS Attendance, Naturals

CONSTANTS
    Trips, Employees, Stops, Sessions,
    TripOf,       \* TripOf[k]: the trip the stop k is added to
    HasUser,      \* the employees with a user account, whom a push can reach
    RouteWait,    \* RouteWait[t]: route.wait_seconds of the trip's route, or NoWait
    Waits,        \* the values of wait_seconds an administrator may save
    Corrections,  \* the statuses a dispatcher may set
    DefaultWait,  \* DEFAULT_WAIT_SECONDS
    NoWait, NoStop

VARIABLES
    pax,         \* pax[t][e]: trip_passenger.status, Absent without a row
    paxStop,     \* paxStop[t][e]: trip_passenger.trip_stop_id
    stopStatus,  \* trip_stop.status, or "none" before it is added
    countdown,   \* departs_at of a stop: "none" while NULL, "running", or "over"
    policyWait,  \* tenant_transport_policy.wait_seconds, NoWait without a row
    outbox,      \* the pushes queued in the notification table
    visit        \* visit[s]: the arrive or depart handler session s is in

manifestVars == <<pax, paxStop, stopStatus, countdown, policyWait, outbox, visit>>

NoVisit == [at |-> "idle", stop |-> NoStop, wait |-> 0]

Init ==
    /\ pax = [t \in Trips |-> [e \in Employees |-> Absent]]
    /\ paxStop = [t \in Trips |-> [e \in Employees |-> NoStop]]
    /\ stopStatus = [k \in Stops |-> "none"]
    /\ countdown = [k \in Stops |-> "none"]
    /\ policyWait = NoWait
    /\ outbox = {}
    /\ visit = [s \in Sessions |-> NoVisit]

-----------------------------------------------------------------------------
\* PUT /v1/transport-policy
SetPolicy(w) ==
    /\ policyWait' = w
    /\ UNCHANGED <<pax, paxStop, stopStatus, countdown, outbox, visit>>

\* POST /v1/trips/:id/stops
AddStop(k) ==
    /\ stopStatus[k] = "none"
    /\ stopStatus' = [stopStatus EXCEPT ![k] = "pending"]
    /\ UNCHANGED <<pax, paxStop, countdown, policyWait, outbox, visit>>

(* POST /v1/trips/:id/passengers: ON CONFLICT DO NOTHING, 409 for a row     *)
(* that exists in whatever status.  The stop, if one is named, may be any   *)
(* trip's and in any status; the capacity is not looked at.                 *)
AddPassenger(t, e, k) ==
    /\ pax[t][e] = Absent
    /\ k # NoStop => stopStatus[k] # "none"
    /\ pax' = [pax EXCEPT ![t][e] = "expected"]
    /\ paxStop' = [paxStop EXCEPT ![t][e] = k]
    /\ UNCHANGED <<stopStatus, countdown, policyWait, outbox, visit>>

\* Slip: any row can be boarded.
BoardAny(t, e) ==
    /\ pax[t][e] # Absent
    /\ pax' = [pax EXCEPT ![t][e] = "boarded"]
    /\ UNCHANGED <<paxStop, stopStatus, countdown, policyWait, outbox, visit>>

\* POST /v1/trips/:id/passengers/:pid/board
Board(t, e) ==
    /\ pax[t][e] \in Awaited
    /\ pax' = [pax EXCEPT ![t][e] = "boarded"]
    /\ UNCHANGED <<paxStop, stopStatus, countdown, policyWait, outbox, visit>>

\* POST /v1/trips/:id/on-the-way: the countdown is not paused.
OnTheWay(t, e) ==
    /\ pax[t][e] = "expected"
    /\ pax' = [pax EXCEPT ![t][e] = "on_the_way"]
    /\ UNCHANGED <<paxStop, stopStatus, countdown, policyWait, outbox, visit>>

\* POST /v1/trips/:id/passengers/:pid/status
SetStatus(t, e, st) ==
    /\ pax[t][e] \notin {Absent, "boarded"}
    /\ pax' = [pax EXCEPT ![t][e] = st]
    /\ UNCHANGED <<paxStop, stopStatus, countdown, policyWait, outbox, visit>>

-----------------------------------------------------------------------------
\* Whom the stop's arrival or departure concerns: those who wait at the stop,
\* and those of the trip who have no stop.
WaitingAt(k) ==
    LET t == TripOf[k]
    IN  {e \in Employees : pax[t][e] \in Awaited /\ paxStop[t][e] \in {k, NoStop}}

\* enqueuePush: one row per recipient with a user account.
Pushes(code, t, es) == [code : {code}, trip : {t}, to : es \cap HasUser]

\* effectiveWaitSeconds: route override, else tenant policy, else the default.
EffectiveWait(t) ==
    IF RouteWait[t] # NoWait THEN RouteWait[t]
    ELSE IF policyWait # NoWait THEN policyWait ELSE DefaultWait

\* Both handlers start by reading the stop: 409 'Stop already departed'.
VisitStop(s, k, kind) ==
    /\ visit[s] = NoVisit
    /\ stopStatus[k] \notin {"none", "departed"}
    /\ visit' = [visit EXCEPT ![s] = [at |-> kind, stop |-> k, wait |-> EffectiveWait(TripOf[k])]]
    /\ UNCHANGED <<pax, paxStop, stopStatus, countdown, policyWait, outbox>>

(* POST .../arrive, its writes: the stop is marked arrived whatever became  *)
(* of it since it was read, the countdown starts, the awaited get a push.   *)
Arrive(s) ==
    LET k == visit[s].stop
    IN  /\ visit[s].at = "arrive"
        /\ stopStatus' = [stopStatus EXCEPT ![k] = "arrived"]
        /\ countdown' = [countdown EXCEPT ![k] = IF visit[s].wait = 0 THEN "over" ELSE "running"]
        /\ outbox' = outbox \cup Pushes("bus_arrived", TripOf[k], WaitingAt(k))
        /\ visit' = [visit EXCEPT ![s] = NoVisit]
        /\ UNCHANGED <<pax, paxStop, policyWait>>

\* Slip: the pushes are left to a second request that never comes.
DepartSilently(s) ==
    LET k == visit[s].stop
        t == TripOf[k]
    IN  /\ visit[s].at = "depart"
        /\ pax' = [pax EXCEPT ![t] = [e \in Employees |->
                       IF e \in WaitingAt(k) THEN "no_show" ELSE pax[t][e]]]
        /\ stopStatus' = [stopStatus EXCEPT ![k] = "departed"]
        /\ visit' = [visit EXCEPT ![s] = NoVisit]
        /\ UNCHANGED <<paxStop, countdown, policyWait, outbox>>

(* POST .../depart, its writes: whoever is awaited there is a no-show and   *)
(* told so.  Neither the arrival nor the countdown nor allow_driver_skip is *)
(* looked at.                                                               *)
Depart(s) ==
    LET k == visit[s].stop
        t == TripOf[k]
    IN  /\ visit[s].at = "depart"
        /\ pax' = [pax EXCEPT ![t] = [e \in Employees |->
                       IF e \in WaitingAt(k) THEN "no_show" ELSE pax[t][e]]]
        /\ stopStatus' = [stopStatus EXCEPT ![k] = "departed"]
        /\ outbox' = outbox \cup Pushes("no_show", t, WaitingAt(k))
        /\ visit' = [visit EXCEPT ![s] = NoVisit]
        /\ UNCHANGED <<paxStop, countdown, policyWait>>

\* ROLLBACK before anything was written.
GiveUp(s) ==
    /\ visit[s] # NoVisit
    /\ visit' = [visit EXCEPT ![s] = NoVisit]
    /\ UNCHANGED <<pax, paxStop, stopStatus, countdown, policyWait, outbox>>

\* now() passes departs_at.
CountdownEnds(k) ==
    /\ countdown[k] = "running"
    /\ countdown' = [countdown EXCEPT ![k] = "over"]
    /\ UNCHANGED <<pax, paxStop, stopStatus, policyWait, outbox, visit>>

Next ==
    \/ \E w \in Waits : SetPolicy(w)
    \/ \E k \in Stops : AddStop(k) \/ CountdownEnds(k)
    \/ \E t \in Trips, e \in Employees :
           \/ \E k \in Stops \cup {NoStop} : AddPassenger(t, e, k)
           \/ Board(t, e) \/ OnTheWay(t, e)
           \/ \E st \in Corrections : SetStatus(t, e, st)
    \/ \E s \in Sessions :
           \/ \E k \in Stops, kind \in {"arrive", "depart"} : VisitStop(s, k, kind)
           \/ Arrive(s) \/ Depart(s) \/ GiveUp(s)

Spec == Init /\ [][Next]_manifestVars
=============================================================================
