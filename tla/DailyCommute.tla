---------------------------- MODULE DailyCommute ----------------------------
(***************************************************************************)
(* The ride requests, the manifest and the trip lifecycle over one         *)
(* database: they share the tables trip, assignment and trip_passenger and *)
(* the connections of the pool.  Each handler is correct about its own     *)
(* rows; this module is about what they do to one another's.               *)
(***************************************************************************)
EXTENDS RideRequests

CONSTANTS
    Stops, TripOf, HasUser, RouteWait, Waits, Corrections, DefaultWait, NoWait, NoStop,
    Vehicles, Seats, Booked, NoVehicle

ASSUME CommuteAssumption ==
    /\ TripOf \in [Stops -> Trips]
    /\ HasUser \subseteq Employees
    /\ RouteWait \in [Trips -> Nat \cup {NoWait}]
    /\ Waits \subseteq Nat
    /\ Corrections \subseteq {"excused", "on_leave", "removed", "expected"}
    /\ DefaultWait \in Nat
    /\ NoWait \notin Nat
    /\ NoStop \notin Stops
    /\ Seats \in [Vehicles -> Nat]
    /\ Booked \subseteq Nat
    /\ NoVehicle \notin Vehicles

\* routes_trips.ts writes a status other than 'scheduled' only where it has
\* just written, or requires, the assignment.
ASSUME PlanAssumption ==
    \A p \in Planned : PlanStatus[p] \notin {"none", "scheduled"} => PlanDriver[p] \in Drivers

VARIABLES
    paxStop, stopStatus, countdown, policyWait, outbox, visit,
    tripVehicle, ended, events, verified, dispatch

TripLimit == [t \in Trips |-> Capacity(t)]

M == INSTANCE TripManifest
L == INSTANCE TripLifecycle

manifestOnly == <<paxStop, stopStatus, countdown, policyWait, outbox, visit>>
lifecycleOnly == <<tripVehicle, ended, events, verified, dispatch>>
commuteVars == <<vars, manifestOnly, lifecycleOnly>>

CommuteInit ==
    /\ Init
    /\ M!Init
    /\ tripVehicle = [t \in Trips |-> NoVehicle]
    /\ ended = [t \in Trips |-> tripStatus[t] = "completed"]
    /\ events = [t \in Trips |->
           CASE tripStatus[t] = "completed" -> {"started", "completed"}
             [] tripStatus[t] \in {"started", "in_progress"} -> {"started"}
             [] OTHER -> {}]
    /\ verified = Drivers
    /\ dispatch = [s \in Sessions |-> L!NoDispatch]

\* A statement of the manifest waits for the rows a ride-request handler has
\* written and not committed.
RowLocks ==
    \A t \in Trips, e \in Employees :
        (\E s \in Sessions : HoldsRow(s, t, e)) => pax'[t][e] = pax[t][e]

\* Slip: the tables have no foreign key to trip.
NoForeignKeys == TRUE

\* trip_passenger.trip_id and trip_stop.trip_id REFERENCES trip(id).
ForeignKeys ==
    /\ \A t \in Trips : tripStatus[t] = "none" => pax'[t] = pax[t]
    /\ \A k \in Stops : tripStatus[TripOf[k]] = "none" => stopStatus'[k] = stopStatus[k]

\* A connection runs one handler at a time.
RideStep ==
    /\ Next
    /\ \A s \in Sessions : tx'[s] # Idle => visit[s] = M!NoVisit /\ dispatch[s] = L!NoDispatch
    /\ UNCHANGED <<manifestOnly, lifecycleOnly>>

ManifestStep ==
    /\ M!Next
    /\ RowLocks
    /\ ForeignKeys
    /\ \A s \in Sessions : visit'[s] # M!NoVisit => tx[s] = Idle /\ dispatch[s] = L!NoDispatch
    /\ UNCHANGED <<reqStatus, offered, claimedBy, reqTrip, reqPax, tripStatus, tripDriver,
                   seatsTaken, tx, lifecycleOnly>>

LifecycleStep ==
    /\ L!Next
    /\ \A t \in Trips \ Planned : tripStatus[t] = "none" => tripStatus'[t] = "none"
    /\ \A s \in Sessions : dispatch'[s] # L!NoDispatch => tx[s] = Idle /\ visit[s] = M!NoVisit
    /\ UNCHANGED <<reqStatus, offered, claimedBy, reqTrip, reqPax, pax, tx, manifestOnly>>

CommuteNext == RideStep \/ ManifestStep \/ LifecycleStep

CommuteSpec == CommuteInit /\ [][CommuteNext]_commuteVars

-----------------------------------------------------------------------------
(* Properties.                                                             *)

\* The tables of the three components, all together, hold what they may.
CommuteTypeOK ==
    /\ TypeOK
    /\ paxStop \in [Trips -> [Employees -> Stops \cup {NoStop}]]
    /\ stopStatus \in [Stops -> {"none", "pending", "arrived", "departed"}]
    /\ countdown \in [Stops -> {"none", "running", "over"}]
    /\ policyWait \in Waits \cup {NoWait}
    /\ outbox \subseteq [code : {"bus_arrived", "no_show"}, trip : Trips, to : HasUser]
    /\ tripVehicle \in [Trips -> Vehicles \cup {NoVehicle}]
    /\ verified \subseteq Drivers
    /\ \A t \in Trips : tripStatus[t] = "none" => \A e \in Employees : pax[t][e] = Absent

(* The moves an attendance row may make, whichever of the three components  *)
(* writes it: only the waiting are boarded or missed, only the expected set *)
(* out, and a boarded rider leaves the bus's list only because the request  *)
(* that put him there is cancelled at that moment.                          *)
LegalMove(t, e) ==
    LET old == pax[t][e]
        new == pax'[t][e]
    IN  \/ new = old
        \/ old = Absent /\ new = "expected"
        \/ old = "expected" /\ new = "on_the_way"
        \/ old \in Awaited /\ new \in {"boarded", "no_show"}
        \/ old \notin {Absent, "boarded"} /\ new \in {"excused", "on_leave", "removed", "expected"}
        \/ /\ old = "boarded" /\ new = "removed"
           /\ \E r \in Requests : /\ reqPax[r] /\ reqTrip[r] = t /\ Rider[r] = e
                                  /\ reqStatus[r] # "none" /\ reqStatus'[r] = "cancelled"
LegalMoves == [][\A t \in Trips, e \in Employees : LegalMove(t, e)]_commuteVars

(* Whoever is recorded as a no-show on a trip and has an account has been   *)
(* queued the push that says so, in the same commit.                        *)
NoShowTold ==
    \A t \in Trips, e \in HasUser : pax[t][e] = "no_show" =>
        [code |-> "no_show", trip |-> t, to |-> e] \in outbox

(* A trip that is assigned, under way or over has a driver, whether a claim *)
(* or a dispatcher gave it one.                                             *)
AssignedHasDriver ==
    \A t \in Trips : tripStatus[t] \notin {"none", "scheduled"} => tripDriver[t] \in Drivers

(* The event log agrees with the status: a completed trip has its start and *)
(* its end logged, and a trip that has an end keeps both, whatever an       *)
(* assign that comes late makes of its status.                              *)
EventsComplete ==
    \A t \in Trips : tripStatus[t] = "completed" \/ ended[t] =>
        {"started", "completed"} \subseteq events[t]

(* Only an assign that had read the trip before takes it back from          *)
(* 'completed': every other handler leaves a completed trip completed.      *)
ReopenedByAssign ==
    [][\A t \in Trips : tripStatus[t] = "completed" /\ tripStatus'[t] # "completed" =>
           /\ tripStatus'[t] = "assigned"
           /\ \E s \in Sessions : dispatch[s].at = "checked" /\ dispatch[s].trip = t]_commuteVars
=============================================================================
