---------------------------- MODULE TripLifecycle ----------------------------
(***************************************************************************)
(* Dispatch and the trip's lifecycle (routes_trips.ts): a planner creates  *)
(* a trip, a dispatcher assigns a vehicle and a driver, the driver starts  *)
(* and completes it, an officer verifies or rejects drivers.  Start and    *)
(* complete are one guarded UPDATE with its event; assign reads the trip,  *)
(* the vehicle and the driver first and then writes unconditionally.       *)
(***************************************************************************)
EXTENDS Naturals

CONSTANTS
    Trips, Drivers, Vehicles, Sessions,
    Seats,        \* Seats[v]: vehicle.capacity of an active vehicle
    TripLimit,    \* TripLimit[t]: the capacity the planner gives the trip, or NoLimit
    Booked,       \* the values of seats_taken a planner may enter
    NoLimit, NoDriver, NoVehicle, NoTrip

VARIABLES
    tripStatus,   \* trip.status, or "none"
    tripDriver,   \* assignment.driver_id, NoDriver without a row
    tripVehicle,  \* assignment.vehicle_id
    seatsTaken,   \* trip.seats_taken
    ended,        \* trip.actual_end IS NOT NULL
    events,       \* the lifecycle rows of trip_event, one per type and trip
    verified,     \* the drivers whose verification_status is 'verified'
    dispatch      \* dispatch[s]: the assign handler session s is in

lifecycleVars == <<tripStatus, tripDriver, tripVehicle, seatsTaken, ended, events,
                   verified, dispatch>>

NoDispatch == [at |-> "idle", trip |-> NoTrip, vehicle |-> NoVehicle, driver |-> NoDriver]

-----------------------------------------------------------------------------
\* POST /v1/trips, within ck_trip_capacity.
CreateTrip(t, n) ==
    /\ tripStatus[t] = "none"
    /\ TripLimit[t] # NoLimit => n <= TripLimit[t]
    /\ tripStatus' = [tripStatus EXCEPT ![t] = "scheduled"]
    /\ seatsTaken' = [seatsTaken EXCEPT ![t] = n]
    /\ UNCHANGED <<tripDriver, tripVehicle, ended, events, verified, dispatch>>

(* Assign: the trip and an active vehicle with a seat for every booked one  *)
(* are read.                                                                *)
AssignRead(s, t, v, d) ==
    /\ dispatch[s] = NoDispatch
    /\ tripStatus[t] \in {"scheduled", "assigned"}
    /\ Seats[v] >= seatsTaken[t]
    /\ dispatch' = [dispatch EXCEPT ![s] =
                        [at |-> "read", trip |-> t, vehicle |-> v, driver |-> d]]
    /\ UNCHANGED <<tripStatus, tripDriver, tripVehicle, seatsTaken, ended, events, verified>>

\* Assign: the driver is read; whether he is available is his own affair.
AssignCheckDriver(s) ==
    /\ dispatch[s].at = "read"
    /\ dispatch[s].driver \in verified
    /\ dispatch' = [dispatch EXCEPT ![s].at = "checked"]
    /\ UNCHANGED <<tripStatus, tripDriver, tripVehicle, seatsTaken, ended, events, verified>>

\* Slip: the assignment row is left to a second request.
AssignStatusOnly(s) ==
    LET t == dispatch[s].trip
    IN  /\ dispatch[s].at = "checked"
        /\ tripStatus' = [tripStatus EXCEPT ![t] = "assigned"]
        /\ dispatch' = [dispatch EXCEPT ![s] = NoDispatch]
        /\ UNCHANGED <<tripDriver, tripVehicle, seatsTaken, ended, events, verified>>

(* Assign: the assignment is upserted and the trip set to 'assigned',       *)
(* whatever its status has become; COMMIT.                                  *)
AssignWrite(s) ==
    LET t == dispatch[s].trip
    IN  /\ dispatch[s].at = "checked"
        /\ tripDriver' = [tripDriver EXCEPT ![t] = dispatch[s].driver]
        /\ tripVehicle' = [tripVehicle EXCEPT ![t] = dispatch[s].vehicle]
        /\ tripStatus' = [tripStatus EXCEPT ![t] = "assigned"]
        /\ dispatch' = [dispatch EXCEPT ![s] = NoDispatch]
        /\ UNCHANGED <<seatsTaken, ended, events, verified>>

\* Assign: 422, or anything else that throws, before it writes.
AssignFail(s) ==
    /\ dispatch[s] # NoDispatch
    /\ dispatch' = [dispatch EXCEPT ![s] = NoDispatch]
    /\ UNCHANGED <<tripStatus, tripDriver, tripVehicle, seatsTaken, ended, events, verified>>

(* POST /v1/trips/:id/start.  When the trip has an actual_end already,      *)
(* ck_trip_times refuses a start whose transaction began after it and lets  *)
(* one pass that began before and comes late: both may happen.              *)
Start(t) ==
    /\ tripStatus[t] = "assigned"
    /\ tripStatus' = [tripStatus EXCEPT ![t] = "started"]
    /\ events' = [events EXCEPT ![t] = @ \cup {"started"}]
    /\ UNCHANGED <<tripDriver, tripVehicle, seatsTaken, ended, verified, dispatch>>

\* Slip: a trip can be completed that nobody started.
CompleteAssigned(t) ==
    /\ tripStatus[t] \in {"assigned", "started", "in_progress"}
    /\ tripStatus' = [tripStatus EXCEPT ![t] = "completed"]
    /\ ended' = [ended EXCEPT ![t] = TRUE]
    /\ events' = [events EXCEPT ![t] = @ \cup {"completed"}]
    /\ UNCHANGED <<tripDriver, tripVehicle, seatsTaken, verified, dispatch>>

\* POST /v1/trips/:id/complete
Complete(t) ==
    /\ tripStatus[t] \in {"started", "in_progress"}
    /\ tripStatus' = [tripStatus EXCEPT ![t] = "completed"]
    /\ ended' = [ended EXCEPT ![t] = TRUE]
    /\ events' = [events EXCEPT ![t] = @ \cup {"completed"}]
    /\ UNCHANGED <<tripDriver, tripVehicle, seatsTaken, verified, dispatch>>

\* POST /v1/drivers/:id/verify
VerifyDriver(d, yes) ==
    /\ verified' = IF yes THEN verified \cup {d} ELSE verified \ {d}
    /\ UNCHANGED <<tripStatus, tripDriver, tripVehicle, seatsTaken, ended, events, dispatch>>

Next ==
    \/ \E t \in Trips :
           \/ \E n \in Booked : CreateTrip(t, n)
           \/ Start(t) \/ Complete(t)
    \/ \E d \in Drivers, yes \in BOOLEAN : VerifyDriver(d, yes)
    \/ \E s \in Sessions :
           \/ \E t \in Trips, v \in Vehicles, d \in Drivers : AssignRead(s, t, v, d)
           \/ AssignCheckDriver(s) \/ AssignWrite(s) \/ AssignFail(s)
=============================================================================
