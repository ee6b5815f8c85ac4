---------------------------- MODULE RideRequests ----------------------------
(***************************************************************************)
(* Ride requests (routes_ride_requests.ts): a staff member posts a request *)
(* to one driver or to all the available ones; the first driver to claim   *)
(* it gets the rider on the manifest of a trip of his; the rider (while    *)
(* the request is open) or a manager (at any time) cancels it.             *)
(*                                                                         *)
(* Every handler is one PostgreSQL transaction at READ COMMITTED.  The     *)
(* tables below hold COMMITTED rows; what a running transaction has        *)
(* written lives in tx[s] until its last step, which commits.  One action  *)
(* is one statement, or several that no other session can tell apart from  *)
(* one.  A statement that waits for a row lock is an action that is not    *)
(* enabled.                                                                *)
(***************************************************************************)
EXTENDS Attendance, Naturals

CONSTANTS
    Requests,      \* ids of ride_request rows; also the id of the trip a
                   \* claim of that request inserts when it finds none
    Employees, Drivers,
    Slots,         \* a service date with a direction
    Sessions,      \* pooled database connections, one handler each
    Rider,         \* Rider[r]: the employee who posts r
    SlotOf,        \* SlotOf[r]: the date and direction r asks for
    Target,        \* Target[r]: target_driver_id, NoDriver for a broadcast
    Planned,       \* trips created by a dispatcher beforehand, with their
    PlanSlot, PlanDriver, PlanStatus, PlanCapacity,
    NoLimit,       \* capacity IS NULL
    NoRequest, NoDriver, NoTrip

\* A trip is planned by a dispatcher or inserted by the claim of a request.
Trips == Planned \cup Requests

\* The CHECK constraint on trip.status; "none" is a row that does not exist.
TripStatus == {"scheduled", "assigned", "started", "in_progress",
               "completed", "cancelled", "exception"}

ASSUME NamesAssumption ==
    /\ Planned \cap Requests = {}
    /\ NoRequest \notin Requests
    /\ NoDriver \notin Drivers
    /\ NoTrip \notin Trips
    /\ NoLimit \notin Nat

ASSUME DataAssumption ==
    /\ Rider \in [Requests -> Employees]
    /\ SlotOf \in [Requests -> Slots]
    /\ Target \in [Requests -> Drivers \cup {NoDriver}]
    /\ PlanSlot \in [Planned -> Slots]
    /\ PlanDriver \in [Planned -> Drivers \cup {NoDriver}]
    /\ PlanStatus \in [Planned -> TripStatus \cup {"none"}]
    /\ PlanCapacity \in [Planned -> Nat \cup {NoLimit}]

ASSUME FiniteAssumption ==
    /\ IsFiniteSet(Employees)
    /\ IsFiniteSet(Sessions)
    /\ Sessions # {}

VARIABLES
    reqStatus,   \* ride_request.status, or "none" before the row exists
    offered,     \* the rows of ride_request_offer, per request
    claimedBy,   \* ride_request.claimed_by_driver_id
    reqTrip,     \* ride_request.trip_id
    reqPax,      \* ride_request.trip_passenger_id IS NOT NULL
    tripStatus,  \* trip.status, or "none"
    tripDriver,  \* assignment.driver_id of the trip
    seatsTaken,  \* trip.seats_taken
    pax,         \* pax[t][e]: the status of e's row on t's manifest
    tx           \* the transaction each session runs

tables == <<reqStatus, offered, claimedBy, reqTrip, reqPax,
            tripStatus, tripDriver, seatsTaken, pax>>
vars == <<reqStatus, offered, claimedBy, reqTrip, reqPax,
          tripStatus, tripDriver, seatsTaken, pax, tx>>

-----------------------------------------------------------------------------
(* Rows and transactions.                                                  *)

\* service_date and direction of a trip; no handler updates them.
TripSlot(t) == IF t \in Planned THEN PlanSlot[t] ELSE SlotOf[t]

\* trip.capacity; the trip a claim inserts names none.
Capacity(t) == IF t \in Planned THEN PlanCapacity[t] ELSE NoLimit

\* Where a claim stands, in the order of its statements.
ClaimPoints == {"claimed", "found", "checked", "seated", "counted"}
CancelPoints == {"cancelling", "removed", "recounted"}

Idle == [at |-> "idle", req |-> NoRequest, by |-> NoDriver, trip |-> NoTrip,
         pid |-> FALSE, seats |-> 0]

\* The claim's UPDATE of ride_request keeps the row locked until it ends.
HoldsRequest(s, r) == tx[s].at \in ClaimPoints /\ tx[s].req = r

\* Slip: a cancellation that read-locks the row before it updates it.
HoldsRowShared(s, t, e) ==
    /\ tx[s].at \in {"seated", "counted", "cancelling", "removed", "recounted"}
    /\ tx[s].pid
    /\ tx[s].trip = t
    /\ Rider[tx[s].req] = e

\* Uncommitted writes of the manifest row (t, e): a claim that inserted it, a
\* cancellation that marked it removed.
HoldsRow(s, t, e) ==
    /\ tx[s].at \in {"seated", "counted", "removed", "recounted"}
    /\ tx[s].pid
    /\ tx[s].trip = t
    /\ Rider[tx[s].req] = e

\* The manifest as session s sees it: the committed rows and its own write.
ManifestSeen(s) ==
    LET t == tx[s].trip
        e == Rider[tx[s].req]
        own == IF tx[s].at \in ClaimPoints THEN "expected" ELSE "removed"
    IN  IF HoldsRow(s, t, e) THEN [pax[t] EXCEPT ![e] = own] ELSE pax[t]

\* Slip: only those already on the bus are counted.
BoardedCount(row) == Cardinality({e \in DOMAIN row : row[e] = "boarded"})

\* activeCount(): SELECT count(*) ... status IN ('expected','on_the_way','boarded')
ActiveCount(row) == Cardinality(Occupants(row))

-----------------------------------------------------------------------------
Init ==
    /\ reqStatus = [r \in Requests |-> "none"]
    /\ offered = [r \in Requests |-> {}]
    /\ claimedBy = [r \in Requests |-> NoDriver]
    /\ reqTrip = [r \in Requests |-> NoTrip]
    /\ reqPax = [r \in Requests |-> FALSE]
    /\ tripStatus = [t \in Trips |-> IF t \in Planned THEN PlanStatus[t] ELSE "none"]
    /\ tripDriver = [t \in Trips |-> IF t \in Planned THEN PlanDriver[t] ELSE NoDriver]
    /\ seatsTaken = [t \in Trips |-> 0]
    /\ pax = [t \in Trips |-> [e \in Employees |-> Absent]]
    /\ tx = [s \in Sessions |-> Idle]

(* POST /v1/ride-requests: the row and its offers in one transaction whose  *)
(* effects nobody sees before it commits.  A broadcast goes to whoever is   *)
(* verified and available at that moment, possibly nobody.                  *)
Create(r) ==
    /\ reqStatus[r] = "none"
    /\ reqStatus' = [reqStatus EXCEPT ![r] = "open"]
    /\ \E ds \in SUBSET Drivers :
           /\ Target[r] # NoDriver => ds = {Target[r]}
           /\ offered' = [offered EXCEPT ![r] = ds]
    /\ UNCHANGED <<claimedBy, reqTrip, reqPax, tripStatus, tripDriver,
                   seatsTaken, pax, tx>>

\* Slip: UPDATE ride_request without AND status='open'.
ClaimTakeAny(s, r, d) ==
    /\ tx[s] = Idle
    /\ d \in offered[r]
    /\ \A other \in Sessions : ~ HoldsRequest(other, r)
    /\ tx' = [tx EXCEPT ![s] = [Idle EXCEPT !.at = "claimed", !.req = r, !.by = d]]
    /\ UNCHANGED tables

(* Claim: the offer is read, then UPDATE ... WHERE status='open' takes the  *)
(* row, waiting for another transaction that holds it.                      *)
ClaimTake(s, r, d) ==
    /\ tx[s] = Idle
    /\ d \in offered[r]
    /\ reqStatus[r] = "open"
    /\ \A other \in Sessions : ~ HoldsRequest(other, r)
    /\ tx' = [tx EXCEPT ![s] = [Idle EXCEPT !.at = "claimed", !.req = r, !.by = d]]
    /\ UNCHANGED tables

\* Slip: the join on assignment loses its driver.
OpenTripsOfAll(d, slot) ==
    {t \in Trips : /\ tripStatus[t] \notin {"none", "completed", "cancelled"}
                   /\ TripSlot(t) = slot}

\* The driver's trips for the slot that the SELECT ... LIMIT 1 may return.
OpenTrips(d, slot) ==
    {t \in Trips : /\ tripStatus[t] \notin {"none", "completed", "cancelled"}
                   /\ tripDriver[t] = d
                   /\ TripSlot(t) = slot}

(* Claim: any of the driver's open trips (no ORDER BY), or a new trip,      *)
(* named after the request, which stays invisible until the commit.         *)
FindTrip(s) ==
    /\ tx[s].at = "claimed"
    /\ LET found == OpenTrips(tx[s].by, SlotOf[tx[s].req])
       IN  \E t \in (IF found = {} THEN {tx[s].req} ELSE found) :
               tx' = [tx EXCEPT ![s].at = "found", ![s].trip = t]
    /\ UNCHANGED tables

Full(s) ==
    /\ Capacity(tx[s].trip) # NoLimit
    /\ ActiveCount(ManifestSeen(s)) >= Capacity(tx[s].trip)

\* Claim: the capacity check passes.
CheckCapacity(s) ==
    /\ tx[s].at = "found"
    /\ ~ Full(s)
    /\ tx' = [tx EXCEPT ![s].at = "checked"]
    /\ UNCHANGED tables

\* Claim: 'The driver's trip is full' is thrown and withTenant rolls back.
RejectFull(s) ==
    /\ tx[s].at = "found"
    /\ Full(s)
    /\ tx' = [tx EXCEPT ![s] = Idle]
    /\ UNCHANGED tables

\* Slip: ON CONFLICT DO UPDATE, which returns the id of a row that existed.
AddRiderUpsert(s) ==
    /\ tx[s].at = "checked"
    /\ \A other \in Sessions : ~ HoldsRow(other, tx[s].trip, Rider[tx[s].req])
    /\ tx' = [tx EXCEPT ![s].at = "seated", ![s].pid = TRUE]
    /\ UNCHANGED tables

(* Claim: INSERT ... ON CONFLICT DO NOTHING RETURNING id.  A committed row  *)
(* of the rider, whatever its status, yields no id; an uncommitted one of   *)
(* another session makes the statement wait.                                *)
AddRider(s) ==
    LET row == pax[tx[s].trip][Rider[tx[s].req]] IN
    /\ tx[s].at = "checked"
    /\ row = Absent =>
           \A other \in Sessions : ~ HoldsRow(other, tx[s].trip, Rider[tx[s].req])
    /\ tx' = [tx EXCEPT ![s].at = "seated", ![s].pid = (row = Absent)]
    /\ UNCHANGED tables

\* Claim: the recount, which does not see what others have not committed.
Recount(s) ==
    /\ tx[s].at = "seated"
    /\ tx' = [tx EXCEPT ![s].at = "counted", ![s].seats = ActiveCount(ManifestSeen(s))]
    /\ UNCHANGED tables

\* ck_trip_capacity: CHECK (capacity IS NULL OR seats_taken <= capacity).
SeatsAllowed(s) ==
    Capacity(tx[s].trip) # NoLimit => tx[s].seats <= Capacity(tx[s].trip)

\* Slip: the trip is set to 'assigned' whether it was found or inserted.
FinishClaimRestatus(s) ==
    LET r == tx[s].req
        t == tx[s].trip
    IN  /\ tx[s].at = "counted"
        /\ SeatsAllowed(s)
        /\ reqStatus' = [reqStatus EXCEPT ![r] = "assigned"]
        /\ claimedBy' = [claimedBy EXCEPT ![r] = tx[s].by]
        /\ reqTrip' = [reqTrip EXCEPT ![r] = t]
        /\ reqPax' = [reqPax EXCEPT ![r] = tx[s].pid]
        /\ tripStatus' = [tripStatus EXCEPT ![t] = "assigned"]
        /\ tripDriver' = [tripDriver EXCEPT ![t] = tx[s].by]
        /\ pax' = [pax EXCEPT ![t] = ManifestSeen(s)]
        /\ seatsTaken' = [seatsTaken EXCEPT ![t] = tx[s].seats]
        /\ tx' = [tx EXCEPT ![s] = Idle]
        /\ UNCHANGED offered

(* Claim: UPDATE trip, UPDATE ride_request, COMMIT.  The trip's row is      *)
(* locked from the first to the last only, so no session sees it locked     *)
(* between two actions.                                                     *)
FinishClaim(s) ==
    LET r == tx[s].req
        t == tx[s].trip
    IN  /\ tx[s].at = "counted"
        /\ SeatsAllowed(s)
        /\ reqStatus' = [reqStatus EXCEPT ![r] = "assigned"]
        /\ claimedBy' = [claimedBy EXCEPT ![r] = tx[s].by]
        /\ reqTrip' = [reqTrip EXCEPT ![r] = t]
        /\ reqPax' = [reqPax EXCEPT ![r] = tx[s].pid]
        /\ tripStatus' = [tripStatus EXCEPT ![t] = IF t = r THEN "assigned" ELSE @]
        /\ tripDriver' = [tripDriver EXCEPT ![t] = IF t = r THEN tx[s].by ELSE @]
        /\ pax' = [pax EXCEPT ![t] = ManifestSeen(s)]
        /\ seatsTaken' = [seatsTaken EXCEPT ![t] = tx[s].seats]
        /\ tx' = [tx EXCEPT ![s] = Idle]
        /\ UNCHANGED offered

\* Slip: trip_passenger_id is taken to be there.
CancelReadUnchecked(s, r, manager) ==
    /\ tx[s] = Idle
    /\ reqStatus[r] # "none"
    /\ manager \/ reqStatus[r] = "open"
    /\ tx' = [tx EXCEPT ![s] = [Idle EXCEPT !.at = "cancelling", !.req = r,
                                            !.trip = reqTrip[r], !.pid = TRUE]]
    /\ UNCHANGED tables

(* Cancel: the row is read without a lock.  A rider passes only while it is *)
(* open; a manager always does.                                             *)
CancelRead(s, r, manager) ==
    /\ tx[s] = Idle
    /\ reqStatus[r] # "none"
    /\ manager \/ reqStatus[r] = "open"
    /\ tx' = [tx EXCEPT ![s] = [Idle EXCEPT !.at = "cancelling", !.req = r,
                                            !.trip = reqTrip[r], !.pid = reqPax[r]]]
    /\ UNCHANGED tables

\* Cancel: UPDATE trip_passenger SET status='removed', whatever the status was.
CancelRemove(s) ==
    /\ tx[s].at = "cancelling"
    /\ tx[s].pid
    /\ \A other \in Sessions : ~ HoldsRow(other, tx[s].trip, Rider[tx[s].req])
    /\ tx' = [tx EXCEPT ![s].at = "removed"]
    /\ UNCHANGED tables

(* Cancel: the subquery of UPDATE trip is evaluated on the statement's      *)
(* snapshot, before the statement waits for the trip's row.                 *)
CancelRecount(s) ==
    /\ tx[s].at = "removed"
    /\ tx' = [tx EXCEPT ![s].at = "recounted", ![s].seats = ActiveCount(ManifestSeen(s))]
    /\ UNCHANGED tables

(* Cancel: the trip's counter if a rider was removed, then the request, in  *)
(* whatever state it is by now, once no claim holds it; COMMIT.             *)
FinishCancel(s) ==
    LET r == tx[s].req
        t == tx[s].trip
    IN  /\ \/ /\ tx[s].at = "recounted"
              /\ SeatsAllowed(s)
              /\ seatsTaken' = [seatsTaken EXCEPT ![t] = tx[s].seats]
              /\ pax' = [pax EXCEPT ![t] = ManifestSeen(s)]
           \/ /\ tx[s].at = "cancelling"
              /\ ~ tx[s].pid
              /\ UNCHANGED <<seatsTaken, pax>>
        /\ \A other \in Sessions : ~ HoldsRequest(other, r)
        /\ reqStatus' = [reqStatus EXCEPT ![r] = "cancelled"]
        /\ tx' = [tx EXCEPT ![s] = Idle]
        /\ UNCHANGED <<offered, claimedBy, reqTrip, reqPax, tripStatus, tripDriver>>

\* Slip: the transaction is ended by a COMMIT whatever was thrown.
AbortKeeping(s) ==
    /\ tx[s].at # "idle"
    /\ pax' = IF HoldsRow(s, tx[s].trip, Rider[tx[s].req])
              THEN [pax EXCEPT ![tx[s].trip] = ManifestSeen(s)] ELSE pax
    /\ tx' = [tx EXCEPT ![s] = Idle]
    /\ UNCHANGED <<reqStatus, offered, claimedBy, reqTrip, reqPax,
                   tripStatus, tripDriver, seatsTaken>>

(* Anything that throws, a lost connection or a violated constraint at any  *)
(* statement: ROLLBACK.                                                     *)
Abort(s) ==
    /\ tx[s].at # "idle"
    /\ tx' = [tx EXCEPT ![s] = Idle]
    /\ UNCHANGED tables

-----------------------------------------------------------------------------
\* The statements a running transaction still has to execute.
Advance(s) ==
    \/ FindTrip(s) \/ CheckCapacity(s) \/ RejectFull(s) \/ AddRider(s)
    \/ Recount(s) \/ FinishClaim(s)
    \/ CancelRemove(s) \/ CancelRecount(s) \/ FinishCancel(s)
    \/ (tx[s].at \in {"counted", "recounted"} /\ ~ SeatsAllowed(s) /\ Abort(s))

Next ==
    \/ \E r \in Requests : Create(r)
    \/ \E s \in Sessions :
           \/ \E r \in Requests, d \in Drivers : ClaimTake(s, r, d)
           \/ \E r \in Requests, manager \in BOOLEAN : CancelRead(s, r, manager)
           \/ Advance(s)
           \/ Abort(s)

Spec == Init /\ [][Next]_vars

(* A handler that was started runs on: Node schedules every resolved query, *)
(* and PostgreSQL grants a row lock to the waiters in the order they came,  *)
(* so a statement that can proceed again and again does proceed.            *)
FairSpec == Spec /\ \A s \in Sessions : SF_vars(Advance(s))

-----------------------------------------------------------------------------
(* Properties.                                                             *)

TxRecord == [at : {"idle"} \cup ClaimPoints \cup CancelPoints,
             req : Requests \cup {NoRequest},
             by : Drivers \cup {NoDriver},
             trip : Trips \cup {NoTrip},
             pid : BOOLEAN,
             seats : Nat]

\* A running handler has read the rows its next statement needs.
HandlerOK(x) ==
    /\ x.at # "idle" => x.req \in Requests
    /\ x.at \in ClaimPoints => x.by \in Drivers
    /\ x.at \in ClaimPoints \ {"claimed"} => x.trip \in Trips
    /\ x.at \in CancelPoints /\ x.pid => x.trip \in Trips
    /\ x.at \in {"removed", "recounted"} => x.pid

(* Every table holds what its columns allow, and every handler has the rows *)
(* it needs.                                                                *)
TypeOK ==
    /\ reqStatus \in [Requests -> {"none", "open", "assigned", "cancelled"}]
    /\ offered \in [Requests -> SUBSET Drivers]
    /\ claimedBy \in [Requests -> Drivers \cup {NoDriver}]
    /\ reqTrip \in [Requests -> Trips \cup {NoTrip}]
    /\ reqPax \in [Requests -> BOOLEAN]
    /\ tripStatus \in [Trips -> TripStatus \cup {"none"}]
    /\ tripDriver \in [Trips -> Drivers \cup {NoDriver}]
    /\ seatsTaken \in [Trips -> Nat]
    /\ pax \in [Trips -> [Employees -> PassengerStatus \cup {Absent}]]
    /\ tx \in [Sessions -> TxRecord]
    /\ \A s \in Sessions : HandlerOK(tx[s])
    /\ \A r \in Requests : reqPax[r] => reqTrip[r] \in Trips

(* The comment "Atomic first-wins claim": seen through its status, offers   *)
(* and driver columns the table is the abstract board, on which a request   *)
(* has one winner, an offered driver, for ever, and a cancelled one none    *)
(* after.                                                                   *)
Board == INSTANCE RideBoard WITH status <- reqStatus, offers <- offered,
                                 winner <- claimedBy
BoardSpec == Board!Spec

\* The sessions that have passed the capacity check of trip t and not ended.
Boarding(t) ==
    {s \in Sessions : /\ tx[s].at \in {"checked", "seated", "counted"}
                      /\ tx[s].trip = t
                      /\ tx[s].at # "checked" => tx[s].pid}

(* Overbooking by check-then-insert is bounded by the number of concurrent  *)
(* handlers: of n claims that pass the check on the same count, n - 1 can   *)
(* be too many.  With one connection the trip is never overbooked.          *)
OverbookingBounded ==
    \A t \in Trips : Capacity(t) # NoLimit =>
        Cardinality(Occupants(pax[t])) + Cardinality(Boarding(t))
            <= Capacity(t) + Cardinality(Sessions) - 1

(* A manifest row belongs to one request: two claims for one rider never    *)
(* both believe they inserted it, so that cancelling one request cannot     *)
(* remove the row another request put there.                                *)
OneRequestPerRow ==
    \A r1, r2 \in Requests :
        reqPax[r1] /\ reqPax[r2] /\ reqTrip[r1] = reqTrip[r2] /\ Rider[r1] = Rider[r2]
            => r1 = r2

(* Whoever is on a manifest was put there by a claimed request, and whoever *)
(* was removed, by the cancellation of that request.                        *)
RowsBacked ==
    \A t \in Trips, e \in Employees : pax[t][e] # Absent =>
        \E r \in Requests : /\ Rider[r] = e
                            /\ reqTrip[r] = t
                            /\ reqPax[r]
                            /\ claimedBy[r] = tripDriver[t]
                            /\ TripSlot(t) = SlotOf[r]
                            /\ pax[t][e] = "removed" => reqStatus[r] = "cancelled"

(* The handlers take the request's row, the rider's row and the trip's row  *)
(* in an order that cannot deadlock: whatever was started ends.             *)
TransactionsEnd == \A s \in Sessions : tx[s].at # "idle" ~> tx[s].at = "idle"

(* docs/16: cancelling a claimed request takes the rider off the manifest.  *)
CancelledOffManifest ==
    \A r \in Requests : reqStatus[r] = "cancelled" /\ reqPax[r] =>
        pax[reqTrip[r]][Rider[r]] \notin OnManifest

(* docs/16: claiming adds the rider to the driver's manifest.               *)
AssignedOnManifest ==
    \A r \in Requests : reqStatus[r] = "assigned" =>
        pax[reqTrip[r]][Rider[r]] \in OnManifest
=============================================================================
