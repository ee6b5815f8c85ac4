# TLA+ verification of ETMS

ETMS runs the daily commute of companies: staff ask for rides, dispatchers plan
trips, drivers work through a passenger manifest, and payroll deducts the rides.
The backend is a Fastify server (`src/backend/src`) over PostgreSQL
(`src/db/migrations`); a Flutter app (`src/etms_app`) talks to it and queues
changes while offline.  All of the program's state that outlives a request is in
the database, every handler is one transaction at READ COMMITTED
(`app/db/pool.ts`), and the API is meant to run in several replicas.  What can go
wrong is therefore mostly what *two handlers, each right on its own, do to one
another's rows*; that is what these modules are about.

## 1. Inventory

Paths are relative to `src/`; `b/` stands for `backend/src/`.

| Component | Code | State | Operations | Hard because |
|---|---|---|---|---|
| Ride requests | `b/app/routes_ride_requests.ts` | `ride_request`, `ride_request_offer`, rows of `trip_passenger`, `trip.seats_taken` | create, claim, cancel | claims race with claims and cancels; check-then-insert on the capacity; a counter recomputed from a snapshot |
| Trip manifest and stops | `b/app/routes_manifest.ts`, `b/domain/commute/manifest.ts` | `trip_stop`, `trip_passenger`, `tenant_transport_policy`, queued pushes | policy, add stop, add passenger, board, on the way, status, arrive, depart | attendance rows have five writers; depart marks many rows and queues pushes at once |
| Dispatch and lifecycle | `b/app/routes_trips.ts` | `trip.status`, `assignment`, `trip_event`, driver verification | create, assign, start, complete, verify | assign reads, then writes without a guard |
| Transactions and pool | `b/app/db/pool.ts` | connections, open transactions | begin, commit, rollback | uncommitted rows are invisible; any statement may throw |
| Notification outbox | `b/domain/notifications/*`, `b/scripts/notification-worker.ts` | `notification` | enqueue, claim with lease, deliver, record, send inline | leases, crashes, overtaking writers, retries |
| Usage and payroll | `b/app/routes_usage.ts`, `b/domain/usage/*`, `b/domain/checkin/*` | `transport_usage`, `payroll_usage_export` | check-in, manual ride, waive, export | each ride must be deducted once; the key of a batch is a hash of counts |
| Sessions, single sign-on | `b/app/routes_auth.ts`, `b/app/auth_tokens.ts`, `b/app/routes_sso.ts`, V0002, V0015, V0017 | `user_session`, `sso_auth_state`, `app_user`, throttle rows | login, refresh, logout, change password, authorize, callback | look-up, revoke and issue are separate transactions; a change of password revokes what exists, not what is about to |
| Self registration | `b/app/routes_registration.ts`, `b/domain/registration/*`, V0019 | `registration_request`, `hr_roster`, accounts | start, verify code, approve, reject, upload | handlers wait for providers between reading and writing by id; a throw rolls back what was counted before it |
| Driver plans | `b/app/routes_driver_plan.ts` | `driver_route_plan` | propose, approve, reject | a proposal deletes by id the row it read as open |
| Eligibility, HR sync | `b/app/routes_eligibility.ts`, `b/domain/eligibility/*`, `b/app/routes_hr.ts`, `b/domain/hr/*` | `eligibility_decision`, `hr_violation`, `eligibility_policy` | evaluate, decide, override, set policy, sync | a decision reads three tables in three statements |
| Mobile offline sync | `etms_app/lib/core/offline/*` | the app's SQLite outbox | enqueue, drain, mark, retry | the app dies or loses the network anywhere |
| Feature flags | `b/app/feature_flags.ts` | cache per process | read, invalidate | a read in flight refills an invalidated cache |
| Platform administration | `b/app/routes_platform.ts` | `tenant`, `tenant_subscription`, `tenant_feature`, `platform_event` | provision, suspend, activate, set plan, set feature | overlapping transactions with one audit trail; the cache is cleared before the commit |
| Live tracking | `b/app/tracking_hub.ts`, `b/app/routes_tracking.ts` | `vehicle_ping`, `vehicle_last_position`, LISTEN connection, subscribers | ingest, subscribe, notify, drop, reconnect, close | late and overlapping batches; callbacks around awaits |
| Fuel and violations | `b/app/routes_fuel_violations.ts` | `fuel_log`, `traffic_violation` | create, correct, set status, delete | single statements by id, any status to any other |
| Costing, optimisation, ERP, roles, CRUD, feedback, utilities, UI | see `PROJECT.json` | rows or none | pure computations and single-row writes | little or no interaction |

How they interact: a ride request's claim writes the manifest and the trip of
dispatch; the manifest's arrive and depart, and every other producer, insert rows
the notification worker drains; check-in writes the payroll ledger; the app's
outbox replays calls to the handlers; an approved registration creates the driver
whose plans and the employee whose eligibility is decided; the CRUD handlers change
the rows that sessions and decisions read; a platform operator's toggle clears the
flags that gate the tracking stream.  Except for that toggle, and the hub that the
stream's handler calls, components of the backend meet only in the tables.

What makes each correct:

- *requests*: one winner, who was offered the request; a manifest row belongs to
  one request; cancelled riders are off, assigned riders on the manifest; no
  trip overbooked; every handler ends;
- *manifest*: attendance moves only along legal lines; a no-show is told;
- *lifecycle*: completed is final; nothing is under way without a driver; the
  event log agrees with the status;
- *outbox*: nothing lost, nothing falsely 'sent', nothing given up early,
  duplicates only for a reason;
- *payroll*: no ride deducted twice, none forgotten, a waived one never;
- *sessions*: one successor per refresh token, no session of an earlier password;
- *registration*: one account and one approved request per roster entry;
- *plans*: an approved plan stays;
- *eligibility*: what the rules approved fits the facts it was recorded with;
- *tracking*: the stored position is the newest; a stream shows what the fleet view
  reads; streams do not go dark, and do not linger without their client;
- *flags, platform*: a toggle is seen in time; the audit trail tells what stands;
- *mobile*: every queued change arrives once; the drain loop ends.

## 2. Plan

Done in this order, most important behaviour first:

1. `Attendance`, `RideBoard`, `RideRequests`, proofs in `RideRequestsProofs`;
2. `TripManifest`, `TripLifecycle`, composed by `DailyCommute`;
3. `NotificationOutbox`, proofs in `NotificationOutboxProofs`;
4. `PayrollUsage`, proofs in `PayrollUsageProofs`;
5. `MobileSync`, `SyncQueue`, proofs in `MobileSyncProofs`;
6. `AuthSessions`, proofs in `AuthSessionsProofs`;
7. `VehiclePositions` and `TrackingHub`, composed by `LiveTracking`, proofs in
   `LiveTrackingProofs`;
8. `Registration`, `DriverPlans` and `Eligibility`, composed by `Onboarding`, proofs
   in `OnboardingProofs`;
9. `FeatureFlags`, extended by `Companies`, proofs in `CompaniesProofs`.

Still to do, in this order:

10. the pure algorithms (`planRetry` with its backoff, `effectiveWaitSeconds`,
    `manifestCounts`, `summarizeUsage`) as operators against reference definitions;
11. a run of `TripManifest` with two sessions, for an arrive and a depart that
    overlap; the login throttle; provisioning's later statements.

Every safety property of the passing runs is also a theorem (section 5); what step
11 adds is to be proved with it.

## 3. Modules

**`Attendance`** holds the statuses of a `trip_passenger` row and the groups that
the SQL tests for (`Awaited`, `OnManifest`).  `Absent` is a row that does not
exist; the unique key (trip, employee) makes one value per pair enough.

**`RideRequests`** models the transactions of `routes_ride_requests.ts` statement
by statement.  The table variables hold *committed* rows.  What a transaction has
read and written lives in `tx[s]`, one record per pooled connection `s`, whose
field `at` is the program counter: a claim goes through `claimed` (it holds the
request's row), `found`, `checked`, `seated` (the manifest row is written),
`counted`, and commits in `FinishClaim`; a cancel through `cancelling`, `removed`,
`recounted` and `FinishCancel`.  `Abort` is the `catch` of `withTenant`, possible
at any point.  `ManifestSeen(s)` is the snapshot a statement of `s` reads: the
committed rows and its own.  `HoldsRequest` and `HoldsRow` are the row locks; a
statement that waits for one is an action that is not enabled.  Writing the
trip's row and committing happen in one action because nothing happens between
them that others could see.  A trip inserted by the claim of request `r` has the
id `r`.

| Action | Code (`routes_ride_requests.ts`) |
|---|---|
| `Create` | 83-160 |
| `ClaimTake` | 207-219, offer and `UPDATE ... WHERE status='open'` |
| `FindTrip` | 221-243 |
| `CheckCapacity`, `RejectFull` | 256-258 |
| `AddRider` | 260-267, `INSERT ... ON CONFLICT DO NOTHING` |
| `Recount`, `FinishClaim` | 269-276, commit |
| `CancelRead` | 284-291 |
| `CancelRemove`, `CancelRecount`, `FinishCancel` | 293-305, commit |

**`RideBoard`** is what the feature promises, with no transactions: a request is
posted to some drivers, one offered driver may win it while it is open, it may be
withdrawn.  `RideRequests` implements it under the mapping that reads the three
columns `status`, the offers and `claimed_by_driver_id` (property `BoardSpec`).

**`TripManifest`** models `routes_manifest.ts`: single guarded updates are one
action; arrive and depart are a read (`VisitStop`) and a write.  Time is reduced
to whether a stop's countdown has ended.

**`TripLifecycle`** models `routes_trips.ts`: assign is `AssignRead`,
`AssignCheckDriver`, `AssignWrite`, the others are one action each.

**`DailyCommute`** EXTENDS `RideRequests` and INSTANCEs the two others over the
same `tripStatus`, `tripDriver`, `seatsTaken` and `pax`.  A connection runs one
handler at a time; a statement of the manifest waits for rows that a ride-request
transaction has written (`RowLocks`); foreign keys keep rows off trips that do
not exist.

**`NotificationOutbox`** models worker and send endpoint.  `due[m]` says whether
`next_attempt_at` is null or past, so that a lease or a backoff may end at any
moment: the code bounds neither a provider's answer nor the time a batch takes.
`tries`, `accepted` and `overrun` are history variables.

**`PayrollUsage`** models `routes_usage.ts` and the check-in of `routes.ts`.  A ride
is an element of the constant `Rides` with an employee (`RiderOf`) and a date
(`DateOf`); a batch is the record of an export with the set of rides it counted,
so that "deducted twice" is membership in two batches.  `Key` is what `deriveKey`
hashes: period, target and the counts of `Summary`, and not which rides they are.
An export runs in `tx[s]` like a claim does:

| Action | Code (`routes_usage.ts` unless named) |
|---|---|
| `CheckIn` | `routes.ts` 133-179, QR verified, `INSERT ... ON CONFLICT DO NOTHING` |
| `RecordManually` | 27-55 |
| `Waive` | 119-136, `UPDATE ... WHERE deduction_status='pending'` |
| `ExportRead` | 140-175, the pending billable rides of the window, the batch |
| `ExportExisting`, `ExportNew` | 177-187, look the key up |
| `ExportInsert` | 189-201; waits for a transaction that holds the same key |
| `ExportPost` | 203-213, mark by id, commit |
| `Abort` | `pool.ts` 70-75, also where the unique key refuses the insert |

**`MobileSync`** models the app's outbox.  Dart runs one piece of code at a time up
to the next `await`, so an action is what happens between two awaits of `drain()`
or `_process()`, and `pc[d]`, `batch[d]` are the locals of the call `d`.  Several
calls run at once because `_draining` is set only after `isConnected` was awaited.
`order` is the order of `created_at`; a deleted row is `"gone"`, a status that an
UPDATE by id leaves alone.  `Kill` loses everything but the table.  The server's
endpoint does not exist in this repository yet: it is modelled as
`docs/06-api-spec.md` and the unique key of `trip_event` have it, a change applied
once however often it is sent.  `delivered`, `failed`, `interrupted` are history
variables.

**`SyncQueue`** is what the outbox promises, with no batch, flag, network or death:
changes are made one after the other, their turns come in that order, the server
applies a change once its turn has come, and the app forgets it once the server has
applied it, for good.  `MobileSync` implements it (property `QueueSpec`) with `order`
for what was made, `delivered` for what was applied, the undeleted rows for what is
kept, and `Tried(c)` for a turn that has come: `c` was sent or passed over, or says
'syncing'.

| Action | Code (`core/offline/`) |
|---|---|
| `Enqueue` | `trip_repository_impl.dart` 63-97, insert, then flush |
| `Check` | `sync_engine.dart` 60-63 |
| `Fetch` | 64-74, `outbox_dao.dart` 95-104 |
| `Skip`, `MarkSyncing` | 77-84 |
| `SendOk`, `SendRefused`, `SendLost` | 85, the handler returns or throws |
| `MarkDone`, `MarkFailed` | 86-94, with the retry timer |
| `TimerFires`, `GoOnline`, `Launch` | 98-102, 46-50, 53: calls of `drain()` |

**`AuthSessions`** models one account.  A token is a row of `user_session` for ever;
`source` and `issued` record which token or redirect it came from and in which
password's time.  A handler is a record `job[h]` with a program counter: a refresh
goes through `refreshing` (it found the token unrevoked) and `issuing` (it revoked
it, in a transaction of its own); a change of password through `changing` and
`changed` (both UPDATEs made, not committed: the revoked rows are locked).  An
overlap that the properties excuse is recorded where it happens: `shared` when a
second refresh finds a token that one has in hand, `over` and then `late` when a
handler runs while the password or the status changes.

| Action | Code (`routes_auth.ts` unless named) |
|---|---|
| `Login` | 47-83 |
| `RefreshLookup`, `RefreshRevoke` | 93-104, 106-110 |
| `Issue` | `auth_tokens.ts` 32-67 |
| `LogoutLookup`, `LogoutRevoke` | 119-132 |
| `ChangeVerify`, `ChangeWrite`, `ChangeCommit` | 137-161 |
| `Authorize`, `Callback`, `Match` | `routes_sso.ts` 97-186 |
| `SetStatus` | `routes_crud.ts` 271-310, field `status` of a user |
| `Expire`, `FlowExpires` | the clock |
| `Fail` | a query or the provider throws, the process dies |

**`VehiclePositions`** models the ingest of a batch of pings: `batch[s]` is what the
transaction has still to do, has done and sees of `vehicle_last_position`; the
upsert locks a vehicle's row, so that two batches in opposite orders block each
other until one is aborted.  **`TrackingHub`** models the hub of one process and the
handlers of its streams; an action is what happens between two awaits.
**`LiveTracking`** composes them: a commit puts its events on the `wire`, the
connection on which the hub listens; each is delivered in a step of its own, in any
order, and what is on the wire when the connection drops is lost, as is what is
published while nobody listens.  `seen`, `base` and `missed` are history: the newest
time a stream was sent of each vehicle (late pings are published, too), what stood
when it was subscribed, and which streams were there when events were lost.

| Action | Code |
|---|---|
| `Post`, `Ingest`, `Commit` | `routes_tracking.ts` 26-78 |
| `Open`, `Forbid`, `Subscribe` | `routes_tracking.ts` 89-134 |
| `Leave` | `routes_tracking.ts` 140-149 |
| `StartSucceeds`, `StartFails` | `tracking_hub.ts` 45-98, `routes_tracking.ts` 133-139 |
| `Drop`, `Close` | `tracking_hub.ts` 69-83, 105-112 |
| `PositionStep` | `routes_tracking.ts` 64-78: `pg_notify`, published by the commit |
| `Deliver` | `tracking_hub.ts` 50-68 |

**`Registration`** models the requests of one roster entry; **`DriverPlans`** the
plans of one driver and day; **`Eligibility`** the decisions about one employee, with
the rule engine as an operator over integers (kilometres are counted up, as the
engine charges started ones).  Each handler is a read, a wait and a write by id.
**`Onboarding`** composes the three: an approval as driver enables plans, one as
rider enables decisions, and a connection serves one request at a time.  An evaluation
reads the employee, the violations, then the distance (from the home the row has by
then, `housed`) and the policy in one step.  `raced`, `stale`, `stood` and `warranted`
are history: a table was changed *after* the evaluation had read it; which grounds of
an approval stood at some time since its first read; what the engine would say on the
facts as they stand together at the INSERT.

| Action | Code |
|---|---|
| `StartRead`, `StartWrite` | `routes_registration.ts` 64-119 |
| `VerifyRead`, `VerifyWrite` | `routes_registration.ts` 123-155 |
| `ApproveRead`, `ApproveWrite`, `Reject` | `routes_registration.ts` 178-258 |
| `Upload` | `routes_registration.ts` 271-293 |
| `ProposeRead`, `ProposeReplace`, `Decide` | `routes_driver_plan.ts` 24-109 |
| `ReadEmployee`, `ReadViolations`, `ReadPolicy`, `Decide`, `Leave` | `routes_eligibility.ts` 24-142 |
| `Override`, `PatchPolicy` | `routes_eligibility.ts` 160-212 |
| `Sync` | `hr_sync_service.ts` 18-59 |
| `FileRecord` | `routes_crud.ts` 271-331, the employee |

**`FeatureFlags`** models the cache that each process keeps; time is counted in ticks
up to the TTL.  **`Companies`** EXTENDS it with the operators' transactions on one
company.  They are numbered in the order they begin, because that is what
`created_at` of their audit rows says (`now()` is the transaction's start), and
`made[i]` is the number of the transaction whose write of item `i` is committed.

| Action | Code |
|---|---|
| `Load`, `Fill` | `feature_flags.ts` 25-38 |
| `Invalidate` (`Drop`) | `routes_platform.ts` 327, `feature_flags.ts` 18-21 |
| `Begin`, `Write` | `routes_platform.ts`: provision 104-201, status 234-253, plan 258-286, feature 298-325 |
| `Look` | `routes_platform.ts` 258-274: the UPDATE's snapshot, before it waits |
| `Commit` | `recordEvent` 23-35 and the end of `Db.tx` |
| `Abort`, `Restart` | `routes_platform.ts` 202-207, `Db.tx`; the process ends |

Operators marked *Slip* are wrong variants of the operator they precede.  No
specification uses them: they serve to confirm that the properties notice.

## 4. What is checked

| Run | Instance | Properties | Result |
|---|---|---|---|
| `rides` | 3 requests (two by one rider, targeted and broadcast), 2 drivers, 2 sessions, a planned trip with one place and a completed one | `TypeOK`, `OverbookingBounded`, `OneRequestPerRow`, `RowsBacked`, `BoardSpec`, `TransactionsEnd` | hold (74 512 states) |
| `rides_cancel_race` | as `rides` | `CancelledOffManifest` | **violated** |
| `rides_ask_again` | one session | `AssignedOnManifest` | **violated** |
| `commute` | 1 request, 1 employee, 1 trip of one place that a planner may create, 1 stop, 1 vehicle, one session for the multi-statement handlers | `CommuteTypeOK`, `NoShowTold`, `AssignedHasDriver`, `EventsComplete`, `LegalMoves`, `ReopenedByAssign` | hold (2.7 million states) |
| `outbox` | one queued and one inline message, 2 workers, batch of 2, 2 attempts, 2 faults | `TypeOK`, `SentWasAccepted`, `OnceUnlessOverrun`, `GivenUpLate`, `EveryMessageSettles` | hold (186 059 states) |
| `payroll` | 3 rides of 2 employees on 2 days, any period of these days, 1 target, 2 sessions | `TypeOK`, `LedgerMatchesBatches`, `DeductionsBounded`, `WaivedNotDeducted` | hold (397 882 states) |
| `payroll_told` | the same, one session | `ToldWasPosted` | **violated** |
| `mobile` | 3 changes, one of which the server refuses, 2 overlapping calls of `drain()`, batch of 2, 2 faults | `TypeOK`, `SyncingIsInHand`, `OvertakesOnlyTrouble`, `QueueSpec`, `EveryChangeArrives` | hold (694 980 states) |
| `tracking` | 2 vehicles of one company, 2 ingests in opposite orders with late pings, a stream narrowed to one vehicle and one of another company | `LiveTypeOK`, `LastPositionIsNewest`, `DarkOnlyAfterFailure`, `OnlyEarlyLeaversLinger`, `StreamsAgreeWithFleetView`, `StreamsAnswered` | hold (598 500 states) |
| `sessions` | 3 tokens, 1 redirect, 2 handlers, one change of password or status | `SessionsTypeOK`, `OldSessionsGone`, `OneSuccessor` | hold (6.0 million states) |
| `people` | 3 requests, 2 contacts, 2 kinds, 2 handlers; 3 plans; 1 decision, 3 records, 2 policies | `SettledUnlessRaced`, `ApprovalsWarranted`, `ApprovedPlansLocked` | hold (244 600 states) |
| `company` | 3 transactions, 2 processes, 2 requests that ask, a TTL of 2 ticks | `TrailTellsState`, `FlagsFollow` | hold (1.3 million states) |

Why the bounds are enough.  A race of this code needs two transactions; two
sessions show every pair.  Three requests give two of one rider (the conflict on
the manifest row), two of different riders for the last place, and one more that
finds the row of an earlier one.  One place is the boundary of the capacity
check.  In `commute` the single-statement handlers need no session, so that one
session already interleaves an assign, a depart, an arrive, a claim or a cancel
with all of them; two *multi-statement* handlers at once are covered inside one
component by `rides`.  In `outbox` two attempts have a first, a last and a retry
between; two faults are what it takes for a late outcome to bring a dead letter
back.  In `payroll` three rides give two with equal counts (two keys that meet), two
of one employee on different days (a count of days that differs from the count of
rides) and periods that overlap without being equal; two sessions are two exports
at once.  In `mobile` two calls are what passes the check together, a batch of two
out of three changes makes the loop fetch again, and the refused change is the one
that fails for ever; two faults allow a loss followed by a death.  Refused changes
must be fewer than a batch: with as many, `pending()` would return nothing else and
the rest would never be sent, which is a limit of the code (50 entries), not only of
the instance.  In `sessions` three tokens are one, its successor and a third that an
overlapping handler issues; two handlers show every pair of overlapping requests.
In `people` three requests are one that is replaced, one that is approved and one
more that is not to be; the parts share no row once the entry is registered, so
`MCOnboarding` lets plans and decisions begin only after a registration without
detours and stops registration then, and runs one evaluation at a time, as evaluations
share only tables they read (the theorems need no such restriction).  In
`company` three transactions create the company and change it twice in any overlap,
and a TTL of two ticks tells a fresh cache from an ageing one.  Tokens, handlers,
requests, contacts, plans, processes and asking requests are interchangeable, and the
symmetric runs check invariants and one property of single steps, never liveness.
The bounds by name: `MaxChanges` (changes of password and deactivations), `MaxTx`
(operators' transactions), `Booked`, `Waits`, `Corrections` (inputs tried),
`MaxFaults` (crashes, outlived leases, network failures), `Drains` (calls of
`drain()` past their first line at once).

Fairness.  `TransactionsEnd` assumes strong fairness of each session's next
statement: Node runs on every resolved query, and PostgreSQL hands a row lock to
the waiters in turn, so a statement that is enabled again and again is executed.
Nobody is obliged to create, claim, cancel or abort.  `EveryMessageSettles`
assumes weak fairness of the workers' ticks, of a started send, and of time: the
worker polls for ever and survives errors of a tick (`run`, worker.ts:108), and a
provider answers.  Crashes are finitely many (`MaxFaults`); with a crash before
every outcome nothing could ever settle.  `EveryChangeArrives` assumes weak
fairness of each call of `drain()` (the event loop runs what is ready), of the
driver opening the app and the trips again, and of the network coming back; faults
are finitely many.  It does not assume that a retry timer fires: the loop fetches
failed entries again by itself, and a network that comes back starts a call.
`StreamsAnswered` assumes weak fairness of the end of a connection attempt, which TCP
or PostgreSQL gives up at last, and of each handler that was answered about the flag;
nobody has to open, leave, drop or close.

What the violated runs show:

- `rides_cancel_race`: a manager's cancel reads an open request, a claim commits,
  the cancel then writes 'cancelled' over 'assigned' and leaves the rider on the
  manifest (`routes_ride_requests.ts:284-305`; docs/16 promises the removal).
- `rides_ask_again`: `ON CONFLICT DO NOTHING` meets the 'removed' row of an
  earlier, cancelled request; the new request is assigned and the rider is not on
  the manifest (line 264; docs/16 promises a row 'expected').
- `payroll_told`: the key hashes counts; later rides with the counts of a posted
  batch are answered with that batch and stay pending (`routes_usage.ts:184`).

Other disagreements with what the documents promise are stated as the exact
exception of a property that holds, which says more than a counterexample would:
how far the damage goes, and that nothing else causes it.

- `ReopenedByAssign`: an assign that checked the status before the trip was started
  and completed takes it back to 'assigned' (`routes_trips.ts:142`, docs/05 draws
  COMPLETED as final), and no other handler does.
- `OverbookingBounded`: claims that pass the capacity check together overbook by at
  most the other sessions.
- `OnceUnlessOverrun`: a batch that outlives its one lease (`worker.ts:68`) is the
  only way for a queued message to be delivered twice, crashes apart.
- `DeductionsBounded`: exports that read one ride before either marks it
  (`routes_usage.ts:203`) deduct it once each, and never more often than exports run
  at once.
- `OneSuccessor`: two refreshes that found one token unrevoked each issue a session
  (`routes_auth.ts:101-110`), though "single-use refresh" is what the comment says.
- `OldSessionsGone`: a handler between its look-up and `issueSession` while the
  password changes issues a session the change did not revoke.
- `SettledUnlessRaced`: an approval that waited for the password hash while another
  handler of the entry ran may leave it with a second account or a live request.
- `ApprovedPlansLocked`: a proposal that had read the plan while it was open deletes
  it after its approval (`routes_driver_plan.ts:47`).
- `ApprovalsWarranted`: an evaluation reads in several statements
  (`routes_eligibility.ts:30-66`), so that a change after one of them may approve whom
  the rules no longer would; a change before the table was read is no excuse, and no
  mixture of reads approves on an employee, a violation record or a mode that stood at
  no time since the first of them.
- `StreamsAgreeWithFleetView`: NOTIFY is not kept for who does not listen; events on
  their way when the connection drops (`tracking_hub.ts:72`) and those published until
  it listens again are lost for the streams that were there, which the next event of
  the vehicle makes good.
- `FlagsFollow`: the cache is cleared inside the toggle's transaction
  (`routes_platform.ts:327`); a request that loads before the commit keeps the old
  state for the TTL in the toggling process too.
- `DarkOnlyAfterFailure`, `OnlyEarlyLeaversLinger`: a reconnect is tried once; a
  client that leaves before its close handler is set stays subscribed.
- `EveryChangeArrives`: a change in flight when the app dies stays 'syncing', which
  `pending()` never returns (`interrupted`).

Adding a passenger by a dispatcher looks at no capacity (`Occupants` counts his
riders, the `rides` runs start without any).

## 5. What is proved

Every safety property of the passing runs, invariants and action properties alike,
is a theorem about the run's specification with its constants left open.

`RideRequestsProofs`, on the ride requests alone (for any finite set of employees, any
sessions, requests, drivers and trips; assumptions `NamesAssumption`,
`DataAssumption`, `FiniteAssumption`):

- `TypeCorrect`: `Spec => []TypeOK`.  `TypeOK` is inductive because it includes
  `HandlerOK`: a statement's guard is the program counter, so the typing of what
  it writes needs to know which locals are set at that point.
- `ClaimExclusive`: `Spec => []ClaimInv`, two sessions never hold one request and
  a held request is open and was offered to the holder.  This is the inductive
  core of the first-wins claim: the lock is taken only on an open row nobody
  holds, and only its holder or a cancel that waited for it changes the status.
- `ImplementsBoard`: `Spec => BoardSpec`.  Initial states map to initial states;
  `Create`, `FinishClaim` and `FinishCancel` map to `Post`, `Assign`, `Withdraw`
  (using `ClaimInv` for the guard of `Assign`), everything else to a stutter.
- `OverbookingIsBounded`: `Spec => []OverbookingBounded`.  The property is
  inductive once the sessions past the check are counted with the occupants: a
  claim that passes joins `Boarding`, of which there are at most as many as
  sessions; a commit turns a boarding session into an occupant; nothing else adds
  an occupant.  It rests on lemmas about how one changed row changes the
  cardinality of the occupants.
- `OwnsItsRow` and `EveryRowIsBacked`: `Spec => []OneRequestPerRow` and
  `Spec => []RowsBacked`.  The invariant `BackingInv` has two halves.  `RowsInv`
  follows a manifest row from the INSERT to the cancellation, written or committed:
  two transactions never hold one rider's row of one trip, an inserted row was
  absent, the row a cancel removes is the one its request points to, and a trip that
  a request named exists only once that request was claimed, so that nobody boards
  it before.  `DrivenInv` says that the trip a claim found is its driver's.  Only the
  first half survives in the composition, where a dispatcher may give the trip to
  another driver meanwhile.

The same module, on `DailyCommute` (also `CommuteAssumption` and `PlanAssumption`: a trip
planned with a status other than 'scheduled' has a driver, as `routes_trips.ts`
writes such a status only along with, or after, the assignment):

- `CommuteTypeCorrect`, `NoShowIsTold`, `AssignedIsDriven`, `EventsAreComplete`:
  `CommuteSpec` implies `[]CommuteTypeOK`, `[]NoShowTold`, `[]AssignedHasDriver` and
  `[]EventsComplete`.  They are conjuncts of one invariant, `CommuteInv`, because each
  component's step relies on what the others leave true: a claim's commit makes its
  rider 'expected', which is a legal move only because his row is still `Absent`
  since the INSERT (`RowsInv`); `RowsInv` in turn survives the manifest's steps because
  those wait for the rows a claim has written and delete neither row nor trip.
  `CommuteTyped` adds the typing of a half-done arrive, depart or assign; `Logged`
  ties 'started' in the log to the statuses that follow it, which is what makes the
  log complete when the trip ends.  One lemma per component (`RideInv`, `ManifestInv`,
  `LifecycleInv`) shows that its steps preserve it.
- `MovesAreLegal`, `OnlyAssignReopens`: `CommuteSpec => LegalMoves` and
  `CommuteSpec => ReopenedByAssign`, from lemmas that say what each component may do
  to one row (`RideMove`, `ManifestMove`) or one trip (`RideTrip`, `LifecycleMove`).
- `CommuteImplementsBoard`: `CommuteSpec => BoardSpec`, the refinement again, with the
  other writers of the same tables at work; and `CommuteOwnsItsRow`.

`NotificationOutboxProofs` (any messages, workers and limits):

- `OutboxTyped`: `Spec => []TypeOK`.  A row that may be claimed needs an attempt
  left, or `attempts` would pass the budget (`BudgetLeft`), and a batch is
  counted only because it is finite (`ClaimedFinite`, `BatchCounted`).
- `Honest`: `Spec => []SentWasAccepted`.  The strengthening `SuccessWasAccepted`
  says the same of every success that still waits to be written, by a worker or
  by the send endpoint: the outcome travels with the row.
- `NeverGivenUpEarly`: `Spec => []GivenUpLate`.  `CountedWereMade` ties every
  count of attempts, in the table or in a worker's memory, to calls that were
  made: an old count that overwrites a newer one only puts the giving up off.
- `TwiceOnlyAfterOverrun`: `Spec => []OnceUnlessOverrun`, from `OnceInv`: while nobody
  has outlived or lost his lease on a message, one worker has it, its row is queued
  and not due, and a delivery that was accepted is recorded or with that worker.

`PayrollUsageProofs` (any rides, dates and finite set of sessions; assumptions
`RidesAssumption`, `DaysAssumption`, `SessionsAssumption`):

- `PayrollTyped`: `Spec => []TypeOK`; an export past its reading has rides, and the
  key of those rides.
- `LedgerAndBatchesAgree`: `Spec => []LedgerMatchesBatches`.
- `DeductedAtMostOncePerSession`: `Spec => []DeductionsBounded`, from the invariant
  `DeductionsAndPursuits`: once a ride is in a batch, its batches and the exports
  that have it in hand are together at most as many as the sessions, because a
  ride in a batch is no longer pending and no further export takes it in hand.  With one session it says that nothing is
  deducted twice.  It rests on lemmas that sort the steps into kinds
  (`StepKinds`) and dismiss those that touch neither batches nor hands
  (`QuietStep`).
- `WaivedStaysOut`: `Spec => []WaivedNotDeducted`, from `WaivedIsOut`.

`MobileSyncProofs` (any changes, calls and batch size):

- `NothingDropped`: `Spec => []GoneWasDelivered`, a deleted row is of a change that
  the server has applied (stated with its proof; the runs check it as part of
  `QueueSpec`).  The strengthening
  `SentIsDelivered` says what a call is about to do: it deletes only what it saw
  the server take, and `delivered` never shrinks.
- `NothingStranded`: `Spec => []SyncingIsInHand`, inductive once the table is typed.
- `SyncTypeCorrect`: `Spec => []TypeOK`, from `QueueTyped`, which says what `TypeOK`
  leaves to the reader: a row has one place in the order, a batch holds rows.
- `OvertakesOnlyPastTrouble`: `Spec => []OvertakesOnlyTrouble`.  The invariant `InOrder`
  says of every entry of every batch that each older row is ahead of it in that
  batch or has had its turn (`Tried`), which stays so.  A new batch satisfies it by
  `PendingFacts`: the query returns the oldest due rows in their order (`Ranks`,
  `RankOrders`: the rows' ranks are all the numbers below their count, each once),
  and a row that is not due is in another call's hands or delivered.  The loop keeps
  it because an entry it leaves behind is delivered, failed or passed over.
- `ImplementsQueue`: `Spec => QueueSpec`. `Enqueue` maps to `Make`, `Skip` and
  `MarkSyncing` to `Try`, whose guard is `InOrder` read at the head of a batch; a
  send that reaches the server maps to `Apply`, whose guard is `HandTried` (the
  entry in hand has had its turn, whatever another call wrote to its row since),
  `MarkDone` to `Forget` or, when another call has deleted the row, to a stutter,
  everything else to a stutter.

`AuthSessionsProofs` (any tokens, redirects and handlers; `TokensAssumption`):

- `SessionsTyped`: `Spec => []SessionsTypeOK`; a handler that issues a successor has
  revoked the token before.
- `OneSuccessorEach`: `Spec => []OneSuccessor`.  The invariant follows a source from
  the hand of a refresh, or of a callback, to the token issued for it: a source that
  is not shared is in one hand or has one successor, and once it was revoked or
  consumed no further hand takes it.
- `OldSessionsAreGone`: `Spec => []OldSessionsGone`.  The invariant says of a handler
  that is not marked `over` that its password is the one in force, and of a pending
  change that its locked rows are all the unrevoked ones but the late.

`CompaniesProofs` (any processes, asking requests, TTL and number of transactions;
`TTLAssumption`, `MaxTxAssumption`):

- `TrailTells`: `CompaniesSpec => []TrailTellsState`.  `AlongInv` says that a
  transaction knows all that were open when it began; a later one that is committed
  while an earlier one writes is therefore `along`.
- `FlagsDoFollow`: `CompaniesSpec => []FlagsFollow`.  `ClearedInv`: between the
  invalidation and the commit the process's cache is empty or late.  `AskingInv`: a
  load that no toggle overtook shows the last one.  `CacheInv`: an outdated cache
  that is not late is of another process and at least as old as the toggle, so that
  its age bounds `since`.

`LiveTrackingProofs` (any clients, vehicles, batches and connections;
`TimesAssumption`, `BatchesAssumption`):

- `LastIsNewest`: `LiveSpec => []LastPositionIsNewest`.  `OneHolder`: a vehicle's row
  is locked by one ingest; `RowInv`: what that ingest sees of it is at least the
  committed position and the newest of what it has stored itself.
- `DarkOnlyThen`, `OnlyThoseLinger`: the hub's type invariant, which ties `subs` to
  the streams that are on, is inductive together with them.
- `LiveTypeCorrect`, `StreamsAgree`: `LiveSpec` implies `[]LiveTypeOK` and
  `[]StreamsAgreeWithFleetView`.  Whether a stream shows a vehicle (`Shows`) depends on
  the hub listening at that moment, so the property is not inductive; `SentInv` says
  it of token and filter alone (`Matches`), hub listening or not, and adds that nothing
  a stream knows, and nothing on the wire, is newer than the database.  `CommitSent`
  shows that a commit puts the last position it makes on the wire (`Coming`),
  `DeliverSent` that the delivery of it brings a stream up to date and no other delivery
  takes it back, `HubSent` that what the wire loses is counted in `missed`.

`OnboardingProofs` (any requests, contacts, kinds, handlers, plans and decisions;
`NoPlanAssumption`), all of `OnboardingSpec`, of which `MCSpec` is a restriction:

- `Settles`: `OnboardingSpec => []SettledUnlessRaced`; `SettledInv` adds that nothing
  is in hand once the entry is registered without a race.
- `PlansLocked`: `OnboardingSpec => ApprovedPlansLocked`, from the typing of what a
  proposal has read.
- `ApprovalsAreWarranted`: `OnboardingSpec => []ApprovalsWarranted`; `BenchInv`: what an
  evaluation that is not stale has read so far is what stands, and every ground its
  reads give for an approval is among those that stood (`Witnessed`), as are all that
  stand now (`Standing`).

Only model-checked: liveness (`TransactionsEnd`, `EveryMessageSettles`,
`EveryChangeArrives`, `StreamsAnswered`), which is beyond the prover, and the three
violated claims, which are no theorems.

## 6. Not modelled

Row-level security (each model is one tenant); texts, locales and layouts; saved
pickups; driver availability; read-only views.  The components of section 1 that
have no module yet are listed with the reason in `PROJECT.json`, their hazards
with the module that is to cover them.  Known simplifications: the several
writing statements of an arrive or a depart are one step; a trip that a claim
inserts is named after its request; `now()` is not a number.  In payroll: the
signature and expiry of a QR token, the `trip_event` of a check-in and the text of
a batch are left out; a ride is one row by the unique key, so that a manual capture
without a trip, which that key does not cover, is not told from a check-in of the
same ride; the hash of the key is taken to be injective.  In the app: the queue of
the web, which lives in memory, the length of the backoff, `attempts` (reduced to
whether a failure still sets the timer), and SQLite errors.
In sessions: the login throttle, the second factor, what a token contains, SAML.  In
registration: the photos, the face scores, the counting of wrong codes (it is rolled
back with the refusal, `routes_registration.ts:141`, so a refused code has no
effect), and entries of other employees.  In eligibility: the weight of a short
tenure, which no caller sets.  In tracking: incidents, the heartbeat, `trip_id` of the
last position, and processes other than one.  In the platform: the operators' login
and what provisioning copies.  Fuel and violations, feedback, roles and the other
CRUD resources are single statements on single rows; costing and route
optimisation compute with floating-point numbers; the interface has no state of its
own that the server sees.
