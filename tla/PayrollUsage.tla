------------------------------ MODULE PayrollUsage ------------------------------
(***************************************************************************)
(* The ledger of rides taken and the batches that hand them to payroll     *)
(* (app/routes_usage.ts, domain/usage/transport_usage.ts, the QR check-in  *)
(* of app/routes.ts).  A row of transport_usage is inserted once per key   *)
(* (trip, employee, direction), waived by HR while it is pending, or       *)
(* exported in a batch.  An export is one READ COMMITTED transaction of    *)
(* four statements; the tables hold committed rows and job[s] what the     *)
(* transaction on connection s has read and written.  What the batch       *)
(* document contains is kept as the set of rides it counts.                *)
(***************************************************************************)
EXTENDS Naturals, FiniteSets

CONSTANTS
    Rides,       \* the rows transport_usage may come to hold, by their key
    Scanned,     \* those whose key a QR token names; the others have no trip
    Employees,
    Days,        \* service dates, as numbers
    Targets,     \* payroll, hr, accounting, ...
    Sessions,    \* pooled connections
    RiderOf, DateOf, \* employee_id and service_date of a ride
    NoKey        \* idempotency_key or export_id IS NULL

ASSUME RidesAssumption ==
    /\ IsFiniteSet(Rides) /\ Scanned \subseteq Rides
    /\ RiderOf \in [Rides -> Employees]
    /\ DateOf \in [Rides -> Days]
ASSUME DaysAssumption == Days \subseteq Nat
ASSUME SessionsAssumption == IsFiniteSet(Sessions)

VARIABLES
    ledger,    \* deduction_status of each ride, "none" before its row exists
    billable,  \* transport_usage.billable
    exportId,  \* transport_usage.export_id, as the key of the batch
    exports,   \* rows of payroll_usage_export, with the rides they count
    job,       \* job[s]: the export running on connection s
    raced,     \* history: rides waived while an export had read them
    told       \* history: rides an export answered 'idempotent' for

vars == <<ledger, billable, exportId, exports, job, raced, told>>

Periods == Days \X Days

-----------------------------------------------------------------------------
(* The batch.                                                              *)

\* The rides of an employee, and the dates they fall on.
RidesOf(e, rides) == {r \in rides : RiderOf[r] = e}
DatesOf(rides) == {DateOf[r] : r \in rides}

\* summarizeUsage(): rides and distinct days per employee.
Summary(rides) ==
    [e \in Employees |-> [rides |-> Cardinality(RidesOf(e, rides)),
                          days |-> Cardinality(DatesOf(RidesOf(e, rides)))]]

\* deriveKey(): a hash, taken for injective, of the period, the target and
\* the counts.
Key(period, target, rides) ==
    [period |-> period, target |-> target, counts |-> Summary(rides)]

Counts == [Employees -> [rides : Nat, days : Nat]]
Keys == [period : Periods, target : Targets, counts : Counts]

\* Slip: what was handed over already is selected again.
ExportableAgain(period) ==
    {r \in Rides : /\ ledger[r] # "none" /\ billable[r]
                   /\ DateOf[r] \in period[1]..period[2]}

\* "Only still-pending billable rides in the window are exported."
Exportable(period) ==
    {r \in Rides : /\ ledger[r] = "pending" /\ billable[r]
                   /\ DateOf[r] \in period[1]..period[2]}

NoJob == [at |-> "idle", rides |-> {}, key |-> NoKey]

Init ==
    /\ ledger = [r \in Rides |-> "none"]
    /\ billable = [r \in Rides |-> TRUE]
    /\ exportId = [r \in Rides |-> NoKey]
    /\ exports = {}
    /\ job = [s \in Sessions |-> NoJob]
    /\ raced = {}
    /\ told = {}

-----------------------------------------------------------------------------
(* Recording and waiving: one writing statement each.                      *)

\* INSERT ... ON CONFLICT DO NOTHING: a row that exists stays as it is.
InsertRide(r) ==
    /\ ledger[r] = "none"
    /\ ledger' = [ledger EXCEPT ![r] = "pending"]
    /\ UNCHANGED <<billable, exportId, exports, job, raced, told>>

\* POST /v1/checkin/verify with a valid token of direction 'in'.
CheckIn(r) == r \in Scanned /\ InsertRide(r)

\* POST /v1/transport-usage: a conflict is answered 409.
RecordManually(r) == InsertRide(r)

ReadBy(s, r) == r \in job[s].rides

\* Slip: a ride that went to payroll may be waived as well.
WaiveAny(r) ==
    /\ ledger[r] \in {"pending", "exported"}
    /\ ledger' = [ledger EXCEPT ![r] = "waived"]
    /\ billable' = [billable EXCEPT ![r] = FALSE]
    /\ raced' = IF \E s \in Sessions : ReadBy(s, r) THEN raced \cup {r} ELSE raced
    /\ UNCHANGED <<exportId, exports, job, told>>

\* POST /v1/transport-usage/:id/waive.
Waive(r) ==
    /\ ledger[r] = "pending"
    /\ ledger' = [ledger EXCEPT ![r] = "waived"]
    /\ billable' = [billable EXCEPT ![r] = FALSE]
    /\ raced' = IF \E s \in Sessions : ReadBy(s, r) THEN raced \cup {r} ELSE raced
    /\ UNCHANGED <<exportId, exports, job, told>>

-----------------------------------------------------------------------------
(* POST /v1/transport-usage/export.                                        *)

\* Slip: an empty batch is not refused.
ExportReadEmpty(s, period, target) ==
    LET rides == Exportable(period)
    IN  /\ job[s].at = "idle"
        /\ job' = [job EXCEPT ![s] = [at |-> "read", rides |-> rides,
                                      key |-> Key(period, target, rides)]]
        /\ UNCHANGED <<ledger, billable, exportId, exports, raced, told>>

\* The pending rides are read and the key derived; none is answered 422.
ExportRead(s, period, target) ==
    LET rides == Exportable(period)
    IN  /\ job[s].at = "idle"
        /\ rides # {}
        /\ job' = [job EXCEPT ![s] = [at |-> "read", rides |-> rides,
                                      key |-> Key(period, target, rides)]]
        /\ UNCHANGED <<ledger, billable, exportId, exports, raced, told>>

Posted(key) == \E x \in exports : x.key = key

\* A batch with the key is the answer: nothing is written.
ExportExisting(s) ==
    /\ job[s].at = "read"
    /\ Posted(job[s].key)
    /\ job' = [job EXCEPT ![s] = NoJob]
    /\ told' = told \cup job[s].rides
    /\ UNCHANGED <<ledger, billable, exportId, exports, raced>>

ExportNew(s) ==
    /\ job[s].at = "read"
    /\ ~ Posted(job[s].key)
    /\ job' = [job EXCEPT ![s].at = "new"]
    /\ UNCHANGED <<ledger, billable, exportId, exports, raced, told>>

\* The unique index makes an INSERT of a key that an open transaction has
\* inserted wait for that transaction.
KeyHeld(s) == \E t \in Sessions \ {s} : job[t].at = "inserted" /\ job[t].key = job[s].key

ExportInsert(s) ==
    /\ job[s].at = "new"
    /\ ~ KeyHeld(s)
    /\ ~ Posted(job[s].key)
    /\ job' = [job EXCEPT ![s].at = "inserted"]
    /\ UNCHANGED <<ledger, billable, exportId, exports, raced, told>>

\* Slip: the rides are marked by what they are, not by which they were.
ExportPostPending(s) ==
    LET key == job[s].key
        marked == Exportable(key.period)
    IN  /\ job[s].at = "inserted"
        /\ ledger' = [r \in Rides |-> IF r \in marked THEN "exported" ELSE ledger[r]]
        /\ exportId' = [r \in Rides |-> IF r \in marked THEN key ELSE exportId[r]]
        /\ exports' = exports \cup {[key |-> key, counted |-> job[s].rides]}
        /\ job' = [job EXCEPT ![s] = NoJob]
        /\ UNCHANGED <<billable, raced, told>>

(* The rides are marked by id, whatever they have become meanwhile, and the *)
(* transaction commits: nobody can tell the two apart, as a statement that  *)
(* would write the same rows waits for the commit.                          *)
ExportPost(s) ==
    LET key == job[s].key
        marked == job[s].rides
    IN  /\ job[s].at = "inserted"
        /\ ledger' = [r \in Rides |-> IF r \in marked THEN "exported" ELSE ledger[r]]
        /\ exportId' = [r \in Rides |-> IF r \in marked THEN key ELSE exportId[r]]
        /\ exports' = exports \cup {[key |-> key, counted |-> job[s].rides]}
        /\ job' = [job EXCEPT ![s] = NoJob]
        /\ UNCHANGED <<billable, raced, told>>

(* A statement fails - on the key that was posted meanwhile, on a deadlock, *)
(* on a lost connection - and the transaction is rolled back.               *)
Abort(s) ==
    /\ job[s].at # "idle"
    /\ job' = [job EXCEPT ![s] = NoJob]
    /\ UNCHANGED <<ledger, billable, exportId, exports, raced, told>>

Next ==
    \/ \E r \in Rides : CheckIn(r) \/ RecordManually(r) \/ Waive(r)
    \/ \E s \in Sessions :
           \/ \E period \in Periods, target \in Targets : ExportRead(s, period, target)
           \/ ExportExisting(s) \/ ExportNew(s) \/ ExportInsert(s) \/ ExportPost(s)
           \/ Abort(s)

Spec == Init /\ [][Next]_vars

-----------------------------------------------------------------------------
(* Properties.                                                             *)

(* What the columns may hold; an export that runs has rides to hand over    *)
(* and the key that its period and they give.                               *)
TypeOK ==
    /\ ledger \in [Rides -> {"none", "pending", "exported", "waived"}]
    /\ billable \in [Rides -> BOOLEAN]
    /\ exportId \in [Rides -> Keys \cup {NoKey}]
    /\ exports \subseteq [key : Keys, counted : SUBSET Rides]
    /\ job \in [Sessions -> [at : {"idle", "read", "new", "inserted"},
                             rides : SUBSET Rides, key : Keys \cup {NoKey}]]
    /\ \A s \in Sessions :
           IF job[s].at = "idle" THEN job[s] = NoJob
           ELSE /\ job[s].rides # {}
                /\ \E period \in Periods, target \in Targets :
                       job[s].key = Key(period, target, job[s].rides)
    /\ raced \subseteq Rides
    /\ told \subseteq Rides

\* The batches whose document counts a ride, each a deduction for it.
Deductions(r) == {x \in exports : r \in x.counted}

(* "Link a ledger row to the batch it was exported in": the ledger and the  *)
(* documents tell the same story.  A ride is marked exported exactly if a   *)
(* batch counts it, and the batch it points to is one of those, whatever    *)
(* was recorded, waived or exported between the read and the mark.          *)
LedgerMatchesBatches ==
    \A r \in Rides :
        /\ ledger[r] = "exported" <=> Deductions(r) # {}
        /\ ledger[r] = "exported" => \E x \in Deductions(r) : x.key = exportId[r]

(* "once rides are exported they are never picked up again": a ride is not  *)
(* deducted more often than exports can run side by side, no matter how     *)
(* many are run after one another, with overlapping periods and targets.    *)
DeductionsBounded ==
    \A r \in Rides : Cardinality(Deductions(r)) <= Cardinality(Sessions)

(* "Waived rides ... are excluded from the deduction total": a waived ride  *)
(* is deducted only if it was waived while an export had it in hand.        *)
WaivedNotDeducted ==
    \A r \in Rides \ raced : ~ billable[r] => ledger[r] = "waived" /\ Deductions(r) = {}

(* routes_usage.ts: an export that answers with an existing batch is a safe *)
(* repetition of it: the rides it found pending are in that batch.          *)
ToldWasPosted == \A r \in told : Deductions(r) # {}
=============================================================================
