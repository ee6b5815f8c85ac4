------------------------------- MODULE MobileSync -------------------------------
(***************************************************************************)
(* The app's offline outbox (etms_app/lib/core/offline).  A change is      *)
(* written to the SQLite table outbox and sent when there is a network, by *)
(* SyncEngine.drain().  Dart runs one piece of code at a time, up to the   *)
(* next await: an action is what happens between two awaits, and several   *)
(* calls of drain() may be under way.  attempts is abstracted to whether a *)
(* failure is the last one that schedules a retry; SQLite does not fail.   *)
(***************************************************************************)
EXTENDS Naturals, Sequences, FiniteSets, SequencesExt

CONSTANTS
    Changes,     \* queued mutations, by client_event_id
    Refused,     \* those the server answers with an error, always
    Drains,      \* bound: calls of drain() past their first line
    BatchSize,   \* AppConstants.syncBatchSize
    MaxFaults    \* bound: network failures and deaths of the app

ASSUME ChangesAssumption ==
    /\ Refused \subseteq Changes
    /\ BatchSize \in Nat \ {0}
    /\ MaxFaults \in Nat

VARIABLES
    outbox,      \* outbox.status, "none" before the row exists, "gone" after
    order,       \* the changes in the order of created_at
    pc, batch,   \* where each call of drain() is, and its entries to process
    draining,    \* SyncEngine._draining
    timer,       \* a retry timer is set
    registered,  \* the feature has registered its SyncHandler
    running,     \* the app is running
    online,      \* the device has a network
    faults,      \* network failures and deaths so far
    delivered,   \* history: changes the server has applied
    failed,      \* history: changes passed over, or whose sending has failed
    interrupted  \* history: changes in flight when the app died

drain == <<pc, batch, draining>>
device == <<running, online, faults>>
history == <<delivered, failed, interrupted>>
vars == <<outbox, order, drain, timer, registered, device, history>>

Init ==
    /\ outbox = [c \in Changes |-> "none"]
    /\ order = <<>>
    /\ pc = [d \in Drains |-> "idle"]
    /\ batch = [d \in Drains |-> <<>>]
    /\ draining = FALSE
    /\ timer = FALSE
    /\ registered = FALSE
    /\ running = TRUE
    /\ online \in BOOLEAN
    /\ faults = 0
    /\ delivered = {} /\ failed = {} /\ interrupted = {}

-----------------------------------------------------------------------------
(* Calls of drain().                                                       *)

(* The first line returns while another call drains.  Calls beyond the      *)
(* bound are those that would find two others at work.                      *)
CallDrain ==
    IF draining \/ \A d \in Drains : pc[d] # "idle"
    THEN pc' = pc
    ELSE \E d \in Drains : pc[d] = "idle" /\ pc' = [pc EXCEPT ![d] = "checking"]

\* markTripEvent(): the row is inserted, then the outbox flushed.
Enqueue(c) ==
    /\ running /\ registered
    /\ outbox[c] = "none"
    /\ outbox' = [outbox EXCEPT ![c] = "pending"]
    /\ order' = Append(order, c)
    /\ CallDrain
    /\ UNCHANGED <<batch, draining, timer, registered, device, history>>

TimerFires ==
    /\ running /\ timer
    /\ timer' = FALSE
    /\ CallDrain
    /\ UNCHANGED <<outbox, order, batch, draining, registered, device, history>>

\* Opening the driver's trips constructs TripRepositoryImpl.
Register ==
    /\ running /\ ~ registered
    /\ registered' = TRUE
    /\ UNCHANGED <<outbox, order, drain, timer, device, history>>

GoOnline ==
    /\ ~ online
    /\ online' = TRUE
    /\ IF running THEN CallDrain ELSE pc' = pc
    /\ UNCHANGED <<outbox, order, batch, draining, timer, registered, running, faults, history>>

GoOffline ==
    /\ online
    /\ faults < MaxFaults
    /\ faults' = faults + 1
    /\ online' = FALSE
    /\ UNCHANGED <<outbox, order, drain, timer, registered, running, history>>

-----------------------------------------------------------------------------
(* drain().                                                                *)

\* Slip: the flag is set before the network is looked at.
CheckAfterFlag(d) ==
    /\ pc[d] = "checking"
    /\ draining' = TRUE
    /\ pc' = [pc EXCEPT ![d] = IF online THEN "fetching" ELSE "idle"]
    /\ UNCHANGED <<outbox, order, batch, timer, registered, device, history>>

\* isConnected has answered: without a network the call returns.
Check(d) ==
    /\ pc[d] = "checking"
    /\ IF online
       THEN pc' = [pc EXCEPT ![d] = "fetching"] /\ draining' = TRUE
       ELSE pc' = [pc EXCEPT ![d] = "idle"] /\ draining' = draining
    /\ UNCHANGED <<outbox, order, batch, timer, registered, device, history>>

\* Slip: what failed once is not selected again.
DueFresh == {i \in 1..Len(order) : outbox[order[i]] = "pending"}

\* WHERE status IN ('pending','failed'), by their places in the table.
Due == {i \in 1..Len(order) : outbox[order[i]] \in {"pending", "failed"}}

\* Slip: newest first.
RankNewest(i) == Cardinality({j \in Due : j > i})

\* How many of them ORDER BY created_at puts before the one at place i.
Rank(i) == Cardinality({j \in Due : j < i})

\* pending(): the first of them, at most LIMIT.
Pending ==
    LET n == IF Cardinality(Due) < BatchSize THEN Cardinality(Due) ELSE BatchSize
    IN  [k \in 1..n |-> order[CHOOSE i \in Due : Rank(i) = k - 1]]

\* The next batch; an empty one ends the call, which clears the flag.
Fetch(d) ==
    /\ pc[d] = "fetching"
    /\ batch' = [batch EXCEPT ![d] = Pending]
    /\ IF Pending = <<>>
       THEN pc' = [pc EXCEPT ![d] = "idle"] /\ draining' = FALSE
       ELSE pc' = [pc EXCEPT ![d] = "processing"] /\ draining' = draining
    /\ UNCHANGED <<outbox, order, timer, registered, device, history>>

Entry(d) == Head(batch[d])

\* The for loop goes on, or the next batch is fetched.
Proceed(d) ==
    /\ batch' = [batch EXCEPT ![d] = Tail(@)]
    /\ pc' = [pc EXCEPT ![d] = IF Len(batch[d]) = 1 THEN "fetching" ELSE "processing"]

\* No handler for the resource yet: the entry is passed over.
Skip(d) ==
    /\ pc[d] = "processing"
    /\ ~ registered
    /\ failed' = failed \cup {Entry(d)}
    /\ Proceed(d)
    /\ UNCHANGED <<outbox, order, draining, timer, registered, device, delivered, interrupted>>

\* markSyncing(): an UPDATE, which a row that is gone does not notice.
MarkSyncing(d) ==
    /\ pc[d] = "processing"
    /\ registered
    /\ outbox' = [outbox EXCEPT ![Entry(d)] = IF @ = "gone" THEN @ ELSE "syncing"]
    /\ pc' = [pc EXCEPT ![d] = "sending"]
    /\ UNCHANGED <<order, batch, draining, timer, registered, device, history>>

\* The handler returns: the server has applied the change, now or before.
SendOk(d) ==
    /\ pc[d] = "sending"
    /\ online /\ Entry(d) \notin Refused
    /\ delivered' = delivered \cup {Entry(d)}
    /\ pc' = [pc EXCEPT ![d] = "sent"]
    /\ UNCHANGED <<outbox, order, batch, draining, timer, registered, device, failed, interrupted>>

\* The handler throws on what the server answers, or for want of a network.
SendRefused(d) ==
    /\ pc[d] = "sending"
    /\ ~ online \/ Entry(d) \in Refused
    /\ failed' = failed \cup {Entry(d)}
    /\ pc' = [pc EXCEPT ![d] = "refused"]
    /\ UNCHANGED <<outbox, order, batch, draining, timer, registered, device, delivered, interrupted>>

\* The request, or the answer to it, is lost.
SendLost(d, arrived) ==
    /\ pc[d] = "sending"
    /\ online /\ faults < MaxFaults
    /\ faults' = faults + 1
    /\ delivered' = IF arrived /\ Entry(d) \notin Refused
                    THEN delivered \cup {Entry(d)} ELSE delivered
    /\ failed' = failed \cup {Entry(d)}
    /\ pc' = [pc EXCEPT ![d] = "refused"]
    /\ UNCHANGED <<outbox, order, batch, draining, timer, registered, running, online, interrupted>>

\* markDone(): the row is deleted.
MarkDone(d) ==
    /\ pc[d] = "sent"
    /\ outbox' = [outbox EXCEPT ![Entry(d)] = "gone"]
    /\ Proceed(d)
    /\ UNCHANGED <<order, draining, timer, registered, device, history>>

\* Slip: the failure is not written back.
MarkFailedNowhere(d) ==
    /\ pc[d] = "refused"
    /\ Proceed(d)
    /\ timer' \in {timer, TRUE}
    /\ UNCHANGED <<outbox, order, draining, registered, device, history>>

\* Slip: the failed entry is inserted anew.
MarkFailedAnew(d) ==
    /\ pc[d] = "refused"
    /\ outbox' = [outbox EXCEPT ![Entry(d)] = "failed"]
    /\ Proceed(d)
    /\ timer' \in {timer, TRUE}
    /\ UNCHANGED <<order, draining, registered, device, history>>

\* markFailed(), and a retry timer unless the retries are exhausted.
MarkFailed(d) ==
    /\ pc[d] = "refused"
    /\ outbox' = [outbox EXCEPT ![Entry(d)] = IF @ = "gone" THEN @ ELSE "failed"]
    /\ Proceed(d)
    /\ timer' \in {timer, TRUE}
    /\ UNCHANGED <<order, draining, registered, device, history>>

Drain(d) ==
    \/ Check(d) \/ Fetch(d) \/ Skip(d) \/ MarkSyncing(d)
    \/ SendOk(d) \/ SendRefused(d)
    \/ MarkDone(d) \/ MarkFailed(d)

-----------------------------------------------------------------------------
(* The system ends the app; the table stays.                                *)
Kill ==
    /\ running
    /\ faults < MaxFaults
    /\ faults' = faults + 1
    /\ running' = FALSE
    /\ registered' = FALSE /\ timer' = FALSE /\ draining' = FALSE
    /\ pc' = [d \in Drains |-> "idle"]
    /\ batch' = [d \in Drains |-> <<>>]
    /\ interrupted' = interrupted \cup {c \in Changes : outbox[c] = "syncing"}
    /\ UNCHANGED <<outbox, order, online, delivered, failed>>

\* bootstrap(): the engine is started and drains what the table holds.
Launch ==
    /\ ~ running
    /\ running' = TRUE
    /\ CallDrain
    /\ UNCHANGED <<outbox, order, batch, draining, timer, registered, online, faults, history>>

Next ==
    \/ \E c \in Changes : Enqueue(c)
    \/ TimerFires \/ Register \/ GoOnline \/ GoOffline \/ Kill \/ Launch
    \/ \E d \in Drains : Drain(d) \/ \E arrived \in BOOLEAN : SendLost(d, arrived)

Spec == Init /\ [][Next]_vars

(* The event loop runs what is ready, the driver opens the app and the      *)
(* trips again, the network comes back.  Nobody owes a timer: its set flag  *)
(* may be the one of a timer that another failure has cancelled.            *)
FairSpec ==
    /\ Spec
    /\ \A d \in Drains : WF_vars(Drain(d))
    /\ WF_vars(Register) /\ WF_vars(GoOnline) /\ WF_vars(Launch)

-----------------------------------------------------------------------------
(* Properties.                                                             *)

Looping(d) == pc[d] \notin {"idle", "checking"}

(* What the variables hold.  _draining is never left set without a call     *)
(* that will clear it, though two calls may pass the check and the first to *)
(* end clears it for both.                                                  *)
TypeOK ==
    /\ outbox \in [Changes -> {"none", "pending", "syncing", "failed", "gone"}]
    /\ ToSet(order) = {c \in Changes : outbox[c] # "none"}
    /\ pc \in [Drains -> {"idle", "checking", "fetching", "processing", "sending",
                          "sent", "refused"}]
    /\ \A d \in Drains :
           /\ ToSet(batch[d]) \subseteq ToSet(order)
           /\ Len(batch[d]) <= BatchSize
           /\ pc[d] \in {"processing", "sending", "sent", "refused"} <=> batch[d] # <<>>
    /\ draining => \E d \in Drains : Looping(d)
    /\ delivered \subseteq Changes /\ failed \subseteq Changes /\ interrupted \subseteq Changes
    /\ faults \in 0..MaxFaults

(* A row that says 'syncing' - which pending() never returns - is being     *)
(* sent by somebody, or was when the app died.                              *)
SyncingIsInHand ==
    \A c \in Changes \ interrupted : outbox[c] = "syncing" =>
        \E d \in Drains : pc[d] \in {"sending", "sent", "refused"} /\ Entry(d) = c

\* The turn of a change has come: it was sent, passed over, or is in flight.
Tried(c) == c \in delivered \cup failed \cup interrupted \/ outbox[c] = "syncing"

(* The server gets the changes in the order they were made, except past one *)
(* passed over for want of its handler, or whose sending has failed, was    *)
(* interrupted or is still under way.                                       *)
OvertakesOnlyTrouble ==
    \A i, j \in 1..Len(order) : i < j /\ order[j] \in delivered => Tried(order[i])

(* What the outbox promises, through overlapping calls of drain() that      *)
(* handle one entry with different outcomes: turns come in order, only what *)
(* had its turn is applied, and a row goes once its change is applied, and  *)
(* never comes back.                                                        *)
Queue == INSTANCE SyncQueue WITH
    made <- order,
    tried <- {c \in Changes : Tried(c)},
    applied <- delivered,
    kept <- {c \in Changes : outbox[c] \notin {"none", "gone"}}
QueueSpec == Queue!Spec

(* "drains the offline outbox to the server whenever connectivity allows":  *)
(* every change the server would take arrives, past any number of failures  *)
(* and restarts, unless the app died while it was being sent: such a row    *)
(* says 'syncing' for ever.  It also takes fewer refused changes than a     *)
(* batch holds: pending() would return those first, again and again.        *)
EveryChangeArrives ==
    \A c \in Changes \ Refused :
        outbox[c] = "pending" ~> (c \in delivered \/ c \in interrupted)
=============================================================================
