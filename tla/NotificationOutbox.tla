-------------------------- MODULE NotificationOutbox --------------------------
(***************************************************************************)
(* The notification outbox (domain/notifications, scripts/                 *)
(* notification-worker.ts).  Handlers insert 'queued' rows into the table  *)
(* notification; worker processes claim a batch by pushing next_attempt_at *)
(* forward (the lease), deliver its rows one by one outside any            *)
(* transaction and write each outcome back.  The send endpoint inserts a   *)
(* row of the same kind and delivers it itself.  Time is abstracted to     *)
(* whether next_attempt_at has passed.                                     *)
(***************************************************************************)
EXTENDS Naturals, FiniteSets

CONSTANTS
    Messages,      \* ids of notification rows
    Inline,        \* those that POST /v1/notifications/send inserts
    Workers,       \* the worker processes
    BatchSize, MaxAttempts,
    MaxFaults      \* bound: runs cut short and leases outlived by their holders

ASSUME OutboxAssumption ==
    /\ IsFiniteSet(Messages)
    /\ Inline \subseteq Messages
    /\ BatchSize \in Nat \ {0}
    /\ MaxAttempts \in Nat \ {0}
    /\ MaxFaults \in Nat

VARIABLES
    status,    \* notification.status, or "none" before the row exists
    attempts,  \* notification.attempts
    due,       \* next_attempt_at IS NULL OR next_attempt_at <= now()
    claimed,   \* claimed[w]: the rows of w's tick still to deliver, as claimed
    result,    \* result[w]: the delivery w has not recorded yet
    sender,    \* sender[m]: how far the send handler of an inline message is
    faults,    \* runs cut short and leases outlived so far
    tries,     \* history: calls of the provider for the message
    accepted,  \* history: those the provider accepted
    overrun    \* history: messages whose holder was cut short or outlived its lease

vars == <<status, attempts, due, claimed, result, sender, faults, tries, accepted, overrun>>
history == <<tries, accepted, overrun>>

NoResult == [row |-> [msg |-> "none", attempts |-> 0], ok |-> FALSE]

Init ==
    /\ status = [m \in Messages |-> "none"]
    /\ attempts = [m \in Messages |-> 0]
    /\ due = [m \in Messages |-> TRUE]
    /\ claimed = [w \in Workers |-> {}]
    /\ result = [w \in Workers |-> NoResult]
    /\ sender = [m \in Messages |-> "idle"]
    /\ faults = 0
    /\ tries = [m \in Messages |-> 0]
    /\ accepted = [m \in Messages |-> 0]
    /\ overrun = {}

-----------------------------------------------------------------------------
(* Every producer but the send endpoint: an INSERT, left to the workers.    *)
Enqueue(m) ==
    /\ m \notin Inline
    /\ status[m] = "none"
    /\ status' = [status EXCEPT ![m] = "queued"]
    /\ UNCHANGED <<attempts, due, claimed, result, sender, faults, history>>

Due == {m \in Messages : status[m] = "queued" /\ due[m]}

\* Slip: the rows are taken without a lease.
ClaimUnleased(w) ==
    /\ claimed[w] = {} /\ result[w] = NoResult
    /\ \E batch \in SUBSET Due \ {{}} :
           /\ Cardinality(batch) <= BatchSize
           /\ claimed' = [claimed EXCEPT ![w] = {[msg |-> m, attempts |-> attempts[m]] : m \in batch}]
    /\ UNCHANGED <<due, status, attempts, result, sender, faults, history>>

\* Slip: taken rows leave the queue, to come back with their outcome.
ClaimForGood(w) ==
    /\ claimed[w] = {} /\ result[w] = NoResult
    /\ \E batch \in SUBSET Due \ {{}} :
           /\ Cardinality(batch) <= BatchSize
           /\ claimed' = [claimed EXCEPT ![w] = {[msg |-> m, attempts |-> attempts[m]] : m \in batch}]
           /\ status' = [m \in Messages |-> IF m \in batch THEN "sending" ELSE status[m]]
    /\ UNCHANGED <<due, attempts, result, sender, faults, history>>

(* tick(): one UPDATE leases at most BatchSize due rows.  SKIP LOCKED passes *)
(* over the rows that another statement holds at that instant, so any of    *)
(* the due rows may be what a worker gets.                                  *)
Claim(w) ==
    /\ claimed[w] = {} /\ result[w] = NoResult
    /\ \E batch \in SUBSET Due \ {{}} :
           /\ Cardinality(batch) <= BatchSize
           /\ claimed' = [claimed EXCEPT ![w] = {[msg |-> m, attempts |-> attempts[m]] : m \in batch}]
           /\ due' = [m \in Messages |-> due[m] /\ m \notin batch]
    /\ UNCHANGED <<status, attempts, result, sender, faults, history>>

\* dispatch(): a provider that throws has answered { ok: false }.
Provider(m, ok) ==
    /\ tries' = [tries EXCEPT ![m] = @ + 1]
    /\ accepted' = [accepted EXCEPT ![m] = IF ok THEN @ + 1 ELSE @]

\* The next row of the batch is built into a message and handed to its provider.
Deliver(w, row, ok) ==
    /\ row \in claimed[w]
    /\ result[w] = NoResult
    /\ result' = [result EXCEPT ![w] = [row |-> row, ok |-> ok]]
    /\ Provider(row.msg, ok)
    /\ UNCHANGED <<status, attempts, due, claimed, sender, faults, overrun>>

\* Slip: the retry budget is compared before the attempt is counted in.
PlanRetryLate(previous, ok) ==
    [status |-> IF ok THEN "sent" ELSE IF previous > MaxAttempts THEN "failed" ELSE "queued",
     attempts |-> previous + 1]

\* Slip: the last attempt is not made.
PlanRetryEarly(previous, ok) ==
    [status |-> IF ok THEN "sent" ELSE IF previous + 2 >= MaxAttempts THEN "failed" ELSE "queued",
     attempts |-> previous + 1]

\* planRetry(): the backoff itself only says when the row is due again.
PlanRetry(previous, ok) ==
    [status |-> IF ok THEN "sent"
                ELSE IF previous + 1 >= MaxAttempts THEN "failed" ELSE "queued",
     attempts |-> previous + 1]

(* The outcome is written by id, whatever the row has become.  Without a    *)
(* retry next_attempt_at is NULL, with one it lies in the future.           *)
Record(w) ==
    LET row == result[w].row
        m == row.msg
        plan == PlanRetry(row.attempts, result[w].ok)
    IN  /\ result[w] # NoResult
        /\ status' = [status EXCEPT ![m] = plan.status]
        /\ attempts' = [attempts EXCEPT ![m] = plan.attempts]
        /\ due' = [due EXCEPT ![m] = plan.status # "queued"]
        /\ claimed' = [claimed EXCEPT ![w] = @ \ {row}]
        /\ result' = [result EXCEPT ![w] = NoResult]
        /\ UNCHANGED <<sender, faults, history>>

(* A worker dies, or a query of its tick throws and run() goes on with the  *)
(* next tick: what it had claimed and not recorded waits for the lease.     *)
CutShort(w) ==
    /\ claimed[w] # {}
    /\ faults < MaxFaults
    /\ faults' = faults + 1
    /\ claimed' = [claimed EXCEPT ![w] = {}]
    /\ result' = [result EXCEPT ![w] = NoResult]
    /\ overrun' = overrun \cup {row.msg : row \in claimed[w]}
    /\ UNCHANGED <<status, attempts, due, sender, tries, accepted>>

Held(m) == \E w \in Workers : \E row \in claimed[w] : row.msg = m

\* The lease, or the backoff, of a row ends: now() passes next_attempt_at.
BecomeDue(m) ==
    /\ status[m] # "none"
    /\ ~ due[m]
    /\ due' = [due EXCEPT ![m] = TRUE]
    /\ IF Held(m)
       THEN /\ faults < MaxFaults
            /\ faults' = faults + 1
            /\ overrun' = overrun \cup {m}
       ELSE UNCHANGED <<faults, overrun>>
    /\ UNCHANGED <<status, attempts, claimed, result, sender, tries, accepted>>

-----------------------------------------------------------------------------
(* NotificationService.send(): the row is committed as 'queued', which the  *)
(* workers see, then delivered here, then updated by id.                    *)
SendInsert(m) ==
    /\ m \in Inline
    /\ status[m] = "none"
    /\ status' = [status EXCEPT ![m] = "queued"]
    /\ sender' = [sender EXCEPT ![m] = "inserted"]
    /\ UNCHANGED <<attempts, due, claimed, result, faults, history>>

SendDeliver(m, ok) ==
    /\ sender[m] = "inserted"
    /\ sender' = [sender EXCEPT ![m] = IF ok THEN "accepted" ELSE "refused"]
    /\ Provider(m, ok)
    /\ UNCHANGED <<status, attempts, due, claimed, result, faults, overrun>>

\* Slip: the outcome of the delivery is not looked at.
SendRecordUnchecked(m) ==
    /\ sender[m] \in {"accepted", "refused"}
    /\ status' = [status EXCEPT ![m] = "sent"]
    /\ sender' = [sender EXCEPT ![m] = "idle"]
    /\ UNCHANGED <<attempts, due, claimed, result, faults, history>>

\* drain(): neither attempts nor next_attempt_at is touched, nothing is retried.
SendRecord(m) ==
    /\ sender[m] \in {"accepted", "refused"}
    /\ status' = [status EXCEPT ![m] = IF sender[m] = "accepted" THEN "sent" ELSE "failed"]
    /\ sender' = [sender EXCEPT ![m] = "idle"]
    /\ UNCHANGED <<attempts, due, claimed, result, faults, history>>

SendCutShort(m) ==
    /\ sender[m] # "idle"
    /\ faults < MaxFaults
    /\ faults' = faults + 1
    /\ sender' = [sender EXCEPT ![m] = "idle"]
    /\ UNCHANGED <<status, attempts, due, claimed, result, history>>

-----------------------------------------------------------------------------
SendGoesOn(m) == (\E ok \in BOOLEAN : SendDeliver(m, ok)) \/ SendRecord(m)

Tick(w) ==
    \/ Claim(w)
    \/ \E row \in claimed[w], ok \in BOOLEAN : Deliver(w, row, ok)
    \/ Record(w)

Next ==
    \/ \E m \in Messages :
           Enqueue(m) \/ SendInsert(m) \/ SendGoesOn(m) \/ SendCutShort(m) \/ BecomeDue(m)
    \/ \E w \in Workers : Tick(w) \/ CutShort(w)

Spec == Init /\ [][Next]_vars

(* The worker polls for ever and never leaves its loop on an error, a       *)
(* provider answers, time passes.  Nobody owes a crash or a message.        *)
FairSpec ==
    /\ Spec
    /\ \A w \in Workers : WF_vars(Tick(w))
    /\ \A m \in Messages : WF_vars(BecomeDue(m)) /\ WF_vars(SendGoesOn(m))

-----------------------------------------------------------------------------
(* Properties.                                                             *)

Row == [msg : Messages, attempts : 0..(MaxAttempts - 1)]

(* The columns hold what they may: in particular attempts never passes the  *)
(* budget, and a tick holds a message once, with a budget left.             *)
TypeOK ==
    /\ status \in [Messages -> {"none", "queued", "sent", "failed"}]
    /\ attempts \in [Messages -> 0..MaxAttempts]
    /\ due \in [Messages -> BOOLEAN]
    /\ claimed \in [Workers -> SUBSET Row]
    /\ \A w \in Workers :
           /\ Cardinality(claimed[w]) <= BatchSize
           /\ \A r1, r2 \in claimed[w] : r1.msg = r2.msg => r1 = r2
           /\ result[w] # NoResult => result[w].row \in claimed[w]
    /\ result \in [Workers -> [row : Row, ok : BOOLEAN] \cup {NoResult}]
    /\ sender \in [Messages -> {"idle", "inserted", "accepted", "refused"}]
    /\ faults \in 0..MaxFaults
    /\ tries \in [Messages -> Nat]
    /\ accepted \in [Messages -> Nat]
    /\ overrun \subseteq Messages

(* 'sent' is never written for a message no provider has accepted, however  *)
(* the writers of the row overtake one another.                             *)
SentWasAccepted == \A m \in Messages : status[m] = "sent" => accepted[m] > 0

(* "at-least-once": a message is accepted twice only if its holder was cut  *)
(* short or outlived its lease, or if the send endpoint delivers it as well *)
(* as the workers.                                                          *)
OnceUnlessOverrun ==
    \A m \in Messages \ (Inline \cup overrun) : accepted[m] <= 1

(* "dead-letters after maxAttempts": a row the workers alone handle is not  *)
(* given up before the provider was called that often, even if workers      *)
(* overwrite one another's count.                                           *)
GivenUpLate ==
    \A m \in Messages \ Inline :
        /\ status[m] = "failed" => tries[m] >= MaxAttempts
        /\ attempts[m] <= tries[m]

(* No message is lost: crashes, lapsed leases and overwritten outcomes      *)
(* notwithstanding, every queued message is one day sent or given up for    *)
(* good.                                                                    *)
EveryMessageSettles ==
    \A m \in Messages : status[m] = "queued" ~> [](status[m] \in {"sent", "failed"})
=============================================================================
