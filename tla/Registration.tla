------------------------------ MODULE Registration ------------------------------
(***************************************************************************)
(* Self-registration of one employee number (app/routes_registration.ts):   *)
(* start replaces the live request, a code moves it to review, a reviewer   *)
(* approves it, which creates the account, or rejects it; HR uploads the    *)
(* roster meanwhile.  Each handler is one transaction that reads, may wait  *)
(* for a provider, and writes by id what it read.                           *)
(***************************************************************************)
EXTENDS Naturals, FiniteSets

CONSTANTS
    Requests,  \* rows of registration_request
    Contacts,  \* e-mail and phone of the roster entry, as one value
    Kinds,     \* "driver", "rider" and "staff" are hr_roster.kind
    Handlers   \* requests served at once

VARIABLES
    req,         \* registration_request.status, and whether there is a row
    roster,      \* hr_roster: contact, kind, registered_user_id
    accounts,    \* app_user: contacts of the accounts made for the entry
    linked,      \* kinds of these accounts' rows: employee, driver
    work,        \* work[h]: what a handler has read
    raced        \* history: an approval committed while another handler ran,
                 \* or after its request had been replaced or decided

registrationVars == <<req, roster, accounts, linked, work, raced>>

Live == {"pending_otp", "pending_review"}
Decided == {"approved", "rejected"}

Idle == [at |-> "idle"]
Free(h) == work[h] = Idle
Others(h) == {g \in Handlers \ {h} : ~ Free(g)}

Init ==
    /\ req = [q \in Requests |-> "none"]
    /\ roster \in [contact : Contacts, kind : Kinds, registered : {FALSE}]
    /\ accounts = {} /\ linked = {}
    /\ work = [h \in Handlers |-> Idle]
    /\ raced = FALSE

-----------------------------------------------------------------------------
\* Slip: nobody asks whether the entry is registered.
StartReadAny(h) ==
    /\ Free(h)
    /\ work' = [work EXCEPT ![h] = [at |-> "starting"]]
    /\ UNCHANGED <<req, roster, accounts, linked, raced>>

\* start: the entry exists, is active and not registered.
StartRead(h) ==
    /\ Free(h) /\ ~ roster.registered
    /\ work' = [work EXCEPT ![h] = [at |-> "starting"]]
    /\ UNCHANGED <<req, roster, accounts, linked, raced>>

(* start: the live request is deleted, the new one inserted, the code sent   *)
(* and all of it committed; a second start waits for it or fails.           *)
StartWrite(h, q) ==
    /\ work[h].at = "starting" /\ req[q] = "none"
    /\ req' = [p \in Requests |-> IF p = q THEN "pending_otp"
                                 ELSE IF req[p] \in Live THEN "deleted" ELSE req[p]]
    /\ work' = [work EXCEPT ![h] = Idle]
    /\ UNCHANGED <<roster, accounts, linked, raced>>

(* verify-otp with the right code.  An outdated code, too many attempts and  *)
(* a wrong code are written and then thrown, that is, rolled back: they      *)
(* leave no trace, and no request ever becomes 'expired'.                   *)
VerifyRead(h, q) ==
    /\ Free(h) /\ req[q] = "pending_otp"
    /\ work' = [work EXCEPT ![h] = [at |-> "verifying", q |-> q]]
    /\ UNCHANGED <<req, roster, accounts, linked, raced>>

(* After the faces were compared: an UPDATE by id, whatever the status now;  *)
(* the unique index on live requests may refuse it.                         *)
VerifyWrite(h) ==
    LET q == work[h].q
    IN  /\ work[h].at = "verifying"
        /\ \A p \in Requests \ {q} : req[q] # "deleted" => req[p] \notin Live
        /\ req' = [req EXCEPT ![q] = IF @ = "deleted" THEN @ ELSE "pending_review"]
        /\ work' = [work EXCEPT ![h] = Idle]
        /\ UNCHANGED <<roster, accounts, linked, raced>>

\* approve: the request awaits review; the roster entry is read.
ApproveRead(h, q) ==
    /\ Free(h) /\ req[q] = "pending_review"
    /\ work' = [work EXCEPT ![h] = [at |-> "approving", q |-> q,
                                    contact |-> roster.contact, kind |-> roster.kind]]
    /\ UNCHANGED <<req, roster, accounts, linked, raced>>

(* The account, its driver or employee row, the link and the status.  Two    *)
(* accounts share no e-mail or phone, two employees no number.              *)
ApproveWrite(h) ==
    LET w == work[h]
    IN  /\ w.at = "approving"
        /\ w.contact \notin accounts
        /\ ~ (w.kind = "rider" /\ "rider" \in linked)
        /\ accounts' = accounts \cup {w.contact}
        /\ linked' = linked \cup {w.kind}
        /\ roster' = [roster EXCEPT !.registered = TRUE]
        /\ req' = [req EXCEPT ![w.q] = IF @ = "deleted" THEN @ ELSE "approved"]
        /\ raced' = (raced \/ Others(h) # {} \/ req[w.q] # "pending_review")
        /\ work' = [work EXCEPT ![h] = Idle]

\* reject: an UPDATE guarded by the status.
Reject(q) ==
    /\ req[q] = "pending_review"
    /\ req' = [req EXCEPT ![q] = "rejected"]
    /\ UNCHANGED <<roster, accounts, linked, work, raced>>

\* HR's upload of the entry; the registration stays.
Upload(k, kind) ==
    /\ roster' = [roster EXCEPT !.contact = k, !.kind = kind]
    /\ UNCHANGED <<req, accounts, linked, work, raced>>

\* A guard, a unique key or a provider throws; nothing was committed.
Abort(h) ==
    /\ ~ Free(h)
    /\ work' = [work EXCEPT ![h] = Idle]
    /\ UNCHANGED <<req, roster, accounts, linked, raced>>

-----------------------------------------------------------------------------
Handle(h) ==
    \/ StartRead(h) \/ VerifyWrite(h) \/ ApproveWrite(h) \/ Abort(h)
    \/ \E q \in Requests : StartWrite(h, q) \/ VerifyRead(h, q) \/ ApproveRead(h, q)

Next ==
    \/ \E h \in Handlers : Handle(h)
    \/ \E q \in Requests : Reject(q)
    \/ \E k \in Contacts, kind \in Kinds : Upload(k, kind)

Spec == Init /\ [][Next]_registrationVars

-----------------------------------------------------------------------------
(* Properties.                                                             *)

RegistrationTypeOK ==
    /\ req \in [Requests -> {"none", "pending_otp", "pending_review", "approved", "rejected", "deleted"}]
    /\ roster \in [contact : Contacts, kind : Kinds, registered : BOOLEAN]
    /\ accounts \subseteq Contacts /\ linked \subseteq Kinds
    /\ raced \in BOOLEAN
    /\ Cardinality({q \in Requests : req[q] \in Live}) <= 1

(* Once an entry has an account, it has one, and its requests are settled:   *)
(* one approved, none that a reviewer or a code could still bring to a       *)
(* second - unless handlers of the same entry overlapped when it was made.  *)
SettledUnlessRaced ==
    accounts # {} /\ ~ raced =>
        /\ roster.registered
        /\ Cardinality(accounts) = 1
        /\ \E q \in Requests : \A p \in Requests :
               IF p = q THEN req[p] = "approved" ELSE req[p] \notin Live \cup {"approved"}
=============================================================================
