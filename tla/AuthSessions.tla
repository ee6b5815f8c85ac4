------------------------------ MODULE AuthSessions ------------------------------
(***************************************************************************)
(* The refresh tokens of one account: login, refresh, logout and change of  *)
(* password (app/routes_auth.ts), single sign-on (app/routes_sso.ts) and    *)
(* what both call (app/auth_tokens.ts).  A handler looks a token up, revokes *)
(* it and inserts its successor in transactions of their own; a change of   *)
(* password is one transaction with two writes.                             *)
(***************************************************************************)
EXTENDS Naturals

CONSTANTS
    Tokens,     \* rows user_session may come to hold, by their token
    Flows,      \* values of state that an SSO redirect may carry
    Handlers,   \* requests served at once
    NoToken,
    MaxChanges  \* bound: changes of the password and deactivations

ASSUME TokensAssumption == NoToken \notin Tokens \cup Flows /\ Tokens \cap Flows = {}

VARIABLES
    row,     \* user_session: the status of a token
    flow,    \* sso_auth_state: the status of a state
    epoch,   \* app_user.password_hash, by how often it was changed
    active,  \* app_user.status = 'active'
    toggles, \* bound: how often the account was deactivated
    job,     \* job[h]: what the handler h has read
    source,  \* history: the token or flow that t was issued for, or NoToken
    issued,  \* history: the password in force when t, or its first forebear, was granted
    cold,    \* history: tokens issued while the account was not active
    late,    \* history: tokens whose issuing, or a forebear's, overlapped a change
             \* of the password or of the status
    shared   \* history: tokens that two refreshes had in hand at once

sessionVars == <<row, flow, epoch, active, toggles, job, source, issued, cold, late, shared>>

Unrevoked == {"live", "expired"}

Idle == [at |-> "idle"]
Job(at, from, e, over) == [at |-> at, from |-> from, epoch |-> e, over |-> over]

Running(h) == job[h].at # "idle"

\* A change of the password that has written and not yet committed.
Changing == {h \in Handlers : job[h].at = "changed"}

\* Its row locks: a statement that updates t waits for it.
Unlocked(t) == \A h \in Changing : t \notin job[h].revoked

\* Refreshes that found t unrevoked and have not issued yet.
InHand(t) == {h \in Handlers : job[h].at \in {"refreshing", "issuing"} /\ job[h].from = t}

Begin(h, at, from, e) ==
    job' = [job EXCEPT ![h] = Job(at, from, e, Changing # {})]

Init ==
    /\ row = [t \in Tokens |-> "none"]
    /\ flow = [f \in Flows |-> "none"]
    /\ epoch = 0 /\ active = TRUE /\ toggles = 0
    /\ job = [h \in Handlers |-> Idle]
    /\ source = [t \in Tokens |-> NoToken]
    /\ issued = [t \in Tokens |-> 0]
    /\ cold = {} /\ late = {} /\ shared = {}

-----------------------------------------------------------------------------
(* Sessions.                                                               *)

\* A login with the password in force; the throttle let it pass.
Login(h) ==
    /\ ~ Running(h) /\ active
    /\ Begin(h, "issuing", NoToken, epoch)
    /\ UNCHANGED <<row, flow, epoch, active, toggles, source, issued, cold, late, shared>>

\* auth_session_lookup finds the token unrevoked and not expired.
RefreshLookup(h, t) ==
    /\ ~ Running(h) /\ active /\ row[t] = "live"
    /\ Begin(h, "refreshing", t, issued[t])
    /\ shared' = IF InHand(t) = {} THEN shared ELSE shared \cup {t}
    /\ UNCHANGED <<row, flow, epoch, active, toggles, source, issued, cold, late>>

\* Slip: a token that has expired since is not worth revoking.
RefreshRevokeUnexpired(h) ==
    /\ job[h].at = "refreshing" /\ Unlocked(job[h].from)
    /\ row' = [row EXCEPT ![job[h].from] = IF @ = "expired" THEN @ ELSE "revoked"]
    /\ job' = [job EXCEPT ![h].at = "issuing"]
    /\ UNCHANGED <<flow, epoch, active, toggles, source, issued, cold, late, shared>>

\* The rotation's first transaction: by id, whatever the row has become.
RefreshRevoke(h) ==
    /\ job[h].at = "refreshing" /\ Unlocked(job[h].from)
    /\ row' = [row EXCEPT ![job[h].from] = "revoked"]
    /\ job' = [job EXCEPT ![h].at = "issuing"]
    /\ UNCHANGED <<flow, epoch, active, toggles, source, issued, cold, late, shared>>

\* issueSession: permissions, scope and the new row.
Issue(h, t) ==
    /\ job[h].at = "issuing" /\ row[t] = "none"
    /\ row' = [row EXCEPT ![t] = "live"]
    /\ source' = [source EXCEPT ![t] = job[h].from]
    /\ issued' = [issued EXCEPT ![t] = job[h].epoch]
    /\ cold' = IF active THEN cold ELSE cold \cup {t}
    /\ late' = IF job[h].over \/ job[h].from \in late THEN late \cup {t} ELSE late
    /\ job' = [job EXCEPT ![h] = Idle]
    /\ UNCHANGED <<flow, epoch, active, toggles, shared>>

LogoutLookup(h, t) ==
    /\ ~ Running(h) /\ row[t] \in Unrevoked
    /\ Begin(h, "leaving", t, epoch)
    /\ UNCHANGED <<row, flow, epoch, active, toggles, source, issued, cold, late, shared>>

LogoutRevoke(h) ==
    /\ job[h].at = "leaving" /\ Unlocked(job[h].from)
    /\ row' = [row EXCEPT ![job[h].from] = "revoked"]
    /\ job' = [job EXCEPT ![h] = Idle]
    /\ UNCHANGED <<flow, epoch, active, toggles, source, issued, cold, late, shared>>

Expire(t) ==
    /\ row[t] = "live"
    /\ row' = [row EXCEPT ![t] = "expired"]
    /\ UNCHANGED <<flow, epoch, active, toggles, job, source, issued, cold, late, shared>>

-----------------------------------------------------------------------------
(* The password.                                                           *)

\* The transaction verifies the current password.
ChangeVerify(h) ==
    /\ ~ Running(h) /\ epoch + toggles < MaxChanges
    /\ Begin(h, "changing", NoToken, epoch)
    /\ UNCHANGED <<row, flow, epoch, active, toggles, source, issued, cold, late, shared>>

(* Both UPDATEs, uncommitted: the user's row, for which another change       *)
(* waits, and every session that is unrevoked now.                          *)
ChangeWrite(h) ==
    /\ job[h].at = "changing" /\ Changing = {}
    /\ job' = [g \in Handlers |->
           IF g = h THEN [at |-> "changed", revoked |-> {t \in Tokens : row[t] \in Unrevoked}]
           ELSE IF Running(g) THEN [job[g] EXCEPT !.over = TRUE] ELSE job[g]]
    /\ UNCHANGED <<row, flow, epoch, active, toggles, source, issued, cold, late, shared>>

\* Slip: the password changes and the sessions stay.
ChangeCommitOnly(h) ==
    /\ job[h].at = "changed"
    /\ epoch' = epoch + 1
    /\ job' = [job EXCEPT ![h] = Idle]
    /\ UNCHANGED <<row, flow, active, toggles, source, issued, cold, late, shared>>

ChangeCommit(h) ==
    /\ job[h].at = "changed"
    /\ epoch' = epoch + 1
    /\ row' = [t \in Tokens |-> IF t \in job[h].revoked THEN "revoked" ELSE row[t]]
    /\ job' = [job EXCEPT ![h] = Idle]
    /\ UNCHANGED <<flow, active, toggles, source, issued, cold, late, shared>>

-----------------------------------------------------------------------------
(* Single sign-on.                                                         *)

\* The redirect to the identity provider; outdated states are pruned.
Authorize(f) ==
    /\ flow[f] = "none"
    /\ flow' = [g \in Flows |-> IF g = f THEN "pending"
                               ELSE IF flow[g] = "stale" THEN "gone" ELSE flow[g]]
    /\ UNCHANGED <<row, epoch, active, toggles, job, source, issued, cold, late, shared>>

FlowExpires(f) ==
    /\ flow[f] = "pending"
    /\ flow' = [flow EXCEPT ![f] = "stale"]
    /\ UNCHANGED <<row, epoch, active, toggles, job, source, issued, cold, late, shared>>

\* Slip: the state is read, and stays for the next callback.
CallbackRereading(h, f) ==
    /\ ~ Running(h) /\ flow[f] = "pending"
    /\ Begin(h, "returning", f, epoch)
    /\ UNCHANGED <<row, flow, epoch, active, toggles, source, issued, cold, late, shared>>

\* DELETE ... RETURNING: one callback gets the state.
Callback(h, f) ==
    /\ ~ Running(h) /\ flow[f] = "pending"
    /\ flow' = [flow EXCEPT ![f] = "gone"]
    /\ Begin(h, "returning", f, epoch)
    /\ UNCHANGED <<row, epoch, active, toggles, source, issued, cold, late, shared>>

\* The provider's answer is verified and names the account's e-mail.
Match(h) ==
    /\ job[h].at = "returning" /\ active
    /\ Begin(h, "issuing", job[h].from, epoch)
    /\ UNCHANGED <<row, flow, epoch, active, toggles, source, issued, cold, late, shared>>

(* PATCH /v1/users/:id sets the status; sessions are left alone.  For the    *)
(* properties, handlers that run meanwhile are marked.                      *)
SetStatus(b) ==
    /\ active # b
    /\ ~ b => epoch + toggles < MaxChanges
    /\ active' = b
    /\ toggles' = IF b THEN toggles ELSE toggles + 1
    /\ job' = [h \in Handlers |->
           IF job[h].at \in {"refreshing", "issuing"} THEN [job[h] EXCEPT !.over = TRUE] ELSE job[h]]
    /\ UNCHANGED <<row, flow, epoch, source, issued, cold, late, shared>>

\* A query or the provider fails, or the process dies: what is committed stays.
Fail(h) ==
    /\ Running(h)
    /\ job' = [job EXCEPT ![h] = Idle]
    /\ UNCHANGED <<row, flow, epoch, active, toggles, source, issued, cold, late, shared>>

-----------------------------------------------------------------------------
Handle(h) ==
    \/ Login(h) \/ RefreshRevoke(h) \/ LogoutRevoke(h)
    \/ ChangeVerify(h) \/ ChangeWrite(h) \/ ChangeCommit(h)
    \/ Match(h) \/ Fail(h)
    \/ \E t \in Tokens : RefreshLookup(h, t) \/ Issue(h, t) \/ LogoutLookup(h, t)
    \/ \E f \in Flows : Callback(h, f)

Next ==
    \/ \E h \in Handlers : Handle(h)
    \/ \E t \in Tokens : Expire(t)
    \/ \E f \in Flows : Authorize(f) \/ FlowExpires(f)
    \/ \E b \in BOOLEAN : SetStatus(b)

Spec == Init /\ [][Next]_sessionVars

-----------------------------------------------------------------------------
(* Properties.                                                             *)

Jobs ==
    {Idle}
    \cup [at : {"refreshing", "leaving"}, from : Tokens, epoch : Nat, over : BOOLEAN]
    \cup [at : {"returning"}, from : Flows, epoch : Nat, over : BOOLEAN]
    \cup [at : {"issuing"}, from : Tokens \cup Flows \cup {NoToken}, epoch : Nat, over : BOOLEAN]
    \cup [at : {"changing"}, from : {NoToken}, epoch : Nat, over : BOOLEAN]
    \cup [at : {"changed"}, revoked : SUBSET Tokens]

SessionsTypeOK ==
    /\ row \in [Tokens -> {"none", "live", "expired", "revoked"}]
    /\ flow \in [Flows -> {"none", "pending", "stale", "gone"}]
    /\ epoch \in Nat /\ active \in BOOLEAN /\ toggles \in Nat
    /\ job \in [Handlers -> Jobs]
    /\ \A h \in Handlers : \A t \in Tokens :
           job[h].at = "issuing" /\ job[h].from = t => row[t] = "revoked"
    /\ source \in [Tokens -> Tokens \cup Flows \cup {NoToken}]
    /\ issued \in [Tokens -> Nat]
    /\ cold \subseteq Tokens /\ late \subseteq Tokens /\ shared \subseteq Tokens

(* "Force re-login on other devices after a password change": a session     *)
(* that goes back to an earlier password is revoked, and "Account is not     *)
(* active" is what an inactive one is told instead of a session - unless the *)
(* session, or one it was refreshed from, was issued by a handler that ran   *)
(* while the password or the status changed.                                *)
OldSessionsGone ==
    \A t \in Tokens : \/ row[t] = "live" /\ issued[t] # epoch
                      \/ t \in cold
                      => t \in late

(* "Refresh rotates the token (revoke old, issue new)": a token has one      *)
(* successor, unless refreshes found it unrevoked before either revoked it;  *)
(* a single sign-on has one session, without exception.                     *)
OneSuccessor ==
    \A t, u \in Tokens :
        t # u /\ source[t] = source[u] /\ source[t] # NoToken => source[t] \in shared
=============================================================================
