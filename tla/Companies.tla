------------------------------- MODULE Companies -------------------------------
(***************************************************************************)
(* What operators of the platform do to one company (app/routes_platform.ts): *)
(* provision it, suspend and activate it, set its plan, toggle a feature.   *)
(* Each is one transaction that ends with a row of the audit trail, and a   *)
(* toggle clears the flags that its own process has cached (FeatureFlags).  *)
(* Transactions are numbered in the order they begin, which is the order of *)
(* platform_event.created_at; the number also stands for what was written.  *)
(***************************************************************************)
EXTENDS FeatureFlags, FiniteSets

CONSTANT MaxTx  \* bound: transactions of the operators

ASSUME MaxTxAssumption == MaxTx \in Nat

VARIABLES
    tx,     \* tx[n]: a transaction of an operator
    made,   \* made[i]: the transaction that wrote what is committed of i, or 0
    trail   \* platform_event: transactions with a row

companyVars == <<tx, made, trail>>
vars == <<flagVars, companyVars>>

Numbers == 1 .. MaxTx

\* What a transaction writes: the tenant's row, its status, the active
\* subscription, a feature's row.
Items == {"tenant", "status", "plan", "flag"}
Provision == {{"tenant", "status"}, {"tenant", "status", "plan"}}
Requests == Provision \cup {{"status"}, {"plan"}, {"flag"}}

NotBegun == [at |-> "none", items |-> {}]
Undone == [at |-> "undone", items |-> {}]
Open(n) == tx[n].at \in {"begun", "looked", "wrote", "cleared"}
Holds(n) == tx[n].at \in {"wrote", "cleared"}

\* Uncommitted writes of the same rows, which a statement waits for.
Blocked(n) == \E m \in Numbers \ {n} : Holds(m) /\ tx[m].items \cap tx[n].items # {}

CompaniesInit ==
    /\ FlagsInit
    /\ tx = [n \in Numbers |-> NotBegun]
    /\ made = [i \in Items |-> 0]
    /\ trail = {}

-----------------------------------------------------------------------------
(* A request's transaction begins in the process that serves it.            *)
Begin(n, items, p) ==
    /\ tx[n] = NotBegun
    /\ \A m \in Numbers : m < n => tx[m] # NotBegun
    /\ tx' = [tx EXCEPT ![n] = [at |-> "begun", items |-> items, proc |-> p, seen |-> 0,
                                along |-> {m \in Numbers : Open(m)}]]
    /\ UNCHANGED <<made, trail, flagVars>>

\* The plan's UPDATE ... 'cancelled' starts: the active row that it can see.
Look(n) ==
    /\ tx[n].at = "begun" /\ tx[n].items = {"plan"}
    /\ made["tenant"] # 0
    /\ tx' = [tx EXCEPT ![n] = [@ EXCEPT !.at = "looked", !.seen = made["plan"]]]
    /\ UNCHANGED <<made, trail, flagVars>>

\* The statements of the four requests: their state and what they find.
Provisions(n) ==
    /\ tx[n].at = "begun" /\ tx[n].items \in Provision
    /\ made["tenant"] = 0
SetsStatus(n) ==
    /\ tx[n].at = "begun" /\ tx[n].items = {"status"}
    /\ made["tenant"] # 0
SetsPlan(n) ==
    /\ tx[n].at = "looked"
    /\ made["plan"] = tx[n].seen
SetsFeature(n) ==
    /\ tx[n].at = "begun" /\ tx[n].items = {"flag"}
    /\ made["tenant"] # 0

(* What is found again after waiting: a second company of the slug and a     *)
(* second active plan meet a unique key, the others need the company.       *)
Write(n) ==
    /\ Provisions(n) \/ SetsStatus(n) \/ SetsPlan(n) \/ SetsFeature(n)
    /\ ~ Blocked(n)
    /\ tx' = [tx EXCEPT ![n].at = "wrote"]
    /\ UNCHANGED <<made, trail, flagVars>>

\* invalidateFeatureCache, inside the transaction.
Invalidate(n) ==
    /\ tx[n].at = "wrote" /\ "flag" \in tx[n].items
    /\ Drop(tx[n].proc)
    /\ tx' = [tx EXCEPT ![n].at = "cleared"]
    /\ UNCHANGED <<made, trail>>

Commit(n) ==
    /\ tx[n].at = IF "flag" \in tx[n].items THEN "cleared" ELSE "wrote"
    /\ made' = [i \in Items |-> IF i \in tx[n].items THEN n ELSE made[i]]
    /\ trail' = trail \cup {n}
    /\ IF "flag" \in tx[n].items THEN Toggled ELSE UNCHANGED flagVars
    /\ tx' = [tx EXCEPT ![n] = [@ EXCEPT !.at = "committed", !.seen = 0]]

\* Slip: the audit row is written on a connection of its own.
AbortTold(n) ==
    /\ Open(n)
    /\ tx' = [tx EXCEPT ![n].at = "undone"]
    /\ trail' = IF Holds(n) THEN trail \cup {n} ELSE trail
    /\ UNCHANGED <<made, flagVars>>

\* A missing company, a unique key or the connection: all of it is undone.
Abort(n) ==
    /\ Open(n)
    /\ tx' = [tx EXCEPT ![n] = Undone]
    /\ UNCHANGED <<made, trail, flagVars>>

-----------------------------------------------------------------------------
\* A process restarts.
Restart(p) ==
    /\ Forget(p)
    /\ tx' = [n \in Numbers |-> IF Open(n) /\ tx[n].proc = p
                               THEN Undone ELSE tx[n]]
    /\ UNCHANGED <<made, trail>>

Toggling(p) == \E n \in Numbers : tx[n].at = "cleared" /\ tx[n].proc = p

Ask ==
    /\ \E a \in Asks : \/ \E p \in Processes : Load(a, p, made["flag"])
                       \/ asking[a] # Idle /\ Fill(a, Toggling(asking[a].proc))
    /\ UNCHANGED companyVars

Pass == Tick /\ UNCHANGED companyVars

Operate(n) ==
    \/ \E items \in Requests, p \in Processes : Begin(n, items, p)
    \/ Look(n) \/ Write(n) \/ Invalidate(n) \/ Commit(n) \/ Abort(n)

CompaniesNext ==
    \/ \E n \in Numbers : Operate(n)
    \/ \E p \in Processes : Restart(p)
    \/ Ask \/ Pass

CompaniesSpec == CompaniesInit /\ [][CompaniesNext]_vars

-----------------------------------------------------------------------------
(* Properties.                                                             *)

(* "Append a row to the platform audit trail": what stands of the company's  *)
(* status, plan and flag was written by the last transaction the trail has  *)
(* about it, unless that one overlapped the one that did write it: the rows *)
(* carry the times the transactions began, and commit in another order.     *)
TrailTellsState ==
    \A i \in Items :
        LET about == {n \in trail : i \in tx[n].items}
        IN  /\ made[i] = 0 <=> about = {}
            /\ \A n \in about : n > made[i] => made[i] \in tx[n].along

(* "a same-process toggle invalidates the cache immediately, and             *)
(* cross-process changes take effect within the TTL": a cache in force that  *)
(* does not show the last toggle is that of another process, less than the   *)
(* TTL after the toggle - or it was loaded before the commit and stored      *)
(* after it, or after the toggle had cleared this very cache.               *)
FlagsFollow ==
    \A p \in Processes :
        Fresh(p) /\ cache[p].by # made["flag"] =>
            cache[p].late \/ (since < TTL /\ p # tx[made["flag"]].proc)
=============================================================================
