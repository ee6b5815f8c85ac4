------------------------------ MODULE FeatureFlags ------------------------------
(***************************************************************************)
(* One company's feature flags as the processes of the API see them         *)
(* (app/feature_flags.ts): each keeps what it last loaded for a while, and  *)
(* loads it again in a transaction of the request that asks.                *)
(***************************************************************************)
EXTENDS Naturals

CONSTANTS
    Processes,  \* processes of the API
    Asks,       \* requests a process may have waiting for the flags
    TTL         \* CACHE_TTL_MS, in ticks

ASSUME TTLAssumption == TTL \in Nat \ {0}

VARIABLES
    cache,  \* cache[p]: the toggle it shows, its age, and whether it was loaded late
    asking, \* asking[a]: the toggle a load saw, in which process
    since   \* ticks since the last toggle was committed, TTL for many

flagVars == <<cache, asking, since>>

Nothing == [by |-> 0, age |-> TTL, late |-> FALSE]
Idle == [at |-> "idle"]

Fresh(p) == cache[p].age < TTL

FlagsInit ==
    /\ cache = [p \in Processes |-> Nothing]
    /\ asking = [a \in Asks |-> Idle]
    /\ since = TTL

\* The guard of a request misses the cache and selects the disabled flags.
Load(a, p, current) ==
    /\ asking[a] = Idle /\ ~ Fresh(p)
    /\ asking' = [asking EXCEPT ![a] = [at |-> "loading", proc |-> p, by |-> current, over |-> FALSE]]
    /\ UNCHANGED <<cache, since>>

(* The answer is stored under the time of its arrival.  It is late if a      *)
(* toggle was committed since the SELECT or has already been to this cache. *)
Fill(a, toggling) ==
    /\ asking[a] # Idle
    /\ cache' = [cache EXCEPT ![asking[a].proc] =
           [by |-> asking[a].by, age |-> 0, late |-> asking[a].over \/ toggling]]
    /\ asking' = [asking EXCEPT ![a] = Idle]
    /\ UNCHANGED since

\* Slip: the toggle leaves the cache of its own process alone.
DropNothing(p) == UNCHANGED flagVars

\* invalidateFeatureCache, in the process that serves the toggle.
Drop(p) ==
    /\ cache' = [cache EXCEPT ![p] = Nothing]
    /\ UNCHANGED <<asking, since>>

\* A toggle is committed; for the property, loads under way are marked.
Toggled ==
    /\ since' = 0
    /\ asking' = [a \in Asks |-> IF asking[a] = Idle THEN Idle ELSE [asking[a] EXCEPT !.over = TRUE]]
    /\ UNCHANGED cache

Older(n) == IF n < TTL THEN n + 1 ELSE n

\* Time passes.
Tick ==
    /\ cache' = [p \in Processes |-> IF cache[p].age + 1 < TTL
                                     THEN [cache[p] EXCEPT !.age = Older(@)] ELSE Nothing]
    /\ since' = Older(since)
    /\ UNCHANGED asking

\* The process dies with its cache and its requests.
Forget(p) ==
    /\ cache' = [cache EXCEPT ![p] = Nothing]
    /\ asking' = [a \in Asks |-> IF asking[a] # Idle /\ asking[a].proc = p THEN Idle ELSE asking[a]]
    /\ UNCHANGED since

FlagsTypeOK ==
    /\ cache \in [Processes -> [by : Nat, age : 0 .. TTL, late : BOOLEAN]]
    /\ asking \in [Asks -> {Idle} \cup
           [at : {"loading"}, proc : Processes, by : Nat, over : BOOLEAN]]
    /\ since \in 0 .. TTL
=============================================================================
