------------------------------ MODULE SyncQueue ------------------------------
(***************************************************************************)
(* What the app's outbox promises, with no batch, no flag, no network and   *)
(* no death in sight: changes are made one after the other, their turns     *)
(* come in that order, the server applies a change only once its turn has   *)
(* come, and the app forgets it only once the server has applied it, and    *)
(* for good.                                                                *)
(***************************************************************************)
EXTENDS Naturals, Sequences

CONSTANT Changes

VARIABLES made,    \* the changes in the order they were made
          tried,   \* those whose turn has come
          applied, \* those the server has applied
          kept     \* those the app still knows of

queueVars == <<made, tried, applied, kept>>

Init == made = <<>> /\ tried = {} /\ applied = {} /\ kept = {}

Make(c) ==
    /\ \A i \in 1..Len(made) : made[i] # c
    /\ made' = Append(made, c)
    /\ kept' = kept \cup {c}
    /\ UNCHANGED <<tried, applied>>

\* The turn of the change at place j has come when that of all before it has.
Try(j) ==
    /\ \A i \in 1..j - 1 : made[i] \in tried
    /\ tried' = tried \cup {made[j]}
    /\ UNCHANGED <<made, applied, kept>>

\* However often, and even after a failure or after the app forgot it.
Apply(c) ==
    /\ c \in tried
    /\ applied' = applied \cup {c}
    /\ UNCHANGED <<made, tried, kept>>

Forget(c) ==
    /\ c \in kept \cap applied
    /\ kept' = kept \ {c}
    /\ UNCHANGED <<made, tried, applied>>

Next ==
    \/ \E c \in Changes : Make(c) \/ Apply(c) \/ Forget(c)
    \/ \E j \in 1..Len(made) : Try(j)

Spec == Init /\ [][Next]_queueVars
=============================================================================
