------------------------------ MODULE RideBoard ------------------------------
(***************************************************************************)
(* What the ride-request feature promises, with no transaction, manifest   *)
(* or trip in sight: a request is posted to a set of drivers, at most one  *)
(* of them ever wins it, and a withdrawn request is never assigned.        *)
(***************************************************************************)
CONSTANTS Requests, Drivers, NoDriver

VARIABLES status,   \* none, open, assigned or cancelled
          offers,   \* the drivers each request was offered to
          winner    \* the driver that claimed it, kept after a cancellation

boardVars == <<status, offers, winner>>

Init ==
    /\ status = [r \in Requests |-> "none"]
    /\ offers = [r \in Requests |-> {}]
    /\ winner = [r \in Requests |-> NoDriver]

Post(r) ==
    /\ status[r] = "none"
    /\ status' = [status EXCEPT ![r] = "open"]
    /\ \E ds \in SUBSET Drivers : offers' = [offers EXCEPT ![r] = ds]
    /\ UNCHANGED winner

Assign(r) ==
    /\ status[r] = "open"
    /\ status' = [status EXCEPT ![r] = "assigned"]
    /\ \E d \in offers[r] : winner' = [winner EXCEPT ![r] = d]
    /\ UNCHANGED offers

Withdraw(r) ==
    /\ status[r] # "none"
    /\ status' = [status EXCEPT ![r] = "cancelled"]
    /\ UNCHANGED <<offers, winner>>

Next == \E r \in Requests : Post(r) \/ Assign(r) \/ Withdraw(r)

Spec == Init /\ [][Next]_boardVars
=============================================================================
