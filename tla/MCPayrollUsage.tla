----------------------------- MODULE MCPayrollUsage -----------------------------
(***************************************************************************)
(* Three rides for TLC: two of one employee on two days, one of another on *)
(* the first day that was recorded without a trip.                         *)
(***************************************************************************)
EXTENDS PayrollUsage, TLC

CONSTANTS a1, a2, b1, e1, e2

MCRiderOf == (a1 :> e1) @@ (a2 :> e1) @@ (b1 :> e2)
MCDateOf == (a1 :> 1) @@ (a2 :> 2) @@ (b1 :> 1)
=============================================================================
