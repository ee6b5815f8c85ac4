------------------------------ MODULE MCCompanies ------------------------------
(* Three transactions: a company, then two changes of one thing or another *)
(* in any overlap; two processes with two requests that ask for the flags.  *)
EXTENDS Companies, TLC

Symmetry == Permutations(Processes) \cup Permutations(Asks)
=============================================================================
