---------------------------- MODULE MCAuthSessions ----------------------------
(* Three tokens, one of which a single sign-on may yield, and two handlers: *)
(* a token, its successor and one that an overlapping handler issues.       *)
EXTENDS AuthSessions, TLC

Symmetry == Permutations(Tokens) \cup Permutations(Handlers)
=============================================================================
