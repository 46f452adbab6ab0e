---------------------------- MODULE MCAuthSessions ----------------------------
(* Requests, and identifiers of the same kind of token, are alike.          *)
EXTENDS AuthSessions, TLC

Symmetry == Permutations(Requests) \cup Permutations(Access) \cup Permutations(Refresh)
==============================================================================
