--------------------------- MODULE MCAdminAccounts ---------------------------
(* AdminAccounts for TLC: slots and users of a safety run interchange.      *)
EXTENDS AdminAccounts, TLC

Symmetry == Permutations(Slots) \cup Permutations(Users)
=============================================================================
