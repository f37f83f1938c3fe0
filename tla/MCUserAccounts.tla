--------------------------- MODULE MCUserAccounts ---------------------------
(* UserAccounts with two administrators, two names and two passwords.      *)
EXTENDS UserAccounts, TLC

CONSTANTS a1, a2

Symmetry == Permutations(Admin)
=============================================================================
