--------------------------- MODULE MCSessionStore ---------------------------
(* SessionStore with two request threads.                                  *)
EXTENDS SessionStore, TLC

CONSTANTS t1, t2, s1, s2

Symmetry == Permutations({t1, t2}) \cup Permutations({s1, s2})
=============================================================================
