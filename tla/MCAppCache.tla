----------------------------- MODULE MCAppCache -----------------------------
(* AppCache with two applications and three request threads.               *)
EXTENDS AppCache, TLC

CONSTANTS t1, t2, t3

Symmetry == Permutations(Thread)
=============================================================================
