-------------------------- MODULE MCAuthorization --------------------------
(* Authorization on two administrators, two users of one application and   *)
(* two roles, of which one, the other or both can be selected.             *)
EXTENDS Authorization, TLC

CONSTANTS a1, a2, u1, u2, r1, r2

MCFormRoles == {<<r1>>, <<r2>>, <<r1, r2>>}

\* Administrators and users are interchangeable; roles are not, because the
\* list submits them in the order of its options.
Symmetry == Permutations({a1, a2}) \cup Permutations({u1, u2})
=============================================================================
