------------------------- MODULE MCOrganizationTree -------------------------
(* OrganizationTree that starts with a root, a child and a grandchild.     *)
EXTENDS OrganizationTree, TLC

CONSTANTS a1, a2

MCFounders ==
    {[id |-> 1, parent |-> 0, path |-> <<0>>],
     [id |-> 2, parent |-> 1, path |-> <<0, 1>>],
     [id |-> 3, parent |-> 2, path |-> <<0, 1, 2>>]}

Symmetry == Permutations(Admin)
=============================================================================
