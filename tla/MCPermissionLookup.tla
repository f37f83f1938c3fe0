------------------------- MODULE MCPermissionLookup -------------------------
(* PermissionLookup on an installation with two users, two roles and two   *)
(* resources, and on one with what deletions leave behind: a grant of a    *)
(* user who is gone, a role that is gone in a list, and a resource without *)
(* a permission.                                                           *)
EXTENDS PermissionLookup

CONSTANTS r1, r2, s1, s2, p1, p2

MCRoleLists == {<<r1>>, <<r2, r1>>}

MCDatabases ==
    {[users |-> {[id |-> 1, name |-> "alice"], [id |-> 2, name |-> "bob"]},
      apps |-> {[id |-> 1, key |-> "server"]},
      grants |-> {[user |-> 1, app |-> 1, roles |-> <<r1>>],
                  [user |-> 2, app |-> 1, roles |-> <<r2, r1>>]},
      roles |-> {[id |-> r1, resources |-> {s1}],
                 [id |-> r2, resources |-> {s1, s2}]},
      resources |-> {[id |-> s1, permission |-> p1],
                     [id |-> s2, permission |-> p2]}],
     [users |-> {[id |-> 1, name |-> "alice"]},
      apps |-> {[id |-> 1, key |-> "server"]},
      grants |-> {[user |-> 1, app |-> 1, roles |-> <<r2, r1>>],
                  [user |-> 2, app |-> 1, roles |-> <<r1>>]},
      roles |-> {[id |-> r1, resources |-> {s1, s2}]},
      resources |-> {[id |-> s1, permission |-> p1],
                     [id |-> s2, permission |-> NoPermission]}]}
=============================================================================
