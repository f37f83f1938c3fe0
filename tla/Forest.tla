------------------------------- MODULE Forest -------------------------------
(***************************************************************************)
(* What a tree widget of the pages promises: its nodes form a forest.      *)
(* Nodes come under a parent, leave with everything below them, and move   *)
(* anywhere but below themselves.                                          *)
(***************************************************************************)
EXTENDS Trees

CONSTANTS
    Node, \* the nodes there can be
    None  \* the parent of a root, and not a node

VARIABLES
    members, \* the nodes in the forest
    parent   \* [Node -> Node \cup {None}]

vars == <<members, parent>>

-----------------------------------------------------------------------------
TypeOK ==
    /\ members \subseteq Node
    /\ parent \in [Node -> Node \cup {None}]

\* A node of the forest hangs below another one or is a root.
ParentsAreMembers ==
    \A n \in Node : parent[n] # None => n \in members /\ parent[n] \in members

\* No node is below itself.
NoCycle == Acyclic(parent, Node)

IsForest == TypeOK /\ ParentsAreMembers /\ NoCycle

Above(n) == Reach({n}, Upward(parent, Node))

Init == IsForest

Load(new, p) ==
    /\ new \cap members = {}
    /\ p \in members \cup {None}
    /\ members' = members \cup new
    /\ parent' = [n \in Node |-> IF n \in new THEN p ELSE parent[n]]

Move(n, target) ==
    /\ n \in members /\ target \in members
    /\ n \notin Above(target)
    /\ parent' = [parent EXCEPT ![n] = target]
    /\ UNCHANGED members

\* Nodes leave with what is below them.
Prune(gone) ==
    /\ gone \subseteq members
    /\ \A n \in members : parent[n] \in gone => n \in gone
    /\ members' = members \ gone
    /\ parent' = [n \in Node |-> IF n \in gone THEN None ELSE parent[n]]

Next ==
    \/ \E new \in SUBSET Node, p \in Node \cup {None} : Load(new, p)
    \/ \E n, target \in Node : Move(n, target)
    \/ \E gone \in SUBSET Node : Prune(gone)

Spec == Init /\ [][Next]_vars
=============================================================================
