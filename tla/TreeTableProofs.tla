-------------------------- MODULE TreeTableProofs --------------------------
(***************************************************************************)
(* What TLAPS proves of TreeTable, for any set of nodes, any rows that the *)
(* page has and loads, and any bounds, in three inductive invariants:      *)
(*   TableInv  the nodes are a forest, which lists its children,           *)
(*   ListInv   the rows are its nodes, and lie in branches,                *)
(*   ViewInv   what is shown is what is expanded, and can be toggled.      *)
(* The first gives the refinement of Forest; the three together, and       *)
(* RestTyped for the other types, TableIsSound and RowsShowTheTree.        *)
(*                                                                         *)
(* The recursion of Only, Through, FlattenSeq, Preorder, Postorder and     *)
(* FindLastNode is met by inductions over sets: of numbers, and of nodes,  *)
(* from the leaves of the forest upwards.                                  *)
(***************************************************************************)
EXTENDS TreeTable, Integers, SequenceTheorems, FiniteSetTheorems,
        WellFoundedInduction, TLAPS

-----------------------------------------------------------------------------
(* Lists.                                                                  *)

\* Induction up to n, for a set: the least counterexample is not 0, and the
\* number before it is none.
LEMMA UpTo ==
    ASSUME NEW n \in Nat, NEW G,
           0 \in G, \A k \in 0..(n - 1) : k \in G => k + 1 \in G
    PROVE  0..n \subseteq G
<1> SUFFICES ASSUME ~(0..n \subseteq G) PROVE FALSE
  OBVIOUS
<1> DEFINE B == (0..n) \ G
<1>1. B # {} /\ B \subseteq Nat
  OBVIOUS
<1>2. IsWellFoundedOn(OpToRel(<, Nat), Nat)
  BY NatLessThanWellFounded
<1>3. PICK x \in B : \A y \in B : <<y, x>> \notin OpToRel(<, Nat)
  BY <1>1, <1>2, WFMin
<1>4. \A y \in B : ~(y < x)
  BY <1>1, <1>3 DEF OpToRel
<1>5. x # 0 /\ x \in 1..n
  BY <1>4
<1>6. x - 1 \in 0..n /\ x - 1 < x
  BY <1>5
<1>7. x - 1 \in G
  BY <1>6, <1>4
<1>8. x - 1 \in 0..(n - 1) /\ (x - 1) + 1 = x
  BY <1>5
<1> QED BY <1>7, <1>8, <1>3

\* The length and the elements of a list.
LEMMA ListFacts ==
    ASSUME NEW T, NEW seq \in Seq(T)
    PROVE  /\ Len(seq) \in Nat /\ DOMAIN seq = 1..Len(seq)
           /\ \A i \in 1..Len(seq) : seq[i] \in T
           /\ ToSet(seq) = {seq[i] : i \in 1..Len(seq)} /\ ToSet(seq) \subseteq T
BY LenProperties, ElementOfSeq DEF ToSet

\* What is in a list with one more element.
LEMMA AppendFacts ==
    ASSUME NEW T, NEW seq \in Seq(T), NEW e \in T
    PROVE  Append(seq, e) \in Seq(T) /\ ToSet(Append(seq, e)) = ToSet(seq) \cup {e}
<1>1. /\ Append(seq, e) \in Seq(T)
      /\ Len(Append(seq, e)) = Len(seq) + 1
      /\ \A i \in 1..Len(seq) : Append(seq, e)[i] = seq[i]
      /\ Append(seq, e)[Len(seq) + 1] = e
  BY AppendProperties
<1>2. ToSet(Append(seq, e)) = {Append(seq, e)[i] : i \in 1..(Len(seq) + 1)}
  BY <1>1, ListFacts
<1> QED BY <1>1, <1>2, ListFacts

\* What is in two lists together.
LEMMA ConcatFacts ==
    ASSUME NEW T, NEW s \in Seq(T), NEW t \in Seq(T)
    PROVE  s \o t \in Seq(T) /\ ToSet(s \o t) = ToSet(s) \cup ToSet(t)
<1>1. /\ s \o t \in Seq(T)
      /\ Len(s \o t) = Len(s) + Len(t)
      /\ \A i \in 1..(Len(s) + Len(t)) :
            (s \o t)[i] = IF i <= Len(s) THEN s[i] ELSE t[i - Len(s)]
  BY ConcatProperties
<1>2. /\ Len(s) \in Nat /\ Len(t) \in Nat
      /\ ToSet(s) = {s[i] : i \in 1..Len(s)} /\ ToSet(t) = {t[i] : i \in 1..Len(t)}
      /\ ToSet(s \o t) = {(s \o t)[i] : i \in 1..(Len(s) + Len(t))}
  BY <1>1, ListFacts
<1>3. \A x \in ToSet(s \o t) : x \in ToSet(s) \cup ToSet(t)
  BY <1>1, <1>2
<1>4. \A x \in ToSet(s) : x \in ToSet(s \o t)
  BY <1>1, <1>2
<1>5. \A i \in 1..Len(t) : /\ i + Len(s) \in 1..(Len(s) + Len(t))
                           /\ (s \o t)[i + Len(s)] = t[i]
  BY <1>1, <1>2
<1>6. \A x \in ToSet(t) : x \in ToSet(s \o t)
  BY <1>2, <1>5
<1> QED BY <1>1, <1>3, <1>4, <1>6

\* What Only has picked of the first n elements.
Picks(g, seq, S, n) ==
    /\ g[0] = <<>>
    /\ \A i \in 1..n :
        g[i] = IF seq[i] \in S THEN Append(g[i - 1], seq[i]) ELSE g[i - 1]

\* There is a function that picks.
LEMMA PicksExist ==
    ASSUME NEW T, NEW seq \in Seq(T), NEW S
    PROVE  \E g \in [0..Len(seq) -> Seq(T)] : Picks(g, seq, S, Len(seq))
<1> DEFINE Found(n) == \E f \in [0..n -> Seq(T)] : Picks(f, seq, S, n)
           G == {n \in 0..Len(seq) : Found(n)}
<1>1. Len(seq) \in Nat /\ \A i \in 1..Len(seq) : seq[i] \in T
  BY ListFacts
<1>2. 0 \in G
  <2> DEFINE g == [i \in 0..0 |-> <<>>]
  <2>1. g \in [0..0 -> Seq(T)] /\ Picks(g, seq, S, 0)
    BY DEF Picks
  <2> HIDE DEF g
  <2>2. Found(0)
    BY <2>1
  <2> QED BY <2>2, <1>1
<1>3. ASSUME NEW n \in 0..(Len(seq) - 1), n \in G
      PROVE  n + 1 \in G
  <2>1. PICK g \in [0..n -> Seq(T)] : Picks(g, seq, S, n)
    BY <1>3
  <2> DEFINE next == IF seq[n + 1] \in S THEN Append(g[n], seq[n + 1]) ELSE g[n]
             h == [i \in 0..(n + 1) |-> IF i = n + 1 THEN next ELSE g[i]]
  <2>2. n \in Nat /\ n + 1 \in 1..Len(seq) /\ g[n] \in Seq(T)
    BY <1>1, <2>1
  <2>3. next \in Seq(T)
    BY <1>1, <2>2, AppendProperties
  <2>4. h \in [0..(n + 1) -> Seq(T)]
    BY <2>2, <2>3
  <2>5. Picks(h, seq, S, n + 1)
    <3>1. /\ h[n + 1] = next /\ \A i \in 0..n : h[i] = g[i]
          /\ (n + 1) - 1 = n /\ 1..(n + 1) = 1..n \cup {n + 1}
          /\ 0 \in 0..n /\ n \in 0..n
      BY <2>2
    <3>2. \A i \in 1..n : i \in 0..n /\ i - 1 \in 0..n
      BY <2>2
    <3> HIDE DEF h
    <3> QED BY <2>1, <3>1, <3>2 DEF Picks
  <2> HIDE DEF h, next
  <2>6. Found(n + 1)
    BY <2>4, <2>5
  <2> QED BY <1>1, <2>2, <2>6
<1> HIDE DEF G
<1>4. 0..Len(seq) \subseteq G
  BY <1>1, <1>2, <1>3, UpTo
<1>5. Len(seq) \in G
  BY <1>1, <1>4
<1> QED BY <1>5 DEF G

\* Only picks: its recursion has a solution, and no second one.
LEMMA OnlyPicks ==
    ASSUME NEW T, NEW seq \in Seq(T), NEW S
    PROVE  \E g \in [0..Len(seq) -> Seq(T)] :
              Picks(g, seq, S, Len(seq)) /\ Only(seq, S) = g[Len(seq)]
<1> DEFINE step(g, i) == IF i = 0 THEN <<>>
                         ELSE IF seq[i] \in S THEN Append(g[i - 1], seq[i]) ELSE g[i - 1]
           turn(g) == [i \in 0..Len(seq) |-> step(g, i)]
           picked == CHOOSE g : g = turn(g)
<1>1. Only(seq, S) = picked[Len(seq)]
  BY DEF Only
<1>2. PICK g \in [0..Len(seq) -> Seq(T)] : Picks(g, seq, S, Len(seq))
  BY PicksExist
<1>3. Len(seq) \in Nat
  BY ListFacts
<1>4. /\ 0 \in 0..Len(seq)
      /\ \A i \in 0..Len(seq) : i # 0 => i \in 1..Len(seq)
      /\ \A i \in 1..Len(seq) : i \in 0..Len(seq) /\ i # 0
  BY <1>3
<1>5. g = turn(g)
  <2>1. g = [i \in 0..Len(seq) |-> g[i]]
    OBVIOUS
  <2>2. \A i \in 0..Len(seq) : g[i] = step(g, i)
    BY <1>2, <1>4 DEF Picks
  <2> QED BY <2>1, <2>2
<1>6. picked = turn(picked)
  <2> HIDE DEF turn
  <2> QED BY <1>5
<1> HIDE DEF picked
<1>7. picked[0] = <<>> /\ \A i \in 1..Len(seq) : picked[i] = step(picked, i)
  <2>1. \A i \in 0..Len(seq) : picked[i] = turn(picked)[i]
    BY <1>6
  <2> QED BY <1>4, <2>1
<1> DEFINE G == {n \in 0..Len(seq) : picked[n] = g[n]}
<1>8. 0 \in G
  BY <1>2, <1>4, <1>7 DEF Picks
<1>9. \A n \in 0..(Len(seq) - 1) : n \in G => n + 1 \in G
  BY <1>2, <1>3, <1>7 DEF Picks
<1> HIDE DEF G
<1>10. Len(seq) \in G
  <2>1. 0..Len(seq) \subseteq G
    BY <1>3, <1>8, <1>9, UpTo
  <2> QED BY <1>3, <2>1
<1> QED BY <1>1, <1>2, <1>10 DEF G

\* What is left of a list is what was in it and in the set.
LEMMA OnlyFacts ==
    ASSUME NEW T, NEW seq \in Seq(T), NEW S
    PROVE  Only(seq, S) \in Seq(T) /\ ToSet(Only(seq, S)) = ToSet(seq) \cap S
<1>1. PICK g \in [0..Len(seq) -> Seq(T)] :
              Picks(g, seq, S, Len(seq)) /\ Only(seq, S) = g[Len(seq)]
  BY OnlyPicks
<1> DEFINE G == {n \in 0..Len(seq) : ToSet(g[n]) = {seq[i] : i \in 1..n} \cap S}
<1>2. Len(seq) \in Nat /\ \A i \in 1..Len(seq) : seq[i] \in T
  BY ListFacts
<1>3. 0 \in G
  BY <1>1, <1>2 DEF Picks, ToSet
<1>4. ASSUME NEW n \in 0..(Len(seq) - 1), n \in G
      PROVE  n + 1 \in G
  <2>1. n \in Nat /\ n + 1 \in 1..Len(seq) /\ g[n] \in Seq(T) /\ (n + 1) - 1 = n
    BY <1>1, <1>2
  <2>2. {seq[i] : i \in 1..(n + 1)} = {seq[i] : i \in 1..n} \cup {seq[n + 1]}
    BY <2>1
  <2>3. g[n + 1] = IF seq[n + 1] \in S THEN Append(g[n], seq[n + 1]) ELSE g[n]
    BY <1>1, <2>1 DEF Picks
  <2>4. ToSet(Append(g[n], seq[n + 1])) = ToSet(g[n]) \cup {seq[n + 1]}
    BY <1>2, <2>1, AppendFacts
  <2> QED BY <1>2, <1>4, <2>1, <2>2, <2>3, <2>4
<1> HIDE DEF G
<1>5. Len(seq) \in G
  <2>1. 0..Len(seq) \subseteq G
    BY <1>2, <1>3, <1>4, UpTo
  <2> QED BY <1>2, <2>1
<1> QED BY <1>1, <1>2, <1>5, ListFacts DEF G

-----------------------------------------------------------------------------
(* What is reached.                                                        *)

\* What is reached from S is in every set that holds S and is closed, so that
\* for what is not reached there is such a set without it.
LEMMA NotReached ==
    ASSUME NEW S, NEW next, NEW n \in DOMAIN next, n \notin Reach(S, next)
    PROVE  \E U \in SUBSET DOMAIN next :
                S \subseteq U /\ (\A u \in U : next[u] \subseteq U) /\ n \notin U
BY DEF Reach

\* What is reached holds where it starts, and what comes next.
LEMMA ReachIsClosed ==
    ASSUME NEW S, NEW next, S \subseteq DOMAIN next,
           \A u \in DOMAIN next : next[u] \subseteq DOMAIN next
    PROVE  /\ Reach(S, next) \subseteq DOMAIN next
           /\ S \subseteq Reach(S, next)
           /\ \A u \in Reach(S, next) : next[u] \subseteq Reach(S, next)
BY DEF Reach

\* The branch below a node: its children, and theirs.
LEMMA BelowFacts ==
    ASSUME NEW kids \in [Node -> Seq(Node)], NEW n \in Node
    PROVE  /\ Below(kids, n) \subseteq Node
           /\ ToSet(kids[n]) \subseteq Below(kids, n)
           /\ \A m \in Below(kids, n) : ToSet(kids[m]) \subseteq Below(kids, n)
<1> DEFINE next == Lists(kids)
<1>1. ASSUME NEW m \in Node PROVE ToSet(kids[m]) \subseteq Node
  <2>1. kids[m] \in Seq(Node)
    OBVIOUS
  <2> QED BY <2>1, ListFacts
<1>2. DOMAIN next = Node /\ \A m \in Node : next[m] = ToSet(kids[m])
  BY DEF Lists
<1> DEFINE below == Reach(ToSet(kids[n]), next)
<1>3. below = Below(kids, n)
  BY DEF Below
<1> HIDE DEF next
<1>4. /\ ToSet(kids[n]) \subseteq DOMAIN next
      /\ \A m \in DOMAIN next : next[m] \subseteq DOMAIN next
  BY <1>1, <1>2
<1>5. /\ below \subseteq DOMAIN next /\ ToSet(kids[n]) \subseteq below
      /\ \A m \in below : next[m] \subseteq below
  BY <1>4, ReachIsClosed
<1> HIDE DEF below
<1> QED BY <1>2, <1>3, <1>5

-----------------------------------------------------------------------------
(* A forest stays a forest.                                                *)

Parents == [Node -> Node \cup {None}]

IsForest(members, up) ==
    /\ members \subseteq Node /\ up \in Parents
    /\ \A n \in Node : up[n] # None => n \in members /\ up[n] \in members
    /\ Acyclic(up, Node)

\* The parents once new nodes came below p, and once the nodes in gone left.
With(up, new, p) == [n \in Node |-> IF n \in new THEN p ELSE up[n]]
Without(up, gone) == [n \in Node |-> IF n \in gone THEN None ELSE up[n]]

\* Where nothing is its own ancestor, no set of nodes holds the parents of all
\* its nodes but the empty one.
LEMMA ClosedIsEmpty ==
    ASSUME NEW up, NEW S \in SUBSET Node, Acyclic(up, Node),
           \A n \in S : up[n] \in S
    PROVE  S = {}
BY DEF Acyclic

\* A move below anything that is not below the node makes no cycle: a set that
\* holds the new parents of its nodes would, cut down to the ancestors of the
\* target, hold the old ones.
LEMMA MoveKeepsForest ==
    ASSUME NEW members, NEW up, IsForest(members, up),
           NEW n \in members, NEW target \in members,
           n \notin Reach({target}, Upward(up, Node))
    PROVE  IsForest(members, [up EXCEPT ![n] = target])
<1> DEFINE new == [up EXCEPT ![n] = target]
<1>1. /\ members \subseteq Node /\ up \in Parents /\ Acyclic(up, Node)
      /\ \A m \in Node : up[m] # None => m \in members /\ up[m] \in members
  BY DEF IsForest
<1>2. /\ DOMAIN Upward(up, Node) = Node
      /\ \A m \in Node : Upward(up, Node)[m] = {up[m]} \cap Node
  BY <1>1 DEF Upward, Parents
<1>3. PICK U \in SUBSET Node :
            /\ target \in U /\ n \notin U
            /\ \A u \in U : {up[u]} \cap Node \subseteq U
  <2>1. \E U \in SUBSET DOMAIN Upward(up, Node) :
            /\ {target} \subseteq U /\ n \notin U
            /\ \A u \in U : Upward(up, Node)[u] \subseteq U
    BY <1>1, <1>2, NotReached
  <2> QED BY <2>1, <1>2
<1>4. new \in Parents /\ \A m \in Node : new[m] = IF m = n THEN target ELSE up[m]
  BY <1>1 DEF Parents
<1>5. ASSUME NEW S \in SUBSET Node, \A m \in S : new[m] \in S
      PROVE  S = {}
  <2>1. CASE n \notin S
    <3>1. \A m \in S : up[m] \in S
      BY <1>4, <1>5, <2>1
    <3> QED BY <3>1, <1>1, ClosedIsEmpty
  <2>2. CASE n \in S
    <3>1. target \in S \cap U
      BY <1>1, <1>3, <1>4, <1>5, <2>2
    <3>2. \A m \in S \cap U : up[m] \in S \cap U
      BY <1>1, <1>3, <1>4, <1>5
    <3>3. S \cap U = {}
      BY <3>2, <1>1, ClosedIsEmpty
    <3> QED BY <3>1, <3>3
  <2> QED BY <2>1, <2>2
<1> HIDE DEF new
<1>6. Acyclic(new, Node)
  BY <1>5 DEF Acyclic
<1>7. IsForest(members, new)
  BY <1>1, <1>4, <1>6 DEF IsForest
<1> QED BY <1>7 DEF new

\* Nodes that are new come below one that was there, or become roots.
LEMMA LoadKeepsForest ==
    ASSUME None \notin Node, NEW members, NEW up, IsForest(members, up),
           NEW new \in SUBSET Node, new \cap members = {}, NEW p \in members \cup {None}
    PROVE  IsForest(members \cup new, With(up, new, p))
<1> DEFINE next == With(up, new, p)
<1>1. /\ members \subseteq Node /\ up \in Parents /\ Acyclic(up, Node)
      /\ \A n \in Node : up[n] # None => n \in members /\ up[n] \in members
  BY DEF IsForest
<1>2. /\ next \in Parents
      /\ \A n \in Node : next[n] # None => n \in members \cup new /\ next[n] \in members
      /\ \A n \in members : next[n] = up[n]
  BY <1>1 DEF Parents, With
<1> HIDE DEF next
<1>3. ASSUME NEW S \in SUBSET Node, \A m \in S : next[m] \in S
      PROVE  S = {}
  <2>1. \A m \in S : next[m] \in members
    BY <1>2, <1>3
  <2>2. \A m \in S \cap members : up[m] \in S \cap members
    BY <1>2, <1>3, <2>1
  <2>3. S \cap members = {}
    BY <2>2, <1>1, ClosedIsEmpty
  <2> QED BY <1>3, <2>1, <2>3
<1>4. Acyclic(next, Node)
  BY <1>3 DEF Acyclic
<1> QED BY <1>1, <1>2, <1>4 DEF IsForest, next

\* What stays keeps its parent.
LEMMA PruneKeepsForest ==
    ASSUME None \notin Node, NEW members, NEW up, IsForest(members, up),
           NEW gone, \A n \in members : up[n] \in gone => n \in gone
    PROVE  IsForest(members \ gone, Without(up, gone))
<1> DEFINE next == Without(up, gone)
<1>1. /\ members \subseteq Node /\ up \in Parents /\ Acyclic(up, Node)
      /\ \A n \in Node : up[n] # None => n \in members /\ up[n] \in members
  BY DEF IsForest
<1>2. /\ next \in Parents
      /\ \A n \in Node : next[n] # None => next[n] = up[n] /\ n \notin gone
  BY <1>1 DEF Parents, Without
<1> HIDE DEF next
<1>3. \A n \in Node : next[n] # None => n \in members \ gone /\ next[n] \in members \ gone
  BY <1>1, <1>2
<1>4. ASSUME NEW S \in SUBSET Node, \A m \in S : next[m] \in S
      PROVE  S = {}
  <2>1. \A m \in S : up[m] \in S
    BY <1>2, <1>4
  <2> QED BY <2>1, <1>1, ClosedIsEmpty
<1>5. Acyclic(next, Node)
  BY <1>4 DEF Acyclic
<1> QED BY <1>1, <1>2, <1>3, <1>5 DEF IsForest, next

-----------------------------------------------------------------------------
(* The table.                                                              *)

\* The parents of the nodes in the tree: what Forest sees of the table.
Up == [n \in Node |-> IF n \in tree THEN parentId[n] ELSE None]

\* A row that is not in the tree, or no more, has no children there.
GoneHaveNoChildren == \A n \in Node \ tree : ToSet(children[n]) = {}

TableInv ==
    /\ parentId \in Parents /\ children \in [Node -> Seq(Node)]
    /\ ChildrenNameTheirParent /\ GoneHaveNoChildren
    /\ IsForest(tree, Up)

\* What the invariant says of single nodes.
LEMMA TableFacts ==
    ASSUME TableInv
    PROVE  /\ tree \subseteq Node /\ None \notin Node
           /\ parentId \in [Node -> Node \cup {None}] /\ children \in [Node -> Seq(Node)]
           /\ \A n \in Node : children[n] \in Seq(Node) /\ ToSet(children[n]) \subseteq Node
           /\ \A n \in tree : parentId[n] \in tree \cup {None} /\ Up[n] = parentId[n]
           /\ \A n \in Node \ tree : ToSet(children[n]) = {} /\ Up[n] = None
           /\ \A n, p \in tree : n \in ToSet(children[p]) <=> parentId[n] = p
<1> USE TreeTableAssumption DEF TreeTableAssumption
<1>1. /\ tree \subseteq Node /\ Up \in Parents
      /\ \A n \in Node : Up[n] # None => n \in tree /\ Up[n] \in tree
  BY DEF TableInv, IsForest
<1>2. \A n \in Node : Up[n] = IF n \in tree THEN parentId[n] ELSE None
  BY DEF Up
<1>3. parentId \in [Node -> Node \cup {None}] /\ children \in [Node -> Seq(Node)]
  BY DEF TableInv, Parents
<1>4. ASSUME NEW n \in Node
      PROVE  children[n] \in Seq(Node) /\ ToSet(children[n]) \subseteq Node
  <2>1. children[n] \in Seq(Node)
    BY <1>3
  <2> QED BY <2>1, ListFacts
<1>5. \A n \in tree : parentId[n] \in tree \cup {None} /\ Up[n] = parentId[n]
  BY <1>1, <1>2
<1> QED BY <1>1, <1>2, <1>3, <1>4, <1>5
      DEF TableInv, ChildrenNameTheirParent, GoneHaveNoChildren

\* The condition of a move, on the nodes that the tree finds by id, is the one of
\* Forest.
LEMMA NotAbove ==
    ASSUME TableInv, NEW n \in tree, NEW target \in tree,
           n # target, n \notin Above(target)
    PROVE  n \notin Reach({target}, Upward(Up, Node))
<1> DEFINE next == Upward(parentId, tree)
<1>1. /\ tree \subseteq Node /\ None \notin Node
      /\ parentId \in [Node -> Node \cup {None}]
      /\ \A m \in tree : parentId[m] \in tree \cup {None} /\ Up[m] = parentId[m]
      /\ \A m \in Node \ tree : Up[m] = None
  BY TableFacts
<1>2. DOMAIN next = Node /\ \A m \in Node : next[m] = {parentId[m]} \cap tree
  BY <1>1 DEF Upward
<1>3. /\ DOMAIN Upward(Up, Node) = Node
      /\ \A m \in Node : Upward(Up, Node)[m] = {Up[m]} \cap Node
  BY DEF Upward, Up
<1>4. n \in DOMAIN next /\ n \notin Reach({parentId[target]} \cap tree, next)
  BY <1>1, <1>2 DEF Above
<1> HIDE DEF next
<1>5. PICK U \in SUBSET DOMAIN next :
        /\ {parentId[target]} \cap tree \subseteq U /\ n \notin U
        /\ \A u \in U : next[u] \subseteq U
  BY <1>4, NotReached
<1> DEFINE W == U \cup {target}
<1>6. W \in SUBSET Node /\ {target} \subseteq W /\ n \notin W
  BY <1>1, <1>2, <1>5
<1>7. ASSUME NEW u \in W, Up[u] \in Node
      PROVE  Up[u] \in W
  <2>1. u \in tree /\ Up[u] = parentId[u] /\ parentId[u] \in tree
    BY <1>1, <1>6, <1>7
  <2>2. CASE u = target
    BY <1>5, <2>1, <2>2
  <2>3. CASE u \in U
    BY <1>1, <1>2, <1>5, <2>1, <2>3
  <2> QED BY <2>2, <2>3
<1> HIDE DEF W
<1>8. \A u \in W : {Up[u]} \cap Node \subseteq W
  BY <1>7
<1> QED BY <1>3, <1>6, <1>8 DEF Reach

\* A move.
LEMMA MoveStep ==
    ASSUME TableInv, NEW n \in Node, NEW target \in Node, Move(n, target)
    PROVE  TableInv' /\ Abstract!Move(n, target)
<1>1. /\ n \in tree /\ target \in tree /\ n # target /\ target # parentId[n]
      /\ n \notin Above(target)
      /\ parentId' = [parentId EXCEPT ![n] = target] /\ tree' = tree
      /\ children' = [m \in Node |->
                        IF m = target THEN Append(children[m], n)
                        ELSE IF m = parentId[n] THEN Only(children[m], Node \ {n})
                        ELSE children[m]]
  BY DEF Move, SetParent
<1>2. /\ tree \subseteq Node /\ None \notin Node
      /\ parentId \in [Node -> Node \cup {None}]
      /\ \A m \in Node : children[m] \in Seq(Node) /\ ToSet(children[m]) \subseteq Node
      /\ \A m \in tree : parentId[m] \in tree \cup {None}
      /\ \A m \in Node \ tree : ToSet(children[m]) = {}
      /\ \A m, p \in tree : m \in ToSet(children[p]) <=> parentId[m] = p
  BY TableFacts
<1>3. /\ parentId' \in [Node -> Node \cup {None}]
      /\ \A m \in Node : parentId'[m] = IF m = n THEN target ELSE parentId[m]
  BY <1>1, <1>2
<1>4. Up' = [Up EXCEPT ![n] = target]
  BY <1>1, <1>3 DEF Up
<1>5. n \notin Reach({target}, Upward(Up, Node))
  BY <1>1, NotAbove
<1>6. IsForest(tree', Up')
  <2>1. IsForest(tree, Up)
    BY DEF TableInv
  <2>2. IsForest(tree, [Up EXCEPT ![n] = target])
    BY <1>1, <1>5, <2>1, MoveKeepsForest
  <2> QED BY <1>1, <1>4, <2>2
<1>7. ASSUME NEW m \in Node
      PROVE  /\ children'[m] \in Seq(Node)
             /\ ToSet(children'[m]) = IF m = target THEN ToSet(children[m]) \cup {n}
                                      ELSE IF m = parentId[n] THEN ToSet(children[m]) \ {n}
                                      ELSE ToSet(children[m])
  <2>1. children[m] \in Seq(Node) /\ ToSet(children[m]) \subseteq Node
    BY <1>2
  <2>2. /\ Append(children[m], n) \in Seq(Node)
        /\ ToSet(Append(children[m], n)) = ToSet(children[m]) \cup {n}
    BY <2>1, AppendFacts
  <2>3. /\ Only(children[m], Node \ {n}) \in Seq(Node)
        /\ ToSet(Only(children[m], Node \ {n})) = ToSet(children[m]) \ {n}
    BY <2>1, OnlyFacts
  <2> QED BY <1>1, <2>1, <2>2, <2>3
<1>8. children' \in [Node -> Seq(Node)] /\ parentId' \in Parents
  BY <1>1, <1>3, <1>7 DEF Parents
<1>9. ChildrenNameTheirParent'
  <2> SUFFICES ASSUME NEW m \in tree, NEW p \in tree
               PROVE  m \in ToSet(children'[p]) <=> parentId'[m] = p
    BY <1>1 DEF ChildrenNameTheirParent
  <2>1. m \in Node /\ p \in Node /\ n \in tree
    BY <1>1, <1>2
  <2>2. parentId'[m] = IF m = n THEN target ELSE parentId[m]
    BY <1>3, <2>1
  <2>3. m \in ToSet(children[p]) <=> parentId[m] = p
    BY <1>2
  <2>4. ToSet(children'[p]) = IF p = target THEN ToSet(children[p]) \cup {n}
                              ELSE IF p = parentId[n] THEN ToSet(children[p]) \ {n}
                              ELSE ToSet(children[p])
    BY <1>7, <2>1
  <2>5. n \in ToSet(children[p]) <=> parentId[n] = p
    BY <1>2, <2>1
  <2> QED BY <1>1, <2>2, <2>3, <2>4, <2>5
<1>10. GoneHaveNoChildren'
  BY <1>1, <1>2, <1>7 DEF GoneHaveNoChildren
<1>11. Abstract!Move(n, target)
  BY <1>1, <1>4, <1>5
     DEF Up, Abstract!Move, Abstract!Above, Abstract!Reach, Abstract!Upward, Reach, Upward
<1> QED BY <1>6, <1>8, <1>9, <1>10, <1>11 DEF TableInv

\* New rows.
LEMMA LoadStep ==
    ASSUME TableInv, NEW p \in Node \cup {None}, NEW new \in Seq(Node), LoadBranch(p, new)
    PROVE  TableInv' /\ Abstract!Load(ToSet(new), p)
<1> DEFINE N == ToSet(new)
<1>1. /\ p \in tree \cup {None}
      /\ \A i \in 1..Len(new) : new[i] \notin tree
      /\ \A n \in N, m \in Node : n \notin ToSet(children[m])
      /\ tree' = tree \cup N
      /\ parentId' = [n \in Node |-> IF n \in N THEN p ELSE parentId[n]]
      /\ children' = IF p = None THEN children ELSE [children EXCEPT ![p] = @ \o new]
  BY DEF LoadBranch
<1>2. N \in SUBSET Node /\ N \cap tree = {}
  BY <1>1, ListFacts
<1>3. /\ tree \subseteq Node /\ None \notin Node
      /\ parentId \in [Node -> Node \cup {None}] /\ children \in [Node -> Seq(Node)]
      /\ \A m \in tree : parentId[m] \in tree \cup {None}
      /\ \A m \in Node \ tree : ToSet(children[m]) = {}
      /\ \A m, q \in tree : m \in ToSet(children[q]) <=> parentId[m] = q
  BY TableFacts
<1>4. ASSUME NEW m \in Node
      PROVE  /\ children'[m] \in Seq(Node)
             /\ ToSet(children'[m]) = IF m = p THEN ToSet(children[m]) \cup N
                                               ELSE ToSet(children[m])
  <2>1. children[m] \in Seq(Node)
    BY <1>3
  <2>2. /\ children[m] \o new \in Seq(Node)
        /\ ToSet(children[m] \o new) = ToSet(children[m]) \cup N
    BY <2>1, ConcatFacts
  <2>3. children'[m] = IF m = p THEN children[m] \o new ELSE children[m]
    BY <1>1, <1>3
  <2> QED BY <2>1, <2>2, <2>3
<1> HIDE DEF N
<1>5. Up' = With(Up, N, p)
  BY <1>1, <1>2 DEF Up, With
<1>6. IsForest(tree', Up')
  <2>1. IsForest(tree, Up)
    BY DEF TableInv
  <2>2. IsForest(tree \cup N, With(Up, N, p))
    BY <1>1, <1>2, <1>3, <2>1, LoadKeepsForest
  <2> QED BY <1>1, <1>5, <2>2
<1>7. parentId' \in Parents /\ \A n \in Node : parentId'[n] = IF n \in N THEN p ELSE parentId[n]
  BY <1>1, <1>3 DEF Parents
<1>8. children' \in [Node -> Seq(Node)]
  <2>1. children' = [m \in Node |-> children'[m]]
    BY <1>1, <1>3
  <2> QED BY <1>4, <2>1
<1>9. ChildrenNameTheirParent'
  <2> SUFFICES ASSUME NEW m \in tree \cup N, NEW q \in tree \cup N
               PROVE  m \in ToSet(children'[q]) <=> parentId'[m] = q
    BY <1>1 DEF ChildrenNameTheirParent
  <2>1. m \in Node /\ q \in Node
    BY <1>2, <1>3
  <2>2. parentId'[m] = IF m \in N THEN p ELSE parentId[m]
    BY <1>7, <2>1
  <2>3. ToSet(children'[q]) = IF q = p THEN ToSet(children[q]) \cup N ELSE ToSet(children[q])
    BY <1>4, <2>1
  <2>4. m \in N => m \notin ToSet(children[q])
    BY <1>1, <2>1
  <2>5. CASE q \in N
    <3>1. q \notin tree /\ ToSet(children[q]) = {} /\ q # p
      BY <1>1, <1>2, <1>3, <2>1, <2>5
    <3>2. parentId'[m] # q
      BY <1>1, <1>3, <2>1, <2>2, <3>1
    <3> QED BY <2>3, <3>1, <3>2
  <2>6. CASE q \in tree
    <3>1. m \in tree => (m \in ToSet(children[q]) <=> parentId[m] = q)
      BY <1>3, <2>6
    <3> QED BY <1>2, <2>2, <2>3, <2>4, <3>1
  <2> QED BY <2>5, <2>6
<1>10. GoneHaveNoChildren'
  BY <1>1, <1>3, <1>4 DEF GoneHaveNoChildren
<1>11. Abstract!Load(N, p)
  BY <1>1, <1>2, <1>5 DEF Up, With, Abstract!Load
<1> QED BY <1>6, <1>7, <1>8, <1>9, <1>10, <1>11 DEF TableInv, N

\* What is below a node leaves, with the node or without it.
LEMMA PruneStep ==
    ASSUME TableInv, NEW n \in tree, NEW gone \in SUBSET Node,
           ToSet(children[n]) \subseteq gone,
           \A m \in gone : ToSet(children[m]) \subseteq gone,
           tree' = tree \ gone, parentId' = parentId,
           children' = [m \in Node |-> IF m \in gone \cup {n} THEN <<>> ELSE children[m]]
    PROVE  TableInv' /\ Abstract!Next
<1>1. /\ tree \subseteq Node /\ None \notin Node
      /\ parentId \in [Node -> Node \cup {None}]
      /\ \A m \in Node : children[m] \in Seq(Node)
      /\ \A m \in tree : parentId[m] \in tree \cup {None} /\ Up[m] = parentId[m]
      /\ \A m \in Node \ tree : ToSet(children[m]) = {} /\ Up[m] = None
      /\ \A m, p \in tree : m \in ToSet(children[p]) <=> parentId[m] = p
  BY TableFacts
<1>2. \A m \in tree : parentId[m] \in gone \cup {n} => m \in gone
  BY <1>1
<1>3. Up' = Without(Up, gone)
  BY DEF Up, Without
<1>4. IsForest(tree', Up')
  <2>1. IsForest(tree, Up)
    BY DEF TableInv
  <2>2. \A m \in tree : Up[m] \in gone => m \in gone
    BY <1>1, <1>2
  <2>3. IsForest(tree \ gone, Without(Up, gone))
    BY <1>1, <2>1, <2>2, PruneKeepsForest
  <2> QED BY <1>3, <2>3
<1>5. ToSet(<<>>) = {} /\ <<>> \in Seq(Node)
  BY DEF ToSet
<1>6. \A m \in Node : /\ children'[m] \in Seq(Node)
                      /\ ToSet(children'[m]) = IF m \in gone \cup {n} THEN {}
                                               ELSE ToSet(children[m])
  BY <1>1, <1>5
<1>7. children' \in [Node -> Seq(Node)] /\ parentId' \in Parents
  BY <1>1, <1>6 DEF Parents
<1>8. ChildrenNameTheirParent'
  BY <1>1, <1>2, <1>6 DEF ChildrenNameTheirParent
<1>9. GoneHaveNoChildren'
  BY <1>1, <1>6 DEF GoneHaveNoChildren
<1>10. PICK pruned \in SUBSET Node : pruned = gone \cap tree
  BY <1>1
<1>11. Abstract!Prune(pruned)
  <2>1. pruned \subseteq tree /\ tree' = tree \ pruned
    BY <1>10
  <2>2. \A m \in tree : Up[m] \in pruned => m \in pruned
    BY <1>1, <1>2, <1>10
  <2>3. Up' = [m \in Node |-> IF m \in pruned THEN None ELSE Up[m]]
    BY <1>1, <1>3, <1>10 DEF Without
  <2> QED BY <1>1, <2>1, <2>2, <2>3 DEF Up, Abstract!Prune
<1>12. Abstract!Next
  BY <1>11 DEF Abstract!Next
<1> QED BY <1>4, <1>7, <1>8, <1>9, <1>12 DEF TableInv

\* A sorted list has the elements that it had.
LEMMA SortedFacts ==
    ASSUME NEW seq \in Seq(Node), NEW list \in SetToSeqs(ToSet(seq))
    PROVE  list \in Seq(Node) /\ ToSet(list) = ToSet(seq)
<1> DEFINE S == ToSet(seq)
           k == Cardinality(S)
<1>1. S \subseteq Node /\ IsFiniteSet(S)
  <2>1. Len(seq) \in Nat /\ S = {seq[i] : i \in 1..Len(seq)} /\ S \subseteq Node
    BY ListFacts
  <2>2. IsFiniteSet(1..Len(seq))
    BY <2>1, FS_Interval
  <2> DEFINE f == [i \in 1..Len(seq) |-> seq[i]]
  <2>3. f \in Surjection(1..Len(seq), S)
    BY <2>1 DEF Surjection
  <2> QED BY <2>1, <2>2, <2>3, FS_Surjection
<1>2. /\ list \in [1..k -> S]
      /\ \A i, j \in 1..k : i # j => list[i] # list[j]
  BY DEF SetToSeqs
<1>3. k \in Nat /\ IsFiniteSet(1..k) /\ Cardinality(1..k) = k
  BY <1>1, FS_CardinalityType, FS_Interval
<1> HIDE DEF k
<1>4. list \in Injection(1..k, S)
  BY <1>2 DEF Injection, IsInjective
<1>5. list \in Surjection(1..k, S)
  BY <1>1, <1>3, <1>4, FS_Injection DEF k
<1>6. \A x \in S : \E i \in 1..k : list[i] = x
  BY <1>5 DEF Surjection
<1>7. list \in Seq(Node)
  BY <1>1, <1>2, <1>3
<1>8. ToSet(list) = S
  BY <1>2, <1>6 DEF ToSet
<1> QED BY <1>7, <1>8

\* Sorting changes the order of a list of children.
LEMMA SortStep ==
    ASSUME TableInv, NEW n \in Node, SortBranch(n)
    PROVE  TableInv' /\ UNCHANGED Abstract!vars
<1>1. \A m \in Node : children[m] \in Seq(Node)
  BY TableFacts
<1>2. PICK list \in SetToSeqs(ToSet(children[n])) :
        children' = [children EXCEPT ![n] = list]
  BY DEF SortBranch
<1>3. list \in Seq(Node) /\ ToSet(list) = ToSet(children[n])
  BY <1>1, SortedFacts
<1>4. tree' = tree /\ parentId' = parentId
  BY DEF SortBranch
<1>5. children \in [Node -> Seq(Node)]
  BY TableFacts
<1>6. \A m \in Node : children'[m] \in Seq(Node) /\ ToSet(children'[m]) = ToSet(children[m])
  BY <1>1, <1>2, <1>3, <1>5
<1>7. children' \in [Node -> Seq(Node)]
  BY <1>2, <1>3, <1>5
<1>8. ChildrenNameTheirParent' /\ GoneHaveNoChildren'
  BY <1>4, <1>6, TableFacts DEF ChildrenNameTheirParent, GoneHaveNoChildren
<1>9. IsForest(tree', Up') /\ parentId' \in Parents
  BY <1>4 DEF TableInv, Up
<1> QED BY <1>4, <1>7, <1>8, <1>9 DEF TableInv, Abstract!vars

\* Expanding and collapsing leave the tree alone.
LEMMA BrowseStep ==
    ASSUME TableInv, Browse \/ UNCHANGED vars
    PROVE  TableInv' /\ UNCHANGED Abstract!vars
<1>1. tree' = tree /\ parentId' = parentId /\ children' = children
  BY DEF Browse, Toggle, CollapseNode, ExpandNode, Reveal, CollapseAll, ExpandAll,
         Structure, vars
<1> QED BY <1>1
        DEF TableInv, ChildrenNameTheirParent, GoneHaveNoChildren, Up, Abstract!vars

-----------------------------------------------------------------------------
(* The forest is implemented.                                              *)

\* Every step of the table is one of the forest, or none that it sees.
LEMMA StepImplementsForest ==
    ASSUME TableInv, [Next]_vars
    PROVE  TableInv' /\ [Abstract!Next]_(Abstract!vars)
<1>1. ASSUME NEW p \in Node \cup {None}, NEW new \in SeqOf(Node, MaxLoad),
             LoadBranch(p, new)
      PROVE  TableInv' /\ Abstract!Next
  <2>1. new \in Seq(Node)
    BY TreeTableAssumption DEF TreeTableAssumption, SeqOf
  <2>2. TableInv' /\ Abstract!Load(ToSet(new), p) /\ ToSet(new) \in SUBSET Node
    BY <1>1, <2>1, LoadStep, ListFacts
  <2> QED BY <2>2 DEF Abstract!Next
<1>2. ASSUME NEW n \in Node, NEW target \in Node, Move(n, target)
      PROVE  TableInv' /\ Abstract!Next
  BY <1>2, MoveStep DEF Abstract!Next
<1>3. ASSUME NEW n \in Node, UnloadBranch(n)
      PROVE  TableInv' /\ Abstract!Next
  <2> DEFINE gone == Below(children, n)
  <2>1. children \in [Node -> Seq(Node)]
    BY TableFacts
  <2>2. /\ n \in tree /\ tree' = tree \ gone /\ parentId' = parentId
        /\ children' = [m \in Node |-> IF m \in gone \cup {n} THEN <<>> ELSE children[m]]
    BY <1>3 DEF UnloadBranch, Unload
  <2>3. /\ gone \subseteq Node /\ ToSet(children[n]) \subseteq gone
        /\ \A m \in gone : ToSet(children[m]) \subseteq gone
    BY <2>1, BelowFacts
  <2> HIDE DEF gone
  <2> QED BY <2>2, <2>3, PruneStep
<1>4. ASSUME NEW n \in Node, RemoveNode(n)
      PROVE  TableInv' /\ Abstract!Next
  <2> DEFINE below == Below(children, n)
             gone == below \cup {n}
  <2>1. children \in [Node -> Seq(Node)]
    BY TableFacts
  <2>2. /\ n \in tree /\ tree' = tree \ gone /\ parentId' = parentId
        /\ children' = [m \in Node |-> IF m \in gone THEN <<>> ELSE children[m]]
    BY <1>4 DEF RemoveNode, Unload
  <2>3. /\ below \subseteq Node /\ ToSet(children[n]) \subseteq below
        /\ \A m \in below : ToSet(children[m]) \subseteq below
    BY <2>1, BelowFacts
  <2> HIDE DEF below
  <2>4. /\ gone \subseteq Node /\ ToSet(children[n]) \subseteq gone
        /\ \A m \in gone : ToSet(children[m]) \subseteq gone
    BY <2>3
  <2>5. gone \cup {n} = gone
    OBVIOUS
  <2> HIDE DEF gone
  <2> QED BY <2>2, <2>4, <2>5, PruneStep
<1>5. ASSUME NEW n \in Node, SortBranch(n)
      PROVE  TableInv' /\ UNCHANGED Abstract!vars
  BY <1>5, SortStep
<1>6. CASE Browse \/ UNCHANGED vars
  BY <1>6, BrowseStep
<1> QED BY <1>1, <1>2, <1>3, <1>4, <1>5, <1>6 DEF Next, Edit, Load

\* The rows of the page make a forest, whose nodes list their children.
LEMMA InitIsForest == Init => TableInv /\ Abstract!Init
<1> SUFFICES ASSUME Init PROVE TableInv /\ Abstract!Init
  OBVIOUS
<1>1. FirstRows \in Seq(Node) /\ None \notin Node
  BY TreeTableAssumption DEF TreeTableAssumption
<1>2. tree \subseteq Node /\ tree = ToSet(FirstRows)
  BY <1>1, ListFacts DEF Init
<1>3. /\ parentId \in [Node -> Node \cup {None}]
      /\ \A n \in Node : /\ parentId[n] # None => parentId[n] \in tree
                         /\ n \notin tree => parentId[n] = None
      /\ Acyclic(parentId, Node)
      /\ children = [n \in Node |-> ChildList(parentId, FirstRows, n)]
  BY DEF Init
<1>4. ASSUME NEW n \in Node
      PROVE  /\ children[n] \in Seq(Node)
             /\ ToSet(children[n]) = tree \cap {m \in Node : parentId[m] = n}
  <2>1. children[n] = Only(FirstRows, {m \in Node : parentId[m] = n})
    BY <1>3 DEF ChildList
  <2> QED BY <1>1, <1>2, <2>1, OnlyFacts
<1>5. Up = parentId
  BY <1>3 DEF Up
<1>6. IsForest(tree, Up)
  BY <1>2, <1>3, <1>5 DEF IsForest, Parents
<1>7. children \in [Node -> Seq(Node)] /\ parentId \in Parents
  <2>1. children = [n \in Node |-> children[n]]
    BY <1>3
  <2> QED BY <1>3, <1>4, <2>1 DEF Parents
<1>8. ChildrenNameTheirParent /\ GoneHaveNoChildren
  <2>1. \A n, p \in tree : n \in ToSet(children[p]) <=> parentId[n] = p
    BY <1>2, <1>4
  <2>2. \A n \in Node \ tree : ToSet(children[n]) = {}
    BY <1>1, <1>3, <1>4
  <2> QED BY <2>1, <2>2 DEF ChildrenNameTheirParent, GoneHaveNoChildren
<1>9. Abstract!Init
  BY <1>6 DEF IsForest, Parents, Up, Abstract!Init, Abstract!IsForest, Abstract!TypeOK,
              Abstract!ParentsAreMembers, Abstract!NoCycle, Abstract!Acyclic, Acyclic
<1> QED BY <1>6, <1>7, <1>8, <1>9 DEF TableInv

\* TableInv holds throughout.
LEMMA InvHolds == Spec => []TableInv
<1>1. Init => TableInv
  BY InitIsForest
<1>2. TableInv /\ [Next]_vars => TableInv'
  BY StepImplementsForest
<1> QED BY <1>1, <1>2, PTL DEF Spec

\* The table of jquery.treetable is a forest to whoever uses it: each load, move,
\* unload and removal does to the nodes what Forest says, and all else, sorting
\* included, nothing.
THEOREM ForestIsImplemented == Spec => ImplementsForest
<1>1. Init => Abstract!Init
  BY InitIsForest
<1>2. TableInv /\ [Next]_vars => [Abstract!Next]_(Abstract!vars)
  BY StepImplementsForest
<1> QED BY <1>1, <1>2, InvHolds, PTL DEF Spec, ImplementsForest, Abstract!Spec

\* No sequence of them makes a node its own ancestor, or leaves one below a node
\* that is gone.
THEOREM ForestHolds == Spec => []Abstract!IsForest
<1>1. TableInv => Abstract!IsForest
  BY DEF TableInv, IsForest, Parents, Up, Abstract!IsForest, Abstract!TypeOK,
         Abstract!ParentsAreMembers, Abstract!NoCycle, Abstract!Acyclic, Acyclic
<1> QED BY <1>1, InvHolds, PTL

\* The list of children that a node keeps and the parents that nodes name agree,
\* which addChild, removeChild and setParent write one after the other.
THEOREM ChildrenHold == Spec => []ChildrenNameTheirParent
<1>1. TableInv => ChildrenNameTheirParent
  BY DEF TableInv
<1> QED BY <1>1, InvHolds, PTL

-----------------------------------------------------------------------------
(* The order of a list.                                                    *)

\* x comes before y in a list.
Precedes(seq, x, y) ==
    \E i, j \in 1..Len(seq) : i < j /\ seq[i] = x /\ seq[j] = y

\* In a list without repetition the order is total, and one.
LEMMA OrderFacts ==
    ASSUME NEW T, NEW seq \in Seq(T)
    PROVE  /\ \A x, y : Precedes(seq, x, y) => x \in ToSet(seq) /\ y \in ToSet(seq)
           /\ \A x, y \in ToSet(seq) : x # y => Precedes(seq, x, y) \/ Precedes(seq, y, x)
           /\ IsInjective(seq) <=> \A x \in ToSet(seq) : ~Precedes(seq, x, x)
           /\ IsInjective(seq) =>
                \A x, y, z : Precedes(seq, x, y) /\ Precedes(seq, y, z)
                                => Precedes(seq, x, z)
<1>1. /\ Len(seq) \in Nat /\ DOMAIN seq = 1..Len(seq)
      /\ ToSet(seq) = {seq[i] : i \in 1..Len(seq)}
  BY ListFacts
<1>2. \A x, y : Precedes(seq, x, y) => x \in ToSet(seq) /\ y \in ToSet(seq)
  BY <1>1 DEF Precedes
<1>3. ASSUME NEW x \in ToSet(seq), NEW y \in ToSet(seq), x # y
      PROVE  Precedes(seq, x, y) \/ Precedes(seq, y, x)
  <2>1. PICK i \in 1..Len(seq), j \in 1..Len(seq) : seq[i] = x /\ seq[j] = y
    BY <1>1, <1>3
  <2>2. i < j \/ j < i
    BY <1>1, <1>3, <2>1
  <2> QED BY <2>1, <2>2 DEF Precedes
<1>4. IsInjective(seq) <=> \A x \in ToSet(seq) : ~Precedes(seq, x, x)
  <2>1. ASSUME IsInjective(seq), NEW x, Precedes(seq, x, x)
        PROVE  FALSE
    <3>1. PICK i \in 1..Len(seq), j \in 1..Len(seq) : i < j /\ seq[i] = x /\ seq[j] = x
      BY <2>1 DEF Precedes
    <3>2. i = j
      BY <1>1, <2>1, <3>1 DEF IsInjective
    <3> QED BY <1>1, <3>1, <3>2
  <2>2. ASSUME \A x \in ToSet(seq) : ~Precedes(seq, x, x),
               NEW i \in 1..Len(seq), NEW j \in 1..Len(seq), seq[i] = seq[j]
        PROVE  i = j
    <3>1. ~(i < j) /\ ~(j < i)
      BY <1>1, <2>2 DEF Precedes
    <3> QED BY <1>1, <3>1
  <2> QED BY <1>1, <2>1, <2>2 DEF IsInjective
<1>5. ASSUME IsInjective(seq), NEW x, NEW y, NEW z,
             Precedes(seq, x, y), Precedes(seq, y, z)
      PROVE  Precedes(seq, x, z)
  <2>1. PICK i \in 1..Len(seq), j \in 1..Len(seq) : i < j /\ seq[i] = x /\ seq[j] = y
    BY <1>5 DEF Precedes
  <2>2. PICK k \in 1..Len(seq), l \in 1..Len(seq) : k < l /\ seq[k] = y /\ seq[l] = z
    BY <1>5 DEF Precedes
  <2>3. j = k
    BY <1>1, <1>5, <2>1, <2>2 DEF IsInjective
  <2>4. i < l
    BY <1>1, <2>1, <2>2, <2>3
  <2> QED BY <2>1, <2>2, <2>4 DEF Precedes
<1> QED BY <1>2, <1>3, <1>4, <1>5

\* One list after the other.
LEMMA ConcatOrder ==
    ASSUME NEW T, NEW s \in Seq(T), NEW t \in Seq(T)
    PROVE  \A x, y : Precedes(s \o t, x, y) <=>
              \/ Precedes(s, x, y) \/ Precedes(t, x, y)
              \/ x \in ToSet(s) /\ y \in ToSet(t)
<1>1. /\ s \o t \in Seq(T)
      /\ Len(s \o t) = Len(s) + Len(t)
      /\ \A i \in 1..(Len(s) + Len(t)) :
            (s \o t)[i] = IF i <= Len(s) THEN s[i] ELSE t[i - Len(s)]
  BY ConcatProperties
<1>2. /\ Len(s) \in Nat /\ Len(t) \in Nat
      /\ ToSet(s) = {s[i] : i \in 1..Len(s)} /\ ToSet(t) = {t[i] : i \in 1..Len(t)}
  BY ListFacts
<1> SUFFICES ASSUME NEW x, NEW y
             PROVE  Precedes(s \o t, x, y) <=>
                      \/ Precedes(s, x, y) \/ Precedes(t, x, y)
                      \/ x \in ToSet(s) /\ y \in ToSet(t)
  OBVIOUS
<1> DEFINE st == s \o t
<1>a. /\ \A i \in 1..Len(s) : i \in 1..Len(st) /\ st[i] = s[i]
      /\ \A i \in 1..Len(t) : i + Len(s) \in 1..Len(st) /\ st[i + Len(s)] = t[i]
      /\ \A i \in 1..Len(st) : \/ i \in 1..Len(s) /\ st[i] = s[i]
                               \/ /\ i > Len(s) /\ i - Len(s) \in 1..Len(t)
                                  /\ st[i] = t[i - Len(s)]
  BY <1>1, <1>2
<1>b. Len(st) \in Nat
  BY <1>1, <1>2
<1> HIDE DEF st
<1>3. ASSUME Precedes(st, x, y)
      PROVE  \/ Precedes(s, x, y) \/ Precedes(t, x, y)
             \/ x \in ToSet(s) /\ y \in ToSet(t)
  <2>1. PICK i \in 1..Len(st), j \in 1..Len(st) : i < j /\ st[i] = x /\ st[j] = y
    BY <1>3 DEF Precedes
  <2>2. CASE i \in 1..Len(s) /\ st[i] = s[i] /\ j \in 1..Len(s) /\ st[j] = s[j]
    BY <2>1, <2>2 DEF Precedes
  <2>3. CASE /\ i \in 1..Len(s) /\ st[i] = s[i]
             /\ j - Len(s) \in 1..Len(t) /\ st[j] = t[j - Len(s)]
    BY <1>2, <2>1, <2>3
  <2>4. CASE /\ i > Len(s) /\ i - Len(s) \in 1..Len(t) /\ st[i] = t[i - Len(s)]
             /\ j > Len(s) /\ j - Len(s) \in 1..Len(t) /\ st[j] = t[j - Len(s)]
    <3>1. i - Len(s) < j - Len(s)
      BY <1>2, <1>b, <2>1
    <3> QED BY <2>1, <2>4, <3>1 DEF Precedes
  <2>5. ~(i > Len(s) /\ j \in 1..Len(s))
    BY <1>2, <1>b, <2>1
  <2> QED BY <1>a, <2>1, <2>2, <2>3, <2>4, <2>5
<1>4. Precedes(s, x, y) => Precedes(st, x, y)
  BY <1>a DEF Precedes
<1>5. ASSUME Precedes(t, x, y) PROVE Precedes(st, x, y)
  <2>1. PICK i \in 1..Len(t), j \in 1..Len(t) : i < j /\ t[i] = x /\ t[j] = y
    BY <1>5 DEF Precedes
  <2>2. i + Len(s) < j + Len(s)
    BY <1>2, <2>1
  <2> QED BY <1>a, <2>1, <2>2 DEF Precedes
<1>6. ASSUME x \in ToSet(s), y \in ToSet(t) PROVE Precedes(st, x, y)
  <2>1. PICK i \in 1..Len(s), j \in 1..Len(t) : s[i] = x /\ t[j] = y
    BY <1>2, <1>6
  <2>2. i < j + Len(s)
    BY <1>2, <2>1
  <2> QED BY <1>a, <2>1, <2>2 DEF Precedes
<1> QED BY <1>3, <1>4, <1>5, <1>6 DEF st

\* A list of one element, and of none.
LEMMA SingleFacts ==
    ASSUME NEW T, NEW e \in T
    PROVE  /\ <<e>> \in Seq(T) /\ ToSet(<<e>>) = {e} /\ Len(<<e>>) = 1
           /\ \A x, y : ~Precedes(<<e>>, x, y)
           /\ <<>> \in Seq(T) /\ ToSet(<<>>) = {} /\ Len(<<>>) = 0
           /\ \A x, y : ~Precedes(<<>>, x, y)
<1>1. <<e>> \in Seq(T) /\ Len(<<e>>) = 1 /\ <<e>>[1] = e
  OBVIOUS
<1>2. ToSet(<<e>>) = {<<e>>[i] : i \in 1..1}
  BY <1>1, ListFacts
<1>3. <<>> \in Seq(T) /\ Len(<<>>) = 0
  OBVIOUS
<1>4. ToSet(<<>>) = {<<>>[i] : i \in 1..0}
  BY <1>3, ListFacts
<1> QED BY <1>1, <1>2, <1>3, <1>4 DEF Precedes

\* One more element at the end.
LEMMA AppendOrder ==
    ASSUME NEW T, NEW s \in Seq(T), NEW e \in T
    PROVE  \A x, y : Precedes(Append(s, e), x, y) <=>
              Precedes(s, x, y) \/ (x \in ToSet(s) /\ y = e)
<1>1. Append(s, e) = s \o <<e>>
  BY AppendIsConcat
<1>2. <<e>> \in Seq(T) /\ ToSet(<<e>>) = {e} /\ \A x, y : ~Precedes(<<e>>, x, y)
  BY SingleFacts
<1>3. \A x, y : Precedes(s \o <<e>>, x, y) <=>
          \/ Precedes(s, x, y) \/ Precedes(<<e>>, x, y)
          \/ x \in ToSet(s) /\ y \in ToSet(<<e>>)
  <2> DEFINE t == <<e>>
  <2>1. t \in Seq(T)
    BY <1>2
  <2> HIDE DEF t
  <2>2. \A x, y : Precedes(s \o t, x, y) <=>
          \/ Precedes(s, x, y) \/ Precedes(t, x, y)
          \/ x \in ToSet(s) /\ y \in ToSet(t)
    BY <2>1, ConcatOrder
  <2> QED BY <2>2 DEF t
<1>4. \A x, y : Precedes(s \o <<e>>, x, y) <=>
          Precedes(s, x, y) \/ (x \in ToSet(s) /\ y = e)
  BY <1>2, <1>3
<1> QED BY <1>1, <1>4

\* What is left of a list keeps its order.
LEMMA OnlyOrder ==
    ASSUME NEW T, NEW seq \in Seq(T), NEW S
    PROVE  \A x, y : Precedes(Only(seq, S), x, y) <=>
              Precedes(seq, x, y) /\ x \in S /\ y \in S
<1>1. PICK g \in [0..Len(seq) -> Seq(T)] :
              Picks(g, seq, S, Len(seq)) /\ Only(seq, S) = g[Len(seq)]
  BY OnlyPicks
<1> DEFINE Before(n, x, y) == \E i, j \in 1..n : i < j /\ seq[i] = x /\ seq[j] = y
           Upto(n) == {seq[i] : i \in 1..n}
           Good(n) == /\ ToSet(g[n]) = Upto(n) \cap S
                      /\ \A x, y : Precedes(g[n], x, y) <=>
                            Before(n, x, y) /\ x \in S /\ y \in S
           G == {n \in 0..Len(seq) : Good(n)}
<1>2. Len(seq) \in Nat /\ \A i \in 1..Len(seq) : seq[i] \in T
  BY ListFacts
<1>3. 0 \in G
  BY <1>1, <1>2 DEF Picks, ToSet, Precedes
<1>4. ASSUME NEW n \in 0..(Len(seq) - 1), n \in G
      PROVE  n + 1 \in G
  <2>1. n \in Nat /\ n + 1 \in 1..Len(seq) /\ g[n] \in Seq(T) /\ (n + 1) - 1 = n
    BY <1>1, <1>2
  <2> DEFINE e == seq[n + 1]
  <2>2. Upto(n + 1) = Upto(n) \cup {e}
    BY <2>1
  <2>3. g[n + 1] = IF e \in S THEN Append(g[n], e) ELSE g[n]
    BY <1>1, <2>1 DEF Picks
  <2>4. /\ ToSet(Append(g[n], e)) = ToSet(g[n]) \cup {e}
        /\ \A x, y : Precedes(Append(g[n], e), x, y) <=>
              Precedes(g[n], x, y) \/ (x \in ToSet(g[n]) /\ y = e)
    BY <1>2, <2>1, AppendFacts, AppendOrder
  <2>5. \A x, y : Before(n + 1, x, y) <=> Before(n, x, y) \/ (x \in Upto(n) /\ y = e)
    <3> SUFFICES ASSUME NEW x, NEW y
                 PROVE  Before(n + 1, x, y) <=> Before(n, x, y) \/ (x \in Upto(n) /\ y = e)
      OBVIOUS
    <3>1. ASSUME Before(n + 1, x, y) PROVE Before(n, x, y) \/ (x \in Upto(n) /\ y = e)
      <4>1. PICK i \in 1..(n + 1), j \in 1..(n + 1) : i < j /\ seq[i] = x /\ seq[j] = y
        BY <3>1
      <4>2. i \in 1..n /\ (j \in 1..n \/ j = n + 1)
        BY <2>1, <4>1
      <4> QED BY <4>1, <4>2
    <3>2. Before(n, x, y) => Before(n + 1, x, y)
      BY <2>1
    <3>3. ASSUME x \in Upto(n), y = e PROVE Before(n + 1, x, y)
      <4>1. PICK i \in 1..n : seq[i] = x
        BY <3>3
      <4>2. i \in 1..(n + 1) /\ n + 1 \in 1..(n + 1) /\ i < n + 1
        BY <2>1
      <4> QED BY <3>3, <4>1, <4>2
    <3> QED BY <3>1, <3>2, <3>3
  <2>6. Good(n)
    BY <1>4
  <2>7. Good(n + 1)
    <3> HIDE DEF Before, Upto, e
    <3>1. CASE e \in S
      BY <2>2, <2>3, <2>4, <2>5, <2>6, <3>1
    <3>2. CASE e \notin S
      BY <2>2, <2>3, <2>5, <2>6, <3>2
    <3> QED BY <3>1, <3>2
  <2> HIDE DEF Good
  <2>8. n + 1 \in 0..Len(seq)
    BY <1>2, <2>1
  <2> QED BY <2>7, <2>8
<1> HIDE DEF G
<1>5. Len(seq) \in G
  <2>1. 0..Len(seq) \subseteq G
    BY <1>2, <1>3, <1>4, UpTo
  <2> QED BY <1>2, <2>1
<1>6. \A x, y : Precedes(g[Len(seq)], x, y) <=>
                    Before(Len(seq), x, y) /\ x \in S /\ y \in S
  BY <1>5 DEF G
<1>7. \A x, y : Before(Len(seq), x, y) <=> Precedes(seq, x, y)
  BY DEF Precedes
<1> QED BY <1>1, <1>6, <1>7

-----------------------------------------------------------------------------
(* What is built step by step.                                             *)

\* What a step makes of b, n times.
Runs(g, n, b, step) == g[0] = b /\ \A i \in 1..n : g[i] = step[<<g[i - 1], i>>]

\* A step that stays in D can be taken n times from b.
LEMMA IterationExists ==
    ASSUME NEW n \in Nat, NEW D, NEW b \in D, NEW step \in [D \X (1..n) -> D]
    PROVE  \E g \in [0..n -> D] : Runs(g, n, b, step)
<1> DEFINE Found(k) == \E g \in [0..k -> D] : Runs(g, k, b, step)
           G == {k \in 0..n : Found(k)}
<1>1. 0 \in G
  <2> DEFINE g == [i \in 0..0 |-> b]
  <2>1. g \in [0..0 -> D] /\ Runs(g, 0, b, step)
    BY DEF Runs
  <2> HIDE DEF g
  <2>2. Found(0)
    BY <2>1
  <2> QED BY <2>2
<1>2. ASSUME NEW k \in 0..(n - 1), k \in G
      PROVE  k + 1 \in G
  <2>1. PICK g \in [0..k -> D] : Runs(g, k, b, step)
    BY <1>2
  <2> DEFINE next == step[<<g[k], k + 1>>]
             h == [i \in 0..(k + 1) |-> IF i = k + 1 THEN next ELSE g[i]]
  <2>2. k \in Nat /\ k + 1 \in 1..n /\ g[k] \in D
    BY <2>1
  <2>3. next \in D
    BY <2>2
  <2>4. h \in [0..(k + 1) -> D]
    BY <2>2, <2>3
  <2>5. Runs(h, k + 1, b, step)
    <3>1. /\ h[k + 1] = next /\ \A i \in 0..k : h[i] = g[i]
          /\ (k + 1) - 1 = k /\ 1..(k + 1) = 1..k \cup {k + 1}
          /\ 0 \in 0..k /\ k \in 0..k
      BY <2>2
    <3>2. \A i \in 1..k : i \in 0..k /\ i - 1 \in 0..k
      BY <2>2
    <3> HIDE DEF h
    <3> QED BY <2>1, <3>1, <3>2 DEF Runs
  <2> HIDE DEF h, next
  <2>6. Found(k + 1)
    BY <2>4, <2>5
  <2> QED BY <2>2, <2>6
<1> HIDE DEF G
<1>3. 0..n \subseteq G
  BY <1>1, <1>2, UpTo
<1>4. n \in G
  BY <1>3
<1> QED BY <1>4 DEF G

\* The lists of a list, one after the other.
LEMMA FlattenGrows ==
    ASSUME NEW T, NEW ss \in Seq(Seq(T)), Len(ss) # 0
    PROVE  \E g \in [0..Len(ss) -> Seq(T)] :
              /\ g[0] = <<>>
              /\ \A i \in 1..Len(ss) : g[i] = g[i - 1] \o ss[i]
              /\ FlattenSeq(ss) = g[Len(ss)]
<1> DEFINE n == Len(ss)
           move(f, i) == IF i = 1 THEN ss[i] ELSE f[i - 1] \o ss[i]
           turn(f) == [i \in 1..n |-> move(f, i)]
           flat == CHOOSE f : f = turn(f)
           step == [p \in Seq(T) \X (1..n) |-> p[1] \o ss[p[2]]]
<1>1. n \in Nat /\ \A i \in 1..n : ss[i] \in Seq(T)
  BY ListFacts
<1>2. FlattenSeq(ss) = flat[n]
  BY DEF FlattenSeq
<1>3. \A s, t \in Seq(T) : s \o t \in Seq(T)
  BY ConcatProperties
<1>4. step \in [Seq(T) \X (1..n) -> Seq(T)]
  BY <1>1, <1>3
<1>5. \A s \in Seq(T), i \in 1..n : step[<<s, i>>] = s \o ss[i]
  BY <1>1
<1> HIDE DEF step
<1>6. <<>> \in Seq(T)
  BY EmptySeq
<1>7. PICK g \in [0..n -> Seq(T)] :
          g[0] = <<>> /\ \A i \in 1..n : g[i] = step[<<g[i - 1], i>>]
  <2> DEFINE D == Seq(T)
  <2>1. n \in Nat /\ step \in [D \X (1..n) -> D] /\ <<>> \in D
    BY <1>1, <1>4, <1>6
  <2> HIDE DEF D, n
  <2>2. \E g \in [0..n -> D] : Runs(g, n, <<>>, step)
    BY <2>1, IterationExists
  <2> QED BY <2>2 DEF D, Runs
<1>8. \A i \in 1..n : /\ i - 1 \in 0..n /\ i \in 0..n
                      /\ g[i - 1] \in Seq(T) /\ g[i] = g[i - 1] \o ss[i]
  <2> HIDE DEF n
  <2> SUFFICES ASSUME NEW i \in 1..n
               PROVE  /\ i - 1 \in 0..n /\ i \in 0..n
                      /\ g[i - 1] \in Seq(T) /\ g[i] = g[i - 1] \o ss[i]
    OBVIOUS
  <2>1. i - 1 \in 0..n /\ i \in 0..n
    BY <1>1
  <2>2. g[i - 1] \in Seq(T)
    BY <2>1
  <2>3. g[i] = step[<<g[i - 1], i>>]
    BY <1>7
  <2>4. step[<<g[i - 1], i>>] = g[i - 1] \o ss[i]
    BY <1>5, <2>2
  <2> QED BY <2>1, <2>2, <2>3, <2>4
<1>9. n # 0 => 1 \in 1..n /\ n \in 1..n
  BY <1>1
<1> DEFINE f == [i \in 1..n |-> g[i]]
<1>10. f = turn(f)
  <2>1. \A i \in 1..n : f[i] = move(f, i)
    <3> SUFFICES ASSUME NEW i \in 1..n PROVE g[i] = move(f, i)
      OBVIOUS
    <3>1. CASE i = 1
      <4>1. g[i] = <<>> \o ss[1]
        <5>1. i - 1 = 0 /\ g[i] = g[i - 1] \o ss[i]
          <6>1. i - 1 = 0
            BY <3>1
          <6> QED BY <1>8, <6>1
        <5> QED BY <1>7, <3>1, <5>1
      <4>2. <<>> \o ss[1] = ss[1]
        BY <1>1, <3>1, ConcatEmptySeq
      <4> QED BY <3>1, <4>1, <4>2
    <3>2. CASE i # 1
      <4>1. i - 1 \in 1..n
        BY <1>1, <3>2
      <4> QED BY <1>8, <3>2, <4>1
    <3> QED BY <3>1, <3>2
  <2> QED BY <2>1
<1>11. flat = turn(flat)
  <2> HIDE DEF turn, f
  <2> QED BY <1>10
<1> HIDE DEF flat
<1>12. \A i \in 1..n : flat[i] = move(flat, i)
  <2>1. \A i \in 1..n : flat[i] = turn(flat)[i]
    BY <1>11
  <2> QED BY <2>1
<1> DEFINE G == {i \in 0..n : i = 0 \/ flat[i] = g[i]}
<1>13. 0 \in G
  BY <1>1
<1>14. \A i \in 0..(n - 1) : i \in G => i + 1 \in G
  <2> SUFFICES ASSUME NEW i \in 0..(n - 1), i \in G PROVE i + 1 \in G
    OBVIOUS
  <2>1. i + 1 \in 1..n /\ (i + 1) - 1 = i
    BY <1>1
  <2>2. flat[i + 1] = move(flat, i + 1)
    BY <1>12, <2>1
  <2>3. CASE i = 0
    <3>1. flat[1] = ss[1] /\ 1 \in 1..n
      BY <2>1, <2>2, <2>3
    <3>2. g[1] = ss[1]
      <4>1. g[1] = <<>> \o ss[1]
        <5>1. g[1] = g[1 - 1] \o ss[1]
          BY <1>8, <3>1
        <5>2. 1 - 1 = 0
          OBVIOUS
        <5> QED BY <1>7, <5>1, <5>2
      <4> QED BY <1>1, <3>1, <4>1, ConcatEmptySeq
    <3> QED BY <2>3, <3>1, <3>2
  <2>4. CASE i # 0
    <3>1. flat[i] = g[i] /\ i + 1 # 1
      BY <2>4
    <3>2. flat[i + 1] = g[i] \o ss[i + 1]
      BY <2>1, <2>2, <3>1
    <3> QED BY <1>8, <2>1, <3>2
  <2> QED BY <2>3, <2>4
<1> HIDE DEF G
<1>15. n \in G
  <2>1. 0..n \subseteq G
    BY <1>1, <1>13, <1>14, UpTo
  <2> QED BY <1>1, <2>1
<1>16. flat[n] = g[n]
  BY <1>15 DEF G
<1> HIDE DEF turn, move
<1> QED BY <1>2, <1>7, <1>8, <1>16

\* What is in them, and in which order.
LEMMA FlattenFacts ==
    ASSUME NEW T, NEW ss \in Seq(Seq(T))
    PROVE  /\ FlattenSeq(ss) \in Seq(T)
           /\ \A x : x \in ToSet(FlattenSeq(ss)) <=> \E i \in 1..Len(ss) : x \in ToSet(ss[i])
           /\ \A x, y : Precedes(FlattenSeq(ss), x, y) <=>
                \/ \E i \in 1..Len(ss) : Precedes(ss[i], x, y)
                \/ \E i, j \in 1..Len(ss) : i < j /\ x \in ToSet(ss[i]) /\ y \in ToSet(ss[j])
<1>1. Len(ss) \in Nat /\ \A i \in 1..Len(ss) : ss[i] \in Seq(T)
  BY ListFacts
<1>2. CASE Len(ss) = 0
  <2>1. ss = <<>> /\ FlattenSeq(ss) = <<>> /\ 1..Len(ss) = {}
    BY <1>2 DEF FlattenSeq
  <2>2. \A x, y : x \notin ToSet(<<>>) /\ ~Precedes(<<>>, x, y)
    BY DEF ToSet, Precedes
  <2>3. FlattenSeq(ss) \in Seq(T)
    BY <2>1, EmptySeq
  <2> QED BY <2>1, <2>2, <2>3
<1>3. CASE Len(ss) # 0
  <2>1. PICK g \in [0..Len(ss) -> Seq(T)] :
              /\ g[0] = <<>>
              /\ \A i \in 1..Len(ss) : g[i] = g[i - 1] \o ss[i]
              /\ FlattenSeq(ss) = g[Len(ss)]
    BY <1>3, FlattenGrows
  <2> DEFINE In(n, x) == \E i \in 1..n : x \in ToSet(ss[i])
             Before(n, x, y) ==
                \/ \E i \in 1..n : Precedes(ss[i], x, y)
                \/ \E i, j \in 1..n : i < j /\ x \in ToSet(ss[i]) /\ y \in ToSet(ss[j])
             Good(n) == /\ \A x : x \in ToSet(g[n]) <=> In(n, x)
                        /\ \A x, y : Precedes(g[n], x, y) <=> Before(n, x, y)
             G == {n \in 0..Len(ss) : Good(n)}
  <2>2. 0 \in G
    BY <1>1, <2>1 DEF ToSet, Precedes
  <2>3. ASSUME NEW n \in 0..(Len(ss) - 1), n \in G
        PROVE  n + 1 \in G
    <3>1. n \in Nat /\ n + 1 \in 1..Len(ss) /\ g[n] \in Seq(T) /\ (n + 1) - 1 = n
      <4>1. n \in Nat /\ n \in 0..Len(ss) /\ n + 1 \in 1..Len(ss) /\ (n + 1) - 1 = n
        BY <1>1
      <4>2. g[n] \in Seq(T)
        BY <2>1, <4>1
      <4> QED BY <4>1, <4>2
    <3> DEFINE e == ss[n + 1]
    <3>2. e \in Seq(T) /\ g[n + 1] = g[n] \o e
      BY <1>1, <2>1, <3>1
    <3>3. /\ ToSet(g[n] \o e) = ToSet(g[n]) \cup ToSet(e)
          /\ \A x, y : Precedes(g[n] \o e, x, y) <=>
                \/ Precedes(g[n], x, y) \/ Precedes(e, x, y)
                \/ x \in ToSet(g[n]) /\ y \in ToSet(e)
      BY <3>1, <3>2, ConcatFacts, ConcatOrder
    <3>4. 1..(n + 1) = 1..n \cup {n + 1} /\ \A i \in 1..n : i < n + 1 /\ ~(n + 1 < i)
      BY <3>1
    <3>5. ~(n + 1 < n + 1)
      BY <3>1
    <3>6. \A x : In(n + 1, x) <=> In(n, x) \/ x \in ToSet(e)
      BY <3>4
    <3>7. \A x, y : Before(n + 1, x, y) <=>
              Before(n, x, y) \/ Precedes(e, x, y) \/ (In(n, x) /\ y \in ToSet(e))
      BY <3>4, <3>5
    <3>8. Good(n)
      BY <2>3
    <3>9. Good(n + 1)
      <4> HIDE DEF In, Before, e
      <4> QED BY <3>2, <3>3, <3>6, <3>7, <3>8
    <3> HIDE DEF Good
    <3>10. n + 1 \in 0..Len(ss)
      BY <1>1, <3>1
    <3> QED BY <3>9, <3>10
  <2> HIDE DEF G
  <2>4. Len(ss) \in G
    <3>1. 0..Len(ss) \subseteq G
      BY <1>1, <2>2, <2>3, UpTo
    <3> QED BY <1>1, <3>1
  <2>5. Good(Len(ss))
    BY <2>4 DEF G
  <2> QED BY <1>1, <2>1, <2>5
<1> QED BY <1>2, <1>3

\* Rows that move: what is in the table then.
LEMMA InsertFacts ==
    ASSUME NEW seq \in Seq(Node), NEW block \in Seq(Node), NEW target,
           NEW rest, rest = ToSet(seq) \ ToSet(block), target \in rest
    PROVE  /\ InsertAfter(seq, block, target) \in Seq(Node)
           /\ ToSet(InsertAfter(seq, block, target)) = rest \cup ToSet(block)
           /\ IsInjective(seq) =>
                \A x, y : Precedes(InsertAfter(seq, block, target), x, y) <=>
                    \/ x \in rest /\ y \in rest /\ Precedes(seq, x, y)
                    \/ Precedes(block, x, y)
                    \/ x \in ToSet(block) /\ y \in rest /\ Precedes(seq, target, y)
                    \/ y \in ToSet(block) /\ x \in rest
                         /\ (x = target \/ Precedes(seq, x, target))
<1> DEFINE r == Only(seq, Node \ ToSet(block))
           i == CHOOSE j \in 1..Len(r) : r[j] = target
           a == SubSeq(r, 1, i)
           b == SubSeq(r, i + 1, Len(r))
<1>1. ToSet(seq) \subseteq Node /\ ToSet(block) \subseteq Node
  BY ListFacts
<1>2. r \in Seq(Node) /\ ToSet(r) = rest
  <2>1. r \in Seq(Node) /\ ToSet(r) = ToSet(seq) \cap (Node \ ToSet(block))
    BY OnlyFacts
  <2> QED BY <1>1, <2>1
<1>3. \A x, y : Precedes(r, x, y) <=> Precedes(seq, x, y) /\ x \in rest /\ y \in rest
  <2>1. \A x, y : Precedes(r, x, y) <=>
            Precedes(seq, x, y) /\ x \in Node \ ToSet(block) /\ y \in Node \ ToSet(block)
    BY OnlyOrder
  <2>2. \A x, y : Precedes(seq, x, y) => x \in ToSet(seq) /\ y \in ToSet(seq)
    BY OrderFacts
  <2> HIDE DEF r
  <2> QED BY <1>1, <2>1, <2>2
<1>4. InsertAfter(seq, block, target) = (a \o block) \o b
  BY <1>2 DEF InsertAfter
<1> HIDE DEF r
<1>5. /\ Len(r) \in Nat /\ ToSet(r) = {r[j] : j \in 1..Len(r)}
      /\ \A j \in 1..Len(r) : r[j] \in Node
  BY <1>2, ListFacts
<1>6. i \in 1..Len(r) /\ r[i] = target
  <2>1. \E j \in 1..Len(r) : r[j] = target
    BY <1>2, <1>5
  <2> QED BY <2>1
<1> HIDE DEF i
<1>7. /\ a \in Seq(Node) /\ Len(a) = i /\ \A j \in 1..i : a[j] = r[j]
  <2>1. /\ i \in Int /\ 1 <= i /\ i - 1 + 1 = i /\ \A j \in 1..i : r[j] \in Node
        /\ \A j \in 1..i : 1 + j - 1 = j
    BY <1>5, <1>6
  <2> QED BY <2>1, SubSeqProperties
<1>8. /\ b \in Seq(Node) /\ Len(b) = Len(r) - i
      /\ \A j \in 1..(Len(r) - i) : b[j] = r[i + j]
  <2> DEFINE m == i + 1
             n == Len(r)
  <2>1. /\ m \in Int /\ n \in Int /\ \A j \in m..n : r[j] \in Node
        /\ n - m + 1 = n - i /\ (IF m <= n THEN n - m + 1 ELSE 0) = n - i
        /\ \A j \in 1..(n - i) : m + j - 1 = i + j
    BY <1>5, <1>6
  <2> HIDE DEF m, n
  <2>2. /\ SubSeq(r, m, n) \in Seq(Node)
        /\ Len(SubSeq(r, m, n)) = IF m <= n THEN n - m + 1 ELSE 0
        /\ \A j \in 1..(n - m + 1) : SubSeq(r, m, n)[j] = r[m + j - 1]
    BY <2>1, SubSeqProperties
  <2>3. b = SubSeq(r, m, n) /\ n = Len(r)
    BY DEF m, n
  <2> HIDE DEF b
  <2> QED BY <2>1, <2>2, <2>3
<1> HIDE DEF a, b
<1>9. \A x : x \in ToSet(a) => x \in ToSet(r) /\ (x = target \/ Precedes(r, x, target))
  <2> SUFFICES ASSUME NEW x \in ToSet(a)
               PROVE  x \in ToSet(r) /\ (x = target \/ Precedes(r, x, target))
    OBVIOUS
  <2>1. PICK j \in 1..i : a[j] = x
    BY <1>7, ListFacts
  <2>2. j \in 1..Len(r) /\ r[j] = x /\ (j = i \/ j < i)
    BY <1>5, <1>6, <1>7, <2>1
  <2> QED BY <1>5, <1>6, <2>2 DEF Precedes
<1>10. \A x : x \in ToSet(b) => x \in ToSet(r) /\ Precedes(r, target, x)
  <2> SUFFICES ASSUME NEW x \in ToSet(b)
               PROVE  x \in ToSet(r) /\ Precedes(r, target, x)
    OBVIOUS
  <2>1. PICK j \in 1..(Len(r) - i) : b[j] = x
    BY <1>8, ListFacts
  <2>2. i + j \in 1..Len(r) /\ r[i + j] = x /\ i < i + j
    BY <1>5, <1>6, <1>8, <2>1
  <2> QED BY <1>5, <1>6, <2>2 DEF Precedes
<1>11. a \o b = r
  <2>1. SubSeq(r, 1, i) \o SubSeq(r, i + 1, Len(r)) = SubSeq(r, 1, Len(r))
    <3>1. 1 \in 1..(Len(r) + 1) /\ i \in (1 - 1)..Len(r) /\ Len(r) \in i..Len(r)
      BY <1>5, <1>6
    <3> QED BY <1>2, <3>1, ConcatAdjacentSubSeq
  <2> QED BY <1>2, <2>1, SubSeqFull DEF a, b
<1>12. /\ ToSet(r) = ToSet(a) \cup ToSet(b)
       /\ \A x, y : Precedes(r, x, y) <=>
              \/ Precedes(a, x, y) \/ Precedes(b, x, y)
              \/ x \in ToSet(a) /\ y \in ToSet(b)
  BY <1>7, <1>8, <1>11, ConcatFacts, ConcatOrder
<1>13. /\ a \o block \in Seq(Node) /\ ToSet(a \o block) = ToSet(a) \cup ToSet(block)
       /\ \A x, y : Precedes(a \o block, x, y) <=>
              \/ Precedes(a, x, y) \/ Precedes(block, x, y)
              \/ x \in ToSet(a) /\ y \in ToSet(block)
  BY <1>7, ConcatFacts, ConcatOrder
<1> DEFINE ab == a \o block
<1>14. /\ ab \o b \in Seq(Node)
       /\ ToSet(ab \o b) = ToSet(ab) \cup ToSet(b)
       /\ \A x, y : Precedes(ab \o b, x, y) <=>
              \/ Precedes(ab, x, y) \/ Precedes(b, x, y)
              \/ x \in ToSet(ab) /\ y \in ToSet(b)
  <2>1. ab \in Seq(Node)
    BY <1>13
  <2> HIDE DEF ab
  <2> QED BY <1>8, <2>1, ConcatFacts, ConcatOrder
<1> DEFINE all == ab \o b
<1>15. /\ all \in Seq(Node) /\ ToSet(all) = ToSet(a) \cup ToSet(block) \cup ToSet(b)
       /\ \A x, y : Precedes(all, x, y) <=>
              \/ Precedes(a, x, y) \/ Precedes(block, x, y) \/ Precedes(b, x, y)
              \/ x \in ToSet(a) /\ y \in ToSet(block)
              \/ x \in ToSet(a) \cup ToSet(block) /\ y \in ToSet(b)
  <2> HIDE DEF all
  <2>1. all = ab \o b
    BY DEF all
  <2>2. ab = a \o block
    OBVIOUS
  <2> HIDE DEF ab
  <2> QED BY <1>13, <1>14, <2>1, <2>2
<1>16. InsertAfter(seq, block, target) = all
  BY <1>4
<1> HIDE DEF all
<1>17. ASSUME IsInjective(seq)
       PROVE  /\ \A x : x \in ToSet(a) <=> x \in rest /\ (x = target \/ Precedes(seq, x, target))
              /\ \A x : x \in ToSet(b) <=> x \in rest /\ Precedes(seq, target, x)
  <2>1. /\ \A x \in ToSet(seq) : ~Precedes(seq, x, x)
        /\ \A x, y, z : Precedes(seq, x, y) /\ Precedes(seq, y, z) => Precedes(seq, x, z)
    BY <1>17, OrderFacts
  <2>2. \A x : x \in ToSet(a) => x \in rest /\ (x = target \/ Precedes(seq, x, target))
    BY <1>2, <1>3, <1>9
  <2>3. \A x : x \in ToSet(b) => x \in rest /\ Precedes(seq, target, x)
    BY <1>2, <1>3, <1>10
  <2>4. \A x : x \in rest <=> x \in ToSet(a) \/ x \in ToSet(b)
    BY <1>2, <1>12
  <2>5. \A x \in rest : x \in ToSet(seq)
    OBVIOUS
  <2> QED BY <2>1, <2>2, <2>3, <2>4, <2>5
<1>18. ToSet(all) = rest \cup ToSet(block)
  BY <1>2, <1>12, <1>15
<1>19. ASSUME IsInjective(seq)
       PROVE  \A x, y : Precedes(all, x, y) <=>
                    \/ x \in rest /\ y \in rest /\ Precedes(seq, x, y)
                    \/ Precedes(block, x, y)
                    \/ x \in ToSet(block) /\ y \in rest /\ Precedes(seq, target, y)
                    \/ y \in ToSet(block) /\ x \in rest
                         /\ (x = target \/ Precedes(seq, x, target))
  <2>1. \A x, y : \/ Precedes(a, x, y) \/ Precedes(b, x, y)
                  \/ x \in ToSet(a) /\ y \in ToSet(b)
                  <=> x \in rest /\ y \in rest /\ Precedes(seq, x, y)
    BY <1>3, <1>12
  <2> QED BY <1>15, <1>17, <1>19, <2>1
<1> QED BY <1>15, <1>16, <1>18, <1>19

\* A row that is not among those that stay: the others are put nowhere.
LEMMA InsertNowhere ==
    ASSUME NEW seq \in Seq(Node), NEW block \in Seq(Node), NEW target,
           target \notin ToSet(seq) \ ToSet(block)
    PROVE  InsertAfter(seq, block, target) \in Seq(Node)
<1> DEFINE r == Only(seq, Node \ ToSet(block))
<1>1. r \in Seq(Node) /\ ToSet(r) \subseteq ToSet(seq) \ ToSet(block)
  <2>1. r \in Seq(Node) /\ ToSet(r) = ToSet(seq) \cap (Node \ ToSet(block))
    BY OnlyFacts
  <2> QED BY <2>1
<1>2. InsertAfter(seq, block, target) = r
  <2> HIDE DEF r
  <2>1. target \notin ToSet(r)
    BY <1>1
  <2> QED BY <2>1 DEF InsertAfter, r
<1> QED BY <1>1, <1>2

-----------------------------------------------------------------------------
(* What is computed from the children upwards.                             *)

\* Every set of nodes has one without children in it.
Grounded(kids) ==
    \A S \in SUBSET Node : S # {} => \E m \in S : ToSet(kids[m]) \cap S = {}

\* The values of the children of a node, and a function that computes each from
\* those of the children.
Values(kids, g, m) == [i \in 1..Len(kids[m]) |-> g[kids[m][i]]]
Solves(g, U, kids, step) == \A u \in U : g[u] = step[<<u, Values(kids, g, u)>>]

\* What it has found when it has been through a branch.
Part(U, g, D, kids, step) ==
    /\ U \in SUBSET Node /\ g \in [U -> D]
    /\ \A u \in U : ToSet(kids[u]) \subseteq U
    /\ Solves(g, U, kids, step)

\* The children of a node, by their places.
LEMMA KidFacts ==
    ASSUME NEW kids \in [Node -> Seq(Node)], NEW m \in Node
    PROVE  /\ kids[m] \in Seq(Node) /\ Len(kids[m]) \in Nat
           /\ ToSet(kids[m]) \subseteq Node
           /\ \A i \in 1..Len(kids[m]) : kids[m][i] \in Node /\ kids[m][i] \in ToSet(kids[m])
           /\ \A k \in ToSet(kids[m]) : \E i \in 1..Len(kids[m]) : k = kids[m][i]
<1>1. kids[m] \in Seq(Node)
  OBVIOUS
<1> QED BY <1>1, ListFacts

\* Where the children have the same values the lists of values are the same.
LEMMA SameValues ==
    ASSUME NEW kids \in [Node -> Seq(Node)], NEW m \in Node, NEW g, NEW h,
           \A k \in ToSet(kids[m]) : g[k] = h[k]
    PROVE  Values(kids, g, m) = Values(kids, h, m)
BY KidFacts DEF Values

\* Two of them agree.
LEMMA PartsAgree ==
    ASSUME NEW kids \in [Node -> Seq(Node)], Grounded(kids), NEW D, NEW step,
           NEW U, NEW g, Part(U, g, D, kids, step),
           NEW V, NEW h, Part(V, h, D, kids, step)
    PROVE  \A x \in U \cap V : g[x] = h[x]
<1> DEFINE S == {x \in U \cap V : g[x] # h[x]}
<1> SUFFICES ASSUME S # {} PROVE FALSE
  OBVIOUS
<1>1. S \in SUBSET Node
  BY DEF Part
<1>2. PICK m \in S : ToSet(kids[m]) \cap S = {}
  BY <1>1 DEF Grounded
<1>3. m \in U /\ m \in V /\ m \in Node
  BY <1>1
<1>4. \A k \in ToSet(kids[m]) : k \in U /\ k \in V
  BY <1>3 DEF Part
<1>5. \A k \in ToSet(kids[m]) : g[k] = h[k]
  BY <1>2, <1>4
<1>6. Values(kids, g, m) = Values(kids, h, m)
  BY <1>3, <1>5, SameValues
<1>7. g[m] = step[<<m, Values(kids, g, m)>>] /\ h[m] = step[<<m, Values(kids, h, m)>>]
  BY <1>3 DEF Part, Solves
<1>8. g[m] = h[m]
  BY <1>6, <1>7
<1> QED BY <1>8

\* A recursion over the children has a solution: the parts that there are make a
\* larger one, and with one more node it is larger still.
LEMMA RecursionExists ==
    ASSUME NEW kids \in [Node -> Seq(Node)], Grounded(kids),
           NEW D, NEW step \in [Node \X Seq(D) -> D]
    PROVE  \E g \in [Node -> D] : Solves(g, Node, kids, step)
<1> DEFINE P(U, g) == Part(U, g, D, kids, step)
           At(x, v) == \E U \in SUBSET Node : \E g \in [U -> D] :
                            P(U, g) /\ x \in U /\ g[x] = v
           G == {x \in Node : \E v \in D : At(x, v)}
           h == [x \in G |-> CHOOSE v \in D : At(x, v)]
<1>1. ASSUME NEW U, NEW g, P(U, g), NEW x \in U
      PROVE  x \in G /\ h[x] = g[x]
  <2>1. U \in SUBSET Node /\ g \in [U -> D] /\ g[x] \in D /\ x \in Node
    BY <1>1 DEF Part
  <2>2. At(x, g[x])
    BY <1>1, <2>1
  <2>3. x \in G
    <3> HIDE DEF At
    <3> QED BY <2>1, <2>2
  <2>4. ASSUME NEW v \in D, At(x, v) PROVE v = g[x]
    <3>1. PICK V \in SUBSET Node : \E f \in [V -> D] : P(V, f) /\ x \in V /\ f[x] = v
      BY <2>4
    <3>2. PICK f \in [V -> D] : P(V, f) /\ x \in V /\ f[x] = v
      BY <3>1
    <3> QED BY <1>1, <3>2, PartsAgree
  <2>5. (CHOOSE v \in D : At(x, v)) = g[x]
    <3> HIDE DEF At
    <3> QED BY <2>1, <2>2, <2>4
  <2> HIDE DEF At, G
  <2> QED BY <2>3, <2>5
<1>2. \A x \in G : \E U, g : P(U, g) /\ x \in U
  OBVIOUS
<1>3. G \subseteq Node /\ DOMAIN h = G /\ h = [x \in G |-> h[x]]
  OBVIOUS
<1> HIDE DEF G, h
<1>4. P(G, h)
  <2>1. ASSUME NEW x \in G
        PROVE  /\ h[x] \in D /\ ToSet(kids[x]) \subseteq G
               /\ h[x] = step[<<x, Values(kids, h, x)>>]
    <3>1. PICK U, g : P(U, g) /\ x \in U
      BY <1>2
    <3>2. /\ g \in [U -> D] /\ ToSet(kids[x]) \subseteq U
          /\ g[x] = step[<<x, Values(kids, g, x)>>]
      BY <3>1 DEF Part, Solves
    <3>3. \A k \in U : k \in G /\ h[k] = g[k]
      BY <1>1, <3>1
    <3>4. Values(kids, h, x) = Values(kids, g, x)
      BY <1>3, <3>2, <3>3, SameValues
    <3> QED BY <3>1, <3>2, <3>3, <3>4
  <2>2. h \in [G -> D]
    BY <1>3, <2>1
  <2> QED BY <1>3, <2>1, <2>2 DEF Part, Solves
<1>5. G = Node
  <2> SUFFICES ASSUME Node \ G # {} PROVE FALSE
    BY <1>3
  <2>1. PICK m \in Node \ G : ToSet(kids[m]) \cap (Node \ G) = {}
    BY DEF Grounded
  <2>2. ToSet(kids[m]) \subseteq G
    BY <2>1, KidFacts
  <2> DEFINE last == step[<<m, Values(kids, h, m)>>]
             f == [x \in G \cup {m} |-> IF x = m THEN last ELSE h[x]]
  <2>3. h \in [G -> D] /\ \A x \in G : ToSet(kids[x]) \subseteq G
    BY <1>4 DEF Part
  <2>4. last \in D
    <3>1. \A i \in 1..Len(kids[m]) : h[kids[m][i]] \in D
      BY <2>1, <2>2, <2>3, KidFacts
    <3>2. Values(kids, h, m) \in Seq(D)
      BY <2>1, <3>1, KidFacts DEF Values
    <3> QED BY <2>1, <3>2
  <2> HIDE DEF last
  <2>5. f \in [G \cup {m} -> D] /\ f[m] = last /\ \A x \in G : f[x] = h[x]
    BY <2>1, <2>3, <2>4
  <2> HIDE DEF f
  <2>6. ASSUME NEW x \in G \cup {m}
        PROVE  ToSet(kids[x]) \subseteq G /\ Values(kids, f, x) = Values(kids, h, x)
    <3>1. x \in Node /\ ToSet(kids[x]) \subseteq G
      BY <1>3, <2>1, <2>2, <2>3
    <3>2. \A k \in ToSet(kids[x]) : f[k] = h[k]
      BY <2>5, <3>1
    <3> QED BY <3>1, <3>2, SameValues
  <2>7. \A x \in G : h[x] = step[<<x, Values(kids, h, x)>>]
    BY <1>4 DEF Part, Solves
  <2>8. Solves(f, G \cup {m}, kids, step)
    BY <2>5, <2>6, <2>7 DEF Solves, last
  <2>9. P(G \cup {m}, f)
    BY <1>3, <2>1, <2>5, <2>6, <2>8 DEF Part
  <2>10. m \in G
    BY <1>1, <2>9
  <2> QED BY <2>1, <2>10
<1> QED BY <1>4, <1>5 DEF Part

\* The recursion of Preorder.
LEMMA PreorderEquation ==
    ASSUME NEW kids \in [Node -> Seq(Node)], Grounded(kids)
    PROVE  \E g \in [Node -> Seq(Node)] : \A m \in Node :
              /\ Preorder(kids, m) = g[m]
              /\ g[m] = <<m>> \o FlattenSeq(Values(kids, g, m))
<1> DEFINE turn(f) == [m \in DOMAIN kids |->
                <<m>> \o FlattenSeq([i \in 1..Len(kids[m]) |-> f[kids[m][i]]])]
           order == CHOOSE f : f = turn(f)
           D == Seq(Node)
           step == [p \in Node \X Seq(D) |-> <<p[1]>> \o FlattenSeq(p[2])]
<1>1. \A m : Preorder(kids, m) = order[m]
  BY DEF Preorder
<1>2. ASSUME NEW m \in Node, NEW ss \in Seq(D)
      PROVE  <<m>> \o FlattenSeq(ss) \in D /\ step[<<m, ss>>] = <<m>> \o FlattenSeq(ss)
  <2>1. <<m>> \in Seq(Node) /\ FlattenSeq(ss) \in Seq(Node)
    BY SingleFacts, FlattenFacts
  <2>2. <<m>> \o FlattenSeq(ss) \in Seq(Node)
    BY <2>1, ConcatProperties
  <2> QED BY <2>2
<1>3. step \in [Node \X Seq(D) -> D]
  <2>1. \A p \in Node \X Seq(D) : <<p[1]>> \o FlattenSeq(p[2]) \in D
    <3> SUFFICES ASSUME NEW p \in Node \X Seq(D)
                 PROVE  <<p[1]>> \o FlattenSeq(p[2]) \in D
      OBVIOUS
    <3>1. p[1] \in Node /\ p[2] \in Seq(D)
      OBVIOUS
    <3> QED BY <1>2, <3>1
  <2> QED BY <2>1
<1> HIDE DEF step
<1>4. PICK g \in [Node -> D] : Solves(g, Node, kids, step)
  <2> HIDE DEF D
  <2> QED BY <1>3, RecursionExists
<1>5. \A f, m : Values(kids, f, m) = [i \in 1..Len(kids[m]) |-> f[kids[m][i]]]
  BY DEF Values
<1>6. ASSUME NEW f \in [Node -> D], NEW m \in Node PROVE Values(kids, f, m) \in Seq(D)
  <2>1. \A i \in 1..Len(kids[m]) : f[kids[m][i]] \in D
    BY KidFacts
  <2>2. Len(kids[m]) \in Nat
    BY KidFacts
  <2> HIDE DEF D
  <2> QED BY <2>1, <2>2 DEF Values
<1>7. \A m \in Node : g[m] = <<m>> \o FlattenSeq(Values(kids, g, m))
  <2> SUFFICES ASSUME NEW m \in Node
               PROVE  g[m] = <<m>> \o FlattenSeq(Values(kids, g, m))
    OBVIOUS
  <2>1. Values(kids, g, m) \in Seq(D)
    BY <1>6
  <2> QED BY <1>2, <1>4, <2>1 DEF Solves
<1>8. g = turn(g)
  <2>1. turn(g) = [m \in Node |-> <<m>> \o FlattenSeq(Values(kids, g, m))]
    BY DEF Values
  <2>2. g = [m \in Node |-> g[m]]
    OBVIOUS
  <2> QED BY <1>7, <2>1, <2>2
<1>9. order = turn(order)
  <2> HIDE DEF turn
  <2> QED BY <1>8
<1> HIDE DEF order
<1>10. \A m \in Node : order[m] = <<m>> \o FlattenSeq(Values(kids, order, m))
  <2>1. turn(order) = [m \in Node |-> <<m>> \o FlattenSeq(Values(kids, order, m))]
    BY DEF Values
  <2> HIDE DEF turn
  <2> QED BY <1>9, <2>1
<1>11. order = [m \in Node |-> order[m]]
  BY <1>9
<1> HIDE DEF turn
<1> DEFINE S == {m \in Node : order[m] \notin D}
<1>12. S = {}
  <2> SUFFICES ASSUME S # {} PROVE FALSE
    OBVIOUS
  <2>1. PICK m \in S : ToSet(kids[m]) \cap S = {}
    BY DEF Grounded
  <2>2. \A k \in ToSet(kids[m]) : order[k] \in D
    BY <2>1, KidFacts
  <2>3. Values(kids, order, m) \in Seq(D)
    <3>1. \A i \in 1..Len(kids[m]) : order[kids[m][i]] \in D
      BY <2>1, <2>2, KidFacts
    <3>2. Len(kids[m]) \in Nat
      BY <2>1, KidFacts
    <3> HIDE DEF D
    <3> QED BY <3>1, <3>2 DEF Values
  <2>4. order[m] \in D
    BY <1>2, <1>10, <2>1, <2>3
  <2> QED BY <2>1, <2>4
<1>13. order \in [Node -> Seq(Node)]
  BY <1>11, <1>12
<1> QED BY <1>1, <1>10, <1>13

\* The recursion of Postorder.
LEMMA PostorderEquation ==
    ASSUME NEW kids \in [Node -> Seq(Node)], Grounded(kids)
    PROVE  \E g \in [Node -> Seq(Node)] : \A m \in Node :
              /\ Postorder(kids, m) = g[m]
              /\ g[m] = FlattenSeq([i \in 1..Len(kids[m]) |->
                                        Append(g[kids[m][i]], kids[m][i])])
<1> DEFINE Closing(m, vs) == [i \in 1..Len(kids[m]) |-> Append(vs[i], kids[m][i])]
           Listed(f, m) == [i \in 1..Len(kids[m]) |-> Append(f[kids[m][i]], kids[m][i])]
           turn(f) == [m \in DOMAIN kids |-> FlattenSeq(Listed(f, m))]
           order == CHOOSE f : f = turn(f)
           D == Seq(Node)
           step == [p \in Node \X Seq(D) |->
                        IF Len(p[2]) = Len(kids[p[1]])
                        THEN FlattenSeq(Closing(p[1], p[2])) ELSE <<>>]
<1>1. \A m : Postorder(kids, m) = order[m]
  BY DEF Postorder
<1>2. ASSUME NEW m \in Node, NEW vs \in Seq(D), Len(vs) = Len(kids[m])
      PROVE  FlattenSeq(Closing(m, vs)) \in D
  <2>1. Len(kids[m]) \in Nat /\ \A i \in 1..Len(kids[m]) : vs[i] \in D /\ kids[m][i] \in Node
    BY <1>2, KidFacts, ListFacts
  <2>2. \A i \in 1..Len(kids[m]) : Append(vs[i], kids[m][i]) \in D
    BY <2>1, AppendProperties
  <2>3. Closing(m, vs) \in Seq(D)
    <3> HIDE DEF D
    <3> QED BY <2>1, <2>2
  <2> HIDE DEF Closing
  <2> QED BY <2>3, FlattenFacts
<1>3. step \in [Node \X Seq(D) -> D]
  <2>1. \A p \in Node \X Seq(D) :
            (IF Len(p[2]) = Len(kids[p[1]])
             THEN FlattenSeq(Closing(p[1], p[2])) ELSE <<>>) \in D
    <3> SUFFICES ASSUME NEW p \in Node \X Seq(D)
                 PROVE  (IF Len(p[2]) = Len(kids[p[1]])
                         THEN FlattenSeq(Closing(p[1], p[2])) ELSE <<>>) \in D
      OBVIOUS
    <3>1. p[1] \in Node /\ p[2] \in Seq(D)
      OBVIOUS
    <3>2. <<>> \in D
      BY EmptySeq
    <3> HIDE DEF Closing
    <3> QED BY <1>2, <3>1, <3>2
  <2> QED BY <2>1
<1>4. \A m \in Node, vs \in Seq(D) :
        Len(vs) = Len(kids[m]) => step[<<m, vs>>] = FlattenSeq(Closing(m, vs))
  <2> HIDE DEF Closing, D
  <2> QED OBVIOUS
<1> HIDE DEF step
<1>5. PICK g \in [Node -> D] : Solves(g, Node, kids, step)
  <2> HIDE DEF D
  <2> QED BY <1>3, RecursionExists
<1>6. ASSUME NEW f, NEW m \in Node, \A k \in ToSet(kids[m]) : f[k] \in D
      PROVE  /\ Values(kids, f, m) \in Seq(D) /\ Len(Values(kids, f, m)) = Len(kids[m])
             /\ Closing(m, Values(kids, f, m)) = Listed(f, m)
  <2>1. \A i \in 1..Len(kids[m]) : f[kids[m][i]] \in D
    BY <1>6, KidFacts
  <2>2. Len(kids[m]) \in Nat
    BY KidFacts
  <2>3. Values(kids, f, m) \in Seq(D) /\ Len(Values(kids, f, m)) = Len(kids[m])
    <3> HIDE DEF D
    <3> QED BY <2>1, <2>2 DEF Values
  <2>4. \A i \in 1..Len(kids[m]) : Values(kids, f, m)[i] = f[kids[m][i]]
    BY DEF Values
  <2> QED BY <2>3, <2>4
<1>7. \A m \in Node : g[m] = FlattenSeq(Listed(g, m))
  <2> SUFFICES ASSUME NEW m \in Node PROVE g[m] = FlattenSeq(Listed(g, m))
    OBVIOUS
  <2>1. \A k \in ToSet(kids[m]) : g[k] \in D
    BY KidFacts
  <2> DEFINE vs == Values(kids, g, m)
  <2>2. vs \in Seq(D) /\ Len(vs) = Len(kids[m]) /\ Closing(m, vs) = Listed(g, m)
    BY <1>6, <2>1
  <2>3. g[m] = step[<<m, vs>>]
    BY <1>5 DEF Solves
  <2> HIDE DEF Closing, Listed, vs
  <2> QED BY <1>4, <2>2, <2>3
<1> HIDE DEF Listed, Closing
<1>8. g = turn(g)
  <2>1. turn(g) = [m \in Node |-> FlattenSeq(Listed(g, m))]
    OBVIOUS
  <2>2. g = [m \in Node |-> g[m]]
    OBVIOUS
  <2> QED BY <1>7, <2>1, <2>2
<1>9. order = turn(order)
  <2> HIDE DEF turn
  <2> QED BY <1>8
<1> HIDE DEF order
<1>10. \A m \in Node : order[m] = FlattenSeq(Listed(order, m))
  <2>1. turn(order) = [m \in Node |-> FlattenSeq(Listed(order, m))]
    OBVIOUS
  <2> HIDE DEF turn
  <2> QED BY <1>9, <2>1
<1>11. order = [m \in Node |-> order[m]]
  BY <1>9
<1> HIDE DEF turn
<1> DEFINE S == {m \in Node : order[m] \notin D}
<1>12. S = {}
  <2> SUFFICES ASSUME S # {} PROVE FALSE
    OBVIOUS
  <2>1. PICK m \in S : ToSet(kids[m]) \cap S = {}
    BY DEF Grounded
  <2>2. \A k \in ToSet(kids[m]) : order[k] \in D
    BY <2>1, KidFacts
  <2> DEFINE vs == Values(kids, order, m)
  <2>3. m \in Node /\ vs \in Seq(D) /\ Len(vs) = Len(kids[m]) /\ Closing(m, vs) = Listed(order, m)
    BY <1>6, <2>1, <2>2
  <2>4. FlattenSeq(Closing(m, vs)) \in D
    BY <1>2, <2>3
  <2>5. order[m] \in D
    BY <1>10, <2>3, <2>4
  <2> QED BY <2>1, <2>5
<1>13. order \in [Node -> Seq(Node)]
  BY <1>11, <1>12
<1> QED BY <1>1, <1>10, <1>13 DEF Listed

\* The last row of a branch, as the lists of children have it.
LEMMA LastEquation ==
    ASSUME children \in [Node -> Seq(Node)], Grounded(children)
    PROVE  \A m \in Node :
              /\ FindLastNode(m) \in Node
              /\ FindLastNode(m) = IF children[m] = <<>> THEN m
                                   ELSE FindLastNode(Last(children[m]))
<1> DEFINE turn(f) == [m \in Node |-> IF children[m] = <<>> THEN m
                                      ELSE f[Last(children[m])]]
           last == CHOOSE f : f = turn(f)
           step == [p \in Node \X Seq(Node) |->
                        IF p[2] = <<>> THEN p[1] ELSE p[2][Len(p[2])]]
<1>1. \A m : FindLastNode(m) = last[m]
  BY DEF FindLastNode
<1>2. step \in [Node \X Seq(Node) -> Node]
  <2>1. ASSUME NEW p \in Node \X Seq(Node)
        PROVE  (IF p[2] = <<>> THEN p[1] ELSE p[2][Len(p[2])]) \in Node
    <3>1. p[1] \in Node /\ p[2] \in Seq(Node)
      OBVIOUS
    <3>2. p[2] # <<>> => p[2][Len(p[2])] \in Node
      BY <3>1, EmptySeq, LenProperties
    <3> QED BY <3>1, <3>2
  <2> QED BY <2>1
<1>3. \A m \in Node, vs \in Seq(Node) :
          step[<<m, vs>>] = IF vs = <<>> THEN m ELSE vs[Len(vs)]
  OBVIOUS
<1> HIDE DEF step
<1>4. PICK g \in [Node -> Node] : Solves(g, Node, children, step)
  BY <1>2, RecursionExists
<1>5. ASSUME NEW m \in Node, children[m] # <<>>
      PROVE  Last(children[m]) \in Node /\ Last(children[m]) \in ToSet(children[m])
  <2>1. Len(children[m]) \in Nat \ {0}
    BY <1>5, KidFacts, EmptySeq
  <2>2. Len(children[m]) \in 1..Len(children[m])
    BY <2>1
  <2> QED BY <2>2, KidFacts DEF Last
<1>6. \A m \in Node : g[m] = IF children[m] = <<>> THEN m ELSE g[Last(children[m])]
  <2> SUFFICES ASSUME NEW m \in Node
               PROVE  g[m] = IF children[m] = <<>> THEN m ELSE g[Last(children[m])]
    OBVIOUS
  <2> DEFINE vs == Values(children, g, m)
  <2>1. /\ vs \in Seq(Node) /\ Len(vs) = Len(children[m])
        /\ \A i \in 1..Len(children[m]) : vs[i] = g[children[m][i]]
    <3>1. Len(children[m]) \in Nat /\ \A i \in 1..Len(children[m]) : g[children[m][i]] \in Node
      BY KidFacts
    <3> QED BY <3>1 DEF Values
  <2>2. g[m] = step[<<m, vs>>]
    BY <1>4 DEF Solves
  <2> HIDE DEF vs
  <2>3. children[m] = <<>> <=> vs = <<>>
    <3>1. Len(children[m]) = 0 <=> children[m] = <<>>
      BY KidFacts, EmptySeq
    <3>2. Len(vs) = 0 <=> vs = <<>>
      BY <2>1, EmptySeq
    <3> QED BY <2>1, <3>1, <3>2
  <2>4. children[m] # <<>> => vs[Len(vs)] = g[Last(children[m])]
    <3>1. children[m] # <<>> => Len(children[m]) \in Nat \ {0}
      BY KidFacts, EmptySeq
    <3>2. children[m] # <<>> => Len(children[m]) \in 1..Len(children[m])
      BY <3>1
    <3> QED BY <2>1, <3>2 DEF Last
  <2> QED BY <1>3, <2>1, <2>2, <2>3, <2>4
<1>7. g = turn(g)
  <2>1. g = [m \in Node |-> g[m]]
    OBVIOUS
  <2> QED BY <1>6, <2>1
<1>8. last = turn(last)
  <2> HIDE DEF turn
  <2> QED BY <1>7
<1> HIDE DEF last
<1>9. \A m \in Node : last[m] = IF children[m] = <<>> THEN m ELSE last[Last(children[m])]
  <2>1. \A m \in Node : last[m] = turn(last)[m]
    BY <1>8
  <2> QED BY <2>1
<1> HIDE DEF turn
<1> DEFINE S == {m \in Node : last[m] \notin Node}
<1>10. S = {}
  <2> SUFFICES ASSUME S # {} PROVE FALSE
    OBVIOUS
  <2>1. PICK m \in S : ToSet(children[m]) \cap S = {}
    BY DEF Grounded
  <2>2. last[m] \in Node
    BY <1>5, <1>9, <2>1
  <2> QED BY <2>1, <2>2
<1> QED BY <1>1, <1>5, <1>9, <1>10

-----------------------------------------------------------------------------
(* Branches.                                                               *)

\* A node with all that is below it.
Inside(kids, n) == Below(kids, n) \cup {n}

\* No node is in two lists of children, or twice in one.
Forked(kids) ==
    /\ \A m, p \in Node : ToSet(kids[m]) \cap ToSet(kids[p]) # {} => m = p
    /\ \A m \in Node : IsInjective(kids[m])

\* What is below a node is in every closed set that holds its children.
LEMMA BelowIsLeast ==
    ASSUME NEW kids \in [Node -> Seq(Node)], NEW n \in Node, NEW U \in SUBSET Node,
           ToSet(kids[n]) \subseteq U, \A u \in U : ToSet(kids[u]) \subseteq U
    PROVE  Below(kids, n) \subseteq U
<1> DEFINE next == Lists(kids)
<1>1. DOMAIN next = Node /\ \A m \in Node : next[m] = ToSet(kids[m])
  BY DEF Lists
<1>2. Below(kids, n) = Reach(ToSet(kids[n]), next)
  BY DEF Below
<1> HIDE DEF next
<1>3. U \in SUBSET DOMAIN next /\ \A u \in U : next[u] \subseteq U
  BY <1>1
<1> QED BY <1>2, <1>3 DEF Reach

\* It is the children and what is below them.
LEMMA BelowSteps ==
    ASSUME NEW kids \in [Node -> Seq(Node)]
    PROVE  /\ \A n \in Node : \A m \in Below(kids, n) : Below(kids, m) \subseteq Below(kids, n)
           /\ \A n \in Node : \A x \in Node :
                x \in Below(kids, n) <=> \E c \in ToSet(kids[n]) : x \in Inside(kids, c)
           /\ \A n \in Node : \A x \in Below(kids, n) :
                \E p \in Inside(kids, n) : x \in ToSet(kids[p])
<1>1. \A n \in Node : /\ Below(kids, n) \subseteq Node
                      /\ ToSet(kids[n]) \subseteq Below(kids, n) /\ ToSet(kids[n]) \subseteq Node
                      /\ \A m \in Below(kids, n) : ToSet(kids[m]) \subseteq Below(kids, n)
  BY BelowFacts
<1>2. ASSUME NEW n \in Node, NEW m \in Below(kids, n)
      PROVE  Below(kids, m) \subseteq Below(kids, n)
  <2>1. m \in Node
    BY <1>1
  <2> QED BY <1>1, <2>1, BelowIsLeast
<1>3. ASSUME NEW n \in Node
      PROVE  \A x \in Below(kids, n) : \E c \in ToSet(kids[n]) : x \in Inside(kids, c)
  <2> DEFINE U == {x \in Node : \E c \in ToSet(kids[n]) : x \in Inside(kids, c)}
  <2>1. ToSet(kids[n]) \subseteq U
    BY <1>1 DEF Inside
  <2>2. ASSUME NEW u \in U PROVE ToSet(kids[u]) \subseteq U
    <3>1. PICK c \in ToSet(kids[n]) : u \in Inside(kids, c)
      OBVIOUS
    <3>2. c \in Node /\ u \in Node
      BY <1>1
    <3>3. ToSet(kids[u]) \subseteq Below(kids, c)
      BY <1>1, <3>1, <3>2 DEF Inside
    <3> QED BY <1>1, <3>2, <3>3 DEF Inside
  <2> HIDE DEF U
  <2>3. U \in SUBSET Node
    BY DEF U
  <2>4. Below(kids, n) \subseteq U
    BY <2>1, <2>2, <2>3, BelowIsLeast
  <2> QED BY <2>4 DEF U
<1>4. ASSUME NEW n \in Node, NEW c \in ToSet(kids[n])
      PROVE  Inside(kids, c) \subseteq Below(kids, n)
  BY <1>1, <1>2 DEF Inside
<1>5. ASSUME NEW n \in Node
      PROVE  \A x \in Below(kids, n) : \E p \in Inside(kids, n) : x \in ToSet(kids[p])
  <2> DEFINE U == {x \in Below(kids, n) : \E p \in Inside(kids, n) : x \in ToSet(kids[p])}
  <2>1. ToSet(kids[n]) \subseteq U
    BY <1>1 DEF Inside
  <2>2. \A u \in U : ToSet(kids[u]) \subseteq U
    BY <1>1 DEF Inside
  <2> HIDE DEF U
  <2>3. U \in SUBSET Node /\ U \subseteq Below(kids, n)
    BY <1>1 DEF U
  <2>4. Below(kids, n) \subseteq U
    BY <2>1, <2>2, <2>3, BelowIsLeast
  <2> QED BY <2>4 DEF U
<1> QED BY <1>2, <1>3, <1>4, <1>5

\* No node is below itself.
LEMMA NotBelowItself ==
    ASSUME NEW kids \in [Node -> Seq(Node)], Grounded(kids), NEW n \in Node
    PROVE  n \notin Below(kids, n)
<1> DEFINE S == {x \in Node : x \in Below(kids, x)}
<1>1. ASSUME NEW x \in S PROVE ToSet(kids[x]) \cap S # {}
  <2>1. PICK c \in ToSet(kids[x]) : x \in Inside(kids, c)
    BY BelowSteps
  <2>2. c \in Node /\ x \in Node
    BY KidFacts
  <2>3. c \in Below(kids, c)
    BY <2>1, <2>2, BelowFacts DEF Inside
  <2> QED BY <2>1, <2>2, <2>3
<1> HIDE DEF S
<1>2. S = {}
  <2>1. S \in SUBSET Node
    BY DEF S
  <2> QED BY <1>1, <2>1 DEF Grounded
<1> QED BY <1>2 DEF S

\* Two branches are one in the other or apart.
LEMMA BranchFacts ==
    ASSUME NEW kids \in [Node -> Seq(Node)], Grounded(kids), Forked(kids)
    PROVE  /\ \A m, p \in Node : \A x \in ToSet(kids[p]) :
                x \in Below(kids, m) => p \in Inside(kids, m)
           /\ \A m, k \in Node : \A x \in Inside(kids, m) :
                x \in Inside(kids, k) => m \in Inside(kids, k) \/ k \in Inside(kids, m)
           /\ \A m \in Node : \A c, d \in ToSet(kids[m]) : \A x :
                x \in Inside(kids, c) /\ x \in Inside(kids, d) => c = d
<1>1. ASSUME NEW m \in Node, NEW p \in Node, NEW x \in ToSet(kids[p]), x \in Below(kids, m)
      PROVE  p \in Inside(kids, m)
  <2>1. PICK q \in Inside(kids, m) : x \in ToSet(kids[q])
    BY <1>1, BelowSteps
  <2>2. q \in Node
    BY <2>1, BelowFacts DEF Inside
  <2> QED BY <1>1, <2>1, <2>2 DEF Forked
<1>2. ASSUME NEW m \in Node, NEW k \in Node, NEW x \in Inside(kids, m), x \in Inside(kids, k)
      PROVE  m \in Inside(kids, k) \/ k \in Inside(kids, m)
  <2> DEFINE U == {y \in Below(kids, m) : y \in Inside(kids, k) =>
                        m \in Inside(kids, k) \/ k \in Inside(kids, m)}
  <2>1. ASSUME NEW q \in Inside(kids, m), q = m \/ q \in U, NEW y \in ToSet(kids[q])
        PROVE  y \in U
    <3>1. y \in Below(kids, m) /\ q \in Node
      BY BelowFacts DEF Inside
    <3>2. ASSUME y \in Inside(kids, k)
          PROVE  m \in Inside(kids, k) \/ k \in Inside(kids, m)
      <4>1. CASE y = k
        BY <3>1, <4>1 DEF Inside
      <4>2. CASE y \in Below(kids, k)
        <5>1. q \in Inside(kids, k)
          BY <1>1, <3>1, <4>2
        <5> QED BY <2>1, <5>1
      <4> QED BY <3>2, <4>1, <4>2 DEF Inside
    <3> QED BY <3>1, <3>2
  <2>2. U \in SUBSET Node /\ U \subseteq Below(kids, m)
    BY BelowFacts
  <2>3. x \in U => m \in Inside(kids, k) \/ k \in Inside(kids, m)
    BY <1>2
  <2> HIDE DEF U
  <2>4. Below(kids, m) \subseteq U
    <3>1. ToSet(kids[m]) \subseteq U
      BY <2>1 DEF Inside
    <3>2. \A u \in U : ToSet(kids[u]) \subseteq U
      BY <2>1, <2>2 DEF Inside
    <3> QED BY <2>2, <3>1, <3>2, BelowIsLeast
  <2>5. x = m \/ x \in U
    BY <2>4 DEF Inside
  <2> QED BY <1>2, <2>3, <2>5
<1>3. ASSUME NEW m \in Node, NEW c \in ToSet(kids[m]), NEW d \in ToSet(kids[m]),
             c \in Inside(kids, d)
      PROVE  c = d
  <2> SUFFICES ASSUME c \in Below(kids, d) PROVE FALSE
    BY <1>3 DEF Inside
  <2>1. c \in Node /\ d \in Node
    BY KidFacts
  <2>2. m \in Inside(kids, d)
    BY <1>1, <2>1
  <2>3. d \in Below(kids, d)
    BY <2>1, <2>2, BelowFacts DEF Inside
  <2> QED BY <2>1, <2>3, NotBelowItself
<1>4. ASSUME NEW m \in Node, NEW c \in ToSet(kids[m]), NEW d \in ToSet(kids[m]), NEW x,
             x \in Inside(kids, c), x \in Inside(kids, d)
      PROVE  c = d
  <2>1. c \in Node /\ d \in Node
    BY KidFacts
  <2>2. c \in Inside(kids, d) \/ d \in Inside(kids, c)
    BY <1>2, <1>4, <2>1
  <2> QED BY <1>3, <2>2
<1> QED BY <1>1, <1>2, <1>4

-----------------------------------------------------------------------------
(* The order of a branch.                                                  *)

\* Without the element put before it a list is what it was.
LEMMA TailFacts ==
    ASSUME NEW T, NEW e \in T, NEW s \in Seq(T)
    PROVE  Tail(<<e>> \o s) = s
<1> DEFINE t == <<e>> \o s
<1>1. <<e>> \in Seq(T) /\ Len(<<e>>) = 1
  BY SingleFacts
<1>2. /\ t \in Seq(T) /\ Len(t) = 1 + Len(s) /\ Len(s) \in Nat
      /\ \A i \in 1..(1 + Len(s)) : t[i] = IF i <= 1 THEN <<e>>[i] ELSE s[i - 1]
  BY <1>1, ConcatProperties, LenProperties
<1> HIDE DEF t
<1>3. t # <<>>
  BY <1>2, EmptySeq
<1>4. /\ Tail(t) \in Seq(T) /\ Len(Tail(t)) = Len(t) - 1
      /\ \A i \in 1..Len(Tail(t)) : Tail(t)[i] = t[i + 1]
  BY <1>2, <1>3, HeadTailProperties
<1>5. Len(Tail(t)) = Len(s)
  BY <1>2, <1>4
<1>6. \A i \in 1..Len(s) : i + 1 \in 1..(1 + Len(s)) /\ ~(i + 1 <= 1) /\ (i + 1) - 1 = i
  BY <1>2
<1>7. \A i \in 1..Len(Tail(t)) : Tail(t)[i] = s[i]
  BY <1>2, <1>4, <1>5, <1>6
<1>8. Tail(t) = s
  BY <1>4, <1>5, <1>7, SeqEqual
<1> QED BY <1>8 DEF t

\* What Preorder lists, and what it does with a node and the lists of the
\* children.
LEMMA PreorderFacts ==
    ASSUME NEW kids \in [Node -> Seq(Node)], Grounded(kids), NEW n \in Node
    PROVE  /\ Preorder(kids, n) \in Seq(Node)
           /\ ToSet(Preorder(kids, n)) = Inside(kids, n)
           /\ Tail(Preorder(kids, n)) \in Seq(Node)
           /\ ToSet(Tail(Preorder(kids, n))) = Below(kids, n)
           /\ \A x, y : Precedes(Tail(Preorder(kids, n)), x, y) <=>
                \/ \E i \in 1..Len(kids[n]) : Precedes(Preorder(kids, kids[n][i]), x, y)
                \/ \E i, j \in 1..Len(kids[n]) : /\ i < j
                                                 /\ x \in Inside(kids, kids[n][i])
                                                 /\ y \in Inside(kids, kids[n][j])
           /\ \A x, y : Precedes(Preorder(kids, n), x, y) <=>
                \/ x = n /\ y \in Below(kids, n)
                \/ Precedes(Tail(Preorder(kids, n)), x, y)
<1>1. PICK g \in [Node -> Seq(Node)] : \A m \in Node :
              /\ Preorder(kids, m) = g[m]
              /\ g[m] = <<m>> \o FlattenSeq(Values(kids, g, m))
  BY PreorderEquation
<1>2. ASSUME NEW m \in Node
      PROVE  /\ Values(kids, g, m) \in Seq(Seq(Node))
             /\ Len(Values(kids, g, m)) = Len(kids[m])
             /\ \A i \in 1..Len(kids[m]) : Values(kids, g, m)[i] = g[kids[m][i]]
  <2> DEFINE D == Seq(Node)
  <2>1. Len(kids[m]) \in Nat /\ \A i \in 1..Len(kids[m]) : g[kids[m][i]] \in D
    BY KidFacts
  <2> HIDE DEF D
  <2>2. Values(kids, g, m) \in Seq(D) /\ Len(Values(kids, g, m)) = Len(kids[m])
    BY <2>1 DEF Values
  <2> QED BY <2>2 DEF D, Values
<1> DEFINE flat(m) == FlattenSeq(Values(kids, g, m))
<1>3. ASSUME NEW m \in Node
      PROVE  /\ flat(m) \in Seq(Node)
             /\ \A x : x \in ToSet(flat(m)) <=>
                    \E i \in 1..Len(kids[m]) : x \in ToSet(g[kids[m][i]])
             /\ \A x, y : Precedes(flat(m), x, y) <=>
                \/ \E i \in 1..Len(kids[m]) : Precedes(g[kids[m][i]], x, y)
                \/ \E i, j \in 1..Len(kids[m]) : i < j /\ x \in ToSet(g[kids[m][i]])
                                                       /\ y \in ToSet(g[kids[m][j]])
  <2> DEFINE vs == Values(kids, g, m)
  <2>1. /\ vs \in Seq(Seq(Node)) /\ Len(vs) = Len(kids[m])
        /\ \A i \in 1..Len(kids[m]) : vs[i] = g[kids[m][i]]
    BY <1>2
  <2> HIDE DEF vs
  <2>2. /\ FlattenSeq(vs) \in Seq(Node)
        /\ \A x : x \in ToSet(FlattenSeq(vs)) <=> \E i \in 1..Len(vs) : x \in ToSet(vs[i])
        /\ \A x, y : Precedes(FlattenSeq(vs), x, y) <=>
            \/ \E i \in 1..Len(vs) : Precedes(vs[i], x, y)
            \/ \E i, j \in 1..Len(vs) : i < j /\ x \in ToSet(vs[i]) /\ y \in ToSet(vs[j])
    BY <2>1, FlattenFacts
  <2>3. flat(m) = FlattenSeq(vs)
    BY DEF vs
  <2> DEFINE F == flat(m)
  <2>4. F = FlattenSeq(vs)
    BY <2>3
  <2> HIDE DEF F
  <2>5. \A x : x \in ToSet(F) <=> \E i \in 1..Len(kids[m]) : x \in ToSet(g[kids[m][i]])
    <3>1. \A x : x \in ToSet(F) <=> \E i \in 1..Len(vs) : x \in ToSet(vs[i])
      BY <2>2, <2>4
    <3> QED BY <2>1, <3>1
  <2>6. \A x, y : Precedes(F, x, y) <=>
                \/ \E i \in 1..Len(kids[m]) : Precedes(g[kids[m][i]], x, y)
                \/ \E i, j \in 1..Len(kids[m]) : i < j /\ x \in ToSet(g[kids[m][i]])
                                                       /\ y \in ToSet(g[kids[m][j]])
    <3>1. \A x, y : Precedes(F, x, y) <=>
            \/ \E i \in 1..Len(vs) : Precedes(vs[i], x, y)
            \/ \E i, j \in 1..Len(vs) : i < j /\ x \in ToSet(vs[i]) /\ y \in ToSet(vs[j])
      BY <2>2, <2>4
    <3> DEFINE K == 1..Len(kids[m])
               v(i) == vs[i]
               w(i) == g[kids[m][i]]
    <3>2. \A i \in K : v(i) = w(i)
      BY <2>1
    <3>3. \A x, y : Precedes(F, x, y) <=>
            \/ \E i \in K : Precedes(v(i), x, y)
            \/ \E i, j \in K : i < j /\ x \in ToSet(v(i)) /\ y \in ToSet(v(j))
      BY <2>1, <3>1
    <3> HIDE DEF K, v, w
    <3>4. \A x, y : Precedes(F, x, y) <=>
            \/ \E i \in K : Precedes(w(i), x, y)
            \/ \E i, j \in K : i < j /\ x \in ToSet(w(i)) /\ y \in ToSet(w(j))
      <4> SUFFICES ASSUME NEW x, NEW y
                   PROVE  Precedes(F, x, y) <=>
                            \/ \E i \in K : Precedes(w(i), x, y)
                            \/ \E i, j \in K : i < j /\ x \in ToSet(w(i)) /\ y \in ToSet(w(j))
        OBVIOUS
      <4>1. (\E i \in K : Precedes(v(i), x, y)) <=> (\E i \in K : Precedes(w(i), x, y))
        BY <3>2
      <4>2. (\E i, j \in K : i < j /\ x \in ToSet(v(i)) /\ y \in ToSet(v(j)))
              <=> (\E i, j \in K : i < j /\ x \in ToSet(w(i)) /\ y \in ToSet(w(j)))
        BY <3>2
      <4> QED BY <3>3, <4>1, <4>2
    <3> QED BY <3>4 DEF K, w
  <2>7. F \in Seq(Node)
    BY <2>2, <2>4
  <2> QED BY <2>5, <2>6, <2>7 DEF F
<1>4. \A m \in Node : g[m] = <<m>> \o flat(m) /\ Preorder(kids, m) = g[m]
  BY <1>1
<1> HIDE DEF flat
<1>5. ASSUME NEW m \in Node
      PROVE  /\ ToSet(g[m]) = {m} \cup ToSet(flat(m)) /\ Tail(g[m]) = flat(m)
             /\ \A x, y : Precedes(g[m], x, y) <=>
                    Precedes(flat(m), x, y) \/ (x = m /\ y \in ToSet(flat(m)))
  <2> DEFINE s == <<m>>
  <2>1. /\ s \in Seq(Node) /\ ToSet(s) = {m} /\ \A x, y : ~Precedes(s, x, y)
    BY SingleFacts
  <2>2. g[m] = s \o flat(m)
    BY <1>4
  <2>3. Tail(g[m]) = flat(m)
    <3> DEFINE F == flat(m)
    <3>1. F \in Seq(Node) /\ g[m] = <<m>> \o F
      BY <1>3, <1>4
    <3> HIDE DEF F
    <3>2. Tail(<<m>> \o F) = F
      BY <3>1, TailFacts
    <3> QED BY <3>1, <3>2 DEF F
  <2> DEFINE F == flat(m)
  <2>4. F \in Seq(Node) /\ g[m] = s \o F
    BY <1>3, <2>2
  <2> HIDE DEF s, F
  <2>5. /\ ToSet(s \o F) = ToSet(s) \cup ToSet(F)
        /\ \A x, y : Precedes(s \o F, x, y) <=>
              \/ Precedes(s, x, y) \/ Precedes(F, x, y)
              \/ x \in ToSet(s) /\ y \in ToSet(F)
    BY <2>1, <2>4, ConcatFacts, ConcatOrder
  <2>6. /\ ToSet(g[m]) = {m} \cup ToSet(F)
        /\ \A x, y : Precedes(g[m], x, y) <=>
                    Precedes(F, x, y) \/ (x = m /\ y \in ToSet(F))
    BY <2>1, <2>4, <2>5
  <2> QED BY <2>3, <2>6 DEF F
<1>6. ASSUME NEW m \in Node
      PROVE  \A x : x \in ToSet(flat(m)) <=> \E k \in ToSet(kids[m]) : x \in ToSet(g[k])
  <2>1. \A x : x \in ToSet(flat(m)) <=> \E i \in 1..Len(kids[m]) : x \in ToSet(g[kids[m][i]])
    BY <1>3
  <2> DEFINE K == 1..Len(kids[m])
             w(i) == kids[m][i]
  <2>2. /\ \A i \in K : w(i) \in ToSet(kids[m])
        /\ \A k \in ToSet(kids[m]) : \E i \in K : k = w(i)
    BY KidFacts
  <2>3. \A x : x \in ToSet(flat(m)) <=> \E i \in K : x \in ToSet(g[w(i)])
    BY <2>1
  <2> HIDE DEF K, w
  <2> QED BY <2>2, <2>3
<1>7. \A m \in Node : ToSet(g[m]) = Inside(kids, m)
  <2> DEFINE S == {m \in Node : ToSet(g[m]) # Inside(kids, m)}
  <2> SUFFICES ASSUME S # {} PROVE FALSE
    OBVIOUS
  <2>1. PICK m \in S : ToSet(kids[m]) \cap S = {}
    BY DEF Grounded
  <2>2. m \in Node
    OBVIOUS
  <2>3. \A k \in ToSet(kids[m]) : k \in Node /\ ToSet(g[k]) = Inside(kids, k)
    BY <2>1, <2>2, KidFacts
  <2>4. \A x : x \in ToSet(flat(m)) <=> \E k \in ToSet(kids[m]) : x \in Inside(kids, k)
    BY <1>6, <2>2, <2>3
  <2>5. Below(kids, m) \subseteq Node /\ \A k \in ToSet(kids[m]) : Inside(kids, k) \subseteq Node
    BY <2>2, <2>3, BelowFacts DEF Inside
  <2>6. \A x : x \in ToSet(flat(m)) <=> x \in Below(kids, m)
    BY <2>2, <2>4, <2>5, BelowSteps
  <2>7. ToSet(g[m]) = Inside(kids, m)
    BY <1>5, <2>2, <2>6 DEF Inside
  <2> QED BY <2>1, <2>7
<1>8. ToSet(flat(n)) = Below(kids, n)
  <2>1. \A k \in ToSet(kids[n]) : k \in Node /\ ToSet(g[k]) = Inside(kids, k)
    BY <1>7, KidFacts
  <2>2. \A x : x \in ToSet(flat(n)) <=> \E k \in ToSet(kids[n]) : x \in Inside(kids, k)
    BY <1>6, <2>1
  <2>3. Below(kids, n) \subseteq Node /\ \A k \in ToSet(kids[n]) : Inside(kids, k) \subseteq Node
    BY <2>1, BelowFacts DEF Inside
  <2> QED BY <2>2, <2>3, BelowSteps
<1>9. \A i \in 1..Len(kids[n]) : /\ Preorder(kids, kids[n][i]) = g[kids[n][i]]
                                /\ ToSet(g[kids[n][i]]) = Inside(kids, kids[n][i])
  BY <1>4, <1>7, KidFacts
<1>10. Preorder(kids, n) = g[n] /\ g[n] \in Seq(Node) /\ ToSet(g[n]) = Inside(kids, n)
  BY <1>4, <1>7
<1>11. \A x, y : Precedes(flat(n), x, y) <=>
                \/ \E i \in 1..Len(kids[n]) : Precedes(Preorder(kids, kids[n][i]), x, y)
                \/ \E i, j \in 1..Len(kids[n]) : /\ i < j
                                                 /\ x \in Inside(kids, kids[n][i])
                                                 /\ y \in Inside(kids, kids[n][j])
  <2> DEFINE K == 1..Len(kids[n])
             v(i) == g[kids[n][i]]
             w(i) == Preorder(kids, kids[n][i])
             S(i) == Inside(kids, kids[n][i])
  <2>1. \A i \in K : v(i) = w(i) /\ ToSet(v(i)) = S(i)
    BY <1>9
  <2>2. \A x, y : Precedes(flat(n), x, y) <=>
            \/ \E i \in K : Precedes(v(i), x, y)
            \/ \E i, j \in K : i < j /\ x \in ToSet(v(i)) /\ y \in ToSet(v(j))
    BY <1>3
  <2> HIDE DEF K, v, w, S
  <2>3. \A x, y : Precedes(flat(n), x, y) <=>
            \/ \E i \in K : Precedes(w(i), x, y)
            \/ \E i, j \in K : i < j /\ x \in S(i) /\ y \in S(j)
    <3> SUFFICES ASSUME NEW x, NEW y
                 PROVE  Precedes(flat(n), x, y) <=>
                          \/ \E i \in K : Precedes(w(i), x, y)
                          \/ \E i, j \in K : i < j /\ x \in S(i) /\ y \in S(j)
      OBVIOUS
    <3>1. (\E i \in K : Precedes(v(i), x, y)) <=> (\E i \in K : Precedes(w(i), x, y))
      BY <2>1
    <3>2. (\E i, j \in K : i < j /\ x \in ToSet(v(i)) /\ y \in ToSet(v(j)))
            <=> (\E i, j \in K : i < j /\ x \in S(i) /\ y \in S(j))
      BY <2>1
    <3> QED BY <2>2, <3>1, <3>2
  <2> QED BY <2>3 DEF K, w, S
<1> DEFINE o == Preorder(kids, n)
           t == Tail(o)
<1>12. o \in Seq(Node) /\ ToSet(o) = Inside(kids, n) /\ t = flat(n)
  BY <1>5, <1>10
<1>13. t \in Seq(Node) /\ ToSet(t) = Below(kids, n)
  BY <1>3, <1>8, <1>12
<1>14. \A x, y : Precedes(o, x, y) <=> (x = n /\ y \in Below(kids, n)) \/ Precedes(t, x, y)
  <2>1. o = g[n] /\ t = flat(n)
    BY <1>10, <1>12
  <2> HIDE DEF o, t, flat
  <2>2. \A x, y : Precedes(g[n], x, y) <=>
            Precedes(flat(n), x, y) \/ (x = n /\ y \in ToSet(flat(n)))
    BY <1>5
  <2> QED BY <1>8, <2>1, <2>2
<1>15. \A x, y : Precedes(t, x, y) <=>
                \/ \E i \in 1..Len(kids[n]) : Precedes(Preorder(kids, kids[n][i]), x, y)
                \/ \E i, j \in 1..Len(kids[n]) : /\ i < j
                                                 /\ x \in Inside(kids, kids[n][i])
                                                 /\ y \in Inside(kids, kids[n][j])
  <2> HIDE DEF o, t, flat
  <2> QED BY <1>11, <1>12
<1> QED BY <1>12, <1>13, <1>14, <1>15

\* The rows of a branch are together, its first row before all others.
Together(kids, seq, m) ==
    /\ \A x, z \in Inside(kids, m) : \A y :
          Precedes(seq, x, y) /\ Precedes(seq, y, z) => y \in Inside(kids, m)
    /\ \A y \in Below(kids, m) : Precedes(seq, m, y)

\* The children of a node are in the order of its list.
Ordered(kids, seq, m) ==
    \A i, j \in 1..Len(kids[m]) : i < j => Precedes(seq, kids[m][i], kids[m][j])

\* Preorder is such a list for every branch in it.
LEMMA PreorderIsLaid ==
    ASSUME NEW kids \in [Node -> Seq(Node)], Grounded(kids), Forked(kids), NEW n \in Node
    PROVE  /\ IsInjective(Preorder(kids, n))
           /\ \A m \in Inside(kids, n) : /\ Together(kids, Preorder(kids, n), m)
                                         /\ Ordered(kids, Preorder(kids, n), m)
<1> DEFINE o(m) == Preorder(kids, m)
           Good(k) == /\ \A x \in Inside(kids, k) : ~Precedes(o(k), x, x)
                      /\ \A m \in Inside(kids, k) :
                            Together(kids, o(k), m) /\ Ordered(kids, o(k), m)
           S == {k \in Node : ~Good(k)}
<1>1. ASSUME NEW n1 \in Node, \A k \in ToSet(kids[n1]) : Good(k)
      PROVE  Good(n1)
  <2> DEFINE K == 1..Len(kids[n1])
             c(i) == kids[n1][i]
  <2>1. \A i \in K : c(i) \in Node /\ c(i) \in ToSet(kids[n1])
    BY KidFacts
  <2>2. \A i, j \in K : \A x : x \in Inside(kids, c(i)) /\ x \in Inside(kids, c(j)) => i = j
    <3>1. \A i, j \in K : c(i) = c(j) => i = j
      BY KidFacts, ListFacts DEF Forked, IsInjective
    <3> HIDE DEF c, K
    <3>2. \A i, j \in K : \A x : x \in Inside(kids, c(i)) /\ x \in Inside(kids, c(j)) => c(i) = c(j)
      BY <2>1, BranchFacts
    <3> QED BY <3>1, <3>2
  <2>3. /\ n1 \notin Below(kids, n1) /\ Inside(kids, n1) = Below(kids, n1) \cup {n1}
        /\ \A x : x \in Below(kids, n1) <=> \E i \in K : x \in Inside(kids, c(i))
    <3>1. n1 \notin Below(kids, n1)
      BY NotBelowItself
    <3>2. Below(kids, n1) \subseteq Node /\ \A i \in K : Inside(kids, c(i)) \subseteq Node
      BY <2>1, BelowFacts DEF Inside
    <3>3. \A k \in ToSet(kids[n1]) : \E i \in K : k = c(i)
      BY KidFacts
    <3> HIDE DEF c, K
    <3> QED BY <2>1, <3>1, <3>2, <3>3, BelowSteps DEF Inside
  <2>4. \A x, y : Precedes(o(n1), x, y) <=>
            \/ x = n1 /\ y \in Below(kids, n1)
            \/ \E i \in K : Precedes(o(c(i)), x, y)
            \/ \E i, j \in K : i < j /\ x \in Inside(kids, c(i)) /\ y \in Inside(kids, c(j))
    BY PreorderFacts
  <2>5. \A i \in K : \A x, y : Precedes(o(c(i)), x, y) =>
            x \in Inside(kids, c(i)) /\ y \in Inside(kids, c(i))
    <3> SUFFICES ASSUME NEW i \in K
                 PROVE  \A x, y : Precedes(o(c(i)), x, y) =>
                            x \in Inside(kids, c(i)) /\ y \in Inside(kids, c(i))
      OBVIOUS
    <3>1. c(i) \in Node
      BY <2>1
    <3> HIDE DEF c, K
    <3>2. o(c(i)) \in Seq(Node) /\ ToSet(o(c(i))) = Inside(kids, c(i))
      BY <3>1, PreorderFacts
    <3> QED BY <3>2, OrderFacts
  <2>6. \A i \in K : Good(c(i))
    BY <1>1, <2>1
  <2>7. \A i \in K : i \in Nat
    BY KidFacts
  <2>8. \A i \in K : Inside(kids, c(i)) \subseteq Below(kids, n1)
    BY <2>3
  <2> HIDE DEF c, K, o
  <2>9. \A x \in Inside(kids, n1) : ~Precedes(o(n1), x, x)
    <3> SUFFICES ASSUME NEW x \in Inside(kids, n1), Precedes(o(n1), x, x) PROVE FALSE
      OBVIOUS
    <3>1. ~(x = n1 /\ x \in Below(kids, n1))
      BY <2>3
    <3>2. ~\E i \in K : Precedes(o(c(i)), x, x)
      BY <2>5, <2>6
    <3>3. ~\E i, j \in K : i < j /\ x \in Inside(kids, c(i)) /\ x \in Inside(kids, c(j))
      BY <2>2, <2>7
    <3> QED BY <2>4, <3>1, <3>2, <3>3
  <2>10. Together(kids, o(n1), n1) /\ Ordered(kids, o(n1), n1)
    <3>1. \A x, y : Precedes(o(n1), x, y) => y \in Inside(kids, n1)
      BY <2>3, <2>4, <2>5
    <3>2. \A y \in Below(kids, n1) : Precedes(o(n1), n1, y)
      BY <2>4
    <3>3. \A i, j \in K : i < j => Precedes(o(n1), c(i), c(j))
      BY <2>4 DEF Inside
    <3> QED BY <3>1, <3>2, <3>3 DEF Together, Ordered, c, K
  <2>11. ASSUME NEW m \in Below(kids, n1)
         PROVE  Together(kids, o(n1), m) /\ Ordered(kids, o(n1), m)
    <3>1. PICK i \in K : m \in Inside(kids, c(i))
      BY <2>3
    <3>2. Together(kids, o(c(i)), m) /\ Ordered(kids, o(c(i)), m)
      BY <2>6, <3>1
    <3>3. Inside(kids, m) \subseteq Inside(kids, c(i))
      BY <2>1, <3>1, BelowSteps DEF Inside
    <3>4. \A x, y : Precedes(o(c(i)), x, y) => Precedes(o(n1), x, y)
      BY <2>4
    <3>5. ASSUME NEW x \in Inside(kids, m), NEW z \in Inside(kids, m), NEW y,
                 Precedes(o(n1), x, y), Precedes(o(n1), y, z)
          PROVE  y \in Inside(kids, m)
      <4>1. x \in Inside(kids, c(i)) /\ z \in Inside(kids, c(i))
        BY <3>3
      <4>2. x \in Below(kids, n1) /\ x # n1
        BY <2>3, <4>1
      <4>3. Precedes(o(c(i)), x, y) \/ \E j \in K : i < j /\ y \in Inside(kids, c(j))
        BY <2>2, <2>4, <2>5, <3>5, <4>1, <4>2
      <4>4. y \in Below(kids, n1) /\ y # n1
        BY <2>3, <2>5, <4>3
      <4>5. Precedes(o(c(i)), y, z) \/ \E j \in K : j < i /\ y \in Inside(kids, c(j))
        BY <2>2, <2>4, <2>5, <3>5, <4>1, <4>4
      <4>6. Precedes(o(c(i)), x, y) /\ Precedes(o(c(i)), y, z)
        <5>1. ASSUME NEW j \in K, i < j, y \in Inside(kids, c(j)) PROVE FALSE
          <6>1. i # j
            BY <2>7, <5>1
          <6>2. y \notin Inside(kids, c(i))
            BY <2>2, <5>1, <6>1
          <6>3. PICK k \in K : k < i /\ y \in Inside(kids, c(k))
            BY <2>5, <4>5, <6>2
          <6>4. k = j
            BY <2>2, <5>1, <6>3
          <6> QED BY <2>7, <5>1, <6>3, <6>4
        <5>2. Precedes(o(c(i)), x, y)
          BY <4>3, <5>1
        <5>3. y \in Inside(kids, c(i))
          BY <2>5, <5>2
        <5>4. \A j \in K : j < i => y \notin Inside(kids, c(j))
          BY <2>2, <2>7, <5>3
        <5> QED BY <4>5, <5>2, <5>4
      <4> QED BY <3>2, <4>6 DEF Together
    <3>6. \A y \in Below(kids, m) : Precedes(o(n1), m, y)
      BY <3>2, <3>4 DEF Together
    <3>7. Ordered(kids, o(n1), m)
      BY <3>2, <3>4 DEF Ordered
    <3> QED BY <3>5, <3>6, <3>7 DEF Together
  <2> QED BY <2>3, <2>9, <2>10, <2>11
<1> HIDE DEF Good
<1>2. S = {}
  <2> SUFFICES ASSUME S # {} PROVE FALSE
    OBVIOUS
  <2>1. PICK m \in S : ToSet(kids[m]) \cap S = {}
    BY DEF Grounded
  <2>2. \A k \in ToSet(kids[m]) : Good(k)
    BY <2>1, KidFacts
  <2> QED BY <1>1, <2>1, <2>2
<1>3. Good(n)
  BY <1>2
<1>4. o(n) \in Seq(Node) /\ ToSet(o(n)) = Inside(kids, n)
  BY PreorderFacts
<1>5. IsInjective(o(n))
  BY <1>3, <1>4, OrderFacts DEF Good
<1> QED BY <1>3, <1>5 DEF Good

\* What Postorder lists: what is below a node, once.
LEMMA PostorderFacts ==
    ASSUME NEW kids \in [Node -> Seq(Node)], Grounded(kids), NEW n \in Node
    PROVE  /\ Postorder(kids, n) \in Seq(Node)
           /\ ToSet(Postorder(kids, n)) = Below(kids, n)
           /\ Forked(kids) => IsInjective(Postorder(kids, n))
<1>1. PICK g \in [Node -> Seq(Node)] : \A m \in Node :
              /\ Postorder(kids, m) = g[m]
              /\ g[m] = FlattenSeq([i \in 1..Len(kids[m]) |->
                                        Append(g[kids[m][i]], kids[m][i])])
  BY PostorderEquation
<1> DEFINE Good(m) == /\ ToSet(g[m]) = Below(kids, m)
                      /\ Forked(kids) => \A x : ~Precedes(g[m], x, x)
<1>2. ASSUME NEW m \in Node, \A k \in ToSet(kids[m]) : Good(k)
      PROVE  Good(m)
  <2> DEFINE K == 1..Len(kids[m])
             c(i) == kids[m][i]
             s(i) == Append(g[c(i)], c(i))
             D == Seq(Node)
             ss == [i \in 1..Len(kids[m]) |-> s(i)]
  <2>0. Len(kids[m]) \in Nat
    BY KidFacts
  <2>1. \A i \in K : c(i) \in Node /\ c(i) \in ToSet(kids[m])
    BY KidFacts
  <2>2. \A i \in K : g[c(i)] \in Seq(Node)
    BY <2>1
  <2>3. ASSUME NEW i \in K
        PROVE  /\ s(i) \in D /\ ToSet(s(i)) = ToSet(g[c(i)]) \cup {c(i)}
               /\ \A x, y : Precedes(s(i), x, y) <=>
                        Precedes(g[c(i)], x, y) \/ (x \in ToSet(g[c(i)]) /\ y = c(i))
    <3>1. g[c(i)] \in Seq(Node) /\ c(i) \in Node
      BY <2>1, <2>2
    <3> HIDE DEF c
    <3> QED BY <3>1, AppendFacts, AppendOrder
  <2>4. ss \in Seq(D) /\ Len(ss) = Len(kids[m]) /\ \A i \in K : ss[i] = s(i)
    <3>1. \A i \in 1..Len(kids[m]) : s(i) \in D
      BY <2>3
    <3> HIDE DEF s, D
    <3> QED BY <2>0, <3>1
  <2>5. g[m] = FlattenSeq(ss)
    BY <1>1
  <2> HIDE DEF ss
  <2>6. /\ \A x : x \in ToSet(g[m]) <=> \E i \in 1..Len(ss) : x \in ToSet(ss[i])
        /\ \A x, y : Precedes(g[m], x, y) <=>
                \/ \E i \in 1..Len(ss) : Precedes(ss[i], x, y)
                \/ \E i, j \in 1..Len(ss) : i < j /\ x \in ToSet(ss[i]) /\ y \in ToSet(ss[j])
    BY <2>4, <2>5, FlattenFacts
  <2>7. /\ \A x : x \in ToSet(g[m]) <=> \E i \in K : x \in ToSet(ss[i])
        /\ \A x : Precedes(g[m], x, x) =>
                \/ \E i \in K : Precedes(ss[i], x, x)
                \/ \E i, j \in K : i < j /\ x \in ToSet(ss[i]) /\ x \in ToSet(ss[j])
    BY <2>4, <2>6
  <2>8. \A i \in K : ToSet(s(i)) = Inside(kids, c(i))
    <3> SUFFICES ASSUME NEW i \in K PROVE ToSet(s(i)) = Inside(kids, c(i))
      OBVIOUS
    <3>1. ToSet(g[c(i)]) = Below(kids, c(i))
      BY <1>2, <2>1
    <3> QED BY <2>3, <3>1 DEF Inside
  <2>9. \A x : x \in ToSet(g[m]) <=> \E i \in K : x \in Inside(kids, c(i))
    <3>1. \A i \in K : ToSet(ss[i]) = Inside(kids, c(i))
      <4> HIDE DEF K, c, s
      <4> QED BY <2>4, <2>8
    <3> HIDE DEF K, c
    <3> QED BY <2>7, <3>1
  <2>10. \A x : x \in Below(kids, m) <=> \E i \in K : x \in Inside(kids, c(i))
    <3>1. Below(kids, m) \subseteq Node /\ \A i \in K : Inside(kids, c(i)) \subseteq Node
      BY <2>1, BelowFacts DEF Inside
    <3>2. \A k \in ToSet(kids[m]) : \E i \in K : k = c(i)
      BY KidFacts
    <3> HIDE DEF c, K
    <3>3. \A x \in Node : x \in Below(kids, m) <=>
              \E k \in ToSet(kids[m]) : x \in Inside(kids, k)
      BY BelowSteps
    <3>4. \A x \in Node : x \in Below(kids, m) <=> \E i \in K : x \in Inside(kids, c(i))
      BY <2>1, <3>2, <3>3
    <3> QED BY <3>1, <3>4
  <2>11. ASSUME Forked(kids), NEW x, Precedes(g[m], x, x)
         PROVE  FALSE
    <3>1. \A i, j \in K : \A y : y \in Inside(kids, c(i)) /\ y \in Inside(kids, c(j)) => i = j
      <4>1. \A i, j \in K : c(i) = c(j) => i = j
        BY <2>11, KidFacts, ListFacts DEF Forked, IsInjective
      <4> HIDE DEF c, K
      <4>2. \A i, j \in K : \A y : y \in Inside(kids, c(i)) /\ y \in Inside(kids, c(j))
                                        => c(i) = c(j)
        BY <2>1, <2>11, BranchFacts
      <4> QED BY <4>1, <4>2
    <3>2. \A i \in K : ~Precedes(s(i), x, x)
      <4> SUFFICES ASSUME NEW i \in K PROVE ~Precedes(s(i), x, x)
        OBVIOUS
      <4> SUFFICES ASSUME Precedes(s(i), x, x) PROVE FALSE
        OBVIOUS
      <4>1. ~Precedes(g[c(i)], x, x) /\ ToSet(g[c(i)]) = Below(kids, c(i))
        BY <1>2, <2>1, <2>11
      <4>2. x \in Below(kids, c(i)) /\ x = c(i)
        <5>1. Precedes(g[c(i)], x, x) \/ (x \in ToSet(g[c(i)]) /\ x = c(i))
          BY <2>3
        <5> QED BY <4>1, <5>1
      <4> QED BY <2>1, <4>2, NotBelowItself
    <3>3. \A i, j \in K : i < j => i # j
      BY <2>0
    <3> HIDE DEF K, c, s
    <3>4. \A i \in K : ~Precedes(ss[i], x, x) /\ ToSet(ss[i]) = Inside(kids, c(i))
      BY <2>4, <2>8, <3>2
    <3>5. PICK i \in K, j \in K : i < j /\ x \in ToSet(ss[i]) /\ x \in ToSet(ss[j])
      BY <2>7, <2>11, <3>4
    <3>6. i = j
      BY <3>1, <3>4, <3>5
    <3> QED BY <3>3, <3>5, <3>6
  <2> HIDE DEF K, c
  <2>12. ToSet(g[m]) = Below(kids, m)
    BY <2>9, <2>10
  <2> QED BY <2>11, <2>12
<1> HIDE DEF Good
<1> DEFINE S == {m \in Node : ~Good(m)}
<1>3. S = {}
  <2> SUFFICES ASSUME S # {} PROVE FALSE
    OBVIOUS
  <2>1. PICK m \in S : ToSet(kids[m]) \cap S = {}
    BY DEF Grounded
  <2>2. \A k \in ToSet(kids[m]) : Good(k)
    BY <2>1, KidFacts
  <2> QED BY <1>2, <2>1, <2>2
<1>4. Good(n) /\ Postorder(kids, n) = g[n] /\ g[n] \in Seq(Node)
  BY <1>1, <1>3
<1>5. Forked(kids) => IsInjective(g[n])
  BY <1>4, OrderFacts DEF Good
<1> QED BY <1>4, <1>5 DEF Good

-----------------------------------------------------------------------------
(* The order of a table in which rows are put.                             *)

\* A branch stays together when rows come after one of its own and belong to it,
\* when they come after a stranger, or after its last row.
LEMMA InsertTogether ==
    ASSUME NEW seq \in Seq(Node), IsInjective(seq), NEW block \in Seq(Node),
           NEW target, NEW rest, rest = ToSet(seq) \ ToSet(block), target \in rest,
           NEW E, E \subseteq rest, NEW F,
           \/ target \in E /\ F = E \cup ToSet(block)
           \/ F = E /\ target \notin E
           \/ F = E /\ \A z \in E : z = target \/ Precedes(seq, z, target),
           \A x, z \in E : \A y : Precedes(seq, x, y) /\ Precedes(seq, y, z) /\ y \in rest => y \in E
    PROVE  \A x, z \in F : \A y :
              /\ Precedes(InsertAfter(seq, block, target), x, y)
              /\ Precedes(InsertAfter(seq, block, target), y, z)
              => y \in F
<1> DEFINE all == InsertAfter(seq, block, target)
           B == ToSet(block)
<1>1. \A x, y : Precedes(all, x, y) <=>
        \/ x \in rest /\ y \in rest /\ Precedes(seq, x, y)
        \/ Precedes(block, x, y)
        \/ x \in B /\ y \in rest /\ Precedes(seq, target, y)
        \/ y \in B /\ x \in rest /\ (x = target \/ Precedes(seq, x, target))
  BY InsertFacts
<1>2. /\ \A x \in rest : ~Precedes(seq, x, x)
      /\ \A x, y, z : Precedes(seq, x, y) /\ Precedes(seq, y, z) => Precedes(seq, x, z)
  BY OrderFacts
<1>3. \A x, y : Precedes(block, x, y) => x \in B /\ y \in B
  BY OrderFacts
<1>4. rest \cap B = {}
  OBVIOUS
<1> HIDE DEF all, B
<1> SUFFICES ASSUME NEW x \in F, NEW z \in F, NEW y, Precedes(all, x, y), Precedes(all, y, z)
             PROVE  y \in F
  BY DEF all
<1> DEFINE lo(u) == u \in rest /\ (u = target \/ Precedes(seq, u, target))
           hi(u) == u \in rest /\ Precedes(seq, target, u)
<1>5. \A u : ~(lo(u) /\ hi(u))
  BY <1>2
<1>6. CASE target \in E /\ F = E \cup B
  <2>1. CASE y \in B
    BY <1>6, <2>1
  <2>2. CASE y \notin B
    <3>1. y \in rest
      BY <1>1, <1>3, <2>2
    <3>2. (x \in E /\ Precedes(seq, x, y)) \/ (x \in B /\ hi(y))
      BY <1>1, <1>3, <1>4, <1>6, <2>2
    <3>3. (z \in E /\ Precedes(seq, y, z)) \/ (z \in B /\ lo(y))
      BY <1>1, <1>3, <1>4, <1>6, <2>2
    <3>4. \E u \in E : Precedes(seq, u, y)
      BY <1>6, <3>2
    <3>5. (\E u \in E : Precedes(seq, y, u)) \/ y = target
      BY <1>6, <3>3
    <3> QED BY <1>6, <3>1, <3>4, <3>5
  <2> QED BY <2>1, <2>2
<1>7. CASE F = E /\ (target \notin E \/ \A u \in E : u = target \/ Precedes(seq, u, target))
  <2>1. x \in rest /\ z \in rest /\ x \notin B /\ z \notin B
    BY <1>4, <1>7
  <2>2. CASE y \in B
    <3>1. lo(x) /\ hi(z)
      BY <1>1, <1>3, <1>4, <2>1, <2>2
    <3>2. target \in E
      BY <1>7, <3>1
    <3>3. lo(z)
      BY <1>7, <2>1, <3>2
    <3> QED BY <1>5, <3>1, <3>3
  <2>3. CASE y \notin B
    <3>1. y \in rest /\ Precedes(seq, x, y) /\ Precedes(seq, y, z)
      BY <1>1, <1>3, <1>4, <2>1, <2>3
    <3> QED BY <1>7, <3>1
  <2> QED BY <2>2, <2>3
<1>8. \/ target \in E /\ F = E \cup B
      \/ F = E /\ (target \notin E \/ \A u \in E : u = target \/ Precedes(seq, u, target))
  BY DEF B
<1> QED BY <1>6, <1>7, <1>8

\* The children and the branches once n is below target and nowhere else, once N
\* is below p, and once the nodes in gone have no children.
MovedBranch(kids, n, target, m) ==
    IF m \in Inside(kids, n) THEN Inside(kids, m)
    ELSE (Inside(kids, m) \ Inside(kids, n))
            \cup (IF target \in Inside(kids, m) THEN Inside(kids, n) ELSE {})
MovedTo(kids, kids2, n, target) ==
    \A m \in Node : ToSet(kids2[m]) = (ToSet(kids[m]) \ {n})
                                            \cup (IF m = target THEN {n} ELSE {})
LoadedBranch(kids, N, p, m) ==
    Inside(kids, m) \cup (IF p \in Inside(kids, m) THEN N ELSE {})
LoadedTo(kids, kids2, N, p) ==
    /\ \A m \in Node : ToSet(kids2[m]) = ToSet(kids[m]) \cup (IF m = p THEN N ELSE {})
    /\ \A x \in N : ToSet(kids2[x]) = {}
Emptied(kids, kids2, gone) ==
    \A m \in Node : kids2[m] = IF m \in gone THEN <<>> ELSE kids[m]

\* A node in another place: its branch is what it was, and so is every other but
\* for that branch.
LEMMA MoveBranches ==
    ASSUME NEW kids, kids \in [Node -> Seq(Node)], Grounded(kids), Forked(kids),
           NEW kids2, kids2 \in [Node -> Seq(Node)], NEW n \in Node, NEW target \in Node,
           target \notin Inside(kids, n), MovedTo(kids, kids2, n, target)
    PROVE  \A m \in Node : Inside(kids2, m) = MovedBranch(kids, n, target, m)
<1>1. /\ \A m \in Node : /\ Inside(kids, m) \subseteq Node /\ m \in Inside(kids, m)
                         /\ \A u \in Inside(kids, m) : ToSet(kids[u]) \subseteq Below(kids, m)
                         /\ Below(kids, m) \subseteq Inside(kids, m)
      /\ \A m \in Node : /\ Inside(kids2, m) \subseteq Node /\ m \in Inside(kids2, m)
                         /\ \A u \in Inside(kids2, m) : ToSet(kids2[u]) \subseteq Below(kids2, m)
                         /\ Below(kids2, m) \subseteq Inside(kids2, m)
  BY BelowFacts DEF Inside
<1> \A m \in Node : ToSet(kids2[m]) = (ToSet(kids[m]) \ {n})
                                            \cup (IF m = target THEN {n} ELSE {})
  BY DEF MovedTo
<1>2. ASSUME NEW m \in Inside(kids, n)
      PROVE  Inside(kids2, m) = Inside(kids, m)
  <2>1. m \in Node /\ Inside(kids, m) \subseteq Inside(kids, n)
    BY <1>1, BelowSteps DEF Inside
  <2>2. n \notin Below(kids, n)
    BY NotBelowItself
  <2>3. \A u \in Inside(kids, n) : ToSet(kids2[u]) = ToSet(kids[u])
    <3> SUFFICES ASSUME NEW u \in Inside(kids, n) PROVE ToSet(kids2[u]) = ToSet(kids[u])
      OBVIOUS
    <3>1. u \in Node /\ u # target /\ ToSet(kids[u]) \subseteq Below(kids, n)
      BY <1>1
    <3>2. n \notin ToSet(kids[u])
      BY <2>2, <3>1
    <3>3. ToSet(kids2[u]) = ToSet(kids[u]) \ {n}
      BY <3>1
    <3> QED BY <3>2, <3>3
  <2>4. Below(kids2, m) \subseteq Below(kids, m)
    <3>1. Below(kids, m) \in SUBSET Node /\ ToSet(kids2[m]) \subseteq Below(kids, m)
      BY <1>1, <2>1, <2>3
    <3>2. \A u \in Below(kids, m) : ToSet(kids2[u]) \subseteq Below(kids, m)
      BY <1>1, <2>1, <2>3
    <3> QED BY <2>1, <3>1, <3>2, BelowIsLeast
  <2>5. Below(kids, m) \subseteq Below(kids2, m)
    <3> DEFINE U == Below(kids, m) \cap Below(kids2, m)
    <3>1. U \in SUBSET Node /\ ToSet(kids[m]) \subseteq U
      BY <1>1, <2>1, <2>3
    <3>2. \A u \in U : ToSet(kids[u]) \subseteq U
      BY <1>1, <2>1, <2>3
    <3>3. Below(kids, m) \subseteq U
      <4> HIDE DEF U
      <4> QED BY <2>1, <3>1, <3>2, BelowIsLeast
    <3> QED BY <3>3
  <2> QED BY <2>4, <2>5 DEF Inside
<1>3. ASSUME NEW m \in Node \ Inside(kids, n)
      PROVE  Inside(kids2, m) = (Inside(kids, m) \ Inside(kids, n))
                    \cup (IF target \in Inside(kids, m) THEN Inside(kids, n) ELSE {})
  <2> DEFINE Q == (Inside(kids, m) \ Inside(kids, n))
                    \cup (IF target \in Inside(kids, m) THEN Inside(kids, n) ELSE {})
  <2>1. ASSUME NEW u \in Q PROVE ToSet(kids2[u]) \subseteq Q
    <3>1. u \in Node
      BY <1>1
    <3>2. CASE u \in Inside(kids, m) \ Inside(kids, n)
      <4> SUFFICES ASSUME NEW y \in ToSet(kids2[u]) PROVE y \in Q
        OBVIOUS
      <4>1. CASE y = n
        <5>1. u = target
          BY <3>1, <4>1
        <5> QED BY <1>1, <3>2, <4>1, <5>1
      <4>2. CASE y # n
        <5>1. y \in ToSet(kids[u])
          BY <3>1, <4>2
        <5>2. y \notin Below(kids, n)
          BY <3>1, <3>2, <5>1, BranchFacts
        <5> QED BY <1>1, <3>2, <4>2, <5>1, <5>2 DEF Inside
      <4> QED BY <4>1, <4>2
    <3>3. CASE u \in Inside(kids, n) /\ target \in Inside(kids, m)
      <4>1. ToSet(kids2[u]) \subseteq ToSet(kids[u])
        BY <3>1, <3>3
      <4> QED BY <1>1, <3>3, <4>1
    <3> QED BY <3>2, <3>3
  <2>2. m \in Q /\ Q \in SUBSET Node
    BY <1>1
  <2>3. Inside(kids2, m) \subseteq Q
    <3> HIDE DEF Q
    <3>1. Below(kids2, m) \subseteq Q
      BY <2>1, <2>2, BelowIsLeast
    <3> QED BY <2>2, <3>1 DEF Inside
  <2>4. Inside(kids, m) \subseteq Inside(kids2, m) \cup Inside(kids, n)
    <3> DEFINE U == Inside(kids2, m) \cup Inside(kids, n)
    <3>1. U \in SUBSET Node /\ m \in U
      BY <1>1
    <3>2. \A u \in U : ToSet(kids[u]) \subseteq U
      <4> SUFFICES ASSUME NEW u \in U, NEW y \in ToSet(kids[u]) PROVE y \in U
        OBVIOUS
      <4>1. CASE u \in Inside(kids, n)
        BY <1>1, <4>1
      <4>2. CASE u \in Inside(kids2, m) /\ y # n
        <5>1. y \in ToSet(kids2[u])
          BY <1>1, <4>2
        <5> QED BY <1>1, <4>2, <5>1
      <4> QED BY <1>1, <4>1, <4>2
    <3> HIDE DEF U
    <3>3. Below(kids, m) \subseteq U
      BY <3>1, <3>2, BelowIsLeast
    <3> QED BY <3>1, <3>3 DEF U, Inside
  <2>5. target \in Inside(kids, m) => Inside(kids, n) \subseteq Inside(kids2, m)
    <3> SUFFICES ASSUME target \in Inside(kids, m)
                 PROVE  Inside(kids, n) \subseteq Inside(kids2, m)
      OBVIOUS
    <3>1. target \in Inside(kids2, m) /\ n \in ToSet(kids2[target])
      BY <2>4
    <3>2. n \in Below(kids2, m)
      BY <1>1, <3>1
    <3>3. Inside(kids2, n) \subseteq Inside(kids2, m)
      <4>1. Below(kids2, n) \subseteq Below(kids2, m)
        BY <3>2, BelowSteps
      <4> QED BY <3>2, <4>1 DEF Inside
    <3>4. Inside(kids2, n) = Inside(kids, n)
      BY <1>1, <1>2
    <3> QED BY <3>3, <3>4
  <2> QED BY <2>3, <2>4, <2>5
<1> QED BY <1>1, <1>2, <1>3 DEF MovedBranch

\* New nodes below p are in the branches that p is in.
LEMMA LoadBranches ==
    ASSUME NEW kids, kids \in [Node -> Seq(Node)], NEW kids2, kids2 \in [Node -> Seq(Node)],
           NEW N, N \in SUBSET Node, NEW p, LoadedTo(kids, kids2, N, p)
    PROVE  \A m \in Node : Inside(kids2, m) = LoadedBranch(kids, N, p, m)
<1>1. /\ \A m \in Node : /\ Inside(kids, m) \subseteq Node /\ m \in Inside(kids, m)
                         /\ \A u \in Inside(kids, m) : ToSet(kids[u]) \subseteq Below(kids, m)
                         /\ Below(kids, m) \subseteq Inside(kids, m)
      /\ \A m \in Node : /\ Inside(kids2, m) \subseteq Node /\ m \in Inside(kids2, m)
                         /\ \A u \in Inside(kids2, m) : ToSet(kids2[u]) \subseteq Below(kids2, m)
                         /\ Below(kids2, m) \subseteq Inside(kids2, m)
  BY BelowFacts DEF Inside
<1> /\ \A m \in Node : ToSet(kids2[m]) = ToSet(kids[m]) \cup (IF m = p THEN N ELSE {})
    /\ \A x \in N : ToSet(kids2[x]) = {}
  BY DEF LoadedTo
<1>2. ASSUME NEW m \in Node
      PROVE  Inside(kids2, m) =
                    Inside(kids, m) \cup (IF p \in Inside(kids, m) THEN N ELSE {})
  <2> DEFINE Q == Inside(kids, m) \cup (IF p \in Inside(kids, m) THEN N ELSE {})
  <2>1. \A u \in Q : ToSet(kids2[u]) \subseteq Q
    <3> SUFFICES ASSUME NEW u \in Q PROVE ToSet(kids2[u]) \subseteq Q
      OBVIOUS
    <3>1. CASE u \in N
      BY <3>1
    <3>2. CASE u \in Inside(kids, m)
      BY <1>1, <3>2
    <3> QED BY <3>1, <3>2
  <2>2. m \in Q /\ Q \in SUBSET Node
    BY <1>1
  <2>3. Inside(kids2, m) \subseteq Q
    <3> HIDE DEF Q
    <3>1. Below(kids2, m) \subseteq Q
      BY <2>1, <2>2, BelowIsLeast
    <3> QED BY <2>2, <3>1 DEF Inside
  <2>4. Inside(kids, m) \subseteq Inside(kids2, m)
    <3>1. /\ Below(kids2, m) \in SUBSET Node /\ ToSet(kids[m]) \subseteq Below(kids2, m)
          /\ \A u \in Below(kids2, m) : ToSet(kids[u]) \subseteq Below(kids2, m)
      BY <1>1
    <3>2. Below(kids, m) \subseteq Below(kids2, m)
      BY <3>1, BelowIsLeast
    <3> QED BY <3>2 DEF Inside
  <2>5. p \in Inside(kids, m) => N \subseteq Inside(kids2, m)
    BY <1>1, <2>4
  <2> QED BY <2>3, <2>4, <2>5
<1> QED BY <1>2 DEF LoadedBranch

\* Without what is below n the branches that stay are what is left of them.
LEMMA UnloadBranches ==
    ASSUME NEW kids, kids \in [Node -> Seq(Node)], Grounded(kids), Forked(kids),
           NEW kids2, kids2 \in [Node -> Seq(Node)], NEW n \in Node,
           Emptied(kids, kids2, Inside(kids, n))
    PROVE  \A m \in Node \ Below(kids, n) :
                Inside(kids2, m) = Inside(kids, m) \ Below(kids, n)
<1> DEFINE gone == Below(kids, n)
<1>1. /\ \A m \in Node : /\ Inside(kids, m) \subseteq Node /\ m \in Inside(kids, m)
                         /\ \A u \in Inside(kids, m) : ToSet(kids[u]) \subseteq Below(kids, m)
                         /\ Below(kids, m) \subseteq Inside(kids, m)
      /\ \A m \in Node : /\ Inside(kids2, m) \subseteq Node /\ m \in Inside(kids2, m)
                         /\ \A u \in Inside(kids2, m) : ToSet(kids2[u]) \subseteq Below(kids2, m)
                         /\ Below(kids2, m) \subseteq Inside(kids2, m)
  BY BelowFacts DEF Inside
<1> \A m \in Node : kids2[m] = IF m \in Inside(kids, n) THEN <<>> ELSE kids[m]
  BY DEF Emptied
<1>2. \A m \in Node : ToSet(kids2[m]) = IF m \in Inside(kids, n) THEN {} ELSE ToSet(kids[m])
  BY DEF ToSet
<1> SUFFICES ASSUME NEW m \in Node \ gone
             PROVE  Inside(kids2, m) = Inside(kids, m) \ gone
  OBVIOUS
<1>3. Inside(kids2, m) \subseteq Inside(kids, m) \ gone
  <2> DEFINE Q == Inside(kids, m) \ gone
  <2>1. \A u \in Q : ToSet(kids2[u]) \subseteq Q
    <3> SUFFICES ASSUME NEW u \in Q, NEW y \in ToSet(kids2[u]) PROVE y \in Q
      OBVIOUS
    <3>1. u \in Node /\ u \notin Inside(kids, n) /\ y \in ToSet(kids[u])
      BY <1>1, <1>2
    <3>2. y \notin gone
      BY <3>1, BranchFacts
    <3> QED BY <1>1, <3>1, <3>2
  <2>2. m \in Q /\ Q \in SUBSET Node
    BY <1>1
  <2> HIDE DEF Q
  <2>3. Below(kids2, m) \subseteq Q
    BY <2>1, <2>2, BelowIsLeast
  <2> QED BY <2>2, <2>3 DEF Inside, Q
<1>4. Inside(kids, m) \subseteq Inside(kids2, m) \cup gone
  <2> DEFINE U == Inside(kids2, m) \cup gone
  <2>1. \A u \in U : ToSet(kids[u]) \subseteq U
    <3> SUFFICES ASSUME NEW u \in U PROVE ToSet(kids[u]) \subseteq U
      OBVIOUS
    <3>1. CASE u \in Inside(kids, n)
      BY <1>1, <3>1
    <3>2. CASE u \in Inside(kids2, m) /\ u \notin Inside(kids, n)
      BY <1>1, <1>2, <3>2
    <3> QED BY <1>1, <3>1, <3>2
  <2>2. m \in U /\ U \in SUBSET Node
    BY <1>1
  <2> HIDE DEF U
  <2>3. Below(kids, m) \subseteq U
    BY <2>1, <2>2, BelowIsLeast
  <2> QED BY <2>2, <2>3 DEF Inside, U
<1> QED BY <1>3, <1>4

-----------------------------------------------------------------------------
(* The forest and its lists of children.                                   *)

\* Children that name their parents, in a finite forest, are nowhere without an
\* end: a set with a child of each of its nodes would be the image of fewer.
LEMMA ForestIsGrounded ==
    ASSUME NEW members, NEW up, IsForest(members, up), IsFiniteSet(members),
           NEW kids \in [Node -> Seq(Node)],
           \A m \in Node \ members : ToSet(kids[m]) = {},
           \A m, k \in members : k \in ToSet(kids[m]) => up[k] = m
    PROVE  Grounded(kids)
<1> SUFFICES ASSUME NEW S \in SUBSET Node, S # {},
                    \A m \in S : ToSet(kids[m]) \cap S # {}
             PROVE  FALSE
  BY DEF Grounded
<1>1. S \subseteq members
  BY DEF IsForest
<1>2. IsFiniteSet(S)
  BY <1>1, FS_Subset
<1> DEFINE T == {k \in S : up[k] \in S}
           f == [k \in T |-> up[k]]
<1>3. T \in SUBSET S /\ IsFiniteSet(T) /\ Cardinality(T) \in Nat /\ Cardinality(S) \in Nat
  BY <1>2, FS_Subset, FS_CardinalityType
<1>4. f \in Surjection(T, S)
  <2>1. ASSUME NEW m \in S PROVE \E k \in T : f[k] = m
    <3>1. PICK k \in S : k \in ToSet(kids[m])
      OBVIOUS
    <3>2. up[k] = m
      BY <1>1, <3>1
    <3> QED BY <3>1, <3>2
  <2>2. f \in [T -> S]
    OBVIOUS
  <2> HIDE DEF f, T
  <2> QED BY <2>1, <2>2 DEF Surjection
<1>5. Cardinality(S) <= Cardinality(T)
  BY <1>3, <1>4, FS_Surjection
<1>6. Cardinality(T) <= Cardinality(S) /\ (Cardinality(S) = Cardinality(T) => S = T)
  BY <1>2, <1>3, FS_Subset
<1>7. S = T
  BY <1>3, <1>5, <1>6
<1>8. \A k \in S : up[k] \in S
  BY <1>7
<1>9. Acyclic(up, Node)
  BY DEF IsForest
<1> QED BY <1>8, <1>9, ClosedIsEmpty

\* Where children are in the tree they have one parent.
LEMMA ForestIsForked ==
    ASSUME TableInv,
           \A n \in Node : ToSet(children[n]) \subseteq tree /\ IsInjective(children[n])
    PROVE  Forked(children)
<1>1. ASSUME NEW m \in Node, NEW p \in Node, ToSet(children[m]) \cap ToSet(children[p]) # {}
      PROVE  m = p
  <2>1. PICK x : x \in ToSet(children[m]) /\ x \in ToSet(children[p])
    BY <1>1
  <2>2. x \in tree /\ m \in tree /\ p \in tree
    BY <2>1, TableFacts
  <2> QED BY <2>1, <2>2, TableFacts
<1> QED BY <1>1 DEF Forked

\* Everything below a node is in the tree.
LEMMA BranchInTree ==
    ASSUME TableInv, \A n \in Node : ToSet(children[n]) \subseteq tree
    PROVE  /\ \A n \in Node : Below(children, n) \subseteq tree
           /\ \A n \in tree : Inside(children, n) \subseteq tree
<1>1. children \in [Node -> Seq(Node)] /\ tree \in SUBSET Node
  BY TableFacts
<1>2. \A n \in Node : Below(children, n) \subseteq tree
  BY <1>1, BelowIsLeast
<1> QED BY <1>1, <1>2 DEF Inside

-----------------------------------------------------------------------------
(* Leaving the list of nodes.                                              *)

\* The list after each of the nodes that leave.
LEMMA SpliceRuns ==
    ASSUME NEW list \in Seq(Node), NEW order \in Seq(Node)
    PROVE  \E g \in [0..Len(order) -> Seq(Node)] :
              /\ g[0] = list
              /\ \A i \in 1..Len(order) : g[i] = Splice(g[i - 1], order[i])
              /\ Through(Splice, list, order) = g[Len(order)]
<1> DEFINE n == Len(order)
           turn(f) == [i \in 0..n |-> IF i = 0 THEN list ELSE Splice(f[i - 1], order[i])]
           done == CHOOSE f : f = turn(f)
           step == [p \in Seq(Node) \X (1..n) |-> Splice(p[1], order[p[2]])]
<1>1. n \in Nat /\ \A i \in 1..n : order[i] \in Node
  BY ListFacts
<1>2. Through(Splice, list, order) = done[n]
  BY DEF Through
<1>3. \A s \in Seq(Node), x \in Node : Splice(s, x) \in Seq(Node)
  <2> SUFFICES ASSUME NEW s \in Seq(Node), NEW x \in Node PROVE Splice(s, x) \in Seq(Node)
    OBVIOUS
  <2>1. Only(s, Node \ {x}) \in Seq(Node)
    BY OnlyFacts
  <2>2. s # <<>> => Front(s) \in Seq(Node)
    BY DEF Front
  <2> QED BY <2>1, <2>2 DEF Splice
<1>4. step \in [Seq(Node) \X (1..n) -> Seq(Node)]
  BY <1>1, <1>3
<1>5. \A s \in Seq(Node), i \in 1..n : step[<<s, i>>] = Splice(s, order[i])
  OBVIOUS
<1> HIDE DEF step
<1>6. PICK g \in [0..n -> Seq(Node)] : Runs(g, n, list, step)
  <2> HIDE DEF n
  <2> QED BY <1>1, <1>4, IterationExists
<1>7. \A i \in 1..n : i - 1 \in 0..n /\ i \in 0..n /\ i # 0
  BY <1>1
<1>8. g[0] = list /\ \A i \in 1..n : g[i] = Splice(g[i - 1], order[i])
  <2> HIDE DEF n
  <2>1. \A i \in 1..n : g[i - 1] \in Seq(Node) /\ g[i] = step[<<g[i - 1], i>>]
    BY <1>6, <1>7 DEF Runs
  <2> QED BY <1>5, <1>6, <2>1 DEF Runs
<1>9. \A i \in 0..n : i # 0 => i \in 1..n
  BY <1>1
<1>10. g = turn(g)
  <2> HIDE DEF n
  <2> QED BY <1>6, <1>7, <1>8, <1>9
<1>11. done = turn(done)
  <2> HIDE DEF turn
  <2> QED BY <1>10
<1> HIDE DEF done
<1>12. done[0] = list /\ \A i \in 1..n : done[i] = Splice(done[i - 1], order[i])
  <2> HIDE DEF n
  <2>1. 0 \in 0..n
    BY <1>1
  <2>2. \A i \in 0..n : done[i] = turn(done)[i]
    BY <1>11
  <2> QED BY <1>7, <2>1, <2>2
<1> DEFINE G == {i \in 0..n : done[i] \in Seq(Node)}
<1>13. 0..n \subseteq G
  <2> HIDE DEF n
  <2>1. 0 \in G
    BY <1>1, <1>12
  <2>2. \A i \in 0..(n - 1) : i \in G => i + 1 \in G
    <3> SUFFICES ASSUME NEW i \in 0..(n - 1), done[i] \in Seq(Node)
                 PROVE  i + 1 \in 0..n /\ done[i + 1] \in Seq(Node)
      BY DEF G
    <3>1. i + 1 \in 0..n /\ i + 1 \in 1..n /\ (i + 1) - 1 = i
      BY <1>1
    <3>2. done[i + 1] = Splice(done[i], order[i + 1])
      BY <1>12, <3>1
    <3> QED BY <1>1, <1>3, <3>1, <3>2
  <2> HIDE DEF G
  <2> QED BY <1>1, <2>1, <2>2, UpTo
<1>14. done \in [0..n -> Seq(Node)]
  <2> HIDE DEF n
  <2>1. done = [i \in 0..n |-> done[i]]
    BY <1>11
  <2>2. \A i \in 0..n : done[i] \in Seq(Node)
    BY <1>13 DEF G
  <2> QED BY <2>1, <2>2
<1> HIDE DEF turn
<1> QED BY <1>2, <1>12, <1>14

\* Nodes that are in the list leave it, and the rest stays.
LEMMA SpliceFacts ==
    ASSUME NEW list \in Seq(Node), NEW order \in Seq(Node)
    PROVE  /\ Through(Splice, list, order) \in Seq(Node)
           /\ IsInjective(list) /\ IsInjective(order) /\ ToSet(order) \subseteq ToSet(list)
              => /\ IsInjective(Through(Splice, list, order))
                 /\ ToSet(Through(Splice, list, order)) = ToSet(list) \ ToSet(order)
<1> DEFINE n == Len(order)
<1>1. PICK g \in [0..n -> Seq(Node)] :
              /\ g[0] = list
              /\ \A i \in 1..n : g[i] = Splice(g[i - 1], order[i])
              /\ Through(Splice, list, order) = g[n]
  BY SpliceRuns
<1>2. n \in Nat /\ ToSet(order) = {order[i] : i \in 1..n}
  BY ListFacts
<1>3. Through(Splice, list, order) \in Seq(Node)
  <2> HIDE DEF n
  <2> QED BY <1>1, <1>2
<1>4. ASSUME IsInjective(list), IsInjective(order), ToSet(order) \subseteq ToSet(list)
      PROVE  IsInjective(g[n]) /\ ToSet(g[n]) = ToSet(list) \ ToSet(order)
  <2> DEFINE Left(i) == ToSet(list) \ {order[j] : j \in 1..i}
             G == {i \in 0..n : IsInjective(g[i]) /\ ToSet(g[i]) = Left(i)}
  <2>1. 0 \in G
    BY <1>1, <1>2, <1>4
  <2>2. ASSUME NEW i \in 0..(n - 1), i \in G PROVE i + 1 \in G
    <3>1. /\ i \in 0..n /\ i + 1 \in 0..n /\ i + 1 \in 1..n /\ (i + 1) - 1 = i
          /\ 1..(i + 1) = 1..i \cup {i + 1}
      BY <1>2
    <3>2. g[i] \in Seq(Node)
      BY <1>1, <3>1
    <3> DEFINE x == order[i + 1]
    <3>3. \A j \in 1..i : order[j] # x
      <4>1. \A j \in 1..i : j \in 1..n /\ j # i + 1
        BY <1>2
      <4>2. \A j, k \in 1..n : order[j] = order[k] => j = k
        <5>1. DOMAIN order = 1..n
          BY ListFacts
        <5> QED BY <1>4, <5>1 DEF IsInjective
      <4> QED BY <3>1, <4>1, <4>2
    <3>4. x \in ToSet(order)
      BY <1>2, <3>1
    <3>5. x \in ToSet(g[i])
      BY <1>4, <2>2, <3>3, <3>4
    <3>6. g[i + 1] = Only(g[i], Node \ {x})
      <4>1. g[i + 1] = Splice(g[i], x)
        BY <1>1, <3>1
      <4> QED BY <3>5, <4>1 DEF Splice
    <3>7. ToSet(g[i + 1]) = ToSet(g[i]) \ {x} /\ g[i + 1] \in Seq(Node)
      <4>1. ToSet(g[i]) \subseteq Node
        BY <3>2, ListFacts
      <4> QED BY <3>2, <3>6, <4>1, OnlyFacts
    <3>8. IsInjective(g[i + 1])
      <4>1. \A y \in ToSet(g[i]) : ~Precedes(g[i], y, y)
        BY <2>2, <3>2, OrderFacts
      <4>2. \A y, z : Precedes(g[i + 1], y, z) => Precedes(g[i], y, z)
        BY <3>2, <3>6, OnlyOrder
      <4>3. \A y \in ToSet(g[i + 1]) : ~Precedes(g[i + 1], y, y)
        BY <3>7, <4>1, <4>2
      <4> QED BY <3>7, <4>3, OrderFacts
    <3>9. Left(i + 1) = Left(i) \ {x}
      BY <3>1
    <3> QED BY <2>2, <3>1, <3>7, <3>8, <3>9
  <2>3. n \in G
    <3> HIDE DEF G, n
    <3>1. 0..n \subseteq G
      BY <1>2, <2>1, <2>2, UpTo
    <3> QED BY <1>2, <3>1
  <2> QED BY <1>2, <2>3
<1> QED BY <1>1, <1>3, <1>4

-----------------------------------------------------------------------------
(* The rows of the table.                                                  *)

\* The order of the children of a node, without their places.
LEMMA OrderedFacts ==
    ASSUME NEW kids \in [Node -> Seq(Node)], NEW seq, NEW m \in Node
    PROVE  Ordered(kids, seq, m)
              <=> \A x, y : Precedes(kids[m], x, y) => Precedes(seq, x, y)
<1> DEFINE s == kids[m]
<1>1. ASSUME Ordered(kids, seq, m), NEW x, NEW y, Precedes(s, x, y)
      PROVE  Precedes(seq, x, y)
  <2>1. PICK i, j \in 1..Len(s) : i < j /\ s[i] = x /\ s[j] = y
    BY <1>1 DEF Precedes
  <2> QED BY <1>1, <2>1 DEF Ordered
<1>2. ASSUME \A x, y : Precedes(s, x, y) => Precedes(seq, x, y)
      PROVE  Ordered(kids, seq, m)
  <2>1. \A i, j \in 1..Len(s) : i < j => Precedes(s, s[i], s[j])
    BY DEF Precedes
  <2>2. \A i, j \in 1..Len(s) : i < j => Precedes(seq, s[i], s[j])
    <3> HIDE DEF s
    <3> QED BY <1>2, <2>1
  <2> QED BY <2>2 DEF Ordered
<1> QED BY <1>1, <1>2

\* The row that is found last in a branch is in it.
LEMMA LastInside ==
    ASSUME children \in [Node -> Seq(Node)], Grounded(children), NEW p \in Node
    PROVE  FindLastNode(p) \in Inside(children, p)
<1> DEFINE S == {m \in Node : FindLastNode(m) \notin Inside(children, m)}
<1>1. \A m \in Node : m \in Inside(children, m)
  BY DEF Inside
<1>2. ASSUME NEW m \in S, ToSet(children[m]) \cap S = {} PROVE FALSE
  <2>1. m \in Node /\ FindLastNode(m) \notin Inside(children, m)
    OBVIOUS
  <2>2. children[m] # <<>>
    BY <1>1, <2>1, LastEquation
  <2> DEFINE c == Last(children[m])
  <2>3. c \in Node /\ c \in ToSet(children[m])
    <3>1. children[m] \in Seq(Node) /\ Len(children[m]) \in 1..Len(children[m])
      BY <2>1, <2>2, LenProperties, EmptySeq
    <3>2. c = children[m][Len(children[m])]
      BY DEF Last
    <3>3. \A i \in 1..Len(children[m]) :
              children[m][i] \in Node /\ children[m][i] \in ToSet(children[m])
      BY <2>1, KidFacts
    <3> HIDE DEF c
    <3> QED BY <3>1, <3>2, <3>3
  <2>4. FindLastNode(c) \in Inside(children, c)
    BY <1>2, <2>3
  <2>5. FindLastNode(m) = FindLastNode(c)
    BY <2>1, <2>2, LastEquation
  <2>6. c \in Below(children, m) /\ Inside(children, c) \subseteq Below(children, m)
    <3>1. c \in Below(children, m)
      BY <2>1, <2>3, BelowFacts
    <3> QED BY <2>1, <3>1, BelowSteps DEF Inside
  <2> QED BY <2>1, <2>4, <2>5, <2>6 DEF Inside
<1>3. S \in SUBSET Node
  OBVIOUS
<1>4. S = {}
  <2> HIDE DEF S
  <2> QED BY <1>2, <1>3 DEF Grounded
<1> QED BY <1>4

\* And it is the last, where every branch is together in order.
LEMMA LastIsLast ==
    ASSUME children \in [Node -> Seq(Node)], Grounded(children), Forked(children),
           NEW seq \in Seq(Node), IsInjective(seq), NEW p \in Node,
           Inside(children, p) \subseteq ToSet(seq),
           \A m \in Inside(children, p) : Together(children, seq, m) /\ Ordered(children, seq, m)
    PROVE  \A z \in Inside(children, p) :
              z = FindLastNode(p) \/ Precedes(seq, z, FindLastNode(p))
<1> DEFINE Ends(m) == \A z \in Inside(children, m) :
                        z = FindLastNode(m) \/ Precedes(seq, z, FindLastNode(m))
           S == {m \in Inside(children, p) : ~Ends(m)}
<1>1. /\ p \in Inside(children, p) /\ Inside(children, p) \subseteq Node
      /\ \A m \in Inside(children, p) : Inside(children, m) \subseteq Inside(children, p)
  <2>1. Below(children, p) \subseteq Node
    BY BelowFacts
  <2>2. \A m \in Below(children, p) : Below(children, m) \subseteq Below(children, p)
    BY BelowSteps
  <2> QED BY <2>1, <2>2 DEF Inside
<1>2. ASSUME NEW m \in S, ToSet(children[m]) \cap S = {} PROVE FALSE
  <2>1. m \in Node /\ m \in Inside(children, p) /\ ~Ends(m)
    BY <1>1
  <2>2. PICK z \in Inside(children, m) :
            z # FindLastNode(m) /\ ~Precedes(seq, z, FindLastNode(m))
    BY <2>1
  <2>3. children[m] # <<>>
    <3> SUFFICES ASSUME children[m] = <<>> PROVE FALSE
      OBVIOUS
    <3>1. FindLastNode(m) = m
      BY <2>1, LastEquation
    <3>2. ToSet(children[m]) = {}
      BY DEF ToSet
    <3>3. Below(children, m) = {}
      <4>1. \A x \in Node : x \notin Below(children, m)
        BY <2>1, <3>2, BelowSteps
      <4>2. Below(children, m) \subseteq Node
        BY <2>1, BelowFacts
      <4> QED BY <4>1, <4>2
    <3> QED BY <2>2, <3>1, <3>3 DEF Inside
  <2> DEFINE e == Len(children[m])
             c == children[m][e]
             l == FindLastNode(m)
  <2>4. /\ children[m] \in Seq(Node) /\ e \in Nat /\ e \in 1..e /\ c \in Node
        /\ c \in ToSet(children[m])
    <3>1. children[m] \in Seq(Node) /\ e \in 1..e /\ e \in Nat
      BY <2>1, <2>3, LenProperties, EmptySeq
    <3> QED BY <2>1, <3>1, KidFacts
  <2>5. l = FindLastNode(c)
    BY <2>1, <2>3, LastEquation DEF Last
  <2>6. l \in Inside(children, c)
    BY <2>4, <2>5, LastInside
  <2>7. \A d \in ToSet(children[m]) : /\ d \in Node /\ d \in Below(children, m)
                                      /\ d \in Inside(children, p)
                                      /\ Inside(children, d) \subseteq Below(children, m)
    <3> SUFFICES ASSUME NEW d \in ToSet(children[m])
                 PROVE  /\ d \in Node /\ d \in Below(children, m)
                        /\ d \in Inside(children, p)
                        /\ Inside(children, d) \subseteq Below(children, m)
      OBVIOUS
    <3>1. d \in Node /\ d \in Below(children, m)
      BY <2>1, BelowFacts
    <3>2. Below(children, d) \subseteq Below(children, m)
      BY <2>1, <3>1, BelowSteps
    <3>3. d \in Inside(children, p)
      BY <1>1, <2>1, <3>1 DEF Inside
    <3> QED BY <3>1, <3>2, <3>3 DEF Inside
  <2>8. Ends(c)
    BY <1>2, <2>4, <2>7
  <2>9. c = l \/ Precedes(seq, c, l)
    BY <2>5, <2>8 DEF Inside
  <2>10. z # m
    BY <2>1, <2>2, <2>4, <2>6, <2>7 DEF Together
  <2>11. z \in Node /\ z \in Below(children, m)
    BY <1>1, <2>1, <2>2, <2>10 DEF Inside
  <2>12. PICK d \in ToSet(children[m]) : z \in Inside(children, d)
    BY <2>1, <2>11, BelowSteps
  <2>13. d # c
    BY <2>2, <2>5, <2>8, <2>12
  <2>14. Precedes(seq, d, c)
    <3>1. PICK i \in 1..e : d = children[m][i]
      BY <2>1, KidFacts
    <3>2. i < e
      BY <2>4, <2>13, <3>1
    <3> QED BY <2>1, <2>4, <3>1, <3>2 DEF Ordered
  <2>15. z \in ToSet(seq) /\ l \in ToSet(seq)
    BY <1>1, <2>1, <2>2, <2>4, <2>6, <2>7
  <2>16. Precedes(seq, l, z)
    BY <2>2, <2>15, OrderFacts
  <2>17. Precedes(seq, c, z)
    BY <2>9, <2>16, OrderFacts
  <2>18. c \in Inside(children, d)
    <3>1. Together(children, seq, d) /\ d \in Inside(children, d)
      BY <2>7 DEF Inside
    <3> QED BY <2>12, <2>14, <2>17, <3>1 DEF Together
  <2>19. c \in Inside(children, c)
    BY DEF Inside
  <2> HIDE DEF c
  <2>20. \A u, v \in ToSet(children[m]) : \A x :
            x \in Inside(children, u) /\ x \in Inside(children, v) => u = v
    BY <2>1, BranchFacts
  <2> QED BY <2>4, <2>13, <2>18, <2>19, <2>20
<1>3. S \in SUBSET Node
  BY <1>1
<1>4. S = {}
  <2> HIDE DEF S
  <2> QED BY <1>2, <1>3 DEF Grounded
<1> QED BY <1>1, <1>4

\* What is put into a list without repetitions, once, leaves it so.
LEMMA InsertInjective ==
    ASSUME NEW seq \in Seq(Node), IsInjective(seq), NEW block \in Seq(Node),
           IsInjective(block), NEW target, target \in ToSet(seq) \ ToSet(block)
    PROVE  IsInjective(InsertAfter(seq, block, target))
<1> DEFINE rest == ToSet(seq) \ ToSet(block)
           put == InsertAfter(seq, block, target)
<1>1. /\ put \in Seq(Node)
      /\ \A x, y : Precedes(put, x, y) <=>
            \/ x \in rest /\ y \in rest /\ Precedes(seq, x, y)
            \/ Precedes(block, x, y)
            \/ x \in ToSet(block) /\ y \in rest /\ Precedes(seq, target, y)
            \/ y \in ToSet(block) /\ x \in rest
                /\ (x = target \/ Precedes(seq, x, target))
  <2>1. rest = ToSet(seq) \ ToSet(block) /\ target \in rest
    OBVIOUS
  <2> HIDE DEF rest
  <2> QED BY <2>1, InsertFacts
<1>2. /\ \A x : ~Precedes(seq, x, x)
      /\ \A x : ~Precedes(block, x, x)
  BY OrderFacts
<1>3. \A x : ~Precedes(put, x, x)
  <2> HIDE DEF put
  <2> QED BY <1>1, <1>2
<1> HIDE DEF put
<1>4. IsInjective(put)
  BY <1>1, <1>3, OrderFacts
<1> QED BY <1>4 DEF put

\* A branch that is put in its place as a whole is there as a whole.
LEMMA BlockTogether ==
    ASSUME NEW seq \in Seq(Node), IsInjective(seq), NEW block \in Seq(Node),
           NEW target, target \in ToSet(seq) \ ToSet(block),
           NEW kids \in [Node -> Seq(Node)], NEW m \in Node,
           Inside(kids, m) \subseteq ToSet(block), Together(kids, block, m)
    PROVE  Together(kids, InsertAfter(seq, block, target), m)
<1> DEFINE rest == ToSet(seq) \ ToSet(block)
           put == InsertAfter(seq, block, target)
<1>1. /\ put \in Seq(Node) /\ ToSet(put) = rest \cup ToSet(block)
      /\ \A x, y : Precedes(put, x, y) <=>
            \/ x \in rest /\ y \in rest /\ Precedes(seq, x, y)
            \/ Precedes(block, x, y)
            \/ x \in ToSet(block) /\ y \in rest /\ Precedes(seq, target, y)
            \/ y \in ToSet(block) /\ x \in rest
                /\ (x = target \/ Precedes(seq, x, target))
  <2>1. rest = ToSet(seq) \ ToSet(block) /\ target \in rest
    OBVIOUS
  <2> HIDE DEF rest
  <2> QED BY <2>1, InsertFacts
<1>2. /\ \A x, y : Precedes(block, x, y) => x \in ToSet(block) /\ y \in ToSet(block)
      /\ \A x : ~Precedes(seq, x, x)
      /\ \A x, y, z : Precedes(seq, x, y) /\ Precedes(seq, y, z) => Precedes(seq, x, z)
  BY OrderFacts
<1> HIDE DEF put
<1>3. ASSUME NEW x \in Inside(kids, m), NEW z \in Inside(kids, m), NEW y,
             Precedes(put, x, y), Precedes(put, y, z)
      PROVE  y \in Inside(kids, m)
  <2>1. x \in ToSet(block) /\ z \in ToSet(block)
    OBVIOUS
  <2>2. Precedes(block, x, y) \/ (y \in rest /\ Precedes(seq, target, y))
    BY <1>1, <1>3, <2>1
  <2>3. Precedes(block, y, z) \/ (y \in rest /\ (y = target \/ Precedes(seq, y, target)))
    BY <1>1, <1>3, <2>1
  <2>4. Precedes(block, x, y) /\ Precedes(block, y, z)
    BY <1>2, <2>2, <2>3
  <2> QED BY <2>4 DEF Together
<1>4. \A y \in Below(kids, m) : Precedes(put, m, y)
  BY <1>1 DEF Together
<1> QED BY <1>3, <1>4 DEF Together, put

-----------------------------------------------------------------------------
(* The lists of the table, and the invariant that keeps them.              *)

\* Until a row was removed alone, children are in the tree, and its nodes are
\* those of the list and of the rows.
Listed ==
    /\ \A n \in Node : ToSet(children[n]) \subseteq tree /\ IsInjective(children[n])
    /\ ToSet(rows) = tree /\ ToSet(nodes) = tree
    /\ IsInjective(rows) /\ IsInjective(nodes)

\* Branches are together until rows are loaded after a move, and in the order of
\* the lists of children until the move: a load puts rows after the last child.
ListInv ==
    /\ nodes \in Seq(Node) /\ rows \in Seq(Node) /\ IsFiniteSet(tree)
    /\ "late" \in history => "move" \in history
    /\ "remove" \notin history => Listed
    /\ history \cap {"remove", "late"} = {} => \A n \in tree : Together(children, rows, n)
    /\ history \cap {"remove", "move"} = {} => \A n \in tree : Ordered(children, rows, n)

\* What the two invariants say of the branches.
LEMMA ListFactsOfTable ==
    ASSUME TableInv, ListInv
    PROVE  /\ children \in [Node -> Seq(Node)] /\ Grounded(children)
           /\ tree \subseteq Node
           /\ "remove" \notin history =>
                /\ Forked(children)
                /\ \A n \in Node : Below(children, n) \subseteq tree
                /\ \A n \in tree : Inside(children, n) \subseteq tree
<1>1. Grounded(children) /\ children \in [Node -> Seq(Node)] /\ tree \subseteq Node
  <2>1. /\ IsForest(tree, Up) /\ IsFiniteSet(tree) /\ children \in [Node -> Seq(Node)]
        /\ \A m \in Node \ tree : ToSet(children[m]) = {}
        /\ \A m, k \in tree : k \in ToSet(children[m]) => Up[k] = m
        /\ tree \subseteq Node
    BY TableFacts DEF TableInv, ListInv
  <2> QED BY <2>1, ForestIsGrounded
<1>2. "remove" \notin history => Forked(children)
  BY ForestIsForked DEF ListInv, Listed
<1>3. "remove" \notin history => /\ \A n \in Node : Below(children, n) \subseteq tree
                                 /\ \A n \in tree : Inside(children, n) \subseteq tree
  BY BranchInTree DEF ListInv, Listed
<1> QED BY <1>1, <1>2, <1>3

\* A list that gets a block is one of nodes, wherever the block goes.
LEMMA InsertType ==
    ASSUME NEW seq \in Seq(Node), NEW block \in Seq(Node), NEW target
    PROVE  InsertAfter(seq, block, target) \in Seq(Node)
<1> DEFINE rest == ToSet(seq) \ ToSet(block)
<1>1. CASE target \in rest
  <2>1. rest = ToSet(seq) \ ToSet(block)
    OBVIOUS
  <2> HIDE DEF rest
  <2> QED BY <1>1, <2>1, InsertFacts
<1>2. CASE target \notin rest
  BY <1>2, InsertNowhere
<1> QED BY <1>1, <1>2

\* A target that is not below the node is outside its branch.
LEMMA TargetOutside ==
    ASSUME TableInv, Listed, NEW n \in tree, NEW target \in tree,
           n # target, n \notin Above(target)
    PROVE  target \notin Inside(children, n)
<1> DEFINE next == Upward(Up, Node)
<1>1. n \notin Reach({target}, next) /\ DOMAIN next = Node
  BY NotAbove DEF Upward, Up
<1>2. n \in Node /\ tree \subseteq Node /\ children \in [Node -> Seq(Node)]
  BY TableFacts
<1>3. PICK U \in SUBSET Node : target \in U /\ (\A u \in U : next[u] \subseteq U) /\ n \notin U
  <2> HIDE DEF next
  <2>1. n \in DOMAIN next
    BY <1>1, <1>2
  <2>2. \E U \in SUBSET DOMAIN next :
            {target} \subseteq U /\ (\A u \in U : next[u] \subseteq U) /\ n \notin U
    BY <1>1, <2>1, NotReached
  <2> QED BY <1>1, <2>2
<1>4. \A u \in U : Up[u] \in Node => Up[u] \in U
  BY <1>3 DEF Upward, Up
<1>5. \A m \in Node \ U : ToSet(children[m]) \subseteq Node \ U
  <2> SUFFICES ASSUME NEW m \in Node \ U, NEW k \in ToSet(children[m]), k \in U
               PROVE  FALSE
    BY <1>2, TableFacts
  <2>1. k \in tree /\ m \in tree
    BY TableFacts DEF Listed
  <2>2. Up[k] = m
    BY <2>1, TableFacts
  <2> QED BY <1>2, <1>4, <2>1, <2>2
<1>6. Below(children, n) \subseteq Node \ U
  BY <1>2, <1>3, <1>5, BelowIsLeast
<1> QED BY <1>3, <1>6 DEF Inside

\* The lists of children after a move.
LEMMA MovedKids ==
    ASSUME TableInv, Listed, NEW n \in tree, NEW target \in tree,
           target # parentId[n], SetParent(n, target)
    PROVE  \A m \in Node :
              /\ ToSet(children'[m]) = (ToSet(children[m]) \ {n})
                                            \cup (IF m = target THEN {n} ELSE {})
              /\ IsInjective(children'[m])
<1>1. n \in Node /\ \A m \in Node : children[m] \in Seq(Node) /\ IsInjective(children[m])
  BY TableFacts DEF Listed
<1>2. \A m \in Node : m # parentId[n] => n \notin ToSet(children[m])
  BY TableFacts
<1> SUFFICES ASSUME NEW m \in Node
             PROVE  /\ ToSet(children'[m]) = (ToSet(children[m]) \ {n})
                                                \cup (IF m = target THEN {n} ELSE {})
                    /\ IsInjective(children'[m])
  OBVIOUS
<1>3. /\ \A x \in ToSet(children[m]) : ~Precedes(children[m], x, x)
      /\ \A x, y : Precedes(children[m], x, y)
                      => x \in ToSet(children[m]) /\ y \in ToSet(children[m])
      /\ ToSet(children[m]) \subseteq Node
  BY <1>1, OrderFacts, ListFacts
<1>4. CASE m = target
  <2>1. children'[m] = Append(children[m], n)
    BY <1>4 DEF SetParent
  <2>2. children'[m] \in Seq(Node) /\ ToSet(children'[m]) = ToSet(children[m]) \cup {n}
    BY <1>1, <2>1, AppendFacts
  <2>3. \A x, y : Precedes(children'[m], x, y) <=>
            Precedes(children[m], x, y) \/ (x \in ToSet(children[m]) /\ y = n)
    BY <1>1, <2>1, AppendOrder
  <2>4. n \notin ToSet(children[m])
    BY <1>2, <1>4
  <2>5. \A x \in ToSet(children'[m]) : ~Precedes(children'[m], x, x)
    BY <1>3, <2>3, <2>4
  <2>6. IsInjective(children'[m])
    BY <2>2, <2>5, OrderFacts
  <2> QED BY <1>4, <2>2, <2>4, <2>6
<1>5. CASE m # target /\ m = parentId[n]
  <2>1. children'[m] = Only(children[m], Node \ {n})
    BY <1>5 DEF SetParent
  <2>2. /\ children'[m] \in Seq(Node)
        /\ ToSet(children'[m]) = ToSet(children[m]) \cap (Node \ {n})
    BY <1>1, <2>1, OnlyFacts
  <2>3. \A x, y : Precedes(children'[m], x, y) => Precedes(children[m], x, y)
    BY <1>1, <2>1, OnlyOrder
  <2>4. \A x \in ToSet(children'[m]) : ~Precedes(children'[m], x, x)
    BY <1>3, <2>3
  <2>5. IsInjective(children'[m])
    BY <2>2, <2>4, OrderFacts
  <2> QED BY <1>3, <1>5, <2>2, <2>5
<1>6. CASE m # target /\ m # parentId[n]
  <2>1. children'[m] = children[m]
    BY <1>6 DEF SetParent
  <2> QED BY <1>1, <1>2, <1>6, <2>1
<1> QED BY <1>4, <1>5, <1>6

\* The next lists of children are grounded too.
LEMMA NextGrounded ==
    ASSUME TableInv', IsFiniteSet(tree')
    PROVE  children' \in [Node -> Seq(Node)] /\ Grounded(children')
<1>1. /\ IsForest(tree', Up') /\ children' \in [Node -> Seq(Node)]
      /\ \A m \in Node \ tree' : ToSet(children'[m]) = {}
      /\ \A m, k \in tree' : k \in ToSet(children'[m]) <=> parentId'[k] = m
  BY DEF TableInv, GoneHaveNoChildren, ChildrenNameTheirParent
<1>2. \A k \in tree' : Up'[k] = parentId'[k]
  BY <1>1 DEF Up, IsForest
<1>3. \A m, k \in tree' : k \in ToSet(children'[m]) => Up'[k] = m
  BY <1>1, <1>2
<1> DEFINE members == tree'
           up == Up'
           kids == children'
<1>4. /\ IsForest(members, up) /\ IsFiniteSet(members) /\ kids \in [Node -> Seq(Node)]
      /\ \A m \in Node \ members : ToSet(kids[m]) = {}
      /\ \A m, k \in members : k \in ToSet(kids[m]) => up[k] = m
  BY <1>1, <1>3
<1>5. Grounded(kids)
  <2> HIDE DEF members, up, kids
  <2> QED BY <1>4, ForestIsGrounded
<1> QED BY <1>1, <1>5

-----------------------------------------------------------------------------
(* Moves.                                                                  *)

\* A branch that was together is so after a move: the one that moved stands where
\* it went, and the others are what they were but for it.
LEMMA MoveTogether ==
    ASSUME NEW kids, kids \in [Node -> Seq(Node)], Grounded(kids), Forked(kids),
           NEW kids2, kids2 \in [Node -> Seq(Node)], Grounded(kids2),
           NEW n \in Node, NEW target \in Node, target \notin Inside(kids, n),
           MovedTo(kids, kids2, n, target),
           NEW seq \in Seq(Node), IsInjective(seq), target \in ToSet(seq),
           NEW block \in Seq(Node), ToSet(block) = Inside(kids, n),
           \A m \in Inside(kids, n) : Together(kids, block, m),
           NEW top \in ToSet(seq), Together(kids, seq, top), Inside(kids, top) \subseteq ToSet(seq)
    PROVE  Together(kids2, InsertAfter(seq, block, target), top)
<1> DEFINE put == InsertAfter(seq, block, target)
           rest == ToSet(seq) \ ToSet(block)
<1>0. /\ kids \in [Node -> Seq(Node)] /\ Grounded(kids) /\ Forked(kids)
      /\ kids2 \in [Node -> Seq(Node)] /\ n \in Node /\ target \in Node
      /\ target \notin Inside(kids, n)
      /\ MovedTo(kids, kids2, n, target)
  OBVIOUS
<1>1. top \in Node /\ target \in rest /\ rest \subseteq ToSet(seq)
  BY ListFacts
<1>2. /\ \A x, y : Precedes(put, x, y) <=>
            \/ x \in rest /\ y \in rest /\ Precedes(seq, x, y)
            \/ Precedes(block, x, y)
            \/ x \in ToSet(block) /\ y \in rest /\ Precedes(seq, target, y)
            \/ y \in ToSet(block) /\ x \in rest
                /\ (x = target \/ Precedes(seq, x, target))
  <2>1. rest = ToSet(seq) \ ToSet(block) /\ target \in rest
    BY <1>1
  <2> HIDE DEF rest
  <2>2. seq \in Seq(Node) /\ IsInjective(seq) /\ block \in Seq(Node)
    OBVIOUS
  <2> QED BY ONLY <2>1, <2>2, InsertFacts
<1>3. \A u \in Node : Inside(kids2, u) = MovedBranch(kids, n, target, u)
  BY ONLY <1>0, MoveBranches, ZenonT(60)
<1>4. top \notin Below(kids2, top) /\ top \notin Below(kids, top)
  BY <1>1, NotBelowItself
<1>5. CASE top \in Inside(kids, n)
  <2>1. Inside(kids2, top) = Inside(kids, top)
    BY <1>1, <1>3, <1>5 DEF MovedBranch
  <2>2. Below(kids2, top) = Below(kids, top)
    <3>1. /\ Below(kids, top) = Inside(kids, top) \ {top}
          /\ Below(kids2, top) = Inside(kids2, top) \ {top}
      BY <1>4 DEF Inside
    <3> QED BY <2>1, <3>1
  <2>3. Inside(kids, top) \subseteq ToSet(block)
    <3>1. top = n \/ top \in Below(kids, n)
      BY <1>5 DEF Inside
    <3>2. Below(kids, top) \subseteq Below(kids, n)
      BY <3>1, BelowSteps
    <3> QED BY <1>5, <3>2 DEF Inside
  <2>4. Together(kids, put, top)
    BY <1>1, <1>5, <2>3, BlockTogether
  <2> QED BY <2>1, <2>2, <2>4 DEF Together
<1>6. CASE top \notin Inside(kids, n)
  <2> DEFINE E == Inside(kids, top) \ Inside(kids, n)
             F == Inside(kids2, top)
  <2>1. F = E \cup (IF target \in Inside(kids, top) THEN ToSet(block) ELSE {})
    BY <1>1, <1>3, <1>6 DEF MovedBranch
  <2>2. /\ E \subseteq rest
        /\ \/ target \in E /\ F = E \cup ToSet(block)
           \/ F = E /\ target \notin E
    BY <2>1
  <2>3. \A x, z \in E : \A y :
            Precedes(seq, x, y) /\ Precedes(seq, y, z) /\ y \in rest => y \in E
    BY DEF Together
  <2>4. \A x, z \in F : \A y : Precedes(put, x, y) /\ Precedes(put, y, z) => y \in F
    <3>1. rest = ToSet(seq) \ ToSet(block) /\ target \in rest
      BY <1>1
    <3> HIDE DEF E, F, rest
    <3>2. seq \in Seq(Node) /\ IsInjective(seq) /\ block \in Seq(Node)
      OBVIOUS
    <3> QED BY ONLY <2>2, <2>3, <3>1, <3>2, InsertTogether
  <2>5. ASSUME NEW y \in Below(kids2, top) PROVE Precedes(put, top, y)
    <3>1. top # y /\ y \in F /\ top \in rest
      BY <1>4, <1>6 DEF Inside
    <3>2. CASE y \in E
      <4>1. Precedes(seq, top, y) /\ y \in rest
        BY <2>2, <3>1, <3>2 DEF Together, Inside
      <4> QED BY <1>2, <3>1, <4>1
    <3>3. CASE y \in ToSet(block) /\ target \in Inside(kids, top)
      <4>1. top = target \/ Precedes(seq, top, target)
        BY <3>3 DEF Together, Inside
      <4> QED BY <1>2, <3>1, <3>3, <4>1
    <3> QED BY <2>1, <3>1, <3>2, <3>3
  <2> QED BY <2>4, <2>5 DEF Together
<1> QED BY <1>5, <1>6

\* A move keeps the lists.
LEMMA MoveLists ==
    ASSUME TableInv, TableInv', ListInv, NEW n \in Node, NEW target \in Node, Move(n, target)
    PROVE  ListInv'
<1> DEFINE block == Preorder(children, n)
<1>1. /\ children \in [Node -> Seq(Node)] /\ Grounded(children)
      /\ children' \in [Node -> Seq(Node)] /\ IsFiniteSet(tree')
      /\ n \in tree /\ target \in tree /\ n # target /\ n \notin Above(target)
      /\ target # parentId[n] /\ SetParent(n, target)
      /\ tree' = tree /\ nodes' = nodes /\ rows' = InsertAfter(rows, block, target)
      /\ "move" \in history' /\ history \subseteq history'
      /\ "remove" \in history' => "remove" \in history
      /\ "late" \in history' => "late" \in history
  BY ListFactsOfTable DEF ListInv, TableInv, Move, MoveRows
<1>2. Grounded(children')
  BY <1>1, NextGrounded
<1>3. block \in Seq(Node) /\ ToSet(block) = Inside(children, n)
  BY <1>1, PreorderFacts
<1>4. nodes' \in Seq(Node) /\ rows' \in Seq(Node)
  BY <1>1, <1>3, InsertType DEF ListInv
<1>5. ASSUME "remove" \notin history
      PROVE  /\ Listed'
             /\ "late" \notin history => \A m \in tree' : Together(children', rows', m)
  <2>1. Listed /\ rows \in Seq(Node) /\ Forked(children)
    BY <1>5, ListFactsOfTable DEF ListInv
  <2>2. target \notin Inside(children, n)
    BY <1>1, <2>1, TargetOutside
  <2>3. \A m \in Node :
            /\ ToSet(children'[m]) = (ToSet(children[m]) \ {n})
                                            \cup (IF m = target THEN {n} ELSE {})
            /\ IsInjective(children'[m])
    BY <1>1, <2>1, MovedKids
  <2>4. IsInjective(block) /\ \A m \in Inside(children, n) : Together(children, block, m)
    BY <1>1, <2>1, PreorderIsLaid
  <2>5. /\ Inside(children, n) \subseteq tree
        /\ \A m \in tree : Inside(children, m) \subseteq tree
    BY <1>1, <1>5, ListFactsOfTable
  <2>6. target \in ToSet(rows) \ ToSet(block)
    BY <1>1, <1>3, <2>1, <2>2 DEF Listed
  <2>7. ToSet(rows') = tree
    <3> DEFINE rest == ToSet(rows) \ ToSet(block)
    <3>1. rest = ToSet(rows) \ ToSet(block) /\ target \in rest
      BY <2>6
    <3>2. ToSet(rows') = rest \cup ToSet(block)
      <4> HIDE DEF rest, block
      <4> QED BY <1>1, <1>3, <2>1, <3>1, InsertFacts
    <3> QED BY <1>3, <2>1, <2>5, <3>2 DEF Listed
  <2>8. IsInjective(rows')
    <3> HIDE DEF block
    <3> QED BY <1>1, <1>3, <2>1, <2>4, <2>6, InsertInjective DEF Listed
  <2>9. Listed'
    <3>1. \A m \in Node : ToSet(children'[m]) \subseteq tree /\ IsInjective(children'[m])
      BY <1>1, <2>1, <2>3 DEF Listed
    <3> QED BY <1>1, <2>1, <2>7, <2>8, <3>1 DEF Listed
  <2>10. ASSUME "late" \notin history, NEW m \in tree PROVE Together(children', rows', m)
    <3>1. Together(children, rows, m) /\ Inside(children, m) \subseteq ToSet(rows)
      BY <1>5, <2>1, <2>5, <2>10 DEF ListInv, Listed
    <3>2. m \in ToSet(rows) /\ target \in ToSet(rows) /\ IsInjective(rows)
      BY <1>1, <2>1 DEF Listed
    <3> DEFINE kids == children
               kids2 == children'
               seq == rows
    <3>3. /\ kids \in [Node -> Seq(Node)] /\ Grounded(kids) /\ Forked(kids)
          /\ kids2 \in [Node -> Seq(Node)] /\ Grounded(kids2)
          /\ target \notin Inside(kids, n) /\ seq \in Seq(Node)
          /\ Together(kids, seq, m) /\ Inside(kids, m) \subseteq ToSet(seq)
          /\ m \in ToSet(seq) /\ target \in ToSet(seq) /\ IsInjective(seq)
          /\ \A u \in Inside(kids, n) : Together(kids, block, u)
          /\ ToSet(block) = Inside(kids, n) /\ block \in Seq(Node)
      BY <1>1, <1>2, <1>3, <2>1, <2>2, <2>4, <3>1, <3>2
    <3>4. MovedTo(kids, kids2, n, target)
      BY <2>3 DEF MovedTo
    <3>5. Together(kids2, InsertAfter(seq, block, target), m)
      <4> HIDE DEF kids, kids2, seq, block
      <4> QED BY <3>3, <3>4, MoveTogether
    <3> QED BY <1>1, <3>5
  <2> QED BY <1>1, <2>9, <2>10
<1> QED BY <1>1, <1>4, <1>5 DEF ListInv

-----------------------------------------------------------------------------
(* Loads.                                                                  *)

\* A list has finitely many elements.
LEMMA ListIsFinite ==
    ASSUME NEW T, NEW seq \in Seq(T)
    PROVE  IsFiniteSet(ToSet(seq))
<1> DEFINE K == 1..Len(seq)
           f == [i \in K |-> seq[i]]
<1>1. Len(seq) \in Nat /\ ToSet(seq) = {seq[i] : i \in K}
  BY ListFacts
<1>2. IsFiniteSet(K)
  BY <1>1, FS_Interval
<1>3. f \in Surjection(K, ToSet(seq))
  <2> HIDE DEF K
  <2> QED BY <1>1 DEF Surjection
<1> HIDE DEF K, f
<1> QED BY <1>2, <1>3, FS_Surjection

\* Two lists without repetitions and without a common element, in one.
LEMMA ConcatInjective ==
    ASSUME NEW s \in Seq(Node), NEW t \in Seq(Node), IsInjective(s), IsInjective(t),
           ToSet(s) \cap ToSet(t) = {}
    PROVE  IsInjective(s \o t)
<1>1. s \o t \in Seq(Node)
  BY ConcatFacts
<1>2. (\A x : ~Precedes(s, x, x)) /\ (\A x : ~Precedes(t, x, x))
  BY OrderFacts
<1>3. \A x, y : Precedes(s \o t, x, y) <=>
              \/ Precedes(s, x, y) \/ Precedes(t, x, y)
              \/ x \in ToSet(s) /\ y \in ToSet(t)
  BY ConcatOrder
<1>4. \A x : ~Precedes(s \o t, x, x)
  BY <1>2, <1>3
<1> QED BY <1>1, <1>4, OrderFacts

\* A node without children is a branch, together and in order anywhere.
LEMMA LeafFacts ==
    ASSUME NEW kids \in [Node -> Seq(Node)], NEW m \in Node, ToSet(kids[m]) = {}
    PROVE  /\ Below(kids, m) = {} /\ Inside(kids, m) = {m}
           /\ \A seq \in Seq(Node) : IsInjective(seq) => Together(kids, seq, m)
           /\ \A seq : Ordered(kids, seq, m)
<1>1. Below(kids, m) = {}
  <2>1. {} \in SUBSET Node /\ ToSet(kids[m]) \subseteq {}
    OBVIOUS
  <2>2. Below(kids, m) \subseteq {}
    BY <2>1, BelowIsLeast
  <2> QED BY <2>2
<1>2. Inside(kids, m) = {m}
  BY <1>1 DEF Inside
<1>3. ASSUME NEW seq \in Seq(Node), IsInjective(seq) PROVE Together(kids, seq, m)
  <2>1. \A x : ~Precedes(seq, x, x)
    BY <1>3, OrderFacts
  <2>2. \A x, y, z : Precedes(seq, x, y) /\ Precedes(seq, y, z) => Precedes(seq, x, z)
    BY <1>3, OrderFacts
  <2> QED BY <1>1, <1>2, <2>1, <2>2 DEF Together
<1>4. \A x, y : ~Precedes(kids[m], x, y)
  <2>1. \A x, y : Precedes(kids[m], x, y) => x \in ToSet(kids[m])
    BY OrderFacts
  <2> QED BY <2>1
<1>5. \A seq : Ordered(kids, seq, m)
  BY <1>4, OrderedFacts
<1> QED BY <1>1, <1>2, <1>3, <1>5

\* Rows that come after the last one of p's branch come into the branches that p
\* is in, and between no others.
LEMMA LoadTogether ==
    ASSUME NEW kids, kids \in [Node -> Seq(Node)], Grounded(kids), Forked(kids),
           NEW kids2, kids2 \in [Node -> Seq(Node)], Grounded(kids2),
           NEW p \in Node, NEW new \in Seq(Node), LoadedTo(kids, kids2, ToSet(new), p),
           NEW seq \in Seq(Node), IsInjective(seq), ToSet(seq) \cap ToSet(new) = {},
           NEW last \in Inside(kids, p), last \in ToSet(seq),
           \A z \in Inside(kids, p) : z = last \/ Precedes(seq, z, last),
           NEW top \in ToSet(seq), Inside(kids, top) \subseteq ToSet(seq),
           Together(kids, seq, top)
    PROVE  Together(kids2, InsertAfter(seq, new, last), top)
<1> DEFINE put == InsertAfter(seq, new, last)
           rest == ToSet(seq) \ ToSet(new)
           E == Inside(kids, top)
           F == Inside(kids2, top)
<1>1. /\ top \in Node /\ rest = ToSet(seq) \ ToSet(new) /\ last \in rest /\ E \subseteq rest
      /\ ToSet(new) \in SUBSET Node /\ rest = ToSet(seq)
  BY ListFacts
<1>2. /\ \A x, y : Precedes(put, x, y) <=>
            \/ x \in rest /\ y \in rest /\ Precedes(seq, x, y)
            \/ Precedes(new, x, y)
            \/ x \in ToSet(new) /\ y \in rest /\ Precedes(seq, last, y)
            \/ y \in ToSet(new) /\ x \in rest /\ (x = last \/ Precedes(seq, x, last))
  <2>1. seq \in Seq(Node) /\ IsInjective(seq) /\ new \in Seq(Node)
    OBVIOUS
  <2> HIDE DEF rest
  <2> QED BY ONLY <1>1, <2>1, InsertFacts
<1>3. \A u \in Node : Inside(kids2, u) = LoadedBranch(kids, ToSet(new), p, u)
  <2> DEFINE N == ToSet(new)
  <2>1. /\ kids \in [Node -> Seq(Node)] /\ kids2 \in [Node -> Seq(Node)]
        /\ N \in SUBSET Node /\ LoadedTo(kids, kids2, N, p)
    BY <1>1
  <2> HIDE DEF N
  <2>2. \A u \in Node : Inside(kids2, u) = LoadedBranch(kids, N, p, u)
    BY ONLY <2>1, LoadBranches, Zenon
  <2> QED BY <2>2 DEF N
<1>4. F = E \cup (IF p \in E THEN ToSet(new) ELSE {})
  BY <1>1, <1>3 DEF LoadedBranch
<1>5. p \in E => last \in E
  <2> SUFFICES ASSUME p \in E PROVE last \in E
    OBVIOUS
  <2>1. p = top \/ p \in Below(kids, top)
    BY DEF Inside
  <2>2. p \in Below(kids, top) => Below(kids, p) \subseteq Below(kids, top)
    BY <1>1, BelowSteps
  <2> QED BY <2>1, <2>2 DEF Inside
<1>6. p \notin E => last \notin E \/ \A z \in E : z = last \/ Precedes(seq, z, last)
  <2> SUFFICES ASSUME p \notin E, last \in E
               PROVE  \A z \in E : z = last \/ Precedes(seq, z, last)
    OBVIOUS
  <2>1. top \in Inside(kids, p)
    BY <1>1, BranchFacts
  <2>2. E \subseteq Inside(kids, p)
    <3>1. top = p \/ top \in Below(kids, p)
      BY <2>1 DEF Inside
    <3>2. top \in Below(kids, p) => Below(kids, top) \subseteq Below(kids, p)
      BY BelowSteps
    <3> QED BY <3>1, <3>2 DEF Inside
  <2> QED BY <2>2
<1>7. \/ last \in E /\ F = E \cup ToSet(new)
      \/ F = E /\ last \notin E
      \/ F = E /\ \A z \in E : z = last \/ Precedes(seq, z, last)
  <2> HIDE DEF E, F
  <2> QED BY <1>4, <1>5, <1>6
<1>8. \A x, z \in E : \A y :
          Precedes(seq, x, y) /\ Precedes(seq, y, z) /\ y \in rest => y \in E
  BY DEF Together
<1>9. \A x, z \in F : \A y : Precedes(put, x, y) /\ Precedes(put, y, z) => y \in F
  <2>1. seq \in Seq(Node) /\ IsInjective(seq) /\ new \in Seq(Node)
    OBVIOUS
  <2> HIDE DEF E, F, rest
  <2> QED BY ONLY <1>1, <1>7, <1>8, <2>1, InsertTogether
<1>10. ASSUME NEW y \in Below(kids2, top) PROVE Precedes(put, top, y)
  <2>1. y \in F /\ top \in E
    BY DEF Inside
  <2>2. CASE y \in Below(kids, top)
    <3>1. Precedes(seq, top, y) /\ y \in E
      BY <2>2 DEF Together, Inside
    <3> HIDE DEF rest, put, E
    <3> QED BY <1>1, <1>2, <2>1, <3>1
  <2>3. CASE y \in ToSet(new) /\ p \in E
    <3>1. last = top \/ Precedes(seq, top, last)
      BY <1>5, <2>3 DEF Together, Inside
    <3> HIDE DEF rest, put, E
    <3> QED BY <1>1, <1>2, <2>1, <2>3, <3>1
  <2>4. y # top
    BY <1>1, NotBelowItself
  <2> QED BY <1>4, <2>1, <2>2, <2>3, <2>4 DEF Inside
<1> QED BY <1>9, <1>10 DEF Together

\* What a load leaves of the lists of children.
LEMMA LoadedKids ==
    ASSUME TableInv, NEW p \in Node \cup {None}, NEW new \in Seq(Node), IsInjective(new),
           LoadBranch(p, new), \A m \in Node : IsInjective(children[m])
    PROVE  /\ p # None => LoadedTo(children, children', ToSet(new), p)
           /\ \A m \in Node : /\ ToSet(children'[m]) \subseteq ToSet(children[m]) \cup ToSet(new)
                              /\ IsInjective(children'[m])
<1>1. /\ children \in [Node -> Seq(Node)] /\ p \in tree \cup {None} /\ None \notin Node
      /\ children' = IF p = None THEN children ELSE [children EXCEPT ![p] = @ \o new]
      /\ \A x \in ToSet(new), m \in Node : x \notin ToSet(children[m])
      /\ \A x \in ToSet(new) : x \in Node /\ x \notin tree
  <2>1. \A i \in 1..Len(new) : new[i] \notin tree
    BY DEF LoadBranch
  <2>2. ToSet(new) = {new[i] : i \in 1..Len(new)} /\ ToSet(new) \subseteq Node
    BY ListFacts
  <2>3. \A x \in ToSet(new) : x \in Node /\ x \notin tree
    BY <2>1, <2>2
  <2>4. /\ p \in tree \cup {None}
        /\ children' = IF p = None THEN children ELSE [children EXCEPT ![p] = @ \o new]
    BY DEF LoadBranch
  <2>5. \A x \in ToSet(new), m \in Node : x \notin ToSet(children[m])
    BY DEF LoadBranch
  <2> QED BY <2>3, <2>4, <2>5, TableFacts
<1>2. ASSUME p # None PROVE p \in Node /\ children'[p] = children[p] \o new
                            /\ \A m \in Node \ {p} : children'[m] = children[m]
  BY <1>1, <1>2
<1>3. \A m \in Node : m # p \/ p = None => children'[m] = children[m]
  BY <1>1, <1>2
<1>4. ASSUME p # None
      PROVE  /\ ToSet(children'[p]) = ToSet(children[p]) \cup ToSet(new)
             /\ IsInjective(children'[p])
  <2>1. children[p] \in Seq(Node) /\ ToSet(children[p]) \cap ToSet(new) = {}
    BY <1>1, <1>2, <1>4
  <2> DEFINE s == children[p]
  <2>2. s \in Seq(Node) /\ ToSet(s) \cap ToSet(new) = {} /\ IsInjective(s)
    BY <1>2, <1>4, <2>1
  <2> HIDE DEF s
  <2>3. ToSet(s \o new) = ToSet(s) \cup ToSet(new)
    BY <2>2, ConcatFacts
  <2>4. IsInjective(s \o new)
    BY <2>2, ConcatInjective
  <2> QED BY <1>2, <1>4, <2>3, <2>4 DEF s
<1>5. ASSUME p # None PROVE LoadedTo(children, children', ToSet(new), p)
  <2>1. \A m \in Node : ToSet(children'[m]) =
            ToSet(children[m]) \cup (IF m = p THEN ToSet(new) ELSE {})
    BY <1>3, <1>4, <1>5
  <2>2. \A x \in ToSet(new) : ToSet(children'[x]) = {}
    BY <1>1, <1>3, <1>5, TableFacts
  <2> QED BY <2>1, <2>2 DEF LoadedTo
<1> QED BY <1>3, <1>4, <1>5

\* A load keeps the lists.
LEMMA LoadLists ==
    ASSUME TableInv, TableInv', ListInv, NEW p \in Node \cup {None}, NEW new \in Seq(Node),
           IsInjective(new), LoadBranch(p, new)
    PROVE  ListInv'
<1> DEFINE N == ToSet(new)
<1>1. /\ N \subseteq Node /\ IsFiniteSet(N) /\ N \cap tree = {}
      /\ \A x \in N : ToSet(children[x]) = {}
  <2>1. \A i \in 1..Len(new) : new[i] \notin tree
    BY DEF LoadBranch
  <2>2. N = {new[i] : i \in 1..Len(new)} /\ N \subseteq Node
    BY ListFacts
  <2>3. IsFiniteSet(N)
    BY ListIsFinite
  <2> QED BY <2>1, <2>2, <2>3, TableFacts
<1>2. /\ p \in tree \cup {None} /\ tree \subseteq Node /\ None \notin Node
      /\ tree' = tree \cup N /\ nodes' = nodes \o new
      /\ p = None => rows' = rows \o new /\ children' = children
      /\ p # None => rows' = InsertAfter(rows, new, FindLastNode(p))
      /\ history' \subseteq history \cup {"late", "drop"}
      /\ history \subseteq history'
      /\ "late" \in history' <=> ("late" \in history \/ "move" \in history)
  <2>1. history' = history \cup (IF "move" \in history THEN {"late"} ELSE {})
                    \cup (IF p # None /\ p \notin view.shown THEN {"drop"} ELSE {})
    BY DEF LoadBranch
  <2> QED BY <2>1, TableFacts DEF LoadBranch
<1>3. IsFiniteSet(tree')
  BY <1>1, <1>2, FS_Union DEF ListInv
<1>4. nodes' \in Seq(Node) /\ rows' \in Seq(Node)
  <2>1. nodes \in Seq(Node) /\ rows \in Seq(Node)
    BY DEF ListInv
  <2>2. nodes \o new \in Seq(Node) /\ rows \o new \in Seq(Node)
    BY <2>1, ConcatFacts
  <2>3. InsertAfter(rows, new, FindLastNode(p)) \in Seq(Node)
    BY <2>1, InsertType
  <2> QED BY <1>2, <2>2, <2>3
<1>5. children' \in [Node -> Seq(Node)] /\ Grounded(children')
  BY <1>3, NextGrounded
<1>6. children \in [Node -> Seq(Node)] /\ Grounded(children)
  BY ListFactsOfTable
<1>7. ASSUME "remove" \notin history
      PROVE  /\ Listed /\ Forked(children) /\ rows \in Seq(Node) /\ nodes \in Seq(Node)
             /\ \A m \in tree : Inside(children, m) \subseteq tree
  BY <1>7, ListFactsOfTable DEF ListInv
<1>8. ASSUME "remove" \notin history, p # None
      PROVE  p \in Node /\ p \in tree /\ FindLastNode(p) \in Inside(children, p)
             /\ FindLastNode(p) \in ToSet(rows) \ N
  <2>1. p \in Node /\ p \in tree
    BY <1>2, <1>8
  <2>2. FindLastNode(p) \in Inside(children, p)
    BY <1>6, <2>1, LastInside
  <2> QED BY <1>1, <1>7, <1>8, <2>1, <2>2 DEF Listed
<1>9. ASSUME "remove" \notin history
      PROVE  ToSet(rows') = tree' /\ IsInjective(rows')
  <2>1. CASE p = None
    <3>1. ToSet(rows) \cap ToSet(new) = {} /\ rows \in Seq(Node) /\ IsInjective(rows)
      BY <1>1, <1>7, <1>9 DEF Listed
    <3>2. ToSet(rows \o new) = ToSet(rows) \cup ToSet(new)
      BY <3>1, ConcatFacts
    <3>3. IsInjective(rows \o new)
      BY <3>1, ConcatInjective
    <3> QED BY <1>2, <1>7, <1>9, <2>1, <3>2, <3>3 DEF Listed
  <2>2. CASE p # None
    <3> DEFINE last == FindLastNode(p)
               rest == ToSet(rows) \ ToSet(new)
    <3>1. /\ last \in ToSet(rows) \ ToSet(new) /\ rows \in Seq(Node) /\ IsInjective(rows)
          /\ last \in rest /\ rest = ToSet(rows) \ ToSet(new) /\ rest = tree
      BY <1>1, <1>7, <1>8, <1>9, <2>2 DEF Listed
    <3> HIDE DEF rest, last
    <3>2. IsInjective(InsertAfter(rows, new, last))
      BY <3>1, InsertInjective
    <3>3. ToSet(InsertAfter(rows, new, last)) = rest \cup ToSet(new)
      BY <3>1, InsertFacts
    <3> QED BY <1>2, <2>2, <3>1, <3>2, <3>3 DEF last
  <2> QED BY <2>1, <2>2
<1>10. ASSUME "remove" \notin history PROVE Listed'
  <2>1. \A m \in Node : IsInjective(children[m]) /\ ToSet(children[m]) \subseteq tree
    BY <1>7, <1>10 DEF Listed
  <2>2. \A m \in Node : ToSet(children'[m]) \subseteq tree' /\ IsInjective(children'[m])
    BY <1>2, <2>1, LoadedKids
  <2>3. ToSet(nodes \o new) = ToSet(nodes) \cup ToSet(new) /\ IsInjective(nodes \o new)
    <3>1. /\ nodes \in Seq(Node) /\ IsInjective(nodes) /\ ToSet(nodes) \cap ToSet(new) = {}
      BY <1>1, <1>7, <1>10 DEF Listed
    <3> QED BY <3>1, ConcatFacts, ConcatInjective
  <2> QED BY <1>2, <1>7, <1>9, <1>10, <2>2, <2>3 DEF Listed
<1>11. ASSUME "remove" \notin history, "late" \notin history'
       PROVE  \A m \in tree : Together(children, rows, m) /\ Ordered(children, rows, m)
  BY <1>2, <1>11 DEF ListInv
<1>12. ASSUME "remove" \notin history, NEW m \in N
       PROVE  Together(children', rows', m)
  <2>1. m \in Node /\ ToSet(children'[m]) = {}
    <3>1. p = None \/ LoadedTo(children, children', ToSet(new), p)
      BY <1>7, <1>12, LoadedKids DEF Listed
    <3> QED BY <1>1, <1>2, <3>1 DEF LoadedTo
  <2> QED BY <1>4, <1>5, <1>9, <1>12, <2>1, LeafFacts
<1>13. ASSUME "remove" \notin history, "late" \notin history', NEW m \in tree
       PROVE  Together(children', rows', m)
  <2>1. /\ Together(children, rows, m) /\ Inside(children, m) \subseteq tree
        /\ ToSet(rows) = tree /\ rows \in Seq(Node) /\ IsInjective(rows)
    BY <1>7, <1>11, <1>13 DEF Listed
  <2>2. CASE p = None
    <3>1. \A x, y : Precedes(rows \o new, x, y) <=>
              \/ Precedes(rows, x, y) \/ Precedes(new, x, y)
              \/ x \in ToSet(rows) /\ y \in ToSet(new)
      BY <2>1, ConcatOrder
    <3>2. \A x, y : Precedes(new, x, y) => y \in ToSet(new)
      BY OrderFacts
    <3>3. \A x, y : Precedes(new, x, y) => x \in ToSet(new)
      BY OrderFacts
    <3>4. \A x, y : Precedes(rows, x, y) => y \in ToSet(rows)
      BY <2>1, OrderFacts
    <3>5. Together(children, rows \o new, m)
      <4>1. ASSUME NEW x \in Inside(children, m), NEW z \in Inside(children, m), NEW y,
                   Precedes(rows \o new, x, y), Precedes(rows \o new, y, z)
            PROVE  y \in Inside(children, m)
        <5>1. z \notin ToSet(new)
          BY <1>1, <2>1
        <5>2. Precedes(rows, y, z)
          BY <3>1, <3>2, <4>1, <5>1
        <5>3. y \notin ToSet(new)
          <6>1. y \in ToSet(rows)
            BY <2>1, <5>2, OrderFacts
          <6> QED BY <1>1, <2>1, <6>1
        <5>4. Precedes(rows, x, y)
          BY <3>1, <3>2, <4>1, <5>3
        <5> QED BY <2>1, <5>2, <5>4 DEF Together
      <4>2. \A y \in Below(children, m) : Precedes(rows \o new, m, y)
        BY <2>1, <3>1 DEF Together
      <4> QED BY <4>1, <4>2 DEF Together
    <3> QED BY <1>2, <2>2, <3>5
  <2>3. CASE p # None
    <3> DEFINE kids == children
               kids2 == children'
               seq == rows
               last == FindLastNode(p)
    <3>1. /\ kids \in [Node -> Seq(Node)] /\ Grounded(kids) /\ Forked(kids)
          /\ kids2 \in [Node -> Seq(Node)] /\ Grounded(kids2) /\ p \in Node
          /\ seq \in Seq(Node) /\ IsInjective(seq) /\ ToSet(seq) \cap ToSet(new) = {}
          /\ last \in Inside(kids, p) /\ last \in ToSet(seq)
          /\ m \in ToSet(seq) /\ Inside(kids, m) \subseteq ToSet(seq) /\ Together(kids, seq, m)
      BY <1>1, <1>5, <1>6, <1>7, <1>8, <1>13, <2>1, <2>3
    <3>2. LoadedTo(kids, kids2, ToSet(new), p)
      BY <1>7, <1>13, <2>3, LoadedKids DEF Listed
    <3>3. \A z \in Inside(kids, p) : z = last \/ Precedes(seq, z, last)
      <4>1. \A u \in Inside(children, p) : Together(children, rows, u) /\ Ordered(children, rows, u)
        BY <1>7, <1>8, <1>11, <1>13, <2>3
      <4>2. Inside(children, p) \subseteq ToSet(rows) /\ Forked(children) /\ p \in Node
        BY <1>7, <1>8, <1>13, <2>1, <2>3
      <4> QED BY <1>6, <2>1, <4>1, <4>2, LastIsLast
    <3> HIDE DEF kids, kids2, seq, last
    <3>4. Together(kids2, InsertAfter(seq, new, last), m)
      BY ONLY <3>1, <3>2, <3>3, LoadTogether
    <3> QED BY <1>2, <2>3, <3>4 DEF kids2, seq, last
  <2> QED BY <2>2, <2>3
<1>14. ASSUME "remove" \notin history, "move" \notin history, NEW m \in tree'
       PROVE  Ordered(children', rows', m)
  <2>1. m \in Node /\ rows \in Seq(Node) /\ IsInjective(rows) /\ ToSet(rows) = tree
    BY <1>1, <1>2, <1>7, <1>14 DEF Listed
  <2>2. "late" \notin history'
    BY <1>2, <1>14 DEF ListInv
  <2>3. CASE m \in N
    <3>1. p = None \/ LoadedTo(children, children', ToSet(new), p)
      BY <1>7, <1>14, LoadedKids DEF Listed
    <3>2. ToSet(children'[m]) = {}
      BY <1>1, <1>2, <2>3, <3>1 DEF LoadedTo
    <3> QED BY <1>5, <2>1, <3>2, LeafFacts
  <2>4. CASE m \in tree /\ p = None
    <3>1. Ordered(children, rows, m)
      BY <1>11, <1>14, <2>2, <2>4
    <3>2. \A x, y : Precedes(rows, x, y) => Precedes(rows \o new, x, y)
      BY <2>1, ConcatOrder
    <3> QED BY <1>2, <2>4, <3>1, <3>2 DEF Ordered
  <2>5. CASE m \in tree /\ p # None
    <3> DEFINE last == FindLastNode(p)
               rest == ToSet(rows) \ ToSet(new)
               put == InsertAfter(rows, new, last)
    <3>1. /\ last \in rest /\ rest = ToSet(rows) \ ToSet(new) /\ rest = tree
          /\ rows \in Seq(Node) /\ IsInjective(rows)
      BY <1>1, <1>8, <1>14, <2>1, <2>5
    <3>2. \A x, y : Precedes(put, x, y) <=>
            \/ x \in rest /\ y \in rest /\ Precedes(rows, x, y)
            \/ Precedes(new, x, y)
            \/ x \in ToSet(new) /\ y \in rest /\ Precedes(rows, last, y)
            \/ y \in ToSet(new) /\ x \in rest /\ (x = last \/ Precedes(rows, x, last))
      <4> HIDE DEF rest, last
      <4> QED BY ONLY <3>1, InsertFacts
    <3>3. \A x, y : Precedes(rows, x, y) => Precedes(put, x, y)
      <4>1. \A x, y : Precedes(rows, x, y) => x \in ToSet(rows) /\ y \in ToSet(rows)
        BY <2>1, OrderFacts
      <4> HIDE DEF put, rest
      <4> QED BY <2>1, <3>1, <3>2, <4>1
    <3>4. \A x, y : Precedes(children[m], x, y) => Precedes(rows, x, y)
      BY <1>6, <1>11, <1>14, <2>1, <2>2, <2>5, OrderedFacts
    <3>5. \A x, y : Precedes(children'[m], x, y) => Precedes(put, x, y)
      <4>1. CASE m # p
        <5>1. children'[m] = children[m]
          BY <1>6, <2>1, <2>5, <4>1 DEF LoadBranch
        <5> HIDE DEF put
        <5> QED BY <3>3, <3>4, <5>1
      <4>2. CASE m = p
        <5>1. children'[m] = children[m] \o new /\ children[m] \in Seq(Node)
          BY <1>6, <2>1, <2>5, <4>2 DEF LoadBranch
        <5>2. \A x, y : Precedes(children[m] \o new, x, y) <=>
                  \/ Precedes(children[m], x, y) \/ Precedes(new, x, y)
                  \/ x \in ToSet(children[m]) /\ y \in ToSet(new)
          BY <5>1, ConcatOrder
        <5>3. \A x \in ToSet(children[m]) : x \in rest /\ (x = last \/ Precedes(rows, x, last))
          <6>1. \A u \in Inside(children, p) :
                    Together(children, rows, u) /\ Ordered(children, rows, u)
            BY <1>7, <1>8, <1>11, <1>14, <2>2, <2>5
          <6>2. Inside(children, p) \subseteq ToSet(rows) /\ Forked(children) /\ p \in Node
            BY <1>7, <1>8, <1>14, <2>1, <2>5
          <6>3. \A z \in Inside(children, p) : z = last \/ Precedes(rows, z, last)
            BY <1>6, <2>1, <6>1, <6>2, LastIsLast
          <6>4. ToSet(children[m]) \subseteq Inside(children, p)
            <7>1. ToSet(children[p]) \subseteq Below(children, p)
              BY <1>6, <6>2, BelowFacts
            <7> QED BY <4>2, <7>1 DEF Inside
          <6> QED BY <2>1, <3>1, <6>2, <6>3, <6>4
        <5> HIDE DEF put, rest, last
        <5> QED BY <3>2, <3>3, <3>4, <5>1, <5>2, <5>3
      <4> QED BY <4>1, <4>2
    <3>6. rows' = put
      BY <1>2, <2>5
    <3> HIDE DEF put
    <3>7. Ordered(children', put, m)
      BY <1>5, <2>1, <3>5, OrderedFacts
    <3> QED BY <3>6, <3>7
  <2> QED BY <1>2, <2>3, <2>4, <2>5
<1>15. /\ "remove" \in history' <=> "remove" \in history
       /\ "move" \in history' <=> "move" \in history
  BY <1>2
<1>16. history' \cap {"remove", "late"} = {} => \A m \in tree' : Together(children', rows', m)
  BY <1>2, <1>12, <1>13, <1>15
<1>17. history' \cap {"remove", "move"} = {} => \A m \in tree' : Ordered(children', rows', m)
  BY <1>14, <1>15
<1>18. "late" \in history' => "move" \in history'
  BY <1>2, <1>15 DEF ListInv
<1> QED BY <1>3, <1>4, <1>10, <1>15, <1>16, <1>17, <1>18 DEF ListInv

-----------------------------------------------------------------------------
(* Unloads and removals.                                                   *)

\* Nodes leave a list without repetitions.
LEMMA OnlyInjective ==
    ASSUME NEW seq \in Seq(Node), NEW S, IsInjective(seq)
    PROVE  IsInjective(Only(seq, S))
<1>1. Only(seq, S) \in Seq(Node)
  BY OnlyFacts
<1>2. \A x : ~Precedes(seq, x, x)
  BY OrderFacts
<1>3. \A x : ~Precedes(Only(seq, S), x, x)
  BY <1>2, OnlyOrder
<1> QED BY <1>1, <1>3, OrderFacts

\* What an unload leaves is together and in order.
LEMMA UnloadLists ==
    ASSUME TableInv, TableInv', ListInv, NEW n \in Node, UnloadBranch(n)
    PROVE  ListInv'
<1> DEFINE gone == Below(children, n)
           order == Postorder(children, n)
<1>1. /\ n \in tree /\ tree' = tree \ gone /\ rows' = Only(rows, Node \ gone)
      /\ nodes' = Through(Splice, nodes, order)
      /\ children' = [m \in Node |-> IF m \in gone \cup {n} THEN <<>> ELSE children[m]]
      /\ history' = history
  BY DEF UnloadBranch, Unload
<1>2. /\ children \in [Node -> Seq(Node)] /\ Grounded(children) /\ tree \subseteq Node
      /\ nodes \in Seq(Node) /\ rows \in Seq(Node) /\ IsFiniteSet(tree)
  BY ListFactsOfTable DEF ListInv
<1>3. order \in Seq(Node) /\ ToSet(order) = gone
  BY <1>2, PostorderFacts
<1>4. IsFiniteSet(tree') /\ nodes' \in Seq(Node) /\ rows' \in Seq(Node)
  <2>1. IsFiniteSet(tree \ gone)
    BY <1>2, FS_Subset
  <2>2. Through(Splice, nodes, order) \in Seq(Node)
    <3> HIDE DEF order
    <3> QED BY <1>2, <1>3, SpliceFacts
  <2>3. Only(rows, Node \ gone) \in Seq(Node)
    BY <1>2, OnlyFacts
  <2> QED BY <1>1, <2>1, <2>2, <2>3
<1>5. children' \in [Node -> Seq(Node)] /\ Grounded(children')
  BY <1>4, NextGrounded
<1>6. ASSUME "remove" \notin history
      PROVE  /\ Listed /\ Forked(children) /\ gone \subseteq tree
             /\ \A m \in tree : Inside(children, m) \subseteq tree
  BY <1>6, ListFactsOfTable DEF ListInv
<1>7. ASSUME "remove" \notin history
      PROVE  ToSet(rows') = tree' /\ IsInjective(rows')
  <2>1. ToSet(rows) = tree /\ IsInjective(rows)
    BY <1>6, <1>7 DEF Listed
  <2>2. ToSet(Only(rows, Node \ gone)) = ToSet(rows) \cap (Node \ gone)
    BY <1>2, OnlyFacts
  <2>3. IsInjective(Only(rows, Node \ gone))
    BY <1>2, <2>1, OnlyInjective
  <2> QED BY <1>1, <1>2, <2>1, <2>2, <2>3
<1>8. ASSUME "remove" \notin history
      PROVE  ToSet(nodes') = tree' /\ IsInjective(nodes')
  <2>1. IsInjective(order)
    BY <1>2, <1>6, <1>8, PostorderFacts
  <2>2. ToSet(order) \subseteq ToSet(nodes) /\ IsInjective(nodes) /\ ToSet(nodes) = tree
    BY <1>3, <1>6, <1>8 DEF Listed
  <2>3. /\ IsInjective(Through(Splice, nodes, order))
        /\ ToSet(Through(Splice, nodes, order)) = ToSet(nodes) \ ToSet(order)
    <3> HIDE DEF order
    <3> QED BY <1>2, <1>3, <2>1, <2>2, SpliceFacts
  <2> QED BY <1>1, <1>3, <2>2, <2>3
<1>9. ASSUME "remove" \notin history, NEW m \in Node, m \notin gone \cup {n}
      PROVE  children'[m] = children[m] /\ ToSet(children[m]) \cap gone = {}
  <2>1. \A x \in ToSet(children[m]) : x \in gone => m \in Inside(children, n)
    BY <1>2, <1>6, <1>9, BranchFacts
  <2> QED BY <1>1, <1>9, <2>1 DEF Inside
<1>10. ASSUME NEW m \in gone \cup {n}, m \in Node
       PROVE  children'[m] = <<>> /\ ToSet(children'[m]) = {} /\ IsInjective(children'[m])
  <2>1. children'[m] = <<>>
    BY <1>1, <1>10
  <2>2. ToSet(<<>>) = {} /\ IsInjective(<<>>)
    BY DEF ToSet, IsInjective
  <2> QED BY <2>1, <2>2
<1>11. ASSUME "remove" \notin history PROVE Listed'
  <2>1. ASSUME NEW m \in Node
        PROVE  ToSet(children'[m]) \subseteq tree' /\ IsInjective(children'[m])
    <3>1. CASE m \in gone \cup {n}
      BY <1>10, <3>1
    <3>2. CASE m \notin gone \cup {n}
      <4>1. children'[m] = children[m] /\ ToSet(children[m]) \cap gone = {}
        BY <1>9, <1>11, <3>2
      <4>2. ToSet(children[m]) \subseteq tree /\ IsInjective(children[m])
        BY <1>6, <1>11 DEF Listed
      <4> QED BY <1>1, <4>1, <4>2
    <3> QED BY <3>1, <3>2
  <2> QED BY <1>7, <1>8, <1>11, <2>1 DEF Listed
<1>12. \A x, y : Precedes(rows', x, y) <=>
                    Precedes(rows, x, y) /\ x \in Node \ gone /\ y \in Node \ gone
  BY <1>1, <1>2, OnlyOrder
<1>13. ASSUME history \cap {"remove", "late"} = {}, NEW m \in tree'
       PROVE  Together(children', rows', m)
  <2>1. "remove" \notin history /\ m \in Node \ gone /\ m \in tree
    BY <1>1, <1>2, <1>13
  <2>2. Together(children, rows, m)
    BY <1>13, <2>1 DEF ListInv
  <2>3. Inside(children', m) = Inside(children, m) \ gone
    <3> DEFINE kids == children
               kids2 == children'
    <3>1. /\ kids \in [Node -> Seq(Node)] /\ Grounded(kids) /\ Forked(kids)
          /\ kids2 \in [Node -> Seq(Node)] /\ n \in Node /\ m \in Node \ Below(kids, n)
      BY <1>2, <1>5, <1>6, <2>1
    <3>2. Emptied(kids, kids2, Inside(kids, n))
      BY <1>1 DEF Emptied, Inside
    <3>3. Inside(kids2, m) = Inside(kids, m) \ Below(kids, n)
      <4> HIDE DEF kids, kids2
      <4> QED BY ONLY <3>1, <3>2, UnloadBranches
    <3> QED BY <3>3
  <2>4. m \notin Below(children', m)
    BY <1>5, <2>1, NotBelowItself
  <2>5. ASSUME NEW y \in Below(children', m) PROVE Precedes(rows', m, y)
    <3>1. y \in Below(children, m) /\ y \notin gone
      BY <2>3, <2>4, <2>5 DEF Inside
    <3>2. y \in Node
      BY <1>2, <2>1, <3>1, BelowFacts
    <3> QED BY <1>12, <2>1, <2>2, <3>1, <3>2 DEF Together
  <2>6. \A x, z \in Inside(children', m) : \A y :
            Precedes(rows', x, y) /\ Precedes(rows', y, z) => y \in Inside(children', m)
    BY <1>12, <2>2, <2>3 DEF Together
  <2> QED BY <2>5, <2>6 DEF Together
<1>14. ASSUME history \cap {"remove", "move"} = {}, NEW m \in tree'
       PROVE  Ordered(children', rows', m)
  <2>1. "remove" \notin history /\ m \in Node /\ m \in tree
    BY <1>1, <1>2, <1>14
  <2>2. CASE m \in gone \cup {n}
    BY <1>5, <1>10, <2>1, <2>2, LeafFacts
  <2>3. CASE m \notin gone \cup {n}
    <3>1. children'[m] = children[m] /\ ToSet(children[m]) \cap gone = {}
      BY <1>9, <2>1, <2>3
    <3>2. Ordered(children, rows, m)
      BY <1>14, <2>1 DEF ListInv
    <3>3. \A x, y : Precedes(children[m], x, y) => Precedes(rows, x, y)
      BY <1>2, <2>1, <3>2, OrderedFacts
    <3>4. \A x, y : Precedes(children[m], x, y) =>
              x \in ToSet(children[m]) /\ y \in ToSet(children[m])
      <4>1. children[m] \in Seq(Node)
        BY <1>2, <2>1
      <4> QED BY <4>1, OrderFacts
    <3>5. ToSet(children[m]) \subseteq Node
      BY <1>2, <2>1, KidFacts
    <3>6. \A x, y : Precedes(children'[m], x, y) => Precedes(rows', x, y)
      BY <1>12, <3>1, <3>3, <3>4, <3>5
    <3> QED BY <1>5, <2>1, <3>6, OrderedFacts
  <2> QED BY <2>2, <2>3
<1> QED BY <1>1, <1>4, <1>11, <1>13, <1>14 DEF ListInv

\* A row that is removed alone leaves lists of nodes.
LEMMA RemoveLists ==
    ASSUME TableInv, ListInv, NEW n \in Node, RemoveNode(n)
    PROVE  ListInv'
<1> DEFINE gone == Below(children, n) \cup {n}
           order == Append(Postorder(children, n), n)
<1>1. /\ tree' = tree \ gone /\ rows' = Only(rows, Node \ gone)
      /\ nodes' = Through(Splice, nodes, order)
      /\ history' = history \cup {"remove"}
  BY DEF RemoveNode, Unload
<1>2. /\ children \in [Node -> Seq(Node)] /\ Grounded(children)
      /\ nodes \in Seq(Node) /\ rows \in Seq(Node) /\ IsFiniteSet(tree)
  BY ListFactsOfTable DEF ListInv
<1>3. order \in Seq(Node)
  <2>1. Postorder(children, n) \in Seq(Node)
    BY <1>2, PostorderFacts
  <2> QED BY <2>1, AppendFacts
<1>4. IsFiniteSet(tree') /\ nodes' \in Seq(Node) /\ rows' \in Seq(Node)
  <2>1. IsFiniteSet(tree \ gone)
    BY <1>2, FS_Subset
  <2>2. Through(Splice, nodes, order) \in Seq(Node)
    <3> HIDE DEF order
    <3> QED BY <1>2, <1>3, SpliceFacts
  <2>3. Only(rows, Node \ gone) \in Seq(Node)
    BY <1>2, OnlyFacts
  <2> QED BY <1>1, <2>1, <2>2, <2>3
<1>5. "late" \in history' => "move" \in history'
  BY <1>1 DEF ListInv
<1> QED BY <1>1, <1>4, <1>5 DEF ListInv

-----------------------------------------------------------------------------
(* Sorting.                                                                *)

\* A list of all the elements of a set has each once.
LEMMA SortedOnce ==
    ASSUME NEW S, NEW list \in SetToSeqs(S)
    PROVE  IsInjective(list)
<1> DEFINE K == 1..Cardinality(S)
<1>1. list \in [K -> S] /\ \A i, j \in K : i # j => list[i] # list[j]
  BY DEF SetToSeqs
<1> QED BY <1>1 DEF IsInjective

\* Lists of children with the same elements have the same branches.
LEMMA SameBranches ==
    ASSUME NEW kids, kids \in [Node -> Seq(Node)], NEW kids2, kids2 \in [Node -> Seq(Node)],
           \A m \in Node : ToSet(kids2[m]) = ToSet(kids[m])
    PROVE  \A m \in Node : Below(kids2, m) = Below(kids, m) /\ Inside(kids2, m) = Inside(kids, m)
<1>1. DOMAIN kids = Node /\ DOMAIN kids2 = Node
  OBVIOUS
<1>2. Lists(kids2) = Lists(kids)
  BY <1>1 DEF Lists
<1>3. \A m \in Node : Below(kids2, m) = Below(kids, m)
  BY <1>2 DEF Below
<1> QED BY <1>3 DEF Inside

\* What a sort does to the rows: the branch below n is laid out again after it.
LEMMA SortRows ==
    ASSUME NEW kids, kids \in [Node -> Seq(Node)], Grounded(kids), Forked(kids),
           NEW n \in Node, NEW seq \in Seq(Node), IsInjective(seq),
           Inside(kids, n) \subseteq ToSet(seq)
    PROVE  /\ SortChildRows(seq, kids, n) \in Seq(Node)
           /\ ToSet(SortChildRows(seq, kids, n)) = ToSet(seq)
           /\ IsInjective(SortChildRows(seq, kids, n))
           /\ \A m \in ToSet(seq) :
                Inside(kids, m) \subseteq ToSet(seq) /\ Together(kids, seq, m)
                    => Together(kids, SortChildRows(seq, kids, n), m)
           /\ \A m \in Inside(kids, n) : Ordered(kids, SortChildRows(seq, kids, n), m)
           /\ \A x, y \in ToSet(seq) \ Below(kids, n) :
                Precedes(seq, x, y) => Precedes(SortChildRows(seq, kids, n), x, y)
<1> DEFINE pre == Preorder(kids, n)
           block == Tail(pre)
           put == InsertAfter(seq, block, n)
           rest == ToSet(seq) \ ToSet(block)
<1>1. /\ pre \in Seq(Node) /\ block \in Seq(Node)
      /\ ToSet(pre) = Inside(kids, n) /\ ToSet(block) = Below(kids, n)
      /\ \A x, y : Precedes(pre, x, y) <=>
                (x = n /\ y \in Below(kids, n)) \/ Precedes(block, x, y)
  BY PreorderFacts
<1>2. /\ IsInjective(pre)
      /\ \A m \in Inside(kids, n) : Together(kids, pre, m) /\ Ordered(kids, pre, m)
  BY PreorderIsLaid
<1>3. n \notin Below(kids, n) /\ n \in Inside(kids, n)
  BY NotBelowItself DEF Inside
<1>4. n \in rest /\ rest = ToSet(seq) \ ToSet(block) /\ n \in ToSet(seq) \ ToSet(block)
  BY <1>1, <1>3
<1>5. SortChildRows(seq, kids, n) = put
  BY DEF SortChildRows
<1>6. IsInjective(block)
  <2>1. \A x : ~Precedes(block, x, x)
    <3>1. \A x : ~Precedes(pre, x, x)
      <4> HIDE DEF pre, block
      <4> QED BY <1>1, <1>2, OrderFacts
    <3> QED BY <1>1, <3>1
  <2> HIDE DEF block
  <2> QED BY <1>1, <2>1, OrderFacts
<1> HIDE DEF pre, block
<1>7. /\ seq \in Seq(Node) /\ IsInjective(seq) /\ block \in Seq(Node)
      /\ n \in rest /\ rest = ToSet(seq) \ ToSet(block)
  BY <1>1, <1>4
<1>8. put \in Seq(Node) /\ ToSet(put) = rest \cup ToSet(block)
  <2> HIDE DEF rest
  <2> QED BY <1>7, InsertFacts
<1>9. \A x, y : Precedes(put, x, y) <=>
            \/ x \in rest /\ y \in rest /\ Precedes(seq, x, y)
            \/ Precedes(block, x, y)
            \/ x \in ToSet(block) /\ y \in rest /\ Precedes(seq, n, y)
            \/ y \in ToSet(block) /\ x \in rest /\ (x = n \/ Precedes(seq, x, n))
  <2> HIDE DEF rest
  <2> QED BY ONLY <1>7, InsertFacts
<1>10. IsInjective(put)
  BY <1>1, <1>4, <1>6, InsertInjective
<1>11. ToSet(put) = ToSet(seq)
  <2>1. ToSet(block) \subseteq ToSet(seq)
    BY <1>1 DEF Inside
  <2> HIDE DEF put
  <2> QED BY <1>8, <2>1
<1>12. ASSUME NEW m \in Below(kids, n)
       PROVE  Inside(kids, m) \subseteq ToSet(block) /\ m \in Node
  <2>1. Below(kids, n) \subseteq Node /\ Below(kids, m) \subseteq Below(kids, n)
    BY <1>12, BelowFacts, BelowSteps
  <2> QED BY <1>1, <1>12, <2>1 DEF Inside
<1>13. ASSUME NEW m \in Below(kids, n) PROVE Together(kids, put, m)
  <2>1. Inside(kids, m) \subseteq ToSet(block) /\ m \in Node /\ Below(kids, m) \subseteq Inside(kids, m)
    BY <1>12, <1>13 DEF Inside
  <2>2. Together(kids, pre, m)
    BY <1>2, <1>13 DEF Inside
  <2>3. Together(kids, block, m)
    <3>1. \A x, y : Precedes(block, x, y) => Precedes(pre, x, y)
      BY <1>1
    <3>2. \A x, z \in Inside(kids, m) : \A y :
              Precedes(block, x, y) /\ Precedes(block, y, z) => y \in Inside(kids, m)
      BY <2>2, <3>1 DEF Together
    <3>3. m # n
      BY <1>3, <1>13
    <3>4. \A y \in Below(kids, m) : Precedes(block, m, y)
      BY <1>1, <2>2, <3>3 DEF Together
    <3> QED BY <3>2, <3>4 DEF Together
  <2> QED BY <1>1, <1>4, <2>1, <2>3, BlockTogether
<1>14. ASSUME NEW m \in ToSet(seq), m \notin Below(kids, n),
              Inside(kids, m) \subseteq ToSet(seq), Together(kids, seq, m)
       PROVE  Together(kids, put, m)
  <2> DEFINE E == Inside(kids, m) \ ToSet(block)
             F == Inside(kids, m)
  <2>1. m \in Node
    BY ListFacts
  <2>2. /\ E \subseteq rest
        /\ \/ n \in E /\ F = E \cup ToSet(block)
           \/ F = E /\ n \notin E
    <3>1. CASE n \in Inside(kids, m)
      <4>1. Below(kids, n) \subseteq Below(kids, m)
        <5>1. n = m \/ n \in Below(kids, m)
          BY <3>1 DEF Inside
        <5> QED BY <2>1, <5>1, BelowSteps
      <4> QED BY <1>1, <1>4, <1>14, <3>1, <4>1 DEF Inside
    <3>2. CASE n \notin Inside(kids, m)
      <4>1. m \notin Inside(kids, n)
        BY <1>14, <3>2 DEF Inside
      <4>2. \A x \in Inside(kids, m) : x \notin Inside(kids, n)
        BY <2>1, <3>2, <4>1, BranchFacts
      <4>3. Inside(kids, m) \cap ToSet(block) = {}
        BY <1>1, <4>2 DEF Inside
      <4> QED BY <1>4, <1>14, <3>2, <4>3
    <3> QED BY <3>1, <3>2
  <2>3. \A x, z \in E : \A y :
            Precedes(seq, x, y) /\ Precedes(seq, y, z) /\ y \in rest => y \in E
    BY <1>14 DEF Together
  <2>4. \A x, z \in F : \A y : Precedes(put, x, y) /\ Precedes(put, y, z) => y \in F
    <3> HIDE DEF E, F, rest
    <3> QED BY ONLY <1>7, <2>2, <2>3, InsertTogether
  <2>5. ASSUME NEW y \in Below(kids, m) PROVE Precedes(put, m, y)
    <3>1. Precedes(seq, m, y) /\ y \in F /\ m \in rest
      BY <1>1, <1>14, <2>5 DEF Together, Inside
    <3>2. CASE y \in rest
      <4> HIDE DEF put, rest
      <4> QED BY <1>9, <3>1, <3>2
    <3>3. CASE y \in ToSet(block)
      <4>1. n \in F
        BY <1>4, <2>2, <3>1, <3>3
      <4>2. n = m \/ Precedes(seq, m, n)
        BY <1>14, <4>1 DEF Together, Inside
      <4> HIDE DEF put, rest
      <4> QED BY <1>9, <3>1, <3>3, <4>2
    <3> QED BY <1>14, <3>1, <3>2, <3>3
  <2> QED BY <2>4, <2>5 DEF Together
<1>15. ASSUME NEW m \in Inside(kids, n) PROVE Ordered(kids, put, m)
  <2>1. m \in Node /\ Ordered(kids, pre, m)
    <3>1. Below(kids, n) \subseteq Node
      BY BelowFacts
    <3> QED BY <1>2, <1>15, <3>1 DEF Inside
  <2>2. \A x, y : Precedes(kids[m], x, y) => Precedes(pre, x, y)
    BY <2>1, OrderedFacts
  <2>3. \A x, y : Precedes(kids[m], x, y) => x \in ToSet(kids[m])
    <3>1. kids[m] \in Seq(Node)
      BY <2>1
    <3> QED BY <3>1, OrderFacts
  <2>4. ToSet(kids[m]) \subseteq Below(kids, n)
    BY <1>15, BelowFacts DEF Inside
  <2>5. \A x, y : Precedes(kids[m], x, y) => Precedes(put, x, y)
    BY <1>1, <1>3, <1>9, <2>2, <2>3, <2>4
  <2> HIDE DEF put
  <2> QED BY <2>1, <2>5, OrderedFacts
<1>16. \A x, y \in ToSet(seq) \ Below(kids, n) : Precedes(seq, x, y) => Precedes(put, x, y)
  <2>1. ToSet(seq) \ Below(kids, n) = rest
    BY <1>1
  <2> HIDE DEF put, rest
  <2> QED BY <1>9, <2>1
<1> HIDE DEF put
<1> QED BY <1>5, <1>8, <1>10, <1>11, <1>13, <1>14, <1>15, <1>16

\* A sort keeps the lists.
LEMMA SortLists ==
    ASSUME TableInv, TableInv', ListInv, NEW n \in Node, SortBranch(n)
    PROVE  ListInv'
<1>1. /\ n \in tree /\ tree' = tree /\ nodes' = nodes /\ history' = history
      /\ rows' = SortChildRows(rows, children', n)
  BY DEF SortBranch
<1>2. /\ children \in [Node -> Seq(Node)] /\ tree \subseteq Node /\ IsFiniteSet(tree')
      /\ nodes \in Seq(Node) /\ rows \in Seq(Node)
  BY <1>1, ListFactsOfTable DEF ListInv
<1>3. children' \in [Node -> Seq(Node)] /\ Grounded(children')
  BY <1>2, NextGrounded
<1>4. PICK list \in SetToSeqs(ToSet(children[n])) :
        children' = [children EXCEPT ![n] = list]
  BY DEF SortBranch
<1>5. list \in Seq(Node) /\ ToSet(list) = ToSet(children[n]) /\ IsInjective(list)
  <2>1. children[n] \in Seq(Node)
    BY <1>2
  <2> QED BY <2>1, SortedFacts, SortedOnce
<1>6. /\ children'[n] = list /\ \A m \in Node \ {n} : children'[m] = children[m]
      /\ \A m \in Node : ToSet(children'[m]) = ToSet(children[m])
  BY <1>2, <1>4, <1>5
<1>7. \A m \in Node : /\ Below(children', m) = Below(children, m)
                      /\ Inside(children', m) = Inside(children, m)
  <2> DEFINE kids == children
             kids2 == children'
  <2>1. /\ kids \in [Node -> Seq(Node)] /\ kids2 \in [Node -> Seq(Node)]
        /\ \A m \in Node : ToSet(kids2[m]) = ToSet(kids[m])
    BY <1>2, <1>3, <1>6
  <2>2. \A m \in Node : Below(kids2, m) = Below(kids, m) /\ Inside(kids2, m) = Inside(kids, m)
    <3> HIDE DEF kids, kids2
    <3> QED BY ONLY <2>1, SameBranches
  <2> QED BY <2>2
<1>8. rows' \in Seq(Node)
  <2> DEFINE block == Tail(Preorder(children', n))
  <2>1. block \in Seq(Node)
    BY <1>3, PreorderFacts
  <2>2. InsertAfter(rows, block, n) \in Seq(Node)
    <3> HIDE DEF block
    <3> QED BY <1>2, <2>1, InsertType
  <2> QED BY <1>1, <2>2 DEF SortChildRows
<1>9. ASSUME "remove" \notin history
      PROVE  /\ Listed /\ Forked(children')
             /\ \A m \in tree : Inside(children, m) \subseteq ToSet(rows)
  <2>1. Listed /\ Forked(children) /\ \A m \in tree : Inside(children, m) \subseteq tree
    BY <1>9, ListFactsOfTable DEF ListInv
  <2>2. \A m \in Node : IsInjective(children'[m])
    BY <1>5, <1>6, <2>1 DEF Listed
  <2>3. \A m, p \in Node : ToSet(children'[m]) \cap ToSet(children'[p]) # {} => m = p
    BY <1>6, <2>1 DEF Forked
  <2> QED BY <2>1, <2>2, <2>3 DEF Forked, Listed
<1>10. ASSUME "remove" \notin history
       PROVE  /\ rows' \in Seq(Node) /\ ToSet(rows') = ToSet(rows) /\ IsInjective(rows')
              /\ \A m \in ToSet(rows) :
                    Inside(children', m) \subseteq ToSet(rows) /\ Together(children', rows, m)
                      => Together(children', rows', m)
              /\ \A m \in Inside(children', n) : Ordered(children', rows', m)
              /\ \A x, y \in ToSet(rows) \ Below(children', n) :
                    Precedes(rows, x, y) => Precedes(rows', x, y)
  <2> DEFINE kids == children'
             seq == rows
  <2>1. /\ kids \in [Node -> Seq(Node)] /\ Grounded(kids) /\ Forked(kids) /\ n \in Node
        /\ seq \in Seq(Node) /\ IsInjective(seq) /\ Inside(kids, n) \subseteq ToSet(seq)
    BY <1>1, <1>2, <1>3, <1>7, <1>9, <1>10 DEF Listed
  <2>2. rows' = SortChildRows(seq, kids, n)
    BY <1>1
  <2>3. ToSet(rows') = ToSet(seq) /\ IsInjective(rows')
    <3> HIDE DEF kids, seq
    <3> QED BY ONLY <2>1, <2>2, SortRows
  <2>4. \A m \in ToSet(seq) :
                Inside(kids, m) \subseteq ToSet(seq) /\ Together(kids, seq, m)
                    => Together(kids, rows', m)
    <3> HIDE DEF kids, seq
    <3> QED BY ONLY <2>1, <2>2, SortRows
  <2>5. \A m \in Inside(kids, n) : Ordered(kids, rows', m)
    <3> HIDE DEF kids, seq
    <3> QED BY ONLY <2>1, <2>2, SortRows
  <2>6. \A x, y \in ToSet(seq) \ Below(kids, n) :
                Precedes(seq, x, y) => Precedes(rows', x, y)
    <3> HIDE DEF kids, seq
    <3> QED BY ONLY <2>1, <2>2, SortRows
  <2> QED BY <1>8, <2>3, <2>4, <2>5, <2>6
<1>11. ASSUME "remove" \notin history PROVE Listed'
  <2>1. \A m \in Node : ToSet(children'[m]) \subseteq tree' /\ IsInjective(children'[m])
    BY <1>1, <1>5, <1>6, <1>9, <1>11 DEF Listed
  <2> QED BY <1>1, <1>9, <1>10, <1>11, <2>1 DEF Listed
<1>12. ASSUME history \cap {"remove", "late"} = {}, NEW m \in tree'
       PROVE  Together(children', rows', m)
  <2>1. "remove" \notin history /\ m \in Node /\ m \in tree
    BY <1>1, <1>2, <1>12
  <2>2. Together(children, rows, m)
    BY <1>12, <2>1 DEF ListInv
  <2>3. Together(children', rows, m)
    BY <1>7, <2>1, <2>2 DEF Together
  <2>4. m \in ToSet(rows) /\ Inside(children', m) \subseteq ToSet(rows)
    BY <1>7, <1>9, <2>1 DEF Listed
  <2> QED BY <1>10, <2>1, <2>3, <2>4
<1>13. ASSUME history \cap {"remove", "move"} = {}, NEW m \in tree'
       PROVE  Ordered(children', rows', m)
  <2>1. "remove" \notin history /\ m \in Node /\ m \in tree
    BY <1>1, <1>2, <1>13
  <2>2. CASE m \in Inside(children', n)
    BY <1>10, <2>1, <2>2
  <2>3. CASE m \notin Inside(children', n)
    <3>1. m # n /\ children'[m] = children[m]
      BY <1>6, <2>1, <2>3 DEF Inside
    <3>2. Ordered(children, rows, m)
      BY <1>13, <2>1 DEF ListInv
    <3>3. \A x, y : Precedes(children[m], x, y) => Precedes(rows, x, y)
      BY <1>2, <2>1, <3>2, OrderedFacts
    <3>4. \A x, y : Precedes(children[m], x, y) =>
              x \in ToSet(children[m]) /\ y \in ToSet(children[m])
      <4>1. children[m] \in Seq(Node)
        BY <1>2, <2>1
      <4> QED BY <4>1, OrderFacts
    <3>5. ToSet(children[m]) \subseteq ToSet(rows) \ Below(children', n)
      <4>1. \A x \in ToSet(children'[m]) : x \notin Below(children', n)
        BY <1>1, <1>2, <1>3, <1>9, <2>1, <2>3, BranchFacts
      <4>2. ToSet(children[m]) \subseteq ToSet(rows)
        BY <1>9, <2>1 DEF Listed
      <4> QED BY <3>1, <4>1, <4>2
    <3>6. \A x, y : Precedes(children'[m], x, y) => Precedes(rows', x, y)
      BY <1>10, <2>1, <3>1, <3>3, <3>4, <3>5
    <3> QED BY <1>3, <2>1, <3>6, OrderedFacts
  <2> QED BY <2>2, <2>3
<1> QED BY <1>1, <1>2, <1>8, <1>11, <1>12, <1>13 DEF ListInv

\* Nothing else changes the lists.
LEMMA BrowseLists ==
    ASSUME ListInv, Browse \/ UNCHANGED vars
    PROVE  ListInv'
<1>1. /\ tree' = tree /\ nodes' = nodes /\ rows' = rows /\ children' = children
      /\ history' = history
  BY DEF Browse, Toggle, CollapseNode, ExpandNode, Reveal, CollapseAll, ExpandAll,
         Structure, vars
<1> QED BY <1>1 DEF ListInv, Listed

\* Every step keeps the lists.
LEMMA StepLists ==
    ASSUME TableInv, ListInv, [Next]_vars
    PROVE  ListInv'
<1>1. TableInv'
  BY StepImplementsForest
<1>2. CASE Browse \/ UNCHANGED vars
  BY <1>2, BrowseLists
<1>3. CASE Edit
  <2>1. CASE Load
    <3>1. PICK p \in Node \cup {None}, new \in SeqOf(Node, MaxLoad) :
              IsInjective(new) /\ LoadBranch(p, new)
      BY <2>1 DEF Load
    <3>2. new \in Seq(Node)
      BY TreeTableAssumption DEF TreeTableAssumption, SeqOf
    <3> QED BY <1>1, <3>1, <3>2, LoadLists
  <2>2. ASSUME NEW n \in Node, NEW target \in Node, Move(n, target)
        PROVE  ListInv'
    BY <1>1, <2>2, MoveLists
  <2>3. ASSUME NEW n \in Node, UnloadBranch(n) \/ RemoveNode(n) \/ SortBranch(n)
        PROVE  ListInv'
    BY <1>1, <2>3, UnloadLists, RemoveLists, SortLists
  <2> QED BY <1>3, <2>1, <2>2, <2>3 DEF Edit
<1> QED BY <1>2, <1>3 DEF Next

-----------------------------------------------------------------------------
(* The rows of the page.                                                   *)

\* The branches of the roots hold every node of the tree, each one once.
LEMMA RootFacts ==
    ASSUME TableInv, \A n \in Node : ToSet(children[n]) \subseteq tree,
           Grounded(children), Forked(children)
    PROVE  /\ \A m \in tree : \E r \in tree : parentId[r] = None /\ m \in Inside(children, r)
           /\ \A r, q \in tree : parentId[r] = None /\ parentId[q] = None =>
                \A x : x \in Inside(children, r) /\ x \in Inside(children, q) => r = q
<1>0. /\ children \in [Node -> Seq(Node)] /\ tree \subseteq Node /\ None \notin Node
      /\ parentId \in [Node -> Node \cup {None}]
      /\ \A n \in tree : parentId[n] \in tree \cup {None} /\ Up[n] = parentId[n]
      /\ \A n \in Node \ tree : ToSet(children[n]) = {}
      /\ \A n, p \in tree : n \in ToSet(children[p]) <=> parentId[n] = p
  BY TableFacts
<1> DEFINE root(r) == r \in tree /\ parentId[r] = None
           S == {m \in tree : \A r \in tree : root(r) => m \notin Inside(children, r)}
<1>1. \A n \in S : Up[n] \in S
  <2> SUFFICES ASSUME NEW n \in S PROVE Up[n] \in S
    OBVIOUS
  <2>1. n \in Inside(children, n)
    BY DEF Inside
  <2>2. parentId[n] # None
    BY <2>1
  <2> DEFINE p == parentId[n]
  <2>3. p \in tree /\ n \in ToSet(children[p]) /\ Up[n] = p
    BY <1>0, <2>2
  <2>4. ASSUME NEW r \in tree, root(r), p \in Inside(children, r) PROVE FALSE
    <3>1. ToSet(children[p]) \subseteq Below(children, r)
      BY <1>0, <2>4, BelowFacts DEF Inside
    <3>2. n \in Inside(children, r)
      BY <2>3, <3>1 DEF Inside
    <3> QED BY <2>4, <3>2
  <2> QED BY <2>3, <2>4
<1>2. S \in SUBSET Node /\ Acyclic(Up, Node)
  BY <1>0 DEF TableInv, IsForest
<1>3. S = {}
  <2> HIDE DEF S
  <2> QED BY <1>1, <1>2, ClosedIsEmpty
<1>4. ASSUME NEW r \in tree, NEW q \in tree, root(r), r \in Inside(children, q) PROVE r = q
  <2> SUFFICES ASSUME r \in Below(children, q) PROVE FALSE
    BY <1>4 DEF Inside
  <2>1. PICK p \in Inside(children, q) : r \in ToSet(children[p])
    BY <1>0, BelowSteps
  <2>2. p \in Node
    BY <1>0, BelowFacts DEF Inside
  <2>3. p \in tree
    BY <1>0, <2>1, <2>2
  <2>4. parentId[r] = p
    BY <1>0, <2>1, <2>3
  <2> QED BY <1>0, <1>4, <2>2, <2>4
<1>5. ASSUME NEW r \in tree, NEW q \in tree, root(r), root(q), NEW x,
             x \in Inside(children, r), x \in Inside(children, q)
      PROVE  r = q
  <2>1. r \in Inside(children, q) \/ q \in Inside(children, r)
    BY <1>0, <1>5, BranchFacts
  <2> QED BY <1>4, <1>5, <2>1
<1> QED BY <1>3, <1>5

\* The rows of the page are the branches of the roots, one after the other.
LEMMA InitLists == Init => ListInv
<1> SUFFICES ASSUME Init PROVE ListInv
  OBVIOUS
<1>1. TableInv /\ FirstRows \in Seq(Node) /\ IsInjective(FirstRows)
  BY InitIsForest, TreeTableAssumption DEF TreeTableAssumption
<1>2. /\ tree = ToSet(FirstRows) /\ nodes = FirstRows /\ rows = FirstRows /\ history = {}
      /\ children = [n \in Node |-> ChildList(parentId, FirstRows, n)]
  BY DEF Init
<1>3. IsFiniteSet(tree)
  BY <1>1, <1>2, ListIsFinite
<1>4. Listed
  <2>1. ASSUME NEW n \in Node
        PROVE  ToSet(children[n]) \subseteq tree /\ IsInjective(children[n])
    <3>1. children[n] = Only(FirstRows, {m \in Node : parentId[m] = n})
      BY <1>2 DEF ChildList
    <3> QED BY <1>1, <1>2, <3>1, OnlyFacts, OnlyInjective
  <2> QED BY <1>1, <1>2, <2>1 DEF Listed
<1>5. /\ children \in [Node -> Seq(Node)] /\ Grounded(children) /\ Forked(children)
      /\ tree \subseteq Node
  <2>1. Forked(children)
    BY <1>1, <1>4, ForestIsForked DEF Listed
  <2>2. /\ IsForest(tree, Up) /\ children \in [Node -> Seq(Node)]
        /\ \A m \in Node \ tree : ToSet(children[m]) = {}
        /\ \A m, k \in tree : k \in ToSet(children[m]) => Up[k] = m
        /\ tree \subseteq Node
    BY <1>1, TableFacts DEF TableInv
  <2>3. Grounded(children)
    BY <1>3, <2>2, ForestIsGrounded
  <2> QED BY <2>1, <2>2, <2>3
<1> DEFINE top == Roots(parentId, FirstRows)
           K == 1..Len(top)
           ss == [i \in K |-> Preorder(children, top[i])]
<1>6. /\ top \in Seq(Node) /\ IsInjective(top)
      /\ ToSet(top) = {m \in tree : parentId[m] = None}
  <2>1. top = Only(FirstRows, {m \in Node : parentId[m] = None})
    BY DEF Roots
  <2>2. ToSet(top) = ToSet(FirstRows) \cap {m \in Node : parentId[m] = None}
    BY <1>1, <2>1, OnlyFacts
  <2>3. top \in Seq(Node)
    BY <1>1, <2>1, OnlyFacts
  <2>4. IsInjective(top)
    BY <1>1, <2>1, OnlyInjective
  <2> HIDE DEF top
  <2> QED BY <1>2, <1>5, <2>2, <2>3, <2>4
<1>7. rows = FlattenSeq(ss)
  BY DEF Init
<1> HIDE DEF top
<1>8. /\ Len(top) \in Nat /\ DOMAIN top = K
      /\ \A i \in K : top[i] \in Node /\ top[i] \in ToSet(top)
      /\ \A r \in ToSet(top) : \E i \in K : r = top[i]
  BY <1>6, ListFacts
<1>9. \A i \in K : /\ ss[i] \in Seq(Node) /\ ToSet(ss[i]) = Inside(children, top[i])
                   /\ \A m \in Inside(children, top[i]) :
                          Together(children, ss[i], m) /\ Ordered(children, ss[i], m)
  <2> SUFFICES ASSUME NEW i \in K, NEW r, r = top[i]
               PROVE  /\ ss[i] \in Seq(Node) /\ ToSet(ss[i]) = Inside(children, r)
                      /\ \A m \in Inside(children, r) :
                          Together(children, ss[i], m) /\ Ordered(children, ss[i], m)
    OBVIOUS
  <2>1. r \in Node /\ ss[i] = Preorder(children, r)
    BY <1>8
  <2> HIDE DEF ss
  <2> QED BY <1>5, <2>1, PreorderFacts, PreorderIsLaid
<1>10. ss \in Seq(Seq(Node)) /\ Len(ss) = Len(top)
  <2>1. ss \in [1..Len(top) -> Seq(Node)]
    BY <1>9
  <2> HIDE DEF ss
  <2> QED BY <1>8, <2>1, SeqDef, LenProperties
<1>11. \A x, y : Precedes(rows, x, y) <=>
                \/ \E i \in K : Precedes(ss[i], x, y)
                \/ \E i, j \in K : i < j /\ x \in ToSet(ss[i]) /\ y \in ToSet(ss[j])
  <2>1. 1..Len(ss) = K
    BY <1>10
  <2> HIDE DEF ss, K
  <2> QED BY <1>7, <1>10, <2>1, FlattenFacts
<1> HIDE DEF ss
<1>12. \A i \in K : \A x, y : Precedes(ss[i], x, y) => x \in ToSet(ss[i]) /\ y \in ToSet(ss[i])
  BY <1>9, OrderFacts
<1>13. \A i, j \in K : \A x : x \in ToSet(ss[i]) /\ x \in ToSet(ss[j]) => i = j
  <2> SUFFICES ASSUME NEW i \in K, NEW j \in K, NEW x, x \in ToSet(ss[i]), x \in ToSet(ss[j])
               PROVE  i = j
    OBVIOUS
  <2>1. /\ top[i] \in tree /\ parentId[top[i]] = None /\ top[j] \in tree
        /\ parentId[top[j]] = None
    BY <1>6, <1>8
  <2>2. x \in Inside(children, top[i]) /\ x \in Inside(children, top[j])
    BY <1>9
  <2>3. top[i] = top[j]
    BY <1>1, <1>4, <1>5, <2>1, <2>2, RootFacts DEF Listed
  <2> QED BY <1>6, <1>8, <2>3 DEF IsInjective
<1>14. ASSUME NEW m \in tree
       PROVE  \E i \in K : m \in Inside(children, top[i]) /\ Inside(children, m) \subseteq ToSet(ss[i])
  <2>1. PICK r \in tree : parentId[r] = None /\ m \in Inside(children, r)
    BY <1>1, <1>4, <1>5, RootFacts DEF Listed
  <2>2. PICK i \in K : r = top[i]
    BY <1>6, <1>8, <2>1
  <2>3. Inside(children, m) \subseteq Inside(children, r)
    <3>1. m = r \/ m \in Below(children, r)
      BY <2>1 DEF Inside
    <3>2. m \in Below(children, r) => Below(children, m) \subseteq Below(children, r)
      BY <1>5, BelowSteps
    <3> QED BY <3>1, <3>2 DEF Inside
  <2> QED BY <1>9, <2>1, <2>2, <2>3
<1>15. ASSUME NEW m \in tree PROVE Together(children, rows, m) /\ Ordered(children, rows, m)
  <2>1. PICK i \in K : /\ m \in Inside(children, top[i])
                       /\ Inside(children, m) \subseteq ToSet(ss[i])
    BY <1>14
  <2>2. Together(children, ss[i], m) /\ Ordered(children, ss[i], m)
    BY <1>9, <2>1
  <2>3. ASSUME NEW x \in Inside(children, m), NEW z \in Inside(children, m), NEW y,
               Precedes(rows, x, y), Precedes(rows, y, z)
        PROVE  y \in Inside(children, m)
    <3>1. x \in ToSet(ss[i]) /\ z \in ToSet(ss[i])
      BY <2>1
    <3>2. Precedes(ss[i], x, y) \/ \E j \in K : i < j /\ y \in ToSet(ss[j])
      <4>1. CASE \E k \in K : Precedes(ss[k], x, y)
        <5>1. PICK k \in K : Precedes(ss[k], x, y)
          BY <4>1
        <5>2. k = i
          BY <1>12, <1>13, <3>1, <5>1
        <5> QED BY <5>1, <5>2
      <4>2. CASE \E k, j \in K : k < j /\ x \in ToSet(ss[k]) /\ y \in ToSet(ss[j])
        <5>1. PICK k, j \in K : k < j /\ x \in ToSet(ss[k]) /\ y \in ToSet(ss[j])
          BY <4>2
        <5>2. k = i
          BY <1>13, <3>1, <5>1
        <5> QED BY <5>1, <5>2
      <4> QED BY <1>11, <2>3, <4>1, <4>2
    <3>3. Precedes(ss[i], y, z) \/ \E j \in K : j < i /\ y \in ToSet(ss[j])
      <4>1. CASE \E k \in K : Precedes(ss[k], y, z)
        <5>1. PICK k \in K : Precedes(ss[k], y, z)
          BY <4>1
        <5>2. k = i
          BY <1>12, <1>13, <3>1, <5>1
        <5> QED BY <5>1, <5>2
      <4>2. CASE \E k, j \in K : k < j /\ y \in ToSet(ss[k]) /\ z \in ToSet(ss[j])
        <5>1. PICK k, j \in K : k < j /\ y \in ToSet(ss[k]) /\ z \in ToSet(ss[j])
          BY <4>2
        <5>2. j = i
          BY <1>13, <3>1, <5>1
        <5> QED BY <5>1, <5>2
      <4> QED BY <1>11, <2>3, <4>1, <4>2
    <3>4. \A j \in K : ~(j < i /\ i < j) /\ ~(i < i)
      BY <1>8
    <3>5. Precedes(ss[i], x, y) /\ Precedes(ss[i], y, z)
      BY <1>12, <1>13, <3>1, <3>2, <3>3, <3>4
    <3> QED BY <2>2, <3>5 DEF Together
  <2>4. \A y \in Below(children, m) : Precedes(rows, m, y)
    BY <1>11, <2>2 DEF Together
  <2>5. Ordered(children, rows, m)
    BY <1>11, <2>2 DEF Ordered
  <2> QED BY <2>3, <2>4, <2>5 DEF Together
<1> QED BY <1>1, <1>2, <1>3, <1>4, <1>15 DEF ListInv

-----------------------------------------------------------------------------
(* What is shown of the tree.                                              *)

\* The parts of a view.
LEMMA ViewFacts ==
    ASSUME NEW v \in View
    PROVE  /\ v = [class |-> v.class, shown |-> v.shown, initialized |-> v.initialized,
                   expander |-> v.expander]
           /\ v.class \in [Node -> {"", "collapsed", "expanded"}]
           /\ v.shown \subseteq Node /\ v.initialized \subseteq Node /\ v.expander \subseteq Node
BY DEF View

\* A row whose class is expanded, before its children are shown.
Opened(v, n) == [v EXCEPT !.class[n] = "expanded"]

\* What the methods do to the parts.
LEMMA ChangeFacts ==
    ASSUME NEW v \in View, NEW n \in Node, NEW kids
    PROVE  /\ v.class[n] # "collapsed" =>
                /\ Collapse(kids, v, n) \in View
                /\ \A m \in Node : Collapse(kids, v, n).class[m] =
                                        IF m = n THEN "collapsed" ELSE v.class[m]
                /\ Collapse(kids, v, n).shown = v.shown \ Below(kids, n)
                /\ Collapse(kids, v, n).initialized = v.initialized
                /\ Collapse(kids, v, n).expander = v.expander
           /\ /\ Opened(v, n) \in View
              /\ \A m \in Node : Opened(v, n).class[m] = IF m = n THEN "expanded" ELSE v.class[m]
              /\ Opened(v, n).shown = v.shown
              /\ Opened(v, n).initialized = v.initialized
              /\ Opened(v, n).expander = v.expander
           /\ /\ Render(kids, v, n) \in View
              /\ Render(kids, v, n).class = v.class
              /\ Render(kids, v, n).shown = v.shown
              /\ Render(kids, v, n).initialized = v.initialized
              /\ v.expander \subseteq Render(kids, v, n).expander
              /\ Expandable /\ kids[n] # <<>> => n \in Render(kids, v, n).expander
<1>1. ASSUME v.class[n] # "collapsed"
      PROVE  /\ Collapse(kids, v, n) \in View
             /\ \A m \in Node : Collapse(kids, v, n).class[m] =
                                        IF m = n THEN "collapsed" ELSE v.class[m]
             /\ Collapse(kids, v, n).shown = v.shown \ Below(kids, n)
             /\ Collapse(kids, v, n).initialized = v.initialized
             /\ Collapse(kids, v, n).expander = v.expander
  <2> DEFINE w == [v EXCEPT !.class[n] = "collapsed", !.shown = @ \ Below(kids, n)]
  <2>1. Collapse(kids, v, n) = w
    BY <1>1 DEF Collapse
  <2>2. /\ w \in View
        /\ \A m \in Node : w.class[m] = IF m = n THEN "collapsed" ELSE v.class[m]
        /\ w.shown = v.shown \ Below(kids, n)
        /\ w.initialized = v.initialized /\ w.expander = v.expander
    BY DEF View
  <2> QED BY <2>1, <2>2
<1>2. /\ Opened(v, n) \in View
      /\ \A m \in Node : Opened(v, n).class[m] = IF m = n THEN "expanded" ELSE v.class[m]
      /\ Opened(v, n).shown = v.shown
      /\ Opened(v, n).initialized = v.initialized
      /\ Opened(v, n).expander = v.expander
  BY DEF Opened, View
<1>3. /\ Render(kids, v, n) \in View
      /\ Render(kids, v, n).class = v.class
      /\ Render(kids, v, n).shown = v.shown
      /\ Render(kids, v, n).initialized = v.initialized
      /\ v.expander \subseteq Render(kids, v, n).expander
      /\ Expandable /\ kids[n] # <<>> => n \in Render(kids, v, n).expander
  BY DEF Render, IsBranchNode, View
<1> QED BY <1>1, <1>2, <1>3

\* A node goes on to its children when it is shown: it was expanded, or is shown
\* for the first time and starts so.  What is seen is what it comes to.
Goes(v, m) == IF m \in v.initialized THEN v.class[m] = "expanded" ELSE ~StartsCollapsed
Onward(kids, v) == [m \in Node |-> IF Goes(v, m) THEN ToSet(kids[m]) ELSE {}]
Seen(kids, v, S) == Reach(S, Onward(kids, v))

\* What is seen is the least set that holds S and goes on.
LEMMA SeenFacts ==
    ASSUME NEW kids \in [Node -> Seq(Node)], NEW v, NEW S \in SUBSET Node
    PROVE  /\ Seen(kids, v, S) \subseteq Node /\ S \subseteq Seen(kids, v, S)
           /\ \A m \in Seen(kids, v, S) :
                Goes(v, m) => ToSet(kids[m]) \subseteq Seen(kids, v, S)
           /\ \A U \in SUBSET Node :
                /\ S \subseteq U
                /\ \A m \in U : Goes(v, m) => ToSet(kids[m]) \subseteq U
                => Seen(kids, v, S) \subseteq U
<1> DEFINE next == Onward(kids, v)
<1>1. /\ DOMAIN next = Node
      /\ \A m \in Node : next[m] = IF Goes(v, m) THEN ToSet(kids[m]) ELSE {}
  BY DEF Onward
<1>2. \A m \in Node : next[m] \subseteq Node
  BY <1>1, KidFacts
<1> HIDE DEF next
<1>3. /\ Reach(S, next) \subseteq Node /\ S \subseteq Reach(S, next)
      /\ \A m \in Reach(S, next) : next[m] \subseteq Reach(S, next)
  BY <1>1, <1>2, ReachIsClosed
<1>4. ASSUME NEW U \in SUBSET Node, S \subseteq U,
             \A m \in U : Goes(v, m) => ToSet(kids[m]) \subseteq U
      PROVE  Reach(S, next) \subseteq U
  <2>1. \A m \in U : next[m] \subseteq U
    BY <1>1, <1>4
  <2> QED BY <1>1, <1>4, <2>1 DEF Reach
<1>5. Seen(kids, v, S) = Reach(S, next)
  BY DEF Seen, next
<1> QED BY <1>1, <1>3, <1>4, <1>5

\* What show does to the parts.
LEMMA ShowFields ==
    ASSUME NEW v \in View, NEW kids \in [Node -> Seq(Node)], NEW S \in SUBSET Node
    PROVE  /\ Show(kids, v, S) \in View
           /\ \A m \in Node : Show(kids, v, S).class[m] =
                IF m \in Seen(kids, v, S) \ v.initialized
                THEN IF StartsCollapsed THEN "collapsed" ELSE "expanded" ELSE v.class[m]
           /\ \A x : x \in Show(kids, v, S).shown <=>
                /\ x \in v.shown \cup Seen(kids, v, S)
                /\ \A m \in Seen(kids, v, S) \ v.initialized :
                      StartsCollapsed /\ v.class[m] # "collapsed" => x \notin Below(kids, m)
           /\ Show(kids, v, S).initialized = v.initialized \cup Seen(kids, v, S)
           /\ v.expander \subseteq Show(kids, v, S).expander
           /\ Expandable => \A m \in Seen(kids, v, S) \ v.initialized :
                kids[m] # <<>> => m \in Show(kids, v, S).expander
<1> DEFINE seen == Seen(kids, v, S)
           new == seen \ v.initialized
           closes == {m \in new : StartsCollapsed /\ v.class[m] # "collapsed"}
           state == IF StartsCollapsed THEN "collapsed" ELSE "expanded"
           w == [class |-> [m \in Node |-> IF m \in new THEN state ELSE v.class[m]],
                 shown |-> (v.shown \cup seen) \ UNION {Below(kids, m) : m \in closes},
                 initialized |-> v.initialized \cup seen,
                 expander |-> v.expander \cup
                                {m \in new : Expandable /\ IsBranchNode(kids, m)}]
<1>1. Show(kids, v, S) = w
  BY DEF Show, Seen, Onward, Goes
<1>2. seen \subseteq Node
  BY SeenFacts
<1> HIDE DEF seen
<1>3. /\ v.class \in [Node -> {"", "collapsed", "expanded"}]
      /\ v.shown \subseteq Node /\ v.initialized \subseteq Node /\ v.expander \subseteq Node
  BY ViewFacts
<1>4. w \in View
  BY <1>2, <1>3 DEF View
<1>5. \A m \in Node : w.class[m] = IF m \in new THEN state ELSE v.class[m]
  OBVIOUS
<1>6. \A x : x \in w.shown <=>
                /\ x \in v.shown \cup seen
                /\ \A m \in new : StartsCollapsed /\ v.class[m] # "collapsed"
                                    => x \notin Below(kids, m)
  OBVIOUS
<1>7. /\ w.initialized = v.initialized \cup seen
      /\ v.expander \subseteq w.expander
      /\ Expandable => \A m \in new : kids[m] # <<>> => m \in w.expander
  BY DEF IsBranchNode
<1> HIDE DEF w, closes
<1> QED BY <1>1, <1>4, <1>5, <1>6, <1>7 DEF seen

\* A row is displayed where it should be; and the nodes hang in the tree.
Displayed(up, v, m) ==
    m \in v.shown <=> (up[m] = None \/ (up[m] \in v.shown /\ v.class[up[m]] = "expanded"))
Hangs(members, up, kids) ==
    /\ members \subseteq Node /\ None \notin Node
    /\ \A p \in Node : ToSet(kids[p]) \subseteq members
    /\ \A m \in members : /\ up[m] \in members \cup {None}
                          /\ \A p \in Node : m \in ToSet(kids[p]) <=> up[m] = p

\* What is displayed where it should be stays so when the nodes in S are shown
\* above all of what they bring, if nothing of that was shown.
LEMMA ShowKeeps ==
    ASSUME NEW kids \in [Node -> Seq(Node)], Grounded(kids), Forked(kids),
           NEW members, NEW up, Hangs(members, up, kids),
           NEW v \in View, NEW S \in SUBSET Node,
           NEW seen, seen = Seen(kids, v, S),
           \A m \in seen : (S \cup v.shown) \cap Below(kids, m) = {},
           \A m \in members \ S : Displayed(up, v, m)
    PROVE  /\ Show(kids, v, S).shown = v.shown \cup seen
           /\ \A m \in members \ S : Displayed(up, Show(kids, v, S), m)
<1> DEFINE w == Show(kids, v, S)
<1>1. /\ seen \subseteq Node /\ S \subseteq seen
      /\ \A m \in seen : Goes(v, m) => ToSet(kids[m]) \subseteq seen
      /\ \A U \in SUBSET Node :
            S \subseteq U /\ (\A m \in U : Goes(v, m) => ToSet(kids[m]) \subseteq U)
            => seen \subseteq U
  BY SeenFacts
<1>2. /\ \A m \in Node : w.class[m] = IF m \in seen \ v.initialized
                THEN IF StartsCollapsed THEN "collapsed" ELSE "expanded" ELSE v.class[m]
      /\ \A x : x \in w.shown <=>
                /\ x \in v.shown \cup seen
                /\ \A m \in seen \ v.initialized :
                      StartsCollapsed /\ v.class[m] # "collapsed" => x \notin Below(kids, m)
  BY ShowFields
<1> HIDE DEF w
<1>3. ASSUME NEW m \in seen, ~Goes(v, m) PROVE seen \cap Below(kids, m) = {}
  <2> DEFINE U == seen \ Below(kids, m)
  <2>1. S \subseteq U /\ U \in SUBSET Node /\ m \in Node
    BY <1>1
  <2>2. ASSUME NEW u \in U, Goes(v, u) PROVE ToSet(kids[u]) \subseteq U
    <3>1. ToSet(kids[u]) \subseteq seen /\ u # m /\ u \in Node
      BY <1>1, <1>3, <2>2
    <3>2. \A k \in ToSet(kids[u]) : k \in Below(kids, m) => u \in Inside(kids, m)
      BY <2>1, <3>1, BranchFacts
    <3> QED BY <2>2, <3>1, <3>2 DEF Inside
  <2>3. seen \subseteq U
    <3> HIDE DEF U
    <3> QED BY <1>1, <2>1, <2>2
  <2> QED BY <2>3
<1>4. w.shown = v.shown \cup seen
  <2>1. ASSUME NEW x \in v.shown \cup seen, NEW m \in seen \ v.initialized,
               StartsCollapsed, x \in Below(kids, m)
        PROVE  FALSE
    <3>1. ~Goes(v, m)
      BY <2>1 DEF Goes
    <3> QED BY <1>3, <2>1, <3>1
  <2> QED BY <1>2, <2>1
<1>5. \A m \in seen : w.class[m] = "expanded" <=> Goes(v, m)
  BY <1>1, <1>2 DEF Goes
<1>6. ASSUME NEW m \in members \ S PROVE Displayed(up, w, m)
  <2> DEFINE p == up[m]
  <2>1. /\ Displayed(up, v, m) /\ m \in Node /\ p \in Node \cup {None} /\ None \notin Node
        /\ \A q \in Node : m \in ToSet(kids[q]) <=> p = q
    BY <1>6 DEF Hangs
  <2>2. CASE m \in seen
    <3> DEFINE U == seen \ {m}
    <3>1. \E q \in U : Goes(v, q) /\ m \in ToSet(kids[q])
      <4> SUFFICES ASSUME \A q \in U : Goes(v, q) => m \notin ToSet(kids[q]) PROVE FALSE
        OBVIOUS
      <4>1. \A q \in U : Goes(v, q) => ToSet(kids[q]) \subseteq U
        BY <1>1
      <4>2. S \subseteq U /\ U \in SUBSET Node
        BY <1>1, <1>6
      <4>3. seen \subseteq U
        <5> HIDE DEF U
        <5> QED BY <1>1, <4>1, <4>2
      <4> QED BY <2>2, <4>3
    <3>2. PICK q \in U : Goes(v, q) /\ m \in ToSet(kids[q])
      BY <3>1
    <3>3. p = q /\ q \in seen
      BY <1>1, <2>1, <3>2
    <3> QED BY <1>4, <1>5, <2>2, <3>2, <3>3 DEF Displayed
  <2>3. CASE m \notin seen /\ p \in seen
    <3>1. m \in ToSet(kids[p]) /\ p \in Node /\ p # None
      BY <1>1, <2>1, <2>3
    <3>2. m \in Below(kids, p)
      BY <3>1, BelowFacts
    <3>3. m \notin v.shown /\ ~Goes(v, p)
      BY <1>1, <2>3, <3>1, <3>2
    <3> QED BY <1>4, <1>5, <2>3, <3>1, <3>3 DEF Displayed
  <2>4. CASE m \notin seen /\ p \notin seen
    <3>1. p \in Node => w.class[p] = v.class[p]
      BY <1>2, <2>4
    <3> QED BY <1>4, <2>1, <2>4, <3>1 DEF Displayed
  <2> QED BY <2>2, <2>3, <2>4
<1> QED BY <1>4, <1>6 DEF w

\* Collapsing a node hides what is below it, and nothing else.
LEMMA CollapseKeeps ==
    ASSUME NEW kids \in [Node -> Seq(Node)], NEW members, NEW up, Hangs(members, up, kids),
           NEW v \in View, NEW n \in Node,
           \A m \in members : Displayed(up, v, m)
    PROVE  \A m \in members : Displayed(up, Collapse(kids, v, n), m)
<1>1. CASE v.class[n] = "collapsed"
  BY <1>1 DEF Collapse
<1>2. CASE v.class[n] # "collapsed"
  <2> DEFINE w == Collapse(kids, v, n)
  <2>1. /\ \A m \in Node : w.class[m] = IF m = n THEN "collapsed" ELSE v.class[m]
        /\ w.shown = v.shown \ Below(kids, n)
    BY <1>2, ChangeFacts
  <2> HIDE DEF w
  <2>2. ASSUME NEW m \in members PROVE Displayed(up, w, m)
    <3> DEFINE p == up[m]
    <3>1. /\ Displayed(up, v, m) /\ m \in Node /\ p \in Node \cup {None} /\ None \notin Node
          /\ \A q \in Node : m \in ToSet(kids[q]) <=> p = q
      BY <2>2 DEF Hangs
    <3>2. p # None /\ (p = n \/ p \in Below(kids, n)) => m \in Below(kids, n)
      BY <3>1, BelowFacts
    <3>3. m \in Below(kids, n) => p # None /\ (p = n \/ p \in Below(kids, n))
      <4> SUFFICES ASSUME m \in Below(kids, n)
                   PROVE  p # None /\ (p = n \/ p \in Below(kids, n))
        OBVIOUS
      <4>1. PICK q \in Inside(kids, n) : m \in ToSet(kids[q])
        BY BelowSteps
      <4>2. q \in Node
        BY BelowFacts DEF Inside
      <4> QED BY <3>1, <4>1, <4>2 DEF Inside
    <3>4. "collapsed" # "expanded"
      OBVIOUS
    <3> QED BY <2>1, <3>1, <3>2, <3>3, <3>4 DEF Displayed
  <2> QED BY <2>2 DEF w
<1> QED BY <1>1, <1>2

\* Expanding one shows its children where they were not, below them what was
\* expanded, and so keeps the rest.
LEMMA ExpandKeeps ==
    ASSUME NEW kids \in [Node -> Seq(Node)], Grounded(kids), Forked(kids),
           NEW members, NEW up, Hangs(members, up, kids),
           NEW v \in View, NEW n \in Node, NEW seq,
           \A m \in members : (n = up[m] /\ v.class[n] # "expanded") \/ Displayed(up, v, m),
           v.class[n] # "expanded" => v.shown \cap Below(kids, n) \subseteq ToSet(kids[n]),
           n \in v.shown => n \in ToSet(seq),
           n \notin v.shown => \A m \in members : Displayed(up, v, m)
    PROVE  \A m \in members : Displayed(up, Expand(kids, seq, v, n), m)
<1>1. CASE v.class[n] = "expanded"
  <2>1. Expand(kids, seq, v, n) = v
    BY <1>1 DEF Expand
  <2> QED BY <1>1, <2>1
<1> SUFFICES ASSUME v.class[n] # "expanded"
             PROVE  \A m \in members : Displayed(up, Expand(kids, seq, v, n), m)
  BY <1>1
<1> DEFINE open == Opened(v, n)
<1>2. Expand(kids, seq, v, n) =
        IF n \in v.shown \cap ToSet(seq) THEN Show(kids, open, ToSet(kids[n])) ELSE open
  BY DEF Expand, Opened
<1>3. /\ open \in View /\ open.shown = v.shown
      /\ \A m \in Node : open.class[m] = IF m = n THEN "expanded" ELSE v.class[m]
  BY ChangeFacts
<1>4. \A m \in members : /\ up[m] \in Node \cup {None} /\ m \in Node /\ None \notin Node
                         /\ \A q \in Node : m \in ToSet(kids[q]) <=> up[m] = q
  BY DEF Hangs
<1> HIDE DEF open
<1>5. CASE n \notin v.shown
  <2>1. Expand(kids, seq, v, n) = open
    BY <1>2, <1>5
  <2> QED BY <1>3, <1>4, <1>5, <2>1 DEF Displayed
<1>6. CASE n \in v.shown
  <2> DEFINE S == ToSet(kids[n])
             seen == Seen(kids, open, S)
             w == Show(kids, open, S)
  <2>1. Expand(kids, seq, v, n) = w
    BY <1>2, <1>6
  <2>2. S \in SUBSET Node /\ Below(kids, n) \in SUBSET Node /\ S \subseteq Below(kids, n)
        /\ \A m \in Below(kids, n) : ToSet(kids[m]) \subseteq Below(kids, n)
    BY BelowFacts
  <2>3. S \subseteq seen /\ seen \subseteq Below(kids, n)
    <3> HIDE DEF S
    <3>1. S \subseteq seen
      BY <2>2, SeenFacts
    <3>2. seen \subseteq Below(kids, n)
      BY <2>2, SeenFacts
    <3> QED BY <3>1, <3>2
  <2>4. n \notin Below(kids, n)
    BY NotBelowItself
  <2>5. ASSUME NEW m \in seen, NEW x \in S \cup open.shown, x \in Below(kids, m) PROVE FALSE
    <3>1. Below(kids, m) \subseteq Below(kids, n) /\ m \in Node
      BY <2>2, <2>3, BelowSteps
    <3>2. x \in S
      BY <1>3, <2>5, <3>1
    <3>3. n \in Inside(kids, m)
      BY <2>5, <3>1, <3>2, BranchFacts
    <3> QED BY <2>3, <2>4, <3>1, <3>3 DEF Inside
  <2>6. \A m \in members \ S : Displayed(up, open, m)
    <3> SUFFICES ASSUME NEW m \in members \ S PROVE Displayed(up, open, m)
      OBVIOUS
    <3>1. up[m] # n
      BY <1>4
    <3>2. Displayed(up, v, m)
      BY <3>1
    <3> QED BY <1>3, <1>4, <3>1, <3>2 DEF Displayed
  <2>7. w.shown = open.shown \cup seen /\ \A m \in members \ S : Displayed(up, w, m)
    <3>1. /\ S \in SUBSET Node /\ open \in View /\ seen = Seen(kids, open, S)
          /\ \A m \in seen : (S \cup open.shown) \cap Below(kids, m) = {}
      BY <1>3, <2>2, <2>5
    <3>2. kids \in [Node -> Seq(Node)] /\ Grounded(kids) /\ Forked(kids) /\ Hangs(members, up, kids)
      OBVIOUS
    <3>3. w = Show(kids, open, S)
      OBVIOUS
    <3> HIDE DEF S, seen, w
    <3>4. /\ Show(kids, open, S).shown = open.shown \cup seen
          /\ \A m \in members \ S : Displayed(up, Show(kids, open, S), m)
      BY ONLY <2>6, <3>1, <3>2, ShowKeeps
    <3> QED BY <3>3, <3>4
  <2>8. w.class[n] = "expanded"
    <3>1. \A m \in Node : w.class[m] = IF m \in seen \ open.initialized
                THEN IF StartsCollapsed THEN "collapsed" ELSE "expanded" ELSE open.class[m]
      <4> HIDE DEF S
      <4> QED BY <1>3, <2>2, ShowFields
    <3> HIDE DEF w, seen
    <3> QED BY <1>3, <2>3, <2>4, <3>1
  <2>9. ASSUME NEW m \in members, m \in S PROVE Displayed(up, w, m)
    <3>1. up[m] = n
      BY <1>4, <2>9
    <3>2. m \in w.shown /\ n \in w.shown
      BY <1>3, <1>6, <2>3, <2>7, <2>9
    <3> HIDE DEF w
    <3> QED BY <2>8, <3>1, <3>2 DEF Displayed
  <2> QED BY <2>1, <2>7, <2>9
<1> QED BY <1>5, <1>6

\* A node that was shown once and has children has its expander; and the views in
\* which all do, and in which besides what should be displayed is.
Drawn(kids, v, k) ==
    Expandable /\ k \in v.initialized /\ kids[k] # <<>> => k \in v.expander
DrawnViews(kids) == {v \in View : \A k \in Node : Drawn(kids, v, k)}
TrueViews(members, up, kids) ==
    {v \in DrawnViews(kids) : \A m \in members : Displayed(up, v, m)}

\* Collapsing draws no expander and needs none.
LEMMA CollapseDraws ==
    ASSUME NEW kids, NEW v \in View, NEW n \in Node
    PROVE  /\ Collapse(kids, v, n) \in View
           /\ \A k \in Node : Drawn(kids, v, k) => Drawn(kids, Collapse(kids, v, n), k)
<1>1. CASE v.class[n] = "collapsed"
  BY <1>1 DEF Collapse
<1>2. CASE v.class[n] # "collapsed"
  BY <1>2, ChangeFacts DEF Drawn
<1> QED BY <1>1, <1>2

\* What is shown for the first time gets its expander.
LEMMA ShowDraws ==
    ASSUME NEW kids \in [Node -> Seq(Node)], NEW v \in View, NEW S \in SUBSET Node
    PROVE  /\ Show(kids, v, S) \in View
           /\ \A k \in Node : Drawn(kids, v, k) => Drawn(kids, Show(kids, v, S), k)
<1> DEFINE w == Show(kids, v, S)
           seen == Seen(kids, v, S)
<1>1. /\ w \in View
      /\ w.initialized = v.initialized \cup seen /\ v.expander \subseteq w.expander
      /\ Expandable => \A m \in seen \ v.initialized : kids[m] # <<>> => m \in w.expander
  BY ShowFields
<1> HIDE DEF w, seen
<1>2. \A k \in Node : Drawn(kids, v, k) => Drawn(kids, w, k)
  BY <1>1 DEF Drawn
<1> QED BY <1>1, <1>2 DEF w

\* So does what is expanded.
LEMMA ExpandDraws ==
    ASSUME NEW kids \in [Node -> Seq(Node)], NEW v \in View, NEW n \in Node, NEW seq
    PROVE  /\ Expand(kids, seq, v, n) \in View
           /\ \A k \in Node : Drawn(kids, v, k) => Drawn(kids, Expand(kids, seq, v, n), k)
           /\ v.expander \subseteq Expand(kids, seq, v, n).expander
<1> DEFINE open == Opened(v, n)
           S == ToSet(kids[n])
<1>1. Expand(kids, seq, v, n) \in {v, open, Show(kids, open, S)}
  BY DEF Expand, Opened
<1>2. /\ open \in View /\ open.initialized = v.initialized /\ open.expander = v.expander
      /\ S \in SUBSET Node
  BY ChangeFacts, KidFacts
<1> HIDE DEF open, S
<1>3. /\ Show(kids, open, S) \in View
      /\ \A k \in Node : Drawn(kids, open, k) => Drawn(kids, Show(kids, open, S), k)
      /\ open.expander \subseteq Show(kids, open, S).expander
  BY <1>2, ShowDraws, ShowFields
<1>4. \A k \in Node : Drawn(kids, v, k) => Drawn(kids, open, k)
  BY <1>2 DEF Drawn
<1> QED BY <1>1, <1>2, <1>3, <1>4

\* A row that is rendered has its expander; and nothing else changes.
LEMMA RenderDraws ==
    ASSUME NEW kids, NEW v \in View, NEW n \in Node
    PROVE  /\ Render(kids, v, n) \in View
           /\ \A k \in Node : Drawn(kids, v, k) => Drawn(kids, Render(kids, v, n), k)
           /\ Drawn(kids, Render(kids, v, n), n)
BY ChangeFacts DEF Drawn

\* A node that is initialized has been rendered.
LEMMA InitializeDraws ==
    ASSUME NEW kids \in [Node -> Seq(Node)], NEW v \in View, NEW n \in Node, NEW seq
    PROVE  /\ Initialize(kids, seq, v, n) \in View
           /\ \A k \in Node : Drawn(kids, v, k) => Drawn(kids, Initialize(kids, seq, v, n), k)
<1> DEFINE w == Render(kids, v, n)
           set == IF StartsCollapsed THEN Collapse(kids, w, n) ELSE Expand(kids, seq, w, n)
           done == [set EXCEPT !.initialized = @ \cup {n}]
<1>1. Initialize(kids, seq, v, n) = done
  BY DEF Initialize
<1>2. /\ w \in View /\ \A k \in Node : Drawn(kids, v, k) => Drawn(kids, w, k)
      /\ Expandable /\ kids[n] # <<>> => n \in w.expander
  BY ChangeFacts, RenderDraws
<1> HIDE DEF w
<1>3. /\ set \in View /\ \A k \in Node : Drawn(kids, w, k) => Drawn(kids, set, k)
      /\ w.expander \subseteq set.expander
  <2>1. CASE StartsCollapsed
    <3>1. w.expander \subseteq Collapse(kids, w, n).expander
      <4>1. w.class[n] = "collapsed" => Collapse(kids, w, n) = w
        BY DEF Collapse
      <4>2. w.class[n] # "collapsed" => Collapse(kids, w, n).expander = w.expander
        BY <1>2, ChangeFacts
      <4> QED BY <4>1, <4>2
    <3> QED BY <1>2, <2>1, <3>1, CollapseDraws
  <2>2. CASE ~StartsCollapsed
    BY <1>2, <2>2, ExpandDraws
  <2> QED BY <2>1, <2>2
<1> HIDE DEF set
<1>4. /\ done \in View /\ done.initialized = set.initialized \cup {n}
      /\ done.expander = set.expander
  BY <1>3 DEF View
<1> HIDE DEF done
<1>5. \A k \in Node : Drawn(kids, v, k) => Drawn(kids, done, k)
  BY <1>2, <1>3, <1>4 DEF Drawn
<1> QED BY <1>1, <1>4, <1>5

-----------------------------------------------------------------------------
(* Through a list of nodes.                                                *)

\* What the methods make of a view, one node after the other.
CollapsedThrough(kids, base, order) ==
    Through(LAMBDA v, n : Collapse(kids, v, n), base, order)
ExpandedThrough(kids, seq, base, order) ==
    Through(LAMBDA v, n : Expand(kids, seq, v, n), base, order)

\* A function that is built step by step, as one in D is, stays in D.
LEMMA SameRun ==
    ASSUME NEW n \in Nat, NEW D, NEW g \in [0..n -> D], NEW done,
           done[0] = g[0],
           \A i \in 1..n : done[i - 1] = g[i - 1] => done[i] = g[i]
    PROVE  done[n] \in D
<1> DEFINE G == {i \in 0..n : done[i] = g[i]}
<1>1. 0 \in G
  OBVIOUS
<1>2. \A i \in 0..(n - 1) : i \in G => i + 1 \in G
  <2> SUFFICES ASSUME NEW i \in 0..(n - 1), done[i] = g[i] PROVE i + 1 \in G
    OBVIOUS
  <2>1. i + 1 \in 1..n /\ (i + 1) - 1 = i /\ i + 1 \in 0..n
    OBVIOUS
  <2> QED BY <2>1
<1> HIDE DEF G
<1>3. n \in G
  <2>1. 0..n \subseteq G
    BY <1>1, <1>2, UpTo
  <2> QED BY <2>1
<1>4. done[n] = g[n] /\ n \in 0..n
  BY <1>3 DEF G
<1> QED BY <1>4

\* Views that collapsing a node does not leave, collapsing all of them does not.
LEMMA CollapsedStays ==
    ASSUME NEW kids, NEW D, NEW base \in D, NEW order \in Seq(Node),
           \A v \in D, n \in ToSet(order) : Collapse(kids, v, n) \in D
    PROVE  CollapsedThrough(kids, base, order) \in D
<1> DEFINE n == Len(order)
           turn(f) == [i \in 0..n |-> IF i = 0 THEN base ELSE Collapse(kids, f[i - 1], order[i])]
           done == CHOOSE f : f = turn(f)
           step == [p \in D \X (1..n) |-> Collapse(kids, p[1], order[p[2]])]
<1>1. n \in Nat /\ \A i \in 1..n : order[i] \in ToSet(order)
  BY ListFacts
<1>2. CollapsedThrough(kids, base, order) = done[n]
  BY DEF CollapsedThrough, Through
<1>3. step \in [D \X (1..n) -> D]
  BY <1>1
<1>4. \A v \in D, i \in 1..n : step[<<v, i>>] = Collapse(kids, v, order[i])
  OBVIOUS
<1> HIDE DEF step, n
<1>5. PICK g \in [0..n -> D] : Runs(g, n, base, step)
  BY <1>1, <1>3, IterationExists
<1>6. \A i \in 1..n : i - 1 \in 0..n /\ i \in 0..n /\ i # 0
  BY <1>1
<1>7. \A i \in 0..n : i # 0 => i \in 1..n
  BY <1>1
<1>8. g[0] = base /\ \A i \in 1..n : g[i] = Collapse(kids, g[i - 1], order[i])
  <2>1. \A i \in 1..n : g[i - 1] \in D /\ g[i] = step[<<g[i - 1], i>>]
    BY <1>5, <1>6 DEF Runs
  <2> QED BY <1>4, <1>5, <2>1 DEF Runs
<1>9. g = turn(g)
  BY <1>5, <1>6, <1>7, <1>8
<1>10. done = turn(done)
  <2> HIDE DEF turn
  <2> QED BY <1>9
<1> HIDE DEF done
<1>11. done[0] = base /\ \A i \in 1..n : done[i] = Collapse(kids, done[i - 1], order[i])
  <2>1. 0 \in 0..n
    BY <1>1
  <2>2. \A i \in 0..n : done[i] = turn(done)[i]
    BY <1>10
  <2> QED BY <1>6, <2>1, <2>2
<1> HIDE DEF turn
<1>12. done[n] \in D
  <2>1. done[0] = g[0] /\ \A i \in 1..n : done[i - 1] = g[i - 1] => done[i] = g[i]
    BY <1>8, <1>11
  <2> QED BY <1>1, <2>1, SameRun
<1> QED BY <1>2, <1>12

\* Views that expanding a node does not leave, expanding some in any order does not.
LEMMA ExpandedStays ==
    ASSUME NEW kids, NEW seq, NEW D, NEW base \in D, NEW order \in Seq(Node),
           \A v \in D, n \in ToSet(order) : Expand(kids, seq, v, n) \in D
    PROVE  ExpandedThrough(kids, seq, base, order) \in D
<1> DEFINE n == Len(order)
           turn(f) == [i \in 0..n |-> IF i = 0 THEN base ELSE Expand(kids, seq, f[i - 1], order[i])]
           done == CHOOSE f : f = turn(f)
           step == [p \in D \X (1..n) |-> Expand(kids, seq, p[1], order[p[2]])]
<1>1. n \in Nat /\ \A i \in 1..n : order[i] \in ToSet(order)
  BY ListFacts
<1>2. ExpandedThrough(kids, seq, base, order) = done[n]
  BY DEF ExpandedThrough, Through
<1>3. step \in [D \X (1..n) -> D]
  BY <1>1
<1>4. \A v \in D, i \in 1..n : step[<<v, i>>] = Expand(kids, seq, v, order[i])
  OBVIOUS
<1> HIDE DEF step, n
<1>5. PICK g \in [0..n -> D] : Runs(g, n, base, step)
  BY <1>1, <1>3, IterationExists
<1>6. \A i \in 1..n : i - 1 \in 0..n /\ i \in 0..n /\ i # 0
  BY <1>1
<1>7. \A i \in 0..n : i # 0 => i \in 1..n
  BY <1>1
<1>8. g[0] = base /\ \A i \in 1..n : g[i] = Expand(kids, seq, g[i - 1], order[i])
  <2>1. \A i \in 1..n : g[i - 1] \in D /\ g[i] = step[<<g[i - 1], i>>]
    BY <1>5, <1>6 DEF Runs
  <2> QED BY <1>4, <1>5, <2>1 DEF Runs
<1>9. g = turn(g)
  BY <1>5, <1>6, <1>7, <1>8
<1>10. done = turn(done)
  <2> HIDE DEF turn
  <2> QED BY <1>9
<1> HIDE DEF done
<1>11. done[0] = base /\ \A i \in 1..n : done[i] = Expand(kids, seq, done[i - 1], order[i])
  <2>1. 0 \in 0..n
    BY <1>1
  <2>2. \A i \in 0..n : done[i] = turn(done)[i]
    BY <1>10
  <2> QED BY <1>6, <2>1, <2>2
<1> HIDE DEF turn
<1>12. done[n] \in D
  <2>1. done[0] = g[0] /\ \A i \in 1..n : done[i - 1] = g[i - 1] => done[i] = g[i]
    BY <1>8, <1>11
  <2> QED BY <1>1, <2>1, SameRun
<1> QED BY <1>2, <1>12

-----------------------------------------------------------------------------
(* What a user does with the rows.                                         *)

\* Expanders are drawn; and until a row was removed alone or came where it does
\* not show, what should be displayed is.
ViewInv ==
    /\ view \in DrawnViews(children)
    /\ history \cap {"remove", "drop"} = {} => view \in TrueViews(tree, parentId, children)

\* The nodes of the tree hang in it, by what their parents list.
LEMMA TableHangs ==
    ASSUME TableInv, \A p \in Node : ToSet(children[p]) \subseteq tree
    PROVE  Hangs(tree, parentId, children)
<1>1. /\ tree \subseteq Node /\ None \notin Node
      /\ \A n \in tree : parentId[n] \in tree \cup {None}
      /\ \A n \in Node \ tree : ToSet(children[n]) = {}
      /\ \A n, p \in tree : n \in ToSet(children[p]) <=> parentId[n] = p
  BY TableFacts
<1>2. \A m \in tree : \A p \in Node : m \in ToSet(children[p]) <=> parentId[m] = p
  BY <1>1
<1> QED BY <1>1, <1>2 DEF Hangs

\* Nothing is displayed below what is not expanded.
LEMMA HiddenBelow ==
    ASSUME NEW kids \in [Node -> Seq(Node)], NEW members, NEW up, Hangs(members, up, kids),
           NEW v, \A m \in members : Displayed(up, v, m),
           NEW n \in Node, v.class[n] # "expanded"
    PROVE  v.shown \cap Below(kids, n) = {}
<1> DEFINE U == Below(kids, n) \ v.shown
<1>1. /\ Below(kids, n) \subseteq Node /\ ToSet(kids[n]) \subseteq Below(kids, n)
      /\ \A m \in Below(kids, n) : ToSet(kids[m]) \subseteq Below(kids, n)
  BY BelowFacts
<1>2. \A p \in Node : \A m \in ToSet(kids[p]) : up[m] = p /\ m \in members /\ p # None
  BY DEF Hangs
<1>3. \A p \in Node : \A m \in ToSet(kids[p]) :
            p \notin v.shown \/ v.class[p] # "expanded" => m \notin v.shown
  BY <1>2 DEF Displayed
<1>4. U \in SUBSET Node /\ ToSet(kids[n]) \subseteq U
  BY <1>1, <1>3
<1>5. \A u \in U : ToSet(kids[u]) \subseteq U
  BY <1>1, <1>3
<1>6. Below(kids, n) \subseteq U
  <2> HIDE DEF U
  <2> QED BY <1>4, <1>5, BelowIsLeast
<1> QED BY <1>6

\* Collapsing a node keeps a true view.
LEMMA CollapseTrue ==
    ASSUME NEW kids \in [Node -> Seq(Node)], NEW members, NEW up, Hangs(members, up, kids),
           NEW v \in TrueViews(members, up, kids), NEW n \in Node
    PROVE  Collapse(kids, v, n) \in TrueViews(members, up, kids)
<1>1. /\ v \in View /\ \A k \in Node : Drawn(kids, v, k)
      /\ \A m \in members : Displayed(up, v, m)
  BY DEF TrueViews, DrawnViews
<1>2. \A m \in members : Displayed(up, Collapse(kids, v, n), m)
  BY <1>1, CollapseKeeps
<1> QED BY <1>1, <1>2, CollapseDraws DEF TrueViews, DrawnViews

\* Expanding a node that has a row does.
LEMMA ExpandTrue ==
    ASSUME NEW kids \in [Node -> Seq(Node)], Grounded(kids), Forked(kids),
           NEW members, NEW up, Hangs(members, up, kids),
           NEW v \in TrueViews(members, up, kids), NEW n \in Node, NEW seq, n \in ToSet(seq)
    PROVE  Expand(kids, seq, v, n) \in TrueViews(members, up, kids)
<1>1. /\ v \in View /\ \A k \in Node : Drawn(kids, v, k)
      /\ \A m \in members : Displayed(up, v, m)
  BY DEF TrueViews, DrawnViews
<1>2. v.class[n] # "expanded" => v.shown \cap Below(kids, n) \subseteq ToSet(kids[n])
  <2> SUFFICES ASSUME v.class[n] # "expanded" PROVE v.shown \cap Below(kids, n) = {}
    OBVIOUS
  <2>1. \A m \in members : Displayed(up, v, m)
    BY <1>1
  <2> QED BY <2>1, HiddenBelow, Zenon
<1>3. \A m \in members : (n = up[m] /\ v.class[n] # "expanded") \/ Displayed(up, v, m)
  BY <1>1
<1>4. \A m \in members : Displayed(up, Expand(kids, seq, v, n), m)
  BY <1>1, <1>2, <1>3, ExpandKeeps
<1> QED BY <1>1, <1>4, ExpandDraws DEF TrueViews, DrawnViews

\* Initializing it does: it is rendered, collapsed or expanded.
LEMMA InitializeTrue ==
    ASSUME NEW kids \in [Node -> Seq(Node)], Grounded(kids), Forked(kids),
           NEW members, NEW up, Hangs(members, up, kids),
           NEW v \in TrueViews(members, up, kids), NEW n \in Node, NEW seq, n \in ToSet(seq)
    PROVE  Initialize(kids, seq, v, n) \in TrueViews(members, up, kids)
<1> DEFINE w == Render(kids, v, n)
           set == IF StartsCollapsed THEN Collapse(kids, w, n) ELSE Expand(kids, seq, w, n)
           done == [set EXCEPT !.initialized = @ \cup {n}]
<1>1. Initialize(kids, seq, v, n) = done
  BY DEF Initialize
<1>2. /\ v \in View /\ \A k \in Node : Drawn(kids, v, k)
      /\ \A m \in members : Displayed(up, v, m)
  BY DEF TrueViews, DrawnViews
<1>3. /\ w \in View /\ w.class = v.class /\ w.shown = v.shown
      /\ \A k \in Node : Drawn(kids, w, k)
  BY <1>2, ChangeFacts, RenderDraws
<1> HIDE DEF w
<1>4. \A m \in members : Displayed(up, w, m)
  BY <1>2, <1>3 DEF Displayed
<1>5. w \in TrueViews(members, up, kids)
  BY <1>3, <1>4 DEF TrueViews, DrawnViews
<1>6. set \in TrueViews(members, up, kids)
  BY <1>5, CollapseTrue, ExpandTrue
<1> HIDE DEF set
<1>7. set \in View /\ done.class = set.class /\ done.shown = set.shown
  BY <1>6 DEF TrueViews, DrawnViews, View
<1>8. \A m \in members : Displayed(up, set, m)
  BY <1>6 DEF TrueViews
<1> HIDE DEF done
<1>9. \A m \in members : Displayed(up, done, m)
  BY <1>7, <1>8 DEF Displayed
<1>10. done \in View /\ \A k \in Node : Drawn(kids, done, k)
  BY <1>1, <1>2, InitializeDraws
<1> QED BY <1>1, <1>9, <1>10 DEF TrueViews, DrawnViews

-----------------------------------------------------------------------------
\* Views that the methods of Node do not leave, for the nodes in M.
Keeps(D, M) ==
    /\ \A v \in D, n \in M : /\ Collapse(children, v, n) \in D
                             /\ Expand(children, rows, v, n) \in D
                             /\ Initialize(children, rows, v, n) \in D

\* The ancestors of a node are in the tree, so revealing is a list of its nodes.
LEMMA PathInTree ==
    ASSUME TableInv, IsFiniteSet(tree), NEW n \in tree,
           NEW path \in SetToSeqs(Above(n) \cup {n})
    PROVE  path \in Seq(Node) /\ ToSet(path) \subseteq tree
<1> DEFINE next == Upward(parentId, tree)
           S == Above(n) \cup {n}
<1>1. tree \subseteq Node /\ parentId \in [Node -> Node \cup {None}]
  BY TableFacts
<1>2. DOMAIN next = Node /\ \A m \in Node : next[m] = {parentId[m]} \cap tree
  BY <1>1 DEF Upward
<1>3. Above(n) = Reach({parentId[n]} \cap tree, next)
  BY DEF Above
<1> HIDE DEF next
<1>4. Above(n) \subseteq tree
  <2>1. {parentId[n]} \cap tree \subseteq tree /\ \A u \in tree : next[u] \subseteq tree
    BY <1>1, <1>2
  <2>2. tree \in SUBSET DOMAIN next
    BY <1>1, <1>2
  <2> QED BY <1>3, <2>1, <2>2 DEF Reach
<1>5. S \subseteq tree /\ IsFiniteSet(S)
  BY <1>4, FS_Subset
<1>6. Cardinality(S) \in Nat
  BY <1>5, FS_CardinalityType
<1>7. path \in [1..Cardinality(S) -> S]
  BY DEF SetToSeqs
<1> HIDE DEF S
<1>8. path \in Seq(S)
  BY <1>6, <1>7
<1>9. ToSet(path) \subseteq S
  BY <1>8, ListFacts
<1>10. path \in Seq(Node)
  BY <1>1, <1>5, <1>6, <1>7
<1> QED BY <1>5, <1>9, <1>10

\* What a user does stays among such views.
LEMMA BrowseStays ==
    ASSUME TableInv, ListInv, NEW D, view \in D, NEW M \in SUBSET Node, Keeps(D, M),
           tree \subseteq M, ToSet(nodes) \subseteq M, Browse
    PROVE  view' \in D
<1>1. \A v \in D, n \in M : /\ Collapse(children, v, n) \in D
                            /\ Expand(children, rows, v, n) \in D
                            /\ Initialize(children, rows, v, n) \in D
  BY DEF Keeps
<1>2. ASSUME NEW n \in Node, Toggle(n) PROVE view' \in D
  <2>1. /\ n \in tree
        /\ view' = IF view.class[n] = "expanded" THEN Collapse(children, view, n)
                                                 ELSE Expand(children, rows, view, n)
    BY <1>2 DEF Toggle
  <2> QED BY <1>1, <2>1
<1>3. ASSUME NEW n \in Node, CollapseNode(n) PROVE view' \in D
  BY <1>1, <1>3 DEF CollapseNode
<1>4. ASSUME NEW n \in Node, ExpandNode(n) PROVE view' \in D
  <2> DEFINE ready == IF n \in view.initialized THEN view
                      ELSE Initialize(children, rows, view, n)
  <2>1. n \in tree /\ view' = Expand(children, rows, ready, n)
    BY <1>4 DEF ExpandNode
  <2>2. ready \in D
    BY <1>1, <2>1
  <2> HIDE DEF ready
  <2> QED BY <1>1, <2>1, <2>2
<1>5. ASSUME NEW n \in Node, Reveal(n) PROVE view' \in D
  <2>1. PICK path \in SetToSeqs(Above(n) \cup {n}) :
            view' = Through(LAMBDA v, m : Expand(children, rows, v, m), view, path)
    BY <1>5 DEF Reveal
  <2>2. view' = ExpandedThrough(children, rows, view, path)
    BY <2>1 DEF ExpandedThrough
  <2>3. n \in tree /\ IsFiniteSet(tree)
    BY <1>5 DEF Reveal, ListInv
  <2>4. path \in Seq(Node) /\ ToSet(path) \subseteq tree
    BY <2>3, PathInTree
  <2>5. \A v \in D, m \in ToSet(path) : Expand(children, rows, v, m) \in D
    BY <1>1, <2>4
  <2> QED BY <2>2, <2>4, <2>5, ExpandedStays
<1>6. nodes \in Seq(Node)
  BY DEF ListInv
<1>7. CASE CollapseAll
  <2>1. view' = CollapsedThrough(children, view, nodes)
    BY <1>7 DEF CollapseAll, CollapsedThrough
  <2>2. \A v \in D, m \in ToSet(nodes) : Collapse(children, v, m) \in D
    BY <1>1
  <2> QED BY <1>6, <2>1, <2>2, CollapsedStays
<1>8. CASE ExpandAll
  <2>1. view' = ExpandedThrough(children, rows, view, nodes)
    BY <1>8 DEF ExpandAll, ExpandedThrough
  <2>2. \A v \in D, m \in ToSet(nodes) : Expand(children, rows, v, m) \in D
    BY <1>1
  <2> QED BY <1>6, <2>1, <2>2, ExpandedStays
<1> QED BY <1>2, <1>3, <1>4, <1>5, <1>7, <1>8 DEF Browse

\* What a user does keeps the rows as they should be.
LEMMA BrowseViews ==
    ASSUME TableInv, ListInv, ViewInv, Browse \/ UNCHANGED vars
    PROVE  ViewInv'
<1>1. /\ tree' = tree /\ parentId' = parentId /\ children' = children /\ history' = history
  BY DEF Browse, Toggle, CollapseNode, ExpandNode, Reveal, CollapseAll, ExpandAll,
         Structure, vars
<1>2. CASE UNCHANGED vars
  BY <1>1, <1>2 DEF ViewInv, vars
<1>3. CASE Browse
  <2>1. /\ children \in [Node -> Seq(Node)] /\ Grounded(children) /\ tree \subseteq Node
        /\ "remove" \notin history => Forked(children)
    BY ListFactsOfTable
  <2>2. view' \in DrawnViews(children)
    <3>1. Keeps(DrawnViews(children), Node)
      BY <2>1, CollapseDraws, ExpandDraws, InitializeDraws DEF Keeps, DrawnViews
    <3>2. ToSet(nodes) \subseteq Node
      BY ListFacts DEF ListInv
    <3>3. view \in DrawnViews(children)
      BY DEF ViewInv
    <3> QED BY <1>3, <2>1, <3>1, <3>2, <3>3, BrowseStays
  <2>3. ASSUME history \cap {"remove", "drop"} = {}
        PROVE  view' \in TrueViews(tree, parentId, children)
    <3>1. /\ view \in TrueViews(tree, parentId, children)
          /\ "remove" \notin history /\ Forked(children)
      BY <2>1, <2>3 DEF ViewInv
    <3>2. /\ \A p \in Node : ToSet(children[p]) \subseteq tree
          /\ ToSet(rows) = tree /\ ToSet(nodes) = tree
      BY <3>1 DEF ListInv, Listed
    <3>3. Hangs(tree, parentId, children)
      BY <3>2, TableHangs
    <3>4. Keeps(TrueViews(tree, parentId, children), tree)
      <4> SUFFICES ASSUME NEW v \in TrueViews(tree, parentId, children), NEW n \in tree
                   PROVE  /\ Collapse(children, v, n) \in TrueViews(tree, parentId, children)
                          /\ Expand(children, rows, v, n) \in TrueViews(tree, parentId, children)
                          /\ Initialize(children, rows, v, n)
                                \in TrueViews(tree, parentId, children)
        BY DEF Keeps
      <4>1. n \in Node /\ n \in ToSet(rows)
        BY <2>1, <3>2
      <4>2. Collapse(children, v, n) \in TrueViews(tree, parentId, children)
        BY <2>1, <3>3, <4>1, CollapseTrue
      <4>3. Expand(children, rows, v, n) \in TrueViews(tree, parentId, children)
        BY <2>1, <3>1, <3>3, <4>1, ExpandTrue
      <4>4. Initialize(children, rows, v, n) \in TrueViews(tree, parentId, children)
        BY <2>1, <3>1, <3>3, <4>1, InitializeTrue
      <4> QED BY <4>2, <4>3, <4>4
    <3> QED BY <1>3, <2>1, <3>1, <3>2, <3>4, BrowseStays
  <2> QED BY <1>1, <2>2, <2>3 DEF ViewInv
<1> QED BY <1>2, <1>3

-----------------------------------------------------------------------------
(* What loads, moves and removals do to the view.                          *)

\* A list with no elements is empty.
LEMMA EmptyFacts ==
    ASSUME NEW seq \in Seq(Node)
    PROVE  seq # <<>> <=> ToSet(seq) # {}
<1>1. Len(seq) \in Nat /\ ToSet(seq) = {seq[i] : i \in 1..Len(seq)}
  BY ListFacts
<1>2. seq # <<>> => Len(seq) # 0
  BY EmptySeq
<1>3. seq = <<>> => Len(seq) = 0
  OBVIOUS
<1> QED BY <1>1, <1>2, <1>3

\* A move draws the expanders it needs, and leaves what is displayed: a row that
\* goes where that is not right is dropped.
LEMMA MoveViews ==
    ASSUME TableInv, ViewInv, NEW n \in Node, NEW target \in Node, Move(n, target)
    PROVE  ViewInv'
<1> DEFINE kids == children
           kids2 == children'
           moved == Render(kids, view, n)
           w == IF Len(kids2[target]) = 1 THEN Render(kids2, moved, target) ELSE moved
<1>1. /\ n # target /\ view' = w /\ tree' = tree
      /\ parentId' = [parentId EXCEPT ![n] = target]
      /\ \A m \in Node : kids2[m] = IF m = target THEN Append(kids[m], n)
                                    ELSE IF m = parentId[n] THEN Only(kids[m], Node \ {n})
                                    ELSE kids[m]
      /\ history' = history \cup {"move"}
                        \cup (IF Misplaced(n, target) THEN {"drop"} ELSE {})
  BY DEF Move, SetParent
<1>2. /\ parentId \in [Node -> Node \cup {None}] /\ tree \subseteq Node
      /\ \A m \in Node : kids[m] \in Seq(Node)
  BY TableFacts
<1>3. view \in View /\ \A k \in Node : Drawn(kids, view, k)
  BY DEF ViewInv, DrawnViews
<1>4. \A m \in Node : m # target => (kids2[m] # <<>> => kids[m] # <<>>)
  <2> SUFFICES ASSUME NEW m \in Node, m # target, kids[m] = <<>> PROVE kids2[m] = <<>>
    OBVIOUS
  <2>1. kids[m] \in Seq(Node) /\ ToSet(kids[m]) = {}
    BY <1>2, EmptyFacts
  <2> DEFINE s == kids[m]
  <2>2. s \in Seq(Node) /\ ToSet(s) = {}
    BY <2>1
  <2> HIDE DEF s
  <2>3. Only(s, Node \ {n}) \in Seq(Node) /\ ToSet(Only(s, Node \ {n})) = {}
    BY <2>2, OnlyFacts
  <2>4. Only(s, Node \ {n}) = <<>>
    BY <2>3, EmptyFacts
  <2> QED BY <1>1, <2>4 DEF s
<1>5. Len(kids2[target]) = 1 \/ kids[target] # <<>>
  <2>1. kids2[target] = Append(kids[target], n) /\ kids[target] \in Seq(Node)
    BY <1>1, <1>2
  <2> QED BY <2>1
<1> HIDE DEF kids, kids2
<1>6. /\ moved \in View /\ moved.class = view.class /\ moved.shown = view.shown
      /\ moved.initialized = view.initialized /\ view.expander \subseteq moved.expander
  BY <1>3, ChangeFacts
<1> HIDE DEF moved
<1>7. /\ w \in View /\ w.class = view.class /\ w.shown = view.shown
      /\ w.initialized = view.initialized /\ view.expander \subseteq w.expander
      /\ Len(kids2[target]) = 1 /\ Expandable /\ kids2[target] # <<>> => target \in w.expander
  BY <1>6, ChangeFacts
<1> HIDE DEF w
<1>8. \A k \in Node : Drawn(kids2, w, k)
  BY <1>3, <1>4, <1>5, <1>7 DEF Drawn
<1>9. ASSUME history' \cap {"remove", "drop"} = {}, NEW m \in tree
      PROVE  Displayed(parentId', w, m)
  <2>1. history \cap {"remove", "drop"} = {} /\ ~Misplaced(n, target)
    BY <1>1, <1>9
  <2>2. Displayed(parentId, view, m) /\ m \in Node
    BY <1>2, <2>1 DEF ViewInv, TrueViews
  <2>3. parentId'[m] = IF m = n THEN target ELSE parentId[m]
    BY <1>1, <1>2, <2>2
  <2>4. m = n => (m \in view.shown <=> target \in view.shown /\ view.class[target] = "expanded")
    BY <2>1 DEF Misplaced
  <2>5. target # None
    BY TableFacts
  <2> QED BY <1>7, <2>2, <2>3, <2>4, <2>5 DEF Displayed
<1> QED BY <1>1, <1>7, <1>8, <1>9 DEF ViewInv, TrueViews, DrawnViews, kids2

\* Nodes that leave take nothing away from what stays.
LEMMA PruneViews ==
    ASSUME TableInv, ViewInv, NEW n \in Node, UnloadBranch(n) \/ RemoveNode(n)
    PROVE  ViewInv'
<1>1. /\ view' = view /\ tree' \subseteq tree /\ parentId' = parentId /\ history \subseteq history'
      /\ \A m \in Node : children'[m] # <<>> => children'[m] = children[m]
  BY DEF UnloadBranch, RemoveNode, Unload
<1>2. view' \in DrawnViews(children')
  <2>1. view \in View /\ \A k \in Node : Drawn(children, view, k)
    BY DEF ViewInv, DrawnViews
  <2> QED BY <1>1, <2>1 DEF Drawn, DrawnViews
<1>3. ASSUME history' \cap {"remove", "drop"} = {}
      PROVE  \A m \in tree' : Displayed(parentId', view', m)
  <2>1. history \cap {"remove", "drop"} = {}
    BY <1>1, <1>3
  <2> QED BY <1>1, <2>1 DEF ViewInv, TrueViews
<1> QED BY <1>2, <1>3 DEF ViewInv, TrueViews

\* Sorting draws expanders.
LEMMA SortViews ==
    ASSUME TableInv, ViewInv, NEW n \in Node, SortBranch(n)
    PROVE  ViewInv'
<1>1. PICK list \in SetToSeqs(ToSet(children[n])) :
        /\ children' = [children EXCEPT ![n] = list]
        /\ view' = [view EXCEPT !.expander = @ \cup
                        {m \in Below(children, n) \cup {n} :
                            Expandable /\ IsBranchNode(children, m)}]
  BY DEF SortBranch
<1>2. tree' = tree /\ parentId' = parentId /\ history' = history
  BY DEF SortBranch
<1>3. children \in [Node -> Seq(Node)]
  BY TableFacts
<1>4. view \in View /\ \A k \in Node : Drawn(children, view, k)
  BY DEF ViewInv, DrawnViews
<1>5. /\ view' \in View /\ view'.class = view.class /\ view'.shown = view.shown
      /\ view'.initialized = view.initialized /\ view.expander \subseteq view'.expander
  <2>1. Below(children, n) \subseteq Node
    BY <1>3, BelowFacts
  <2> DEFINE B == Below(children, n)
             more == {m \in B \cup {n} : Expandable /\ IsBranchNode(children, m)}
  <2>2. more \subseteq Node /\ view' = [view EXCEPT !.expander = @ \cup more]
    BY <1>1, <2>1
  <2> HIDE DEF more
  <2> QED BY <1>4, <2>2 DEF View
<1>6. \A m \in Node : children'[m] # <<>> <=> children[m] # <<>>
  <2>1. children[n] \in Seq(Node)
    BY <1>3
  <2>2. list \in Seq(Node) /\ ToSet(list) = ToSet(children[n])
    BY <2>1, SortedFacts
  <2>3. list # <<>> <=> children[n] # <<>>
    BY <2>1, <2>2, EmptyFacts
  <2> QED BY <1>1, <1>3, <2>3
<1>7. view' \in DrawnViews(children')
  BY <1>4, <1>5, <1>6 DEF Drawn, DrawnViews
<1>8. ASSUME history' \cap {"remove", "drop"} = {}, NEW m \in tree
      PROVE  Displayed(parentId', view', m)
  <2>1. Displayed(parentId, view, m)
    BY <1>2, <1>8 DEF ViewInv, TrueViews
  <2> QED BY <1>2, <1>5, <2>1 DEF Displayed
<1> QED BY <1>2, <1>7, <1>8 DEF ViewInv, TrueViews

\* New rows are shown, and nothing else changes.
LEMMA LeavesAreShown ==
    ASSUME NEW kids \in [Node -> Seq(Node)], Grounded(kids), Forked(kids),
           NEW members, NEW up, Hangs(members, up, kids),
           NEW v \in View, NEW N \in SUBSET Node, \A x \in N : ToSet(kids[x]) = {},
           \A m \in members \ N : Displayed(up, v, m)
    PROVE  /\ Show(kids, v, N) \in View
           /\ Show(kids, v, N).shown = v.shown \cup N
           /\ \A m \in Node \ N : Show(kids, v, N).class[m] = v.class[m]
           /\ \A m \in members \ N : Displayed(up, Show(kids, v, N), m)
<1> DEFINE seen == Seen(kids, v, N)
           w == Show(kids, v, N)
<1>1. seen = N
  <2>1. N \subseteq seen
    BY SeenFacts
  <2>2. N \subseteq N /\ \A m \in N : Goes(v, m) => ToSet(kids[m]) \subseteq N
    OBVIOUS
  <2>3. seen \subseteq N
    BY <2>2, SeenFacts
  <2> QED BY <2>1, <2>3
<1>2. \A x \in N : Below(kids, x) = {}
  <2> SUFFICES ASSUME NEW x \in N PROVE Below(kids, x) \subseteq {}
    OBVIOUS
  <2>1. x \in Node /\ ToSet(kids[x]) \subseteq {}
    OBVIOUS
  <2> QED BY <2>1, BelowIsLeast
<1>3. \A m \in seen : (N \cup v.shown) \cap Below(kids, m) = {}
  BY <1>1, <1>2
<1>4. seen = Seen(kids, v, N)
  OBVIOUS
<1>5. w \in View /\ \A m \in Node : w.class[m] = IF m \in seen \ v.initialized
                THEN IF StartsCollapsed THEN "collapsed" ELSE "expanded" ELSE v.class[m]
  BY ShowFields
<1>6. w = Show(kids, v, N)
  OBVIOUS
<1> HIDE DEF seen, w
<1>7. /\ Show(kids, v, N).shown = v.shown \cup seen
      /\ \A m \in members \ N : Displayed(up, Show(kids, v, N), m)
  BY <1>3, <1>4, ShowKeeps
<1> QED BY <1>1, <1>5, <1>6, <1>7

\* New roots are displayed.
LEMMA RootsAreShown ==
    ASSUME NEW kids \in [Node -> Seq(Node)], Grounded(kids), Forked(kids),
           NEW members, NEW up, Hangs(members, up, kids),
           NEW v \in View, NEW N \in SUBSET Node, \A x \in N : ToSet(kids[x]) = {},
           \A m \in members \ N : Displayed(up, v, m),
           \A m \in N : up[m] = None
    PROVE  \A m \in members : Displayed(up, Show(kids, v, N), m)
<1> DEFINE s == Show(kids, v, N)
<1>1. s = Show(kids, v, N)
  OBVIOUS
<1> HIDE DEF s
<1>2. /\ Show(kids, v, N) \in View
      /\ Show(kids, v, N).shown = v.shown \cup N
      /\ \A m \in Node \ N : Show(kids, v, N).class[m] = v.class[m]
      /\ \A m \in members \ N : Displayed(up, Show(kids, v, N), m)
  BY LeavesAreShown, Zenon
<1>3. \A m \in N : Displayed(up, s, m)
  BY <1>1, <1>2 DEF Displayed
<1> QED BY <1>1, <1>2, <1>3

\* New rows are displayed below a row that is: when it is expanded, or once it is
\* expanded because of them.
LEMMA LoadShows ==
    ASSUME NEW kids \in [Node -> Seq(Node)], Grounded(kids), Forked(kids),
           NEW members, NEW up, Hangs(members, up, kids),
           NEW v \in View, NEW N \in SUBSET Node, \A x \in N : ToSet(kids[x]) = {},
           \A m \in members \ N : Displayed(up, v, m),
           NEW p \in Node, p \in v.shown, p \notin N, \A m \in N : up[m] = p,
           N \subseteq ToSet(kids[p]),
           v.class[p] # "expanded" => v.shown \cap Below(kids, p) \subseteq N,
           NEW seq, p \in ToSet(seq)
    PROVE  \A m \in members :
              Displayed(up, Expand(kids, seq, Render(kids, Show(kids, v, N), p), p), m)
<1> DEFINE s == Show(kids, v, N)
           r == Render(kids, s, p)
<1>1. /\ s \in View /\ s.shown = v.shown \cup N
      /\ \A m \in Node \ N : s.class[m] = v.class[m]
      /\ \A m \in members \ N : Displayed(up, s, m)
  <2>1. s = Show(kids, v, N)
    OBVIOUS
  <2> HIDE DEF s
  <2>2. /\ Show(kids, v, N) \in View
        /\ Show(kids, v, N).shown = v.shown \cup N
        /\ \A m \in Node \ N : Show(kids, v, N).class[m] = v.class[m]
        /\ \A m \in members \ N : Displayed(up, Show(kids, v, N), m)
    BY LeavesAreShown, Zenon
  <2> QED BY <2>1, <2>2
<1> HIDE DEF s
<1>2. /\ r \in View /\ r.class = s.class /\ r.shown = s.shown
  <2>1. r = Render(kids, s, p)
    OBVIOUS
  <2> HIDE DEF r
  <2>2. /\ Render(kids, s, p) \in View
        /\ Render(kids, s, p).class = s.class /\ Render(kids, s, p).shown = s.shown
    <3>1. s \in View /\ p \in Node
      BY <1>1
    <3> QED BY ONLY <3>1, ChangeFacts
  <2> QED BY <2>1, <2>2
<1> HIDE DEF r
<1>3. \A m \in members \ N : Displayed(up, r, m)
  BY <1>1, <1>2 DEF Displayed
<1>4. p \in r.shown /\ p # None /\ r.class[p] = v.class[p] /\ r.shown = v.shown \cup N
  BY <1>1, <1>2 DEF Hangs
<1>5. \A m \in members : (p = up[m] /\ r.class[p] # "expanded") \/ Displayed(up, r, m)
  <2>1. ASSUME NEW m \in N, r.class[p] = "expanded" PROVE Displayed(up, r, m)
    BY <1>4, <2>1 DEF Displayed
  <2> QED BY <1>3, <2>1
<1>6. r.class[p] # "expanded" => r.shown \cap Below(kids, p) \subseteq ToSet(kids[p])
  BY <1>4
<1>7. \A m \in members : Displayed(up, Expand(kids, seq, r, p), m)
  BY <1>2, <1>4, <1>5, <1>6, ExpandKeeps
<1> QED BY <1>7 DEF r, s

\* A load draws the expanders that it needs.
LEMMA LoadDraws ==
    ASSUME TableInv, ViewInv, children' \in [Node -> Seq(Node)],
           NEW p \in Node \cup {None}, NEW new \in Seq(Node), LoadBranch(p, new)
    PROVE  view' \in DrawnViews(children')
<1> DEFINE kids == children'
           N == ToSet(new)
           seq == rows'
           s == Show(kids, view, N)
           r == Render(kids, s, p)
           w == Expand(kids, seq, r, p)
<1>1. /\ \A m \in Node : m # p => kids[m] = children[m]
      /\ view' = IF p = None THEN s ELSE w
      /\ N \in SUBSET Node /\ None \notin Node /\ kids \in [Node -> Seq(Node)]
  <2>1. /\ children' = IF p = None THEN children ELSE [children EXCEPT ![p] = @ \o new]
        /\ view' = IF p = None THEN s ELSE w
    BY DEF LoadBranch
  <2>2. children \in [Node -> Seq(Node)] /\ None \notin Node
    BY TableFacts
  <2> QED BY <2>1, <2>2, ListFacts
<1>2. view \in View /\ \A k \in Node : Drawn(children, view, k)
  BY DEF ViewInv, DrawnViews
<1> HIDE DEF kids, seq, N
<1>3. s \in View /\ \A k \in Node : Drawn(kids, view, k) => Drawn(kids, s, k)
  BY <1>1, <1>2, ShowDraws
<1>4. \A k \in Node : k # p => Drawn(kids, view, k)
  BY <1>1, <1>2 DEF Drawn
<1> HIDE DEF s
<1>5. CASE p = None
  <2>1. \A k \in Node : Drawn(kids, s, k)
    BY <1>1, <1>3, <1>4, <1>5
  <2> QED BY <1>1, <1>3, <1>5, <2>1 DEF DrawnViews, kids
<1>6. CASE p # None
  <2>1. /\ p \in Node /\ r \in View /\ \A k \in Node : Drawn(kids, s, k) => Drawn(kids, r, k)
        /\ Drawn(kids, r, p)
    BY <1>3, <1>6, RenderDraws
  <2> HIDE DEF r
  <2>2. \A k \in Node : Drawn(kids, r, k)
    BY <1>3, <1>4, <2>1
  <2>3. w \in View /\ \A k \in Node : Drawn(kids, r, k) => Drawn(kids, w, k)
    BY <1>1, <2>1, ExpandDraws
  <2> HIDE DEF w
  <2>4. view' \in DrawnViews(kids)
    BY <1>1, <1>6, <2>2, <2>3 DEF DrawnViews
  <2> QED BY <2>4 DEF kids
<1> QED BY <1>5, <1>6

\* A load where its rows show displays them.
LEMMA LoadViews ==
    ASSUME TableInv, TableInv', ListInv, ListInv', ViewInv,
           NEW p \in Node \cup {None}, NEW new \in Seq(Node), IsInjective(new),
           LoadBranch(p, new)
    PROVE  ViewInv'
<1> DEFINE N == ToSet(new)
<1>1. children' \in [Node -> Seq(Node)] /\ Grounded(children')
  BY NextGrounded DEF ListInv
<1>2. view' \in DrawnViews(children')
  BY <1>1, LoadDraws
<1>3. ASSUME history' \cap {"remove", "drop"} = {}
      PROVE  \A m \in tree' : Displayed(parentId', view', m)
  <2>1. /\ p \in tree \cup {None} /\ N \subseteq Node /\ N \cap tree = {}
        /\ history' = history \cup (IF "move" \in history THEN {"late"} ELSE {})
                    \cup (IF p # None /\ p \notin view.shown THEN {"drop"} ELSE {})
        /\ tree' = tree \cup N
        /\ parentId' = [n \in Node |-> IF n \in N THEN p ELSE parentId[n]]
        /\ \A x \in N, m \in Node : x \notin ToSet(children[m])
    <3>1. \A i \in 1..Len(new) : new[i] \notin tree
      BY DEF LoadBranch
    <3>2. N = {new[i] : i \in 1..Len(new)} /\ N \subseteq Node
      BY ListFacts
    <3>3. N \cap tree = {}
      BY <3>1, <3>2
    <3>4. /\ p \in tree \cup {None}
          /\ history' = history \cup (IF "move" \in history THEN {"late"} ELSE {})
                    \cup (IF p # None /\ p \notin view.shown THEN {"drop"} ELSE {})
          /\ tree' = tree \cup N
          /\ parentId' = [n \in Node |-> IF n \in N THEN p ELSE parentId[n]]
          /\ \A x \in N, m \in Node : x \notin ToSet(children[m])
      BY DEF LoadBranch
    <3> QED BY <3>2, <3>3, <3>4
  <2>2. /\ history \cap {"remove", "drop"} = {} /\ "remove" \notin history'
        /\ p # None => p \in view.shown
    BY <1>3, <2>1
  <2>3. /\ view \in View /\ \A m \in tree : Displayed(parentId, view, m)
    BY <2>2 DEF ViewInv, TrueViews, DrawnViews
  <2>4. Listed /\ Listed'
    BY <2>2 DEF ListInv
  <2>5. Hangs(tree, parentId, children)
    BY <2>4, TableHangs DEF Listed
  <2>6. /\ children \in [Node -> Seq(Node)] /\ Forked(children) /\ None \notin Node
        /\ tree \subseteq Node /\ parentId \in [Node -> Node \cup {None}]
        /\ \A x \in N : ToSet(children[x]) = {}
    BY <2>1, <2>2, ListFactsOfTable, TableFacts
  <2>7. /\ \A m \in Node : ToSet(children'[m]) =
                ToSet(children[m]) \cup (IF m = p THEN N ELSE {})
        /\ \A m \in Node : IsInjective(children'[m])
    <3>1. \A m \in Node : IsInjective(children[m])
      BY <2>4 DEF Listed
    <3>2. p = None => children' = children
      BY DEF LoadBranch
    <3> QED BY <2>6, <3>1, <3>2, LoadedKids DEF LoadedTo
  <2> DEFINE kids == children'
             up == parentId'
             members == tree'
             seq == rows'
             v == view
  <2>8. /\ kids \in [Node -> Seq(Node)] /\ Grounded(kids) /\ v \in View
        /\ members = tree \cup N /\ members \subseteq Node
        /\ \A m \in Node : up[m] = IF m \in N THEN p ELSE parentId[m]
        /\ \A m \in Node : ToSet(kids[m]) = ToSet(children[m]) \cup (IF m = p THEN N ELSE {})
        /\ \A m \in Node : IsInjective(kids[m])
        /\ \A x \in N : ToSet(kids[x]) = {}
    BY <1>1, <2>1, <2>3, <2>6, <2>7
  <2>9. ToSet(seq) = members
    BY <2>4 DEF Listed
  <2>10. view' = IF p = None THEN Show(kids, v, N)
                 ELSE Expand(kids, seq, Render(kids, Show(kids, v, N), p), p)
    BY DEF LoadBranch
  <2>11. v.shown = view.shown /\ v.class = view.class
    OBVIOUS
  <2>12. \A m \in members \ N : Displayed(up, v, m)
    BY <2>1, <2>3, <2>8 DEF Displayed
  <2> HIDE DEF kids, up, members, seq, v, N
  <2>13. Forked(kids)
    <3>1. \A m, q \in Node : ToSet(children[m]) \cap ToSet(children[q]) # {} => m = q
      BY <2>6 DEF Forked
    <3>2. \A m, q \in Node : ToSet(kids[m]) \cap ToSet(kids[q]) # {} => m = q
      BY <2>1, <2>8, <3>1
    <3> QED BY <2>8, <3>2 DEF Forked
  <2>14. Hangs(members, up, kids)
    <3>1. \A q \in Node : ToSet(kids[q]) \subseteq members
      BY <2>5, <2>8 DEF Hangs
    <3>2. ASSUME NEW m \in members
          PROVE  /\ up[m] \in members \cup {None}
                 /\ \A q \in Node : m \in ToSet(kids[q]) <=> up[m] = q
      <4>1. CASE m \in N
        <5>1. up[m] = p /\ \A q \in Node : m \in ToSet(kids[q]) <=> q = p
          BY <2>1, <2>8, <4>1
        <5> QED BY <2>1, <2>8, <5>1
      <4>2. CASE m \notin N
        <5>1. m \in tree /\ m \in Node /\ up[m] = parentId[m]
          BY <2>8, <3>2, <4>2
        <5>2. /\ parentId[m] \in tree \cup {None}
              /\ \A q \in Node : m \in ToSet(children[q]) <=> parentId[m] = q
          BY <2>5, <5>1 DEF Hangs
        <5> QED BY <2>8, <4>2, <5>1, <5>2
      <4> QED BY <4>1, <4>2
    <3> QED BY <2>6, <2>8, <3>1, <3>2 DEF Hangs
  <2>15. N \in SUBSET Node /\ N \subseteq members
    BY <2>1, <2>8
  <2>16. CASE p = None
    <3>1. \A m \in N : up[m] = None
      BY <2>8, <2>15, <2>16
    <3>2. \A m \in members : Displayed(up, Show(kids, v, N), m)
      BY <2>8, <2>12, <2>13, <2>14, <2>15, <3>1, RootsAreShown
    <3>3. \A m \in members : Displayed(up, view', m)
      BY <2>10, <2>16, <3>2
    <3> QED BY <3>3 DEF members, up
  <2>17. CASE p # None
    <3>1. /\ p \in Node /\ p \in v.shown /\ p \notin N /\ p \in ToSet(seq)
          /\ N \subseteq ToSet(kids[p]) /\ \A m \in N : up[m] = p
      BY <2>1, <2>2, <2>6, <2>8, <2>9, <2>11, <2>15, <2>17
    <3>2. v.class[p] # "expanded" => v.shown \cap Below(kids, p) \subseteq N
      <4> SUFFICES ASSUME v.class[p] # "expanded"
                   PROVE  v.shown \cap Below(kids, p) \subseteq N
        OBVIOUS
      <4> DEFINE U == Below(children, p) \cup N
      <4>1. v.shown \cap Below(children, p) = {}
        <5>1. view.class[p] # "expanded" /\ p \in Node
          BY <2>11, <3>1
        <5>2. view.shown \cap Below(children, p) = {}
          BY <2>3, <2>5, <2>6, <5>1, HiddenBelow
        <5> QED BY <2>11, <5>2
      <4>2. /\ Below(children, p) \subseteq Node /\ ToSet(children[p]) \subseteq Below(children, p)
            /\ \A m \in Below(children, p) : ToSet(children[m]) \subseteq Below(children, p)
        BY <2>6, <3>1, BelowFacts
      <4>3. U \in SUBSET Node /\ ToSet(kids[p]) \subseteq U
        BY <2>8, <2>15, <3>1, <4>2
      <4>4. \A u \in U : ToSet(kids[u]) \subseteq U
        BY <2>8, <2>15, <4>2
      <4>5. Below(kids, p) \subseteq U
        <5> HIDE DEF U
        <5> QED BY <2>8, <3>1, <4>3, <4>4, BelowIsLeast
      <4> QED BY <4>1, <4>5
    <3>3. \A m \in members : Displayed(up, Expand(kids, seq, Render(kids, Show(kids, v, N), p), p), m)
      BY <2>8, <2>12, <2>13, <2>14, <2>15, <3>1, <3>2, LoadShows
    <3>4. \A m \in members : Displayed(up, view', m)
      BY <2>10, <2>17, <3>3
    <3> QED BY <3>4 DEF members, up
  <2> QED BY <2>16, <2>17
<1> QED BY <1>2, <1>3 DEF ViewInv, TrueViews

-----------------------------------------------------------------------------
(* The first view, and every step.                                         *)

\* The first view: roots are shown, and all below them, or nothing.
LEMMA FirstView ==
    ASSUME NEW kids \in [Node -> Seq(Node)], Grounded(kids), Forked(kids),
           NEW members, NEW up, Hangs(members, up, kids),
           NEW S \in SUBSET Node, S = {m \in members : up[m] = None},
           \A m \in members : \E r \in S : m \in Inside(kids, r),
           NEW v \in View, v.shown = Node, v.initialized = {},
           \A m \in Node : v.class[m] = ""
    PROVE  \A m \in members : Displayed(up, Show(kids, v, S), m)
<1> DEFINE w == Show(kids, v, S)
           seen == Seen(kids, v, S)
<1>0. kids \in [Node -> Seq(Node)] /\ S \in SUBSET Node /\ v \in View
  OBVIOUS
<1>1. /\ \A m \in Node : w.class[m] = IF m \in seen \ v.initialized
                THEN IF StartsCollapsed THEN "collapsed" ELSE "expanded" ELSE v.class[m]
      /\ \A x : x \in w.shown <=>
                /\ x \in v.shown \cup seen
                /\ \A m \in seen \ v.initialized :
                      StartsCollapsed /\ v.class[m] # "collapsed" => x \notin Below(kids, m)
  BY ONLY <1>0, ShowFields
<1>2. /\ seen \subseteq Node /\ S \subseteq seen
      /\ \A m \in seen : ~StartsCollapsed => ToSet(kids[m]) \subseteq seen
      /\ StartsCollapsed => seen = S
  <2>1. \A m \in Node : Goes(v, m) <=> ~StartsCollapsed
    BY DEF Goes
  <2>2. /\ seen \subseteq Node /\ S \subseteq seen
        /\ \A m \in seen : Goes(v, m) => ToSet(kids[m]) \subseteq seen
    BY ONLY <1>0, SeenFacts
  <2>3. ASSUME StartsCollapsed PROVE seen \subseteq S
    <3>1. S \subseteq S /\ \A m \in S : Goes(v, m) => ToSet(kids[m]) \subseteq S
      BY <2>1, <2>3
    <3> QED BY ONLY <1>0, <3>1, SeenFacts
  <2> HIDE DEF seen
  <2> QED BY <2>1, <2>2, <2>3
<1>3. /\ members \subseteq Node /\ None \notin Node
      /\ \A m \in members : /\ up[m] \in members \cup {None}
                            /\ \A p \in Node : m \in ToSet(kids[p]) <=> up[m] = p
  BY DEF Hangs
<1> HIDE DEF w, seen
<1>4. CASE StartsCollapsed
  <2> SUFFICES ASSUME NEW m \in members PROVE Displayed(up, w, m)
    BY DEF w
  <2>1. up[m] # None => w.class[up[m]] # "expanded"
    BY <1>1, <1>3, <1>4
  <2>2. m \in w.shown <=> \A r \in S : m \notin Below(kids, r)
    BY <1>1, <1>2, <1>3, <1>4
  <2>3. m \notin S => \E r \in S : m \in Below(kids, r)
    BY DEF Inside
  <2>4. ASSUME NEW r \in S, m \in Below(kids, r) PROVE up[m] # None
    <3>1. PICK p \in Inside(kids, r) : m \in ToSet(kids[p])
      BY <2>4, BelowSteps
    <3>2. p \in Node
      BY BelowFacts DEF Inside
    <3>3. up[m] = p
      BY <1>3, <3>1, <3>2
    <3> QED BY <1>3, <3>2, <3>3
  <2> QED BY <2>1, <2>2, <2>3, <2>4 DEF Displayed
<1>5. CASE ~StartsCollapsed
  <2>1. members \subseteq seen
    <3> SUFFICES ASSUME NEW m \in members PROVE m \in seen
      OBVIOUS
    <3>1. PICK r \in S : m \in Inside(kids, r)
      OBVIOUS
    <3>2. ToSet(kids[r]) \subseteq seen
      BY <1>2, <1>5
    <3>3. Below(kids, r) \subseteq seen
      BY <1>2, <1>5, <3>2, BelowIsLeast
    <3> QED BY <1>2, <3>1, <3>3 DEF Inside
  <2>2. \A m \in members : m \in w.shown /\ w.class[m] = "expanded"
    BY <1>1, <1>3, <1>5, <2>1
  <2>3. \A m \in members : Displayed(up, w, m)
    BY <1>3, <2>2 DEF Displayed
  <2> QED BY <2>3 DEF w
<1> QED BY <1>4, <1>5

\* The rows of the page are shown as the table starts.
LEMMA InitViews == Init => ViewInv
<1> SUFFICES ASSUME Init PROVE ViewInv
  OBVIOUS
<1>1. TableInv /\ ListInv /\ history = {}
  BY InitIsForest, InitLists DEF Init
<1>2. Listed
  BY <1>1 DEF ListInv
<1>3. /\ children \in [Node -> Seq(Node)] /\ Grounded(children) /\ Forked(children)
      /\ tree \subseteq Node /\ \A p \in Node : ToSet(children[p]) \subseteq tree
  BY <1>1, <1>2, ListFactsOfTable DEF Listed
<1>4. Hangs(tree, parentId, children)
  BY <1>1, <1>3, TableHangs
<1> DEFINE top == Roots(parentId, FirstRows)
           S == ToSet(top)
           v == [class |-> [n \in Node |-> ""], shown |-> Node,
                 initialized |-> {}, expander |-> {}]
<1>5. view = Show(children, v, S)
  BY DEF Init
<1>6. S = {m \in tree : parentId[m] = None}
  <2>1. top = Only(FirstRows, {m \in Node : parentId[m] = None})
    BY DEF Roots
  <2>2. FirstRows \in Seq(Node) /\ tree = ToSet(FirstRows)
    BY TreeTableAssumption DEF TreeTableAssumption, Init
  <2>3. ToSet(top) = ToSet(FirstRows) \cap {m \in Node : parentId[m] = None}
    BY <2>1, <2>2, OnlyFacts
  <2> HIDE DEF top
  <2> QED BY <1>3, <2>2, <2>3
<1>7. /\ v \in View /\ v.shown = Node /\ v.initialized = {}
      /\ \A m \in Node : v.class[m] = ""
  BY DEF View
<1> HIDE DEF v, S
<1>8. S \in SUBSET Node /\ \A m \in tree : \E r \in S : m \in Inside(children, r)
  <2>1. \A m \in tree : \E r \in tree : parentId[r] = None /\ m \in Inside(children, r)
    BY <1>1, <1>3, RootFacts
  <2> QED BY <1>3, <1>6, <2>1
<1>9. \A m \in tree : Displayed(parentId, Show(children, v, S), m)
  BY <1>3, <1>4, <1>6, <1>7, <1>8, FirstView
<1>10. view \in DrawnViews(children)
  <2>1. \A k \in Node : Drawn(children, v, k)
    BY <1>7 DEF Drawn
  <2>2. /\ Show(children, v, S) \in View
        /\ \A k \in Node : Drawn(children, v, k) => Drawn(children, Show(children, v, S), k)
    BY <1>3, <1>7, <1>8, ShowDraws
  <2> QED BY <1>5, <2>1, <2>2 DEF DrawnViews
<1> QED BY <1>5, <1>9, <1>10 DEF ViewInv, TrueViews

\* Every step keeps the view.
LEMMA StepViews ==
    ASSUME TableInv, ListInv, ViewInv, [Next]_vars
    PROVE  ViewInv'
<1>1. TableInv' /\ ListInv'
  BY StepImplementsForest, StepLists
<1>2. CASE Browse \/ UNCHANGED vars
  BY <1>2, BrowseViews
<1>3. CASE Edit
  <2>1. CASE Load
    <3>1. PICK p \in Node \cup {None}, new \in SeqOf(Node, MaxLoad) :
              IsInjective(new) /\ LoadBranch(p, new)
      BY <2>1 DEF Load
    <3>2. new \in Seq(Node)
      BY TreeTableAssumption DEF TreeTableAssumption, SeqOf
    <3> QED BY <1>1, <3>1, <3>2, LoadViews
  <2>2. ASSUME NEW n \in Node, NEW target \in Node, Move(n, target)
        PROVE  ViewInv'
    BY <2>2, MoveViews
  <2>3. ASSUME NEW n \in Node, UnloadBranch(n) \/ RemoveNode(n) \/ SortBranch(n)
        PROVE  ViewInv'
    BY <2>3, PruneViews, SortViews
  <2> QED BY <1>3, <2>1, <2>2, <2>3 DEF Edit
<1> QED BY <1>2, <1>3 DEF Next

\* The rest of the types.
RestTyped ==
    branch \subseteq Node /\ history \subseteq {"move", "remove", "late", "drop"}
    /\ edits \in 0..MaxEdits

\* Every step keeps it.
LEMMA StepTypes ==
    ASSUME TableInv, ListInv, RestTyped, [Next]_vars
    PROVE  RestTyped'
<1>1. /\ tree \subseteq Node /\ children \in [Node -> Seq(Node)] /\ MaxEdits \in Nat
      /\ branch \subseteq Node /\ edits \in 0..MaxEdits
      /\ history \subseteq {"move", "remove", "late", "drop"} /\ nodes \in Seq(Node)
  BY TableFacts, TreeTableAssumption DEF TreeTableAssumption, RestTyped, ListInv
<1>2. \A kids : \A S \in SUBSET Node : UpdateBranchLeafClass(kids, S) \subseteq Node
  BY <1>1 DEF UpdateBranchLeafClass
<1>3. CASE Browse \/ UNCHANGED vars
  <2>1. branch' = branch /\ history' = history /\ edits' = edits
    BY <1>3 DEF Browse, Toggle, CollapseNode, ExpandNode, Reveal, CollapseAll, ExpandAll,
                Structure, vars
  <2> QED BY <1>1, <2>1 DEF RestTyped
<1>4. CASE Edit
  <2>1. edits' \in 0..MaxEdits
    BY <1>1, <1>4 DEF Edit
  <2>2. \A n \in Node : Below(children, n) \subseteq Node
    BY <1>1, BelowFacts
  <2>3. ASSUME NEW p \in Node \cup {None}, NEW new \in SeqOf(Node, MaxLoad), LoadBranch(p, new)
        PROVE  branch' \subseteq Node /\ history' \subseteq {"move", "remove", "late", "drop"}
    <3>1. new \in Seq(Node)
      BY TreeTableAssumption DEF TreeTableAssumption, SeqOf
    <3>2. ToSet(nodes \o new) \subseteq Node
      BY <1>1, <3>1, ConcatFacts, ListFacts
    <3>3. /\ branch' = UpdateBranchLeafClass(children', ToSet(nodes \o new))
          /\ history' = history
                \cup (IF "move" \in history THEN {"late"} ELSE {})
                \cup (IF p # None /\ p \notin view.shown THEN {"drop"} ELSE {})
      BY <2>3 DEF LoadBranch
    <3> QED BY <1>1, <1>2, <3>2, <3>3
  <2>4. ASSUME NEW n \in Node, NEW target \in Node, Move(n, target)
        PROVE  branch' \subseteq Node /\ history' \subseteq {"move", "remove", "late", "drop"}
    <3>1. /\ branch' = UpdateBranchLeafClass(children',
                                       {n, target} \cup ({parentId[n]} \cap tree))
          /\ history' = history \cup {"move"}
                    \cup (IF Misplaced(n, target) THEN {"drop"} ELSE {})
      BY <2>4 DEF Move
    <3>2. {n, target} \cup ({parentId[n]} \cap tree) \subseteq Node
      BY <1>1
    <3> QED BY <1>1, <1>2, <3>1, <3>2
  <2>5. ASSUME NEW n \in Node, UnloadBranch(n) \/ RemoveNode(n) \/ SortBranch(n)
        PROVE  branch' \subseteq Node /\ history' \subseteq {"move", "remove", "late", "drop"}
    <3>1. /\ \/ branch' = branch
             \/ branch' = UpdateBranchLeafClass(children', Below(children, n) \cup {n})
          /\ history' \subseteq history \cup {"remove"}
      BY <2>5 DEF UnloadBranch, RemoveNode, SortBranch
    <3> QED BY <1>1, <1>2, <2>2, <3>1
  <2> QED BY <1>4, <2>1, <2>3, <2>4, <2>5 DEF Edit, Load, RestTyped
<1> QED BY <1>3, <1>4 DEF Next

\* Where the invariants hold the table is sound.
LEMMA InvIsSound ==
    ASSUME TableInv, ListInv, ViewInv, RestTyped
    PROVE  TableIsSound
<1>1. TypeOK
  <2>1. /\ tree \subseteq Node /\ parentId \in [Node -> Node \cup {None}]
        /\ children \in [Node -> Seq(Node)]
    BY TableFacts
  <2>2. nodes \in Seq(Node) /\ rows \in Seq(Node)
    BY DEF ListInv
  <2>3. view \in View
    BY DEF ViewInv, DrawnViews
  <2> QED BY <2>1, <2>2, <2>3 DEF TypeOK, RestTyped
<1>2. NodesHaveRows
  BY DEF NodesHaveRows, ListInv, Listed
<1>3. BranchesAreTogether
  <2> SUFFICES ASSUME history \cap {"remove", "late"} = {}, NEW n \in tree,
                      NEW i \in 1..Len(rows), NEW j \in 1..Len(rows), NEW k \in 1..Len(rows)
               PROVE  /\ i < j /\ j < k /\ {rows[i], rows[k]} \subseteq Inside(children, n)
                            => rows[j] \in Inside(children, n)
                      /\ rows[i] = n /\ rows[j] \in Inside(children, n) => i <= j
    BY DEF BranchesAreTogether, Inside
  <2>1. Together(children, rows, n) /\ rows \in Seq(Node) /\ IsInjective(rows)
    BY DEF ListInv, Listed
  <2>2. i \in Nat /\ j \in Nat /\ k \in Nat
    OBVIOUS
  <2>3. \A x, y : x \in 1..Len(rows) /\ y \in 1..Len(rows) /\ x < y
                    => Precedes(rows, rows[x], rows[y])
    BY DEF Precedes
  <2>4. i < j /\ j < k /\ {rows[i], rows[k]} \subseteq Inside(children, n)
            => rows[j] \in Inside(children, n)
    BY <2>1, <2>3 DEF Together
  <2>5. ASSUME rows[i] = n, rows[j] \in Inside(children, n), j < i PROVE FALSE
    <3>1. Precedes(rows, rows[j], n)
      BY <2>3, <2>5
    <3>2. rows[j] = n \/ Precedes(rows, n, rows[j])
      BY <2>1, <2>5 DEF Together, Inside
    <3>3. n \in ToSet(rows) /\ \A x \in ToSet(rows) : ~Precedes(rows, x, x)
      BY <2>1, <3>1, OrderFacts
    <3>4. ~Precedes(rows, n, n)
      BY <3>3
    <3>5. Precedes(rows, n, rows[j]) => Precedes(rows, n, n)
      BY <2>1, <3>1, OrderFacts
    <3> QED BY <3>1, <3>2, <3>4, <3>5
  <2> QED BY <2>2, <2>4, <2>5
<1> QED BY <1>1, <1>2, <1>3 DEF TableIsSound

\* What they say of the view, said of the rows.
LEMMA InvShows ==
    ASSUME TableInv, ViewInv
    PROVE  RowsShowTheTree
<1>1. DisplayedWhereExpanded
  BY DEF DisplayedWhereExpanded, ViewInv, TrueViews, Displayed
<1>2. BranchesCanBeToggled
  <2> SUFFICES ASSUME Expandable, NEW n \in view.initialized \cap tree,
                      ToSet(children[n]) \cap tree # {}
               PROVE  n \in view.expander
    BY DEF BranchesCanBeToggled
  <2>1. n \in Node /\ children[n] \in Seq(Node)
    BY TableFacts
  <2>2. children[n] # <<>>
    BY <2>1, EmptyFacts
  <2>3. Drawn(children, view, n)
    BY <2>1 DEF ViewInv, DrawnViews
  <2> QED BY <2>2, <2>3 DEF Drawn
<1> QED BY <1>1, <1>2 DEF RowsShowTheTree

-----------------------------------------------------------------------------
(* The table is sound.                                                     *)

\* The invariants hold throughout.
LEMMA InvsHold == Spec => [](TableInv /\ ListInv /\ ViewInv /\ RestTyped)
<1>1. Init => TableInv /\ ListInv /\ ViewInv /\ RestTyped
  <2>1. Init => RestTyped
    <3> SUFFICES ASSUME Init PROVE RestTyped
      OBVIOUS
    <3>1. tree \subseteq Node
      BY InitIsForest, TableFacts
    <3>2. /\ branch = {n \in tree : IsBranchNode(children, n)} /\ history = {} /\ edits = 0
          /\ MaxEdits \in Nat
      BY TreeTableAssumption DEF TreeTableAssumption, Init
    <3> QED BY <3>1, <3>2 DEF RestTyped
  <2> QED BY <2>1, InitIsForest, InitLists, InitViews
<1>2. TableInv /\ ListInv /\ ViewInv /\ RestTyped /\ [Next]_vars
        => (TableInv /\ ListInv /\ ViewInv /\ RestTyped)'
  BY StepImplementsForest, StepLists, StepViews, StepTypes
<1> QED BY <1>1, <1>2, PTL DEF Spec

\* What the tree finds by id, its list of nodes and the rows of the table are the
\* same nodes, each one once, through every load, move, unload and sort; and the
\* rows of a branch stay together behind its first row, so that findLastNode
\* finds where a load goes: for any rows, and until the calls that break it.
THEOREM TableIsSoundHolds == Spec => []TableIsSound
<1>1. TableInv /\ ListInv /\ ViewInv /\ RestTyped => TableIsSound
  BY InvIsSound
<1> QED BY <1>1, InvsHold, PTL

\* A row is displayed exactly when its parent is and is expanded, however nodes
\* are expanded, collapsed, revealed, loaded and sorted and whatever starts
\* collapsed; and what has children and was shown can be toggled.
THEOREM RowsShowTheTreeHolds == Spec => []RowsShowTheTree
<1>1. TableInv /\ ListInv /\ ViewInv /\ RestTyped => RowsShowTheTree
  BY InvShows
<1> QED BY <1>1, InvsHold, PTL
=============================================================================
