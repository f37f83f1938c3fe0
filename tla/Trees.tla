------------------------------- MODULE Trees -------------------------------
(***************************************************************************)
(* Operators on trees of nodes that the client's widgets share.  A step    *)
(* relation is a function from a node to the set of nodes next to it: its  *)
(* children, or its parent.                                                *)
(***************************************************************************)
EXTENDS Naturals, Sequences, SequencesExt

\* What can be reached from S: the least set that holds S and is closed.
Reach(S, next) ==
    {n \in DOMAIN next :
        \A U \in SUBSET DOMAIN next :
            (S \subseteq U /\ \A u \in U : next[u] \subseteq U) => n \in U}

\* The sets of children, of a function from a node to its list of children.
Lists(kids) == [n \in DOMAIN kids |-> ToSet(kids[n])]

\* The elements of seq that are in S: SelectSeq as a recursive function, as the
\* prover knows nothing of the other.
Only(seq, S) ==
    LET picked[i \in 0..Len(seq)] ==
            IF i = 0 THEN <<>>
            ELSE IF seq[i] \in S THEN Append(picked[i - 1], seq[i]) ELSE picked[i - 1]
    IN  picked[Len(seq)]

\* What op makes of base and the elements of seq, from the first to the last:
\* FoldLeft, as a recursive function.
Through(op(_, _), base, seq) ==
    LET done[i \in 0..Len(seq)] ==
            IF i = 0 THEN base ELSE op(done[i - 1], seq[i])
    IN  done[Len(seq)]

\* The parent of each node as a step relation; None and unknown nodes end it.
Upward(parent, nodes) == [n \in DOMAIN parent |-> {parent[n]} \cap nodes]

\* A node and everything below it, in the order of the lists of children.
Preorder(kids, n) ==
    LET order[m \in DOMAIN kids] ==
            <<m>> \o FlattenSeq([i \in 1..Len(kids[m]) |-> order[kids[m][i]]])
    IN  order[n]

\* What is below a node, children before their parent.
Postorder(kids, n) ==
    LET order[m \in DOMAIN kids] ==
            FlattenSeq([i \in 1..Len(kids[m]) |->
                            Append(order[kids[m][i]], kids[m][i])])
    IN  order[n]

\* Nothing is its own ancestor: every set of nodes has one with no parent in it.
Acyclic(parent, nodes) ==
    \A S \in SUBSET nodes : S # {} => \E n \in S : parent[n] \notin S
=============================================================================
