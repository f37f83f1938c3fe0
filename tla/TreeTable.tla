----------------------------- MODULE TreeTable -----------------------------
(***************************************************************************)
(* jquery.treetable.js, the table of resources of resource/list.jsp.  Each *)
(* row becomes a Node; a Node names its parent and lists its children, the *)
(* Tree finds nodes by id and keeps them in a list, and the rows show what *)
(* is expanded.  Every method a page can call is an action; JavaScript     *)
(* runs one to its end.                                                    *)
(*                                                                         *)
(* A node is its id and its row: a removed id is not loaded again.  The    *)
(* list of roots, read once at the start, is left out, and so are the      *)
(* callbacks, which the pages do not pass.                                 *)
(***************************************************************************)
EXTENDS Trees

CONSTANTS
    Node,         \* the ids of rows
    None,         \* no parent
    FirstRows,    \* the rows of the page, in order
    Branches,     \* the rows with data-tt-branch: children come later
    Expandable,   \* settings.expandable
    InitialState, \* settings.initialState
    MaxLoad,      \* bound on the rows loadBranch gets at a time
    MaxEdits      \* bound on the moves, loads, removals and sorts

ASSUME TreeTableAssumption ==
    /\ None \notin Node
    /\ FirstRows \in Seq(Node) /\ IsInjective(FirstRows)
    /\ Branches \subseteq Node
    /\ Expandable \in BOOLEAN /\ InitialState \in {"collapsed", "expanded"}
    /\ MaxLoad \in Nat /\ MaxEdits \in Nat

VARIABLES
    tree,     \* the ids Tree.tree knows
    nodes,    \* Tree.nodes
    parentId, \* Node.parentId, and data-tt-parent-id
    children, \* Node.children
    rows,     \* the rows of the table, from the top
    branch,   \* the rows with the class branch rather than leaf
    view,     \* classes, hidden rows, initialized nodes and expanders
    history,  \* what has happened: "move", "remove", "late", "drop"
    edits     \* how many of the moves, loads, removals and sorts there were

vars == <<tree, nodes, parentId, children, rows, branch, view, history, edits>>

-----------------------------------------------------------------------------
View == [class : [Node -> {"", "collapsed", "expanded"}],
         shown : SUBSET Node, initialized : SUBSET Node,
         expander : SUBSET Node]

\* The parts of the state have their types.
TypeOK ==
    /\ tree \subseteq Node
    /\ nodes \in Seq(Node)
    /\ parentId \in [Node -> Node \cup {None}]
    /\ children \in [Node -> Seq(Node)]
    /\ rows \in Seq(Node)
    /\ branch \subseteq Node
    /\ view \in View
    /\ history \subseteq {"move", "remove", "late", "drop"}
    /\ edits \in 0..MaxEdits

Below(kids, n) == Reach(ToSet(kids[n]), Lists(kids))

\* (wrong) The parent only is looked at.
AboveByOne(n) == {parentId[n]} \cap tree

Above(n) == Reach({parentId[n]} \cap tree, Upward(parentId, tree))

IsBranchNode(kids, n) == kids[n] # <<>> \/ n \in Branches
UpdateBranchLeafClass(kids, S) ==
    (branch \ S) \cup {n \in S : IsBranchNode(kids, n)}

\* The rows of a list leave their place and come after the row of a node: out
\* of the table when that row is not in it.
InsertAfter(seq, block, target) ==
    LET rest == Only(seq, Node \ ToSet(block))
    IN  IF target \in ToSet(rest)
        THEN LET i == CHOOSE j \in 1..Len(rest) : rest[j] = target
             IN  SubSeq(rest, 1, i) \o block \o SubSeq(rest, i + 1, Len(rest))
        ELSE rest

\* (wrong) The row moves and those below it stay.
MoveRow(seq, kids, n, target) == InsertAfter(seq, <<n>>, target)

MoveRows(seq, kids, n, target) == InsertAfter(seq, Preorder(kids, n), target)
SortChildRows(seq, kids, n) == InsertAfter(seq, Tail(Preorder(kids, n)), n)

-----------------------------------------------------------------------------
\* What the methods of Node do to the view.  Children are those of kids.

Render(kids, v, n) ==
    IF Expandable /\ IsBranchNode(kids, n)
    THEN [v EXCEPT !.expander = @ \cup {n}] ELSE v

\* (wrong) Only the children are hidden.
CollapseChildren(kids, v, n) ==
    IF v.class[n] = "collapsed" THEN v
    ELSE [v EXCEPT !.class[n] = "collapsed", !.shown = @ \ ToSet(kids[n])]

Collapse(kids, v, n) ==
    IF v.class[n] = "collapsed" THEN v
    ELSE [v EXCEPT !.class[n] = "collapsed", !.shown = @ \ Below(kids, n)]

StartsCollapsed == Expandable /\ InitialState = "collapsed"

\* show initializes a node the first time and goes on below what is expanded.
Show(kids, v, S) ==
    LET goes(m) == IF m \in v.initialized THEN v.class[m] = "expanded"
                                          ELSE ~StartsCollapsed
        seen == Reach(S, [m \in Node |->
                            IF goes(m) THEN ToSet(kids[m]) ELSE {}])
        new == seen \ v.initialized
        closes == {m \in new : StartsCollapsed /\ v.class[m] # "collapsed"}
        state == IF StartsCollapsed THEN "collapsed" ELSE "expanded"
    IN  [class |-> [m \in Node |-> IF m \in new THEN state ELSE v.class[m]],
         shown |-> (v.shown \cup seen) \ UNION {Below(kids, m) : m \in closes},
         initialized |-> v.initialized \cup seen,
         expander |-> v.expander \cup
                        {m \in new : Expandable /\ IsBranchNode(kids, m)}]

Expand(kids, seq, v, n) ==
    LET open == [v EXCEPT !.class[n] = "expanded"]
    IN  IF v.class[n] = "expanded" THEN v
        ELSE IF n \in v.shown \cap ToSet(seq)
        THEN Show(kids, open, ToSet(kids[n])) ELSE open

Initialize(kids, seq, v, n) ==
    LET w == Render(kids, v, n)
        set == IF StartsCollapsed THEN Collapse(kids, w, n)
                                  ELSE Expand(kids, seq, w, n)
    IN  [set EXCEPT !.initialized = @ \cup {n}]

-----------------------------------------------------------------------------
Roots(parent, seq) == Only(seq, {m \in Node : parent[m] = None})
ChildList(parent, seq, n) == Only(seq, {m \in Node : parent[m] = n})

\* $("#table").treetable(options): loadRows and render.  The rows come in the
\* order of their paths, each one after its parent.
Init ==
    /\ tree = ToSet(FirstRows) /\ nodes = FirstRows /\ rows = FirstRows
    /\ parentId \in [Node -> Node \cup {None}]
    /\ \A n \in Node : /\ parentId[n] # None => parentId[n] \in tree
                       /\ n \notin tree => parentId[n] = None
    /\ Acyclic(parentId, Node)
    /\ children = [n \in Node |-> ChildList(parentId, FirstRows, n)]
    /\ LET top == Roots(parentId, FirstRows)
       IN  /\ rows = FlattenSeq([i \in 1..Len(top) |-> Preorder(children, top[i])])
           /\ view = Show(children,
                          [class |-> [n \in Node |-> ""], shown |-> Node,
                           initialized |-> {}, expander |-> {}], ToSet(top))
    /\ branch = {n \in tree : IsBranchNode(children, n)}
    /\ history = {} /\ edits = 0

Structure == <<tree, nodes, parentId, children, rows, branch>>

\* A click on the expander of a row, found among the rows and in the tree.
Toggle(n) ==
    /\ n \in tree /\ n \in ToSet(rows)
    /\ n \in view.expander /\ n \in view.shown
    /\ view' = IF view.class[n] = "expanded" THEN Collapse(children, view, n)
                                             ELSE Expand(children, rows, view, n)
    /\ UNCHANGED <<Structure, history, edits>>

CollapseNode(n) ==
    /\ n \in tree
    /\ view' = Collapse(children, view, n)
    /\ UNCHANGED <<Structure, history, edits>>

ExpandNode(n) ==
    /\ n \in tree
    /\ LET ready == IF n \in view.initialized THEN view
                    ELSE Initialize(children, rows, view, n)
       IN  view' = Expand(children, rows, ready, n)
    /\ UNCHANGED <<Structure, history, edits>>

CollapseAll ==
    /\ view' = Through(LAMBDA v, n : Collapse(children, v, n), view, nodes)
    /\ UNCHANGED <<Structure, history, edits>>

ExpandAll ==
    /\ view' = Through(LAMBDA v, n : Expand(children, rows, v, n), view, nodes)
    /\ UNCHANGED <<Structure, history, edits>>

\* Every ancestor is expanded, the root first, and then the node.
Reveal(n) ==
    /\ n \in tree
    /\ \E path \in SetToSeqs(Above(n) \cup {n}) :
        /\ \A i, j \in 1..Len(path) : i < j => path[i] \in Above(path[j])
        /\ view' = Through(LAMBDA v, m : Expand(children, rows, v, m), view, path)
    /\ UNCHANGED <<Structure, history, edits>>

-----------------------------------------------------------------------------
\* (wrong) The parent it had keeps the node among its children.
SetParentOnly(n, target) ==
    /\ children' = [children EXCEPT ![target] = Append(@, n)]
    /\ parentId' = [parentId EXCEPT ![n] = target]

\* A node leaves the children of its parent and joins those of another.
SetParent(n, target) ==
    /\ children' = [m \in Node |->
                        IF m = target THEN Append(children[m], n)
                        ELSE IF m = parentId[n]
                        THEN Only(children[m], Node \ {n})
                        ELSE children[m]]
    /\ parentId' = [parentId EXCEPT ![n] = target]

\* The rows of a node go where they belong, whatever is shown there.
Misplaced(n, target) ==
    (n \in view.shown) # (target \in view.shown /\ view.class[target] = "expanded")

Move(n, target) ==
    /\ n \in tree /\ target \in tree
    /\ n # target /\ target # parentId[n] /\ n \notin Above(target)
    /\ SetParent(n, target)
    /\ rows' = MoveRows(rows, children, n, target)
    /\ LET moved == Render(children, view, n)
       IN  view' = IF Len(children'[target]) = 1
                   THEN Render(children', moved, target) ELSE moved
    /\ branch' = UpdateBranchLeafClass(children',
                                       {n, target} \cup ({parentId[n]} \cap tree))
    /\ history' = history \cup {"move"}
                    \cup (IF Misplaced(n, target) THEN {"drop"} ELSE {})
    /\ UNCHANGED <<tree, nodes>>

\* The children lists of a row below which another one is found last.
FindLastNode(n) ==
    LET last[m \in Node] == IF children[m] = <<>> THEN m
                            ELSE last[Last(children[m])]
    IN  last[n]

\* New rows for a node, or new roots, in a document order of the caller's.
LoadBranch(p, new) ==
    LET kids == IF p = None THEN children
                ELSE [children EXCEPT ![p] = @ \o new]
        all == nodes \o new
        seen == Show(kids, view, ToSet(new))
    IN  /\ p \in tree \cup {None}
        /\ \A i \in 1..Len(new) : new[i] \notin tree
        /\ \A n \in ToSet(new), m \in Node :
              n \notin ToSet(children[m]) /\ n \notin view.initialized
        /\ rows' = IF p = None THEN rows \o new
                   ELSE InsertAfter(rows, new, FindLastNode(p))
        /\ tree' = tree \cup ToSet(new)
        /\ nodes' = all
        /\ parentId' = [n \in Node |-> IF n \in ToSet(new) THEN p ELSE parentId[n]]
        /\ children' = kids
        /\ branch' = UpdateBranchLeafClass(kids, ToSet(all))
        /\ view' = IF p = None THEN seen
                   ELSE Expand(kids, rows', Render(kids, seen, p), p)
        /\ history' = history
                \cup (IF "move" \in history THEN {"late"} ELSE {})
                \cup (IF p # None /\ p \notin view.shown THEN {"drop"} ELSE {})

\* Leaving the list: splice(-1, 1) takes the last when the node is not there.
Splice(list, n) ==
    IF n \in ToSet(list) THEN Only(list, Node \ {n})
    ELSE IF list = <<>> THEN list ELSE Front(list)

\* Nodes are removed in an order, each with its row.
Unload(gone, order) ==
    /\ tree' = tree \ gone
    /\ nodes' = Through(Splice, nodes, order)
    /\ rows' = Only(rows, Node \ gone)

UnloadBranch(n) ==
    LET gone == Below(children, n)
    IN  /\ n \in tree
        /\ Unload(gone, Postorder(children, n))
        /\ children' = [m \in Node |-> IF m \in gone \cup {n} THEN <<>>
                                       ELSE children[m]]
        /\ branch' = UpdateBranchLeafClass(children', gone \cup {n})
        /\ UNCHANGED <<parentId, view, history>>

\* The node stays among the children of its parent.
RemoveNode(n) ==
    LET gone == Below(children, n) \cup {n}
    IN  /\ n \in tree
        /\ Unload(gone, Append(Postorder(children, n), n))
        /\ children' = [m \in Node |-> IF m \in gone THEN <<>> ELSE children[m]]
        /\ branch' = UpdateBranchLeafClass(children', gone)
        /\ history' = history \cup {"remove"}
        /\ UNCHANGED <<parentId, view>>

\* The children of a node in the order of a column, and their rows with them.
SortBranch(n) ==
    /\ n \in tree
    /\ \E list \in SetToSeqs(ToSet(children[n])) :
        /\ children' = [children EXCEPT ![n] = list]
        /\ rows' = SortChildRows(rows, children', n)
        /\ view' = [view EXCEPT !.expander = @ \cup
                        {m \in Below(children, n) \cup {n} :
                            Expandable /\ IsBranchNode(children, m)}]
    /\ UNCHANGED <<tree, nodes, parentId, branch, history>>

-----------------------------------------------------------------------------
Browse ==
    \/ \E n \in Node : \/ Toggle(n) \/ CollapseNode(n)
                       \/ ExpandNode(n) \/ Reveal(n)
    \/ CollapseAll
    \/ ExpandAll

Load ==
    \E p \in Node \cup {None}, new \in SeqOf(Node, MaxLoad) :
        new # <<>> /\ IsInjective(new) /\ LoadBranch(p, new)

Edit ==
    /\ edits < MaxEdits /\ edits' = edits + 1
    /\ \/ Load
       \/ \E n, target \in Node : Move(n, target)
       \/ \E n \in Node : UnloadBranch(n) \/ RemoveNode(n) \/ SortBranch(n)

Next == Browse \/ Edit

Spec == Init /\ [][Next]_vars

-----------------------------------------------------------------------------
\* The children a node lists are the nodes that name it as their parent: what
\* addChild, removeChild and setParent keep twice.
ChildrenNameTheirParent ==
    \A n, p \in tree : n \in ToSet(children[p]) <=> parentId[n] = p

\* Every node has its row in the table and its place in the list of nodes,
\* until a row was removed alone: removeNode leaves a child behind that a later
\* load puts rows after, a sort brings back and an unload takes for another.
NodesHaveRows ==
    "remove" \notin history =>
        /\ ToSet(rows) = tree /\ ToSet(nodes) = tree
        /\ IsInjective(rows) /\ IsInjective(nodes)

\* The rows of a branch follow its first row without a stranger among them,
\* which findLastNode relies on: until rows are loaded after a move.
BranchesAreTogether ==
    history \cap {"remove", "late"} = {} =>
        \A n \in tree, i, j, k \in 1..Len(rows) :
            LET inside == Below(children, n) \cup {n}
            IN  /\ i < j /\ j < k /\ {rows[i], rows[k]} \subseteq inside
                      => rows[j] \in inside
                /\ rows[i] = n /\ rows[j] \in inside => i <= j

\* What the tree finds by id, its list of nodes and the rows of the table are the
\* same nodes through every load, move and unload, until removeNode leaves a child
\* in its parent's list; and the rows stand in branches, so that what is loaded
\* comes in its place, until something is loaded after a move.
TableIsSound == TypeOK /\ NodesHaveRows /\ BranchesAreTogether

\* A row is displayed exactly when it is a root or its parent is displayed and
\* expanded, until a row moves or is loaded where it does not show.
DisplayedWhereExpanded ==
    history \cap {"remove", "drop"} = {} =>
        \A n \in tree :
            LET p == parentId[n]
            IN  n \in view.shown <=>
                    (p = None \/ (p \in view.shown /\ view.class[p] = "expanded"))

\* A node with children that was shown once can be closed and opened: its
\* expander is drawn when the first child comes, however it comes.
BranchesCanBeToggled ==
    Expandable =>
        \A n \in view.initialized \cap tree :
            ToSet(children[n]) \cap tree # {} => n \in view.expander

\* What the user sees is the tree as it is expanded, and can be operated.
RowsShowTheTree == DisplayedWhereExpanded /\ BranchesCanBeToggled

\* The table behaves as a forest, through every load, move and removal.
Abstract == INSTANCE Forest WITH
    members <- tree,
    parent <- [n \in Node |-> IF n \in tree THEN parentId[n] ELSE None]

ImplementsForest == Abstract!Spec
=============================================================================
