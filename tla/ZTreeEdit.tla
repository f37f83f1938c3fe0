----------------------------- MODULE ZTreeEdit -----------------------------
(***************************************************************************)
(* The whole of the tree on a page: the core of zTree (module ZTree) with  *)
(* its part exedit (jquery.ztree.all-3.5.js from line 2305), which moves   *)
(* and copies nodes, by calls and by dragging them, and renames them in    *)
(* place.  A move into a branch that is still to be loaded waits for the   *)
(* answer and is then done without another look at the tree.               *)
(*                                                                         *)
(* The place the mouse is at is the row it is over, and where on the row   *)
(* it is, the kind of move it stands for.  One tree is on the page.  The   *)
(* model ends where a move goes astray: the node or the target has left    *)
(* the tree while it waited, or the target is below the node.              *)
(***************************************************************************)
EXTENDS ZTree

CONSTANTS
    None,
    FewNodes \* bound on the nodes where there are more requests than one

ASSUME ZTreeEditAssumption == None \notin Place /\ FewNodes \in Nat

VARIABLES
    curEditNode, \* the node that is renamed
    editName,    \* the nodes with editNameFlag
    drag,        \* what is dragged, and to where
    then,        \* what a request is to be followed by
    astray,      \* history: whether a move went astray
    orphan,      \* history: whether the node renamed left the tree
    patched,     \* history: closed branches a move drew some nodes of
    erased       \* history: nodes a move left selected and not drawn, or put
                 \* where their items will be made anew

editVars == <<curEditNode, editName, drag, then, astray, orphan, patched, erased>>
vars == <<treeVars, editVars>>

Type == {"inner", "prev", "next"}

\* The nodes dragged and their state, and the target of the last move of the
\* mouse; pre and next are the brothers beside them.
Drag == [phase : {"none", "down", "drag"}, nodes : Seq(Node), opened : SUBSET Node,
         target : Place \cup {None}, type : Type,
         pre : Node \cup {None}, next : Node \cup {None}]

NoDrag == [phase |-> "none", nodes |-> <<>>, opened |-> {}, target |-> None,
           type |-> "inner", pre |-> None, next |-> None]

\* Nodes to be moved inside the node that loads, and whether they are selected.
Nothing == [nodes |-> <<>>, silent |-> TRUE, selects |-> <<>>]

-----------------------------------------------------------------------------
\* view.moveNode.

\* The child is taken out of its list; the one beside it becomes an end.
TakenOut(t, n) ==
    LET p == t.up[n]
        list == SelectSeq(t.kids[p], LAMBDA m : m # n)
    IN  [t EXCEPT
            !.kids[p] = list,
            !.first = IF n \in @ /\ list # <<>> THEN @ \cup {Head(list)} ELSE @,
            !.last = IF n \in @ \ t.first THEN @ \cup {Last(list)} ELSE @]

\* It comes to the end of the children of q, or beside q.
PutIn(t, q, n, type) ==
    LET inner == type = "inner"
        home == IF inner THEN q ELSE t.up[q]
        list == t.kids[home]
        at == IF inner THEN Len(list) + 1
              ELSE SelectInSeq(list, LAMBDA m : m = q) + IF type = "next" THEN 1 ELSE 0
        lead == IF inner THEN list = <<>> ELSE type = "prev" /\ q \in t.first
        tail == inner \/ (type = "next" /\ q \in t.last)
    IN  [t EXCEPT
            !.kids[home] = InsertAt(@, at, n),
            !.up[n] = home,
            !.first = Put(IF lead THEN @ \ ToSet(list) ELSE @, n, lead),
            !.last = Put(IF ~tail \/ list = <<>> THEN @
                         ELSE @ \ {IF inner THEN Last(list) ELSE q}, n, tail)]

\* (wrong) What is below the node keeps its level.
LevelledAlone(t, n) ==
    [t EXCEPT !.level[n] = IF t.up[n] = Root THEN 0 ELSE t.level[t.up[n]] + 1]

\* setSonNodeLevel.
Levelled(t, n) ==
    LET up == t.up[n]
        level == IF up = Root THEN 0 ELSE t.level[up] + 1
    IN  [t EXCEPT !.level = [m \in Node |-> IF m \in Inside(t, n) \cup {n}
                                            THEN @[m] - t.level[n] + level ELSE @[m]]]

\* (wrong) The item stays where it was when there is none to move it to.
MoveItemOrKeep(t, q, n) ==
    LET listed == [t EXCEPT !.ul = @ \cup ({q} \cap t.dom)]
    IN  IF n \in t.dom THEN listed ELSE Render(listed, {n})

\* The item moves beside or below the one of q: it is made when the node has
\* none, and taken off when q has none.
MoveItem(t, q, n) ==
    LET listed == [t EXCEPT !.ul = @ \cup ({q} \cap t.dom)]
    IN  IF q \in Node \ t.dom THEN Erase(t, Inside(t, n) \cup {n})
        ELSE IF n \in t.dom THEN listed ELSE Render(listed, {n})

MoveNode(t, q, n, moveType, silent) ==
    LET type == IF q = Root THEN "inner" ELSE moveType
        home == IF type = "inner" THEN q ELSE t.up[q]
        old == t.up[n]
        parent == IF type # "inner" \/ q = Root \/ q \in t.isParent THEN t
                  ELSE Draw([t EXCEPT !.isParent = @ \cup {q}], {q})
        opened == IF silent \/ home = Root THEN parent
                  ELSE ExpandCollapseNode(parent, home, TRUE)
        out == TakenOut(MoveItem(opened, q, n), n)
        into == Levelled(PutIn(out, q, n, type), n)
        ends == {m \in Node : \/ (m \in t.first) # (m \in into.first)
                               \/ (m \in t.last) # (m \in into.last)}
        drawn == Draw(IF into.kids[old] = <<>> THEN Emptied(into, old) ELSE into,
                      {n} \cup ends)
    IN  IF q = n \/ (KeepLeaf /\ type = "inner" /\ q \in Node \ t.isParent) THEN t
        ELSE IF silent \/ home = Root THEN drawn
        ELSE ExpandCollapseParentNode(drawn, home, TRUE)

\* (wrong) Always from the first to the last.
MoveNodesForth(t, q, nodes, type, silent) ==
    FoldLeft(LAMBDA s, n : MoveNode(s, q, n, type, silent), t, nodes)

\* Several nodes: the ones put behind the target from the last to the first.
MoveNodes(t, q, nodes, type, silent) ==
    FoldLeft(LAMBDA s, n : MoveNode(s, q, n, type, silent), t,
             IF type = "next" THEN Reverse(nodes) ELSE nodes)

\* selectNode leaves alone a node with its name in the field.
Selected(t, n, add) ==
    IF n = curEditNode /\ n \in editName \cap t.selected THEN t
    ELSE SelectNode(t, n, add)

SelectNodes(t, nodes) ==
    FoldLeft(LAMBDA s, i : Selected(s, nodes[i], i > 1), t, [i \in 1..Len(nodes) |-> i])

\* A move that cannot be done as it is meant.
GoesAstray(t, q, nodes) ==
    /\ nodes # <<>>
    /\ \/ ~(ToSet(nodes) \cup {q} \subseteq InTree(t) \cup {Root})
       \/ \E n \in ToSet(nodes) : q \in Inside(t, n)

\* tools.clone: objects of their own for nodes and what is below them.
Clone(t, nodes) ==
    LET order == FlattenSeq([i \in 1..Len(nodes) |-> Preorder(t.kids, nodes[i])])
        copy(n) == used + SelectInSeq(order, LAMBDA m : m = n)
        copies(S) == {copy(n) : n \in S \cap ToSet(order)}
        source(m) == order[m - used]
        made == used + 1 .. used + Len(order)
    IN  [list |-> [i \in 1..Len(nodes) |-> copy(nodes[i])],
         size |-> Len(order),
         tree |-> [t EXCEPT
            !.kids = [p \in Place |-> IF p \notin made THEN @[p]
                                      ELSE [i \in 1..Len(@[source(p)]) |->
                                                copy(@[source(p)][i])]],
            !.isParent = @ \cup copies(@), !.open = @ \cup copies(@)]]

-----------------------------------------------------------------------------
\* Every step of the core, with what exedit makes of it.

Partly(t) ==
    {p \in Place : ToSet(t.kids[p]) \ t.dom # {} /\ ToSet(t.kids[p]) \cap t.dom # {}}

\* What a step that moves nodes notes for the properties.
Moved(stray) ==
    /\ astray' = stray
    /\ patched' = patched \cup Partly(tree')
    /\ erased' = erased \cup (tree'.selected \ tree'.dom)
                      \cup UNION {Inside(tree', p) : p \in Partly(tree')}

StaysPut == UNCHANGED <<astray, patched, erased>>

NodeGoes == orphan' = (orphan \/ curEditNode' \notin tree'.cache \cup {None})

\* The tree as it will be, or unchanged when the move goes astray.
Unless(stray, t) == IF stray THEN tree ELSE t

\* What waits for the answer to a request is done when it has come; where the
\* nodes it adds fail, it ends there.
AnswerInEdit(r) ==
    LET w == then[r.no]
        stray == r.ver = ver /\ GoesAstray(tree, r.node, w.nodes)
        Then(t) == IF r.add # <<>> /\ Fails(t, r.node) THEN t
                   ELSE SelectNodes(MoveNodes(t, r.node, w.nodes, "inner", w.silent),
                                    w.selects)
    IN  /\ \/ Fail(r) /\ Moved(FALSE)
           \/ ~stray /\ Answer(r, Then) /\ Moved(FALSE)
           \/ stray /\ Answer(r, LAMBDA t : t) /\ Moved(TRUE)
        /\ UNCHANGED <<calls, curEditNode, editName, drag, then, orphan>>

RemoveInEdit(n) ==
    /\ RemoveNodeCall(n)
    /\ curEditNode' = IF curEditNode = n THEN None ELSE curEditNode
    /\ NodeGoes /\ StaysPut
    /\ UNCHANGED <<editName, drag, then>>

RemoveChildrenInEdit(n) ==
    /\ RemoveChildNodesCall(n)
    /\ UNCHANGED curEditNode
    /\ NodeGoes /\ StaysPut
    /\ UNCHANGED <<editName, drag, then>>

LoadInEdit ==
    /\ Load
    /\ UNCHANGED <<curEditNode, editName, drag, then>>
    /\ NodeGoes /\ StaysPut

\* initRoot: a drag under way begins again with the next move of the mouse.
ResetInEdit ==
    /\ Reset
    /\ curEditNode' = None
    /\ editName' = editName \ InTree(tree')
    /\ drag' = IF drag.phase = "none" THEN drag
               ELSE [NoDrag EXCEPT !.phase = "down", !.nodes = drag.nodes]
    /\ StaysPut /\ UNCHANGED <<then, orphan>>

\* A click, and selecting by the API, wait until the name is done.
CoreInEdit ==
    /\ \/ Expand \/ Deselect
       \/ Select /\ curEditNode = None
    /\ StaysPut
    /\ UNCHANGED <<curEditNode, editName, drag, then, orphan>>

MouseInEdit ==
    /\ Mouse /\ curEditNode = None /\ drag.phase = "none"
    /\ StaysPut
    /\ UNCHANGED <<calls, curEditNode, editName, drag, then, orphan>>

-----------------------------------------------------------------------------
\* Moving and copying by calls.

\* The request, when one leaves, is followed by what waits for it.
AsyncThen(t, q, silent, add, wait) ==
    /\ AsyncNode(t, q, silent, add)
    /\ then' = IF sent' = sent THEN then ELSE [then EXCEPT ![sent'] = wait]

Here(t) == Changes(t) /\ UNCHANGED then

\* Whether the target is below the node is looked up on the page.
MoveNodeCall(q, n, type, silent) ==
    LET stray == GoesAstray(tree, q, <<n>>)
        waits == type = "inner" /\ CanAsync(tree, q)
    IN  /\ n \in InTree(tree) /\ q \in InTree(tree) \cup {Root}
        /\ ~(KeepLeaf /\ type = "inner" /\ q \in Node \ tree.isParent)
        /\ ~(type = "inner" /\ q # Root /\ tree.up[n] = q)
        /\ q \notin Inside(tree, n) \cap tree.dom
        /\ IF waits
           THEN /\ AsyncThen(tree, q, silent, <<>>,
                             [nodes |-> <<n>>, silent |-> silent, selects |-> <<>>])
                /\ Moved(FALSE)
           ELSE /\ Here(Unless(stray, MoveNode(tree, q, n, type, silent)))
                /\ Moved(stray)
        /\ UNCHANGED <<used, ver, blank, late, curEditNode, editName, drag, orphan>>

\* Beside a target, the copy is first put among the roots.
CopyNodeCall(q, n, type, silent) ==
    LET c == Clone(tree, <<n>>)
    IN  /\ n \in InTree(tree) /\ q \in InTree(tree) \cup {Root}
        /\ ~(KeepLeaf /\ type = "inner" /\ q \in Node \ tree.isParent)
        /\ used + c.size <= MaxNode /\ used' = used + c.size
        /\ IF type = "inner" /\ CanAsync(tree, q)
           THEN AsyncThen(c.tree, q, silent, c.list, Nothing)
           ELSE IF type = "inner" \/ q = Root
           THEN Here(AddNodes(c.tree, q, c.list, silent))
           ELSE Here(MoveNodes(AddNodes(c.tree, Root, c.list, silent), q, c.list,
                               type, silent))
        /\ Moved(FALSE)
        /\ UNCHANGED <<ver, blank, late, curEditNode, editName, drag, orphan>>

-----------------------------------------------------------------------------
\* Renaming in place.

Cancelled(t) ==
    IF curEditNode = None THEN t ELSE SelectNode(t, curEditNode, FALSE)

\* view.editNode: the name comes into a field, and the one before is done.
Edited(t, n) ==
    LET same == n = curEditNode /\ n \in editName \cap t.selected
    IN  /\ Here(IF same THEN t ELSE SelectNode(Cancelled(t), n, FALSE))
        /\ editName' = IF same THEN editName ELSE (editName \cup {n}) \ {curEditNode}
        /\ curEditNode' = n
        /\ StaysPut
        /\ UNCHANGED <<used, ver, blank, late, drag, orphan>>

EditNode(n) ==
    LET p == tree.up[n]
    IN  /\ n \in InTree(tree)
        /\ Edited(IF p = Root THEN tree ELSE ExpandCollapseParentNode(tree, p, TRUE), n)

\* The buttons beside the name of a node the mouse is over.
EditBtn(n) ==
    /\ Visible(n) /\ n \notin editName /\ curEditNode = None
    /\ Edited(tree, n)

RemoveBtn(n) ==
    /\ Visible(n) /\ n \notin editName /\ curEditNode = None
    /\ RemoveInEdit(n)

\* The name is taken over: by a key, when the field loses the focus, or by a
\* call.
CancelCurEditNode ==
    /\ curEditNode # None
    /\ Here(Cancelled(tree))
    /\ editName' = editName \ {curEditNode} /\ curEditNode' = None
    /\ StaysPut
    /\ UNCHANGED <<calls, used, ver, blank, late, drag, orphan>>

-----------------------------------------------------------------------------
\* Dragging.

Dragged == ToSet(drag.nodes)
InOrder(p, S) == SelectSeq(tree.kids[p], LAMBDA m : m \in S)

\* The node, or all the selected ones when they are brothers.
MouseDown(n) ==
    LET brothers == \A m \in tree.selected : tree.up[m] = tree.up[n]
        nodes == IF n \in tree.selected /\ brothers
                 THEN InOrder(tree.up[n], tree.selected) ELSE <<n>>
    IN  /\ drag.phase = "none" /\ Visible(n)
        /\ drag' = [NoDrag EXCEPT !.phase = "down", !.nodes = nodes]
        /\ Here(Cancelled(tree))
        /\ editName' = editName \ {curEditNode} /\ curEditNode' = None
        /\ StaysPut
        /\ UNCHANGED <<used, ver, blank, late, orphan>>

\* The first move: open nodes are closed, and what is dragged is selected.
DragStart ==
    LET p == tree.up[Head(drag.nodes)]
        list == tree.kids[p]
        sorted == InOrder(p, Dragged)
        nodes == IF Len(sorted) = Len(drag.nodes) THEN sorted ELSE drag.nodes
        at(n) == SelectInSeq(list, LAMBDA m : m = n)
        joined == at(Last(nodes)) - at(Head(nodes)) = Len(nodes) - 1
        beside(i) == IF joined /\ i \in 1..Len(list) THEN list[i] ELSE None
        opened == Dragged \cap tree.isParent \cap tree.open
        closed == FoldLeft(LAMBDA t, n : IF n \in opened
                                         THEN ExpandCollapseNode(t, n, FALSE) ELSE t,
                           tree, nodes)
        stray == ~(Dragged \subseteq InTree(tree))
    IN  /\ drag.phase = "down"
        /\ IF stray THEN Here(tree) /\ UNCHANGED <<drag, editName>>
           ELSE /\ Here(SelectNodes(closed, nodes))
                /\ drag' = [NoDrag EXCEPT !.phase = "drag", !.nodes = nodes,
                                          !.opened = opened,
                                          !.pre = beside(at(Head(nodes)) - 1),
                                          !.next = beside(at(Last(nodes)) + 1)]
                /\ editName' = editName \ Dragged
        /\ Moved(stray)
        /\ UNCHANGED <<calls, used, ver, blank, late, curEditNode, orphan>>

\* The mouse is over a row, the free space of the tree, or neither.  Behind a
\* last child without its mark the handler fails before it knows the type.
DragOver(q, type, copy) ==
    LET home == tree.up[Head(drag.nodes)]
        row == /\ Visible(q)
               /\ q \notin UNION {Inside(tree, n) \cup {n} : n \in Dragged}
               /\ type = "prev" => copy \/ q # drag.next
               /\ type = "next" => copy \/ q # drag.pre
               /\ type = "inner" => /\ copy \/ q # home
                                    /\ ~(KeepLeaf /\ q \notin tree.isParent)
        fails == q \notin tree.last /\ q = Last(tree.kids[tree.up[q]])
    IN  /\ drag.phase = "drag"
        /\ \/ q \in Node /\ row
              /\ drag' = [drag EXCEPT !.target = q, !.type = IF fails THEN @ ELSE type]
           \/ /\ q \in {Root, None} /\ type = "inner"
              /\ q = Root => home # Root
              /\ drag' = [drag EXCEPT !.target = q, !.type = "inner"]
        /\ Here(tree) /\ StaysPut
        /\ UNCHANGED <<calls, used, ver, blank, late, curEditNode, editName, orphan>>

\* The mouse has stayed over a closed parent.
DragOpen ==
    /\ drag.phase = "drag" /\ drag.type = "inner"
    /\ drag.target \in (Node \cap InTree(tree) \cap tree.isParent) \ tree.open
    /\ SwitchNode(tree, drag.target)
    /\ StaysPut
    /\ UNCHANGED <<calls, used, ver, blank, late, curEditNode, editName, drag,
                   then, orphan>>

\* Nodes that were open are opened again; the target is looked up once more.
Reopened ==
    FoldLeft(LAMBDA t, n : IF n \in (drag.opened \cap t.isParent) \ t.open
                           THEN ExpandCollapseNode(t, n, TRUE) ELSE t, tree, drag.nodes)

Target == IF drag.target \in tree.cache THEN drag.target ELSE Root

DropMove ==
    LET t == Reopened
        nodes == drag.nodes
        wait == [nodes |-> nodes, silent |-> FALSE, selects |-> nodes]
        stray == GoesAstray(t, Target, nodes)
    IN  /\ drag.target # None
        /\ ~(drag.type = "inner" /\ drag.target = tree.up[Head(nodes)]
             /\ drag.target # Root)
        /\ IF drag.type = "inner" /\ CanAsync(t, Target)
           THEN AsyncThen(t, Target, FALSE, <<>>, wait) /\ Moved(FALSE)
           ELSE /\ Here(Unless(stray, SelectNodes(
                            MoveNodes(t, Target, nodes, drag.type, FALSE), nodes)))
                /\ Moved(stray)
        /\ UNCHANGED used

\* Copies come to the end of the children of the parent first; beside a target
\* that is gone the handler fails.
DropCopy ==
    LET t == Reopened
        c == Clone(t, drag.nodes)
        inner == drag.type = "inner"
        wait == [nodes |-> <<>>, silent |-> FALSE, selects |-> c.list]
        home == IF inner THEN Target ELSE tree.up[Target]
        added == AddNodes(c.tree, home, c.list, FALSE)
    IN  /\ drag.target # None
        /\ used + c.size <= MaxNode /\ used' = used + c.size
        /\ IF ~inner /\ Target = Root THEN Here(t)
           ELSE IF inner /\ CanAsync(t, Target)
           THEN AsyncThen(c.tree, Target, FALSE, c.list, wait)
           ELSE Here(SelectNodes(IF inner THEN added
                                 ELSE MoveNodes(added, Target, c.list, drag.type, FALSE),
                                 c.list))
        /\ Moved(FALSE)

\* The button is let go where nothing is done.
DropNowhere ==
    /\ \/ drag.target = None
       \/ /\ drag.type = "inner" /\ drag.target = tree.up[Head(drag.nodes)]
          /\ drag.target # Root
    /\ Here(SelectNodes(Reopened, drag.nodes))
    /\ orphan' = (orphan \/ ~(Dragged \subseteq tree.cache))
    /\ StaysPut /\ UNCHANGED used

MouseUp ==
    /\ drag' = NoDrag
    /\ \/ drag.phase = "down" /\ Here(tree) /\ StaysPut /\ UNCHANGED <<used, orphan>>
       \/ drag.phase = "drag" /\ (DropMove \/ DropCopy) /\ UNCHANGED orphan
       \/ drag.phase = "drag" /\ DropNowhere
    /\ UNCHANGED <<calls, ver, blank, late, curEditNode, editName>>

-----------------------------------------------------------------------------
InitInEdit ==
    /\ Init
    /\ curEditNode = None /\ editName = {} /\ drag = NoDrag
    /\ then = [i \in 1..MaxRequests |-> Nothing]
    /\ astray = FALSE /\ orphan = FALSE /\ patched = {} /\ erased = {}

\* What a script calls, and what a drag begins with.
Called ==
    \/ \E n \in Node : RemoveInEdit(n) \/ RemoveBtn(n) \/ RemoveChildrenInEdit(n)
    \/ \E n \in Node : EditNode(n) \/ EditBtn(n) \/ MouseDown(n)
    \/ LoadInEdit \/ ResetInEdit \/ CoreInEdit
    \/ \E q \in Place, n \in Node, type \in Type, silent \in BOOLEAN :
            MoveNodeCall(q, n, type, silent) \/ CopyNodeCall(q, n, type, silent)

Gesture ==
    \/ MouseInEdit \/ CancelCurEditNode \/ DragStart \/ DragOpen \/ MouseUp
    \/ \E q \in Place \cup {None}, type \in Type, copy \in BOOLEAN : DragOver(q, type, copy)

Next ==
    /\ \/ ~astray /\ calls < MaxCalls /\ calls' = calls + 1 /\ Called
       \/ ~astray /\ Gesture
       \/ \E r \in requests : AnswerInEdit(r)
    /\ sent' <= 1 \/ used' <= FewNodes

\* Every request ends: with the answer of the server or with an error.
Fairness ==
    \A i \in 1..MaxRequests :
        WF_vars(\E r \in requests : r.no = i /\ AnswerInEdit(r))

Spec == InitInEdit /\ [][Next]_vars /\ Fairness

-----------------------------------------------------------------------------
\* The parts of the state have their types.
EditTypeOK ==
    /\ TypeOK
    /\ curEditNode \in Node \cup {None} /\ editName \subseteq Node /\ drag \in Drag
    /\ \A i \in 1..MaxRequests :
            then[i] \in [nodes : Seq(Node), silent : BOOLEAN, selects : Seq(Node)]
    /\ {astray, orphan} \subseteq BOOLEAN /\ patched \subseteq Place /\ erased \subseteq Node

\* Every node is at one place of the tree.
EveryNodeOnce ==
    LET order == Preorder(tree.kids, Root)
    IN  Len(order) = Cardinality(ToSet(order))

\* The data of the tree stay a tree that agrees with itself, whatever is
\* added, loaded, moved, copied, dropped or removed, in whatever order the
\* answers come: each node once, with its parent, level, ends and cache entry.
TreeIsSound ==
    /\ EditTypeOK
    /\ astray \/ (EveryNodeOnce /\ CacheIsTheTree /\ ChildrenNameTheirParent /\ EndsAreMarked)

\* Only the node that is renamed has its name in a field.
OneField == editName \cap InTree(tree) \subseteq {curEditNode}

\* What is on the page is what the data say: whole lists, unless a silent move
\* put a node among others that are not drawn; lines and folders; the marks of
\* the selected nodes, unless their items were made anew by a move; and one
\* field for a name.
PageIsTrue ==
    ~astray =>
        /\ ListsAreDrawnWhole((InTree(tree) \cup {Root}) \ patched)
        /\ DrawnAsItIs
        /\ SelectionIsMarked(Node \ erased)
        /\ orphan \/ tree.selected \subseteq tree.cache
        /\ OneField

\* A node of the tree that shows it loads has one request on its way, which
\* will find it, and no second one, however often it is asked for again by
\* clicks, calls, moves and copies; any other node has none for this tree, once
\* its answer or error has come, or a refresh has made the request an old one.
LoadsHaveRequests ==
    \A n \in InTree(tree) :
        Cardinality({r \in requests : r.node = n /\ r.ver = ver})
            = IF n \in tree.ajaxing THEN 1 ELSE 0

\* A node does not load for ever: it is done, or gone from the tree.
LoadsEnd ==
    \A n \in Node :
        n \in InTree(tree) \cap tree.ajaxing
            ~> n \notin InTree(tree) \cap tree.ajaxing

\* Nodes leave the tree when they are removed, or reloaded, and never because
\* they or others are moved, dropped, copied or loaded.
NodesStay ==
    [][\/ InTree(tree) \subseteq InTree(tree')
       \/ astray'
       \/ /\ calls' # calls
          /\ \/ Reset \/ LoadInEdit
             \/ \E n \in Node : RemoveInEdit(n) \/ RemoveChildrenInEdit(n)]_vars

\* Nodes that are dropped come together and in their order to where the mouse
\* was, and all other nodes stay as they were, although they are moved one by
\* one and the list changes with each.
DropIsOneMove ==
    [][(/\ drag.phase = "drag" /\ drag'.phase = "none" /\ ~astray'
        /\ drag.target \in tree.cache \cup {Root}
        /\ used' = used /\ tree'.kids # tree.kids) =>
        LET q == drag.target
            home == IF drag.type = "inner" THEN q ELSE tree.up[q]
            rest == SelectSeq(tree.kids[home], LAMBDA m : m \notin Dragged)
            at == IF drag.type = "inner" THEN Len(rest) + 1
                  ELSE SelectInSeq(rest, LAMBDA m : m = q)
                       + IF drag.type = "next" THEN 1 ELSE 0
            list == SubSeq(rest, 1, at - 1) \o drag.nodes \o SubSeq(rest, at, Len(rest))
        IN  /\ tree'.kids[home] = list
            /\ \A p \in Place \ {home} :
                    tree'.kids[p] = SelectSeq(tree.kids[p], LAMBDA m : m \notin Dragged)]_vars
=============================================================================
