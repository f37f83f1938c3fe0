------------------------------- MODULE ZTree -------------------------------
(***************************************************************************)
(* The core of zTree (jquery.ztree.all-3.5.js up to line 1677), the tree   *)
(* of resources and organizations on the pages: the data of the nodes, the *)
(* cache that finds them, the list items that are built when a branch is   *)
(* first opened, and the loads that fill a branch while the page goes on.  *)
(*                                                                         *)
(* Nodes are numbered in the order they are made: a node is its JavaScript *)
(* object, and stands for its tId too.  A tree is a record; each function  *)
(* of view and data is an operator from a tree to a tree.  Every call of   *)
(* the API and every answer of the server is an action: JavaScript runs    *)
(* each to its end.  The before* callbacks, which the pages leave out, do  *)
(* not veto, and animations are at their end at once.  What happens next   *)
(* is in ZTreeEdit, which adds to these operations what exedit makes of    *)
(* them.                                                                   *)
(***************************************************************************)
EXTENDS Trees

CONSTANTS
    MaxNode,     \* bound on the nodes that are made
    Start,       \* the lists of simple data init is given
    AsyncEnable, \* setting.async.enable
    SimpleData,  \* setting.data.simpleData.enable
    KeepParent,  \* setting.data.keep.parent
    KeepLeaf,    \* setting.data.keep.leaf
    MaxRequests, \* bound on the requests for nodes
    MaxVersion,  \* bound on the refreshes
    MaxCalls     \* bound on the calls of the API

Root == 0
Node == 1..MaxNode
Place == Node \cup {Root}

ASSUME ZTreeAssumption ==
    /\ MaxNode \in Nat /\ MaxRequests \in Nat
    /\ MaxVersion \in Nat /\ MaxCalls \in Nat
    /\ {AsyncEnable, SimpleData, KeepParent, KeepLeaf} \subseteq BOOLEAN

VARIABLES
    tree,     \* the data and the list items
    used,     \* how many nodes were made
    ver,      \* root._ver: which init or refresh the tree is from
    requests, \* the requests on their way
    sent,     \* how many requests were sent
    calls,    \* how many calls of the API there were
    blank,    \* history: the branches an empty answer was added to
    late      \* history: whether an answer came for a node that was removed

-----------------------------------------------------------------------------
Line == {"", "root", "roots", "bottom", "center"}
Folder == {"", "docu", "open", "close"}

Tree == [kids : [Place -> Seq(Node)], up : [Node -> Place], level : [Node -> Nat],
         isParent : SUBSET Node, open : SUBSET Node, zAsync : SUBSET Node,
         ajaxing : SUBSET Node, first : SUBSET Node, last : SUBSET Node,
         cache : SUBSET Node, dom : SUBSET Node, ul : SUBSET Node,
         selected : SUBSET Node, marked : SUBSET Node,
         line : [Node -> Line], folder : [Node -> Folder],
         icon : [Node -> Folder \cup {"loading"}]]

Request == [no : 1..MaxRequests, node : Place, ver : 1..MaxVersion,
            silent : BOOLEAN, add : Seq(Node)]

Inside(t, n) == ToSet(Postorder(t.kids, n))
InTree(t) == Inside(t, Root)

\* A set with an element in or out.
Put(S, n, in) == IF in THEN S \cup {n} ELSE S \ {n}

\* The node and the ancestors getParentNode finds, the top one first.
Chain(t, n) ==
    LET chain[m \in Node] == IF t.up[m] \in t.cache THEN Append(chain[t.up[m]], m)
                             ELSE <<m>>
    IN  chain[n]

-----------------------------------------------------------------------------
\* What is drawn of a node: makeNodeLineClass and makeNodeIcoClass.

LineOf(t, n) ==
    IF t.level[n] = 0 /\ n \in t.first
    THEN IF n \in t.last THEN "root" ELSE "roots"
    ELSE IF n \in t.last THEN "bottom" ELSE "center"

FolderOf(t, n) ==
    IF n \notin t.isParent THEN "docu" ELSE IF n \in t.open THEN "open" ELSE "close"

\* setNodeLineIcos, and what makeDOMNode... writes for new list items.
Draw(t, S) ==
    LET seen(n) == n \in S \cap t.dom
    IN  [t EXCEPT
            !.line = [n \in Node |-> IF seen(n) THEN LineOf(t, n) ELSE @[n]],
            !.folder = [n \in Node |-> IF seen(n) THEN FolderOf(t, n) ELSE @[n]],
            !.icon = [n \in Node |-> IF ~seen(n) THEN @[n]
                                     ELSE IF n \in t.ajaxing THEN ""
                                     ELSE FolderOf(t, n)]]

\* replaceSwitchClass and replaceIcoClass with a folder, or with a line.
DrawFolder(t, n) ==
    IF n \notin t.dom THEN t
    ELSE [t EXCEPT !.folder[n] = FolderOf(t, n),
                   !.icon[n] = IF n \in t.ajaxing THEN @ ELSE FolderOf(t, n)]

DrawLine(t, n, line) == IF n \in t.dom THEN [t EXCEPT !.line[n] = line] ELSE t

\* List items leave the page.
Erase(t, S) ==
    [t EXCEPT !.dom = @ \ S, !.ul = @ \ S, !.marked = @ \ S,
              !.line = [n \in Node |-> IF n \in S THEN "" ELSE @[n]],
              !.folder = [n \in Node |-> IF n \in S THEN "" ELSE @[n]],
              !.icon = [n \in Node |-> IF n \in S THEN "" ELSE @[n]]]

\* makeDOM...: list items, with a list of their own for open parents.
MakeItems(t, S) ==
    Draw([t EXCEPT !.dom = @ \cup S, !.ul = @ \cup (S \cap t.isParent \cap t.open)], S)

\* appendNodes makes items for nodes and, where they are open, for their own.
Render(t, S) ==
    LET opened == [m \in Place |-> IF m \in t.isParent \cap t.open
                                   THEN t.kids[m] ELSE <<>>]
    IN  MakeItems(t, UNION {ToSet(Preorder(opened, m)) : m \in S})

\* The list of a node is made anew, if the node has an item to put it in.
Rebuild(t, n) ==
    LET bare == Erase(t, Inside(t, n))
    IN  IF n \notin t.dom THEN bare
        ELSE Render([bare EXCEPT !.ul = @ \cup {n}], ToSet(t.kids[n]))

\* appendParentULDom: first the lists of the ancestors, up to one with an item.
AppendParentULDom(t, n) ==
    LET chain == Chain(t, n)
        drawn == {i \in 1..Len(chain) : chain[i] \in t.dom}
        from == IF drawn = {} THEN 1 ELSE Max(drawn)
    IN  FoldLeft(Rebuild, t, SubSeq(chain, from, Len(chain)))

-----------------------------------------------------------------------------
\* Opening and closing.

ExpandCollapseNode(t, n, flag) ==
    LET missing == \/ n \notin t.ul
                   \/ t.kids[n] # <<>> /\ Head(t.kids[n]) \notin t.dom
        built == IF n \notin t.open /\ n \in t.isParent /\ missing
                 THEN AppendParentULDom(t, n) ELSE t
    IN  IF (n \in t.open) = flag \/ n \notin t.isParent THEN built
        ELSE DrawFolder([built EXCEPT !.open = Put(@, n, n \notin t.open)], n)

\* The node and its ancestors, the node first.
ExpandCollapseParentNode(t, n, flag) ==
    FoldLeft(LAMBDA s, m : ExpandCollapseNode(s, m, flag), t, Reverse(Chain(t, n)))

\* What is below, the deepest first, and the node itself.
ExpandCollapseSonNode(t, n, flag) ==
    LET below == FoldLeft(LAMBDA s, m : ExpandCollapseNode(s, m, flag), t,
                          Postorder(t.kids, n))
    IN  IF n = Root THEN below ELSE ExpandCollapseNode(below, n, flag)

-----------------------------------------------------------------------------
\* Adding.  The nodes of a list come under a place, with what is below them;
\* the list is at the end of the children of the place.

InitNodes(t, p, list) ==
    LET new == UNION {ToSet(Preorder(t.kids, m)) : m \in ToSet(list)}
        base == IF p = Root THEN 0 ELSE t.level[p] + 1
        sib(n) == IF n \in ToSet(list) THEN list
                  ELSE t.kids[CHOOSE m \in new : n \in ToSet(t.kids[m])]
        up(n) == IF n \in ToSet(list) THEN p
                 ELSE CHOOSE m \in new : n \in ToSet(t.kids[m])
        depth[n \in Node] == IF n \in ToSet(list) THEN base ELSE depth[up(n)] + 1
        full == {n \in new : t.kids[n] # <<>>}
        leaf == new \ (t.isParent \cup full)
    IN  [t EXCEPT
            !.level = [n \in Node |-> IF n \in new THEN depth[n] ELSE @[n]],
            !.up = [n \in Node |-> IF n \in new THEN up(n) ELSE @[n]],
            !.isParent = @ \cup full,
            !.open = @ \ {n \in new \ full : n \in leaf \/ AsyncEnable},
            !.zAsync = (@ \ new) \cup full \cup leaf,
            !.ajaxing = @ \ new,
            !.first = (@ \ new) \cup
                {n \in new : /\ Head(sib(n)) = n
                             /\ n \in ToSet(list) => Len(t.kids[p]) = Len(list)},
            !.last = (@ \ new) \cup {n \in new : Last(sib(n)) = n},
            !.cache = @ \cup new]

CreateNodes(t, p, list) ==
    LET made == InitNodes(t, p, list)
        fits == p = Root \/ p \in t.ul
        opens == p = Root \/ p \in t.open \/ Head(t.kids[p]) \in t.dom
    IN  IF list = <<>> THEN t
        ELSE IF opens /\ fits THEN Render(made, ToSet(list)) ELSE made

\* (wrong) The children there were are replaced.
AddNodesDataAnew(t, p, list) ==
    [t EXCEPT !.kids[p] = list, !.isParent = IF p = Root THEN @ ELSE @ \cup {p}]

\* The last child is not the last any more, even when nothing is added.
AddNodesData(t, p, list) ==
    LET old == IF t.kids[p] = <<>> THEN {} ELSE {Last(t.kids[p])}
        unlined == Draw([t EXCEPT !.last = @ \ old], old)
    IN  [unlined EXCEPT !.kids[p] = @ \o list,
                        !.isParent = IF p = Root THEN @ ELSE @ \cup {p}]

\* With simple data, initNode asks the parent for its id: there is none when
\* the parent has left the cache.
Fails(t, p) == SimpleData /\ p \in Node \ t.cache

AddNodes(t, p, list, silent) ==
    LET added == AddNodesData(IF p # Root /\ p \notin t.open THEN DrawFolder(
                                    [t EXCEPT !.isParent = @ \cup {p}], p)
                              ELSE t, p, list)
        made == CreateNodes(added, p, list)
    IN  IF KeepLeaf /\ p # Root /\ p \notin t.isParent THEN t
        ELSE IF Fails(t, p) /\ list # <<>> THEN added
        ELSE IF p = Root \/ silent THEN made
        ELSE ExpandCollapseParentNode(made, p, TRUE)

-----------------------------------------------------------------------------
\* Selecting and removing.

CancelPreSelectedNode(t, S) ==
    [t EXCEPT !.marked = @ \ (S \cap t.selected), !.selected = @ \ S]

RemoveSelectedNode(t, S) ==
    [t EXCEPT !.selected = (@ \ S) \cap t.cache]

SelectNode(t, n, add) ==
    LET base == IF add THEN t ELSE CancelPreSelectedNode(t, t.selected)
    IN  [base EXCEPT !.selected = @ \cup {n},
                     !.marked = @ \cup ({n} \cap t.dom)]

\* A place without children becomes a leaf, unless parents are kept.
Emptied(t, p) ==
    IF p = Root \/ KeepParent THEN t
    ELSE DrawFolder([t EXCEPT !.isParent = @ \ {p}, !.open = @ \ {p}], p)

RemoveChildNodes(t, n) ==
    LET gone == Inside(t, n)
        bare == [Erase(t, gone) EXCEPT !.cache = @ \ gone, !.kids[n] = <<>>]
        left == RemoveSelectedNode(bare, {})
    IN  IF KeepParent THEN left ELSE Emptied([left EXCEPT !.ul = @ \ {n}], n)

\* The lines of the brothers that stay, drawn again where they changed.
DrawBrothers(t, p) ==
    LET list == t.kids[p]
        roots == IF p = Root /\ Len(list) > 1 THEN DrawLine(t, Head(list), "roots") ELSE t
    IN  IF p = Root /\ Len(list) = 1 THEN DrawLine(t, Head(list), "root")
        ELSE DrawLine(roots, Last(list), "bottom")

\* setFirstNode and setLastNode.
SetEnds(t, list) ==
    IF list = <<>> THEN t
    ELSE [t EXCEPT !.first = @ \cup {Head(list)}, !.last = @ \cup {Last(list)}]

RemoveNode(t, n) ==
    LET p == t.up[n]
        gone == Inside(t, n) \cup {n}
        list == SelectSeq(t.kids[p], LAMBDA m : m # n)
        bare == RemoveSelectedNode([Erase(t, gone) EXCEPT !.cache = @ \ gone,
                                                          !.kids[p] = list], {n})
        ends == SetEnds([bare EXCEPT !.first = @ \ {n}, !.last = @ \ {n}], list)
    IN  IF n \notin t.cache THEN [t EXCEPT !.first = @ \ {n}, !.last = @ \ {n}]
        ELSE IF list = <<>> THEN Emptied(ends, p) ELSE DrawBrothers(ends, p)

-----------------------------------------------------------------------------
\* transformTozTreeFormat: a row comes under the last row with the id it names,
\* unless it names itself.  The i-th row is the node i.
TransformTozTreeFormat(rows) ==
    LET named(i) == {j \in 1..Len(rows) : rows[j].id = rows[i].pId}
        up(i) == IF named(i) = {} \/ rows[i].id = rows[i].pId THEN Root
                 ELSE Max(named(i))
    IN  [p \in Place |-> SelectSeq([i \in 1..Len(rows) |-> i], LAMBDA i : up(i) = p)]

EmptyTree ==
    LET none == [n \in Node |-> ""]
    IN  [kids |-> [p \in Place |-> <<>>], up |-> [n \in Node |-> Root],
         level |-> [n \in Node |-> 0], isParent |-> {}, open |-> {},
         zAsync |-> {}, ajaxing |-> {}, first |-> {}, last |-> {}, cache |-> {},
         dom |-> {}, ul |-> {}, selected |-> {}, marked |-> {},
         line |-> none, folder |-> none, icon |-> none]

\* $.fn.zTree.init: the nodes given, or a request for them.
Init ==
    \E rows \in Start :
        LET flagged(flag) == {i \in 1..Len(rows) : flag \in rows[i].flags}
            given == [EmptyTree EXCEPT !.kids = TransformTozTreeFormat(rows),
                                       !.isParent = flagged("isParent"),
                                       !.open = flagged("open")]
            asks == given.kids[Root] = <<>> /\ AsyncEnable
        IN  /\ tree = CreateNodes(given, Root, given.kids[Root])
            /\ used = Len(rows) /\ ver = 1 /\ calls = 0 /\ blank = {} /\ late = FALSE
            /\ sent = IF asks THEN 1 ELSE 0
            /\ requests = IF ~asks THEN {}
                          ELSE {[no |-> 1, node |-> Root, ver |-> 1,
                                 silent |-> FALSE, add |-> <<>>]}

-----------------------------------------------------------------------------
\* Requests.

CanAsync(t, n) ==
    /\ AsyncEnable /\ n \in t.isParent \ t.zAsync /\ t.kids[n] = <<>>

Changes(t) == tree' = t /\ UNCHANGED <<requests, sent>>

\* (wrong) A node that loads is asked for once more.
AsyncNodeAgain(t, p, silent, add) ==
    IF p # Root /\ p \notin t.isParent THEN Changes(t)
    ELSE /\ sent < MaxRequests
         /\ sent' = sent + 1
         /\ requests' = requests \cup {[no |-> sent', node |-> p, ver |-> ver,
                                       silent |-> silent, add |-> add]}
         /\ tree' = IF p = Root THEN t
                    ELSE [t EXCEPT !.ajaxing = @ \cup {p},
                                   !.icon[p] = IF p \in t.dom THEN "loading" ELSE @]

\* asyncNode: the request leaves, unless the node is a leaf or loads already.
AsyncNode(t, p, silent, add) ==
    IF p # Root /\ (p \notin t.isParent \/ p \in t.ajaxing) THEN Changes(t)
    ELSE /\ sent < MaxRequests
         /\ sent' = sent + 1
         /\ requests' = requests \cup {[no |-> sent', node |-> p, ver |-> ver,
                                       silent |-> silent, add |-> add]}
         /\ tree' = IF p = Root THEN t
                    ELSE [t EXCEPT !.ajaxing = @ \cup {p},
                                   !.icon[p] = IF p \in t.dom THEN "loading" ELSE @]

SwitchNode(t, n) ==
    IF n \in t.open \/ ~CanAsync(t, n) \/ n \in t.ajaxing
    THEN Changes(ExpandCollapseNode(t, n, n \notin t.open))
    ELSE AsyncNode(t, n, FALSE, <<>>)

\* Objects nobody has seen: what a caller or the server hands over.
Made(list, flags) ==
    /\ Len(list) <= MaxNode - used
    /\ list = [i \in 1..Len(list) |-> used + i]
    /\ flags \subseteq ToSet(list)
    /\ used' = used + Len(list)

Lists3 == {[i \in 1..k |-> used + i] : k \in 0..2}

Given(t, flags) == [t EXCEPT !.isParent = @ \cup flags]

\* Nodes are lost here when the place loads already.
AddNodesCall(p, list, flags, silent) ==
    LET t == Given(tree, flags)
    IN  /\ list # <<>> /\ Made(list, flags)
        /\ p \in InTree(tree) \cup {Root}
        /\ p = Root \/ ~KeepLeaf \/ p \in tree.isParent
        /\ IF CanAsync(t, p) THEN AsyncNode(t, p, silent, list)
           ELSE Changes(AddNodes(t, p, list, silent))
        /\ UNCHANGED <<ver, blank, late>>

\* What an answer brings, and then what waits for it.
Filled(r, list, flags) ==
    LET n == r.node
        given == Given(tree, flags)
        ready == IF n = Root THEN given
                 ELSE Draw([given EXCEPT !.ajaxing = @ \ {n}, !.zAsync = @ \cup {n}], {n})
    IN  AddNodes(ready, n, list, r.silent)

Received(r, list, flags) ==
    IF r.add = <<>> THEN Filled(r, list, flags)
    ELSE AddNodes(Filled(r, list, flags), r.node, r.add, r.silent)

\* An answer of the server: what waits for it makes the tree `then`, but for
\* an exception; one to an older tree is dropped.
Succeed(r, list, flags, then) ==
    LET n == r.node
        fails == /\ n \in Node \ tree.cache
                 /\ \/ SimpleData /\ list # <<>>
                    \/ ~r.silent /\ tree.up[n] \in Node \ tree.cache
    IN  /\ Made(list, flags)
        /\ requests' = requests \ {r}
        /\ IF r.ver # ver THEN UNCHANGED <<tree, blank, late>>
           ELSE /\ tree' = IF fails THEN Filled(r, list, flags) ELSE then
                /\ blank' = IF list = <<>> /\ tree.kids[n] # <<>>
                            THEN blank \cup {n} ELSE blank
                /\ late' = (late \/ n \in Node \ tree.cache)
        /\ UNCHANGED <<sent, ver>>

\* (wrong) The error leaves the node as it loads.
FailForgets(r) ==
    /\ requests' = requests \ {r}
    /\ UNCHANGED <<tree, used, ver, sent, blank, late>>

Fail(r) ==
    /\ requests' = requests \ {r}
    /\ tree' = IF r.ver # ver \/ r.node = Root THEN tree
               ELSE Draw([tree EXCEPT !.ajaxing = @ \ {r.node}], {r.node})
    /\ UNCHANGED <<used, ver, sent, blank, late>>

\* reAsyncChildNodes: with "refresh" what is there goes first.
ReAsyncChildNodes(p, refresh, silent) ==
    LET gone == Inside(tree, p)
        bare == [Erase(tree, gone) EXCEPT !.cache = @ \ gone, !.kids[p] = <<>>]
        t == IF refresh THEN RemoveSelectedNode(bare, {}) ELSE tree
    IN  /\ AsyncEnable
        /\ p \in InTree(tree) \cup {Root}
        /\ AsyncNode(t, p, silent, <<>>)
        /\ UNCHANGED <<used, ver, blank, late>>

\* refresh: all is drawn again from the data, and answers on their way are lost.
Refresh ==
    /\ ver < MaxVersion /\ ver' = ver + 1
    /\ Changes(CreateNodes([Erase(tree, Node) EXCEPT !.cache = {}, !.selected = {}],
                           Root, tree.kids[Root]))
    /\ UNCHANGED <<used, blank, late>>

Destroy ==
    /\ ver < MaxVersion /\ ver' = ver + 1
    /\ Changes([Erase(tree, Node) EXCEPT !.cache = {}, !.selected = {},
                                        !.kids[Root] = <<>>])
    /\ UNCHANGED <<used, blank, late>>

-----------------------------------------------------------------------------
\* The rest of the API, and the mouse.

Alone == UNCHANGED <<used, ver, blank, late>>

Visible(n) ==
    n \in tree.dom /\ ToSet(Front(Chain(tree, n))) \subseteq tree.open

\* A click on the switch of a node, or a double click on the node.
OnSwitchNode(n) ==
    /\ Visible(n) /\ n \in tree.isParent
    /\ SwitchNode(tree, n) /\ Alone

\* With the control key a selected node is let go, another one added.
OnClickNode(n, ctrl) ==
    /\ Visible(n)
    /\ Changes(IF ctrl /\ n \in tree.selected THEN CancelPreSelectedNode(tree, {n})
               ELSE SelectNode(tree, n, ctrl))
    /\ Alone

ExpandAll(flag) ==
    Changes(ExpandCollapseSonNode(tree, Root, flag)) /\ Alone

ExpandNode(n, flag, sons) ==
    LET p == tree.up[n]
        t == IF flag /\ p # Root THEN ExpandCollapseParentNode(tree, p, TRUE) ELSE tree
    IN  /\ n \in InTree(tree) \cap tree.isParent
        /\ IF (n \in t.open) = flag /\ ~sons THEN Changes(t)
           ELSE IF sons /\ ~CanAsync(t, n)
           THEN Changes(ExpandCollapseSonNode(t, n, flag))
           ELSE SwitchNode([t EXCEPT !.open = Put(@, n, ~flag)], n)
        /\ Alone

SelectNodeCall(n, add) ==
    LET p == tree.up[n]
        t == IF p # Root THEN ExpandCollapseParentNode(tree, p, TRUE) ELSE tree
    IN  /\ n \in InTree(tree)
        /\ Changes(SelectNode(t, n, add)) /\ Alone

CancelSelectedNode(S) ==
    Changes(CancelPreSelectedNode(tree, S)) /\ Alone

\* A parent that never had children keeps on being one.
RemoveChildNodesCall(n) ==
    /\ n \in InTree(tree)
    /\ \/ Changes(RemoveChildNodes(tree, n))
       \/ tree.kids[n] = <<>> /\ Changes(tree)
    /\ Alone

RemoveNodeCall(n) ==
    /\ n \in InTree(tree)
    /\ Changes(RemoveNode(tree, n)) /\ Alone

-----------------------------------------------------------------------------
treeVars == <<tree, used, ver, requests, sent, calls, blank, late>>

Answer(r, Then(_)) ==
    \E list \in Lists3, flags \in {{}, {used + 1}} :
        Succeed(r, list, flags, Then(Received(r, list, flags)))

Load ==
    \/ \E p \in Place, list \in Lists3, flags \in {{}, {used + 1}}, silent \in BOOLEAN :
            AddNodesCall(p, list, flags, silent)
    \/ \E p \in Place, refresh, silent \in BOOLEAN :
            ReAsyncChildNodes(p, refresh, silent)

Reset == Refresh \/ Destroy

Expand ==
    \/ \E flag \in BOOLEAN : ExpandAll(flag)
    \/ \E n \in Node, flag, sons \in BOOLEAN : ExpandNode(n, flag, sons)

Select ==
    \E n \in Node, add \in BOOLEAN : SelectNodeCall(n, add)

Deselect ==
    \E S \in {tree.selected} \cup {{n} : n \in tree.selected} : CancelSelectedNode(S)

Mouse ==
    \/ \E n \in Node : OnSwitchNode(n)
    \/ \E n \in Node, ctrl \in BOOLEAN : OnClickNode(n, ctrl)

-----------------------------------------------------------------------------
\* The parts of the state have their types.
TypeOK ==
    /\ tree \in Tree
    /\ used \in 0..MaxNode /\ ver \in 1..MaxVersion
    /\ requests \subseteq Request
    /\ sent \in 0..MaxRequests /\ calls \in 0..MaxCalls
    /\ blank \subseteq Place /\ late \in BOOLEAN

\* getNodeByTId finds the nodes of the tree, and besides them only what an
\* answer brought for a node that was removed while it loaded.
CacheIsTheTree ==
    /\ InTree(tree) \subseteq tree.cache
    /\ \A n \in tree.cache \ InTree(tree) :
            tree.up[Head(Chain(tree, n))] \in Node \ tree.cache

\* A node names the parent that lists it, and is one level below it.
ChildrenNameTheirParent ==
    \A p \in InTree(tree) \cup {Root} : \A n \in ToSet(tree.kids[p]) :
        /\ tree.up[n] = p
        /\ tree.level[n] = IF p = Root THEN 0 ELSE tree.level[p] + 1

\* isFirstNode and isLastNode tell the ends of a list of children, which the
\* lines are drawn by; an empty answer takes the last one its mark.
EndsAreMarked ==
    \A p \in InTree(tree) \cup {Root} : \A i \in 1..Len(tree.kids[p]) :
        LET n == tree.kids[p][i]
        IN  /\ n \in tree.first <=> i = 1
            /\ p \notin blank => (n \in tree.last <=> i = Len(tree.kids[p]))

\* The items of the children of a node are made together: the code looks at
\* the first one only.  They are there when the node is open and has an item.
ListsAreDrawnWhole(places) ==
    /\ tree.dom \subseteq InTree(tree)
    /\ \A p \in places :
        LET list == ToSet(tree.kids[p])
        IN  /\ list \subseteq tree.dom \/ list \cap tree.dom = {}
            /\ list \cap tree.dom # {} => p = Root \/ p \in tree.ul
            /\ p \in tree.dom \cap tree.open => list \subseteq tree.dom

\* What is drawn of a node is what would be drawn of it now; a node that loads
\* may look open when expandNode has closed it to ask for its nodes.
DrawnAsItIs ==
    \A n \in tree.dom :
        /\ tree.line[n] = LineOf(tree, n)
        /\ n \notin tree.ajaxing =>
                /\ tree.folder[n] = FolderOf(tree, n)
                /\ tree.icon[n] = FolderOf(tree, n)

\* Selected nodes are marked where they are drawn: until an answer for a
\* removed node draws its old brothers again, without marks.
SelectionIsMarked(nodes) ==
    late \/ tree.marked \cap nodes = tree.selected \cap tree.dom \cap nodes
=============================================================================
