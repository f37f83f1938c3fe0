----------------------------- MODULE ZTreeCheck -----------------------------
(***************************************************************************)
(* The check boxes and radio buttons of zTree (jquery.ztree.all-3.5.js     *)
(* from line 1690 to 2304), and the field of role/edit.jsp they fill.  A   *)
(* node keeps check_Child_State, what the boxes below it come to: -1 for   *)
(* none that counts, 0 for no check, 2 for all, 1 between.  The box of the *)
(* node is drawn from it, half or full, and every operation repairs it up  *)
(* to the root.                                                            *)
(*                                                                         *)
(* All branches are open, so that every node has its box on the page; the  *)
(* data of the tree itself is in ZTree.  beforeCheck, which the page does  *)
(* not set, does not veto.                                                 *)
(***************************************************************************)
EXTENDS Trees, Integers

CONSTANTS
    MaxNode,  \* bound on the nodes that are made
    Settings, \* the settings of check
    Start,    \* the trees init is given, with the attributes of their nodes
    Unlisted, \* what a role holds that the page does not list
    MaxEdits  \* bound on the changes of the tree and on disabling boxes

Root == 0
Node == 1..MaxNode
Place == Node \cup {Root}

VARIABLES
    setting, \* setting.check
    tree,    \* the nodes with their attributes and what is drawn of them
    used,    \* how many nodes were made
    field,   \* the hidden field resourceIds of the page
    edits,   \* how often the tree was changed or a box disabled
    inner    \* history: a node with children was without a box, disabled or,
             \* together with them, enabled

vars == <<setting, tree, used, field, edits, inner>>

-----------------------------------------------------------------------------
Setting == [style : {"checkbox", "radio"}, radioType : {"level", "all"},
            Y : SUBSET {"p", "s"}, N : SUBSET {"p", "s"},
            nocheckInherit : BOOLEAN, chkDisabledInherit : BOOLEAN]

ASSUME ZTreeCheckAssumption == MaxNode \in Nat /\ Settings \subseteq Setting

Class == [checked : BOOLEAN, style : {"full", "part", "disable"}]
NoClass == [checked |-> FALSE, style |-> "full"]

Tree == [kids : [Place -> Seq(Node)], up : [Node -> Place],
         checked : SUBSET Node, nocheck : SUBSET Node, chkDisabled : SUBSET Node,
         halfCheck : SUBSET Node, state : [Node -> -1..2],
         radioCheckedList : SUBSET Node, drawn : [Node -> Class]]

Inside(t, n) == ToSet(Postorder(t.kids, n))
InTree(t) == Inside(t, Root)

\* The ancestors of a node, its parent first.
Ancestors(t, n) ==
    LET path[m \in Place] == IF m = Root \/ t.up[m] = Root THEN <<>>
                             ELSE <<t.up[m]>> \o path[t.up[m]]
    IN  path[n]

Special(t) == t.nocheck \cup t.chkDisabled
Mark(t, n, value) ==
    [t EXCEPT !.checked = IF value THEN @ \cup {n} ELSE @ \ {n}]

\* What a child counts for in the state of its parent.
ChildState(t, n) ==
    LET radio == setting.style = "radio"
    IN  IF n \in Special(t) THEN t.state[n]
        ELSE IF n \in t.halfCheck THEN IF radio THEN 2 ELSE 1
        ELSE IF n \in t.checked THEN IF radio \/ t.state[n] \in {-1, 2} THEN 2 ELSE 1
        ELSE IF t.state[n] > 0 THEN IF radio THEN 2 ELSE 1 ELSE 0

ChkFlag(t, n) ==
    LET counts == {ChildState(t, m) : m \in ToSet(t.kids[n])} \ {-1}
    IN  IF counts = {} THEN -1
        ELSE IF setting.style = "radio" THEN IF 2 \in counts THEN 2 ELSE 0
        ELSE IF counts \in {{0}, {2}} THEN Max(counts) ELSE 1

MakeChkFlag(t, n) == [t EXCEPT !.state[n] = ChkFlag(t, n)]

ChkClass(t, n) ==
    LET full == IF setting.style = "checkbox" /\ n \in t.checked
                THEN t.state[n] \in {-1, 2} ELSE t.state[n] < 1
    IN  [checked |-> n \in t.checked,
         style |-> IF n \in t.chkDisabled THEN "disable"
                   ELSE IF n \notin t.halfCheck /\ full THEN "full" ELSE "part"]

SetChkClass(t, n) == [t EXCEPT !.drawn[n] = ChkClass(t, n)]

-----------------------------------------------------------------------------
\* Repairing.

RepairChkClass(t, n) ==
    LET made == MakeChkFlag(t, n)
    IN  IF n \in t.nocheck THEN made ELSE SetChkClass(made, n)

\* (wrong) The parent alone is repaired.
RepairParentAlone(t, n) == IF t.up[n] = Root THEN t ELSE RepairChkClass(t, t.up[n])

RepairParentChkClass(t, n) == FoldLeft(RepairChkClass, t, Ancestors(t, n))

\* The node itself only when it has children.
RepairParentChkClassWithSelf(t, n) ==
    RepairParentChkClass(t, IF t.kids[n] # <<>> THEN Head(t.kids[n]) ELSE n)

\* The node before its children: their boxes count as they were.
RepairSonChkDisabled(t, n, disabled, inherit) ==
    LET set(s, m) == [s EXCEPT !.chkDisabled = IF disabled THEN @ \cup {m} ELSE @ \ {m}]
        order == IF inherit THEN Preorder(t.kids, n) ELSE <<n>>
    IN  FoldLeft(LAMBDA s, m : RepairChkClass(set(s, m), m), t, order)

RepairParentChkDisabled(t, n, disabled, inherit) ==
    LET set(s, m) == IF ~inherit THEN s
                     ELSE [s EXCEPT !.chkDisabled = IF disabled THEN @ \cup {m}
                                                    ELSE @ \ {m}]
    IN  FoldLeft(LAMBDA s, m : RepairChkClass(set(s, m), m), t, Ancestors(t, n))

-----------------------------------------------------------------------------
\* Passing a check on.

\* Down, the deepest first, as far as no node stops it.  Only a disabled child
\* makes a node look at what its children are.
PassDown(t, n, value, stops) ==
    LET passed == [m \in Place |-> IF m \in stops THEN <<>> ELSE t.kids[m]]
        one(s, m) ==
            LET hasDisable == ToSet(s.kids[m]) \cap s.chkDisabled # {}
                sure == IF s.kids[m] = <<>> THEN -1 ELSE IF value THEN 2 ELSE 0
                flagged == IF m \in s.nocheck THEN [s EXCEPT !.state[m] = -1]
                           ELSE IF hasDisable THEN Mark(MakeChkFlag(s, m), m, value)
                           ELSE Mark([s EXCEPT !.state[m] = sure], m, value)
            IN  IF m \in stops THEN s ELSE SetChkClass(flagged, m)
    IN  FoldLeft(one, t, Append(Postorder(passed, n), n))

\* (wrong) Disabled boxes are passed like others.
SetSonsAnyway(t, n, value) == PassDown(t, n, value, {})

SetSonNodeCheckBox(t, n, value) == PassDown(t, n, value, t.chkDisabled)

\* (wrong) The parent is marked and no ancestor above it.
SetParentAlone(t, n, value) ==
    IF t.up[n] = Root THEN t ELSE Mark(MakeChkFlag(t, t.up[n]), t.up[n], value)

\* Up: a check always, the end of one as long as no brother is checked.
SetParentNodeCheckBox(t, n, value) ==
    LET one(s, m) ==
            LET made == MakeChkFlag(s, m)
            IN  IF m \in Special(s) THEN made ELSE SetChkClass(Mark(made, m, value), m)
        counts(s, m) == IF m \in Special(s) THEN s.state[m] > 0 ELSE m \in s.checked
        step(acc, m) ==
            IF acc.stop THEN acc
            ELSE LET s == one(acc.tree, m)
                 IN  [tree |-> s,
                      stop |-> ~value /\ \E b \in ToSet(s.kids[s.up[m]]) : counts(s, b)]
    IN  FoldLeft(step, [tree |-> t, stop |-> FALSE], <<n>> \o Ancestors(t, n)).tree

\* A radio button ends the check of the others of its group, wherever they are.
\* radioCheckedList may hold the button itself, when the relation is repeated
\* for one that was checked before: then its own check ends as well, and it
\* stays in the list.
CheckRadio(t, n) ==
    LET all == setting.radioType = "all"
        known == t.radioCheckedList \cap InTree(t)
        ended == IF all THEN known
                 ELSE (ToSet(t.kids[t.up[n]]) \cap t.checked) \ {n}
        end(s, m) ==
            LET off == SetChkClass(Mark(s, m, FALSE), m)
            IN  IF all /\ t.up[m] # t.up[n]
                THEN RepairParentChkClassWithSelf(off, m) ELSE off
        alone == FoldLeft(end, t, SetToSeq(ended))
    IN  IF n \in t.checked
        THEN [alone EXCEPT !.radioCheckedList = IF all THEN {n} ELSE known]
        ELSE [t EXCEPT !.radioCheckedList = IF all THEN known \ {n} ELSE known]

CheckNodeRelation(t, n) ==
    LET value == n \in t.checked
        type == IF value THEN setting.Y ELSE setting.N
        down == IF t.kids[n] = <<>> \/ "s" \in type
                THEN SetSonNodeCheckBox(t, n, value) ELSE t
    IN  IF setting.style = "radio" THEN CheckRadio(t, n)
        ELSE IF "p" \in type THEN SetParentNodeCheckBox(down, n, value) ELSE down

\* What follows a change of the mark of a node.
Checked(t, n, related) ==
    LET passed == IF related THEN CheckNodeRelation(t, n) ELSE t
    IN  RepairParentChkClassWithSelf(SetChkClass(passed, n), n)

-----------------------------------------------------------------------------
\* initNode for the nodes of a list and what is below them, the parents first;
\* then the states, the children first.
InitNodes(t, p, list) ==
    LET order == FlattenSeq([i \in 1..Len(list) |-> Preorder(t.kids, list[i])])
        new == ToSet(order)
        up(s, n) == IF n \in ToSet(list) THEN p
                    ELSE CHOOSE m \in new : n \in ToSet(s.kids[m])
        one(s, n) ==
            LET q == up(s, n)
            IN  [s EXCEPT
                    !.up[n] = q, !.state[n] = -1,
                    !.nocheck = IF setting.nocheckInherit /\ q \in s.nocheck
                                THEN @ \cup {n} ELSE @,
                    !.chkDisabled = IF setting.chkDisabledInherit /\ q \in s.chkDisabled
                                    THEN @ \cup {n} ELSE @,
                    !.radioCheckedList =
                        IF /\ setting.style = "radio" /\ setting.radioType = "all"
                           /\ n \in s.checked
                        THEN @ \cup {n} ELSE @]
        below == FlattenSeq([i \in 1..Len(list) |->
                                Append(Postorder(t.kids, list[i]), list[i])])
        flagged == FoldLeft(MakeChkFlag, FoldLeft(one, t, order), below)
    IN  FoldLeft(SetChkClass, flagged, below)

CreateNodes(t, p, list) ==
    LET made == InitNodes(t, p, list)
    IN  IF p = Root THEN made ELSE RepairParentChkClassWithSelf(made, p)

-----------------------------------------------------------------------------
Spoilt(t) == \E n \in Special(t) \cap InTree(t) : t.kids[n] # <<>>

\* The page lists what the role may hold, checked where the role has it.
Init ==
    /\ setting \in Settings
    /\ \E data \in Start, hidden \in SUBSET Unlisted :
        LET t == [kids |-> data.kids, up |-> [n \in Node |-> Root],
                  checked |-> data.checked, nocheck |-> data.nocheck,
                  chkDisabled |-> data.chkDisabled, halfCheck |-> data.halfCheck,
                  state |-> [n \in Node |-> -1], radioCheckedList |-> {},
                  drawn |-> [n \in Node |-> NoClass]]
        IN  /\ tree = CreateNodes(t, Root, data.kids[Root])
            /\ used = Cardinality(InTree(t))
            /\ field = data.checked \cup hidden
            /\ inner = Spoilt(tree)
    /\ edits = 0

\* getCheckedNodes(true), which counts no node without a box or disabled.
CheckedNodes(t) ==
    LET all == (t.checked \ Special(t)) \cap InTree(t)
        order == SelectSeq(Preorder(t.kids, Root), LAMBDA n : n \in all)
    IN  IF /\ setting.style = "radio" /\ setting.radioType = "all" /\ order # <<>>
        THEN {Head(order)} ELSE all

Sets(t) == tree' = t /\ inner' = (inner \/ Spoilt(t))
Kept == UNCHANGED <<setting, used, edits>>

\* (wrong) The page reads the checks before they are passed on.
OnCheckTooEarly(n) ==
    /\ n \in InTree(tree) \ Special(tree)
    /\ Sets(Checked(Mark(tree, n, n \notin tree.checked), n, TRUE))
    /\ field' = CheckedNodes(tree)
    /\ Kept

\* A click on the box of a node, and the page's onCheck.
OnCheckNode(n) ==
    /\ n \in InTree(tree) \ Special(tree)
    /\ Sets(Checked(Mark(tree, n, n \notin tree.checked), n, TRUE))
    /\ field' = CheckedNodes(tree')
    /\ Kept

CheckNode(n, checked, checkTypeFlag, callbackFlag) ==
    /\ n \in InTree(tree) \ Special(tree)
    /\ (n \in tree.checked) # checked \/ checkTypeFlag
    /\ Sets(Checked(Mark(tree, n, checked), n,
                    checkTypeFlag \/ setting.style = "radio"))
    /\ field' = IF callbackFlag THEN CheckedNodes(tree') ELSE field
    /\ Kept

UpdateNode(n, checkTypeFlag) ==
    /\ n \in InTree(tree)
    /\ Sets(Checked(tree, n, checkTypeFlag \/ setting.style = "radio"))
    /\ UNCHANGED field /\ Kept

\* repairAllChk: the roots are marked and pass it on; nothing is repaired.
CheckAllNodes(checked) ==
    LET one(s, n) ==
            SetSonNodeCheckBox(IF n \in Special(s) THEN s ELSE Mark(s, n, checked),
                               n, checked)
    IN  /\ setting.style = "checkbox"
        /\ Sets(FoldLeft(one, tree, tree.kids[Root]))
        /\ UNCHANGED field /\ Kept

SetChkDisabled(n, disabled, inheritParent, inheritChildren) ==
    /\ n \in InTree(tree)
    /\ tree' = RepairParentChkDisabled(
                    RepairSonChkDisabled(tree, n, disabled, inheritChildren),
                    n, disabled, inheritParent)
    /\ inner' = (inner \/ Spoilt(tree') \/ (inheritChildren /\ tree.kids[n] # <<>>))
    /\ UNCHANGED <<setting, used, field>>

-----------------------------------------------------------------------------
\* A new node with its mark, at the end of the children of a place.
AddNode(p, checked, nocheck) ==
    LET n == used + 1
        t == [tree EXCEPT !.kids[p] = Append(@, n),
                          !.checked = IF checked THEN @ \cup {n} ELSE @,
                          !.nocheck = IF nocheck THEN @ \cup {n} ELSE @]
    IN  /\ used < MaxNode /\ used' = n
        /\ p \in InTree(tree) \cup {Root}
        /\ Sets(CreateNodes(t, p, <<n>>))
        /\ UNCHANGED <<setting, field>>

RemoveNode(n) ==
    LET p == tree.up[n]
        t == [tree EXCEPT !.kids[p] = SelectSeq(@, LAMBDA m : m # n)]
    IN  /\ n \in InTree(tree)
        /\ Sets(IF p = Root THEN t
                ELSE RepairParentChkClass(RepairChkClass(t, p), p))
        /\ UNCHANGED <<setting, used, field>>

\* exedit's moveNode: the boxes above the place the node leaves are repaired,
\* and those above the one it comes to; where among its brothers it is put
\* makes no difference to them.
MoveNode(p, n) ==
    LET old == tree.up[n]
        t == [tree EXCEPT !.kids = [@ EXCEPT ![old] = SelectSeq(@, LAMBDA m : m # n),
                                             ![p] = Append(@, n)],
                          !.up[n] = p]
        left == IF old = Root THEN t
                ELSE RepairParentChkClassWithSelf(RepairChkClass(t, old), old)
    IN  /\ n \in InTree(tree) /\ p \in (InTree(tree) \cup {Root}) \ {old, n}
        /\ p \notin Inside(tree, n)
        /\ Sets(RepairParentChkClassWithSelf(left, n))
        /\ UNCHANGED <<setting, used, field>>

Refresh ==
    /\ Sets(CreateNodes([tree EXCEPT !.radioCheckedList = {}], Root, tree.kids[Root]))
    /\ UNCHANGED <<setting, used, field>>

Check ==
    \/ \E n \in Node : OnCheckNode(n)
    \/ \E n \in Node, v, type, callback \in BOOLEAN : CheckNode(n, v, type, callback)
    \/ \E n \in Node, type \in BOOLEAN : UpdateNode(n, type)
    \/ \E v \in BOOLEAN : CheckAllNodes(v)

Change ==
    /\ edits < MaxEdits /\ edits' = edits + 1
    /\ \/ \E p \in Place, checked, nocheck \in BOOLEAN : AddNode(p, checked, nocheck)
       \/ \E n \in Node : RemoveNode(n)
       \/ \E p \in Place, n \in Node : MoveNode(p, n)
       \/ \E n \in Node, disabled, up, down \in BOOLEAN :
                SetChkDisabled(n, disabled, up, down)
       \/ Refresh

Next == Check \/ Change

Spec == Init /\ [][Next]_vars

-----------------------------------------------------------------------------
\* The parts of the state have their types.
TypeOK ==
    /\ setting \in Setting /\ tree \in Tree
    /\ used \in 0..MaxNode /\ edits \in 0..MaxEdits /\ inner \in BOOLEAN
    /\ field \subseteq Node \cup Unlisted

\* The box on the page is the one it would get if the whole tree were looked
\* through from its leaves, although every operation repairs a part of it only:
\* unless a node with children has no box or is disabled, which
\* setSonNodeCheckBox does not look through, or is enabled before they are.
ChecksAreDrawn ==
    LET fresh == FoldLeft(MakeChkFlag, tree, Postorder(tree.kids, Root))
    IN  inner \/ \A n \in InTree(tree) \ tree.nocheck : tree.drawn[n] = ChkClass(fresh, n)

\* radioCheckedList holds every checked radio button: the ones to end.
RadioListIsComplete ==
    (setting.style = "radio" /\ setting.radioType = "all") =>
        tree.checked \cap InTree(tree) \subseteq tree.radioCheckedList

\* What is drawn and what is remembered of the checks is what they are.
ChecksAreSound == TypeOK /\ ChecksAreDrawn /\ RadioListIsComplete

\* No check, wherever it is passed on from, changes a disabled box.
DisabledKeepTheirMark ==
    [][setting.style = "checkbox" =>
        \A n \in InTree(tree) \cap tree.chkDisabled :
            n \in tree.checked <=> n \in tree'.checked]_vars

\* With the setting of the page a click grants or revokes the resource that is
\* clicked and no other one the page lists; what it does not list is revoked.
ClickChangesOneGrant ==
    [][(/\ setting.style = "checkbox" /\ setting.Y = {} /\ setting.N = {}
        /\ field \ Unlisted = CheckedNodes(tree)) =>
        \A n \in Node : OnCheckNode(n) =>
            /\ n \in field' <=> n \notin field
            /\ field \ field' \subseteq {n} \cup Unlisted
            /\ field' \ field \subseteq {n}]_vars

\* A checked node is below checked nodes only and, where checks pass both ways,
\* above one at least.
Consistent(t) ==
    \A n \in InTree(t) \cap t.checked :
        /\ t.up[n] \in t.checked \cup {Root}
        /\ (/\ t.kids[n] # <<>>
            /\ "s" \in setting.Y /\ "p" \in setting.N) => ToSet(t.kids[n]) \cap t.checked # {}

\* Where a check passes to the parents and its end to the children, a click
\* leaves no checked node below an unchecked one, nor an empty parent checked,
\* although an end only passes on where no brother is checked: as long as every
\* node has a box that works.
ClickKeepsHierarchy ==
    [][(/\ setting.style = "checkbox" /\ "p" \in setting.Y /\ "s" \in setting.N
        /\ Special(tree) \cap InTree(tree) = {} /\ Consistent(tree)) =>
        \A n \in Node : OnCheckNode(n) => Consistent(tree')]_vars
=============================================================================
