-------------------------- MODULE OrganizationTree --------------------------
(***************************************************************************)
(* The tree of organizations in ss_organization.  A row has the id of its  *)
(* parent and parent_ids, the ids on the way down from the root to it      *)
(* ("0/1/44/" for a child of 44), which createOrganization takes from the  *)
(* page and move rewrites with two SQL statements.  OrganizationServiceImpl*)
(* runs move without a transaction, so each statement of it is a step.     *)
(*                                                                         *)
(* A path is the sequence of its segments: "0/1/44/" is <<0, 1, 44>>.      *)
(*                                                                         *)
(* The mapper writes `like x || '%'`.  Nothing in the repository sets the  *)
(* SQL mode PIPES_AS_CONCAT, so || is MySQL's OR, '%' is false, and what   *)
(* is left is the comparison with x itself.                                *)
(*                                                                         *)
(* MySQL does not restart here, which would hand out the ids of the last   *)
(* deleted rows again (Authorization has that).                            *)
(***************************************************************************)
EXTENDS Naturals, Sequences, FiniteSets, SequencesExt

CONSTANTS
    Admin,         \* the browsers administrators work in: one request each
    Founders,      \* the rows the table starts with
    PathWidth,     \* how many segments parent_ids varchar(100) holds
    MaxId,         \* bound on the ids AUTO_INCREMENT hands out
    MaxMoves       \* bound on the moves

VARIABLES
    orgs,   \* the table: a set of Org
    nextId, \* its AUTO_INCREMENT counter
    req,    \* what each administrator's browser and request thread is at
    moves   \* history: the moves that found their source

vars == <<orgs, nextId, req, moves>>

-----------------------------------------------------------------------------
NoParent == 0                 \* the parent_id of the root
Gap == MaxId + 1              \* the empty segment between two slashes
Id == 1..MaxId
Path == {p \in Seq(Id \cup {NoParent, Gap}) : Len(p) <= PathWidth}

Org == [id : Id, parent : Id \cup {NoParent}, path : Path]

Self(o) == Append(o.path, o.id) \* makeSelfAsParentIds

ASSUME OrganizationAssumption ==
    /\ PathWidth \in Nat /\ MaxId \in Nat /\ MaxMoves \in Nat
    /\ Founders \subseteq Org
    /\ {o.id : o \in Founders} = 1..Cardinality(Founders)
    /\ \A o \in Founders : o.parent = NoParent \/ \E p \in Founders : p.id = o.parent
    /\ \A o, p \in Founders : /\ o.id = p.id => o = p
                              /\ o.parent = p.id => o.path = Self(p)

Idle     == [pc : {"idle"}]
Adding   == [pc : {"append"}, parent : Id,
             path : Seq(Id \cup {NoParent, Gap})]
Editing  == [pc : {"maintain"}, form : Org]
Choosing == [pc : {"move"}, source : Id, target : Id]
Moving   == [pc : {"target"}, source : Org, target : Id]
              \cup [pc : {"one", "two"}, source : Org, target : Org]

\* The parts of the state have their types.
TypeOK ==
    /\ orgs \subseteq Org
    /\ \A o, p \in orgs : o.id = p.id => o = p
    /\ nextId \in 1..(MaxId + 1)
    /\ req \in [Admin -> Idle \cup Adding \cup Editing \cup Choosing \cup Moving]
    /\ moves \in 0..MaxMoves

Init ==
    /\ orgs = Founders
    /\ nextId = Cardinality(Founders) + 1
    /\ req = [t \in Admin |-> [pc |-> "idle"]]
    /\ moves = 0

-----------------------------------------------------------------------------
Goto(t, state) == req' = [req EXCEPT ![t] = state]
Finish(t) == Goto(t, [pc |-> "idle"])

\* parent_ids like self || '%': the paths have no wildcards, and the whole is
\* matched.
Matches(path, self) == path = self

\* The statements of OrganizationMapper.xml.  One whose path does not fit in
\* its column throws and changes nothing.
Fits(path) == Len(path) <= PathWidth

-----------------------------------------------------------------------------
(* The pages.                                                              *)

\* (wrong) The path of a child as a sibling of its parent has it.
SiblingPath(p) == p.path

\* What the append page puts into its hidden field parentIds.
ChildPath(p) == Self(p)

\* GET /organization/{parentId}/appendChild
OpenAppendChild(t) ==
    /\ req[t].pc = "idle"
    /\ \E p \in orgs :
         Goto(t, [pc |-> "append", parent |-> p.id, path |-> ChildPath(p)])
    /\ UNCHANGED <<orgs, nextId, moves>>

\* POST: whatever has become of the parent, the form is inserted as it is.
CreateOrganization(t) ==
    /\ req[t].pc = "append"
    /\ nextId <= MaxId
    /\ IF Fits(req[t].path)
         THEN /\ orgs' = orgs \cup {[id |-> nextId, parent |-> req[t].parent,
                                     path |-> req[t].path]}
              /\ nextId' = nextId + 1
         ELSE UNCHANGED <<orgs, nextId>>
    /\ Finish(t)
    /\ UNCHANGED moves

\* GET /organization/{id}/maintain: the page has the row's parent_id and
\* parent_ids in hidden fields.
OpenMaintain(t) ==
    /\ req[t].pc = "idle"
    /\ \E o \in orgs : Goto(t, [pc |-> "maintain", form |-> o])
    /\ UNCHANGED <<orgs, nextId, moves>>

\* POST /organization/{id}/update: which come back with the new name.
UpdateOrganization(t) ==
    /\ req[t].pc = "maintain"
    /\ orgs' = {IF o.id = req[t].form.id THEN req[t].form ELSE o : o \in orgs}
    /\ Finish(t)
    /\ UNCHANGED <<nextId, moves>>

\* POST /organization/{id}/delete, which the page offers for all but the
\* root: children stay behind.
DeleteOrganization(t) ==
    /\ req[t].pc = "maintain"
    /\ req[t].form.parent # NoParent
    /\ orgs' = {o \in orgs : o.id # req[t].form.id}
    /\ Finish(t)
    /\ UNCHANGED <<nextId, moves>>

\* GET /organization/{sourceId}/move: selectAllWithExclude lists the targets,
\* and the administrator picks one.
OpenMove(t) ==
    /\ req[t].pc = "idle"
    /\ \E source, target \in orgs :
         /\ source.parent # NoParent
         /\ target.id # source.id /\ ~Matches(target.path, Self(source))
         /\ Goto(t, [pc |-> "move", source |-> source.id, target |-> target.id])
    /\ UNCHANGED <<orgs, nextId, moves>>

\* The administrator goes elsewhere.
LeavePage(t) ==
    /\ req[t].pc \in {"append", "maintain", "move"}
    /\ Finish(t)
    /\ UNCHANGED <<orgs, nextId, moves>>

-----------------------------------------------------------------------------
(* POST /organization/{sourceId}/move, statement by statement.             *)

\* The two findOne calls; a row that is gone ends in a NullPointerException.
ReadSource(t) ==
    /\ req[t].pc = "move"
    /\ moves < MaxMoves
    /\ \/ \E o \in orgs :
            /\ o.id = req[t].source
            /\ Goto(t, [pc |-> "target", source |-> o, target |-> req[t].target])
            /\ moves' = moves + 1
       \/ /\ \A o \in orgs : o.id # req[t].source
          /\ Finish(t)
          /\ UNCHANGED moves
    /\ UNCHANGED <<orgs, nextId>>

ReadTarget(t) ==
    /\ req[t].pc = "target"
    /\ \/ \E o \in orgs :
            /\ o.id = req[t].target
            /\ Goto(t, [pc |-> "one", source |-> req[t].source, target |-> o])
       \/ (\A o \in orgs : o.id # req[t].target) /\ Finish(t)
    /\ UNCHANGED <<orgs, nextId, moves>>

\* moveStepOne gives the source the target's id for a parent, and the path of
\* the target, not one that ends with the target.
MoveStepOne(t) ==
    /\ req[t].pc = "one"
    /\ orgs' = {IF o.id = req[t].source.id
                  THEN [o EXCEPT !.parent = req[t].target.id,
                                 !.path = req[t].target.path]
                  ELSE o : o \in orgs}
    /\ Goto(t, [req[t] EXCEPT !.pc = "two"])
    /\ UNCHANGED <<nextId, moves>>

\* concat(self of the target, substring(path, length(self of the source))):
\* SQL counts from 1, so the substring still begins with the last slash of the
\* source's, and the id of the source is gone.
Rebased(path, source, target) ==
    Self(target) \o <<Gap>> \o SubSeq(path, Len(Self(source)) + 1, Len(path))

\* moveStepTwo moves what is below the source; or it fails (a path that is too
\* long, MySQL's error 1292 for '%' as a truth value, a lost connection), and
\* step one stays.
MoveStepTwo(t) ==
    /\ req[t].pc = "two"
    /\ LET source == req[t].source
           below == {o \in orgs : Matches(o.path, Self(source))}
           rebased == {[o EXCEPT !.path = Rebased(@, source, req[t].target)] :
                         o \in below}
       IN  \/ /\ \A o \in rebased : Fits(o.path)
              /\ orgs' = (orgs \ below) \cup rebased
           \/ UNCHANGED orgs
    /\ Finish(t)
    /\ UNCHANGED <<nextId, moves>>

Next ==
    \E t \in Admin :
         \/ OpenAppendChild(t) \/ CreateOrganization(t)
         \/ OpenMaintain(t) \/ UpdateOrganization(t) \/ DeleteOrganization(t)
         \/ OpenMove(t) \/ LeavePage(t) \/ ReadSource(t) \/ ReadTarget(t)
         \/ MoveStepOne(t) \/ MoveStepTwo(t)

Spec == Init /\ [][Next]_vars

-----------------------------------------------------------------------------
(* Properties.                                                             *)

PathLeadsToParent ==
    \A o, p \in orgs : o.parent = p.id => o.path = Self(p)

\* As long as nothing has been moved, a path is the path of the parent and the
\* parent, though pages keep parents and paths while others delete and create
\* rows: nothing but a move changes a place.
PathsFollowParents == moves = 0 => PathLeadsToParent

\* Rows and pages have their types, and the paths follow the parents.
PathsAreSound == TypeOK /\ PathsFollowParents

\* Everyone has a parent outside the set: a set that does not contains a cycle.
Acyclic ==
    ~\E ids \in SUBSET {o.id : o \in orgs} :
        /\ ids # {}
        /\ \A o \in orgs : o.id \in ids => o.parent \in ids

\* After a move as before it, the organizations are a tree, which success.jsp:7
\* offers to refresh, and every row has a list of its parents, which is what
\* Organization.java:378 calls parentIds: a row on a cycle has none.  The `not
\* like` of selectAllWithExclude (OrganizationMapper.xml:72) is to leave out the
\* targets below the source.
MovesKeepTheTree == Acyclic
=============================================================================
