----------------------- MODULE OrganizationTreeProofs -----------------------
(***************************************************************************)
(* What TLAPS proves of OrganizationTree, for any number of administrators *)
(* and organizations.                                                      *)
(***************************************************************************)
EXTENDS OrganizationTree, SequenceTheorems, FiniteSetTheorems, TLAPS

-----------------------------------------------------------------------------
Request == Idle \cup Adding \cup Editing \cup Choosing \cup Moving

Forms == {req[t].form : t \in {u \in Admin : req[u].pc = "maintain"}}

\* The records of a move that has changed no row yet.
Sources == {req[t].source : t \in {u \in Admin : req[u].pc \in {"target", "one"}}}
Targets == {req[t].target : t \in {u \in Admin : req[u].pc = "one"}}

\* The records that are in the table, or may get there by an update.
Linked == orgs \cup Forms

\* Every record of an organization that somebody has.
Known == Linked \cup Sources \cup Targets

\* Whoever is at work refers to ids that have been handed out.
IdsAreOld ==
    /\ \A o \in Known : o.id < nextId /\ o.parent < nextId
    /\ \A t \in Admin :
         /\ req[t].pc = "append" => req[t].parent < nextId
         /\ req[t].pc = "move" => req[t].source < nextId /\ req[t].target < nextId
         /\ req[t].pc = "target" => req[t].target < nextId

Moves(t) == req[t].pc \in {"target", "one", "two"}

\* The history counts the moves.
MovesAreCounted ==
    /\ moves = 0 => \A t \in Admin : ~Moves(t)
    /\ moves = 1 => \A s, t \in Admin : Moves(s) /\ Moves(t) => s = t

\* No move has changed a row.
Unmoved ==
    \/ moves = 0
    \/ moves = 1 /\ \E t \in Admin : req[t].pc \in {"target", "one"}

\* Until then all records of an organization are the same, and one below
\* another has the path that says so.
RecordsAgree ==
    Unmoved =>
      /\ \A o, p \in Known : o.id = p.id => o = p
      /\ \A o, p \in Known : o.parent = p.id => o.path = Self(p)
      /\ \A t \in Admin : \A p \in Known :
            req[t].pc = "append" /\ req[t].parent = p.id => req[t].path = Self(p)

OrganizationInv ==
    /\ TypeOK /\ IdsAreOld /\ MovesAreCounted /\ RecordsAgree

-----------------------------------------------------------------------------
(* Paths and records.                                                      *)

Segment == Id \cup {NoParent, Gap}

\* The parts of a record and the path of its children.
LEMMA PathTypes ==
    ASSUME NEW o \in Org
    PROVE  /\ o.id \in Id /\ o.id \in Nat /\ o.id # NoParent
           /\ o.parent \in Id \cup {NoParent} /\ o.parent \in Nat
           /\ o.path \in Path /\ o.path \in Seq(Segment) /\ Len(o.path) <= PathWidth
           /\ o.id \in Segment
           /\ Self(o) \in Seq(Segment) /\ Len(Self(o)) = Len(o.path) + 1
           /\ Len(o.path) \in Nat
  <1>1. /\ o.id \in Id /\ o.parent \in Id \cup {NoParent} /\ o.path \in Path
    BY DEF Org
  <1>2. o.path \in Seq(Segment) /\ Len(o.path) <= PathWidth
    BY <1>1 DEF Path, Segment
  <1>3. o.id \in Nat /\ o.id # NoParent /\ o.parent \in Nat /\ o.id \in Segment
    BY <1>1, OrganizationAssumption DEF Id, NoParent, Segment
  <1>4. Self(o) \in Seq(Segment) /\ Len(Self(o)) = Len(o.path) + 1
    BY <1>2, <1>3, AppendProperties DEF Self
  <1>5. Len(o.path) \in Nat
    BY <1>2, LenProperties
  <1> QED BY <1>1, <1>2, <1>3, <1>4, <1>5

\* What a request holds, by where it is.
LEMMA RequestFields ==
    ASSUME TypeOK, NEW t \in Admin
    PROVE  /\ req[t] \in Request
           /\ req[t].pc \in {"idle", "append", "maintain", "move", "target", "one", "two"}
           /\ req[t].pc = "append" =>
                req[t] \in Adding /\ req[t].parent \in Id /\ req[t].path \in Seq(Segment)
           /\ req[t].pc = "maintain" => req[t].form \in Org
           /\ req[t].pc = "move" => req[t].source \in Id /\ req[t].target \in Id
           /\ req[t].pc = "target" => req[t].source \in Org /\ req[t].target \in Id
           /\ req[t].pc \in {"one", "two"} =>
                req[t] \in Moving /\ req[t].source \in Org /\ req[t].target \in Org
  BY DEF TypeOK, Request, Idle, Adding, Editing, Choosing, Moving, Segment

\* What is known are records of organizations.
LEMMA KnownAreOrgs ==
    ASSUME TypeOK
    PROVE  Known \subseteq Org
  BY RequestFields DEF TypeOK, Known, Linked, Forms, Sources, Targets

\* Where the known records are.
LEMMA KnownMembers ==
    /\ \A o \in orgs : o \in Linked
    /\ \A t \in Admin : req[t].pc = "maintain" => req[t].form \in Linked
    /\ \A o \in Linked : o \in Known
    /\ \A t \in Admin : req[t].pc \in {"target", "one"} => req[t].source \in Known
    /\ \A t \in Admin : req[t].pc = "one" => req[t].target \in Known
  BY DEF Known, Linked, Forms, Sources, Targets

-----------------------------------------------------------------------------
(* The first state.                                                        *)

\* The table starts with as many rows as ids.
LEMMA FoundersAreCounted ==
    Cardinality(Founders) \in Nat /\ Cardinality(Founders) <= MaxId
  <1> DEFINE f == [o \in Founders |-> o.id]
  <1>1. f \in Injection(Founders, Id)
    <2>1. f \in [Founders -> Id]
      BY OrganizationAssumption, PathTypes
    <2>2. \A o, p \in Founders : f[o] = f[p] => o = p
      BY OrganizationAssumption
    <2> QED BY <2>1, <2>2 DEF Injection, IsInjective
  <1>2. IsFiniteSet(Id) /\ Cardinality(Id) = MaxId
    BY OrganizationAssumption, FS_Interval DEF Id
  <1>3. IsFiniteSet(Founders) /\ Cardinality(Founders) <= MaxId
    BY <1>1, <1>2, FS_Injection
  <1> QED BY <1>3, FS_CardinalityType

\* The founders are all there is, and OrganizationAssumption says the rest.
LEMMA InitHasInv == Init => OrganizationInv
  <1> SUFFICES ASSUME Init PROVE OrganizationInv
    OBVIOUS
  <1>1. TypeOK
    BY FoundersAreCounted, OrganizationAssumption DEF Init, TypeOK, Idle
  <1>2. Known = Founders /\ Linked = Founders
    BY DEF Init, Known, Linked, Forms, Sources, Targets
  <1>3. \A o \in Founders : o.id < nextId /\ o.parent < nextId
    <2> SUFFICES ASSUME NEW o \in Founders
                 PROVE  o.id < nextId /\ o.parent < nextId
      OBVIOUS
    <2>1. \A p \in Founders : p.id \in 1..Cardinality(Founders)
      BY OrganizationAssumption
    <2>2. nextId = Cardinality(Founders) + 1
      BY DEF Init
    <2>3. o.parent = 0 \/ \E p \in Founders : p.id = o.parent
      BY OrganizationAssumption DEF NoParent
    <2> QED BY <2>1, <2>2, <2>3, FoundersAreCounted
  <1>4. IdsAreOld
    BY <1>2, <1>3 DEF Init, IdsAreOld
  <1>5. MovesAreCounted
    BY DEF Init, MovesAreCounted, Moves
  <1>6. RecordsAgree
    BY <1>2, OrganizationAssumption DEF Init, RecordsAgree
  <1> QED
    BY <1>1, <1>4, <1>5, <1>6 DEF OrganizationInv

-----------------------------------------------------------------------------
(* Steps that bring no record of an organization into the world.           *)

\* What an administrator who is not moving may be at after one.
Page(r) ==
    /\ r \in Request /\ r.pc \notin {"target", "one", "two"}
    /\ r.pc = "append" => \E p \in orgs : r.parent = p.id /\ r.path = Self(p)
    /\ r.pc = "maintain" => r.form \in orgs
    /\ r.pc = "move" => \E source, target \in orgs :
          r.source = source.id /\ r.target = target.id

\* Opening and leaving pages, updates and deletes copy or drop records.
LEMMA PagesKeepInv ==
    ASSUME OrganizationInv, NEW t \in Admin, NEW r, Page(r),
           req' = [req EXCEPT ![t] = r], ~Moves(t),
           orgs' \subseteq Linked, \A o, p \in orgs' : o.id = p.id => o = p,
           UNCHANGED <<nextId, moves>>
    PROVE  OrganizationInv'
  <1> USE DEF OrganizationInv
  <1>1. /\ req' \in [Admin -> Request] /\ req'[t] = r
        /\ \A s \in Admin \ {t} : req'[s] = req[s]
        /\ r.pc \notin {"target", "one", "two"} /\ r \in Request
    BY DEF TypeOK, Request, Page
  <1>2. /\ orgs \subseteq Known /\ orgs \subseteq Linked /\ Linked \subseteq Known
        /\ Known \subseteq Org
    BY KnownMembers, KnownAreOrgs
  <1>3. Linked' \subseteq Linked
    <2>1. Forms' \subseteq Linked
      <3> SUFFICES ASSUME NEW s \in Admin, req'[s].pc = "maintain"
                   PROVE  req'[s].form \in Linked
        BY DEF Forms
      <3>1. CASE s = t
        BY <1>1, <1>2, <3>1 DEF Page
      <3>2. CASE s # t
        BY <1>1, <3>2, KnownMembers
      <3> QED BY <3>1, <3>2
    <2> QED BY <2>1 DEF Linked
  <1>4. Sources' \subseteq Sources /\ Targets' \subseteq Targets
    BY <1>1 DEF Sources, Targets
  <1>5. Known' \subseteq Known
    BY <1>3, <1>4 DEF Known
  <1>6. nextId' = nextId /\ moves' = moves
    OBVIOUS
  <1>7. TypeOK'
    BY <1>1, <1>2, <1>6 DEF TypeOK, Request
  <1>8. IdsAreOld'
    <2>1. /\ r.pc = "append" => r.parent < nextId
          /\ r.pc = "move" => r.source < nextId /\ r.target < nextId
      BY <1>2 DEF Page, IdsAreOld
    <2> QED
      BY <1>1, <1>5, <1>6, <2>1 DEF IdsAreOld
  <1>9. MovesAreCounted'
    BY <1>1, <1>6 DEF MovesAreCounted, Moves
  <1>10. Unmoved' => Unmoved
    BY <1>1, <1>6 DEF Unmoved
  <1>11. RecordsAgree'
    <2> SUFFICES ASSUME Unmoved, NEW s \in Admin, NEW q \in Known',
                        req'[s].pc = "append", req'[s].parent = q.id
                 PROVE  req'[s].path = Self(q)
      BY <1>5, <1>10 DEF RecordsAgree, Self
    <2>1. CASE s = t
      <3>1. PICK p \in orgs : r.parent = p.id /\ r.path = Self(p)
        BY <1>1, <2>1 DEF Page
      <3>2. p = q
        BY <1>1, <1>2, <1>5, <2>1, <3>1 DEF RecordsAgree
      <3> QED BY <1>1, <2>1, <3>1, <3>2
    <2>2. CASE s # t
      BY <1>1, <1>5, <2>2 DEF RecordsAgree
    <2> QED BY <2>1, <2>2
  <1> QED
    BY <1>7, <1>8, <1>9, <1>11

\* The append page has the path of a row.
LEMMA OpenAppendChildKeepsInv ==
    ASSUME OrganizationInv, NEW t \in Admin, OpenAppendChild(t)
    PROVE  OrganizationInv'
  <1>1. PICK p \in orgs :
          req' = [req EXCEPT ![t] = [pc |-> "append", parent |-> p.id, path |-> ChildPath(p)]]
    BY DEF OpenAppendChild, Goto
  <1> DEFINE r == [pc |-> "append", parent |-> p.id, path |-> ChildPath(p)]
  <1>2. p \in Org
    BY DEF OrganizationInv, TypeOK
  <1>3. r \in Request
    BY <1>2, PathTypes DEF Request, Adding, ChildPath, Segment
  <1>4. Page(r)
    BY <1>3 DEF Page, ChildPath
  <1> HIDE DEF r
  <1> QED
    BY <1>1, <1>4, PagesKeepInv, KnownMembers
    DEF OpenAppendChild, Moves, OrganizationInv, TypeOK, r

\* The maintain page has a row.
LEMMA OpenMaintainKeepsInv ==
    ASSUME OrganizationInv, NEW t \in Admin, OpenMaintain(t)
    PROVE  OrganizationInv'
  <1>1. PICK o \in orgs : req' = [req EXCEPT ![t] = [pc |-> "maintain", form |-> o]]
    BY DEF OpenMaintain, Goto
  <1> DEFINE r == [pc |-> "maintain", form |-> o]
  <1>2. Page(r)
    BY DEF OrganizationInv, TypeOK, Page, Request, Editing
  <1> HIDE DEF r
  <1> QED
    BY <1>1, <1>2, PagesKeepInv, KnownMembers
    DEF OpenMaintain, Moves, OrganizationInv, TypeOK, r

\* The move page has the ids of two rows.
LEMMA OpenMoveKeepsInv ==
    ASSUME OrganizationInv, NEW t \in Admin, OpenMove(t)
    PROVE  OrganizationInv'
  <1>1. PICK source, target \in orgs :
          req' = [req EXCEPT ![t] =
                    [pc |-> "move", source |-> source.id, target |-> target.id]]
    BY DEF OpenMove, Goto
  <1> DEFINE r == [pc |-> "move", source |-> source.id, target |-> target.id]
  <1>2. source.id \in Id /\ target.id \in Id
    BY PathTypes DEF OrganizationInv, TypeOK
  <1>3. Page(r)
    BY <1>2 DEF Page, Request, Choosing
  <1> HIDE DEF r
  <1> QED
    BY <1>1, <1>3, PagesKeepInv, KnownMembers
    DEF OpenMove, Moves, OrganizationInv, TypeOK, r

\* What ends with the administrator elsewhere, and at most takes rows away or
\* puts a form in the place of one.
LEMMA LeavingKeepsInv ==
    ASSUME OrganizationInv, NEW t \in Admin, Finish(t), ~Moves(t),
           orgs' \subseteq Linked, \A o, p \in orgs' : o.id = p.id => o = p,
           UNCHANGED <<nextId, moves>>
    PROVE  OrganizationInv'
  <1> DEFINE r == [pc |-> "idle"]
  <1>1. Page(r)
    BY DEF Page, Request, Idle
  <1>2. req' = [req EXCEPT ![t] = r]
    BY DEF Finish, Goto
  <1> HIDE DEF r
  <1> QED
    BY <1>1, <1>2, PagesKeepInv

\* An update puts the form in the place of its row.
LEMMA UpdateOrganizationKeepsInv ==
    ASSUME OrganizationInv, NEW t \in Admin, UpdateOrganization(t)
    PROVE  OrganizationInv'
  <1>1. orgs' = {IF o.id = req[t].form.id THEN req[t].form ELSE o : o \in orgs}
    BY DEF UpdateOrganization
  <1>2. orgs' \subseteq Linked
    BY <1>1, KnownMembers DEF UpdateOrganization
  <1>3. \A o, p \in orgs' : o.id = p.id => o = p
    BY <1>1 DEF OrganizationInv, TypeOK
  <1> QED
    BY <1>2, <1>3, LeavingKeepsInv DEF UpdateOrganization, Moves

\* A delete takes a row away and leaves its children.
LEMMA DeleteOrganizationKeepsInv ==
    ASSUME OrganizationInv, NEW t \in Admin, DeleteOrganization(t)
    PROVE  OrganizationInv'
  <1>1. orgs' \subseteq Linked /\ \A o, p \in orgs' : o.id = p.id => o = p
    BY KnownMembers DEF DeleteOrganization, OrganizationInv, TypeOK
  <1> QED
    BY <1>1, LeavingKeepsInv DEF DeleteOrganization, Moves

\* Leaving a page changes nothing else.
LEMMA LeavePageKeepsInv ==
    ASSUME OrganizationInv, NEW t \in Admin, LeavePage(t)
    PROVE  OrganizationInv'
  <1>1. orgs' \subseteq Linked /\ \A o, p \in orgs' : o.id = p.id => o = p
    BY KnownMembers DEF LeavePage, OrganizationInv, TypeOK
  <1> QED
    BY <1>1, LeavingKeepsInv DEF LeavePage, Moves

-----------------------------------------------------------------------------
(* A new row: nothing refers to its id yet.                                *)

\* The new row is above nobody.
LEMMA CreateOrganizationKeepsInv ==
    ASSUME OrganizationInv, NEW t \in Admin, CreateOrganization(t)
    PROVE  OrganizationInv'
  <1> USE DEF OrganizationInv
  <1>1. CASE ~Fits(req[t].path)
    <2>1. orgs' \subseteq Linked /\ \A o, p \in orgs' : o.id = p.id => o = p
      BY <1>1, KnownMembers DEF CreateOrganization, TypeOK
    <2> QED
      BY <1>1, <2>1, LeavingKeepsInv DEF CreateOrganization, Moves
  <1>2. CASE Fits(req[t].path)
    <2> DEFINE new == [id |-> nextId, parent |-> req[t].parent, path |-> req[t].path]
    <2>1. /\ orgs' = orgs \cup {new} /\ nextId' = nextId + 1 /\ moves' = moves
          /\ req' = [req EXCEPT ![t] = [pc |-> "idle"]]
          /\ req[t].pc = "append"
      BY <1>2 DEF CreateOrganization, Finish, Goto
    <2>2. nextId \in Id /\ nextId \in Nat /\ MaxId \in Nat
      BY OrganizationAssumption DEF CreateOrganization, TypeOK, Id
    <2>3. /\ req[t].parent \in Id /\ req[t].parent \in Nat /\ req[t].path \in Path
          /\ req[t].parent < nextId
      BY <1>2, <2>1, RequestFields DEF Fits, Path, Segment, IdsAreOld, Id
    <2>4. /\ new \in Org /\ new.id = nextId
          /\ new.parent = req[t].parent /\ new.path = req[t].path
      BY <2>2, <2>3 DEF Org
    <2> HIDE DEF new
    <2>5. /\ req' \in [Admin -> Request] /\ req'[t].pc = "idle"
          /\ \A s \in Admin \ {t} : req'[s] = req[s]
      BY <2>1 DEF TypeOK, Request, Idle
    <2>6. /\ Linked' \subseteq Linked \cup {new} /\ Known' \subseteq Known \cup {new}
      BY <2>1, <2>5 DEF Linked, Known, Forms, Sources, Targets
    <2>7. Known \subseteq Org /\ orgs \subseteq Known /\ Linked \subseteq Known
      BY KnownMembers, KnownAreOrgs
    <2>8. \A o \in Known : /\ o.id \in Nat /\ o.parent \in Nat
                           /\ o.id < nextId /\ o.parent < nextId
      BY <2>7, PathTypes DEF IdsAreOld
    <2>9. TypeOK'
      <3>1. \A o, p \in orgs' : o.id = p.id => o = p
        BY <2>1, <2>2, <2>4, <2>7, <2>8 DEF TypeOK
      <3>2. nextId' \in 1..(MaxId + 1)
        BY <2>1, <2>2 DEF Id
      <3> QED BY <2>1, <2>4, <2>5, <3>1, <3>2 DEF TypeOK, Request
    <2>10. IdsAreOld'
      <3>1. \A o \in Known' : o.id < nextId' /\ o.parent < nextId'
        BY <2>1, <2>2, <2>3, <2>4, <2>6, <2>8
      <3>2. \A s \in Admin :
              /\ req'[s].pc = "append" => req'[s].parent < nextId'
              /\ req'[s].pc = "move" => req'[s].source < nextId' /\ req'[s].target < nextId'
              /\ req'[s].pc = "target" => req'[s].target < nextId'
        BY <2>1, <2>2, <2>5, RequestFields DEF IdsAreOld, Id
      <3> QED BY <3>1, <3>2 DEF IdsAreOld
    <2>11. MovesAreCounted'
      BY <2>1, <2>5 DEF MovesAreCounted, Moves
    <2>12. Unmoved' => Unmoved
      BY <2>1, <2>5 DEF Unmoved
    <2>13. RecordsAgree'
      <3> SUFFICES ASSUME Unmoved
                   PROVE  /\ \A o, p \in Known' : o.id = p.id => o = p
                          /\ \A o, p \in Known' : o.parent = p.id => o.path = Self(p)
                          /\ \A s \in Admin : \A p \in Known' :
                               req'[s].pc = "append" /\ req'[s].parent = p.id
                                 => req'[s].path = Self(p)
        BY <2>12 DEF RecordsAgree, Self
      <3>1. \A o, p \in Known' : o.id = p.id => o = p
        BY <2>2, <2>4, <2>6, <2>8 DEF RecordsAgree
      <3>2. \A p \in Known : new.parent = p.id => new.path = Self(p)
        BY <2>1, <2>4 DEF RecordsAgree
      <3>3. \A o \in Known \cup {new} : o.parent # new.id
        BY <2>2, <2>3, <2>4, <2>8
      <3>4. \A o, p \in Known' : o.parent = p.id => o.path = Self(p)
        BY <2>6, <3>2, <3>3 DEF RecordsAgree
      <3>5. \A s \in Admin : req'[s].pc = "append" => req'[s].parent # new.id
        BY <2>2, <2>4, <2>5, RequestFields DEF IdsAreOld, Id
      <3>6. \A s \in Admin : \A p \in Known' :
              req'[s].pc = "append" /\ req'[s].parent = p.id => req'[s].path = Self(p)
        BY <2>5, <2>6, <3>5 DEF RecordsAgree
      <3> QED BY <3>1, <3>4, <3>6
    <2> QED
      BY <2>9, <2>10, <2>11, <2>13
  <1> QED BY <1>1, <1>2

-----------------------------------------------------------------------------
(* A move.                                                                 *)

\* The move has begun, or its source is gone.
LEMMA ReadSourceKeepsInv ==
    ASSUME OrganizationInv, NEW t \in Admin, ReadSource(t)
    PROVE  OrganizationInv'
  <1> USE DEF OrganizationInv
  <1>1. CASE Finish(t) /\ UNCHANGED moves
    <2>1. orgs' \subseteq Linked /\ \A o, p \in orgs' : o.id = p.id => o = p
      BY KnownMembers DEF ReadSource, TypeOK
    <2> QED
      BY <1>1, <2>1, LeavingKeepsInv DEF ReadSource, Moves
  <1>2. CASE ~(Finish(t) /\ UNCHANGED moves)
    <2>1. PICK o \in orgs :
            /\ o.id = req[t].source
            /\ req' = [req EXCEPT ![t] =
                         [pc |-> "target", source |-> o, target |-> req[t].target]]
            /\ moves' = moves + 1
      BY <1>2 DEF ReadSource, Goto
    <2>2. /\ orgs' = orgs /\ nextId' = nextId /\ req[t].pc = "move"
          /\ moves' \in 0..MaxMoves /\ moves \in Nat
      BY <2>1, OrganizationAssumption DEF ReadSource, TypeOK
    <2>3. o \in Org /\ o \in Known /\ req[t].source \in Id /\ req[t].target \in Id
      BY <2>2, RequestFields, KnownMembers DEF TypeOK
    <2> DEFINE r == [pc |-> "target", source |-> o, target |-> req[t].target]
    <2>4. /\ r \in Request /\ r.pc = "target" /\ r.source = o
          /\ r.target = req[t].target
      BY <2>3 DEF Request, Moving
    <2>5. req' = [req EXCEPT ![t] = r]
      BY <2>1
    <2> HIDE DEF r
    <2>6. /\ req' \in [Admin -> Request] /\ req'[t] = r
          /\ \A s \in Admin \ {t} : req'[s] = req[s]
      BY <2>4, <2>5 DEF TypeOK, Request
    <2>7. Linked' \subseteq Linked /\ Known' \subseteq Known
      <3>1. Linked' \subseteq Linked
        BY <2>2, <2>4, <2>6 DEF Linked, Forms
      <3>2. Sources' \subseteq Sources \cup {o} /\ Targets' \subseteq Targets
        BY <2>4, <2>6 DEF Sources, Targets
      <3> QED BY <2>3, <3>1, <3>2 DEF Known
    <2>8. TypeOK'
      BY <2>2, <2>6 DEF TypeOK, Request
    <2>9. IdsAreOld'
      BY <2>2, <2>4, <2>6, <2>7 DEF IdsAreOld
    <2>10. MovesAreCounted'
      BY <2>1, <2>2, <2>6 DEF MovesAreCounted, Moves
    <2>11. Unmoved' => moves = 0
      BY <2>1, <2>2 DEF Unmoved
    <2>12. RecordsAgree'
      <3> SUFFICES ASSUME moves = 0
                   PROVE  /\ \A q, p \in Known' : q.id = p.id => q = p
                          /\ \A q, p \in Known' : q.parent = p.id => q.path = Self(p)
                          /\ \A s \in Admin : \A p \in Known' :
                               req'[s].pc = "append" /\ req'[s].parent = p.id
                                 => req'[s].path = Self(p)
        BY <2>11 DEF RecordsAgree, Self
      <3> QED
        BY <2>4, <2>6, <2>7 DEF RecordsAgree, Unmoved
    <2> QED
      BY <2>8, <2>9, <2>10, <2>12
  <1> QED BY <1>1, <1>2

\* A step of a move that has changed no row yet: it reads its target, or ends.
LEMMA ReadTargetKeepsInv ==
    ASSUME OrganizationInv, NEW t \in Admin, ReadTarget(t)
    PROVE  OrganizationInv'
  <1> USE DEF OrganizationInv
  <1>1. /\ orgs' = orgs /\ nextId' = nextId /\ moves' = moves
        /\ req[t].pc = "target" /\ req[t].source \in Org /\ req[t].source \in Known
        /\ moves # 0
    BY RequestFields, KnownMembers DEF ReadTarget, MovesAreCounted, Moves
  <1>2. PICK r \in Request :
          /\ req' = [req EXCEPT ![t] = r]
          /\ \/ r.pc = "idle"
             \/ /\ r.pc = "one" /\ r.source = req[t].source
                /\ r.target \in orgs /\ r.target.id = req[t].target
    <2>1. CASE Finish(t)
      <3> DEFINE r == [pc |-> "idle"]
      <3>1. r \in Request /\ r.pc = "idle"
        BY DEF Request, Idle
      <3>2. req' = [req EXCEPT ![t] = r]
        BY <2>1 DEF Finish, Goto
      <3> HIDE DEF r
      <3> QED BY <3>1, <3>2
    <2>2. CASE ~Finish(t)
      <3>1. PICK o \in orgs :
              /\ o.id = req[t].target
              /\ req' = [req EXCEPT ![t] =
                           [pc |-> "one", source |-> req[t].source, target |-> o]]
        BY <2>2 DEF ReadTarget, Goto
      <3> DEFINE r == [pc |-> "one", source |-> req[t].source, target |-> o]
      <3>2. /\ r \in Request /\ r.pc = "one" /\ r.source = req[t].source /\ r.target = o
        BY <1>1 DEF Request, Moving, TypeOK
      <3>3. req' = [req EXCEPT ![t] = r]
        BY <3>1
      <3> HIDE DEF r
      <3> QED BY <3>1, <3>2, <3>3
    <2> QED BY <2>1, <2>2
  <1>3. /\ req' \in [Admin -> Request] /\ req'[t] = r
        /\ \A s \in Admin \ {t} : req'[s] = req[s]
    BY <1>2 DEF TypeOK, Request
  <1>4. Linked' \subseteq Linked /\ Known' \subseteq Known
    <2>1. Linked' \subseteq Linked
      BY <1>1, <1>2, <1>3 DEF Linked, Forms
    <2>2. Sources' \subseteq Sources /\ Targets' \subseteq Targets \cup orgs
      BY <1>1, <1>2, <1>3 DEF Sources, Targets
    <2> QED BY <2>1, <2>2 DEF Known, Linked
  <1>5. TypeOK'
    BY <1>1, <1>3 DEF TypeOK, Request
  <1>6. IdsAreOld'
    BY <1>1, <1>2, <1>3, <1>4 DEF IdsAreOld
  <1>7. MovesAreCounted'
    BY <1>1, <1>2, <1>3 DEF MovesAreCounted, Moves
  <1>8. Unmoved' => Unmoved
    BY <1>1 DEF Unmoved
  <1>9. RecordsAgree'
    <2> SUFFICES ASSUME Unmoved
                 PROVE  /\ \A q, p \in Known' : q.id = p.id => q = p
                        /\ \A q, p \in Known' : q.parent = p.id => q.path = Self(p)
                        /\ \A s \in Admin : \A p \in Known' :
                             req'[s].pc = "append" /\ req'[s].parent = p.id
                               => req'[s].path = Self(p)
      BY <1>8 DEF RecordsAgree, Self
    <2> QED
      BY <1>2, <1>3, <1>4 DEF RecordsAgree
  <1> QED
    BY <1>5, <1>6, <1>7, <1>9

\* The source hangs below the target: from here on the records differ.
LEMMA MoveStepOneKeepsInv ==
    ASSUME OrganizationInv, NEW t \in Admin, MoveStepOne(t)
    PROVE  OrganizationInv'
  <1> USE DEF OrganizationInv
  <1>1. PICK source \in Org, target \in Org :
            source = req[t].source /\ target = req[t].target
    BY RequestFields DEF MoveStepOne
  <1>2. /\ nextId' = nextId /\ moves' = moves /\ moves # 0
        /\ req[t].pc = "one" /\ source \in Known /\ target \in Known
    BY <1>1, KnownMembers DEF MoveStepOne, MovesAreCounted, Moves
  <1>3. PICK r \in Request :
            req' = [req EXCEPT ![t] = r] /\ r.pc = "two"
    <2>1. [req[t] EXCEPT !.pc = "two"] \in Request /\ [req[t] EXCEPT !.pc = "two"].pc = "two"
      BY <1>2, RequestFields DEF Request, Moving, Idle, Adding, Editing, Choosing
    <2> QED BY <2>1 DEF MoveStepOne, Goto
  <1>4. /\ req' \in [Admin -> Request] /\ req'[t] = r
        /\ \A s \in Admin \ {t} : req'[s] = req[s]
    BY <1>3 DEF TypeOK, Request
  <1>5. orgs' = {IF o.id = source.id
                   THEN [o EXCEPT !.parent = target.id, !.path = target.path]
                   ELSE o : o \in orgs}
    BY <1>1 DEF MoveStepOne
  <1> DEFINE moved == [id |-> source.id, parent |-> target.id, path |-> target.path]
  <1>6. /\ moved \in Org /\ moved.id = source.id /\ moved.parent = target.id
    BY PathTypes DEF Org
  <1>7. \A q \in orgs' : q = moved \/ (q \in orgs /\ q.id # source.id)
    <2> SUFFICES ASSUME NEW q \in orgs', NEW o \in orgs, o.id = source.id,
                        q = [o EXCEPT !.parent = target.id, !.path = target.path]
                 PROVE  q = moved
      BY <1>5
    <2> DEFINE id == target.id
               path == target.path
    <2>1. q = [o EXCEPT !.parent = id, !.path = path] /\ o \in Org
      BY DEF TypeOK
    <2> HIDE DEF id, path
    <2>2. q = [id |-> o.id, parent |-> id, path |-> path]
      BY <2>1 DEF Org
    <2> QED BY <2>2 DEF id, path
  <1> HIDE DEF moved
  <1>8. Linked' \subseteq Linked \cup {moved} /\ Known' \subseteq Known \cup {moved}
    <2>1. Linked' \subseteq Linked \cup {moved}
      BY <1>3, <1>4, <1>7 DEF Linked, Forms
    <2>2. Sources' \subseteq Sources /\ Targets' \subseteq Targets
      BY <1>3, <1>4 DEF Sources, Targets
    <2> QED BY <2>1, <2>2 DEF Known
  <1>9. TypeOK'
    <2>1. \A q, p \in orgs' : q.id = p.id => q = p
      BY <1>6, <1>7 DEF TypeOK
    <2>2. orgs' \subseteq Org
      BY <1>6, <1>7 DEF TypeOK
    <2> QED BY <1>2, <1>4, <2>1, <2>2 DEF TypeOK, Request
  <1>10. IdsAreOld'
    <2>1. moved.id < nextId /\ moved.parent < nextId
      BY <1>2, <1>6 DEF IdsAreOld
    <2> QED
      BY <1>2, <1>3, <1>4, <1>8, <2>1 DEF IdsAreOld
  <1>11. MovesAreCounted'
    BY <1>2, <1>3, <1>4 DEF MovesAreCounted, Moves
  <1>12. moves = 1 => \A s \in Admin : req'[s].pc \notin {"target", "one"}
    BY <1>2, <1>3, <1>4 DEF MovesAreCounted, Moves
  <1>13. RecordsAgree'
    BY <1>2, <1>12 DEF RecordsAgree, Unmoved
  <1> QED
    BY <1>9, <1>10, <1>11, <1>13

\* The paths that step two builds are sequences of segments.
LEMMA RebasedIsAPath ==
    ASSUME NEW path \in Seq(Segment), NEW source \in Org, NEW target \in Org,
           Fits(Rebased(path, source, target))
    PROVE  Rebased(path, source, target) \in Path
  <1>1. /\ Self(source) \in Seq(Segment) /\ Self(target) \in Seq(Segment)
        /\ Len(Self(source)) \in Nat /\ Len(path) \in Nat
    BY PathTypes, LenProperties
  <1> DEFINE m == Len(Self(source)) + 1
             n == Len(path)
  <1>2. m \in Int /\ n \in Int /\ \A i \in m..n : path[i] \in Segment
    BY <1>1, ElementOfSeq
  <1>3. SubSeq(path, m, n) \in Seq(Segment)
    BY <1>2, SubSeqProperties
  <1>4. <<Gap>> \in Seq(Segment)
    BY DEF Segment
  <1>5. Self(target) \o <<Gap>> \in Seq(Segment)
    BY <1>1, <1>4, ConcatProperties
  <1>6. (Self(target) \o <<Gap>>) \o SubSeq(path, m, n) \in Seq(Segment)
    BY <1>3, <1>5, ConcatProperties
  <1> QED
    BY <1>6 DEF Rebased, Path, Fits, Segment

\* Step two changes paths, and no links.
LEMMA MoveStepTwoKeepsInv ==
    ASSUME OrganizationInv, NEW t \in Admin, MoveStepTwo(t)
    PROVE  OrganizationInv'
  <1> USE DEF OrganizationInv
  <1>1. PICK source \in Org, target \in Org :
            source = req[t].source /\ target = req[t].target
    BY RequestFields DEF MoveStepTwo
  <1>2. /\ nextId' = nextId /\ moves' = moves /\ moves # 0 /\ req[t].pc = "two"
    BY DEF MoveStepTwo, MovesAreCounted, Moves
  <1>3. PICK r \in Request : req' = [req EXCEPT ![t] = r] /\ r.pc = "idle"
    <2>1. [pc |-> "idle"] \in Request
      BY DEF Request, Idle
    <2> QED BY <2>1 DEF MoveStepTwo, Finish, Goto
  <1>4. /\ req' \in [Admin -> Request] /\ req'[t] = r
        /\ \A s \in Admin \ {t} : req'[s] = req[s]
    BY <1>3 DEF TypeOK, Request
  <1>5. /\ orgs' \subseteq Org
        /\ \A q \in orgs' : \E o \in orgs : q.id = o.id /\ q.parent = o.parent
        /\ \A q, p \in orgs' : q.id = p.id => q = p
    <2>1. CASE UNCHANGED orgs
      BY <2>1 DEF TypeOK
    <2>2. CASE ~UNCHANGED orgs
      <3> DEFINE below == {o \in orgs : Matches(o.path, Self(source))}
                 Again(o) == [o EXCEPT !.path = Rebased(@, source, target)]
                 rebased == {Again(o) : o \in below}
      <3>1. /\ \A o \in rebased : Fits(o.path)
            /\ orgs' = (orgs \ below) \cup rebased
        BY <1>1, <2>2 DEF MoveStepTwo
      <3>2. ASSUME NEW o \in below
            PROVE  /\ Again(o) \in Org
                   /\ Again(o).id = o.id /\ Again(o).parent = o.parent
        <4> DEFINE path == Rebased(o.path, source, target)
        <4>1. o \in Org /\ o.path \in Seq(Segment)
          BY PathTypes DEF TypeOK
        <4>2. Again(o) = [o EXCEPT !.path = path]
          OBVIOUS
        <4>3. Again(o).path = path
          BY <4>1 DEF Org
        <4>4. Fits(path)
          BY <3>1, <4>3
        <4>5. path \in Path
          BY <4>1, <4>4, RebasedIsAPath
        <4> HIDE DEF path, Again
        <4> QED BY <4>1, <4>2, <4>5 DEF Org
      <3>3. \A o, p \in orgs : o.id = p.id => o = p
        BY DEF TypeOK
      <3>4. below \subseteq orgs /\ orgs \subseteq Org
        BY DEF TypeOK
      <3>5. \A q \in rebased : \E o \in below : q = Again(o)
        OBVIOUS
      <3> HIDE DEF below, Again, rebased
      <3> QED BY <3>1, <3>2, <3>3, <3>4, <3>5
    <2> QED BY <2>1, <2>2
  <1>6. \A q \in Linked' : \E o \in Linked : q.id = o.id /\ q.parent = o.parent
    <2>1. Forms' \subseteq Forms
      BY <1>3, <1>4 DEF Forms
    <2> QED BY <1>5, <2>1 DEF Linked
  <1>7. \A q \in Known' : \E o \in Known : q.id = o.id /\ q.parent = o.parent
    <2>1. Sources' \subseteq Sources /\ Targets' \subseteq Targets
      BY <1>3, <1>4 DEF Sources, Targets
    <2> QED BY <1>6, <2>1 DEF Known
  <1>8. TypeOK'
    BY <1>2, <1>4, <1>5 DEF TypeOK, Request
  <1>9. IdsAreOld'
    BY <1>2, <1>3, <1>4, <1>7 DEF IdsAreOld
  <1>10. MovesAreCounted'
    BY <1>2, <1>3, <1>4 DEF MovesAreCounted, Moves
  <1>11. moves = 1 => \A s \in Admin : req'[s].pc \notin {"target", "one"}
    BY <1>2, <1>3, <1>4 DEF MovesAreCounted, Moves
  <1>12. RecordsAgree'
    BY <1>2, <1>11 DEF RecordsAgree, Unmoved
  <1> QED
    BY <1>8, <1>9, <1>10, <1>12

-----------------------------------------------------------------------------
(* Every step.                                                             *)

\* Nothing happens.
LEMMA StutteringKeepsInv ==
    ASSUME OrganizationInv, UNCHANGED vars
    PROVE  OrganizationInv'
  <1> USE DEF OrganizationInv, vars
  <1>1. Linked' = Linked /\ Known' = Known
    BY DEF Linked, Known, Forms, Sources, Targets
  <1>2. TypeOK'
    BY DEF TypeOK
  <1>3. IdsAreOld' /\ MovesAreCounted'
    BY <1>1 DEF IdsAreOld, MovesAreCounted, Moves
  <1>4. RecordsAgree'
    BY <1>1 DEF RecordsAgree, Unmoved, Self
  <1> QED
    BY <1>2, <1>3, <1>4

\* The invariant is inductive.
LEMMA StepKeepsInv == OrganizationInv /\ [Next]_vars => OrganizationInv'
  <1> SUFFICES ASSUME OrganizationInv, [Next]_vars PROVE OrganizationInv'
    OBVIOUS
  <1>1. CASE Next
    <2>1. PICK t \in Admin :
            \/ OpenAppendChild(t) \/ CreateOrganization(t)
            \/ OpenMaintain(t) \/ UpdateOrganization(t) \/ DeleteOrganization(t)
            \/ OpenMove(t) \/ LeavePage(t) \/ ReadSource(t) \/ ReadTarget(t)
            \/ MoveStepOne(t) \/ MoveStepTwo(t)
      BY <1>1 DEF Next
    <2>2. CASE OpenAppendChild(t)
      BY <2>2, OpenAppendChildKeepsInv
    <2>3. CASE CreateOrganization(t)
      BY <2>3, CreateOrganizationKeepsInv
    <2>4. CASE OpenMaintain(t)
      BY <2>4, OpenMaintainKeepsInv
    <2>5. CASE UpdateOrganization(t)
      BY <2>5, UpdateOrganizationKeepsInv
    <2>6. CASE DeleteOrganization(t)
      BY <2>6, DeleteOrganizationKeepsInv
    <2>7. CASE OpenMove(t)
      BY <2>7, OpenMoveKeepsInv
    <2>8. CASE LeavePage(t)
      BY <2>8, LeavePageKeepsInv
    <2>9. CASE ReadSource(t)
      BY <2>9, ReadSourceKeepsInv
    <2>10. CASE ReadTarget(t)
      BY <2>10, ReadTargetKeepsInv
    <2>11. CASE MoveStepOne(t)
      BY <2>11, MoveStepOneKeepsInv
    <2>12. CASE MoveStepTwo(t)
      BY <2>12, MoveStepTwoKeepsInv
    <2> QED
      BY <2>1, <2>2, <2>3, <2>4, <2>5, <2>6, <2>7, <2>8, <2>9, <2>10, <2>11, <2>12
  <1>2. CASE UNCHANGED vars
    BY <1>2, StutteringKeepsInv
  <1> QED BY <1>1, <1>2

\* The invariant holds in every reachable state.
LEMMA InvHolds == Spec => []OrganizationInv
  BY InitHasInv, StepKeepsInv, PTL DEF Spec

\* Until something is moved, parent_ids is the way down to a row, whichever
\* pages are open (createOrganization, updateOrganization and deleteById of
\* OrganizationServiceImpl, with what the pages post).
THEOREM PathsHold == Spec => []PathsAreSound
  <1>1. OrganizationInv => PathsAreSound
    BY KnownMembers
    DEF OrganizationInv, RecordsAgree, Unmoved, PathsAreSound, PathsFollowParents,
        PathLeadsToParent
  <1> QED BY <1>1, InvHolds, PTL

-----------------------------------------------------------------------------
(* The tree.                                                               *)

\* Whatever has ranks has a lowest one.
LEMMA LowestRank ==
    ASSUME NEW ids, ids \subseteq Id, ids # {}, NEW rank \in [Id -> Nat]
    PROVE  \E i \in ids : \A j \in ids : ~(rank[j] < rank[i])
  <1> DEFINE ranks == {rank[i] : i \in ids}
  <1>1. ranks \subseteq Nat /\ ranks # {}
    OBVIOUS
  <1>2. IsWellFoundedOn(OpToRel(<, Nat), Nat)
    BY NatLessThanWellFounded
  <1> HIDE DEF ranks
  <1>3. \E m \in ranks : \A n \in ranks : ~(<<n, m>> \in OpToRel(<, Nat))
    BY <1>1, <1>2, WFMin
  <1>4. PICK m \in ranks : \A n \in ranks : ~(<<n, m>> \in OpToRel(<, Nat))
    BY <1>3
  <1>5. \A n \in ranks : ~(n < m)
    BY <1>1, <1>4 DEF OpToRel
  <1> QED
    BY <1>5 DEF ranks

\* Rows whose paths follow their parents make no cycle: a parent's path is
\* shorter.
LEMMA PathsAreAcyclic ==
    ASSUME TypeOK, PathLeadsToParent
    PROVE  Acyclic
  <1> SUFFICES ASSUME NEW ids \in SUBSET {o.id : o \in orgs}, ids # {},
                      \A o \in orgs : o.id \in ids => o.parent \in ids
               PROVE  FALSE
    BY DEF Acyclic
  <1> DEFINE record(i) == CHOOSE o \in orgs : o.id = i
             rank == [i \in Id |-> IF \E o \in orgs : o.id = i
                                     THEN Len(record(i).path) ELSE 0]
  <1>1. \A o \in orgs : o \in Org /\ o.id \in Id /\ record(o.id) = o
    BY PathTypes DEF TypeOK
  <1>2. \A o \in orgs : rank[o.id] = Len(o.path)
    BY <1>1
  <1>3. rank \in [Id -> Nat]
    BY <1>1, PathTypes
  <1> HIDE DEF record, rank
  <1>4. ids \subseteq Id
    BY <1>1
  <1>5. PICK i \in ids : \A j \in ids : ~(rank[j] < rank[i])
    BY <1>3, <1>4, LowestRank
  <1>6. PICK o \in orgs : o.id = i
    OBVIOUS
  <1>7. PICK p \in orgs : p.id = o.parent /\ p.id \in ids
    BY <1>6
  <1>8. o.path = Self(p)
    BY <1>7 DEF PathLeadsToParent
  <1>9. rank[p.id] < rank[o.id]
    BY <1>1, <1>2, <1>8, PathTypes
  <1> QED BY <1>5, <1>6, <1>7, <1>9

\* Until something is moved, the organizations are a tree, whichever pages are
\* open: no form, update or delete makes a cycle (createOrganization,
\* updateOrganization and deleteById of OrganizationServiceImpl).
THEOREM TreeHolds == Spec => [](moves = 0 => Acyclic)
  <1>1. PathsAreSound => (moves = 0 => Acyclic)
    BY PathsAreAcyclic DEF PathsAreSound, PathsFollowParents
  <1> QED BY <1>1, PathsHold, PTL
=============================================================================
