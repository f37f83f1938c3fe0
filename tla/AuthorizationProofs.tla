------------------------ MODULE AuthorizationProofs ------------------------
(***************************************************************************)
(* What TLAPS proves of Authorization, for any number of administrators,   *)
(* users, applications, roles and ids.                                     *)
(***************************************************************************)
EXTENDS Authorization, TLAPS

-----------------------------------------------------------------------------
(* Lemmas about the lists of roles and the statements.                     *)

\* Splitting a form's or a row's role list yields roles only.
LEMMA RolesInType ==
    ASSUME NEW rs \in RoleList
    PROVE  RolesIn(rs) \subseteq Role
  BY DEF RolesIn, RoleList

\* What the loop of merge leaves: a list of roles, empty only when both lists
\* are, with every role of the row and otherwise nothing that was not submitted.
LEMMA MergedRolesFacts ==
    ASSUME NEW db \in RoleList, NEW rs \in RoleList
    PROVE  /\ MergedRoles(db, rs) \in Seq(Role)
           /\ RolesIn(db) \subseteq RolesIn(MergedRoles(db, rs))
           /\ RolesIn(MergedRoles(db, rs)) \subseteq RolesIn(db) \cup RolesIn(rs)
           /\ db # NoRoles => MergedRoles(db, rs) # NoRoles
<1>1. CASE rs = NoRoles
  BY <1>1 DEF MergedRoles, RoleList
<1>2. CASE rs # NoRoles
  <2> DEFINE last == rs[Len(rs)]
  <2>1. rs \in Seq(Role) /\ db \in Seq(Role)
    BY DEF RoleList
  <2>2. Len(rs) \in 1..Len(rs)
    BY <1>2, <2>1 DEF NoRoles
  <2>3. last \in Role /\ last \in RolesIn(rs)
    BY <2>1, <2>2 DEF RolesIn
  <2>4. MergedRoles(db, rs) = Append(db, last)
    BY <1>2 DEF MergedRoles
  <2>5. Append(db, last) \in Seq(Role) /\ Len(Append(db, last)) = Len(db) + 1
    BY <2>1, <2>3
  <2>6. \A k \in 1..(Len(db) + 1) :
          Append(db, last)[k] = IF k = Len(db) + 1 THEN last ELSE db[k]
    BY <2>1, <2>3
  <2>7. RolesIn(db) \subseteq RolesIn(Append(db, last))
    BY <2>1, <2>5, <2>6 DEF RolesIn
  <2>8. RolesIn(Append(db, last)) \subseteq RolesIn(db) \cup RolesIn(rs)
    BY <2>1, <2>3, <2>5, <2>6 DEF RolesIn
  <2>9. Append(db, last) # NoRoles
    BY <2>1, <2>5 DEF NoRoles
  <2> QED
    BY <2>4, <2>5, <2>7, <2>8, <2>9
<1> QED
  BY <1>1, <1>2

\* A list that fits in the column is one the table can hold.
LEMMA FittingList ==
    ASSUME NEW rs \in Seq(Role), Fits(rs)
    PROVE  rs \in RoleList
  BY DEF Fits, RoleList

\* A form's role list, empty or not, fits in the column.
LEMMA FormRolesFit == FormRoles \cup {NoRoles} \subseteq RoleList
<1>1. NoRoles \in RoleList
  <2>1. <<>> \in Seq(Role) /\ Len(<<>>) = 0
    OBVIOUS
  <2> QED
    BY <2>1, BoundsAssumption DEF RoleList, NoRoles
<1>2. ASSUME NEW rs \in FormRoles
      PROVE  rs \in RoleList
  BY BoundsAssumption, FormAssumption DEF RoleList
<1> QED
  BY <1>1, <1>2

-----------------------------------------------------------------------------
(* Type correctness.                                                       *)

\* The value of a form, or of a row read earlier, whose roles may have grown
\* beyond the column: what updateByPrimaryKeySelective is called with.
IsRecord(new) ==
    /\ new = [id |-> new.id, user |-> new.user, app |-> new.app,
              roles |-> new.roles]
    /\ new.user \in User /\ new.app \in App /\ new.roles \in Seq(Role)

\* A form is such a record.
LEMMA FormIsRecord == \A f \in Form : IsRecord(f)
  BY DEF Form, IsRecord, RoleList

\* So is the row merge has read, once its roles are the merged ones.
LEMMA MergedIsRecord ==
    ASSUME NEW db \in Row, NEW f \in Form
    PROVE  IsRecord([db EXCEPT !.roles = MergedRoles(@, f.roles)])
<1>1. MergedRoles(db.roles, f.roles) \in Seq(Role)
  BY MergedRolesFacts DEF Form, Row
<1> QED
  BY <1>1 DEF Row, IsRecord

\* updateByPrimaryKeySelective leaves a table of well-formed rows.
LEMMA UpdateType ==
    ASSUME rows \subseteq Row, NEW new, IsRecord(new)
    PROVE  UpdateByPrimaryKeySelective(new) \subseteq Row
<1> SUFFICES ASSUME Fits(new.roles), NEW r \in rows, r.id = new.id
             PROVE  Rewritten(r, new) \in Row
  BY DEF UpdateByPrimaryKeySelective
<1>1. new.roles \in RoleList
  BY FittingList DEF IsRecord
<1> QED
  BY <1>1 DEF Rewritten, Row, IsRecord

\* Every step keeps the type invariant.
LEMMA TypeStep == TypeOK /\ [Next]_vars => TypeOK'
<1> SUFFICES ASSUME TypeOK, [Next]_vars
             PROVE  TypeOK'
  OBVIOUS
<1> USE DEF TypeOK
<1>a. ASSUME NEW t \in Admin, Finish(t)
      PROVE  req' \in [Admin -> Idle \cup Editing \cup Submitted \cup Merging]
  BY <1>a DEF Finish, Idle
<1>b. ASSUME NEW t \in Admin, NEW f \in Form, Submit(t, f)
      PROVE  TypeOK'
  <2>1. req' \in [Admin -> Idle \cup Editing \cup Submitted \cup Merging]
    BY <1>b DEF Submit, Submitted
  <2>2. f.user \in User /\ f.app \in App /\ f.roles \in RoleList
    BY DEF Form
  <2>3. granted' \subseteq User \X App \X Role
    BY <1>b, <2>2, RolesInType DEF Submit
  <2>4. blanked' \subseteq User \X App
    BY <1>b, <2>2 DEF Submit
  <2> QED
    BY <1>b, <2>1, <2>3, <2>4 DEF Submit
<1>1. ASSUME NEW t \in Admin, NEW u \in User, NEW a \in App,
             NEW rs \in FormRoles \cup {NoRoles}, SubmitCreate(t, u, a, rs)
      PROVE  TypeOK'
  <2>1. [id |-> NoId, user |-> u, app |-> a, roles |-> rs] \in Form
    BY FormRolesFit DEF Form
  <2> QED
    BY <1>1, <1>b, <2>1 DEF SubmitCreate
<1>2. ASSUME NEW t \in Admin, NEW u \in User, NEW a \in App,
             NEW rs \in FormRoles \cup {NoRoles}, SubmitUpdate(t, u, a, rs)
      PROVE  TypeOK'
  <2>1. req[t].id \in Id
    BY <1>2 DEF SubmitUpdate, Idle, Editing, Submitted, Merging
  <2>2. [id |-> req[t].id, user |-> u, app |-> a, roles |-> rs] \in Form
    BY <2>1, FormRolesFit DEF Form
  <2> QED
    BY <1>2, <1>b, <2>2 DEF SubmitUpdate
<1>3. ASSUME NEW t \in Admin, OpenForm(t)
      PROVE  TypeOK'
  BY <1>3 DEF OpenForm, Editing, Row
<1>4. ASSUME NEW t \in Admin, SubmitDelete(t)
      PROVE  TypeOK'
  BY <1>4, <1>a DEF SubmitDelete, DeleteByPrimaryKey
<1>5. ASSUME NEW t \in Admin, Select(t)
      PROVE  TypeOK'
  <2>1. req[t].form \in Form
    BY <1>5 DEF Select, Idle, Editing, Submitted, Merging
  <2>2. req' \in [Admin -> Idle \cup Editing \cup Submitted \cup Merging]
    BY <1>5, <1>a, <2>1 DEF Select, SelectByAppUser, Submitted, Merging
  <2> QED
    BY <1>5, <2>2 DEF Select
<1>6. ASSUME NEW t \in Admin, InsertSelective(t)
      PROVE  TypeOK'
  <2> DEFINE f == req[t].form
             id == IF f.id = NoId THEN nextId ELSE f.id
  <2>1. f \in Form
    BY <1>6 DEF InsertSelective, Idle, Editing, Submitted, Merging
  <2>2. id \in Id
    BY <1>6, <2>1, BoundsAssumption DEF InsertSelective, Form, Id, NoId
  <2>3. [f EXCEPT !.id = id] \in Row
    BY <2>1, <2>2 DEF Form, Row
  <2>4. rows' \subseteq Row
    BY <1>6, <2>3 DEF InsertSelective
  <2>5. nextId' \in 1..(MaxId + 1)
    BY <1>6, <2>2, BoundsAssumption DEF InsertSelective, Id
  <2> QED
    BY <1>6, <1>a, <2>4, <2>5 DEF InsertSelective
<1>7. ASSUME NEW t \in Admin, UpdateFromForm(t)
      PROVE  TypeOK'
  <2> DEFINE f == req[t].form
  <2>1. f \in Form
    BY <1>7 DEF UpdateFromForm, Idle, Editing, Submitted, Merging
  <2>2. UpdateByPrimaryKeySelective(f) \subseteq Row
    BY <2>1, UpdateType, FormIsRecord
  <2> QED
    BY <1>7, <1>a, <2>2 DEF UpdateFromForm
<1>8. ASSUME NEW t \in Admin, OverwriteMerged(t)
      PROVE  TypeOK'
  <2> DEFINE f == req[t].form
             merged == [req[t].db EXCEPT !.roles = MergedRoles(@, f.roles)]
  <2>1. f \in Form /\ req[t].db \in Row
    BY <1>8 DEF OverwriteMerged, Idle, Editing, Submitted, Merging
  <2>2. UpdateByPrimaryKeySelective(merged) \subseteq Row
    BY <2>1, MergedIsRecord, UpdateType
  <2>3. rows' \subseteq Row
    BY <1>8, <2>2 DEF OverwriteMerged, DeleteByPrimaryKey
  <2> QED
    BY <1>8, <1>a, <2>3 DEF OverwriteMerged
<1>9. CASE RestartDatabase
  BY <1>9 DEF RestartDatabase
<1>10. CASE UNCHANGED vars
  BY <1>10 DEF vars
<1> QED
  BY <1>1, <1>2, <1>3, <1>4, <1>5, <1>6, <1>7, <1>8, <1>9, <1>10 DEF Next

\* The table only ever holds rows the column types of auth.sql accept, and a
\* request is always at one of the points of the controller and of merge.
THEOREM TypeCorrect == Spec => []TypeOK
<1>1. Init => TypeOK
  BY BoundsAssumption DEF Init, TypeOK, Idle
<1> QED
  BY <1>1, TypeStep, PTL DEF Spec

-----------------------------------------------------------------------------
(* One row per pair.                                                       *)

\* The unique key and the primary key, checked by insert and update, keep the
\* pairs distinct; merge's own check before the insert is not needed for it.
LEMMA OneRowStep ==
    TypeOK /\ OneRowPerPair /\ [Next]_vars => OneRowPerPair'
<1> SUFFICES ASSUME TypeOK, OneRowPerPair, [Next]_vars
             PROVE  OneRowPerPair'
  OBVIOUS
<1>1. ASSUME NEW new, IsRecord(new), rows' = UpdateByPrimaryKeySelective(new)
      PROVE  OneRowPerPair'
  <2>1. CASE ~(Fits(new.roles) /\ ~PairTaken(new.id, new.user, new.app))
    BY <1>1, <2>1 DEF OneRowPerPair, UpdateByPrimaryKeySelective
  <2>2. CASE Fits(new.roles) /\ ~PairTaken(new.id, new.user, new.app)
    <3> SUFFICES ASSUME NEW r \in rows', NEW s \in rows',
                        r.id = s.id \/ (r.user = s.user /\ r.app = s.app)
                 PROVE  r = s
      BY DEF OneRowPerPair
    <3>1. \A x \in rows' :
             \/ x \in rows /\ x.id # new.id
             \/ \E y \in rows : y.id = new.id /\ x = Rewritten(y, new)
      BY <1>1, <2>2 DEF UpdateByPrimaryKeySelective
    <3>2. \A y : /\ Rewritten(y, new).id = new.id
                 /\ Rewritten(y, new).user = new.user
                 /\ Rewritten(y, new).app = new.app
      BY <1>1 DEF Rewritten, IsRecord
    <3>3. CASE r \in rows /\ r.id # new.id
      BY <2>2, <3>1, <3>2, <3>3 DEF OneRowPerPair, PairTaken
    <3>4. CASE \E y \in rows : y.id = new.id /\ r = Rewritten(y, new)
      BY <2>2, <3>1, <3>2, <3>4 DEF OneRowPerPair, PairTaken
    <3> QED
      BY <3>1, <3>3, <3>4
  <2> QED
    BY <2>1, <2>2
<1>2. ASSUME NEW id, rows' = DeleteByPrimaryKey(id)
      PROVE  OneRowPerPair'
  BY <1>2 DEF OneRowPerPair, DeleteByPrimaryKey
<1>3. ASSUME UNCHANGED rows
      PROVE  OneRowPerPair'
  BY <1>3 DEF OneRowPerPair
<1>4. ASSUME NEW x, rows' = rows \cup {x}, ~IdTaken(x.id),
             ~PairTaken(x.id, x.user, x.app)
      PROVE  OneRowPerPair'
  BY <1>4 DEF OneRowPerPair, IdTaken, PairTaken
<1>5. ASSUME NEW t \in Admin, InsertSelective(t)
      PROVE  OneRowPerPair'
  <2> DEFINE f == req[t].form
             id == IF f.id = NoId THEN nextId ELSE f.id
             new == [f EXCEPT !.id = id]
  <2>1. f \in Form
    BY <1>5 DEF InsertSelective, TypeOK, Idle, Editing, Submitted, Merging
  <2>2. new.id = id /\ new.user = f.user /\ new.app = f.app
    BY <2>1 DEF Form
  <2>3. CASE rows' = rows \cup {new} /\ ~IdTaken(id)
                /\ ~PairTaken(id, f.user, f.app)
    BY <2>2, <2>3, <1>4
  <2>4. CASE UNCHANGED rows
    BY <2>4, <1>3
  <2> QED
    BY <1>5, <2>3, <2>4 DEF InsertSelective
<1>6. ASSUME NEW t \in Admin, UpdateFromForm(t)
      PROVE  OneRowPerPair'
  <2>1. req[t].form \in Form
    BY <1>6 DEF UpdateFromForm, TypeOK, Idle, Editing, Submitted, Merging
  <2> QED
    BY <1>6, <1>1, <2>1, FormIsRecord DEF UpdateFromForm
<1>7. ASSUME NEW t \in Admin, OverwriteMerged(t)
      PROVE  OneRowPerPair'
  <2>1. req[t].form \in Form /\ req[t].db \in Row
    BY <1>7 DEF OverwriteMerged, TypeOK, Idle, Editing, Submitted, Merging
  <2>2. IsRecord([req[t].db EXCEPT !.roles = MergedRoles(@, req[t].form.roles)])
    BY <2>1, MergedIsRecord
  <2> QED
    BY <1>7, <1>1, <1>2, <2>2 DEF OverwriteMerged
<1>8. ASSUME NEW t \in Admin,
             \/ OpenForm(t) \/ Select(t)
             \/ \E u \in User, a \in App, rs \in FormRoles \cup {NoRoles} :
                  SubmitCreate(t, u, a, rs) \/ SubmitUpdate(t, u, a, rs)
      PROVE  OneRowPerPair'
  BY <1>8, <1>3 DEF OpenForm, Select, SubmitCreate, SubmitUpdate, Submit
<1>9. ASSUME NEW t \in Admin, SubmitDelete(t)
      PROVE  OneRowPerPair'
  BY <1>9, <1>2 DEF SubmitDelete
<1>10. CASE RestartDatabase \/ UNCHANGED vars
  BY <1>10, <1>3 DEF RestartDatabase, vars
<1> QED
  BY <1>5, <1>6, <1>7, <1>8, <1>9, <1>10 DEF Next

\* Whatever requests interleave, a user has at most one row per application.
THEOREM OneRowPerPairHolds == Spec => []OneRowPerPair
<1>1. Init => OneRowPerPair
  BY DEF Init, OneRowPerPair
<1> QED
  BY <1>1, OneRowStep, TypeCorrect, PTL DEF Spec

-----------------------------------------------------------------------------
(* Every role a user holds was submitted for him.                          *)

\* The roles `rs` were submitted for the pair, or a form without roles was.
Accounted(u, a, rs) ==
    <<u, a>> \in blanked \/ \A x \in RolesIn(rs) : <<u, a, x>> \in granted

\* GrantsWereSubmitted alone is not inductive: an update writes what a form
\* or an earlier read brought, so these are accounted for as well, a form
\* without roles has blanked its pair, and the row a request merges into is
\* one of its form's pair, with some role.
RequestAccounted(q) ==
    /\ q.pc \in {"select", "insert", "update", "overwrite"} =>
         /\ \A x \in RolesIn(q.form.roles) :
              <<q.form.user, q.form.app, x>> \in granted
         /\ q.form.roles = NoRoles => <<q.form.user, q.form.app>> \in blanked
    /\ q.pc = "overwrite" =>
         /\ q.db.user = q.form.user /\ q.db.app = q.form.app
         /\ q.db.roles # NoRoles
         /\ Accounted(q.db.user, q.db.app, q.db.roles)

AccountedInv ==
    /\ \A r \in rows : Accounted(r.user, r.app, r.roles)
    /\ \A t \in Admin : RequestAccounted(req[t])

\* What is accounted for stays so, since the histories only grow.
LEMMA HistoriesGrow ==
    ASSUME TypeOK, [Next]_vars
    PROVE  granted \subseteq granted' /\ blanked \subseteq blanked'
<1>1. ASSUME NEW t \in Admin, NEW f, Submit(t, f)
      PROVE  granted \subseteq granted' /\ blanked \subseteq blanked'
  BY <1>1 DEF Submit
<1>2. ASSUME NEW t \in Admin, NEW u \in User, NEW a \in App,
             NEW rs \in FormRoles \cup {NoRoles},
             SubmitCreate(t, u, a, rs) \/ SubmitUpdate(t, u, a, rs)
      PROVE  granted \subseteq granted' /\ blanked \subseteq blanked'
  BY <1>1, <1>2 DEF SubmitCreate, SubmitUpdate
<1>3. ASSUME NEW t \in Admin,
             \/ OpenForm(t) \/ SubmitDelete(t) \/ Select(t)
             \/ InsertSelective(t) \/ UpdateFromForm(t) \/ OverwriteMerged(t)
      PROVE  UNCHANGED <<granted, blanked>>
  BY <1>3 DEF OpenForm, SubmitDelete, Select, InsertSelective, UpdateFromForm,
              OverwriteMerged
<1>4. CASE RestartDatabase \/ UNCHANGED vars
  BY <1>4 DEF RestartDatabase, vars
<1> QED
  BY <1>2, <1>3, <1>4 DEF Next

\* Writing a record whose roles are accounted for, or that has none and whose
\* pair is blanked, leaves every row accounted for.
LEMMA UpdateAccounted ==
    ASSUME NEW new, IsRecord(new), 
           \A r \in rows : Accounted(r.user, r.app, r.roles),
           Accounted(new.user, new.app, new.roles),
           new.roles = NoRoles => <<new.user, new.app>> \in blanked,
           NEW s \in UpdateByPrimaryKeySelective(new)
    PROVE  Accounted(s.user, s.app, s.roles)
<1>1. CASE s \in rows
  BY <1>1
<1>2. CASE \E r \in rows : s = Rewritten(r, new)
  <2>1. PICK r \in rows : s = Rewritten(r, new)
    BY <1>2
  <2>2. s.user = new.user /\ s.app = new.app
    BY <2>1 DEF Rewritten, IsRecord
  <2>3. s.roles = IF new.roles = NoRoles THEN r.roles ELSE new.roles
    BY <2>1 DEF Rewritten, IsRecord
  <2>4. CASE new.roles = NoRoles
    BY <2>2, <2>4 DEF Accounted
  <2>5. CASE new.roles # NoRoles
    BY <2>2, <2>3, <2>5
  <2> QED
    BY <2>4, <2>5
<1> QED
  BY <1>1, <1>2 DEF UpdateByPrimaryKeySelective

\* The steps of the requests keep the invariant.
LEMMA AccountedStep == TypeOK /\ AccountedInv /\ [Next]_vars => AccountedInv'
<1> SUFFICES ASSUME TypeOK, AccountedInv, [Next]_vars
             PROVE  AccountedInv'
  OBVIOUS
<1>1. granted \subseteq granted' /\ blanked \subseteq blanked'
  BY HistoriesGrow
<1>2. ASSUME NEW u, NEW a, NEW rs, Accounted(u, a, rs)
      PROVE  Accounted(u, a, rs)'
  BY <1>1, <1>2 DEF Accounted
<1>3. ASSUME NEW t \in Admin PROVE RequestAccounted(req[t])
  BY DEF AccountedInv
<1>4. ASSUME NEW t \in Admin, req'[t] = req[t]
      PROVE  RequestAccounted(req[t])'
  BY <1>1, <1>2, <1>3, <1>4 DEF RequestAccounted
<1>5. ASSUME NEW t \in Admin, req'[t] = [pc |-> "idle"]
      PROVE  RequestAccounted(req[t])'
  BY <1>5 DEF RequestAccounted
<1>6. ASSUME rows' \subseteq rows
      PROVE  \A r \in rows' : Accounted(r.user, r.app, r.roles)'
  BY <1>2, <1>6 DEF AccountedInv
<1>7. ASSUME NEW t \in Admin, Finish(t),
             \A r \in rows' : Accounted(r.user, r.app, r.roles)
      PROVE  AccountedInv'
  <2>1. \A s \in Admin : req'[s] = req[s] \/ req'[s] = [pc |-> "idle"]
    BY <1>7 DEF Finish, TypeOK
  <2>2. \A s \in Admin : RequestAccounted(req[s])'
    BY <2>1, <1>4, <1>5
  <2>3. \A r \in rows' : Accounted(r.user, r.app, r.roles)'
    BY <1>2, <1>7
  <2> QED
    BY <2>2, <2>3 DEF AccountedInv
<1>8. ASSUME NEW t \in Admin, NEW f \in Form, Submit(t, f)
      PROVE  AccountedInv'
  <2>1. req'[t] = [pc |-> "select", form |-> f]
    BY <1>8 DEF Submit, TypeOK
  <2>2. \A x \in RolesIn(f.roles) : <<f.user, f.app, x>> \in granted'
    BY <1>8 DEF Submit
  <2>3. f.roles = NoRoles => <<f.user, f.app>> \in blanked'
    BY <1>8 DEF Submit
  <2>4. RequestAccounted(req[t])'
    BY <2>1, <2>2, <2>3 DEF RequestAccounted
  <2>5. \A s \in Admin \ {t} : req'[s] = req[s]
    BY <1>8 DEF Submit, TypeOK
  <2>6. \A s \in Admin : RequestAccounted(req[s])'
    BY <2>4, <2>5, <1>4
  <2> QED
    BY <1>6, <1>8, <2>6 DEF AccountedInv, Submit
<1>9. ASSUME NEW t \in Admin, NEW u \in User, NEW a \in App,
             NEW rs \in FormRoles \cup {NoRoles},
             SubmitCreate(t, u, a, rs) \/ SubmitUpdate(t, u, a, rs)
      PROVE  AccountedInv'
  <2>1. PICK id \in Id \cup {NoId} :
          Submit(t, [id |-> id, user |-> u, app |-> a, roles |-> rs])
    BY <1>9 DEF SubmitCreate, SubmitUpdate, TypeOK, Idle, Editing, Submitted,
                Merging
  <2>2. [id |-> id, user |-> u, app |-> a, roles |-> rs] \in Form
    BY FormRolesFit DEF Form
  <2> QED
    BY <1>8, <2>1, <2>2
<1>10. ASSUME NEW t \in Admin, OpenForm(t)
       PROVE  AccountedInv'
  <2>1. RequestAccounted(req[t])'
    BY <1>10 DEF OpenForm, RequestAccounted, TypeOK
  <2>2. \A s \in Admin \ {t} : req'[s] = req[s]
    BY <1>10 DEF OpenForm, TypeOK
  <2>3. \A s \in Admin : RequestAccounted(req[s])'
    BY <2>1, <2>2, <1>4
  <2> QED
    BY <1>6, <1>10, <2>3 DEF AccountedInv, OpenForm
<1>11. ASSUME NEW t \in Admin, Select(t)
       PROVE  AccountedInv'
  <2> DEFINE f == req[t].form
  <2>1. req[t].pc = "select"
    BY <1>11 DEF Select
  <2>2. /\ \A x \in RolesIn(f.roles) : <<f.user, f.app, x>> \in granted'
        /\ f.roles = NoRoles => <<f.user, f.app>> \in blanked'
    BY <1>1, <1>3, <2>1 DEF RequestAccounted
  <2>3. ASSUME NEW r \in rows
        PROVE  Accounted(r.user, r.app, r.roles)'
    BY <1>2 DEF AccountedInv
  <2>4. \/ \E pc \in {"insert", "update"} : req'[t] = [pc |-> pc, form |-> f]
        \/ \E r \in SelectByAppUser(f.user, f.app) :
             Splits(r.roles) /\ req'[t] = [pc |-> "overwrite", form |-> f,
                                          db |-> r]
        \/ req'[t] = [pc |-> "idle"]
    BY <1>11 DEF Select, Finish, TypeOK
  <2>5. RequestAccounted(req[t])'
    <3>1. CASE \E pc \in {"insert", "update"} :
                 req'[t] = [pc |-> pc, form |-> f]
      BY <2>2, <3>1 DEF RequestAccounted
    <3>2. CASE \E r \in SelectByAppUser(f.user, f.app) :
                 Splits(r.roles) /\ req'[t] = [pc |-> "overwrite", form |-> f,
                                              db |-> r]
      BY <2>2, <2>3, <3>2 DEF RequestAccounted, SelectByAppUser, Splits
    <3> QED
      BY <2>4, <3>1, <3>2, <1>5
  <2>6. \A s \in Admin \ {t} : req'[s] = req[s]
    BY <1>11 DEF Select, Finish, TypeOK
  <2>7. \A s \in Admin : RequestAccounted(req[s])'
    BY <2>5, <2>6, <1>4
  <2> QED
    BY <1>6, <1>11, <2>7 DEF AccountedInv, Select
<1>12. ASSUME NEW t \in Admin, SubmitDelete(t)
       PROVE  AccountedInv'
  BY <1>12, <1>7 DEF SubmitDelete, DeleteByPrimaryKey, AccountedInv
<1>13. ASSUME NEW t \in Admin, InsertSelective(t)
       PROVE  AccountedInv'
  <2> DEFINE f == req[t].form
             id == IF f.id = NoId THEN nextId ELSE f.id
             new == [f EXCEPT !.id = id]
  <2>1. f \in Form
    BY <1>13 DEF InsertSelective, TypeOK, Idle, Editing, Submitted, Merging
  <2>2. new.user = f.user /\ new.app = f.app /\ new.roles = f.roles
    BY <2>1 DEF Form
  <2>3. Accounted(f.user, f.app, f.roles)
    BY <1>13, <1>3 DEF InsertSelective, RequestAccounted, Accounted
  <2>4. rows' = rows \/ rows' = rows \cup {new}
    BY <1>13 DEF InsertSelective
  <2>5. \A r \in rows' : Accounted(r.user, r.app, r.roles)
    <3> HIDE DEF new
    <3> QED
      BY <2>2, <2>3, <2>4 DEF AccountedInv
  <2>6. Finish(t)
    BY <1>13 DEF InsertSelective
  <2> QED
    BY <1>7, <2>5, <2>6
<1>14. ASSUME NEW t \in Admin, UpdateFromForm(t)
       PROVE  AccountedInv'
  <2>1. req[t].form \in Form
    BY <1>14 DEF UpdateFromForm, TypeOK, Idle, Editing, Submitted, Merging
  <2>2. /\ Accounted(req[t].form.user, req[t].form.app, req[t].form.roles)
        /\ req[t].form.roles = NoRoles
             => <<req[t].form.user, req[t].form.app>> \in blanked
    BY <1>14, <1>3 DEF UpdateFromForm, RequestAccounted, Accounted
  <2>3. \A r \in rows' : Accounted(r.user, r.app, r.roles)
    BY <1>14, <2>1, <2>2, FormIsRecord, UpdateAccounted
       DEF UpdateFromForm, AccountedInv
  <2> QED
    BY <1>7, <1>14, <2>3 DEF UpdateFromForm
<1>15. ASSUME NEW t \in Admin, OverwriteMerged(t)
       PROVE  AccountedInv'
  <2> DEFINE f == req[t].form
             db == req[t].db
             merged == [db EXCEPT !.roles = MergedRoles(@, f.roles)]
  <2>1. f \in Form /\ db \in Row
    BY <1>15 DEF OverwriteMerged, TypeOK, Idle, Editing, Submitted, Merging
  <2>2. /\ IsRecord(merged)
        /\ merged.user = db.user /\ merged.app = db.app
        /\ merged.roles = MergedRoles(db.roles, f.roles)
    BY <2>1, MergedIsRecord DEF Row
  <2>3. /\ \A x \in RolesIn(f.roles) : <<f.user, f.app, x>> \in granted
        /\ db.user = f.user /\ db.app = f.app /\ db.roles # NoRoles
        /\ Accounted(db.user, db.app, db.roles)
    BY <1>15, <1>3 DEF OverwriteMerged, RequestAccounted
  <2>4. /\ RolesIn(merged.roles) \subseteq RolesIn(db.roles) \cup RolesIn(f.roles)
        /\ merged.roles # NoRoles
    BY <2>1, <2>2, <2>3, MergedRolesFacts DEF Form, Row
  <2>5. Accounted(merged.user, merged.app, merged.roles)
    <3> HIDE DEF merged, db, f
    <3> QED
      BY <2>2, <2>3, <2>4 DEF Accounted
  <2>6. rows' = UpdateByPrimaryKeySelective(merged)
    BY <1>15, <2>4 DEF OverwriteMerged
  <2>7. \A r \in rows' : Accounted(r.user, r.app, r.roles)
    <3> HIDE DEF merged
    <3> QED
      BY <2>2, <2>4, <2>5, <2>6, UpdateAccounted DEF AccountedInv
  <2> QED
    BY <1>7, <1>15, <2>7 DEF OverwriteMerged
<1>16. CASE RestartDatabase \/ UNCHANGED vars
  BY <1>16, <1>4, <1>6 DEF RestartDatabase, vars, AccountedInv
<1> QED
  BY <1>9, <1>10, <1>11, <1>12, <1>13, <1>14, <1>15, <1>16 DEF Next

\* No user ever holds a role nobody submitted for him and that application,
\* unless a form without roles was sent for the pair.
THEOREM GrantsWereSubmittedHolds == Spec => []GrantsWereSubmitted
<1>1. Init => AccountedInv
  BY DEF Init, AccountedInv, RequestAccounted
<1>2. AccountedInv => GrantsWereSubmitted
  BY DEF AccountedInv, Accounted, GrantsWereSubmitted
<1> QED
  BY <1>1, <1>2, AccountedStep, TypeCorrect, PTL DEF Spec

-----------------------------------------------------------------------------
(* What a merge may do to the row it works on.                             *)

\* The row a merging request writes back: all it read, and something.
MergedRecord(q) == [q.db EXCEPT !.roles = MergedRoles(@, q.form.roles)]

\* The merged row keeps its id, its pair and every role it had, and is empty only
\* when it was.
LEMMA MergedRecordFacts ==
    ASSUME TypeOK, AccountedInv, NEW t \in Admin, req[t].pc = "overwrite"
    PROVE  /\ IsRecord(MergedRecord(req[t]))
           /\ MergedRecord(req[t]).id = req[t].db.id
           /\ MergedRecord(req[t]).user = req[t].db.user
           /\ MergedRecord(req[t]).app = req[t].db.app
           /\ RolesIn(req[t].db.roles) \subseteq RolesIn(MergedRecord(req[t]).roles)
           /\ MergedRecord(req[t]).roles # NoRoles
<1> DEFINE q == req[t]
<1>1. q.form \in Form /\ q.db \in Row
  BY DEF TypeOK, Idle, Editing, Submitted, Merging
<1>2. q.db.roles # NoRoles
  BY DEF AccountedInv, RequestAccounted
<1>3. /\ IsRecord(MergedRecord(q))
      /\ MergedRecord(q).id = q.db.id /\ MergedRecord(q).user = q.db.user
      /\ MergedRecord(q).app = q.db.app
      /\ MergedRecord(q).roles = MergedRoles(q.db.roles, q.form.roles)
  BY <1>1, MergedIsRecord DEF MergedRecord, Row
<1>4. /\ RolesIn(q.db.roles) \subseteq RolesIn(MergedRoles(q.db.roles, q.form.roles))
      /\ MergedRoles(q.db.roles, q.form.roles) # NoRoles
  BY <1>1, <1>2, MergedRolesFacts DEF Form, Row
<1> QED
  BY <1>3, <1>4

\* An update leaves every row its id.
LEMMA UpdateKeepsIds ==
    ASSUME NEW new, IsRecord(new), NEW r \in rows
    PROVE  \E s \in UpdateByPrimaryKeySelective(new) : s.id = r.id
<1>1. CASE r \in UpdateByPrimaryKeySelective(new)
  BY <1>1
<1>2. CASE r.id = new.id /\ Rewritten(r, new) \in UpdateByPrimaryKeySelective(new)
  BY <1>2 DEF Rewritten, IsRecord
<1> QED
  BY <1>1, <1>2 DEF UpdateByPrimaryKeySelective

\* The steps of Next by what they do to the table.
LEMMA DeleteStep ==
    TypeOK /\ AccountedInv /\ [Next]_vars =>
      \A r \in rows :
         (\A s \in rows' : s.id # r.id)
           => \E t \in Admin : /\ req[t].pc = "form" /\ req[t].id = r.id
                               /\ req'[t].pc = "idle"
<1> SUFFICES ASSUME TypeOK, AccountedInv, [Next]_vars, NEW r \in rows,
                    \A s \in rows' : s.id # r.id
             PROVE  \E t \in Admin : /\ req[t].pc = "form" /\ req[t].id = r.id
                                     /\ req'[t].pc = "idle"
  OBVIOUS
<1>1. CASE rows \subseteq rows'
  BY <1>1
<1>2. ASSUME NEW t \in Admin, UpdateFromForm(t)
      PROVE  FALSE
  <2>1. req[t].form \in Form
    BY <1>2 DEF UpdateFromForm, TypeOK, Idle, Editing, Submitted, Merging
  <2> QED
    BY <1>2, <2>1, FormIsRecord, UpdateKeepsIds DEF UpdateFromForm
<1>3. ASSUME NEW t \in Admin, OverwriteMerged(t)
      PROVE  FALSE
  <2>1. rows' = UpdateByPrimaryKeySelective(MergedRecord(req[t]))
    BY <1>3, MergedRecordFacts DEF OverwriteMerged, MergedRecord
  <2>2. IsRecord(MergedRecord(req[t]))
    BY <1>3, MergedRecordFacts DEF OverwriteMerged
  <2> QED
    BY <2>1, <2>2, UpdateKeepsIds
<1>4. ASSUME NEW t \in Admin, SubmitDelete(t)
      PROVE  req[t].pc = "form" /\ req[t].id = r.id /\ req'[t].pc = "idle"
  BY <1>4 DEF SubmitDelete, DeleteByPrimaryKey, Finish, TypeOK
<1>5. ASSUME NEW t \in Admin,
             \/ \E u \in User, a \in App, rs \in FormRoles \cup {NoRoles} :
                  SubmitCreate(t, u, a, rs) \/ SubmitUpdate(t, u, a, rs)
             \/ OpenForm(t) \/ Select(t) \/ InsertSelective(t)
      PROVE  rows \subseteq rows'
  BY <1>5 DEF SubmitCreate, SubmitUpdate, Submit, OpenForm, Select,
              InsertSelective
<1>6. CASE RestartDatabase \/ UNCHANGED vars
  BY <1>1, <1>6 DEF RestartDatabase, vars
<1> QED
  BY <1>1, <1>2, <1>3, <1>4, <1>5, <1>6 DEF Next

\* A row leaves the table only through the delete page.
THEOREM RowsVanishByDeleteOnlyHolds == Spec => RowsVanishByDeleteOnly
<1>1. Init => AccountedInv
  BY DEF Init, AccountedInv, RequestAccounted
<1> QED
  BY <1>1, AccountedStep, DeleteStep, TypeCorrect, PTL
     DEF Spec, RowsVanishByDeleteOnly

\* Only its own last step takes a request out of the merge.
LEMMA MergeEnds ==
    ASSUME TypeOK, [Next]_vars, NEW t \in Admin, req[t].pc = "overwrite",
           req'[t] # req[t]
    PROVE  OverwriteMerged(t)
<1>1. ASSUME NEW s \in Admin, s # t,
             \/ \E u \in User, a \in App, rs \in FormRoles \cup {NoRoles} :
                  SubmitCreate(s, u, a, rs) \/ SubmitUpdate(s, u, a, rs)
             \/ OpenForm(s) \/ SubmitDelete(s) \/ Select(s)
             \/ InsertSelective(s) \/ UpdateFromForm(s) \/ OverwriteMerged(s)
      PROVE  req'[t] = req[t]
  BY <1>1 DEF TypeOK, SubmitCreate, SubmitUpdate, Submit, OpenForm,
              SubmitDelete, Select, InsertSelective, UpdateFromForm,
              OverwriteMerged, Finish
<1>2. ASSUME \/ \E u \in User, a \in App, rs \in FormRoles \cup {NoRoles} :
                  SubmitCreate(t, u, a, rs) \/ SubmitUpdate(t, u, a, rs)
             \/ OpenForm(t) \/ SubmitDelete(t) \/ Select(t)
             \/ InsertSelective(t) \/ UpdateFromForm(t)
      PROVE  FALSE
  BY <1>2 DEF SubmitCreate, SubmitUpdate, OpenForm, SubmitDelete, Select,
              InsertSelective, UpdateFromForm
<1>3. CASE RestartDatabase \/ UNCHANGED vars
  BY <1>3 DEF RestartDatabase, vars
<1> QED
  BY <1>1, <1>2, <1>3 DEF Next

\* While the row is as it was read, a merge takes no role away.
THEOREM MergeKeepsWhatItReadHolds == Spec => MergeKeepsWhatItRead
<1> DEFINE Kept(t) ==
      (req[t].pc = "overwrite" /\ req'[t] # req[t] /\ req[t].db \in rows)
        => \E r \in rows' :
             /\ r.user = req[t].db.user /\ r.app = req[t].db.app
             /\ RolesIn(req[t].db.roles) \subseteq RolesIn(r.roles)
<1>1. TypeOK /\ AccountedInv /\ [Next]_vars => \A t \in Admin : Kept(t)
  <2> SUFFICES ASSUME TypeOK, AccountedInv, [Next]_vars, NEW t \in Admin,
                      req[t].pc = "overwrite", req'[t] # req[t],
                      req[t].db \in rows
               PROVE  \E r \in rows' :
                        /\ r.user = req[t].db.user /\ r.app = req[t].db.app
                        /\ RolesIn(req[t].db.roles) \subseteq RolesIn(r.roles)
    OBVIOUS
  <2> DEFINE db == req[t].db
             new == MergedRecord(req[t])
  <2>1. OverwriteMerged(t)
    BY MergeEnds
  <2>2. rows' = UpdateByPrimaryKeySelective(new)
    BY <2>1, MergedRecordFacts DEF OverwriteMerged, MergedRecord
  <2>3. CASE rows' = rows
    BY <2>3
  <2>4. CASE Rewritten(db, new) \in rows'
    <3>1. /\ Rewritten(db, new).user = db.user
          /\ Rewritten(db, new).app = db.app
          /\ Rewritten(db, new).roles = new.roles
      BY MergedRecordFacts DEF Rewritten, IsRecord
    <3> QED
      BY <2>4, <3>1, MergedRecordFacts
  <2> QED
    BY <2>2, <2>3, <2>4, MergedRecordFacts DEF UpdateByPrimaryKeySelective
<1>2. Init => AccountedInv
  BY DEF Init, AccountedInv, RequestAccounted
<1> QED
  BY <1>1, <1>2, AccountedStep, TypeCorrect, PTL DEF Spec, MergeKeepsWhatItRead
=============================================================================
