--------------------------- MODULE Authorization ---------------------------
(***************************************************************************)
(* The table ss_user_app_roles, which says which roles a user has in an    *)
(* application, and the administrators' requests that create, update and   *)
(* delete its rows (AuthorizationController, AuthorizationServiceImpl,     *)
(* AuthorizationMapper.xml).                                               *)
(*                                                                         *)
(* The service methods run outside any transaction: spring-mybatis.xml     *)
(* gives createAuthorization and updateAuthorization no more than SUPPORTS *)
(* around merge, so each SQL statement of merge commits by itself, and is  *)
(* a step here.  Requests of different administrators interleave between   *)
(* the statements, and between the page that showed a row and its          *)
(* submission.                                                             *)
(*                                                                         *)
(* A role_ids column is a sequence of roles; <<>> stands for NULL, which   *)
(* is what a form submitted with no role selected stores.                  *)
(***************************************************************************)
EXTENDS Naturals, Sequences

CONSTANTS
    Admin,       \* the browsers administrators work in: one request each
    User,        \* ids of ss_user, the options of the user list
    App,         \* ids of ss_app, the options of the application list
    Role,        \* ids of ss_role, the options of the role list
    FormRoles,   \* what the multiple select submits: non-empty role lists
    ColumnWidth, \* how many role ids role_ids varchar(100) holds
    MaxId        \* bound on the ids AUTO_INCREMENT hands out

ASSUME BoundsAssumption ==
    /\ ColumnWidth \in Nat \ {0}
    /\ MaxId \in Nat \ {0}

ASSUME FormAssumption ==
    \A rs \in FormRoles : rs \in Seq(Role) /\ Len(rs) \in 1..ColumnWidth

VARIABLES
    rows,    \* the table: a set of Row
    nextId,  \* InnoDB's AUTO_INCREMENT counter of the table
    req,     \* what each administrator's browser and request thread is at
    granted, \* history: the <<user, app, role>> some form has submitted
    blanked  \* history: the <<user, app>> a form without roles was sent for

vars == <<rows, nextId, req, granted, blanked>>

-----------------------------------------------------------------------------
NoId == 0
NoRoles == <<>>

Id == 1..MaxId
RoleList == {rs \in Seq(Role) : Len(rs) <= ColumnWidth}

Row  == [id : Id, user : User, app : App, roles : RoleList]
Form == [id : Id \cup {NoId}, user : User, app : App, roles : RoleList]

Idle      == [pc : {"idle"}]
Editing   == [pc : {"form"}, id : Id]
Submitted == [pc : {"select", "insert", "update"}, form : Form]
Merging   == [pc : {"overwrite"}, form : Form, db : Row]

TypeOK ==
    /\ rows \subseteq Row
    /\ nextId \in 1..(MaxId + 1)
    /\ req \in [Admin -> Idle \cup Editing \cup Submitted \cup Merging]
    /\ granted \subseteq User \X App \X Role
    /\ blanked \subseteq User \X App

Init ==
    /\ rows = {}
    /\ nextId = 1
    /\ req = [t \in Admin |-> [pc |-> "idle"]]
    /\ granted = {}
    /\ blanked = {}

RolesIn(rs) == {rs[k] : k \in 1..Len(rs)}

-----------------------------------------------------------------------------
(* The statements of AuthorizationMapper.xml.  A statement that fails on a *)
(* key or on the width of role_ids throws and changes nothing.             *)

\* selectByAppUser without its user condition.
SelectByApp(u, a) == {r \in rows : r.app = a}

\* selectByAppUser; the unique key makes the result one row at most.
SelectByAppUser(u, a) == {r \in rows : r.user = u /\ r.app = a}

\* A table without the unique key.
PairNeverTaken(id, u, a) == FALSE

\* The unique key (user_id, app_id) of auth.sql: what a statement that leaves
\* pair (u, a) in the row `id` runs into.
PairTaken(id, u, a) == \E r \in rows : r.user = u /\ r.app = a /\ r.id # id

IdTaken(id) == \E r \in rows : r.id = id

\* A statement that does not look at the width of the column.
FitsAnyway(rs) == TRUE

Fits(rs) == Len(rs) <= ColumnWidth

\* updateByPrimaryKeySelective: a property that is null keeps its column.
Rewritten(old, new) ==
    [new EXCEPT !.roles = IF new.roles = NoRoles THEN old.roles ELSE new.roles]

UpdateByPrimaryKeySelective(new) ==
    IF Fits(new.roles) /\ ~PairTaken(new.id, new.user, new.app)
      THEN {r \in rows : r.id # new.id}
             \cup {Rewritten(r, new) : r \in {x \in rows : x.id = new.id}}
      ELSE rows

DeleteByPrimaryKey(id) == {r \in rows : r.id # id}

-----------------------------------------------------------------------------
(* The pages.                                                              *)

Finish(t) == req' = [req EXCEPT ![t] = [pc |-> "idle"]]

Submit(t, f) ==
    /\ req' = [req EXCEPT ![t] = [pc |-> "select", form |-> f]]
    /\ granted' = granted \cup {<<f.user, f.app, r>> : r \in RolesIn(f.roles)}
    /\ blanked' = IF f.roles = NoRoles
                    THEN blanked \cup {<<f.user, f.app>>} ELSE blanked
    /\ UNCHANGED <<rows, nextId>>

\* POST /authorization/create: the form's hidden id is empty.
SubmitCreate(t, u, a, rs) ==
    /\ req[t].pc = "idle"
    /\ Submit(t, [id |-> NoId, user |-> u, app |-> a, roles |-> rs])

\* GET /authorization/{id}/update or {id}/delete: edit.jsp keeps the id of
\* the row it shows, and lists every user, application and role.
OpenForm(t) ==
    /\ req[t].pc = "idle"
    /\ \E r \in rows :
         req' = [req EXCEPT ![t] = [pc |-> "form", id |-> r.id]]
    /\ UNCHANGED <<rows, nextId, granted, blanked>>

\* POST /authorization/{id}/update
SubmitUpdate(t, u, a, rs) ==
    /\ req[t].pc = "form"
    /\ Submit(t, [id |-> req[t].id, user |-> u, app |-> a, roles |-> rs])

\* POST /authorization/{id}/delete: deleteAuthorization is one statement.
SubmitDelete(t) ==
    /\ req[t].pc = "form"
    /\ rows' = DeleteByPrimaryKey(req[t].id)
    /\ Finish(t)
    /\ UNCHANGED <<nextId, granted, blanked>>

-----------------------------------------------------------------------------
(* AuthorizationServiceImpl.merge, statement by statement.                 *)

\* The merge that forgets the roles of the row.
SubmittedRoles(db, submitted) == submitted

\* The loop over the submitted roles.  dblist holds Longs and roleId is a
\* String, so dblist.contains(roleId) is false for every role, and each turn
\* starts again from the row's role_ids: what is left is the row's roles and
\* the last submitted one.
MergedRoles(db, submitted) ==
    IF submitted = NoRoles THEN db
    ELSE Append(db, submitted[Len(submitted)])

\* A split that takes a null for the empty list.
SplitsAnything(rs) == TRUE

\* getRoleIds().split(",") throws on a null.
Splits(rs) == rs # NoRoles

\* dbAuthorization.equals(authorization): the ids are equal, and a form of
\* the create page has none.
SameRecord(r, f) == r.id = f.id

\* selectByAppUser and the branch merge takes on what it found.
Select(t) ==
    /\ req[t].pc = "select"
    /\ LET f == req[t].form
           found == SelectByAppUser(f.user, f.app)
       IN  \/ /\ found = {}
              /\ req' = [req EXCEPT ![t] = [pc |-> "insert", form |-> f]]
           \/ \E r \in found :
                /\ SameRecord(r, f)
                /\ req' = [req EXCEPT ![t] = [pc |-> "update", form |-> f]]
           \/ \E r \in found :
                /\ ~SameRecord(r, f)
                /\ Splits(r.roles) /\ Splits(f.roles)
                /\ req' = [req EXCEPT ![t] = [pc |-> "overwrite", form |-> f,
                                              db |-> r]]
           \/ \E r \in found : \* the NullPointerException ends the request
                /\ ~SameRecord(r, f)
                /\ ~(Splits(r.roles) /\ Splits(f.roles))
                /\ Finish(t)
    /\ UNCHANGED <<rows, nextId, granted, blanked>>

\* insertSelective.  An update form for a pair without a row brings the id
\* it was opened with, which fails on the primary key unless that row has
\* been deleted meanwhile, and then takes its id again.
InsertSelective(t) ==
    /\ req[t].pc = "insert"
    /\ LET f == req[t].form
           id == IF f.id = NoId THEN nextId ELSE f.id
       IN  /\ id <= MaxId
           /\ IF Fits(f.roles) /\ ~IdTaken(id) /\ ~PairTaken(id, f.user, f.app)
                THEN /\ rows' = rows \cup {[f EXCEPT !.id = id]}
                     /\ nextId' = IF id >= nextId THEN id + 1 ELSE nextId
                ELSE UNCHANGED <<rows, nextId>>
    /\ Finish(t)
    /\ UNCHANGED <<granted, blanked>>

\* The same record: update the row from the form.
UpdateFromForm(t) ==
    /\ req[t].pc = "update"
    /\ rows' = UpdateByPrimaryKeySelective(req[t].form)
    /\ Finish(t)
    /\ UNCHANGED <<nextId, granted, blanked>>

\* Another record of the same pair: write the merged row back, or delete it
\* when no role is left.
OverwriteMerged(t) ==
    /\ req[t].pc = "overwrite"
    /\ LET merged == [req[t].db EXCEPT
                        !.roles = MergedRoles(@, req[t].form.roles)]
       IN  rows' = IF merged.roles = NoRoles
                     THEN DeleteByPrimaryKey(merged.id)
                     ELSE UpdateByPrimaryKeySelective(merged)
    /\ Finish(t)
    /\ UNCHANGED <<nextId, granted, blanked>>

-----------------------------------------------------------------------------
\* MySQL restarts: InnoDB 5.6 recomputes the counter from the rows it finds,
\* so the ids of the last deleted rows are handed out again.
RestartDatabase ==
    /\ \E n \in 1..(MaxId + 1) :
         /\ \A r \in rows : r.id < n
         /\ n > 1 => IdTaken(n - 1)
         /\ nextId' = n
    /\ UNCHANGED <<rows, req, granted, blanked>>

Next ==
    \/ \E t \in Admin :
         \/ \E u \in User, a \in App, rs \in FormRoles \cup {NoRoles} :
              SubmitCreate(t, u, a, rs) \/ SubmitUpdate(t, u, a, rs)
         \/ OpenForm(t)
         \/ SubmitDelete(t)
         \/ Select(t)
         \/ InsertSelective(t)
         \/ UpdateFromForm(t)
         \/ OverwriteMerged(t)
    \/ RestartDatabase

Spec == Init /\ [][Next]_vars

-----------------------------------------------------------------------------
(* Properties.                                                             *)

\* A user has at most one row per application, whatever requests interleave:
\* merge checks and then inserts without a lock, updates rewrite the pair of
\* a row, and selectByAppUser, which maps to a single object, relies on it.
OneRowPerPair ==
    \A r, s \in rows :
        (r.id = s.id \/ (r.user = s.user /\ r.app = s.app)) => r = s

\* Nobody holds a role that no administrator submitted for him and that
\* application, however stale the forms and the rows the requests work with.
\* A form without roles is the exception: updateByPrimaryKeySelective then
\* moves the row, with whatever roles it has by now, to the form's user.
GrantsWereSubmitted ==
    \A r \in rows :
        \/ <<r.user, r.app>> \in blanked
        \/ \A x \in RolesIn(r.roles) : <<r.user, r.app, x>> \in granted

\* While the row is still what the request read, merging a second form into
\* it takes no role away from the user: a role can only be lost when another
\* request changed the row between the select and the update.
MergeKeepsWhatItRead ==
    [][\A t \in Admin :
         (req[t].pc = "overwrite" /\ req'[t] # req[t] /\ req[t].db \in rows)
           => \E r \in rows' :
                /\ r.user = req[t].db.user /\ r.app = req[t].db.app
                /\ RolesIn(req[t].db.roles) \subseteq RolesIn(r.roles)]_vars

\* A row leaves the table only through the delete page: the branch of merge
\* that deletes a row without roles is never reached, since such a row, or
\* such a form, makes split throw before it.
RowsVanishByDeleteOnly ==
    [][\A r \in rows :
         (\A s \in rows' : s.id # r.id)
           => \E t \in Admin : /\ req[t].pc = "form" /\ req[t].id = r.id
                               /\ req'[t].pc = "idle"]_vars

\* What the comment in merge says of a second form for a pair, "otherwise
\* merge": when the row is as it was read and has the room, every submitted
\* role is in it afterwards.  The code keeps the last one only.
MergeAddsEveryRole ==
    [][\A t \in Admin :
         (/\ req[t].pc = "overwrite" /\ req'[t] # req[t]
          /\ req[t].db \in rows
          /\ Len(req[t].db.roles) + Len(req[t].form.roles) <= ColumnWidth)
           => \E r \in rows' :
                /\ r.id = req[t].db.id
                /\ RolesIn(req[t].form.roles) \subseteq RolesIn(r.roles)]_vars
=============================================================================
