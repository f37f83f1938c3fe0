-------------------------- MODULE PermissionLookup --------------------------
(***************************************************************************)
(* How Shiro learns what a user may do: UserRealm.doGetAuthorizationInfo   *)
(* asks AuthorizationServiceImpl.findRoles and findPermissions, which walk *)
(* from the username to the user's id, the application's id, the row of    *)
(* ss_user_app_roles, each role and each resource, one autocommitted query *)
(* after the other (the find methods are read-only SUPPORTS).  Meanwhile   *)
(* administrators change the five tables, one statement at a time.         *)
(*                                                                         *)
(* A lookup writes nothing, so lookups do not disturb each other, and one  *)
(* lookup among arbitrary changes stands for all of them.                  *)
(***************************************************************************)
EXTENDS Naturals, Sequences

CONSTANTS
    Username, UserId, AppKey, AppId, Role, Resource,
    Permission,   \* non-empty permission strings of resources
    NoPermission, \* an empty or null permission column
    ServerKey,    \* Constants.SERVER_APP_KEY
    RoleLists,    \* the non-empty role_ids lists of ss_user_app_roles
    Databases,    \* the contents of the tables the system may start with
    MaxEdits      \* bound on the changes administrators make

VARIABLES
    users, apps, grants, roles, resources, \* the tables, as sets of rows
    lookup, \* the lookup that runs
    ever,   \* history: every link in the tables since it started
    always, \* history: the links in the tables ever since it started
    edits   \* changes made

tables == <<users, apps, grants, roles, resources>>
vars == <<users, apps, grants, roles, resources, lookup, ever, always, edits>>

-----------------------------------------------------------------------------
NoRoles == <<>>
RolesIn(rs) == {rs[k] : k \in 1..Len(rs)}

UserRow  == [id : UserId, name : Username]
AppRow   == [id : AppId, key : AppKey]
GrantRow == [user : UserId, app : AppId, roles : RoleLists \cup {NoRoles}]
\* A role without resources has "" in resource_ids: the hidden field of the
\* role page is submitted empty.
RoleRow  == [id : Role, resources : SUBSET Resource]
ResourceRow == [id : Resource, permission : Permission \cup {NoPermission}]

\* The unique keys of auth.sql.
UniqueNames(us) == \A x, y \in us : (x.id = y.id \/ x.name = y.name) => x = y
UniqueKeys(as) == \A x, y \in as : (x.id = y.id \/ x.key = y.key) => x = y
UniquePairs(gs) ==
    \A x, y \in gs : (x.user = y.user /\ x.app = y.app) => x = y
UniqueIds(table) == \A x, y \in table : x.id = y.id => x = y

Database == [users : SUBSET UserRow, apps : SUBSET AppRow,
             grants : SUBSET GrantRow, roles : SUBSET RoleRow,
             resources : SUBSET ResourceRow]

ASSUME LookupAssumption ==
    /\ NoPermission \notin Permission
    /\ \A rs \in RoleLists : rs \in Seq(Role) /\ rs # NoRoles
    /\ MaxEdits \in Nat

ASSUME DatabaseAssumption ==
    \A d \in Databases :
      /\ d \in Database
      /\ UniqueNames(d.users) /\ UniqueKeys(d.apps) /\ UniquePairs(d.grants)
      /\ UniqueIds(d.roles) /\ UniqueIds(d.resources)

Kind == {"roles", "permissions"}
Idle == [pc : {"idle"}]
Asking == [pc : {"user"}, kind : Kind, name : Username]
FindingApp == [pc : {"app"}, kind : Kind, name : Username, user : UserId]
FindingGrant == [pc : {"grant"}, kind : Kind, name : Username, user : UserId,
                 app : AppId]
Walking == [pc : {"roles"}, kind : Kind, name : Username, user : UserId,
            app : AppId, todo : Seq(Role), result : SUBSET Role,
            found : SUBSET Resource]
Collecting == [pc : {"resources"}, kind : {"permissions"}, name : Username,
               user : UserId, app : AppId, todo : SUBSET Resource,
               result : SUBSET Permission]
Answered == [pc : {"done"}, kind : {"roles"}, name : Username,
             result : SUBSET Role]
              \cup [pc : {"done"}, kind : {"permissions"}, name : Username,
                    result : SUBSET Permission]
Failed == [pc : {"failed"}, kind : Kind, name : Username]

\* The links the tables hold, for one state of them.
Links(us, as, gs, rs, ss) ==
    [user |-> {<<x.name, x.id>> : x \in us},
     app  |-> {<<x.key, x.id>> : x \in as},
     grant |-> UNION {{<<g.user, g.app, r>> : r \in RolesIn(g.roles)} : g \in gs},
     role |-> {x.id : x \in rs},
     resource |-> UNION {{<<x.id, s>> : s \in x.resources} : x \in rs},
     permission |-> {<<s.id, s.permission>> :
                       s \in {x \in ss : x.permission # NoPermission}},
     \* what makes a lookup throw: a NULL role_ids, an empty resource_ids
     blankGrant |-> {<<g.user, g.app>> : g \in {x \in gs : x.roles = NoRoles}},
     blankRole |-> {x.id : x \in {y \in rs : y.resources = {}}}]

LinkKinds == {"user", "app", "grant", "role", "resource", "permission",
              "blankGrant", "blankRole"}

CurrentLinks == Links(users, apps, grants, roles, resources)

\* The parts of the state have their types.
TypeOK ==
    /\ users \subseteq UserRow /\ apps \subseteq AppRow
    /\ grants \subseteq GrantRow /\ roles \subseteq RoleRow
    /\ resources \subseteq ResourceRow
    /\ lookup \in Idle \cup Asking \cup FindingApp \cup FindingGrant
                    \cup Walking \cup Collecting \cup Answered \cup Failed
    /\ \A k \in LinkKinds : always[k] \subseteq ever[k]
    /\ edits \in 0..MaxEdits

Init ==
    /\ \E d \in Databases :
         /\ users = d.users /\ apps = d.apps /\ grants = d.grants
         /\ roles = d.roles /\ resources = d.resources
    /\ lookup = [pc |-> "idle"]
    /\ ever = CurrentLinks /\ always = CurrentLinks
    /\ edits = 0

-----------------------------------------------------------------------------
(* The administrators' statements.  The id of a new row is any that is not *)
(* in the table: AUTO_INCREMENT hands out fresh ones, and after a restart  *)
(* of MySQL those of deleted rows again.                                   *)

Edit ==
    /\ edits < MaxEdits
    /\ edits' = edits + 1
    /\ UNCHANGED lookup
    /\ ever' = [k \in LinkKinds |-> ever[k] \cup CurrentLinks'[k]]
    /\ always' = [k \in LinkKinds |-> always[k] \cap CurrentLinks'[k]]

Put(table, row) == {x \in table : x.id # row.id} \cup {row}
Remove(table, id) == {x \in table : x.id # id}

\* createUser, and updateUser, whose form can change the username (unique).
SaveUser ==
    /\ \E row \in UserRow \ users :
         /\ \A x \in users : x.name = row.name => x.id = row.id
         /\ users' = Put(users, row)
    /\ UNCHANGED <<apps, grants, roles, resources>> /\ Edit

\* deleteUser leaves the user's rows in ss_user_app_roles.
DeleteUser ==
    /\ \E x \in users : users' = Remove(users, x.id)
    /\ UNCHANGED <<apps, grants, roles, resources>> /\ Edit

\* createApp and updateApp (app_key is unique), deleteApp.
SaveApp ==
    /\ \E row \in AppRow \ apps :
         /\ \A x \in apps : x.key = row.key => x.id = row.id
         /\ apps' = Put(apps, row)
    /\ UNCHANGED <<users, grants, roles, resources>> /\ Edit

DeleteApp ==
    /\ \E x \in apps : apps' = Remove(apps, x.id)
    /\ UNCHANGED <<users, grants, roles, resources>> /\ Edit

\* What a statement of module Authorization leaves for a user and an
\* application: another list of roles, or no row.
SaveGrant ==
    /\ \E row \in GrantRow \ grants :
         grants' = {x \in grants : x.user # row.user \/ x.app # row.app}
                     \cup {row}
    /\ UNCHANGED <<users, apps, roles, resources>> /\ Edit

DeleteGrant ==
    /\ \E x \in grants : grants' = grants \ {x}
    /\ UNCHANGED <<users, apps, roles, resources>> /\ Edit

\* createRole and updateRole, deleteRole: ids stay in role_ids lists.
SaveRole ==
    /\ \E row \in RoleRow \ roles : roles' = Put(roles, row)
    /\ UNCHANGED <<users, apps, grants, resources>> /\ Edit

DeleteRole ==
    /\ \E x \in roles : roles' = Remove(roles, x.id)
    /\ UNCHANGED <<users, apps, grants, resources>> /\ Edit

\* createResource and updateResource, deleteResource: ids stay in
\* resource_ids lists.
SaveResource ==
    /\ \E row \in ResourceRow \ resources : resources' = Put(resources, row)
    /\ UNCHANGED <<users, apps, grants, roles>> /\ Edit

DeleteResource ==
    /\ \E x \in resources : resources' = Remove(resources, x.id)
    /\ UNCHANGED <<users, apps, grants, roles>> /\ Edit

-----------------------------------------------------------------------------
(* The lookup, query by query.                                             *)

Read(next) ==
    /\ lookup' = next
    /\ UNCHANGED tables /\ UNCHANGED <<ever, always, edits>>

Answer(result) ==
    Read([pc |-> "done", kind |-> lookup.kind, name |-> lookup.name,
          result |-> result])

\* The exception of split or of Long.valueOf ends the request.
Throw == Read([pc |-> "failed", kind |-> lookup.kind, name |-> lookup.name])

\* A request is authorised: a lookup starts.
Start ==
    /\ lookup.pc \in {"idle", "done", "failed"}
    /\ \E kind \in Kind, n \in Username :
         lookup' = [pc |-> "user", kind |-> kind, name |-> n]
    /\ ever' = CurrentLinks /\ always' = CurrentLinks
    /\ UNCHANGED tables /\ UNCHANGED edits

\* userService.findByUsername
FindUser ==
    /\ lookup.pc = "user"
    /\ \/ \E x \in users :
            /\ x.name = lookup.name
            /\ Read([pc |-> "app", kind |-> lookup.kind, name |-> lookup.name,
                     user |-> x.id])
       \/ /\ \A x \in users : x.name # lookup.name
          /\ Answer({})

\* appService.findAppIdByAppKey
FindApp ==
    /\ lookup.pc = "app"
    /\ \/ \E x \in apps :
            /\ x.key = ServerKey
            /\ Read([pc |-> "grant", kind |-> lookup.kind, name |-> lookup.name,
                     user |-> lookup.user, app |-> x.id])
       \/ /\ \A x \in apps : x.key # ServerKey
          /\ Answer({})

\* (wrong) selectByAppUser without its user condition.
GrantsInApp(u, a) == {g \in grants : g.app = a}

\* authorizationMapper.selectByAppUser
GrantsOf(u, a) == {g \in grants : g.user = u /\ g.app = a}

\* selectByAppUser, and split on its role_ids.
FindGrant ==
    /\ lookup.pc = "grant"
    /\ LET found == GrantsOf(lookup.user, lookup.app)
       IN  \/ \E g \in found :
                /\ g.roles # NoRoles
                /\ Read([pc |-> "roles", kind |-> lookup.kind,
                         name |-> lookup.name, user |-> lookup.user,
                         app |-> lookup.app, todo |-> g.roles,
                         result |-> {}, found |-> {}])
           \/ /\ \E g \in found : g.roles = NoRoles
              /\ Throw
           \/ found = {} /\ Answer({})

\* (wrong) "break" where the loop over the roles has "continue", and no null check.
BreakAtRole(rest) == Read([rest EXCEPT !.todo = NoRoles])
ThrowAtRole(rest) == Throw

\* A role that is gone is skipped.
SkipRole(rest) == Read(rest)

\* One turn of the loop of RoleServiceImpl.findRoles or findPermissions, which
\* collects resource ids: Long.valueOf("") throws on a role without any.
FindRole ==
    /\ lookup.pc = "roles"
    /\ lookup.todo # NoRoles
    /\ LET r == Head(lookup.todo)
           rest == [lookup EXCEPT !.todo = Tail(@)]
       IN  \/ /\ \A x \in roles : x.id # r
              /\ SkipRole(rest)
           \/ \E x \in roles :
                /\ x.id = r
                /\ \/ /\ lookup.kind = "roles"
                      /\ Read([rest EXCEPT !.result = @ \cup {r}])
                   \/ /\ lookup.kind = "permissions" /\ x.resources # {}
                      /\ Read([rest EXCEPT !.found = @ \cup x.resources])
                   \/ /\ lookup.kind = "permissions" /\ x.resources = {}
                      /\ Throw

\* The loop is over: findRoles answers, findPermissions goes on to the
\* resources it has collected.
FinishRoles ==
    /\ lookup.pc = "roles"
    /\ lookup.todo = NoRoles
    /\ \/ lookup.kind = "roles" /\ Answer(lookup.result)
       \/ /\ lookup.kind = "permissions"
          /\ Read([pc |-> "resources", kind |-> "permissions",
                   name |-> lookup.name, user |-> lookup.user,
                   app |-> lookup.app, todo |-> lookup.found, result |-> {}])

\* (wrong) A loop that tries again what it does not find.
RetryResource(rest) == Read(lookup)

\* The resource is not null and its permission not empty.
HasPermission(x) == x.permission # NoPermission

\* A resource that is gone or has no permission is skipped.
SkipResource(rest) == Read(rest)

\* One turn of ResourceServiceImpl.findPermissions, in HashSet order.
FindResource ==
    /\ lookup.pc = "resources"
    /\ \E s \in lookup.todo :
         LET rest == [lookup EXCEPT !.todo = @ \ {s}]
         IN  \/ \E x \in resources :
                  /\ x.id = s /\ HasPermission(x)
                  /\ Read([rest EXCEPT !.result = @ \cup {x.permission}])
             \/ /\ \A x \in resources : x.id = s => ~HasPermission(x)
                /\ SkipResource(rest)

FinishResources ==
    /\ lookup.pc = "resources"
    /\ lookup.todo = {}
    /\ Answer(lookup.result)

-----------------------------------------------------------------------------
Step == FindUser \/ FindApp \/ FindGrant \/ FindRole \/ FinishRoles
          \/ FindResource \/ FinishResources

Change == SaveUser \/ DeleteUser \/ SaveApp \/ DeleteApp \/ SaveGrant
            \/ DeleteGrant \/ SaveRole \/ DeleteRole \/ SaveResource
            \/ DeleteResource

Next == Start \/ Step \/ Change

\* The servlet thread runs the queries of the lookup it has started, and a
\* query returns; nothing obliges anybody to start one or to change a table.
Fairness == WF_vars(Step)

Spec == Init /\ [][Next]_vars /\ Fairness

-----------------------------------------------------------------------------
(* Properties.                                                             *)

\* The chains of links from the lookup's username that `links` holds.
GrantedIn(links, r) ==
    \E u \in UserId, a \in AppId :
        /\ <<lookup.name, u>> \in links.user /\ <<ServerKey, a>> \in links.app
        /\ <<u, a, r>> \in links.grant
RoleIn(links, r) == GrantedIn(links, r) /\ r \in links.role
PermissionIn(links, p) ==
    \E r \in Role, s \in Resource :
        /\ GrantedIn(links, r) /\ <<r, s>> \in links.resource
        /\ <<s, p>> \in links.permission

\* Whatever changes between its queries, a lookup answers with roles and
\* permissions alone whose every link -- name, user, application, grant,
\* role, resource -- was in the tables at some moment while it ran: deleted
\* users, roles and resources, whose ids stay behind in the lists that name
\* them, give nothing.  The moments may differ from link to link.
AnswersWereHeld ==
    lookup.pc = "done" =>
        \A x \in lookup.result : IF lookup.kind = "roles"
                                  THEN RoleIn(ever, x) ELSE PermissionIn(ever, x)

\* The tables and the lookup have their types, and what is answered was held.
AnswersAreSound == TypeOK /\ AnswersWereHeld

\* And it answers with every role and permission that a chain of links held
\* from its start to its end, however many dangling ids are around it.
NothingHeldIsMissed ==
    lookup.pc = "done" =>
        IF lookup.kind = "roles"
          THEN \A r \in Role : RoleIn(always, r) => r \in lookup.result
          ELSE \A p \in Permission :
                 PermissionIn(always, p) => p \in lookup.result

\* An exception means that the user's row had no roles, or that he had a role
\* without resources, at some moment: ids of deleted rows do not throw.
FailuresAreExplained ==
    lookup.pc = "failed" =>
        \/ \E u \in UserId, a \in AppId :
              /\ <<lookup.name, u>> \in ever.user /\ <<ServerKey, a>> \in ever.app
              /\ <<u, a>> \in ever.blankGrant
        \/ lookup.kind = "permissions"
             /\ \E r \in Role : GrantedIn(ever, r) /\ r \in ever.blankRole

\* A lookup ends, however the tables change under it.
LookupEnds == lookup.pc = "user" ~> lookup.pc \in {"done", "failed"}
=============================================================================
