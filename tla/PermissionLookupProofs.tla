----------------------- MODULE PermissionLookupProofs -----------------------
(***************************************************************************)
(* What TLAPS proves of PermissionLookup, for any tables to start with and *)
(* any number of changes under the lookup.                                 *)
(***************************************************************************)
EXTENDS PermissionLookup, SequenceTheorems, TLAPS

-----------------------------------------------------------------------------
Lookups == Idle \cup Asking \cup FindingApp \cup FindingGrant \cup Walking
             \cup Collecting \cup Answered \cup Failed

TablesOK ==
    /\ users \subseteq UserRow /\ apps \subseteq AppRow
    /\ grants \subseteq GrantRow /\ roles \subseteq RoleRow
    /\ resources \subseteq ResourceRow

\* The unique keys hold throughout.
RowsAreUnique ==
    /\ UniqueNames(users) /\ UniqueKeys(apps) /\ UniquePairs(grants)
    /\ UniqueIds(roles) /\ UniqueIds(resources)

\* The links of now are between those of all along and those of ever.
LinksAreBetween ==
    \A k \in LinkKinds : always[k] \subseteq CurrentLinks[k]
                           /\ CurrentLinks[k] \subseteq ever[k]

GivesResource(links, u, a, s) ==
    \E r \in Role : <<u, a, r>> \in links.grant /\ <<r, s>> \in links.resource
GivesPermission(links, u, a, p) ==
    \E s \in Resource : GivesResource(links, u, a, s) /\ <<s, p>> \in links.permission

Located == {"grant", "roles", "resources"}

\* Whatever a lookup l has found so far was there.
FoundWasThere(l) ==
    /\ l.pc \in {"app"} \cup Located => <<l.name, l.user>> \in ever.user
    /\ l.pc \in Located => <<ServerKey, l.app>> \in ever.app
    /\ l.pc = "roles" =>
        /\ \A r \in RolesIn(l.todo) : <<l.user, l.app, r>> \in ever.grant
        /\ \A r \in l.result : <<l.user, l.app, r>> \in ever.grant /\ r \in ever.role
        /\ \A s \in l.found : GivesResource(ever, l.user, l.app, s)
    /\ l.pc = "resources" =>
        /\ \A s \in l.todo : GivesResource(ever, l.user, l.app, s)
        /\ \A p \in l.result : GivesPermission(ever, l.user, l.app, p)

\* Whatever was there all along has been found, or is still to be looked at.
RestIsToDo(l) ==
    /\ l.pc \in {"app"} \cup Located =>
        \A u \in UserId : <<l.name, u>> \in always.user => u = l.user
    /\ l.pc \in Located =>
        \A a \in AppId : <<ServerKey, a>> \in always.app => a = l.app
    /\ l.pc = "roles" =>
        \A r \in Role : <<l.user, l.app, r>> \in always.grant =>
            \/ r \in RolesIn(l.todo)
            \/ /\ l.kind = "roles" => (r \in always.role => r \in l.result)
               /\ l.kind = "permissions" =>
                    \A s \in Resource : <<r, s>> \in always.resource => s \in l.found
    /\ l.pc = "resources" =>
        \A s \in Resource, p \in Permission :
            GivesResource(always, l.user, l.app, s) /\ <<s, p>> \in always.permission =>
                s \in l.todo \/ p \in l.result

LookupInv ==
    /\ TypeOK /\ RowsAreUnique /\ LinksAreBetween
    /\ FoundWasThere(lookup) /\ RestIsToDo(lookup)
    /\ AnswersWereHeld /\ NothingHeldIsMissed /\ FailuresAreExplained

-----------------------------------------------------------------------------
\* The fields of a lookup, at each query.
LEMMA LookupFields ==
    ASSUME NEW l \in Lookups
    PROVE  /\ l.pc \in {"idle", "user", "app", "grant", "roles", "resources", "done", "failed"}
           /\ l.pc # "idle" => l.kind \in Kind /\ l.name \in Username
           /\ l.pc \in {"app"} \cup Located => l.user \in UserId
           /\ l.pc \in Located => l.app \in AppId
           /\ l.pc = "roles" => /\ l.todo \in Seq(Role) /\ l.result \subseteq Role
                                /\ l.found \subseteq Resource
           /\ l.pc = "resources" => /\ l.todo \subseteq Resource /\ l.kind = "permissions"
                                    /\ l.result \subseteq Permission
BY DEF Lookups, Idle, Asking, FindingApp, FindingGrant, Walking, Collecting, Answered,
       Failed, Kind, Located

\* What is left of a lookup at a role, or at a resource, for the next turn.
LEMMA NextTurn ==
    ASSUME NEW l \in Lookups, l.pc = "roles", NEW todo
    PROVE  [l EXCEPT !.todo = todo] =
                [pc |-> "roles", kind |-> l.kind, name |-> l.name, user |-> l.user,
                 app |-> l.app, todo |-> todo, result |-> l.result, found |-> l.found]
<1>1. l \in Walking
  BY DEF Lookups, Idle, Asking, FindingApp, FindingGrant, Collecting, Answered, Failed
<1> QED BY <1>1 DEF Walking

\* A turn of the loop over the roles that finds the role named, as a record.
LEMMA NextFindsRole ==
    ASSUME NEW l \in Lookups, l.pc = "roles", NEW todo, NEW more
    PROVE  LET rest == [l EXCEPT !.todo = todo]
           IN  [rest EXCEPT !.result = rest.result \cup more] =
                    [pc |-> "roles", kind |-> l.kind, name |-> l.name, user |-> l.user,
                     app |-> l.app, todo |-> todo, result |-> l.result \cup more, found |-> l.found]
<1> DEFINE rest == [l EXCEPT !.todo = todo]
           turn == [pc |-> "roles", kind |-> l.kind, name |-> l.name, user |-> l.user,
                    app |-> l.app, todo |-> todo, result |-> l.result, found |-> l.found]
<1>1. rest = turn
  BY NextTurn
<1>2. [turn EXCEPT !.result = turn.result \cup more] =
        [pc |-> "roles", kind |-> l.kind, name |-> l.name, user |-> l.user,
         app |-> l.app, todo |-> todo, result |-> l.result \cup more, found |-> l.found]
  OBVIOUS
<1> HIDE DEF turn, rest
<1>3. [rest EXCEPT !.result = rest.result \cup more] = [turn EXCEPT !.result = turn.result \cup more]
  BY <1>1
<1> QED BY <1>2, <1>3 DEF rest

\* A turn of the loop over the roles that finds resources, as a record.
LEMMA NextFindsResources ==
    ASSUME NEW l \in Lookups, l.pc = "roles", NEW todo, NEW more
    PROVE  LET rest == [l EXCEPT !.todo = todo]
           IN  [rest EXCEPT !.found = rest.found \cup more] =
                    [pc |-> "roles", kind |-> l.kind, name |-> l.name, user |-> l.user,
                     app |-> l.app, todo |-> todo, result |-> l.result, found |-> l.found \cup more]
<1> DEFINE rest == [l EXCEPT !.todo = todo]
           turn == [pc |-> "roles", kind |-> l.kind, name |-> l.name, user |-> l.user,
                    app |-> l.app, todo |-> todo, result |-> l.result, found |-> l.found]
<1>1. rest = turn
  BY NextTurn
<1>2. [turn EXCEPT !.found = turn.found \cup more] =
        [pc |-> "roles", kind |-> l.kind, name |-> l.name, user |-> l.user,
         app |-> l.app, todo |-> todo, result |-> l.result, found |-> l.found \cup more]
  OBVIOUS
<1> HIDE DEF turn, rest
<1>3. [rest EXCEPT !.found = rest.found \cup more] = [turn EXCEPT !.found = turn.found \cup more]
  BY <1>1
<1> QED BY <1>2, <1>3 DEF rest

\* A turn of the loop over the resources that finds nothing, as a record.
LEMMA NextResource ==
    ASSUME NEW l \in Lookups, l.pc = "resources", NEW todo
    PROVE  [l EXCEPT !.todo = todo] =
                [pc |-> "resources", kind |-> l.kind, name |-> l.name, user |-> l.user,
                 app |-> l.app, todo |-> todo, result |-> l.result]
<1>1. l \in Collecting
  BY DEF Lookups, Idle, Asking, FindingApp, FindingGrant, Walking, Answered, Failed
<1> QED BY <1>1 DEF Collecting

\* A turn of the loop over the resources that finds a permission, as a record.
LEMMA NextFindsPermission ==
    ASSUME NEW l \in Lookups, l.pc = "resources", NEW todo, NEW more
    PROVE  LET rest == [l EXCEPT !.todo = todo]
           IN  [rest EXCEPT !.result = rest.result \cup more] =
                    [pc |-> "resources", kind |-> l.kind, name |-> l.name, user |-> l.user,
                     app |-> l.app, todo |-> todo, result |-> l.result \cup more]
<1> DEFINE rest == [l EXCEPT !.todo = todo]
           turn == [pc |-> "resources", kind |-> l.kind, name |-> l.name, user |-> l.user,
                    app |-> l.app, todo |-> todo, result |-> l.result]
<1>1. rest = turn
  BY NextResource
<1>2. [turn EXCEPT !.result = turn.result \cup more] =
        [pc |-> "resources", kind |-> l.kind, name |-> l.name, user |-> l.user,
         app |-> l.app, todo |-> todo, result |-> l.result \cup more]
  OBVIOUS
<1> HIDE DEF turn, rest
<1>3. [rest EXCEPT !.result = rest.result \cup more]
        = [turn EXCEPT !.result = turn.result \cup more]
  BY <1>1
<1> QED BY <1>2, <1>3 DEF rest

\* Splitting off the first role of a list.
LEMMA RolesOfTail ==
    ASSUME NEW rs \in Seq(Role), rs # NoRoles
    PROVE  /\ Head(rs) \in Role /\ Tail(rs) \in Seq(Role)
           /\ RolesIn(rs) = {Head(rs)} \cup RolesIn(Tail(rs))
<1>1. /\ Len(rs) \in Nat \ {0} /\ Head(rs) = rs[1] /\ Head(rs) \in Role
      /\ Tail(rs) \in Seq(Role) /\ Len(Tail(rs)) = Len(rs) - 1
      /\ \A i \in 1..Len(Tail(rs)) : Tail(rs)[i] = rs[i + 1]
  BY HeadTailProperties, EmptySeq DEF NoRoles
<1>2. \A i \in 1..Len(rs) : i = 1 \/ i - 1 \in 1..Len(Tail(rs))
  BY <1>1
<1>3. \A i \in 1..Len(rs) : rs[i] \in {Head(rs)} \cup RolesIn(Tail(rs))
  <2>1. TAKE i \in 1..Len(rs)
  <2>2. CASE i = 1
    BY <1>1, <2>2
  <2>3. CASE i - 1 \in 1..Len(Tail(rs))
    <3>1. Tail(rs)[i - 1] = rs[i]
      BY <1>1, <2>3
    <3> QED BY <2>3, <3>1 DEF RolesIn
  <2> QED BY <1>2, <2>2, <2>3
<1>4. \A i \in 1..Len(Tail(rs)) : i + 1 \in 1..Len(rs) /\ Tail(rs)[i] = rs[i + 1]
  BY <1>1
<1>5. 1 \in 1..Len(rs)
  BY <1>1
<1> QED BY <1>1, <1>3, <1>4, <1>5 DEF RolesIn

\* The links of now, each with its rows.
LEMMA CurrentLinksFacts ==
    /\ CurrentLinks.user = {<<x.name, x.id>> : x \in users}
    /\ CurrentLinks.app = {<<x.key, x.id>> : x \in apps}
    /\ CurrentLinks.grant =
          UNION {{<<g.user, g.app, r>> : r \in RolesIn(g.roles)} : g \in grants}
    /\ CurrentLinks.role = {x.id : x \in roles}
    /\ CurrentLinks.resource = UNION {{<<x.id, s>> : s \in x.resources} : x \in roles}
    /\ CurrentLinks.permission = {<<s.id, s.permission>> :
                                    s \in {x \in resources : x.permission # NoPermission}}
    /\ CurrentLinks.blankGrant =
          {<<g.user, g.app>> : g \in {x \in grants : x.roles = NoRoles}}
    /\ CurrentLinks.blankRole = {x.id : x \in {y \in roles : y.resources = {}}}
BY DEF CurrentLinks, Links

\* What is linked now was linked at some time.
LEMMA NowWasOnce ==
    ASSUME LinksAreBetween
    PROVE  /\ \A x \in users : <<x.name, x.id>> \in ever.user
           /\ \A x \in apps : <<x.key, x.id>> \in ever.app
           /\ \A g \in grants : \A r \in RolesIn(g.roles) : <<g.user, g.app, r>> \in ever.grant
           /\ \A x \in roles : /\ x.id \in ever.role
                               /\ \A s \in x.resources : <<x.id, s>> \in ever.resource
                               /\ x.resources = {} => x.id \in ever.blankRole
           /\ \A x \in resources :
                x.permission # NoPermission => <<x.id, x.permission>> \in ever.permission
           /\ \A g \in grants : g.roles = NoRoles => <<g.user, g.app>> \in ever.blankGrant
<1>1. /\ CurrentLinks.user \subseteq ever.user /\ CurrentLinks.app \subseteq ever.app
      /\ CurrentLinks.grant \subseteq ever.grant /\ CurrentLinks.role \subseteq ever.role
      /\ CurrentLinks.resource \subseteq ever.resource
      /\ CurrentLinks.permission \subseteq ever.permission
      /\ CurrentLinks.blankGrant \subseteq ever.blankGrant
      /\ CurrentLinks.blankRole \subseteq ever.blankRole
  BY DEF LinksAreBetween, LinkKinds
<1> QED BY <1>1, CurrentLinksFacts

\* What was linked all along is linked now.
LEMMA AlwaysIsNow ==
    ASSUME LinksAreBetween
    PROVE  /\ \A n, u : <<n, u>> \in always.user => \E x \in users : x.name = n /\ x.id = u
           /\ \A k, a : <<k, a>> \in always.app => \E x \in apps : x.key = k /\ x.id = a
           /\ \A u, a, r : <<u, a, r>> \in always.grant =>
                \E g \in grants : g.user = u /\ g.app = a /\ r \in RolesIn(g.roles)
           /\ \A r : r \in always.role => \E x \in roles : x.id = r
           /\ \A r, s : <<r, s>> \in always.resource =>
                \E x \in roles : x.id = r /\ s \in x.resources
           /\ \A s, p : <<s, p>> \in always.permission =>
                \E x \in resources : x.id = s /\ x.permission = p /\ p # NoPermission
<1>1. /\ always.user \subseteq CurrentLinks.user /\ always.app \subseteq CurrentLinks.app
      /\ always.grant \subseteq CurrentLinks.grant /\ always.role \subseteq CurrentLinks.role
      /\ always.resource \subseteq CurrentLinks.resource
      /\ always.permission \subseteq CurrentLinks.permission
  BY DEF LinksAreBetween, LinkKinds
<1> QED BY <1>1, CurrentLinksFacts

-----------------------------------------------------------------------------
(* The administrators' changes: links come and go under the lookup.        *)

\* What is found stays found in links that grow, and what is to do suffices
\* for links that shrink.
LEMMA EditKeepsInv ==
    ASSUME LookupInv, Edit, TablesOK', RowsAreUnique'
    PROVE  LookupInv'
<1>1. /\ lookup' = lookup /\ lookup \in Lookups
      /\ ever' = [k \in LinkKinds |-> ever[k] \cup CurrentLinks'[k]]
      /\ always' = [k \in LinkKinds |-> always[k] \cap CurrentLinks'[k]]
  BY DEF Edit, LookupInv, TypeOK, Lookups
<1>2. \A k \in LinkKinds : /\ ever[k] \subseteq ever'[k] /\ CurrentLinks'[k] \subseteq ever'[k]
                           /\ always'[k] \subseteq always[k]
                           /\ always'[k] \subseteq CurrentLinks'[k]
  BY <1>1
<1>3. /\ ever.user \subseteq ever'.user /\ ever.app \subseteq ever'.app
      /\ ever.grant \subseteq ever'.grant /\ ever.role \subseteq ever'.role
      /\ ever.resource \subseteq ever'.resource /\ ever.permission \subseteq ever'.permission
      /\ ever.blankGrant \subseteq ever'.blankGrant /\ ever.blankRole \subseteq ever'.blankRole
      /\ always'.user \subseteq always.user /\ always'.app \subseteq always.app
      /\ always'.grant \subseteq always.grant /\ always'.role \subseteq always.role
      /\ always'.resource \subseteq always.resource
      /\ always'.permission \subseteq always.permission
  BY <1>2 DEF LinkKinds
<1>4. LinksAreBetween'
  BY <1>2 DEF LinksAreBetween
<1>5. TypeOK'
  <2>1. \A k \in LinkKinds : always'[k] \subseteq ever'[k]
    BY <1>2
  <2>2. edits' \in 0..MaxEdits
    BY LookupAssumption DEF Edit, LookupInv, TypeOK
  <2> QED BY <1>1, <2>1, <2>2 DEF TablesOK, TypeOK, LookupInv
<1>6. FoundWasThere(lookup)'
  <2>1. \A u, a, s : GivesResource(ever, u, a, s) => GivesResource(ever', u, a, s)
    BY <1>3 DEF GivesResource
  <2>2. \A u, a, p : GivesPermission(ever, u, a, p) => GivesPermission(ever', u, a, p)
    BY <1>3, <2>1 DEF GivesPermission
  <2> QED BY <1>1, <1>3, <2>1, <2>2 DEF LookupInv, FoundWasThere
<1>7. RestIsToDo(lookup)'
  <2>1. \A u, a, s : GivesResource(always', u, a, s) => GivesResource(always, u, a, s)
    BY <1>3 DEF GivesResource
  <2> QED BY <1>1, <1>3, <2>1 DEF LookupInv, RestIsToDo
<1>8. AnswersWereHeld'
  <2>1. \A r : GrantedIn(ever, r) => GrantedIn(ever, r)'
    BY <1>1, <1>3 DEF GrantedIn
  <2>2. \A r : RoleIn(ever, r) => RoleIn(ever, r)'
    BY <1>3, <2>1 DEF RoleIn
  <2>3. \A p : PermissionIn(ever, p) => PermissionIn(ever, p)'
    BY <1>3, <2>1 DEF PermissionIn
  <2> QED BY <1>1, <2>2, <2>3 DEF LookupInv, AnswersWereHeld
<1>9. NothingHeldIsMissed'
  <2>1. \A r : GrantedIn(always, r)' => GrantedIn(always, r)
    BY <1>1, <1>3 DEF GrantedIn
  <2>2. \A r : RoleIn(always, r)' => RoleIn(always, r)
    BY <1>3, <2>1 DEF RoleIn
  <2>3. \A p : PermissionIn(always, p)' => PermissionIn(always, p)
    BY <1>3, <2>1 DEF PermissionIn
  <2> QED BY <1>1, <2>2, <2>3 DEF LookupInv, NothingHeldIsMissed
<1>10. FailuresAreExplained'
  <2>1. \A r : GrantedIn(ever, r) => GrantedIn(ever, r)'
    BY <1>1, <1>3 DEF GrantedIn
  <2> QED BY <1>1, <1>3, <2>1 DEF LookupInv, FailuresAreExplained
<1> QED BY <1>4, <1>5, <1>6, <1>7, <1>8, <1>9, <1>10 DEF LookupInv, TablesOK, RowsAreUnique

\* Putting and removing rows keeps ids unique.
LEMMA PutKeepsIds ==
    ASSUME NEW table, NEW row, UniqueIds(table)
    PROVE  UniqueIds(Put(table, row))
BY DEF UniqueIds, Put

\* Every change leaves tables of rows with unique keys.
LEMMA ChangeKeepsInv ==
    ASSUME LookupInv, Change
    PROVE  LookupInv'
<1>1. TablesOK /\ RowsAreUnique
  BY DEF LookupInv, TypeOK, TablesOK
<1>2. CASE SaveUser
  <2>1. PICK row \in UserRow :
            /\ \A x \in users : x.name = row.name => x.id = row.id
            /\ users' = Put(users, row)
    BY <1>2 DEF SaveUser
  <2>2. UniqueNames(users')
    BY <1>1, <2>1 DEF RowsAreUnique, UniqueNames, Put
  <2> QED BY <1>1, <1>2, <2>1, <2>2, EditKeepsInv DEF SaveUser, TablesOK, RowsAreUnique, Put
<1>3. CASE DeleteUser
  <2>1. users' \subseteq users
    BY <1>3 DEF DeleteUser, Remove
  <2>2. UniqueNames(users')
    BY <1>1, <2>1 DEF RowsAreUnique, UniqueNames
  <2> QED BY <1>1, <1>3, <2>1, <2>2, EditKeepsInv DEF DeleteUser, TablesOK, RowsAreUnique
<1>4. CASE SaveApp
  <2>1. PICK row \in AppRow :
            /\ \A x \in apps : x.key = row.key => x.id = row.id
            /\ apps' = Put(apps, row)
    BY <1>4 DEF SaveApp
  <2>2. UniqueKeys(apps')
    BY <1>1, <2>1 DEF RowsAreUnique, UniqueKeys, Put
  <2> QED BY <1>1, <1>4, <2>1, <2>2, EditKeepsInv DEF SaveApp, TablesOK, RowsAreUnique, Put
<1>5. CASE DeleteApp
  <2>1. apps' \subseteq apps
    BY <1>5 DEF DeleteApp, Remove
  <2>2. UniqueKeys(apps')
    BY <1>1, <2>1 DEF RowsAreUnique, UniqueKeys
  <2> QED BY <1>1, <1>5, <2>1, <2>2, EditKeepsInv DEF DeleteApp, TablesOK, RowsAreUnique
<1>6. CASE SaveGrant
  <2>1. PICK row \in GrantRow :
            grants' = {x \in grants : x.user # row.user \/ x.app # row.app} \cup {row}
    BY <1>6 DEF SaveGrant
  <2>2. UniquePairs(grants')
    BY <1>1, <2>1 DEF RowsAreUnique, UniquePairs
  <2> QED BY <1>1, <1>6, <2>1, <2>2, EditKeepsInv DEF SaveGrant, TablesOK, RowsAreUnique
<1>7. CASE DeleteGrant
  <2>1. grants' \subseteq grants
    BY <1>7 DEF DeleteGrant
  <2>2. UniquePairs(grants')
    BY <1>1, <2>1 DEF RowsAreUnique, UniquePairs
  <2> QED BY <1>1, <1>7, <2>1, <2>2, EditKeepsInv DEF DeleteGrant, TablesOK, RowsAreUnique
<1>8. CASE SaveRole
  <2>1. PICK row \in RoleRow : roles' = Put(roles, row)
    BY <1>8 DEF SaveRole
  <2>2. UniqueIds(roles')
    BY <1>1, <2>1, PutKeepsIds DEF RowsAreUnique
  <2> QED BY <1>1, <1>8, <2>1, <2>2, EditKeepsInv DEF SaveRole, TablesOK, RowsAreUnique, Put
<1>9. CASE DeleteRole
  <2>1. roles' \subseteq roles
    BY <1>9 DEF DeleteRole, Remove
  <2>2. UniqueIds(roles')
    BY <1>1, <2>1 DEF RowsAreUnique, UniqueIds
  <2> QED BY <1>1, <1>9, <2>1, <2>2, EditKeepsInv DEF DeleteRole, TablesOK, RowsAreUnique
<1>10. CASE SaveResource
  <2>1. PICK row \in ResourceRow : resources' = Put(resources, row)
    BY <1>10 DEF SaveResource
  <2>2. UniqueIds(resources')
    BY <1>1, <2>1, PutKeepsIds DEF RowsAreUnique
  <2> QED BY <1>1, <1>10, <2>1, <2>2, EditKeepsInv
      DEF SaveResource, TablesOK, RowsAreUnique, Put
<1>11. CASE DeleteResource
  <2>1. resources' \subseteq resources
    BY <1>11 DEF DeleteResource, Remove
  <2>2. UniqueIds(resources')
    BY <1>1, <2>1 DEF RowsAreUnique, UniqueIds
  <2> QED BY <1>1, <1>11, <2>1, <2>2, EditKeepsInv DEF DeleteResource, TablesOK, RowsAreUnique
<1> QED BY <1>2, <1>3, <1>4, <1>5, <1>6, <1>7, <1>8, <1>9, <1>10, <1>11 DEF Change

-----------------------------------------------------------------------------
(* The lookup's queries: the tables and the histories stay.                *)

\* A query leads to a lookup l of which the invariant holds.
LEMMA ReadKeepsInv ==
    ASSUME LookupInv, NEW l \in Lookups, Read(l), FoundWasThere(l), RestIsToDo(l),
           l.pc = "done" => AnswersWereHeld' /\ NothingHeldIsMissed',
           l.pc = "failed" => FailuresAreExplained'
    PROVE  LookupInv'
<1>1. lookup' = l /\ UNCHANGED <<users, apps, grants, roles, resources, ever, always, edits>>
  BY DEF Read, tables
<1>2. UNCHANGED CurrentLinks
  BY <1>1 DEF CurrentLinks
<1>3. TypeOK' /\ RowsAreUnique' /\ LinksAreBetween'
  BY <1>1, <1>2 DEF LookupInv, TypeOK, Lookups, RowsAreUnique, LinksAreBetween
<1>4. FoundWasThere(lookup)' /\ RestIsToDo(lookup)'
  BY <1>1 DEF FoundWasThere, RestIsToDo
<1>5. l.pc # "done" => AnswersWereHeld' /\ NothingHeldIsMissed'
  BY <1>1 DEF AnswersWereHeld, NothingHeldIsMissed
<1>6. l.pc # "failed" => FailuresAreExplained'
  BY <1>1 DEF FailuresAreExplained
<1> QED BY <1>3, <1>4, <1>5, <1>6 DEF LookupInv

\* An answer, of which everything was held and nothing is missed.
LEMMA AnswerKeepsInv ==
    ASSUME LookupInv, lookup.pc \notin {"idle", "done", "failed"}, NEW result, Answer(result),
           lookup.kind = "roles" =>
              /\ result \subseteq Role /\ \A r \in result : RoleIn(ever, r)
              /\ \A r \in Role : RoleIn(always, r) => r \in result,
           lookup.kind = "permissions" =>
              /\ result \subseteq Permission /\ \A p \in result : PermissionIn(ever, p)
              /\ \A p \in Permission : PermissionIn(always, p) => p \in result
    PROVE  LookupInv'
<1> DEFINE l == [pc |-> "done", kind |-> lookup.kind, name |-> lookup.name, result |-> result]
<1>1. lookup \in Lookups
  BY DEF LookupInv, TypeOK, Lookups
<1>2. lookup.kind \in Kind /\ lookup.name \in Username
  BY <1>1, LookupFields
<1>3. l \in Lookups /\ Read(l)
  BY <1>2 DEF Lookups, Answered, Kind, Answer
<1>4. lookup' = l /\ UNCHANGED <<ever, always>>
  BY <1>3 DEF Read
<1>5. /\ l.pc = "done" /\ l.kind = lookup.kind /\ l.name = lookup.name /\ l.result = result
  OBVIOUS
<1> HIDE DEF l
<1>6. FoundWasThere(l) /\ RestIsToDo(l)
  BY <1>5 DEF FoundWasThere, RestIsToDo, Located
<1>7. /\ \A r : RoleIn(ever, r)' <=> RoleIn(ever, r)
      /\ \A r : RoleIn(always, r)' <=> RoleIn(always, r)
  BY <1>4, <1>5 DEF RoleIn, GrantedIn
<1>8. /\ \A p : PermissionIn(ever, p)' <=> PermissionIn(ever, p)
      /\ \A p : PermissionIn(always, p)' <=> PermissionIn(always, p)
  BY <1>4, <1>5 DEF PermissionIn, GrantedIn
<1>9. AnswersWereHeld' /\ NothingHeldIsMissed'
  BY <1>2, <1>4, <1>5, <1>7, <1>8 DEF AnswersWereHeld, NothingHeldIsMissed, Kind
<1> QED BY <1>3, <1>5, <1>6, <1>9, ReadKeepsInv

\* A lookup that starts has found nothing, and all that is held is to do.
LEMMA StartKeepsInv ==
    ASSUME LookupInv, Start
    PROVE  LookupInv'
<1>1. PICK kind \in Kind, n \in Username : lookup' = [pc |-> "user", kind |-> kind, name |-> n]
  BY DEF Start
<1>2. lookup'.pc = "user" /\ lookup' \in Asking
  BY <1>1 DEF Asking
<1>3. /\ ever' = CurrentLinks /\ always' = CurrentLinks
      /\ UNCHANGED <<users, apps, grants, roles, resources, edits, CurrentLinks>>
  BY DEF Start, tables, CurrentLinks
<1>4. TypeOK'
  BY <1>2, <1>3 DEF LookupInv, TypeOK
<1>5. RowsAreUnique' /\ LinksAreBetween'
  BY <1>3 DEF LookupInv, RowsAreUnique, LinksAreBetween
<1>6. FoundWasThere(lookup)' /\ RestIsToDo(lookup)'
  BY <1>2 DEF FoundWasThere, RestIsToDo, Located
<1>7. AnswersWereHeld' /\ NothingHeldIsMissed' /\ FailuresAreExplained'
  BY <1>2 DEF AnswersWereHeld, NothingHeldIsMissed, FailuresAreExplained
<1> QED BY <1>4, <1>5, <1>6, <1>7 DEF LookupInv

\* The user of the name is unique; without one nothing was held all along.
LEMMA FindUserKeepsInv ==
    ASSUME LookupInv, FindUser
    PROVE  LookupInv'
<1>1. lookup \in Lookups /\ lookup.pc = "user"
  BY DEF LookupInv, TypeOK, Lookups, FindUser
<1>2. lookup.kind \in Kind /\ lookup.name \in Username
  BY <1>1, LookupFields
<1>3. LinksAreBetween /\ UniqueNames(users) /\ users \subseteq UserRow
  BY DEF LookupInv, RowsAreUnique, TypeOK
<1>4. ASSUME NEW x \in users, x.name = lookup.name,
             Read([pc |-> "app", kind |-> lookup.kind, name |-> lookup.name, user |-> x.id])
      PROVE  LookupInv'
  <2> DEFINE l == [pc |-> "app", kind |-> lookup.kind, name |-> lookup.name, user |-> x.id]
  <2>1. l \in Lookups
    BY <1>2, <1>3, <1>4 DEF Lookups, FindingApp, UserRow
  <2>2. Read(l) /\ l.pc = "app" /\ l.name = lookup.name /\ l.user = x.id
    BY <1>4
  <2> HIDE DEF l
  <2>3. FoundWasThere(l)
    BY <1>3, <1>4, <2>2, NowWasOnce DEF FoundWasThere, Located
  <2>4. \A u : <<lookup.name, u>> \in always.user => u = x.id
    BY <1>3, <1>4, AlwaysIsNow DEF UniqueNames
  <2>5. RestIsToDo(l)
    BY <2>2, <2>4 DEF RestIsToDo, Located
  <2> QED BY <2>1, <2>2, <2>3, <2>5, ReadKeepsInv
<1>5. ASSUME \A x \in users : x.name # lookup.name, Answer({})
      PROVE  LookupInv'
  <2>1. \A u : <<lookup.name, u>> \notin always.user
    BY <1>3, <1>5, AlwaysIsNow
  <2>2. \A r : ~GrantedIn(always, r)
    BY <2>1 DEF GrantedIn
  <2> QED BY <1>1, <1>5, <2>2, AnswerKeepsInv DEF RoleIn, PermissionIn
<1> QED BY <1>4, <1>5 DEF FindUser

\* The application of the server's key is unique; without one nothing was held.
LEMMA FindAppKeepsInv ==
    ASSUME LookupInv, FindApp
    PROVE  LookupInv'
<1>1. lookup \in Lookups /\ lookup.pc = "app" /\ FoundWasThere(lookup) /\ RestIsToDo(lookup)
  BY DEF LookupInv, TypeOK, Lookups, FindApp
<1>2. lookup.kind \in Kind /\ lookup.name \in Username /\ lookup.user \in UserId
  BY <1>1, LookupFields DEF Located
<1>3. LinksAreBetween /\ UniqueKeys(apps) /\ apps \subseteq AppRow
  BY DEF LookupInv, RowsAreUnique, TypeOK
<1>4. ASSUME NEW x \in apps, x.key = ServerKey,
             Read([pc |-> "grant", kind |-> lookup.kind, name |-> lookup.name,
                   user |-> lookup.user, app |-> x.id])
      PROVE  LookupInv'
  <2> DEFINE l == [pc |-> "grant", kind |-> lookup.kind, name |-> lookup.name,
                   user |-> lookup.user, app |-> x.id]
  <2>1. l \in Lookups
    BY <1>2, <1>3, <1>4 DEF Lookups, FindingGrant, AppRow
  <2>2. Read(l) /\ l.pc = "grant" /\ l.name = lookup.name /\ l.user = lookup.user /\ l.app = x.id
    BY <1>4
  <2> HIDE DEF l
  <2>3. FoundWasThere(l)
    BY <1>1, <1>3, <1>4, <2>2, NowWasOnce DEF FoundWasThere, Located
  <2>4. \A a : <<ServerKey, a>> \in always.app => a = x.id
    BY <1>3, <1>4, AlwaysIsNow DEF UniqueKeys
  <2>5. RestIsToDo(l)
    BY <1>1, <2>2, <2>4 DEF RestIsToDo, Located
  <2> QED BY <2>1, <2>2, <2>3, <2>5, ReadKeepsInv
<1>5. ASSUME \A x \in apps : x.key # ServerKey, Answer({})
      PROVE  LookupInv'
  <2>1. \A a : <<ServerKey, a>> \notin always.app
    BY <1>3, <1>5, AlwaysIsNow
  <2>2. \A r : ~GrantedIn(always, r)
    BY <2>1 DEF GrantedIn
  <2> QED BY <1>1, <1>5, <2>2, AnswerKeepsInv DEF RoleIn, PermissionIn
<1> QED BY <1>4, <1>5 DEF FindApp

\* What was held all along hangs on the user and the application found.
LEMMA HeldHangsOnFound ==
    ASSUME LookupInv, lookup.pc \in Located, NEW r, GrantedIn(always, r)
    PROVE  <<lookup.user, lookup.app, r>> \in always.grant
<1>1. PICK u \in UserId, a \in AppId :
            /\ <<lookup.name, u>> \in always.user /\ <<ServerKey, a>> \in always.app
            /\ <<u, a, r>> \in always.grant
  BY DEF GrantedIn
<1>2. u = lookup.user /\ a = lookup.app
  BY <1>1 DEF LookupInv, RestIsToDo, Located
<1> QED BY <1>1, <1>2

\* And what the user and the application found are granted was held.
LEMMA FoundIsGranted ==
    ASSUME LookupInv, lookup.pc \in Located, NEW r,
           <<lookup.user, lookup.app, r>> \in ever.grant
    PROVE  GrantedIn(ever, r)
<1>1. lookup \in Lookups /\ FoundWasThere(lookup)
  BY DEF LookupInv, TypeOK, Lookups
<1>2. /\ lookup.user \in UserId /\ lookup.app \in AppId
      /\ <<lookup.name, lookup.user>> \in ever.user /\ <<ServerKey, lookup.app>> \in ever.app
  BY <1>1, LookupFields DEF FoundWasThere, Located
<1> QED BY <1>2 DEF GrantedIn

\* A lookup throws over an empty list that was on its way at some moment.
LEMMA ThrowKeepsInv ==
    ASSUME LookupInv, lookup.pc \notin {"idle", "done", "failed"}, Throw,
           \/ \E u \in UserId, a \in AppId :
                /\ <<lookup.name, u>> \in ever.user /\ <<ServerKey, a>> \in ever.app
                /\ <<u, a>> \in ever.blankGrant
           \/ lookup.kind = "permissions"
                /\ \E r \in Role : GrantedIn(ever, r) /\ r \in ever.blankRole
    PROVE  LookupInv'
<1> DEFINE l == [pc |-> "failed", kind |-> lookup.kind, name |-> lookup.name]
<1>1. lookup.kind \in Kind /\ lookup.name \in Username
  BY LookupFields DEF LookupInv, TypeOK, Lookups
<1>2. l \in Lookups /\ Read(l)
  BY <1>1 DEF Lookups, Failed, Throw
<1>3. l.pc = "failed" /\ l.kind = lookup.kind /\ l.name = lookup.name
  OBVIOUS
<1> HIDE DEF l
<1>4. lookup' = l /\ ever' = ever
  BY <1>2 DEF Read
<1>5. FoundWasThere(l) /\ RestIsToDo(l)
  BY <1>3 DEF FoundWasThere, RestIsToDo, Located
<1>6. \A r : GrantedIn(ever, r) => GrantedIn(ever, r)'
  BY <1>3, <1>4 DEF GrantedIn
<1>7. FailuresAreExplained'
  BY <1>3, <1>4, <1>6 DEF FailuresAreExplained
<1> QED BY <1>2, <1>3, <1>5, <1>7, ReadKeepsInv

\* The row of the user and the application is unique, and all of its list is
\* to do.
LEMMA FindGrantKeepsInv ==
    ASSUME LookupInv, FindGrant
    PROVE  LookupInv'
<1>1. lookup \in Lookups /\ lookup.pc = "grant" /\ FoundWasThere(lookup) /\ RestIsToDo(lookup)
  BY DEF LookupInv, TypeOK, Lookups, FindGrant
<1>2. /\ lookup.kind \in Kind /\ lookup.name \in Username /\ lookup.user \in UserId
      /\ lookup.app \in AppId
  BY <1>1, LookupFields DEF Located
<1>3. LinksAreBetween /\ UniquePairs(grants) /\ grants \subseteq GrantRow
  BY DEF LookupInv, RowsAreUnique, TypeOK
<1>4. ASSUME NEW g \in GrantsOf(lookup.user, lookup.app), g.roles # NoRoles,
             Read([pc |-> "roles", kind |-> lookup.kind, name |-> lookup.name,
                   user |-> lookup.user, app |-> lookup.app, todo |-> g.roles,
                   result |-> {}, found |-> {}])
      PROVE  LookupInv'
  <2> DEFINE l == [pc |-> "roles", kind |-> lookup.kind, name |-> lookup.name,
                   user |-> lookup.user, app |-> lookup.app, todo |-> g.roles,
                   result |-> {}, found |-> {}]
  <2>1. g \in grants /\ g.user = lookup.user /\ g.app = lookup.app /\ g.roles \in Seq(Role)
    BY <1>3, <1>4, LookupAssumption DEF GrantsOf, GrantRow
  <2>2. l \in Lookups
    BY <1>2, <2>1 DEF Lookups, Walking
  <2>3. /\ Read(l) /\ l.pc = "roles" /\ l.name = lookup.name /\ l.user = lookup.user
        /\ l.app = lookup.app /\ l.todo = g.roles /\ l.result = {} /\ l.found = {}
    BY <1>4
  <2> HIDE DEF l
  <2>4. FoundWasThere(l)
    BY <1>1, <1>3, <2>1, <2>3, NowWasOnce DEF FoundWasThere, Located
  <2>5. \A r : <<lookup.user, lookup.app, r>> \in always.grant => r \in RolesIn(g.roles)
    BY <1>3, <2>1, AlwaysIsNow DEF UniquePairs
  <2>6. RestIsToDo(l)
    BY <1>1, <2>3, <2>5 DEF RestIsToDo, Located
  <2> QED BY <2>2, <2>3, <2>4, <2>6, ReadKeepsInv
<1>5. ASSUME NEW g \in GrantsOf(lookup.user, lookup.app), g.roles = NoRoles, Throw
      PROVE  LookupInv'
  <2>1. <<lookup.user, lookup.app>> \in ever.blankGrant
    BY <1>3, <1>5, NowWasOnce DEF GrantsOf
  <2>2. <<lookup.name, lookup.user>> \in ever.user /\ <<ServerKey, lookup.app>> \in ever.app
    BY <1>1 DEF FoundWasThere, Located
  <2> QED BY <1>1, <1>2, <1>5, <2>1, <2>2, ThrowKeepsInv
<1>6. ASSUME GrantsOf(lookup.user, lookup.app) = {}, Answer({})
      PROVE  LookupInv'
  <2>1. \A r : <<lookup.user, lookup.app, r>> \notin always.grant
    BY <1>3, <1>6, AlwaysIsNow DEF GrantsOf
  <2>2. \A r : ~GrantedIn(always, r)
    BY <1>1, <2>1, HeldHangsOnFound DEF Located
  <2> QED BY <1>1, <1>6, <2>2, AnswerKeepsInv DEF RoleIn, PermissionIn
<1> QED BY <1>4, <1>5, <1>6 DEF FindGrant

\* The loop over the roles: what becomes of the first role of the list.
LEMMA RoleDone ==
    ASSUME LookupInv, lookup.pc = "roles", lookup.todo # NoRoles,
           NEW result \in SUBSET Role, NEW found \in SUBSET Resource,
           lookup.result \subseteq result, lookup.found \subseteq found,
           Read([pc |-> "roles", kind |-> lookup.kind, name |-> lookup.name,
                 user |-> lookup.user, app |-> lookup.app, todo |-> Tail(lookup.todo),
                 result |-> result, found |-> found]),
           \A r \in result \ lookup.result : r = Head(lookup.todo) /\ r \in ever.role,
           \A s \in found \ lookup.found : <<Head(lookup.todo), s>> \in ever.resource,
           lookup.kind = "roles" =>
                (Head(lookup.todo) \in always.role => Head(lookup.todo) \in result),
           lookup.kind = "permissions" =>
                \A s \in Resource : <<Head(lookup.todo), s>> \in always.resource => s \in found
    PROVE  LookupInv'
<1> DEFINE r == Head(lookup.todo)
           l == [pc |-> "roles", kind |-> lookup.kind, name |-> lookup.name,
                 user |-> lookup.user, app |-> lookup.app, todo |-> Tail(lookup.todo),
                 result |-> result, found |-> found]
<1>1. lookup \in Lookups /\ FoundWasThere(lookup) /\ RestIsToDo(lookup)
  BY DEF LookupInv, TypeOK, Lookups
<1>2. /\ lookup.kind \in Kind /\ lookup.name \in Username /\ lookup.user \in UserId
      /\ lookup.app \in AppId /\ lookup.todo \in Seq(Role)
  BY <1>1, LookupFields DEF Located
<1>3. /\ r \in Role /\ Tail(lookup.todo) \in Seq(Role)
      /\ RolesIn(lookup.todo) = {r} \cup RolesIn(Tail(lookup.todo))
  BY <1>2, RolesOfTail
<1>4. l \in Lookups
  BY <1>2, <1>3 DEF Lookups, Walking
<1>5. /\ Read(l) /\ l.pc = "roles" /\ l.kind = lookup.kind /\ l.name = lookup.name
      /\ l.user = lookup.user /\ l.app = lookup.app /\ l.todo = Tail(lookup.todo)
      /\ l.result = result /\ l.found = found
  OBVIOUS
<1> HIDE DEF l
<1>6. <<lookup.user, lookup.app, r>> \in ever.grant
  BY <1>1, <1>3 DEF FoundWasThere
<1>7. FoundWasThere(l)
  <2>1. \A x \in result : <<l.user, l.app, x>> \in ever.grant /\ x \in ever.role
    BY <1>1, <1>5, <1>6 DEF FoundWasThere
  <2>2. \A s \in found : GivesResource(ever, l.user, l.app, s)
    BY <1>1, <1>3, <1>5, <1>6 DEF FoundWasThere, GivesResource
  <2> QED BY <1>1, <1>3, <1>5, <2>1, <2>2 DEF FoundWasThere, Located
<1>8. RestIsToDo(l)
  <2>1. ASSUME NEW x \in Role, <<l.user, l.app, x>> \in always.grant,
               x \notin RolesIn(l.todo)
        PROVE  /\ l.kind = "roles" => (x \in always.role => x \in l.result)
               /\ l.kind = "permissions" =>
                    \A s \in Resource : <<x, s>> \in always.resource => s \in l.found
    <3>1. CASE x = r
      BY <1>5, <3>1
    <3>2. CASE x # r
      <4>1. x \notin RolesIn(lookup.todo)
        BY <1>3, <1>5, <2>1, <3>2
      <4> QED BY <1>1, <1>5, <2>1, <4>1 DEF RestIsToDo
    <3> QED BY <3>1, <3>2
  <2> QED BY <1>1, <1>5, <2>1 DEF RestIsToDo, Located
<1> QED BY <1>4, <1>5, <1>7, <1>8, ReadKeepsInv

\* The query for the first role of the list, for either kind of lookup.
LEMMA FindRoleKeepsInv ==
    ASSUME LookupInv, FindRole
    PROVE  LookupInv'
<1> DEFINE r == Head(lookup.todo)
           rest == [lookup EXCEPT !.todo = Tail(@)]
           Turn(result, found) ==
                [pc |-> "roles", kind |-> lookup.kind, name |-> lookup.name,
                 user |-> lookup.user, app |-> lookup.app, todo |-> Tail(lookup.todo),
                 result |-> result, found |-> found]
<1>1. /\ lookup \in Lookups /\ lookup.pc = "roles" /\ lookup.todo # NoRoles
      /\ FoundWasThere(lookup) /\ RestIsToDo(lookup)
  BY DEF LookupInv, TypeOK, Lookups, FindRole
<1>2. /\ lookup.kind \in Kind /\ lookup.todo \in Seq(Role) /\ r \in Role
      /\ lookup.result \subseteq Role /\ lookup.found \subseteq Resource
  BY <1>1, LookupFields, RolesOfTail
<1>3. LinksAreBetween /\ UniqueIds(roles) /\ roles \subseteq RoleRow
  BY DEF LookupInv, RowsAreUnique, TypeOK
<1>4. rest = Turn(lookup.result, lookup.found)
  BY <1>1, NextTurn
<1>5. \A x : x \in roles /\ x.id = r =>
        /\ r \in ever.role /\ \A s \in x.resources : <<r, s>> \in ever.resource
        /\ x.resources \subseteq Resource
        /\ \A s : <<r, s>> \in always.resource => s \in x.resources
  BY <1>3, NowWasOnce, AlwaysIsNow DEF UniqueIds, RoleRow
<1>6. ASSUME \A x \in roles : x.id # r, SkipRole(rest)
      PROVE  LookupInv'
  <2>1. r \notin always.role /\ \A s : <<r, s>> \notin always.resource
    BY <1>3, <1>6, AlwaysIsNow
  <2> QED BY <1>1, <1>2, <1>4, <1>6, <2>1, RoleDone DEF SkipRole
<1>7. ASSUME NEW x \in roles, x.id = r, lookup.kind = "roles",
             Read([rest EXCEPT !.result = @ \cup {r}])
      PROVE  LookupInv'
  <2>1. [rest EXCEPT !.result = @ \cup {r}] = Turn(lookup.result \cup {r}, lookup.found)
    <3>1. ASSUME NEW more
          PROVE  [rest EXCEPT !.result = rest.result \cup more]
                    = Turn(lookup.result \cup more, lookup.found)
      BY <1>1, NextFindsRole
    <3> HIDE DEF rest, Turn
    <3> QED BY <3>1
  <2>2. lookup.result \cup {r} \in SUBSET Role /\ r \in ever.role
    BY <1>2, <1>5, <1>7
  <2> DEFINE result == lookup.result \cup {r}
  <2> HIDE DEF rest
  <2>3. Read(Turn(result, lookup.found))
    BY <1>7, <2>1
  <2>4. /\ result \in SUBSET Role /\ lookup.result \subseteq result /\ r \in result
        /\ \A q \in result \ lookup.result : q = r /\ q \in ever.role
    BY <2>2
  <2> HIDE DEF result
  <2> QED BY <1>1, <1>2, <1>7, <2>3, <2>4, RoleDone
<1>8. ASSUME NEW x \in roles, x.id = r, lookup.kind = "permissions",
             Read([rest EXCEPT !.found = @ \cup x.resources])
      PROVE  LookupInv'
  <2>1. [rest EXCEPT !.found = @ \cup x.resources]
          = Turn(lookup.result, lookup.found \cup x.resources)
    BY <1>1, NextFindsResources
  <2>2. /\ lookup.found \cup x.resources \in SUBSET Resource
        /\ \A s \in x.resources : <<r, s>> \in ever.resource
        /\ \A s : <<r, s>> \in always.resource => s \in x.resources
    BY <1>2, <1>5, <1>8
  <2> HIDE DEF rest
  <2> QED BY <1>1, <1>2, <1>8, <2>1, <2>2, RoleDone
<1>9. ASSUME NEW x \in roles, x.id = r, lookup.kind = "permissions", x.resources = {}, Throw
      PROVE  LookupInv'
  <2>1. r \in ever.blankRole
    BY <1>3, <1>9, NowWasOnce
  <2>2. r \in RolesIn(lookup.todo)
    BY <1>1, <1>2, RolesOfTail
  <2>3. GrantedIn(ever, r)
    BY <1>1, <2>2, FoundIsGranted DEF FoundWasThere, Located
  <2> QED BY <1>1, <1>2, <1>9, <2>1, <2>3, ThrowKeepsInv
<1> QED BY <1>6, <1>7, <1>8, <1>9 DEF FindRole

\* All roles are looked at: the answer, or the resources they have.
LEMMA FinishRolesKeepsInv ==
    ASSUME LookupInv, FinishRoles
    PROVE  LookupInv'
<1>1. /\ lookup \in Lookups /\ lookup.pc = "roles" /\ lookup.todo = NoRoles
      /\ FoundWasThere(lookup) /\ RestIsToDo(lookup)
  BY DEF LookupInv, TypeOK, Lookups, FinishRoles
<1>2. /\ lookup.kind \in Kind /\ lookup.name \in Username /\ lookup.user \in UserId
      /\ lookup.app \in AppId /\ lookup.result \subseteq Role /\ lookup.found \subseteq Resource
  BY <1>1, LookupFields DEF Located
<1>3. RolesIn(lookup.todo) = {}
  BY <1>1 DEF RolesIn, NoRoles
<1>4. ASSUME lookup.kind = "roles", Answer(lookup.result)
      PROVE  LookupInv'
  <2>1. \A r \in lookup.result : RoleIn(ever, r)
    BY <1>1, FoundIsGranted DEF FoundWasThere, RoleIn, Located
  <2>2. \A r \in Role : RoleIn(always, r) => r \in lookup.result
    BY <1>1, <1>3, <1>4, HeldHangsOnFound DEF RestIsToDo, RoleIn, Located
  <2> QED BY <1>1, <1>2, <1>4, <2>1, <2>2, AnswerKeepsInv
<1>5. ASSUME lookup.kind = "permissions",
             Read([pc |-> "resources", kind |-> "permissions", name |-> lookup.name,
                   user |-> lookup.user, app |-> lookup.app, todo |-> lookup.found,
                   result |-> {}])
      PROVE  LookupInv'
  <2> DEFINE l == [pc |-> "resources", kind |-> "permissions", name |-> lookup.name,
                   user |-> lookup.user, app |-> lookup.app, todo |-> lookup.found,
                   result |-> {}]
  <2>1. l \in Lookups
    BY <1>2 DEF Lookups, Collecting
  <2>2. /\ Read(l) /\ l.pc = "resources" /\ l.name = lookup.name /\ l.user = lookup.user
        /\ l.app = lookup.app /\ l.todo = lookup.found /\ l.result = {}
    BY <1>5
  <2> HIDE DEF l
  <2>3. FoundWasThere(l)
    BY <1>1, <2>2 DEF FoundWasThere, Located
  <2>4. \A s \in Resource : GivesResource(always, lookup.user, lookup.app, s) =>
                s \in lookup.found
    BY <1>1, <1>3, <1>5 DEF RestIsToDo, GivesResource
  <2>5. RestIsToDo(l)
    BY <1>1, <2>2, <2>4 DEF RestIsToDo, Located
  <2> QED BY <2>1, <2>2, <2>3, <2>5, ReadKeepsInv
<1> QED BY <1>4, <1>5 DEF FinishRoles

\* The loop over the resources: what becomes of one of them.
LEMMA ResourceDone ==
    ASSUME LookupInv, lookup.pc = "resources", NEW s \in lookup.todo,
           NEW result \in SUBSET Permission, lookup.result \subseteq result,
           Read([pc |-> "resources", kind |-> lookup.kind, name |-> lookup.name,
                 user |-> lookup.user, app |-> lookup.app, todo |-> lookup.todo \ {s},
                 result |-> result]),
           \A p \in result \ lookup.result : <<s, p>> \in ever.permission,
           \A p \in Permission : <<s, p>> \in always.permission => p \in result
    PROVE  LookupInv'
<1> DEFINE todo == lookup.todo \ {s}
           l == [pc |-> "resources", kind |-> lookup.kind, name |-> lookup.name,
                 user |-> lookup.user, app |-> lookup.app, todo |-> todo,
                 result |-> result]
<1>1. lookup \in Lookups /\ FoundWasThere(lookup) /\ RestIsToDo(lookup)
  BY DEF LookupInv, TypeOK, Lookups
<1>2. /\ lookup.kind = "permissions" /\ lookup.name \in Username /\ lookup.user \in UserId
      /\ lookup.app \in AppId /\ lookup.todo \subseteq Resource
  BY <1>1, LookupFields DEF Located
<1>3. todo \subseteq Resource
  BY <1>2
<1> HIDE DEF todo
<1>4. l \in Lookups
  BY <1>2, <1>3 DEF Lookups, Collecting
<1>5. /\ Read(l) /\ l.pc = "resources" /\ l.name = lookup.name /\ l.user = lookup.user
      /\ l.app = lookup.app /\ l.todo = todo /\ l.result = result
  BY DEF todo
<1> HIDE DEF l
<1>6. FoundWasThere(l)
  <2>1. \A p \in result : GivesPermission(ever, l.user, l.app, p)
    BY <1>1, <1>2, <1>5 DEF FoundWasThere, GivesPermission
  <2> QED BY <1>1, <1>5, <2>1 DEF FoundWasThere, Located, todo
<1>7. RestIsToDo(l)
  BY <1>1, <1>5 DEF RestIsToDo, Located, todo
<1> QED BY <1>4, <1>5, <1>6, <1>7, ReadKeepsInv

\* The query for one of the resources.
LEMMA FindResourceKeepsInv ==
    ASSUME LookupInv, FindResource
    PROVE  LookupInv'
<1>1. lookup \in Lookups /\ lookup.pc = "resources"
  BY DEF LookupInv, TypeOK, Lookups, FindResource
<1>2. LinksAreBetween /\ UniqueIds(resources) /\ resources \subseteq ResourceRow
  BY DEF LookupInv, RowsAreUnique, TypeOK
<1>3. lookup.todo \subseteq Resource /\ lookup.result \subseteq Permission
  BY <1>1, LookupFields
<1>4. ASSUME NEW s \in lookup.todo, NEW x \in resources, x.id = s, HasPermission(x),
             Read([[lookup EXCEPT !.todo = @ \ {s}] EXCEPT !.result = @ \cup {x.permission}])
      PROVE  LookupInv'
  <2> DEFINE result == lookup.result \cup {x.permission}
  <2>1. Read([pc |-> "resources", kind |-> lookup.kind, name |-> lookup.name,
              user |-> lookup.user, app |-> lookup.app, todo |-> lookup.todo \ {s},
              result |-> result])
    BY <1>1, <1>4, NextFindsPermission
  <2>2. result \in SUBSET Permission /\ lookup.result \subseteq result
    BY <1>2, <1>3, <1>4 DEF ResourceRow, HasPermission
  <2>3. \A p \in result \ lookup.result : <<s, p>> \in ever.permission
    BY <1>2, <1>4, NowWasOnce DEF HasPermission
  <2>4. \A p \in Permission : <<s, p>> \in always.permission => p \in result
    BY <1>2, <1>4, AlwaysIsNow DEF UniqueIds
  <2> HIDE DEF result
  <2> QED BY <1>1, <2>1, <2>2, <2>3, <2>4, ResourceDone
<1>5. ASSUME NEW s \in lookup.todo, \A x \in resources : x.id = s => ~HasPermission(x),
             SkipResource([lookup EXCEPT !.todo = @ \ {s}])
      PROVE  LookupInv'
  <2>1. Read([pc |-> "resources", kind |-> lookup.kind, name |-> lookup.name,
              user |-> lookup.user, app |-> lookup.app, todo |-> lookup.todo \ {s},
              result |-> lookup.result])
    BY <1>1, <1>5, NextResource DEF SkipResource
  <2>2. \A p : <<s, p>> \notin always.permission
    BY <1>2, <1>5, AlwaysIsNow DEF HasPermission
  <2> QED BY <1>1, <1>3, <2>1, <2>2, ResourceDone
<1> QED BY <1>4, <1>5 DEF FindResource

\* All resources are looked at: the answer is complete.
LEMMA FinishResourcesKeepsInv ==
    ASSUME LookupInv, FinishResources
    PROVE  LookupInv'
<1>1. /\ lookup \in Lookups /\ lookup.pc = "resources" /\ lookup.todo = {}
      /\ FoundWasThere(lookup) /\ RestIsToDo(lookup)
  BY DEF LookupInv, TypeOK, Lookups, FinishResources
<1>2. lookup.result \subseteq Permission /\ lookup.kind = "permissions"
  BY <1>1, LookupFields
<1>3. \A p \in lookup.result : PermissionIn(ever, p)
  <2>1. TAKE p \in lookup.result
  <2>2. PICK r \in Role, s \in Resource :
            /\ <<lookup.user, lookup.app, r>> \in ever.grant /\ <<r, s>> \in ever.resource
            /\ <<s, p>> \in ever.permission
    BY <1>1 DEF FoundWasThere, GivesPermission, GivesResource
  <2> QED BY <1>1, <2>2, FoundIsGranted DEF PermissionIn, Located
<1>4. \A p \in Permission : PermissionIn(always, p) => p \in lookup.result
  <2>1. SUFFICES ASSUME NEW p \in Permission, PermissionIn(always, p)
                 PROVE  p \in lookup.result
    OBVIOUS
  <2>2. PICK r \in Role, s \in Resource :
            /\ GrantedIn(always, r) /\ <<r, s>> \in always.resource
            /\ <<s, p>> \in always.permission
    BY <2>1 DEF PermissionIn
  <2>3. GivesResource(always, lookup.user, lookup.app, s)
    BY <1>1, <2>2, HeldHangsOnFound DEF GivesResource, Located
  <2> QED BY <1>1, <2>2, <2>3 DEF RestIsToDo
<1> QED BY <1>1, <1>2, <1>3, <1>4, AnswerKeepsInv DEF FinishResources

-----------------------------------------------------------------------------
\* At first nothing is being looked up, and the histories are the links of now.
LEMMA InitHasInv == Init => LookupInv
<1> SUFFICES ASSUME Init PROVE LookupInv
  OBVIOUS
<1>1. PICK d \in Databases :
            /\ users = d.users /\ apps = d.apps /\ grants = d.grants
            /\ roles = d.roles /\ resources = d.resources
  BY DEF Init
<1>2. RowsAreUnique /\ TablesOK
  BY <1>1, DatabaseAssumption DEF RowsAreUnique, TablesOK, Database
<1>3. /\ lookup \in Idle /\ lookup.pc = "idle" /\ edits \in 0..MaxEdits
      /\ ever = CurrentLinks /\ always = CurrentLinks
  BY LookupAssumption DEF Init, Idle
<1>4. TypeOK /\ LinksAreBetween
  BY <1>2, <1>3 DEF TypeOK, TablesOK, LinksAreBetween
<1>5. FoundWasThere(lookup) /\ RestIsToDo(lookup)
  BY <1>3 DEF FoundWasThere, RestIsToDo, Located
<1>6. AnswersWereHeld /\ NothingHeldIsMissed /\ FailuresAreExplained
  BY <1>3 DEF AnswersWereHeld, NothingHeldIsMissed, FailuresAreExplained
<1> QED BY <1>2, <1>4, <1>5, <1>6 DEF LookupInv

\* Every step of the lookup and every change of the tables.
LEMMA StepKeepsInv == LookupInv /\ [Next]_vars => LookupInv'
<1> SUFFICES ASSUME LookupInv, [Next]_vars PROVE LookupInv'
  OBVIOUS
<1>1. CASE Next
  BY <1>1, StartKeepsInv, ChangeKeepsInv, FindUserKeepsInv, FindAppKeepsInv,
     FindGrantKeepsInv, FindRoleKeepsInv, FinishRolesKeepsInv, FindResourceKeepsInv,
     FinishResourcesKeepsInv DEF Next, Step
<1>2. CASE UNCHANGED vars
  <2>1. UNCHANGED <<users, apps, grants, roles, resources, lookup, ever, always, edits>>
    BY <1>2 DEF vars
  <2>2. UNCHANGED CurrentLinks
    BY <2>1 DEF CurrentLinks
  <2>3. TypeOK' /\ RowsAreUnique' /\ LinksAreBetween'
    BY <2>1, <2>2 DEF LookupInv, TypeOK, RowsAreUnique, LinksAreBetween
  <2>4. FoundWasThere(lookup)' /\ RestIsToDo(lookup)'
    BY <2>1 DEF LookupInv, FoundWasThere, RestIsToDo
  <2>5. AnswersWereHeld' /\ NothingHeldIsMissed' /\ FailuresAreExplained'
    BY <2>1 DEF LookupInv, AnswersWereHeld, NothingHeldIsMissed, FailuresAreExplained,
                RoleIn, PermissionIn, GrantedIn
  <2> QED BY <2>3, <2>4, <2>5 DEF LookupInv
<1> QED BY <1>1, <1>2

\* Hence LookupInv holds of every state.
LEMMA InvHolds == Spec => []LookupInv
BY InitHasInv, StepKeepsInv, PTL DEF Spec

\* UserRealm never learns of a role or permission any link of whose chain was
\* not in the tables while it asked, whatever administrators change meanwhile.
THEOREM AnswersHold == Spec => []AnswersAreSound
<1>1. LookupInv => AnswersAreSound
  BY DEF LookupInv, AnswersAreSound
<1> QED BY <1>1, InvHolds, PTL

\* And it learns of every one whose chain of links was there throughout, past
\* ids of deleted rows: the loops of RoleServiceImpl and ResourceServiceImpl.
THEOREM NothingIsMissed == Spec => []NothingHeldIsMissed
<1>1. LookupInv => NothingHeldIsMissed
  BY DEF LookupInv
<1> QED BY <1>1, InvHolds, PTL

\* A lookup fails only over an empty role_ids or resource_ids on the user's way.
THEOREM FailuresHold == Spec => []FailuresAreExplained
<1>1. LookupInv => FailuresAreExplained
  BY DEF LookupInv
<1> QED BY <1>1, InvHolds, PTL
=============================================================================
