# Specifications of authManager

authManager is a permission management system: a Spring MVC application over
MyBatis and MySQL in which administrators keep users, organizations, roles,
resources and applications, and Apache Shiro, with its sessions in Redis,
decides what each user may do. In the browser its pages run jQuery plug-ins: zTree
for the trees of resources and organizations, treetable for the table of
resources, and validate for the forms. This directory holds TLA+ specifications
of the core of both sides, configurations that check them with TLC, and proofs that
TLAPS checks.

## The system

| Component | State | Operations | Modelled in |
|---|---|---|---|
| Authorizations: the roles of a user in an application | table `ss_user_app_roles` | `merge` (create and update), delete | `Authorization`, `AuthorizationProofs` |
| Permission lookup | reads five tables | `findRoles`, `findPermissions` | `PermissionLookup`, `PermissionLookupProofs` |
| Sessions | Redis keys with a time to live | create, read, update, delete, list, validate | `SessionStore`, `SessionStoreProofs` |
| Organizations | table `ss_organization`, a tree with `parent_id` and `parent_ids` | append, rename, delete, move | `OrganizationTree`, `OrganizationTreeProofs` |
| Login retry limit | one counter per username in a Shiro cache, which keeps none | `doCredentialsMatch` | partly, in `UserAccounts` |
| Applications and their cache | table `ss_app`, one Redis key | `findOne`, create, update, delete | `AppCache`, `CacheProofs` |
| Users and passwords | table `ss_user`, a form in each browser | create, edit, change password, delete | `UserAccounts`, `UserAccountsProofs` |
| Roles, resources, menus | tables `ss_role`, `ss_resource` | save, delete, `findMenus` | partly, in `PermissionLookup` |
| Login and realm | session attributes | `UserRealm`, `SysUserFilter` | partly |
| zTree | data of the nodes, their list items, requests, boxes | load, add, move, copy, drag, rename, remove, check | `Trees`, `ZTree`, `ZTreeEdit`, `ZTreeCheck` |
| treetable | nodes, lists of children, rows, what is expanded | expand, collapse, move, load, unload, remove, sort | `Trees`, `TreeTable`, which implements `Forest`; `TreeTableProofs` |
| validate | one validator per form | key, click, focus, submit, reset, answers of the server | `Validation`, `ValidationProofs` |
| Paging; UUID; the older Jedis classes | none shared; pools | | not modelled, see below |

Parts call each other in one direction. A browser posts a form to a
controller; the controller calls a service, which runs one or more mapper
statements. Shiro calls `UserRealm`, which calls the authorization service,
which calls the user, application, role and resource services; its session
manager calls `RedisShiroSessionDao`. All sharing is through MySQL and Redis:
the requests are threads that interleave at each statement.

In the browser JavaScript runs every call, event and answer to its end, so an action
is a whole call. What interleaves there are the user, the calls and the answers of
the server, which come when they come or not at all; and the state of a plug-in is
kept several times over (data, lists, elements of the page) by code with a case for
each end of a list.

What makes the server side hard is in the wiring. `spring-mybatis.xml` gives a transaction to
methods whose names begin with `del`, `insert` or `update` only, so `merge`,
`move`, `createX`, `changePassword` and every lookup commit each statement by
itself. The forms carry rows that were read long ago back to the server in hidden
fields. Deletes do not cascade. Failures of Redis are caught and logged by the
DAO. `PROJECT.json` lists these hazards with their lines and the properties
that would catch them.

## What makes each component correct, and what the runs show

Each state variable stands for a table, a key space or the position of a
thread or browser (`req[t].pc`); each action is one statement, command, page or
call, named after the method or statement of the source. A history variable
records what properties speak of. One also carries a bound, `moves < MaxMoves`,
and one ends the run: the calls of `ZTreeEdit` stop
when a waiting move has gone astray (`astray`), see there. Definitions marked
"(wrong)" are bugs that the code might have had; nothing uses them but the mutants
in `PROJECT.json`, which show that the properties would find them. Several
properties of one component are conjuncts of one that a run names:
`AnswersAreSound`, `SessionsAreSound`, `PathsAreSound` and `CacheIsSound` are each `TypeOK` and the property described below.

### Authorization (`MCAuthorization`)

`rows` is the table with its unique key on user and application, the width of
`role_ids` (in entries) and InnoDB's counter, which `RestartDatabase` computes
anew. A form is opened (`OpenForm`), submitted (`SubmitCreate`,
`SubmitUpdate`, `SubmitDelete`), and `merge` runs as `Select` and then one of
`InsertSelective`, `UpdateFromForm`, `OverwriteMerged`.

* `OneRowPerPair`: racing forms leave one row per user and application.
* `GrantsWereSubmitted`: every granted role was submitted for that user.
* `MergeKeepsWhatItRead`: a merge drops no role it read, unless the row was
  changed under it.
* `RowsVanishByDeleteOnly`: only the delete page takes a row away; the branch
  of `merge` that deletes is unreachable.

Bounds: two administrators are the race; two users share one application, so a
row can be given to the wrong one; the column holds two entries, so that
merging overflows it; two ids suffice for one to be given again after a
restart. `authorization_merge` (column of three) shows that `merge` adds only
the last of several submitted roles, against the comment in the method.

### PermissionLookup (`MCPermissionLookup`)

One lookup advances query by query while administrators save and delete rows
of all five tables, three times at most. `ever` and `always` record which links
(name to id, key to id, grant, role to resource, permission) were there at
some moment, or throughout.

* `AnswersWereHeld` (in `AnswersAreSound`): each role or permission in the answer is reached by links
  that were each in the tables while it ran.
* `NothingHeldIsMissed`: what was held throughout is in the answer.
* `FailuresAreExplained`: an exception means an empty list of roles or
  resources, never a deleted row.
* `LookupEnds`: it ends. Fairness is weak, on the steps of the lookup alone:
  the servlet thread goes on, and a query returns. Nothing forces a change.

A lookup writes nothing, so one lookup among arbitrary changes stands for any
number of them. Three changes are enough to take a link away, put another one
in its place and touch a second table; two names, roles, resources and
permissions let an answer be the wrong one's (1,009,235 states).

### SessionStore (`MCSessionStore`)

`redis` holds entries with a time to live and a copy of a session; request
threads touch, log in and log out; the scheduler lists keys, reads them one by
one and validates. Every command may fail, as the DAO catches all exceptions.
Shiro 1.3.0 and Redis are external and modelled from how the DAO and the
configuration use them. Ages saturate just beyond the timeout, so time needs
no bound.

* `StoredSessionsAreValid` (in `SessionsAreSound`): no stopped or expired session is written.
* `LogoutIsFinal`: a session that was logged out does not come back, but for a
  request that was at work on it at the same time, or a failed command.
* `LogoutSurvivesOneFault`: one failed command does not leave the user logged in.
* `LostOnlyWhenIdle`: a session in use is not lost.
* `AbandonedSessionsVanish`: what nobody uses leaves Redis, even when the
  scheduler is dead. The only fairness is that time passes.

One session (no operation relates two), two request threads and the
scheduler; timeout and time to live of two ticks, as both are 30 minutes
(846,816 states). A session that disappears between being listed and being read
makes the scheduler throw, and it never runs again (`ScanThrows`):
`AbandonedSessionsVanish` holds although it is dead.

### OrganizationTree (`MCOrganizationTree`)

`orgs` holds id, parent and path; a path is the sequence of its segments. Pages
hold what they were opened with, of any age. `move` is four steps: two reads, two
updates, the last of which may fail. The mapper writes `like x || '%'`. Nothing in
the repository sets the SQL mode `PIPES_AS_CONCAT`, so `||` is MySQL's OR, and what is
left is the comparison with `x` (`Matches`): the list of targets leaves out the source
and its children, and `moveStepTwo` changes the children only.

* `PathsFollowParents` (in `PathsAreSound`): until something is moved, each path is the parent's
  path and the parent's id, whatever pages and deletes interleave.
* `MovesKeepTheTree`, violated in `organization_move`: organizations have no cycle, after
  moves as before them. TLC appends an organization below the
  last of the chain and moves its grandparent below it, a target that the page
  offers. The rows are then below each other, and below no root.

What moves do to the paths is on the way to that: `moveStepOne` gives the source the path
of the target instead of one that ends with the target, and `moveStepTwo` cuts the paths of the
children at the wrong place (SQL counts from 1), or fails, or comes too late for a page
that writes old paths back. The targets of the next move are listed by these
paths. All of it is in the model; after the first move no path is to be relied on,
so `PathsFollowParents` ends there.

For `PathsAreSound`, three organizations in a chain, two more ids, two administrators, one
move and paths of four segments reach a grandchild, an append below a moved row, and
the width of the column. One administrator and two moves are enough for the violation. The page
`organization/move.jsp` reads a property `name` that an organization does not
have, so it does not render; the model takes the targets that its query lists.

### AppCache (`MCAppCache`)

`findOne` looks the single key `appId` up, else selects and puts; `updateApp`
commits and then evicts; create and delete leave the cache alone; the edit form
updates the row it was filled with. An eviction may fail.

* `FinishedUpdatesAreSeen` (in `CacheIsSound`): a find that starts after an update is over answers
  with that version or a later one, unless an update was ever committed
  between the select and the put of a find.

Three threads are needed for the race with a reader and a later one; two
applications and two updates for one to answer for another, which it does: the
property speaks of the application that is answered, not of the one that was asked for.

### UserAccounts (`MCUserAccounts`)

`users` is the table with its unique key on the username. The edit page has the
whole row in its form, password and salt in hidden fields, and `UpdateUser`
writes back what the page was filled with, but for the name typed in;
`ChangePassword` and `WritePassword` are the select and the update of
`changePassword`. A hash is the record of what it was computed from: password,
username and salt. `LogsIn` is what the realm and the matcher compute from the
row. (The count of failures of `RetryLimitHashedCredentialsMatcher` is not there to be modelled:
`spring-config-shiro.xml` wires the cache of `MyShiroCacheManager`, whose `put`, in line
56, and `remove` do nothing. Each login counts with a new counter, and the limit of
five, which the comment in line 38 of the matcher states, is never reached.)
The histories record what was saved last for an id (`latest`), which rows
were written while somebody else had them in a form (`overlap`), and which users
were renamed after their password was set (`renamed`).

* `SaltBelongsToHash`: however old the forms are, no row has one password's
  salt and another's hash.
* `LastEditHolds`: name and password saved last are in the row, unless two
  administrators had the row at once; then an old form undoes a newer edit.
* `LastPasswordLogsIn`: the password set last logs in, unless the row was in two
  hands, or the user was renamed: the hash covers the old name.

Both exceptions are reached: without either of them TLC finds the property
violated. Two administrators are the race, two names allow a rename
and a name that is taken, two ids and four salts allow two users, each given
another password. The rows of `auth.sql` are left out, as nothing is known of
their passwords; `locked`, which no page sets, and the organization are, too.

### TreeTable and Forest (`MCTreeTable`)

`Forest` is what a tree widget promises: nodes hang below one another without a
cycle, come as roots or below a node (`Load`), move anywhere but below themselves
(`Move`), and leave with all that is below them (`Prune`). `TreeTable` is the code:
`tree` and `nodes` are `Tree.tree` and `Tree.nodes`, `parentId` and `children` the
fields of each `Node`, `rows` the rows of the table, `branch` and `view` their
classes and what is hidden; one action per method (`Toggle`, `ExpandNode`,
`CollapseAll`, `Reveal`, `Move`, `LoadBranch`, `UnloadBranch`, `RemoveNode`,
`SortBranch` and so on). `Trees` has reachability and the orders in which trees are
walked.

* `ChildrenNameTheirParent`: for the nodes of the tree, parents and lists of children
  agree, whatever was moved, loaded or removed before.
* `TableIsSound`: every node has its row and its place in the list of nodes, until
  `removeNode` is used. (It leaves the child in its parent's `children`; later an
  unload takes the last node for it, a load puts rows behind a row that is gone,
  and a sort brings removed rows back.) The rows of a branch follow its first row
  (`BranchesAreTogether`), which `findLastNode` relies on, until something is loaded
  after a move: a moved row goes first on the page and last in `children`.
* `RowsShowTheTree`: a row is displayed when its parent is displayed and
  expanded, until rows move or are loaded where nothing shows; a node with children
  has an expander.
* `ImplementsForest`: the table refines `Forest` (`INSTANCE Forest WITH members
  <- tree`), so the guard of `move` is enough, whatever came before.

Four rows, three on the page in any shape and one to load, and three edits, between
which anything is expanded and collapsed: 232,831 states. `loadRows` throws for a row
whose parent is missing, so `Init` has the parents in the table.

### ZTree and ZTreeEdit (`MCZTreeEdit`)

`ZTree` is the core. A tree is a record: children, parents, levels and the first
and last marks of the data; `cache`, through which nodes are found; `dom` and `ul`,
the list items that exist, as a branch gets its items when it is first opened; and what
is drawn of each. Each function of `data` and `view` is an operator from tree to tree
(`AddNodesData`, `CreateNodes`, `RemoveNode` and so on), each call an
action. `requests` are the requests for nodes on their way, `ver` the `_ver` by
which an answer for an older tree is dropped. `ZTreeEdit` adds `exedit`: `moveNode`,
`copyNode`, dragging from the mouse button down to the drop, renaming in
place, and moves into a branch that still has to be loaded, which wait in `then` for the
answer. It is the module that is run, with all actions of both.

* `TreeIsSound`: the data stay a tree that agrees with itself: each node once, with
  its parent, level, ends and cache entry.
* `PageIsTrue`: whole lists of items, lines and folders, the marks of selected
  nodes and the one field for a name are those of the data.
* `LoadsHaveRequests`, `LoadsEnd`: a node that shows that it loads has exactly one
  request for the tree of now, and does not load for ever. Fairness is weak, per request: each
  ends with an answer or an error, as a browser ends it; the user is not obliged
  to anything.
* `NodesStay`: only removing, reloading and resetting lose nodes.
* `DropIsOneMove`: nodes dropped together arrive together and in their order, and
  all others stay as they were.

The histories in the module name what the code does not do, and where the
properties therefore end. `astray`: a waiting move is done without a second
look, although by then the node may be gone, or the target below it; and the guard of `moveNode`
against a move below itself looks at list items only, so in a branch that was never opened
it makes a ring (`all-3.5.js:2521`). Nothing is said of the tree after that: the properties
and the calls end there, so of a node that waits to be moved while its branch loads only the moves that
still make sense are checked. `orphan`: removing an ancestor of the node that is
renamed leaves `curEditNode` behind. `blank`: an empty answer takes the last child its
mark. `late`: an answer for a node that was removed adds nodes to the cache that are
in no tree. `patched`, `erased`: silent moves into branches that are not drawn draw
one item alone, or lose the mark of a selected one. Adding, dropping or copying nodes
to a place that loads already loses them (`AddNodesCall`).

Three nodes with one request, or two nodes with two (`FewNodes`), one refresh, two calls,
from four trees of simple data: 253,272 states. With two requests a node is asked for again while an older
answer for it, from before a refresh, is still to come, and two nodes load at
once. Without the test of `isAjaxing` (`all-3.5.js:896`) a second request is sent
for a node that loads, and TLC finds it. Pressing the mouse button or
starting to rename is a call; how the gesture goes on is not bounded. Three
nodes give two ends of a list and a middle, or a chain of three levels.

### ZTreeCheck (`MCZTreeCheck`)

The boxes and radio buttons of `excheck`: `tree` has the marks, `state` is
`check_Child_State`, `drawn` what the page shows; `field` is the hidden field
`resourceIds` that the `onCheck` of `role/edit.jsp` fills.

* `ChecksAreSound`: each box is drawn as its whole subtree asks for, although an
  operation repairs one path only; and every checked radio button is in the list of
  those to end. A node with children that has no box, or is disabled, is excepted
  (`inner`): `setSonNodeCheckBox` does not look through it.
* `DisabledKeepTheirMark`: no check passed on changes a disabled box.
* `ClickChangesOneGrant`: with the setting of the role page a click grants or
  revokes the one resource; what the page does not list is revoked by the first.
* `ClickKeepsHierarchy`: where checks pass to parents and their ends to children, no checked
  node is below an unchecked one after a click.

`CheckRadio` ends the check of every radio button in the list of those to end, the one
it is called for included: `updateNode`, or `checkNode` with the relations, on a
button that is checked unchecks it and leaves it in the list. So the list may hold a
button that is not checked; `ChecksAreSound` asks for the other direction.
`MoveNode` is the repair of the boxes at the end of exedit's `moveNode`, above the place the node
leaves and the one it comes to.

Five settings (the page's, zTree's default, one that passes in one direction, both
kinds of radio buttons) on a chain and on a branched tree of four nodes: 50,938
states.

### Validation (`MCValidation`)

`validator` is the object of a form: values, `pending` and `pendingRequest`, the
messages shown, `formSubmitted`, and for each field `previousValue` and the one
request that may be on its way. `Checked` is `check`, `showErrors` and
`startRequest` together; key, click, paste, focus, reset and submit are the actions of the user,
`Answer` and `Fail` those of the server.

* `ValidatorIsSound`: `pendingRequest` is the number of pending fields; a field that
  was checked since it was changed has a message exactly when its rules or the
  server refuse it.
* `FormsSentAreRight`: whatever the user changes while a submit waits, a form that
  is sent has only values that are accepted.
* `FormsAreSubmitted`: a form is not sent more often than the user submits it.
* `PressIsDecided`: a submit that waits is sent or refused, unless the user goes on
  changing the form or a request fails. Fairness is weak, per field: a request ends
  with an answer or an error.

The last exception is real: there is no handler for an error, so the field stays
pending and the submit waits until it is asked about again. A refusal of one field
leaves `formSubmitted` up while others are pending, so that a later answer
sends the form without a new press: of the old press, which is why the count holds.
Two remote fields and a box that one of them depends on, four changes and two submits: 356,173
states. The remaining local methods are one rule that refuses some values.

## Proofs (`AuthorizationProofs`, `PermissionLookupProofs`, `SessionStoreProofs`, `OrganizationTreeProofs`, `UserAccountsProofs`, `CacheProofs`, `TreeTableProofs`, `ValidationProofs`)

`AuthorizationProofs`: proved for every set of administrators, users, applications,
roles and form contents, every column width and every number of ids, from the two assumptions
in `Authorization` (widths and bounds are positive; a form's list of roles is
a non-empty list that fits):

* `TypeCorrect`: `TypeOK`, which is inductive. `Rewritten` and `MergedRoles` are
  the steps to see: a merged list has one entry more and is checked against
  the width, which `MergedRolesFacts` and `FittingList` state.
* `OneRowPerPairHolds`: inductive together with `TypeOK`. An insert is guarded
  by the key, and an update by the key or it leaves user and application alone.
* `GrantsWereSubmittedHolds`: not inductive, as a request carries roles between
  its select and its update. `AccountedInv` adds that what every request holds
  is accounted for by the histories, too, and `HistoriesGrow` keeps it so.
* `MergeKeepsWhatItReadHolds` and `RowsVanishByDeleteOnlyHolds`: action
  properties, from `TypeOK`. The first is a fact on `MergedRoles` (it extends
  what it read); the second goes through the actions and shows the deleting
  branch unreachable, as `Splits` fails on an empty list.

`PermissionLookupProofs`: proved for any names, keys, roles, resources and permissions,
any tables to start with whose unique keys hold, and any number of changes under the
lookup (`LookupAssumption`, `DatabaseAssumption`):

* `AnswersHold`, `NothingIsMissed`, `FailuresHold`: the three invariants of the run. Each
  speaks of the end of a lookup only. `LookupInv` says of every step before it
  what its partial results are worth: `FoundWasThere` (what is found hangs on links
  that are in `ever`, and so does what is still to do) and `RestIsToDo` (what
  hangs on links in `always` is found, or still to do).
* Two more parts tie the histories to the tables: the links of now are between those
  of `always` and those of `ever` (`LinksAreBetween`), and unique keys stay
  unique (`RowsAreUnique`), which makes the row that a query finds the only one
  that the histories can mean. `EditKeepsInv` is the argument for all ten changes,
  `RoleDone` and `ResourceDone` are the turns of the two loops.

`SessionStoreProofs`: proved for any sessions and threads, and every timeout and time to
live with `Ttl >= Timeout` (`SessionAssumption`, the values of the configuration are equal):

* `SoundnessHolds`: `SessionsAreSound`. The DAO's `update` does not save a copy that is
  not valid, and nothing else makes a stored one invalid.
* `LogoutHolds`, `OneFaultHolds`: a logout clears the principal and saves that, then stops
  the session and deletes it, and a failed command leaves something else behind at each step.
  `SessionInv` says what: `CopiesAreChanged` (what is in hand carries what was
  done to it), `CleanLogoutIsOver` (with no fault and no rival the entry is gone, and
  nobody still works on it), `NoPrincipalIsLeft` (with one fault the entry or
  the copy in hand may remain, but without a principal). `SharedIsContested` makes the
  exception precise: two that work on one session are rivals.
* `LossesHold`: the action property `LostOnlyWhenIdle`. An entry expires
  by its time to live, and `TimeIsLeft` says that this and the age of the copy make up
  `Timeout`; a delete is by a logout, or of a copy found expired, which `ExpiredInHand` and
  `ScanIsCurrent` relate to the entry of now.

`OrganizationTreeProofs`: proved for any administrators, any number of ids and moves, every
width of the column and any founders with the properties in `OrganizationAssumption`:

* `PathsHold`: `PathsAreSound`. The pages hold
  records of any age, so the invariant is about all of them: until a move
  changes a row, all records of one organization (in the table, in forms, in moves) agree, and one
  below another has its path (`RecordsAgree`). Ids handed out are never handed
  out again (`IdsAreOld`).
* `TreeHolds`: until something is moved there is no cycle. It follows from `PathsHold`: a
  path is longer than the parent's, and a set of rows with no parent outside it would have no
  shortest path (`PathsAreAcyclic`, `LowestRank`). After a move it is false, see above.

The proof of `PathsHold` needed an assumption that the model did not state: the parent of a founder is
`NoParent` or a founder. Otherwise a later row could take the id
of a founder's missing parent, and its paths would not agree. The rows of `auth.sql` satisfy it.

`UserAccountsProofs`: proved for every set of administrators, names and passwords and
every number of ids and salts, from `AccountAssumption` (there are a name and a
password, and the bounds are positive):

* `TypeCorrect`: `TypeOK`, inductive together with `IdsAreOld`: a new row takes
  an id that no row and no form has, so ids stay unique.
* `SaltBelongsToHashHolds`, `LastEditHoldsHolds`, `LastPasswordLogsInHolds`: none is
  inductive, as what is written comes from a form. `AccountInv` adds `FormsFit`
  (salt and hash of a form fit, and what waits to be written logs in) and
  `FormsAreCurrent` (a form is still the row, but for a new password, unless the id
  is in `overlap`). `WriteInv` is the step both writing actions share: who writes
  a row that others hold puts its id into `overlap`, so their forms need not be
  current any more.

`CacheProofs`: proved for every finite set of threads and every bound on
applications and updates, from `AppCacheAssumption`:

* `CacheHolds`: `CacheIsSound`, that is `TypeOK` and `FinishedUpdatesAreSeen`. `CacheInv`
  follows the version of a row on its way to an answer: a row is as new as what is
  done and as what waits for its eviction (`RowsAreNew`); without the race so is
  the row that a find is about to put (`PutsAreNew`) and the entry (`CacheIsNew`); and what
  was done when a find started is done now (`StartsAreOld`). An entry may be older
  than its row as long as the eviction is to come, or failed: then nothing is
  done. `IdsAreOld` says that ids not yet handed out are nowhere, for the
  insert, and `VersionsSuffice` that the bound on updates is kept, for the types.

`TreeTableProofs`: proved for every set of nodes that does not contain `None`, any rows
and branches of the page, expandable or not, any initial state, and any number of
loads, moves, removals and sorts (`TreeTableAssumption`, which has the ids of the page
differ). Three inductive invariants carry it:

* `TableInv`, the nodes. `ForestIsImplemented` is the refinement `ImplementsForest`,
  step by step: `MoveStep`, `LoadStep` and `PruneStep` map each action that changes the
  tree to one of `Forest`, and `SortStep` and `BrowseStep` map the rest to a stutter.
  `Forest` prunes a node with all that is below it by parents, while `unloadBranch`
  walks the lists of children; so the steps need `ChildrenNameTheirParent`
  (`ChildrenHold`), which is not inductive: an id that is loaded must bring no children
  along. `TableInv` adds that a row which is not in the tree has none
  (`GoneHaveNoChildren`), and that the parents of the nodes are a forest (`ForestHolds`). "No
  cycle" says that no node reaches itself; `ClosedIsEmpty` turns it into: no set but
  the empty one holds a parent of each of its nodes. A move that made such a set would,
  cut down to the ancestors of the target, have one before (`MoveKeepsForest`).
* `ListInv`, the rows. `TableIsSoundHolds` is `TableIsSound`: the types, `NodesHaveRows` and
  `BranchesAreTogether`. That rows are in branches is not inductive. A move needs it for
  the branch that moves and for the ones it leaves and joins (`MoveTogether`). A load puts
  its rows after the row that `findLastNode` finds, which walks the last *children*: it is the
  last *row* of the branch only where rows are in the order of the lists of
  children, so `ListInv` adds that they are until something moves (`Ordered`,
  `LastIsLast`). An unload takes the last node for one that is not there, so it adds that
  children are in the tree until `removeNode` is used (`Listed`).
* `ViewInv`, what is shown. `RowsShowTheTreeHolds` is `RowsShowTheTree`. That an expanded
  node hides nothing needs, of `show`, that what it comes to was not shown (`ShowKeeps`):
  nothing is displayed below a node that is not expanded (`HiddenBelow`), and a
  node that starts collapsed hides nothing that was shown with it. An expander must be
  there for every node with children that was initialized, in the tree or not (`Drawn`),
  as `removeNode` leaves a child in the list of its parent.

The prover has no induction over data, so what recursion computes is proved by induction over sets.
`WFMin` and `NatLessThanWellFounded` of the library are about sets: `UpTo` is induction
for the set of the numbers that are right, and gives the solutions of `Only`, `Through` and
`FlattenSeq` (`IterationExists`). `Grounded` says that every set of nodes has
one with no child in it, which a finite forest does by counting (`ForestIsGrounded`); from
it `RecursionExists` gives `Preorder`, `Postorder` and `FindLastNode` a solution, which
is what `CHOOSE` chose (`PreorderEquation`), and each fact on them takes the set of
the nodes where it fails: one of them has no child in it. Orders of lists are spoken of
by `Precedes`, not by indices: `InsertFacts` says which row comes before which once
rows moved, and `Together` and `Ordered` follow from it without arithmetic.

`ValidationProofs`: proved for every finite set of fields, any rules and values, and any
number of changes and submits, from `ValidationAssumption`:

* `ValidatorHolds`, `FormsHold`, `PressesHold`: the three invariants of the run.
  None is inductive. `Sound` adds that a request on its way is for a pending
  remote field and about the value asked about last, unless the form was reset,
  and that what is remembered of a field that is not pending is what the server
  said; `PressesLast` adds that a submit that waits has its press left. `Checked`,
  the heart of the code, keeps them (`CheckedIsSound`), and every action but
  one is a few of such steps; `AnswerIsSound` and `StopRequestIsSound` are the
  answer that finds a submit waiting.

## Only model-checked

* Liveness (`LookupEnds`, `AbandonedSessionsVanish`, `LoadsEnd`, `PressIsDecided`), which
  is out of the prover's reach, as ENABLED is.
* All of `ZTreeEdit` and `ZTreeCheck`: their walks change what they walk over, with
  operators folded over lists of nodes. The inductions over sets of `TreeTableProofs`
  are for functions of the tree that stays as it is.
* The two runs that show a violation.

## Plan

1. Proofs: of `ZTreeEdit` that the data stay a tree (`TreeIsSound`), with the forest
   and the inductions of `TreeTableProofs`.
2. What is left of users: deleted users whose grants remain and whose id is handed
   out again after a restart of MySQL.

## Not modelled

Classes that no configuration wires (the packages `com.platform.redis` and
the caches beside it, the duplicate submission interceptors, the remote service,
the captcha), utilities without state, and the wording and layout of pages. Paging and
the UUID classes are arithmetic and formatting of one request: a `pageSize` of zero and an
offset beyond 32 bits are for unit tests. Of the scripts: zTree's `exhide`, whose functions no page
calls; `api.js`, which drives zTree's documentation; drags between two trees and the
hover buttons; groups and ignored fields of validate; minified copies. `core`, `excheck` and
`exedit` are the parts of `all-3.5.js` once more, and are modelled by it. Logging and formatting are left out everywhere. MySQL is
modelled as committing each statement atomically, Redis as executing each
command atomically.

## Running

    tlc -config MCAuthorization.cfg MCAuthorization
    tlapm AuthorizationProofs.tla
    tlapm PermissionLookupProofs.tla
    tlapm SessionStoreProofs.tla
    tlapm OrganizationTreeProofs.tla
    tlapm UserAccountsProofs.tla
    tlapm CacheProofs.tla
    tlapm TreeTableProofs.tla
    tlapm ValidationProofs.tla

`PROJECT.json` lists every run with its module and configuration. The two runs named
as violations stop with a counterexample: the behaviour they are there to show.
