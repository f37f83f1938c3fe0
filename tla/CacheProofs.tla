----------------------------- MODULE CacheProofs ----------------------------
(***************************************************************************)
(* What TLAPS proves of AppCache, for any finite set of threads and any    *)
(* number of applications and updates.                                     *)
(***************************************************************************)
EXTENDS AppCache, FiniteSetTheorems, TLAPS

-----------------------------------------------------------------------------
Request == Idle \cup Finding \cup Updating

\* The updates under way leave room for their versions.
Updaters == {u \in Thread : req[u].pc = "update"}
VersionsSuffice == version + Cardinality(Updaters) <= MaxVersion

\* Ids that were not handed out are nowhere.
OldId(a) == a < nextId

IdsAreOld ==
    /\ \A a \in Id : ~OldId(a) => apps[a] = None /\ done[a] = 0
    /\ cache # None => OldId(cache.id)
    /\ \A t \in Thread :
        /\ req[t].pc \in {"lookup", "select", "put", "answered"} => OldId(req[t].asked)
        /\ req[t].pc \in {"put", "answered"} /\ req[t].row # None => OldId(req[t].row.id)
        /\ req[t].pc \in {"update", "evict"} => OldId(req[t].id)

\* A row is as new as what is done, and as what is to be done by an eviction.
RowsAreNew ==
    /\ \A a \in Id : apps[a] # None => done[a] <= apps[a] /\ apps[a] <= version
    /\ \A t \in Thread :
        req[t].pc = "evict" /\ apps[req[t].id] # None => req[t].version <= apps[req[t].id]

\* What was done when a find started is done now.
StartsAreOld ==
    \A t \in Thread : req[t].pc \in {"lookup", "select", "put", "answered"} =>
        \A a \in Id : req[t].since[a] <= done[a]

\* Without the race the entry, and what is about to be put, is as new as what
\* is done; and what is about to be put as what is to be done.
CacheIsNew == ~raced /\ cache # None => done[cache.id] <= cache.version

PutsAreNew ==
    \A t \in Thread : ~raced /\ req[t].pc = "put" /\ req[t].row # None =>
        /\ req[t].row.id = req[t].asked
        /\ done[req[t].row.id] <= req[t].row.version
        /\ \A u \in Thread : req[u].pc = "evict" /\ req[u].id = req[t].row.id =>
                req[u].version <= req[t].row.version

CacheInv ==
    /\ TypeOK /\ VersionsSuffice /\ IdsAreOld /\ RowsAreNew /\ StartsAreOld
    /\ CacheIsNew /\ PutsAreNew /\ FinishedUpdatesAreSeen

-----------------------------------------------------------------------------
\* The fields of a request.
LEMMA RequestFields ==
    ASSUME NEW r \in Request
    PROVE  /\ r.pc \in {"idle", "lookup", "select", "put", "answered", "update", "evict"}
           /\ r.pc \in {"lookup", "select", "put", "answered"} =>
                r.asked \in Id /\ r.since \in Since
           /\ r.pc \in {"put", "answered"} => r.row \in Entry
           /\ r.pc \in {"update", "evict"} => r.id \in Id
           /\ r.pc = "evict" => r.version \in Version
BY DEF Request, Idle, Finding, Updating

LEMMA EntryFields ==
    ASSUME NEW e \in Entry, e # None
    PROVE  e.id \in Id /\ e.version \in Version /\ e \in App
BY DEF Entry, App

\* How many update when one thread goes elsewhere, or to an update.
LEMMA OneLess ==
    ASSUME NEW t \in Thread, NEW U \in SUBSET Thread, NEW W \in SUBSET Thread,
           U \ {t} = W \ {t}, t \notin W
    PROVE  /\ Cardinality(W) \in Nat /\ Cardinality(U) \in Nat
           /\ Cardinality(W) = Cardinality(U) - (IF t \in U THEN 1 ELSE 0)
<1>1. IsFiniteSet(U) /\ IsFiniteSet(W)
  BY AppCacheAssumption, FS_Subset
<1>2. Cardinality(W) \in Nat /\ Cardinality(U) \in Nat
  BY <1>1, FS_CardinalityType
<1>3. W = U \ {t}
  OBVIOUS
<1>4. CASE t \in U
  BY <1>1, <1>2, <1>3, <1>4, FS_RemoveElement
<1>5. CASE t \notin U
  <2>1. W = U
    BY <1>3, <1>5
  <2> QED BY <1>2, <1>5, <2>1
<1> QED BY <1>2, <1>4, <1>5

LEMMA OneMore ==
    ASSUME NEW t \in Thread, NEW U \in SUBSET Thread, t \notin U
    PROVE  Cardinality(U \cup {t}) = Cardinality(U) + 1 /\ Cardinality(U) \in Nat
BY AppCacheAssumption, FS_Subset, FS_AddElement, FS_CardinalityType

-----------------------------------------------------------------------------
\* What the step of one thread makes of the threads.
LEMMA ThreadGoes ==
    ASSUME req \in [Thread -> Request], NEW t \in Thread, NEW state \in Request,
           Goto(t, state)
    PROVE  /\ req' \in [Thread -> Request]
           /\ req'[t] = state
           /\ \A u \in Thread \ {t} : req'[u] = req[u]
           /\ Cardinality(Updaters) \in Nat /\ Cardinality(Updaters') \in Nat
           /\ state.pc # "update" =>
                Cardinality(Updaters') =
                    Cardinality(Updaters) - (IF req[t].pc = "update" THEN 1 ELSE 0)
           /\ state.pc = "update" /\ req[t].pc # "update" =>
                Cardinality(Updaters') = Cardinality(Updaters) + 1
<1>1. /\ req' \in [Thread -> Request] /\ req'[t] = state
      /\ \A u \in Thread \ {t} : req'[u] = req[u]
  BY DEF Goto
<1>2. Updaters \in SUBSET Thread /\ Updaters' \in SUBSET Thread
  BY DEF Updaters
<1>3. Cardinality(Updaters) \in Nat /\ Cardinality(Updaters') \in Nat
  BY <1>2, AppCacheAssumption, FS_Subset, FS_CardinalityType
<1>4. CASE state.pc # "update"
  <2>1. Updaters' \ {t} = Updaters \ {t} /\ t \notin Updaters'
    BY <1>1, <1>4 DEF Updaters
  <2>2. t \in Updaters <=> req[t].pc = "update"
    BY DEF Updaters
  <2>3. Cardinality(Updaters') = Cardinality(Updaters) - (IF t \in Updaters THEN 1 ELSE 0)
    BY <1>2, <2>1, OneLess
  <2> QED BY <1>1, <1>3, <1>4, <2>2, <2>3
<1>5. CASE state.pc = "update" /\ req[t].pc # "update"
  <2>1. Updaters' = Updaters \cup {t} /\ t \notin Updaters
    BY <1>1, <1>5 DEF Updaters
  <2>2. Cardinality(Updaters \cup {t}) = Cardinality(Updaters) + 1
    BY <1>2, <2>1, OneMore
  <2> QED BY <1>1, <1>3, <1>5, <2>1, <2>2
<1>6. CASE state.pc = "update" /\ req[t].pc = "update"
  BY <1>1, <1>3, <1>6
<1> QED BY <1>4, <1>5, <1>6

\* A thread that finds goes on, and nothing else changes: its new state is
\* enough to know.
LEMMA FindingKeepsInv ==
    ASSUME CacheInv, NEW t \in Thread, NEW state \in Request, Goto(t, state),
           UNCHANGED <<apps, nextId, version, cache, done, raced>>,
           state.pc \notin {"update", "evict"},
           state.pc # "idle" =>
                OldId(state.asked) /\ \A a \in Id : state.since[a] <= done[a],
           state.pc \in {"put", "answered"} /\ state.row # None => OldId(state.row.id),
           ~raced /\ state.pc = "put" /\ state.row # None =>
                /\ state.row.id = state.asked
                /\ done[state.row.id] <= state.row.version
                /\ \A u \in Thread : req[u].pc = "evict" /\ req[u].id = state.row.id =>
                        req[u].version <= state.row.version,
           ~raced /\ state.pc = "answered" /\ state.row # None =>
                state.row.version >= state.since[state.row.id]
    PROVE  CacheInv'
<1> USE AppCacheAssumption
<1>1. /\ apps \in [Id -> Version \cup {None}] /\ version \in Version
      /\ req \in [Thread -> Request]
  BY DEF CacheInv, TypeOK, Request
<1>2. /\ req' \in [Thread -> Request] /\ req'[t] = state
      /\ \A u \in Thread \ {t} : req'[u] = req[u]
      /\ Cardinality(Updaters) \in Nat /\ Cardinality(Updaters') \in Nat
      /\ Cardinality(Updaters') <= Cardinality(Updaters)
  BY <1>1, ThreadGoes
<1>3. TypeOK'
  BY <1>2 DEF CacheInv, TypeOK, Request
<1>4. VersionsSuffice'
  BY <1>1, <1>2 DEF CacheInv, VersionsSuffice, Version
<1>5. state.pc \in {"idle", "lookup", "select", "put", "answered"}
  BY RequestFields
<1>6. IdsAreOld'
  BY <1>2, <1>5 DEF CacheInv, IdsAreOld, OldId
<1>7. RowsAreNew'
  BY <1>2, <1>5 DEF CacheInv, RowsAreNew
<1>8. StartsAreOld'
  BY <1>2, <1>5 DEF CacheInv, StartsAreOld
<1>9. CacheIsNew'
  BY DEF CacheInv, CacheIsNew
<1>10. PutsAreNew'
  BY <1>2, <1>5 DEF CacheInv, PutsAreNew
<1>11. FinishedUpdatesAreSeen'
  BY <1>2, <1>5 DEF CacheInv, FinishedUpdatesAreSeen
<1> QED BY <1>3, <1>4, <1>6, <1>7, <1>8, <1>9, <1>10, <1>11 DEF CacheInv

\* The finds: the start, the entry, the row, putting it, and leaving.
LEMMA FindKeepsInv ==
    ASSUME CacheInv, NEW t \in Thread, Find(t)
    PROVE  CacheInv'
<1> USE AppCacheAssumption
<1>1. PICK a \in 1..(nextId - 1) : Goto(t, [pc |-> "lookup", asked |-> a, since |-> done])
  BY DEF Find
<1> DEFINE state == [pc |-> "lookup", asked |-> a, since |-> done]
<1>2. /\ nextId \in 1..(MaxApps + 1) /\ done \in Since
  BY DEF CacheInv, TypeOK
<1>3. a \in Id /\ OldId(a)
  BY <1>2 DEF Id, OldId
<1>4. state \in Request
  BY <1>2, <1>3 DEF Request, Finding
<1>5. \A b \in Id : done[b] <= done[b]
  BY <1>2 DEF Since, Version
<1> QED BY <1>1, <1>3, <1>4, <1>5, FindingKeepsInv DEF Find

LEMMA LookupKeepsInv ==
    ASSUME CacheInv, NEW t \in Thread, Lookup(t)
    PROVE  CacheInv'
<1> DEFINE r == req[t]
<1>1. /\ r \in Request /\ cache \in Entry /\ done \in Since
  BY DEF CacheInv, TypeOK, Request
<1>2. /\ r.pc = "lookup" /\ r.asked \in Id /\ r.since \in Since
      /\ OldId(r.asked) /\ \A a \in Id : r.since[a] <= done[a]
  BY <1>1, RequestFields DEF Lookup, CacheInv, IdsAreOld, StartsAreOld
<1>3. CASE cache = None
  <2> DEFINE state == [r EXCEPT !.pc = "select"]
  <2>1. state = [pc |-> "select", asked |-> r.asked, since |-> r.since]
    BY <1>1, <1>2 DEF Request, Idle, Finding, Updating
  <2>2. state \in Request
    BY <1>2, <2>1 DEF Request, Finding
  <2>3. Goto(t, state)
    BY <1>3 DEF Lookup
  <2> HIDE DEF state
  <2> QED BY <1>2, <2>1, <2>2, <2>3, FindingKeepsInv DEF Lookup
<1>4. CASE cache # None
  <2> DEFINE state == [pc |-> "answered", asked |-> r.asked, since |-> r.since,
                       row |-> cache]
  <2>1. state \in Request
    BY <1>1, <1>2 DEF Request, Finding
  <2>2. Goto(t, state)
    BY <1>4 DEF Lookup
  <2>3. OldId(cache.id)
    BY <1>4 DEF CacheInv, IdsAreOld
  <2>4. ~raced => r.since[cache.id] <= cache.version
    <3>1. cache.id \in Id /\ cache.version \in Version
      BY <1>1, <1>4, EntryFields
    <3>2. r.since[cache.id] <= done[cache.id]
      BY <1>2, <3>1
    <3>3. ~raced => done[cache.id] <= cache.version
      BY <1>4 DEF CacheInv, CacheIsNew
    <3> QED BY <1>1, <1>2, <3>1, <3>2, <3>3, AppCacheAssumption DEF Since, Version
  <2> QED BY <1>2, <2>1, <2>2, <2>3, <2>4, FindingKeepsInv DEF Lookup
<1> QED BY <1>3, <1>4

LEMMA SelectKeepsInv ==
    ASSUME CacheInv, NEW t \in Thread, SelectByPrimaryKey(t)
    PROVE  CacheInv'
<1> DEFINE r == req[t]
           a == r.asked
<1>1. /\ r \in Request /\ apps \in [Id -> Version \cup {None}] /\ done \in Since
  BY DEF CacheInv, TypeOK, Request
<1>2. /\ r.pc = "select" /\ a \in Id /\ r.since \in Since
      /\ OldId(a) /\ \A b \in Id : r.since[b] <= done[b]
  BY <1>1, RequestFields DEF SelectByPrimaryKey, CacheInv, IdsAreOld, StartsAreOld
<1>3. CASE apps[a] = None
  <2> DEFINE state == [pc |-> "put", asked |-> a, since |-> r.since, row |-> None]
  <2>1. state \in Request
    BY <1>2 DEF Request, Finding, Entry
  <2>2. Goto(t, state)
    BY <1>3 DEF SelectByPrimaryKey, Row
  <2> QED BY <1>2, <2>1, <2>2, FindingKeepsInv DEF SelectByPrimaryKey
<1>4. CASE apps[a] # None
  <2> DEFINE row == [id |-> a, version |-> apps[a]]
             state == [pc |-> "put", asked |-> a, since |-> r.since, row |-> row]
  <2>1. row \in App
    BY <1>1, <1>2, <1>4 DEF App
  <2>2. state \in Request
    BY <1>2, <2>1 DEF Request, Finding, Entry
  <2>3. Goto(t, state)
    BY <1>4 DEF SelectByPrimaryKey, Row
  <2>4. done[a] <= apps[a]
    BY <1>2, <1>4 DEF CacheInv, RowsAreNew
  <2>5. \A u \in Thread : req[u].pc = "evict" /\ req[u].id = a =>
                                req[u].version <= apps[a]
    BY <1>4 DEF CacheInv, RowsAreNew
  <2> QED BY <1>2, <2>2, <2>3, <2>4, <2>5, FindingKeepsInv DEF SelectByPrimaryKey
<1> QED BY <1>3, <1>4

LEMMA IdleKeepsInv ==
    ASSUME CacheInv, NEW t \in Thread, Finish(t),
           UNCHANGED <<apps, nextId, version, cache, done, raced>>
    PROVE  CacheInv'
<1> DEFINE state == [pc |-> "idle"]
<1>1. state \in Request /\ Goto(t, state)
  BY DEF Request, Idle, Finish
<1> QED BY <1>1, FindingKeepsInv

\* A row that was read is put without error: the entry is what the thread
\* had, and so is its answer.
LEMMA FilledKeepsInv ==
    ASSUME CacheInv, NEW t \in Thread, req[t].pc = "put", cache' = req[t].row,
           Goto(t, [req[t] EXCEPT !.pc = "answered"]),
           UNCHANGED <<apps, nextId, version, done, raced>>
    PROVE  CacheInv'
<1> DEFINE r == req[t]
           state == [pc |-> "answered", asked |-> r.asked, since |-> r.since, row |-> r.row]
<1>1. /\ apps \in [Id -> Version \cup {None}] /\ version \in Version
      /\ req \in [Thread -> Request] /\ r \in Request /\ done \in Since
  BY DEF CacheInv, TypeOK, Request
<1>2. /\ r.pc = "put" /\ r.asked \in Id /\ r.since \in Since /\ r.row \in Entry
      /\ OldId(r.asked) /\ \A a \in Id : r.since[a] <= done[a]
      /\ r.row # None => OldId(r.row.id)
  BY <1>1, RequestFields DEF CacheInv, IdsAreOld, StartsAreOld
<1>3. [r EXCEPT !.pc = "answered"] = state
  BY <1>1, <1>2 DEF Request, Idle, Finding, Updating
<1>4. state \in Request /\ Goto(t, state)
  BY <1>2, <1>3 DEF Request, Finding
<1>5. state.pc = "answered" /\ state.asked = r.asked /\ state.since = r.since /\ state.row = r.row
  OBVIOUS
<1> HIDE DEF state
<1>6. /\ req' \in [Thread -> Request] /\ req'[t] = state
      /\ \A u \in Thread \ {t} : req'[u] = req[u]
      /\ Cardinality(Updaters) \in Nat /\ Cardinality(Updaters') \in Nat
      /\ Cardinality(Updaters') = Cardinality(Updaters)
  BY <1>1, <1>4, <1>5, ThreadGoes
<1>7. TypeOK'
  BY <1>2, <1>6 DEF CacheInv, TypeOK, Request
<1>8. VersionsSuffice'
  BY <1>6 DEF CacheInv, VersionsSuffice
<1>9. IdsAreOld'
  BY <1>2, <1>5, <1>6 DEF CacheInv, IdsAreOld, OldId
<1>10. RowsAreNew'
  BY <1>5, <1>6 DEF CacheInv, RowsAreNew
<1>11. StartsAreOld'
  BY <1>2, <1>5, <1>6 DEF CacheInv, StartsAreOld
<1>12. CacheIsNew'
  BY <1>2 DEF CacheInv, CacheIsNew, PutsAreNew
<1>13. PutsAreNew'
  BY <1>5, <1>6 DEF CacheInv, PutsAreNew
<1>14. FinishedUpdatesAreSeen'
  <2>1. ASSUME r.row # None, ~raced PROVE r.row.version >= r.since[r.row.id]
    <3>1. r.row.id \in Id /\ r.row.version \in Version
      BY <1>2, <2>1, EntryFields
    <3>2. r.since[r.row.id] <= done[r.row.id]
      BY <1>2, <3>1
    <3>3. done[r.row.id] <= r.row.version
      BY <1>2, <2>1 DEF CacheInv, PutsAreNew
    <3> QED BY <1>1, <1>2, <3>1, <3>2, <3>3, AppCacheAssumption DEF Since, Version
  <2>2. ASSUME NEW u \in Thread \ {t}
        PROVE  req'[u].pc = "answered" /\ req'[u].row # None /\ ~raced =>
                    req'[u].row.version >= req'[u].since[req'[u].row.id]
    BY <1>6 DEF CacheInv, FinishedUpdatesAreSeen
  <2> QED BY <1>5, <1>6, <2>1, <2>2 DEF FinishedUpdatesAreSeen
<1> QED BY <1>7, <1>8, <1>9, <1>10, <1>11, <1>12, <1>13, <1>14 DEF CacheInv

LEMMA PutKeepsInv ==
    ASSUME CacheInv, NEW t \in Thread, Put(t)
    PROVE  CacheInv'
<1>1. CASE cache' = req[t].row /\ Goto(t, [req[t] EXCEPT !.pc = "answered"])
  BY <1>1, FilledKeepsInv DEF Put
<1>2. CASE Finish(t) /\ UNCHANGED cache
  BY <1>2, IdleKeepsInv DEF Put
<1> QED BY <1>1, <1>2 DEF Put

\* The form: one more update is under way, for which there is a version.
LEMMA SubmitKeepsInv ==
    ASSUME CacheInv, NEW t \in Thread, SubmitUpdate(t)
    PROVE  CacheInv'
<1> DEFINE r == req[t]
           state == [pc |-> "update", id |-> r.row.id]
<1>1. /\ version \in Version /\ req \in [Thread -> Request] /\ r \in Request
  BY DEF CacheInv, TypeOK, Request
<1>2. r.pc = "answered" /\ r.row # None /\ r.row \in Entry /\ OldId(r.row.id)
  BY <1>1, RequestFields DEF SubmitUpdate, CacheInv, IdsAreOld
<1>3. state \in Request /\ Goto(t, state)
  BY <1>2, EntryFields DEF Request, Updating, SubmitUpdate
<1>4. state.pc = "update" /\ state.id = r.row.id
  OBVIOUS
<1> HIDE DEF state
<1>5. /\ req' \in [Thread -> Request] /\ req'[t] = state
      /\ \A u \in Thread \ {t} : req'[u] = req[u]
      /\ Cardinality(Updaters) \in Nat /\ Cardinality(Updaters') \in Nat
      /\ Cardinality(Updaters') = Cardinality(Updaters) + 1
  BY <1>1, <1>2, <1>3, <1>4, ThreadGoes
<1>6. TypeOK'
  BY <1>5 DEF CacheInv, TypeOK, Request, SubmitUpdate
<1>7. VersionsSuffice'
  BY <1>1, <1>5, AppCacheAssumption DEF VersionsSuffice, SubmitUpdate, Updaters, Version
<1>8. IdsAreOld'
  BY <1>2, <1>4, <1>5 DEF CacheInv, IdsAreOld, OldId, SubmitUpdate
<1>9. RowsAreNew'
  BY <1>4, <1>5 DEF CacheInv, RowsAreNew, SubmitUpdate
<1>10. StartsAreOld'
  BY <1>4, <1>5 DEF CacheInv, StartsAreOld, SubmitUpdate
<1>11. CacheIsNew'
  BY DEF CacheInv, CacheIsNew, SubmitUpdate
<1>12. PutsAreNew'
  BY <1>4, <1>5 DEF CacheInv, PutsAreNew, SubmitUpdate
<1>13. FinishedUpdatesAreSeen'
  BY <1>4, <1>5 DEF CacheInv, FinishedUpdatesAreSeen, SubmitUpdate
<1> QED BY <1>6, <1>7, <1>8, <1>9, <1>10, <1>11, <1>12, <1>13 DEF CacheInv

-----------------------------------------------------------------------------
\* A row that is there gets the next version; its thread is to evict.
LEMMA UpdatedKeepsInv ==
    ASSUME CacheInv, NEW t \in Thread, NEW a \in Id,
           req[t].pc = "update", a = req[t].id, apps[a] # None,
           apps' = [apps EXCEPT ![a] = version + 1], version' = version + 1,
           raced' = (raced \/ \E u \in Thread : req[u].pc = "put" /\ req[u].asked = a),
           Goto(t, [pc |-> "evict", id |-> a, version |-> version + 1]),
           UNCHANGED <<nextId, cache, done>>
    PROVE  CacheInv'
<1> DEFINE state == [pc |-> "evict", id |-> a, version |-> version + 1]
<1> USE AppCacheAssumption
<1>1. /\ apps \in [Id -> Version \cup {None}] /\ version \in Version
      /\ req \in [Thread -> Request] /\ done \in Since /\ OldId(a)
  BY DEF CacheInv, TypeOK, Request, IdsAreOld
<1>2. Updaters \in SUBSET Thread /\ t \in Updaters
  BY DEF Updaters
<1>3. version + 1 \in Version
  <2>1. Cardinality(Updaters) \in Nat /\ Cardinality(Updaters \ {t}) \in Nat
        /\ Cardinality(Updaters \ {t}) = Cardinality(Updaters) - 1
    <3> DEFINE W == Updaters \ {t}
    <3>1. W \in SUBSET Thread /\ t \notin W /\ Updaters \ {t} = W \ {t}
      BY <1>2
    <3> HIDE DEF W
    <3>2. /\ Cardinality(W) \in Nat /\ Cardinality(Updaters) \in Nat
          /\ Cardinality(W) = Cardinality(Updaters) - (IF t \in Updaters THEN 1 ELSE 0)
      BY <1>2, <3>1, OneLess
    <3> QED BY <1>2, <3>2 DEF W
  <2> QED BY <1>1, <2>1 DEF CacheInv, VersionsSuffice, Version
<1>4. state \in Request /\ Goto(t, state)
  BY <1>3 DEF Request, Updating
<1>5. state.pc = "evict" /\ state.id = a /\ state.version = version + 1
  OBVIOUS
<1> HIDE DEF state
<1>6. /\ req' \in [Thread -> Request] /\ req'[t] = state
      /\ \A u \in Thread \ {t} : req'[u] = req[u]
      /\ Cardinality(Updaters) \in Nat /\ Cardinality(Updaters') \in Nat
      /\ Cardinality(Updaters') = Cardinality(Updaters) - 1
  BY <1>1, <1>4, <1>5, ThreadGoes
<1>7. /\ apps' \in [Id -> Version \cup {None}] /\ apps'[a] = version + 1
      /\ \A b \in Id \ {a} : apps'[b] = apps[b]
  BY <1>1, <1>3
<1>8. TypeOK'
  BY <1>3, <1>6, <1>7 DEF CacheInv, TypeOK, Request
<1>9. VersionsSuffice'
  BY <1>1, <1>6 DEF CacheInv, VersionsSuffice, Version
<1>10. IdsAreOld'
  BY <1>1, <1>5, <1>6, <1>7 DEF CacheInv, IdsAreOld, OldId
<1>11. RowsAreNew'
  <2>1. ASSUME NEW b \in Id, apps'[b] # None
        PROVE  done[b] <= apps'[b] /\ apps'[b] <= version + 1
    <3>1. CASE b = a
      BY <1>1, <1>7, <3>1 DEF CacheInv, RowsAreNew, Since, Version
    <3>2. CASE b # a
      <4>1. done[b] <= apps[b] /\ apps[b] <= version /\ apps'[b] = apps[b]
        BY <1>7, <2>1, <3>2 DEF CacheInv, RowsAreNew
      <4> QED BY <1>1, <2>1, <4>1 DEF Version
    <3> QED BY <3>1, <3>2
  <2>2. ASSUME NEW u \in Thread, req'[u].pc = "evict", apps'[req'[u].id] # None
        PROVE  req'[u].version <= apps'[req'[u].id]
    <3>1. CASE u = t
      BY <1>1, <1>5, <1>6, <1>7, <3>1 DEF Version
    <3>2. CASE u # t
      <4>1. req'[u] = req[u] /\ req[u].id \in Id /\ req[u].version \in Version
        BY <1>1, <1>6, <2>2, <3>2, RequestFields
      <4>2. CASE req[u].id = a
        <5>1. req[u].version <= apps[a] /\ apps[a] <= version /\ apps[a] \in Version
          BY <1>1, <2>2, <4>1, <4>2 DEF CacheInv, RowsAreNew
        <5> QED BY <1>1, <1>7, <4>1, <4>2, <5>1 DEF Version
      <4>3. CASE req[u].id # a
        BY <1>7, <2>2, <4>1, <4>3 DEF CacheInv, RowsAreNew
      <4> QED BY <4>2, <4>3
    <3> QED BY <3>1, <3>2
  <2> QED BY <2>1, <2>2 DEF RowsAreNew
<1>12. StartsAreOld'
  BY <1>5, <1>6 DEF CacheInv, StartsAreOld
<1>13. CacheIsNew'
  BY DEF CacheInv, CacheIsNew
<1>14. PutsAreNew'
  <2>1. ASSUME NEW u \in Thread, ~raced', req'[u].pc = "put", req'[u].row # None
        PROVE  /\ req'[u].row.id = req'[u].asked
               /\ done[req'[u].row.id] <= req'[u].row.version
               /\ \A w \in Thread : req'[w].pc = "evict" /\ req'[w].id = req'[u].row.id =>
                       req'[w].version <= req'[u].row.version
    <3>1. u # t /\ req'[u] = req[u]
      BY <1>5, <1>6, <2>1
    <3>2. ~raced /\ req[u].asked # a
      BY <2>1, <3>1
    <3>3. req[u].row.id = req[u].asked
      BY <2>1, <3>1, <3>2 DEF CacheInv, PutsAreNew
    <3>4. ASSUME NEW w \in Thread, req'[w].pc = "evict", req'[w].id = req[u].row.id
          PROVE  req'[w].version <= req[u].row.version
      <4>1. w # t
        BY <1>5, <1>6, <3>2, <3>3, <3>4
      <4>2. req'[w] = req[w]
        BY <1>6, <4>1
      <4> QED BY <2>1, <3>1, <3>2, <3>4, <4>2 DEF CacheInv, PutsAreNew
    <3> QED BY <2>1, <3>1, <3>2, <3>4 DEF CacheInv, PutsAreNew
  <2> QED BY <2>1 DEF PutsAreNew
<1>15. FinishedUpdatesAreSeen'
  BY <1>5, <1>6 DEF CacheInv, FinishedUpdatesAreSeen
<1> QED BY <1>8, <1>9, <1>10, <1>11, <1>12, <1>13, <1>14, <1>15 DEF CacheInv

LEMMA UpdateKeepsInv ==
    ASSUME CacheInv, NEW t \in Thread, UpdateByPrimaryKeySelective(t)
    PROVE  CacheInv'
<1>1. req[t] \in Request /\ req[t].pc = "update" /\ req[t].id \in Id
  BY RequestFields DEF CacheInv, TypeOK, Request, UpdateByPrimaryKeySelective
<1>2. CASE apps[req[t].id] = None
  BY <1>2, IdleKeepsInv DEF UpdateByPrimaryKeySelective
<1>3. CASE apps[req[t].id] # None
  BY <1>1, <1>3, UpdatedKeepsInv DEF UpdateByPrimaryKeySelective
<1> QED BY <1>2, <1>3

\* The eviction: what is done catches up with the row, and the entry goes.
LEMMA EvictedKeepsInv ==
    ASSUME CacheInv, NEW t \in Thread, NEW a \in Id, NEW v \in Version,
           req[t].pc = "evict", a = req[t].id, v = req[t].version,
           cache' = None, done' = [done EXCEPT ![a] = IF @ < v THEN v ELSE @],
           Finish(t), UNCHANGED <<apps, nextId, version, raced>>
    PROVE  CacheInv'
<1> DEFINE state == [pc |-> "idle"]
<1> USE AppCacheAssumption
<1>1. /\ apps \in [Id -> Version \cup {None}] /\ version \in Version
      /\ req \in [Thread -> Request] /\ done \in Since /\ OldId(a)
  BY DEF CacheInv, TypeOK, Request, IdsAreOld
<1>2. state \in Request /\ Goto(t, state) /\ state.pc = "idle"
  BY DEF Request, Idle, Finish
<1> HIDE DEF state
<1>3. /\ req' \in [Thread -> Request] /\ req'[t] = state
      /\ \A u \in Thread \ {t} : req'[u] = req[u]
      /\ Cardinality(Updaters) \in Nat /\ Cardinality(Updaters') \in Nat
      /\ Cardinality(Updaters') = Cardinality(Updaters)
  BY <1>1, <1>2, ThreadGoes
<1>4. /\ done' \in Since
      /\ \A b \in Id \ {a} : done'[b] = done[b]
      /\ done[a] <= done'[a] /\ v <= done'[a] /\ done'[a] \in {done[a], v}
  BY <1>1 DEF Since, Version
<1>5. \A b \in Id : done[b] \in Nat /\ done'[b] \in Nat /\ done[b] <= done'[b]
  BY <1>1, <1>4 DEF Since, Version
<1>6. TypeOK'
  BY <1>3, <1>4 DEF CacheInv, TypeOK, Request, Entry
<1>7. VersionsSuffice'
  BY <1>3 DEF CacheInv, VersionsSuffice
<1>8. IdsAreOld'
  BY <1>1, <1>2, <1>3, <1>4 DEF CacheInv, IdsAreOld, OldId
<1>9. RowsAreNew'
  <2>1. ASSUME NEW b \in Id, apps[b] # None
        PROVE  done'[b] <= apps[b] /\ apps[b] <= version
    BY <1>4, <2>1 DEF CacheInv, RowsAreNew
  <2>2. ASSUME NEW u \in Thread, req'[u].pc = "evict", apps[req'[u].id] # None
        PROVE  req'[u].version <= apps[req'[u].id]
    BY <1>2, <1>3, <2>2 DEF CacheInv, RowsAreNew
  <2> QED BY <2>1, <2>2 DEF RowsAreNew
<1>10. StartsAreOld'
  <2>1. ASSUME NEW u \in Thread, req'[u].pc \in {"lookup", "select", "put", "answered"},
               NEW b \in Id
        PROVE  req'[u].since[b] <= done'[b]
    <3>1. req'[u] = req[u]
      BY <1>2, <1>3, <2>1
    <3>2. req[u].since \in Since /\ req[u].since[b] <= done[b]
      BY <1>1, <2>1, <3>1, RequestFields DEF CacheInv, StartsAreOld
    <3> QED BY <1>5, <3>1, <3>2 DEF Since, Version
  <2> QED BY <2>1 DEF StartsAreOld
<1>11. CacheIsNew'
  BY DEF CacheIsNew
<1>12. PutsAreNew'
  <2>1. ASSUME NEW u \in Thread, ~raced, req'[u].pc = "put", req'[u].row # None
        PROVE  /\ req'[u].row.id = req'[u].asked
               /\ done'[req'[u].row.id] <= req'[u].row.version
               /\ \A w \in Thread : req'[w].pc = "evict" /\ req'[w].id = req'[u].row.id =>
                       req'[w].version <= req'[u].row.version
    <3>1. req'[u] = req[u]
      BY <1>2, <1>3, <2>1
    <3>2. req[u].row.id \in Id
      BY <1>1, <2>1, <3>1, RequestFields, EntryFields
    <3>3. /\ req[u].row.id = req[u].asked
          /\ done[req[u].row.id] <= req[u].row.version
          /\ \A w \in Thread : req[w].pc = "evict" /\ req[w].id = req[u].row.id =>
                  req[w].version <= req[u].row.version
      BY <2>1, <3>1 DEF CacheInv, PutsAreNew
    <3>4. done'[req[u].row.id] <= req[u].row.version
      BY <1>4, <3>2, <3>3
    <3>5. \A w \in Thread : req'[w].pc = "evict" => req'[w] = req[w]
      BY <1>2, <1>3
    <3> QED BY <3>1, <3>3, <3>4, <3>5
  <2> QED BY <2>1 DEF PutsAreNew
<1>13. FinishedUpdatesAreSeen'
  BY <1>2, <1>3 DEF CacheInv, FinishedUpdatesAreSeen
<1> QED BY <1>6, <1>7, <1>8, <1>9, <1>10, <1>11, <1>12, <1>13 DEF CacheInv

LEMMA EvictKeepsInv ==
    ASSUME CacheInv, NEW t \in Thread, Evict(t)
    PROVE  CacheInv'
<1>1. /\ req[t] \in Request /\ req[t].pc = "evict"
      /\ req[t].id \in Id /\ req[t].version \in Version
  BY RequestFields DEF CacheInv, TypeOK, Request, Evict
<1>2. CASE UNCHANGED <<cache, done>>
  BY <1>2, IdleKeepsInv DEF Evict
<1>3. CASE /\ cache' = Evicted
           /\ done' = [done EXCEPT ![req[t].id] =
                         IF @ < req[t].version THEN req[t].version ELSE @]
  BY <1>1, <1>3, EvictedKeepsInv DEF Evict, Evicted
<1> QED BY <1>2, <1>3 DEF Evict

-----------------------------------------------------------------------------
\* A row that goes leaves nothing to be newer than.
LEMMA DeleteKeepsInv ==
    ASSUME CacheInv, NEW t \in Thread, DeleteByPrimaryKey(t)
    PROVE  CacheInv'
<1> DEFINE state == [pc |-> "idle"]
           a == req[t].asked
<1> USE AppCacheAssumption
<1>1. /\ apps \in [Id -> Version \cup {None}] /\ req \in [Thread -> Request]
      /\ a \in Id
  BY RequestFields DEF CacheInv, TypeOK, Request, DeleteByPrimaryKey
<1>2. state \in Request /\ Goto(t, state) /\ state.pc = "idle"
  BY DEF Request, Idle, Finish, DeleteByPrimaryKey
<1> HIDE DEF state
<1>3. /\ req' \in [Thread -> Request] /\ req'[t] = state
      /\ \A u \in Thread \ {t} : req'[u] = req[u]
      /\ Cardinality(Updaters) \in Nat /\ Cardinality(Updaters') \in Nat
      /\ Cardinality(Updaters') = Cardinality(Updaters)
  BY <1>1, <1>2, ThreadGoes DEF DeleteByPrimaryKey
<1>4. /\ apps' \in [Id -> Version \cup {None}] /\ apps'[a] = None
      /\ \A b \in Id \ {a} : apps'[b] = apps[b]
      /\ UNCHANGED <<nextId, version, cache, done, raced>>
  BY <1>1 DEF DeleteByPrimaryKey
<1>5. TypeOK'
  BY <1>3, <1>4 DEF CacheInv, TypeOK, Request
<1>6. VersionsSuffice'
  BY <1>3, <1>4 DEF CacheInv, VersionsSuffice
<1>7. IdsAreOld'
  BY <1>2, <1>3, <1>4 DEF CacheInv, IdsAreOld, OldId
<1>8. RowsAreNew'
  <2>1. ASSUME NEW b \in Id, apps'[b] # None
        PROVE  done[b] <= apps'[b] /\ apps'[b] <= version
    BY <1>4, <2>1 DEF CacheInv, RowsAreNew
  <2>2. ASSUME NEW u \in Thread, req'[u].pc = "evict", apps'[req'[u].id] # None
        PROVE  req'[u].version <= apps'[req'[u].id]
    <3>1. req'[u] = req[u] /\ req[u].id \in Id
      BY <1>1, <1>2, <1>3, <2>2, RequestFields
    <3>2. apps'[req[u].id] = apps[req[u].id]
      BY <1>4, <2>2, <3>1
    <3> QED BY <2>2, <3>1, <3>2 DEF CacheInv, RowsAreNew
  <2> QED BY <1>4, <2>1, <2>2 DEF RowsAreNew
<1>9. StartsAreOld'
  BY <1>2, <1>3, <1>4 DEF CacheInv, StartsAreOld
<1>10. CacheIsNew'
  BY <1>4 DEF CacheInv, CacheIsNew
<1>11. PutsAreNew'
  BY <1>2, <1>3, <1>4 DEF CacheInv, PutsAreNew
<1>12. FinishedUpdatesAreSeen'
  BY <1>2, <1>3, <1>4 DEF CacheInv, FinishedUpdatesAreSeen
<1> QED BY <1>5, <1>6, <1>7, <1>8, <1>9, <1>10, <1>11, <1>12 DEF CacheInv

\* The new row has an id that nothing names.
LEMMA InsertKeepsInv ==
    ASSUME CacheInv, NEW t \in Thread, InsertSelective(t)
    PROVE  CacheInv'
<1> USE AppCacheAssumption
<1>1. /\ apps \in [Id -> Version \cup {None}] /\ req \in [Thread -> Request]
      /\ nextId \in 1..(MaxApps + 1) /\ nextId <= MaxApps /\ version \in Version
      /\ UNCHANGED <<version, cache, req, done, raced>> /\ nextId' = nextId + 1
  BY DEF CacheInv, TypeOK, Request, InsertSelective
<1>2. nextId \in Id /\ ~OldId(nextId) /\ done[nextId] = 0
  BY <1>1 DEF Id, OldId, CacheInv, IdsAreOld
<1>3. /\ apps' \in [Id -> Version \cup {None}] /\ apps'[nextId] = 0
      /\ \A b \in Id \ {nextId} : apps'[b] = apps[b]
  BY <1>1, <1>2 DEF InsertSelective, Version
<1>4. TypeOK'
  BY <1>1, <1>3 DEF CacheInv, TypeOK
<1>5. VersionsSuffice'
  BY <1>1 DEF CacheInv, VersionsSuffice, Updaters
<1>6. \A b \in Id : OldId(b) => OldId(b)'
  BY <1>1 DEF OldId, Id
<1>7. \A b \in Id : ~OldId(b)' => ~OldId(b) /\ b # nextId
  BY <1>1 DEF OldId, Id
<1>8. IdsAreOld'
  <2>1. \A u \in Thread : req[u] \in Request
    BY <1>1
  <2>2. cache # None => cache.id \in Id
    BY EntryFields DEF CacheInv, TypeOK
  <2>3. \A u \in Thread :
            /\ req[u].pc \in {"lookup", "select", "put", "answered"} => req[u].asked \in Id
            /\ req[u].pc \in {"put", "answered"} /\ req[u].row # None => req[u].row.id \in Id
            /\ req[u].pc \in {"update", "evict"} => req[u].id \in Id
    BY <2>1, RequestFields, EntryFields
  <2>4. \A b \in Id : ~OldId(b)' => apps'[b] = None /\ done'[b] = 0
    BY <1>1, <1>3, <1>7 DEF CacheInv, IdsAreOld
  <2>5. \A u \in Thread :
            /\ req[u].pc \in {"lookup", "select", "put", "answered"} => OldId(req[u].asked)'
            /\ req[u].pc \in {"put", "answered"} /\ req[u].row # None => OldId(req[u].row.id)'
            /\ req[u].pc \in {"update", "evict"} => OldId(req[u].id)'
    BY <1>1, <2>3 DEF CacheInv, IdsAreOld, OldId, Id
  <2>6. cache # None => OldId(cache.id)'
    BY <1>1, <2>2 DEF CacheInv, IdsAreOld, OldId, Id
  <2> QED BY <1>1, <2>4, <2>5, <2>6 DEF IdsAreOld, OldId
<1>9. RowsAreNew'
  <2>1. ASSUME NEW b \in Id, apps'[b] # None
        PROVE  done[b] <= apps'[b] /\ apps'[b] <= version
    BY <1>1, <1>2, <1>3, <2>1 DEF CacheInv, RowsAreNew, Version
  <2>2. ASSUME NEW u \in Thread, req[u].pc = "evict", apps'[req[u].id] # None
        PROVE  req[u].version <= apps'[req[u].id]
    <3>1. req[u].id \in Id /\ OldId(req[u].id)
      BY <1>1, <2>2, RequestFields DEF CacheInv, IdsAreOld
    <3>2. apps'[req[u].id] = apps[req[u].id]
      BY <1>2, <1>3, <3>1
    <3> QED BY <2>2, <3>2 DEF CacheInv, RowsAreNew
  <2> QED BY <1>1, <2>1, <2>2 DEF RowsAreNew
<1>10. StartsAreOld'
  BY <1>1 DEF CacheInv, StartsAreOld
<1>11. CacheIsNew'
  BY <1>1 DEF CacheInv, CacheIsNew
<1>12. PutsAreNew'
  BY <1>1 DEF CacheInv, PutsAreNew
<1>13. FinishedUpdatesAreSeen'
  BY <1>1 DEF CacheInv, FinishedUpdatesAreSeen
<1> QED BY <1>4, <1>5, <1>8, <1>9, <1>10, <1>11, <1>12, <1>13 DEF CacheInv

-----------------------------------------------------------------------------
LEMMA InitHasInv == Init => CacheInv
<1> USE AppCacheAssumption
<1> SUFFICES ASSUME Init PROVE CacheInv
  OBVIOUS
<1>1. 0 \in Version /\ 1 \in Id /\ None \notin Version
  BY DEF Version, Id
<1>2. \A t \in Thread : req[t] = [pc |-> "idle"]
  BY DEF Init
<1>3. TypeOK
  <2>1. apps \in [Id -> Version \cup {None}] /\ done \in [Id -> Version]
    BY <1>1 DEF Init
  <2>2. nextId \in 1..(MaxApps + 1)
    BY DEF Init
  <2>3. [pc |-> "idle"] \in Idle
    BY DEF Idle
  <2>4. req \in [Thread -> Idle \cup Finding \cup Updating]
    BY <2>3 DEF Init
  <2> QED BY <1>1, <2>1, <2>2, <2>4 DEF Init, TypeOK, Entry, Since
<1>4. VersionsSuffice
  <2>1. Updaters = {}
    BY <1>2 DEF Updaters
  <2> QED BY <2>1, FS_EmptySet DEF Init, VersionsSuffice
<1>5. IdsAreOld
  BY <1>2 DEF Init, IdsAreOld, OldId, Id
<1>6. RowsAreNew
  BY <1>1, <1>2 DEF Init, RowsAreNew
<1>7. StartsAreOld /\ CacheIsNew /\ PutsAreNew /\ FinishedUpdatesAreSeen
  BY <1>2 DEF Init, StartsAreOld, CacheIsNew, PutsAreNew, FinishedUpdatesAreSeen
<1> QED BY <1>3, <1>4, <1>5, <1>6, <1>7 DEF CacheInv

LEMMA StepKeepsInv == CacheInv /\ [Next]_vars => CacheInv'
<1> SUFFICES ASSUME CacheInv, [Next]_vars PROVE CacheInv'
  OBVIOUS
<1>1. ASSUME NEW t \in Thread, Leave(t) PROVE CacheInv'
  BY <1>1, IdleKeepsInv DEF Leave
<1>2. CASE Next
  BY <1>1, <1>2, FindKeepsInv, LookupKeepsInv, SelectKeepsInv, PutKeepsInv,
     SubmitKeepsInv, UpdateKeepsInv, EvictKeepsInv, DeleteKeepsInv, InsertKeepsInv DEF Next
<1>3. CASE UNCHANGED vars
  BY <1>3 DEF vars, CacheInv, TypeOK, VersionsSuffice, Updaters, IdsAreOld, OldId,
     RowsAreNew, StartsAreOld, CacheIsNew, PutsAreNew, FinishedUpdatesAreSeen
<1> QED BY <1>2, <1>3

\* An update that is over is seen by every findOne that starts after it, for
\* any threads, applications and updates, but for the race of the put:
\* AppServiceImpl.updateApp, its eviction and findOne.
THEOREM CacheHolds == Spec => []CacheIsSound
<1>1. CacheInv => CacheIsSound
  BY DEF CacheInv, CacheIsSound
<1> QED BY <1>1, InitHasInv, StepKeepsInv, PTL DEF Spec

=============================================================================
