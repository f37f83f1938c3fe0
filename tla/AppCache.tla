------------------------------ MODULE AppCache ------------------------------
(***************************************************************************)
(* AppServiceImpl: the applications in ss_app and the cache in Redis that  *)
(* Spring puts before findOne.  The cache has a single key, 'appId',       *)
(* whatever the application.  updateApp evicts it once the row is          *)
(* committed (spring-config.xml imports the cache advisor before the one   *)
(* for transactions, which makes it the outer one), deleteApp and          *)
(* createApp leave it alone.  Every access to MySQL or Redis is a step.    *)
(***************************************************************************)
EXTENDS Naturals, FiniteSets

CONSTANTS
    Thread,
    None,       \* nothing cached, no row
    MaxApps,    \* bound on the ids AUTO_INCREMENT hands out
    MaxVersion  \* bound on the updates

ASSUME AppCacheAssumption ==
    /\ IsFiniteSet(Thread)
    /\ MaxApps \in Nat \ {0} /\ MaxVersion \in Nat /\ None \notin Nat

VARIABLES
    apps,    \* ss_app: the version of each row; every update makes a new one
    nextId,  \* its AUTO_INCREMENT counter
    version, \* the last version made
    cache,   \* the entry under 'appId'
    req,     \* what each thread is at
    done,    \* history: the version of each row when an update last finished
    raced    \* history: an update was committed while a find had the old row

vars == <<apps, nextId, version, cache, req, done, raced>>

-----------------------------------------------------------------------------
Id == 1..MaxApps
Version == 0..MaxVersion
App == [id : Id, version : Version]
Entry == App \cup {None}
Since == [Id -> Version]

Idle     == [pc : {"idle"}]
Finding  == [pc : {"lookup", "select"}, asked : Id, since : Since]
              \cup [pc : {"put", "answered"}, asked : Id, since : Since,
                    row : Entry]
Updating == [pc : {"update"}, id : Id]
              \cup [pc : {"evict"}, id : Id, version : Version]

\* The parts of the state have their types.
TypeOK ==
    /\ apps \in [Id -> Version \cup {None}]
    /\ nextId \in 1..(MaxApps + 1)
    /\ version \in Version
    /\ cache \in Entry
    /\ req \in [Thread -> Idle \cup Finding \cup Updating]
    /\ done \in Since
    /\ raced \in BOOLEAN

Init ==
    /\ apps = [a \in Id |-> IF a = 1 THEN 0 ELSE None]
    /\ nextId = 2
    /\ version = 0
    /\ cache = None
    /\ req = [t \in Thread |-> [pc |-> "idle"]]
    /\ done = [a \in Id |-> 0]
    /\ raced = FALSE

-----------------------------------------------------------------------------
Goto(t, state) == req' = [req EXCEPT ![t] = state]
Finish(t) == Goto(t, [pc |-> "idle"])

(* findOne.                                                                *)

\* A page with the name of an application, or the form to edit or delete it.
Find(t) ==
    /\ req[t].pc = "idle"
    /\ \E a \in 1..(nextId - 1) :
         Goto(t, [pc |-> "lookup", asked |-> a, since |-> done])
    /\ UNCHANGED <<apps, nextId, version, cache, done, raced>>

Lookup(t) ==
    /\ req[t].pc = "lookup"
    /\ IF cache = None
         THEN Goto(t, [req[t] EXCEPT !.pc = "select"])
         ELSE Goto(t, [pc |-> "answered", asked |-> req[t].asked,
                       since |-> req[t].since, row |-> cache])
    /\ UNCHANGED <<apps, nextId, version, cache, done, raced>>

Row(a) == IF apps[a] = None THEN None ELSE [id |-> a, version |-> apps[a]]

SelectByPrimaryKey(t) ==
    /\ req[t].pc = "select"
    /\ Goto(t, [pc |-> "put", asked |-> req[t].asked, since |-> req[t].since,
                row |-> Row(req[t].asked)])
    /\ UNCHANGED <<apps, nextId, version, cache, done, raced>>

\* The entry stays until an eviction: redisCacheManager sets no expiry; putting
\* null takes it out.  When Redis fails, so does the request.
Put(t) ==
    /\ req[t].pc = "put"
    /\ \/ /\ cache' = req[t].row
          /\ Goto(t, [req[t] EXCEPT !.pc = "answered"])
       \/ Finish(t) /\ UNCHANGED cache
    /\ UNCHANGED <<apps, nextId, version, done, raced>>

Leave(t) ==
    /\ req[t].pc = "answered"
    /\ Finish(t)
    /\ UNCHANGED <<apps, nextId, version, cache, done, raced>>

-----------------------------------------------------------------------------
(* The forms.                                                              *)

\* POST /app/{id}/update: the hidden id of the form, which is the one of the
\* row it was filled with, takes precedence over the one in the path.
SubmitUpdate(t) ==
    /\ req[t].pc = "answered"
    /\ req[t].row # None
    /\ version + Cardinality({u \in Thread : req[u].pc = "update"}) < MaxVersion
    /\ Goto(t, [pc |-> "update", id |-> req[t].row.id])
    /\ UNCHANGED <<apps, nextId, version, cache, done, raced>>

UpdateByPrimaryKeySelective(t) ==
    /\ req[t].pc = "update"
    /\ LET a == req[t].id
       IN  IF apps[a] = None
             THEN UNCHANGED <<apps, version, raced>> /\ Finish(t)
             ELSE /\ apps' = [apps EXCEPT ![a] = version + 1]
                  /\ version' = version + 1
                  /\ raced' = (raced \/ \E u \in Thread : req[u].pc = "put"
                                                           /\ req[u].asked = a)
                  /\ Goto(t, [pc |-> "evict", id |-> a, version |-> version + 1])
    /\ UNCHANGED <<nextId, cache, done>>

\* (wrong) The key that is commented out, "#app.appKey": nothing is cached under it.
EvictedByAppKey == cache

\* @CacheEvict(key = "'appId'") takes out whatever is there.
Evicted == None

\* An eviction that fails ends the request with an error; the row is changed.
Evict(t) ==
    /\ req[t].pc = "evict"
    /\ \/ /\ cache' = Evicted
          /\ done' = [done EXCEPT ![req[t].id] =
                        IF @ < req[t].version THEN req[t].version ELSE @]
       \/ UNCHANGED <<cache, done>>
    /\ Finish(t)
    /\ UNCHANGED <<apps, nextId, version, raced>>

\* POST /app/{id}/delete takes the id from the path.
DeleteByPrimaryKey(t) ==
    /\ req[t].pc = "answered"
    /\ apps' = [apps EXCEPT ![req[t].asked] = None]
    /\ Finish(t)
    /\ UNCHANGED <<nextId, version, cache, done, raced>>

InsertSelective(t) ==
    /\ req[t].pc = "idle"
    /\ nextId <= MaxApps
    /\ apps' = [apps EXCEPT ![nextId] = 0]
    /\ nextId' = nextId + 1
    /\ UNCHANGED <<version, cache, req, done, raced>>

Next ==
    \E t \in Thread :
        \/ Find(t) \/ Lookup(t) \/ SelectByPrimaryKey(t) \/ Put(t) \/ Leave(t)
        \/ SubmitUpdate(t) \/ UpdateByPrimaryKeySelective(t) \/ Evict(t)
        \/ DeleteByPrimaryKey(t) \/ InsertSelective(t)

Spec == Init /\ [][Next]_vars

-----------------------------------------------------------------------------
(* Properties.                                                             *)

\* An update that is over is seen by every findOne that starts after it,
\* whoever else updates, deletes and reads, and though evictions fail: what it
\* answers is of that version or later.  The exception is the race of a
\* cache that is filled after reading: once an update was committed between
\* the select and the put of a findOne, the old row may stay in the cache.
FinishedUpdatesAreSeen ==
    \A t \in Thread :
        req[t].pc = "answered" /\ req[t].row # None /\ ~raced
          => req[t].row.version >= req[t].since[req[t].row.id]

\* Rows and cache have their types, and what is answered is no older than it may.
CacheIsSound == TypeOK /\ FinishedUpdatesAreSeen
=============================================================================
