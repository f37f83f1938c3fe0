---------------------------- MODULE SessionStore ----------------------------
(***************************************************************************)
(* The login sessions: RedisShiroSessionDao keeps each one under its id in *)
(* Redis, with a time to live of 30 minutes (RedisServiceImpl), for Shiro, *)
(* whose session manager times it out 30 minutes after its last access     *)
(* (spring-config-shiro.xml).  The web applications that share the Redis   *)
(* server run request threads, and a validation scheduler.                 *)
(*                                                                         *)
(* Shiro's session manager and the Redis server are external: they are     *)
(* modelled from how the configuration and the DAO use them.  Every change *)
(* Shiro makes to a session (touch, setAttribute, removeAttribute, stop)   *)
(* reads a copy through the DAO, validates and changes it, and passes it   *)
(* to update: two commands of Redis, between which others may run.  Any    *)
(* command may fail: the DAO catches the exception and carries on.  (One   *)
(* that fails after Redis has executed it is a command that succeeded.)    *)
(*                                                                         *)
(* Time passes in ticks.  It is kept as ages, which stop counting once     *)
(* they are beyond Timeout, so that it needs no bound.                     *)
(***************************************************************************)
EXTENDS Naturals

CONSTANTS
    Session, \* session ids
    Thread,  \* request threads
    Timeout, \* globalSessionTimeout, in ticks
    Ttl      \* the time to live updateCached gives, in ticks

ASSUME SessionAssumption ==
    /\ Timeout \in Nat \ {0}
    /\ Ttl \in Nat \ {0}
    /\ Ttl >= Timeout

VARIABLES
    redis,     \* the entries of the Redis server
    req,       \* what each thread is doing
    scan,      \* the validation scheduler
    ended,     \* history: the sessions whose logout is over, until a login
    contested, \* history: sessions that two actors were at work on at once
    faults     \* history: failed commands on each session, up to two

vars == <<redis, req, scan, ended, contested, faults>>

-----------------------------------------------------------------------------
Age == 0..(Timeout + 1)

\* A session object: whether it has a principal, the time since its last
\* access, and whether it is valid, neither stopped nor expired.
Copy == [in : BOOLEAN, age : Age, valid : BOOLEAN]
Entry == [id : Session, ttl : 1..Ttl, copy : Copy]

\* What a thread may do to a session; a logout is "clear" and then "stop".
Op == {"touch", "login", "clear", "stop"}

Idle == [pc : {"idle"}]
Stopping == [pc : {"stop"}, id : Session]
\* A changed copy waits to be written, or a session to be deleted.
Holding == [pc : {"write", "delete"}, op : Op, id : Session, copy : Copy]

\* The scheduler: waiting; reading the listed keys one by one; validating the
\* copies it read; or dead.  null: the value of a listed key was gone.
Scan == [pc : {"waiting", "reading", "validating", "dead"},
         keys : SUBSET Session, copies : SUBSET [id : Session, copy : Copy],
         null : BOOLEAN]

\* The parts of the state have their types.
TypeOK ==
    /\ redis \subseteq Entry
    /\ \A e, f \in redis : e.id = f.id => e = f
    /\ req \in [Thread -> Idle \cup Stopping \cup Holding]
    /\ scan \in Scan
    /\ ended \subseteq Session /\ contested \subseteq Session
    /\ faults \in [Session -> 0..2]

Waiting == [pc |-> "waiting", keys |-> {}, copies |-> {}, null |-> FALSE]

Init ==
    /\ redis = {}
    /\ req = [t \in Thread |-> [pc |-> "idle"]]
    /\ scan = Waiting
    /\ ended = {} /\ contested = {}
    /\ faults = [id \in Session |-> 0]

-----------------------------------------------------------------------------
(* Redis, through RedisServiceImpl and BaseJedisTemplate.                  *)

Present(id) == \E e \in redis : e.id = id

NewEntry(id, copy) == [id |-> id, ttl |-> Ttl, copy |-> copy]

\* (wrong) A time to live that is too short.
SavedBriefly(id, copy) ==
    {e \in redis : e.id # id} \cup {[NewEntry(id, copy) EXCEPT !.ttl = 1]}

\* updateCached: saveValue(key, session, 30, MINUTES).
Saved(id, copy) == {e \in redis : e.id # id} \cup {NewEntry(id, copy)}

\* (wrong) A deletion under another key than the one the session was saved with.
DeletedElsewhere(id) == redis

\* deleteCached
Deleted(id) == {e \in redis : e.id # id}

\* (wrong) An entry without a time to live: saveValue(key, session).
LeftForever(ttl) == ttl

\* What a tick leaves of a time to live; at 0 Redis drops the entry.
Left(ttl) == ttl - 1

-----------------------------------------------------------------------------
(* RedisShiroSessionDao.                                                   *)

WorksOn(t, id) == req[t].pc # "idle" /\ req[t].id = id
ScanHolds(id) == \E c \in scan.copies : c.id = id

\* A command on session id fails.
Fault(id) == faults' = [faults EXCEPT ![id] = IF @ < 2 THEN @ + 1 ELSE @]

\* (wrong) update without the check of isValid.
UpdateAnyway(id, copy) == redis' = Saved(id, copy) /\ UNCHANGED faults

\* update: an invalid session is not saved; an exception is swallowed.
Update(id, copy) ==
    \/ copy.valid /\ redis' = Saved(id, copy) /\ UNCHANGED faults
    \/ copy.valid /\ Fault(id) /\ UNCHANGED redis
    \/ ~copy.valid /\ UNCHANGED <<redis, faults>>

\* delete
Delete(id) ==
    \/ redis' = Deleted(id) /\ UNCHANGED faults
    \/ Fault(id) /\ UNCHANGED redis

-----------------------------------------------------------------------------
(* Request threads, through Shiro's session manager.                       *)

TimedOut(copy) == copy.age > Timeout

Goto(t, state) == req' = [req EXCEPT ![t] = state]

\* A new session: doCreate saves it under a fresh id (a UUID; here one that
\* nothing refers to any more), and returns the id even if the save failed.
Create ==
    /\ \E id \in Session :
         /\ ~Present(id) /\ id \notin scan.keys /\ ~ScanHolds(id)
         /\ \A t \in Thread : ~WorksOn(t, id)
         /\ redis' = Saved(id, [in |-> FALSE, age |-> 0, valid |-> TRUE])
         /\ ended' = ended \ {id} /\ contested' = contested \ {id}
         /\ faults' = [faults EXCEPT ![id] = 0]
    /\ UNCHANGED <<req, scan>>

\* (wrong) A logout that leaves the principal to the deletion of the session.
ChangedButCleared(op, copy) ==
    CASE op = "touch" -> [copy EXCEPT !.age = 0]
      [] op = "login" -> [copy EXCEPT !.in = TRUE]
      [] op = "clear" -> copy
      [] op = "stop"  -> [copy EXCEPT !.valid = FALSE]

\* What each operation does to the copy it has read and found valid.
Changed(op, copy) ==
    CASE op = "touch" -> [copy EXCEPT !.age = 0]
      [] op = "login" -> [copy EXCEPT !.in = TRUE]
      [] op = "clear" -> [copy EXCEPT !.in = FALSE]
      [] op = "stop"  -> [copy EXCEPT !.valid = FALSE]

\* An operation is over, normally or by an exception: logout goes on from
\* clearing the principal to stopping the session whatever happened.
Done(t, op, id) ==
    /\ Goto(t, IF op = "clear" THEN [pc |-> "stop", id |-> id]
                               ELSE [pc |-> "idle"])
    /\ ended' = IF op = "stop" THEN ended \cup {id} ELSE ended

\* The first half of an operation: readSession and validate.  A timed-out
\* session is marked expired instead, and takes the same way to the DAO.
ReadSession(t, op, id) ==
    /\ contested' = IF ScanHolds(id) \/ \E s \in Thread \ {t} : WorksOn(s, id)
                      THEN contested \cup {id} ELSE contested
    /\ \/ \E e \in redis :
            /\ e.id = id
            /\ Goto(t, [pc |-> "write", op |-> op, id |-> id,
                        copy |-> IF TimedOut(e.copy)
                                   THEN [e.copy EXCEPT !.valid = FALSE]
                                   ELSE Changed(op, e.copy)])
            /\ ended' = IF op = "login" THEN ended \ {id} ELSE ended
            /\ UNCHANGED faults
       \/ ~Present(id) /\ Done(t, op, id) /\ UNCHANGED faults
       \* The DAO takes a failure for an unknown session.
       \/ Done(t, op, id) /\ Fault(id)
    /\ UNCHANGED <<redis, scan>>

Begin(t, op, id) ==
    /\ req[t].pc = "idle" /\ op # "stop"
    /\ Present(id)
    /\ ReadSession(t, op, id)

BeginStop(t) ==
    /\ req[t].pc = "stop"
    /\ ReadSession(t, "stop", req[t].id)

\* The second half, onChange.  What is left of a stopped or expired session
\* is to delete it.
WriteSession(t) ==
    /\ req[t].pc = "write"
    /\ Update(req[t].id, req[t].copy)
    /\ IF req[t].copy.valid
         THEN Done(t, req[t].op, req[t].id)
         ELSE Goto(t, [req[t] EXCEPT !.pc = "delete"]) /\ UNCHANGED ended
    /\ UNCHANGED <<scan, contested>>

\* afterStopped, afterExpired
DeleteSession(t) ==
    /\ req[t].pc = "delete"
    /\ Delete(req[t].id)
    /\ Done(t, req[t].op, req[t].id)
    /\ UNCHANGED <<scan, contested>>

-----------------------------------------------------------------------------
(* The validation scheduler: getActiveSessions and validateSessions.       *)

\* KEYS ss-*; without keys there is nothing to do.
ListKeys ==
    /\ scan.pc = "waiting" /\ redis # {}
    /\ scan' = [Waiting EXCEPT !.pc = "reading", !.keys = {e.id : e \in redis}]
    /\ UNCHANGED <<redis, req, ended, contested, faults>>

\* One GET per key; a key that is gone by now has the value null, which joins
\* the set of sessions.
ReadKey ==
    /\ scan.pc = "reading"
    /\ \E id \in scan.keys :
         /\ scan' = [scan EXCEPT !.keys = @ \ {id},
                                 !.null = @ \/ ~Present(id),
                                 !.copies = @ \cup
                                    {[id |-> id, copy |-> e.copy] :
                                       e \in {x \in redis : x.id = id}}]
         /\ contested' = IF Present(id) /\ \E t \in Thread : WorksOn(t, id)
                           THEN contested \cup {id} ELSE contested
    /\ UNCHANGED <<redis, req, ended, faults>>

\* A failed KEYS or GET gives no sessions at all.
ReadFails ==
    /\ scan.pc = "reading"
    /\ scan' = Waiting
    /\ UNCHANGED <<redis, req, ended, contested, faults>>

StartValidating ==
    /\ scan.pc = "reading" /\ scan.keys = {}
    /\ scan' = [scan EXCEPT !.pc = "validating"]
    /\ UNCHANGED <<redis, req, ended, contested, faults>>

\* A timed-out copy is marked expired, not saved, and deleted.
ValidateOne ==
    /\ scan.pc = "validating"
    /\ \E c \in scan.copies :
         /\ IF TimedOut(c.copy) THEN Delete(c.id)
                                ELSE UNCHANGED <<redis, faults>>
         /\ scan' = [scan EXCEPT !.copies = @ \ {c}]
    /\ UNCHANGED <<req, ended, contested>>

\* The null element: s.getId() throws a NullPointerException out of the task,
\* and an executor never runs a periodic task again that has thrown.
ScanThrows ==
    /\ scan.pc = "validating" /\ scan.null
    /\ scan' = [Waiting EXCEPT !.pc = "dead"]
    /\ UNCHANGED <<redis, req, ended, contested, faults>>

ScanEnds ==
    /\ scan.pc = "validating" /\ ~scan.null /\ scan.copies = {}
    /\ scan' = Waiting
    /\ UNCHANGED <<redis, req, ended, contested, faults>>

-----------------------------------------------------------------------------
Older(copy) == [copy EXCEPT !.age = IF @ <= Timeout THEN @ + 1 ELSE @]

\* Time passes: Redis drops the entries whose time is up.
Tick ==
    /\ redis' = {[e EXCEPT !.ttl = Left(@), !.copy = Older(@)] :
                   e \in {x \in redis : Left(x.ttl) > 0}}
    /\ req' = [t \in Thread |->
                 IF req[t].pc \in {"idle", "stop"} THEN req[t]
                 ELSE [req[t] EXCEPT !.copy = Older(@)]]
    /\ scan' = [scan EXCEPT !.copies =
                  {[c EXCEPT !.copy = Older(@)] : c \in scan.copies}]
    /\ UNCHANGED <<ended, contested, faults>>

Next ==
    \/ Create
    \/ \E t \in Thread :
         \/ \E op \in Op, id \in Session : Begin(t, op, id)
         \/ BeginStop(t) \/ WriteSession(t) \/ DeleteSession(t)
    \/ ListKeys \/ ReadKey \/ ReadFails \/ StartValidating \/ ValidateOne
    \/ ScanThrows \/ ScanEnds
    \/ Tick

\* Time passes.  Nothing is assumed of the users, nor of the scheduler, which
\* may be dead.
Spec == Init /\ [][Next]_vars /\ WF_vars(Tick)

-----------------------------------------------------------------------------
(* Properties.                                                             *)

\* Redis never holds a stopped or expired session: a thread that has stopped
\* one, or found it expired, also hands it to update before it deletes it.
StoredSessionsAreValid == \A e \in redis : e.copy.valid

\* What is in Redis and in hand has its type, and what is stored is valid.
SessionsAreSound == TypeOK /\ StoredSessionsAreValid

\* A logout is final: its session never comes back, unless another request or
\* the scheduler had a copy of it at the same time, whose write brings it
\* back, or a command on it failed.
LogoutIsFinal ==
    \A id \in ended : Present(id) => id \in contested \/ faults[id] > 0

\* One failure of Redis does not leave a user logged in who has logged out:
\* the principal is cleared and the session deleted by separate commands, and
\* the second is tried whatever became of the first.
LogoutSurvivesOneFault ==
    \A e \in redis :
        (e.id \in ended /\ e.copy.in) => e.id \in contested \/ faults[e.id] = 2

\* A session that is in use is not lost.  Redis's clock, Shiro's timeout and
\* the scheduler agree: without a logout, and without two actors at the
\* session at once, it disappears only when it has been idle for Timeout.
LostOnlyWhenIdle ==
    [][\A e \in redis :
         \/ \E f \in redis' : f.id = e.id
         \/ Older(e.copy).age >= Timeout
         \/ \E t \in Thread : WorksOn(t, e.id) /\ req[t].pc = "delete"
                               /\ req[t].op = "stop"
         \/ e.id \in contested]_vars

\* A session nobody works with any more leaves Redis, even when the scheduler
\* is dead and when deletions failed: every save set its time to live anew.
\* (Its id may be given to a new session later: hence "again and again".)
AbandonedSessionsVanish ==
    \A id \in Session :
        <>[](\A t \in Thread : ~WorksOn(t, id))
          => []<>~Present(id)
=============================================================================
