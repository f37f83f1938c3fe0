------------------------- MODULE SessionStoreProofs -------------------------
(***************************************************************************)
(* What TLAPS proves of SessionStore, for any sessions, threads and times. *)
(***************************************************************************)
EXTENDS SessionStore, TLAPS

-----------------------------------------------------------------------------
Request == Idle \cup Stopping \cup Holding

\* Two at work on a session, or one and the scheduler, know it as contested.
SharedIsContested ==
    /\ \A s, t \in Thread, id \in Session :
            s # t /\ WorksOn(s, id) /\ WorksOn(t, id) => id \in contested
    /\ \A t \in Thread, id \in Session :
            WorksOn(t, id) /\ ScanHolds(id) => id \in contested

\* What the copies in hand became by what is done to them.
CopiesAreChanged ==
    \A t \in Thread :
        /\ req[t].pc = "delete" => ~req[t].copy.valid
        /\ req[t].pc \in {"write", "delete"} =>
            /\ req[t].op = "stop" => ~req[t].copy.valid
            /\ req[t].op = "clear" /\ req[t].copy.valid => ~req[t].copy.in

\* The logout that had no fault and no rival left nothing behind.
CleanLogoutIsOver ==
    \A id \in ended : id \notin contested /\ faults[id] = 0 =>
        ~Present(id) /\ \A t \in Thread : ~WorksOn(t, id)

Stops(t, id) ==
    /\ WorksOn(t, id)
    /\ req[t].pc = "stop" \/ req[t].op = "stop"

\* One that had a single fault left no principal behind, in Redis or in hand;
\* and before the session is stopped, one without a fault has cleared it.
NoPrincipalIsLeft ==
    \A id \in Session \ contested :
        /\ id \in ended /\ faults[id] # 2 =>
            /\ \A e \in redis : e.id = id => ~e.copy.in
            /\ \A t \in Thread : req[t].pc \in {"write", "delete"} /\ req[t].id = id =>
                    ~req[t].copy.in
        /\ faults[id] = 0 /\ (\E t \in Thread : Stops(t, id)) =>
            \A e \in redis : e.id = id => ~e.copy.in

\* What Redis still gives a session and how long it was idle make up Timeout.
TimeIsLeft == \A e \in redis : e.ttl + e.copy.age >= Timeout

\* A copy found expired, by a thread or by the scheduler, is of an entry that is.
ExpiredInHand ==
    \A t \in Thread : \A e \in redis :
        /\ req[t].pc \in {"write", "delete"} /\ req[t].op # "stop"
        /\ ~req[t].copy.valid /\ e.id = req[t].id /\ e.id \notin contested
        => TimedOut(e.copy)

ScanIsCurrent ==
    \A c \in scan.copies, e \in redis :
        e.id = c.id /\ e.id \notin contested => e.copy = c.copy

SessionInv ==
    /\ TypeOK /\ StoredSessionsAreValid /\ SharedIsContested /\ CopiesAreChanged
    /\ CleanLogoutIsOver /\ NoPrincipalIsLeft /\ TimeIsLeft /\ ExpiredInHand
    /\ ScanIsCurrent

-----------------------------------------------------------------------------
(* What the types say of requests, copies and entries.                     *)

\* What a request holds, by where it is.
LEMMA RequestFields ==
    ASSUME TypeOK, NEW t \in Thread
    PROVE  /\ req[t] \in Request
           /\ req[t].pc \in {"idle", "stop", "write", "delete"}
           /\ req[t].pc # "idle" => req[t].id \in Session
           /\ req[t].pc \in {"write", "delete"} =>
                /\ req[t] \in Holding
                /\ req[t].op \in Op /\ req[t].copy \in Copy
  BY DEF TypeOK, Request, Idle, Stopping, Holding

\* An entry of Redis has the parts of one.
LEMMA EntryFields ==
    ASSUME TypeOK, NEW e \in redis
    PROVE  /\ e.id \in Session /\ e.ttl \in 1..Ttl /\ e.copy \in Copy
           /\ e.copy.age \in Age /\ e.copy.in \in BOOLEAN /\ e.copy.valid \in BOOLEAN
  BY DEF TypeOK, Entry, Copy

\* What the scheduler holds.
LEMMA ScanFields ==
    ASSUME TypeOK
    PROVE  /\ scan.keys \subseteq Session
           /\ \A c \in scan.copies : c.id \in Session /\ c.copy \in Copy
  BY DEF TypeOK, Scan

\* What Saved and NewEntry give.
LEMMA NewEntryFields ==
    ASSUME NEW id \in Session, NEW copy \in Copy
    PROVE  /\ NewEntry(id, copy) \in Entry
           /\ NewEntry(id, copy).id = id
           /\ NewEntry(id, copy).ttl = Ttl
           /\ NewEntry(id, copy).copy = copy
  BY SessionAssumption DEF NewEntry, Entry

\* A fault on a session is counted up to two.
LEMMA FaultsAreCounted ==
    ASSUME TypeOK, NEW id \in Session, Fault(id)
    PROVE  /\ faults' \in [Session -> 0..2]
           /\ faults[id] = 0 => faults'[id] = 1
           /\ faults[id] # 0 => faults'[id] = 2
           /\ \A j \in Session \ {id} : faults'[j] = faults[j]
  BY DEF TypeOK, Fault

\* What an operation makes of a copy, and what marking it expired does.
LEMMA ChangedCopies ==
    ASSUME NEW op \in Op, NEW copy \in Copy
    PROVE  /\ Changed(op, copy) \in Copy
           /\ op # "stop" => Changed(op, copy).valid = copy.valid
           /\ op = "stop" => ~Changed(op, copy).valid
           /\ op = "clear" => ~Changed(op, copy).in
           /\ op # "login" /\ Changed(op, copy).in => copy.in
           /\ [copy EXCEPT !.valid = FALSE] \in Copy
           /\ [copy EXCEPT !.valid = FALSE].valid = FALSE
           /\ [copy EXCEPT !.valid = FALSE].in = copy.in
  <1>0. 0 \in Age
    BY SessionAssumption DEF Age
  <1>1. CASE op = "touch"
    BY <1>0, <1>1 DEF Changed, Copy, Op
  <1>2. CASE op = "login"
    BY <1>2 DEF Changed, Copy, Op
  <1>3. CASE op = "clear"
    BY <1>3 DEF Changed, Copy, Op
  <1>4. CASE op = "stop"
    BY <1>4 DEF Changed, Copy, Op
  <1> QED BY <1>1, <1>2, <1>3, <1>4 DEF Op

\* A tick makes a copy older, and leaves the rest of it.
LEMMA OlderCopies ==
    ASSUME NEW copy \in Copy
    PROVE  /\ Older(copy) \in Copy
           /\ Older(copy).valid = copy.valid /\ Older(copy).in = copy.in
           /\ Older(copy).age = IF copy.age <= Timeout THEN copy.age + 1 ELSE copy.age
  BY SessionAssumption DEF Older, Copy, Age

-----------------------------------------------------------------------------
(* The first state.                                                        *)

\* Redis is empty and nobody works.
LEMMA InitHasInv == Init => SessionInv
  <1> SUFFICES ASSUME Init PROVE SessionInv
    OBVIOUS
  <1>1. TypeOK
    BY DEF Init, TypeOK, Idle, Stopping, Holding, Scan, Waiting
  <1> QED
    BY <1>1 DEF Init, SessionInv, StoredSessionsAreValid, SharedIsContested,
                CopiesAreChanged, CleanLogoutIsOver, NoPrincipalIsLeft, TimeIsLeft,
                ExpiredInHand, ScanIsCurrent, WorksOn, ScanHolds, Waiting

-----------------------------------------------------------------------------
(* A new session: it has no past.                                          *)

\* Nobody knows its id, and nothing is remembered of it.
LEMMA CreateKeepsInv ==
    ASSUME SessionInv, Create
    PROVE  SessionInv'
  <1> USE DEF SessionInv
  <1> DEFINE copy == [in |-> FALSE, age |-> 0, valid |-> TRUE]
  <1>1. PICK id \in Session :
            /\ ~Present(id) /\ id \notin scan.keys /\ ~ScanHolds(id)
            /\ \A t \in Thread : ~WorksOn(t, id)
            /\ redis' = Saved(id, copy)
            /\ ended' = ended \ {id} /\ contested' = contested \ {id}
            /\ faults' = [faults EXCEPT ![id] = 0]
    BY DEF Create
  <1>2. req' = req /\ scan' = scan
    BY DEF Create
  <1>3. /\ copy \in Copy /\ copy.valid /\ ~copy.in
    BY SessionAssumption DEF Copy, Age
  <1> HIDE DEF copy
  <1> DEFINE new == NewEntry(id, copy)
  <1>4. new \in Entry /\ new.id = id /\ new.ttl = Ttl /\ new.copy = copy
    BY <1>3, NewEntryFields
  <1>5. redis' = redis \cup {new} /\ \A e \in redis : e.id # id
    BY <1>1 DEF Saved, Present
  <1> HIDE DEF new
  <1>6. TypeOK'
    BY <1>1, <1>2, <1>4, <1>5 DEF TypeOK
  <1>7. StoredSessionsAreValid'
    BY <1>3, <1>4, <1>5 DEF StoredSessionsAreValid
  <1>8. SharedIsContested'
    BY <1>1, <1>2 DEF SharedIsContested, WorksOn, ScanHolds
  <1>9. CopiesAreChanged'
    BY <1>2 DEF CopiesAreChanged
  <1>10. CleanLogoutIsOver'
    BY <1>1, <1>2, <1>4, <1>5 DEF CleanLogoutIsOver, WorksOn, Present, TypeOK
  <1>11. NoPrincipalIsLeft'
    BY <1>1, <1>2, <1>3, <1>4, <1>5 DEF NoPrincipalIsLeft, Stops, WorksOn, TypeOK
  <1>12. TimeIsLeft'
    BY <1>3, <1>4, <1>5, SessionAssumption DEF TimeIsLeft, Copy, Age
  <1>13. ExpiredInHand'
    BY <1>1, <1>2, <1>4, <1>5, RequestFields DEF ExpiredInHand, WorksOn
  <1>14. ScanIsCurrent'
    BY <1>1, <1>2, <1>4, <1>5 DEF ScanIsCurrent, ScanHolds
  <1> QED
    BY <1>6, <1>7, <1>8, <1>9, <1>10, <1>11, <1>12, <1>13, <1>14

-----------------------------------------------------------------------------
(* The first half of an operation: one more thread works on the session.   *)

\* Where an operation may start: a thread without one at a session that is
\* there, or a logout that has cleared its session.
MayRead(t, op, id) ==
    \/ req[t].pc = "idle" /\ op # "stop" /\ Present(id)
    \/ req[t].pc = "stop" /\ op = "stop" /\ req[t].id = id

\* Who reads a session that others work on makes it contested.
LEMMA ReadersAreContested ==
    ASSUME SessionInv, NEW t \in Thread, NEW id \in Session, NEW op \in Op,
           ReadSession(t, op, id), MayRead(t, op, id), NEW r \in Request,
           req' = [req EXCEPT ![t] = r], r.pc # "idle" => r.id = id
    PROVE  /\ contested \subseteq contested' /\ contested' \subseteq Session
           /\ \A j \in Session \ {id} : j \in contested' => j \in contested
           /\ id \notin contested' =>
                ~ScanHolds(id) /\ \A s \in Thread \ {t} : ~WorksOn(s, id)
           /\ req' \in [Thread -> Request] /\ req'[t] = r
           /\ \A s \in Thread \ {t} : req'[s] = req[s]
           /\ redis' = redis /\ scan' = scan
           /\ SharedIsContested'
  <1> USE DEF SessionInv
  <1>1. redis' = redis /\ scan' = scan
    BY DEF ReadSession
  <1>2. /\ contested \subseteq contested' /\ contested' \subseteq Session
        /\ \A j \in Session \ {id} : j \in contested' => j \in contested
        /\ id \notin contested' =>
                ~ScanHolds(id) /\ \A s \in Thread \ {t} : ~WorksOn(s, id)
    BY DEF ReadSession, TypeOK
  <1>3. /\ req' \in [Thread -> Request] /\ req'[t] = r
        /\ \A s \in Thread \ {t} : req'[s] = req[s]
    BY DEF TypeOK, Request
  <1>4. SharedIsContested'
    BY <1>1, <1>2, <1>3 DEF SharedIsContested, WorksOn, ScanHolds
  <1> QED
    BY <1>1, <1>2, <1>3, <1>4

\* It finds the session: its changed copy is in hand.
LEMMA FindingKeepsInv ==
    ASSUME SessionInv, NEW t \in Thread, NEW id \in Session, NEW op \in Op,
           ReadSession(t, op, id), MayRead(t, op, id),
           NEW e \in redis, e.id = id,
           Goto(t, [pc |-> "write", op |-> op, id |-> id,
                    copy |-> IF TimedOut(e.copy)
                               THEN [e.copy EXCEPT !.valid = FALSE]
                               ELSE Changed(op, e.copy)]),
           ended' = IF op = "login" THEN ended \ {id} ELSE ended,
           UNCHANGED faults
    PROVE  SessionInv'
  <1> USE DEF SessionInv
  <1> DEFINE copy == IF TimedOut(e.copy) THEN [e.copy EXCEPT !.valid = FALSE]
                                         ELSE Changed(op, e.copy)
             r == [pc |-> "write", op |-> op, id |-> id, copy |-> copy]
  <1>1. e.copy \in Copy /\ e.copy.valid
    BY EntryFields DEF StoredSessionsAreValid
  <1>2. /\ copy \in Copy
        /\ ~copy.valid => op = "stop" \/ TimedOut(e.copy)
        /\ op = "stop" => ~copy.valid
        /\ op = "clear" /\ copy.valid => ~copy.in
        /\ op # "login" /\ copy.in => e.copy.in
        /\ op = "login" /\ copy.in => id \notin ended'
    <2>1. /\ Changed(op, e.copy) \in Copy
          /\ op # "stop" => Changed(op, e.copy).valid = e.copy.valid
          /\ op = "stop" => ~Changed(op, e.copy).valid
          /\ op = "clear" => ~Changed(op, e.copy).in
          /\ op # "login" /\ Changed(op, e.copy).in => e.copy.in
      BY <1>1, ChangedCopies
    <2>2. /\ [e.copy EXCEPT !.valid = FALSE] \in Copy
          /\ ~[e.copy EXCEPT !.valid = FALSE].valid
          /\ [e.copy EXCEPT !.valid = FALSE].in = e.copy.in
      BY <1>1, ChangedCopies
    <2>3. CASE TimedOut(e.copy)
      <3> DEFINE expired == [e.copy EXCEPT !.valid = FALSE]
      <3>1. copy = expired
        BY <2>3
      <3> HIDE DEF expired
      <3> QED BY <2>2, <2>3, <3>1 DEF TypeOK, expired
    <2>4. CASE ~TimedOut(e.copy)
      <3>1. copy = Changed(op, e.copy)
        BY <2>4
      <3> HIDE DEF copy
      <3> QED BY <1>1, <2>1, <3>1
    <2> QED BY <2>3, <2>4
  <1>3. req' = [req EXCEPT ![t] = r]
    BY DEF Goto
  <1> HIDE DEF copy
  <1>4. /\ r \in Holding
        /\ r.pc = "write" /\ r.op = op /\ r.id = id /\ r.copy = copy
    BY <1>2 DEF Holding
  <1> HIDE DEF r
  <1>5. r \in Request
    BY <1>4 DEF Request
  <1>6. /\ contested \subseteq contested' /\ contested' \subseteq Session
        /\ \A j \in Session \ {id} : j \in contested' => j \in contested
        /\ id \notin contested' =>
                ~ScanHolds(id) /\ \A s \in Thread \ {t} : ~WorksOn(s, id)
        /\ req' \in [Thread -> Request] /\ req'[t] = r
        /\ \A s \in Thread \ {t} : req'[s] = req[s]
        /\ redis' = redis /\ scan' = scan
        /\ SharedIsContested'
    BY <1>3, <1>4, <1>5, ReadersAreContested
  <1>7. TypeOK'
    BY <1>6 DEF TypeOK, Request
  <1>8. StoredSessionsAreValid'
    BY <1>6 DEF StoredSessionsAreValid
  <1>9. CopiesAreChanged'
    BY <1>2, <1>4, <1>6 DEF CopiesAreChanged
  <1>10. CleanLogoutIsOver'
    BY <1>4, <1>6 DEF CleanLogoutIsOver, WorksOn, Present
  <1>11. NoPrincipalIsLeft'
    <2> SUFFICES ASSUME NEW j \in Session, j \notin contested'
                 PROVE  /\ j \in ended' /\ faults[j] # 2 =>
                          /\ \A f \in redis : f.id = j => ~f.copy.in
                          /\ \A s \in Thread : req'[s].pc \in {"write", "delete"}
                                /\ req'[s].id = j => ~req'[s].copy.in
                        /\ faults[j] = 0 /\ (\E s \in Thread : Stops(s, j)') =>
                            \A f \in redis : f.id = j => ~f.copy.in
      BY <1>6 DEF NoPrincipalIsLeft
    <2>1. j \notin contested
      BY <1>6
    <2>2. j \in ended' => j \in ended
      OBVIOUS
    <2>3. ASSUME j \in ended', faults[j] # 2
          PROVE  \A f \in redis : f.id = j => ~f.copy.in
      BY <2>1, <2>2, <2>3 DEF NoPrincipalIsLeft
    <2>4. ASSUME j \in ended', faults[j] # 2, NEW s \in Thread,
                 req'[s].pc \in {"write", "delete"}, req'[s].id = j
          PROVE  ~req'[s].copy.in
      <3>1. CASE s = t
        BY <1>2, <1>4, <1>6, <2>3, <2>4, <3>1
      <3>2. CASE s # t
        BY <1>6, <2>1, <2>2, <2>4, <3>2 DEF NoPrincipalIsLeft
      <3> QED BY <3>1, <3>2
    <2>5. ASSUME faults[j] = 0, NEW s \in Thread, Stops(s, j)'
          PROVE  \A f \in redis : f.id = j => ~f.copy.in
      <3>1. Stops(s, j)
        BY <1>4, <1>6, <2>5 DEF Stops, WorksOn, MayRead
      <3> QED
        BY <2>1, <2>5, <3>1 DEF NoPrincipalIsLeft
    <2> QED
      BY <2>3, <2>4, <2>5
  <1>12. TimeIsLeft'
    BY <1>6 DEF TimeIsLeft
  <1>13. ExpiredInHand'
    <2> SUFFICES ASSUME NEW s \in Thread, NEW f \in redis,
                        req'[s].pc \in {"write", "delete"}, req'[s].op # "stop",
                        ~req'[s].copy.valid, f.id = req'[s].id, f.id \notin contested'
                 PROVE  TimedOut(f.copy)
      BY <1>6 DEF ExpiredInHand, TimedOut
    <2>1. CASE s = t
      <3>1. f = e
        BY <1>4, <1>6, <2>1 DEF TypeOK
      <3> QED BY <1>2, <1>4, <1>6, <2>1, <3>1
    <2>2. CASE s # t
      BY <1>6, <2>2 DEF ExpiredInHand
    <2> QED BY <2>1, <2>2
  <1>14. ScanIsCurrent'
    BY <1>6 DEF ScanIsCurrent
  <1> QED
    BY <1>6, <1>7, <1>8, <1>9, <1>10, <1>11, <1>12, <1>13, <1>14

\* Where Done leaves a thread.
Rest(op, id) == IF op = "clear" THEN [pc |-> "stop", id |-> id] ELSE [pc |-> "idle"]

\* It is a request.
LEMMA RestFields ==
    ASSUME NEW op \in Op, NEW id \in Session
    PROVE  /\ Rest(op, id) \in Request
           /\ Rest(op, id).pc = IF op = "clear" THEN "stop" ELSE "idle"
           /\ op = "clear" => Rest(op, id).id = id
  BY DEF Rest, Request, Idle, Stopping

\* It does not find the session, or Redis fails: the operation is over.
LEMMA MissingKeepsInv ==
    ASSUME SessionInv, NEW t \in Thread, NEW id \in Session, NEW op \in Op,
           ReadSession(t, op, id), MayRead(t, op, id),
           Done(t, op, id),
           (~Present(id) /\ UNCHANGED faults) \/ Fault(id)
    PROVE  SessionInv'
  <1> USE DEF SessionInv
  <1> DEFINE r == Rest(op, id)
  <1>1. /\ r \in Request /\ r.pc \in {"idle", "stop"}
        /\ r.pc = "stop" => op = "clear" /\ r.id = id
        /\ r.pc # "idle" => r.id = id
    BY RestFields
  <1>2. /\ req' = [req EXCEPT ![t] = r]
        /\ ended' = IF op = "stop" THEN ended \cup {id} ELSE ended
    BY DEF Done, Goto, Rest
  <1> HIDE DEF r
  <1>3. /\ contested \subseteq contested' /\ contested' \subseteq Session
        /\ \A j \in Session \ {id} : j \in contested' => j \in contested
        /\ id \notin contested' =>
                ~ScanHolds(id) /\ \A s \in Thread \ {t} : ~WorksOn(s, id)
        /\ req' \in [Thread -> Request] /\ req'[t] = r
        /\ \A s \in Thread \ {t} : req'[s] = req[s]
        /\ redis' = redis /\ scan' = scan
        /\ SharedIsContested'
    BY <1>1, <1>2, ReadersAreContested
  <1>4. /\ faults' \in [Session -> 0..2]
        /\ \A j \in Session \ {id} : faults'[j] = faults[j]
        /\ Present(id) => IF faults[id] = 0 THEN faults'[id] = 1 ELSE faults'[id] = 2
        /\ faults'[id] = 0 => faults[id] = 0 /\ ~Present(id)
        /\ faults'[id] = 1 => ~Present(id) \/ faults[id] = 0
        /\ faults'[id] # 2 => faults[id] # 2
    BY FaultsAreCounted DEF TypeOK
  <1>5. TypeOK'
    BY <1>2, <1>3, <1>4 DEF TypeOK, Request
  <1>6. StoredSessionsAreValid'
    BY <1>3 DEF StoredSessionsAreValid
  <1>7. CopiesAreChanged'
    BY <1>1, <1>3 DEF CopiesAreChanged
  <1>8. CleanLogoutIsOver'
    <2> SUFFICES ASSUME NEW j \in ended', j \notin contested', faults'[j] = 0
                 PROVE  ~Present(j) /\ \A s \in Thread : ~WorksOn(s, j)'
      BY <1>3 DEF CleanLogoutIsOver, Present
    <2>1. CASE j = id
      <3>1. ~Present(id) /\ \A s \in Thread \ {t} : ~WorksOn(s, id)'
        BY <1>3, <1>4, <2>1 DEF WorksOn
      <3>2. ~WorksOn(t, id)'
        <4>1. CASE op = "stop"
          BY <1>1, <1>3, <4>1 DEF WorksOn
        <4>2. CASE op # "stop"
          BY <1>2, <1>3, <1>4, <2>1, <4>2 DEF CleanLogoutIsOver, MayRead
        <4> QED BY <4>1, <4>2
      <3> QED BY <2>1, <3>1, <3>2
    <2>2. CASE j # id
      <3>1. j \in ended /\ j \notin contested /\ faults[j] = 0
        BY <1>2, <1>3, <1>4, <1>5, <2>2 DEF TypeOK
      <3> QED
        BY <1>1, <1>3, <2>2, <3>1 DEF CleanLogoutIsOver, WorksOn
    <2> QED BY <2>1, <2>2
  <1>9. NoPrincipalIsLeft'
    <2> SUFFICES ASSUME NEW j \in Session, j \notin contested'
                 PROVE  /\ j \in ended' /\ faults'[j] # 2 =>
                          /\ \A f \in redis : f.id = j => ~f.copy.in
                          /\ \A s \in Thread : req'[s].pc \in {"write", "delete"}
                                /\ req'[s].id = j => ~req'[s].copy.in
                        /\ faults'[j] = 0 /\ (\E s \in Thread : Stops(s, j)') =>
                            \A f \in redis : f.id = j => ~f.copy.in
      BY <1>3 DEF NoPrincipalIsLeft
    <2>1. j \notin contested /\ (faults'[j] # 2 => faults[j] # 2)
          /\ (faults'[j] = 0 => faults[j] = 0)
      BY <1>3, <1>4
    <2>2. ASSUME j \in ended', faults'[j] # 2
          PROVE  \A f \in redis : f.id = j => ~f.copy.in
      <3>1. CASE j \in ended
        BY <2>1, <2>2, <3>1 DEF NoPrincipalIsLeft
      <3>2. CASE j \notin ended
        <4>1. j = id /\ op = "stop"
          BY <1>2, <2>2, <3>2
        <4>2. CASE ~Present(id)
          BY <4>1, <4>2 DEF Present
        <4>3. CASE Present(id)
          <5>1. faults[j] = 0 /\ Stops(t, j)
            BY <1>4, <2>2, <4>1, <4>3 DEF MayRead, Stops, WorksOn
          <5> QED BY <2>1, <5>1 DEF NoPrincipalIsLeft
        <4> QED BY <4>2, <4>3
      <3> QED BY <3>1, <3>2
    <2>3. ASSUME j \in ended', faults'[j] # 2, NEW s \in Thread,
                 req'[s].pc \in {"write", "delete"}, req'[s].id = j
          PROVE  ~req'[s].copy.in
      <3>1. s # t /\ req'[s] = req[s]
        BY <1>1, <1>3, <2>3
      <3>2. j # id
        BY <1>3, <2>3, <3>1 DEF WorksOn
      <3> QED
        BY <1>2, <2>1, <2>3, <3>1, <3>2 DEF NoPrincipalIsLeft
    <2>4. ASSUME faults'[j] = 0, NEW s \in Thread, Stops(s, j)'
          PROVE  \A f \in redis : f.id = j => ~f.copy.in
      <3>1. CASE j = id
        BY <1>4, <2>4, <3>1 DEF Present
      <3>2. CASE j # id
        <4>1. Stops(s, j)
          BY <1>1, <1>3, <2>4, <3>2 DEF Stops, WorksOn
        <4> QED BY <2>1, <2>4, <4>1 DEF NoPrincipalIsLeft
      <3> QED BY <3>1, <3>2
    <2> QED
      BY <2>2, <2>3, <2>4
  <1>10. TimeIsLeft'
    BY <1>3 DEF TimeIsLeft
  <1>11. ExpiredInHand'
    BY <1>1, <1>3 DEF ExpiredInHand, TimedOut
  <1>12. ScanIsCurrent'
    BY <1>3 DEF ScanIsCurrent
  <1> QED
    BY <1>3, <1>5, <1>6, <1>7, <1>8, <1>9, <1>10, <1>11, <1>12

\* The first half, whatever it finds.
LEMMA ReadSessionKeepsInv ==
    ASSUME SessionInv, NEW t \in Thread, NEW id \in Session, NEW op \in Op,
           ReadSession(t, op, id), MayRead(t, op, id)
    PROVE  SessionInv'
  <1>1. CASE Done(t, op, id) /\ ((~Present(id) /\ UNCHANGED faults) \/ Fault(id))
    BY <1>1, MissingKeepsInv
  <1>2. CASE ~(Done(t, op, id) /\ ((~Present(id) /\ UNCHANGED faults) \/ Fault(id)))
    <2>1. PICK e \in redis :
            /\ e.id = id
            /\ Goto(t, [pc |-> "write", op |-> op, id |-> id,
                        copy |-> IF TimedOut(e.copy)
                                   THEN [e.copy EXCEPT !.valid = FALSE]
                                   ELSE Changed(op, e.copy)])
            /\ ended' = IF op = "login" THEN ended \ {id} ELSE ended
            /\ UNCHANGED faults
      BY <1>2, Zenon DEF ReadSession
    <2> QED BY <2>1, FindingKeepsInv
  <1> QED BY <1>1, <1>2

-----------------------------------------------------------------------------
(* The second half: writing and deleting.                                  *)

\* A thread that goes on with its session, or leaves it, adds no rival.
LEMMA GoingOnIsNoRival ==
    ASSUME TypeOK, SharedIsContested, NEW t \in Thread, NEW r \in Request,
           req' = [req EXCEPT ![t] = r], r.pc # "idle" => WorksOn(t, r.id),
           UNCHANGED <<scan, contested>>
    PROVE  /\ req' \in [Thread -> Request] /\ req'[t] = r
           /\ \A s \in Thread \ {t} : req'[s] = req[s]
           /\ SharedIsContested'
  <1>1. /\ req' \in [Thread -> Request] /\ req'[t] = r
        /\ \A s \in Thread \ {t} : req'[s] = req[s]
    BY DEF TypeOK, Request
  <1>2. SharedIsContested'
    BY <1>1 DEF SharedIsContested, WorksOn, ScanHolds
  <1> QED BY <1>1, <1>2

\* The copy is stored: the entry is new, and everyone else who knows of the
\* session is a rival.
LEMMA SavingKeepsInv ==
    ASSUME SessionInv, NEW t \in Thread, req[t].pc = "write", req[t].copy.valid,
           redis' = Saved(req[t].id, req[t].copy), UNCHANGED faults,
           Done(t, req[t].op, req[t].id), UNCHANGED <<scan, contested>>
    PROVE  SessionInv'
  <1> USE DEF SessionInv
  <1>0. PICK id \in Session, op \in Op, copy \in Copy :
            id = req[t].id /\ op = req[t].op /\ copy = req[t].copy
    BY RequestFields
  <1> DEFINE r == Rest(op, id)
             new == NewEntry(id, copy)
  <1>1. id \in Session /\ op \in Op /\ copy \in Copy /\ op # "stop"
        /\ (op = "clear" => ~copy.in) /\ WorksOn(t, id)
    BY <1>0 DEF CopiesAreChanged, WorksOn
  <1>2. /\ r \in Request /\ r.pc \in {"idle", "stop"}
        /\ r.pc = "stop" => op = "clear" /\ r.id = id
    BY <1>1, RestFields
  <1>3. req' = [req EXCEPT ![t] = r] /\ ended' = ended
    BY <1>0, <1>1 DEF Done, Goto, Rest
  <1>4. new \in Entry /\ new.id = id /\ new.ttl = Ttl /\ new.copy = copy
    BY <1>1, NewEntryFields
  <1>5. redis' = {e \in redis : e.id # id} \cup {new}
    BY <1>0 DEF Saved
  <1>6. /\ copy.valid /\ scan' = scan /\ contested' = contested /\ faults' = faults
        /\ id \notin contested =>
              ~ScanHolds(id) /\ \A s \in Thread \ {t} : ~WorksOn(s, id)
    BY <1>0, <1>1 DEF SharedIsContested
  <1>7. copy.in => op # "clear"
    BY <1>1
  <1> HIDE DEF r, new
  <1>8. /\ req' \in [Thread -> Request] /\ req'[t] = r
        /\ \A s \in Thread \ {t} : req'[s] = req[s]
        /\ SharedIsContested'
    BY <1>1, <1>2, <1>3, <1>6, GoingOnIsNoRival
  <1>9. TypeOK'
    BY <1>3, <1>4, <1>5, <1>6, <1>8 DEF TypeOK, Request
  <1>10. StoredSessionsAreValid'
    BY <1>4, <1>5, <1>6 DEF StoredSessionsAreValid
  <1>11. CopiesAreChanged'
    BY <1>2, <1>8 DEF CopiesAreChanged
  <1>12. CleanLogoutIsOver'
    <2> SUFFICES ASSUME NEW j \in ended, j \notin contested, faults[j] = 0
                 PROVE  ~Present(j)' /\ \A s \in Thread : ~WorksOn(s, j)'
      BY <1>3, <1>6 DEF CleanLogoutIsOver
    <2>1. j # id /\ ~Present(j) /\ \A s \in Thread : ~WorksOn(s, j)
      BY <1>1 DEF CleanLogoutIsOver
    <2> QED
      BY <1>2, <1>4, <1>5, <1>8, <2>1 DEF Present, WorksOn
  <1>13. NoPrincipalIsLeft'
    <2> SUFFICES ASSUME NEW j \in Session, j \notin contested
                 PROVE  /\ j \in ended /\ faults[j] # 2 =>
                          /\ \A f \in redis' : f.id = j => ~f.copy.in
                          /\ \A s \in Thread : req'[s].pc \in {"write", "delete"}
                                /\ req'[s].id = j => ~req'[s].copy.in
                        /\ faults[j] = 0 /\ (\E s \in Thread : Stops(s, j)') =>
                            \A f \in redis' : f.id = j => ~f.copy.in
      BY <1>3, <1>6 DEF NoPrincipalIsLeft
    <2>1. CASE j = id
      <3>1. \A f \in redis' : f.id = j => f.copy = copy
        BY <1>4, <1>5, <2>1
      <3>2. \A s \in Thread \ {t} : ~WorksOn(s, id)'
        BY <1>6, <1>8, <2>1 DEF WorksOn
      <3>3. ASSUME j \in ended, faults[j] # 2 PROVE ~copy.in
        BY <1>0, <2>1, <3>3 DEF NoPrincipalIsLeft
      <3>4. ASSUME NEW s \in Thread, Stops(s, j)' PROVE ~copy.in
        BY <1>1, <1>2, <1>8, <2>1, <3>2, <3>4 DEF Stops, WorksOn
      <3>5. \A s \in Thread : ~(req'[s].pc \in {"write", "delete"} /\ req'[s].id = j)
        BY <1>2, <1>8, <2>1, <3>2 DEF WorksOn
      <3> QED BY <3>1, <3>3, <3>4, <3>5
    <2>2. CASE j # id
      <3>1. \A f \in redis' : f.id = j => f \in redis
        BY <1>4, <1>5, <2>2
      <3>2. \A s \in Thread : Stops(s, j)' => Stops(s, j)
        BY <1>2, <1>8, <2>2 DEF Stops, WorksOn
      <3> QED
        BY <1>2, <1>8, <3>1, <3>2 DEF NoPrincipalIsLeft
    <2> QED BY <2>1, <2>2
  <1>14. TimeIsLeft'
    <2>1. new.ttl + new.copy.age >= Timeout
      BY <1>1, <1>4, SessionAssumption DEF Copy, Age
    <2> QED BY <1>5, <2>1 DEF TimeIsLeft
  <1>15. ExpiredInHand'
    <2> SUFFICES ASSUME NEW s \in Thread, NEW f \in redis',
                        req'[s].pc \in {"write", "delete"}, req'[s].op # "stop",
                        ~req'[s].copy.valid, f.id = req'[s].id, f.id \notin contested
                 PROVE  TimedOut(f.copy)
      BY <1>6 DEF ExpiredInHand, TimedOut
    <2>1. s # t /\ req'[s] = req[s]
      BY <1>2, <1>8
    <2>2. f.id # id
      BY <1>6, <2>1 DEF WorksOn
    <2>3. f \in redis
      BY <1>4, <1>5, <2>2
    <2> QED BY <2>1, <2>3 DEF ExpiredInHand
  <1>16. ScanIsCurrent'
    BY <1>4, <1>5, <1>6 DEF ScanIsCurrent, ScanHolds
  <1> QED
    BY <1>8, <1>9, <1>10, <1>11, <1>12, <1>13, <1>14, <1>15, <1>16

\* It is not stored, because Redis fails.
LEMMA LosingKeepsInv ==
    ASSUME SessionInv, NEW t \in Thread, req[t].pc = "write", req[t].copy.valid,
           UNCHANGED redis, Fault(req[t].id),
           Done(t, req[t].op, req[t].id), UNCHANGED <<scan, contested>>
    PROVE  SessionInv'
  <1> USE DEF SessionInv
  <1>0. PICK id \in Session, op \in Op : id = req[t].id /\ op = req[t].op
    BY RequestFields
  <1> DEFINE r == Rest(op, id)
  <1>1. id \in Session /\ op \in Op /\ op # "stop" /\ WorksOn(t, id)
    BY <1>0 DEF CopiesAreChanged, WorksOn
  <1>2. /\ r \in Request /\ r.pc \in {"idle", "stop"}
        /\ r.pc = "stop" => op = "clear" /\ r.id = id
    BY <1>1, RestFields
  <1>3. req' = [req EXCEPT ![t] = r] /\ ended' = ended
    BY <1>0, <1>1 DEF Done, Goto, Rest
  <1>4. /\ faults' \in [Session -> 0..2] /\ faults'[id] # 0
        /\ \A j \in Session \ {id} : faults'[j] = faults[j]
        /\ faults'[id] # 2 => faults[id] # 2
    BY <1>0, <1>1, FaultsAreCounted DEF TypeOK
  <1> HIDE DEF r
  <1>5. redis' = redis /\ scan' = scan /\ contested' = contested
    OBVIOUS
  <1>6. /\ req' \in [Thread -> Request] /\ req'[t] = r
        /\ \A s \in Thread \ {t} : req'[s] = req[s]
        /\ SharedIsContested'
    BY <1>1, <1>2, <1>3, <1>5, GoingOnIsNoRival
  <1>7. TypeOK'
    BY <1>3, <1>4, <1>5, <1>6 DEF TypeOK, Request
  <1>8. StoredSessionsAreValid' /\ TimeIsLeft' /\ ScanIsCurrent'
    BY <1>5 DEF StoredSessionsAreValid, TimeIsLeft, ScanIsCurrent
  <1>9. CopiesAreChanged'
    BY <1>2, <1>6 DEF CopiesAreChanged
  <1>10. CleanLogoutIsOver'
    BY <1>2, <1>3, <1>4, <1>5, <1>6, <1>7
    DEF CleanLogoutIsOver, Present, WorksOn, TypeOK
  <1>11. NoPrincipalIsLeft'
    <2> SUFFICES ASSUME NEW j \in Session, j \notin contested
                 PROVE  /\ j \in ended /\ faults'[j] # 2 =>
                          /\ \A f \in redis : f.id = j => ~f.copy.in
                          /\ \A s \in Thread : req'[s].pc \in {"write", "delete"}
                                /\ req'[s].id = j => ~req'[s].copy.in
                        /\ faults'[j] = 0 /\ (\E s \in Thread : Stops(s, j)') =>
                            \A f \in redis : f.id = j => ~f.copy.in
      BY <1>3, <1>5 DEF NoPrincipalIsLeft
    <2>1. faults'[j] # 2 => faults[j] # 2
      BY <1>4
    <2>2. ASSUME NEW s \in Thread, Stops(s, j)', faults'[j] = 0
          PROVE  Stops(s, j) /\ faults[j] = 0
      BY <1>2, <1>4, <1>6, <2>2 DEF Stops, WorksOn
    <2> QED
      BY <1>2, <1>6, <2>1, <2>2 DEF NoPrincipalIsLeft
  <1>12. ExpiredInHand'
    BY <1>2, <1>5, <1>6 DEF ExpiredInHand, TimedOut
  <1> QED
    BY <1>6, <1>7, <1>8, <1>9, <1>10, <1>11, <1>12

\* It is of a session that is over, and is not stored.
LEMMA SkippingKeepsInv ==
    ASSUME SessionInv, NEW t \in Thread, req[t].pc = "write", ~req[t].copy.valid,
           Goto(t, [req[t] EXCEPT !.pc = "delete"]),
           UNCHANGED <<redis, scan, ended, contested, faults>>
    PROVE  SessionInv'
  <1> USE DEF SessionInv
  <1>0. PICK r \in Request : r = [req[t] EXCEPT !.pc = "delete"]
    BY RequestFields DEF Request, Holding
  <1>1. /\ r.pc = "delete" /\ r.id = req[t].id /\ r.op = req[t].op
        /\ r.copy = req[t].copy /\ WorksOn(t, r.id)
    BY <1>0, RequestFields DEF Holding, WorksOn
  <1>2. req' = [req EXCEPT ![t] = r]
    BY <1>0 DEF Goto
  <1>3. /\ redis' = redis /\ scan' = scan /\ ended' = ended
        /\ contested' = contested /\ faults' = faults
    OBVIOUS
  <1>4. /\ req' \in [Thread -> Request] /\ req'[t] = r
        /\ \A s \in Thread \ {t} : req'[s] = req[s]
        /\ SharedIsContested'
    BY <1>1, <1>2, GoingOnIsNoRival
  <1>5. TypeOK'
    BY <1>3, <1>4 DEF TypeOK, Request
  <1>6. StoredSessionsAreValid' /\ TimeIsLeft' /\ ScanIsCurrent'
    BY <1>3 DEF StoredSessionsAreValid, TimeIsLeft, ScanIsCurrent
  <1>7. CopiesAreChanged'
    BY <1>1, <1>4 DEF CopiesAreChanged
  <1>8. CleanLogoutIsOver'
    BY <1>1, <1>3, <1>4 DEF CleanLogoutIsOver, Present, WorksOn
  <1>9. NoPrincipalIsLeft'
    <2>1. \A j \in Session, s \in Thread : Stops(s, j)' => Stops(s, j)
      BY <1>1, <1>4 DEF Stops, WorksOn
    <2> QED
      BY <1>1, <1>3, <1>4, <2>1 DEF NoPrincipalIsLeft
  <1>10. ExpiredInHand'
    BY <1>1, <1>3, <1>4 DEF ExpiredInHand, TimedOut
  <1> QED
    BY <1>4, <1>5, <1>6, <1>7, <1>8, <1>9, <1>10

\* The second half: stored, lost or not stored at all.
LEMMA WriteSessionKeepsInv ==
    ASSUME SessionInv, NEW t \in Thread, WriteSession(t)
    PROVE  SessionInv'
  <1>1. CASE req[t].copy.valid
    BY <1>1, SavingKeepsInv, LosingKeepsInv DEF WriteSession, Update
  <1>2. CASE ~req[t].copy.valid
    BY <1>2, SkippingKeepsInv DEF WriteSession, Update
  <1> QED BY <1>1, <1>2

\* The session is deleted, or Redis fails; a stopped one has ended by it.
LEMMA DeleteSessionKeepsInv ==
    ASSUME SessionInv, NEW t \in Thread, DeleteSession(t)
    PROVE  SessionInv'
  <1> USE DEF SessionInv
  <1>0. PICK id \in Session, op \in Op : id = req[t].id /\ op = req[t].op
    BY RequestFields DEF DeleteSession
  <1> DEFINE r == Rest(op, id)
  <1>1. /\ r \in Request /\ r.pc \in {"idle", "stop"}
        /\ r.pc = "stop" => op = "clear" /\ r.id = id
        /\ WorksOn(t, id) /\ req[t].pc = "delete"
    BY <1>0, RestFields DEF DeleteSession, WorksOn
  <1>2. /\ req' = [req EXCEPT ![t] = r]
        /\ ended' = IF op = "stop" THEN ended \cup {id} ELSE ended
        /\ scan' = scan /\ contested' = contested
    BY <1>0 DEF DeleteSession, Done, Goto, Rest
  <1>3. \/ redis' = Deleted(id) /\ faults' = faults
        \/ Fault(id) /\ redis' = redis
    BY <1>0 DEF DeleteSession, Delete
  <1>4. /\ redis' \subseteq redis
        /\ faults' \in [Session -> 0..2]
        /\ \A j \in Session \ {id} : faults'[j] = faults[j]
        /\ faults'[id] = 0 => faults[id] = 0
        /\ faults'[id] = 1 => faults[id] = 0 \/ \A e \in redis' : e.id # id
        /\ faults'[id] = 0 => \A e \in redis' : e.id # id
        /\ faults'[id] # 2 => faults[id] # 2
    <2>1. CASE redis' = Deleted(id) /\ faults' = faults
      BY <2>1 DEF Deleted, TypeOK
    <2>2. CASE Fault(id) /\ redis' = redis
      BY <2>2, FaultsAreCounted DEF TypeOK
    <2> QED BY <1>3, <2>1, <2>2
  <1>5. id \notin contested =>
              ~ScanHolds(id) /\ \A s \in Thread \ {t} : ~WorksOn(s, id)
    BY <1>1 DEF SharedIsContested
  <1> HIDE DEF r
  <1>6. /\ req' \in [Thread -> Request] /\ req'[t] = r
        /\ \A s \in Thread \ {t} : req'[s] = req[s]
        /\ SharedIsContested'
    BY <1>1, <1>2, GoingOnIsNoRival
  <1>7. TypeOK'
    BY <1>2, <1>4, <1>6 DEF TypeOK, Request
  <1>8. StoredSessionsAreValid' /\ TimeIsLeft' /\ ScanIsCurrent'
    BY <1>2, <1>4 DEF StoredSessionsAreValid, TimeIsLeft, ScanIsCurrent
  <1>9. CopiesAreChanged'
    BY <1>1, <1>6 DEF CopiesAreChanged
  <1>10. CleanLogoutIsOver'
    <2> SUFFICES ASSUME NEW j \in ended', j \notin contested, faults'[j] = 0
                 PROVE  ~Present(j)' /\ \A s \in Thread : ~WorksOn(s, j)'
      BY <1>2 DEF CleanLogoutIsOver
    <2>1. CASE j = id
      <3>1. op = "stop"
        BY <1>1, <1>2, <1>4, <2>1 DEF CleanLogoutIsOver
      <3> QED
        BY <1>1, <1>4, <1>5, <1>6, <2>1, <3>1 DEF Present, WorksOn
    <2>2. CASE j # id
      <3>1. j \in ended /\ faults[j] = 0
        BY <1>2, <1>4, <1>7, <2>2 DEF TypeOK
      <3> QED
        BY <1>1, <1>4, <1>6, <2>2, <3>1 DEF CleanLogoutIsOver, Present, WorksOn
    <2> QED BY <2>1, <2>2
  <1>11. NoPrincipalIsLeft'
    <2> SUFFICES ASSUME NEW j \in Session, j \notin contested
                 PROVE  /\ j \in ended' /\ faults'[j] # 2 =>
                          /\ \A f \in redis' : f.id = j => ~f.copy.in
                          /\ \A s \in Thread : req'[s].pc \in {"write", "delete"}
                                /\ req'[s].id = j => ~req'[s].copy.in
                        /\ faults'[j] = 0 /\ (\E s \in Thread : Stops(s, j)') =>
                            \A f \in redis' : f.id = j => ~f.copy.in
      BY <1>2 DEF NoPrincipalIsLeft
    <2>1. CASE j = id
      <3>1. \A s \in Thread : ~(req'[s].pc \in {"write", "delete"} /\ req'[s].id = j)
        BY <1>1, <1>5, <1>6, <2>1 DEF WorksOn
      <3>2. ASSUME j \in ended', faults'[j] # 2, NEW f \in redis', f.id = j
            PROVE  ~f.copy.in
        <4>1. f \in redis /\ faults[j] = 0 /\ faults'[j] = 1
          BY <1>4, <2>1, <3>2
        <4>2. CASE op = "stop"
          BY <1>0, <1>1, <2>1, <3>2, <4>1, <4>2 DEF NoPrincipalIsLeft, Stops
        <4>3. CASE op # "stop"
          BY <1>2, <2>1, <3>2, <4>1, <4>3 DEF NoPrincipalIsLeft
        <4> QED BY <4>2, <4>3
      <3> QED BY <1>4, <2>1, <3>1, <3>2
    <2>2. CASE j # id
      <3>1. \A s \in Thread : Stops(s, j)' => Stops(s, j)
        BY <1>1, <1>6, <2>2 DEF Stops, WorksOn
      <3>2. (j \in ended' => j \in ended) /\ faults'[j] = faults[j]
        BY <1>2, <1>4, <2>2
      <3> QED
        BY <1>1, <1>4, <1>6, <3>1, <3>2 DEF NoPrincipalIsLeft
    <2> QED BY <2>1, <2>2
  <1>12. ExpiredInHand'
    BY <1>1, <1>2, <1>4, <1>6 DEF ExpiredInHand, TimedOut
  <1> QED
    BY <1>6, <1>7, <1>8, <1>9, <1>10, <1>11, <1>12

-----------------------------------------------------------------------------
(* The scheduler.                                                          *)

\* One key read: who works on its session is a rival from now on.
LEMMA ReadKeyKeepsInv ==
    ASSUME SessionInv, ReadKey
    PROVE  SessionInv'
  <1> USE DEF SessionInv
  <1>1. PICK id \in scan.keys :
          /\ scan' = [scan EXCEPT !.keys = @ \ {id},
                                  !.null = @ \/ ~Present(id),
                                  !.copies = @ \cup
                                    {[id |-> id, copy |-> e.copy] :
                                       e \in {x \in redis : x.id = id}}]
          /\ contested' = IF Present(id) /\ \E t \in Thread : WorksOn(t, id)
                            THEN contested \cup {id} ELSE contested
    BY DEF ReadKey
  <1>2. redis' = redis /\ req' = req /\ ended' = ended /\ faults' = faults
    BY DEF ReadKey
  <1>3. id \in Session
    BY ScanFields
  <1> DEFINE read == {[id |-> id, copy |-> e.copy] : e \in {x \in redis : x.id = id}}
  <1>4. /\ read \subseteq [id : Session, copy : Copy]
        /\ \A c \in read : c.id = id /\ \E e \in redis : e.id = id /\ e.copy = c.copy
    BY <1>3, EntryFields
  <1> HIDE DEF read
  <1>5. /\ scan'.copies = scan.copies \cup read
        /\ scan' \in Scan
    <2>1. scan.copies \cup read \subseteq [id : Session, copy : Copy]
      BY <1>4 DEF TypeOK, Scan
    <2> DEFINE null == (scan.null \/ ~Present(id))
               copies == scan.copies \cup read
               keys == scan.keys \ {id}
    <2>2. null \in BOOLEAN
      OBVIOUS
    <2>3. scan' = [scan EXCEPT !.keys = keys, !.null = null, !.copies = copies]
      BY <1>1, Zenon DEF read
    <2>4. keys \subseteq Session
      BY ScanFields
    <2>5. copies \subseteq [id : Session, copy : Copy]
      BY <2>1
    <2>6. scan \in Scan
      BY DEF TypeOK
    <2> HIDE DEF null, copies, keys
    <2>7. scan' \in Scan /\ scan'.copies = copies
      BY <2>2, <2>3, <2>4, <2>5, <2>6 DEF Scan
    <2> QED BY <2>7 DEF copies
  <1>6. /\ contested \subseteq contested' /\ contested' \subseteq Session
        /\ id \notin contested' => read = {} \/ \A t \in Thread : ~WorksOn(t, id)
    BY <1>1, <1>3, <1>4 DEF TypeOK, Present
  <1>7. TypeOK'
    BY <1>2, <1>5, <1>6 DEF TypeOK
  <1>8. SharedIsContested'
    BY <1>2, <1>4, <1>5, <1>6 DEF SharedIsContested, WorksOn, ScanHolds
  <1>9. StoredSessionsAreValid' /\ TimeIsLeft' /\ CopiesAreChanged'
    BY <1>2 DEF StoredSessionsAreValid, TimeIsLeft, CopiesAreChanged
  <1>10. CleanLogoutIsOver'
    BY <1>2, <1>6 DEF CleanLogoutIsOver, Present, WorksOn
  <1>11. NoPrincipalIsLeft'
    BY <1>2, <1>6 DEF NoPrincipalIsLeft, Stops, WorksOn
  <1>12. ExpiredInHand'
    BY <1>2, <1>6 DEF ExpiredInHand, TimedOut
  <1>13. ScanIsCurrent'
    BY <1>2, <1>4, <1>5, <1>6 DEF ScanIsCurrent, TypeOK
  <1> QED
    BY <1>7, <1>8, <1>9, <1>10, <1>11, <1>12, <1>13

\* A step of the scheduler that reads nothing, but may forget copies.
LEMMA ForgettingKeepsInv ==
    ASSUME SessionInv, scan' \in Scan, scan'.copies \subseteq scan.copies,
           UNCHANGED <<redis, req, ended, contested, faults>>
    PROVE  SessionInv'
  <1> USE DEF SessionInv
  <1>1. TypeOK'
    BY DEF TypeOK
  <1>2. SharedIsContested'
    BY DEF SharedIsContested, WorksOn, ScanHolds
  <1>3. StoredSessionsAreValid' /\ TimeIsLeft' /\ CopiesAreChanged'
    BY DEF StoredSessionsAreValid, TimeIsLeft, CopiesAreChanged
  <1>4. CleanLogoutIsOver'
    BY DEF CleanLogoutIsOver, Present, WorksOn
  <1>5. NoPrincipalIsLeft'
    BY DEF NoPrincipalIsLeft, Stops, WorksOn
  <1>6. ExpiredInHand'
    BY DEF ExpiredInHand, TimedOut
  <1>7. ScanIsCurrent'
    BY DEF ScanIsCurrent
  <1> QED
    BY <1>1, <1>2, <1>3, <1>4, <1>5, <1>6, <1>7

\* The other steps of the scheduler are of this kind.
LEMMA SchedulerKeepsInv ==
    ASSUME SessionInv, ListKeys \/ ReadFails \/ StartValidating \/ ScanThrows \/ ScanEnds
    PROVE  SessionInv'
  <1> USE DEF SessionInv
  <1>1. UNCHANGED <<redis, req, ended, contested, faults>>
    BY DEF ListKeys, ReadFails, StartValidating, ScanThrows, ScanEnds
  <1>2. CASE ListKeys
    <2>1. {e.id : e \in redis} \subseteq Session
      BY EntryFields
    <2> DEFINE keys == {e.id : e \in redis}
    <2>2. scan' = [pc |-> "reading", keys |-> keys, copies |-> {}, null |-> FALSE]
      BY <1>2 DEF ListKeys, Waiting
    <2> HIDE DEF keys
    <2>3. scan' \in Scan /\ scan'.copies = {}
      BY <2>1, <2>2 DEF Scan, keys
    <2> QED BY <1>1, <2>3, ForgettingKeepsInv
  <1>3. CASE ReadFails \/ ScanThrows \/ ScanEnds
    <2>1. PICK pc \in {"waiting", "dead"} :
            scan' = [pc |-> pc, keys |-> {}, copies |-> {}, null |-> FALSE]
      BY <1>3 DEF ReadFails, ScanThrows, ScanEnds, Waiting
    <2>2. scan' \in Scan /\ scan'.copies = {}
      BY <2>1 DEF Scan
    <2> QED BY <1>1, <2>2, ForgettingKeepsInv
  <1>4. CASE StartValidating
    <2>1. scan' \in Scan /\ scan'.copies = scan.copies
      BY <1>4 DEF StartValidating, TypeOK, Scan
    <2> QED BY <1>1, <2>1, ForgettingKeepsInv
  <1> QED BY <1>2, <1>3, <1>4

\* The scheduler deletes the session of a copy that has timed out.
LEMMA ValidateOneKeepsInv ==
    ASSUME SessionInv, ValidateOne
    PROVE  SessionInv'
  <1> USE DEF SessionInv
  <1>1. PICK c \in scan.copies :
          /\ IF TimedOut(c.copy) THEN Delete(c.id) ELSE UNCHANGED <<redis, faults>>
          /\ scan' = [scan EXCEPT !.copies = @ \ {c}]
    BY DEF ValidateOne
  <1>2. req' = req /\ ended' = ended /\ contested' = contested
    BY DEF ValidateOne
  <1>3. scan' \in Scan /\ scan'.copies \subseteq scan.copies
    BY <1>1 DEF TypeOK, Scan
  <1>4. c.id \in Session
    BY ScanFields
  <1>5. /\ redis' \subseteq redis
        /\ faults' \in [Session -> 0..2]
        /\ \A j \in Session : faults'[j] = 0 => faults[j] = 0
        /\ \A j \in Session : faults'[j] # 2 => faults[j] # 2
    <2>1. CASE UNCHANGED <<redis, faults>>
      BY <2>1 DEF TypeOK
    <2>2. CASE redis' = Deleted(c.id) /\ faults' = faults
      BY <2>2 DEF Deleted, TypeOK
    <2>3. CASE Fault(c.id) /\ redis' = redis
      BY <1>4, <2>3, FaultsAreCounted DEF TypeOK
    <2> QED BY <1>1, <2>1, <2>2, <2>3 DEF Delete
  <1>6. TypeOK'
    BY <1>2, <1>3, <1>5 DEF TypeOK
  <1>7. SharedIsContested'
    BY <1>2, <1>3 DEF SharedIsContested, WorksOn, ScanHolds
  <1>8. StoredSessionsAreValid' /\ TimeIsLeft' /\ CopiesAreChanged'
    BY <1>2, <1>5 DEF StoredSessionsAreValid, TimeIsLeft, CopiesAreChanged
  <1>9. CleanLogoutIsOver'
    BY <1>2, <1>5 DEF CleanLogoutIsOver, Present, WorksOn, TypeOK
  <1>10. NoPrincipalIsLeft'
    BY <1>2, <1>5 DEF NoPrincipalIsLeft, Stops, WorksOn
  <1>11. ExpiredInHand'
    BY <1>2, <1>5 DEF ExpiredInHand, TimedOut
  <1>12. ScanIsCurrent'
    BY <1>2, <1>3, <1>5 DEF ScanIsCurrent
  <1> QED
    BY <1>6, <1>7, <1>8, <1>9, <1>10, <1>11, <1>12

-----------------------------------------------------------------------------
(* Time passes, for the entries and for every copy alike.                  *)

\* What a tick makes of an entry that stays.
Aged(e) == [id |-> e.id, ttl |-> e.ttl - 1, copy |-> Older(e.copy)]

\* Time to live and age change by one, so their sum lasts.
LEMMA TickKeepsInv ==
    ASSUME SessionInv, Tick
    PROVE  SessionInv'
  <1> USE DEF SessionInv
  <1>1. ended' = ended /\ contested' = contested /\ faults' = faults
    BY DEF Tick
  \* The entries that stay.
  <1>2. \A f \in redis' : \E e \in redis :
            /\ f \in Entry /\ f.id = e.id /\ f.copy = Older(e.copy)
            /\ f.ttl = e.ttl - 1 /\ f = Aged(e)
    <2> SUFFICES ASSUME NEW f \in redis'
                 PROVE  \E e \in redis :
                          /\ f \in Entry /\ f.id = e.id /\ f.copy = Older(e.copy)
                          /\ f.ttl = e.ttl - 1 /\ f = Aged(e)
      OBVIOUS
    <2>1. PICK e \in redis : Left(e.ttl) > 0 /\
                f = [e EXCEPT !.ttl = Left(@), !.copy = Older(@)]
      BY DEF Tick
    <2>2. e \in Entry /\ e.ttl \in 1..Ttl /\ e.copy \in Copy
      BY EntryFields DEF TypeOK
    <2> DEFINE left == Left(e.ttl)
               older == Older(e.copy)
    <2>3. left = e.ttl - 1 /\ left \in 1..Ttl /\ older \in Copy
      BY <2>1, <2>2, OlderCopies, SessionAssumption DEF Left
    <2>4. f = [e EXCEPT !.ttl = left, !.copy = older]
      BY <2>1
    <2> HIDE DEF left, older
    <2>5. f \in Entry /\ f = [id |-> e.id, ttl |-> left, copy |-> older]
      BY <2>2, <2>3, <2>4 DEF Entry
    <2> QED
      BY <2>3, <2>5 DEF left, older, Aged
  \* The requests.
  <1>3. /\ req' \in [Thread -> Request]
        /\ \A t \in Thread :
             /\ req'[t].pc = req[t].pc
             /\ req[t].pc # "idle" => req'[t].id = req[t].id
             /\ req[t].pc \in {"write", "delete"} =>
                  req'[t].op = req[t].op /\ req'[t].copy = Older(req[t].copy)
    <2>1. req' = [t \in Thread |->
                    IF req[t].pc \in {"idle", "stop"} THEN req[t]
                    ELSE [req[t] EXCEPT !.copy = Older(@)]]
      BY DEF Tick
    <2>2. ASSUME NEW t \in Thread
          PROVE  /\ req'[t] \in Request
                 /\ req'[t].pc = req[t].pc
                 /\ req[t].pc # "idle" => req'[t].id = req[t].id
                 /\ req[t].pc \in {"write", "delete"} =>
                      req'[t].op = req[t].op /\ req'[t].copy = Older(req[t].copy)
      <3>1. CASE req[t].pc \in {"idle", "stop"}
        BY <2>1, <3>1, RequestFields
      <3>2. CASE req[t].pc \in {"write", "delete"}
        <4> DEFINE older == Older(req[t].copy)
        <4>1. req[t] \in Holding /\ older \in Copy
          BY <3>2, RequestFields, OlderCopies
        <4>2. req'[t] = [req[t] EXCEPT !.copy = older]
          BY <2>1, <3>2
        <4> HIDE DEF older
        <4>3. /\ req'[t] \in Holding /\ req'[t].pc = req[t].pc /\ req'[t].op = req[t].op
              /\ req'[t].id = req[t].id /\ req'[t].copy = older
          BY <4>1, <4>2 DEF Holding
        <4> QED BY <4>3 DEF older, Request
      <3> QED BY <3>1, <3>2, RequestFields
    <2> QED BY <2>1, <2>2
  \* The copies of the scheduler.
  <1>4. /\ scan' \in Scan
        /\ \A d \in scan'.copies : \E c \in scan.copies :
              d.id = c.id /\ d.copy = Older(c.copy)
    <2> DEFINE copies == {[c EXCEPT !.copy = Older(@)] : c \in scan.copies}
    <2>1. \A d \in copies : \E c \in scan.copies :
            /\ d \in [id : Session, copy : Copy]
            /\ d.id = c.id /\ d.copy = Older(c.copy)
      <3> SUFFICES ASSUME NEW c \in scan.copies, NEW d, d = [c EXCEPT !.copy = Older(@)]
                   PROVE  /\ d \in [id : Session, copy : Copy]
                          /\ d.id = c.id /\ d.copy = Older(c.copy)
        OBVIOUS
      <3> DEFINE older == Older(c.copy)
      <3>1. c \in [id : Session, copy : Copy] /\ c.copy \in Copy
        BY ScanFields DEF TypeOK, Scan
      <3>2. older \in Copy /\ d = [c EXCEPT !.copy = older]
        BY <3>1, OlderCopies
      <3> HIDE DEF older
      <3>3. d \in [id : Session, copy : Copy] /\ d.id = c.id /\ d.copy = older
        BY <3>1, <3>2
      <3> QED BY <3>3 DEF older
    <2>2. scan' = [scan EXCEPT !.copies = copies] /\ scan \in Scan
      BY DEF Tick, TypeOK
    <2> HIDE DEF copies
    <2>3. scan' \in Scan /\ scan'.copies = copies
      BY <2>1, <2>2 DEF Scan
    <2> QED BY <2>1, <2>3
  <1>5. TypeOK'
    <2>1. \A e, f \in redis' : e.id = f.id => e = f
      BY <1>2 DEF TypeOK
    <2>2. redis' \subseteq Entry
      BY <1>2
    <2> QED BY <1>1, <1>3, <1>4, <2>1, <2>2 DEF TypeOK, Request
  <1>6. StoredSessionsAreValid'
    BY <1>2, EntryFields, OlderCopies DEF StoredSessionsAreValid
  <1>7. SharedIsContested'
    BY <1>1, <1>3, <1>4 DEF SharedIsContested, WorksOn, ScanHolds
  <1>8. CopiesAreChanged'
    BY <1>3, RequestFields, OlderCopies DEF CopiesAreChanged
  <1>9. CleanLogoutIsOver'
    BY <1>1, <1>2, <1>3 DEF CleanLogoutIsOver, Present, WorksOn
  <1>10. NoPrincipalIsLeft'
    <2> SUFFICES ASSUME NEW j \in Session, j \notin contested
                 PROVE  /\ j \in ended /\ faults[j] # 2 =>
                          /\ \A f \in redis' : f.id = j => ~f.copy.in
                          /\ \A s \in Thread : req'[s].pc \in {"write", "delete"}
                                /\ req'[s].id = j => ~req'[s].copy.in
                        /\ faults[j] = 0 /\ (\E s \in Thread : Stops(s, j)') =>
                            \A f \in redis' : f.id = j => ~f.copy.in
      BY <1>1 DEF NoPrincipalIsLeft
    <2>1. \A f \in redis' : \E e \in redis : e.id = f.id /\ f.copy.in = e.copy.in
      BY <1>2, EntryFields, OlderCopies
    <2>2. \A s \in Thread : Stops(s, j)' => Stops(s, j)
      BY <1>3, RequestFields DEF Stops, WorksOn
    <2>3. \A s \in Thread : req'[s].pc \in {"write", "delete"} =>
            /\ req[s].pc \in {"write", "delete"} /\ req'[s].id = req[s].id
            /\ req'[s].copy.in = req[s].copy.in
      BY <1>3, RequestFields, OlderCopies
    <2> QED
      BY <2>1, <2>2, <2>3 DEF NoPrincipalIsLeft
  <1>11. TimeIsLeft'
    <2> SUFFICES ASSUME NEW f \in redis'
                 PROVE  f.ttl + f.copy.age >= Timeout
      BY DEF TimeIsLeft
    <2>1. PICK e \in redis : f.ttl = e.ttl - 1 /\ f.copy = Older(e.copy) /\ f \in Entry
      BY <1>2
    <2>2. e.ttl + e.copy.age >= Timeout
      BY DEF TimeIsLeft
    <2>3. e.ttl \in Nat /\ e.ttl >= 1 /\ e.copy.age \in Nat
      BY EntryFields, SessionAssumption DEF Age
    <2>4. f.copy.age = IF e.copy.age <= Timeout THEN e.copy.age + 1 ELSE e.copy.age
      BY <2>1, EntryFields, OlderCopies
    <2> QED BY <2>1, <2>2, <2>3, <2>4, SessionAssumption
  <1>12. ExpiredInHand'
    <2> SUFFICES ASSUME NEW t \in Thread, NEW f \in redis',
                        req'[t].pc \in {"write", "delete"}, req'[t].op # "stop",
                        ~req'[t].copy.valid, f.id = req'[t].id, f.id \notin contested
                 PROVE  TimedOut(f.copy)
      BY <1>1 DEF ExpiredInHand, TimedOut
    <2>1. PICK e \in redis : f.id = e.id /\ f.copy = Older(e.copy)
      BY <1>2
    <2>2. req[t].pc \in {"write", "delete"} /\ req[t].op # "stop"
          /\ ~req[t].copy.valid /\ e.id = req[t].id
      BY <1>3, <2>1, RequestFields, OlderCopies
    <2>3. TimedOut(e.copy)
      BY <2>1, <2>2 DEF ExpiredInHand
    <2> QED
      BY <2>1, <2>3, EntryFields, OlderCopies, SessionAssumption DEF TimedOut, Age
  <1>13. ScanIsCurrent'
    BY <1>1, <1>2, <1>4 DEF ScanIsCurrent
  <1> QED
    BY <1>5, <1>6, <1>7, <1>8, <1>9, <1>10, <1>11, <1>12, <1>13

-----------------------------------------------------------------------------
(* Every step.                                                             *)

\* The invariant is inductive.
LEMMA StepKeepsInv == SessionInv /\ [Next]_vars => SessionInv'
  <1> SUFFICES ASSUME SessionInv, [Next]_vars PROVE SessionInv'
    OBVIOUS
  <1>1. CASE Create
    BY <1>1, CreateKeepsInv
  <1>2. ASSUME NEW t \in Thread, NEW op \in Op, NEW id \in Session, Begin(t, op, id)
        PROVE  SessionInv'
    BY <1>2, ReadSessionKeepsInv DEF Begin, MayRead
  <1>3. ASSUME NEW t \in Thread, BeginStop(t)
        PROVE  SessionInv'
    <2>1. req[t].id \in Session /\ "stop" \in Op
      BY <1>3, RequestFields DEF SessionInv, BeginStop, Op
    <2> QED
      BY <1>3, <2>1, ReadSessionKeepsInv DEF BeginStop, MayRead
  <1>4. ASSUME NEW t \in Thread, WriteSession(t)
        PROVE  SessionInv'
    BY <1>4, WriteSessionKeepsInv
  <1>5. ASSUME NEW t \in Thread, DeleteSession(t)
        PROVE  SessionInv'
    BY <1>5, DeleteSessionKeepsInv
  <1>6. CASE ListKeys \/ ReadFails \/ StartValidating \/ ScanThrows \/ ScanEnds
    BY <1>6, SchedulerKeepsInv
  <1>7. CASE ReadKey
    BY <1>7, ReadKeyKeepsInv
  <1>8. CASE ValidateOne
    BY <1>8, ValidateOneKeepsInv
  <1>9. CASE Tick
    BY <1>9, TickKeepsInv
  <1>10. CASE UNCHANGED vars
    <2>1. /\ scan' \in Scan /\ scan'.copies \subseteq scan.copies
          /\ UNCHANGED <<redis, req, ended, contested, faults>>
      BY <1>10 DEF vars, SessionInv, TypeOK
    <2> QED BY <2>1, ForgettingKeepsInv
  <1> QED
    BY <1>1, <1>2, <1>3, <1>4, <1>5, <1>6, <1>7, <1>8, <1>9, <1>10 DEF Next

\* The invariant holds in every reachable state.
LEMMA InvHolds == Spec => []SessionInv
  BY InitHasInv, StepKeepsInv, PTL DEF Spec

\* Every session in Redis is valid, whoever wrote it (RedisShiroSessionDao.update
\* saves none that Shiro has stopped or found expired).
THEOREM SoundnessHolds == Spec => []SessionsAreSound
  <1>1. SessionInv => SessionsAreSound
    BY DEF SessionInv, SessionsAreSound
  <1> QED BY <1>1, InvHolds, PTL

\* A logout without a rival and without a failed command is final: clearing the
\* principal and stopping the session go through update and delete one by one.
THEOREM LogoutHolds == Spec => []LogoutIsFinal
  <1>1. SessionInv => LogoutIsFinal
    <2> SUFFICES ASSUME SessionInv, NEW id \in ended, Present(id), id \notin contested
                 PROVE  faults[id] > 0
      BY DEF LogoutIsFinal
    <2>1. faults[id] \in 0..2 /\ faults[id] # 0
      BY DEF SessionInv, CleanLogoutIsOver, TypeOK
    <2> QED BY <2>1
  <1> QED BY <1>1, InvHolds, PTL

\* Nor does one failed command leave the user logged in: either the principal
\* was cleared or the session was deleted.
THEOREM OneFaultHolds == Spec => []LogoutSurvivesOneFault
  <1>1. SessionInv => LogoutSurvivesOneFault
    BY EntryFields DEF SessionInv, NoPrincipalIsLeft, LogoutSurvivesOneFault
  <1> QED BY <1>1, InvHolds, PTL

-----------------------------------------------------------------------------
(* What makes a session disappear.                                         *)

\* By Redis's clock: the time to live was at least Timeout, since the last save.
LEMMA TickDropsIdle ==
    ASSUME SessionInv, Tick, NEW e \in redis, \A f \in redis' : f.id # e.id
    PROVE  Older(e.copy).age >= Timeout
  <1>1. ~(Left(e.ttl) > 0)
    <2> DEFINE f == [e EXCEPT !.ttl = Left(@), !.copy = Older(@)]
    <2>1. Left(e.ttl) > 0 => f \in redis'
      BY DEF Tick
    <2>2. f.id = e.id
      BY DEF SessionInv, TypeOK, Entry
    <2> QED BY <2>1, <2>2
  <1>2. e.ttl \in Nat /\ e.copy.age \in Nat /\ e.copy \in Copy
    BY EntryFields, SessionAssumption DEF SessionInv, Age
  <1>3. e.ttl <= 1
    BY <1>1, <1>2 DEF Left
  <1>4. e.ttl + e.copy.age >= Timeout
    BY DEF SessionInv, TimeIsLeft
  <1>5. Older(e.copy).age = IF e.copy.age <= Timeout THEN e.copy.age + 1 ELSE e.copy.age
    BY <1>2, OlderCopies
  <1> QED
    BY <1>2, <1>3, <1>4, <1>5, SessionAssumption

\* A timed-out session is idle long enough.
LEMMA TimedOutIsIdle ==
    ASSUME NEW copy \in Copy, TimedOut(copy)
    PROVE  Older(copy).age >= Timeout
  <1>1. copy.age \in Nat
    BY SessionAssumption DEF Copy, Age
  <1> QED
    BY <1>1, OlderCopies, SessionAssumption DEF TimedOut

\* Every other way out of Redis is a deletion.
LEMMA StepLosesOnlyIdle ==
    ASSUME SessionInv, [Next]_vars, NEW e \in redis,
           \A f \in redis' : f.id # e.id, e.id \notin contested
    PROVE  \/ Older(e.copy).age >= Timeout
           \/ \E t \in Thread :
                WorksOn(t, e.id) /\ req[t].pc = "delete" /\ req[t].op = "stop"
  <1>1. e.copy \in Copy /\ e.id \in Session
    BY EntryFields DEF SessionInv
  <1>2. CASE Create
    BY <1>2 DEF Create, Saved, Present
  <1>3. ASSUME NEW t \in Thread, NEW op \in Op, NEW id \in Session, Begin(t, op, id)
        PROVE  FALSE
    BY <1>3 DEF Begin, ReadSession
  <1>4. ASSUME NEW t \in Thread, BeginStop(t)
        PROVE  FALSE
    BY <1>4 DEF BeginStop, ReadSession
  <1>5. ASSUME NEW t \in Thread, WriteSession(t)
        PROVE  FALSE
    <2>1. redis' = redis \/ redis' = Saved(req[t].id, req[t].copy)
      BY <1>5 DEF WriteSession, Update
    <2>2. redis' = Saved(req[t].id, req[t].copy) => \E f \in redis' : f.id = e.id
      BY DEF Saved, NewEntry
    <2> QED BY <2>1, <2>2
  <1>6. ASSUME NEW t \in Thread, DeleteSession(t)
        PROVE  \/ Older(e.copy).age >= Timeout
               \/ WorksOn(t, e.id) /\ req[t].pc = "delete" /\ req[t].op = "stop"
    <2>1. req[t].pc = "delete" /\ req[t].id = e.id
      BY <1>6 DEF DeleteSession, Delete, Deleted
    <2>2. CASE req[t].op = "stop"
      BY <2>1, <2>2 DEF WorksOn
    <2>3. CASE req[t].op # "stop"
      <3>1. TimedOut(e.copy)
        BY <2>1, <2>3 DEF SessionInv, CopiesAreChanged, ExpiredInHand
      <3> QED BY <1>1, <3>1, TimedOutIsIdle
    <2> QED BY <2>2, <2>3
  <1>7. CASE ListKeys \/ ReadKey \/ ReadFails \/ StartValidating \/ ScanThrows
             \/ ScanEnds \/ UNCHANGED vars
    BY <1>7 DEF ListKeys, ReadKey, ReadFails, StartValidating, ScanThrows, ScanEnds, vars
  <1>8. CASE ValidateOne
    <2>1. PICK c \in scan.copies :
            IF TimedOut(c.copy) THEN Delete(c.id) ELSE UNCHANGED <<redis, faults>>
      BY <1>8 DEF ValidateOne
    <2>2. TimedOut(c.copy) /\ c.id = e.id
      BY <2>1 DEF Delete, Deleted
    <2>3. e.copy = c.copy
      BY <2>2 DEF SessionInv, ScanIsCurrent
    <2> QED BY <1>1, <2>2, <2>3, TimedOutIsIdle
  <1>9. CASE Tick
    BY <1>9, TickDropsIdle
  <1> QED
    BY <1>2, <1>3, <1>4, <1>5, <1>6, <1>7, <1>8, <1>9 DEF Next

\* A session that is in use is not lost: Redis's time to live, Shiro's timeout
\* and the validation scheduler agree on when it is idle.
THEOREM LossesHold == Spec => LostOnlyWhenIdle
  <1>1. SessionInv /\ [Next]_vars =>
          [\A e \in redis :
             \/ \E f \in redis' : f.id = e.id
             \/ Older(e.copy).age >= Timeout
             \/ \E t \in Thread : WorksOn(t, e.id) /\ req[t].pc = "delete"
                                   /\ req[t].op = "stop"
             \/ e.id \in contested]_vars
    BY StepLosesOnlyIdle
  <1> QED BY <1>1, InvHolds, PTL DEF Spec, LostOnlyWhenIdle
=============================================================================
