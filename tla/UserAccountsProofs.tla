------------------------- MODULE UserAccountsProofs -------------------------
(***************************************************************************)
(* Proofs about UserAccounts: its type invariant, and that the password    *)
(* set last logs in as long as no two administrators had the row at once   *)
(* and the user was not renamed.                                           *)
(***************************************************************************)
EXTENDS UserAccounts, TLAPS

Holds(a) == req[a].pc \in {"edit", "update"}

\* Every id in use has been handed out.
IdsAreOld ==
    /\ \A u \in users : u.id < nextId
    /\ \A a \in Admin : Holds(a) => req[a].form.id < nextId

\* A form that waits to be written is a row some password was encrypted for.
FormsFit ==
    \A a \in Admin :
        /\ Holds(a) => req[a].form.salt = req[a].form.hash.salt
        /\ req[a].pc = "update" =>
             LogsIn(req[a].form, req[a].form.hash.password)

\* A form is still the row, but for a new password, unless its id was in two
\* hands.
FormsAreCurrent ==
    \A a \in Admin, u \in users :
        (Holds(a) /\ u.id = req[a].form.id /\ u.id \notin overlap) =>
            /\ u.name = req[a].form.name
            /\ req[a].pc = "edit" => u = req[a].form

AccountInv ==
    /\ FormsFit /\ FormsAreCurrent
    /\ SaltBelongsToHash /\ LastEditHolds /\ LastPasswordLogsIn

-----------------------------------------------------------------------------
\* What encryptPassword makes of a user with a name and an id.
LEMMA EncryptedFacts ==
    ASSUME NEW i \in Id, NEW n \in Username, NEW p \in Password, NEW s \in Salt,
           NEW u, u.id = i, u.name = n
    PROVE  LET e == Encrypted(u, p, s)
           IN  /\ e \in User /\ e.id = i /\ e.name = n
               /\ e.salt = e.hash.salt /\ e.hash.password = p
               /\ LogsIn(e, p)
BY DEF Encrypted, HashOf, LogsIn, User, Hash

\* The update statement replaces the row of the form, or changes nothing.
LEMMA UpdatesFacts ==
    ASSUME TypeOK, NEW form \in User, Updates(form)
    PROVE  /\ users' \subseteq User
           /\ \A u, v \in users' : u.id = v.id \/ u.name = v.name => u = v
           /\ \A u \in users' : \/ u = form /\ Written(form)
                                \/ u \in users /\ (u.id = form.id => ~Written(form))
<1> DEFINE new == {[form EXCEPT !.id = u.id] : u \in SameId(form)}
<1>1. \A u \in new : u = form /\ \E v \in users : v.id = form.id
  BY DEF SameId, User
<1>2. CASE NameTaken(form.name, form.id)
  <2>1. users' = users /\ ~Written(form)
    BY <1>2 DEF Updates, Written
  <2> QED BY <2>1 DEF TypeOK
<1>3. CASE ~NameTaken(form.name, form.id)
  <2>1. users' = (users \ SameId(form)) \cup new
    BY <1>3 DEF Updates
  <2>2. \A u \in users' : \/ u = form /\ Written(form)
                          \/ u \in users /\ u.id # form.id
    BY <2>1, <1>1, <1>3 DEF Written, SameId
  <2>3. \A u \in users : u.id # form.id => u.name # form.name
    BY <1>3 DEF NameTaken
  <2>4. users' \subseteq User
    BY <2>2 DEF TypeOK
  <2>5. \A u, v \in users' : u.id = v.id \/ u.name = v.name => u = v
    BY <2>2, <2>3 DEF TypeOK
  <2> QED BY <2>2, <2>4, <2>5
<1> QED BY <1>2, <1>3

-----------------------------------------------------------------------------
\* The type invariant is inductive together with what says that a new id is
\* new.
Types == TypeOK /\ IdsAreOld

\* What the two actions that write a form back have in common.
LEMMA WriteTypes ==
    ASSUME Types, NEW a \in Admin, NEW form \in User, form.id < nextId,
           Updates(form), Finish(a), UNCHANGED <<nextId, salts>>,
           latest' \in [Id -> Edit], overlap' \subseteq Id, renamed' \subseteq Id
    PROVE  Types'
<1>1. TypeOK /\ IdsAreOld
  BY DEF Types
<1>2. /\ users' \subseteq User
      /\ \A u, v \in users' : u.id = v.id \/ u.name = v.name => u = v
      /\ \A u \in users' : u = form \/ u \in users
  BY <1>1, UpdatesFacts
<1>3. req' = [req EXCEPT ![a] = [pc |-> "idle"]]
  BY DEF Finish, Goto
<1>4. req' \in [Admin -> Idle \cup Editing \cup Changing]
  BY <1>1, <1>3 DEF TypeOK, Idle
<1>5. TypeOK'
  BY <1>1, <1>2, <1>4 DEF TypeOK
<1>6. \A b \in Admin : Holds(b)' => req'[b] = req[b] /\ Holds(b)
  BY <1>1, <1>3 DEF Holds, TypeOK
<1>7. IdsAreOld'
  BY <1>1, <1>2, <1>6 DEF IdsAreOld
<1> QED BY <1>5, <1>7 DEF Types

\* A form that is held is a row.
LEMMA HeldForms ==
    ASSUME TypeOK, NEW a \in Admin, Holds(a)
    PROVE  req[a].form \in User
BY DEF TypeOK, Holds, Idle, Editing, Changing

LEMMA TypeStep == Types /\ [Next]_vars => Types'
<1> SUFFICES ASSUME Types, [Next]_vars PROVE Types'
  OBVIOUS
<1>0. TypeOK /\ IdsAreOld
  BY DEF Types
<1>1. ASSUME NEW a \in Admin, OpenCreate(a) PROVE Types'
  <2>1. req' = [req EXCEPT ![a] = [pc |-> "create"]]
    BY <1>1 DEF OpenCreate, Goto
  <2>2. TypeOK'
    BY <1>0, <1>1, <2>1 DEF OpenCreate, TypeOK, Idle
  <2>3. IdsAreOld'
    BY <1>0, <1>1, <2>1 DEF OpenCreate, IdsAreOld, Holds, TypeOK
  <2> QED BY <2>2, <2>3 DEF Types
<1>2. ASSUME NEW a \in Admin, CreateUser(a) PROVE Types'
  <2>1. PICK n \in Username, p \in Password :
          LET user == Encrypted([id |-> nextId, name |-> n], p, salts + 1)
          IN  IF NameTaken(n, nextId)
                THEN UNCHANGED <<users, latest>>
                ELSE /\ users' = users \cup {user}
                     /\ latest' = [latest EXCEPT ![nextId] =
                                     [name |-> n, password |-> p]]
    BY <1>2 DEF CreateUser
  <2>2. nextId \in Id /\ salts + 1 \in Salt /\ AccountAssumption
    BY <1>0, <1>2, AccountAssumption DEF CreateUser, TypeOK, Id, Salt,
       AccountAssumption
  <2> DEFINE user == Encrypted([id |-> nextId, name |-> n], p, salts + 1)
  <2>3. user \in User /\ user.id = nextId /\ user.name = n
    BY <2>2, EncryptedFacts
  <2> HIDE DEF user
  <2>4. nextId' = nextId + 1 /\ nextId' \in 1..(MaxId + 1) /\ salts' \in 0..MaxSalt
    BY <1>0, <1>2, AccountAssumption DEF CreateUser, TypeOK
  <2>5. req' = [req EXCEPT ![a] = [pc |-> "idle"]]
    BY <1>2 DEF CreateUser, Finish, Goto
  <2>6. req' \in [Admin -> Idle \cup Editing \cup Changing]
    BY <1>0, <2>5 DEF TypeOK, Idle
  <2>7. overlap' \subseteq Id /\ renamed' \subseteq Id
    BY <1>0, <1>2 DEF CreateUser, TypeOK
  <2>8. /\ latest' \in [Id -> Edit] /\ users' \subseteq User
        /\ \A u \in users' : u \in users \/ u.id = nextId
        /\ \A u, v \in users' : u.id = v.id \/ u.name = v.name => u = v
    <3>1. CASE NameTaken(n, nextId)
      BY <1>0, <2>1, <3>1 DEF TypeOK
    <3>2. CASE ~NameTaken(n, nextId)
      <4>1. users' = users \cup {user} /\ latest' = [latest EXCEPT ![nextId] =
                                            [name |-> n, password |-> p]]
        BY <2>1, <3>2 DEF user
      <4>2. latest' \in [Id -> Edit]
        BY <1>0, <4>1, <2>2 DEF TypeOK, Edit
      <4>3. \A u \in users : u.id # nextId
        BY <1>0, <2>2 DEF IdsAreOld, TypeOK, User, Id
      <4>4. \A u \in users : u.name # n
        BY <3>2, <4>3 DEF NameTaken
      <4> QED BY <1>0, <4>1, <4>2, <4>3, <4>4, <2>3 DEF TypeOK
    <3> QED BY <3>1, <3>2
  <2>9. TypeOK'
    BY <2>4, <2>6, <2>7, <2>8 DEF TypeOK
  <2>10. IdsAreOld'
    <3>1. \A u \in users' : u.id < nextId'
      BY <1>0, <2>2, <2>4, <2>8 DEF IdsAreOld, TypeOK, User, Id
    <3>2. ASSUME NEW b \in Admin, Holds(b)' PROVE req'[b].form.id < nextId'
      <4>1. req'[b] = req[b] /\ Holds(b)
        BY <1>0, <2>5, <3>2 DEF Holds, TypeOK
      <4>2. req[b].form.id \in Id
        BY <1>0, <4>1, HeldForms DEF User
      <4> QED BY <1>0, <4>1, <4>2, <2>2, <2>4 DEF IdsAreOld, Id
    <3> QED BY <3>1, <3>2 DEF IdsAreOld
  <2> QED BY <2>9, <2>10 DEF Types
<1>3. ASSUME NEW a \in Admin, OpenEdit(a) PROVE Types'
  <2>1. PICK u \in users : req' = [req EXCEPT ![a] = [pc |-> "edit", form |-> u]]
    BY <1>3 DEF OpenEdit, Goto
  <2>2. TypeOK'
    BY <1>0, <1>3, <2>1 DEF OpenEdit, TypeOK, Editing
  <2>3. IdsAreOld'
    BY <1>0, <1>3, <2>1 DEF OpenEdit, IdsAreOld, Holds, TypeOK
  <2> QED BY <2>2, <2>3 DEF Types
<1>4. ASSUME NEW a \in Admin, UpdateUser(a) PROVE Types'
  <2>1. PICK n \in Username :
          LET form == [req[a].form EXCEPT !.name = n]
          IN  /\ Updates(form)
              /\ IF Written(form)
                   THEN /\ latest' = [latest EXCEPT ![form.id].name = n]
                        /\ overlap' = IF HeldByOthers(a, form.id)
                                        THEN overlap \cup {form.id} ELSE overlap
                        /\ renamed' = IF n # req[a].form.name
                                        THEN renamed \cup {form.id} ELSE renamed
                   ELSE UNCHANGED <<latest, overlap, renamed>>
    BY <1>4 DEF UpdateUser
  <2> DEFINE form == [req[a].form EXCEPT !.name = n]
  <2>2. Holds(a) /\ req[a].form \in User
    BY <1>0, <1>4, HeldForms DEF UpdateUser, Holds
  <2>3. form \in User /\ form.id \in Id /\ form.id = req[a].form.id
    BY <2>2 DEF User
  <2>4. form.id < nextId
    BY <1>0, <2>2, <2>3 DEF IdsAreOld
  <2>5. latest' \in [Id -> Edit] /\ overlap' \subseteq Id /\ renamed' \subseteq Id
    BY <1>0, <2>1, <2>3 DEF TypeOK, Edit
  <2>6. Updates(form) /\ Finish(a) /\ UNCHANGED <<nextId, salts>>
    BY <1>4, <2>1 DEF UpdateUser
  <2> HIDE DEF form
  <2> QED BY <2>3, <2>4, <2>5, <2>6, WriteTypes
<1>5. ASSUME NEW a \in Admin, LeavePage(a) PROVE Types'
  <2>1. req' = [req EXCEPT ![a] = [pc |-> "idle"]]
    BY <1>5 DEF LeavePage, Finish, Goto
  <2>2. TypeOK'
    BY <1>0, <1>5, <2>1 DEF LeavePage, TypeOK, Idle
  <2>3. IdsAreOld'
    BY <1>0, <1>5, <2>1 DEF LeavePage, IdsAreOld, Holds, TypeOK
  <2> QED BY <2>2, <2>3 DEF Types
<1>6. ASSUME NEW a \in Admin, ChangePassword(a) PROVE Types'
  <2>1. PICK u \in users, p \in Password :
          req' = [req EXCEPT ![a] =
                    [pc |-> "update", form |-> Encrypted(u, p, salts + 1)]]
    BY <1>6 DEF ChangePassword, Goto
  <2>2. u \in User /\ salts + 1 \in Salt /\ salts' \in 0..MaxSalt
    BY <1>0, <1>6, AccountAssumption DEF ChangePassword, TypeOK, Salt
  <2> DEFINE form == Encrypted(u, p, salts + 1)
  <2>3. form \in User /\ form.id = u.id
    BY <2>2, EncryptedFacts DEF User
  <2> HIDE DEF form
  <2>4. req' = [req EXCEPT ![a] = [pc |-> "update", form |-> form]]
    BY <2>1 DEF form
  <2>5. TypeOK'
    BY <1>0, <1>6, <2>2, <2>3, <2>4 DEF ChangePassword, TypeOK, Changing
  <2>6. IdsAreOld'
    BY <1>0, <1>6, <2>3, <2>4 DEF ChangePassword, IdsAreOld, Holds, TypeOK
  <2> QED BY <2>5, <2>6 DEF Types
<1>7. ASSUME NEW a \in Admin, WritePassword(a) PROVE Types'
  <2> DEFINE form == req[a].form
  <2>1. Holds(a) /\ form \in User
    BY <1>0, <1>7, HeldForms DEF WritePassword, Holds
  <2>2. form.id < nextId /\ form.id \in Id /\ form.hash.password \in Password
    BY <1>0, <2>1 DEF IdsAreOld, User, Hash
  <2>3. latest' \in [Id -> Edit] /\ overlap' \subseteq Id /\ renamed' \subseteq Id
    BY <1>0, <1>7, <2>2 DEF WritePassword, TypeOK, Edit
  <2>4. Updates(form) /\ Finish(a) /\ UNCHANGED <<nextId, salts>>
    BY <1>7 DEF WritePassword
  <2> HIDE DEF form
  <2> QED BY <2>1, <2>2, <2>3, <2>4, WriteTypes
<1>8. ASSUME NEW a \in Admin, DeleteUser(a) PROVE Types'
  <2>1. users' \subseteq users
    BY <1>8 DEF DeleteUser
  <2>2. TypeOK'
    BY <1>0, <1>8, <2>1 DEF DeleteUser, TypeOK
  <2>3. IdsAreOld'
    BY <1>0, <1>8, <2>1 DEF DeleteUser, IdsAreOld, Holds
  <2> QED BY <2>2, <2>3 DEF Types
<1>9. CASE UNCHANGED vars
  BY <1>0, <1>9 DEF vars, Types, TypeOK, IdsAreOld, Holds
<1> QED BY <1>1, <1>2, <1>3, <1>4, <1>5, <1>6, <1>7, <1>8, <1>9 DEF Next

LEMMA TypeInit == Init => Types
<1> SUFFICES ASSUME Init PROVE Types
  OBVIOUS
<1>1. TypeOK
  <2>1. PICK n \in Username, p \in Password : TRUE
    BY AccountAssumption DEF AccountAssumption
  <2>2. [name |-> n, password |-> p] \in Edit
    BY DEF Edit
  <2>3. (CHOOSE e \in Edit : TRUE) \in Edit
    BY <2>2
  <2>4. latest \in [Id -> Edit]
    BY <2>3 DEF Init
  <2>5. nextId \in 1..(MaxId + 1) /\ salts \in 0..MaxSalt
    BY AccountAssumption DEF Init, AccountAssumption
  <2> QED BY <2>4, <2>5 DEF Init, TypeOK, Idle
<1>2. IdsAreOld
  BY DEF Init, IdsAreOld, Holds
<1> QED BY <1>1, <1>2 DEF Types

\* The table and what each browser and request holds have their types, and ids
\* and usernames are unique, whatever administrators do.
THEOREM TypeCorrect == Spec => []TypeOK
<1>1. Spec => []Types
  BY TypeInit, TypeStep, PTL DEF Spec
<1>2. Types => TypeOK
  BY DEF Types
<1> QED BY <1>1, <1>2, PTL

-----------------------------------------------------------------------------
\* What is shown of an action that writes a form back: the history it keeps
\* fits the form, and nothing is said of other ids.
LEMMA WriteInv ==
    ASSUME Types, Types', AccountInv, NEW a \in Admin, Holds(a),
           NEW form \in User, form.id = req[a].form.id,
           form.salt = form.hash.salt, Updates(form), Finish(a),
           ~Written(form) => UNCHANGED <<latest, overlap, renamed>>,
           Written(form) =>
             /\ overlap' = IF HeldByOthers(a, form.id)
                             THEN overlap \cup {form.id} ELSE overlap
             /\ form.id \notin overlap' =>
                  latest'[form.id] = [name |-> form.name,
                                      password |-> form.hash.password]
             /\ form.id \notin overlap' \cup renamed' =>
                  LogsIn(form, latest'[form.id].password)
             /\ \A i \in Id \ {form.id} :
                  latest'[i] = latest[i] /\ (i \in renamed' <=> i \in renamed)
    PROVE  AccountInv'
<1>0. TypeOK /\ TypeOK'
  BY DEF Types
<1>1. \A u \in users' : \/ u = form /\ Written(form)
                        \/ u \in users /\ (u.id = form.id => ~Written(form))
  BY <1>0, UpdatesFacts
<1>2. req' = [req EXCEPT ![a] = [pc |-> "idle"]]
  BY DEF Finish, Goto
<1>3. \A b \in Admin : Holds(b)' => b # a /\ req'[b] = req[b] /\ Holds(b)
  BY <1>0, <1>2 DEF Holds, TypeOK
<1>4. overlap \subseteq overlap'
  BY DEF Written
<1>5. \A u \in users' : u \in User /\ u.id \in Id
  BY <1>0 DEF TypeOK, User
<1>6. FormsFit'
  <2>1. \A b \in Admin : req'[b].pc = "update" =>
          req'[b] = req[b] /\ req[b].pc = "update"
    BY <1>0, <1>2 DEF TypeOK
  <2> QED BY <2>1, <1>3 DEF AccountInv, FormsFit, LogsIn, HashOf
<1>7. FormsAreCurrent'
  <2> SUFFICES ASSUME NEW b \in Admin, NEW u \in users', Holds(b)',
                      u.id = req'[b].form.id, u.id \notin overlap'
               PROVE  /\ u.name = req'[b].form.name
                      /\ req'[b].pc = "edit" => u = req'[b].form
    BY DEF FormsAreCurrent
  <2>1. b # a /\ req'[b] = req[b] /\ Holds(b)
    BY <1>3
  <2>2. CASE u = form /\ Written(form)
    <3>1. HeldByOthers(a, form.id)
      BY <2>1, <2>2 DEF HeldByOthers, Holds
    <3> QED BY <2>2, <3>1
  <2>3. CASE u \in users
    BY <2>1, <2>3, <1>4 DEF AccountInv, FormsAreCurrent
  <2> QED BY <1>1, <2>2, <2>3
<1>8. SaltBelongsToHash'
  BY <1>1 DEF AccountInv, SaltBelongsToHash
<1>9. ASSUME NEW u \in users', ~(u = form /\ Written(form))
      PROVE  u \in users /\ latest'[u.id] = latest[u.id]
               /\ (u.id \in renamed' <=> u.id \in renamed)
  <2>1. CASE Written(form)
    <3>1. u \in users /\ u.id \in Id \ {form.id}
      BY <1>1, <1>5, <1>9, <2>1
    <3> QED BY <2>1, <3>1
  <2>2. CASE ~Written(form)
    BY <1>1, <2>2
  <2> QED BY <2>1, <2>2
<1>10. LastEditHolds'
  <2> SUFFICES ASSUME NEW u \in users', u.id \notin overlap'
               PROVE  latest'[u.id] = [name |-> u.name, password |-> u.hash.password]
    BY DEF LastEditHolds
  <2>1. CASE ~(u = form /\ Written(form))
    BY <1>4, <1>9, <2>1 DEF AccountInv, LastEditHolds
  <2> QED BY <2>1
<1>11. LastPasswordLogsIn'
  <2> SUFFICES ASSUME NEW u \in users', u.id \notin overlap' \cup renamed'
               PROVE  LogsIn(u, latest'[u.id].password)
    BY DEF LastPasswordLogsIn, LogsIn, HashOf
  <2>1. CASE ~(u = form /\ Written(form))
    BY <1>4, <1>9, <2>1 DEF AccountInv, LastPasswordLogsIn
  <2> QED BY <2>1
<1> QED BY <1>6, <1>7, <1>8, <1>10, <1>11 DEF AccountInv

\* An action that writes no row and gives nobody else a form keeps the
\* invariant as long as the new form fits.
LEMMA FormInv ==
    ASSUME Types, AccountInv, NEW a \in Admin, NEW state,
           req' = [req EXCEPT ![a] = state],
           UNCHANGED <<users, latest, overlap, renamed>>,
           state.pc \in {"edit", "update"} =>
             /\ state.form.salt = state.form.hash.salt
             /\ state.pc = "update" => LogsIn(state.form, state.form.hash.password)
             /\ \A u \in users : u.id = state.form.id =>
                  u.name = state.form.name /\ (state.pc = "edit" => u = state.form)
    PROVE  AccountInv'
<1>0. TypeOK
  BY DEF Types
<1>1. \A b \in Admin : req'[b] = IF b = a THEN state ELSE req[b]
  BY <1>0 DEF TypeOK
<1>2. FormsFit'
  BY <1>1 DEF AccountInv, FormsFit, Holds, LogsIn, HashOf
<1>3. FormsAreCurrent'
  <2> SUFFICES ASSUME NEW b \in Admin, NEW u \in users, Holds(b)',
                      u.id = req'[b].form.id, u.id \notin overlap
               PROVE  /\ u.name = req'[b].form.name
                      /\ req'[b].pc = "edit" => u = req'[b].form
    BY DEF FormsAreCurrent
  <2>1. CASE b = a
    BY <1>1, <2>1 DEF Holds
  <2>2. CASE b # a
    BY <1>1, <2>2 DEF AccountInv, FormsAreCurrent, Holds
  <2> QED BY <2>1, <2>2
<1> QED BY <1>2, <1>3 DEF AccountInv, SaltBelongsToHash, LastEditHolds,
             LastPasswordLogsIn, LogsIn, HashOf

LEMMA AccountStep == AccountInv /\ Types /\ Types' /\ [Next]_vars => AccountInv'
<1> SUFFICES ASSUME AccountInv, Types, Types', [Next]_vars PROVE AccountInv'
  OBVIOUS
<1>0. TypeOK /\ IdsAreOld
  BY DEF Types
<1>1. ASSUME NEW a \in Admin, OpenCreate(a) PROVE AccountInv'
  BY <1>1, FormInv DEF OpenCreate, Goto
<1>2. ASSUME NEW a \in Admin, CreateUser(a) PROVE AccountInv'
  <2>1. PICK n \in Username, p \in Password :
          LET user == Encrypted([id |-> nextId, name |-> n], p, salts + 1)
          IN  IF NameTaken(n, nextId)
                THEN UNCHANGED <<users, latest>>
                ELSE /\ users' = users \cup {user}
                     /\ latest' = [latest EXCEPT ![nextId] =
                                     [name |-> n, password |-> p]]
    BY <1>2 DEF CreateUser
  <2>2. req' = [req EXCEPT ![a] = [pc |-> "idle"]] /\ UNCHANGED <<overlap, renamed>>
    BY <1>2 DEF CreateUser, Finish, Goto
  <2>3. CASE NameTaken(n, nextId)
    BY <2>1, <2>2, <2>3, FormInv
  <2>4. CASE ~NameTaken(n, nextId)
    <3>1. nextId \in Id /\ salts + 1 \in Salt
      BY <1>0, <1>2, AccountAssumption DEF CreateUser, TypeOK, Id, Salt,
         AccountAssumption
    <3> DEFINE user == Encrypted([id |-> nextId, name |-> n], p, salts + 1)
    <3>2. /\ user.id = nextId /\ user.name = n /\ user.salt = user.hash.salt
          /\ user.hash.password = p /\ LogsIn(user, p)
      BY <3>1, EncryptedFacts
    <3>3. users' = users \cup {user} /\ latest' = [latest EXCEPT ![nextId] =
                                          [name |-> n, password |-> p]]
      BY <2>1, <2>4
    <3> HIDE DEF user
    <3>4. latest'[nextId] = [name |-> n, password |-> p]
      BY <1>0, <3>1, <3>3 DEF TypeOK
    <3>5. \A u \in users : u.id \in Id /\ u.id # nextId /\ latest'[u.id] = latest[u.id]
      BY <1>0, <3>1, <3>3 DEF IdsAreOld, TypeOK, User, Id
    <3>6. \A b \in Admin : Holds(b)' => req'[b] = req[b] /\ Holds(b)
      BY <1>0, <2>2 DEF Holds, TypeOK
    <3>7. FormsFit'
      <4>1. \A b \in Admin : req'[b].pc = "update" =>
              req'[b] = req[b] /\ req[b].pc = "update"
        BY <1>0, <2>2 DEF TypeOK
      <4> QED BY <3>6, <4>1 DEF AccountInv, FormsFit, LogsIn, HashOf
    <3>8. \A b \in Admin : Holds(b) => req[b].form.id # nextId
      <4> SUFFICES ASSUME NEW b \in Admin, Holds(b) PROVE req[b].form.id # nextId
        OBVIOUS
      <4>1. req[b].form.id \in Id /\ req[b].form.id < nextId
        BY <1>0, HeldForms DEF IdsAreOld, User
      <4> QED BY <3>1, <4>1 DEF Id
    <3>9. FormsAreCurrent'
      BY <2>2, <3>2, <3>3, <3>6, <3>8 DEF AccountInv, FormsAreCurrent
    <3>10. SaltBelongsToHash'
      BY <3>2, <3>3 DEF AccountInv, SaltBelongsToHash
    <3>11. LastEditHolds'
      BY <2>2, <3>2, <3>3, <3>4, <3>5 DEF AccountInv, LastEditHolds
    <3>12. LastPasswordLogsIn'
      <4> SUFFICES ASSUME NEW u \in users', u.id \notin overlap \cup renamed
                   PROVE  LogsIn(u, latest'[u.id].password)
        BY <2>2 DEF LastPasswordLogsIn, LogsIn, HashOf
      <4>1. CASE u \in users
        BY <3>5, <4>1 DEF AccountInv, LastPasswordLogsIn
      <4>2. CASE u = user
        BY <3>2, <3>4, <4>2
      <4> QED BY <3>3, <4>1, <4>2
    <3> QED BY <3>7, <3>9, <3>10, <3>11, <3>12 DEF AccountInv
  <2> QED BY <2>3, <2>4
<1>3. ASSUME NEW a \in Admin, OpenEdit(a) PROVE AccountInv'
  <2>1. PICK u \in users : req' = [req EXCEPT ![a] = [pc |-> "edit", form |-> u]]
    BY <1>3 DEF OpenEdit, Goto
  <2>2. \A v \in users : v.id = u.id => v = u
    BY <1>0 DEF TypeOK
  <2>3. u.salt = u.hash.salt
    BY DEF AccountInv, SaltBelongsToHash
  <2>4. UNCHANGED <<users, latest, overlap, renamed>>
    BY <1>3 DEF OpenEdit
  <2> QED BY <2>1, <2>2, <2>3, <2>4, FormInv
<1>4. ASSUME NEW a \in Admin, UpdateUser(a) PROVE AccountInv'
  <2>1. PICK n \in Username :
          LET form == [req[a].form EXCEPT !.name = n]
          IN  /\ Updates(form)
              /\ IF Written(form)
                   THEN /\ latest' = [latest EXCEPT ![form.id].name = n]
                        /\ overlap' = IF HeldByOthers(a, form.id)
                                        THEN overlap \cup {form.id} ELSE overlap
                        /\ renamed' = IF n # req[a].form.name
                                        THEN renamed \cup {form.id} ELSE renamed
                   ELSE UNCHANGED <<latest, overlap, renamed>>
    BY <1>4 DEF UpdateUser
  <2> DEFINE old == req[a].form
  <2> DEFINE form == [old EXCEPT !.name = n]
  <2>2. Holds(a) /\ req[a].pc = "edit" /\ old \in User
    BY <1>0, <1>4, HeldForms DEF UpdateUser, Holds
  <2>3. /\ form \in User /\ form.id \in Id /\ form.id = old.id /\ form.name = n
        /\ form.salt = old.salt /\ form.hash = old.hash
        /\ n = old.name => form = old
    BY <2>2 DEF User
  <2>4. form.salt = form.hash.salt
    BY <2>2, <2>3 DEF AccountInv, FormsFit
  <2>5. Updates(form) /\ Finish(a)
    BY <1>4, <2>1 DEF UpdateUser
  <2>6. ~Written(form) => UNCHANGED <<latest, overlap, renamed>>
    BY <2>1
  <2>7. Written(form) =>
          /\ latest' = [latest EXCEPT ![form.id].name = n]
          /\ overlap' = IF HeldByOthers(a, form.id)
                          THEN overlap \cup {form.id} ELSE overlap
          /\ renamed' = IF n # old.name THEN renamed \cup {form.id} ELSE renamed
    BY <2>1
  <2>8. Written(form) => \E u \in users : u.id = form.id
    BY DEF Written
  <2> HIDE DEF form
  <2>9. ASSUME Written(form), form.id \notin overlap'
        PROVE  old \in users /\ form.id \notin overlap
    <3>1. PICK u \in users : u.id = form.id
      BY <2>8, <2>9
    <3>2. form.id \notin overlap
      BY <2>7, <2>9
    <3>3. u = old
      BY <2>2, <2>3, <3>1, <3>2 DEF AccountInv, FormsAreCurrent
    <3> QED BY <3>2, <3>3
  <2>10. ASSUME Written(form), form.id \notin overlap'
         PROVE  latest'[form.id] = [name |-> form.name,
                                    password |-> form.hash.password]
    <3>1. latest[form.id] = [name |-> old.name, password |-> form.hash.password]
      BY <2>3, <2>9, <2>10 DEF AccountInv, LastEditHolds
    <3> QED BY <1>0, <2>3, <2>7, <2>10, <3>1 DEF TypeOK, Edit
  <2>11. ASSUME Written(form), form.id \notin overlap' \cup renamed'
         PROVE  LogsIn(form, latest'[form.id].password)
    <3>1. form = old /\ form.id \notin renamed
      BY <2>3, <2>7, <2>11
    <3>2. LogsIn(form, latest[form.id].password)
      BY <2>9, <2>11, <3>1 DEF AccountInv, LastPasswordLogsIn
    <3>3. latest'[form.id].password = latest[form.id].password
      BY <1>0, <2>3, <2>7, <2>11 DEF TypeOK, Edit
    <3> QED BY <3>2, <3>3
  <2>12. ASSUME Written(form)
         PROVE  \A i \in Id \ {form.id} :
                  latest'[i] = latest[i] /\ (i \in renamed' <=> i \in renamed)
    BY <1>0, <2>7, <2>12 DEF TypeOK
  <2> QED BY <2>2, <2>3, <2>4, <2>5, <2>6, <2>7, <2>10, <2>11, <2>12, WriteInv
<1>5. ASSUME NEW a \in Admin, LeavePage(a) PROVE AccountInv'
  BY <1>5, FormInv DEF LeavePage, Finish, Goto
<1>6. ASSUME NEW a \in Admin, ChangePassword(a) PROVE AccountInv'
  <2>1. PICK u \in users, p \in Password :
          req' = [req EXCEPT ![a] =
                    [pc |-> "update", form |-> Encrypted(u, p, salts + 1)]]
    BY <1>6 DEF ChangePassword, Goto
  <2>2. u \in User /\ salts + 1 \in Salt
    BY <1>0, <1>6, AccountAssumption DEF ChangePassword, TypeOK, Salt,
       AccountAssumption
  <2> DEFINE form == Encrypted(u, p, salts + 1)
  <2>3. /\ form.id = u.id /\ form.name = u.name /\ form.salt = form.hash.salt
        /\ form.hash.password = p /\ LogsIn(form, p)
    BY <2>2, EncryptedFacts DEF User
  <2>4. req' = [req EXCEPT ![a] = [pc |-> "update", form |-> form]]
    BY <2>1
  <2> HIDE DEF form
  <2>5. \A v \in users : v.id = form.id => v.name = form.name
    BY <1>0, <2>3 DEF TypeOK
  <2>6. UNCHANGED <<users, latest, overlap, renamed>>
    BY <1>6 DEF ChangePassword
  <2> QED BY <2>3, <2>4, <2>5, <2>6, FormInv
<1>7. ASSUME NEW a \in Admin, WritePassword(a) PROVE AccountInv'
  <2> DEFINE form == req[a].form
  <2>1. Holds(a) /\ req[a].pc = "update" /\ form \in User
    BY <1>0, <1>7, HeldForms DEF WritePassword, Holds
  <2>2. /\ form.id \in Id /\ form.salt = form.hash.salt
        /\ LogsIn(form, form.hash.password)
    BY <2>1 DEF AccountInv, FormsFit, User
  <2>3. Updates(form) /\ Finish(a)
    BY <1>7 DEF WritePassword
  <2>4. ~Written(form) => UNCHANGED <<latest, overlap, renamed>>
    BY <1>7 DEF WritePassword
  <2>5. Written(form) =>
          /\ latest' = [latest EXCEPT ![form.id].password = form.hash.password]
          /\ overlap' = IF HeldByOthers(a, form.id)
                          THEN overlap \cup {form.id} ELSE overlap
          /\ renamed' = renamed \ {form.id}
    BY <1>7 DEF WritePassword
  <2>6. ASSUME Written(form)
        PROVE  latest'[form.id].password = form.hash.password
    BY <1>0, <2>2, <2>5, <2>6 DEF TypeOK, Edit
  <2>7. ASSUME Written(form), form.id \notin overlap'
        PROVE  latest'[form.id] = [name |-> form.name,
                                   password |-> form.hash.password]
    <3>1. PICK u \in users : u.id = form.id
      BY <2>7 DEF Written
    <3>2. u.name = form.name /\ form.id \notin overlap
      BY <2>1, <2>5, <2>7, <3>1 DEF AccountInv, FormsAreCurrent
    <3>3. latest[form.id] = [name |-> form.name, password |-> u.hash.password]
      BY <3>1, <3>2 DEF AccountInv, LastEditHolds
    <3> QED BY <1>0, <2>2, <2>5, <2>7, <3>3 DEF TypeOK, Edit
  <2>8. ASSUME Written(form)
        PROVE  \A i \in Id \ {form.id} :
                 latest'[i] = latest[i] /\ (i \in renamed' <=> i \in renamed)
    BY <1>0, <2>5, <2>8 DEF TypeOK
  <2> QED BY <2>1, <2>2, <2>3, <2>4, <2>5, <2>6, <2>7, <2>8, WriteInv
<1>8. ASSUME NEW a \in Admin, DeleteUser(a) PROVE AccountInv'
  <2>1. users' \subseteq users /\ UNCHANGED <<req, latest, overlap, renamed>>
    BY <1>8 DEF DeleteUser
  <2> QED BY <2>1 DEF AccountInv, FormsFit, FormsAreCurrent, Holds, LogsIn, HashOf,
             SaltBelongsToHash, LastEditHolds, LastPasswordLogsIn
<1>9. CASE UNCHANGED vars
  BY <1>9 DEF vars, AccountInv, FormsFit, FormsAreCurrent, Holds, LogsIn, HashOf,
     SaltBelongsToHash, LastEditHolds, LastPasswordLogsIn
<1> QED BY <1>1, <1>2, <1>3, <1>4, <1>5, <1>6, <1>7, <1>8, <1>9 DEF Next

LEMMA Inductive == Spec => [](Types /\ AccountInv)
<1>1. Init => AccountInv
  BY DEF Init, AccountInv, FormsFit, FormsAreCurrent, Holds, SaltBelongsToHash,
     LastEditHolds, LastPasswordLogsIn
<1> QED BY <1>1, TypeInit, TypeStep, AccountStep, PTL DEF Spec

\* However old the forms that are written back, no row has the salt of one
\* password and the hash of another.
THEOREM SaltBelongsToHashHolds == Spec => []SaltBelongsToHash
<1>1. AccountInv => SaltBelongsToHash
  BY DEF AccountInv
<1> QED BY <1>1, Inductive, PTL

\* What an administrator saved last is in the row, as long as no two had it at
\* once.
THEOREM LastEditHoldsHolds == Spec => []LastEditHolds
<1>1. AccountInv => LastEditHolds
  BY DEF AccountInv
<1> QED BY <1>1, Inductive, PTL

\* The password set last logs in, as long as no two had the row at once and
\* the user was not renamed since.
THEOREM LastPasswordLogsInHolds == Spec => []LastPasswordLogsIn
<1>1. AccountInv => LastPasswordLogsIn
  BY DEF AccountInv
<1> QED BY <1>1, Inductive, PTL
=============================================================================
