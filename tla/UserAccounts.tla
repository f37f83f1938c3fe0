---------------------------- MODULE UserAccounts ----------------------------
(***************************************************************************)
(* UserServiceImpl and the pages of UserController: the accounts in        *)
(* ss_user and their passwords.  PasswordHelper hashes a password with the *)
(* username and a random salt; the row keeps the hash and the salt, and    *)
(* UserRealm recomputes it from the row it finds under the username.       *)
(*                                                                         *)
(* The edit page has the whole row, password and salt included, in its     *)
(* form.  changePassword selects the row and writes all of it, two         *)
(* statements without a transaction.                                       *)
(*                                                                         *)
(* No page sets `locked`, and no property is about organization_id; both   *)
(* are left out.  A hash stands for what it was computed from.             *)
(***************************************************************************)
EXTENDS Naturals, FiniteSets

CONSTANTS
    Admin,     \* the browsers administrators work in: one request each
    Username,
    Password,
    MaxId,     \* bound on the ids AUTO_INCREMENT hands out
    MaxSalt    \* bound on the salts drawn

ASSUME AccountAssumption ==
    /\ MaxId \in Nat \ {0} /\ MaxSalt \in Nat \ {0}
    /\ Username # {} /\ Password # {}

VARIABLES
    users,   \* the table: a set of User
    nextId,  \* its AUTO_INCREMENT counter
    salts,   \* the salts drawn: SecureRandomNumberGenerator repeats none
    req,     \* what each administrator's browser and request thread is at
    latest,  \* history: the name and the password last given to each id
    overlap, \* history: ids whose row was written between somebody else's
             \*   reading it and writing it back
    renamed  \* history: ids whose name was changed after their password

vars == <<users, nextId, salts, req, latest, overlap, renamed>>

-----------------------------------------------------------------------------
Id == 1..MaxId
Salt == 1..MaxSalt
Hash == [password : Password, name : Username, salt : Salt]
Edit == [name : Username, password : Password]
User == [id : Id, name : Username, hash : Hash, salt : Salt]

Idle    == [pc : {"idle", "create"}]
Editing == [pc : {"edit"}, form : User]
\* changePassword between its statements, with the new password to encrypt.
Changing == [pc : {"update"}, form : User]

TypeOK ==
    /\ users \subseteq User
    /\ \A u, v \in users : u.id = v.id \/ u.name = v.name => u = v
    /\ nextId \in 1..(MaxId + 1)
    /\ salts \in 0..MaxSalt
    /\ req \in [Admin -> Idle \cup Editing \cup Changing]
    /\ latest \in [Id -> Edit]
    /\ overlap \subseteq Id /\ renamed \subseteq Id

\* The users of the model are those created through the pages.  The rows of
\* auth.sql are left out: their passwords are not known.
Init ==
    /\ users = {}
    /\ nextId = 1
    /\ salts = 0
    /\ req = [a \in Admin |-> [pc |-> "idle"]]
    /\ latest = [i \in Id |-> CHOOSE e \in Edit : TRUE]
    /\ overlap = {}
    /\ renamed = {}

-----------------------------------------------------------------------------
Goto(a, state) == req' = [req EXCEPT ![a] = state]
Finish(a) == Goto(a, [pc |-> "idle"])

\* SimpleHash over the password and getCredentialsSalt, username and salt.
HashOf(password, name, salt) ==
    [password |-> password, name |-> name, salt |-> salt]

\* An encryptPassword that leaves out setSalt when there is a salt.
EncryptedKeepsSalt(user, password, salt) ==
    [id |-> user.id, name |-> user.name,
     salt |-> IF "salt" \in DOMAIN user THEN user.salt ELSE salt,
     hash |-> HashOf(password, user.name, salt)]

\* PasswordHelper.encryptPassword
Encrypted(user, password, salt) ==
    [id |-> user.id, name |-> user.name, salt |-> salt,
     hash |-> HashOf(password, user.name, salt)]

\* A realm that passes getSalt on instead of getCredentialsSalt.
LogsInBySalt(user, password) ==
    user.hash = [password |-> password, salt |-> user.salt]

\* UserRealm and RetryLimitHashedCredentialsMatcher, for the row of the username.
\* The count of failures never refuses a login: MyShiroCacheManager.put keeps
\* nothing, so each login counts with a new AtomicInteger.
LogsIn(user, password) == user.hash = HashOf(password, user.name, user.salt)

\* A table without the unique key on the username.
NameNeverTaken(name, id) == FALSE

NameTaken(name, id) == \E u \in users : u.name = name /\ u.id # id

\* A statement that finds its row by the username.
SameName(form) == {u \in users : u.name = form.name}

\* where id = #{id}
SameId(form) == {u \in users : u.id = form.id}

\* UserMapper.updateByPrimaryKeySelective: no field of the form is null.  It
\* changes nothing when the row is gone or the name taken.
Updates(form) ==
    IF NameTaken(form.name, form.id)
      THEN UNCHANGED users
      ELSE users' = (users \ SameId(form))
                      \cup {[form EXCEPT !.id = u.id] : u \in SameId(form)}

\* Somebody else has the row in a form or between select and update.
HeldByOthers(a, id) ==
    \E b \in Admin \ {a} : req[b].pc \in {"edit", "update"} /\ req[b].form.id = id

\* Whether a form is to take effect.
Written(form) ==
    (\E u \in users : u.id = form.id) /\ ~NameTaken(form.name, form.id)

-----------------------------------------------------------------------------
\* GET /user/create
OpenCreate(a) ==
    /\ req[a].pc = "idle"
    /\ Goto(a, [pc |-> "create"])
    /\ UNCHANGED <<users, nextId, salts, latest, overlap, renamed>>

\* POST /user/create.  A duplicate username is refused, and has used up an id.
CreateUser(a) ==
    /\ req[a].pc = "create"
    /\ nextId <= MaxId /\ salts < MaxSalt
    /\ \E n \in Username, p \in Password :
         LET user == Encrypted([id |-> nextId, name |-> n], p, salts + 1)
         IN  IF NameTaken(n, nextId)
               THEN UNCHANGED <<users, latest>>
               ELSE /\ users' = users \cup {user}
                    /\ latest' = [latest EXCEPT ![nextId] =
                                    [name |-> n, password |-> p]]
    /\ nextId' = nextId + 1
    /\ salts' = salts + 1
    /\ Finish(a)
    /\ UNCHANGED <<overlap, renamed>>

\* GET /user/{id}/update
OpenEdit(a) ==
    /\ req[a].pc = "idle"
    /\ \E u \in users : Goto(a, [pc |-> "edit", form |-> u])
    /\ UNCHANGED <<users, nextId, salts, latest, overlap, renamed>>

\* POST /user/{id}/update, with a name typed in or left as it was.
UpdateUser(a) ==
    /\ req[a].pc = "edit"
    /\ \E n \in Username :
         LET form == [req[a].form EXCEPT !.name = n]
         IN  /\ Updates(form)
             /\ IF Written(form)
                  THEN /\ latest' = [latest EXCEPT ![form.id].name = n]
                       /\ overlap' = IF HeldByOthers(a, form.id)
                                       THEN overlap \cup {form.id} ELSE overlap
                       /\ renamed' = IF n # req[a].form.name
                                       THEN renamed \cup {form.id} ELSE renamed
                  ELSE UNCHANGED <<latest, overlap, renamed>>
    /\ Finish(a)
    /\ UNCHANGED <<nextId, salts>>

\* The administrator goes elsewhere.
LeavePage(a) ==
    /\ req[a].pc \in {"create", "edit"}
    /\ Finish(a)
    /\ UNCHANGED <<users, nextId, salts, latest, overlap, renamed>>

\* POST /user/{id}/changePassword: the select, and the new hash in memory.
\* (A user that is gone is a NullPointerException.)
ChangePassword(a) ==
    /\ req[a].pc = "idle"
    /\ salts < MaxSalt
    /\ \E u \in users, p \in Password :
         Goto(a, [pc |-> "update", form |-> Encrypted(u, p, salts + 1)])
    /\ salts' = salts + 1
    /\ UNCHANGED <<users, nextId, latest, overlap, renamed>>

\* The update, with the row as it was selected but for password and salt.
WritePassword(a) ==
    /\ req[a].pc = "update"
    /\ LET form == req[a].form
       IN  /\ Updates(form)
           /\ IF Written(form)
                THEN /\ latest' = [latest EXCEPT ![form.id].password =
                                     form.hash.password]
                     /\ overlap' = IF HeldByOthers(a, form.id)
                                     THEN overlap \cup {form.id} ELSE overlap
                     /\ renamed' = renamed \ {form.id}
                ELSE UNCHANGED <<latest, overlap, renamed>>
    /\ Finish(a)
    /\ UNCHANGED <<nextId, salts>>

\* POST /user/{id}/delete
DeleteUser(a) ==
    /\ req[a].pc = "idle"
    /\ \E u \in users : users' = users \ {u}
    /\ UNCHANGED <<nextId, salts, req, latest, overlap, renamed>>

Next ==
    \E a \in Admin :
        \/ OpenCreate(a) \/ CreateUser(a) \/ OpenEdit(a) \/ UpdateUser(a)
        \/ LeavePage(a) \/ ChangePassword(a) \/ WritePassword(a) \/ DeleteUser(a)

Spec == Init /\ [][Next]_vars

-----------------------------------------------------------------------------
(* Properties.                                                             *)

\* Whatever forms of whatever age are written back, a row never has the salt
\* of one password and the hash of another: every statement that writes one
\* of them writes the other from the same reading.
SaltBelongsToHash == \A u \in users : u.salt = u.hash.salt

\* The name and the password given last are those of the row, unless two
\* administrators had the row at once: then the older form brings the old
\* password or name back.
LastEditHolds ==
    \A u \in users : u.id \notin overlap =>
        latest[u.id] = [name |-> u.name, password |-> u.hash.password]

\* A user logs in with the password set last, unless two administrators had
\* the row at once, or the user was renamed after that: the hash is of the
\* old username.
LastPasswordLogsIn ==
    \A u \in users : u.id \notin overlap \cup renamed =>
        LogsIn(u, latest[u.id].password)
=============================================================================
