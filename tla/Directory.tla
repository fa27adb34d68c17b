----------------------------- MODULE Directory ------------------------------
(***************************************************************************)
(* The users and accounts tables and the requests that write them:         *)
(* POST /auth/register (api/v1/auth.py), POST and PATCH /users (api/v1/    *)
(* users.py, services/user_service.py), POST and PATCH /accounts (api/v1/  *)
(* accounts.py, services/account_service.py).  Both tables hold uniquely   *)
(* named rows, a login for all users and an account's name for one user,   *)
(* and both leave the verdict on a name to the database.                   *)
(*                                                                         *)
(* A commit here flushes one INSERT or UPDATE.  An UPDATE first takes the  *)
(* lock of its row.  The unique index then makes either wait for an UPDATE *)
(* in flight that may give the name up, and decides; the last wait, the    *)
(* verdict and the COMMIT are one step.  Updates that swap names wait for  *)
(* each other, which PostgreSQL ends as a deadlock.                        *)
(***************************************************************************)
EXTENDS Integers, FiniteSets

CONSTANTS
    Calls,         \* the requests
    Seeds,         \* users from before
    SeedUsers,     \* [Seeds -> User], their rows
    Admins,        \* those of them with users.role ADMIN: no request sets one
    OldAccounts,   \* accounts from before
    SeedAccounts,  \* [OldAccounts -> Account], their rows
    Names,         \* logins and account names
    Fitting,       \* those of them that fit a column String(30)
    Details,       \* a password, or the other columns of an account
    None           \* NULL, nobody, or a field the request leaves out

(* A uuid is minted by the request that inserts the row. *)
UserIds == Seeds \cup Calls
AccountIds == OldAccounts \cup Calls

User == [name : Fitting, detail : Details]
Account == [name : Fitting, detail : Details, user : UserIds]

(* UserUpdate and AccountUpdate; the complete ones are UserCreate and       *)
(* AccountCreate.  A login is validated, and so is a new account's name.    *)
Fields == {"name", "detail"}
Body == [name : Names \cup {None}, detail : Details \cup {None}]
NoBody == [name |-> None, detail |-> None]
Complete == [name : Fitting, detail : Details]
Validated == [name : Fitting \cup {None}, detail : Details \cup {None}]

ASSUME DirectoryConstants ==
    /\ Seeds \cap Calls = {} /\ OldAccounts \cap Calls = {}
    /\ None \notin UserIds \cup AccountIds \cup Names \cup Details
    /\ Fitting \subseteq Names /\ Admins \subseteq Seeds
    /\ SeedUsers \in [Seeds -> User]
    /\ SeedAccounts \in [OldAccounts -> Account]
    /\ \A a \in OldAccounts : SeedAccounts[a].user \in Seeds
    /\ \A u, v \in Seeds : SeedUsers[u].name = SeedUsers[v].name => u = v
    /\ \A a, b \in OldAccounts :
          /\ SeedAccounts[a].user = SeedAccounts[b].user
          /\ SeedAccounts[a].name = SeedAccounts[b].name => a = b

VARIABLES
    users,     \* committed rows: user id -> User
    accounts,  \* committed rows: account id -> Account
    tokens,    \* the registered users a first refresh token was saved for
    req        \* the requests

vars == <<users, accounts, tokens, req>>

Kinds == {"register", "create_user", "update_user", "create_account", "update_account"}
Answers == {"none", "ok", "unchanged", "taken", "not_found", "unauthorised",
            "forbidden", "error", "lost"}

Request ==
    [pc : {"idle", "hash", "lock", "write", "refresh", "token", "reply", "done"},
     kind : Kinds \cup {"none"},
     caller : UserIds \cup {None},
     id : UserIds \cup AccountIds \cup {None},  \* the row to insert or update
     body : Body,
     old : Body,                                \* the row as it was read
     answer : Answers]

TypeOK ==
    /\ DOMAIN users \subseteq UserIds
    /\ \A u \in DOMAIN users : users[u] \in User
    /\ DOMAIN accounts \subseteq AccountIds
    /\ \A a \in DOMAIN accounts : accounts[a] \in Account
    /\ tokens \subseteq UserIds
    /\ req \in [Calls -> Request]

NoRequest == [pc |-> "idle", kind |-> "none", caller |-> None, id |-> None,
              body |-> NoBody, old |-> NoBody, answer |-> "none"]

Init ==
    /\ users = SeedUsers /\ accounts = SeedAccounts /\ tokens = {}
    /\ req = [c \in Calls |-> NoRequest]

InFlight == { c \in Calls : req[c].pc \notin {"idle", "done"} }
-----------------------------------------------------------------------------
(* What the database says.                                                  *)

(* The unique constraints, asked on behalf of the row self. *)
LoginTaken(login, self) ==
    \E u \in DOMAIN users : u # self /\ users[u].name = login
NameTaken(user, name, self) ==
    \E a \in DOMAIN accounts :
        a # self /\ accounts[a].user = user /\ accounts[a].name = name

(* get_account_by_id: None for an account that is not the caller's. *)
OwnAccount(usr, a) == a \in DOMAIN accounts /\ accounts[a].user = usr

Columns(row) == [name |-> row.name, detail |-> row.detail]

\* Fault: a field left out of the request is written as NULL.
ChangedNullToo(c) ==
    { f \in Fields : \/ req[c].body[f] # req[c].old[f]
                     \/ f = "detail" /\ req[c].kind = "update_user" }

(* The columns an UPDATE sets: those the request brings (exclude_none), but *)
(* SQLAlchemy leaves out one set to the value loaded.  A password is never  *)
(* that: each hash has a salt of its own.  An INSERT brings them all.       *)
Changed(c) ==
    { f \in Fields : /\ req[c].body[f] # None
                     /\ \/ req[c].body[f] # req[c].old[f]
                        \/ f = "detail" /\ req[c].kind = "update_user" }

\* Fault: the UPDATE writes back every column the request had read.
EditedWhole(c, row) ==
    [row EXCEPT !.name = IF "name" \in Changed(c) THEN req[c].body.name
                         ELSE req[c].old.name,
                !.detail = IF "detail" \in Changed(c) THEN req[c].body.detail
                           ELSE req[c].old.detail]

Edited(c, row) ==
    [row EXCEPT !.name = IF "name" \in Changed(c) THEN req[c].body.name ELSE @,
                !.detail = IF "detail" \in Changed(c) THEN req[c].body.detail ELSE @]

(* A new account's or login's name is checked by its schema, an account's   *)
(* new one is not.                                                          *)
TooLong(c) == "name" \in Changed(c) /\ req[c].body.name \notin Fitting
-----------------------------------------------------------------------------
(* Names and locks held inside PostgreSQL.                                  *)

(* A name in the unique index c writes: of logins, or of its user's accounts. *)
Entry(c, name) ==
    [name |-> name, user |-> IF req[c].kind \in {"create_account", "update_account"}
                             THEN req[c].caller ELSE None]

(* The name request c has to put into the index now. *)
Needs(c) ==
    IF req[c].pc = "write" /\ "name" \in Changed(c)
      THEN {Entry(c, req[c].body.name)} ELSE {}

(* The name whose fate it decides when it commits: its row's, as it is. *)
Holds(c) ==
    CASE req[c].pc = "write" /\ req[c].kind = "update_user" ->
            {Entry(c, users[req[c].id].name)}
      [] req[c].pc = "write" /\ req[c].kind = "update_account" ->
            {Entry(c, accounts[req[c].id].name)}
      [] OTHER -> {}

WaitsFor(c, d) == c # d /\ Needs(c) \cap Holds(d) # {}
Blocked(c) == \E d \in Calls : WaitsFor(c, d)

(* Another UPDATE has the lock of the row c is about to update. *)
RowLocked(c) ==
    \E d \in Calls : /\ req[d].pc = "write" /\ req[d].kind = req[c].kind
                     /\ req[d].id = req[c].id

(* c is one of a ring of requests each of which waits for the next. *)
InRing(c) ==
    \E ring \in SUBSET Calls :
        /\ c \in ring
        /\ \A d \in ring : /\ \E e \in ring : WaitsFor(d, e)
                           /\ \E e \in ring : WaitsFor(e, d)
-----------------------------------------------------------------------------
(* How a request begins and ends.                                           *)

Begin(c, stage, kind, usr, id, body, old) ==
    req' = [req EXCEPT ![c] =
              [pc |-> stage, kind |-> kind, caller |-> usr, id |-> id,
               body |-> body, old |-> old, answer |-> "none"]]
Refuse(c, kind, usr, reply) ==
    req' = [req EXCEPT ![c] =
              [NoRequest EXCEPT !.pc = "done", !.kind = kind, !.caller = usr,
                                !.answer = reply]]
Answer(c, reply) == req' = [req EXCEPT ![c].pc = "done", ![c].answer = reply]
Goto(c, stage) == req' = [req EXCEPT ![c].pc = stage]

(* get_current_user: a token that is no good, or of nobody we know, is      *)
(* turned down.                                                             *)
Authenticated(usr) == usr \in DOMAIN users

(* check_admin_permission. *)
IsAdmin(usr) == usr \in Admins

(* register_user: the login is looked up before the password is hashed. *)
StartRegister(c, body) ==
    /\ IF LoginTaken(body.name, None) THEN Refuse(c, "register", None, "taken")
       ELSE Begin(c, "hash", "register", None, c, body, NoBody)
    /\ UNCHANGED <<users, accounts, tokens>>

StartCreateUser(c, usr, body) ==
    /\ IF ~Authenticated(usr) THEN Refuse(c, "create_user", usr, "unauthorised")
       ELSE IF ~IsAdmin(usr) THEN Refuse(c, "create_user", usr, "forbidden")
       ELSE Begin(c, "hash", "create_user", usr, c, body, NoBody)
    /\ UNCHANGED <<users, accounts, tokens>>

(* update_user up to its commit: only a new password takes time. *)
StartUpdateUser(c, usr, id, body) ==
    /\ IF ~Authenticated(usr) THEN Refuse(c, "update_user", usr, "unauthorised")
       ELSE IF ~IsAdmin(usr) THEN Refuse(c, "update_user", usr, "forbidden")
       ELSE IF id \notin DOMAIN users THEN Refuse(c, "update_user", usr, "not_found")
       ELSE Begin(c, IF body.detail = None THEN "lock" ELSE "hash", "update_user",
                  usr, id, body, Columns(users[id]))
    /\ UNCHANGED <<users, accounts, tokens>>

StartCreateAccount(c, usr, body) ==
    /\ IF ~Authenticated(usr) THEN Refuse(c, "create_account", usr, "unauthorised")
       ELSE Begin(c, "write", "create_account", usr, c, body, NoBody)
    /\ UNCHANGED <<users, accounts, tokens>>

\* Fault: the account is fetched by its id alone.
StartUpdateAccountOfAnyone(c, usr, id, body) ==
    /\ IF ~Authenticated(usr) THEN Refuse(c, "update_account", usr, "unauthorised")
       ELSE IF id \notin DOMAIN accounts THEN Refuse(c, "update_account", usr, "not_found")
       ELSE IF body = NoBody THEN Refuse(c, "update_account", usr, "unchanged")
       ELSE Begin(c, "lock", "update_account", usr, id, body, Columns(accounts[id]))
    /\ UNCHANGED <<users, accounts, tokens>>

(* update_account up to its commit: fetch, then the two early returns. *)
StartUpdateAccount(c, usr, id, body) ==
    /\ IF ~Authenticated(usr) THEN Refuse(c, "update_account", usr, "unauthorised")
       ELSE IF ~OwnAccount(usr, id) THEN Refuse(c, "update_account", usr, "not_found")
       ELSE IF body = NoBody THEN Refuse(c, "update_account", usr, "unchanged")
       ELSE Begin(c, "lock", "update_account", usr, id, body, Columns(accounts[id]))
    /\ UNCHANGED <<users, accounts, tokens>>
-----------------------------------------------------------------------------
(* The statements that follow.                                              *)

(* hash_password_async, in a thread: others run meanwhile. *)
HashPassword(c) ==
    /\ req[c].pc = "hash"
    /\ Goto(c, IF req[c].kind = "update_user" THEN "lock" ELSE "write")
    /\ UNCHANGED <<users, accounts, tokens>>

(* commit() emits an UPDATE, if anything changed, which locks its row. *)
LockRow(c) ==
    /\ req[c].pc = "lock" /\ ~TooLong(c)
    /\ IF Changed(c) = {} THEN Goto(c, "refresh")
       ELSE ~RowLocked(c) /\ Goto(c, "write")
    /\ UNCHANGED <<users, accounts, tokens>>

(* A name that does not fit its column is a DataError, which nobody catches. *)
NameRefused(c) ==
    /\ req[c].pc = "lock" /\ TooLong(c)
    /\ Answer(c, "error")
    /\ UNCHANGED <<users, accounts, tokens>>

\* Fault: a deadlock is tried again.
DeadlockRetried(c) == InRing(c) /\ UNCHANGED vars

(* No IntegrityError either: a plain 500. *)
Deadlock(c) ==
    /\ InRing(c)
    /\ Answer(c, "error")
    /\ UNCHANGED <<users, accounts, tokens>>

\* Fault: the look-up of the login has already decided.
InsertUserUnchecked(c) ==
    /\ req[c].pc = "write" /\ req[c].kind \in {"register", "create_user"}
    /\ ~Blocked(c)
    /\ users' = [u \in DOMAIN users \cup {c} |->
                   IF u = c THEN req[c].body ELSE users[u]]
    /\ Goto(c, "refresh")
    /\ UNCHANGED <<accounts, tokens>>

(* create_user: INSERT and COMMIT, or a conflict. *)
InsertUser(c) ==
    /\ req[c].pc = "write" /\ req[c].kind \in {"register", "create_user"}
    /\ ~Blocked(c)
    /\ IF LoginTaken(req[c].body.name, c)
         THEN Answer(c, "taken") /\ UNCHANGED users
         ELSE /\ users' = [u \in DOMAIN users \cup {c} |->
                             IF u = c THEN req[c].body ELSE users[u]]
              /\ Goto(c, "refresh")
    /\ UNCHANGED <<accounts, tokens>>

\* Fault: a request to keep its name collides with itself.
UpdateUserSelfTaken(c) ==
    /\ req[c].pc = "write" /\ req[c].kind = "update_user"
    /\ ~Blocked(c)
    /\ IF "name" \in Changed(c) /\ LoginTaken(req[c].body.name, None)
         THEN Answer(c, "taken") /\ UNCHANGED users
         ELSE /\ users' = [users EXCEPT ![req[c].id] = Edited(c, @)]
              /\ Goto(c, "refresh")
    /\ UNCHANGED <<accounts, tokens>>

(* update_user: UPDATE and COMMIT, or a conflict. *)
UpdateUser(c) ==
    /\ req[c].pc = "write" /\ req[c].kind = "update_user"
    /\ ~Blocked(c)
    /\ IF "name" \in Changed(c) /\ LoginTaken(req[c].body.name, req[c].id)
         THEN Answer(c, "taken") /\ UNCHANGED users
         ELSE /\ users' = [users EXCEPT ![req[c].id] = Edited(c, @)]
              /\ Goto(c, "refresh")
    /\ UNCHANGED <<accounts, tokens>>

(* create_account: INSERT and COMMIT, or a conflict. *)
InsertAccount(c) ==
    /\ req[c].pc = "write" /\ req[c].kind = "create_account"
    /\ ~Blocked(c)
    /\ LET body == req[c].body
       IN  IF NameTaken(req[c].caller, body.name, c)
             THEN Answer(c, "taken") /\ UNCHANGED accounts
             ELSE /\ accounts' = [a \in DOMAIN accounts \cup {c} |->
                        IF a = c THEN [name |-> body.name, detail |-> body.detail,
                                       user |-> req[c].caller]
                        ELSE accounts[a]]
                  /\ Goto(c, "refresh")
    /\ UNCHANGED <<users, tokens>>

(* update_account: UPDATE and COMMIT, or a conflict. *)
UpdateAccount(c) ==
    /\ req[c].pc = "write" /\ req[c].kind = "update_account"
    /\ ~Blocked(c)
    /\ IF "name" \in Changed(c) /\ NameTaken(req[c].caller, req[c].body.name, req[c].id)
         THEN Answer(c, "taken") /\ UNCHANGED accounts
         ELSE /\ accounts' = [accounts EXCEPT ![req[c].id] = Edited(c, @)]
              /\ Goto(c, "refresh")
    /\ UNCHANGED <<users, tokens>>

\* Fault: a registration is over once its user is stored.
RefreshRowAndAnswer(c) ==
    /\ req[c].pc = "refresh"
    /\ Answer(c, "ok")
    /\ UNCHANGED <<users, accounts, tokens>>

(* session.refresh; a registration goes on to save a refresh token. *)
RefreshRow(c) ==
    /\ req[c].pc = "refresh"
    /\ IF req[c].kind = "register" THEN Goto(c, "token") ELSE Answer(c, "ok")
    /\ UNCHANGED <<users, accounts, tokens>>

(* save_refresh_token: a transaction of its own, then a refresh. *)
SaveToken(c) ==
    /\ req[c].pc = "token"
    /\ tokens' = tokens \cup {c}
    /\ Goto(c, "reply")
    /\ UNCHANGED <<users, accounts>>

HandOut(c) ==
    /\ req[c].pc = "reply"
    /\ Answer(c, "ok")
    /\ UNCHANGED <<users, accounts, tokens>>

(* The connection breaks, before a COMMIT or after it, or bcrypt refuses a  *)
(* password of more than 72 bytes: a plain 500.                             *)
Disconnected(c) ==
    /\ c \in InFlight
    /\ Answer(c, "error")
    /\ UNCHANGED <<users, accounts, tokens>>

(* The server process dies: what is in flight is never answered. *)
Crash ==
    /\ InFlight # {}
    /\ req' = [c \in Calls |-> IF c \in InFlight
                 THEN [req[c] EXCEPT !.pc = "done", !.answer = "lost"] ELSE req[c]]
    /\ UNCHANGED <<users, accounts, tokens>>

AllAnswered ==
    /\ \A c \in Calls : req[c].pc = "done"
    /\ UNCHANGED vars

Start(c) ==
    /\ req[c].pc = "idle"
    /\ \/ \E body \in Complete : StartRegister(c, body)
       \/ \E usr \in DOMAIN users \cup {None} :
             \/ \E body \in Complete :
                   StartCreateUser(c, usr, body) \/ StartCreateAccount(c, usr, body)
             \/ \E id \in UserIds, body \in Validated : StartUpdateUser(c, usr, id, body)
             \/ \E id \in AccountIds, body \in Body : StartUpdateAccount(c, usr, id, body)

Step(c) ==
    \/ HashPassword(c) \/ LockRow(c) \/ NameRefused(c) \/ Deadlock(c)
    \/ InsertUser(c) \/ UpdateUser(c)
    \/ InsertAccount(c) \/ UpdateAccount(c)
    \/ RefreshRow(c) \/ SaveToken(c) \/ HandOut(c)

Next ==
    \/ \E c \in Calls : Start(c) \/ Step(c) \/ Disconnected(c)
    \/ Crash \/ AllAnswered

Spec == Init /\ [][Next]_vars

(* bcrypt ends, and the database answers a statement that waits for nobody  *)
(* and ends a deadlock, or the connection breaks.                           *)
FairSpec == Spec /\ \A c \in Calls : WF_vars(Step(c))
-----------------------------------------------------------------------------
(* A login names one user, and an account's name one account of its user,   *)
(* whichever requests raced for it (user_service.py:39-65, account_         *)
(* service.py:20-60, models/user.py:16, models/transaction.py:27).          *)
NamesAreUnique ==
    /\ \A u, v \in DOMAIN users : users[u].name = users[v].name => u = v
    /\ \A a, b \in DOMAIN accounts :
          accounts[a].user = accounts[b].user /\ accounts[a].name = accounts[b].name
          => a = b

(* Two updates of one row that overlap do not undo each other: a column an  *)
(* update was not asked to set keeps what a rival has meanwhile put there,  *)
(* and one it was asked to set has the value asked for, then or when the    *)
(* row was read (user_service.py:83, 96-118; account_service.py:120-158).   *)
NoLostUpdate ==
    [][\A c \in Calls : req[c].pc = "write" /\ req'[c].pc = "refresh" =>
          LET kept(row, new) == \A f \in Fields :
                IF req[c].body[f] = None THEN new[f] = row[f]
                ELSE req[c].body[f] \in {new[f], req[c].old[f]}
          IN  /\ req[c].kind = "update_user" =>
                    kept(users[req[c].id], users'[req[c].id])
              /\ req[c].kind = "update_account" =>
                    kept(accounts[req[c].id], accounts'[req[c].id])]_vars

(* Rows appear and change only as their request commits, so that one which  *)
(* fails before has left no trace: a name that does not fit, a password     *)
(* bcrypt refuses, a deadlock, a conflict.  An admin's request changes a    *)
(* user's row, its user's an account's; no row vanishes or changes hands    *)
(* (users.py:55-76, account_service.py:41-60, 97-101, 145-158).             *)
OnlyTheEntitledWrite ==
    [][LET Commits(c) == c \in Calls /\ req[c].pc = "write" /\ req'[c].pc = "refresh"
       IN  /\ \A u \in DOMAIN users :
                 /\ u \in DOMAIN users'
                 /\ users'[u] # users[u] => \E c \in Calls :
                       Commits(c) /\ req[c].id = u /\ req[c].caller \in Admins
           /\ \A u \in DOMAIN users' \ DOMAIN users :
                 Commits(u) /\ (req[u].kind = "register" \/ req[u].caller \in Admins)
           /\ \A a \in DOMAIN accounts :
                 /\ a \in DOMAIN accounts' /\ accounts'[a].user = accounts[a].user
                 /\ accounts'[a] # accounts[a] => \E c \in Calls :
                       /\ Commits(c) /\ req[c].id = a
                       /\ req[c].caller = accounts[a].user
           /\ \A a \in DOMAIN accounts' \ DOMAIN accounts :
                 Commits(a) /\ accounts'[a].user = req[a].caller]_vars

(* A request is told that a name is taken when somebody else has it, at     *)
(* that moment; the rows it would have clashed with are never its own       *)
(* (account_service.py:51 "The only constraint reachable here").            *)
TakenIsTrue ==
    [][\A c \in Calls : req[c].pc = "write" /\ req'[c].answer = "taken" =>
          /\ req[c].body.name # None
          /\ IF req[c].kind \in {"create_account", "update_account"}
               THEN \E a \in DOMAIN accounts \ {req[c].id} :
                       /\ accounts[a].user = req[c].caller
                       /\ accounts[a].name = req[c].body.name
               ELSE \E u \in DOMAIN users \ {req[c].id} :
                       users[u].name = req[c].body.name]_vars

(* A request answered with success has stored its row, and a registration   *)
(* its first refresh token; one that was turned down has stored nothing.    *)
(* Only a 500 or no answer leaves it open, a registered user without a      *)
(* token included (auth.py:54-75, user_service.py:55-65).                   *)
AnswersAreTrue ==
    \A c \in Calls :
        /\ req[c].answer = "ok" =>
              /\ req[c].id \in DOMAIN users \cup DOMAIN accounts
              /\ req[c].kind = "register" => c \in tokens
        /\ req[c].answer \in {"taken", "not_found", "unauthorised", "forbidden"} =>
              c \notin DOMAIN users \cup DOMAIN accounts
        /\ c \in tokens => c \in DOMAIN users

(* Every request that arrives is answered, whoever holds the row or the     *)
(* name it waits for (user_service.py:108-109, account_service.py:148-149). *)
EveryRequestAnswered ==
    \A c \in Calls : req[c].pc # "idle" ~> req[c].pc = "done"
=============================================================================
