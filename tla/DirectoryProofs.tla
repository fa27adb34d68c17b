-------------------------- MODULE DirectoryProofs ---------------------------
(***************************************************************************)
(* Proofs, for any number of users, accounts, names and requests, of what  *)
(* module Directory keeps however the requests interleave, fail or crash.  *)
(***************************************************************************)
EXTENDS Directory, TLAPS

(* How far request c has come says what it may have stored, and that the    *)
(* row it is about to write is there and its to write.                      *)
Sound(c) ==
    /\ req[c].pc # "done" => req[c].answer = "none"
    /\ req[c].pc \in {"idle", "hash", "lock", "write"} =>
          c \notin DOMAIN users \cup DOMAIN accounts \cup tokens
    /\ req[c].pc = "hash" =>
          req[c].kind \in {"register", "create_user", "update_user"}
    /\ req[c].pc = "lock" => req[c].kind \in {"update_user", "update_account"}
    /\ req[c].pc \in {"hash", "lock", "write"} =>
          /\ req[c].kind \in {"register", "create_user", "create_account"} =>
                req[c].id = c /\ req[c].body \in Complete
          /\ req[c].kind = "create_user" => req[c].caller \in Admins
          /\ req[c].kind = "create_account" => req[c].caller \in DOMAIN users
          /\ req[c].kind = "update_user" =>
                /\ req[c].id \in DOMAIN users /\ req[c].caller \in Admins
                /\ req[c].body \in Validated /\ req[c].old \in Complete
          /\ req[c].kind = "update_account" =>
                OwnAccount(req[c].caller, req[c].id) /\ req[c].old \in Complete
    /\ req[c].pc = "write" /\ req[c].kind = "update_account" => ~TooLong(c)
    /\ req[c].pc \in {"refresh", "token", "reply"} =>
          /\ req[c].id \in DOMAIN users \cup DOMAIN accounts
          /\ req[c].kind = "register" => req[c].id = c /\ c \in DOMAIN users
    /\ req[c].pc \in {"token", "reply"} => req[c].kind = "register"
    /\ req[c].pc = "reply" => c \in tokens
    /\ req[c].answer = "ok" =>
          /\ req[c].id \in DOMAIN users \cup DOMAIN accounts
          /\ req[c].kind = "register" => c \in tokens
    /\ req[c].answer \in {"taken", "not_found", "unauthorised", "forbidden"} =>
          c \notin DOMAIN users \cup DOMAIN accounts
    /\ c \in tokens => c \in DOMAIN users

RowsOK ==
    /\ DOMAIN users \subseteq UserIds
    /\ \A u \in DOMAIN users : users[u] \in User
    /\ DOMAIN accounts \subseteq AccountIds
    /\ \A a \in DOMAIN accounts : accounts[a] \in Account
    /\ tokens \subseteq UserIds

IInv ==
    /\ RowsOK /\ req \in [Calls -> Request]
    /\ NamesAreUnique
    /\ \A c \in Calls : Sound(c)

(* The invariant contains the properties.                                   *)
LEMMA IInvImplies == IInv => TypeOK /\ NamesAreUnique /\ AnswersAreTrue
BY DEF IInv, RowsOK, TypeOK, Sound, AnswersAreTrue

(* The invariant holds of the seeds, before any request.                    *)
LEMMA InitIInv == Init => IInv
<1> SUFFICES ASSUME Init PROVE IInv
  OBVIOUS
<1> USE DirectoryConstants DEF DirectoryConstants, Init
<1>1. RowsOK
  BY DEF RowsOK, UserIds, AccountIds
<1>2. req \in [Calls -> Request]
  <2>1. NoBody \in Body
    BY DEF Body, NoBody
  <2>2. NoRequest \in Request
    BY <2>1 DEF Request, NoRequest, Answers
  <2> QED BY <2>2
<1>3. NamesAreUnique
  BY DEF NamesAreUnique
<1>4. ASSUME NEW c \in Calls PROVE Sound(c)
  <2>1. req[c] = NoRequest /\ c \notin Seeds /\ c \notin OldAccounts
    OBVIOUS
  <2>2. DOMAIN users = Seeds /\ DOMAIN accounts = OldAccounts /\ tokens = {}
    OBVIOUS
  <2> QED BY <2>1, <2>2 DEF Sound, NoRequest
<1> QED BY <1>1, <1>2, <1>3, <1>4 DEF IInv
-----------------------------------------------------------------------------
(* The tables may have grown by rows of request c's; nothing vanishes, and  *)
(* accounts stay whose they are.                                            *)
Grown(c) ==
    /\ DOMAIN users \subseteq DOMAIN users'
    /\ DOMAIN users' \subseteq DOMAIN users \cup {c}
    /\ DOMAIN accounts \subseteq DOMAIN accounts'
    /\ DOMAIN accounts' \subseteq DOMAIN accounts \cup {c}
    /\ \A a \in DOMAIN accounts : accounts'[a].user = accounts[a].user
    /\ tokens \subseteq tokens' /\ tokens' \subseteq tokens \cup {c}

(* What a step of request c does leaves every other request sound.          *)
LEMMA OthersStaySound ==
    ASSUME IInv, NEW c \in Calls, NEW d \in Calls \ {c}, Grown(c),
           req'[d] = req[d]
    PROVE  Sound(d)'
<1>1. /\ d \in DOMAIN users' <=> d \in DOMAIN users
      /\ d \in DOMAIN accounts' <=> d \in DOMAIN accounts
      /\ d \in tokens' <=> d \in tokens
  BY DEF Grown
<1>2. /\ \A x : x \in DOMAIN users => x \in DOMAIN users'
      /\ \A x : x \in DOMAIN accounts => x \in DOMAIN accounts'
  BY DEF Grown
<1>3. \A usr, a : OwnAccount(usr, a) => OwnAccount(usr, a)'
  BY DEF OwnAccount, Grown
<1>4. TooLong(d)' <=> TooLong(d)
  BY DEF TooLong, Changed
<1>5. Sound(d)
  BY DEF IInv
<1> QED BY <1>1, <1>2, <1>3, <1>4, <1>5 DEF Sound

(* A step of one request that leaves the tables alone.                      *)
LEMMA TablesUnchanged ==
    ASSUME IInv, NEW c \in Calls, req' \in [Calls -> Request],
           \A d \in Calls \ {c} : req'[d] = req[d],
           UNCHANGED <<users, accounts, tokens>>, Sound(c)'
    PROVE  IInv'
<1>1. RowsOK' /\ NamesAreUnique'
  BY DEF IInv, RowsOK, NamesAreUnique
<1>2. Grown(c)
  BY DEF Grown
<1>3. \A d \in Calls : Sound(d)'
  BY <1>2, OthersStaySound
<1> QED BY <1>1, <1>3 DEF IInv

(* A request that is turned down at once has stored nothing.                *)
LEMMA RefusedIsSound ==
    ASSUME IInv, NEW c \in Calls, req[c].pc = "idle", NEW kind \in Kinds,
           NEW usr \in UserIds \cup {None}, NEW reply \in Answers \ {"ok"},
           Refuse(c, kind, usr, reply), UNCHANGED <<users, accounts, tokens>>
    PROVE  IInv'
<1>1. req' \in [Calls -> Request] /\ \A d \in Calls \ {c} : req'[d] = req[d]
  BY DEF IInv, Refuse, Request, NoRequest, Body, NoBody
<1>2. req'[c].pc = "done" /\ req'[c].answer = reply
  BY DEF IInv, Refuse, NoRequest
<1>3. Sound(c)'
  BY <1>2 DEF IInv, Sound
<1> QED BY <1>1, <1>3, TablesUnchanged

(* A request that begins has stored nothing either.                         *)
LEMMA BegunIsSound ==
    ASSUME IInv, NEW c \in Calls, req[c].pc = "idle",
           NEW stage \in {"hash", "lock", "write"}, NEW kind \in Kinds,
           NEW usr \in UserIds \cup {None}, NEW id \in UserIds \cup AccountIds,
           NEW body \in Body, NEW old \in Body,
           Begin(c, stage, kind, usr, id, body, old),
           UNCHANGED <<users, accounts, tokens>>,
           stage = "hash" => kind \in {"register", "create_user", "update_user"},
           stage = "lock" => kind \in {"update_user", "update_account"},
           stage = "write" => kind = "create_account",
           kind \in {"register", "create_user", "create_account"} =>
               id = c /\ body \in Complete,
           kind = "create_user" => usr \in Admins,
           kind = "create_account" => usr \in DOMAIN users,
           kind = "update_user" =>
               /\ id \in DOMAIN users /\ usr \in Admins
               /\ body \in Validated /\ old \in Complete,
           kind = "update_account" => OwnAccount(usr, id) /\ old \in Complete
    PROVE  IInv'
<1>1. req' \in [Calls -> Request] /\ \A d \in Calls \ {c} : req'[d] = req[d]
  BY DEF IInv, Begin, Request, Answers
<1>2. req'[c] = [pc |-> stage, kind |-> kind, caller |-> usr, id |-> id,
                 body |-> body, old |-> old, answer |-> "none"]
  BY DEF IInv, Begin
<1>3. Sound(c)'
  BY <1>2 DEF IInv, Sound, OwnAccount
<1> QED BY <1>1, <1>3, TablesUnchanged

(* The bodies the schemas accept are bodies.                                *)
LEMMA CompleteBodies == Complete \subseteq Body /\ Validated \subseteq Body /\ NoBody \in Body
BY DirectoryConstants DEF DirectoryConstants, Complete, Validated, Body, NoBody

(* Each of the five requests is turned down or begins.                      *)
LEMMA StartKeepsIInv ==
    ASSUME IInv, NEW c \in Calls, Start(c)
    PROVE  IInv'
<1> USE CompleteBodies
<1>1. req[c].pc = "idle" /\ c \in UserIds /\ c \in AccountIds
  BY DEF Start, UserIds, AccountIds
<1>2. ASSUME NEW body \in Complete, StartRegister(c, body)
      PROVE  IInv'
  BY <1>1, <1>2, RefusedIsSound, BegunIsSound DEF StartRegister, Kinds, Answers
<1>3. ASSUME NEW usr \in DOMAIN users \cup {None}, NEW body \in Complete,
             StartCreateUser(c, usr, body)
      PROVE  IInv'
  <2>1. usr \in UserIds \cup {None}
    BY DEF IInv, RowsOK
  <2> QED BY <1>1, <1>3, <2>1, RefusedIsSound, BegunIsSound
          DEF StartCreateUser, IsAdmin, Kinds, Answers
<1>4. ASSUME NEW usr \in DOMAIN users \cup {None}, NEW body \in Complete,
             StartCreateAccount(c, usr, body)
      PROVE  IInv'
  <2>1. usr \in UserIds \cup {None}
    BY DEF IInv, RowsOK
  <2> QED BY <1>1, <1>4, <2>1, RefusedIsSound, BegunIsSound
          DEF StartCreateAccount, Authenticated, Kinds, Answers
<1>5. ASSUME NEW usr \in DOMAIN users \cup {None}, NEW id \in UserIds,
             NEW body \in Validated, StartUpdateUser(c, usr, id, body)
      PROVE  IInv'
  <2>1. usr \in UserIds \cup {None}
    BY DEF IInv, RowsOK
  <2>2. id \in DOMAIN users => Columns(users[id]) \in Complete
    BY DEF IInv, RowsOK, User, Columns, Complete
  <2> QED BY <1>1, <1>5, <2>1, <2>2, RefusedIsSound, BegunIsSound
          DEF StartUpdateUser, IsAdmin, Kinds, Answers
<1>6. ASSUME NEW usr \in DOMAIN users \cup {None}, NEW id \in AccountIds,
             NEW body \in Body, StartUpdateAccount(c, usr, id, body)
      PROVE  IInv'
  <2>1. usr \in UserIds \cup {None}
    BY DEF IInv, RowsOK
  <2>2. OwnAccount(usr, id) => Columns(accounts[id]) \in Complete
    BY DEF IInv, RowsOK, Account, Columns, Complete, OwnAccount
  <2> QED BY <1>1, <1>6, <2>1, <2>2, RefusedIsSound, BegunIsSound
          DEF StartUpdateAccount, Kinds, Answers
<1> QED BY <1>2, <1>3, <1>4, <1>5, <1>6 DEF Start
-----------------------------------------------------------------------------
(* A request that is answered without touching a table.                     *)
LEMMA AnswerKeepsIInv ==
    ASSUME IInv, NEW c \in Calls, NEW reply \in {"ok", "taken", "error"},
           Answer(c, reply), UNCHANGED <<users, accounts, tokens>>,
           reply = "taken" => req[c].pc = "write",
           reply = "ok" => /\ req[c].pc \in {"refresh", "reply"}
                           /\ req[c].kind = "register" => req[c].pc = "reply"
    PROVE  IInv'
<1> DEFINE r == [req[c] EXCEPT !.pc = "done", !.answer = reply]
<1>1. req[c] \in Request /\ req \in [Calls -> Request]
  BY DEF IInv
<1>2. r \in Request /\ req' = [req EXCEPT ![c] = r]
  BY <1>1 DEF Answer, Request, Answers
<1>3. req' \in [Calls -> Request] /\ \A d \in Calls \ {c} : req'[d] = req[d]
  BY <1>1, <1>2
<1>4. /\ req'[c].pc = "done" /\ req'[c].answer = reply
      /\ req'[c].kind = req[c].kind /\ req'[c].id = req[c].id
  BY <1>1, <1>2 DEF Request
<1>5. Sound(c)'
  BY <1>4 DEF IInv, Sound
<1> QED BY <1>3, <1>5, TablesUnchanged

(* A request moves on to its next statement without touching a table.       *)
LEMMA GotoIs ==
    ASSUME IInv, NEW c \in Calls, NEW stage \in {"lock", "write", "refresh", "token", "reply"},
           Goto(c, stage)
    PROVE  /\ req' \in [Calls -> Request] /\ \A d \in Calls \ {c} : req'[d] = req[d]
           /\ req'[c].pc = stage
           /\ req'[c].kind = req[c].kind /\ req'[c].caller = req[c].caller
           /\ req'[c].id = req[c].id /\ req'[c].body = req[c].body
           /\ req'[c].old = req[c].old /\ req'[c].answer = req[c].answer
<1> DEFINE r == [req[c] EXCEPT !.pc = stage]
<1>1. req[c] \in Request /\ req \in [Calls -> Request]
  BY DEF IInv
<1>2. r \in Request /\ req' = [req EXCEPT ![c] = r]
  BY <1>1 DEF Goto, Request
<1>3. /\ r.pc = stage /\ r.kind = req[c].kind /\ r.caller = req[c].caller
      /\ r.id = req[c].id /\ r.body = req[c].body
      /\ r.old = req[c].old /\ r.answer = req[c].answer
  BY <1>1 DEF Request
<1> QED BY <1>1, <1>2, <1>3

(* The steps that leave the tables alone, and the one that saves a token.   *)
LEMMA QuietStepKeepsIInv ==
    ASSUME IInv, NEW c \in Calls,
           \/ HashPassword(c) \/ LockRow(c) \/ NameRefused(c) \/ Deadlock(c)
           \/ RefreshRow(c) \/ HandOut(c) \/ Disconnected(c)
    PROVE  IInv'
<1>1. CASE HashPassword(c)
  <2>1. Sound(c)'
    BY <1>1, GotoIs DEF IInv, Sound, HashPassword, OwnAccount
  <2> QED BY <1>1, <2>1, GotoIs, TablesUnchanged DEF HashPassword
<1>2. CASE RefreshRow(c) /\ req[c].kind = "register"
  <2>1. Sound(c)'
    BY <1>2, GotoIs DEF IInv, Sound, RefreshRow
  <2> QED BY <1>2, <2>1, GotoIs, TablesUnchanged DEF RefreshRow
<1>3. CASE RefreshRow(c) /\ req[c].kind # "register"
  BY <1>3, AnswerKeepsIInv DEF RefreshRow
<1>4. CASE HandOut(c)
  BY <1>4, AnswerKeepsIInv DEF HandOut
<1>5. CASE Disconnected(c)
  BY <1>5, AnswerKeepsIInv DEF Disconnected
<1>6. CASE NameRefused(c) \/ Deadlock(c)
  BY <1>6, AnswerKeepsIInv DEF NameRefused, Deadlock
<1>7. CASE LockRow(c)
  <2>1. PICK stage \in {"refresh", "write"} : Goto(c, stage)
    BY <1>7 DEF LockRow
  <2>2. req[c].pc = "lock" /\ ~TooLong(c) /\ UNCHANGED <<users, accounts, tokens>>
    BY <1>7 DEF LockRow
  <2>3. ~TooLong(c)'
    BY <2>1, <2>2, GotoIs DEF TooLong, Changed
  <2>4. Sound(c)'
    BY <2>1, <2>2, <2>3, GotoIs DEF IInv, Sound, OwnAccount
  <2> QED BY <2>1, <2>2, <2>4, GotoIs, TablesUnchanged
<1> QED BY <1>1, <1>2, <1>3, <1>4, <1>5, <1>6, <1>7

(* A first refresh token is saved for a user that is stored.                *)
LEMMA SaveTokenKeepsIInv ==
    ASSUME IInv, NEW c \in Calls, SaveToken(c)
    PROVE  IInv'
<1>1. Goto(c, "reply") /\ tokens' = tokens \cup {c} /\ UNCHANGED <<users, accounts>>
  BY DEF SaveToken
<1>2. Grown(c)
  BY <1>1 DEF Grown
<1>3. Sound(c)'
  BY <1>1, GotoIs DEF IInv, Sound, SaveToken
<1>4. RowsOK' /\ NamesAreUnique'
  BY <1>1 DEF IInv, RowsOK, NamesAreUnique, UserIds
<1> QED BY <1>1, <1>2, <1>3, <1>4, GotoIs, OthersStaySound DEF IInv
-----------------------------------------------------------------------------
(* What an UPDATE leaves in the row: each column as it was or as asked.     *)
LEMMA EditedUser ==
    ASSUME NEW c, NEW row \in User, req[c].body \in Body,
           "name" \in Changed(c) => req[c].body.name \in Fitting
    PROVE  /\ Edited(c, row) \in User
           /\ Edited(c, row).name =
                 IF "name" \in Changed(c) THEN req[c].body.name ELSE row.name
<1>1. "detail" \in Changed(c) => req[c].body.detail \in Details
  BY DEF Changed, Body, Fields
<1> QED BY <1>1 DEF Edited, User

(* The same of an account, whose user stays.                                *)
LEMMA EditedAccount ==
    ASSUME NEW c, NEW row \in Account, req[c].body \in Body,
           "name" \in Changed(c) => req[c].body.name \in Fitting
    PROVE  /\ Edited(c, row) \in Account
           /\ Edited(c, row).name =
                 IF "name" \in Changed(c) THEN req[c].body.name ELSE row.name
           /\ Edited(c, row).user = row.user
<1>1. "detail" \in Changed(c) => req[c].body.detail \in Details
  BY DEF Changed, Body, Fields
<1> QED BY <1>1 DEF Edited, Account

(* The row of a new user is stored, and its login is nobody else's.         *)
LEMMA InsertUserKeepsIInv ==
    ASSUME IInv, NEW c \in Calls, InsertUser(c)
    PROVE  IInv'
<1> DEFINE taken == LoginTaken(req[c].body.name, c)
<1>1. CASE taken
  BY <1>1, AnswerKeepsIInv DEF InsertUser
<1>2. CASE ~taken
  <2>1. /\ users' = [u \in DOMAIN users \cup {c} |->
                       IF u = c THEN req[c].body ELSE users[u]]
        /\ Goto(c, "refresh") /\ UNCHANGED <<accounts, tokens>>
        /\ req[c].pc = "write" /\ req[c].kind \in {"register", "create_user"}
    BY <1>2 DEF InsertUser
  <2>2. /\ req[c].id = c /\ req[c].body \in User
        /\ c \notin DOMAIN users \cup DOMAIN accounts \cup tokens
    BY <2>1 DEF IInv, Sound, Complete, User
  <2>3. /\ DOMAIN users' = DOMAIN users \cup {c} /\ users'[c] = req[c].body
        /\ \A u \in DOMAIN users : users'[u] = users[u]
    BY <2>1, <2>2
  <2>4. Grown(c)
    BY <2>1, <2>3 DEF Grown
  <2>5. Sound(c)'
    BY <2>1, <2>2, <2>3, GotoIs DEF IInv, Sound
  <2>6. RowsOK'
    BY <2>1, <2>2, <2>3 DEF IInv, RowsOK, UserIds
  <2>7. NamesAreUnique'
    BY <1>2, <2>1, <2>3 DEF IInv, NamesAreUnique, LoginTaken
  <2> QED BY <2>1, <2>4, <2>5, <2>6, <2>7, GotoIs, OthersStaySound DEF IInv
<1> QED BY <1>1, <1>2

(* A user's row changes, its login to one nobody else has.                  *)
LEMMA UpdateUserKeepsIInv ==
    ASSUME IInv, NEW c \in Calls, UpdateUser(c)
    PROVE  IInv'
<1> DEFINE id == req[c].id
           taken == "name" \in Changed(c) /\ LoginTaken(req[c].body.name, req[c].id)
<1>1. CASE taken
  BY <1>1, AnswerKeepsIInv DEF UpdateUser
<1>2. CASE ~taken
  <2>1. /\ users' = [users EXCEPT ![id] = Edited(c, users[id])]
        /\ Goto(c, "refresh") /\ UNCHANGED <<accounts, tokens>>
        /\ req[c].pc = "write" /\ req[c].kind = "update_user"
    BY <1>2 DEF UpdateUser
  <2>2. id \in DOMAIN users /\ req[c].body \in Validated
    BY <2>1 DEF IInv, Sound
  <2>3. "name" \in Changed(c) => req[c].body.name \in Fitting
    BY <2>2 DEF Changed, Validated
  <2>4. /\ Edited(c, users[id]) \in User
        /\ Edited(c, users[id]).name =
             IF "name" \in Changed(c) THEN req[c].body.name ELSE users[id].name
    BY <2>2, <2>3, EditedUser, CompleteBodies DEF IInv, RowsOK
  <2>5. /\ DOMAIN users' = DOMAIN users /\ users'[id] = Edited(c, users[id])
        /\ \A u \in DOMAIN users \ {id} : users'[u] = users[u]
    BY <2>1, <2>2
  <2>6. Grown(c)
    BY <2>1, <2>5 DEF Grown
  <2>7. Sound(c)'
    BY <2>1, <2>2, <2>5, GotoIs DEF IInv, Sound
  <2>8. RowsOK'
    BY <2>1, <2>4, <2>5 DEF IInv, RowsOK
  <2>9. NamesAreUnique'
    <3>1. \A u \in DOMAIN users \ {id} : users[u].name # users'[id].name
      BY <1>2, <2>2, <2>4, <2>5 DEF IInv, NamesAreUnique, LoginTaken
    <3> QED BY <2>1, <2>5, <3>1 DEF IInv, NamesAreUnique
  <2> QED BY <2>1, <2>6, <2>7, <2>8, <2>9, GotoIs, OthersStaySound DEF IInv
<1> QED BY <1>1, <1>2

(* The row of a new account is stored under its user.                       *)
LEMMA InsertAccountKeepsIInv ==
    ASSUME IInv, NEW c \in Calls, InsertAccount(c)
    PROVE  IInv'
<1> DEFINE body == req[c].body
           taken == NameTaken(req[c].caller, body.name, c)
           row == [name |-> body.name, detail |-> body.detail, user |-> req[c].caller]
<1>1. CASE taken
  BY <1>1, AnswerKeepsIInv DEF InsertAccount
<1>2. CASE ~taken
  <2>1. /\ accounts' = [a \in DOMAIN accounts \cup {c} |->
                          IF a = c THEN row ELSE accounts[a]]
        /\ Goto(c, "refresh") /\ UNCHANGED <<users, tokens>>
        /\ req[c].pc = "write" /\ req[c].kind = "create_account"
    BY <1>2 DEF InsertAccount
  <2>2. /\ req[c].id = c /\ req[c].caller \in DOMAIN users /\ body \in Complete
        /\ c \notin DOMAIN users \cup DOMAIN accounts \cup tokens
    BY <2>1 DEF IInv, Sound
  <2>3. row \in Account
    BY <2>2 DEF IInv, RowsOK, Complete, Account
  <2>4. /\ DOMAIN accounts' = DOMAIN accounts \cup {c} /\ accounts'[c] = row
        /\ \A a \in DOMAIN accounts : accounts'[a] = accounts[a]
    BY <2>1, <2>2
  <2>5. Grown(c)
    BY <2>1, <2>4 DEF Grown
  <2>6. Sound(c)'
    BY <2>1, <2>2, <2>4, GotoIs DEF IInv, Sound
  <2>7. RowsOK'
    BY <2>1, <2>3, <2>4 DEF IInv, RowsOK, AccountIds
  <2>8. NamesAreUnique'
    BY <1>2, <2>1, <2>4 DEF IInv, NamesAreUnique, NameTaken
  <2> QED BY <2>1, <2>5, <2>6, <2>7, <2>8, GotoIs, OthersStaySound DEF IInv
<1> QED BY <1>1, <1>2

(* An account's row changes, its name to one no other of its user's has.    *)
LEMMA UpdateAccountKeepsIInv ==
    ASSUME IInv, NEW c \in Calls, UpdateAccount(c)
    PROVE  IInv'
<1> DEFINE id == req[c].id
           taken == /\ "name" \in Changed(c)
                    /\ NameTaken(req[c].caller, req[c].body.name, req[c].id)
<1>1. CASE taken
  BY <1>1, AnswerKeepsIInv DEF UpdateAccount
<1>2. CASE ~taken
  <2>1. /\ accounts' = [accounts EXCEPT ![id] = Edited(c, accounts[id])]
        /\ Goto(c, "refresh") /\ UNCHANGED <<users, tokens>>
        /\ req[c].pc = "write" /\ req[c].kind = "update_account"
    BY <1>2 DEF UpdateAccount
  <2>2. /\ id \in DOMAIN accounts /\ accounts[id].user = req[c].caller
        /\ req[c].body \in Body
    BY <2>1 DEF IInv, Sound, OwnAccount, Request
  <2>3. "name" \in Changed(c) => req[c].body.name \in Fitting
    BY <2>1 DEF IInv, Sound, TooLong
  <2>4. /\ Edited(c, accounts[id]) \in Account
        /\ Edited(c, accounts[id]).name =
             IF "name" \in Changed(c) THEN req[c].body.name ELSE accounts[id].name
        /\ Edited(c, accounts[id]).user = accounts[id].user
    BY <2>2, <2>3, EditedAccount DEF IInv, RowsOK
  <2>5. /\ DOMAIN accounts' = DOMAIN accounts
        /\ accounts'[id] = Edited(c, accounts[id])
        /\ \A a \in DOMAIN accounts \ {id} : accounts'[a] = accounts[a]
    BY <2>1, <2>2
  <2>6. Grown(c)
    BY <2>1, <2>2, <2>4, <2>5 DEF Grown
  <2>7. Sound(c)'
    BY <2>1, <2>2, <2>5, GotoIs DEF IInv, Sound
  <2>8. RowsOK'
    BY <2>1, <2>4, <2>5 DEF IInv, RowsOK
  <2>9. NamesAreUnique'
    <3>1. \A a \in DOMAIN accounts \ {id} :
             accounts[a].user = accounts'[id].user => accounts[a].name # accounts'[id].name
      BY <1>2, <2>2, <2>4, <2>5 DEF IInv, NamesAreUnique, NameTaken
    <3> QED BY <2>1, <2>5, <3>1 DEF IInv, NamesAreUnique
  <2> QED BY <2>1, <2>6, <2>7, <2>8, <2>9, GotoIs, OthersStaySound DEF IInv
<1> QED BY <1>1, <1>2

(* A crash ends every request in flight and leaves the tables alone.        *)
LEMMA CrashKeepsIInv == IInv /\ Crash => IInv'
<1> SUFFICES ASSUME IInv, Crash PROVE IInv'
  OBVIOUS
<1>1. UNCHANGED <<users, accounts, tokens>>
  BY DEF Crash
<1>2. RowsOK' /\ NamesAreUnique'
  BY <1>1 DEF IInv, RowsOK, NamesAreUnique
<1>3. ASSUME NEW c \in Calls
      PROVE  req'[c] \in Request /\ Sound(c)'
  <2>1. CASE c \in InFlight
    <3>1. req[c] \in Request /\ Sound(c)
      BY DEF IInv
    <3>2. req'[c] = [req[c] EXCEPT !.pc = "done", !.answer = "lost"]
      BY <2>1 DEF Crash
    <3>3. req'[c] \in Request /\ req'[c].pc = "done" /\ req'[c].answer = "lost"
      BY <3>1, <3>2 DEF Request, Answers
    <3> QED BY <1>1, <3>1, <3>3 DEF Sound
  <2>2. CASE c \notin InFlight
    <3>1. req'[c] = req[c] /\ req[c] \in Request /\ Sound(c)
      BY <2>2 DEF Crash, IInv
    <3> QED BY <1>1, <3>1 DEF Sound, OwnAccount, TooLong, Changed
  <2> QED BY <2>1, <2>2
<1>4. req' \in [Calls -> Request]
  BY <1>3 DEF Crash
<1> QED BY <1>2, <1>3, <1>4 DEF IInv

(* Every step keeps the invariant. *)
LEMMA NextKeepsIInv == IInv /\ [Next]_vars => IInv'
<1> SUFFICES ASSUME IInv, [Next]_vars PROVE IInv'
  OBVIOUS
<1>1. CASE AllAnswered \/ UNCHANGED vars
  BY <1>1 DEF IInv, RowsOK, NamesAreUnique, Sound, OwnAccount, TooLong, Changed,
     AllAnswered, vars
<1>2. CASE Crash
  BY <1>2, CrashKeepsIInv
<1>3. ASSUME NEW c \in Calls, Start(c) \/ Step(c) \/ Disconnected(c)
      PROVE  IInv'
  BY <1>3, StartKeepsIInv, QuietStepKeepsIInv, SaveTokenKeepsIInv, InsertUserKeepsIInv,
     UpdateUserKeepsIInv, InsertAccountKeepsIInv, UpdateAccountKeepsIInv DEF Step
<1> QED BY <1>1, <1>2, <1>3 DEF Next

(* The invariant holds in every state of every behaviour. *)
THEOREM InductiveInvariant == Spec => []IInv
<1>1. Init => IInv
  BY InitIInv
<1>2. IInv /\ [Next]_vars => IInv'
  BY NextKeepsIInv
<1> QED BY <1>1, <1>2, PTL DEF Spec

(* Every row and every request is well formed, always.                      *)
THEOREM TypeCorrect == Spec => []TypeOK
<1>1. IInv => TypeOK
  BY IInvImplies
<1> QED BY <1>1, InductiveInvariant, PTL

(* However many requests race for a login or for an account's name, it      *)
(* names one row (models/user.py:16, models/transaction.py:27).             *)
THEOREM NamesStayUnique == Spec => []NamesAreUnique
<1>1. IInv => NamesAreUnique
  BY IInvImplies
<1> QED BY <1>1, InductiveInvariant, PTL

(* A success has stored its row and a registration its token; a refusal has *)
(* stored nothing (auth.py:54-75, user_service.py:55-65).                   *)
THEOREM AnswersStayTrue == Spec => []AnswersAreTrue
<1>1. IInv => AnswersAreTrue
  BY IInvImplies
<1> QED BY <1>1, InductiveInvariant, PTL
-----------------------------------------------------------------------------
(* Which request's step writes a table, or turns a name down.               *)
LEMMA WhoWrites ==
    ASSUME Next, NEW c \in Calls, req[c].pc = "write", req \in [Calls -> Request],
           req'[c].pc = "refresh" \/ req'[c].answer = "taken", req[c].answer = "none"
    PROVE  InsertUser(c) \/ UpdateUser(c) \/ InsertAccount(c) \/ UpdateAccount(c)
<1>1. PICK d \in Calls : Start(d) \/ Step(d) \/ Disconnected(d)
  BY DEF Next, Crash, AllAnswered, vars, InFlight, Request
<1>2. d = c
  BY <1>1 DEF Start, StartRegister, StartCreateUser, StartUpdateUser, StartCreateAccount,
     StartUpdateAccount, Begin, Refuse, Step, HashPassword, LockRow, NameRefused, Deadlock,
     InsertUser, UpdateUser,
     InsertAccount, UpdateAccount, RefreshRow, SaveToken, HandOut, Disconnected,
     Goto, Answer
<1>3. /\ ~Start(c) /\ ~HashPassword(c) /\ ~LockRow(c) /\ ~NameRefused(c)
      /\ ~RefreshRow(c) /\ ~SaveToken(c) /\ ~HandOut(c)
  BY DEF Start, HashPassword, LockRow, NameRefused, RefreshRow, SaveToken, HandOut
<1>4. ~Disconnected(c) /\ ~Deadlock(c)
  <2>1. req[c] \in Request
    OBVIOUS
  <2> QED BY <2>1 DEF Disconnected, Deadlock, Answer, Request
<1> QED BY <1>1, <1>2, <1>3, <1>4 DEF Step

(* A request that hears its answer, or moves on, does exactly that.         *)
LEMMA OneOutcome ==
    ASSUME NEW c \in Calls, req \in [Calls -> Request]
    PROVE  /\ \A stage : Goto(c, stage) =>
                 req'[c].pc = stage /\ req'[c].answer = req[c].answer
           /\ \A reply : Answer(c, reply) =>
                 req'[c].pc = "done" /\ req'[c].answer = reply
<1>1. req[c] \in Request
  OBVIOUS
<1> QED BY <1>1 DEF Goto, Answer, Request

(* A request hears that a name is taken when another row has it             *)
(* (account_service.py:51).                                                 *)
THEOREM RefusalsAreTrue == Spec => TakenIsTrue
<1> DEFINE Rival(c) ==
      /\ req[c].body.name # None
      /\ IF req[c].kind \in {"create_account", "update_account"}
           THEN \E a \in DOMAIN accounts \ {req[c].id} :
                   /\ accounts[a].user = req[c].caller
                   /\ accounts[a].name = req[c].body.name
           ELSE \E u \in DOMAIN users \ {req[c].id} : users[u].name = req[c].body.name
    Told == \A c \in Calls : req[c].pc = "write" /\ req'[c].answer = "taken" => Rival(c)
<1>1. IInv /\ [Next]_vars => [Told]_vars
  <2> SUFFICES ASSUME IInv, Next, NEW c \in Calls,
                      req[c].pc = "write", req'[c].answer = "taken"
               PROVE  Rival(c)
    BY DEF vars
  <2>1. Sound(c) /\ req \in [Calls -> Request] /\ req[c].answer = "none"
    BY DEF IInv, Sound
  <2>2. None \notin Fitting
    BY DirectoryConstants DEF DirectoryConstants
  <2>3. ~Goto(c, "refresh")
    BY <2>1, OneOutcome
  <2>4. CASE InsertUser(c)
    BY <2>1, <2>2, <2>3, <2>4 DEF InsertUser, LoginTaken, Sound, Complete
  <2>5. CASE UpdateUser(c)
    BY <2>3, <2>5 DEF UpdateUser, LoginTaken, Changed
  <2>6. CASE InsertAccount(c)
    BY <2>1, <2>2, <2>3, <2>6 DEF InsertAccount, NameTaken, Sound, Complete
  <2>7. CASE UpdateAccount(c)
    BY <2>3, <2>7 DEF UpdateAccount, NameTaken, Changed
  <2> QED BY <2>1, <2>4, <2>5, <2>6, <2>7, WhoWrites
<1> QED BY <1>1, InductiveInvariant, PTL DEF Spec, TakenIsTrue

(* Overlapping updates keep each other's columns (user_service.py:83,       *)
(* 96-118; account_service.py:120-158).                                     *)
THEOREM UpdatesDoNotUndoEachOther == Spec => NoLostUpdate
<1> DEFINE Kept(c, row, new) == \A f \in Fields :
             IF req[c].body[f] = None THEN new[f] = row[f]
             ELSE req[c].body[f] \in {new[f], req[c].old[f]}
    Updated == \A c \in Calls : req[c].pc = "write" /\ req'[c].pc = "refresh" =>
          /\ req[c].kind = "update_user" =>
                Kept(c, users[req[c].id], users'[req[c].id])
          /\ req[c].kind = "update_account" =>
                Kept(c, accounts[req[c].id], accounts'[req[c].id])
<1>1. IInv /\ [Next]_vars => [Updated]_vars
  <2> SUFFICES ASSUME IInv, Next, NEW c \in Calls,
                      req[c].pc = "write", req'[c].pc = "refresh"
               PROVE  /\ req[c].kind = "update_user" =>
                            Kept(c, users[req[c].id], users'[req[c].id])
                      /\ req[c].kind = "update_account" =>
                            Kept(c, accounts[req[c].id], accounts'[req[c].id])
    BY DEF vars
  <2>1. Sound(c) /\ req \in [Calls -> Request] /\ req[c].answer = "none"
    BY DEF IInv, Sound
  <2>2. \A reply : ~Answer(c, reply)
    BY <2>1, OneOutcome
  <2>3. ASSUME NEW row, row \in User \/ row \in Account
        PROVE  Kept(c, row, Edited(c, row))
    BY <2>3 DEF Edited, Changed, Fields, User, Account
  <2>4. CASE UpdateUser(c)
    BY <2>1, <2>2, <2>3, <2>4 DEF UpdateUser, Sound, IInv, RowsOK
  <2>5. CASE UpdateAccount(c)
    BY <2>1, <2>2, <2>3, <2>5 DEF UpdateAccount, Sound, OwnAccount, IInv, RowsOK
  <2>6. CASE InsertUser(c) \/ InsertAccount(c)
    BY <2>6 DEF InsertUser, InsertAccount
  <2> QED BY <2>1, <2>4, <2>5, <2>6, WhoWrites
<1> QED BY <1>1, InductiveInvariant, PTL DEF Spec, NoLostUpdate

(* Only four steps write users or accounts.                                 *)
LEMMA WritersAre ==
    ASSUME Next
    PROVE  \/ UNCHANGED <<users, accounts>>
           \/ \E c \in Calls : \/ InsertUser(c) \/ UpdateUser(c)
                               \/ InsertAccount(c) \/ UpdateAccount(c)
<1>1. CASE Crash \/ AllAnswered
  BY <1>1 DEF Crash, AllAnswered, vars
<1>2. ASSUME NEW c \in Calls, Start(c) PROVE UNCHANGED <<users, accounts>>
  BY <1>2 DEF Start, StartRegister, StartCreateUser, StartUpdateUser,
     StartCreateAccount, StartUpdateAccount
<1>3. ASSUME NEW c \in Calls, \/ HashPassword(c) \/ LockRow(c) \/ NameRefused(c)
                              \/ Deadlock(c) \/ RefreshRow(c) \/ SaveToken(c) \/ HandOut(c) \/ Disconnected(c)
      PROVE  UNCHANGED <<users, accounts>>
  BY <1>3 DEF HashPassword, LockRow, NameRefused, Deadlock, RefreshRow, SaveToken, HandOut, Disconnected
<1> QED BY <1>1, <1>2, <1>3 DEF Next, Step

(* Rows appear and change only as a request commits, and at the request of  *)
(* an admin or of the account's user; none vanishes or changes hands        *)
(* (users.py:55-76, account_service.py:97-101, 145-158).                    *)
THEOREM EntitledWritersOnly == Spec => OnlyTheEntitledWrite
<1> DEFINE Commits(c) == c \in Calls /\ req[c].pc = "write" /\ req'[c].pc = "refresh"
           UserKept(u) ==
             /\ u \in DOMAIN users'
             /\ users'[u] # users[u] => \E c \in Calls :
                   Commits(c) /\ req[c].id = u /\ req[c].caller \in Admins
           UserAdded(u) ==
             Commits(u) /\ (req[u].kind = "register" \/ req[u].caller \in Admins)
           AccountKept(a) ==
             /\ a \in DOMAIN accounts' /\ accounts'[a].user = accounts[a].user
             /\ accounts'[a] # accounts[a] => \E c \in Calls :
                   /\ Commits(c) /\ req[c].id = a
                   /\ req[c].caller = accounts[a].user
           AccountAdded(a) == Commits(a) /\ accounts'[a].user = req[a].caller
           Entitled == /\ \A u \in DOMAIN users : UserKept(u)
                       /\ \A u \in DOMAIN users' \ DOMAIN users : UserAdded(u)
                       /\ \A a \in DOMAIN accounts : AccountKept(a)
                       /\ \A a \in DOMAIN accounts' \ DOMAIN accounts : AccountAdded(a)
<1>1. IInv /\ [Next]_vars => [Entitled]_vars
  <2> SUFFICES ASSUME IInv, Next PROVE Entitled
    BY DEF vars
  <2>1. CASE UNCHANGED <<users, accounts>>
    BY <2>1
  <2>2. ASSUME NEW c \in Calls, InsertUser(c) PROVE Entitled
    <3>1. CASE UNCHANGED <<users, accounts>>
      BY <3>1
    <3>2. CASE /\ users' = [u \in DOMAIN users \cup {c} |->
                              IF u = c THEN req[c].body ELSE users[u]]
               /\ Goto(c, "refresh") /\ UNCHANGED accounts
      <4>1. /\ req[c].pc = "write" /\ req[c].kind \in {"register", "create_user"}
            /\ c \notin DOMAIN users /\ req'[c].pc = "refresh"
        BY <2>2, <3>2, GotoIs DEF InsertUser, IInv, Sound
      <4>2. req[c].kind = "create_user" => req[c].caller \in Admins
        BY <4>1 DEF IInv, Sound
      <4> QED BY <3>2, <4>1, <4>2
    <3> QED BY <2>2, <3>1, <3>2 DEF InsertUser
  <2>3. ASSUME NEW c \in Calls, UpdateUser(c) PROVE Entitled
    <3>1. CASE UNCHANGED <<users, accounts>>
      BY <3>1
    <3>2. CASE /\ users' = [users EXCEPT ![req[c].id] = Edited(c, @)]
               /\ Goto(c, "refresh") /\ UNCHANGED accounts
      <4>1. /\ req[c].pc = "write" /\ req[c].caller \in Admins
            /\ req'[c].pc = "refresh"
        BY <2>3, <3>2, GotoIs DEF UpdateUser, IInv, Sound
      <4> QED BY <3>2, <4>1
    <3> QED BY <2>3, <3>1, <3>2 DEF UpdateUser
  <2>4. ASSUME NEW c \in Calls, InsertAccount(c) PROVE Entitled
    <3> DEFINE row == [name |-> req[c].body.name, detail |-> req[c].body.detail,
                       user |-> req[c].caller]
    <3>1. CASE UNCHANGED <<users, accounts>>
      BY <3>1
    <3>2. CASE /\ accounts' = [a \in DOMAIN accounts \cup {c} |->
                                 IF a = c THEN row ELSE accounts[a]]
               /\ Goto(c, "refresh") /\ UNCHANGED users
      <4>1. /\ req[c].pc = "write" /\ c \notin DOMAIN accounts
            /\ req'[c].pc = "refresh"
        BY <2>4, <3>2, GotoIs DEF InsertAccount, IInv, Sound
      <4> QED BY <3>2, <4>1
    <3> QED BY <2>4, <3>1, <3>2 DEF InsertAccount
  <2>5. ASSUME NEW c \in Calls, UpdateAccount(c) PROVE Entitled
    <3>1. CASE UNCHANGED <<users, accounts>>
      BY <3>1
    <3>2. CASE /\ accounts' = [accounts EXCEPT ![req[c].id] = Edited(c, @)]
               /\ Goto(c, "refresh") /\ UNCHANGED users
      <4>1. /\ req[c].pc = "write" /\ req[c].kind = "update_account"
            /\ req'[c].pc = "refresh"
        BY <2>5, <3>2, GotoIs DEF UpdateAccount
      <4>2. req[c].id \in DOMAIN accounts /\ accounts[req[c].id].user = req[c].caller
        BY <4>1 DEF IInv, Sound, OwnAccount
      <4>3. Edited(c, accounts[req[c].id]).user = accounts[req[c].id].user
        BY <4>2 DEF Edited, IInv, RowsOK, Account
      <4> QED BY <3>2, <4>1, <4>2, <4>3
    <3> QED BY <2>5, <3>1, <3>2 DEF UpdateAccount
  <2> QED BY <2>1, <2>2, <2>3, <2>4, <2>5, WritersAre
<1> QED BY <1>1, InductiveInvariant, PTL DEF Spec, OnlyTheEntitledWrite
=============================================================================
