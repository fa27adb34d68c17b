--------------------------- MODULE SessionsProofs ---------------------------
(***************************************************************************)
(* Proofs, for any number of users, calls and tokens and any lifetime, of  *)
(* what module Sessions keeps however the requests interleave or crash.    *)
(***************************************************************************)
EXTENDS Sessions, TLAPS

(* The token a call presents was issued before the call, so nothing will    *)
(* put it into the table again; a call's own token exists only once the     *)
(* call is past its INSERT; a logout deletes a token of its caller's.       *)
CallsInv ==
    \A c \in Calls :
        /\ call[c].pc = "idle" => call[c].kind = "none"
        /\ call[c].pc # "done" => call[c].answer = "none"
        /\ call[c].kind \in {"refresh", "logout"} =>
              /\ call[c].token \in Tokens
              /\ call[c].token \in Calls => call[call[c].token].pc = "done"
        /\ call[c].pc = "verify" => call[c].kind = "login"
        /\ call[c].pc = "delete" => call[c].kind \in {"refresh", "logout"}
        /\ call[c].pc \in {"save", "reply"} => call[c].kind \in {"login", "refresh"}
        /\ call[c].pc \in {"delete", "save"} => call[c].user \in Users
        /\ call[c].pc = "verify" => call[c].user \in Users
        /\ c \in DOMAIN table => /\ call[c].pc \in {"reply", "done"}
                                 /\ call[c].kind \in {"login", "refresh"}
        /\ call[c].pc = "delete" /\ call[c].kind = "logout"
              /\ call[c].token \in DOMAIN table => table[call[c].token].user = call[c].user

IInv == TypeOK /\ CallsInv /\ RevokedStaysRevoked /\ OwnTokenCanAlwaysBeRevoked

USE DEF CallState, Tokens

(* The invariant holds of the seeds, before any request. *)
LEMMA InitIInv == Init => IInv
<1> SUFFICES ASSUME Init PROVE IInv
  OBVIOUS
<1>1. TypeOK
  BY SessionConstants DEF SessionConstants, Init, TypeOK, NoCall
<1>2. CallsInv
  <2> SUFFICES ASSUME NEW c \in Calls
               PROVE  call[c] = NoCall /\ c \notin DOMAIN table
    BY DEF CallsInv, NoCall
  <2>1. DOMAIN table = Seeds /\ c \notin Seeds
    BY SessionConstants DEF SessionConstants, Init
  <2>2. call[c] = NoCall
    BY DEF Init
  <2> QED BY <2>1, <2>2
<1>3. RevokedStaysRevoked /\ OwnTokenCanAlwaysBeRevoked
  BY SessionConstants DEF SessionConstants, Init, NoCall, RevokedStaysRevoked,
     HasRevoked, OwnTokenCanAlwaysBeRevoked
<1> QED BY <1>1, <1>2, <1>3 DEF IInv

(* A login changes nothing yet.                                             *)
LEMMA LoginKeepsIInv ==
    ASSUME IInv, NEW c \in Calls, NEW user \in Users, StartLogin(c, user)
    PROVE  IInv'
<1> USE DEF StartLogin, Proceed
<1>1. c \notin DOMAIN table
  BY DEF IInv, CallsInv
<1>2. TypeOK'
  BY DEF IInv, TypeOK
<1>3. CallsInv'
  BY <1>1, SessionConstants DEF IInv, TypeOK, CallsInv, SessionConstants
<1>4. RevokedStaysRevoked' /\ OwnTokenCanAlwaysBeRevoked'
  BY <1>1 DEF IInv, TypeOK, RevokedStaysRevoked, HasRevoked, OwnTokenCanAlwaysBeRevoked
<1> QED BY <1>2, <1>3, <1>4 DEF IInv

(* A token a client can present was issued by a call that is over.          *)
LEMMA KnownTokensAreIssued ==
    ASSUME IInv, NEW t \in Known
    PROVE  t \in Tokens /\ (t \in Calls => call[t].pc = "done")
BY SessionConstants DEF IInv, CallsInv, Known, HandedOut, SessionConstants

(* A refresh is turned down, or goes on with the row it looked up.          *)
LEMMA RefreshKeepsIInv ==
    ASSUME IInv, NEW c \in Calls, NEW t \in Known, StartRefresh(c, t)
    PROVE  IInv'
<1> USE DEF StartRefresh, Proceed, Reject
<1>1. c \notin DOMAIN table
  BY DEF IInv, CallsInv
<1>2. TypeOK'
  <2>1. t \in DOMAIN table => table[t].user \in Users
    BY DEF IInv, TypeOK, Row
  <2> QED BY <2>1, KnownTokensAreIssued DEF IInv, TypeOK
<1>3. CallsInv'
  <2> t \in Tokens /\ (t \in Calls => call[t].pc = "done")
    BY KnownTokensAreIssued
  <2>1. CASE t \in DOMAIN table /\ ~(table[t].expires < now)
    <3>1. call' = [call EXCEPT ![c] = [pc |-> "delete", kind |-> "refresh",
                     user |-> table[t].user, token |-> t, answer |-> "none"]]
          /\ table' = table /\ table[t].user \in Users
      BY <2>1 DEF IInv, TypeOK, Row
    <3> QED BY <1>1, <3>1 DEF IInv, TypeOK, CallsInv
  <2>2. CASE ~(t \in DOMAIN table /\ ~(table[t].expires < now))
    <3>1. PICK reply \in {"invalid", "expired"} :
             call' = [call EXCEPT ![c] = [pc |-> "done", kind |-> "refresh",
                        user |-> None, token |-> t, answer |-> reply]]
      BY <2>2
    <3>2. table' = table
      OBVIOUS
    <3> QED BY <1>1, <3>1, <3>2, SessionConstants
            DEF IInv, TypeOK, CallsInv, SessionConstants
  <2> QED BY <2>1, <2>2
<1>4. RevokedStaysRevoked' /\ OwnTokenCanAlwaysBeRevoked'
  BY <1>1 DEF IInv, TypeOK, RevokedStaysRevoked, HasRevoked, OwnTokenCanAlwaysBeRevoked
<1> QED BY <1>2, <1>3, <1>4 DEF IInv

(* A logout is turned down, or goes on with a row of the caller's own.      *)
LEMMA LogoutKeepsIInv ==
    ASSUME IInv, NEW c \in Calls, NEW user \in Users, NEW t \in Known,
           StartLogout(c, user, t)
    PROVE  IInv'
<1> USE DEF StartLogout, Proceed, Reject
<1>1. c \notin DOMAIN table
  BY DEF IInv, CallsInv
<1>2. TypeOK'
  BY KnownTokensAreIssued DEF IInv, TypeOK
<1>3. CallsInv'
  BY <1>1, KnownTokensAreIssued, SessionConstants
  DEF IInv, TypeOK, CallsInv, SessionConstants
<1>4. RevokedStaysRevoked'
  BY <1>1 DEF IInv, TypeOK, RevokedStaysRevoked, HasRevoked
<1>5. OwnTokenCanAlwaysBeRevoked'
  BY <1>1 DEF IInv, TypeOK, OwnTokenCanAlwaysBeRevoked
<1> QED BY <1>2, <1>3, <1>4, <1>5 DEF IInv

(* A call that ends, or goes on without touching the table. *)
LEMMA QuietStepKeepsIInv ==
    ASSUME IInv, NEW c \in Calls, VerifyPassword(c) \/ HandOut(c) \/ Disconnected(c)
    PROVE  IInv'
<1> USE DEF VerifyPassword, HandOut, Disconnected, Finish
<1>1. TypeOK'
  BY DEF IInv, TypeOK
<1>2. CallsInv'
  BY DEF IInv, TypeOK, CallsInv
<1>3. RevokedStaysRevoked'
  BY DEF IInv, TypeOK, CallsInv, RevokedStaysRevoked, HasRevoked
<1>4. OwnTokenCanAlwaysBeRevoked'
  BY DEF IInv, TypeOK, CallsInv, OwnTokenCanAlwaysBeRevoked
<1> QED BY <1>1, <1>2, <1>3, <1>4 DEF IInv

(* The DELETE takes the presented token, and no other, out of the table.    *)
LEMMA DeleteKeepsIInv ==
    ASSUME IInv, NEW c \in Calls, DeleteToken(c)
    PROVE  IInv'
<1> USE DEF DeleteToken, AfterDelete, Finish
<1>1. DOMAIN table' = DOMAIN table \ {call[c].token}
      /\ \A t \in DOMAIN table' : table'[t] = table[t]
  OBVIOUS
<1>2. TypeOK'
  BY <1>1 DEF IInv, TypeOK
<1>3. CallsInv'
  BY <1>1 DEF IInv, TypeOK, CallsInv
<1>4. RevokedStaysRevoked'
  BY <1>1 DEF IInv, TypeOK, CallsInv, RevokedStaysRevoked, HasRevoked
<1>5. OwnTokenCanAlwaysBeRevoked'
  BY <1>1 DEF IInv, TypeOK, CallsInv, OwnTokenCanAlwaysBeRevoked
<1> QED BY <1>2, <1>3, <1>4, <1>5 DEF IInv

(* The INSERT adds a token that no call can have presented yet.             *)
LEMMA SaveKeepsIInv ==
    ASSUME IInv, NEW c \in Calls, SaveToken(c)
    PROVE  IInv'
<1> USE DEF SaveToken, Finish
<1>1. DOMAIN table' = DOMAIN table \cup {c}
      /\ table'[c] = [user |-> call[c].user, expires |-> now + Lifetime]
      /\ \A t \in DOMAIN table : t # c => table'[t] = table[t]
  OBVIOUS
<1>2. \A d \in Calls : call[d].kind \in {"refresh", "logout"} => call[d].token # c
  BY DEF IInv, CallsInv
<1>3. now + Lifetime \in 0..(MaxTime + Lifetime) /\ call[c].user \in Users
  BY SessionConstants DEF IInv, TypeOK, CallsInv, SessionConstants
<1>4. TypeOK'
  BY <1>1, <1>3 DEF IInv, TypeOK, Row
<1>5. CallsInv'
  BY <1>1, <1>2 DEF IInv, TypeOK, CallsInv
<1>6. RevokedStaysRevoked'
  BY <1>1, <1>2 DEF IInv, TypeOK, CallsInv, RevokedStaysRevoked, HasRevoked
<1>7. OwnTokenCanAlwaysBeRevoked'
  BY <1>1, <1>2 DEF IInv, TypeOK, CallsInv, OwnTokenCanAlwaysBeRevoked
<1> QED BY <1>4, <1>5, <1>6, <1>7 DEF IInv

(* A crash ends calls and leaves the table as it was committed.             *)
LEMMA CrashKeepsIInv == IInv /\ Crash => IInv'
<1> SUFFICES ASSUME IInv, Crash PROVE IInv'
  OBVIOUS
<1>1. TypeOK'
  BY DEF IInv, TypeOK, Crash
<1>2. \A c \in Calls :
         /\ call'[c].kind = call[c].kind /\ call'[c].user = call[c].user
         /\ call'[c].token = call[c].token
         /\ \/ call'[c].pc = call[c].pc /\ call'[c].answer = call[c].answer
            \/ /\ call[c].pc # "idle" /\ call'[c].pc = "done"
               /\ call'[c].answer = "lost"
  BY DEF IInv, TypeOK, Crash
<1>3. table' = table
  BY DEF Crash
<1>4. CallsInv'
  BY <1>2, <1>3 DEF IInv, CallsInv
<1>5. RevokedStaysRevoked'
  BY <1>2, <1>3 DEF IInv, RevokedStaysRevoked, HasRevoked
<1>6. OwnTokenCanAlwaysBeRevoked'
  BY <1>2, <1>3 DEF IInv, OwnTokenCanAlwaysBeRevoked
<1> QED BY <1>1, <1>4, <1>5, <1>6 DEF IInv

(* Every step keeps the invariant. *)
LEMMA NextKeepsIInv == IInv /\ [Next]_vars => IInv'
<1> SUFFICES ASSUME IInv, [Next]_vars PROVE IInv'
  OBVIOUS
<1>1. CASE Tick
  BY <1>1, SessionConstants DEF IInv, TypeOK, CallsInv, RevokedStaysRevoked, HasRevoked,
     OwnTokenCanAlwaysBeRevoked, Tick, SessionConstants
<1>2. CASE AllAnswered \/ UNCHANGED vars
  BY <1>2 DEF IInv, TypeOK, CallsInv, RevokedStaysRevoked, HasRevoked,
     OwnTokenCanAlwaysBeRevoked, AllAnswered, vars
<1>3. CASE Crash
  BY <1>3, CrashKeepsIInv
<1>4. ASSUME NEW c \in Calls,
             \/ \E user \in Users : StartLogin(c, user)
             \/ \E t \in Known : StartRefresh(c, t)
             \/ \E user \in Users, t \in Known : StartLogout(c, user, t)
             \/ CallStep(c) \/ Disconnected(c)
      PROVE  IInv'
  BY <1>4, LoginKeepsIInv, RefreshKeepsIInv, LogoutKeepsIInv, QuietStepKeepsIInv,
     DeleteKeepsIInv, SaveKeepsIInv DEF CallStep
<1> QED BY <1>1, <1>2, <1>3, <1>4 DEF Next

(* The invariant holds in every state of every behaviour. *)
THEOREM InductiveInvariant == Spec => []IInv
<1>1. Init => IInv
  BY InitIInv
<1>2. IInv /\ [Next]_vars => IInv'
  BY NextKeepsIInv
<1> QED BY <1>1, <1>2, PTL DEF Spec

(* Every table row and every call state is well formed, always.             *)
THEOREM TypeCorrect == Spec => []TypeOK
<1>1. IInv => TypeOK
  BY DEF IInv
<1> QED BY <1>1, InductiveInvariant, PTL

(* A token traded for a new one, or logged out, is never valid again        *)
(* (auth.py:184), whatever other calls do and wherever a crash comes.       *)
THEOREM RevocationIsFinal == Spec => []RevokedStaysRevoked
<1>1. IInv => RevokedStaysRevoked
  BY DEF IInv
<1> QED BY <1>1, InductiveInvariant, PTL

(* Only a token that is gone, or somebody else's, is refused at logout      *)
(* (auth.py:138-140).                                                       *)
THEOREM LogoutIsTolerant == Spec => []OwnTokenCanAlwaysBeRevoked
<1>1. IInv => OwnTokenCanAlwaysBeRevoked
  BY DEF IInv
<1> QED BY <1>1, InductiveInvariant, PTL

(* A row only leaves the table by rotation or at its owner's logout         *)
(* (auth.py:142-143).                                                       *)
THEOREM OwnersEndTheirSessions == Spec => OnlyItsOwnerEndsASession
<1> DEFINE Rightful ==
      \A t \in DOMAIN table \ DOMAIN table' :
          \E c \in Calls : /\ call[c].pc = "delete" /\ call[c].token = t
                           /\ call[c].kind = "refresh" \/ call[c].user = table[t].user
<1>1. IInv /\ [Next]_vars => [Rightful]_vars
  <2> SUFFICES ASSUME IInv, Next, NEW t \in DOMAIN table \ DOMAIN table'
               PROVE  \E c \in Calls :
                         /\ call[c].pc = "delete" /\ call[c].token = t
                         /\ call[c].kind = "refresh" \/ call[c].user = table[t].user
    BY DEF vars
  <2>1. PICK c \in Calls : DeleteToken(c)
    BY DEF Next, CallStep, StartLogin, StartRefresh, StartLogout, VerifyPassword,
       SaveToken, HandOut, Disconnected, Crash, Tick, AllAnswered, vars
  <2>2. call[c].token = t /\ call[c].pc = "delete"
    BY <2>1 DEF DeleteToken
  <2> QED BY <2>2 DEF IInv, CallsInv
<1> QED BY <1>1, InductiveInvariant, PTL DEF Spec, OnlyItsOwnerEndsASession
=============================================================================
