------------------------------ MODULE Sessions ------------------------------
(***************************************************************************)
(* The refresh_tokens table and the requests that write it: POST /login,   *)
(* /refresh and /logout (api/v1/auth.py, services/token_service.py).  The  *)
(* row is the token; each DELETE and each INSERT is committed by itself,   *)
(* so a rotation is two transactions and other requests, or a crash, may   *)
(* come between them.                                                      *)
(*                                                                         *)
(* Users stay: no request deletes one (how they come to be is another      *)
(* module's matter).  Every statement here touches one row by its key, so  *)
(* an INSERT or DELETE and its COMMIT are one step: a request waiting for  *)
(* another's row lock does what it would have done later.                  *)
(***************************************************************************)
EXTENDS Integers, FiniteSets

CONSTANTS
    Users,       \* user ids
    Calls,       \* the requests
    Seeds,       \* refresh tokens from before
    SeedRow,     \* [Seeds -> Row], their rows
    Lifetime,    \* security.refresh_token_expire_days, in ticks
    MaxTime,     \* bound: the clock
    None

Tokens == Seeds \cup Calls  \* secrets.token_urlsafe: each call mints its own

Row == [user : Users, expires : 0..(MaxTime + Lifetime)]

ASSUME SessionConstants ==
    /\ Lifetime \in Nat /\ MaxTime \in Nat
    /\ Seeds \cap Calls = {} /\ None \notin Users \cup Tokens
    /\ SeedRow \in [Seeds -> Row]

VARIABLES
    table,  \* the committed rows: token -> Row
    call,   \* the requests
    now     \* datetime.now

vars == <<table, call, now>>

CallState ==
    [pc : {"idle", "verify", "delete", "save", "reply", "done"},
     kind : {"none", "login", "refresh", "logout"},
     user : Users \cup {None},    \* whose session it is about
     token : Tokens \cup {None},  \* the refresh token presented
     answer : {"none", "ok", "credentials", "invalid", "expired", "error", "lost"}]

TypeOK ==
    /\ DOMAIN table \subseteq Tokens
    /\ \A t \in DOMAIN table : table[t] \in Row
    /\ call \in [Calls -> CallState]
    /\ now \in 0..MaxTime

NoCall == [pc |-> "idle", kind |-> "none", user |-> None, token |-> None,
           answer |-> "none"]

Init ==
    /\ table = SeedRow
    /\ call = [c \in Calls |-> NoCall]
    /\ now = 0

(* A client presents a token it was given. *)
HandedOut == { c \in Calls : /\ call[c].kind \in {"login", "refresh"}
                             /\ call[c].answer = "ok" }
Known == Seeds \cup HandedOut

Finish(c, reply) == call' = [call EXCEPT ![c].pc = "done", ![c].answer = reply]
Reject(c, kind, user, t, reply) ==
    call' = [call EXCEPT ![c] = [pc |-> "done", kind |-> kind, user |-> user,
                                 token |-> t, answer |-> reply]]
Proceed(c, stage, kind, user, t) ==
    call' = [call EXCEPT ![c] = [pc |-> stage, kind |-> kind, user |-> user,
                                 token |-> t, answer |-> "none"]]
-----------------------------------------------------------------------------
(* login_user: the password is verified in a thread, then a token is saved. *)
StartLogin(c, user) ==
    /\ call[c].pc = "idle"
    /\ Proceed(c, "verify", "login", user, None)
    /\ UNCHANGED <<table, now>>

VerifyPassword(c) ==
    /\ call[c].pc = "verify"
    /\ \/ call' = [call EXCEPT ![c].pc = "save"]
       \/ Finish(c, "credentials")
    /\ UNCHANGED <<table, now>>

\* Fault: the user is read off the row once it has been deleted.
StartRefreshUserUnread(c, t) ==
    /\ call[c].pc = "idle"
    /\ IF t \notin DOMAIN table
         THEN Reject(c, "refresh", None, t, "invalid")
       ELSE IF table[t].expires < now
         THEN Reject(c, "refresh", None, t, "expired")
       ELSE Proceed(c, "delete", "refresh", None, t)
    /\ UNCHANGED <<table, now>>

\* Fault: the presented token is left to expire.
StartRefreshKeeping(c, t) ==
    /\ call[c].pc = "idle"
    /\ IF t \notin DOMAIN table
         THEN Reject(c, "refresh", None, t, "invalid")
       ELSE IF table[t].expires < now
         THEN Reject(c, "refresh", None, t, "expired")
       ELSE Proceed(c, "save", "refresh", table[t].user, t)
    /\ UNCHANGED <<table, now>>

(* refresh_token: require_refresh_token wants a row, and one not expired.   *)
StartRefresh(c, t) ==
    /\ call[c].pc = "idle"
    /\ IF t \notin DOMAIN table
         THEN Reject(c, "refresh", None, t, "invalid")
       ELSE IF table[t].expires < now
         THEN Reject(c, "refresh", None, t, "expired")
       ELSE Proceed(c, "delete", "refresh", table[t].user, t)
    /\ UNCHANGED <<table, now>>

\* Fault: whoever holds a token can end the session.
StartLogoutOfAnyone(c, caller, t) ==
    /\ call[c].pc = "idle"
    /\ IF t \notin DOMAIN table
         THEN Reject(c, "logout", caller, t, "invalid")
         ELSE Proceed(c, "delete", "logout", caller, t)
    /\ UNCHANGED <<table, now>>

\* Fault: logout takes the checks of refresh.
StartLogoutUnexpired(c, caller, t) ==
    /\ call[c].pc = "idle"
    /\ IF t \notin DOMAIN table \/ table[t].user # caller \/ table[t].expires < now
         THEN Reject(c, "logout", caller, t, "invalid")
         ELSE Proceed(c, "delete", "logout", caller, t)
    /\ UNCHANGED <<table, now>>

(* logout_user: the caller's own token, expired or not. *)
StartLogout(c, caller, t) ==
    /\ call[c].pc = "idle"
    /\ IF t \notin DOMAIN table \/ table[t].user # caller
         THEN Reject(c, "logout", caller, t, "invalid")
         ELSE Proceed(c, "delete", "logout", caller, t)
    /\ UNCHANGED <<table, now>>

AfterDelete(c, reply) ==
    IF reply = "ok" /\ call[c].kind = "refresh"
      THEN call' = [call EXCEPT ![c].pc = "save"]
      ELSE Finish(c, reply)

\* Fault: a DELETE that finds no row is tried again.
DeleteTokenOfARow(c) ==
    /\ call[c].pc = "delete" /\ call[c].token \in DOMAIN table
    /\ table' = [t \in DOMAIN table \ {call[c].token} |-> table[t]]
    /\ \E reply \in {"ok", "error"} : AfterDelete(c, reply)
    /\ UNCHANGED now

(* delete_refresh_token.  A DELETE that finds no row is only a warning: the *)
(* request goes on.  "error" is a COMMIT whose acknowledgement got lost.    *)
DeleteToken(c) ==
    /\ call[c].pc = "delete"
    /\ table' = [t \in DOMAIN table \ {call[c].token} |-> table[t]]
    /\ \E reply \in {"ok", "error"} : AfterDelete(c, reply)
    /\ UNCHANGED now

(* save_refresh_token up to its COMMIT. *)
SaveToken(c) ==
    /\ call[c].pc = "save"
    /\ table' = [t \in DOMAIN table \cup {c} |->
                   IF t = c THEN [user |-> call[c].user, expires |-> now + Lifetime]
                            ELSE table[t]]
    /\ \/ call' = [call EXCEPT ![c].pc = "reply"]
       \/ Finish(c, "error")
    /\ UNCHANGED now

(* session.refresh has re-read the row; the tokens are handed out. *)
HandOut(c) ==
    /\ call[c].pc = "reply"
    /\ Finish(c, "ok")
    /\ UNCHANGED <<table, now>>

Disconnected(c) ==
    /\ call[c].pc \in {"verify", "delete", "save", "reply"}
    /\ Finish(c, "error")
    /\ UNCHANGED <<table, now>>

(* The process dies with the requests it was serving. *)
Crash ==
    /\ \E c \in Calls : call[c].pc \notin {"idle", "done"}
    /\ call' = [c \in Calls |-> IF call[c].pc \in {"idle", "done"} THEN call[c]
                                ELSE [call[c] EXCEPT !.pc = "done", !.answer = "lost"]]
    /\ UNCHANGED <<table, now>>

Tick ==
    /\ now < MaxTime /\ now' = now + 1
    /\ UNCHANGED <<table, call>>

AllAnswered ==
    /\ now = MaxTime /\ \A c \in Calls : call[c].pc = "done"
    /\ UNCHANGED vars

CallStep(c) == VerifyPassword(c) \/ DeleteToken(c) \/ SaveToken(c) \/ HandOut(c)

Next ==
    \/ \E c \in Calls :
          \/ \E user \in Users : StartLogin(c, user)
          \/ \E t \in Known : StartRefresh(c, t)
          \/ \E user \in Users, t \in Known : StartLogout(c, user, t)
          \/ CallStep(c) \/ Disconnected(c)
    \/ Crash \/ Tick \/ AllAnswered

Spec == Init /\ [][Next]_vars

(* bcrypt ends, and the database answers a statement or the connection      *)
(* breaks.                                                                  *)
FairSpec == Spec /\ \A c \in Calls : WF_vars(CallStep(c))
-----------------------------------------------------------------------------
(* The calls that have got rid of the token they were given: a refresh once *)
(* its own token exists or is about to, a logout that was answered.         *)
HasRevoked(c) ==
    \/ call[c].kind = "refresh" /\ (c \in DOMAIN table \/ call[c].pc \in {"save", "reply"})
    \/ call[c].kind = "logout" /\ call[c].answer = "ok"

(* auth.py:184 "the presented token dies before the new one is handed out": *)
(* while the new token exists, and even if the client never got it, the     *)
(* token it was traded for does not; and a token that was logged out is     *)
(* gone for good (token_service.py:93-102, auth.py:130-198).                *)
RevokedStaysRevoked ==
    \A c \in Calls : HasRevoked(c) => call[c].token \notin DOMAIN table

(* auth.py:142-143 "A token may only be revoked by its owner": a row leaves *)
(* the table when it is rotated or when the user it belongs to logs out,    *)
(* and however the calls interleave never at a stranger's request.          *)
OnlyItsOwnerEndsASession ==
    [][\A t \in DOMAIN table \ DOMAIN table' :
          \E c \in Calls : /\ call[c].pc = "delete" /\ call[c].token = t
                           /\ call[c].kind = "refresh" \/ call[c].user = table[t].user
      ]_vars

(* auth.py:138-140: an expired token does not strand in the table "with no  *)
(* way for the client to clean it up" - a logout is turned down only for a  *)
(* token that is gone or another user's.                                    *)
OwnTokenCanAlwaysBeRevoked ==
    \A c \in Calls :
        call[c].kind = "logout" /\ call[c].answer = "invalid" =>
            \/ call[c].token \notin DOMAIN table
            \/ table[call[c].token].user # call[c].user

(* Every call is answered, whichever calls race for the same row: all that  *)
(* are in flight come to an end.                                            *)
InFlight == { c \in Calls : call[c].pc \notin {"idle", "done"} }
EveryCallAnswered == InFlight # {} ~> InFlight = {}

(* exceptions.py:200 "Refresh token is unknown or has already been used":   *)
(* a refresh token buys one new pair.  Two refreshes that both looked it up *)
(* before either deleted it both go through.                                *)
TokenIsUsedOnce ==
    \A c, d \in HandedOut :
        c # d /\ call[c].kind = "refresh" /\ call[d].kind = "refresh" =>
            call[c].token # call[d].token
=============================================================================
