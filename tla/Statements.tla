----------------------------- MODULE Statements -----------------------------
(***************************************************************************)
(* What uploading bank statements promises, with no table, no keys and no  *)
(* database in sight.  The ledger holds each transaction a number of       *)
(* times.  An upload presents a statement that contains each transaction   *)
(* a number of times.  One that is answered "saved" has, in a single step, *)
(* brought every count up to the statement's own: a transaction listed     *)
(* twice is held twice, and what an earlier statement already brought in   *)
(* is not counted again.  One that is answered anything else has either    *)
(* done that or nothing at all.                                            *)
(***************************************************************************)
EXTENDS Integers

CONSTANTS
    Bases,    \* what makes two transactions look alike
    Uploads,  \* the uploads that may arrive
    MaxRows   \* bound: rows of one statement

VARIABLES
    held,      \* [Bases -> Nat]: how often the ledger holds each
    statement, \* [Uploads -> [Bases -> Nat]]: what each open upload presents
    verdict    \* [Uploads -> {"waiting", "open", "saved", "failed"}]

vars == <<held, statement, verdict>>

Empty == [b \in Bases |-> 0]

Init ==
    /\ held = Empty
    /\ statement = [u \in Uploads |-> Empty]
    /\ verdict = [u \in Uploads |-> "waiting"]

Present(u) ==
    /\ verdict[u] = "waiting"
    /\ verdict' = [verdict EXCEPT ![u] = "open"]
    /\ \E s \in [Bases -> 0..MaxRows] : statement' = [statement EXCEPT ![u] = s]
    /\ UNCHANGED held

(* The upload names somebody else's account. *)
TurnDown(u) ==
    /\ verdict[u] = "waiting"
    /\ verdict' = [verdict EXCEPT ![u] = "failed"]
    /\ UNCHANGED <<held, statement>>

Merged(s) == [b \in Bases |-> IF s[b] > held[b] THEN s[b] ELSE held[b]]

(* The statement is merged, whatever the caller then gets to hear. *)
Merge(u) ==
    /\ verdict[u] = "open"
    /\ \E v \in {"saved", "failed"} : verdict' = [verdict EXCEPT ![u] = v]
    /\ held' = Merged(statement[u])
    /\ statement' = [statement EXCEPT ![u] = Empty]

(* Uploads are given up, leaving no trace: one, or all of them in a crash. *)
GiveUp(some) ==
    /\ some # {} /\ \A u \in some : verdict[u] = "open"
    /\ verdict' = [u \in Uploads |-> IF u \in some THEN "failed" ELSE verdict[u]]
    /\ statement' = [u \in Uploads |-> IF u \in some THEN Empty ELSE statement[u]]
    /\ UNCHANGED held

Next ==
    \/ \E u \in Uploads : Present(u) \/ TurnDown(u) \/ Merge(u)
    \/ \E some \in SUBSET Uploads : GiveUp(some)

Spec == Init /\ [][Next]_vars
=============================================================================
