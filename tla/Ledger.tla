------------------------------- MODULE Ledger -------------------------------
(***************************************************************************)
(* The transactions table of CategoristAI and the two kinds of request     *)
(* that write it: a CSV upload (api/v1/upload.py, services/csv_service.py, *)
(* services/transaction_service.py save_transactions) and a PATCH of one   *)
(* transaction (transaction_service.py update_transaction).                *)
(*                                                                         *)
(* Every request has one AsyncSession, i.e. one PostgreSQL transaction at  *)
(* a time, READ COMMITTED.  A request can be suspended at each await, so   *)
(* each SQL statement is a step of its own.  The database is modelled by   *)
(* what the code relies on: a unique index that makes an INSERT or UPDATE  *)
(* wait for the in-flight transaction that holds the same key, the row     *)
(* lock of an UPDATE, the category foreign key, and the deadlock detector. *)
(*                                                                         *)
(* What a CSV row parses to is decided elsewhere (module CsvImport); here  *)
(* an upload carries the rows that parsed, in file order.                  *)
(*                                                                         *)
(* A definition marked "Fault" is no part of the specification: it stands  *)
(* before the one it distorts, as a slip in the code would, and shows that *)
(* a property notices.                                                     *)
(***************************************************************************)
EXTENDS Integers, Sequences, FiniteSets

CONSTANTS
    Users,          \* user ids
    Accounts,       \* account ids; the program never deletes one
    Owner,          \* [Accounts -> Users], the column accounts.user_id
    Facts,          \* what a row says of (start_date, amount, fee)
    Rounded,        \* [Facts -> Facts \cup {None}]: the value NUMERIC(12,2)
                    \*   columns hold for those facts, None when out of range
    Merchants,      \* merchant strings
    Categories,     \* category ids that ever existed
    CategoryOwner,  \* [Categories -> Users], the column categories.user_id
    Uploads,        \* POST /upload requests
    Edits,          \* PATCH /transactions/{id} requests
    NewMerchants,   \* the merchants an edit may ask for
    MaxRows,        \* bound: parsed rows of one file
    None            \* NULL, or a field the request leaves out

ASSUME ConstantsAssumption ==
    /\ Owner \in [Accounts -> Users]
    /\ CategoryOwner \in [Categories -> Users]
    /\ Rounded \in [Facts -> Facts \cup {None}]
    /\ NewMerchants \subseteq Merchants
    /\ MaxRows \in Nat
    /\ Uploads \cap Edits = {}
    /\ None \notin Users \cup Accounts \cup Facts \cup Merchants \cup Categories

VARIABLES
    rows,   \* committed rows of the table: row id -> Row
    cats,   \* the categories that exist now
    up,     \* the upload requests
    ed      \* the edit requests

vars == <<rows, cats, up, ed>>

Requests == Uploads \cup Edits

(* The uuid of a row is minted by the upload that inserts it: the pair of   *)
(* that upload and the row's position among its parsed rows.                *)
Ids == Uploads \X (1..MaxRows)

Line == [facts : Facts, merchant : Merchants]
File == UNION { [1..n -> Line] : n \in 0..MaxRows }

Key == [account : Accounts, facts : Facts \cup {None},
        merchant : Merchants, occ : 0..(MaxRows - 1)]
Row == [account : Accounts, facts : Facts, merchant : Merchants,
        occ : 0..(MaxRows - 1), category : Categories \cup {None}]

(* The columns of the unique constraint on transactions. *)
RowKey(r) == [account |-> r.account, facts |-> r.facts,
              merchant |-> r.merchant, occ |-> r.occ]

UploadAnswers == {"none", "saved", "not_found", "numbering",
                  "conflict", "refused", "deadlock", "unreachable",
                  "error", "lost"}
EditAnswers == {"none", "updated", "unchanged", "not_found", "no_category",
                "duplicate", "error", "lost"}

Payload == [merchant : NewMerchants \cup {None},
            category : Categories \cup {None}]

UploadState ==
    [pc : {"idle", "dedup", "insert", "done"},
     user : Users \cup {None}, account : Accounts \cup {None}, file : File,
     new : SUBSET (1..MaxRows),  \* the rows save_transactions sets out to insert
     ins : SUBSET (1..MaxRows),  \* those inserted so far, not yet committed
     answer : UploadAnswers, prior : SUBSET Requests]

EditState ==
    [pc : {"idle", "category", "lock", "write", "refresh", "done"},
     user : Users \cup {None}, id : Ids \cup {None}, payload : Payload,
     old : [merchant : Merchants \cup {None},   \* the row as it was read
            category : Categories \cup {None}],
     answer : EditAnswers]

TypeOK ==
    /\ DOMAIN rows \subseteq Ids
    /\ \A id \in DOMAIN rows : rows[id] \in Row
    /\ cats \subseteq Categories
    /\ up \in [Uploads -> UploadState]
    /\ ed \in [Edits -> EditState]

NoUpload == [pc |-> "idle", user |-> None, account |-> None, file |-> << >>,
             new |-> {}, ins |-> {}, answer |-> "none", prior |-> {}]
NoFields == [merchant |-> None, category |-> None]
NoEdit == [pc |-> "idle", user |-> None, id |-> None, payload |-> NoFields,
           old |-> NoFields, answer |-> "none"]

Init ==
    /\ rows = [id \in {} |-> None]
    /\ cats = Categories
    /\ up = [u \in Uploads |-> NoUpload]
    /\ ed = [e \in Edits |-> NoEdit]

(* The requests answered so far.  An upload remembers in "prior" those      *)
(* answered before it arrived; only a property reads it.                    *)
Answered == { u \in Uploads : up[u].pc = "done" }
            \cup { e \in Edits : ed[e].pc = "done" }
-----------------------------------------------------------------------------
(* get_account_by_id: None for an account that is not the caller's. *)
OwnAccount(usr, a) == Owner[a] = usr

(* get_category_by_id: None for one that is not the caller's, or is gone. *)
OwnCategory(usr, c) == c \in cats /\ CategoryOwner[c] = usr
-----------------------------------------------------------------------------
(* Identity of the rows of a file.                                          *)

\* Fault: the row itself is counted.
OccurrenceFromOne(f, i) == Cardinality({ j \in 1..i : f[j] = f[i] })

(* The occurrence number parse_transactions gives row i of file f: how many *)
(* rows before it have the same identity columns.                           *)
Occurrence(f, i) == Cardinality({ j \in 1..(i - 1) : f[j] = f[i] })

(* full_identity_key of parsed row i, as Python values. *)
FileKey(a, f, i) == [account |-> a, facts |-> f[i].facts,
                     merchant |-> f[i].merchant, occ |-> Occurrence(f, i)]
IdentityKey(u, i) == FileKey(up[u].account, up[u].file, i)

(* The same key once the columns have rounded it. *)
StoredKey(u, i) ==
    [IdentityKey(u, i) EXCEPT !.facts = Rounded[up[u].file[i].facts]]

NewRow(u, i) ==
    [account |-> up[u].account, facts |-> Rounded[up[u].file[i].facts],
     merchant |-> up[u].file[i].merchant,
     occ |-> Occurrence(up[u].file, i), category |-> None]

(* save_transactions refuses a batch in which one key repeats. *)
KeysDistinct(a, f) ==
    \A i, j \in DOMAIN f : i # j => FileKey(a, f, i) # FileKey(a, f, j)
-----------------------------------------------------------------------------
(* Keys and locks held inside PostgreSQL.                                   *)

(* The row an upload inserts next: rows go in file order. *)
IsNext(u, i) ==
    /\ up[u].pc = "insert"
    /\ i \in up[u].new \ up[u].ins
    /\ \A j \in up[u].new \ up[u].ins : i <= j

(* The columns an edit's UPDATE sets: SQLAlchemy leaves out an attribute    *)
(* set to the value that was loaded.                                        *)
Changed(e) ==
    { c \in {"merchant", "category"} :
        ed[e].payload[c] \notin {None, ed[e].old[c]} }

\* Fault: the UPDATE writes back every column the edit had read.
EditedRowWhole(e) ==
    [rows[ed[e].id] EXCEPT
        !.merchant = IF ed[e].payload.merchant # None
                     THEN ed[e].payload.merchant ELSE ed[e].old.merchant,
        !.category = IF ed[e].payload.category # None
                     THEN ed[e].payload.category ELSE ed[e].old.category]

EditedRow(e) ==
    [rows[ed[e].id] EXCEPT
        !.merchant = IF "merchant" \in Changed(e) THEN ed[e].payload.merchant ELSE @,
        !.category = IF "category" \in Changed(e) THEN ed[e].payload.category ELSE @]

(* The unique-index keys whose fate request t decides when it commits. *)
Holds(t) ==
    IF t \in Uploads
      THEN { StoredKey(t, i) : i \in up[t].ins }
      ELSE { RowKey(rows[id]) : id \in { j \in DOMAIN rows :
                                   ed[t].pc = "write" /\ ed[t].id = j } }

(* The key request t has to put into the index now. *)
Needs(t) ==
    IF t \in Uploads
      THEN { StoredKey(t, i) : i \in { j \in up[t].new : IsNext(t, j) } }
      ELSE { RowKey(EditedRow(t)) : id \in { j \in DOMAIN rows :
                 /\ ed[t].pc = "write" /\ ed[t].id = j
                 /\ "merchant" \in Changed(t) } }

WaitsFor(t, s) == t # s /\ Needs(t) \cap Holds(s) # {}
Blocked(t) == \E s \in Requests : WaitsFor(t, s)

(* Another edit's UPDATE has the lock of the row e is about to update.      *)
RowLocked(e) ==
    /\ ed[e].pc = "lock" /\ Changed(e) # {}
    /\ \E d \in Edits : ed[d].pc = "write" /\ ed[d].id = ed[e].id

(* A committed row, or one of its own, already has the key t needs. *)
Taken(t) ==
    \/ \E id \in DOMAIN rows : /\ t \in Edits => id # ed[t].id
                               /\ RowKey(rows[id]) \in Needs(t)
    \/ t \in Uploads /\ Needs(t) \cap Holds(t) # {}

(* t is one of a ring of requests each of which waits for the next.         *)
InRing(t) ==
    \E ring \in SUBSET Requests :
        /\ t \in ring
        /\ \A s \in ring : /\ \E r \in ring : WaitsFor(s, r)
                           /\ \E r \in ring : WaitsFor(r, s)
-----------------------------------------------------------------------------
(* POST /upload.                                                            *)

(* The request ends and leaves no trace but its answer. *)
AbandonedUpload(reply) == [NoUpload EXCEPT !.pc = "done", !.answer = reply]

\* Fault: a failed request gives its connection back without a ROLLBACK.
AbandonUploadUnrolled(u, reply) ==
    up' = [up EXCEPT ![u] = [@ EXCEPT !.pc = "done", !.answer = reply]]

AbandonUpload(u, reply) == up' = [up EXCEPT ![u] = AbandonedUpload(reply)]

(* upload_batch up to save_transactions' SELECT: the account is looked up   *)
(* under the caller's user_id, the file is read, parsed and numbered, and   *)
(* the batch is checked for a repeated key.  Accounts and their owners do   *)
(* not change, so nothing another request does is visible in between.       *)
StartUpload(u, usr, a, f) ==
    /\ up[u].pc = "idle"
    /\ IF ~OwnAccount(usr, a) THEN AbandonUpload(u, "not_found")
       ELSE IF ~KeysDistinct(a, f) THEN AbandonUpload(u, "numbering")
       ELSE up' = [up EXCEPT ![u] =
                     [@ EXCEPT !.pc = "dedup", !.user = usr, !.account = a,
                               !.file = f, !.prior = Answered]]
    /\ UNCHANGED <<rows, cats, ed>>

\* Fault: rows that look like one already held are dropped, whatever their number.
SelectExistingByLooks(u) ==
    /\ up[u].pc = "dedup"
    /\ up' = [up EXCEPT
          ![u].pc = "insert",
          ![u].new = { i \in DOMAIN up[u].file :
              \A id \in DOMAIN rows :
                  [RowKey(rows[id]) EXCEPT !.occ = 0]
                    # [IdentityKey(u, i) EXCEPT !.occ = 0] }]
    /\ UNCHANGED <<rows, cats, ed>>

\* Fault: existing rows are left to the constraint.
SelectExistingSkipped(u) ==
    /\ up[u].pc = "dedup"
    /\ up' = [up EXCEPT ![u].pc = "insert", ![u].new = DOMAIN up[u].file]
    /\ UNCHANGED <<rows, cats, ed>>

(* The SELECT of the identities already in the table, compared as Python    *)
(* tuples with the parsed rows' keys.                                       *)
SelectExisting(u) ==
    /\ up[u].pc = "dedup"
    /\ LET absent == { i \in DOMAIN up[u].file :
              \A id \in DOMAIN rows : RowKey(rows[id]) # IdentityKey(u, i) }
       IN  up' = [up EXCEPT ![u] = [@ EXCEPT !.pc = "insert", !.new = absent]]
    /\ UNCHANGED <<rows, cats, ed>>

\* Fault: each INSERT commits by itself.
InsertRowAutocommit(u) ==
    /\ ~Blocked(u) /\ ~Taken(u)
    /\ \E i \in 1..MaxRows :
          /\ IsNext(u, i)
          /\ up' = [up EXCEPT ![u].ins = @ \cup {i}]
          /\ rows' = [id \in DOMAIN rows \cup {<<u, i>>} |->
                        IF id \in DOMAIN rows THEN rows[id] ELSE NewRow(u, i)]
    /\ UNCHANGED <<cats, ed>>

\* Fault: the table lacks its unique constraint.
InsertRowUnconstrained(u) ==
    /\ \E i \in 1..MaxRows :
          /\ IsNext(u, i)
          /\ Rounded[up[u].file[i].facts] # None
          /\ up' = [up EXCEPT ![u].ins = @ \cup {i}]
    /\ UNCHANGED <<rows, cats, ed>>

(* commit() flushes the new rows one INSERT at a time. *)
InsertRow(u) ==
    /\ ~Blocked(u) /\ ~Taken(u)
    /\ \E i \in 1..MaxRows :
          /\ IsNext(u, i)
          /\ Rounded[up[u].file[i].facts] # None
          /\ up' = [up EXCEPT ![u].ins = @ \cup {i}]
    /\ UNCHANGED <<rows, cats, ed>>

\* Fault: a conflict is tried again until it goes away.
InsertConflictRetried(u) == ~Blocked(u) /\ Taken(u) /\ u \in Uploads /\ UNCHANGED vars

\* Fault: after a conflict the whole batch is tried again.
InsertConflictAnew(u) ==
    /\ ~Blocked(u) /\ Taken(u) /\ u \in Uploads
    /\ up' = [up EXCEPT ![u] = [@ EXCEPT !.pc = "dedup", !.new = {}, !.ins = {}]]
    /\ UNCHANGED <<rows, cats, ed>>

(* The key is in the table by now: unique violation, the batch rolls back. *)
InsertConflict(u) ==
    /\ ~Blocked(u) /\ Taken(u) /\ u \in Uploads
    /\ AbandonUpload(u, "conflict")
    /\ UNCHANGED <<rows, cats, ed>>

(* The amount does not fit its column: the statement fails, and the batch.  *)
InsertRefused(u) ==
    /\ \E i \in 1..MaxRows : /\ IsNext(u, i)
                             /\ Rounded[up[u].file[i].facts] = None
    /\ AbandonUpload(u, "refused")
    /\ UNCHANGED <<rows, cats, ed>>

(* The COMMIT is done; the reply may still be lost on the way back, which   *)
(* the program takes for a failed one.                                      *)
CommitUpload(u) ==
    /\ up[u].pc = "insert" /\ up[u].ins = up[u].new
    /\ rows' = [id \in DOMAIN rows \cup ({u} \X up[u].new) |->
                  IF id \in DOMAIN rows THEN rows[id] ELSE NewRow(u, id[2])]
    /\ \E reply \in {"saved", "unreachable"} :
          up' = [up EXCEPT ![u] = [@ EXCEPT !.pc = "done", !.answer = reply,
                                            !.ins = {}, !.prior = {}]]
    /\ UNCHANGED <<cats, ed>>

(* The connection breaks before the COMMIT: PostgreSQL rolls back.  During  *)
(* the SELECT nothing catches that; commit() turns it into the same         *)
(* TransactionPersistError as a conflict, a refusal or a deadlock.          *)
UploadDisconnected(u) ==
    /\ up[u].pc \in {"dedup", "insert"}
    /\ AbandonUpload(u, IF up[u].pc = "dedup" THEN "error" ELSE "unreachable")
    /\ UNCHANGED <<rows, cats, ed>>

UploadDeadlock(u) ==
    /\ u \in Uploads /\ InRing(u)
    /\ AbandonUpload(u, "deadlock")
    /\ UNCHANGED <<rows, cats, ed>>
-----------------------------------------------------------------------------
(* PATCH /transactions/{id}.                                                *)

AnsweredEdit(reply) == [NoEdit EXCEPT !.pc = "done", !.answer = reply]
FinishEdit(e, reply) == ed' = [ed EXCEPT ![e] = AnsweredEdit(reply)]

\* Fault: the row is fetched by its id alone.
StartEditOfAnyone(e, usr, id, p) ==
    /\ ed[e].pc = "idle"
    /\ IF id \notin DOMAIN rows THEN FinishEdit(e, "not_found")
       ELSE IF p = NoFields THEN FinishEdit(e, "unchanged")
       ELSE ed' = [ed EXCEPT ![e] =
              [@ EXCEPT !.pc = IF p.category # None THEN "category" ELSE "lock",
                        !.user = usr, !.id = id, !.payload = p,
                        !.old = [merchant |-> rows[id].merchant,
                                 category |-> rows[id].category]]]
    /\ UNCHANGED <<rows, cats, up>>

(* The fetch, scoped to the caller's accounts, then the two early returns.  *)
StartEdit(e, usr, id, p) ==
    /\ ed[e].pc = "idle"
    /\ IF ~(id \in DOMAIN rows /\ Owner[rows[id].account] = usr)
         THEN FinishEdit(e, "not_found")
       ELSE IF p = NoFields THEN FinishEdit(e, "unchanged")
       ELSE ed' = [ed EXCEPT ![e] =
              [@ EXCEPT !.pc = IF p.category # None THEN "category" ELSE "lock",
                        !.user = usr, !.id = id, !.payload = p,
                        !.old = [merchant |-> rows[id].merchant,
                                 category |-> rows[id].category]]]
    /\ UNCHANGED <<rows, cats, up>>

\* Fault: any category that exists will do.
CheckCategoryExists(e) ==
    /\ ed[e].pc = "category"
    /\ IF ed[e].payload.category \in cats
         THEN ed' = [ed EXCEPT ![e].pc = "lock"]
         ELSE FinishEdit(e, "no_category")
    /\ UNCHANGED <<rows, cats, up>>

(* A category must be the caller's own; None in the payload is no change. *)
CheckCategory(e) ==
    /\ ed[e].pc = "category"
    /\ IF OwnCategory(ed[e].user, ed[e].payload.category)
         THEN ed' = [ed EXCEPT ![e].pc = "lock"]
         ELSE FinishEdit(e, "no_category")
    /\ UNCHANGED <<rows, cats, up>>

(* commit() with something to flush: the UPDATE takes the row lock.  With   *)
(* nothing to flush the commit is empty.                                    *)
LockRow(e) ==
    /\ ed[e].pc = "lock" /\ ~RowLocked(e)
    /\ ed' = [ed EXCEPT ![e].pc = IF Changed(e) = {} THEN "refresh" ELSE "write"]
    /\ UNCHANGED <<rows, cats, up>>

(* The UPDATE puts its key into the unique index, checks the foreign key    *)
(* and the transaction commits; or one of the two constraints refuses it.   *)
WriteRow(e) ==
    /\ ed[e].pc = "write"
    /\ ~Blocked(e)
    /\ IF Taken(e)
         THEN FinishEdit(e, "duplicate") /\ UNCHANGED rows
         ELSE IF "category" \in Changed(e) /\ ed[e].payload.category \notin cats
         THEN FinishEdit(e, "no_category") /\ UNCHANGED rows
         ELSE /\ rows' = [rows EXCEPT ![ed[e].id] = EditedRow(e)]
              /\ ed' = [ed EXCEPT ![e].pc = "refresh"]
    /\ UNCHANGED <<cats, up>>

(* session.refresh re-reads the row for the response. *)
RefreshRow(e) ==
    /\ ed[e].pc = "refresh"
    /\ FinishEdit(e, "updated")
    /\ UNCHANGED <<rows, cats, up>>

(* A broken connection is no IntegrityError: it leaves as a plain 500. *)
EditDisconnected(e) ==
    /\ ed[e].pc \in {"category", "lock", "write", "refresh"}
    /\ FinishEdit(e, "error")
    /\ UNCHANGED <<rows, cats, up>>

\* Fault: the statement is tried again in the transaction it had.
EditDeadlockRetried(e) == e \in Edits /\ InRing(e) /\ UNCHANGED vars

EditDeadlock(e) ==
    /\ e \in Edits /\ InRing(e)
    /\ FinishEdit(e, "error")
    /\ UNCHANGED <<rows, cats, up>>
-----------------------------------------------------------------------------
(* The environment.                                                         *)

(* No endpoint deletes a category: an operator does, in the database.  The  *)
(* foreign key protects a category some row refers to.                      *)
DeleteCategory(c) ==
    /\ c \in cats
    /\ \A id \in DOMAIN rows : rows[id].category # c
    /\ cats' = cats \ {c}
    /\ UNCHANGED <<rows, up, ed>>

(* The server process dies: its requests are never answered, and PostgreSQL *)
(* rolls back what they had in flight.                                      *)
Crash ==
    /\ \/ \E u \in Uploads : up[u].pc \in {"dedup", "insert"}
       \/ \E e \in Edits : ed[e].pc \notin {"idle", "done"}
    /\ up' = [u \in Uploads |->
                IF up[u].pc \in {"dedup", "insert"}
                THEN AbandonedUpload("lost") ELSE up[u]]
    /\ ed' = [e \in Edits |->
                IF ed[e].pc \notin {"idle", "done"}
                THEN AnsweredEdit("lost") ELSE ed[e]]
    /\ UNCHANGED <<rows, cats>>

(* Every request has been answered: nothing is left to do. *)
AllAnswered ==
    /\ Answered = Requests
    /\ UNCHANGED vars

UploadStep(u) == \/ SelectExisting(u) \/ InsertRow(u) \/ InsertConflict(u)
                 \/ InsertRefused(u) \/ CommitUpload(u) \/ UploadDeadlock(u)
EditStep(e) == \/ CheckCategory(e) \/ LockRow(e) \/ WriteRow(e)
               \/ RefreshRow(e) \/ EditDeadlock(e)

Next ==
    \/ \E u \in Uploads : \/ \E usr \in Users, a \in Accounts, f \in File :
                                StartUpload(u, usr, a, f)
                          \/ UploadStep(u)
                          \/ UploadDisconnected(u)
    \/ \E e \in Edits : \/ \E usr \in Users, id \in Ids, p \in Payload :
                              StartEdit(e, usr, id, p)
                        \/ EditStep(e)
                        \/ EditDisconnected(e)
    \/ \E c \in Categories : DeleteCategory(c)
    \/ Crash
    \/ AllAnswered

Spec == Init /\ [][Next]_vars

(* An open statement comes back: the database answers it, ends it when a    *)
(* constraint refuses it, or its deadlock detector ends it.                 *)
Fairness == /\ \A u \in Uploads : WF_vars(UploadStep(u))
            /\ \A e \in Edits : WF_vars(EditStep(e))

FairSpec == Spec /\ Fairness
=============================================================================
