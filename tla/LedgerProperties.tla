-------------------------- MODULE LedgerProperties --------------------------
(***************************************************************************)
(* What module Ledger has to guarantee.                                    *)
(***************************************************************************)
EXTENDS Ledger

(* No two transactions look exactly alike to the unique constraint         *)
(* (models/transaction.py:66-75): neither two committed rows, nor a        *)
(* committed row and one that an upload has inserted and not yet           *)
(* committed, nor two such rows, of one upload or of two.                  *)
NoTwoRowsAlike ==
    /\ \A x, y \in DOMAIN rows : x # y => RowKey(rows[x]) # RowKey(rows[y])
    /\ \A u \in Uploads : \A i \in up[u].ins :
          /\ \A x \in DOMAIN rows : RowKey(rows[x]) # StoredKey(u, i)
          /\ \A v \in Uploads : \A j \in up[v].ins :
                <<u, i>> # <<v, j>> => StoredKey(u, i) # StoredKey(v, j)

(* An upload is one transaction (transaction_service.py:256-264): of the   *)
(* rows it set out to insert the table holds all or none, all when it was  *)
(* answered "saved", none while it is still running or when it was turned  *)
(* down, lost in a crash, or refused by the database.                      *)
AllOrNothing ==
    \A u \in Uploads :
        LET kept == { i \in 1..MaxRows : <<u, i>> \in DOMAIN rows }
        IN  IF up[u].answer \in {"saved", "unreachable"}
            THEN kept = up[u].new
            ELSE kept = {}

(* Copies of a transaction are numbered without a gap, whatever uploads    *)
(* ran side by side (csv_service.py:103-111): a row with occurrence n has  *)
(* companions with every smaller occurrence.  A gap would let a later      *)
(* upload insert a copy too many or too few.                               *)
OccurrencesContiguous ==
    \A x \in DOMAIN rows : \A n \in 0..MaxRows :
        n < rows[x].occ =>
            \E y \in DOMAIN rows :
                RowKey(rows[y]) = [RowKey(rows[x]) EXCEPT !.occ = n]

(* The batch check of save_transactions never fires: its comment           *)
(* (transaction_service.py:214-215) calls a repeated key impossible.       *)
NumberingNeverCollides == \A u \in Uploads : up[u].answer # "numbering"

(* A category a transaction carries exists and belongs to the owner of the *)
(* transaction's account, though it is checked in one statement, written   *)
(* in another and may be deleted in between (transaction_service.py:139,   *)
(* category_service.py:19-24).                                             *)
OwnLiveCategory ==
    \A x \in DOMAIN rows :
        rows[x].category # None =>
            /\ rows[x].category \in cats
            /\ CategoryOwner[rows[x].category] = Owner[rows[x].account]

(* An upload fails on a unique violation only because another request      *)
(* overlapped it: one that has the database to itself sees, in its SELECT, *)
(* every row it could collide with (transaction_service.py:229-254).       *)
ConflictMeansRace ==
    [][\A u \in Uploads :
          up'[u].answer = "conflict" /\ up[u].answer # "conflict" =>
              \/ \E v \in Uploads \ {u} : up[v].pc # "idle" /\ v \notin up[u].prior
              \/ \E e \in Edits : ed[e].pc # "idle" /\ e \notin up[u].prior]_vars

(* A row never disappears, and what the bank said of it (account, date,    *)
(* amount, fee, occurrence) never changes; its merchant and category       *)
(* change only in the commit of an edit that the account's owner asked for *)
(* (transaction_service.py:83-88, 116, 151-155).                           *)
OnlyItsOwnerEdits ==
    [][\A x \in DOMAIN rows :
          /\ x \in DOMAIN rows'
          /\ rows'[x] # rows[x] =>
                /\ [RowKey(rows'[x]) EXCEPT !.merchant = rows[x].merchant]
                     = RowKey(rows[x])
                /\ \E e \in Edits : /\ ed[e].pc = "write" /\ ed'[e].pc = "refresh"
                                    /\ ed[e].id = x
                                    /\ ed[e].user = Owner[rows[x].account]]_vars

(* Two edits of one row that overlap do not undo each other: a column an   *)
(* edit was not asked to set keeps whatever a rival has meanwhile put      *)
(* there, and one it was asked to set has the value asked for, then or     *)
(* when the edit read the row (transaction_service.py:111, 151-155).       *)
NoLostEdit ==
    [][\A e \in Edits :
          ed'[e].pc = "refresh" /\ ed[e].pc # "refresh" =>
              \A c \in {"merchant", "category"} :
                  LET asked == ed[e].payload[c]
                      row   == rows[ed[e].id]
                      row2  == rows'[ed[e].id]
                  IN  IF asked = None THEN row2[c] = row[c]
                      ELSE asked \in {row2[c], ed[e].old[c]}]_vars

(* Every request that arrives is answered, even when an upload and edits    *)
(* want each other's keys: nobody waits for ever on an index entry or a row *)
(* lock, so all that are in flight come to an end.                          *)
InFlight == { u \in Uploads : up[u].pc \notin {"idle", "done"} }
            \cup { e \in Edits : ed[e].pc \notin {"idle", "done"} }
EveryRequestAnswered == InFlight # {} ~> InFlight = {}

(* Uploads that insert the same rows in opposite orders, and edits that     *)
(* want each other's keys, never stop one another for good: while any is in *)
(* flight, one of them waits neither for a key of the unique index nor for  *)
(* a row lock, or PostgreSQL has a deadlock to break.  No request that was  *)
(* answered is waited for (transaction_service.py:256-264, 151-160).        *)
Waits(t) == Blocked(t) \/ (t \in Edits /\ RowLocked(t))
Stuck(t) == Waits(t) /\ ~InRing(t)
SomeoneMoves == InFlight # {} => \E t \in InFlight : ~Stuck(t)

(* Only waiting stops a request: the database has an answer, a row, a       *)
(* conflict, a refusal or a commit, for each one that is not stuck.         *)
OnlyTheStuckWait ==
    \A t \in InFlight :
        LET step == \/ t \in Uploads /\ ENABLED <<UploadStep(t)>>_vars
                    \/ t \in Edits /\ ENABLED <<EditStep(t)>>_vars
        IN  step <=> ~Stuck(t)

(* The statements a request has still to make before its answer, at most.   *)
UploadStatements(r) ==
    CASE r.pc = "idle" -> MaxRows + 3
      [] r.pc = "dedup" -> MaxRows + 2
      [] r.pc = "insert" -> 1 + Cardinality(r.new \ r.ins)
      [] r.pc = "done" -> 0
EditStatements(r) ==
    CASE r.pc = "idle" -> 5
      [] r.pc = "category" -> 4
      [] r.pc = "lock" -> 3
      [] r.pc = "write" -> 2
      [] r.pc = "refresh" -> 1
      [] r.pc = "done" -> 0

(* No request goes back or round in circles: each step that is about a      *)
(* request, its own or a crash, brings it nearer to its answer, so that it  *)
(* is answered after a bounded number of its own, whatever its rivals do    *)
(* (transaction_service.py:111-170, 202-274 have neither loop nor retry).   *)
EachStepIsProgress ==
    [][/\ \A u \in Uploads :
             up'[u] = up[u] \/ UploadStatements(up'[u]) < UploadStatements(up[u])
       /\ \A e \in Edits :
             ed'[e] = ed[e] \/ EditStatements(ed'[e]) < EditStatements(ed[e])]_vars
-----------------------------------------------------------------------------
(* The promise of module Statements, as long as no edit renames a merchant *)
(* (NewMerchants = {}) and the columns hold amounts exactly.               *)

Bases == [account : Accounts, facts : Facts, merchant : Merchants]

BaseOf(r) == [account |-> r.account, facts |-> r.facts, merchant |-> r.merchant]

heldBar ==
    [b \in Bases |-> Cardinality({ x \in DOMAIN rows : BaseOf(rows[x]) = b })]

statementBar ==
    [u \in Uploads |-> [b \in Bases |->
        Cardinality({ i \in DOMAIN up[u].file :
            /\ up[u].pc # "done"
            /\ BaseOf(IdentityKey(u, i)) = b })]]

verdictBar ==
    [u \in Uploads |-> CASE up[u].pc = "idle" -> "waiting"
                         [] up[u].pc \in {"dedup", "insert"} -> "open"
                         [] up[u].answer = "saved" -> "saved"
                         [] OTHER -> "failed"]

Promise == INSTANCE Statements
             WITH held <- heldBar, statement <- statementBar, verdict <- verdictBar

(* Uploads implement Statements: whatever the interleaving, an upload      *)
(* answered 200 has merged its statement's counts into the ledger in one   *)
(* step, and one answered otherwise has merged them or left no trace       *)
(* (upload.py:33-97, csv_service.py:88-129, transaction_service.py:202-274).*)
KeepsPromise == Promise!Spec
-----------------------------------------------------------------------------
(* What the repository says of uploads and the code does not keep.         *)

(* models/transaction.py:58-61: "no chance of a collision silently         *)
(* dropping a real transaction" - every row of a file that was saved is in *)
(* the table as a row that some upload brought in with that very key.      *)
NoRealTransactionDropped ==
    \A u \in Uploads : up[u].answer = "saved" =>
        \A i \in DOMAIN up[u].file :
            \E x \in DOMAIN rows : IdentityKey(x[1], x[2]) = IdentityKey(u, i)

(* models/transaction.py:85-87: the counter keeps look-alikes distinct      *)
(* "while staying stable on re-upload, because file order is stable" - a    *)
(* file that was saved before does not meet itself in the unique index when *)
(* it is uploaded once more: all of its rows are found there already.       *)
ReuploadIsStable ==
    [][\A u \in Uploads :
          up'[u].answer = "conflict" /\ up[u].answer # "conflict" =>
              ~ \E v \in up[u].prior \cap Uploads :
                    /\ up[v].answer = "saved"
                    /\ up[v].account = up[u].account
                    /\ up[v].file = up[u].file]_vars
=============================================================================
