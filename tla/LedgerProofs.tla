---------------------------- MODULE LedgerProofs ----------------------------
(***************************************************************************)
(* Proofs, for every value of the constants, of what module Ledger keeps   *)
(* whatever the interleaving of uploads, edits, deletions and crashes.     *)
(***************************************************************************)
EXTENDS LedgerProperties, FiniteSetTheorems, TLAPS

-----------------------------------------------------------------------------
(* The occurrence numbering.                                                *)

(* The number given to a row of a file fits the column's range in the       *)
(* model: it is less than the number of rows.                               *)
LEMMA OccurrenceType ==
    ASSUME NEW f \in File, NEW i \in DOMAIN f
    PROVE  /\ DOMAIN f \subseteq 1..MaxRows
           /\ f[i] \in Line
           /\ Occurrence(f, i) \in 0..(MaxRows - 1)
<1>1. PICK n \in 0..MaxRows : f \in [1..n -> Line]
  BY DEF File
<1>2. DOMAIN f = 1..n /\ n \in Nat /\ n <= MaxRows /\ i \in 1..n
  BY <1>1, ConstantsAssumption DEF ConstantsAssumption
<1> DEFINE before == { j \in 1..(i - 1) : f[j] = f[i] }
<1>3. i - 1 \in Nat /\ i - 1 <= MaxRows - 1 /\ 1 \in Int /\ i - 1 \in Int
  BY <1>2, ConstantsAssumption DEF ConstantsAssumption
<1>4. IsFiniteSet(1..(i - 1)) /\ Cardinality(1..(i - 1)) = i - 1
  BY <1>3, FS_Interval
<1>5. IsFiniteSet(before) /\ Cardinality(before) <= i - 1
  BY <1>4, FS_Subset, before \in SUBSET (1..(i - 1))
<1>6. Cardinality(before) \in Nat
  BY <1>5, FS_CardinalityType
<1>7. Occurrence(f, i) = Cardinality(before)
  BY DEF Occurrence
<1>8. Cardinality(before) \in 0..(MaxRows - 1)
  <2> HIDE DEF before
  <2> QED BY <1>3, <1>5, <1>6, <1>2, ConstantsAssumption DEF ConstantsAssumption
<1> QED BY <1>1, <1>2, <1>7, <1>8, ConstantsAssumption DEF ConstantsAssumption

(* Of two look-alike rows the later one has the larger number.              *)
LEMMA OccurrenceGrows ==
    ASSUME NEW f \in File, NEW i \in DOMAIN f, NEW j \in DOMAIN f,
           i < j, f[i] = f[j]
    PROVE  Occurrence(f, i) < Occurrence(f, j) /\ Occurrence(f, i) # Occurrence(f, j)
<1>1. DOMAIN f \subseteq 1..MaxRows /\ i \in Nat /\ j \in Nat /\ i >= 1
  BY OccurrenceType, ConstantsAssumption DEF ConstantsAssumption
<1> DEFINE A == { k \in 1..(i - 1) : f[k] = f[i] }
           B == { k \in 1..(j - 1) : f[k] = f[j] }
<1>2. A \subseteq B /\ i \in B /\ i \notin A /\ B \in SUBSET (1..(j - 1))
  BY <1>1
<1>3. IsFiniteSet(1..(j - 1))
  BY <1>1, FS_Interval, j - 1 \in Int, 1 \in Int
<1>4. IsFiniteSet(B)
  BY <1>2, <1>3, FS_Subset
<1>5. /\ Cardinality(B) = Cardinality(A) => B = A
      /\ Cardinality(A) <= Cardinality(B) /\ IsFiniteSet(A)
  BY <1>2, <1>4, FS_Subset
<1>6. Cardinality(A) \in Nat /\ Cardinality(B) \in Nat /\ Cardinality(A) # Cardinality(B)
  BY <1>2, <1>4, <1>5, FS_CardinalityType
<1> QED BY <1>5, <1>6 DEF Occurrence

(* The numbering of parse_transactions (csv_service.py:103-111) makes every *)
(* key of a batch unique, for every file: what save_transactions' comment   *)
(* (transaction_service.py:214-215) takes for granted.                      *)
THEOREM NumberingSound ==
    ASSUME NEW a \in Accounts, NEW f \in File
    PROVE  KeysDistinct(a, f)
<1> SUFFICES ASSUME NEW i \in DOMAIN f, NEW j \in DOMAIN f, i # j,
                    FileKey(a, f, i) = FileKey(a, f, j)
             PROVE  FALSE
  BY DEF KeysDistinct
<1>1. f[i] \in Line /\ f[j] \in Line /\ DOMAIN f \subseteq 1..MaxRows
  BY OccurrenceType
<1>2. f[i].facts = f[j].facts /\ f[i].merchant = f[j].merchant
      /\ Occurrence(f, i) = Occurrence(f, j)
  BY DEF FileKey
<1>3. f[i] = f[j]
  BY <1>1, <1>2 DEF Line
<1>4. i \in Int /\ j \in Int
  BY <1>1, ConstantsAssumption DEF ConstantsAssumption
<1>5. CASE i < j
  BY <1>2, <1>3, <1>5, OccurrenceGrows
<1>6. CASE j < i
  BY <1>2, <1>3, <1>6, OccurrenceGrows
<1> QED BY <1>4, <1>5, <1>6
-----------------------------------------------------------------------------
(* The inductive invariant.                                                 *)

(* An open upload acts on an account that exists and has not been answered; *)
(* rows are only inserted while it is inserting, out of those it found to   *)
(* be new, and only with values the columns hold.                           *)
UploadsInv ==
    \A u \in Uploads :
        /\ up[u].pc \in {"dedup", "insert"} => up[u].account \in Accounts
        /\ up[u].pc # "done" => up[u].answer = "none"
        /\ up[u].pc = "insert" => up[u].new \subseteq DOMAIN up[u].file
        /\ up[u].pc # "insert" => up[u].ins = {}
        /\ up[u].ins \subseteq up[u].new
        /\ \A i \in up[u].ins : Rounded[up[u].file[i].facts] # None

(* An edit that got past its fetch acts on a row of the caller's own, and   *)
(* one that got past the category check brings a category of the caller's.  *)
EditsInv ==
    \A e \in Edits :
        /\ ed[e].pc \in {"category", "lock", "write", "refresh"} =>
              /\ ed[e].id \in DOMAIN rows
              /\ ed[e].user = Owner[rows[ed[e].id].account]
        /\ ed[e].pc \in {"lock", "write"} /\ ed[e].payload.category # None =>
              CategoryOwner[ed[e].payload.category] = ed[e].user

IInv == /\ TypeOK /\ UploadsInv /\ EditsInv
        /\ NoTwoRowsAlike /\ AllOrNothing /\ OwnLiveCategory
        /\ NumberingNeverCollides

(* A statement may hold no row at all.                                      *)
LEMMA EmptyFile == << >> \in File
<1>1. 0 \in 0..MaxRows /\ 1..0 = {}
  BY ConstantsAssumption DEF ConstantsAssumption
<1>2. << >> \in [1..0 -> Line]
  BY <1>1
<1> QED BY <1>1, <1>2 DEF File

(* The invariant holds of the empty table, before any request.              *)
LEMMA InitIInv == Init => IInv
<1> SUFFICES ASSUME Init PROVE IInv
  OBVIOUS
<1>1. DOMAIN rows = {}
  BY DEF Init
<1>2. TypeOK
  <2>2. NoUpload \in UploadState
    BY EmptyFile DEF NoUpload, UploadState, UploadAnswers
  <2>3. NoEdit \in EditState
    BY DEF NoEdit, NoFields, EditState, EditAnswers, Payload
  <2> QED BY <1>1, <2>2, <2>3 DEF Init, TypeOK
<1>3. UploadsInv /\ EditsInv /\ NumberingNeverCollides
  BY DEF Init, UploadsInv, EditsInv, NoUpload, NoEdit, NumberingNeverCollides
<1>4. NoTwoRowsAlike /\ AllOrNothing /\ OwnLiveCategory
  BY <1>1 DEF Init, NoUpload, NoTwoRowsAlike, AllOrNothing, OwnLiveCategory
<1> QED BY <1>2, <1>3, <1>4 DEF IInv
-----------------------------------------------------------------------------
(* Steps of uploads.                                                        *)

(* An upload moves on, or ends, and holds no uncommitted row afterwards.    *)
LEMMA UploadWithoutRows ==
    ASSUME IInv, NEW u \in Uploads, NEW r \in UploadState,
           up[u].pc # "done", up' = [up EXCEPT ![u] = r],
           UNCHANGED <<rows, cats, ed>>,
           r.ins = {},
           r.pc \in {"dedup", "insert"} => r.account \in Accounts,
           r.pc # "done" => r.answer = "none",
           r.pc = "insert" => r.new \subseteq DOMAIN r.file,
           r.answer \notin {"saved", "numbering"},
           r.answer = "unreachable" => r.new = {}
    PROVE  IInv'
<1> USE DEF IInv
<1>1. up \in [Uploads -> UploadState]
  BY DEF TypeOK
<1>2. /\ up'[u] = r
      /\ \A v \in Uploads \ {u} : up'[v] = up[v]
  BY <1>1
<1>3. TypeOK'
  BY <1>1 DEF TypeOK
<1>4. UploadsInv'
  BY <1>2 DEF UploadsInv
<1>5. EditsInv'
  BY DEF EditsInv
<1>6. NoTwoRowsAlike'
  <2>1. \A v \in Uploads : \A i \in up'[v].ins :
            v # u /\ i \in up[v].ins /\ StoredKey(v, i)' = StoredKey(v, i)
    BY <1>2 DEF StoredKey, IdentityKey
  <2> QED BY <2>1 DEF NoTwoRowsAlike
<1>7. AllOrNothing'
  <2>1. { i \in 1..MaxRows : <<u, i>> \in DOMAIN rows } = {}
    BY <1>1 DEF AllOrNothing, UploadsInv
  <2> QED BY <1>2, <2>1 DEF AllOrNothing
<1>8. OwnLiveCategory'
  BY DEF OwnLiveCategory
<1>9. NumberingNeverCollides'
  BY <1>2 DEF NumberingNeverCollides
<1> QED BY <1>3, <1>4, <1>5, <1>6, <1>7, <1>8, <1>9

(* An upload gives up: the case of every error answer.                      *)
LEMMA UploadAbandoned ==
    ASSUME IInv, NEW u \in Uploads, up[u].pc # "done",
           NEW reply \in UploadAnswers \ {"none", "saved", "numbering"},
           AbandonUpload(u, reply), UNCHANGED <<rows, cats, ed>>
    PROVE  IInv'
<1> DEFINE r == AbandonedUpload(reply)
<1>1. r \in UploadState
  BY EmptyFile DEF AbandonedUpload, NoUpload, UploadState
<1>2. /\ r.ins = {} /\ r.new = {} /\ r.pc = "done" /\ r.answer = reply
      /\ up' = [up EXCEPT ![u] = r]
  BY DEF AbandonedUpload, NoUpload, AbandonUpload
<1> QED
  <2> HIDE DEF r
  <2> QED BY <1>1, <1>2, UploadWithoutRows
(* An upload begins with the rows of its file, or is refused.               *)
LEMMA StartUploadKeepsIInv ==
    ASSUME IInv, NEW u \in Uploads, NEW usr \in Users, NEW a \in Accounts,
           NEW f \in File, StartUpload(u, usr, a, f)
    PROVE  IInv'
<1>1. up[u].pc = "idle" /\ UNCHANGED <<rows, cats, ed>>
  BY DEF StartUpload, OwnAccount
<1>2. CASE Owner[a] # usr
  <2>1. AbandonUpload(u, "not_found")
    BY <1>2 DEF StartUpload, OwnAccount
  <2> QED BY <1>1, <2>1, UploadAbandoned DEF UploadAnswers
<1>3. CASE Owner[a] = usr
  <2> DEFINE r == [up[u] EXCEPT !.pc = "dedup", !.user = usr, !.account = a,
                                !.file = f, !.prior = Answered]
  <2>1. up' = [up EXCEPT ![u] = r]
    BY <1>3, NumberingSound DEF StartUpload, OwnAccount
  <2>2. up[u] \in UploadState /\ up[u].ins = {} /\ up[u].answer = "none"
    BY <1>1 DEF IInv, TypeOK, UploadsInv
  <2>3. r \in UploadState
    BY <2>2 DEF UploadState, Answered, Requests
  <2>4. /\ r.ins = {} /\ r.pc = "dedup" /\ r.account = a
        /\ r.answer = "none"
    BY <2>2 DEF UploadState
  <2> HIDE DEF r
  <2> QED BY <1>1, <2>1, <2>3, <2>4, UploadWithoutRows
<1> QED BY <1>2, <1>3

(* What is selected as new is in no committed row at that moment.           *)
LEMMA SelectExistingKeepsIInv ==
    ASSUME IInv, NEW u \in Uploads, SelectExisting(u)
    PROVE  IInv'
<1> DEFINE absent == { i \in DOMAIN up[u].file :
                 \A id \in DOMAIN rows : RowKey(rows[id]) # IdentityKey(u, i) }
           r == [up[u] EXCEPT !.pc = "insert", !.new = absent]
<1>1. /\ up[u].pc = "dedup" /\ up' = [up EXCEPT ![u] = r]
      /\ UNCHANGED <<rows, cats, ed>>
  BY DEF SelectExisting
<1>2. /\ up[u] \in UploadState /\ up[u].ins = {} /\ up[u].answer = "none"
      /\ up[u].account \in Accounts
  BY <1>1 DEF IInv, TypeOK, UploadsInv
<1>3. DOMAIN up[u].file \subseteq 1..MaxRows
  BY <1>2, OccurrenceType DEF UploadState
<1>4. absent \subseteq DOMAIN up[u].file /\ absent \subseteq 1..MaxRows
  BY <1>3
<1> HIDE DEF absent
<1>5. r \in UploadState
  BY <1>2, <1>4 DEF UploadState
<1>6. /\ r.ins = {} /\ r.pc = "insert" /\ r.account = up[u].account
      /\ r.answer = "none" /\ r.new = absent /\ r.file = up[u].file
  BY <1>2 DEF UploadState
<1> HIDE DEF r
<1> QED BY <1>1, <1>2, <1>4, <1>5, <1>6, UploadWithoutRows

(* A row goes in only when neither the table nor any upload has its key.    *)
LEMMA InsertRowKeepsIInv ==
    ASSUME IInv, NEW u \in Uploads, InsertRow(u)
    PROVE  IInv'
<1> USE DEF IInv
<1>1. PICK i \in 1..MaxRows : /\ IsNext(u, i)
                              /\ Rounded[up[u].file[i].facts] # None
                              /\ up' = [up EXCEPT ![u].ins = @ \cup {i}]
  BY DEF InsertRow
<1>2. ~Blocked(u) /\ ~Taken(u) /\ UNCHANGED <<rows, cats, ed>>
  BY DEF InsertRow
<1>3. up \in [Uploads -> UploadState]
  BY DEF TypeOK
<1>4. /\ up'[u] = [up[u] EXCEPT !.ins = @ \cup {i}]
      /\ \A v \in Uploads \ {u} : up'[v] = up[v]
  BY <1>1, <1>3
<1>5. /\ up[u].pc = "insert" /\ i \in up[u].new
      /\ up'[u].pc = "insert" /\ up'[u].ins = up[u].ins \cup {i}
      /\ up'[u].new = up[u].new /\ up'[u].file = up[u].file
      /\ up'[u].account = up[u].account /\ up'[u].answer = up[u].answer
  BY <1>1, <1>3, <1>4 DEF IsNext, UploadState
<1>6. StoredKey(u, i) \in Needs(u)
  BY <1>1, <1>5 DEF Needs
<1>7. \A x \in DOMAIN rows : RowKey(rows[x]) # StoredKey(u, i)
  BY <1>2, <1>6, ConstantsAssumption DEF Taken, ConstantsAssumption
<1>8. \A v \in Uploads : \A j \in up[v].ins : StoredKey(v, j) # StoredKey(u, i)
  <2>1. \A v \in Uploads : Holds(v) = { StoredKey(v, j) : j \in up[v].ins }
    BY DEF Holds
  <2>2. \A v \in Uploads \ {u} : Needs(u) \cap Holds(v) = {}
    BY <1>2 DEF Blocked, WaitsFor, Requests
  <2>3. Needs(u) \cap Holds(u) = {}
    BY <1>2 DEF Taken
  <2> QED BY <1>6, <2>1, <2>2, <2>3
<1>9. TypeOK'
  <2>1. up'[u] \in UploadState
    BY <1>3, <1>4, <1>5 DEF UploadState
  <2> QED BY <1>1, <1>2, <1>3, <2>1, <1>4 DEF TypeOK
<1>10. UploadsInv'
  BY <1>1, <1>2, <1>4, <1>5 DEF UploadsInv
<1>11. EditsInv' /\ OwnLiveCategory' /\ NumberingNeverCollides'
  BY <1>2, <1>4, <1>5 DEF EditsInv, OwnLiveCategory, NumberingNeverCollides
<1>12. NoTwoRowsAlike'
  <2>1. \A v \in Uploads : \A j \in 1..MaxRows : StoredKey(v, j)' = StoredKey(v, j)
    BY <1>4, <1>5 DEF StoredKey, IdentityKey
  <2>2. \A v \in Uploads : up'[v].ins \subseteq 1..MaxRows
    BY <1>9 DEF TypeOK, UploadState
  <2>3. \A v \in Uploads : \A j \in up'[v].ins :
            j \in up[v].ins \/ (v = u /\ j = i)
    BY <1>4, <1>5
  <2>4. \A x, y \in DOMAIN rows : x # y => RowKey(rows[x]) # RowKey(rows[y])
    BY DEF NoTwoRowsAlike
  <2>5. ASSUME NEW v \in Uploads, NEW j \in up'[v].ins
        PROVE  \A x \in DOMAIN rows : RowKey(rows[x]) # StoredKey(v, j)
    BY <1>7, <2>3 DEF NoTwoRowsAlike
  <2>6. ASSUME NEW v \in Uploads, NEW j \in up'[v].ins,
               NEW w \in Uploads, NEW k \in up'[w].ins, <<v, j>> # <<w, k>>
        PROVE  StoredKey(v, j) # StoredKey(w, k)
    BY <1>8, <2>3, <2>6 DEF NoTwoRowsAlike
  <2> QED BY <1>2, <2>1, <2>2, <2>4, <2>5, <2>6 DEF NoTwoRowsAlike
<1>13. AllOrNothing'
  BY <1>2, <1>4, <1>5 DEF AllOrNothing
<1> QED BY <1>9, <1>10, <1>11, <1>12, <1>13
(* COMMIT turns the rows an upload inserted into rows of the table.         *)
LEMMA CommitUploadKeepsIInv ==
    ASSUME IInv, NEW u \in Uploads, CommitUpload(u)
    PROVE  IInv'
<1> USE DEF IInv
<1>1. PICK reply \in {"saved", "unreachable"} :
        up' = [up EXCEPT ![u] = [@ EXCEPT !.pc = "done", !.answer = reply,
                                          !.ins = {}, !.prior = {}]]
  BY DEF CommitUpload
<1>2. /\ up[u].pc = "insert" /\ up[u].ins = up[u].new
      /\ UNCHANGED <<cats, ed>>
      /\ rows' = [id \in DOMAIN rows \cup ({u} \X up[u].new) |->
                    IF id \in DOMAIN rows THEN rows[id] ELSE NewRow(u, id[2])]
  BY DEF CommitUpload
<1>3. up \in [Uploads -> UploadState] /\ up[u] \in UploadState
  BY DEF TypeOK
<1>4. /\ \A v \in Uploads \ {u} : up'[v] = up[v]
      /\ up'[u].pc = "done" /\ up'[u].answer = reply /\ up'[u].ins = {}
      /\ up'[u].new = up[u].new /\ up'[u].file = up[u].file
      /\ up'[u] \in UploadState
  BY <1>1, <1>3 DEF UploadState, UploadAnswers
<1>5. /\ up[u].account \in Accounts /\ up[u].answer = "none"
      /\ up[u].new \subseteq DOMAIN up[u].file
      /\ up[u].new \subseteq 1..MaxRows
      /\ \A i \in up[u].new : Rounded[up[u].file[i].facts] # None
  BY <1>2, <1>3 DEF UploadsInv, UploadState
<1>6. \A i \in 1..MaxRows : <<u, i>> \notin DOMAIN rows
  BY <1>5 DEF AllOrNothing
<1>7. /\ DOMAIN rows' = DOMAIN rows \cup { <<u, i>> : i \in up[u].new }
      /\ \A x \in DOMAIN rows : rows'[x] = rows[x]
      /\ \A i \in up[u].new : rows'[<<u, i>>] = NewRow(u, i)
  BY <1>2, <1>5, <1>6
<1>8. ASSUME NEW i \in up[u].new
      PROVE  /\ NewRow(u, i) \in Row /\ NewRow(u, i).category = None
             /\ RowKey(NewRow(u, i)) = StoredKey(u, i)
  <2>1. /\ up[u].file \in File /\ i \in DOMAIN up[u].file
        /\ up[u].file[i] \in Line
        /\ Occurrence(up[u].file, i) \in 0..(MaxRows - 1)
    BY <1>3, <1>5, OccurrenceType DEF UploadState
  <2>2. Rounded[up[u].file[i].facts] \in Facts
    BY <1>5, <2>1, ConstantsAssumption DEF ConstantsAssumption, Line
  <2>3. NewRow(u, i) \in Row /\ NewRow(u, i).category = None
    BY <1>5, <2>1, <2>2 DEF NewRow, Row, Line
  <2>4. RowKey(NewRow(u, i)) = StoredKey(u, i)
    BY DEF NewRow, RowKey, StoredKey, IdentityKey, FileKey
  <2> QED BY <2>3, <2>4
<1>9. TypeOK'
  <2>1. DOMAIN rows' \subseteq Ids
    BY <1>5, <1>7 DEF TypeOK, Ids
  <2>2. \A x \in DOMAIN rows' : rows'[x] \in Row
    BY <1>7, <1>8 DEF TypeOK
  <2>3. up' \in [Uploads -> UploadState]
    BY <1>1, <1>3, <1>4
  <2> QED BY <1>2, <2>1, <2>2, <2>3 DEF TypeOK
<1>10. UploadsInv' /\ NumberingNeverCollides'
  BY <1>4 DEF UploadsInv, NumberingNeverCollides
<1>11. EditsInv'
  BY <1>2, <1>7 DEF EditsInv
<1>12. OwnLiveCategory'
  BY <1>2, <1>7, <1>8 DEF OwnLiveCategory
<1>13. AllOrNothing'
  <2>1. \A v \in Uploads \ {u} : \A i \in 1..MaxRows :
            <<v, i>> \in DOMAIN rows' <=> <<v, i>> \in DOMAIN rows
    BY <1>7
  <2>2. \A i \in 1..MaxRows : <<u, i>> \in DOMAIN rows' <=> i \in up[u].new
    BY <1>6, <1>7
  <2>3. { i \in 1..MaxRows : <<u, i>> \in DOMAIN rows' } = up[u].new
    BY <1>5, <2>2
  <2>4. \A v \in Uploads \ {u} :
            { i \in 1..MaxRows : <<v, i>> \in DOMAIN rows' }
              = { i \in 1..MaxRows : <<v, i>> \in DOMAIN rows }
    BY <2>1
  <2> QED BY <1>4, <2>3, <2>4 DEF AllOrNothing
<1>14. NoTwoRowsAlike'
  <2>1. \A v \in Uploads : \A j \in up'[v].ins :
            v # u /\ j \in up[v].ins /\ StoredKey(v, j)' = StoredKey(v, j)
    BY <1>4 DEF StoredKey, IdentityKey
  <2>2. \A i \in up[u].new : \A x \in DOMAIN rows :
            RowKey(rows[x]) # RowKey(NewRow(u, i))
    BY <1>2, <1>8 DEF NoTwoRowsAlike
  <2>3. \A i, j \in up[u].new :
            i # j => RowKey(NewRow(u, i)) # RowKey(NewRow(u, j))
    <3>1. \A i, j \in up[u].new : i # j => StoredKey(u, i) # StoredKey(u, j)
      BY <1>2 DEF NoTwoRowsAlike
    <3> QED BY <1>8, <3>1
  <2>4. \A x, y \in DOMAIN rows' : x # y => RowKey(rows'[x]) # RowKey(rows'[y])
    BY <1>7, <2>2, <2>3 DEF NoTwoRowsAlike
  <2>5. \A v \in Uploads : \A j \in up'[v].ins : \A x \in DOMAIN rows' :
            RowKey(rows'[x]) # StoredKey(v, j)
    <3>1. \A v \in Uploads : \A j \in up'[v].ins : \A i \in up[u].new :
              RowKey(NewRow(u, i)) # StoredKey(v, j)
      BY <1>2, <1>8, <2>1 DEF NoTwoRowsAlike
    <3>2. \A v \in Uploads : \A j \in up'[v].ins : \A x \in DOMAIN rows :
              RowKey(rows[x]) # StoredKey(v, j)
      BY <2>1 DEF NoTwoRowsAlike
    <3> QED BY <1>7, <3>1, <3>2
  <2>6. \A v, w \in Uploads : \A j \in up'[v].ins : \A k \in up'[w].ins :
            <<v, j>> # <<w, k>> => StoredKey(v, j) # StoredKey(w, k)
    BY <2>1 DEF NoTwoRowsAlike
  <2>7. \A x \in DOMAIN rows' : RowKey(rows[x])' = RowKey(rows'[x])
    BY DEF RowKey
  <2> QED BY <2>1, <2>4, <2>5, <2>6 DEF NoTwoRowsAlike, RowKey
<1> QED BY <1>9, <1>10, <1>11, <1>12, <1>13, <1>14

(* Only a request in the middle of its statement needs a key.               *)
LEMMA NeedsKeyNow ==
    ASSUME IInv
    PROVE  /\ \A u \in Uploads : Needs(u) # {} => up[u].pc = "insert"
           /\ \A e \in Edits : Needs(e) # {} => ed[e].pc = "write"
BY ConstantsAssumption DEF Needs, IsNext, ConstantsAssumption

(* An upload that fails leaves no row behind.                               *)
LEMMA UploadFailureKeepsIInv ==
    ASSUME IInv, NEW u \in Uploads,
           \/ InsertConflict(u) \/ InsertRefused(u)
           \/ UploadDisconnected(u) \/ UploadDeadlock(u)
    PROVE  IInv'
<1>1. CASE InsertConflict(u)
  <2>1. Needs(u) # {}
    BY <1>1, ConstantsAssumption DEF InsertConflict, Taken, ConstantsAssumption
  <2> QED BY <1>1, <2>1, NeedsKeyNow, UploadAbandoned DEF InsertConflict, UploadAnswers
<1>2. CASE InsertRefused(u)
  BY <1>2, UploadAbandoned DEF InsertRefused, IsNext, UploadAnswers
<1>3. CASE UploadDisconnected(u)
  BY <1>3, UploadAbandoned DEF UploadDisconnected, UploadAnswers
<1>4. CASE UploadDeadlock(u)
  <2>1. Needs(u) # {}
    BY <1>4 DEF UploadDeadlock, InRing, WaitsFor
  <2> QED BY <1>4, <2>1, NeedsKeyNow, UploadAbandoned DEF UploadDeadlock, UploadAnswers
<1> QED BY <1>1, <1>2, <1>3, <1>4
-----------------------------------------------------------------------------
(* Steps of edits and of the environment.                                   *)

(* An edit moves on, or ends, without writing the row.                      *)
LEMMA EditWithoutWrite ==
    ASSUME IInv, NEW e \in Edits, NEW r \in EditState,
           ed' = [ed EXCEPT ![e] = r], UNCHANGED <<rows, cats, up>>,
           r.pc \in {"category", "lock", "write", "refresh"} =>
              r.id \in DOMAIN rows /\ r.user = Owner[rows[r.id].account],
           r.pc \in {"lock", "write"} /\ r.payload.category # None =>
              CategoryOwner[r.payload.category] = r.user
    PROVE  IInv'
<1> USE DEF IInv
<1>1. ed \in [Edits -> EditState]
  BY DEF TypeOK
<1>2. ed'[e] = r /\ \A d \in Edits \ {e} : ed'[d] = ed[d]
  BY <1>1
<1>3. TypeOK'
  BY <1>1 DEF TypeOK
<1>4. EditsInv'
  BY <1>2 DEF EditsInv
<1>5. UploadsInv' /\ AllOrNothing' /\ OwnLiveCategory' /\ NumberingNeverCollides'
  BY DEF UploadsInv, AllOrNothing, OwnLiveCategory, NumberingNeverCollides
<1>6. NoTwoRowsAlike'
  <2>1. \A u \in Uploads : \A i : StoredKey(u, i)' = StoredKey(u, i)
    BY DEF StoredKey, IdentityKey
  <2> QED BY <2>1 DEF NoTwoRowsAlike
<1> QED BY <1>3, <1>4, <1>5, <1>6

(* An edit that is answered without a write.                                *)
LEMMA EditFinished ==
    ASSUME IInv, NEW e \in Edits, NEW reply \in EditAnswers,
           FinishEdit(e, reply), UNCHANGED <<rows, cats, up>>
    PROVE  IInv'
<1> DEFINE r == AnsweredEdit(reply)
<1>1. r \in EditState /\ r.pc = "done"
  BY DEF AnsweredEdit, NoEdit, NoFields, EditState, Payload
<1>2. ed' = [ed EXCEPT ![e] = r]
  BY DEF FinishEdit
<1> HIDE DEF r
<1> QED BY <1>1, <1>2, EditWithoutWrite

(* An edit begins with a row of the caller's, or is refused.                *)
LEMMA StartEditKeepsIInv ==
    ASSUME IInv, NEW e \in Edits, NEW usr \in Users, NEW id \in Ids,
           NEW p \in Payload, StartEdit(e, usr, id, p)
    PROVE  IInv'
<1>1. ed[e].pc = "idle" /\ UNCHANGED <<rows, cats, up>>
  BY DEF StartEdit
<1>2. CASE \E reply \in {"not_found", "unchanged"} : FinishEdit(e, reply)
  BY <1>1, <1>2, EditFinished DEF EditAnswers
<1>3. CASE /\ id \in DOMAIN rows /\ Owner[rows[id].account] = usr
           /\ p # NoFields
  <2> DEFINE r == [ed[e] EXCEPT
                     !.pc = IF p.category # None THEN "category" ELSE "lock",
                     !.user = usr, !.id = id, !.payload = p,
                     !.old = [merchant |-> rows[id].merchant,
                              category |-> rows[id].category]]
  <2>1. ed' = [ed EXCEPT ![e] = r]
    BY <1>3 DEF StartEdit
  <2>2. ed[e] \in EditState /\ rows[id] \in Row
    BY <1>3 DEF IInv, TypeOK
  <2>3. r \in EditState
    BY <2>2 DEF EditState, Row
  <2>4. /\ r.id = id /\ r.user = usr /\ r.payload = p
        /\ r.pc = (IF p.category # None THEN "category" ELSE "lock")
    BY <2>2 DEF EditState
  <2> HIDE DEF r
  <2> QED BY <1>1, <1>3, <2>1, <2>3, <2>4, EditWithoutWrite
<1> QED BY <1>2, <1>3, Zenon DEF StartEdit

(* Past the category check an edit carries a category of the caller's.      *)
LEMMA CheckCategoryKeepsIInv ==
    ASSUME IInv, NEW e \in Edits, CheckCategory(e)
    PROVE  IInv'
<1>1. ed[e].pc = "category" /\ UNCHANGED <<rows, cats, up>>
  BY DEF CheckCategory, OwnCategory
<1> DEFINE own == /\ ed[e].payload.category \in cats
                  /\ CategoryOwner[ed[e].payload.category] = ed[e].user
<1>2. CASE ~own
  <2>1. FinishEdit(e, "no_category")
    BY <1>2 DEF CheckCategory, OwnCategory
  <2> QED BY <1>1, <2>1, EditFinished DEF EditAnswers
<1>3. CASE own
  <2> DEFINE r == [ed[e] EXCEPT !.pc = "lock"]
  <2>1. ed[e] \in EditState /\ ed \in [Edits -> EditState]
    BY DEF IInv, TypeOK
  <2>2. r \in EditState /\ ed' = [ed EXCEPT ![e] = r]
    BY <1>3, <2>1 DEF EditState, CheckCategory, OwnCategory
  <2>3. r.pc = "lock" /\ r.id = ed[e].id /\ r.user = ed[e].user
        /\ r.payload = ed[e].payload
    BY <2>1 DEF EditState
  <2>4. ed[e].id \in DOMAIN rows /\ ed[e].user = Owner[rows[ed[e].id].account]
    BY <1>1 DEF IInv, EditsInv
  <2> HIDE DEF r
  <2> QED BY <1>1, <1>3, <2>2, <2>3, <2>4, EditWithoutWrite
<1> QED BY <1>2, <1>3

(* Locking a row changes nothing that is stored.                            *)
LEMMA LockRowKeepsIInv ==
    ASSUME IInv, NEW e \in Edits, LockRow(e)
    PROVE  IInv'
<1> DEFINE r == [ed[e] EXCEPT
                   !.pc = IF Changed(e) = {} THEN "refresh" ELSE "write"]
<1>1. ed[e].pc = "lock" /\ UNCHANGED <<rows, cats, up>>
  BY DEF LockRow
<1>2. ed[e] \in EditState /\ ed \in [Edits -> EditState]
  BY DEF IInv, TypeOK
<1>3. r \in EditState /\ ed' = [ed EXCEPT ![e] = r]
  BY <1>2 DEF EditState, LockRow
<1>4. r.pc \in {"refresh", "write"} /\ r.id = ed[e].id /\ r.user = ed[e].user
      /\ r.payload = ed[e].payload
  BY <1>2 DEF EditState
<1>5. /\ ed[e].id \in DOMAIN rows /\ ed[e].user = Owner[rows[ed[e].id].account]
      /\ ed[e].payload.category # None =>
            CategoryOwner[ed[e].payload.category] = ed[e].user
  BY <1>1 DEF IInv, EditsInv
<1> HIDE DEF r
<1> QED BY <1>1, <1>3, <1>4, <1>5, EditWithoutWrite
(* An UPDATE moves its row to a key that nobody else has, and to a category *)
(* that still exists.                                                       *)
LEMMA WriteRowKeepsIInv ==
    ASSUME IInv, NEW e \in Edits, WriteRow(e)
    PROVE  IInv'
<1> USE DEF IInv
<1>1. ed[e].pc = "write" /\ ~Blocked(e) /\ UNCHANGED <<cats, up>>
  BY DEF WriteRow
<1>2. CASE Taken(e)
  <2>1. FinishEdit(e, "duplicate") /\ UNCHANGED rows
    BY <1>2 DEF WriteRow
  <2> QED BY <1>1, <2>1, EditFinished DEF EditAnswers
<1> DEFINE gone == "category" \in Changed(e) /\ ed[e].payload.category \notin cats
           id   == ed[e].id
<1>3. CASE ~Taken(e) /\ gone
  <2>1. FinishEdit(e, "no_category") /\ UNCHANGED rows
    BY <1>3 DEF WriteRow
  <2> QED BY <1>1, <2>1, EditFinished DEF EditAnswers
<1>4. CASE ~Taken(e) /\ ~gone
  <2>1. /\ rows' = [rows EXCEPT ![id] = EditedRow(e)]
        /\ ed' = [ed EXCEPT ![e].pc = "refresh"]
    BY <1>4 DEF WriteRow
  <2>2. /\ id \in DOMAIN rows /\ ed[e].user = Owner[rows[id].account]
        /\ ed[e].payload.category # None =>
              CategoryOwner[ed[e].payload.category] = ed[e].user
    BY <1>1 DEF EditsInv
  <2>3. /\ ed[e] \in EditState /\ ed \in [Edits -> EditState]
        /\ rows[id] \in Row
        /\ ed[e].payload.merchant \in Merchants \cup {None}
        /\ ed[e].payload.category \in Categories \cup {None}
    BY <2>2, ConstantsAssumption
       DEF TypeOK, EditState, Payload, ConstantsAssumption
  <2>4. /\ DOMAIN rows' = DOMAIN rows
        /\ rows'[id] = EditedRow(e)
        /\ \A x \in DOMAIN rows \ {id} : rows'[x] = rows[x]
    BY <2>1, <2>2
  <2>5. /\ EditedRow(e) \in Row
        /\ EditedRow(e).account = rows[id].account
        /\ "category" \in Changed(e) =>
              /\ EditedRow(e).category = ed[e].payload.category
              /\ ed[e].payload.category # None
        /\ "category" \notin Changed(e) =>
              EditedRow(e).category = rows[id].category
        /\ "merchant" \notin Changed(e) =>
              RowKey(EditedRow(e)) = RowKey(rows[id])
    BY <2>3 DEF EditedRow, Row, Changed, RowKey
  <2>6. TypeOK'
    <3>1. ed' \in [Edits -> EditState]
      BY <2>1, <2>3 DEF EditState
    <3> QED BY <1>1, <2>4, <2>5, <3>1 DEF TypeOK
  <2>7. /\ ed'[e].pc = "refresh" /\ ed'[e].id = id /\ ed'[e].user = ed[e].user
        /\ \A d \in Edits \ {e} : ed'[d] = ed[d]
    BY <2>1, <2>3 DEF EditState
  <2>8. EditsInv'
    <3>1. \A x \in DOMAIN rows : rows'[x].account = rows[x].account
      BY <2>4, <2>5
    <3> QED BY <2>2, <2>4, <2>7, <3>1 DEF EditsInv
  <2>9. UploadsInv' /\ AllOrNothing' /\ NumberingNeverCollides'
    BY <1>1, <2>4 DEF UploadsInv, AllOrNothing, NumberingNeverCollides
  <2>10. OwnLiveCategory'
    <3>1. ASSUME NEW x \in DOMAIN rows, rows'[x].category # None
          PROVE  /\ rows'[x].category \in cats
                 /\ CategoryOwner[rows'[x].category] = Owner[rows'[x].account]
      BY <1>4, <2>2, <2>4, <2>5, <3>1 DEF OwnLiveCategory
    <3> QED BY <1>1, <2>4, <3>1 DEF OwnLiveCategory
  <2>11. NoTwoRowsAlike'
    <3>1. \A u \in Uploads : \A i : StoredKey(u, i)' = StoredKey(u, i)
      BY <1>1 DEF StoredKey, IdentityKey
    <3>2. CASE "merchant" \notin Changed(e)
      <4>1. \A x \in DOMAIN rows : RowKey(rows'[x]) = RowKey(rows[x])
        BY <2>4, <2>5, <3>2
      <4>2. \A x \in DOMAIN rows' : RowKey(rows[x])' = RowKey(rows[x])
        BY <2>4, <4>1 DEF RowKey
      <4> QED BY <1>1, <2>4, <3>1, <4>2 DEF NoTwoRowsAlike
    <3>3. CASE "merchant" \in Changed(e)
      <4>1. RowKey(EditedRow(e)) \in Needs(e)
        BY <1>1, <2>2, <3>3, ConstantsAssumption DEF Needs, ConstantsAssumption
      <4>2. \A x \in DOMAIN rows \ {id} : RowKey(rows[x]) # RowKey(EditedRow(e))
        BY <1>4, <4>1 DEF Taken
      <4>3. \A u \in Uploads : \A i \in up[u].ins :
                StoredKey(u, i) # RowKey(EditedRow(e))
        <5>1. \A u \in Uploads : u # e /\ Needs(e) \cap Holds(u) = {}
          BY <1>1, ConstantsAssumption
             DEF Blocked, WaitsFor, Requests, ConstantsAssumption
        <5>2. \A u \in Uploads : Holds(u) = { StoredKey(u, i) : i \in up[u].ins }
          BY DEF Holds
        <5> QED BY <4>1, <5>1, <5>2
      <4>4. \A x, y \in DOMAIN rows' : x # y => RowKey(rows'[x]) # RowKey(rows'[y])
        BY <2>4, <4>2 DEF NoTwoRowsAlike
      <4>5. \A u \in Uploads : \A i \in up[u].ins : \A x \in DOMAIN rows' :
                RowKey(rows'[x]) # StoredKey(u, i)
        BY <2>4, <4>3 DEF NoTwoRowsAlike
      <4>6. \A x : RowKey(rows[x])' = RowKey(rows'[x])
        BY DEF RowKey
      <4> QED BY <1>1, <3>1, <4>4, <4>5, <4>6 DEF NoTwoRowsAlike
    <3> QED BY <3>2, <3>3
  <2> QED BY <2>6, <2>8, <2>9, <2>10, <2>11
<1> QED BY <1>2, <1>3, <1>4

(* Every statement of an edit, and its failure.                             *)
LEMMA EditStepKeepsIInv ==
    ASSUME IInv, NEW e \in Edits, EditStep(e) \/ EditDisconnected(e)
    PROVE  IInv'
<1>1. CASE CheckCategory(e)
  BY <1>1, CheckCategoryKeepsIInv
<1>2. CASE LockRow(e)
  BY <1>2, LockRowKeepsIInv
<1>3. CASE WriteRow(e)
  BY <1>3, WriteRowKeepsIInv
<1>4. CASE RefreshRow(e)
  BY <1>4, EditFinished DEF RefreshRow, EditAnswers
<1>5. CASE EditDeadlock(e)
  BY <1>5, EditFinished DEF EditDeadlock, EditAnswers
<1>6. CASE EditDisconnected(e)
  BY <1>6, EditFinished DEF EditDisconnected, EditAnswers
<1> QED BY <1>1, <1>2, <1>3, <1>4, <1>5, <1>6 DEF EditStep

(* The foreign key refuses to delete a category some row carries.           *)
LEMMA DeleteCategoryKeepsIInv ==
    ASSUME IInv, NEW c \in Categories, DeleteCategory(c)
    PROVE  IInv'
<1> USE DEF IInv, DeleteCategory
<1>1. TypeOK' /\ UploadsInv' /\ EditsInv' /\ AllOrNothing' /\ NumberingNeverCollides'
  BY DEF TypeOK, UploadsInv, EditsInv, AllOrNothing, NumberingNeverCollides
<1>2. OwnLiveCategory'
  BY DEF OwnLiveCategory
<1>3. NoTwoRowsAlike'
  <2>1. \A u \in Uploads : \A i : StoredKey(u, i)' = StoredKey(u, i)
    BY DEF StoredKey, IdentityKey
  <2> QED BY <2>1 DEF NoTwoRowsAlike
<1> QED BY <1>1, <1>2, <1>3

(* A crash drops every uncommitted row and touches no committed one.        *)
LEMMA CrashKeepsIInv ==
    ASSUME IInv, Crash
    PROVE  IInv'
<1> USE DEF IInv
<1>1. UNCHANGED <<rows, cats>>
  BY DEF Crash
<1>2. AbandonedUpload("lost") \in UploadState /\ AnsweredEdit("lost") \in EditState
  BY EmptyFile DEF AbandonedUpload, NoUpload, UploadState, UploadAnswers,
     AnsweredEdit, NoEdit, NoFields, EditState, EditAnswers, Payload
<1>3. \A u \in Uploads :
        \/ up[u].pc # "insert" /\ up'[u] = up[u]
        \/ /\ up[u].answer = "none" /\ up'[u].pc = "done"
           /\ up'[u].ins = {} /\ up'[u].answer = "lost"
  BY DEF Crash, AbandonedUpload, NoUpload, UploadsInv
<1>4. \A e \in Edits : ed'[e] = ed[e] \/ ed'[e].pc = "done"
  BY DEF Crash, AnsweredEdit, NoEdit
<1>5. TypeOK'
  <2>1. up' \in [Uploads -> UploadState]
    BY <1>2 DEF Crash, TypeOK
  <2>2. ed' \in [Edits -> EditState]
    BY <1>2 DEF Crash, TypeOK
  <2> QED BY <1>1, <2>1, <2>2 DEF TypeOK
<1>6. UploadsInv' /\ NumberingNeverCollides'
  BY <1>3 DEF UploadsInv, NumberingNeverCollides
<1>7. EditsInv' /\ OwnLiveCategory'
  BY <1>1, <1>4 DEF EditsInv, OwnLiveCategory
<1>8. \A u \in Uploads : up'[u].ins = {}
  BY <1>3 DEF UploadsInv
<1>9. NoTwoRowsAlike'
  BY <1>1, <1>8 DEF NoTwoRowsAlike, RowKey
<1>10. AllOrNothing'
  BY <1>1, <1>3 DEF AllOrNothing
<1> QED BY <1>5, <1>6, <1>7, <1>9, <1>10
-----------------------------------------------------------------------------
(* The theorems.                                                            *)

(* The invariant is inductive.                                              *)
LEMMA NextKeepsIInv == IInv /\ [Next]_vars => IInv'
<1> SUFFICES ASSUME IInv, [Next]_vars PROVE IInv'
  OBVIOUS
<1>1. ASSUME NEW u \in Uploads, NEW usr \in Users, NEW a \in Accounts,
             NEW f \in File, StartUpload(u, usr, a, f)
      PROVE  IInv'
  BY <1>1, StartUploadKeepsIInv
<1>2. ASSUME NEW u \in Uploads, UploadStep(u) \/ UploadDisconnected(u)
      PROVE  IInv'
  <2>1. CASE SelectExisting(u)
    BY <2>1, SelectExistingKeepsIInv
  <2>2. CASE InsertRow(u)
    BY <2>2, InsertRowKeepsIInv
  <2>3. CASE CommitUpload(u)
    BY <2>3, CommitUploadKeepsIInv
  <2>4. CASE \/ InsertConflict(u) \/ InsertRefused(u)
             \/ UploadDisconnected(u) \/ UploadDeadlock(u)
    BY <2>4, UploadFailureKeepsIInv
  <2> QED BY <1>2, <2>1, <2>2, <2>3, <2>4 DEF UploadStep
<1>3. ASSUME NEW e \in Edits, NEW usr \in Users, NEW id \in Ids,
             NEW p \in Payload, StartEdit(e, usr, id, p)
      PROVE  IInv'
  BY <1>3, StartEditKeepsIInv
<1>4. ASSUME NEW e \in Edits, EditStep(e) \/ EditDisconnected(e)
      PROVE  IInv'
  BY <1>4, EditStepKeepsIInv
<1>5. ASSUME NEW c \in Categories, DeleteCategory(c)
      PROVE  IInv'
  BY <1>5, DeleteCategoryKeepsIInv
<1>6. CASE Crash
  BY <1>6, CrashKeepsIInv
<1>7. CASE UNCHANGED vars
  <2>1. \A u \in Uploads : \A i : StoredKey(u, i)' = StoredKey(u, i)
    BY <1>7 DEF vars, StoredKey, IdentityKey
  <2>2. NoTwoRowsAlike'
    BY <1>7, <2>1 DEF vars, IInv, NoTwoRowsAlike
  <2> QED BY <1>7, <2>2 DEF vars, IInv, TypeOK, UploadsInv, EditsInv,
             AllOrNothing, OwnLiveCategory, NumberingNeverCollides
<1> QED BY <1>1, <1>2, <1>3, <1>4, <1>5, <1>6, <1>7 DEF Next, AllAnswered

(* In every reachable state all parts of the inductive invariant hold.      *)
THEOREM InductiveInvariant == Spec => []IInv
BY InitIInv, NextKeepsIInv, PTL DEF Spec

(* Every state of the ledger is well-formed, whatever the constants.        *)
THEOREM TypeCorrect == Spec => []TypeOK
<1>1. IInv => TypeOK
  BY DEF IInv
<1> QED BY <1>1, InductiveInvariant, PTL

(* Waiting on the unique index is enough to keep committed and in-flight    *)
(* rows apart: models/transaction.py:66-75 holds at every instant.          *)
THEOREM RowsStayApart == Spec => []NoTwoRowsAlike
<1>1. IInv => NoTwoRowsAlike
  BY DEF IInv
<1> QED BY <1>1, InductiveInvariant, PTL

(* An upload is saved as a whole or not at all                              *)
(* (transaction_service.py:256-264).                                        *)
THEOREM UploadsAreAtomic == Spec => []AllOrNothing
<1>1. IInv => AllOrNothing
  BY DEF IInv
<1> QED BY <1>1, InductiveInvariant, PTL

(* The check of a category in one statement and the foreign key in another  *)
(* together keep foreign and deleted categories out                         *)
(* (transaction_service.py:139-164, category_service.py:19-24).             *)
THEOREM CategoriesStayOwn == Spec => []OwnLiveCategory
<1>1. IInv => OwnLiveCategory
  BY DEF IInv
<1> QED BY <1>1, InductiveInvariant, PTL

(* DuplicateIdentityInBatchError is never raised                            *)
(* (transaction_service.py:213-218).                                        *)
THEOREM BatchesNeverRepeatAKey == Spec => []NumberingNeverCollides
<1>1. IInv => NumberingNeverCollides
  BY DEF IInv
<1> QED BY <1>1, InductiveInvariant, PTL
(* Steps other than an upload's commit and an edit's UPDATE leave the table *)
(* as it is.                                                                *)
LEMMA WhoWritesRows ==
    ASSUME Next
    PROVE  \/ rows' = rows
           \/ \E u \in Uploads : CommitUpload(u)
           \/ \E e \in Edits : WriteRow(e)
BY DEF Next, StartUpload, SelectExisting, InsertRow, InsertConflict, InsertRefused,
   UploadDeadlock, UploadDisconnected, StartEdit, CheckCategory, LockRow, RefreshRow,
   EditDeadlock, EditDisconnected, DeleteCategory, Crash, AllAnswered, vars,
   UploadStep, EditStep

(* An edit's UPDATE is refused, or puts the edited row into the table.      *)
LEMMA UpdateOrNothing ==
    ASSUME IInv, NEW e \in Edits, WriteRow(e)
    PROVE  \/ rows' = rows /\ ed'[e].pc = "done"
           \/ /\ rows' = [rows EXCEPT ![ed[e].id] = EditedRow(e)]
              /\ ed'[e].pc = "refresh"
<1>1. CASE Taken(e)
  BY <1>1 DEF WriteRow, FinishEdit, AnsweredEdit, NoEdit, IInv, TypeOK
<1>2. CASE ~Taken(e) /\ "category" \in Changed(e) /\ ed[e].payload.category \notin cats
  BY <1>2 DEF WriteRow, FinishEdit, AnsweredEdit, NoEdit, IInv, TypeOK
<1>3. CASE ~Taken(e) /\ ~("category" \in Changed(e) /\ ed[e].payload.category \notin cats)
  <2>1. /\ rows' = [rows EXCEPT ![ed[e].id] = EditedRow(e)]
        /\ ed' = [ed EXCEPT ![e].pc = "refresh"]
    BY <1>3 DEF WriteRow
  <2>2. ed[e] \in EditState
    BY DEF IInv, TypeOK
  <2> QED BY <2>1, <2>2 DEF IInv, TypeOK, EditState
<1> QED BY <1>1, <1>2, <1>3

(* No interleaving lets a row vanish, lets the bank's part of it change, or *)
(* lets anybody but its owner change the rest                               *)
(* (transaction_service.py:83-88, 116, 151-155).                            *)
THEOREM OwnersEdit == Spec => OnlyItsOwnerEdits
<1> DEFINE Rightful(x) ==
      /\ x \in DOMAIN rows'
      /\ rows'[x] # rows[x] =>
            /\ [RowKey(rows'[x]) EXCEPT !.merchant = rows[x].merchant] = RowKey(rows[x])
            /\ \E e \in Edits : /\ ed[e].pc = "write" /\ ed'[e].pc = "refresh"
                                /\ ed[e].id = x
                                /\ ed[e].user = Owner[rows[x].account]
<1>1. IInv /\ [Next]_vars => [\A x \in DOMAIN rows : Rightful(x)]_vars
  <2> SUFFICES ASSUME IInv, Next, NEW x \in DOMAIN rows PROVE Rightful(x)
    OBVIOUS
  <2>1. CASE rows' = rows
    BY <2>1
  <2>2. ASSUME NEW u \in Uploads, CommitUpload(u) PROVE Rightful(x)
    BY <2>2 DEF CommitUpload
  <2>3. ASSUME NEW e \in Edits, WriteRow(e), rows' # rows PROVE Rightful(x)
    <3>1. /\ ed[e].pc = "write" /\ ed[e].id \in DOMAIN rows
          /\ ed[e].user = Owner[rows[ed[e].id].account]
      BY <2>3 DEF IInv, EditsInv, WriteRow
    <3>2. rows' = [rows EXCEPT ![ed[e].id] = EditedRow(e)] /\ ed'[e].pc = "refresh"
      BY <2>3, UpdateOrNothing
    <3>3. CASE x # ed[e].id
      BY <3>2, <3>3
    <3>4. CASE x = ed[e].id
      <4>1. rows'[x] = EditedRow(e)
        BY <3>2, <3>4
      <4>2. rows[x] \in Row
        BY DEF IInv, TypeOK
      <4>3. [RowKey(EditedRow(e)) EXCEPT !.merchant = rows[x].merchant] = RowKey(rows[x])
        BY <3>4, <4>2 DEF EditedRow, RowKey, Row
      <4> QED BY <3>1, <3>2, <3>4, <4>1, <4>3
    <3> QED BY <3>3, <3>4
  <2> QED BY <2>1, <2>2, <2>3, WhoWritesRows
<1> QED BY <1>1, InductiveInvariant, PTL DEF Spec, OnlyItsOwnerEdits

(* Overlapping edits of one row each keep what the other set                *)
(* (transaction_service.py:111, 151-155).                                   *)
THEOREM EditsDoNotUndoEachOther == Spec => NoLostEdit
<1> DEFINE Kept(e) ==
      ed'[e].pc = "refresh" /\ ed[e].pc # "refresh" =>
          \A c \in {"merchant", "category"} :
              LET asked == ed[e].payload[c]
                  row   == rows[ed[e].id]
                  row2  == rows'[ed[e].id]
              IN  IF asked = None THEN row2[c] = row[c]
                  ELSE asked \in {row2[c], ed[e].old[c]}
<1>1. IInv /\ [Next]_vars => [\A e \in Edits : Kept(e)]_vars
  <2> SUFFICES ASSUME IInv, Next, NEW e \in Edits,
                      ed'[e].pc = "refresh", ed[e].pc # "refresh"
               PROVE  Kept(e)
    OBVIOUS
  <2>1. LockRow(e) \/ WriteRow(e)
    <3>1. ASSUME NEW d \in Edits, d # e,
                 \/ \E usr \in Users, id \in Ids, p \in Payload : StartEdit(d, usr, id, p)
                 \/ EditStep(d) \/ EditDisconnected(d)
          PROVE  ed'[e] = ed[e]
      BY <3>1 DEF IInv, TypeOK, StartEdit, EditStep, CheckCategory, LockRow, WriteRow,
         RefreshRow, EditDeadlock, EditDisconnected, FinishEdit
    <3>2. ASSUME \/ \E usr \in Users, id \in Ids, p \in Payload : StartEdit(e, usr, id, p)
                 \/ CheckCategory(e) \/ RefreshRow(e) \/ EditDeadlock(e)
                 \/ EditDisconnected(e)
          PROVE  FALSE
      <4>1. ed[e] \in EditState /\ DOMAIN ed = Edits
        BY DEF IInv, TypeOK
      <4>2. CASE \E reply \in EditAnswers : FinishEdit(e, reply)
        BY <4>1, <4>2 DEF FinishEdit, AnsweredEdit, NoEdit
      <4>3. CASE ed' = [ed EXCEPT ![e].pc = "lock"]
        BY <4>1, <4>3 DEF EditState
      <4>4. ASSUME NEW usr \in Users, NEW id \in Ids, NEW p \in Payload,
                   StartEdit(e, usr, id, p)
            PROVE  FALSE
        <5>1. CASE \E reply \in EditAnswers : FinishEdit(e, reply)
          BY <5>1, <4>2
        <5>2. CASE ~ \E reply \in EditAnswers : FinishEdit(e, reply)
          <6>1. PICK r \in EditState : /\ r.pc \in {"category", "lock"}
                                       /\ ed' = [ed EXCEPT ![e] = r]
            <7> DEFINE r == [ed[e] EXCEPT
                   !.pc = IF p.category # None THEN "category" ELSE "lock",
                   !.user = usr, !.id = id, !.payload = p,
                   !.old = [merchant |-> rows[id].merchant,
                            category |-> rows[id].category]]
            <7>1. id \in DOMAIN rows /\ ed' = [ed EXCEPT ![e] = r]
              BY <4>4, <5>2 DEF StartEdit, EditAnswers
            <7>2. rows[id] \in Row
              BY <7>1 DEF IInv, TypeOK
            <7>3. r \in EditState /\ r.pc \in {"category", "lock"}
              BY <4>1, <7>2 DEF EditState, Row
            <7> QED BY <7>1, <7>3
          <6> QED BY <4>1, <6>1
        <5> QED BY <5>1, <5>2
      <4>5. \/ \E usr \in Users, id \in Ids, p \in Payload : StartEdit(e, usr, id, p)
            \/ \E reply \in EditAnswers : FinishEdit(e, reply)
            \/ ed' = [ed EXCEPT ![e].pc = "lock"]
        BY <3>2 DEF CheckCategory, RefreshRow, EditDeadlock, EditDisconnected, EditAnswers
      <4> QED BY <4>2, <4>3, <4>4, <4>5
    <3>3. ASSUME ed' = ed \/ Crash PROVE FALSE
      BY <3>3 DEF IInv, TypeOK, Crash, AnsweredEdit, NoEdit
    <3> QED BY <3>1, <3>2, <3>3 DEF Next, EditStep, UploadStep, StartUpload,
            SelectExisting, InsertRow, InsertConflict, InsertRefused, CommitUpload,
            UploadDeadlock, UploadDisconnected, DeleteCategory, AllAnswered, vars
  <2>2. CASE LockRow(e)
    <3>1. rows' = rows /\ Changed(e) = {}
      BY <2>2 DEF LockRow, IInv, TypeOK
    <3> QED BY <3>1 DEF Changed
  <2>3. CASE WriteRow(e)
    <3>1. rows' = [rows EXCEPT ![ed[e].id] = EditedRow(e)]
      BY <2>3, UpdateOrNothing
    <3>2. ed[e].id \in DOMAIN rows /\ rows[ed[e].id] \in Row
      BY <2>3 DEF WriteRow, IInv, EditsInv, TypeOK
    <3>3. rows'[ed[e].id] = EditedRow(e)
      BY <3>1, <3>2
    <3>4. /\ EditedRow(e).merchant = IF "merchant" \in Changed(e)
                THEN ed[e].payload.merchant ELSE rows[ed[e].id].merchant
          /\ EditedRow(e).category = IF "category" \in Changed(e)
                THEN ed[e].payload.category ELSE rows[ed[e].id].category
      BY <3>2 DEF EditedRow, Row
    <3> QED BY <3>3, <3>4 DEF Changed
  <2> QED BY <2>1, <2>2, <2>3
<1> QED BY <1>1, InductiveInvariant, PTL DEF Spec, NoLostEdit
-----------------------------------------------------------------------------
(* A step is about one upload, or about one edit, or it is a crash, or it   *)
(* moves no request.                                                        *)
LEMMA WhoMoves ==
    ASSUME [Next]_vars
    PROVE  \/ /\ \E u \in Uploads :
                    \/ \E usr \in Users, a \in Accounts, f \in File : StartUpload(u, usr, a, f)
                    \/ UploadStep(u) \/ UploadDisconnected(u)
              /\ ed' = ed
           \/ /\ \E e \in Edits :
                    \/ \E usr \in Users, id \in Ids, p \in Payload : StartEdit(e, usr, id, p)
                    \/ EditStep(e) \/ EditDisconnected(e)
              /\ up' = up
           \/ Crash
           \/ up' = up /\ ed' = ed
<1>1. ASSUME NEW u \in Uploads,
             \/ \E usr \in Users, a \in Accounts, f \in File : StartUpload(u, usr, a, f)
             \/ UploadStep(u) \/ UploadDisconnected(u)
      PROVE  ed' = ed
  BY <1>1 DEF StartUpload, UploadStep, SelectExisting, InsertRow, InsertConflict,
     InsertRefused, CommitUpload, UploadDeadlock, UploadDisconnected
<1>2. ASSUME NEW e \in Edits,
             \/ \E usr \in Users, id \in Ids, p \in Payload : StartEdit(e, usr, id, p)
             \/ EditStep(e) \/ EditDisconnected(e)
      PROVE  up' = up
  BY <1>2 DEF StartEdit, EditStep, CheckCategory, LockRow, WriteRow, RefreshRow,
     EditDeadlock, EditDisconnected
<1> QED BY <1>1, <1>2 DEF Next, vars, DeleteCategory, AllAnswered

-----------------------------------------------------------------------------
(* Nobody is stuck for good.                                                *)

(* Of finitely many requests each of which waits for another of them, some  *)
(* are a ring: those of a smallest set of that kind, since one of them that *)
(* nobody in the set waits for could be left out.                           *)
LEMMA WaitersFormARing ==
    ASSUME NEW S, S \subseteq Requests, IsFiniteSet(S), S # {},
           \A t \in S : \E s \in S : WaitsFor(t, s)
    PROVE  \E t \in S : InRing(t)
<1> DEFINE Closed(T) == \A t \in T : \E s \in T : WaitsFor(t, s)
           Waiting == { T \in SUBSET S : T # {} /\ Closed(T) }
           less == StrictSubsetOrdering(S)
<1>1. IsWellFoundedOn(less, SUBSET S)
  BY FS_StrictSubsetOrderingWellFounded, FS_FiniteSubsetsOfFinite
<1>2. Waiting \subseteq SUBSET S /\ Waiting # {}
  BY S \in Waiting
<1>3. PICK ring \in Waiting : \A T \in Waiting : <<T, ring>> \notin less
  <2> HIDE DEF Waiting, less
  <2> QED BY <1>1, <1>2, WFMin
<1>4. ring \subseteq S /\ ring # {} /\ Closed(ring)
  BY DEF Waiting
<1>5. ASSUME NEW t \in ring, \A r \in ring : ~WaitsFor(r, t)
      PROVE  FALSE
  <2> DEFINE rest == ring \ {t}
  <2>1. rest \in SUBSET S /\ Closed(rest)
    BY <1>4, <1>5
  <2>2. rest # {}
    BY <1>4, <1>5
  <2>3. <<rest, ring>> \in less
    BY <1>4, <2>1 DEF StrictSubsetOrdering
  <2> QED BY <1>3, <2>1, <2>2, <2>3
<1>6. \A s \in ring : (\E r \in ring : WaitsFor(s, r)) /\ (\E r \in ring : WaitsFor(r, s))
  BY <1>4, <1>5
<1> QED BY <1>4, <1>6 DEF InRing

(* Only requests in flight hold keys, and none that holds one waits for a   *)
(* row lock.                                                                *)
LEMMA HoldersAreInFlight ==
    ASSUME IInv, NEW t \in Requests, NEW s \in Requests, WaitsFor(t, s)
    PROVE  s \in InFlight /\ ~(s \in Edits /\ RowLocked(s))
<1>1. Holds(s) # {}
  BY DEF WaitsFor
<1>2. CASE s \in Uploads
  <2>1. up[s].ins # {}
    BY <1>1, <1>2 DEF Holds
  <2>2. up[s].pc = "insert"
    BY <1>2, <2>1 DEF IInv, UploadsInv
  <2> QED BY <1>2, <2>2, ConstantsAssumption DEF InFlight, ConstantsAssumption
<1>3. CASE s \in Edits
  <2>1. ed[s].pc = "write"
    BY <1>1, <1>3, ConstantsAssumption DEF Holds, ConstantsAssumption
  <2> QED BY <1>3, <2>1 DEF InFlight, RowLocked
<1> QED BY <1>2, <1>3 DEF Requests

(* If finitely many are in flight, one of them can move.                    *)
LEMMA SomeoneCanMove ==
    ASSUME IInv, IsFiniteSet(InFlight)
    PROVE  SomeoneMoves
<1> SUFFICES ASSUME InFlight # {}, \A t \in InFlight : Stuck(t)
             PROVE  FALSE
  BY DEF SomeoneMoves
<1> DEFINE waiting == { t \in InFlight : Blocked(t) }
<1>1. InFlight \subseteq Requests
  BY DEF InFlight, Requests
<1>2. \A t \in waiting : \E s \in waiting : WaitsFor(t, s)
  <2> SUFFICES ASSUME NEW t \in InFlight, Blocked(t)
               PROVE  \E s \in waiting : WaitsFor(t, s)
    OBVIOUS
  <2>1. PICK s \in Requests : WaitsFor(t, s)
    BY DEF Blocked
  <2>2. s \in InFlight /\ ~(s \in Edits /\ RowLocked(s))
    BY <1>1, <2>1, HoldersAreInFlight
  <2>3. Blocked(s)
    BY <2>2 DEF Stuck, Waits
  <2> QED BY <2>1, <2>2, <2>3
<1>3. waiting # {}
  <2> SUFFICES ASSUME NEW t \in InFlight, ~Blocked(t)
               PROVE  \E d \in InFlight : Blocked(d)
    OBVIOUS
  <2>1. RowLocked(t)
    BY DEF Stuck, Waits
  <2>2. PICK d \in Edits : ed[d].pc = "write"
    BY <2>1 DEF RowLocked
  <2>3. d \in InFlight /\ ~RowLocked(d)
    BY <2>2 DEF InFlight, RowLocked
  <2>4. Blocked(d)
    BY <2>3 DEF Stuck, Waits
  <2> QED BY <2>3, <2>4
<1>4. IsFiniteSet(waiting) /\ waiting \subseteq InFlight
  BY FS_Subset
<1>5. PICK t \in waiting : InRing(t)
  <2> HIDE DEF waiting
  <2> QED BY <1>1, <1>2, <1>3, <1>4, WaitersFormARing
<1> QED BY <1>5 DEF Stuck

(* A step brings at most one more request in flight, so that they are       *)
(* finitely many however many there will ever be.                           *)
LEMMA OneMoreInFlight ==
    ASSUME IInv, [Next]_vars
    PROVE  \E t : InFlight' \subseteq InFlight \cup {t}
<1> DEFINE Others(t) == /\ \A u \in Uploads : u # t => up'[u].pc = up[u].pc \/ up'[u].pc = "done"
                        /\ \A e \in Edits : e # t => ed'[e].pc = ed[e].pc \/ ed'[e].pc = "done"
<1>1. \A t : Others(t) => InFlight' \subseteq InFlight \cup {t}
  BY DEF InFlight
<1>2. up \in [Uploads -> UploadState] /\ ed \in [Edits -> EditState]
  BY DEF IInv, TypeOK
<1>3. ASSUME NEW u \in Uploads, \E r : up' = [up EXCEPT ![u] = r], ed' = ed
      PROVE  Others(u)
  BY <1>2, <1>3
<1>4. ASSUME NEW e \in Edits, \E r : ed' = [ed EXCEPT ![e] = r], up' = up
      PROVE  Others(e)
  BY <1>2, <1>4
<1>5. ASSUME NEW u \in Uploads,
             \/ \E usr \in Users, a \in Accounts, f \in File : StartUpload(u, usr, a, f)
             \/ UploadStep(u) \/ UploadDisconnected(u),
             ed' = ed
      PROVE  \E t : Others(t)
  <2>1. \E r : up' = [up EXCEPT ![u] = r]
    <3>1. CASE \E usr \in Users, a \in Accounts, f \in File : StartUpload(u, usr, a, f)
      BY <3>1 DEF StartUpload, AbandonUpload
    <3>2. CASE SelectExisting(u)
      BY <3>2 DEF SelectExisting
    <3>3. CASE InsertRow(u)
      BY <3>3 DEF InsertRow
    <3>4. CASE InsertConflict(u) \/ InsertRefused(u) \/ UploadDeadlock(u) \/ UploadDisconnected(u)
      BY <3>4 DEF InsertConflict, InsertRefused, UploadDeadlock, UploadDisconnected, AbandonUpload
    <3>5. CASE CommitUpload(u)
      BY <3>5 DEF CommitUpload
    <3> QED BY <1>5, <3>1, <3>2, <3>3, <3>4, <3>5 DEF UploadStep
  <2> QED BY <1>3, <1>5, <2>1
<1>6. ASSUME NEW e \in Edits,
             \/ \E usr \in Users, id \in Ids, p \in Payload : StartEdit(e, usr, id, p)
             \/ EditStep(e) \/ EditDisconnected(e),
             up' = up
      PROVE  \E t : Others(t)
  <2>1. \E r : ed' = [ed EXCEPT ![e] = r]
    <3>1. CASE \E usr \in Users, id \in Ids, p \in Payload : StartEdit(e, usr, id, p)
      BY <3>1 DEF StartEdit, FinishEdit
    <3>2. CASE CheckCategory(e)
      BY <3>2 DEF CheckCategory, FinishEdit
    <3>3. CASE LockRow(e)
      BY <3>3 DEF LockRow
    <3>4. CASE WriteRow(e)
      BY <3>4 DEF WriteRow, FinishEdit
    <3>5. CASE RefreshRow(e) \/ EditDeadlock(e) \/ EditDisconnected(e)
      BY <3>5 DEF RefreshRow, EditDeadlock, EditDisconnected, FinishEdit
    <3> QED BY <1>6, <3>1, <3>2, <3>3, <3>4, <3>5 DEF EditStep
  <2> QED BY <1>4, <1>6, <2>1
<1>7. CASE Crash
  <2>1. Others(0)
    BY <1>2, <1>7 DEF Crash, AbandonedUpload, NoUpload, AnsweredEdit, NoEdit
  <2> QED BY <1>1, <2>1
<1>8. CASE up' = up /\ ed' = ed
  BY <1>8 DEF InFlight
<1> HIDE DEF Others
<1>9. \/ \E t : Others(t)
      \/ Crash
      \/ up' = up /\ ed' = ed
  BY <1>5, <1>6, WhoMoves
<1> QED BY <1>1, <1>7, <1>8, <1>9

(* However many requests there are, and whatever keys and rows they want,   *)
(* one of those in flight can move (transaction_service.py:256-264,         *)
(* 151-160).                                                                *)
THEOREM NobodyStopsEveryone == Spec => []SomeoneMoves
<1> DEFINE Few == IsFiniteSet(InFlight)
<1>1. Init => Few
  <2>1. Init => InFlight = {}
    BY DEF Init, InFlight, NoUpload, NoEdit
  <2> QED BY <2>1, FS_EmptySet
<1>2. IInv /\ Few /\ [Next]_vars => Few'
  <2> SUFFICES ASSUME IInv, Few, [Next]_vars PROVE Few'
    OBVIOUS
  <2>1. PICK t : InFlight' \subseteq InFlight \cup {t}
    BY OneMoreInFlight
  <2>2. IsFiniteSet(InFlight \cup {t})
    BY FS_AddElement
  <2>3. \A S, T : IsFiniteSet(S) /\ T \subseteq S => IsFiniteSet(T)
    BY FS_Subset
  <2> QED BY <2>1, <2>2, <2>3
<1>3. IInv /\ Few => SomeoneMoves
  BY SomeoneCanMove
<1> QED BY <1>1, <1>2, <1>3, InductiveInvariant, PTL DEF Spec
-----------------------------------------------------------------------------
(* Every step is progress.                                                  *)

(* An upload that is inserting has at most one statement per row to make,   *)
(* and the COMMIT.                                                          *)
LEMMA InsertingIsBounded ==
    ASSUME NEW r \in UploadState
    PROVE  /\ IsFiniteSet(r.new \ r.ins)
           /\ Cardinality(r.new \ r.ins) \in 0..MaxRows
<1>1. r.new \ r.ins \in SUBSET (1..MaxRows) /\ MaxRows \in Nat
  BY ConstantsAssumption DEF UploadState, ConstantsAssumption
<1>2. IsFiniteSet(1..MaxRows) /\ Cardinality(1..MaxRows) = MaxRows
  BY <1>1, FS_Interval
<1>3. /\ IsFiniteSet(r.new \ r.ins)
      /\ Cardinality(r.new \ r.ins) <= Cardinality(1..MaxRows)
  BY <1>1, <1>2, FS_Subset
<1> QED BY <1>1, <1>2, <1>3, FS_CardinalityType

(* Where a step can bring an upload from where it is.                       *)
LEMMA UploadSteps ==
    ASSUME IInv, NEW u \in Uploads, [Next]_vars, up'[u] # up[u]
    PROVE  \/ up[u].pc = "idle" /\ up'[u].pc \in {"dedup", "done"}
           \/ up[u].pc = "dedup" /\ up'[u].pc \in {"insert", "done"}
           \/ up[u].pc = "insert" /\ up'[u].pc = "done"
           \/ /\ up[u].pc = "insert" /\ up'[u].pc = "insert" /\ up'[u].new = up[u].new
              /\ \E i \in up[u].new \ up[u].ins : up'[u].ins = up[u].ins \cup {i}
<1> DEFINE Nearer ==
           \/ up[u].pc = "idle" /\ up'[u].pc \in {"dedup", "done"}
           \/ up[u].pc = "dedup" /\ up'[u].pc \in {"insert", "done"}
           \/ up[u].pc = "insert" /\ up'[u].pc = "done"
           \/ /\ up[u].pc = "insert" /\ up'[u].pc = "insert" /\ up'[u].new = up[u].new
              /\ \E i \in up[u].new \ up[u].ins : up'[u].ins = up[u].ins \cup {i}
<1>1. up \in [Uploads -> UploadState] /\ up[u] \in UploadState
  BY DEF IInv, TypeOK
<1>2. ASSUME NEW reply, AbandonUpload(u, reply), up[u].pc \in {"idle", "dedup", "insert"}
      PROVE  Nearer
  BY <1>1, <1>2 DEF AbandonUpload, AbandonedUpload, NoUpload
<1>3. ASSUME NEW v \in Uploads, NEW usr \in Users, NEW a \in Accounts, NEW f \in File,
             StartUpload(v, usr, a, f)
      PROVE  Nearer
  <2>1. v = u
    BY <1>1, <1>3 DEF StartUpload, AbandonUpload
  <2>2. CASE \E reply : AbandonUpload(u, reply)
    BY <1>2, <1>3, <2>1, <2>2 DEF StartUpload
  <2>3. CASE ~ \E reply : AbandonUpload(u, reply)
    <3> DEFINE r == [up[u] EXCEPT !.pc = "dedup", !.user = usr, !.account = a,
                                  !.file = f, !.prior = Answered]
    <3>1. up' = [up EXCEPT ![u] = r] /\ up[u].pc = "idle"
      BY <1>3, <2>1, <2>3 DEF StartUpload
    <3>2. r.pc = "dedup"
      BY <1>1 DEF UploadState
    <3> QED BY <1>1, <3>1, <3>2
  <2> QED BY <2>2, <2>3
<1>4. ASSUME NEW v \in Uploads, UploadStep(v) \/ UploadDisconnected(v)
      PROVE  Nearer
  <2>1. CASE SelectExisting(v)
    BY <1>1, <2>1 DEF SelectExisting, UploadState
  <2>2. CASE InsertRow(v)
    BY <1>1, <2>2 DEF InsertRow, IsNext, UploadState
  <2>3. CASE CommitUpload(v)
    BY <1>1, <2>3 DEF CommitUpload, UploadState
  <2>4. CASE InsertConflict(v) \/ InsertRefused(v) \/ UploadDisconnected(v) \/ UploadDeadlock(v)
    <3>1. \E reply : AbandonUpload(v, reply)
      BY <2>4 DEF InsertConflict, InsertRefused, UploadDisconnected, UploadDeadlock
    <3>2. v = u
      BY <1>1, <3>1 DEF AbandonUpload
    <3>3. up[u].pc \in {"dedup", "insert"}
      <4>1. InsertConflict(u) \/ UploadDeadlock(u) => Needs(u) # {}
        BY DEF InsertConflict, Taken, UploadDeadlock, InRing, WaitsFor
      <4>2. Needs(u) # {} => up[u].pc = "insert"
        BY DEF Needs, IsNext
      <4>3. InsertRefused(u) => up[u].pc = "insert"
        BY DEF InsertRefused, IsNext
      <4> QED BY <2>4, <3>2, <4>1, <4>2, <4>3 DEF UploadDisconnected
    <3> QED BY <1>2, <3>1, <3>2, <3>3
  <2> QED BY <1>4, <2>1, <2>2, <2>3, <2>4 DEF UploadStep
<1>5. ASSUME Crash PROVE Nearer
  BY <1>1, <1>5 DEF Crash, AbandonedUpload, NoUpload
<1>6. up' # up
  OBVIOUS
<1> HIDE DEF Nearer
<1>7. Nearer
  BY <1>3, <1>4, <1>5, <1>6, WhoMoves
<1> QED BY <1>7 DEF Nearer

(* Wherever that is, it has fewer statements to make.                       *)
LEMMA UploadsComeNearer ==
    ASSUME IInv, NEW u \in Uploads, [Next]_vars, up'[u] # up[u]
    PROVE  UploadStatements(up'[u]) < UploadStatements(up[u])
<1> DEFINE left == Cardinality(up[u].new \ up[u].ins)
           left2 == Cardinality(up'[u].new \ up'[u].ins)
<1>1. up[u] \in UploadState /\ MaxRows \in Nat
  BY ConstantsAssumption DEF IInv, TypeOK, ConstantsAssumption
<1>2. IsFiniteSet(up[u].new \ up[u].ins) /\ left \in 0..MaxRows
  BY <1>1, InsertingIsBounded
<1>3. up'[u] \in UploadState
  BY NextKeepsIInv DEF IInv, TypeOK
<1>4. left2 \in 0..MaxRows
  BY <1>3, InsertingIsBounded
<1>5. /\ up[u].pc = "idle" => UploadStatements(up[u]) = MaxRows + 3
      /\ up[u].pc = "dedup" => UploadStatements(up[u]) = MaxRows + 2
      /\ up[u].pc = "insert" => UploadStatements(up[u]) = 1 + left
  BY DEF UploadStatements
<1>6. /\ up'[u].pc = "dedup" => UploadStatements(up'[u]) = MaxRows + 2
      /\ up'[u].pc = "insert" => UploadStatements(up'[u]) = 1 + left2
      /\ up'[u].pc = "done" => UploadStatements(up'[u]) = 0
  BY DEF UploadStatements
<1>7. ASSUME NEW i \in up[u].new \ up[u].ins, up'[u].new = up[u].new,
             up'[u].ins = up[u].ins \cup {i}
      PROVE  left2 = left - 1
  <2>1. up'[u].new \ up'[u].ins = (up[u].new \ up[u].ins) \ {i}
    BY <1>7
  <2> DEFINE old == up[u].new \ up[u].ins
  <2>2. IsFiniteSet(old) /\ i \in old
    BY <1>2, <1>7
  <2>3. Cardinality(old \ {i}) = Cardinality(old) - 1
    <3> HIDE DEF old
    <3> QED BY <2>2, FS_RemoveElement
  <2> QED BY <2>1, <2>3
<1> HIDE DEF left, left2
<1> QED BY <1>1, <1>2, <1>4, <1>5, <1>6, <1>7, UploadSteps

(* Where a step can bring an edit from where it is.                         *)
LEMMA EditSteps ==
    ASSUME IInv, NEW e \in Edits, [Next]_vars, ed'[e] # ed[e]
    PROVE  \/ ed[e].pc = "idle" /\ ed'[e].pc \in {"category", "lock", "done"}
           \/ ed[e].pc = "category" /\ ed'[e].pc \in {"lock", "done"}
           \/ ed[e].pc = "lock" /\ ed'[e].pc \in {"write", "refresh", "done"}
           \/ ed[e].pc = "write" /\ ed'[e].pc \in {"refresh", "done"}
           \/ ed[e].pc = "refresh" /\ ed'[e].pc = "done"
<1> DEFINE Nearer ==
           \/ ed[e].pc = "idle" /\ ed'[e].pc \in {"category", "lock", "done"}
           \/ ed[e].pc = "category" /\ ed'[e].pc \in {"lock", "done"}
           \/ ed[e].pc = "lock" /\ ed'[e].pc \in {"write", "refresh", "done"}
           \/ ed[e].pc = "write" /\ ed'[e].pc \in {"refresh", "done"}
           \/ ed[e].pc = "refresh" /\ ed'[e].pc = "done"
<1>1. ed \in [Edits -> EditState] /\ ed[e] \in EditState
  BY DEF IInv, TypeOK
<1>2. ASSUME NEW d \in Edits, NEW reply, FinishEdit(d, reply),
             ed[d].pc \in {"idle", "category", "lock", "write", "refresh"}
      PROVE  Nearer
  BY <1>1, <1>2 DEF FinishEdit, AnsweredEdit, NoEdit
<1>3. ASSUME NEW d \in Edits, NEW usr \in Users, NEW id \in Ids, NEW p \in Payload,
             StartEdit(d, usr, id, p)
      PROVE  Nearer
  <2>1. CASE \E reply : FinishEdit(d, reply)
    BY <1>2, <1>3, <2>1 DEF StartEdit
  <2>2. CASE ~ \E reply : FinishEdit(d, reply)
    <3>1. d = e /\ ed[d].pc = "idle"
      BY <1>1, <1>3, <2>2 DEF StartEdit
    <3> DEFINE r == [ed[e] EXCEPT
                   !.pc = IF p.category # None THEN "category" ELSE "lock",
                   !.user = usr, !.id = id, !.payload = p,
                   !.old = [merchant |-> rows[id].merchant,
                            category |-> rows[id].category]]
    <3>2. ed' = [ed EXCEPT ![e] = r]
      BY <1>3, <2>2, <3>1 DEF StartEdit
    <3>3. r.pc \in {"category", "lock"}
      BY <1>1 DEF EditState
    <3> QED BY <1>1, <3>1, <3>2, <3>3
  <2> QED BY <2>1, <2>2
<1>4. ASSUME NEW d \in Edits, EditStep(d) \/ EditDisconnected(d)
      PROVE  Nearer
  <2>1. CASE \E reply : FinishEdit(d, reply)
    <3>1. EditDeadlock(d) => Needs(d) # {}
      BY DEF EditDeadlock, InRing, WaitsFor
    <3>2. Needs(d) # {} => ed[d].pc = "write"
      BY ConstantsAssumption DEF Needs, ConstantsAssumption
    <3>3. ed[d].pc \in {"idle", "category", "lock", "write", "refresh"}
      BY <1>4, <3>1, <3>2 DEF EditStep, CheckCategory, LockRow, WriteRow,
         RefreshRow, EditDisconnected
    <3> QED BY <1>2, <2>1, <3>3
  <2>2. CASE CheckCategory(d) /\ ed' = [ed EXCEPT ![d].pc = "lock"]
    BY <1>1, <2>2 DEF CheckCategory, EditState
  <2>3. CASE LockRow(d)
    BY <1>1, <2>3 DEF LockRow, EditState
  <2>4. CASE WriteRow(d) /\ ed' = [ed EXCEPT ![d].pc = "refresh"]
    BY <1>1, <2>4 DEF WriteRow, EditState
  <2> QED BY <1>4, <2>1, <2>2, <2>3, <2>4 DEF EditStep, CheckCategory, WriteRow,
             RefreshRow, EditDeadlock, EditDisconnected
<1>5. ASSUME Crash PROVE Nearer
  BY <1>1, <1>5 DEF Crash, AnsweredEdit, NoEdit, EditState
<1>6. ed' # ed
  OBVIOUS
<1> HIDE DEF Nearer
<1>7. Nearer
  BY <1>3, <1>4, <1>5, <1>6, WhoMoves
<1> QED BY <1>7 DEF Nearer

(* No request is ever sent back: its own steps, five of an edit and, of an  *)
(* upload, at most one per row of its file and three more, bring it nearer  *)
(* to its answer, as a crash does, and no step of another moves it.         *)
THEOREM NoRequestGoesBack == Spec => EachStepIsProgress
<1>1. ASSUME IInv, NEW e \in Edits, [Next]_vars, ed'[e] # ed[e]
      PROVE  EditStatements(ed'[e]) < EditStatements(ed[e])
  BY <1>1, EditSteps DEF EditStatements
<1>2. IInv /\ [Next]_vars =>
        [/\ \A u \in Uploads :
              up'[u] = up[u] \/ UploadStatements(up'[u]) < UploadStatements(up[u])
         /\ \A e \in Edits :
              ed'[e] = ed[e] \/ EditStatements(ed'[e]) < EditStatements(ed[e])]_vars
  BY <1>1, UploadsComeNearer
<1> QED BY <1>2, InductiveInvariant, PTL DEF Spec, EachStepIsProgress
=============================================================================
