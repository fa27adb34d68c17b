-------------------------- MODULE LedgerPromiseProofs -------------------------
(***************************************************************************)
(* Proofs that uploads keep the promise of module Statements, whatever the *)
(* number of uploads, edits, accounts and rows, as long as the columns     *)
(* hold amounts exactly and no edit renames a merchant; that copies are    *)
(* then numbered without a gap; and, edits and all, that a conflict always *)
(* is the doing of another request.                                        *)
(***************************************************************************)
EXTENDS LedgerProofs

-----------------------------------------------------------------------------
(* Counting.                                                                *)

(* A function that takes every value of T once counts T.                    *)
LEMMA AsManyValues ==
    ASSUME NEW S, IsFiniteSet(S), NEW T, NEW F \in [S -> T],
           \A t \in T : \E x \in S : F[x] = t,
           \A x, y \in S : F[x] = F[y] => x = y
    PROVE  IsFiniteSet(T) /\ Cardinality(T) = Cardinality(S)
<1>1. F \in Surjection(S, T) /\ F \in Injection(S, T)
  BY DEF Surjection, Injection, IsInjective
<1> QED BY <1>1, FS_Surjection

(* A finite set of numbers without a gap below any of them is an interval.  *)
LEMMA NoGapIsInterval ==
    ASSUME NEW S \in SUBSET Nat, IsFiniteSet(S), \A n \in S : 0..n \subseteq S
    PROVE  S = 0..(Cardinality(S) - 1)
<1> DEFINE n == Cardinality(S)
<1>1. n \in Nat
  BY FS_CardinalityType
<1>2. \A k \in Nat : IsFiniteSet(0..k) /\ Cardinality(0..k) = k + 1
  BY FS_Interval
<1>3. ASSUME NEW k \in S PROVE k < n
  <2>1. 0..k \subseteq S /\ k \in Nat
    BY <1>3
  <2>2. k + 1 <= n
    BY <1>2, <2>1, FS_Subset
  <2> QED BY <1>1, <2>1, <2>2
<1> HIDE DEF n
<1>4. S \subseteq 0..(n - 1)
  BY <1>1, <1>3
<1>5. IsFiniteSet(0..(n - 1)) /\ Cardinality(0..(n - 1)) = n
  BY <1>1, FS_Interval
<1>6. S = 0..(n - 1)
  BY <1>4, <1>5, FS_Subset DEF n
<1> QED BY <1>6 DEF n
-----------------------------------------------------------------------------
(* The numbers a file gives to rows that look alike.                        *)

(* Every smaller number was given to an earlier look-alike.                 *)
LEMMA SmallerNumbersAreGiven ==
    ASSUME NEW f \in File, NEW i \in DOMAIN f, NEW m \in Nat, m < Occurrence(f, i)
    PROVE  \E j \in DOMAIN f : f[j] = f[i] /\ Occurrence(f, j) = m
<1> DEFINE before == { j \in 1..(i - 1) : f[j] = f[i] }
           number == [j \in before |-> Occurrence(f, j)]
           numbers == { number[j] : j \in before }
           n == Occurrence(f, i)
<1>1. PICK last \in 0..MaxRows : f \in [1..last -> Line]
  BY DEF File
<1>2. /\ DOMAIN f = 1..last /\ last \in Nat /\ i \in 1..last
      /\ \A j \in before : j \in DOMAIN f /\ f[j] = f[i] /\ j < i /\ j \in Int
  BY <1>1, ConstantsAssumption DEF ConstantsAssumption
<1>3. IsFiniteSet(before) /\ Cardinality(before) = n
  <2>1. IsFiniteSet(1..(i - 1)) /\ before \subseteq 1..(i - 1)
    BY <1>2, FS_Interval
  <2> QED BY <2>1, FS_Subset DEF Occurrence
<1>4. \A j \in before : number[j] = Occurrence(f, j)
  OBVIOUS
<1>5. ASSUME NEW j \in before PROVE number[j] \in 0..(n - 1)
  <2>1. Occurrence(f, j) \in Nat /\ Occurrence(f, j) < n /\ n \in Nat
    BY <1>2, <1>3, FS_CardinalityType, OccurrenceGrows, OccurrenceType
  <2> QED BY <1>4, <2>1
<1>6. ASSUME NEW j \in before, NEW k \in before, number[j] = number[k] PROVE j = k
  <2>1. j \in DOMAIN f /\ k \in DOMAIN f /\ f[j] = f[k] /\ j \in Int /\ k \in Int
        /\ Occurrence(f, j) = Occurrence(f, k)
    BY <1>2, <1>4, <1>6
  <2>2. ~(j < k) /\ ~(k < j)
    BY <2>1, OccurrenceGrows
  <2> QED BY <2>1, <2>2
<1> HIDE DEF before
<1>7. number \in [before -> 0..(n - 1)]
  BY <1>5
<1>8. \A j, k \in before : number[j] = number[k] => j = k
  BY <1>6
<1>9. number \in [before -> numbers] /\ \A k \in numbers : \E j \in before : number[j] = k
  BY <1>7
<1> HIDE DEF number, numbers
<1>10. IsFiniteSet(numbers) /\ Cardinality(numbers) = n
  <2>1. IsFiniteSet(numbers) /\ Cardinality(numbers) = Cardinality(before)
    BY <1>3, <1>8, <1>9, AsManyValues
  <2> QED BY <1>3, <2>1
<1>11. numbers \subseteq 0..(n - 1)
  BY <1>7 DEF numbers
<1>12. n \in Nat
  BY <1>3, FS_CardinalityType
<1>13. IsFiniteSet(0..(n - 1)) /\ Cardinality(0..(n - 1)) = n
  <2> HIDE DEF n
  <2> QED BY <1>12, FS_Interval
<1>14. m \in 0..(n - 1)
  BY <1>12
<1> HIDE DEF n
<1>15. numbers = 0..(n - 1)
  BY <1>10, <1>11, <1>13, FS_Subset
<1>16. PICK j \in before : number[j] = m
  BY <1>9, <1>14, <1>15
<1> QED BY <1>2, <1>4, <1>16
-----------------------------------------------------------------------------
(* Things that are numbered without repetition and without a gap are as     *)
(* many as there are numbers.                                               *)
LEMMA CountedByNumbers ==
    ASSUME NEW S, IsFiniteSet(S), NEW N \in [S -> Nat],
           \A x, y \in S : N[x] = N[y] => x = y,
           \A x \in S : \A n \in Nat : n < N[x] => \E y \in S : N[y] = n
    PROVE  /\ Cardinality(S) \in Nat
           /\ \A n \in Nat : (\E x \in S : N[x] = n) <=> n < Cardinality(S)
<1> DEFINE T == { N[x] : x \in S }
           n == Cardinality(S)
<1>1. N \in [S -> T] /\ \A t \in T : \E x \in S : N[x] = t
  OBVIOUS
<1>2. T \in SUBSET Nat /\ \A t \in T : 0..t \subseteq T
  <2> SUFFICES ASSUME NEW x \in S, NEW k \in 0..N[x] PROVE k \in T
    OBVIOUS
  <2>1. N[x] \in Nat /\ k \in Nat /\ (k < N[x] \/ k = N[x])
    OBVIOUS
  <2>2. \E y \in S : N[y] = k
    BY <2>1
  <2> QED BY <2>2
<1> HIDE DEF T
<1>3. IsFiniteSet(T) /\ Cardinality(T) = n
  BY <1>1, AsManyValues
<1>4. n \in Nat
  BY FS_CardinalityType
<1> HIDE DEF n
<1>5. T = 0..(n - 1)
  BY <1>2, <1>3, NoGapIsInterval
<1>6. ASSUME NEW m \in Nat PROVE (\E x \in S : N[x] = m) <=> m < n
  <2>1. (\E x \in S : N[x] = m) <=> m \in T
    BY <1>1
  <2> QED BY <1>4, <1>5, <2>1
<1> QED BY <1>4, <1>6 DEF n

(* The rows of a table that look alike, and their numbers.                  *)
LookAlikes(table, b) == { x \in DOMAIN table : BaseOf(table[x]) = b }
Contiguous(table) ==
    \A x \in DOMAIN table : \A n \in 0..MaxRows :
        n < table[x].occ =>
            \E y \in DOMAIN table : RowKey(table[y]) = [RowKey(table[x]) EXCEPT !.occ = n]
Distinct(table) ==
    \A x, y \in DOMAIN table : x # y => RowKey(table[x]) # RowKey(table[y])

LEMMA TableCountsItsNumbers ==
    ASSUME NEW table, IsFiniteSet(DOMAIN table), \A x \in DOMAIN table : table[x] \in Row,
           Distinct(table), Contiguous(table), NEW b \in Bases
    PROVE  /\ Cardinality(LookAlikes(table, b)) \in Nat
           /\ \A n \in Nat : (\E x \in LookAlikes(table, b) : table[x].occ = n)
                                <=> n < Cardinality(LookAlikes(table, b))
<1> DEFINE S == LookAlikes(table, b)
           N == [x \in S |-> table[x].occ]
<1>1. IsFiniteSet(S) /\ S \subseteq DOMAIN table
  BY FS_Subset, S \subseteq DOMAIN table DEF LookAlikes
<1>2. \A x \in S : table[x] \in Row /\ table[x].occ \in Nat /\ table[x].occ < MaxRows
  BY <1>1, ConstantsAssumption DEF Row, ConstantsAssumption
<1>3. \A x, y \in S : table[x].occ = table[y].occ => x = y
  <2> SUFFICES ASSUME NEW x \in S, NEW y \in S, table[x].occ = table[y].occ PROVE x = y
    OBVIOUS
  <2>1. BaseOf(table[x]) = BaseOf(table[y])
    BY DEF LookAlikes
  <2>2. RowKey(table[x]) = RowKey(table[y])
    BY <2>1 DEF BaseOf, RowKey
  <2> QED BY <1>1, <2>2 DEF Distinct
<1>4. ASSUME NEW x \in S, NEW n \in Nat, n < table[x].occ
      PROVE  \E y \in S : table[y].occ = n
  <2>1. n \in 0..MaxRows
    BY <1>2, <1>4, ConstantsAssumption DEF ConstantsAssumption
  <2>2. PICK y \in DOMAIN table : RowKey(table[y]) = [RowKey(table[x]) EXCEPT !.occ = n]
    BY <1>1, <1>4, <2>1 DEF Contiguous
  <2>3. table[y].occ = n /\ BaseOf(table[y]) = BaseOf(table[x])
    BY <2>2 DEF RowKey, BaseOf
  <2> QED BY <2>3 DEF LookAlikes
<1> HIDE DEF S
<1>5. /\ N \in [S -> Nat] /\ \A x, y \in S : N[x] = N[y] => x = y
      /\ \A x \in S : \A n \in Nat : n < N[x] => \E y \in S : N[y] = n
      /\ \A x \in S : N[x] = table[x].occ
  BY <1>2, <1>3, <1>4
<1> HIDE DEF N
<1>6. /\ Cardinality(S) \in Nat
      /\ \A n \in Nat : (\E x \in S : N[x] = n) <=> n < Cardinality(S)
  BY <1>1, <1>5, CountedByNumbers
<1> QED BY <1>5, <1>6 DEF S

(* The rows of a file that look alike, and their numbers.                   *)
LEMMA FileCountsItsNumbers ==
    ASSUME NEW a \in Accounts, NEW f \in File, NEW b \in Bases
    PROVE  LET S == { i \in DOMAIN f : BaseOf(FileKey(a, f, i)) = b }
           IN  /\ Cardinality(S) \in 0..MaxRows
               /\ \A n \in Nat : (\E i \in S : Occurrence(f, i) = n) <=> n < Cardinality(S)
<1> DEFINE S == { i \in DOMAIN f : BaseOf(FileKey(a, f, i)) = b }
           N == [i \in S |-> Occurrence(f, i)]
<1>1. PICK last \in 0..MaxRows : f \in [1..last -> Line]
  BY DEF File
<1>2. DOMAIN f = 1..last /\ last \in Nat /\ last <= MaxRows
  BY <1>1, ConstantsAssumption DEF ConstantsAssumption
<1>3. IsFiniteSet(S) /\ Cardinality(S) \in Nat /\ Cardinality(S) <= last
  <2>1. IsFiniteSet(1..last) /\ Cardinality(1..last) = last /\ S \subseteq 1..last
    BY <1>2, FS_Interval
  <2> HIDE DEF S
  <2> QED BY <2>1, FS_Subset, FS_CardinalityType
<1>4. \A i \in S : f[i] \in Line /\ Occurrence(f, i) \in Nat /\ i \in Int /\ i \in DOMAIN f
  BY <1>1, <1>2, OccurrenceType
<1>5. \A i, j \in S : f[i] = f[j]
  <2> SUFFICES ASSUME NEW i \in S, NEW j \in S PROVE f[i] = f[j]
    OBVIOUS
  <2>1. BaseOf(FileKey(a, f, i)) = BaseOf(FileKey(a, f, j))
    OBVIOUS
  <2>2. f[i].facts = f[j].facts /\ f[i].merchant = f[j].merchant
    BY <2>1 DEF BaseOf, FileKey
  <2> QED BY <1>4, <2>2 DEF Line
<1>6. \A i, j \in S : Occurrence(f, i) = Occurrence(f, j) => i = j
  <2> SUFFICES ASSUME NEW i \in S, NEW j \in S, Occurrence(f, i) = Occurrence(f, j)
               PROVE  i = j
    OBVIOUS
  <2>1. ~(i < j) /\ ~(j < i)
    BY <1>4, <1>5, OccurrenceGrows
  <2> QED BY <1>4, <2>1
<1>7. ASSUME NEW i \in S, NEW n \in Nat, n < Occurrence(f, i)
      PROVE  \E j \in S : Occurrence(f, j) = n
  <2>1. PICK j \in DOMAIN f : f[j] = f[i] /\ Occurrence(f, j) = n
    BY <1>7, SmallerNumbersAreGiven
  <2>2. BaseOf(FileKey(a, f, j)) = BaseOf(FileKey(a, f, i))
    BY <2>1 DEF BaseOf, FileKey
  <2> QED BY <2>1, <2>2
<1> HIDE DEF S
<1>8. /\ N \in [S -> Nat] /\ \A i, j \in S : N[i] = N[j] => i = j
      /\ \A i \in S : \A n \in Nat : n < N[i] => \E j \in S : N[j] = n
      /\ \A i \in S : N[i] = Occurrence(f, i)
  BY <1>4, <1>6, <1>7
<1> HIDE DEF N
<1>9. \A n \in Nat : (\E i \in S : N[i] = n) <=> n < Cardinality(S)
  BY <1>3, <1>8, CountedByNumbers
<1>10. Cardinality(S) \in 0..MaxRows
  BY <1>2, <1>3, ConstantsAssumption DEF ConstantsAssumption
<1> QED BY <1>8, <1>9, <1>10 DEF S
-----------------------------------------------------------------------------
(* The invariant behind the promise.                                        *)

(* Every amount fits its column with the decimals it has, or not at all.    *)
ColumnsAreExact == \A fact \in Facts : Rounded[fact] \in {fact, None}
(* No edit renames a merchant. *)
NothingIsRenamed == NewMerchants = {}

(* While an upload inserts, the rows it leaves out are in the table.        *)
Selected ==
    \A u \in Uploads : up[u].pc = "insert" =>
        \A i \in DOMAIN up[u].file :
            i \in up[u].new \/ \E x \in DOMAIN rows : RowKey(rows[x]) = IdentityKey(u, i)
NothingYet == \A u \in Uploads : up[u].pc = "idle" => up[u].file = << >>

PInv == /\ IInv /\ IsFiniteSet(DOMAIN rows) /\ Contiguous(rows)
        /\ Selected /\ NothingYet

(* How an upload's pc, what it remembers of the past and its answer change. *)
Ends(u) == /\ up[u].pc # "done" /\ up'[u].pc = "done" /\ up'[u].prior = {}
           /\ up'[u].answer = "conflict" => InsertConflict(u)
Begins(u) == /\ up[u].pc = "idle" /\ up'[u].pc = "dedup"
             /\ up'[u].prior = Answered /\ up'[u].answer = "none"
GoesOn(u) == /\ up[u].pc = "insert" /\ up'[u].pc = "insert"
             /\ up'[u].file = up[u].file /\ up'[u].account = up[u].account
             /\ up'[u].new = up[u].new /\ up'[u].prior = up[u].prior
             /\ up'[u].answer = "none"

LEMMA AbandonedEnds ==
    ASSUME IInv, NEW u \in Uploads, up[u].pc # "done", NEW reply, AbandonUpload(u, reply),
           reply = "conflict" => InsertConflict(u)
    PROVE  Ends(u)
<1>1. up \in [Uploads -> UploadState]
  BY DEF IInv, TypeOK
<1>2. up'[u] = AbandonedUpload(reply)
  BY <1>1 DEF AbandonUpload
<1> QED BY <1>2 DEF AbandonedUpload, NoUpload, Ends

LEMMA CommitEnds ==
    ASSUME IInv, NEW u \in Uploads, CommitUpload(u)
    PROVE  Ends(u)
<1>1. PICK reply \in {"saved", "unreachable"} :
        up' = [up EXCEPT ![u] = [@ EXCEPT !.pc = "done", !.answer = reply,
                                          !.ins = {}, !.prior = {}]]
  BY DEF CommitUpload
<1>2. up \in [Uploads -> UploadState] /\ up[u] \in UploadState
  BY DEF IInv, TypeOK
<1> QED BY <1>1, <1>2 DEF UploadState, Ends, CommitUpload

LEMMA SelectMoves ==
    ASSUME IInv, NEW u \in Uploads, SelectExisting(u)
    PROVE  /\ rows' = rows /\ up[u].pc = "dedup" /\ up'[u].pc = "insert"
           /\ up'[u].file = up[u].file /\ up'[u].account = up[u].account
           /\ up'[u].prior = up[u].prior /\ up'[u].answer = up[u].answer
           /\ up'[u].new = { i \in DOMAIN up[u].file :
                 \A id \in DOMAIN rows : RowKey(rows[id]) # IdentityKey(u, i) }
<1> DEFINE absent == { i \in DOMAIN up[u].file :
                 \A id \in DOMAIN rows : RowKey(rows[id]) # IdentityKey(u, i) }
           r == [up[u] EXCEPT !.pc = "insert", !.new = absent]
<1>1. /\ up[u].pc = "dedup" /\ rows' = rows /\ up' = [up EXCEPT ![u] = r]
      /\ up[u] \in UploadState /\ up \in [Uploads -> UploadState]
  BY DEF SelectExisting, IInv, TypeOK
<1> HIDE DEF absent
<1>2. /\ r.pc = "insert" /\ r.new = absent /\ r.file = up[u].file
      /\ r.account = up[u].account /\ r.prior = up[u].prior /\ r.answer = up[u].answer
  BY <1>1 DEF UploadState
<1>3. up'[u] = r
  BY <1>1
<1> HIDE DEF r
<1> QED BY <1>1, <1>2, <1>3 DEF absent

(* What one step does to one upload.                                        *)
LEMMA UploadMoves ==
    ASSUME IInv, [Next]_vars, NEW u \in Uploads
    PROVE  up'[u] = up[u] \/ Begins(u) \/ Ends(u) \/ SelectExisting(u) \/ GoesOn(u)
<1>1. up \in [Uploads -> UploadState] /\ up[u] \in UploadState
  BY DEF IInv, TypeOK
<1>2. ASSUME NEW v \in Uploads, v # u,
             \/ \E usr \in Users, a \in Accounts, f \in File : StartUpload(v, usr, a, f)
             \/ UploadStep(v) \/ UploadDisconnected(v)
      PROVE  up'[u] = up[u]
  BY <1>1, <1>2 DEF StartUpload, UploadStep, SelectExisting, InsertRow, InsertConflict,
     InsertRefused, CommitUpload, UploadDeadlock, UploadDisconnected, AbandonUpload
<1>3. ASSUME NEW usr \in Users, NEW a \in Accounts, NEW f \in File, StartUpload(u, usr, a, f)
      PROVE  Begins(u) \/ Ends(u)
  <2>1. up[u].pc = "idle" /\ up[u].answer = "none"
    BY <1>3 DEF StartUpload, IInv, UploadsInv
  <2>2. CASE AbandonUpload(u, "not_found") \/ AbandonUpload(u, "numbering")
    BY <2>1, <2>2, AbandonedEnds
  <2>3. CASE up' = [up EXCEPT ![u] = [@ EXCEPT !.pc = "dedup", !.user = usr, !.account = a,
                                               !.file = f, !.prior = Answered]]
    BY <1>1, <2>1, <2>3 DEF UploadState, Begins
  <2> QED BY <1>3, <2>2, <2>3 DEF StartUpload
<1>4. ASSUME InsertRow(u) PROVE GoesOn(u)
  <2>1. PICK i \in 1..MaxRows : IsNext(u, i) /\ up' = [up EXCEPT ![u].ins = @ \cup {i}]
    BY <1>4 DEF InsertRow
  <2>2. up[u].pc = "insert" /\ up[u].answer = "none"
    BY <2>1 DEF IsNext, IInv, UploadsInv
  <2> QED BY <1>1, <2>1, <2>2 DEF UploadState, GoesOn
<1>5. CASE InsertConflict(u) \/ UploadDeadlock(u)
  <2>1. Needs(u) # {}
    BY <1>5, ConstantsAssumption
       DEF InsertConflict, Taken, UploadDeadlock, InRing, WaitsFor, ConstantsAssumption
  <2>2. up[u].pc = "insert"
    BY <2>1, NeedsKeyNow
  <2> QED BY <1>5, <2>2, AbandonedEnds DEF InsertConflict, UploadDeadlock
<1>6. CASE InsertRefused(u)
  BY <1>6, AbandonedEnds DEF InsertRefused, IsNext
<1>7. CASE UploadDisconnected(u)
  <2>1. /\ up[u].pc # "done"
        /\ AbandonUpload(u, "error") \/ AbandonUpload(u, "unreachable")
    BY <1>7 DEF UploadDisconnected
  <2> QED BY <2>1, AbandonedEnds
<1>8. CASE Crash
  BY <1>8 DEF Crash, AbandonedUpload, NoUpload, Ends
<1>9. CASE up' = up
  BY <1>9
<1>10. ASSUME \/ \E usr \in Users, a \in Accounts, f \in File : StartUpload(u, usr, a, f)
              \/ UploadStep(u) \/ UploadDisconnected(u)
       PROVE  up'[u] = up[u] \/ Begins(u) \/ Ends(u) \/ SelectExisting(u) \/ GoesOn(u)
  <2>1. CASE CommitUpload(u)
    BY <2>1, CommitEnds
  <2>2. CASE \E usr \in Users, a \in Accounts, f \in File : StartUpload(u, usr, a, f)
    BY <1>3, <2>2
  <2>3. CASE UploadStep(u) /\ ~CommitUpload(u)
    BY <1>4, <1>5, <1>6, <2>3, Zenon DEF UploadStep
  <2> QED BY <1>7, <1>10, <2>1, <2>2, <2>3
<1>11. \/ up' = up \/ Crash
       \/ \E v \in Uploads : \/ \E usr \in Users, a \in Accounts, f \in File :
                                   StartUpload(v, usr, a, f)
                             \/ UploadStep(v) \/ UploadDisconnected(v)
  BY DEF Next, EditStep, StartEdit, CheckCategory, LockRow, WriteRow, RefreshRow,
     EditDeadlock, EditDisconnected, DeleteCategory, AllAnswered, vars
<1> QED BY <1>2, <1>8, <1>9, <1>10, <1>11

(* What a commit adds to the table: the rows found to be new, under the     *)
(* very keys their file gives them.                                         *)
LEMMA CommitAddsItsRows ==
    ASSUME IInv, ColumnsAreExact, NEW u \in Uploads, CommitUpload(u)
    PROVE  /\ up[u].pc = "insert" /\ up'[u].pc = "done" /\ \A v \in Uploads \ {u} : up'[v] = up[v]
           /\ up[u].account \in Accounts /\ up[u].file \in File
           /\ up[u].new \subseteq DOMAIN up[u].file /\ DOMAIN up[u].file \subseteq 1..MaxRows
           /\ DOMAIN rows' = DOMAIN rows \cup ({u} \X up[u].new)
           /\ \A x \in DOMAIN rows : rows'[x] = rows[x]
           /\ \A i \in up[u].new : RowKey(rows'[<<u, i>>]) = IdentityKey(u, i)
<1>1. /\ up[u].pc = "insert" /\ up[u].ins = up[u].new /\ up[u] \in UploadState
      /\ up[u].account \in Accounts /\ up[u].file \in File
      /\ up[u].new \subseteq DOMAIN up[u].file /\ up[u].answer = "none"
      /\ \A i \in up[u].new : Rounded[up[u].file[i].facts] # None
      /\ rows' = [id \in DOMAIN rows \cup ({u} \X up[u].new) |->
                    IF id \in DOMAIN rows THEN rows[id] ELSE NewRow(u, id[2])]
  BY DEF CommitUpload, IInv, UploadsInv, TypeOK, UploadState
<1>2. up'[u].pc = "done" /\ \A v \in Uploads \ {u} : up'[v] = up[v]
  <2>1. PICK reply \in {"saved", "unreachable"} :
          up' = [up EXCEPT ![u] = [@ EXCEPT !.pc = "done", !.answer = reply,
                                            !.ins = {}, !.prior = {}]]
    BY DEF CommitUpload
  <2>2. up \in [Uploads -> UploadState]
    BY DEF IInv, TypeOK
  <2> QED BY <1>1, <2>1, <2>2 DEF UploadState
<1>3. DOMAIN up[u].file \subseteq 1..MaxRows /\ \A i \in DOMAIN up[u].file : up[u].file[i] \in Line
  BY <1>1, OccurrenceType
<1>4. ASSUME NEW i \in up[u].new PROVE RowKey(rows'[<<u, i>>]) = IdentityKey(u, i)
  <2>1. <<u, i>> \notin DOMAIN rows
    BY <1>1, <1>3 DEF IInv, AllOrNothing
  <2>2. rows'[<<u, i>>] = NewRow(u, i)
    BY <1>1, <2>1
  <2>3. Rounded[up[u].file[i].facts] = up[u].file[i].facts
    BY <1>1, <1>3 DEF ColumnsAreExact, Line
  <2> QED BY <2>2, <2>3 DEF NewRow, RowKey, IdentityKey, FileKey
<1> QED BY <1>1, <1>2, <1>3, <1>4

(* Otherwise the table keeps its rows and, nothing being renamed, what they *)
(* are identified by.                                                       *)
LEMMA OtherStepsKeepKeys ==
    ASSUME IInv, NothingIsRenamed, [Next]_vars, ~ \E u \in Uploads : CommitUpload(u)
    PROVE  /\ DOMAIN rows' = DOMAIN rows
           /\ \A x \in DOMAIN rows : RowKey(rows'[x]) = RowKey(rows[x])
<1>1. CASE rows' = rows
  BY <1>1
<1>2. ASSUME NEW e \in Edits, WriteRow(e), rows' # rows
      PROVE  /\ DOMAIN rows' = DOMAIN rows
             /\ \A x \in DOMAIN rows : RowKey(rows'[x]) = RowKey(rows[x])
  <2>1. rows' = [rows EXCEPT ![ed[e].id] = EditedRow(e)]
    BY <1>2, UpdateOrNothing
  <2>2. ed[e].id \in DOMAIN rows /\ rows[ed[e].id] \in Row
    BY <1>2 DEF WriteRow, IInv, EditsInv, TypeOK
  <2>3. "merchant" \notin Changed(e)
    <3>1. ed[e] \in EditState
      BY DEF IInv, TypeOK
    <3>2. ed[e].payload.merchant = None
      BY <3>1 DEF EditState, Payload, NothingIsRenamed
    <3> QED BY <3>2 DEF Changed
  <2>4. RowKey(EditedRow(e)) = RowKey(rows[ed[e].id])
    BY <2>2, <2>3 DEF EditedRow, RowKey, Row
  <2> QED BY <2>1, <2>2, <2>4
<1> QED BY <1>1, <1>2, WhoWritesRows DEF vars

LEMMA InitPInv == Init => PInv
<1> SUFFICES ASSUME Init PROVE PInv
  OBVIOUS
<1>1. DOMAIN rows = {} /\ IsFiniteSet({})
  BY FS_EmptySet DEF Init
<1>2. Contiguous(rows) /\ Selected /\ NothingYet
  BY <1>1 DEF Init, Contiguous, Selected, NothingYet, NoUpload
<1> QED BY <1>1, <1>2, InitIInv DEF PInv

(* Copies stay numbered without a gap: a file numbers its own so, and the   *)
(* ones left out are in the table.                                          *)
LEMMA CommitLeavesNoGap ==
    ASSUME PInv, ColumnsAreExact, NEW u \in Uploads, CommitUpload(u)
    PROVE  Contiguous(rows')
<1> DEFINE f == up[u].file
<1>1. /\ up[u].pc = "insert" /\ f \in File
      /\ up[u].new \subseteq DOMAIN f /\ DOMAIN f \subseteq 1..MaxRows
      /\ DOMAIN rows' = DOMAIN rows \cup ({u} \X up[u].new)
      /\ \A x \in DOMAIN rows : rows'[x] = rows[x]
      /\ \A i \in up[u].new : RowKey(rows'[<<u, i>>]) = IdentityKey(u, i)
  BY CommitAddsItsRows DEF PInv
<1> SUFFICES ASSUME NEW x \in DOMAIN rows', NEW n \in 0..MaxRows, n < rows'[x].occ
             PROVE  \E y \in DOMAIN rows' :
                       RowKey(rows'[y]) = [RowKey(rows'[x]) EXCEPT !.occ = n]
  BY DEF Contiguous
<1>2. CASE x \in DOMAIN rows
  <2>1. PICK y \in DOMAIN rows : RowKey(rows[y]) = [RowKey(rows[x]) EXCEPT !.occ = n]
    BY <1>1, <1>2 DEF PInv, Contiguous
  <2> QED BY <1>1, <1>2, <2>1
<1>3. ASSUME NEW i \in up[u].new, x = <<u, i>>
      PROVE  \E y \in DOMAIN rows' :
                RowKey(rows'[y]) = [RowKey(rows'[x]) EXCEPT !.occ = n]
  <2>1. RowKey(rows'[x]) = IdentityKey(u, i)
    BY <1>1, <1>3
  <2>2. rows'[x].occ = Occurrence(f, i) /\ n \in Nat
    BY <2>1, ConstantsAssumption DEF RowKey, IdentityKey, FileKey, ConstantsAssumption
  <2>3. PICK j \in DOMAIN f : f[j] = f[i] /\ Occurrence(f, j) = n
    BY <1>1, <2>2, SmallerNumbersAreGiven
  <2>4. IdentityKey(u, j) = [IdentityKey(u, i) EXCEPT !.occ = n]
    BY <2>3 DEF IdentityKey, FileKey
  <2>5. CASE j \in up[u].new
    BY <1>1, <2>1, <2>4, <2>5
  <2>6. CASE j \notin up[u].new
    <3>1. PICK y \in DOMAIN rows : RowKey(rows[y]) = IdentityKey(u, j)
      BY <1>1, <2>6 DEF PInv, Selected
    <3> QED BY <1>1, <2>1, <2>4, <3>1
  <2> QED BY <2>5, <2>6
<1> QED BY <1>1, <1>2, <1>3

LEMMA NextKeepsPInv ==
    ASSUME ColumnsAreExact, NothingIsRenamed
    PROVE  PInv /\ [Next]_vars => PInv'
<1> SUFFICES ASSUME PInv, [Next]_vars PROVE PInv'
  OBVIOUS
<1> USE DEF PInv
<1>1. IInv'
  BY NextKeepsIInv
<1>2. NothingYet'
  <2> SUFFICES ASSUME NEW u \in Uploads, up'[u].pc = "idle" PROVE up'[u].file = << >>
    BY DEF NothingYet
  <2>1. ~SelectExisting(u)
    <3> SUFFICES ASSUME SelectExisting(u) PROVE up'[u].pc = "insert"
      OBVIOUS
    <3>1. up \in [Uploads -> UploadState] /\ up[u] \in UploadState
      BY DEF IInv, TypeOK
    <3> QED BY <3>1 DEF SelectExisting, UploadState
  <2>2. up'[u] = up[u]
    BY <2>1, UploadMoves DEF PInv, Begins, Ends, GoesOn
  <2> QED BY <2>2 DEF NothingYet
<1>3. /\ IsFiniteSet(DOMAIN rows') /\ Contiguous(rows')
      /\ \A x \in DOMAIN rows : x \in DOMAIN rows' /\ RowKey(rows'[x]) = RowKey(rows[x])
  <2>1. CASE ~ \E u \in Uploads : CommitUpload(u)
    <3>1. /\ DOMAIN rows' = DOMAIN rows
          /\ \A x \in DOMAIN rows : RowKey(rows'[x]) = RowKey(rows[x])
      BY <2>1, OtherStepsKeepKeys
    <3>2. \A x \in DOMAIN rows : rows'[x].occ = rows[x].occ
      BY <3>1 DEF RowKey
    <3>3. Contiguous(rows')
      BY <3>1, <3>2 DEF Contiguous
    <3> QED BY <3>1, <3>3
  <2>2. ASSUME NEW u \in Uploads, CommitUpload(u)
        PROVE  /\ IsFiniteSet(DOMAIN rows') /\ Contiguous(rows')
               /\ \A x \in DOMAIN rows : x \in DOMAIN rows' /\ rows'[x] = rows[x]
    <3>1. /\ DOMAIN rows' = DOMAIN rows \cup ({u} \X up[u].new)
          /\ up[u].new \subseteq 1..MaxRows
          /\ \A x \in DOMAIN rows : rows'[x] = rows[x]
      BY <2>2, CommitAddsItsRows
    <3>2. IsFiniteSet(1..MaxRows)
      BY FS_Interval, ConstantsAssumption DEF ConstantsAssumption
    <3>3. IsFiniteSet(up[u].new)
      BY <3>1, <3>2, FS_Subset
    <3>4. IsFiniteSet({u} \X up[u].new)
      BY <3>3, FS_Singleton, FS_Product
    <3>5. IsFiniteSet(DOMAIN rows \cup ({u} \X up[u].new))
      <4> HIDE DEF PInv
      <4>1. IsFiniteSet(DOMAIN rows)
        BY DEF PInv
      <4> QED BY <3>4, <4>1, FS_Union
    <3>6. IsFiniteSet(DOMAIN rows')
      BY <3>1, <3>5
    <3> QED BY <2>2, <3>1, <3>6, CommitLeavesNoGap
  <2> QED BY <2>1, <2>2
<1>4. Selected'
  <2> SUFFICES ASSUME NEW u \in Uploads, up'[u].pc = "insert", NEW i \in DOMAIN up'[u].file
               PROVE  \/ i \in up'[u].new
                      \/ \E x \in DOMAIN rows' : RowKey(rows'[x]) = IdentityKey(u, i)'
    BY DEF Selected
  <2>1. CASE /\ up[u].pc = "insert" /\ up'[u].file = up[u].file
             /\ up'[u].account = up[u].account /\ up'[u].new = up[u].new
    <3>1. IdentityKey(u, i)' = IdentityKey(u, i)
      BY <2>1 DEF IdentityKey
    <3> QED BY <1>3, <2>1, <3>1 DEF Selected
  <2>2. CASE SelectExisting(u)
    <3>1. /\ up'[u].file = up[u].file /\ up'[u].account = up[u].account /\ rows' = rows
          /\ up'[u].new = { k \in DOMAIN up[u].file :
                \A id \in DOMAIN rows : RowKey(rows[id]) # IdentityKey(u, k) }
      BY <2>2, SelectMoves
    <3>2. IdentityKey(u, i)' = IdentityKey(u, i)
      BY <3>1 DEF IdentityKey
    <3> QED BY <3>1, <3>2
  <2>3. CASE up'[u] = up[u]
    BY <2>1, <2>3
  <2> QED BY <1>1, <2>1, <2>2, <2>3, UploadMoves DEF PInv, Begins, Ends, GoesOn
<1> QED BY <1>1, <1>2, <1>3, <1>4
-----------------------------------------------------------------------------
(* The refinement, step by step.                                            *)

(* What module Statements sees of an upload's record.                       *)
Listed(r) ==
    [b \in Bases |-> Cardinality({ i \in DOMAIN r.file :
        /\ r.pc # "done"
        /\ BaseOf(FileKey(r.account, r.file, i)) = b })]
Verdict(r) ==
    CASE r.pc = "idle" -> "waiting"
      [] r.pc \in {"dedup", "insert"} -> "open"
      [] r.answer = "saved" -> "saved"
      [] OTHER -> "failed"

LEMMA WhatStatementsSees ==
    /\ heldBar = [b \in Bases |-> Cardinality(LookAlikes(rows, b))]
    /\ heldBar' = [b \in Bases |-> Cardinality(LookAlikes(rows', b))]
    /\ statementBar = [u \in Uploads |-> Listed(up[u])]
    /\ statementBar' = [u \in Uploads |-> Listed(up'[u])]
    /\ verdictBar = [u \in Uploads |-> Verdict(up[u])]
    /\ verdictBar' = [u \in Uploads |-> Verdict(up'[u])]
BY DEF heldBar, LookAlikes, statementBar, Listed, verdictBar, Verdict, IdentityKey

LEMMA NothingIsListed ==
    ASSUME NEW r, r.pc = "done" \/ r.file = << >>
    PROVE  Listed(r) = Promise!Empty
<1>1. \A b : { i \in DOMAIN r.file : /\ r.pc # "done"
                                     /\ BaseOf(FileKey(r.account, r.file, i)) = b } = {}
  OBVIOUS
<1> QED BY <1>1, FS_EmptySet DEF Listed, Promise!Empty

LEMMA Verdicts ==
    ASSUME NEW r, r.pc # "done" => r.answer # "saved"
    PROVE  /\ r.pc = "idle" => Verdict(r) = "waiting"
           /\ r.pc \in {"dedup", "insert"} => Verdict(r) = "open"
           /\ r.pc = "done" => Verdict(r) = IF r.answer = "saved" THEN "saved" ELSE "failed"
<1>1. CASE r.pc = "idle"
  BY <1>1 DEF Verdict
<1>2. CASE r.pc \in {"dedup", "insert"}
  BY <1>2 DEF Verdict
<1>3. CASE r.pc = "done" /\ r.answer = "saved"
  BY <1>3 DEF Verdict
<1>4. CASE r.pc = "done" /\ r.answer # "saved"
  BY <1>4 DEF Verdict
<1> QED BY <1>1, <1>2, <1>3, <1>4

LEMMA InitIsPromised == Init => Promise!Init
<1> SUFFICES ASSUME Init PROVE Promise!Init
  OBVIOUS
<1>1. DOMAIN rows = {} /\ \A u \in Uploads : up[u].file = << >> /\ up[u].pc = "idle"
  BY DEF Init, NoUpload
<1>2. \A b : LookAlikes(rows, b) = {}
  BY <1>1 DEF LookAlikes
<1>3. heldBar = Promise!Empty
  BY <1>2, FS_EmptySet, WhatStatementsSees DEF Promise!Empty
<1>4. statementBar = [u \in Uploads |-> Promise!Empty]
  BY <1>1, NothingIsListed, WhatStatementsSees
<1>5. verdictBar = [u \in Uploads |-> "waiting"]
  <2>1. \A u \in Uploads : up[u].answer # "saved"
    BY DEF Init, NoUpload
  <2>2. \A u \in Uploads : Verdict(up[u]) = "waiting"
    BY <1>1, <2>1, Verdicts
  <2> QED BY <2>2, WhatStatementsSees
<1> QED BY <1>3, <1>4, <1>5 DEF Promise!Init

(* A step that leaves the keys of the table alone is not seen in what is    *)
(* held.                                                                    *)
LEMMA KeysKeptHeldKept ==
    ASSUME DOMAIN rows' = DOMAIN rows, \A x \in DOMAIN rows : RowKey(rows'[x]) = RowKey(rows[x])
    PROVE  heldBar' = heldBar
<1>1. \A x \in DOMAIN rows : BaseOf(rows'[x]) = BaseOf(rows[x])
  BY DEF RowKey, BaseOf
<1>2. \A b : LookAlikes(rows', b) = LookAlikes(rows, b)
  BY <1>1 DEF LookAlikes
<1> QED BY <1>2, WhatStatementsSees

(* Uploads that end without a commit are given up.                          *)
LEMMA AbandonedAreGivenUp ==
    ASSUME IInv, NEW some \in SUBSET Uploads, some # {}, heldBar' = heldBar,
           \A u \in some : /\ up[u].pc \in {"dedup", "insert"}
                           /\ up'[u].pc = "done" /\ up'[u].answer # "saved",
           \A u \in Uploads \ some : up'[u] = up[u]
    PROVE  Promise!Next
<1>1. \A u \in some : Verdict(up[u]) = "open" /\ Verdict(up'[u]) = "failed"
  BY Verdicts DEF IInv, UploadsInv
<1>2. \A u \in some : Listed(up'[u]) = Promise!Empty
  BY NothingIsListed
<1>3. \A u \in some : verdictBar[u] = "open"
  BY <1>1, WhatStatementsSees
<1>4. verdictBar' = [u \in Uploads |-> IF u \in some THEN "failed" ELSE verdictBar[u]]
  BY <1>1, WhatStatementsSees
<1>5. statementBar' = [u \in Uploads |-> IF u \in some THEN Promise!Empty ELSE statementBar[u]]
  BY <1>2, WhatStatementsSees
<1>6. Promise!GiveUp(some)
  BY <1>3, <1>4, <1>5 DEF Promise!GiveUp
<1> QED BY <1>6 DEF Promise!Next

LEMMA TheLargerOne ==
    ASSUME NEW c \in Nat, NEW a \in Nat, NEW b \in Nat, \A n \in Nat : n < c <=> n < a \/ n < b
    PROVE  c = IF b > a THEN b ELSE a
<1> DEFINE m == IF b > a THEN b ELSE a
<1>1. m \in Nat /\ ~(m < a) /\ ~(m < b) /\ (m = a \/ m = b)
  OBVIOUS
<1>2. ~(m < c)
  BY <1>1
<1>3. ~(c < m)
  <2>1. ~(c < c)
    OBVIOUS
  <2>2. ~(c < a) /\ ~(c < b)
    BY <2>1
  <2> QED BY <1>1, <2>2
<1> QED BY <1>1, <1>2, <1>3

(* The commit brings every count up to the statement's own: the numbers in  *)
(* the table are then those it had and those of the file.                   *)
LEMMA CommitMerges ==
    ASSUME PInv, PInv', ColumnsAreExact, NEW u \in Uploads, CommitUpload(u)
    PROVE  Promise!Next
<1> DEFINE f == up[u].file
           a == up[u].account
<1>1. /\ up[u].pc = "insert" /\ up'[u].pc = "done" /\ \A v \in Uploads \ {u} : up'[v] = up[v]
      /\ a \in Accounts /\ f \in File /\ up[u].new \subseteq DOMAIN f
      /\ DOMAIN rows' = DOMAIN rows \cup ({u} \X up[u].new)
      /\ \A x \in DOMAIN rows : rows'[x] = rows[x]
      /\ \A i \in up[u].new : RowKey(rows'[<<u, i>>]) = FileKey(a, f, i)
  BY CommitAddsItsRows DEF PInv, IdentityKey
<1>2. up'[u].answer \in {"saved", "unreachable"}
  BY DEF CommitUpload, PInv, IInv, TypeOK, UploadState
<1>3. ASSUME NEW b \in Bases
      PROVE  heldBar'[b] = IF statementBar[u][b] > heldBar[b]
                           THEN statementBar[u][b] ELSE heldBar[b]
  <2> DEFINE S == { i \in DOMAIN f : BaseOf(FileKey(a, f, i)) = b }
             H == LookAlikes(rows, b)
             H1 == LookAlikes(rows', b)
  <2>1. heldBar[b] = Cardinality(H) /\ heldBar'[b] = Cardinality(H1)
    BY WhatStatementsSees
  <2>2. statementBar[u][b] = Cardinality(S)
    <3>1. statementBar[u][b] = Cardinality({ i \in DOMAIN f :
                /\ up[u].pc # "done" /\ BaseOf(FileKey(a, f, i)) = b })
      BY WhatStatementsSees DEF Listed
    <3>2. { i \in DOMAIN f : /\ up[u].pc # "done" /\ BaseOf(FileKey(a, f, i)) = b } = S
      BY <1>1
    <3> QED BY <3>1, <3>2
  <2>3. /\ Cardinality(S) \in Nat
        /\ \A n \in Nat : (\E i \in S : Occurrence(f, i) = n) <=> n < Cardinality(S)
    BY <1>1, FileCountsItsNumbers
  <2>4. /\ Cardinality(H) \in Nat
        /\ \A n \in Nat : (\E x \in H : rows[x].occ = n) <=> n < Cardinality(H)
    <3>1. /\ IsFiniteSet(DOMAIN rows) /\ Distinct(rows) /\ Contiguous(rows)
          /\ \A x \in DOMAIN rows : rows[x] \in Row
      BY DEF PInv, IInv, TypeOK, NoTwoRowsAlike, Distinct
    <3> QED BY <3>1, TableCountsItsNumbers
  <2>5. /\ Cardinality(H1) \in Nat
        /\ \A n \in Nat : (\E x \in H1 : rows'[x].occ = n) <=> n < Cardinality(H1)
    <3>1. /\ IsFiniteSet(DOMAIN rows') /\ Distinct(rows') /\ Contiguous(rows')
          /\ \A x \in DOMAIN rows' : rows'[x] \in Row
      BY DEF PInv, IInv, TypeOK, NoTwoRowsAlike, Distinct
    <3> QED BY <3>1, TableCountsItsNumbers
  <2>6. ASSUME NEW n \in Nat, NEW x \in H1, rows'[x].occ = n
        PROVE  (\E y \in H : rows[y].occ = n) \/ (\E i \in S : Occurrence(f, i) = n)
    <3>1. CASE x \in DOMAIN rows
      BY <1>1, <2>6, <3>1 DEF LookAlikes
    <3>2. ASSUME NEW i \in up[u].new, x = <<u, i>>
          PROVE  i \in S /\ Occurrence(f, i) = n
      <4>1. RowKey(rows'[x]) = FileKey(a, f, i) /\ BaseOf(rows'[x]) = b
        BY <1>1, <3>2 DEF LookAlikes
      <4>2. BaseOf(FileKey(a, f, i)) = b /\ Occurrence(f, i) = n
        BY <2>6, <4>1 DEF RowKey, FileKey, BaseOf
      <4> QED BY <1>1, <4>2
    <3> QED BY <1>1, <3>1, <3>2 DEF LookAlikes
  <2>7. ASSUME NEW n \in Nat, NEW y \in H, rows[y].occ = n
        PROVE  \E x \in H1 : rows'[x].occ = n
    BY <1>1, <2>7 DEF LookAlikes
  <2>8. ASSUME NEW n \in Nat, NEW i \in S, Occurrence(f, i) = n
        PROVE  \E x \in H1 : rows'[x].occ = n
    <3>1. PICK x \in DOMAIN rows' : RowKey(rows'[x]) = FileKey(a, f, i)
      <4>1. CASE i \in up[u].new
        <5>1. <<u, i>> \in DOMAIN rows' /\ RowKey(rows'[<<u, i>>]) = FileKey(a, f, i)
          BY <1>1, <4>1
        <5> QED BY <5>1
      <4>2. CASE i \notin up[u].new
        <5>1. PICK y \in DOMAIN rows : RowKey(rows[y]) = FileKey(a, f, i)
          BY <1>1, <4>2 DEF PInv, Selected, IdentityKey
        <5> QED BY <1>1, <5>1
      <4> QED BY <4>1, <4>2
    <3>2. BaseOf(rows'[x]) = b /\ rows'[x].occ = n
      BY <2>8, <3>1 DEF RowKey, FileKey, BaseOf
    <3> QED BY <3>2 DEF LookAlikes
  <2> HIDE DEF S, H, H1
  <2>9. \A n \in Nat : n < Cardinality(H1) <=> n < Cardinality(H) \/ n < Cardinality(S)
    BY <2>3, <2>4, <2>5, <2>6, <2>7, <2>8
  <2>10. Cardinality(H1) = IF Cardinality(S) > Cardinality(H)
                           THEN Cardinality(S) ELSE Cardinality(H)
    BY <2>3, <2>4, <2>5, <2>9, TheLargerOne
  <2> QED BY <2>1, <2>2, <2>10
<1>4. heldBar' = Promise!Merged(statementBar[u])
  BY <1>3, WhatStatementsSees DEF Promise!Merged
<1>5. verdictBar[u] = "open"
  <2>1. Verdict(up[u]) = "open"
    BY <1>1, Verdicts DEF PInv, IInv, UploadsInv
  <2> QED BY <2>1, WhatStatementsSees
<1>6. \E v \in {"saved", "failed"} : verdictBar' = [verdictBar EXCEPT ![u] = v]
  <2>1. Verdict(up'[u]) \in {"saved", "failed"}
    BY <1>1, Verdicts
  <2>2. verdictBar' = [verdictBar EXCEPT ![u] = Verdict(up'[u])]
    BY <1>1, WhatStatementsSees
  <2> QED BY <2>1, <2>2
<1>7. statementBar' = [statementBar EXCEPT ![u] = Promise!Empty]
  <2>1. Listed(up'[u]) = Promise!Empty
    BY <1>1, NothingIsListed
  <2> QED BY <1>1, <2>1, WhatStatementsSees
<1>8. Promise!Merge(u)
  BY <1>4, <1>5, <1>6, <1>7 DEF Promise!Merge
<1> QED BY <1>8 DEF Promise!Next

(* An upload that arrives presents its file, or is turned down.             *)
LEMMA StartPresents ==
    ASSUME PInv, NEW u \in Uploads, NEW usr \in Users, NEW a \in Accounts, NEW f \in File,
           StartUpload(u, usr, a, f)
    PROVE  Promise!Next
<1>1. /\ up[u].pc = "idle" /\ up[u].file = << >> /\ up \in [Uploads -> UploadState]
      /\ up[u] \in UploadState /\ up[u].answer = "none" /\ heldBar' = heldBar
  <2>1. heldBar' = heldBar
    BY KeysKeptHeldKept DEF StartUpload
  <2> QED BY <2>1 DEF StartUpload, PInv, IInv, TypeOK, NothingYet, UploadsInv
<1>2. verdictBar[u] = "waiting" /\ statementBar[u] = Promise!Empty
  <2>1. Verdict(up[u]) = "waiting" /\ Listed(up[u]) = Promise!Empty
    BY <1>1, Verdicts, NothingIsListed
  <2> QED BY <2>1, WhatStatementsSees
<1>3. CASE Owner[a] # usr
  <2>1. up' = [up EXCEPT ![u] = AbandonedUpload("not_found")]
    BY <1>3 DEF StartUpload, OwnAccount, AbandonUpload
  <2>2. AbandonedUpload("not_found").pc = "done" /\ AbandonedUpload("not_found").answer # "saved"
    BY DEF AbandonedUpload, NoUpload
  <2>3. /\ Verdict(AbandonedUpload("not_found")) = "failed"
        /\ Listed(AbandonedUpload("not_found")) = Promise!Empty
    BY <2>2, Verdicts, NothingIsListed
  <2>4. verdictBar' = [verdictBar EXCEPT ![u] = "failed"] /\ statementBar' = statementBar
    BY <1>1, <1>2, <2>1, <2>3, WhatStatementsSees
  <2>5. Promise!TurnDown(u)
    BY <1>1, <1>2, <2>4 DEF Promise!TurnDown
  <2> QED BY <2>5 DEF Promise!Next
<1>4. CASE Owner[a] = usr
  <2> DEFINE r == [up[u] EXCEPT !.pc = "dedup", !.user = usr, !.account = a,
                                !.file = f, !.prior = Answered]
  <2>1. up' = [up EXCEPT ![u] = r]
    BY <1>4, NumberingSound DEF StartUpload, OwnAccount
  <2>2. r.pc = "dedup" /\ r.account = a /\ r.file = f /\ r.answer # "saved"
    BY <1>1 DEF UploadState
  <2> HIDE DEF r
  <2>3. Verdict(r) = "open"
    BY <2>2, Verdicts
  <2>4. Listed(r) \in [Bases -> 0..MaxRows]
    <3> SUFFICES ASSUME NEW b \in Bases
                 PROVE  Cardinality({ i \in DOMAIN f :
                           /\ r.pc # "done" /\ BaseOf(FileKey(a, f, i)) = b }) \in 0..MaxRows
      BY <2>2 DEF Listed
    <3>1. { i \in DOMAIN f : /\ r.pc # "done" /\ BaseOf(FileKey(a, f, i)) = b }
             = { i \in DOMAIN f : BaseOf(FileKey(a, f, i)) = b }
      BY <2>2
    <3> QED BY <3>1, FileCountsItsNumbers
  <2>5. /\ verdictBar' = [verdictBar EXCEPT ![u] = "open"]
        /\ statementBar' = [statementBar EXCEPT ![u] = Listed(r)]
    BY <1>1, <2>1, <2>3, WhatStatementsSees
  <2>6. Promise!Present(u)
    BY <1>1, <1>2, <2>4, <2>5 DEF Promise!Present
  <2> QED BY <2>6 DEF Promise!Next
<1> QED BY <1>3, <1>4

(* What a step that Statements does not see leaves as it is.                *)
LEMMA UnseenSteps ==
    ASSUME heldBar' = heldBar,
           \A u \in Uploads : Listed(up'[u]) = Listed(up[u]) /\ Verdict(up'[u]) = Verdict(up[u])
    PROVE  UNCHANGED Promise!vars
BY WhatStatementsSees DEF Promise!vars

(* A step of an open upload that does not end it. *)
LEMMA OpenStaysOpen ==
    ASSUME IInv, NEW u \in Uploads, heldBar' = heldBar, SelectExisting(u) \/ InsertRow(u)
    PROVE  UNCHANGED Promise!vars
<1>1. /\ up \in [Uploads -> UploadState] /\ up[u] \in UploadState
      /\ up[u].pc \in {"dedup", "insert"} /\ up[u].answer = "none"
  BY DEF IInv, TypeOK, UploadsInv, SelectExisting, InsertRow, IsNext
<1>2. /\ up'[u].pc = "insert" /\ up'[u].file = up[u].file /\ up'[u].account = up[u].account
      /\ up'[u].answer = "none" /\ \A v \in Uploads \ {u} : up'[v] = up[v]
  <2>1. CASE SelectExisting(u)
    BY <1>1, <2>1 DEF SelectExisting, UploadState
  <2>2. CASE InsertRow(u)
    <3>1. PICK i \in 1..MaxRows : IsNext(u, i) /\ up' = [up EXCEPT ![u].ins = @ \cup {i}]
      BY <2>2 DEF InsertRow
    <3> QED BY <1>1, <3>1 DEF IsNext, UploadState
  <2> QED BY <2>1, <2>2
<1>3. Listed(up'[u]) = Listed(up[u])
  BY <1>1, <1>2 DEF Listed
<1>4. Verdict(up'[u]) = Verdict(up[u])
  BY <1>1, <1>2, Verdicts
<1> QED BY <1>2, <1>3, <1>4, UnseenSteps

(* Every step is one of Statements, or unseen there.                        *)
LEMMA StepIsPromised ==
    ASSUME ColumnsAreExact, NothingIsRenamed
    PROVE  PInv /\ PInv' /\ [Next]_vars => [Promise!Next]_(Promise!vars)
<1> SUFFICES ASSUME PInv, PInv', [Next]_vars PROVE [Promise!Next]_(Promise!vars)
  OBVIOUS
<1>1. IInv /\ up \in [Uploads -> UploadState]
  BY DEF PInv, IInv, TypeOK
<1>2. CASE \E u \in Uploads : CommitUpload(u)
  BY <1>2, CommitMerges
<1>3. CASE \E u \in Uploads, usr \in Users, a \in Accounts, f \in File :
              StartUpload(u, usr, a, f)
  BY <1>3, StartPresents
<1>4. CASE ~ \E u \in Uploads : CommitUpload(u)
  <2>1. heldBar' = heldBar
    BY <1>1, <1>4, OtherStepsKeepKeys, KeysKeptHeldKept
  <2>2. CASE up' = up
    BY <2>1, <2>2, UnseenSteps
  <2>3. CASE \E u \in Uploads : SelectExisting(u) \/ InsertRow(u)
    BY <1>1, <2>1, <2>3, OpenStaysOpen
  <2>4. ASSUME NEW u \in Uploads, up[u].pc \in {"dedup", "insert"},
               NEW reply \in {"conflict", "refused", "deadlock", "error", "unreachable"},
               AbandonUpload(u, reply)
        PROVE  Promise!Next
    <3>1. /\ up'[u].pc = "done" /\ up'[u].answer # "saved"
          /\ \A v \in Uploads \ {u} : up'[v] = up[v]
      BY <1>1, <2>4 DEF AbandonUpload, AbandonedUpload, NoUpload
    <3> DEFINE some == {u}
    <3>2. /\ some \in SUBSET Uploads /\ some # {}
          /\ \A v \in some : /\ up[v].pc \in {"dedup", "insert"}
                             /\ up'[v].pc = "done" /\ up'[v].answer # "saved"
          /\ \A v \in Uploads \ some : up'[v] = up[v]
      BY <2>4, <3>1
    <3> HIDE DEF some
    <3> QED BY <1>1, <2>1, <3>2, AbandonedAreGivenUp
  <2>5. ASSUME NEW u \in Uploads, \/ InsertConflict(u) \/ InsertRefused(u)
                                  \/ UploadDeadlock(u) \/ UploadDisconnected(u)
        PROVE  Promise!Next
    <3>1. CASE InsertConflict(u)
      <4>1. Needs(u) # {}
        BY <3>1, ConstantsAssumption DEF InsertConflict, Taken, ConstantsAssumption
      <4> QED BY <1>1, <2>4, <3>1, <4>1, NeedsKeyNow DEF InsertConflict
    <3>2. CASE InsertRefused(u)
      BY <2>4, <3>2 DEF InsertRefused, IsNext
    <3>3. CASE UploadDeadlock(u)
      <4>1. Needs(u) # {}
        BY <3>3 DEF UploadDeadlock, InRing, WaitsFor
      <4> QED BY <1>1, <2>4, <3>3, <4>1, NeedsKeyNow DEF UploadDeadlock
    <3>4. CASE UploadDisconnected(u)
      BY <2>4, <3>4 DEF UploadDisconnected
    <3> QED BY <2>5, <3>1, <3>2, <3>3, <3>4
  <2>6. CASE Crash
    <3> DEFINE some == { u \in Uploads : up[u].pc \in {"dedup", "insert"} }
    <3>1. /\ \A u \in some : up'[u].pc = "done" /\ up'[u].answer # "saved"
          /\ \A u \in Uploads \ some : up'[u] = up[u]
      <4>1. \A u \in Uploads : up'[u] = IF u \in some THEN AbandonedUpload("lost") ELSE up[u]
        BY <2>6 DEF Crash
      <4>2. AbandonedUpload("lost").pc = "done" /\ AbandonedUpload("lost").answer # "saved"
        BY DEF AbandonedUpload, NoUpload
      <4> QED BY <4>1, <4>2
    <3>2. CASE some = {}
      BY <2>1, <3>1, <3>2, UnseenSteps
    <3>3. CASE some # {}
      <4>1. /\ some \in SUBSET Uploads /\ IInv
            /\ \A u \in some : /\ up[u].pc \in {"dedup", "insert"}
                               /\ up'[u].pc = "done" /\ up'[u].answer # "saved"
            /\ \A u \in Uploads \ some : up'[u] = up[u]
        BY <1>1, <3>1
      <4> HIDE DEF some
      <4>2. some # {}
        BY <3>3
      <4> QED BY <2>1, <4>1, <4>2, AbandonedAreGivenUp, Zenon
    <3> QED BY <3>2, <3>3
  <2>7. \/ up' = up \/ Crash
        \/ \E u \in Uploads, usr \in Users, a \in Accounts, f \in File :
              StartUpload(u, usr, a, f)
        \/ \E u \in Uploads : \/ SelectExisting(u) \/ InsertRow(u)
                              \/ InsertConflict(u) \/ InsertRefused(u)
                              \/ UploadDeadlock(u) \/ UploadDisconnected(u)
    BY <1>4 DEF Next, UploadStep, EditStep, StartEdit, CheckCategory, LockRow, WriteRow,
       RefreshRow, EditDeadlock, EditDisconnected, DeleteCategory, AllAnswered, vars
  <2> QED BY <1>3, <2>2, <2>3, <2>5, <2>6, <2>7
<1> QED BY <1>2, <1>4

(* The invariant behind the promise holds of every ledger. *)
THEOREM PromiseInvariant ==
    ASSUME ColumnsAreExact, NothingIsRenamed
    PROVE  Spec => []PInv
<1>1. PInv /\ [Next]_vars => PInv'
  BY NextKeepsPInv
<1> QED BY <1>1, InitPInv, PTL DEF Spec

(* However many uploads, edits, accounts and rows there are: an upload that *)
(* is saved has in one step brought every count up to its statement's own,  *)
(* one that is not has done that or nothing (upload.py:33-97,               *)
(* csv_service.py:88-129, transaction_service.py:202-274).                  *)
THEOREM UploadsKeepTheirPromise ==
    ASSUME ColumnsAreExact, NothingIsRenamed
    PROVE  Spec => KeepsPromise
<1>1. PInv /\ PInv' /\ [Next]_vars => [Promise!Next]_(Promise!vars)
  BY StepIsPromised
<1> QED BY <1>1, InitIsPromised, PromiseInvariant, PTL DEF Spec, KeepsPromise, Promise!Spec

(* Copies of a transaction are numbered without a gap                       *)
(* (csv_service.py:103-111).                                                *)
THEOREM CopiesHaveNoGap ==
    ASSUME ColumnsAreExact, NothingIsRenamed
    PROVE  Spec => []OccurrencesContiguous
<1>1. PInv => OccurrencesContiguous
  BY DEF PInv, Contiguous, OccurrencesContiguous
<1> QED BY <1>1, PromiseInvariant, PTL
-----------------------------------------------------------------------------
(* A conflict is the doing of another request.                              *)

(* A request that had not been answered when u arrived has begun. *)
Overlapped(u) ==
    \/ \E v \in Uploads \ {u} : up[v].pc # "idle" /\ v \notin up[u].prior
    \/ \E e \in Edits : ed[e].pc # "idle" /\ e \notin up[u].prior

(* No row of the table has the key of one that u is to insert. *)
SelectStillHolds(u) ==
    \A i \in up[u].new, x \in DOMAIN rows : RowKey(rows[x]) # IdentityKey(u, i)

(* What an upload found in its SELECT goes stale only by the doing of a     *)
(* request that overlaps it; one that had been answered stays so.           *)
RaceInv ==
    /\ IInv
    /\ \A u \in Uploads : up[u].prior \subseteq Answered
    /\ \A u \in Uploads : up[u].pc = "insert" => SelectStillHolds(u) \/ Overlapped(u)

(* What one step does to one edit.                                          *)
LEMMA EditMoves ==
    ASSUME IInv, [Next]_vars, NEW e \in Edits
    PROVE  \/ ed'[e] = ed[e]
           \/ (ed[e].pc # "done" /\ ed'[e].pc # "idle")
<1> DEFINE Moves(d) == ed[d].pc # "done" /\ ed'[d].pc # "idle"
                         /\ \A c \in Edits \ {d} : ed'[c] = ed[c]
<1>1. ed \in [Edits -> EditState]
  BY DEF IInv, TypeOK
<1>2. ASSUME NEW d \in Edits, NEW r, r.pc # "idle", ed[d].pc # "done",
             ed' = [ed EXCEPT ![d] = r]
      PROVE  Moves(d)
  BY <1>1, <1>2
<1>3. ASSUME NEW d \in Edits, NEW reply, ed[d].pc # "done", FinishEdit(d, reply)
      PROVE  Moves(d)
  <2>1. AnsweredEdit(reply).pc # "idle"
    BY DEF AnsweredEdit, NoEdit
  <2> QED BY <1>2, <1>3, <2>1 DEF FinishEdit
<1>4. ASSUME NEW d \in Edits, NEW usr \in Users, NEW id \in Ids, NEW p \in Payload,
             StartEdit(d, usr, id, p)
      PROVE  Moves(d)
  <2>1. CASE FinishEdit(d, "not_found") \/ FinishEdit(d, "unchanged")
    BY <1>3, <1>4, <2>1 DEF StartEdit
  <2>2. CASE ~(FinishEdit(d, "not_found") \/ FinishEdit(d, "unchanged"))
    <3> DEFINE r == [ed[d] EXCEPT !.pc = IF p.category # None THEN "category" ELSE "lock",
                                  !.user = usr, !.id = id, !.payload = p,
                                  !.old = [merchant |-> rows[id].merchant,
                                           category |-> rows[id].category]]
    <3>1. ed' = [ed EXCEPT ![d] = r]
      BY <1>4, <2>2 DEF StartEdit
    <3>2. r.pc # "idle"
      BY <1>1 DEF EditState
    <3> HIDE DEF r
    <3> QED BY <1>2, <1>4, <3>1, <3>2 DEF StartEdit
  <2> QED BY <2>1, <2>2
<1>5. ASSUME NEW d \in Edits, EditStep(d) \/ EditDisconnected(d)
      PROVE  Moves(d)
  <2>1. ASSUME NEW pc \in {"lock", "write", "refresh"}, ed[d].pc # "done",
               ed' = [ed EXCEPT ![d].pc = pc]
        PROVE  Moves(d)
    BY <1>1, <2>1 DEF EditState
  <2>2. CASE CheckCategory(d)
    BY <1>3, <2>1, <2>2 DEF CheckCategory
  <2>3. CASE LockRow(d)
    BY <2>1, <2>3 DEF LockRow
  <2>4. CASE WriteRow(d)
    BY <1>3, <2>1, <2>4 DEF WriteRow
  <2>5. CASE RefreshRow(d)
    BY <1>3, <2>5 DEF RefreshRow
  <2>6. CASE EditDeadlock(d)
    <3>1. Needs(d) # {}
      BY <2>6 DEF EditDeadlock, InRing, WaitsFor
    <3>2. ed[d].pc # "done"
      BY <3>1, NeedsKeyNow
    <3> QED BY <1>3, <2>6, <3>2 DEF EditDeadlock
  <2>7. CASE EditDisconnected(d)
    BY <1>3, <2>7 DEF EditDisconnected
  <2> QED BY <1>5, <2>2, <2>3, <2>4, <2>5, <2>6, <2>7 DEF EditStep
<1>6. CASE Crash
  BY <1>6 DEF Crash, AnsweredEdit, NoEdit
<1>7. CASE \E d \in Edits : \/ \E usr \in Users, id \in Ids, p \in Payload :
                                 StartEdit(d, usr, id, p)
                           \/ EditStep(d) \/ EditDisconnected(d)
  BY <1>4, <1>5, <1>7
<1>8. \/ ed' = ed \/ Crash
      \/ \E d \in Edits : \/ \E usr \in Users, id \in Ids, p \in Payload :
                                StartEdit(d, usr, id, p)
                          \/ EditStep(d) \/ EditDisconnected(d)
  BY DEF Next, StartUpload, UploadStep, SelectExisting, InsertRow, InsertConflict, InsertRefused,
     CommitUpload, UploadDeadlock, UploadDisconnected, DeleteCategory, AllAnswered, vars
<1> QED BY <1>6, <1>7, <1>8

(* Requests that have begun do not become idle again, nor those answered    *)
(* unanswered.                                                              *)
LEMMA RequestsGoForward ==
    ASSUME IInv, [Next]_vars
    PROVE  /\ \A u \in Uploads : up[u].pc # "idle" => up'[u].pc # "idle"
           /\ \A e \in Edits : ed[e].pc # "idle" => ed'[e].pc # "idle"
           /\ Answered \subseteq Answered'
<1>1. ASSUME NEW u \in Uploads
      PROVE  /\ up[u].pc # "idle" => up'[u].pc # "idle"
             /\ up[u].pc = "done" => up'[u].pc = "done"
  <2>1. CASE SelectExisting(u)
    BY <2>1, SelectMoves
  <2> QED BY <2>1, UploadMoves DEF Begins, Ends, GoesOn
<1>2. ASSUME NEW e \in Edits
      PROVE  /\ ed[e].pc # "idle" => ed'[e].pc # "idle"
             /\ ed[e].pc = "done" => ed'[e].pc = "done"
  <2>1. ed'[e] = ed[e] \/ (ed'[e].pc # "idle" /\ ed[e].pc # "done")
    BY EditMoves
  <2> QED BY <2>1
<1> QED BY <1>1, <1>2 DEF Answered

LEMMA InitRaceInv == Init => RaceInv
<1> SUFFICES ASSUME Init PROVE RaceInv
  OBVIOUS
<1> QED BY InitIInv DEF Init, RaceInv, NoUpload

(* An upload that remains at its INSERTs: its SELECT goes stale in the      *)
(* commit of another upload or of an edit, neither answered before.         *)
LEMMA StaleByOthers ==
    ASSUME RaceInv, [Next]_vars, NEW u \in Uploads,
           up[u].pc = "insert", up'[u].pc = "insert", up'[u].prior = up[u].prior,
           rows' # rows
    PROVE  Overlapped(u)'
<1>1. up[u].prior \subseteq Answered /\ IInv
  BY DEF RaceInv
<1>2. ASSUME NEW v \in Uploads, CommitUpload(v)
      PROVE  Overlapped(u)'
  <2>1. up[v].pc = "insert" /\ v \notin Edits
    BY <1>2, ConstantsAssumption DEF CommitUpload, ConstantsAssumption
  <2>2. up'[v].pc # "idle" /\ v \notin up'[u].prior
    BY <1>1, <2>1, RequestsGoForward DEF Answered
  <2>3. Ends(v)
    BY <1>1, <1>2, CommitEnds
  <2>4. v # u
    BY <2>3 DEF Ends
  <2> QED BY <2>2, <2>4 DEF Overlapped
<1>3. ASSUME NEW e \in Edits, WriteRow(e)
      PROVE  Overlapped(u)'
  <2>1. ed[e].pc = "write" /\ e \notin Uploads
    BY <1>3, ConstantsAssumption DEF WriteRow, ConstantsAssumption
  <2>2. ed'[e].pc # "idle" /\ e \notin up'[u].prior
    BY <1>1, <2>1, RequestsGoForward DEF Answered
  <2> QED BY <2>2 DEF Overlapped
<1> QED BY <1>2, <1>3, WhoWritesRows DEF vars

LEMMA NextKeepsRaceInv == RaceInv /\ [Next]_vars => RaceInv'
<1> SUFFICES ASSUME RaceInv, [Next]_vars PROVE RaceInv'
  OBVIOUS
<1>1. IInv /\ IInv' /\ Answered \subseteq Answered'
  BY NextKeepsIInv, RequestsGoForward DEF RaceInv
<1>2. ASSUME NEW u \in Uploads PROVE up'[u].prior \subseteq Answered'
  <2>1. CASE SelectExisting(u)
    BY <1>1, <2>1, SelectMoves DEF RaceInv
  <2> QED BY <1>1, <2>1, UploadMoves DEF RaceInv, Begins, Ends, GoesOn
<1>3. ASSUME NEW u \in Uploads, up'[u].pc = "insert"
      PROVE  SelectStillHolds(u)' \/ Overlapped(u)'
  <2>1. CASE SelectExisting(u)
    <3>1. /\ rows' = rows /\ up'[u].account = up[u].account /\ up'[u].file = up[u].file
          /\ \A i \in up'[u].new : \A id \in DOMAIN rows : RowKey(rows[id]) # IdentityKey(u, i)
      BY <2>1, <1>1, SelectMoves
    <3> QED BY <3>1 DEF SelectStillHolds, IdentityKey
  <2>2. CASE /\ up[u].pc = "insert"
             /\ up'[u].file = up[u].file /\ up'[u].account = up[u].account
             /\ up'[u].new = up[u].new /\ up'[u].prior = up[u].prior
    <3>1. CASE rows' # rows
      BY <1>3, <2>2, <3>1, StaleByOthers
    <3>2. CASE rows' = rows /\ SelectStillHolds(u)
      BY <2>2, <3>2 DEF SelectStillHolds, IdentityKey
    <3>3. CASE Overlapped(u)
      BY <1>1, <2>2, <3>3, RequestsGoForward DEF Overlapped
    <3> QED BY <2>2, <3>1, <3>2, <3>3 DEF RaceInv
  <2> QED BY <1>1, <1>3, <2>1, <2>2, UploadMoves DEF Begins, Ends, GoesOn
<1> QED BY <1>1, <1>2, <1>3 DEF RaceInv

(* The only step that answers a conflict finds its key taken; by a row of   *)
(* the table, since a file's own keys differ.                               *)
LEMMA TakenByTheTable ==
    ASSUME IInv, ColumnsAreExact, NEW u \in Uploads, InsertConflict(u)
    PROVE  up[u].pc = "insert" /\ ~SelectStillHolds(u)
<1>1. /\ up[u] \in UploadState /\ u \notin Edits
      /\ up[u].account \in Accounts \/ up[u].pc # "insert"
      /\ up[u].pc = "insert" => up[u].new \subseteq DOMAIN up[u].file
      /\ up[u].ins \subseteq up[u].new
      /\ \A i \in up[u].ins : Rounded[up[u].file[i].facts] # None
  BY ConstantsAssumption DEF IInv, TypeOK, UploadsInv, ConstantsAssumption
<1>2. PICK i \in up[u].new : /\ IsNext(u, i)
                            /\ \/ \E id \in DOMAIN rows : RowKey(rows[id]) = StoredKey(u, i)
                               \/ \E j \in up[u].ins : StoredKey(u, i) = StoredKey(u, j)
  BY <1>1 DEF InsertConflict, Taken, Needs, Holds
<1>3. up[u].pc = "insert" /\ up[u].file \in File /\ i \notin up[u].ins /\ i \in DOMAIN up[u].file
  BY <1>1, <1>2 DEF IsNext, UploadState
<1>4. \A k \in DOMAIN up[u].file : up[u].file[k] \in Line
  BY <1>3, OccurrenceType
<1>5. ASSUME NEW k \in DOMAIN up[u].file, Rounded[up[u].file[k].facts] # None
      PROVE  StoredKey(u, k) = IdentityKey(u, k)
  BY <1>4, <1>5 DEF ColumnsAreExact, Line, StoredKey, IdentityKey, FileKey
<1>6. \A k \in DOMAIN up[u].file : StoredKey(u, k).facts = Rounded[up[u].file[k].facts]
  BY DEF StoredKey, IdentityKey, FileKey
<1>7. ASSUME NEW id \in DOMAIN rows, RowKey(rows[id]) = StoredKey(u, i)
      PROVE  ~SelectStillHolds(u)
  <2>1. rows[id] \in Row
    BY DEF IInv, TypeOK
  <2>2. RowKey(rows[id]).facts = rows[id].facts /\ rows[id].facts # None
    BY <2>1, ConstantsAssumption DEF RowKey, Row, ConstantsAssumption
  <2>3. Rounded[up[u].file[i].facts] # None
    BY <1>3, <1>6, <1>7, <2>2
  <2> QED BY <1>3, <1>5, <1>7, <2>3 DEF SelectStillHolds
<1>8. ASSUME NEW j \in up[u].ins, StoredKey(u, i) = StoredKey(u, j)
      PROVE  FALSE
  <2>1. j \in DOMAIN up[u].file /\ Rounded[up[u].file[j].facts] # None
    BY <1>1, <1>3
  <2>2. Rounded[up[u].file[i].facts] # None
    BY <1>3, <1>6, <1>8, <2>1
  <2>3. IdentityKey(u, i) = IdentityKey(u, j)
    BY <1>3, <1>5, <1>8, <2>1, <2>2
  <2>4. KeysDistinct(up[u].account, up[u].file)
    BY <1>1, <1>3, NumberingSound
  <2> QED BY <1>3, <2>1, <2>3, <2>4 DEF KeysDistinct, IdentityKey
<1> QED BY <1>2, <1>3, <1>7, <1>8

(* Uploads and edits in whatever number and order: an upload meets a unique *)
(* violation only if another request overlapped it                          *)
(* (transaction_service.py:229-254).                                        *)
THEOREM ConflictsAreRaces ==
    ASSUME ColumnsAreExact
    PROVE  Spec => ConflictMeansRace
<1> DEFINE Raced(u) ==
      up'[u].answer = "conflict" /\ up[u].answer # "conflict" =>
          \/ \E v \in Uploads \ {u} : up[v].pc # "idle" /\ v \notin up[u].prior
          \/ \E e \in Edits : ed[e].pc # "idle" /\ e \notin up[u].prior
<1>1. RaceInv /\ [Next]_vars => [\A u \in Uploads : Raced(u)]_vars
  <2> SUFFICES ASSUME RaceInv, [Next]_vars, NEW u \in Uploads,
                      up'[u].answer = "conflict", up[u].answer # "conflict"
               PROVE  Overlapped(u)
    BY DEF Overlapped
  <2>1. InsertConflict(u)
    <3>1. IInv /\ [Next]_vars /\ ~(up'[u] = up[u])
      BY DEF RaceInv
    <3>2. CASE SelectExisting(u)
      BY <3>1, <3>2, SelectMoves DEF IInv, UploadsInv
    <3> QED BY <3>1, <3>2, UploadMoves DEF Begins, Ends, GoesOn
  <2>2. up[u].pc = "insert" /\ ~SelectStillHolds(u)
    BY <2>1, TakenByTheTable DEF RaceInv
  <2> QED BY <2>2 DEF RaceInv
<1>2. RaceInv /\ [Next]_vars => RaceInv'
  BY NextKeepsRaceInv
<1> QED BY <1>1, <1>2, InitRaceInv, PTL DEF Spec, ConflictMeansRace
===============================================================================
