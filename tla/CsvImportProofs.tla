--------------------------- MODULE CsvImportProofs ---------------------------
(***************************************************************************)
(* Proofs, for files of any length, any accounts, descriptions and limit,  *)
(* that every row is accounted for, that look-alike rows are numbered by   *)
(* position, that what identifies a row is the bank's own account of it,   *)
(* and that the counters of the answer are exact.                          *)
(***************************************************************************)
EXTENDS CsvImport, FiniteSetTheorems, TLAPS

Kinds == {"EXPENSE", "INCOME", "INTEREST", "INTERNAL_TRANSFER", "EXTERNAL_TRANSFER"}
Operations == {"Gross Interest", "Deposit", "Withdrawal"}
Keys == [start : {"today"}, amount : {"+", "0", "-"}, merchant : Texts \cup Operations]
Items == [row : Nat, key : Keys, kind : Kinds, occurrence : Nat]
Failures == [row : Nat, code : RowErrors]
Issues == [row : Nat, code : RowErrors \cup {"PENDING_REFUND", "DUPLICATE_TRANSACTION"}]

Typed ==
    /\ file \in Files \cup {None} /\ own \in SUBSET OwnNames
    /\ stage \in {"idle", "parse", "number", "save", "done"}
    /\ pos \in Nat
    /\ outcome \in [parsed : Seq(Items), skipped : Seq(Issues), failed : Seq(Failures)]
    /\ report \in [saved : Seq(Items), duplicates : Seq(Issues)]
    /\ seen \in SUBSET [key : Keys, nth : Nat]

(* Where the import is in its lists. *)
Placed ==
    /\ stage = "idle" => /\ file = None /\ pos = 0 /\ outcome = NoOutcome
                         /\ seen = {} /\ report = NoReport /\ reply = None
    /\ stage # "idle" => file \in Files /\ pos <= Len(file.rows)
    /\ stage \in {"parse", "number", "save"} => reply = None /\ FileError(file) = "ok"
    /\ stage \in {"number", "save"} => pos <= Len(outcome.parsed)
    /\ stage = "parse" => seen = {}
    /\ stage \in {"parse", "number"} => report = NoReport

(* The lists hold the rows so far, each in file order. *)
Sorted(list) == \A i, j \in DOMAIN list : i < j => list[i].row < list[j].row
Accounted(done) ==
    /\ Rows(outcome.parsed) \cup Rows(outcome.skipped) \cup Rows(outcome.failed) = 1..done
    /\ Len(outcome.parsed) + Len(outcome.skipped) + Len(outcome.failed) = done
    /\ Sorted(outcome.parsed) /\ Sorted(outcome.skipped) /\ Sorted(outcome.failed)
AllRead == stage \in {"number", "save"} \/ (stage = "done" /\ reply.status = "ok")

(* A parsed row is identified as its twins are, whatever the accounts. *)
IsTheBanks(f, row, key) ==
    /\ row \in 1..Len(f.rows)
    /\ \A twin \in Twins(Format(f), f.rows[row]), accounts \in SUBSET OwnNames :
          /\ SkipCheck(Format(f), twin) = "parse" /\ RowError(Format(f), twin) = "ok"
          /\ IdentityKey(Transaction(Format(f), twin, accounts)) = key
Identified ==
    \A n \in DOMAIN outcome.parsed :
        IsTheBanks(file, outcome.parsed[n].row, outcome.parsed[n].key)

(* The first n rows of a list with this key; the numbering of the first m.  *)
Alike(list, n, key) == { k \in 1..n : list[k].key = key }
Numbered(m) ==
    \A n \in 1..m :
        outcome.parsed[n].occurrence =
            Cardinality(Alike(outcome.parsed, n - 1, outcome.parsed[n].key))
Counting ==
    /\ IsFiniteSet(seen)
    /\ \A key \in Keys : SeenBefore(key) = Cardinality(Alike(outcome.parsed, pos, key))
    /\ \A s \in seen : s.nth < Cardinality(Alike(outcome.parsed, pos, s.key))

Exact ==
    /\ reply.parsed + reply.skipped + reply.failed = reply.total
    /\ reply.saved + reply.duplicates = reply.parsed
    /\ reply.saved = Len(reply.transactions)
    /\ reply.truncated <=>
          \/ Len(reply.listed.duplicates) < reply.duplicates
          \/ Len(reply.listed.skipped) < reply.skipped
          \/ Len(reply.listed.failed) < reply.failed
Replied ==
    /\ stage = "done" => reply.status \in FileErrors \cup {"ok", "INTERNAL_ERROR"}
    /\ stage = "done" /\ reply.status = "ok" => Exact

(* The inductive invariant. *)
IInv ==
    /\ Typed /\ Placed /\ Replied /\ Identified
    /\ stage = "parse" => Accounted(pos)
    /\ AllRead => Accounted(Len(file.rows))
    /\ stage = "number" => Numbered(pos) /\ Counting
    /\ AllRead /\ stage # "number" => Numbered(Len(outcome.parsed))
    /\ stage = "save" => Len(report.saved) + Len(report.duplicates) = pos
-----------------------------------------------------------------------------
(* What rows mean.                                                          *)

(* The files that are read have an account format or the saving one.        *)
LEMMA ReadFormats ==
    ASSUME NEW f \in Files
    PROVE  /\ f.rows \in Seq(IF f.header = "saving" THEN SavingRows ELSE AccountRows)
           /\ FileError(f) \in FileErrors \cup {"ok", "INTERNAL_ERROR"}
           /\ FileError(f) = "ok" => f.header \in {"account", "both", "saving"}
BY CsvConstants DEF CsvConstants, IsFile, FileError, FileErrors

LEMMA RowOfFormat ==
    ASSUME NEW f \in Files, FileError(f) = "ok", NEW n \in 1..Len(f.rows)
    PROVE  /\ Len(f.rows) \in Nat
           /\ \/ Format(f) = "account" /\ f.rows[n] \in AccountRows
              \/ Format(f) = "saving" /\ f.rows[n] \in SavingRows
<1>1. f.header \in {"account", "both", "saving"}
      /\ f.rows \in Seq(IF f.header = "saving" THEN SavingRows ELSE AccountRows)
  BY ReadFormats
<1>2. CASE f.header = "saving"
  BY <1>1, <1>2 DEF Format
<1>3. CASE f.header # "saving"
  BY <1>1, <1>3 DEF Format
<1> QED BY <1>2, <1>3

(* A transfer loses its prefix to own accounts and to others alike, so that *)
(* the accounts the caller has do not show in the merchant.                 *)
LEMMA MerchantKnowsNoAccounts ==
    ASSUME NEW row \in AccountRows, NEW A \in SUBSET OwnNames, NEW B \in SUBSET OwnNames
    PROVE  EditDescription(AccountKind(row, A), row.text)
              = EditDescription(AccountKind(row, B), row.text)
BY DEF AccountKind, EditDescription

LEMMA TextsStayTexts ==
    ASSUME NEW text \in Texts, NEW kind
    PROVE  Merchant(EditDescription(kind, text)) \in Texts
<1>1. EditDescription(kind, text) \in Texts
  BY DEF EditDescription, Texts
<1>2. ASSUME NEW t \in Texts PROVE Merchant(t) \in Texts
  BY CsvConstants DEF CsvConstants, Merchant, Texts
<1> QED BY <1>1, <1>2

LEMMA AccountMeaning ==
    ASSUME NEW row \in AccountRows, AccountError(row) = "ok",
           NEW A \in SUBSET OwnNames, NEW B \in SUBSET OwnNames
    PROVE  /\ AccountTransaction(row, A).kind \in Kinds
           /\ IdentityKey(AccountTransaction(row, A)) \in Keys
           /\ IdentityKey(AccountTransaction(row, A)) = IdentityKey(AccountTransaction(row, B))
<1>1. AccountKind(row, A) \in Kinds
  BY DEF AccountKind, AccountError, AccountRows, Kinds
<1>2. row.amount \in {"+", "0", "-"} /\ row.start = "today" /\ row.text \in Texts
  BY DEF AccountError, AccountRows
<1> DEFINE merchant(C) == Merchant(EditDescription(AccountKind(row, C), row.text))
<1>3. merchant(A) \in Texts /\ merchant(A) = merchant(B)
  BY <1>2, TextsStayTexts, MerchantKnowsNoAccounts
<1>4. \A C \in {A, B} :
        AccountTransaction(row, C) = [start |-> row.start, amount |-> row.amount,
                                      kind |-> AccountKind(row, C), merchant |-> merchant(C)]
  BY DEF AccountTransaction
<1> HIDE DEF merchant
<1>5. \A C \in {A, B} :
        IdentityKey(AccountTransaction(row, C))
           = [start |-> row.start, amount |-> row.amount, merchant |-> merchant(C)]
  BY <1>4 DEF IdentityKey
<1> QED BY <1>1, <1>2, <1>3, <1>4, <1>5 DEF Keys

(* Neither does the state, once it lets the row be parsed. *)
LEMMA StateMeansNothing ==
    ASSUME NEW row \in AccountRows, AccountError(row) = "ok",
           NEW twin \in Twins("account", row), NEW accounts
    PROVE  /\ SkipCheck("account", twin) = "parse" /\ AccountError(twin) = "ok"
           /\ AccountTransaction(twin, accounts) = AccountTransaction(row, accounts)
<1>1. PICK state \in {"COMPLETED", "REVERTED"} : twin = [row EXCEPT !.state = state]
  BY DEF Twins
<1>2. /\ twin.state = state /\ twin.type = row.type /\ twin.amount = row.amount
      /\ twin.start = row.start /\ twin.text = row.text
  BY <1>1 DEF AccountRows
<1>3. SkipCheck("account", twin) = "parse" /\ AccountError(twin) = "ok"
  BY <1>2 DEF SkipCheck, AccountError
<1>4. AccountKind(twin, accounts) = AccountKind(row, accounts)
  BY <1>2 DEF AccountKind
<1>5. AccountTransaction(twin, accounts) = AccountTransaction(row, accounts)
  BY <1>2, <1>4 DEF AccountTransaction
<1> QED BY <1>3, <1>5

LEMMA SavingMeaning ==
    ASSUME NEW row \in SavingRows, SavingError(row) = "ok"
    PROVE  /\ SavingTransaction(row).kind \in Kinds
           /\ IdentityKey(SavingTransaction(row)) \in Keys
<1>1. row.date = "today" /\ row.operation \in Operations
  BY DEF SavingError, SavingRows, Operations
<1>2. row.operation # "Withdrawal" => row.in = "+"
  BY DEF SavingError, SavingRows
<1>3. SavingTransaction(row).kind \in Kinds
  BY DEF SavingTransaction, Kinds
<1>4. /\ SavingTransaction(row).start = "today" /\ SavingTransaction(row).amount \in {"+", "-"}
      /\ SavingTransaction(row).merchant \in Operations
  BY <1>1, <1>2 DEF SavingTransaction
<1> QED BY <1>3, <1>4 DEF IdentityKey, Keys

(* What ParseRow appends of a row is identified as the bank would. *)
LEMMA ParsedIsTheBanks ==
    ASSUME NEW f \in Files, FileError(f) = "ok", NEW n \in 1..Len(f.rows),
           NEW A \in SUBSET OwnNames,
           SkipCheck(Format(f), f.rows[n]) = "parse", RowError(Format(f), f.rows[n]) = "ok"
    PROVE  LET t == Transaction(Format(f), f.rows[n], A)
           IN  t.kind \in Kinds /\ IdentityKey(t) \in Keys /\ IsTheBanks(f, n, IdentityKey(t))
<1> DEFINE row == f.rows[n]
           t == Transaction(Format(f), row, A)
<1>1. CASE Format(f) = "account" /\ row \in AccountRows
  <2>1. AccountError(row) = "ok" /\ t = AccountTransaction(row, A)
    BY <1>1 DEF RowError, Transaction
  <2>2. t.kind \in Kinds /\ IdentityKey(t) \in Keys
    BY <1>1, <2>1, AccountMeaning
  <2>3. ASSUME NEW twin \in Twins(Format(f), row), NEW accounts \in SUBSET OwnNames
        PROVE  /\ SkipCheck(Format(f), twin) = "parse" /\ RowError(Format(f), twin) = "ok"
               /\ IdentityKey(Transaction(Format(f), twin, accounts)) = IdentityKey(t)
    <3>1. row \in AccountRows /\ twin \in Twins("account", row)
      BY <1>1
    <3> HIDE DEF row, t
    <3>2. /\ SkipCheck("account", twin) = "parse" /\ AccountError(twin) = "ok"
          /\ AccountTransaction(twin, accounts) = AccountTransaction(row, accounts)
      BY <2>1, <3>1, StateMeansNothing
    <3>3. IdentityKey(AccountTransaction(row, accounts)) = IdentityKey(t)
      BY <1>1, <2>1, AccountMeaning
    <3> QED BY <1>1, <3>2, <3>3 DEF RowError, Transaction
  <2> QED BY <2>2, <2>3 DEF IsTheBanks
<1>2. CASE Format(f) = "saving" /\ row \in SavingRows
  <2>1. SavingError(row) = "ok" /\ \A B : Transaction("saving", row, B) = SavingTransaction(row)
    BY <1>2 DEF RowError, Transaction
  <2>2. t.kind \in Kinds /\ IdentityKey(t) \in Keys
    BY <1>2, <2>1, SavingMeaning
  <2>3. Twins("saving", row) = {row}
    BY DEF Twins
  <2> QED BY <1>2, <2>1, <2>2, <2>3 DEF IsTheBanks
<1> QED BY <1>1, <1>2, RowOfFormat
-----------------------------------------------------------------------------
(* Lists that grow in file order.                                           *)

(* The item of the next row goes to the end of one list. *)
LEMMA NextRowGoesLast ==
    ASSUME NEW S, NEW list \in Seq(S), NEW item \in S, NEW done \in Nat,
           Sorted(list), Rows(list) \subseteq 1..done, item.row = done + 1
    PROVE  /\ Append(list, item) \in Seq(S) /\ Sorted(Append(list, item))
           /\ Rows(Append(list, item)) = Rows(list) \cup {done + 1}
           /\ Len(Append(list, item)) = Len(list) + 1
<1> DEFINE longer == Append(list, item)
<1>1. /\ longer \in Seq(S) /\ Len(longer) = Len(list) + 1 /\ Len(list) \in Nat
      /\ DOMAIN list = 1..Len(list) /\ DOMAIN longer = 1..(Len(list) + 1)
      /\ longer[Len(list) + 1] = item
  OBVIOUS
<1>2. \A i \in DOMAIN list : longer[i] = list[i]
  OBVIOUS
<1> HIDE DEF longer
<1>3. \A i \in DOMAIN list : list[i].row \in 1..done
  BY DEF Rows
<1>4. Sorted(longer)
  <2> SUFFICES ASSUME NEW i \in DOMAIN longer, NEW j \in DOMAIN longer, i < j
               PROVE  longer[i].row < longer[j].row
    BY DEF Sorted
  <2>1. i \in DOMAIN list
    BY <1>1
  <2>2. CASE j \in DOMAIN list
    BY <1>2, <2>1, <2>2 DEF Sorted
  <2>3. CASE j = Len(list) + 1
    BY <1>1, <1>2, <1>3, <2>1, <2>3
  <2> QED BY <1>1, <2>2, <2>3
<1>5. Rows(longer) = Rows(list) \cup {done + 1}
  <2>1. DOMAIN longer = DOMAIN list \cup {Len(list) + 1}
    BY <1>1
  <2> QED BY <1>1, <1>2, <2>1 DEF Rows
<1> QED BY <1>1, <1>4, <1>5 DEF longer

LEMMA LengthsAreNumbers ==
    ASSUME Typed
    PROVE  /\ Len(outcome.parsed) \in Nat /\ Len(outcome.skipped) \in Nat
           /\ Len(outcome.failed) \in Nat /\ Len(report.saved) \in Nat
           /\ Len(report.duplicates) \in Nat
           /\ DOMAIN outcome.parsed = 1..Len(outcome.parsed)
BY DEF Typed

LEMMA RowsAreNumbers ==
    ASSUME NEW f \in Files
    PROVE  Len(f.rows) \in Nat
BY ReadFormats

LEMMA PartOfASum ==
    ASSUME NEW a \in Nat, NEW b \in Nat, NEW c \in Nat, NEW d, a + b + c = d
    PROVE  a <= d
OBVIOUS

(* At most as many rows are parsed as there are. *)
LEMMA ParsedAreRows ==
    ASSUME IInv, AllRead
    PROVE  Len(outcome.parsed) <= Len(file.rows)
<1>1. Accounted(Len(file.rows))
  BY DEF IInv
<1>2. Len(outcome.parsed) + Len(outcome.skipped) + Len(outcome.failed) = Len(file.rows)
  BY <1>1 DEF Accounted
<1>3. Len(outcome.parsed) \in Nat /\ Len(outcome.skipped) \in Nat /\ Len(outcome.failed) \in Nat
  BY LengthsAreNumbers DEF IInv
<1> QED BY <1>2, <1>3, PartOfASum
-----------------------------------------------------------------------------
LEMMA InitIInv == Init => IInv
<1> SUFFICES ASSUME Init PROVE IInv
  OBVIOUS
<1> USE DEF Init, NoOutcome, NoReport
<1>1. Typed
  BY DEF Typed
<1>2. Placed /\ Replied /\ Identified
  BY DEF Placed, Replied, Identified
<1> QED BY <1>1, <1>2 DEF IInv, AllRead

(* The file is refused as a whole, or its rows are next. *)
LEMMA ReadFileKeepsIInv ==
    ASSUME IInv, stage = "idle", NEW f \in Files, NEW accounts \in SUBSET OwnNames,
           ReadFile(f, accounts)
    PROVE  IInv'
<1>1. /\ file' = f /\ own' = accounts
      /\ pos' = 0 /\ outcome' = NoOutcome /\ seen' = {} /\ report' = NoReport
      /\ outcome = NoOutcome /\ reply = None
  BY DEF ReadFile, IInv, Placed
<1>2. Len(f.rows) \in Nat /\ FileError(f) \in FileErrors \cup {"ok", "INTERNAL_ERROR"}
  BY ReadFormats, RowsAreNumbers
<1>3. \/ FileError(f) = "ok" /\ stage' = "parse" /\ reply' = None
      \/ FileError(f) # "ok" /\ stage' = "done" /\ reply'.status = FileError(f)
  BY <1>1 DEF ReadFile
<1>4. FileError(file)' = FileError(f)
  BY <1>1 DEF FileError
<1>5. Typed'
  BY <1>1, <1>3 DEF IInv, Typed, NoOutcome, NoReport
<1>6. Placed'
  BY <1>1, <1>2, <1>3, <1>4 DEF Placed
<1>7. Replied' /\ Identified' /\ ~AllRead'
  BY <1>1, <1>2, <1>3 DEF Replied, Identified, NoOutcome, AllRead
<1>8. stage' = "parse" => Accounted(pos)'
  BY <1>1 DEF Accounted, NoOutcome, Rows, Sorted
<1> QED BY <1>3, <1>5, <1>6, <1>7, <1>8 DEF IInv, AllRead

(* The code of every row that fails is one of the known ones. *)
LEMMA CodesAreKnown ==
    ASSUME NEW format, NEW row
    PROVE  /\ SkipCheck(format, row) \in {"parse", "skip"} \cup RowErrors
           /\ RowError(format, row) \in {"ok"} \cup RowErrors
<1>1. SkipCheck(format, row) \in {"parse", "skip"} \cup RowErrors
  BY DEF SkipCheck, RowErrors
<1>2. AccountError(row) \in {"ok"} \cup RowErrors
  BY DEF AccountError, RowErrors
<1>3. SavingError(row) \in {"ok"} \cup RowErrors
  BY DEF SavingError, RowErrors
<1> QED BY <1>1, <1>2, <1>3 DEF RowError

(* One row goes to the end of one list (base.py:52-120).                    *)
LEMMA ParseRowKeepsIInv ==
    ASSUME IInv, ParseRow
    PROVE  IInv'
<1> DEFINE row == file.rows[pos + 1]
           check == SkipCheck(Format(file), row)
           error == RowError(Format(file), row)
           t == Transaction(Format(file), row, own)
           parsed == [row |-> pos + 1, key |-> IdentityKey(t), kind |-> t.kind, occurrence |-> 0]
<1>1. /\ stage = "parse" /\ stage' = "parse" /\ pos < Len(file.rows) /\ pos' = pos + 1
      /\ UNCHANGED <<file, own, seen, report, reply>>
  BY DEF ParseRow
<1>2. /\ file \in Files /\ FileError(file) = "ok" /\ reply = None /\ pos \in Nat
      /\ Len(file.rows) \in Nat /\ pos + 1 \in Nat /\ pos + 1 \in 1..Len(file.rows)
      /\ Typed /\ Accounted(pos) /\ Identified
  BY <1>1, RowsAreNumbers DEF IInv, Typed, Placed
<1>3. check \in {"parse", "skip"} \cup RowErrors /\ error \in {"ok"} \cup RowErrors
  BY CodesAreKnown
<1>4. {"parse", "skip", "ok"} \cap RowErrors = {}
  BY DEF RowErrors
<1> DEFINE Kept(outcome1) ==
      /\ outcome1 \in [parsed : Seq(Items), skipped : Seq(Issues), failed : Seq(Failures)]
      /\ Rows(outcome1.parsed) \cup Rows(outcome1.skipped) \cup Rows(outcome1.failed) = 1..(pos + 1)
      /\ Len(outcome1.parsed) + Len(outcome1.skipped) + Len(outcome1.failed) = pos + 1
      /\ Sorted(outcome1.parsed) /\ Sorted(outcome1.skipped) /\ Sorted(outcome1.failed)
<1>5. /\ outcome.parsed \in Seq(Items) /\ outcome.skipped \in Seq(Issues)
      /\ outcome.failed \in Seq(Failures)
      /\ Len(outcome.parsed) \in Nat /\ Len(outcome.skipped) \in Nat /\ Len(outcome.failed) \in Nat
      /\ Rows(outcome.parsed) \subseteq 1..pos /\ Rows(outcome.skipped) \subseteq 1..pos
      /\ Rows(outcome.failed) \subseteq 1..pos
      /\ Rows(outcome.parsed) \cup Rows(outcome.skipped) \cup Rows(outcome.failed) = 1..pos
      /\ Len(outcome.parsed) + Len(outcome.skipped) + Len(outcome.failed) = pos
      /\ Len(outcome.parsed) + 1 + Len(outcome.skipped) + Len(outcome.failed) = pos + 1
      /\ Len(outcome.parsed) + (Len(outcome.skipped) + 1) + Len(outcome.failed) = pos + 1
      /\ Len(outcome.parsed) + Len(outcome.skipped) + (Len(outcome.failed) + 1) = pos + 1
      /\ Sorted(outcome.parsed) /\ Sorted(outcome.skipped) /\ Sorted(outcome.failed)
  <2>1. outcome \in [parsed : Seq(Items), skipped : Seq(Issues), failed : Seq(Failures)]
    BY <1>2 DEF Typed
  <2>2. /\ Len(outcome.parsed) \in Nat /\ Len(outcome.skipped) \in Nat
        /\ Len(outcome.failed) \in Nat
        /\ Len(outcome.parsed) + Len(outcome.skipped) + Len(outcome.failed) = pos
    BY <1>2, <2>1 DEF Accounted
  <2>3. /\ Len(outcome.parsed) + 1 + Len(outcome.skipped) + Len(outcome.failed) = pos + 1
        /\ Len(outcome.parsed) + (Len(outcome.skipped) + 1) + Len(outcome.failed) = pos + 1
        /\ Len(outcome.parsed) + Len(outcome.skipped) + (Len(outcome.failed) + 1) = pos + 1
    <3> DEFINE a == Len(outcome.parsed)
               b == Len(outcome.skipped)
               c == Len(outcome.failed)
    <3>1. a \in Nat /\ b \in Nat /\ c \in Nat /\ a + b + c = pos
      BY <2>2
    <3> HIDE DEF a, b, c
    <3>2. a + 1 + b + c = pos + 1 /\ a + (b + 1) + c = pos + 1 /\ a + b + (c + 1) = pos + 1
      BY <3>1
    <3> QED BY <3>2 DEF a, b, c
  <2> QED BY <1>2, <2>1, <2>2, <2>3 DEF Accounted
<1>6. (1..pos) \cup {pos + 1} = 1..(pos + 1)
  BY <1>2
<1>7. ASSUME check = "skip" PROVE Kept(outcome') /\ Identified'
  <2> DEFINE issue == [row |-> pos + 1, code |-> "PENDING_REFUND"]
             list == Append(outcome.skipped, issue)
  <2>1. outcome' = [outcome EXCEPT !.skipped = list]
    BY <1>7 DEF ParseRow, NextRow, Issue
  <2>2. issue \in Issues /\ issue.row = pos + 1
    BY <1>2 DEF Issues
  <2> HIDE DEF issue
  <2>3. /\ list \in Seq(Issues) /\ Sorted(list) /\ Rows(list) = Rows(outcome.skipped) \cup {pos + 1}
        /\ Len(list) = Len(outcome.skipped) + 1
    BY <1>2, <1>5, <2>2, NextRowGoesLast
  <2> HIDE DEF list
  <2>4. /\ outcome'.parsed = outcome.parsed /\ outcome'.failed = outcome.failed
        /\ outcome'.skipped = list
        /\ outcome' \in [parsed : Seq(Items), skipped : Seq(Issues), failed : Seq(Failures)]
    BY <1>2, <2>1, <2>3 DEF Typed
  <2>5. Kept(outcome')
    <3>1. Rows(outcome'.parsed) \cup Rows(outcome'.skipped) \cup Rows(outcome'.failed)
             = 1..(pos + 1)
      BY <1>5, <1>6, <2>3, <2>4, Zenon
    <3>2. Len(outcome'.parsed) + Len(outcome'.skipped) + Len(outcome'.failed) = pos + 1
      BY <1>5, <2>3, <2>4, Zenon
    <3> QED BY <1>5, <2>3, <2>4, <3>1, <3>2
  <2>6. Identified'
    BY <1>1, <1>2, <2>4 DEF Identified
  <2> QED BY <2>5, <2>6
<1>8. ASSUME check = "parse", error = "ok" PROVE Kept(outcome') /\ Identified'
  <2> DEFINE list == Append(outcome.parsed, parsed)
  <2>1. outcome' = [outcome EXCEPT !.parsed = list]
    BY <1>8 DEF ParseRow, NextRow
  <2>2. parsed \in Items /\ parsed.row = pos + 1 /\ IsTheBanks(file, pos + 1, parsed.key)
    <3>1. t.kind \in Kinds /\ IdentityKey(t) \in Keys /\ IsTheBanks(file, pos + 1, IdentityKey(t))
      BY <1>2, <1>8, ParsedIsTheBanks DEF Typed
    <3> HIDE DEF t
    <3> QED BY <1>2, <3>1 DEF Items
  <2> HIDE DEF parsed
  <2>3. /\ list \in Seq(Items) /\ Sorted(list) /\ Rows(list) = Rows(outcome.parsed) \cup {pos + 1}
        /\ Len(list) = Len(outcome.parsed) + 1
    BY <1>2, <1>5, <2>2, NextRowGoesLast
  <2>4. \A n \in DOMAIN list : \/ n \in DOMAIN outcome.parsed /\ list[n] = outcome.parsed[n]
                               \/ list[n] = parsed
    BY <1>5, <2>2
  <2> HIDE DEF list
  <2>5. /\ outcome'.parsed = list /\ outcome'.failed = outcome.failed
        /\ outcome'.skipped = outcome.skipped
        /\ outcome' \in [parsed : Seq(Items), skipped : Seq(Issues), failed : Seq(Failures)]
    BY <1>2, <2>1, <2>3 DEF Typed
  <2>6. Kept(outcome')
    <3>1. Rows(outcome'.parsed) \cup Rows(outcome'.skipped) \cup Rows(outcome'.failed)
             = 1..(pos + 1)
      BY <1>5, <1>6, <2>3, <2>5, Zenon
    <3>2. Len(outcome'.parsed) + Len(outcome'.skipped) + Len(outcome'.failed) = pos + 1
      BY <1>5, <2>3, <2>5, Zenon
    <3> QED BY <1>5, <2>3, <2>5, <3>1, <3>2
  <2>7. Identified'
    BY <1>1, <1>2, <2>2, <2>4, <2>5 DEF Identified
  <2> QED BY <2>6, <2>7
<1>9. ASSUME NEW code \in RowErrors, outcome' = [outcome EXCEPT !.failed = Append(@, Issue(code))]
      PROVE  Kept(outcome') /\ Identified'
  <2> DEFINE issue == [row |-> pos + 1, code |-> code]
             list == Append(outcome.failed, issue)
  <2>1. outcome' = [outcome EXCEPT !.failed = list]
    BY <1>9 DEF Issue
  <2>2. issue \in Failures /\ issue.row = pos + 1
    BY <1>2 DEF Failures
  <2> HIDE DEF issue
  <2>3. /\ list \in Seq(Failures) /\ Sorted(list)
        /\ Rows(list) = Rows(outcome.failed) \cup {pos + 1}
        /\ Len(list) = Len(outcome.failed) + 1
    BY <1>2, <1>5, <2>2, NextRowGoesLast
  <2> HIDE DEF list
  <2>4. /\ outcome'.parsed = outcome.parsed /\ outcome'.skipped = outcome.skipped
        /\ outcome'.failed = list
        /\ outcome' \in [parsed : Seq(Items), skipped : Seq(Issues), failed : Seq(Failures)]
    BY <1>2, <2>1, <2>3 DEF Typed
  <2>5. Kept(outcome')
    <3>1. Rows(outcome'.parsed) \cup Rows(outcome'.skipped) \cup Rows(outcome'.failed)
             = 1..(pos + 1)
      BY <1>5, <1>6, <2>3, <2>4, Zenon
    <3>2. Len(outcome'.parsed) + Len(outcome'.skipped) + Len(outcome'.failed) = pos + 1
      BY <1>5, <2>3, <2>4, Zenon
    <3> QED BY <1>5, <2>3, <2>4, <3>1, <3>2
  <2>6. Identified'
    BY <1>1, <1>2, <2>4 DEF Identified
  <2> QED BY <2>5, <2>6
<1>10. Kept(outcome') /\ Identified'
  <2>1. CASE check \in RowErrors
    <3>1. outcome' = [outcome EXCEPT !.failed = Append(@, Issue(check))]
      BY <1>4, <2>1 DEF ParseRow, NextRow
    <3> QED BY <1>9, <2>1, <3>1
  <2>2. CASE check = "parse" /\ error \in RowErrors
    <3>1. outcome' = [outcome EXCEPT !.failed = Append(@, Issue(error))]
      BY <1>4, <2>2 DEF ParseRow, NextRow
    <3> QED BY <1>9, <2>2, <3>1
  <2> HIDE DEF check, error, row, Kept
  <2> QED BY <1>3, <1>7, <1>8, <2>1, <2>2
<1>11. Typed' /\ Accounted(pos)'
  BY <1>1, <1>2, <1>10 DEF Typed, Accounted
<1>12. Placed'
  <2>1. FileError(file)' = FileError(file)
    BY <1>1 DEF FileError
  <2> QED BY <1>1, <1>2, <2>1 DEF IInv, Placed
<1> QED BY <1>1, <1>10, <1>11, <1>12 DEF IInv, AllRead, Replied

(* The request fails inside the loop. *)
LEMMA AbortOnRowKeepsIInv ==
    ASSUME IInv, AbortOnRow
    PROVE  IInv'
<1>1. /\ stage = "parse" /\ stage' = "done" /\ UNCHANGED <<file, own, pos, outcome, seen, report>>
      /\ reply'.status = "INTERNAL_ERROR"
  BY DEF AbortOnRow
<1>2. Typed' /\ Identified'
  BY <1>1 DEF IInv, Typed, Identified
<1>3. Placed'
  BY <1>1 DEF IInv, Placed
<1>4. Replied' /\ ~AllRead'
  BY <1>1 DEF Replied, AllRead
<1> QED BY <1>1, <1>2, <1>3, <1>4 DEF IInv, AllRead

(* Every row is in its list; none of the parsed ones has a number yet.      *)
LEMMA RowsParsedKeepsIInv ==
    ASSUME IInv, RowsParsed
    PROVE  IInv'
<1>1. /\ stage = "parse" /\ stage' = "number" /\ pos = Len(file.rows) /\ pos' = 0
      /\ UNCHANGED <<file, own, outcome, seen, report, reply>>
  BY DEF RowsParsed
<1>2. Typed' /\ Identified' /\ Replied'
  BY <1>1 DEF IInv, Typed, Identified, Replied
<1>3. Placed'
  <2>1. FileError(file)' = FileError(file)
    BY <1>1 DEF FileError
  <2>2. Len(outcome.parsed) \in Nat /\ file \in Files /\ Len(file.rows) \in Nat
    BY <1>1, LengthsAreNumbers, RowsAreNumbers DEF IInv, Placed
  <2> QED BY <1>1, <2>1, <2>2 DEF IInv, Placed
<1>4. Accounted(Len(file.rows))'
  BY <1>1 DEF IInv, Accounted
<1>5. Numbered(pos)'
  BY <1>1 DEF Numbered
<1>6. Counting'
  <2>1. seen' = {} /\ Cardinality({}) = 0 /\ IsFiniteSet({})
    BY <1>1, FS_EmptySet DEF IInv, Placed
  <2>2. \A key : { s \in seen' : s.key = key } = {} /\ Alike(outcome'.parsed, pos', key) = {}
    BY <1>1, <2>1 DEF Alike
  <2> QED BY <2>1, <2>2 DEF Counting, SeenBefore
<1> QED BY <1>1, <1>2, <1>3, <1>4, <1>5, <1>6 DEF IInv, AllRead

(* What the numbering changes: the occurrence of one parsed row.            *)
LEMMA NumberRowChanges ==
    ASSUME IInv, NumberRow
    PROVE  LET item == outcome.parsed[pos + 1]
               count == SeenBefore(item.key)
           IN  /\ stage = "number" /\ pos \in Nat /\ pos + 1 \in DOMAIN outcome.parsed
               /\ item \in Items /\ count \in Nat
               /\ outcome' \in [parsed : Seq(Items), skipped : Seq(Issues), failed : Seq(Failures)]
               /\ outcome'.skipped = outcome.skipped /\ outcome'.failed = outcome.failed
               /\ Len(outcome'.parsed) = Len(outcome.parsed)
               /\ DOMAIN outcome'.parsed = DOMAIN outcome.parsed
               /\ \A n \in DOMAIN outcome.parsed :
                     /\ outcome'.parsed[n].row = outcome.parsed[n].row
                     /\ outcome'.parsed[n].key = outcome.parsed[n].key
                     /\ n # pos + 1 => outcome'.parsed[n] = outcome.parsed[n]
               /\ outcome'.parsed[pos + 1].occurrence = count
               /\ seen' = seen \cup {[key |-> item.key, nth |-> count]}
<1> DEFINE item == outcome.parsed[pos + 1]
           count == SeenBefore(item.key)
           numbered == [item EXCEPT !.occurrence = count]
           list == [outcome.parsed EXCEPT ![pos + 1] = numbered]
<1>1. /\ stage = "number" /\ pos < Len(outcome.parsed)
      /\ outcome' = [outcome EXCEPT !.parsed = list]
      /\ seen' = seen \cup {[key |-> item.key, nth |-> count]}
  BY DEF NumberRow
<1>2. /\ outcome \in [parsed : Seq(Items), skipped : Seq(Issues), failed : Seq(Failures)]
      /\ outcome.parsed \in Seq(Items) /\ pos \in Nat /\ Len(outcome.parsed) \in Nat
      /\ DOMAIN outcome.parsed = 1..Len(outcome.parsed)
  BY LengthsAreNumbers DEF IInv, Typed
<1>3. pos + 1 \in DOMAIN outcome.parsed
  BY <1>1, <1>2
<1>4. item \in Items
  BY <1>2, <1>3
<1>5. count \in Nat
  <2>1. IsFiniteSet(seen)
    BY <1>1 DEF IInv, Counting
  <2>2. IsFiniteSet({ s \in seen : s.key = item.key })
    BY <2>1, FS_Subset, { s \in seen : s.key = item.key } \subseteq seen
  <2> QED BY <2>2, FS_CardinalityType DEF SeenBefore
<1> HIDE DEF count
<1>6. /\ numbered \in Items /\ numbered.row = item.row /\ numbered.key = item.key
      /\ numbered.occurrence = count
  BY <1>4, <1>5 DEF Items
<1> HIDE DEF numbered
<1>7. /\ list \in Seq(Items) /\ Len(list) = Len(outcome.parsed)
      /\ DOMAIN list = DOMAIN outcome.parsed
      /\ list[pos + 1] = numbered
      /\ \A n \in DOMAIN outcome.parsed : n # pos + 1 => list[n] = outcome.parsed[n]
  BY <1>2, <1>3, <1>6
<1> HIDE DEF list
<1>8. /\ outcome'.parsed = list
      /\ outcome'.skipped = outcome.skipped /\ outcome'.failed = outcome.failed
      /\ outcome' \in [parsed : Seq(Items), skipped : Seq(Issues), failed : Seq(Failures)]
  BY <1>1, <1>2, <1>7
<1>9. \A n \in DOMAIN outcome.parsed :
         list[n].row = outcome.parsed[n].row /\ list[n].key = outcome.parsed[n].key
  BY <1>6, <1>7
<1> QED BY <1>1, <1>2, <1>3, <1>4, <1>5, <1>6, <1>7, <1>8, <1>9 DEF count

(* The counter of the row's identity goes up by one, and so does the number *)
(* of rows with that identity; the others stay.                             *)
LEMMA NumberRowKeepsIInv ==
    ASSUME IInv, NumberRow
    PROVE  IInv'
<1> DEFINE item == outcome.parsed[pos + 1]
           count == SeenBefore(item.key)
           entry == [key |-> item.key, nth |-> count]
<1>1. /\ stage = "number" /\ stage' = "number" /\ pos' = pos + 1
      /\ UNCHANGED <<file, own, report, reply>>
  BY DEF NumberRow
<1>2. /\ pos \in Nat /\ pos + 1 \in DOMAIN outcome.parsed /\ item \in Items /\ count \in Nat
      /\ outcome' \in [parsed : Seq(Items), skipped : Seq(Issues), failed : Seq(Failures)]
      /\ outcome'.skipped = outcome.skipped /\ outcome'.failed = outcome.failed
      /\ Len(outcome'.parsed) = Len(outcome.parsed)
      /\ DOMAIN outcome'.parsed = DOMAIN outcome.parsed
      /\ outcome'.parsed[pos + 1].occurrence = count
      /\ seen' = seen \cup {entry}
  BY NumberRowChanges
<1>3. \A n \in DOMAIN outcome.parsed :
         /\ outcome'.parsed[n].row = outcome.parsed[n].row
         /\ outcome'.parsed[n].key = outcome.parsed[n].key
         /\ n # pos + 1 => outcome'.parsed[n] = outcome.parsed[n]
  BY NumberRowChanges
<1>4. /\ Typed /\ file \in Files /\ FileError(file) = "ok" /\ reply = None /\ report = NoReport
      /\ Accounted(Len(file.rows)) /\ Numbered(pos) /\ Counting /\ Identified
      /\ DOMAIN outcome.parsed = 1..Len(outcome.parsed) /\ Len(outcome.parsed) \in Nat
      /\ Len(outcome.parsed) <= Len(file.rows) /\ Len(file.rows) \in Nat
      /\ pos + 1 <= Len(outcome.parsed)
  <2>1. DOMAIN outcome.parsed = 1..Len(outcome.parsed) /\ Len(outcome.parsed) \in Nat
    BY LengthsAreNumbers DEF IInv
  <2>2. Len(outcome.parsed) <= Len(file.rows)
    BY <1>1, ParsedAreRows DEF AllRead
  <2>3. file \in Files /\ FileError(file) = "ok" /\ reply = None /\ report = NoReport
    BY <1>1 DEF IInv, Placed
  <2> QED BY <1>1, <1>2, <2>1, <2>2, <2>3, RowsAreNumbers DEF IInv, AllRead
<1>5. item.key \in Keys /\ entry \in [key : Keys, nth : Nat] /\ entry.key = item.key
      /\ entry.nth = count
  <2>1. item.key \in Keys
    BY <1>2 DEF Items
  <2> HIDE DEF count, item
  <2> QED BY <1>2, <2>1
<1>6. Typed'
  BY <1>1, <1>2, <1>4, <1>5 DEF Typed
<1>7. Placed'
  <2>1. FileError(file)' = FileError(file)
    BY <1>1 DEF FileError
  <2> QED BY <1>1, <1>2, <1>4, <2>1 DEF Placed
<1>8. Identified' /\ Replied'
  BY <1>1, <1>2, <1>3, <1>4 DEF Identified, Replied
<1>9. Accounted(Len(file.rows))'
  <2>1. Rows(outcome'.parsed) = Rows(outcome.parsed)
    <3> DEFINE old == outcome.parsed
               new == outcome'.parsed
    <3>1. DOMAIN new = DOMAIN old /\ \A n \in DOMAIN old : new[n].row = old[n].row
      BY <1>2, <1>3
    <3> HIDE DEF old, new
    <3>2. Rows(new) = Rows(old)
      BY <3>1 DEF Rows
    <3> QED BY <3>2 DEF old, new
  <2>2. Sorted(outcome'.parsed)
    BY <1>2, <1>3, <1>4 DEF Sorted, Accounted
  <2>3. file' = file
    BY <1>1
  <2> QED BY <1>2, <1>4, <2>1, <2>2, <2>3 DEF Accounted
<1>10. \A n \in Nat : \A key :
          n <= Len(outcome.parsed)
             => Alike(outcome'.parsed, n, key) = Alike(outcome.parsed, n, key)
  BY <1>3, <1>4 DEF Alike
<1>11. \A key \in Keys : SeenBefore(key) = Cardinality(Alike(outcome.parsed, pos, key))
  BY <1>4 DEF Counting
<1>12. Numbered(pos)'
  <2> SUFFICES ASSUME NEW n \in 1..(pos + 1)
               PROVE  outcome'.parsed[n].occurrence
                         = Cardinality(Alike(outcome'.parsed, n - 1, outcome.parsed[n].key))
    BY <1>1, <1>3, <1>4 DEF Numbered
  <2>1. n \in DOMAIN outcome.parsed /\ n - 1 \in Nat /\ n - 1 <= Len(outcome.parsed)
    BY <1>2, <1>4
  <2>2. Alike(outcome'.parsed, n - 1, outcome.parsed[n].key)
           = Alike(outcome.parsed, n - 1, outcome.parsed[n].key)
    BY <1>10, <2>1
  <2>3. CASE n \in 1..pos
    <3>1. n # pos + 1 /\ outcome'.parsed[n] = outcome.parsed[n]
      <4>1. n # pos + 1
        BY <1>2, <2>3
      <4> QED BY <1>3, <2>1, <4>1
    <3>2. outcome.parsed[n].occurrence
             = Cardinality(Alike(outcome.parsed, n - 1, outcome.parsed[n].key))
      BY <1>4, <2>3 DEF Numbered
    <3> QED BY <2>2, <3>1, <3>2
  <2>4. CASE n = pos + 1
    <3>1. n - 1 = pos
      BY <1>2, <2>4
    <3> QED BY <1>2, <1>5, <1>11, <2>2, <2>4, <3>1
  <2> QED BY <1>2, <2>3, <2>4
<1>13. Counting'
  <2> DEFINE of(key) == { s \in seen : s.key = key }
  <2>1. ASSUME NEW key PROVE IsFiniteSet(of(key)) /\ IsFiniteSet(Alike(outcome.parsed, pos, key))
    <3>1. IsFiniteSet(seen) /\ of(key) \subseteq seen
      BY <1>4 DEF Counting
    <3>2. Alike(outcome.parsed, pos, key) \subseteq 1..pos
      BY DEF Alike
    <3>3. IsFiniteSet(1..pos)
      BY <1>2, FS_Interval
    <3> HIDE DEF of
    <3> QED BY <3>1, <3>2, <3>3, FS_Subset
  <2>2. IsFiniteSet(seen')
    BY <1>2, <1>4, FS_AddElement DEF Counting
  <2>3. ASSUME NEW key \in Keys
        PROVE  Alike(outcome'.parsed, pos', key)
                  = IF key = item.key THEN Alike(outcome.parsed, pos, key) \cup {pos + 1}
                                      ELSE Alike(outcome.parsed, pos, key)
    <3>1. Alike(outcome'.parsed, pos', key) = Alike(outcome.parsed, pos + 1, key)
      BY <1>1, <1>3, <1>4 DEF Alike
    <3> QED BY <1>2, <3>1 DEF Alike
  <2>4. ASSUME NEW key \in Keys
        PROVE  { s \in seen' : s.key = key } = IF key = item.key THEN of(key) \cup {entry}
                                                                ELSE of(key)
    BY <1>2, <1>5
  <2>5. entry \notin of(item.key) /\ pos + 1 \notin Alike(outcome.parsed, pos, item.key)
    <3>1. \A s \in of(item.key) : s.nth < count
      BY <1>4, <1>5, <1>11 DEF Counting
    <3>2. \A s \in of(item.key) : s.nth \in Nat
      BY <1>4 DEF Typed
    <3>3. pos + 1 \notin 1..pos
      BY <1>2
    <3> QED BY <1>2, <1>5, <3>1, <3>2, <3>3 DEF Alike
  <2>6. Cardinality(of(item.key) \cup {entry}) = count + 1
    <3>1. Cardinality(of(item.key)) = count
      BY DEF SeenBefore
    <3> HIDE DEF of, count, entry
    <3> QED BY <2>1, <2>5, <3>1, FS_AddElement
  <2>7. /\ Cardinality(Alike(outcome.parsed, pos, item.key) \cup {pos + 1})
              = Cardinality(Alike(outcome.parsed, pos, item.key)) + 1
        /\ Cardinality(Alike(outcome.parsed, pos, item.key)) = count
    BY <1>5, <1>11, <2>1, <2>5, FS_AddElement
  <2>8. ASSUME NEW key \in Keys
        PROVE  SeenBefore(key)' = Cardinality(Alike(outcome'.parsed, pos', key))
    <3>1. CASE key = item.key
      BY <2>3, <2>4, <2>6, <2>7, <3>1 DEF SeenBefore
    <3>2. CASE key # item.key
      BY <1>11, <2>3, <2>4, <3>2 DEF SeenBefore
    <3> QED BY <3>1, <3>2
  <2>9. ASSUME NEW s \in seen' PROVE s.nth < Cardinality(Alike(outcome'.parsed, pos', s.key))
    <3>1. CASE s = entry
      <4>1. s.key = item.key /\ s.nth = count
        BY <1>5, <3>1
      <4>2. Cardinality(Alike(outcome'.parsed, pos', s.key)) = count + 1
        BY <1>5, <2>3, <2>7, <4>1
      <4> QED BY <1>2, <4>1, <4>2
    <3>2. CASE s \in seen /\ s.key = item.key
      <4>1. s.nth < count /\ s.nth \in Nat
        BY <1>4, <2>7, <3>2 DEF Counting, Typed
      <4>2. Cardinality(Alike(outcome'.parsed, pos', s.key)) = count + 1
        BY <1>5, <2>3, <2>7, <3>2
      <4> QED BY <1>2, <4>1, <4>2
    <3>3. CASE s \in seen /\ s.key # item.key
      <4>1. s.key \in Keys
        BY <1>4, <3>3 DEF Typed
      <4>2. Alike(outcome'.parsed, pos', s.key) = Alike(outcome.parsed, pos, s.key)
        BY <2>3, <3>3, <4>1
      <4> QED BY <1>4, <3>3, <4>2 DEF Counting
    <3> QED BY <1>2, <3>1, <3>2, <3>3
  <2> QED BY <2>2, <2>8, <2>9 DEF Counting
<1> QED BY <1>1, <1>6, <1>7, <1>8, <1>9, <1>12, <1>13 DEF IInv, AllRead

(* All parsed rows have their number; none is saved yet. *)
LEMMA RowsNumberedKeepsIInv ==
    ASSUME IInv, RowsNumbered
    PROVE  IInv'
<1>1. /\ stage = "number" /\ stage' = "save" /\ pos = Len(outcome.parsed) /\ pos' = 0
      /\ UNCHANGED <<file, own, outcome, seen, report, reply>>
  BY DEF RowsNumbered
<1>2. Typed' /\ Identified' /\ Replied'
  BY <1>1 DEF IInv, Typed, Identified, Replied
<1>3. Placed'
  <2>1. FileError(file)' = FileError(file)
    BY <1>1 DEF FileError
  <2>2. Len(outcome.parsed) \in Nat /\ file \in Files /\ Len(file.rows) \in Nat
    BY <1>1, LengthsAreNumbers, RowsAreNumbers DEF IInv, Placed
  <2> QED BY <1>1, <2>1, <2>2 DEF IInv, Placed
<1>4. Accounted(Len(file.rows))' /\ Numbered(Len(outcome.parsed))'
  BY <1>1 DEF IInv, AllRead, Accounted, Numbered
<1>5. Len(report'.saved) + Len(report'.duplicates) = 0
  BY <1>1 DEF IInv, Placed, NoReport
<1> QED BY <1>1, <1>2, <1>3, <1>4, <1>5 DEF IInv, AllRead

(* A row is saved or reported as a duplicate, never both. *)
LEMMA SaveRowKeepsIInv ==
    ASSUME IInv, NEW isKnown \in BOOLEAN, SaveRow(isKnown)
    PROVE  IInv'
<1> DEFINE item == outcome.parsed[pos + 1]
           issue == [row |-> item.row, code |-> "DUPLICATE_TRANSACTION"]
<1>1. /\ stage = "save" /\ stage' = "save" /\ pos < Len(outcome.parsed) /\ pos' = pos + 1
      /\ UNCHANGED <<file, own, outcome, seen, reply>>
  BY DEF SaveRow
<1>2. /\ file \in Files /\ Len(file.rows) \in Nat /\ Len(outcome.parsed) \in Nat /\ pos \in Nat
      /\ Len(outcome.parsed) <= Len(file.rows) /\ Typed
      /\ report \in [saved : Seq(Items), duplicates : Seq(Issues)]
      /\ Len(report.saved) + Len(report.duplicates) = pos
  BY <1>1, LengthsAreNumbers, RowsAreNumbers, ParsedAreRows DEF IInv, AllRead, Placed, Typed
<1>3. item \in Items /\ issue \in Issues
  <2>1. item \in Items
    BY <1>1, <1>2 DEF Typed
  <2> HIDE DEF item
  <2> QED BY <2>1 DEF Items, Issues
<1> HIDE DEF item, issue
<1>4. \/ report' = [report EXCEPT !.duplicates = Append(report.duplicates, issue)]
      \/ report' = [report EXCEPT !.saved = Append(report.saved, item)]
  BY DEF SaveRow, item, issue
<1>5. /\ report' \in [saved : Seq(Items), duplicates : Seq(Issues)]
      /\ Len(report'.saved) + Len(report'.duplicates) = pos + 1
  <2>1. CASE report' = [report EXCEPT !.duplicates = Append(report.duplicates, issue)]
    <3> DEFINE list == Append(report.duplicates, issue)
    <3>1. list \in Seq(Issues) /\ Len(list) = Len(report.duplicates) + 1
          /\ Len(report.saved) \in Nat /\ Len(report.duplicates) \in Nat
      BY <1>2, <1>3
    <3> HIDE DEF list
    <3>2. report' = [report EXCEPT !.duplicates = list]
      BY <2>1 DEF list
    <3>3. /\ report' \in [saved : Seq(Items), duplicates : Seq(Issues)]
          /\ report'.duplicates = list /\ report'.saved = report.saved
      BY <1>2, <3>1, <3>2
    <3> QED BY <1>2, <3>1, <3>3
  <2>2. CASE report' = [report EXCEPT !.saved = Append(report.saved, item)]
    <3> DEFINE list == Append(report.saved, item)
    <3>1. list \in Seq(Items) /\ Len(list) = Len(report.saved) + 1
          /\ Len(report.saved) \in Nat /\ Len(report.duplicates) \in Nat
      BY <1>2, <1>3
    <3> HIDE DEF list
    <3>2. report' = [report EXCEPT !.saved = list]
      BY <2>2 DEF list
    <3>3. /\ report' \in [saved : Seq(Items), duplicates : Seq(Issues)]
          /\ report'.saved = list /\ report'.duplicates = report.duplicates
      BY <1>2, <3>1, <3>2
    <3> QED BY <1>2, <3>1, <3>3
  <2> QED BY <1>4, <2>1, <2>2
<1>6. Typed' /\ Identified' /\ Replied'
  BY <1>1, <1>2, <1>5 DEF IInv, Typed, Identified, Replied
<1>7. Placed'
  <2>1. FileError(file)' = FileError(file)
    BY <1>1 DEF FileError
  <2> QED BY <1>1, <1>2, <2>1 DEF IInv, Placed
<1>8. Accounted(Len(file.rows))' /\ Numbered(Len(outcome.parsed))'
  BY <1>1 DEF IInv, AllRead, Accounted, Numbered
<1> QED BY <1>1, <1>5, <1>6, <1>7, <1>8 DEF IInv, AllRead

(* A list is cut exactly when fewer are listed than are counted. *)
LEMMA CutShowsInLength ==
    ASSUME NEW S, NEW list \in Seq(S)
    PROVE  /\ IsCut(list) <=> Len(Capped(list)) < Count(list)
           /\ Count(list) = Len(list)
<1>1. Len(list) \in Nat /\ MaxIssues \in Nat
  BY CsvConstants DEF CsvConstants
<1>2. CASE Len(list) > MaxIssues
  <2>1. Capped(list) = SubSeq(list, 1, MaxIssues)
    BY <1>2 DEF Capped
  <2>2. Len(SubSeq(list, 1, MaxIssues)) = MaxIssues
    BY <1>1, <1>2
  <2> QED BY <1>1, <1>2, <2>1, <2>2 DEF IsCut, Count
<1>3. CASE ~(Len(list) > MaxIssues)
  <2>1. Capped(list) = SubSeq(list, 1, Len(list))
    BY <1>3 DEF Capped
  <2>2. Len(SubSeq(list, 1, Len(list))) = Len(list)
    BY <1>1
  <2> QED BY <1>1, <1>3, <2>1, <2>2 DEF IsCut, Count
<1> QED BY <1>2, <1>3

(* The counters are those of the whole lists, whatever is listed.           *)
LEMMA RespondKeepsIInv ==
    ASSUME IInv, Respond
    PROVE  IInv'
<1> DEFINE crashed == \E n \in DOMAIN outcome.failed :
                         outcome.failed[n].code = "ROW_INTERNAL_ERROR"
           cut == \/ IsCut(report.duplicates) \/ IsCut(outcome.skipped)
                  \/ IsCut(outcome.failed)
           listed == [duplicates |-> Capped(report.duplicates),
                      skipped |-> Capped(outcome.skipped), failed |-> Capped(outcome.failed)]
<1>1. /\ stage = "save" /\ stage' = "done" /\ pos = Len(outcome.parsed)
      /\ UNCHANGED <<file, own, pos, outcome, seen, report>>
  BY DEF Respond
<1>2. /\ outcome.parsed \in Seq(Items) /\ outcome.skipped \in Seq(Issues)
      /\ outcome.failed \in Seq(Failures) /\ report.duplicates \in Seq(Issues)
      /\ Len(outcome.parsed) + Len(outcome.skipped) + Len(outcome.failed) = Len(file.rows)
      /\ Len(report.saved) + Len(report.duplicates) = Len(outcome.parsed)
  BY <1>1 DEF IInv, Typed, AllRead, Accounted
<1>3. cut <=> \/ Len(Capped(report.duplicates)) < Count(report.duplicates)
              \/ Len(Capped(outcome.skipped)) < Count(outcome.skipped)
              \/ Len(Capped(outcome.failed)) < Count(outcome.failed)
  BY <1>2, CutShowsInLength
<1>4. /\ listed.duplicates = Capped(report.duplicates)
      /\ listed.skipped = Capped(outcome.skipped) /\ listed.failed = Capped(outcome.failed)
  OBVIOUS
<1>5. reply' = [status |-> "ok", total |-> Count(file.rows), parsed |-> Count(outcome.parsed),
                saved |-> Count(report.saved), duplicates |-> Count(report.duplicates),
                skipped |-> Count(outcome.skipped), failed |-> Count(outcome.failed),
                internal |-> crashed, truncated |-> cut, transactions |-> report.saved,
                listed |-> listed]
  BY DEF Respond
<1> HIDE DEF crashed, cut, listed
<1>6. /\ reply'.status = "ok" /\ reply'.total = Len(file.rows)
      /\ reply'.parsed = Len(outcome.parsed) /\ reply'.saved = Len(report.saved)
      /\ reply'.duplicates = Len(report.duplicates) /\ reply'.skipped = Len(outcome.skipped)
      /\ reply'.failed = Len(outcome.failed) /\ reply'.transactions = report.saved
      /\ reply'.truncated = cut /\ reply'.listed = listed
  BY <1>5 DEF Count
<1>7. Replied'
  <2>1. Exact'
    BY <1>2, <1>3, <1>4, <1>6 DEF Exact, Count
  <2> QED BY <1>6, <2>1 DEF Replied
<1>8. Typed' /\ Identified'
  BY <1>1 DEF IInv, Typed, Identified
<1>9. Placed'
  BY <1>1 DEF IInv, Placed
<1>10. Accounted(Len(file.rows))' /\ Numbered(Len(outcome.parsed))'
  BY <1>1 DEF IInv, AllRead, Accounted, Numbered
<1> QED BY <1>1, <1>7, <1>8, <1>9, <1>10 DEF IInv, AllRead

LEMMA UnchangedKeepsIInv ==
    ASSUME IInv, UNCHANGED vars
    PROVE  IInv'
<1> USE DEF vars
<1>1. FileError(file)' = FileError(file)
  BY DEF FileError
<1>2. Typed' /\ Placed' /\ Replied' /\ Identified'
  BY <1>1 DEF IInv, Typed, Placed, Replied, Exact, Identified
<1>3. /\ Accounted(pos)' = Accounted(pos) /\ Accounted(Len(file.rows))' = Accounted(Len(file.rows))
      /\ Numbered(pos)' = Numbered(pos) /\ AllRead' = AllRead
      /\ Numbered(Len(outcome.parsed))' = Numbered(Len(outcome.parsed))
  BY DEF Accounted, Numbered, AllRead
<1>4. Counting' = Counting
  BY DEF Counting, SeenBefore
<1> QED BY <1>2, <1>3, <1>4 DEF IInv

LEMMA NextKeepsIInv == IInv /\ [Next]_vars => IInv'
<1> SUFFICES ASSUME IInv, [Next]_vars PROVE IInv'
  OBVIOUS
<1>1. CASE Next
  BY <1>1, ReadFileKeepsIInv, ParseRowKeepsIInv, AbortOnRowKeepsIInv, RowsParsedKeepsIInv,
     NumberRowKeepsIInv, RowsNumberedKeepsIInv, SaveRowKeepsIInv, RespondKeepsIInv,
     UnchangedKeepsIInv DEF Next, Answered
<1>2. CASE UNCHANGED vars
  BY <1>2, UnchangedKeepsIInv
<1> QED BY <1>1, <1>2

(* The inductive invariant holds of every import. *)
THEOREM InductiveInvariant == Spec => []IInv
BY InitIInv, NextKeepsIInv, PTL DEF Spec
-----------------------------------------------------------------------------
(* Every import is well formed, and every error a row ends in has a code of *)
(* the catalogue (revolut.py, exceptions.py).                               *)
THEOREM WellFormed == Spec => []TypeOK
<1>1. ASSUME IInv PROVE TypeOK
  <2> USE <1>1
  <2>1. own \subseteq OwnNames /\ stage \in {"idle", "parse", "number", "save", "done"}
    BY DEF IInv, Typed
  <2>2. pos \in 0..(IF file = None THEN 0 ELSE Len(file.rows))
    <3>1. pos \in Nat /\ (stage = "idle" => file = None /\ pos = 0)
          /\ (stage # "idle" => file \in Files /\ pos <= Len(file.rows))
      BY DEF IInv, Typed, Placed
    <3>2. None \notin Files
      BY CsvConstants DEF CsvConstants
    <3> QED BY <3>1, <3>2, RowsAreNumbers
  <2>3. /\ \A n \in DOMAIN outcome.parsed : outcome.parsed[n] \in Items
        /\ \A n \in DOMAIN outcome.failed : outcome.failed[n] \in Failures
    BY DEF IInv, Typed
  <2>4. reply # None => reply.status \in FileErrors \cup {"ok", "INTERNAL_ERROR"}
    BY DEF IInv, Typed, Placed, Replied
  <2> QED BY <2>1, <2>2, <2>3, <2>4 DEF TypeOK, Items, Failures, Kinds
<1> QED BY <1>1, InductiveInvariant, PTL

(* Whatever the file, no tier of errors swallows a row or reports it twice, *)
(* and every list is in file order (base.py:52-120).                        *)
THEOREM EveryRowIsAccountedFor == Spec => []RowsAccountedFor
<1>1. ASSUME IInv PROVE RowsAccountedFor
  <2> USE <1>1
  <2> SUFFICES ASSUME stage \in {"parse", "number", "save"}
               PROVE  LET lists == <<outcome.parsed, outcome.skipped, outcome.failed>>
                          done  == IF stage = "parse" THEN pos ELSE Len(file.rows)
                      IN  /\ UNION { Rows(lists[n]) : n \in 1..3 } = 1..done
                          /\ Len(lists[1]) + Len(lists[2]) + Len(lists[3]) = done
                          /\ \A n \in 1..3 : \A i, j \in DOMAIN lists[n] :
                                i < j => lists[n][i].row < lists[n][j].row
    BY DEF RowsAccountedFor
  <2> DEFINE lists == <<outcome.parsed, outcome.skipped, outcome.failed>>
             done  == IF stage = "parse" THEN pos ELSE Len(file.rows)
  <2>1. Accounted(done)
    BY DEF IInv, AllRead
  <2>2. /\ lists[1] = outcome.parsed /\ lists[2] = outcome.skipped
        /\ lists[3] = outcome.failed /\ 1..3 = {1, 2, 3}
    OBVIOUS
  <2> HIDE DEF lists, done
  <2>3. UNION { Rows(lists[n]) : n \in 1..3 }
           = Rows(lists[1]) \cup Rows(lists[2]) \cup Rows(lists[3])
    BY <2>2
  <2>4. \A n \in 1..3 : Sorted(lists[n])
    BY <2>1, <2>2 DEF Accounted
  <2>5. /\ UNION { Rows(lists[n]) : n \in 1..3 } = 1..done
        /\ Len(lists[1]) + Len(lists[2]) + Len(lists[3]) = done
    BY <2>1, <2>2, <2>3 DEF Accounted
  <2> QED BY <2>4, <2>5 DEF Sorted, lists, done
<1> QED BY <1>1, InductiveInvariant, PTL

(* However long the file, the running counter numbers a row by the earlier  *)
(* rows that look the same (csv_service.py:103-117).                        *)
THEOREM NumberingIsByPosition == Spec => []NumberingIsPosition
<1>1. ASSUME IInv PROVE NumberingIsPosition
  <2> SUFFICES ASSUME stage = "done", reply.status = "ok", NEW n \in DOMAIN outcome.parsed
               PROVE  outcome.parsed[n].occurrence =
                         Cardinality({ k \in 1..(n - 1) :
                             outcome.parsed[k].key = outcome.parsed[n].key })
    BY DEF NumberingIsPosition
  <2>1. Numbered(Len(outcome.parsed))
    BY <1>1 DEF IInv, AllRead
  <2>2. n \in 1..Len(outcome.parsed)
    BY <1>1, LengthsAreNumbers DEF IInv
  <2> QED BY <2>1, <2>2 DEF Numbered, Alike
<1> QED BY <1>1, InductiveInvariant, PTL

(* Whatever accounts the caller has at either upload, and whatever state    *)
(* the bank gives the payment by then, the row is identified the same       *)
(* (revolut.py:124-162, 180-197, 225-251).                                  *)
THEOREM IdentityIsTheBanksAlone == Spec => []IdentityIsTheBanks
<1>1. ASSUME IInv PROVE IdentityIsTheBanks
  BY <1>1 DEF IInv, Identified, IsTheBanks, IdentityIsTheBanks
<1> QED BY <1>1, InductiveInvariant, PTL

(* Whatever the limit of the response, the counters add up to the file and  *)
(* the answer tells when it was cut (upload.py:26-30, 61-97).               *)
THEOREM TheAnswerIsExact == Spec => []AnswerIsExact
<1>1. ASSUME IInv PROVE AnswerIsExact
  BY <1>1 DEF IInv, Replied, Exact, AnswerIsExact
<1> QED BY <1>1, InductiveInvariant, PTL
=============================================================================
