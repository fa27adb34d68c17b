----------------------------- MODULE CsvImport ------------------------------
(***************************************************************************)
(* One uploaded CSV file from its bytes to the answer: services/           *)
(* csv_service.py (read_csv, parse_transactions), institution_parser/      *)
(* base.py (the loop with its three tiers of errors), revolut.py (what a   *)
(* Revolut row means) and the counters and capped lists of api/v1/         *)
(* upload.py.  Nothing here is concurrent: between reading the file and    *)
(* saving the rows there is no await.  What the database holds is module   *)
(* Ledger's; here saving finds any of the parsed rows already imported.    *)
(*                                                                         *)
(* A cell is modelled by the cases the code tells apart: "absent" is a     *)
(* cell csv.DictReader did not find (a short row), "" an empty one, "bad"  *)
(* one a validator rejects, "." a sum with no digits or too many points,   *)
(* "+", "0" and "-" amounts.  A "long" row has more cells than the header. *)
(* The fee, part of a row's identity, is treated like the amount and goes  *)
(* with it.                                                                *)
(***************************************************************************)
EXTENDS Integers, Sequences, FiniteSets

CONSTANTS
    Files,      \* the files that may be uploaded
    OwnNames,   \* institution_acc_name of the caller's possible accounts
    Names,      \* the text of a description after any prefix
    Mentions,   \* SUBSET (Names \X OwnNames): the name occurs in the text
    Cut,        \* [Names -> Names]: the text truncated to 150 characters
    MaxIssues,  \* upload.max_issues_in_response
    None

Texts == [prefix : {"", "To", "Payment from"}, name : Names]
AccountRows ==
    [long : BOOLEAN,
     state : {"absent", "", "COMPLETED", "REVERTED", "PENDING", "other"},
     type : {"absent", "Transfer", "Charge", "Card Payment", "Card Refund", "Topup"},
     amount : {"bad", "+", "0", "-"}, start : {"bad", "today"}, text : Texts]
SavingRows ==
    [long : BOOLEAN, date : {"absent", "bad", "today"},
     operation : {"absent", "Gross Interest", "Deposit", "Withdrawal", "other"},
     out : {"absent", "", ".", "+"}, in : {"absent", "", ".", "+"},
     balance : {"absent", "bad", "+"}]

(* A file: how its bytes read, its header, and its rows. *)
IsFile(f) ==
    /\ f.bytes \in {"text", "too many", "none", "not utf-8", "huge cell"}
    /\ f.header \in {"none", "repeated", "other", "both", "account", "saving"}
    /\ f.rows \in Seq(IF f.header = "saving" THEN SavingRows ELSE AccountRows)

ASSUME CsvConstants ==
    /\ Mentions \subseteq Names \X OwnNames
    /\ Cut \in [Names -> Names]
    /\ MaxIssues \in Nat
    /\ None \notin Files /\ \A f \in Files : IsFile(f)

VARIABLES
    file,     \* the file being imported, None before the request
    own,      \* the account names get_accounts returned
    stage,    \* how far the request has come
    pos,      \* rows parsed, then numbered, then saved, so far
    outcome,  \* ParseOutcome: parsed, skipped, failed
    seen,     \* the numbering's counter of each identity, as a set of pairs
    report,   \* SaveReport: saved, duplicates
    reply     \* the answer

vars == <<file, own, stage, pos, outcome, seen, report, reply>>

FileErrors == {"FILE_TOO_LARGE", "EMPTY_CSV_FILE", "CSV_DECODE_FAILED",
               "CSV_DUPLICATE_HEADERS", "CSV_FORMAT_UNKNOWN"}
RowErrors == {"ROW_VALIDATION_FAILED", "ROW_MISSING_COLUMN",
              "ROW_UNKNOWN_STATE", "ROW_UNKNOWN_TRANSACTION_TYPE",
              "ROW_UNKNOWN_SAVING_OPERATION", "ROW_SAVING_AMOUNT_MISSING",
              "ROW_INTERNAL_ERROR"}

NoOutcome == [parsed |-> << >>, skipped |-> << >>, failed |-> << >>]
NoReport == [saved |-> << >>, duplicates |-> << >>]

Init ==
    /\ file = None /\ own = {} /\ stage = "idle" /\ pos = 0
    /\ outcome = NoOutcome /\ seen = {} /\ report = NoReport /\ reply = None
-----------------------------------------------------------------------------
(* What a row of a Revolut export means (revolut.py).                       *)

(* RevolutParser.detect_format: the account columns win. *)
Format(f) == IF f.header \in {"account", "both"} THEN "account" ELSE "saving"

(* check_to_skip_tr: "parse", "skip", or the code of the error it raises.   *)
SkipCheck(format, row) ==
    IF format = "saving" \/ row.state \in {"absent", "", "COMPLETED", "REVERTED"}
      THEN "parse"
    ELSE IF row.state # "PENDING" THEN "ROW_UNKNOWN_STATE"
    ELSE IF row.type = "absent" THEN "ROW_MISSING_COLUMN"
    ELSE IF row.type = "Card Payment" THEN "parse"
    ELSE IF row.type = "Card Refund" THEN "skip"
    ELSE "ROW_UNKNOWN_STATE"

(* get_transaction_type of a row the model accepted. *)
AccountKind(row, accounts) ==
    IF row.type = "Transfer"
      THEN IF \E a \in accounts : <<row.text.name, a>> \in Mentions
             THEN "INTERNAL_TRANSFER" ELSE "EXTERNAL_TRANSFER"
    ELSE IF row.type = "Charge" THEN "EXPENSE"
    ELSE IF row.amount = "+" THEN "INCOME"
    ELSE IF row.amount = "-" THEN "EXPENSE"
    ELSE "none"

\* Fault: the prefix is only stripped from transfers to one's own accounts.
EditDescriptionOwnOnly(kind, text) ==
    IF \/ kind = "INCOME" /\ text.prefix = "Payment from"
       \/ kind = "INTERNAL_TRANSFER" /\ text.prefix = "To"
      THEN [text EXCEPT !.prefix = ""] ELSE text

(* edit_description: the prefix the transaction's kind makes redundant. *)
EditDescription(kind, text) ==
    IF \/ kind = "INCOME" /\ text.prefix = "Payment from"
       \/ kind \in {"INTERNAL_TRANSFER", "EXTERNAL_TRANSFER"} /\ text.prefix = "To"
      THEN [text EXCEPT !.prefix = ""] ELSE text

Merchant(text) == [text EXCEPT !.name = Cut[@]]

(* RevolutAccountRow, then map_account_to_transaction: the error code, if   *)
(* any.  The model needs a type, a start date, an amount and a state;       *)
(* completed date and balance may be blank.                                 *)
AccountError(row) ==
    IF "absent" \in {row.state, row.type} \/ "bad" \in {row.amount, row.start}
      THEN "ROW_VALIDATION_FAILED"
    ELSE IF row.amount = "0" /\ row.type \notin {"Transfer", "Charge"}
      THEN "ROW_UNKNOWN_TRANSACTION_TYPE"
    ELSE "ok"

(* map_account_to_transaction of a row without an error. *)
AccountTransaction(row, accounts) ==
    LET kind == AccountKind(row, accounts)
    IN  [start |-> row.start, amount |-> row.amount, kind |-> kind,
         merchant |-> Merchant(EditDescription(kind, row.text))]

(* RevolutSavingRow, then map_saving_acc_to_transaction.  parse_date and    *)
(* clean_balance hand an absent cell to re.sub, and clean_amount a "." to   *)
(* Decimal: those errors are no ValueError, so pydantic does not turn them  *)
(* into a ValidationError, and they win over one found on the way.  Money   *)
(* without a digit is money that is missing.                                *)
SavingError(row) ==
    LET money == IF row.operation = "Withdrawal" THEN row.out ELSE row.in
    IN  IF "absent" \in {row.date, row.balance} \/ "." \in {row.out, row.in}
          THEN "ROW_INTERNAL_ERROR"
        ELSE IF "bad" \in {row.date, row.balance} \/ row.operation = "absent"
          THEN "ROW_VALIDATION_FAILED"
        ELSE IF row.operation = "other" THEN "ROW_UNKNOWN_SAVING_OPERATION"
        ELSE IF money \in {"absent", ""} THEN "ROW_SAVING_AMOUNT_MISSING"
        ELSE "ok"

SavingTransaction(row) ==
    [start |-> row.date,
     amount |-> IF row.operation = "Withdrawal" THEN "-" ELSE row.in,
     kind |-> IF row.operation = "Gross Interest"
              THEN "INTEREST" ELSE "INTERNAL_TRANSFER",
     merchant |-> row.operation]

(* parse_row. *)
RowError(format, row) == IF format = "account" THEN AccountError(row) ELSE SavingError(row)
Transaction(format, row, accounts) ==
    IF format = "account" THEN AccountTransaction(row, accounts)
                          ELSE SavingTransaction(row)

(* identity_key, the account apart: one file goes to one account. *)
IdentityKey(t) == [start |-> t.start, amount |-> t.amount, merchant |-> t.merchant]
-----------------------------------------------------------------------------
(* read_csv and prepare: what is wrong with the file as a whole.  A cell    *)
(* over the csv module's field limit is a csv.Error nobody catches.         *)
FileError(f) ==
    IF f.bytes = "too many" THEN "FILE_TOO_LARGE"
    ELSE IF f.bytes = "none" THEN "EMPTY_CSV_FILE"
    ELSE IF f.bytes = "not utf-8" THEN "CSV_DECODE_FAILED"
    ELSE IF f.header = "none" THEN "EMPTY_CSV_FILE"
    ELSE IF f.header = "repeated" THEN "CSV_DUPLICATE_HEADERS"
    ELSE IF f.bytes = "huge cell" THEN "INTERNAL_ERROR"
    ELSE IF f.rows = << >> THEN "EMPTY_CSV_FILE"
    ELSE IF f.header = "other" THEN "CSV_FORMAT_UNKNOWN"
    ELSE "ok"

ReadFile(f, accounts) ==
    /\ file' = f /\ own' = accounts
    /\ IF FileError(f) = "ok"
         THEN stage' = "parse" /\ UNCHANGED reply
         ELSE stage' = "done" /\ reply' = [status |-> FileError(f)]
    /\ UNCHANGED <<pos, outcome, seen, report>>
-----------------------------------------------------------------------------
(* InstitutionParserBase.parse.                                             *)

NextRow == file.rows[pos + 1]
Issue(code) == [row |-> pos + 1, code |-> code]

(* A row with more cells than the header carries them under the key None,   *)
(* which UploadIssue does not accept.  Whatever the row's fate - skipped,   *)
(* failed, or crashed in row_model( **row.data) - an issue is made of it.   *)
CanReport(row) == ~row.long

\* Fault: a skipped row is not done with ("continue" is missing).
ParseRowSkippedToo ==
    /\ stage = "parse" /\ pos < Len(file.rows) /\ CanReport(NextRow)
    /\ LET check == SkipCheck(Format(file), NextRow)
           error == IF check \notin {"parse", "skip"} THEN check ELSE RowError(Format(file), NextRow)
           t     == Transaction(Format(file), NextRow, own)
       IN  outcome' =
             [skipped |-> IF check = "skip"
                THEN Append(outcome.skipped, Issue("PENDING_REFUND"))
                ELSE outcome.skipped,
              parsed |-> IF error = "ok"
                THEN Append(outcome.parsed, [row |-> pos + 1, key |-> IdentityKey(t),
                                             kind |-> t.kind, occurrence |-> 0])
                ELSE outcome.parsed,
              failed |-> IF error # "ok"
                THEN Append(outcome.failed, Issue(error)) ELSE outcome.failed]
    /\ pos' = pos + 1
    /\ UNCHANGED <<file, own, stage, seen, report, reply>>

ParseRow ==
    /\ stage = "parse" /\ pos < Len(file.rows) /\ CanReport(NextRow)
    /\ LET check == SkipCheck(Format(file), NextRow)
           error == IF check # "parse" THEN check ELSE RowError(Format(file), NextRow)
           t     == Transaction(Format(file), NextRow, own)
       IN  outcome' =
             IF check = "skip"
               THEN [outcome EXCEPT !.skipped = Append(@, Issue("PENDING_REFUND"))]
             ELSE IF error = "ok"
               THEN [outcome EXCEPT !.parsed =
                       Append(@, [row |-> pos + 1, key |-> IdentityKey(t),
                                  kind |-> t.kind, occurrence |-> 0])]
             ELSE [outcome EXCEPT !.failed = Append(@, Issue(error))]
    /\ pos' = pos + 1
    /\ UNCHANGED <<file, own, stage, seen, report, reply>>

(* The exception of the issue itself leaves the loop and the request. *)
AbortOnRow ==
    /\ stage = "parse" /\ pos < Len(file.rows) /\ ~CanReport(NextRow)
    /\ stage' = "done" /\ reply' = [status |-> "INTERNAL_ERROR"]
    /\ UNCHANGED <<file, own, pos, outcome, seen, report>>

RowsParsed ==
    /\ stage = "parse" /\ pos = Len(file.rows)
    /\ stage' = "number" /\ pos' = 0
    /\ UNCHANGED <<file, own, outcome, seen, report, reply>>
-----------------------------------------------------------------------------
(* parse_transactions numbers look-alike rows with a running counter.       *)

SeenBefore(key) == Cardinality({ s \in seen : s.key = key })

\* Fault: only a directly preceding look-alike counts.
NumberRowByNeighbour ==
    /\ stage = "number" /\ pos < Len(outcome.parsed)
    /\ LET n == pos + 1
           key == outcome.parsed[n].key
           again == n > 1 /\ outcome.parsed[n - 1].key = key
       IN  outcome' = [outcome EXCEPT !.parsed[n].occurrence =
                         IF again THEN outcome.parsed[n - 1].occurrence + 1 ELSE 0]
    /\ pos' = pos + 1
    /\ UNCHANGED <<file, own, stage, seen, report, reply>>

NumberRow ==
    /\ stage = "number" /\ pos < Len(outcome.parsed)
    /\ LET key   == outcome.parsed[pos + 1].key
           count == SeenBefore(key)
       IN  /\ outcome' = [outcome EXCEPT !.parsed[pos + 1].occurrence = count]
           /\ seen' = seen \cup {[key |-> key, nth |-> count]}
    /\ pos' = pos + 1
    /\ UNCHANGED <<file, own, stage, report, reply>>

RowsNumbered ==
    /\ stage = "number" /\ pos = Len(outcome.parsed)
    /\ stage' = "save" /\ pos' = 0
    /\ UNCHANGED <<file, own, outcome, seen, report, reply>>
-----------------------------------------------------------------------------
(* The loop of save_transactions: a row is already imported, or new.        *)

SaveRow(isKnown) ==
    /\ stage = "save" /\ pos < Len(outcome.parsed)
    /\ LET item == outcome.parsed[pos + 1]
       IN  report' =
             IF isKnown
               THEN [report EXCEPT !.duplicates =
                       Append(@, [row |-> item.row, code |-> "DUPLICATE_TRANSACTION"])]
               ELSE [report EXCEPT !.saved = Append(@, item)]
    /\ pos' = pos + 1
    /\ UNCHANGED <<file, own, stage, outcome, seen, reply>>
-----------------------------------------------------------------------------
(* upload_batch: count, cap the lists.                                      *)

\* Fault: the counters are taken from the lists that go into the response.
CountCapped(list) == IF Len(list) > MaxIssues THEN MaxIssues ELSE Len(list)

Count(list) == Len(list)

Capped(list) == SubSeq(list, 1, IF Len(list) > MaxIssues THEN MaxIssues ELSE Len(list))

\* Fault: a list that just fills the response counts as cut.
IsCutAtLimit(list) == Len(list) >= MaxIssues

IsCut(list) == Len(list) > MaxIssues

Respond ==
    /\ stage = "save" /\ pos = Len(outcome.parsed)
    /\ stage' = "done"
    /\ reply' = [status     |-> "ok",
                 total      |-> Count(file.rows),
                 parsed     |-> Count(outcome.parsed),
                 saved      |-> Count(report.saved),
                 duplicates |-> Count(report.duplicates),
                 skipped    |-> Count(outcome.skipped),
                 failed     |-> Count(outcome.failed),
                 internal   |-> \E n \in DOMAIN outcome.failed :
                                  outcome.failed[n].code = "ROW_INTERNAL_ERROR",
                 truncated  |-> \/ IsCut(report.duplicates) \/ IsCut(outcome.skipped)
                                \/ IsCut(outcome.failed),
                 transactions |-> report.saved,
                 listed |-> [duplicates |-> Capped(report.duplicates),
                             skipped |-> Capped(outcome.skipped),
                             failed |-> Capped(outcome.failed)]]
    /\ UNCHANGED <<file, own, pos, outcome, seen, report>>

Answered == stage = "done" /\ UNCHANGED vars

Next ==
    \/ /\ stage = "idle"
       /\ \E f \in Files, accounts \in SUBSET OwnNames : ReadFile(f, accounts)
    \/ ParseRow \/ AbortOnRow \/ RowsParsed
    \/ NumberRow \/ RowsNumbered
    \/ (\E isKnown \in BOOLEAN : SaveRow(isKnown)) \/ Respond
    \/ Answered

Spec == Init /\ [][Next]_vars
-----------------------------------------------------------------------------
Rows(list) == { list[n].row : n \in DOMAIN list }

(* Well-formed states; every error a row can end in has its code.           *)
TypeOK ==
    /\ own \subseteq OwnNames
    /\ stage \in {"idle", "parse", "number", "save", "done"}
    /\ pos \in 0..(IF file = None THEN 0 ELSE Len(file.rows))
    /\ \A n \in DOMAIN outcome.parsed :
          outcome.parsed[n].kind \in {"EXPENSE", "INCOME", "INTEREST",
                                      "INTERNAL_TRANSFER", "EXTERNAL_TRANSFER"}
    /\ \A n \in DOMAIN outcome.failed : outcome.failed[n].code \in RowErrors
    /\ reply # None => reply.status \in FileErrors \cup {"ok", "INTERNAL_ERROR"}

(* Every row read so far is in exactly one of the three lists, once, and    *)
(* each list is in file order (base.py:52-120): no tier swallows a row or   *)
(* reports it twice.                                                        *)
RowsAccountedFor ==
    stage \in {"parse", "number", "save"} =>
        LET lists == <<outcome.parsed, outcome.skipped, outcome.failed>>
            done  == IF stage = "parse" THEN pos ELSE Len(file.rows)
        IN  /\ UNION { Rows(lists[n]) : n \in 1..3 } = 1..done
            /\ Len(lists[1]) + Len(lists[2]) + Len(lists[3]) = done
            /\ \A n \in 1..3 : \A i, j \in DOMAIN lists[n] :
                  i < j => lists[n][i].row < lists[n][j].row

(* The running counter gives what Ledger!Occurrence defines: the number of  *)
(* earlier parsed rows that look the same, whatever lies between them -     *)
(* rows that failed, were skipped, or look different (csv_service.py:       *)
(* 103-117).                                                                *)
NumberingIsPosition ==
    stage = "done" /\ reply.status = "ok" =>
        \A n \in DOMAIN outcome.parsed :
            outcome.parsed[n].occurrence =
                Cardinality({ k \in 1..(n - 1) :
                    outcome.parsed[k].key = outcome.parsed[n].key })

(* The rows the bank may export for the same payment later on. *)
Twins(format, row) ==
    IF format = "account"
      THEN { [row EXCEPT !.state = s] : s \in {"COMPLETED", "REVERTED"} } ELSE {row}

(* What a row is identified by is the bank's own account of it: adding or   *)
(* renaming accounts between two uploads may change a transfer's type but   *)
(* not its identity, and neither does the row's state, so a payment         *)
(* imported while pending is recognised once it completes (revolut.py:      *)
(* 29-31, 124-162, 180-197, 225-251).                                       *)
IdentityIsTheBanks ==
    \A n \in DOMAIN outcome.parsed :
        LET item == outcome.parsed[n]
            format == Format(file)
        IN  \A twin \in Twins(format, file.rows[item.row]), accounts \in SUBSET OwnNames :
                /\ SkipCheck(format, twin) = "parse" /\ RowError(format, twin) = "ok"
                /\ IdentityKey(Transaction(format, twin, accounts)) = item.key

(* docs/logging_and_errors.md section 7: "Counters stay exact; only the     *)
(* lists are trimmed" - the counters add up to the file, and the answer     *)
(* says it was trimmed exactly when a list is shorter than its counter      *)
(* (upload.py:26-30, 61-97).                                                *)
AnswerIsExact ==
    stage = "done" /\ reply.status = "ok" =>
        /\ reply.parsed + reply.skipped + reply.failed = reply.total
        /\ reply.saved + reply.duplicates = reply.parsed
        /\ reply.saved = Len(reply.transactions)
        /\ reply.truncated <=>
              \/ Len(reply.listed.duplicates) < reply.duplicates
              \/ Len(reply.listed.skipped) < reply.skipped
              \/ Len(reply.listed.failed) < reply.failed
-----------------------------------------------------------------------------
(* What the repository says of the parser and the code does not keep.       *)

(* base.py:53 "Parse every row. A single bad row never aborts the import."  *)
BadRowNeverAborts == reply # None => reply.status # "INTERNAL_ERROR"
=============================================================================
