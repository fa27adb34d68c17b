---------------------------- MODULE MCCsvImport -----------------------------
(* Files and descriptions for the CsvImport runs.                           *)
EXTENDS CsvImport

CONSTANTS main, pocket,          \* names of the caller's accounts
          shop, pocketText,      \* descriptions; the second mentions pocket
          long1, long2           \* two that only differ past 150 characters

MCMentions == {<<pocketText, pocket>>} \cap (Names \X OwnNames)
MCCut == [n \in Names |-> IF n = long2 THEN long1 ELSE n]

CsvFile(header, rows) == [bytes |-> "text", header |-> header, rows |-> rows]

(* Every row there is, alone in its file; and the files refused whole.      *)
Refused == { [bytes |-> b, header |-> h, rows |-> << >>] :
               b \in {"text", "too many", "none", "not utf-8", "huge cell"},
               h \in {"none", "repeated", "other", "both", "account", "saving"} }
SingleRows == { CsvFile(h, <<row>>) : h \in {"account", "both"}, row \in AccountRows }
              \cup { CsvFile("saving", <<row>>) : row \in SavingRows }
              \cup Refused

(* Files of up to four rows, drawn from a few that between them take every  *)
(* way through the loop and look alike in the ways that matter.             *)
Payment == [long |-> FALSE, state |-> "COMPLETED", type |-> "Card Payment",
            amount |-> "-", start |-> "today",
            text |-> [prefix |-> "", name |-> shop]]
Mixed == { Payment,
           [Payment EXCEPT !.state = "PENDING"],
           [Payment EXCEPT !.text.name = pocketText, !.text.prefix = "To",
                           !.type = "Transfer"],
           [Payment EXCEPT !.state = "PENDING", !.type = "Card Refund"],
           [Payment EXCEPT !.amount = "bad"] }
MixedFiles == { CsvFile("account", rows) : rows \in UNION { [1..n -> Mixed] : n \in 1..4 } }
AllFiles == SingleRows \cup MixedFiles \cup { CsvFile("other", <<Payment>>) }

(* Well-formed text with nothing wrong but a row's data.                    *)
RaggedFiles == { CsvFile("account", <<[Payment EXCEPT !.long = l], Payment>>) : l \in BOOLEAN }
=============================================================================
