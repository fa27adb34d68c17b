------------------------------ MODULE MCLedger ------------------------------
(* Values for the functions and symmetry sets of the Ledger runs.           *)
EXTENDS LedgerProperties, TLC

CONSTANTS ana, bob,          \* users
          anaAcc, bobAcc,    \* accounts
          anaCat, bobCat,    \* categories
          ten, odd, huge     \* an amount; one with more than two decimals
                             \*   that rounds to it; one out of range

MCOwner == [a \in Accounts |-> IF a = bobAcc THEN bob ELSE ana]
MCCategoryOwner == [c \in Categories |-> IF c = bobCat THEN bob ELSE ana]
MCRounded == [f \in Facts |-> IF f = huge THEN None
                              ELSE IF f = odd THEN ten ELSE f]

RequestSymmetry == Permutations(Uploads) \cup Permutations(Edits)
                   \cup Permutations(Merchants)
=============================================================================
