---------------------------- MODULE MCDirectory -----------------------------
(* Values for the Directory runs: an admin, and a user with one account.    *)
EXTENDS Directory

CONSTANTS root, ana,     \* users from before; root is an admin
          anaAcc,        \* an account of ana's
          n1, n2, long,  \* names; the last fits no column
          d1, d2         \* passwords, or other columns

MCSeedUsers == [u \in Seeds |-> [name |-> IF u = root THEN n1 ELSE n2, detail |-> d1]]
MCSeedAccounts == [a \in OldAccounts |-> [name |-> n1, detail |-> d1, user |-> ana]]
=============================================================================
