----------------------------- MODULE MCCashBook -----------------------------
(***************************************************************************)
(* Instances of Reports, and with it of CashBook, for TLC.                 *)
(***************************************************************************)
EXTENDS Reports, TLC

\* Principal and interest, interest alone, and nothing (all of it waived).
SomePayments == {[p |-> 50, i |-> 10], [p |-> 0, i |-> 10], [p |-> 0, i |-> 0]}
OnTheDay == {0}

IdSymmetry ==
  Permutations(Loans) \cup Permutations(Receipts)
    \cup Permutations(Entries) \cup Permutations(Clerks)
=============================================================================
