----------------------------- MODULE MCLoanBook -----------------------------
(***************************************************************************)
(* Instances of LoanBook for TLC.  A loan of 100 at 10 % a month, calendar *)
(* steps of 31 days: a month's interest is 10, after one step still 10     *)
(* (10.33), after two 21.                                                  *)
(***************************************************************************)
EXTENDS LoanBook, TLC

Pay(p, i, w) == [p |-> p, i |-> i, w |-> w]

\* Half of the principal with all interest, part of it waived; or a paisa more than half.
HalfOrOver == {Pay(51, 0, 0), Pay(50, 5, 5)}
\* Half of the principal and of a month's interest: two of them settle a loan of one
\* month, and leave interest due on one of two.
HalfAndInterest == {Pay(50, 5, 0)}
OneMonth == {Pay(0, 10, 0)}
InterestOrAll == {Pay(0, 10, 0), Pay(100, 10, 0)}

FromToday == {0}
BackDated == {-31}
OneOrTwoMonths == {-31, -62}
NoLag == {0}
UtcLags == {0, 1}

RowSymmetry == Permutations(Loans) \cup Permutations(Receipts) \cup Permutations(Workers)
=============================================================================
