----------------------------- MODULE MCAuctions -----------------------------
(***************************************************************************)
(* Instances of Auctions for TLC.                                          *)
(***************************************************************************)
EXTENDS Auctions, TLC

\* Due twenty days ago: thirty days have passed on the thirteenth.
Matured == {0 - 20}
\* Thirteen days are a day short of a notice period, fifteen are enough.
AboutTwoWeeks == {13, 15}
UtcLags == {0, 1}
IdSymmetry == Permutations(Loans) \cup Permutations(Workers)
=============================================================================
