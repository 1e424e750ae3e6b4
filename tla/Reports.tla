------------------------------ MODULE Reports ------------------------------
(***************************************************************************)
(* What the reports make of the books (apps/reports/services.py): figures  *)
(* from the tables of loans and repayments beside those of the cash book,  *)
(* for the same business.  Interest that has accrued and is not paid is    *)
(* left out, as in CashBook.                                               *)
(***************************************************************************)
EXTENDS CashBook

-----------------------------------------------------------------------------
(* compute_kpis: every loan and every repayment ever recorded *)

LifetimeDisbursed == MapThenSumSet(LAMBDA l : loan[l].principal, DOMAIN loan)
ReceivedPrincipal == MapThenSumSet(LAMBDA r : rep[r].pay.p, DOMAIN rep)
ReceivedInterest == MapThenSumSet(LAMBDA r : rep[r].pay.i, DOMAIN rep)

Running == {l \in DOMAIN loan : loan[l].running}

\* loan_book_outstanding of compute_networth, and the portfolio report.
Portfolio == MapThenSumSet(Outstanding, Running)

\* Mutant: the balance of running loans only.
OutstandingRunning == Portfolio

OutstandingPrincipal == LifetimeDisbursed - ReceivedPrincipal

\* The rows without a source, net: capital, drawals, expenses, bank transfers.
ByHandNet == Net(Posted \cap Entries)

\* Principal counted as disbursed for which no row was posted.
NeverPosted == MapThenSumSet(LAMBDA l : loan[l].principal, DOMAIN loan \ Posted)

-----------------------------------------------------------------------------
(* Properties *)

\* "Collected interest and paid expenses ... have already flowed through cash": the
\* cash in hand and the principal still out are, together, what was put in by hand,
\* the interest collected and the principal of loans of the past, which alone the
\* figures count without a cash row; through any number of closes, renewals and
\* loans closed with debt, unless rows were back-dated, corrected or left unclosed.
BooksBalance ==
  strayed \subseteq {"renewals"} =>
    OnHand + OutstandingPrincipal = ByHandNet + ReceivedInterest + NeverPosted
=============================================================================
