------------------------------ MODULE CashBook ------------------------------
(***************************************************************************)
(* The cash book of one branch (apps/cashbook): cash transactions, posted  *)
(* by the signals of loans and repayments or entered by hand, and the day  *)
(* closes from which cash on hand is carried forward.                      *)
(*                                                                         *)
(* A posted row is identified with its source, a manual one with an id of  *)
(* its own.  The drawer is the cash really in the shop, less what was      *)
(* there when the book was opened, which is not recorded; nothing in the   *)
(* program reads it except the person who counts it at the day close.      *)
(* Payment modes are not distinguished, as in the sums of the code.        *)
(*                                                                         *)
(* Habits names the ways of working that the program allows and a careful  *)
(* shop may avoid; `strayed' records those it has strayed into:            *)
(*   late_rows    rows dated on a day already closed, or back-dated        *)
(*   busy_desk    rows posted while the day close is being computed        *)
(*   skip_days    a day with movements is left unclosed                    *)
(*   corrections  loans, repayments and rows edited or deleted             *)
(*   renewals     loans renewed or topped up                               *)
(*   admin_close  closes entered, recomputed or deleted for any date       *)
(*   overnight    a close computed before midnight and saved after it      *)
(***************************************************************************)
EXTENDS Integers, FiniteSets, FiniteSetsExt

CONSTANTS
  Loans, Receipts, Entries,   \* sources of rows; ids of manual rows
  Clerks,                     \* day-close forms being processed
  Principals, Extras, Amounts,
  Payments,                   \* [p : principal, i : interest]
  Offsets,                    \* dates of rows, in days from today
  LastDay,                    \* bound of the calendar
  Habits,
  MaxHabits,                  \* bound: how many of the habits a shop strays into
  MaxStrays                   \* bound: how many steps stray

ASSUME CashAssumption ==
  /\ Principals \subseteq Nat \ {0} /\ Extras \subseteq Nat /\ Amounts \subseteq Nat
  /\ Payments \subseteq [p : Nat, i : Nat]
  /\ Offsets \subseteq Int /\ LastDay \in Nat
  /\ MaxHabits \in Nat /\ MaxStrays \in Nat
  /\ Habits \subseteq {"late_rows", "busy_desk", "skip_days", "corrections",
                       "renewals", "admin_close", "overnight"}

ASSUME SourceAssumption ==
  /\ Loans \cap Receipts = {} /\ Loans \cap Entries = {} /\ Receipts \cap Entries = {}

VARIABLES
  loan,     \* table of loans: principal, whether running
  rep,      \* table of repayments
  txn,      \* table of cash transactions, by source or manual id
  used,     \* keys handed out so far; a key is never reused
  close,    \* table of day closes, by date
  form,     \* day-close requests: the day and position computed, by clerk
  drawer,   \* cash in the shop
  today,
  strayed,  \* history: habits the shop has strayed into
  strays    \* history: steps that strayed so far

vars == <<loan, rep, txn, used, close, form, drawer, today, strayed, strays>>

Days == 0..LastDay
Sources == Loans \cup Receipts
RowIds == Sources \cup Entries
Kinds == {"in", "out", "adjustment"}    \* IN_KINDS, OUT_KINDS, NEUTRAL_KINDS

Loan == [principal : Int, running : BOOLEAN]
Repayment == [loan : Loans, pay : [p : Nat, i : Nat]]
Row == [date : Int, kind : Kinds, amount : Int]
DayClose == [opening : Int, closing : Int, physical : Int]
CashPosition == [date : Days, opening : Int, closing : Int]

\* A table is a function from the keys of its rows.
With(table, k, row) ==
  [x \in DOMAIN table \cup {k} |-> IF x = k THEN row ELSE table[x]]
Without(table, keys) == [x \in DOMAIN table \ keys |-> table[x]]
NoRows == [x \in {} |-> x]

-----------------------------------------------------------------------------
(* services.py *)

Signed(row) ==
  CASE row.kind = "in" -> row.amount
    [] row.kind = "out" -> -row.amount
    [] row.kind = "adjustment" -> 0

Net(ids) == MapThenSumSet(LAMBDA x : Signed(txn[x]), ids)
Posted == DOMAIN txn
ClosedDays == DOMAIN close

\* Mutant: the close of the day itself is taken as the one before it.
LastClosingUpTo(d) ==
  LET before == {c \in ClosedDays : c <= d}
  IN  IF before = {} THEN 0 ELSE close[Max(before)].closing

\* Closing balance of the latest day close before d.
LastClosing(d) ==
  LET before == {c \in ClosedDays : c < d}
  IN  IF before = {} THEN 0 ELSE close[Max(before)].closing

\* cash_position: carried from the last close, plus the rows of the day itself.
Position(d) ==
  LET opening == LastClosing(d)
  IN  [date |-> d, opening |-> opening,
       closing |-> opening + Net({x \in Posted : txn[x].date = d})]

\* Mutant: rows of the closed day count again.
OnHandFromClose ==
  LET last == Max(ClosedDays)
  IN  IF ClosedDays = {} THEN Net(Posted)
      ELSE close[last].closing + Net({x \in Posted : txn[x].date >= last})

\* total_cash_on_hand of the branch.
OnHand ==
  LET last == Max(ClosedDays)
  IN  IF ClosedDays = {} THEN Net(Posted)
      ELSE close[last].closing + Net({x \in Posted : txn[x].date > last})

-----------------------------------------------------------------------------
(* Movements: a loan or repayment is saved and its signal posts the row, in *)
(* one transaction.                                                         *)

\* A step that takes the habits H, none or some, for the first time or again.
Stray(H) ==
  /\ H \subseteq Habits /\ Cardinality(strayed \cup H) <= MaxHabits
  /\ H # {} => strays < MaxStrays
  /\ strayed' = strayed \cup H
  /\ strays' = IF H = {} THEN strays ELSE strays + 1

\* Habits it takes to post a row of this date now.
Late(date) ==
  IF date # today \/ today \in ClosedDays THEN {"late_rows"}
  ELSE IF DOMAIN form # {} THEN {"busy_desk"} ELSE {}

Post(x, date, kind, amount) ==
  txn' = With(txn, x, [date |-> date, kind |-> kind, amount |-> amount])

\* post_disbursement: dated on the loan's start_date.  The add form offers every
\* status: a loan of the past, saved as closed or auctioned, posts no row.
BookLoan(l, p, offset, running) ==
  /\ l \notin used
  /\ used' = used \cup {l}
  /\ loan' = With(loan, l, [principal |-> p, running |-> running])
  /\ IF running
       THEN /\ Post(l, today + offset, "out", p) /\ Stray(Late(today + offset))
            /\ drawer' = drawer - p
       ELSE UNCHANGED <<txn, strayed, strays, drawer>>
  /\ UNCHANGED <<rep, close, form, today>>

Outstanding(l) ==
  loan[l].principal -
    MapThenSumSet(LAMBDA r : rep[r].pay.p, {r \in DOMAIN rep : rep[r].loan = l})

\* Mutant: the interest part is left out of the row.
CashOfPrincipal(pay) == pay.p

\* What post_repayment counts as cash: principal and interest, not the waiver.
CashOf(pay) == pay.p + pay.i

\* autoclose_loan: with no principal left the loan closes if its interest, which
\* is not modelled here, is settled too.
MayClose(l, left) ==
  \E cleared \in BOOLEAN :
    loan' = [loan EXCEPT ![l].running = @ /\ ~(cleared /\ left <= 0)]

\* post_repayment: dated on the UTC date of paid_at; no row for nothing.
Repay(r, l, pay, offset) ==
  /\ r \notin used
  /\ l \in DOMAIN loan /\ pay.p <= Outstanding(l)
  /\ used' = used \cup {r}
  /\ rep' = With(rep, r, [loan |-> l, pay |-> pay])
  /\ IF CashOf(pay) > 0
       THEN Post(r, today + offset, "in", CashOf(pay)) /\ Stray(Late(today + offset))
       ELSE UNCHANGED <<txn, strayed, strays>>
  /\ MayClose(l, Outstanding(l) - pay.p)
  /\ drawer' = drawer + pay.p + pay.i
  /\ UNCHANGED <<close, form, today>>

\* renew_loan and topup_loan save a new active loan: the signal posts all of its
\* principal, while only the top-up is handed to the customer.
CarryForward(l, n, extra, offset) ==
  /\ l \in DOMAIN loan /\ loan[l].running
  /\ n \notin used
  /\ used' = used \cup {n}
  /\ LET principal == Outstanding(l) + extra IN
       /\ loan' = With([loan EXCEPT ![l].running = FALSE], n,
                       [principal |-> principal, running |-> TRUE])
       /\ Post(n, today + offset, "out", principal)
       /\ Stray({"renewals"} \cup Late(today + offset))
  /\ drawer' = drawer - extra
  /\ UNCHANGED <<rep, close, form, today>>

\* preclose_loan: no cash row, "record any settlement payment as a Repayment".
Preclose(l) ==
  /\ l \in DOMAIN loan /\ loan[l].running
  /\ loan' = [loan EXCEPT ![l].running = FALSE]
  /\ UNCHANGED <<used, rep, txn, close, form, drawer, today, strayed, strays>>

\* A manual row: capital, drawal, expense, bank transfer, adjustment.
Enter(e, kind, amount, offset) ==
  /\ e \notin used
  /\ used' = used \cup {e}
  /\ Post(e, today + offset, kind, amount) /\ Stray(Late(today + offset))
  /\ drawer' = drawer + Signed([kind |-> kind, amount |-> amount])
  /\ UNCHANGED <<loan, rep, close, form, today>>

-----------------------------------------------------------------------------
(* Corrections *)

\* The signals act on creation only: the posted row keeps the old amount.
EditLoan(l, p, running) ==
  /\ Stray({"corrections"})
  /\ l \in DOMAIN loan
  /\ loan' = [loan EXCEPT ![l] = [principal |-> p, running |-> running]]
  /\ UNCHANGED <<used, rep, txn, close, form, drawer, today>>

EditRepayment(r, pay) ==
  /\ Stray({"corrections"})
  /\ r \in DOMAIN rep
  /\ LET l == rep[r].loan
         left == Outstanding(l) + rep[r].pay.p - pay.p
     IN  left >= 0 /\ MayClose(l, left)
  /\ rep' = [rep EXCEPT ![r].pay = pay]
  /\ UNCHANGED <<used, txn, close, form, drawer, today>>

\* Mutant: SET_NULL on source_repayment, as it was before migration 0002.
DeleteRepaymentOnly(r) ==
  /\ Stray({"corrections"})
  /\ r \in DOMAIN rep
  /\ rep' = Without(rep, {r})
  /\ UNCHANGED <<used, loan, txn, close, form, drawer, today>>

\* CASCADE: the rows posted for what is deleted go with it.
DeleteRepayment(r) ==
  /\ Stray({"corrections"})
  /\ r \in DOMAIN rep
  /\ rep' = Without(rep, {r})
  /\ txn' = Without(txn, {r})
  /\ UNCHANGED <<used, loan, close, form, drawer, today>>

DeleteLoan(l) ==
  /\ Stray({"corrections"})
  /\ l \in DOMAIN loan
  /\ LET gone == {r \in DOMAIN rep : rep[r].loan = l} IN
       /\ rep' = Without(rep, gone)
       /\ txn' = Without(txn, gone \cup {l})
  /\ loan' = Without(loan, {l})
  /\ UNCHANGED <<used, close, form, drawer, today>>

\* Manual rows stay editable, posted ones are read-only.
EditRow(e, kind, amount, offset) ==
  /\ Stray({"corrections"})
  /\ e \in Posted
  /\ Post(e, today + offset, kind, amount)
  /\ UNCHANGED <<used, loan, rep, close, form, drawer, today>>

\* Manual rows by staff, posted ones by the owner.
DeleteRow(x) ==
  /\ Stray({"corrections"})
  /\ x \in Posted
  /\ txn' = Without(txn, {x})
  /\ UNCHANGED <<used, loan, rep, close, form, drawer, today>>

-----------------------------------------------------------------------------
(* Day close *)

\* day_close_form takes the date and computes the position at the start of the
\* request ...
ComputeClose(c) ==
  /\ c \notin DOMAIN form
  /\ form' = With(form, c, Position(today))
  /\ UNCHANGED <<used, loan, rep, txn, close, drawer, today, strayed, strays>>

\* ... and writes it to that day's row, new or existing, with the counted cash
\* or, when nothing was counted, the computed balance.  Nothing is written when
\* another clerk has just inserted the row (uniq_dayclose_per_tenant_branch_date).
SaveClose(c, counted) ==
  /\ c \in DOMAIN form
  /\ close' = With(close, form[c].date,
       [opening |-> form[c].opening, closing |-> form[c].closing,
        physical |-> IF counted THEN drawer ELSE form[c].closing])
  /\ form' = Without(form, {c})
  /\ UNCHANGED <<used, loan, rep, txn, drawer, today, strayed, strays>>

RefuseClose(c) ==
  /\ c \in DOMAIN form /\ form[c].date \in ClosedDays
  /\ form' = Without(form, {c})
  /\ UNCHANGED <<used, loan, rep, txn, close, drawer, today, strayed, strays>>

\* The count already in the form of an existing close.
EnteredBefore(d) == {close[c].physical : c \in ClosedDays \cap {d}}

\* Mutant: the form's date is taken as a UTC instant, a day late.
AdminCloseNextDay(d, counted) ==
  /\ Stray({"admin_close"})
  /\ close' = With(close, d + 1,
       [opening |-> Position(d).opening, closing |-> Position(d).closing,
        physical |-> IF counted = 0 THEN Position(d).closing ELSE counted])
  /\ UNCHANGED <<used, loan, rep, txn, form, drawer, today>>

\* DayCloseAdmin.save_model recomputes the row of whatever date is in the form; a
\* count of zero means not counted.
AdminClose(d, counted) ==
  /\ Stray({"admin_close"})
  /\ close' = With(close, d,
       [opening |-> Position(d).opening, closing |-> Position(d).closing,
        physical |-> IF counted = 0 THEN Position(d).closing ELSE counted])
  /\ UNCHANGED <<used, loan, rep, txn, form, drawer, today>>

DeleteClose(d) ==
  /\ Stray({"admin_close"})
  /\ d \in ClosedDays
  /\ close' = Without(close, {d})
  /\ UNCHANGED <<used, loan, rep, txn, form, drawer, today>>

Tick ==
  /\ today < LastDay
  /\ Stray((IF DOMAIN form = {} THEN {} ELSE {"overnight"}) \cup
           (IF today \in ClosedDays \/ \A x \in Posted : txn[x].date # today
              THEN {} ELSE {"skip_days"}))
  /\ today' = today + 1
  /\ UNCHANGED <<used, loan, rep, txn, close, form, drawer>>

Init ==
  /\ loan = NoRows /\ rep = NoRows /\ txn = NoRows /\ used = {}
  /\ close = NoRows /\ form = NoRows
  /\ drawer = 0
  /\ today = 0
  /\ strayed = {} /\ strays = 0

Movement ==
  \/ \E l \in Loans, p \in Principals, offset \in Offsets, running \in BOOLEAN :
       BookLoan(l, p, offset, running)
  \/ \E r \in Receipts, l \in Loans, pay \in Payments, offset \in Offsets :
       Repay(r, l, pay, offset)
  \/ \E l \in Loans : Preclose(l)
  \/ \E l, n \in Loans, extra \in Extras, offset \in Offsets :
       CarryForward(l, n, extra, offset)
  \/ \E e \in Entries, kind \in Kinds, a \in Amounts, offset \in Offsets :
       Enter(e, kind, a, offset)

Correction ==
  \/ \E l \in Loans, p \in Principals, running \in BOOLEAN : EditLoan(l, p, running)
  \/ \E r \in Receipts, pay \in Payments : EditRepayment(r, pay)
  \/ \E r \in Receipts : DeleteRepayment(r)
  \/ \E l \in Loans : DeleteLoan(l)
  \/ \E x \in RowIds : DeleteRow(x)
  \/ \E e \in Entries, kind \in Kinds, a \in Amounts, offset \in Offsets :
       EditRow(e, kind, a, offset)

Closing ==
  \/ \E c \in Clerks : ComputeClose(c) \/ RefuseClose(c) \/ \E counted \in BOOLEAN : SaveClose(c, counted)
  \/ \E d \in Days :
       DeleteClose(d) \/ \E counted \in {0, drawer} \cup EnteredBefore(d) : AdminClose(d, counted)

Next == Movement \/ Correction \/ Closing \/ Tick

Spec == Init /\ [][Next]_vars
-----------------------------------------------------------------------------
(* Properties *)

\* Rows, closes and forms stay within their types.
TypeOK ==
  /\ loan \in [DOMAIN loan -> Loan] /\ DOMAIN loan \subseteq Loans \cap used
  /\ rep \in [DOMAIN rep -> Repayment] /\ DOMAIN rep \subseteq Receipts \cap used
  /\ txn \in [Posted -> Row] /\ Posted \subseteq RowIds \cap used
  /\ close \in [ClosedDays -> DayClose] /\ ClosedDays \subseteq Days
  /\ form \in [DOMAIN form -> CashPosition]
  /\ DOMAIN form \subseteq Clerks
  /\ drawer \in Int
  /\ today \in Days
  /\ strayed \subseteq Habits /\ strays \in Nat

\* total_cash_on_hand is a "true running cash balance": what the closes carry
\* forward plus the rows since is the sum of all rows ever recorded.
OnHandIsTrue == OnHand = Net(Posted)

\* It is, through any number of closes and renewals, of a shop that closes every
\* day with movements once, at its end, and corrects nothing afterwards.
CarefulOnHandIsTrue == strayed \subseteq {"renewals"} => OnHandIsTrue

\* Every close opens with what the one before it closed with, the first with
\* nothing, although forms overwrite closes while rows are posted, changed and
\* back-dated: only a close entered or deleted in the admin, or saved for the day
\* before when midnight has passed, breaks the chain.
OpeningsChain ==
  strayed \cap {"admin_close", "overnight"} = {} =>
    \A d \in ClosedDays :
      \/ d = Min(ClosedDays) /\ close[d].opening = 0
      \/ \E c \in ClosedDays :
           /\ c < d /\ \A b \in ClosedDays : b <= c \/ b >= d
           /\ close[d].opening = close[c].closing

\* A day on which everything handed over was recorded closes with no variance:
\* the counted drawer agrees with the balance carried through all the days.
HonestDayBalances ==
  strayed = {} => \A d \in ClosedDays : close[d].physical = close[d].closing

\* The CASCADE of source_loan and source_repayment: no posted row outlives its
\* source, through whichever of the two it is deleted.
NoOrphanRows ==
  /\ Posted \cap Sources \subseteq DOMAIN loan \cup DOMAIN rep
  /\ \A r \in DOMAIN rep : rep[r].loan \in DOMAIN loan
=============================================================================
