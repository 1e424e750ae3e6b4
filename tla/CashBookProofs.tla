--------------------------- MODULE CashBookProofs ---------------------------
(***************************************************************************)
(* Theorems about CashBook and Reports, for any loans, repayments, sums,   *)
(* calendar and habits.  No posted cash row outlives its source: for this  *)
(* the balances play no part, the keys of the three tables have to be of   *)
(* their kinds and a repayment a record.  Every day close opens with what  *)
(* the close before it left, unless the admin's own pages are used.  And,  *)
(* with the lemmas of Arithmetic about sums, the balances: cash on hand,   *)
(* the counted drawer, and the books as a whole.                           *)
(***************************************************************************)
EXTENDS Reports, Arithmetic

\* What the cascades rely on: each table has keys of its own kind.
Keyed ==
  /\ DOMAIN loan \subseteq Loans
  /\ DOMAIN rep \subseteq Receipts
  /\ rep \in [DOMAIN rep -> Repayment]

OrphanInv == Keyed /\ NoOrphanRows

LEMMA WithDomain ==
  ASSUME NEW table, NEW k, NEW row
  PROVE  /\ DOMAIN With(table, k, row) = DOMAIN table \cup {k}
         /\ With(table, k, row)[k] = row
         /\ \A x \in DOMAIN table \ {k} : With(table, k, row)[x] = table[x]
BY DEF With

LEMMA WithoutDomain ==
  ASSUME NEW table, NEW keys
  PROVE  /\ DOMAIN Without(table, keys) = DOMAIN table \ keys
         /\ \A x \in DOMAIN table \ keys : Without(table, keys)[x] = table[x]
BY DEF Without

\* Posting a row for a key that is (now) in one of the source tables, or manual.
LEMMA PostKeepsSources ==
  ASSUME NEW x, NEW date, NEW kind, NEW amount, Post(x, date, kind, amount)
  PROVE  Posted' = Posted \cup {x}
BY WithDomain DEF Post, Posted

LEMMA InitOrphan == Init => OrphanInv
BY DEF Init, NoRows, OrphanInv, Keyed, NoOrphanRows, Posted, Repayment

LEMMA BookLoanOrphan ==
  ASSUME OrphanInv, NEW l \in Loans, NEW p, NEW offset, NEW running, BookLoan(l, p, offset, running)
  PROVE  OrphanInv'
<1>1. DOMAIN loan' = DOMAIN loan \cup {l} /\ rep' = rep
  BY WithDomain DEF BookLoan
<1>2. Posted' \subseteq Posted \cup {l}
  BY PostKeepsSources DEF BookLoan, Posted
<1>. QED
  BY <1>1, <1>2 DEF OrphanInv, Keyed, NoOrphanRows

LEMMA RepayOrphan ==
  ASSUME OrphanInv, NEW r \in Receipts, NEW l \in Loans, NEW pay \in Payments, NEW offset,
         Repay(r, l, pay, offset)
  PROVE  OrphanInv'
<1>. DEFINE row == [loan |-> l, pay |-> pay]
<1>1. DOMAIN loan' = DOMAIN loan /\ l \in DOMAIN loan
  BY DEF Repay, MayClose
<1>2. Posted' \subseteq Posted \cup {r}
  <2>1. CASE CashOf(pay) > 0
    <3>1. Post(r, today + offset, "in", CashOf(pay))
      BY <2>1 DEF Repay
    <3>. QED
      BY <3>1, PostKeepsSources
  <2>2. CASE ~(CashOf(pay) > 0)
    BY <2>2 DEF Repay, Posted
  <2>. QED
    BY <2>1, <2>2
<1>3. rep' = With(rep, r, row)
  BY DEF Repay
<1>4. row \in Repayment /\ row.loan = l
  BY CashAssumption DEF Repayment
<1>. HIDE DEF row
<1>5. /\ DOMAIN rep' = DOMAIN rep \cup {r} /\ rep'[r] = row
      /\ \A x \in DOMAIN rep \ {r} : rep'[x] = rep[x]
  BY <1>3 DEF With
<1>6. \A x \in DOMAIN rep' : rep'[x] \in Repayment /\ rep'[x].loan \in DOMAIN loan
  BY <1>1, <1>4, <1>5 DEF OrphanInv, Keyed, NoOrphanRows
<1>7. rep' \in [DOMAIN rep' -> Repayment]
  BY <1>3, <1>6 DEF With
<1>. QED
  BY <1>1, <1>2, <1>5, <1>6, <1>7 DEF OrphanInv, Keyed, NoOrphanRows

LEMMA CarryForwardOrphan ==
  ASSUME OrphanInv, NEW l \in Loans, NEW n \in Loans, NEW extra, NEW offset,
         CarryForward(l, n, extra, offset)
  PROVE  OrphanInv'
<1>. DEFINE old == [loan EXCEPT ![l].running = FALSE]
            row == [principal |-> Outstanding(l) + extra, running |-> TRUE]
<1>1. DOMAIN loan' = DOMAIN loan \cup {n} /\ rep' = rep
  <2>1. DOMAIN old = DOMAIN loan
    OBVIOUS
  <2>2. loan' = With(old, n, row) /\ rep' = rep
    BY DEF CarryForward
  <2>. HIDE DEF old, row
  <2>. QED
    BY <2>1, <2>2 DEF With
<1>2. Posted' = Posted \cup {n}
  BY PostKeepsSources DEF CarryForward
<1>. QED
  BY <1>1, <1>2 DEF OrphanInv, Keyed, NoOrphanRows

LEMMA EnterOrphan ==
  ASSUME OrphanInv, NEW e \in Entries, NEW kind, NEW a, NEW offset, Enter(e, kind, a, offset)
  PROVE  OrphanInv'
<1>1. loan' = loan /\ rep' = rep
  BY DEF Enter
<1>2. Posted' = Posted \cup {e}
  BY PostKeepsSources DEF Enter
<1>3. e \notin Sources
  BY SourceAssumption DEF Sources
<1>. QED
  BY <1>1, <1>2, <1>3 DEF OrphanInv, Keyed, NoOrphanRows

LEMMA EditOrphan ==
  ASSUME OrphanInv, NEW r \in Receipts, NEW pay \in Payments, EditRepayment(r, pay)
  PROVE  OrphanInv'
<1>1. DOMAIN loan' = DOMAIN loan /\ Posted' = Posted /\ r \in DOMAIN rep
  BY DEF EditRepayment, MayClose, Posted
<1>2. rep' = [rep EXCEPT ![r] = [rep[r] EXCEPT !.pay = pay]]
  BY DEF EditRepayment
<1>3. [rep[r] EXCEPT !.pay = pay] \in Repayment
  BY <1>1, CashAssumption DEF OrphanInv, Keyed, Repayment
<1>4. [rep[r] EXCEPT !.pay = pay].loan = rep[r].loan
  BY <1>1 DEF OrphanInv, Keyed, Repayment
<1>5. DOMAIN rep' = DOMAIN rep /\ rep' \in [DOMAIN rep -> Repayment]
  BY <1>2, <1>3 DEF OrphanInv, Keyed
<1>6. \A x \in DOMAIN rep : rep'[x].loan = rep[x].loan
  BY <1>2, <1>4
<1>. QED
  BY <1>1, <1>5, <1>6 DEF OrphanInv, Keyed, NoOrphanRows

LEMMA DeleteRepaymentOrphan ==
  ASSUME OrphanInv, NEW r \in Receipts, DeleteRepayment(r)
  PROVE  OrphanInv'
<1>1. /\ DOMAIN rep' = DOMAIN rep \ {r}
      /\ \A x \in DOMAIN rep \ {r} : rep'[x] = rep[x]
      /\ Posted' = Posted \ {r} /\ loan' = loan
  BY WithoutDomain DEF DeleteRepayment, Posted
<1>2. rep' \in [DOMAIN rep' -> Repayment]
  BY <1>1 DEF DeleteRepayment, Without, OrphanInv, Keyed
<1>. QED
  BY <1>1, <1>2 DEF OrphanInv, Keyed, NoOrphanRows

LEMMA DeleteLoanOrphan ==
  ASSUME OrphanInv, NEW l \in Loans, DeleteLoan(l)
  PROVE  OrphanInv'
<1>. DEFINE gone == {r \in DOMAIN rep : rep[r].loan = l}
<1>1. /\ DOMAIN rep' = DOMAIN rep \ gone
      /\ \A x \in DOMAIN rep \ gone : rep'[x] = rep[x]
      /\ Posted' = Posted \ (gone \cup {l})
      /\ DOMAIN loan' = DOMAIN loan \ {l}
  BY WithoutDomain DEF DeleteLoan, Posted
<1>2. rep' \in [DOMAIN rep' -> Repayment]
  BY <1>1 DEF DeleteLoan, Without, OrphanInv, Keyed
<1>3. \A r \in DOMAIN rep' : rep'[r].loan \in DOMAIN loan'
  BY <1>1 DEF OrphanInv, NoOrphanRows
<1>4. Posted' \cap Sources \subseteq DOMAIN loan' \cup DOMAIN rep'
  BY <1>1 DEF OrphanInv, NoOrphanRows
<1>. QED
  BY <1>1, <1>2, <1>3, <1>4 DEF OrphanInv, Keyed, NoOrphanRows

LEMMA DeleteRowOrphan ==
  ASSUME OrphanInv, NEW x \in RowIds, DeleteRow(x)
  PROVE  OrphanInv'
<1>1. Posted' = Posted \ {x} /\ loan' = loan /\ rep' = rep
  BY WithoutDomain DEF DeleteRow, Posted
<1>. QED
  BY <1>1 DEF OrphanInv, Keyed, NoOrphanRows

LEMMA EditRowOrphan ==
  ASSUME OrphanInv, NEW e, NEW kind, NEW amount, NEW offset, EditRow(e, kind, amount, offset)
  PROVE  OrphanInv'
<1>1. Posted' = Posted \cup {e} /\ e \in Posted /\ loan' = loan /\ rep' = rep
  BY PostKeepsSources DEF EditRow
<1>. QED
  BY <1>1 DEF OrphanInv, Keyed, NoOrphanRows

\* A step that leaves the three tables alone, or rewrites loans in place.
LEMMA SameKeysOrphan ==
  ASSUME OrphanInv, DOMAIN loan' = DOMAIN loan, rep' = rep, txn' = txn
  PROVE  OrphanInv'
BY DEF OrphanInv, Keyed, NoOrphanRows, Posted

LEMMA NextOrphan == OrphanInv /\ [Next]_vars => OrphanInv'
<1>. SUFFICES ASSUME OrphanInv, [Next]_vars PROVE OrphanInv'
  OBVIOUS
<1>1. CASE Movement
  <2>1. ASSUME NEW l \in Loans, Preclose(l) PROVE OrphanInv'
    <3>1. DOMAIN loan' = DOMAIN loan /\ rep' = rep /\ txn' = txn
      BY <2>1 DEF Preclose
    <3>. QED
      BY <3>1, SameKeysOrphan
  <2>. QED
    BY <1>1, <2>1, BookLoanOrphan, RepayOrphan, CarryForwardOrphan, EnterOrphan DEF Movement
<1>2. CASE Correction
  <2>1. ASSUME NEW l \in Loans, NEW p \in Principals, NEW running \in BOOLEAN,
               EditLoan(l, p, running)
        PROVE  OrphanInv'
    <3>1. DOMAIN loan' = DOMAIN loan /\ rep' = rep /\ txn' = txn
      BY <2>1 DEF EditLoan
    <3>. QED
      BY <3>1, SameKeysOrphan
  <2>. QED
    BY <1>2, <2>1, EditOrphan, DeleteRepaymentOrphan, DeleteLoanOrphan, DeleteRowOrphan,
       EditRowOrphan
       DEF Correction
<1>3. CASE Closing \/ Tick \/ UNCHANGED vars
  <2>1. loan' = loan /\ rep' = rep /\ txn' = txn
    BY <1>3 DEF Closing, Tick, vars, ComputeClose, SaveClose, RefuseClose, AdminClose, DeleteClose
  <2>. QED
    BY <2>1, SameKeysOrphan
<1>. QED
  BY <1>1, <1>2, <1>3 DEF Next

\* The comment at the CASCADE of CashTransaction: when a source is deleted the
\* cash entry goes too, "otherwise it lingers as an orphan and overstates cash
\* on hand"; through the loan or the repayment, whatever else has happened.
THEOREM OrphanFree == Spec => []NoOrphanRows
<1>1. OrphanInv => NoOrphanRows
  BY DEF OrphanInv
<1>. QED
  BY <1>1, InitOrphan, NextOrphan, PTL DEF Spec

-----------------------------------------------------------------------------
(* The chain of openings.  OpeningsChain is not inductive: a form holds an  *)
(* opening computed earlier, and the balance comes from the Max of a set of *)
(* dates.  The invariant says of forms and closes alike that their opening  *)
(* follows the last close before their day, and of the closes that there is *)
(* a last one before any day.                                               *)

\* Close c is the last one before d.
LastBefore(c, d) == c \in ClosedDays /\ c < d /\ \A b \in ClosedDays : b <= c \/ b >= d

\* v is the balance to open day d with.
Follows(d, v) ==
  \/ (\A b \in ClosedDays : b >= d) /\ v = 0
  \/ \E c \in ClosedDays : LastBefore(c, d) /\ v = close[c].closing

Chained ==
  /\ \A d \in ClosedDays : d \in Nat /\ d <= today
  /\ \A d \in Nat : (\E b \in ClosedDays : b < d) => \E c \in ClosedDays : LastBefore(c, d)
  /\ \A c \in DOMAIN form : form[c].date = today /\ Follows(today, form[c].opening)
  /\ \A d \in ClosedDays : Follows(d, close[d].opening)

ByTheForm == strayed \cap {"admin_close", "overnight"} = {}

ChainInv == today \in Nat /\ (ByTheForm => Chained)

LEMMA InitChain == Init => ChainInv
BY DEF Init, NoRows, ChainInv, Chained, ClosedDays

\* LastClosing, written with Max, is the balance to open a day with.
LEMMA LastClosingFollows ==
  ASSUME Chained, NEW d \in Nat
  PROVE  Follows(d, LastClosing(d))
<1>. DEFINE before == {c \in ClosedDays : c < d}
<1>1. CASE before = {}
  BY <1>1 DEF LastClosing, Follows, Chained
<1>2. CASE before # {}
  <2>1. PICK c \in ClosedDays : LastBefore(c, d)
    BY <1>2 DEF Chained
  <2>2. c \in before /\ \A b \in before : c >= b
    BY <2>1 DEF LastBefore, Chained
  <2>3. Max(before) \in before /\ \A b \in before : Max(before) >= b
    <3>. HIDE DEF before
    <3>. QED
      BY <2>2 DEF Max
  <2>4. Max(before) = c
    <3>1. \A b \in before : b \in Nat
      BY DEF Chained
    <3>2. PICK m : m = Max(before)
      OBVIOUS
    <3>. HIDE DEF before
    <3>3. m \in before /\ m \in Nat /\ c \in Nat /\ m >= c /\ c >= m
      BY <2>2, <2>3, <3>1, <3>2
    <3>. QED
      BY <3>2, <3>3
  <2>5. LastClosing(d) = close[c].closing
    BY <1>2, <2>4 DEF LastClosing
  <2>. QED
    BY <2>1, <2>5 DEF Follows
<1>. QED
  BY <1>1, <1>2

\* A step that leaves closes, forms and the day alone.
LEMMA SameClosesChain ==
  ASSUME ChainInv, close' = close, form' = form, today' = today, strayed \subseteq strayed'
  PROVE  ChainInv'
BY DEF ChainInv, ByTheForm, Chained, Follows, LastBefore, ClosedDays

LEMMA ComputeCloseChain ==
  ASSUME ChainInv, NEW c \in Clerks, ComputeClose(c)
  PROVE  ChainInv'
<1>1. close' = close /\ today' = today /\ strayed' = strayed /\ ClosedDays' = ClosedDays
  BY DEF ComputeClose, ClosedDays
<1>. SUFFICES ASSUME ByTheForm PROVE Chained'
  BY <1>1 DEF ChainInv, ByTheForm
<1>2. Chained /\ today \in Nat
  BY DEF ChainInv
<1>3. Position(today).date = today /\ Follows(today, Position(today).opening)
  BY <1>2, LastClosingFollows DEF Position
<1>4. \A k \in DOMAIN form' : form'[k].date = today /\ Follows(today, form'[k].opening)
  <2>1. form' = With(form, c, Position(today))
    BY DEF ComputeClose
  <2>2. /\ DOMAIN form' = DOMAIN form \cup {c} /\ form'[c] = Position(today)
        /\ \A k \in DOMAIN form \ {c} : form'[k] = form[k]
    BY <2>1 DEF With
  <2>. QED
    BY <1>2, <1>3, <2>2 DEF Chained
<1>. QED
  BY <1>1, <1>2, <1>4 DEF Chained, Follows, LastBefore

\* The close of today is written; what it follows, and what the closes before
\* it follow, are closes of days before today.
LEMMA SaveCloseChain ==
  ASSUME ChainInv, NEW c \in Clerks, NEW counted \in BOOLEAN, SaveClose(c, counted)
  PROVE  ChainInv'
<1>1. /\ today' = today /\ strayed' = strayed
      /\ c \in DOMAIN form
      /\ ByTheForm => /\ ClosedDays' = ClosedDays \cup {today}
                      /\ close'[today].opening = form[c].opening
                      /\ \A d \in ClosedDays : d # today => close'[d] = close[d]
      /\ DOMAIN form' \subseteq DOMAIN form /\ \A k \in DOMAIN form' : form'[k] = form[k]
  <2>. DEFINE row == [opening |-> form[c].opening, closing |-> form[c].closing,
                      physical |-> IF counted THEN drawer ELSE form[c].closing]
  <2>1. /\ close' = With(close, form[c].date, row) /\ form' = Without(form, {c})
        /\ today' = today /\ strayed' = strayed /\ c \in DOMAIN form
        /\ ByTheForm => form[c].date = today
    BY DEF SaveClose, ChainInv, Chained
  <2>2. row.opening = form[c].opening
    OBVIOUS
  <2>. HIDE DEF row
  <2>3. ByTheForm => /\ DOMAIN close' = DOMAIN close \cup {today} /\ close'[today] = row
                     /\ \A d \in DOMAIN close \ {today} : close'[d] = close[d]
    BY <2>1 DEF With
  <2>4. /\ DOMAIN form' = DOMAIN form \ {c}
        /\ \A k \in DOMAIN form \ {c} : form'[k] = form[k]
    BY <2>1 DEF Without
  <2>. QED
    BY <2>1, <2>2, <2>3, <2>4 DEF ClosedDays
<1>. SUFFICES ASSUME ByTheForm PROVE Chained'
  BY <1>1 DEF ChainInv, ByTheForm
<1>2. Chained /\ today \in Nat
  BY DEF ChainInv
<1>3. ASSUME NEW d \in Nat, d <= today, NEW v, Follows(d, v)
      PROVE  Follows(d, v)'
  BY <1>1, <1>2, <1>3 DEF Chained, Follows, LastBefore
<1>4. \A d \in ClosedDays' : d \in Nat /\ d <= today'
  BY <1>1, <1>2 DEF Chained
<1>5. ASSUME NEW d \in Nat, NEW b \in ClosedDays', b < d
      PROVE  \E k \in ClosedDays' : LastBefore(k, d)'
  <2>1. CASE today < d
    BY <1>1, <1>4, <2>1 DEF LastBefore
  <2>2. CASE ~(today < d)
    <3>1. b \in ClosedDays
      BY <1>1, <1>2, <1>5, <2>2
    <3>2. PICK k \in ClosedDays : LastBefore(k, d)
      BY <1>2, <1>5, <3>1 DEF Chained
    <3>. QED
      BY <1>1, <1>2, <2>2, <3>2 DEF LastBefore
  <2>. QED
    BY <2>1, <2>2
<1>6. \A k \in DOMAIN form' : form'[k].date = today /\ Follows(today, form[k].opening)'
  BY <1>1, <1>2, <1>3 DEF Chained
<1>7. \A d \in ClosedDays' : Follows(d, close[d].opening)'
  BY <1>1, <1>2, <1>3 DEF Chained
<1>. QED
  BY <1>1, <1>4, <1>5, <1>6, <1>7 DEF Chained

LEMMA RefuseCloseChain ==
  ASSUME ChainInv, NEW c \in Clerks, RefuseClose(c)
  PROVE  ChainInv'
<1>1. /\ close' = close /\ today' = today /\ strayed' = strayed
      /\ DOMAIN form' \subseteq DOMAIN form /\ \A k \in DOMAIN form' : form'[k] = form[k]
  <2>1. form' = Without(form, {c}) /\ close' = close /\ today' = today /\ strayed' = strayed
    BY DEF RefuseClose
  <2>. QED
    BY <2>1 DEF Without
<1>. QED
  BY <1>1 DEF ChainInv, ByTheForm, Chained, Follows, LastBefore, ClosedDays

LEMMA TickChain ==
  ASSUME ChainInv, Tick
  PROVE  ChainInv'
<1>1. /\ close' = close /\ form' = form /\ today' = today + 1 /\ strayed \subseteq strayed'
      /\ DOMAIN form = {} \/ "overnight" \in strayed'
  BY DEF Tick, Stray
<1>. QED
  BY <1>1 DEF ChainInv, ByTheForm, Chained, Follows, LastBefore, ClosedDays

LEMMA NextChain == ChainInv /\ [Next]_vars => ChainInv'
<1>. SUFFICES ASSUME ChainInv, [Next]_vars PROVE ChainInv'
  OBVIOUS
<1>1. CASE Movement \/ Correction \/ UNCHANGED vars
  <2>1. CASE Movement \/ UNCHANGED vars
    <3>. DEFINE Kept == close' = close /\ form' = form /\ today' = today /\ strayed \subseteq strayed'
    <3>1. ASSUME NEW l, NEW p, NEW offset, NEW running, BookLoan(l, p, offset, running)  PROVE Kept
      BY <3>1 DEF BookLoan, Stray
    <3>2. ASSUME NEW r, NEW l, NEW pay, NEW offset, Repay(r, l, pay, offset)  PROVE Kept
      BY <3>2 DEF Repay, Stray
    <3>3. ASSUME NEW l, Preclose(l)  PROVE Kept
      BY <3>3 DEF Preclose
    <3>4. ASSUME NEW l, NEW n, NEW extra, NEW offset, CarryForward(l, n, extra, offset)  PROVE Kept
      BY <3>4 DEF CarryForward, Stray
    <3>5. ASSUME NEW e, NEW kind, NEW a, NEW offset, Enter(e, kind, a, offset)  PROVE Kept
      BY <3>5 DEF Enter, Stray
    <3>6. ASSUME UNCHANGED vars  PROVE Kept
      BY <3>6 DEF vars
    <3>7. Kept
      <4>. HIDE DEF Kept
      <4>. QED
        BY <2>1, <3>1, <3>2, <3>3, <3>4, <3>5, <3>6 DEF Movement
    <3>. QED
      BY <3>7, SameClosesChain
  <2>2. CASE Correction
    <3>1. close' = close /\ form' = form /\ today' = today /\ strayed \subseteq strayed'
      BY <2>2 DEF Correction, EditLoan, EditRepayment, DeleteRepayment, DeleteLoan, DeleteRow,
         EditRow, Stray
    <3>. QED
      BY <3>1, SameClosesChain
  <2>. QED
    BY <1>1, <2>1, <2>2
<1>2. CASE Closing
  <2>1. CASE \E d \in Days : DeleteClose(d) \/ \E counted : AdminClose(d, counted)
    <3>1. "admin_close" \in strayed' /\ today' = today
      BY <2>1 DEF DeleteClose, AdminClose, Stray
    <3>. QED
      BY <3>1 DEF ChainInv, ByTheForm
  <2>. QED
    BY <1>2, <2>1, ComputeCloseChain, SaveCloseChain, RefuseCloseChain DEF Closing
<1>. QED
  BY <1>1, <1>2, TickChain DEF Next

LEMMA ChainImplies == ChainInv => OpeningsChain
<1>. SUFFICES ASSUME ChainInv, ByTheForm, NEW d \in ClosedDays
              PROVE  \/ d = Min(ClosedDays) /\ close[d].opening = 0
                     \/ \E c \in ClosedDays :
                          /\ c < d /\ \A b \in ClosedDays : b <= c \/ b >= d
                          /\ close[d].opening = close[c].closing
  BY DEF OpeningsChain, ByTheForm
<1>1. Chained
  BY DEF ChainInv
<1>2. CASE \A b \in ClosedDays : b >= d
  <2>1. \A b \in ClosedDays : d <= b
    BY <1>1, <1>2 DEF Chained
  <2>2. Min(ClosedDays) \in ClosedDays /\ \A b \in ClosedDays : Min(ClosedDays) <= b
    BY <2>1 DEF Min
  <2>3. Min(ClosedDays) = d
    BY <1>1, <2>1, <2>2 DEF Chained
  <2>4. close[d].opening = 0
    BY <1>1, <1>2 DEF Chained, Follows, LastBefore
  <2>. QED
    BY <2>3, <2>4
<1>3. CASE ~ \A b \in ClosedDays : b >= d
  BY <1>1, <1>3 DEF Chained, Follows, LastBefore
<1>. QED
  BY <1>2, <1>3

\* The docstring of cash_position, "opening = closing of most-recent DayClose before
\* on_date", holds of every saved close ever after, whatever forms overlapped, as
\* long as no close is entered, recomputed or deleted in the admin or saved overnight.
THEOREM OpeningsChained == Spec => []OpeningsChain
<1>. QED
  BY InitChain, NextChain, ChainImplies, PTL DEF Spec

-----------------------------------------------------------------------------
(* Sums of rows, of a table given as an argument: that of a state or that   *)
(* of the next one.                                                         *)

NetOf(table, ids) == MapThenSumSet(LAMBDA x : Signed(table[x]), ids)

LEMMA NetOfIsSum ==
  ASSUME NEW table, NEW S, IsFiniteSet(S), NEW v, \A x \in S : v[x] = Signed(table[x])
  PROVE  NetOf(table, S) = SumOver(v, S)
<1>. DEFINE P(g) == g = [s \in SUBSET S |-> IF s = {} THEN 0
                          ELSE Signed(table[One(s)]) + g[s \ {One(s)}]]
<1>1. \A g : P(g) <=> Sums(g, v, S)
  BY OneIn DEF Sums
<1>2. NetOf(table, S) = (CHOOSE g : P(g))[S]
  BY DEF NetOf, MapThenSumSet, MapThenFoldSet, One
<1>3. \E g : P(g)
  BY <1>1, SumsExist
<1>. HIDE DEF P
<1>. QED
  BY <1>1, <1>2, <1>3, SumOverSums

LEMMA SignedInt == \A row \in Row : Signed(row) \in Int
BY DEF Row, Kinds, Signed

LEMMA NetOfInt ==
  ASSUME NEW table, NEW S, IsFiniteSet(S), \A x \in S : table[x] \in Row
  PROVE  NetOf(table, S) \in Int
<1>. DEFINE v == [x \in S |-> Signed(table[x])]
<1>1. \A x \in S : v[x] = Signed(table[x]) /\ v[x] \in Int
  BY SignedInt
<1>. HIDE DEF v
<1>. QED
  BY <1>1, NetOfIsSum, SumType

LEMMA NetOfNothing == \A table : NetOf(table, {}) = 0
<1>. TAKE table
<1>1. \A x \in {} : table[x] = Signed(table[x])
  OBVIOUS
<1>. QED
  BY <1>1, NetOfIsSum, SumOfNothing, FS_EmptySet

LEMMA NetOfSame ==
  ASSUME NEW table, NEW other, NEW S, IsFiniteSet(S), \A x \in S : table[x] = other[x]
  PROVE  NetOf(table, S) = NetOf(other, S)
<1>. DEFINE v == [x \in S |-> Signed(table[x])]
<1>1. \A x \in S : v[x] = Signed(table[x]) /\ v[x] = Signed(other[x])
  OBVIOUS
<1>. HIDE DEF v
<1>. QED
  BY <1>1, NetOfIsSum

LEMMA NetOfUnion ==
  ASSUME NEW table, NEW A, NEW B, IsFiniteSet(A), IsFiniteSet(B), A \cap B = {},
         \A x \in A \cup B : table[x] \in Row
  PROVE  NetOf(table, A \cup B) = NetOf(table, A) + NetOf(table, B)
<1>. DEFINE v == [x \in A \cup B |-> Signed(table[x])]
<1>1. \A x \in A \cup B : v[x] = Signed(table[x]) /\ v[x] \in Int
  BY SignedInt
<1>2. IsFiniteSet(A \cup B)
  BY FS_Union
<1>. HIDE DEF v
<1>3. /\ NetOf(table, A \cup B) = SumOver(v, A \cup B)
      /\ NetOf(table, A) = SumOver(v, A)
      /\ NetOf(table, B) = SumOver(v, B)
  BY <1>1, <1>2, NetOfIsSum
<1>. QED
  BY <1>1, <1>3, SumUnion

\* A row more, under a key that was free.
LEMMA NetOfWith ==
  ASSUME NEW table, NEW k, NEW row \in Row, NEW S, IsFiniteSet(S), k \notin DOMAIN table,
         S \subseteq DOMAIN table, \A x \in S : table[x] \in Row
  PROVE  /\ NetOf(With(table, k, row), S \cup {k}) = NetOf(table, S) + Signed(row)
         /\ NetOf(With(table, k, row), S) = NetOf(table, S)
<1>. DEFINE T == With(table, k, row)
<1>1. k \notin S /\ T[k] = row /\ \A x \in S : T[x] = table[x]
  BY DEF With
<1>. HIDE DEF T
<1>2. NetOf(T, S) = NetOf(table, S)
  BY <1>1, NetOfSame
<1>. DEFINE v == [x \in S \cup {k} |-> Signed(T[x])]
<1>3. \A x \in S \cup {k} : v[x] = Signed(T[x]) /\ v[x] \in Int
  BY <1>1, SignedInt
<1>4. v[k] = Signed(row)
  BY <1>1
<1>5. IsFiniteSet(S \cup {k})
  BY FS_AddElement
<1>. HIDE DEF v
<1>6. NetOf(T, S \cup {k}) = SumOver(v, S \cup {k}) /\ NetOf(T, S) = SumOver(v, S)
  BY <1>3, <1>5, NetOfIsSum
<1>7. SumOver(v, S) \in Int /\ SumOver(v, S \cup {k}) = v[k] + SumOver(v, S)
  BY <1>1, <1>3, SumWith
<1>8. v[k] \in Int
  BY <1>3
<1>9. NetOf(T, S \cup {k}) = NetOf(T, S) + Signed(row)
  BY <1>4, <1>6, <1>7, <1>8
<1>. QED
  BY <1>2, <1>9 DEF T

-----------------------------------------------------------------------------
(* Sums of loans and repayments, likewise *)

PrincipalOf(table, S) == MapThenSumSet(LAMBDA l : table[l].principal, S)
RepaidOf(table, S) == MapThenSumSet(LAMBDA r : table[r].pay.p, S)
InterestOf(table) == MapThenSumSet(LAMBDA r : table[r].pay.i, DOMAIN table)

LEMMA PrincipalOfIsSum ==
  ASSUME NEW table, NEW S, IsFiniteSet(S), NEW v, \A l \in S : v[l] = table[l].principal
  PROVE  PrincipalOf(table, S) = SumOver(v, S)
<1>. DEFINE P(g) == g = [s \in SUBSET S |-> IF s = {} THEN 0
                          ELSE table[One(s)].principal + g[s \ {One(s)}]]
<1>1. \A g : P(g) <=> Sums(g, v, S)
  BY OneIn DEF Sums
<1>2. PrincipalOf(table, S) = (CHOOSE g : P(g))[S]
  BY DEF PrincipalOf, MapThenSumSet, MapThenFoldSet, One
<1>3. \E g : P(g)
  BY <1>1, SumsExist
<1>. HIDE DEF P
<1>. QED
  BY <1>1, <1>2, <1>3, SumOverSums

LEMMA RepaidOfIsSum ==
  ASSUME NEW table, NEW S, IsFiniteSet(S), NEW v, \A r \in S : v[r] = table[r].pay.p
  PROVE  RepaidOf(table, S) = SumOver(v, S)
<1>. DEFINE P(g) == g = [s \in SUBSET S |-> IF s = {} THEN 0
                          ELSE table[One(s)].pay.p + g[s \ {One(s)}]]
<1>1. \A g : P(g) <=> Sums(g, v, S)
  BY OneIn DEF Sums
<1>2. RepaidOf(table, S) = (CHOOSE g : P(g))[S]
  BY DEF RepaidOf, MapThenSumSet, MapThenFoldSet, One
<1>3. \E g : P(g)
  BY <1>1, SumsExist
<1>. HIDE DEF P
<1>. QED
  BY <1>1, <1>2, <1>3, SumOverSums

LEMMA InterestOfIsSum ==
  ASSUME NEW table, IsFiniteSet(DOMAIN table),
         NEW v, \A r \in DOMAIN table : v[r] = table[r].pay.i
  PROVE  InterestOf(table) = SumOver(v, DOMAIN table)
<1>. DEFINE S == DOMAIN table
            P(g) == g = [s \in SUBSET S |-> IF s = {} THEN 0
                          ELSE table[One(s)].pay.i + g[s \ {One(s)}]]
<1>1. \A g : P(g) <=> Sums(g, v, S)
  BY OneIn DEF Sums
<1>2. InterestOf(table) = (CHOOSE g : P(g))[S]
  BY DEF InterestOf, MapThenSumSet, MapThenFoldSet, One
<1>3. \E g : P(g)
  BY <1>1, SumsExist
<1>. HIDE DEF P
<1>. QED
  BY <1>1, <1>2, <1>3, SumOverSums

LEMMA RepaidOfInt ==
  ASSUME NEW table, NEW S, IsFiniteSet(S), \A r \in S : table[r] \in Repayment
  PROVE  RepaidOf(table, S) \in Int
<1>. DEFINE v == [r \in S |-> table[r].pay.p]
<1>1. \A r \in S : v[r] = table[r].pay.p /\ v[r] \in Int
  BY DEF Repayment
<1>. HIDE DEF v
<1>. QED
  BY <1>1, RepaidOfIsSum, SumType

LEMMA PrincipalOfInt ==
  ASSUME NEW table, NEW S, IsFiniteSet(S), \A l \in S : table[l] \in Loan
  PROVE  PrincipalOf(table, S) \in Int
<1>. DEFINE v == [l \in S |-> table[l].principal]
<1>1. \A l \in S : v[l] = table[l].principal /\ v[l] \in Int
  BY DEF Loan
<1>. HIDE DEF v
<1>. QED
  BY <1>1, PrincipalOfIsSum, SumType

\* Loans rewritten in place with their principal kept: the sum stays.
LEMMA PrincipalOfSame ==
  ASSUME NEW table, NEW other, NEW S, IsFiniteSet(S),
         \A l \in S : table[l].principal = other[l].principal
  PROVE  PrincipalOf(table, S) = PrincipalOf(other, S)
<1>. DEFINE v == [l \in S |-> table[l].principal]
<1>1. \A l \in S : v[l] = table[l].principal /\ v[l] = other[l].principal
  OBVIOUS
<1>. HIDE DEF v
<1>. QED
  BY <1>1, PrincipalOfIsSum

\* A loan more.
LEMMA PrincipalOfWith ==
  ASSUME NEW table, NEW S, IsFiniteSet(S), S \subseteq DOMAIN table, \A l \in S : table[l] \in Loan,
         NEW k, k \notin DOMAIN table, NEW row \in Loan
  PROVE  /\ PrincipalOf(With(table, k, row), S \cup {k}) = PrincipalOf(table, S) + row.principal
         /\ PrincipalOf(With(table, k, row), S) = PrincipalOf(table, S)
<1>. DEFINE T == With(table, k, row)
<1>1. T[k] = row /\ k \notin S /\ \A l \in S : T[l] = table[l]
  BY DEF With
<1>2. IsFiniteSet(S \cup {k})
  BY FS_AddElement
<1>. DEFINE v == [l \in S \cup {k} |-> T[l].principal]
<1>3. \A l \in S \cup {k} : v[l] = T[l].principal
  OBVIOUS
<1>4. \A l \in S : v[l] = table[l].principal
  BY <1>1
<1>5. v[k] = row.principal /\ \A l \in S \cup {k} : v[l] \in Int
  BY <1>1 DEF Loan
<1>. HIDE DEF T, v
<1>6. PrincipalOf(T, S \cup {k}) = SumOver(v, S \cup {k}) /\ PrincipalOf(T, S) = SumOver(v, S)
  BY <1>2, <1>3, PrincipalOfIsSum
<1>7. PrincipalOf(table, S) = SumOver(v, S)
  BY <1>4, PrincipalOfIsSum
<1>8. /\ SumOver(v, S) \in Int
      /\ SumOver(v, S \cup {k}) = v[k] + SumOver(v, S)
  BY <1>1, <1>5, SumWith
<1>9. v[k] \in Int
  BY <1>5
<1>. QED
  BY <1>5, <1>6, <1>7, <1>8, <1>9 DEF T

\* A repayment more.
LEMMA RepaidOfWith ==
  ASSUME NEW table, IsFiniteSet(DOMAIN table), \A r \in DOMAIN table : table[r] \in Repayment,
         NEW k, k \notin DOMAIN table, NEW row \in Repayment
  PROVE  /\ RepaidOf(table, DOMAIN table) \in Int
         /\ RepaidOf(With(table, k, row), DOMAIN With(table, k, row))
              = RepaidOf(table, DOMAIN table) + row.pay.p
<1>. DEFINE T == With(table, k, row)
<1>1. /\ DOMAIN T = DOMAIN table \cup {k} /\ T[k] = row
      /\ \A r \in DOMAIN table : T[r] = table[r]
  BY DEF With
<1>2. IsFiniteSet(DOMAIN T)
  BY <1>1, FS_AddElement
<1>. DEFINE v == [r \in DOMAIN T |-> T[r].pay.p]
<1>3. \A r \in DOMAIN T : v[r] = T[r].pay.p
  OBVIOUS
<1>4. \A r \in DOMAIN table : v[r] = table[r].pay.p
  BY <1>1
<1>5. v[k] = row.pay.p /\ \A r \in DOMAIN table \cup {k} : v[r] \in Int
  BY <1>1 DEF Repayment
<1>. HIDE DEF T, v
<1>6. RepaidOf(T, DOMAIN T) = SumOver(v, DOMAIN T)
  BY <1>2, <1>3, RepaidOfIsSum
<1>7. RepaidOf(table, DOMAIN table) = SumOver(v, DOMAIN table)
  BY <1>4, RepaidOfIsSum
<1>8. /\ SumOver(v, DOMAIN table) \in Int
      /\ SumOver(v, DOMAIN table \cup {k}) = v[k] + SumOver(v, DOMAIN table)
  BY <1>5, SumWith
<1>9. v[k] \in Int
  BY <1>5
<1>. QED
  BY <1>1, <1>5, <1>6, <1>7, <1>8, <1>9 DEF T

LEMMA InterestOfWith ==
  ASSUME NEW table, IsFiniteSet(DOMAIN table), \A r \in DOMAIN table : table[r] \in Repayment,
         NEW k, k \notin DOMAIN table, NEW row \in Repayment
  PROVE  /\ InterestOf(table) \in Int
         /\ InterestOf(With(table, k, row)) = InterestOf(table) + row.pay.i
<1>. DEFINE T == With(table, k, row)
<1>1. /\ DOMAIN T = DOMAIN table \cup {k} /\ T[k] = row
      /\ \A r \in DOMAIN table : T[r] = table[r]
  BY DEF With
<1>2. IsFiniteSet(DOMAIN T)
  BY <1>1, FS_AddElement
<1>. DEFINE v == [r \in DOMAIN T |-> T[r].pay.i]
<1>3. \A r \in DOMAIN T : v[r] = T[r].pay.i
  OBVIOUS
<1>4. \A r \in DOMAIN table : v[r] = table[r].pay.i
  BY <1>1
<1>5. v[k] = row.pay.i /\ \A r \in DOMAIN table \cup {k} : v[r] \in Int
  BY <1>1 DEF Repayment
<1>. HIDE DEF T, v
<1>6. InterestOf(T) = SumOver(v, DOMAIN T)
  BY <1>2, <1>3, InterestOfIsSum
<1>7. InterestOf(table) = SumOver(v, DOMAIN table)
  BY <1>4, InterestOfIsSum
<1>8. /\ SumOver(v, DOMAIN table) \in Int
      /\ SumOver(v, DOMAIN table \cup {k}) = v[k] + SumOver(v, DOMAIN table)
  BY <1>5, SumWith
<1>9. v[k] \in Int
  BY <1>5
<1>. QED
  BY <1>1, <1>5, <1>6, <1>7, <1>8, <1>9 DEF T

-----------------------------------------------------------------------------
(* Type correctness: the balances of forms and closes are sums over the     *)
(* tables, which stay finite.                                               *)

CashTypes ==
  /\ TypeOK
  /\ IsFiniteSet(DOMAIN loan) /\ IsFiniteSet(DOMAIN rep) /\ IsFiniteSet(DOMAIN txn)

LEMMA InitTypes == Init => CashTypes
<1>. SUFFICES ASSUME Init PROVE CashTypes
  OBVIOUS
<1>1. /\ DOMAIN loan = {} /\ DOMAIN rep = {} /\ DOMAIN txn = {} /\ DOMAIN close = {}
      /\ DOMAIN form = {}
      /\ loan \in [{} -> Loan] /\ rep \in [{} -> Repayment] /\ txn \in [{} -> Row]
      /\ close \in [{} -> DayClose] /\ form \in [{} -> CashPosition]
  BY DEF Init, NoRows
<1>2. today \in Days /\ drawer \in Int /\ strayed \subseteq Habits /\ strays \in Nat
  BY CashAssumption DEF Init, Days
<1>. QED
  BY <1>1, <1>2, FS_EmptySet DEF CashTypes, TypeOK, Posted, ClosedDays

TableOf(R, table) == table \in [DOMAIN table -> R]

\* A table with a row more, or with fewer, is a table of the same rows.
LEMMA WithTable ==
  ASSUME NEW R, NEW table, TableOf(R, table), NEW k, NEW row, row \in R,
         NEW new, new = With(table, k, row)
  PROVE  /\ TableOf(R, new)
         /\ IsFiniteSet(DOMAIN table) => IsFiniteSet(DOMAIN new)
<1>1. DOMAIN new = DOMAIN table \cup {k}
  BY DEF With
<1>2. new \in [DOMAIN new -> R]
  BY DEF With, TableOf
<1>. QED
  BY <1>1, <1>2, FS_AddElement DEF TableOf

LEMMA WithoutTable ==
  ASSUME NEW R, NEW table, TableOf(R, table), NEW keys,
         NEW new, new = Without(table, keys)
  PROVE  /\ TableOf(R, new)
         /\ DOMAIN new \subseteq DOMAIN table
         /\ IsFiniteSet(DOMAIN table) => IsFiniteSet(DOMAIN new)
<1>1. DOMAIN new = DOMAIN table \ keys
  BY DEF Without
<1>2. new \in [DOMAIN new -> R]
  BY DEF Without, TableOf
<1>. QED
  BY <1>1, <1>2, FS_Subset DEF TableOf

LEMMA Tables ==
  ASSUME CashTypes
  PROVE  /\ TableOf(Loan, loan) /\ TableOf(Repayment, rep) /\ TableOf(Row, txn)
         /\ TableOf(DayClose, close) /\ TableOf(CashPosition, form)
BY DEF CashTypes, TypeOK, TableOf, Posted, ClosedDays

LEMMA OutstandingInt ==
  ASSUME CashTypes, NEW l \in DOMAIN loan
  PROVE  Outstanding(l) \in Int
<1>. DEFINE S == {r \in DOMAIN rep : rep[r].loan = l}
<1>1. IsFiniteSet(S) /\ \A r \in S : rep[r] \in Repayment
  BY FS_Subset DEF CashTypes, TypeOK
<1>2. Outstanding(l) = loan[l].principal - RepaidOf(rep, S)
  BY DEF Outstanding, RepaidOf
<1>. HIDE DEF S
<1>3. RepaidOf(rep, S) \in Int
  BY <1>1, RepaidOfInt
<1>4. loan[l].principal \in Int
  BY DEF CashTypes, TypeOK, Loan
<1>. QED
  BY <1>2, <1>3, <1>4

LEMMA ClosedDaysFinite ==
  ASSUME CashTypes
  PROVE  IsFiniteSet(ClosedDays) /\ \A c \in ClosedDays : c \in Int
<1>1. IsFiniteSet(0..LastDay)
  BY FS_Interval, CashAssumption
<1>2. ClosedDays \subseteq 0..LastDay
  BY DEF CashTypes, TypeOK, Days
<1>3. IsFiniteSet(ClosedDays)
  BY ONLY <1>1, <1>2, FS_Subset
<1>. QED
  BY <1>2, <1>3

LEMMA LastClosingInt ==
  ASSUME CashTypes, NEW d \in Int
  PROVE  LastClosing(d) \in Int
<1>. DEFINE before == {c \in ClosedDays : c < d}
<1>1. before \subseteq ClosedDays
  OBVIOUS
<1>2. IsFiniteSet(before) /\ \A c \in before : c \in Int
  <2>. HIDE DEF before
  <2>. QED
    BY <1>1, ClosedDaysFinite, FS_Subset
<1>4. LastClosing(d) = IF before = {} THEN 0 ELSE close[Max(before)].closing
  BY DEF LastClosing
<1>. HIDE DEF before
<1>5. ASSUME before # {} PROVE Max(before) \in ClosedDays
  BY <1>1, <1>2, <1>5, MaxOf
<1>6. \A c \in ClosedDays : close[c].closing \in Int
  BY DEF CashTypes, TypeOK, DayClose
<1>. QED
  BY <1>4, <1>5, <1>6

LEMMA NetInt ==
  ASSUME CashTypes, NEW S \in SUBSET DOMAIN txn
  PROVE  Net(S) \in Int
<1>1. IsFiniteSet(S) /\ \A x \in S : txn[x] \in Row
  BY FS_Subset DEF CashTypes, TypeOK, Posted
<1>2. NetOf(txn, S) \in Int
  BY <1>1, NetOfInt
<1>. QED
  BY <1>2 DEF Net, NetOf

LEMMA PositionInt ==
  ASSUME CashTypes, NEW d \in Days
  PROVE  Position(d) \in CashPosition
<1>1. {x \in Posted : txn[x].date = d} \in SUBSET DOMAIN txn
  BY DEF Posted
<1>2. Net({x \in Posted : txn[x].date = d}) \in Int
  BY <1>1, NetInt
<1>3. d \in Int
  BY DEF Days
<1>. QED
  BY <1>2, <1>3, LastClosingInt DEF Position, CashPosition

LEMMA PostTypes ==
  ASSUME CashTypes, NEW x, NEW date \in Int, NEW kind \in Kinds, NEW amount \in Int,
         Post(x, date, kind, amount)
  PROVE  /\ TableOf(Row, txn') /\ DOMAIN txn' = DOMAIN txn \cup {x}
         /\ IsFiniteSet(DOMAIN txn')
<1>1. TableOf(Row, txn) /\ IsFiniteSet(DOMAIN txn)
  BY Tables DEF CashTypes
<1>2. PICK row \in Row : row = [date |-> date, kind |-> kind, amount |-> amount]
  BY DEF Row
<1>3. txn' = With(txn, x, row)
  BY <1>2 DEF Post
<1>. QED
  BY <1>1, <1>3, WithTable, WithDomain, Tables

LEMMA StrayTypes ==
  ASSUME CashTypes, NEW H, Stray(H)
  PROVE  strayed' \subseteq Habits /\ strays' \in Nat /\ strayed \subseteq strayed'
BY DEF Stray, CashTypes, TypeOK

LEMMA BookLoanTypes ==
  ASSUME CashTypes, NEW l \in Loans, NEW p \in Principals, NEW offset \in Offsets,
         NEW running \in BOOLEAN, BookLoan(l, p, offset, running)
  PROVE  CashTypes'
<1>1. p \in Int /\ today + offset \in Int
  BY CashAssumption DEF CashTypes, TypeOK, Days
<1>2. /\ TableOf(Row, txn') /\ DOMAIN txn' \subseteq DOMAIN txn \cup {l}
      /\ IsFiniteSet(DOMAIN txn')
  <2>1. CASE running
    BY <1>1, <2>1, PostTypes DEF BookLoan, Kinds
  <2>2. CASE ~running
    <3>1. txn' = txn
      BY <2>2 DEF BookLoan
    <3>. QED
      BY <3>1, Tables DEF CashTypes, TypeOK
  <2>. QED
    BY <2>1, <2>2
<1>3. PICK row \in Loan : row = [principal |-> p, running |-> running]
  BY <1>1 DEF Loan
<1>4. loan' = With(loan, l, row)
  BY <1>3 DEF BookLoan
<1>5. /\ TableOf(Loan, loan') /\ DOMAIN loan' = DOMAIN loan \cup {l}
      /\ IsFiniteSet(DOMAIN loan')
  BY <1>4, WithTable, WithDomain, Tables DEF CashTypes, TypeOK
<1>6. /\ used' = used \cup {l} /\ rep' = rep /\ close' = close /\ form' = form
      /\ today' = today /\ drawer' \in Int /\ strayed' \subseteq Habits /\ strays' \in Nat
  BY <1>1 DEF BookLoan, Stray, CashTypes, TypeOK
<1>. QED
  BY <1>1, <1>2, <1>5, <1>6 DEF CashTypes, TypeOK, Posted, ClosedDays, RowIds, Sources, TableOf

LEMMA MayCloseTypes ==
  ASSUME CashTypes, NEW l, NEW left, MayClose(l, left)
  PROVE  loan' \in [DOMAIN loan -> Loan] /\ DOMAIN loan' = DOMAIN loan
<1>1. PICK cleared \in BOOLEAN :
        loan' = [loan EXCEPT ![l].running = @ /\ ~(cleared /\ left <= 0)]
  BY DEF MayClose
<1>2. loan \in [DOMAIN loan -> Loan]
  BY DEF CashTypes, TypeOK
<1>3. PICK still : still = (loan[l].running /\ ~(cleared /\ left <= 0))
  OBVIOUS
<1>4. still \in BOOLEAN
  BY <1>3
<1>5. loan' = [loan EXCEPT ![l] = [loan[l] EXCEPT !.running = still]]
  BY <1>1, <1>3
<1>6. l \in DOMAIN loan => [loan[l] EXCEPT !.running = still] \in Loan
  BY <1>2, <1>4 DEF Loan
<1>. QED
  BY <1>2, <1>5, <1>6

LEMMA RepayTypes ==
  ASSUME CashTypes, NEW r \in Receipts, NEW l \in Loans, NEW pay \in Payments,
         NEW offset \in Offsets, Repay(r, l, pay, offset)
  PROVE  CashTypes'
<1>1. pay \in [p : Nat, i : Nat] /\ today + offset \in Int
  BY CashAssumption DEF CashTypes, TypeOK, Days
<1>2. /\ TableOf(Row, txn') /\ DOMAIN txn' \subseteq DOMAIN txn \cup {r}
      /\ IsFiniteSet(DOMAIN txn') /\ strayed' \subseteq Habits /\ strays' \in Nat
  <2>1. CASE CashOf(pay) > 0
    <3>1. Post(r, today + offset, "in", CashOf(pay)) /\ Stray(Late(today + offset))
      BY <2>1 DEF Repay
    <3>2. CashOf(pay) \in Int /\ "in" \in Kinds
      BY <1>1 DEF CashOf, Kinds
    <3>. QED
      BY <1>1, <3>1, <3>2, PostTypes, StrayTypes
  <2>2. CASE ~(CashOf(pay) > 0)
    <3>1. txn' = txn /\ strayed' = strayed /\ strays' = strays
      BY <2>2 DEF Repay
    <3>. QED
      BY <3>1, Tables DEF CashTypes, TypeOK
  <2>. QED
    BY <2>1, <2>2
<1>3. PICK row \in Repayment : row = [loan |-> l, pay |-> pay]
  BY <1>1 DEF Repayment
<1>4. rep' = With(rep, r, row)
  BY <1>3 DEF Repay
<1>5. /\ TableOf(Repayment, rep') /\ DOMAIN rep' = DOMAIN rep \cup {r}
      /\ IsFiniteSet(DOMAIN rep')
  BY <1>4, WithTable, WithDomain, Tables DEF CashTypes, TypeOK
<1>6. loan' \in [DOMAIN loan -> Loan] /\ DOMAIN loan' = DOMAIN loan
  BY MayCloseTypes DEF Repay
<1>7. /\ used' = used \cup {r} /\ close' = close /\ form' = form /\ today' = today
      /\ drawer' \in Int
  BY <1>1 DEF Repay, CashTypes, TypeOK
<1>. QED
  BY <1>2, <1>5, <1>6, <1>7 DEF CashTypes, TypeOK, Posted, ClosedDays, RowIds, Sources, TableOf

LEMMA StoppedTypes ==
  ASSUME CashTypes, NEW l \in DOMAIN loan
  PROVE  [loan EXCEPT ![l].running = FALSE] \in [DOMAIN loan -> Loan]
<1>1. loan \in [DOMAIN loan -> Loan] /\ [loan[l] EXCEPT !.running = FALSE] \in Loan
  BY DEF CashTypes, TypeOK, Loan
<1>2. [loan EXCEPT ![l].running = FALSE] = [loan EXCEPT ![l] = [loan[l] EXCEPT !.running = FALSE]]
  OBVIOUS
<1>. QED
  BY <1>1, <1>2

LEMMA CarryForwardTypes ==
  ASSUME CashTypes, NEW l \in Loans, NEW n \in Loans, NEW extra \in Extras,
         NEW offset \in Offsets, CarryForward(l, n, extra, offset)
  PROVE  CashTypes'
<1>1. extra \in Int /\ today + offset \in Int /\ l \in DOMAIN loan
  BY CashAssumption DEF CashTypes, TypeOK, Days, CarryForward
<1>2. PICK p \in Int : p = Outstanding(l) + extra
  BY <1>1, OutstandingInt
<1>3. Post(n, today + offset, "out", p) /\ "out" \in Kinds
  BY <1>2 DEF CarryForward, Kinds
<1>4. /\ TableOf(Row, txn') /\ DOMAIN txn' = DOMAIN txn \cup {n}
      /\ IsFiniteSet(DOMAIN txn')
  BY <1>1, <1>3, PostTypes
<1>5. PICK old : old = [loan EXCEPT ![l].running = FALSE]
  OBVIOUS
<1>6. PICK row \in Loan : row = [principal |-> p, running |-> TRUE]
  BY DEF Loan
<1>7. loan' = With(old, n, row)
  BY <1>2, <1>5, <1>6 DEF CarryForward
<1>8. TableOf(Loan, old) /\ DOMAIN old = DOMAIN loan
  BY <1>1, <1>5, StoppedTypes DEF TableOf
<1>9. /\ TableOf(Loan, loan') /\ DOMAIN loan' = DOMAIN loan \cup {n}
      /\ IsFiniteSet(DOMAIN loan')
  <2>1. DOMAIN loan' = DOMAIN loan \cup {n}
    BY <1>7, <1>8 DEF With
  <2>2. IsFiniteSet(DOMAIN old)
    BY <1>8 DEF CashTypes
  <2>3. TableOf(Loan, loan') /\ IsFiniteSet(DOMAIN loan')
    BY <1>7, <1>8, <2>2, WithTable
  <2>. QED
    BY <2>1, <2>3
<1>10. /\ used' = used \cup {n} /\ rep' = rep /\ close' = close /\ form' = form
       /\ today' = today /\ drawer' = drawer - extra /\ strayed' \subseteq Habits /\ strays' \in Nat
  BY DEF CarryForward, Stray, CashTypes, TypeOK
<1>. QED
  BY <1>1, <1>4, <1>9, <1>10 DEF CashTypes, TypeOK, Posted, ClosedDays, RowIds, Sources, TableOf

LEMMA EnterTypes ==
  ASSUME CashTypes, NEW e \in Entries, NEW kind \in Kinds, NEW a \in Amounts,
         NEW offset \in Offsets, Enter(e, kind, a, offset)
  PROVE  CashTypes'
<1>1. a \in Int /\ today + offset \in Int
  BY CashAssumption DEF CashTypes, TypeOK, Days
<1>2. /\ TableOf(Row, txn') /\ DOMAIN txn' = DOMAIN txn \cup {e}
      /\ IsFiniteSet(DOMAIN txn')
  BY <1>1, PostTypes DEF Enter
<1>3. Signed([kind |-> kind, amount |-> a]) \in Int
  BY <1>1 DEF Signed, Kinds
<1>4. /\ used' = used \cup {e} /\ rep' = rep /\ loan' = loan /\ close' = close /\ form' = form
      /\ today' = today /\ drawer' \in Int /\ strayed' \subseteq Habits /\ strays' \in Nat
  BY <1>3 DEF Enter, Stray, CashTypes, TypeOK
<1>. QED
  BY <1>1, <1>2, <1>4 DEF CashTypes, TypeOK, Posted, ClosedDays, RowIds, TableOf

LEMMA CorrectionTypes ==
  ASSUME CashTypes, Correction
  PROVE  CashTypes'
<1>1. /\ used' = used /\ close' = close /\ form' = form /\ drawer' = drawer
      /\ today' = today /\ strayed' \subseteq Habits /\ strays' \in Nat
  <2>1. /\ used' = used /\ close' = close /\ form' = form /\ drawer' = drawer
        /\ today' = today /\ Stray({"corrections"})
    BY DEF Correction, EditLoan, EditRepayment, DeleteRepayment, DeleteLoan, DeleteRow, EditRow
  <2>. QED
    BY <2>1, StrayTypes
<1>2. /\ loan \in [DOMAIN loan -> Loan] /\ rep \in [DOMAIN rep -> Repayment]
      /\ txn \in [DOMAIN txn -> Row]
  BY DEF CashTypes, TypeOK, Posted
<1>3. /\ TableOf(Loan, loan') /\ DOMAIN loan' \subseteq DOMAIN loan
      /\ IsFiniteSet(DOMAIN loan')
  <2>1. ASSUME NEW l \in Loans, NEW p \in Principals, NEW running \in BOOLEAN,
               EditLoan(l, p, running)
        PROVE  loan' \in [DOMAIN loan -> Loan]
    <3>1. [principal |-> p, running |-> running] \in Loan
      BY CashAssumption DEF Loan
    <3>. QED
      BY <1>2, <2>1, <3>1 DEF EditLoan
  <2>2. ASSUME NEW r \in Receipts, NEW pay \in Payments, EditRepayment(r, pay)
        PROVE  loan' \in [DOMAIN loan -> Loan]
    BY <2>2, MayCloseTypes DEF EditRepayment
  <2>3. ASSUME NEW l \in Loans, DeleteLoan(l)
        PROVE  loan' = Without(loan, {l})
    BY <2>3 DEF DeleteLoan
  <2>4. loan' \in [DOMAIN loan -> Loan] \/ \E l \in Loans : loan' = Without(loan, {l})
    BY <1>2, <2>1, <2>2, <2>3 DEF Correction, DeleteRepayment, DeleteRow, EditRow
  <2>5. IsFiniteSet(DOMAIN loan)
    BY DEF CashTypes
  <2>6. CASE loan' \in [DOMAIN loan -> Loan]
    BY <2>5, <2>6 DEF TableOf
  <2>7. CASE \E l \in Loans : loan' = Without(loan, {l})
    BY <1>2, <2>5, <2>7, WithoutTable, Tables
  <2>. QED
    BY <2>4, <2>6, <2>7
<1>4. /\ TableOf(Repayment, rep') /\ DOMAIN rep' \subseteq DOMAIN rep
      /\ IsFiniteSet(DOMAIN rep')
  <2>1. ASSUME NEW r \in Receipts, NEW pay \in Payments, EditRepayment(r, pay)
        PROVE  rep' \in [DOMAIN rep -> Repayment]
    <3>1. [rep[r] EXCEPT !.pay = pay] \in Repayment
      BY <1>2, <2>1, CashAssumption DEF EditRepayment, Repayment
    <3>2. rep' = [rep EXCEPT ![r] = [rep[r] EXCEPT !.pay = pay]]
      BY <2>1 DEF EditRepayment
    <3>. QED
      BY <1>2, <3>1, <3>2
  <2>2. rep' \in [DOMAIN rep -> Repayment] \/ \E keys : rep' = Without(rep, keys)
    BY <1>2, <2>1 DEF Correction, EditLoan, DeleteRepayment, DeleteLoan, DeleteRow, EditRow
  <2>3. IsFiniteSet(DOMAIN rep)
    BY DEF CashTypes
  <2>4. CASE rep' \in [DOMAIN rep -> Repayment]
    BY <2>3, <2>4 DEF TableOf
  <2>5. CASE \E keys : rep' = Without(rep, keys)
    BY <1>2, <2>3, <2>5, WithoutTable, Tables
  <2>. QED
    BY <2>2, <2>4, <2>5
<1>5. /\ TableOf(Row, txn') /\ DOMAIN txn' \subseteq DOMAIN txn
      /\ IsFiniteSet(DOMAIN txn')
  <2>1. ASSUME NEW e \in Entries, NEW kind \in Kinds, NEW a \in Amounts, NEW offset \in Offsets,
               EditRow(e, kind, a, offset)
        PROVE  /\ TableOf(Row, txn') /\ DOMAIN txn' \subseteq DOMAIN txn
               /\ IsFiniteSet(DOMAIN txn')
    <3>1. a \in Int /\ today + offset \in Int
      BY CashAssumption DEF CashTypes, TypeOK, Days
    <3>2. e \in DOMAIN txn /\ Post(e, today + offset, kind, a)
      BY <2>1 DEF EditRow, Posted
    <3>. QED
      BY <3>1, <3>2, PostTypes
  <2>2. ASSUME NEW keys, txn' = Without(txn, keys)
        PROVE  /\ TableOf(Row, txn') /\ DOMAIN txn' \subseteq DOMAIN txn
               /\ IsFiniteSet(DOMAIN txn')
    BY <2>2, WithoutTable, Tables DEF CashTypes
  <2>3. ASSUME txn' = txn
        PROVE  /\ TableOf(Row, txn') /\ DOMAIN txn' \subseteq DOMAIN txn
               /\ IsFiniteSet(DOMAIN txn')
    BY <2>3, Tables DEF CashTypes
  <2>. QED
    BY <2>1, <2>2, <2>3
       DEF Correction, EditLoan, EditRepayment, DeleteRepayment, DeleteLoan, DeleteRow
<1>. QED
  BY <1>1, <1>3, <1>4, <1>5 DEF CashTypes, TypeOK, Posted, ClosedDays, TableOf

LEMMA CloseTypes ==
  ASSUME CashTypes, NEW d \in Days, NEW row \in DayClose, close' = With(close, d, row)
  PROVE  TableOf(DayClose, close') /\ DOMAIN close' \subseteq Days
<1>1. TableOf(DayClose, close) /\ DOMAIN close \subseteq Days
  BY Tables DEF CashTypes, TypeOK, ClosedDays
<1>2. TableOf(DayClose, close')
  BY <1>1, WithTable
<1>3. DOMAIN close' = DOMAIN close \cup {d}
  BY WithDomain
<1>. QED
  BY <1>1, <1>2, <1>3

LEMMA ClosingTypes ==
  ASSUME CashTypes, Closing
  PROVE  CashTypes'
<1>1. /\ used' = used /\ loan' = loan /\ rep' = rep /\ txn' = txn /\ drawer' = drawer
      /\ today' = today /\ strayed' \subseteq Habits /\ strays' \in Nat
  <2>1. /\ used' = used /\ loan' = loan /\ rep' = rep /\ txn' = txn /\ drawer' = drawer
        /\ today' = today
        /\ (strayed' = strayed /\ strays' = strays) \/ \E H : Stray(H)
    BY DEF Closing, ComputeClose, SaveClose, RefuseClose, AdminClose, DeleteClose
  <2>. QED
    BY <2>1, StrayTypes DEF CashTypes, TypeOK
<1>2. /\ today \in Days /\ \A d \in Days : d \in Int
      /\ close \in [DOMAIN close -> DayClose] /\ DOMAIN close \subseteq Days
      /\ form \in [DOMAIN form -> CashPosition] /\ DOMAIN form \subseteq Clerks
      /\ drawer \in Int
  BY DEF CashTypes, TypeOK, ClosedDays, Days
<1>3. /\ TableOf(CashPosition, form')
      /\ DOMAIN form' \subseteq Clerks
  <2>1. \/ form' = form
        \/ \E c \in Clerks : \/ form' = With(form, c, Position(today))
                             \/ form' = Without(form, {c})
    BY DEF Closing, ComputeClose, SaveClose, RefuseClose, AdminClose, DeleteClose
  <2>2. Position(today) \in CashPosition
    BY <1>2, PositionInt
  <2>3. CASE \E c \in Clerks : form' = With(form, c, Position(today))
    <3>1. PICK c \in Clerks : form' = With(form, c, Position(today))
      BY <2>3
    <3>2. TableOf(CashPosition, form')
      BY <2>2, <3>1, WithTable, Tables
    <3>3. DOMAIN form' = DOMAIN form \cup {c}
      BY <3>1, WithDomain
    <3>. QED
      BY <1>2, <3>2, <3>3
  <2>4. CASE \E c \in Clerks : form' = Without(form, {c})
    BY <1>2, <2>4, WithoutTable, Tables
  <2>5. CASE form' = form
    BY <1>2, <2>5, Tables
  <2>. QED
    BY <2>1, <2>3, <2>4, <2>5
<1>4. TableOf(DayClose, close') /\ DOMAIN close' \subseteq Days
  <2>1. ASSUME NEW c \in Clerks, NEW counted \in BOOLEAN, SaveClose(c, counted)
        PROVE  \E d \in Days, row \in DayClose : close' = With(close, d, row)
    <3>1. form[c] \in CashPosition
      BY <1>2, <2>1 DEF SaveClose
    <3>2. [opening |-> form[c].opening, closing |-> form[c].closing,
           physical |-> IF counted THEN drawer ELSE form[c].closing] \in DayClose
      BY <1>2, <3>1 DEF DayClose, CashPosition
    <3>. QED
      BY <2>1, <3>1, <3>2 DEF SaveClose, CashPosition
  <2>2. ASSUME NEW d \in Days, NEW counted \in {0, drawer} \cup EnteredBefore(d),
               AdminClose(d, counted)
        PROVE  \E row \in DayClose : close' = With(close, d, row)
    <3>1. counted \in Int
      BY <1>2 DEF EnteredBefore, ClosedDays, DayClose
    <3>2. Position(d) \in CashPosition
      BY <1>2, PositionInt
    <3>3. [opening |-> Position(d).opening, closing |-> Position(d).closing,
           physical |-> IF counted = 0 THEN Position(d).closing ELSE counted] \in DayClose
      BY <3>1, <3>2 DEF DayClose, CashPosition
    <3>. QED
      BY <2>2, <3>3 DEF AdminClose
  <2>3. \/ close' = close \/ \E keys : close' = Without(close, keys)
        \/ \E d \in Days, row \in DayClose : close' = With(close, d, row)
    <3>1. ASSUME NEW d \in Days, DeleteClose(d) PROVE close' = Without(close, {d})
      BY <3>1 DEF DeleteClose
    <3>2. ASSUME NEW c \in Clerks, ComputeClose(c) \/ RefuseClose(c) PROVE close' = close
      BY <3>2 DEF ComputeClose, RefuseClose
    <3>. QED
      BY <1>2, <2>1, <2>2, <3>1, <3>2 DEF Closing
  <2>4. CASE \E keys : close' = Without(close, keys)
    BY <1>2, <2>4, WithoutTable, Tables
  <2>5. CASE close' = close
    BY <1>2, <2>5, Tables
  <2>6. CASE \E d \in Days, row \in DayClose : close' = With(close, d, row)
    BY <2>6, CloseTypes
  <2>. QED
    BY <2>3, <2>4, <2>5, <2>6
<1>. QED
  BY <1>1, <1>3, <1>4 DEF CashTypes, TypeOK, Posted, ClosedDays, TableOf

LEMMA NextTypes == CashTypes /\ [Next]_vars => CashTypes'
<1>. SUFFICES ASSUME CashTypes, [Next]_vars PROVE CashTypes'
  OBVIOUS
<1>1. ASSUME NEW l \in Loans, Preclose(l) PROVE CashTypes'
  <2>1. loan' \in [DOMAIN loan -> Loan] /\ DOMAIN loan' = DOMAIN loan
    BY <1>1, StoppedTypes DEF Preclose
  <2>. QED
    BY <1>1, <2>1 DEF Preclose, CashTypes, TypeOK, Posted, ClosedDays
<1>2. CASE Tick
  <2>1. today' \in Days /\ strayed' \subseteq Habits /\ strays' \in Nat
    BY <1>2, CashAssumption DEF Tick, Stray, CashTypes, TypeOK, Days
  <2>. QED
    BY <1>2, <2>1 DEF Tick, CashTypes, TypeOK, Posted, ClosedDays
<1>3. CASE UNCHANGED vars
  BY <1>3 DEF vars, CashTypes, TypeOK, Posted, ClosedDays
<1>4. CASE Movement
  BY <1>1, <1>4, BookLoanTypes, RepayTypes, CarryForwardTypes, EnterTypes DEF Movement
<1>. QED
  BY <1>2, <1>3, <1>4, CorrectionTypes, ClosingTypes DEF Next

LEMMA AlwaysTypes == Spec => []CashTypes
BY InitTypes, NextTypes, PTL DEF Spec

\* Rows, closes and forms keep their types in every behaviour: a table never holds a
\* key that was not handed out, and each balance is a number.
THEOREM TypeCorrect == Spec => []TypeOK
<1>1. CashTypes => TypeOK
  BY DEF CashTypes
<1>. QED
  BY <1>1, AlwaysTypes, PTL

-----------------------------------------------------------------------------
(* Cash on hand.  That the closes carry the rows forward is not inductive:  *)
(* a close is written from a form computed earlier.  The invariant says     *)
(* where the rows of a careful shop are: none dated ahead, those of earlier *)
(* days closed; that a close has all rows up to its day; and that a form    *)
(* being processed has all there are.                                       *)

Careful(habits) == habits \subseteq {"renewals"}

UpTo(table, d) == {x \in DOMAIN table : table[x].date <= d}

Carried ==
  /\ \A x \in DOMAIN txn : /\ txn[x].date <= today
                           /\ txn[x].date = today \/ txn[x].date \in DOMAIN close
  /\ \A d \in DOMAIN close : d <= today /\ close[d].closing = NetOf(txn, UpTo(txn, d))
  /\ \A c \in DOMAIN form : form[c].date = today /\ form[c].closing = NetOf(txn, DOMAIN txn)

CarriedInv == Careful(strayed) => Carried

LEMMA InitCarried == Init => CarriedInv
BY DEF Init, NoRows, CarriedInv, Carried

\* The rows of a careful shop, as far as they are typed.
LEMMA RowFacts ==
  ASSUME CashTypes
  PROVE  /\ IsFiniteSet(DOMAIN txn) /\ \A x \in DOMAIN txn : txn[x] \in Row /\ txn[x].date \in Int
         /\ \A S \in SUBSET DOMAIN txn : IsFiniteSet(S) /\ NetOf(txn, S) \in Int
         /\ \A d \in Int : UpTo(txn, d) \in SUBSET DOMAIN txn
         /\ today \in Int /\ \A d \in DOMAIN close : d \in Int /\ close[d].closing \in Int
<1>1. IsFiniteSet(DOMAIN txn) /\ \A x \in DOMAIN txn : txn[x] \in Row /\ txn[x].date \in Int
  BY DEF CashTypes, TypeOK, Posted, Row
<1>2. ASSUME NEW S \in SUBSET DOMAIN txn PROVE IsFiniteSet(S) /\ NetOf(txn, S) \in Int
  <2>1. IsFiniteSet(S) /\ \A x \in S : txn[x] \in Row
    BY <1>1, FS_Subset
  <2>. QED
    BY <2>1, NetOfInt
<1>3. \A d \in Int : UpTo(txn, d) \in SUBSET DOMAIN txn
  BY DEF UpTo
<1>4. today \in Int /\ \A d \in DOMAIN close : d \in Int /\ close[d].closing \in Int
  BY DEF CashTypes, TypeOK, ClosedDays, Days, DayClose
<1>. QED
  BY <1>1, <1>2, <1>3, <1>4

\* What a close or a form carries forward to the day.
LEMMA CarriedForward ==
  ASSUME CashTypes, Carried
  PROVE  LastClosing(today) + NetOf(txn, {x \in DOMAIN txn : txn[x].date = today})
           = NetOf(txn, DOMAIN txn)
<1>. DEFINE before == {c \in ClosedDays : c < today}
            Now == {x \in DOMAIN txn : txn[x].date = today}
            Then == {x \in DOMAIN txn : txn[x].date # today}
<1>1. /\ Now \in SUBSET DOMAIN txn /\ Then \in SUBSET DOMAIN txn
      /\ Now \cap Then = {} /\ Then \cup Now = DOMAIN txn
  OBVIOUS
<1>2. \A x \in Then : txn[x].date \in before
  BY RowFacts DEF Carried, ClosedDays
<1>3. /\ IsFiniteSet(Now) /\ IsFiniteSet(Then)
      /\ NetOf(txn, Now) \in Int /\ NetOf(txn, Then) \in Int
  BY <1>1, RowFacts
<1>4. NetOf(txn, Then \cup Now) = NetOf(txn, Then) + NetOf(txn, Now)
  <2>1. \A x \in Then \cup Now : txn[x] \in Row
    BY RowFacts
  <2>2. Then \cap Now = {}
    OBVIOUS
  <2>. HIDE DEF Then, Now
  <2>. QED
    BY <1>3, <2>1, <2>2, NetOfUnion
<1>5. LastClosing(today) = NetOf(txn, Then)
  <2>1. LastClosing(today) = IF before = {} THEN 0 ELSE close[Max(before)].closing
    BY DEF LastClosing
  <2>2. CASE before = {}
    <3>1. Then = {}
      BY <1>2, <2>2
    <3>. QED
      BY <2>1, <2>2, <3>1, NetOfNothing
  <2>3. CASE before # {}
    <3>1. IsFiniteSet(before) /\ \A c \in before : c \in Int
      <4>1. before \subseteq ClosedDays
        OBVIOUS
      <4>. HIDE DEF before
      <4>. QED
        BY <4>1, ClosedDaysFinite, FS_Subset
    <3>2. PICK m : m = Max(before)
      OBVIOUS
    <3>3. m \in before /\ \A c \in before : c <= m
      <4>. HIDE DEF before
      <4>. QED
        BY <2>3, <3>1, <3>2, MaxOf
    <3>4. UpTo(txn, m) = Then
      <4>1. ASSUME NEW x \in DOMAIN txn, txn[x].date <= m PROVE txn[x].date # today
        BY <3>1, <3>3, <4>1, RowFacts
      <4>2. ASSUME NEW x \in DOMAIN txn, txn[x].date # today PROVE txn[x].date <= m
        BY <1>2, <3>3, <4>2
      <4>. QED
        BY <4>1, <4>2 DEF UpTo
    <3>5. close[m].closing = NetOf(txn, Then)
      BY <3>3, <3>4 DEF Carried, ClosedDays
    <3>. QED
      BY <2>1, <2>3, <3>2, <3>5
  <2>. QED
    BY <2>2, <2>3
<1>. QED
  BY <1>1, <1>3, <1>4, <1>5

\* The figure on the dashboard is the sum of all rows.
LEMMA CarefulOnHand ==
  ASSUME CashTypes, Carried
  PROVE  OnHand = NetOf(txn, DOMAIN txn)
<1>1. CASE ClosedDays = {}
  BY <1>1 DEF OnHand, Net, NetOf, Posted
<1>2. CASE ClosedDays # {}
  <2>1. PICK m : m = Max(ClosedDays)
    OBVIOUS
  <2>2. m \in DOMAIN close
    <3>1. m \in ClosedDays
      BY <1>2, <2>1, ClosedDaysFinite, MaxOf
    <3>. QED
      BY <3>1 DEF ClosedDays
  <2>. DEFINE Old == UpTo(txn, m)
              New == {x \in DOMAIN txn : txn[x].date > m}
  <2>3. /\ Old \in SUBSET DOMAIN txn /\ New \in SUBSET DOMAIN txn
        /\ Old \cap New = {} /\ Old \cup New = DOMAIN txn
    <3>1. m \in Int /\ \A x \in DOMAIN txn : txn[x].date \in Int
      BY <2>2, RowFacts
    <3>2. \A x \in DOMAIN txn : txn[x].date <= m <=> ~(txn[x].date > m)
      BY <3>1
    <3>. QED
      BY <3>2 DEF UpTo
  <2>4. OnHand = NetOf(txn, Old) + NetOf(txn, New)
    <3>1. OnHand = close[m].closing + NetOf(txn, New)
      BY <1>2, <2>1 DEF OnHand, Net, NetOf, Posted
    <3>. QED
      BY <2>2, <3>1 DEF Carried
  <2>5. \A x \in Old \cup New : txn[x] \in Row
    BY <2>3, RowFacts
  <2>6. IsFiniteSet(Old) /\ IsFiniteSet(New)
    BY <2>3, RowFacts
  <2>. HIDE DEF Old, New
  <2>7. NetOf(txn, Old \cup New) = NetOf(txn, Old) + NetOf(txn, New)
    BY <2>3, <2>5, <2>6, NetOfUnion
  <2>. QED
    BY <2>3, <2>4, <2>7
<1>. QED
  BY <1>1, <1>2

\* A row is posted under a key that was free: every sum over the other rows stays.
LEMMA PostedRow ==
  ASSUME CashTypes, NEW x, x \notin used, NEW date \in Int, NEW kind \in Kinds,
         NEW amount \in Int, Post(x, date, kind, amount)
  PROVE  /\ x \notin DOMAIN txn /\ DOMAIN txn' = DOMAIN txn \cup {x}
         /\ txn'[x] = [date |-> date, kind |-> kind, amount |-> amount]
         /\ \A y \in DOMAIN txn : txn'[y] = txn[y]
         /\ \A S \in SUBSET DOMAIN txn :
              /\ NetOf(txn', S) = NetOf(txn, S)
              /\ NetOf(txn', S \cup {x})
                   = NetOf(txn, S) + Signed([date |-> date, kind |-> kind, amount |-> amount])
<1>1. PICK row \in Row : row = [date |-> date, kind |-> kind, amount |-> amount]
  BY DEF Row
<1>2. txn' = With(txn, x, row)
  BY <1>1 DEF Post
<1>3. x \notin DOMAIN txn
  BY DEF CashTypes, TypeOK, Posted
<1>4. /\ DOMAIN txn' = DOMAIN txn \cup {x} /\ txn'[x] = row
      /\ \A y \in DOMAIN txn : txn'[y] = txn[y]
  BY <1>2, <1>3 DEF With
<1>5. ASSUME NEW S \in SUBSET DOMAIN txn
      PROVE  /\ NetOf(txn', S) = NetOf(txn, S)
             /\ NetOf(txn', S \cup {x}) = NetOf(txn, S) + Signed(row)
  <2>1. IsFiniteSet(S) /\ \A y \in S : txn[y] \in Row
    BY RowFacts
  <2>. QED
    BY <1>2, <1>3, <2>1, NetOfWith
<1>. QED
  BY <1>1, <1>3, <1>4, <1>5

\* What a careful shop posts is dated today, before today's close and form.
LEMMA MovementCarried ==
  ASSUME CashTypes, CarriedInv, NEW x, x \notin used, NEW date \in Int, NEW kind \in Kinds,
         NEW amount \in Int, Post(x, date, kind, amount), NEW H, Stray(H), Late(date) \subseteq H,
         close' = close, form' = form, today' = today
  PROVE  CarriedInv'
<1>. SUFFICES ASSUME Careful(strayed') PROVE Carried'
  BY DEF CarriedInv, Careful
<1>1. Late(date) = {} /\ Carried
  <2>1. H \subseteq {"renewals"} /\ strayed \subseteq {"renewals"}
    BY DEF Stray, Careful
  <2>2. Late(date) \subseteq {"late_rows", "busy_desk"}
    BY DEF Late
  <2>3. "late_rows" # "renewals" /\ "busy_desk" # "renewals"
    OBVIOUS
  <2>. QED
    BY <2>1, <2>2, <2>3 DEF CarriedInv, Careful
<1>2. date = today /\ today \notin DOMAIN close /\ DOMAIN form = {}
  BY <1>1 DEF Late, ClosedDays
<1>3. PICK row : row = [date |-> date, kind |-> kind, amount |-> amount]
  OBVIOUS
<1>4. /\ x \notin DOMAIN txn /\ DOMAIN txn' = DOMAIN txn \cup {x}
      /\ txn'[x] = row
      /\ \A y \in DOMAIN txn : txn'[y] = txn[y]
      /\ \A S \in SUBSET DOMAIN txn : NetOf(txn', S) = NetOf(txn, S)
  BY <1>3, PostedRow
<1>5. row.date = today
  BY <1>2, <1>3
<1>6. ASSUME NEW d \in DOMAIN close
      PROVE  d <= today /\ close[d].closing = NetOf(txn', UpTo(txn', d))
  <2>1. d < today /\ d \in Int
    BY <1>1, <1>2, RowFacts DEF Carried
  <2>2. UpTo(txn', d) = UpTo(txn, d)
    BY <1>4, <1>5, <2>1, RowFacts DEF UpTo
  <2>3. UpTo(txn, d) \in SUBSET DOMAIN txn
    BY DEF UpTo
  <2>. QED
    BY <1>1, <1>4, <2>1, <2>2, <2>3 DEF Carried
<1>7. ASSUME NEW y \in DOMAIN txn'
      PROVE  /\ txn'[y].date <= today
             /\ txn'[y].date = today \/ txn'[y].date \in DOMAIN close
  BY <1>1, <1>4, <1>5, RowFacts DEF Carried
<1>. QED
  BY <1>2, <1>6, <1>7 DEF Carried

\* A step that leaves rows, closes, forms and the day alone.
LEMMA SameRowsCarried ==
  ASSUME CarriedInv, txn' = txn, close' = close, form' = form, today' = today,
         strayed \subseteq strayed'
  PROVE  CarriedInv'
BY DEF CarriedInv, Carried, Careful

LEMMA CarriedMovement ==
  ASSUME CashTypes, CarriedInv, Movement
  PROVE  CarriedInv'
<1>. USE DEF Kinds
<1>1. today \in Int
  BY RowFacts
<1>2. ASSUME NEW l \in Loans, NEW p \in Principals, NEW offset \in Offsets,
             NEW running \in BOOLEAN, BookLoan(l, p, offset, running)
      PROVE  CarriedInv'
  <2>1. p \in Int /\ today + offset \in Int
    BY <1>1, CashAssumption
  <2>2. CASE running
    BY <1>2, <2>1, <2>2, MovementCarried DEF BookLoan
  <2>3. CASE ~running
    BY <1>2, <2>3, SameRowsCarried DEF BookLoan
  <2>. QED
    BY <2>2, <2>3
<1>3. ASSUME NEW r \in Receipts, NEW l \in Loans, NEW pay \in Payments, NEW offset \in Offsets,
             Repay(r, l, pay, offset)
      PROVE  CarriedInv'
  <2>1. CashOf(pay) \in Int /\ today + offset \in Int
    BY <1>1, CashAssumption DEF CashOf
  <2>2. CASE CashOf(pay) > 0
    BY <1>3, <2>1, <2>2, MovementCarried DEF Repay
  <2>3. CASE ~(CashOf(pay) > 0)
    BY <1>3, <2>3, SameRowsCarried DEF Repay
  <2>. QED
    BY <2>2, <2>3
<1>4. ASSUME NEW l \in Loans, Preclose(l) PROVE CarriedInv'
  BY <1>4, SameRowsCarried DEF Preclose
<1>5. ASSUME NEW l \in Loans, NEW n \in Loans, NEW extra \in Extras, NEW offset \in Offsets,
             CarryForward(l, n, extra, offset)
      PROVE  CarriedInv'
  <2>1. Outstanding(l) + extra \in Int /\ today + offset \in Int
    BY <1>1, <1>5, OutstandingInt, CashAssumption DEF CarryForward
  <2>2. PICK H : H = {"renewals"} \cup Late(today + offset)
    OBVIOUS
  <2>3. /\ Stray(H) /\ Late(today + offset) \subseteq H
        /\ Post(n, today + offset, "out", Outstanding(l) + extra)
        /\ n \notin used /\ close' = close /\ form' = form /\ today' = today
    BY <1>5, <2>2 DEF CarryForward
  <2>. QED
    BY <2>1, <2>3, MovementCarried
<1>6. ASSUME NEW e \in Entries, NEW kind \in Kinds, NEW a \in Amounts, NEW offset \in Offsets,
             Enter(e, kind, a, offset)
      PROVE  CarriedInv'
  <2>1. a \in Int /\ today + offset \in Int
    BY <1>1, CashAssumption
  <2>. QED
    BY <1>6, <2>1, MovementCarried DEF Enter
<1>. QED
  BY <1>2, <1>3, <1>4, <1>5, <1>6 DEF Movement

\* The position computed for a form is the sum of all rows.
LEMMA PositionIsAll ==
  ASSUME CashTypes, Carried
  PROVE  Position(today).closing = NetOf(txn, DOMAIN txn)
<1>1. Position(today).closing
        = LastClosing(today) + NetOf(txn, {x \in DOMAIN txn : txn[x].date = today})
  BY DEF Position, Net, NetOf, Posted
<1>. QED
  BY <1>1, CarriedForward

LEMMA CarriedClosing ==
  ASSUME CashTypes, CarriedInv, Closing
  PROVE  CarriedInv'
<1>1. txn' = txn /\ today' = today /\ strayed \subseteq strayed'
  BY DEF Closing, ComputeClose, SaveClose, RefuseClose, AdminClose, DeleteClose, Stray
<1>. SUFFICES ASSUME Careful(strayed') PROVE Carried'
  BY DEF CarriedInv, Careful
<1>2. Carried
  BY <1>1 DEF CarriedInv, Careful
<1>3. ASSUME NEW c \in Clerks, ComputeClose(c) PROVE Carried'
  <2>1. PICK row : row = Position(today)
    OBVIOUS
  <2>2. form' = With(form, c, row) /\ close' = close
    BY <1>3, <2>1 DEF ComputeClose
  <2>3. \A k \in DOMAIN form' : form'[k] = row \/ (k \in DOMAIN form /\ form'[k] = form[k])
    BY <2>2 DEF With
  <2>4. row.date = today /\ row.closing = NetOf(txn, DOMAIN txn)
    BY <1>2, <2>1, PositionIsAll DEF Position
  <2>. QED
    BY <1>1, <1>2, <2>2, <2>3, <2>4 DEF Carried
<1>4. ASSUME NEW c \in Clerks, RefuseClose(c) PROVE Carried'
  <2>1. close' = close /\ \A k \in DOMAIN form' : k \in DOMAIN form /\ form'[k] = form[k]
    BY <1>4 DEF RefuseClose, Without
  <2>. QED
    BY <1>1, <1>2, <2>1 DEF Carried
<1>5. ASSUME NEW c \in Clerks, NEW counted \in BOOLEAN, SaveClose(c, counted) PROVE Carried'
  <2>1. PICK row : row = [opening |-> form[c].opening, closing |-> form[c].closing,
                          physical |-> IF counted THEN drawer ELSE form[c].closing]
    OBVIOUS
  <2>2. close' = With(close, today, row) /\ c \in DOMAIN form /\ row.closing = form[c].closing
    BY <1>2, <1>5, <2>1 DEF SaveClose, Carried
  <2>3. /\ DOMAIN close' = DOMAIN close \cup {today} /\ close'[today] = row
        /\ \A d \in DOMAIN close \ {today} : close'[d] = close[d]
    BY <2>2 DEF With
  <2>4. \A k \in DOMAIN form' : k \in DOMAIN form /\ form'[k] = form[k]
    BY <1>5 DEF SaveClose, Without
  <2>5. UpTo(txn, today) = DOMAIN txn
    BY <1>2 DEF UpTo, Carried
  <2>6. ASSUME NEW d \in DOMAIN close'
        PROVE  d <= today /\ close'[d].closing = NetOf(txn, UpTo(txn, d))
    <3>1. CASE d = today
      BY <1>2, <2>2, <2>3, <2>5, <3>1, RowFacts DEF Carried
    <3>2. CASE d # today
      BY <1>2, <2>3, <3>2 DEF Carried
    <3>. QED
      BY <3>1, <3>2
  <2>7. \A x \in DOMAIN txn : /\ txn[x].date <= today
                              /\ txn[x].date = today \/ txn[x].date \in DOMAIN close'
    BY <1>2, <2>3 DEF Carried
  <2>8. \A k \in DOMAIN form' : form'[k].date = today /\ form'[k].closing = NetOf(txn, DOMAIN txn)
    BY <1>2, <2>4 DEF Carried
  <2>. QED
    BY <1>1, <2>6, <2>7, <2>8 DEF Carried
<1>6. "admin_close" \notin strayed'
  BY DEF Careful
<1>. QED
  BY <1>3, <1>4, <1>5, <1>6 DEF Closing, AdminClose, DeleteClose, Stray

LEMMA CarriedTick ==
  ASSUME CashTypes, CarriedInv, Tick
  PROVE  CarriedInv'
<1>1. /\ txn' = txn /\ close' = close /\ form' = form /\ today' = today + 1
      /\ strayed \subseteq strayed' /\ (DOMAIN form = {} \/ "overnight" \in strayed')
  BY DEF Tick, Stray
<1>. SUFFICES ASSUME Careful(strayed') PROVE Carried'
  BY DEF CarriedInv, Careful
<1>2. Carried
  BY <1>1 DEF CarriedInv, Careful
<1>3. today \in DOMAIN close \/ \A x \in DOMAIN txn : txn[x].date # today
  <2>1. "skip_days" \notin strayed'
    BY DEF Careful
  <2>. QED
    BY <2>1 DEF Tick, Stray, Posted, ClosedDays
<1>4. DOMAIN form = {}
  BY <1>1 DEF Careful
<1>. QED
  BY <1>1, <1>2, <1>3, <1>4, RowFacts DEF Carried

LEMMA NextCarried == CashTypes /\ CarriedInv /\ [Next]_vars => CarriedInv'
<1>. SUFFICES ASSUME CashTypes, CarriedInv, [Next]_vars PROVE CarriedInv'
  OBVIOUS
<1>1. CASE Correction
  <2>1. "corrections" \in strayed'
    BY <1>1 DEF Correction, EditLoan, EditRepayment, DeleteRepayment, DeleteLoan, DeleteRow, EditRow, Stray
  <2>. QED
    BY <2>1 DEF CarriedInv, Careful
<1>2. CASE UNCHANGED vars
  BY <1>2, SameRowsCarried DEF vars
<1>. QED
  BY <1>1, <1>2, CarriedMovement, CarriedClosing, CarriedTick DEF Next

LEMMA AlwaysCarried == Spec => [](CashTypes /\ CarriedInv)
BY InitTypes, NextTypes, InitCarried, NextCarried, PTL DEF Spec

\* total_cash_on_hand: through any number of closes and renewals the last close and
\* the rows since are the sum of all rows, of a shop that closes each day with
\* movements at its end and corrects nothing.
THEOREM OnHandCarried == Spec => []CarefulOnHandIsTrue
<1>1. CashTypes /\ CarriedInv => CarefulOnHandIsTrue
  <2>. SUFFICES ASSUME CashTypes, CarriedInv, strayed \subseteq {"renewals"} PROVE OnHandIsTrue
    BY DEF CarefulOnHandIsTrue
  <2>1. OnHand = NetOf(txn, DOMAIN txn)
    BY CarefulOnHand DEF CarriedInv, Careful
  <2>. QED
    BY <2>1 DEF OnHandIsTrue, Net, NetOf, Posted
<1>. QED
  BY <1>1, AlwaysCarried, PTL

-----------------------------------------------------------------------------
(* The counted drawer: what is really in the shop is the sum of the rows,   *)
(* while nothing but recorded movements has happened.                       *)

HonestInv ==
  strayed = {} => /\ drawer = NetOf(txn, DOMAIN txn)
                  /\ \A d \in DOMAIN close : close[d].physical = close[d].closing

LEMMA InitHonest == Init => HonestInv
<1>. SUFFICES ASSUME Init PROVE HonestInv
  OBVIOUS
<1>1. DOMAIN txn = {} /\ DOMAIN close = {} /\ drawer = 0
  BY DEF Init, NoRows
<1>. QED
  BY <1>1, NetOfNothing DEF HonestInv

LEMMA MovementHonest ==
  ASSUME CashTypes, HonestInv, NEW x, x \notin used, NEW date \in Int, NEW kind \in Kinds,
         NEW amount \in Int, Post(x, date, kind, amount), NEW H, Stray(H), close' = close,
         drawer' = drawer + Signed([date |-> date, kind |-> kind, amount |-> amount])
  PROVE  HonestInv'
<1>. SUFFICES ASSUME strayed' = {}
              PROVE  /\ drawer' = NetOf(txn', DOMAIN txn')
                     /\ \A d \in DOMAIN close : close[d].physical = close[d].closing
  BY DEF HonestInv
<1>1. strayed = {}
  BY DEF Stray
<1>2. PICK v : v = Signed([date |-> date, kind |-> kind, amount |-> amount])
  OBVIOUS
<1>3. DOMAIN txn' = DOMAIN txn \cup {x} /\ DOMAIN txn \in SUBSET DOMAIN txn
  BY PostedRow
<1>4. NetOf(txn', DOMAIN txn \cup {x}) = NetOf(txn, DOMAIN txn) + v
  BY <1>2, <1>3, PostedRow
<1>. QED
  BY <1>1, <1>2, <1>3, <1>4 DEF HonestInv

LEMMA HonestMovement ==
  ASSUME CashTypes, HonestInv, Movement
  PROVE  HonestInv'
<1>1. today \in Int /\ drawer \in Int
  BY RowFacts DEF CashTypes, TypeOK
<1>2. ASSUME NEW l \in Loans, NEW p \in Principals, NEW offset \in Offsets,
             NEW running \in BOOLEAN, BookLoan(l, p, offset, running)
      PROVE  HonestInv'
  <2>1. p \in Int /\ today + offset \in Int /\ "out" \in Kinds
    BY <1>1, CashAssumption DEF Kinds
  <2>2. CASE running
    <3>1. drawer' = drawer + Signed([date |-> today + offset, kind |-> "out", amount |-> p])
      BY <1>1, <1>2, <2>1, <2>2 DEF BookLoan, Signed
    <3>. QED
      BY <1>2, <2>1, <2>2, <3>1, MovementHonest DEF BookLoan
  <2>3. CASE ~running
    BY <1>2, <2>3 DEF BookLoan, HonestInv
  <2>. QED
    BY <2>2, <2>3
<1>3. ASSUME NEW r \in Receipts, NEW l \in Loans, NEW pay \in Payments, NEW offset \in Offsets,
             Repay(r, l, pay, offset)
      PROVE  HonestInv'
  <2>1. /\ pay.p \in Nat /\ pay.i \in Nat /\ today + offset \in Int /\ "in" \in Kinds
        /\ CashOf(pay) = pay.p + pay.i
    BY <1>1, CashAssumption DEF CashOf, Kinds
  <2>2. drawer' = drawer + CashOf(pay) /\ CashOf(pay) \in Int
    BY <1>1, <1>3, <2>1 DEF Repay
  <2>3. CASE CashOf(pay) > 0
    <3>1. drawer' = drawer + Signed([date |-> today + offset, kind |-> "in", amount |-> CashOf(pay)])
      BY <2>2 DEF Signed
    <3>. QED
      BY <1>3, <2>1, <2>2, <2>3, <3>1, MovementHonest DEF Repay
  <2>4. CASE ~(CashOf(pay) > 0)
    <3>1. drawer' = drawer
      BY <1>1, <2>1, <2>2, <2>4
    <3>. QED
      BY <1>3, <2>4, <3>1 DEF Repay, HonestInv
  <2>. QED
    BY <2>3, <2>4
<1>4. ASSUME NEW l \in Loans, Preclose(l) PROVE HonestInv'
  BY <1>4 DEF Preclose, HonestInv
<1>5. ASSUME NEW l \in Loans, NEW n \in Loans, NEW extra \in Extras, NEW offset \in Offsets,
             CarryForward(l, n, extra, offset)
      PROVE  HonestInv'
  <2>1. "renewals" \in strayed'
    BY <1>5 DEF CarryForward, Stray
  <2>. QED
    BY <2>1 DEF HonestInv
<1>6. ASSUME NEW e \in Entries, NEW kind \in Kinds, NEW a \in Amounts, NEW offset \in Offsets,
             Enter(e, kind, a, offset)
      PROVE  HonestInv'
  <2>1. a \in Int /\ today + offset \in Int
    BY <1>1, CashAssumption
  <2>2. drawer' = drawer + Signed([date |-> today + offset, kind |-> kind, amount |-> a])
    BY <1>6 DEF Enter, Signed
  <2>. QED
    BY <1>6, <2>1, <2>2, MovementHonest DEF Enter
<1>. QED
  BY <1>2, <1>3, <1>4, <1>5, <1>6 DEF Movement

LEMMA HonestClosing ==
  ASSUME CashTypes, CarriedInv, HonestInv, Closing
  PROVE  HonestInv'
<1>1. txn' = txn /\ drawer' = drawer /\ strayed \subseteq strayed'
  BY DEF Closing, ComputeClose, SaveClose, RefuseClose, AdminClose, DeleteClose, Stray
<1>. SUFFICES ASSUME strayed' = {}
              PROVE  \A d \in DOMAIN close' : close'[d].physical = close'[d].closing
  BY <1>1 DEF HonestInv
<1>2. /\ drawer = NetOf(txn, DOMAIN txn)
      /\ \A d \in DOMAIN close : close[d].physical = close[d].closing
      /\ \A c \in DOMAIN form : form[c].date = today /\ form[c].closing = NetOf(txn, DOMAIN txn)
  BY <1>1 DEF HonestInv, CarriedInv, Careful, Carried
<1>3. ASSUME NEW c \in Clerks, NEW counted \in BOOLEAN, SaveClose(c, counted)
      PROVE  \A d \in DOMAIN close' : close'[d].physical = close'[d].closing
  <2>1. PICK row : row = [opening |-> form[c].opening, closing |-> form[c].closing,
                          physical |-> IF counted THEN drawer ELSE form[c].closing]
    OBVIOUS
  <2>2. row.physical = row.closing
    BY <1>2, <1>3, <2>1 DEF SaveClose
  <2>3. /\ DOMAIN close' = DOMAIN close \cup {today} /\ close'[today] = row
        /\ \A d \in DOMAIN close \ {today} : close'[d] = close[d]
    BY <1>2, <1>3, <2>1 DEF SaveClose, With
  <2>. QED
    BY <1>2, <2>2, <2>3
<1>4. ASSUME close' = close
      PROVE  \A d \in DOMAIN close' : close'[d].physical = close'[d].closing
  BY <1>2, <1>4
<1>. QED
  BY <1>3, <1>4 DEF Closing, ComputeClose, RefuseClose, AdminClose, DeleteClose, Stray

LEMMA NextHonest == CashTypes /\ CarriedInv /\ HonestInv /\ [Next]_vars => HonestInv'
<1>. SUFFICES ASSUME CashTypes, CarriedInv, HonestInv, [Next]_vars PROVE HonestInv'
  OBVIOUS
<1>1. CASE Correction
  <2>1. "corrections" \in strayed'
    BY <1>1 DEF Correction, EditLoan, EditRepayment, DeleteRepayment, DeleteLoan, DeleteRow, EditRow, Stray
  <2>. QED
    BY <2>1 DEF HonestInv
<1>2. CASE Tick \/ UNCHANGED vars
  <2>1. txn' = txn /\ drawer' = drawer /\ close' = close /\ strayed \subseteq strayed'
    BY <1>2 DEF Tick, vars, Stray
  <2>. QED
    BY <2>1 DEF HonestInv
<1>. QED
  BY <1>1, <1>2, HonestMovement, HonestClosing DEF Next

\* Of a shop that records what it hands over and strays into nothing the drawer,
\* whenever it is counted, agrees with the balance the close carried forward.
THEOREM HonestDaysBalance == Spec => []HonestDayBalances
<1>1. HonestInv => HonestDayBalances
  BY DEF HonestInv, HonestDayBalances, ClosedDays
<1>. QED
  BY <1>1, InitHonest, NextHonest, AlwaysCarried, PTL DEF Spec

-----------------------------------------------------------------------------
(* The books as a whole: every movement shifts cash, the principal that is  *)
(* out and the interest by the same.                                        *)

\* The loans no row was posted for.
Past == DOMAIN loan \ DOMAIN txn

BooksInv ==
  Careful(strayed) =>
    NetOf(txn, DOMAIN txn) + (PrincipalOf(loan, DOMAIN loan) - RepaidOf(rep, DOMAIN rep))
      = NetOf(txn, DOMAIN txn \cap Entries) + InterestOf(rep) + PrincipalOf(loan, Past)

LEMMA InitBooks == Init => BooksInv
<1>. SUFFICES ASSUME Init PROVE BooksInv
  OBVIOUS
<1>1. DOMAIN txn = {} /\ DOMAIN rep = {} /\ DOMAIN loan = {}
  BY DEF Init, NoRows
<1>2. PrincipalOf(loan, {}) = 0 /\ InterestOf(rep) = 0 /\ RepaidOf(rep, DOMAIN rep) = 0
  <2>1. IsFiniteSet({}) /\ \A v : SumOver(v, {}) = 0
    BY FS_EmptySet, SumOfNothing
  <2>2. PICK v : v = 0
    OBVIOUS
  <2>3. PrincipalOf(loan, {}) = SumOver(v, {})
    BY <1>1, <2>1, PrincipalOfIsSum
  <2>4. InterestOf(rep) = SumOver(v, {}) /\ RepaidOf(rep, {}) = SumOver(v, {})
    BY <1>1, <2>1, InterestOfIsSum, RepaidOfIsSum
  <2>. QED
    BY <1>1, <2>1, <2>3, <2>4
<1>3. DOMAIN txn \cap Entries = {} /\ Past = {}
  BY <1>1 DEF Past
<1>. QED
  BY <1>1, <1>2, <1>3, NetOfNothing DEF BooksInv

\* The sums of a state are numbers.
LEMMA BookSums ==
  ASSUME CashTypes
  PROVE  /\ NetOf(txn, DOMAIN txn) \in Int /\ NetOf(txn, DOMAIN txn \cap Entries) \in Int
         /\ PrincipalOf(loan, DOMAIN loan) \in Int /\ PrincipalOf(loan, Past) \in Int
         /\ IsFiniteSet(Past) /\ RepaidOf(rep, DOMAIN rep) \in Int
         /\ InterestOf(rep) \in Int
<1>1. /\ IsFiniteSet(DOMAIN loan) /\ IsFiniteSet(DOMAIN rep)
      /\ \A l \in DOMAIN loan : loan[l] \in Loan
      /\ \A r \in DOMAIN rep : rep[r] \in Repayment
  BY DEF CashTypes, TypeOK
<1>2. NetOf(txn, DOMAIN txn) \in Int /\ NetOf(txn, DOMAIN txn \cap Entries) \in Int
  BY RowFacts
<1>3. /\ PrincipalOf(loan, DOMAIN loan) \in Int /\ PrincipalOf(loan, Past) \in Int
      /\ IsFiniteSet(Past)
  <2>1. Past \subseteq DOMAIN loan
    BY DEF Past
  <2>2. IsFiniteSet(Past)
    BY <1>1, <2>1, FS_Subset
  <2>. QED
    BY <1>1, <2>1, <2>2, PrincipalOfInt
<1>4. InterestOf(rep) \in Int
  <2>. DEFINE v == [r \in DOMAIN rep |-> rep[r].pay.i]
  <2>1. \A r \in DOMAIN rep : v[r] = rep[r].pay.i /\ v[r] \in Int
    BY <1>1 DEF Repayment
  <2>. HIDE DEF v
  <2>. QED
    BY <1>1, <2>1, InterestOfIsSum, SumType
<1>. QED
  BY <1>1, <1>2, <1>3, <1>4, RepaidOfInt

\* A row more, by hand or not.
LEMMA PostedSums ==
  ASSUME CashTypes, NEW x, x \notin used, NEW date \in Int, NEW kind \in Kinds,
         NEW amount \in Int, Post(x, date, kind, amount)
  PROVE  LET v == Signed([date |-> date, kind |-> kind, amount |-> amount])
         IN  /\ NetOf(txn', DOMAIN txn') = NetOf(txn, DOMAIN txn) + v
             /\ x \in Entries =>
                  NetOf(txn', DOMAIN txn' \cap Entries) = NetOf(txn, DOMAIN txn \cap Entries) + v
             /\ x \notin Entries =>
                  NetOf(txn', DOMAIN txn' \cap Entries) = NetOf(txn, DOMAIN txn \cap Entries)
<1>1. PICK v : v = Signed([date |-> date, kind |-> kind, amount |-> amount])
  OBVIOUS
<1>2. /\ DOMAIN txn' = DOMAIN txn \cup {x}
      /\ \A S \in SUBSET DOMAIN txn : /\ NetOf(txn', S) = NetOf(txn, S)
                                      /\ NetOf(txn', S \cup {x}) = NetOf(txn, S) + v
  BY <1>1, PostedRow
<1>3. /\ DOMAIN txn \in SUBSET DOMAIN txn
      /\ DOMAIN txn \cap Entries \in SUBSET DOMAIN txn
  OBVIOUS
<1>4. x \in Entries => DOMAIN txn' \cap Entries = (DOMAIN txn \cap Entries) \cup {x}
  BY <1>2
<1>5. x \notin Entries => DOMAIN txn' \cap Entries = DOMAIN txn \cap Entries
  BY <1>2
<1>. QED
  BY <1>1, <1>2, <1>3, <1>4, <1>5

\* A loan more: what was out, with the loans whose rows are the same.
LEMMA LoanMore ==
  ASSUME CashTypes, NEW l, l \notin used, NEW row \in Loan, NEW old, DOMAIN old = DOMAIN loan,
         \A k \in DOMAIN loan : old[k] \in Loan /\ old[k].principal = loan[k].principal,
         loan' = With(old, l, row)
  PROVE  /\ PrincipalOf(loan', DOMAIN loan') = PrincipalOf(loan, DOMAIN loan) + row.principal
         /\ DOMAIN txn' = DOMAIN txn \cup {l} => PrincipalOf(loan', Past') = PrincipalOf(loan, Past)
         /\ txn' = txn => PrincipalOf(loan', Past') = PrincipalOf(loan, Past) + row.principal
<1>1. l \notin DOMAIN old /\ l \notin DOMAIN txn /\ DOMAIN loan' = DOMAIN loan \cup {l}
  BY DEF CashTypes, TypeOK, Posted, With
<1>2. IsFiniteSet(DOMAIN loan) /\ Past \subseteq DOMAIN loan /\ IsFiniteSet(Past)
  BY BookSums DEF CashTypes, Past
<1>3. /\ PrincipalOf(old, DOMAIN loan) = PrincipalOf(loan, DOMAIN loan)
      /\ PrincipalOf(old, Past) = PrincipalOf(loan, Past)
  BY <1>2, PrincipalOfSame
<1>4. PrincipalOf(loan', DOMAIN loan \cup {l}) = PrincipalOf(old, DOMAIN loan) + row.principal
  BY <1>1, <1>2, PrincipalOfWith
<1>5. /\ PrincipalOf(loan', Past \cup {l}) = PrincipalOf(old, Past) + row.principal
      /\ PrincipalOf(loan', Past) = PrincipalOf(old, Past)
  <2>1. Past \subseteq DOMAIN old /\ \A k \in Past : old[k] \in Loan
    BY <1>2
  <2>. QED
    BY <1>1, <1>2, <2>1, PrincipalOfWith
<1>6. DOMAIN txn' = DOMAIN txn \cup {l} => Past' = Past
  BY <1>1 DEF Past
<1>7. txn' = txn => Past' = Past \cup {l}
  BY <1>1 DEF Past
<1>. QED
  BY <1>1, <1>3, <1>4, <1>5, <1>6, <1>7

\* No loan more, and no row for one.
LEMMA LoansSame ==
  ASSUME CashTypes, DOMAIN loan' = DOMAIN loan,
         \A k \in DOMAIN loan : loan'[k].principal = loan[k].principal,
         DOMAIN txn' \cap Loans = DOMAIN txn \cap Loans
  PROVE  /\ PrincipalOf(loan', DOMAIN loan') = PrincipalOf(loan, DOMAIN loan)
         /\ PrincipalOf(loan', Past') = PrincipalOf(loan, Past)
<1>1. IsFiniteSet(DOMAIN loan) /\ Past \subseteq DOMAIN loan /\ IsFiniteSet(Past)
  BY BookSums DEF CashTypes, Past
<1>2. Past' = Past
  BY DEF Past, CashTypes, TypeOK
<1>3. \A k \in Past : loan'[k].principal = loan[k].principal
  BY <1>1
<1>4. PrincipalOf(loan', Past) = PrincipalOf(loan, Past)
  BY <1>1, <1>3, PrincipalOfSame
<1>5. PrincipalOf(loan', DOMAIN loan) = PrincipalOf(loan, DOMAIN loan)
  BY <1>1, PrincipalOfSame
<1>. QED
  BY <1>2, <1>4, <1>5

LEMMA BookLoanBooks ==
  ASSUME CashTypes, BooksInv, NEW l \in Loans, NEW p \in Principals, NEW offset \in Offsets,
         NEW running \in BOOLEAN, BookLoan(l, p, offset, running)
  PROVE  BooksInv'
<1>1. p \in Int /\ today + offset \in Int /\ "out" \in Kinds /\ l \notin used /\ l \notin Entries
  BY RowFacts, CashAssumption, SourceAssumption DEF Kinds, BookLoan
<1>2. PICK row \in Loan : row = [principal |-> p, running |-> running]
  BY <1>1 DEF Loan
<1>3. loan' = With(loan, l, row) /\ rep' = rep /\ strayed \subseteq strayed'
  BY <1>2 DEF BookLoan, Stray
<1>4. /\ row.principal = p
      /\ \A k \in DOMAIN loan : loan[k] \in Loan /\ loan[k].principal = loan[k].principal
  BY <1>2 DEF CashTypes, TypeOK
<1>5. /\ PrincipalOf(loan', DOMAIN loan') = PrincipalOf(loan, DOMAIN loan) + p
      /\ DOMAIN txn' = DOMAIN txn \cup {l} => PrincipalOf(loan', Past') = PrincipalOf(loan, Past)
      /\ txn' = txn => PrincipalOf(loan', Past') = PrincipalOf(loan, Past) + p
  BY <1>1, <1>3, <1>4, LoanMore
<1>6. CASE running
  <2>1. Signed([date |-> today + offset, kind |-> "out", amount |-> p]) = -p
    BY DEF Signed
  <2>2. Post(l, today + offset, "out", p)
    BY <1>6 DEF BookLoan
  <2>3. /\ NetOf(txn', DOMAIN txn') = NetOf(txn, DOMAIN txn) + (-p)
        /\ NetOf(txn', DOMAIN txn' \cap Entries) = NetOf(txn, DOMAIN txn \cap Entries)
    BY <1>1, <2>1, <2>2, PostedSums
  <2>4. DOMAIN txn' = DOMAIN txn \cup {l}
    BY <1>1, <2>2, PostedRow
  <2>5. rep' = rep /\ (Careful(strayed') => Careful(strayed))
    BY <1>3 DEF Careful
  <2>. QED
    BY <1>1, <1>5, <2>3, <2>4, <2>5, BookSums DEF BooksInv
<1>7. CASE ~running
  <2>1. txn' = txn /\ rep' = rep /\ (Careful(strayed') => Careful(strayed))
    BY <1>3, <1>7 DEF BookLoan, Careful
  <2>. QED
    BY <1>1, <1>5, <2>1, BookSums DEF BooksInv
<1>. QED
  BY <1>6, <1>7

LEMMA RepayBooks ==
  ASSUME CashTypes, BooksInv, NEW r \in Receipts, NEW l \in Loans, NEW pay \in Payments,
         NEW offset \in Offsets, Repay(r, l, pay, offset)
  PROVE  BooksInv'
<1>1. /\ pay \in [p : Nat, i : Nat] /\ today + offset \in Int /\ "in" \in Kinds
      /\ r \notin used /\ r \notin Entries /\ CashOf(pay) = pay.p + pay.i
      /\ pay.p \in Nat /\ pay.i \in Nat
  BY RowFacts, CashAssumption, SourceAssumption DEF Kinds, Repay, CashOf
<1>2. /\ NetOf(txn', DOMAIN txn') = NetOf(txn, DOMAIN txn) + (pay.p + pay.i)
      /\ NetOf(txn', DOMAIN txn' \cap Entries) = NetOf(txn, DOMAIN txn \cap Entries)
      /\ strayed \subseteq strayed'
  <2>1. CASE CashOf(pay) > 0
    <3>1. PICK cash \in Int : cash = CashOf(pay)
      BY <1>1
    <3>2. PICK date \in Int : date = today + offset
      BY <1>1
    <3>3. Signed([date |-> date, kind |-> "in", amount |-> cash]) = cash
      BY <3>1 DEF Signed
    <3>4. Post(r, date, "in", cash)
      BY <2>1, <3>1, <3>2 DEF Repay
    <3>5. /\ NetOf(txn', DOMAIN txn') = NetOf(txn, DOMAIN txn) + cash
          /\ NetOf(txn', DOMAIN txn' \cap Entries) = NetOf(txn, DOMAIN txn \cap Entries)
      <4>1. PICK v : v = Signed([date |-> date, kind |-> "in", amount |-> cash])
        OBVIOUS
      <4>2. /\ NetOf(txn', DOMAIN txn') = NetOf(txn, DOMAIN txn) + v
            /\ NetOf(txn', DOMAIN txn' \cap Entries) = NetOf(txn, DOMAIN txn \cap Entries)
        <5>1. r \notin used /\ r \notin Entries /\ "in" \in Kinds
          BY <1>1
        <5>. QED
          BY <3>4, <4>1, <5>1, PostedSums
      <4>. QED
        BY <3>3, <4>1, <4>2
    <3>6. strayed \subseteq strayed'
      BY <2>1 DEF Repay, Stray
    <3>. QED
      BY <1>1, <3>1, <3>5, <3>6
  <2>2. CASE ~(CashOf(pay) > 0)
    <3>1. txn' = txn /\ strayed' = strayed /\ pay.p + pay.i = 0
      BY <1>1, <2>2 DEF Repay
    <3>. QED
      BY <3>1, BookSums
  <2>. QED
    BY <2>1, <2>2
<1>3. PICK row \in Repayment : row = [loan |-> l, pay |-> pay]
  BY <1>1 DEF Repayment
<1>4. rep' = With(rep, r, row)
  BY <1>3 DEF Repay
<1>5. /\ IsFiniteSet(DOMAIN rep) /\ r \notin DOMAIN rep
      /\ \A k \in DOMAIN rep : rep[k] \in Repayment
  BY <1>1 DEF CashTypes, TypeOK
<1>6. /\ RepaidOf(rep', DOMAIN rep') = RepaidOf(rep, DOMAIN rep) + pay.p
      /\ InterestOf(rep') = InterestOf(rep) + pay.i
  BY <1>3, <1>4, <1>5, RepaidOfWith, InterestOfWith
<1>7. /\ PrincipalOf(loan', DOMAIN loan') = PrincipalOf(loan, DOMAIN loan)
      /\ PrincipalOf(loan', Past') = PrincipalOf(loan, Past)
  <2>1. DOMAIN loan' = DOMAIN loan /\ \A k \in DOMAIN loan : loan'[k].principal = loan[k].principal
    <3>1. \A k \in DOMAIN loan : loan[k] \in Loan
      BY DEF CashTypes, TypeOK
    <3>. QED
      BY <3>1 DEF Repay, MayClose, Loan
  <2>2. DOMAIN txn' \cap Loans = DOMAIN txn \cap Loans
    <3>1. CASE CashOf(pay) > 0
      <4>1. Post(r, today + offset, "in", CashOf(pay))
        BY <3>1 DEF Repay
      <4>2. DOMAIN txn' = DOMAIN txn \cup {r}
        BY <4>1 DEF Post, With
      <4>. QED
        BY <4>2, SourceAssumption
    <3>2. CASE ~(CashOf(pay) > 0)
      BY <3>2, SourceAssumption DEF Repay
    <3>. QED
      BY <3>1, <3>2
  <2>. QED
    BY <2>1, <2>2, LoansSame
<1>8. PICK principal \in Nat, interest \in Nat :
        principal = pay.p /\ interest = pay.i
  BY <1>1
<1>9. /\ NetOf(txn', DOMAIN txn') = NetOf(txn, DOMAIN txn) + (principal + interest)
      /\ RepaidOf(rep', DOMAIN rep') = RepaidOf(rep, DOMAIN rep) + principal
      /\ InterestOf(rep') = InterestOf(rep) + interest
  BY <1>2, <1>6, <1>8
<1>10. Careful(strayed') => Careful(strayed)
  BY <1>2 DEF Careful
<1>. QED
  BY <1>2, <1>7, <1>9, <1>10, BookSums DEF BooksInv

LEMMA CarryForwardBooks ==
  ASSUME CashTypes, BooksInv, NEW l \in Loans, NEW n \in Loans, NEW extra \in Extras,
         NEW offset \in Offsets, CarryForward(l, n, extra, offset)
  PROVE  BooksInv'
<1>1. /\ today + offset \in Int /\ "out" \in Kinds /\ l \in DOMAIN loan
      /\ n \notin used /\ n \notin Entries /\ extra \in Int
  BY RowFacts, CashAssumption, SourceAssumption DEF Kinds, CarryForward
<1>2. PICK p \in Int : p = Outstanding(l) + extra
  BY <1>1, OutstandingInt
<1>3. Signed([date |-> today + offset, kind |-> "out", amount |-> p]) = -p
  BY DEF Signed
<1>4. Post(n, today + offset, "out", p)
  BY <1>2 DEF CarryForward
<1>5. /\ NetOf(txn', DOMAIN txn') = NetOf(txn, DOMAIN txn) + (-p)
      /\ NetOf(txn', DOMAIN txn' \cap Entries) = NetOf(txn, DOMAIN txn \cap Entries)
  BY <1>1, <1>3, <1>4, PostedSums
<1>6. PICK row \in Loan : row = [principal |-> p, running |-> TRUE]
  BY DEF Loan
<1>7. PICK old : old = [loan EXCEPT ![l].running = FALSE]
  OBVIOUS
<1>8. loan' = With(old, n, row) /\ rep' = rep /\ strayed \subseteq strayed'
  BY <1>2, <1>6, <1>7 DEF CarryForward, Stray
<1>9. /\ DOMAIN old = DOMAIN loan /\ row.principal = p
      /\ \A k \in DOMAIN loan : old[k] \in Loan /\ old[k].principal = loan[k].principal
  <2>1. old \in [DOMAIN loan -> Loan]
    BY <1>1, <1>7, StoppedTypes
  <2>2. \A k \in DOMAIN loan : old[k].principal = loan[k].principal
    BY <1>7 DEF CashTypes, TypeOK, Loan
  <2>. QED
    BY <1>6, <2>1, <2>2
<1>10. DOMAIN txn' = DOMAIN txn \cup {n}
  BY <1>1, <1>4, PostedRow
<1>11. /\ PrincipalOf(loan', DOMAIN loan') = PrincipalOf(loan, DOMAIN loan) + p
       /\ PrincipalOf(loan', Past') = PrincipalOf(loan, Past)
  BY <1>1, <1>8, <1>9, <1>10, LoanMore
<1>12. rep' = rep /\ (Careful(strayed') => Careful(strayed))
  BY <1>8 DEF Careful
<1>. QED
  BY <1>5, <1>11, <1>12, BookSums DEF BooksInv

LEMMA EnterBooks ==
  ASSUME CashTypes, BooksInv, NEW e \in Entries, NEW kind \in Kinds, NEW a \in Amounts,
         NEW offset \in Offsets, Enter(e, kind, a, offset)
  PROVE  BooksInv'
<1>1. a \in Int /\ today + offset \in Int /\ e \notin used
  BY RowFacts, CashAssumption DEF Enter
<1>2. PICK v : v = Signed([date |-> today + offset, kind |-> kind, amount |-> a])
  OBVIOUS
<1>3. v \in Int
  BY <1>1, <1>2 DEF Signed, Kinds
<1>4. /\ NetOf(txn', DOMAIN txn') = NetOf(txn, DOMAIN txn) + v
      /\ NetOf(txn', DOMAIN txn' \cap Entries) = NetOf(txn, DOMAIN txn \cap Entries) + v
  BY <1>1, <1>2, PostedSums DEF Enter
<1>5. loan' = loan /\ rep' = rep /\ (Careful(strayed') => Careful(strayed))
  BY DEF Enter, Stray, Careful
<1>6. DOMAIN txn' \cap Loans = DOMAIN txn \cap Loans
  BY <1>1, PostedRow, SourceAssumption DEF Enter
<1>7. /\ PrincipalOf(loan', DOMAIN loan') = PrincipalOf(loan, DOMAIN loan)
      /\ PrincipalOf(loan', Past') = PrincipalOf(loan, Past)
  BY <1>5, <1>6, LoansSame
<1>. QED
  BY <1>3, <1>4, <1>5, <1>7, BookSums DEF BooksInv

LEMMA NextBooks == CashTypes /\ BooksInv /\ [Next]_vars => BooksInv'
<1>. SUFFICES ASSUME CashTypes, BooksInv, [Next]_vars PROVE BooksInv'
  OBVIOUS
<1>1. ASSUME NEW l \in Loans, Preclose(l) PROVE BooksInv'
  <2>1. DOMAIN loan' = DOMAIN loan /\ \A k \in DOMAIN loan : loan'[k].principal = loan[k].principal
    BY <1>1 DEF Preclose, CashTypes, TypeOK, Loan
  <2>2. /\ PrincipalOf(loan', DOMAIN loan') = PrincipalOf(loan, DOMAIN loan)
        /\ PrincipalOf(loan', Past') = PrincipalOf(loan, Past)
    BY <1>1, <2>1, LoansSame DEF Preclose
  <2>. QED
    BY <1>1, <2>2 DEF Preclose, BooksInv
<1>2. CASE Movement
  BY <1>1, <1>2, BookLoanBooks, RepayBooks, CarryForwardBooks, EnterBooks DEF Movement
<1>3. CASE Correction
  <2>1. "corrections" \in strayed'
    BY <1>3 DEF Correction, EditLoan, EditRepayment, DeleteRepayment, DeleteLoan, DeleteRow, EditRow, Stray
  <2>. QED
    BY <2>1 DEF BooksInv, Careful
<1>4. CASE Closing \/ Tick \/ UNCHANGED vars
  <2>1. loan' = loan /\ rep' = rep /\ txn' = txn /\ strayed \subseteq strayed'
    BY <1>4 DEF Closing, Tick, vars, ComputeClose, SaveClose, RefuseClose, AdminClose,
       DeleteClose, Stray
  <2>. QED
    BY <2>1 DEF BooksInv, Careful, Past
<1>. QED
  BY <1>2, <1>3, <1>4 DEF Next

\* compute_networth and compute_kpis: the cash in hand and the principal that is out
\* are together what was put in by hand and the interest collected, whatever was
\* renewed, topped up, closed or written down at a loss in between.
THEOREM BooksAlwaysBalance == Spec => []BooksBalance
<1>1. CashTypes /\ CarriedInv /\ BooksInv => BooksBalance
  <2>. SUFFICES ASSUME CashTypes, CarriedInv, BooksInv, strayed \subseteq {"renewals"}
       PROVE  OnHand + OutstandingPrincipal = ByHandNet + ReceivedInterest + NeverPosted
    BY DEF BooksBalance
  <2>1. OnHand = NetOf(txn, DOMAIN txn)
    BY CarefulOnHand DEF CarriedInv, Careful
  <2>2. OutstandingPrincipal = PrincipalOf(loan, DOMAIN loan) - RepaidOf(rep, DOMAIN rep)
    BY DEF OutstandingPrincipal, LifetimeDisbursed, ReceivedPrincipal, PrincipalOf, RepaidOf
  <2>3. ByHandNet = NetOf(txn, DOMAIN txn \cap Entries)
    BY DEF ByHandNet, Net, NetOf, Posted
  <2>4. ReceivedInterest = InterestOf(rep)
    BY DEF ReceivedInterest, InterestOf
  <2>5. NeverPosted = PrincipalOf(loan, Past)
    BY DEF NeverPosted, PrincipalOf, Past, Posted
  <2>. QED
    BY <2>1, <2>2, <2>3, <2>4, <2>5 DEF BooksInv, Careful
<1>. QED
  BY <1>1, InitBooks, NextBooks, AlwaysCarried, PTL DEF Spec
=============================================================================
