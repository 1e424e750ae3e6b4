------------------------------ MODULE LoanBook ------------------------------
(***************************************************************************)
(* The loan book of one tenant: loans and repayments in the database, the  *)
(* staff requests that change them (apps/loans/actions.py, the repayment   *)
(* and loan forms of apps/loans/admin.py), the auto-close signal           *)
(* (apps/loans/signals.py) and the nightly overdue classifier              *)
(* (apps/loans/tasks.py).                                                  *)
(*                                                                         *)
(* A request runs in one of the web workers, the classifier in a Celery    *)
(* worker, and nothing locks a row.  So a request is split where the code  *)
(* decides on what it has read and where the transaction that writes       *)
(* becomes visible; `seen' is the model instance it holds in between, and  *)
(* Loan.save() writes every field of that instance back.  SameLoanOverlap  *)
(* says whether two of them may be at work on one loan: TRUE is the        *)
(* program as it is deployed, FALSE is the same program when its users, or *)
(* a row lock, keep them apart.                                            *)
(*                                                                         *)
(* The totals that the code obtains with SUM queries over the repayments   *)
(* of a loan are kept in `paid' and `settled'.                             *)
(***************************************************************************)
EXTENDS Interest, FiniteSets, FiniteSetsExt

CONSTANTS
  Loans,            \* primary keys of loan rows
  Receipts,         \* primary keys of repayment rows
  Workers,          \* requests the web workers serve at once
  None,             \* no row, no request
  Principals,       \* amounts a new loan is booked for
  EntryStatuses,    \* statuses chosen when a loan is entered
  Extras,           \* amounts keyed into the top-up form
  Payments,         \* amounts keyed into the repayment form
  RateType, RatePct,    \* the rate of every loan
  EligiblePrincipal,    \* LTV cap on the value of one pledge
  StartOffsets,     \* start_date of a booking, in days from today
  PaidOffsets,      \* the UTC date of the paid_at keyed in, in days from today
  Lags,             \* how far the UTC date may trail the local one, in days
  TickDays, LastDay,    \* the calendar moves TickDays at a time, up to LastDay
  AdminActs,        \* which of the owner's corrections are exercised
  SameLoanOverlap

Live == {"active", "overdue"}
Terminal == {"closed", "auctioned"}
Statuses == Live \cup Terminal

ASSUME AmountAssumption ==
  /\ Principals \subseteq Nat \ {0}
  /\ EntryStatuses \subseteq Statuses
  /\ Extras \subseteq Nat
  /\ Payments \subseteq [p : Nat, i : Nat, w : Nat]
  /\ RateType \in RateTypes /\ RatePct \in Nat
  /\ EligiblePrincipal \in Nat

ASSUME CalendarAssumption ==
  /\ StartOffsets \subseteq Int /\ PaidOffsets \subseteq Int /\ Lags \subseteq Nat
  /\ TickDays \in Nat \ {0} /\ LastDay \in Nat

ASSUME DeskAssumption ==
  /\ None \notin Loans \cup Receipts
  /\ SameLoanOverlap \in BOOLEAN
  /\ AdminActs \subseteq {"delete_loan", "delete_repayment", "edit_repayment",
                          "edit_loan", "inline_rows"}

VARIABLES
  loan,      \* loan rows
  rep,       \* repayment rows
  paid,      \* per loan: SUM(principal_paid)
  settled,   \* per loan: SUM(interest_paid) + SUM(interest_waived)
  today,     \* the local date
  req,       \* per worker: the request it is serving
  scan       \* the overdue classifier

vars == <<loan, rep, paid, settled, today, req, scan>>

Tolerance == 1         \* Decimal('0.01')
OverdueDays == 30      \* OVERDUE_DAYS

LoanRow == [status : Statuses \cup {"unused", "deleted"},
            principal : Int, start : Int,
            pledge : Loans \cup {None}, renewedTo : Loans \cup {None}]

Payment == [p : Nat, i : Nat, w : Nat]

RepaymentRow == [loan : Loans, pay : Payment, on : Int]

\* A loan form may bring two new repayment rows along.
Request ==
  {q \in [op : {"repay", "preclose", "renew", "topup", "form"},
          stage : {"open", "checked", "saved"},
          loan : Loans, seen : LoanRow, receipt : Receipts \cup {None},
          pay : Payment, second : Receipts \cup {None}, secondPay : Payment,
          on : Int, close : BOOLEAN, amount : Int] :
     (q.op = "repay" => q.receipt \in Receipts) /\ q.seen.status \in Statuses}

NoRow == [status |-> "unused", principal |-> 0, start |-> 0,
          pledge |-> None, renewedTo |-> None]
NoPay == [p |-> 0, i |-> 0, w |-> 0]

-----------------------------------------------------------------------------
(* Queries *)

Exists(l) == loan[l].status \in Statuses
RowHeld(r) == \E w \in Workers : req[w] # None /\ r \in {req[w].receipt, req[w].second}
Busy(l) == \E w \in Workers : req[w] # None /\ req[w].loan = l

\* A new request for l is let in: always, or only when no other holds l.
MayTouch(l) == SameLoanOverlap \/ (~Busy(l) /\ l \notin scan.todo)

\* Loan.outstanding_principal and interest_due_now, of an instance ln of row l.
Outstanding(ln, l) == ln.principal - paid[l]
Accrued(ln) ==
  InterestAccrued(MonthlyInterest(ln.principal, RateType, RatePct), ln.start, today)
InterestDue(ln, l) == NonNegative(Accrued(ln) - settled[l])

\* The amounts of row r as stored; nothing for a row yet to be inserted.
Stored(r) == IF rep[r] = None THEN NoPay ELSE rep[r].pay

\* Mutant: the row is compared with the whole debt, not with what the others leave.
CleanPassesAlone(ln, l, old, pay) ==
  /\ pay.p - ln.principal <= Tolerance
  /\ pay.i + pay.w - Accrued(ln) <= Tolerance

\* Repayment.clean: the other rows of the loan plus this one stay within what
\* is owed on instance ln, give or take a paisa.
CleanPasses(ln, l, old, pay) ==
  /\ pay.p - (ln.principal - (paid[l] - old.p)) <= Tolerance
  /\ pay.i + pay.w - (Accrued(ln) - (settled[l] - old.i - old.w)) <= Tolerance

\* Mutant: an overdue loan is not closed.
ClearsActiveLoan(ln, l, old, pay) ==
  /\ ln.status = "active"
  /\ Outstanding(ln, l) + old.p - pay.p <= 0
  /\ Accrued(ln) - (settled[l] - old.i - old.w + pay.i + pay.w) <= 0

\* Mutant: the principal alone decides.
ClearsPrincipal(ln, l, old, pay) ==
  ln.status \in Live /\ Outstanding(ln, l) + old.p - pay.p <= 0

\* Mutant: the interest alone decides.
ClearsInterest(ln, l, old, pay) ==
  /\ ln.status \in Live
  /\ Accrued(ln) - (settled[l] - old.i - old.w + pay.i + pay.w) <= 0

\* autoclose_loan's test after a row of l has changed from old to pay.
ClearsLoan(ln, l, old, pay) ==
  /\ ln.status \in Live
  /\ Outstanding(ln, l) + old.p - pay.p <= 0
  /\ Accrued(ln) - (settled[l] - old.i - old.w + pay.i + pay.w) <= 0

\* _action_blockers: no interest due, and the new principal within the LTV cap.
NotBlocked(l, principal) ==
  /\ InterestDue(loan[l], l) = 0
  /\ principal <= EligiblePrincipal

\* _last_interest_payment_date
LastInterestDate(l) ==
  LET dates == {rep[r].on : r \in {x \in Receipts :
                  rep[x] # None /\ rep[x].loan = l /\ rep[x].pay.i > 0}}
  IN  IF dates = {} THEN loan[l].start ELSE Max(dates)

DaysUnpaid(l, utcToday) == utcToday - LastInterestDate(l)

-----------------------------------------------------------------------------
(* Booking and repayments *)

\* The add form of LoanAdmin: a fresh pledge, in any status, ACTIVE by default.
BookLoan(l, p, offset, status) ==
  /\ loan[l].status = "unused"
  /\ loan' = [loan EXCEPT ![l] = [status |-> status, principal |-> p,
                 start |-> today + offset, pledge |-> l, renewedTo |-> None]]
  /\ UNCHANGED <<rep, paid, settled, today, req, scan>>

\* Totals of l after one of its rows changes from old to pay.
Retotal(l, old, pay) ==
  /\ paid' = [paid EXCEPT ![l] = @ - old.p + pay.p]
  /\ settled' = [settled EXCEPT ![l] = @ - old.i - old.w + pay.i + pay.w]

\* A request on l that reads the row; staff fill in what else it needs.
NewRequest(op, l) ==
  [op |-> op, stage |-> "checked", loan |-> l, seen |-> loan[l], receipt |-> None, pay |-> NoPay,
   second |-> None, secondPay |-> NoPay, on |-> today, close |-> FALSE, amount |-> 0]

\* A repayment form passes Repayment.clean: a new row, or an existing one of l.
CheckRepayment(w, l, r, pay, offset) ==
  /\ req[w] = None
  /\ Exists(l) /\ MayTouch(l)
  /\ \/ rep[r] = None /\ ~RowHeld(r)
     \/ "edit_repayment" \in AdminActs /\ rep[r] # None /\ rep[r].loan = l
  /\ CleanPasses(loan[l], l, Stored(r), pay)
  /\ req' = [req EXCEPT ![w] = [NewRequest("repay", l) EXCEPT
                !.receipt = r, !.pay = pay, !.on = today + offset]]
  /\ UNCHANGED <<loan, rep, paid, settled, today, scan>>

\* No open transaction has written row r, or a row that refers to loan l.
Unwritten(r) ==
  \A w \in Workers : req[w] # None /\ req[w].stage = "saved" => req[w].receipt # r
Unreferenced(l) ==
  \A w \in Workers : req[w] # None /\ req[w].stage = "saved" => req[w].loan # l

\* Repayment.save: the row is written and autoclose_loan decides, inside the
\* transaction.  READ COMMITTED: it sees its own row and the committed ones.
SaveRepayment(w) ==
  /\ req[w] # None
  /\ req[w].op = "repay" /\ req[w].stage = "checked"
  /\ Exists(req[w].loan) /\ Unwritten(req[w].receipt)
  /\ LET q == req[w]
     IN  req' = [req EXCEPT ![w].stage = "saved",
                            ![w].close = ClearsLoan(q.seen, q.loan, Stored(q.receipt), q.pay)]
  /\ UNCHANGED <<loan, rep, paid, settled, today, scan>>

\* The transaction commits: the row and, when it decided so, the closed status
\* (update_fields: the other columns of the loan are left alone).
CommitRepayment(w) ==
  /\ req[w] # None
  /\ req[w].op = "repay" /\ req[w].stage = "saved"
  /\ LET q == req[w] IN
       /\ rep' = [rep EXCEPT ![q.receipt] = [loan |-> q.loan, pay |-> q.pay, on |-> q.on]]
       /\ Retotal(q.loan, Stored(q.receipt), q.pay)
       /\ loan' = IF q.close THEN [loan EXCEPT ![q.loan].status = "closed"] ELSE loan
  /\ req' = [req EXCEPT ![w] = None]
  /\ UNCHANGED <<today, scan>>

-----------------------------------------------------------------------------
(* Pre-close, renew, top-up: loan_action reads the loan and refuses a closed *)
(* one; the POST handler writes it back in a transaction.                    *)

\* Mutant: the status of the loan is not looked at.
AskAnyStatus(w, op, l, amount) ==
  /\ req[w] = None
  /\ Exists(l) /\ MayTouch(l)
  /\ req' = [req EXCEPT ![w] = [NewRequest(op, l) EXCEPT !.amount = amount]]
  /\ UNCHANGED <<loan, rep, paid, settled, today, scan>>

Ask(w, op, l, amount) ==
  /\ req[w] = None
  /\ loan[l].status \in Live /\ MayTouch(l)
  /\ req' = [req EXCEPT ![w] = [NewRequest(op, l) EXCEPT !.amount = amount]]
  /\ UNCHANGED <<loan, rep, paid, settled, today, scan>>

AskPreclose(w, l) == Ask(w, "preclose", l, 0)

AskRenew(w, l) ==
  /\ NotBlocked(l, Outstanding(loan[l], l))
  /\ Ask(w, "renew", l, 0)

AskTopup(w, l, extra) ==
  /\ extra > 0
  /\ NotBlocked(l, Outstanding(loan[l], l) + extra)
  /\ Ask(w, "topup", l, Outstanding(loan[l], l) + extra)

\* Mutant: renewed_to without its foreign key constraint.
ReferenceUnchecked(ln) == TRUE

\* The foreign key of the instance still refers to a row.
ReferenceHolds(ln) == ln.renewedTo # None => Exists(ln.renewedTo)

\* loan.save() writes every column of the instance that was read (and inserts
\* the row again when it has been deleted meanwhile).
Preclose(w) ==
  /\ req[w] # None
  /\ req[w].op = "preclose"
  /\ ReferenceHolds(req[w].seen)
  /\ loan' = [loan EXCEPT ![req[w].loan] = [req[w].seen EXCEPT !.status = "closed"]]
  /\ req' = [req EXCEPT ![w] = None]
  /\ UNCHANGED <<rep, paid, settled, today, scan>>

\* Mutant: the old loan is closed without the link.
CarryForwardUnlinked(w, n, lag) ==
  /\ req[w] # None
  /\ req[w].op \in {"renew", "topup"}
  /\ loan[n].status = "unused"
  /\ LET q == req[w]
         carried == IF q.op = "renew" THEN Outstanding(q.seen, q.loan) ELSE q.amount
     IN  loan' = [loan EXCEPT
           ![n] = [status |-> "active", principal |-> carried, start |-> today - lag,
                   pledge |-> q.seen.pledge, renewedTo |-> None],
           ![q.loan] = [q.seen EXCEPT !.status = "closed"]]
  /\ req' = [req EXCEPT ![w] = None]
  /\ UNCHANGED <<rep, paid, settled, today, scan>>

\* Renewal or top-up into the new row n: the gold items are copied, the old
\* loan is closed and linked.  Renewal sums the repayments again at this point;
\* top-up uses the figure it validated.
CarryForward(w, n, lag) ==
  /\ req[w] # None
  /\ req[w].op \in {"renew", "topup"}
  /\ loan[n].status = "unused"
  /\ LET q == req[w]
         carried == IF q.op = "renew" THEN Outstanding(q.seen, q.loan) ELSE q.amount
     IN  loan' = [loan EXCEPT
           ![n] = [status |-> "active", principal |-> carried, start |-> today - lag,
                   pledge |-> q.seen.pledge, renewedTo |-> None],
           ![q.loan] = [q.seen EXCEPT !.status = "closed", !.renewedTo = n]]
  /\ req' = [req EXCEPT ![w] = None]
  /\ UNCHANGED <<rep, paid, settled, today, scan>>

\* A request ends without an effect: its transaction is rolled back, or its
\* worker dies before the commit.
Abandon(w) ==
  /\ req[w] # None
  /\ req' = [req EXCEPT ![w] = None]
  /\ UNCHANGED <<loan, rep, paid, settled, today, scan>>

-----------------------------------------------------------------------------
(* Corrections in the admin: each is one transaction. *)

\* Deleting a loan takes its repayments along; renewed_to is SET_NULL.
DeleteLoan(l) ==
  /\ "delete_loan" \in AdminActs
  /\ Exists(l) /\ MayTouch(l) /\ Unreferenced(l)
  /\ loan' = [m \in Loans |->
       IF m = l THEN [loan[l] EXCEPT !.status = "deleted", !.renewedTo = None]
       ELSE IF loan[m].renewedTo = l THEN [loan[m] EXCEPT !.renewedTo = None]
       ELSE loan[m]]
  /\ rep' = [r \in Receipts |-> IF rep[r] # None /\ rep[r].loan = l THEN None ELSE rep[r]]
  /\ paid' = [paid EXCEPT ![l] = 0]
  /\ settled' = [settled EXCEPT ![l] = 0]
  /\ UNCHANGED <<today, req, scan>>

\* Deleting a repayment runs no signal: the loan is not reopened.
DeleteRepayment(r) ==
  /\ "delete_repayment" \in AdminActs
  /\ rep[r] # None /\ MayTouch(rep[r].loan) /\ Unwritten(r)
  /\ Retotal(rep[r].loan, rep[r].pay, NoPay)
  /\ rep' = [rep EXCEPT ![r] = None]
  /\ UNCHANGED <<loan, today, req, scan>>

-----------------------------------------------------------------------------
(* The loan form.  It shows status, principal and start date as they are and *)
(* sends all three back; the other columns are read again when it is posted. *)

OpenLoanForm(w, l) ==
  /\ AdminActs \cap {"edit_loan", "inline_rows"} # {}
  /\ req[w] = None
  /\ Exists(l) /\ MayTouch(l)
  /\ req' = [req EXCEPT ![w] = [NewRequest("form", l) EXCEPT !.stage = "open"]]
  /\ UNCHANGED <<loan, rep, paid, settled, today, scan>>

\* What may be sent back for a form that showed ln.
FilledIn(ln) ==
  {ln} \cup {x \in [status : Statuses, principal : Principals \cup {ln.principal},
                    start : {ln.start} \cup {today + offset : offset \in StartOffsets}] :
               "edit_loan" \in AdminActs}

\* A line of the inline table of repayments: left blank, or a new row.
Lines == {[receipt |-> None, pay |-> NoPay]} \cup [receipt : Receipts, pay : Payments]

\* Repayment.clean on a line, whose loan is the instance ln of the form.
LinePasses(line, ln, l) ==
  line.receipt # None =>
    /\ "inline_rows" \in AdminActs
    /\ rep[line.receipt] = None /\ ~RowHeld(line.receipt)
    /\ CleanPasses(ln, l, NoPay, line.pay)

\* The form is posted: every line is validated before anything is saved.
PostLoanForm(w, fields, one, two, lag) ==
  /\ req[w] # None
  /\ req[w].op = "form" /\ req[w].stage = "open"
  /\ Exists(req[w].loan) /\ fields \in FilledIn(req[w].seen)
  /\ LET l == req[w].loan
         ln == [loan[l] EXCEPT !.status = fields.status, !.principal = fields.principal,
                               !.start = fields.start]
     IN  /\ LinePasses(one, ln, l) /\ LinePasses(two, ln, l)
         /\ two.receipt # None => one.receipt \notin {None, two.receipt}
         /\ req' = [req EXCEPT ![w].stage = "checked", ![w].seen = ln, ![w].on = today - lag,
                               ![w].receipt = one.receipt, ![w].pay = one.pay,
                               ![w].second = two.receipt, ![w].secondPay = two.pay]
  /\ UNCHANGED <<loan, rep, paid, settled, today, scan>>

Both(a, b) == [p |-> a.p + b.p, i |-> a.i + b.i, w |-> a.w + b.w]

\* save_model writes the whole instance, then the lines are saved.  autoclose_loan
\* runs after each; as no amount is negative, what it decides on the last counts.
SaveLoanForm(w) ==
  /\ req[w] # None
  /\ req[w].op = "form" /\ req[w].stage = "checked"
  /\ ReferenceHolds(req[w].seen)
  /\ LET q == req[w]
         lines == {q.receipt, q.second} \ {None}
         sum == Both(q.pay, q.secondPay)
         close == lines # {} /\ ClearsLoan(q.seen, q.loan, NoPay, sum)
     IN  /\ loan' = [loan EXCEPT ![q.loan] = IF close THEN [q.seen EXCEPT !.status = "closed"] ELSE q.seen]
         /\ rep' = [r \in Receipts |->
              IF r \notin lines THEN rep[r]
              ELSE [loan |-> q.loan, pay |-> IF r = q.receipt THEN q.pay ELSE q.secondPay, on |-> q.on]]
         /\ Retotal(q.loan, NoPay, sum)
  /\ req' = [req EXCEPT ![w] = None]
  /\ UNCHANGED <<today, scan>>

-----------------------------------------------------------------------------
(* classify_one_tenant: the loans are listed once, then visited one by one; *)
(* a visit reads the last payment afresh and writes the status column.      *)

\* Mutant: the status filter is lost.
ListedAll(status) == {l \in Loans : Exists(l)}

Listed(status) == {l \in Loans : loan[l].status = status}
MayList(S) == SameLoanOverlap \/ \A l \in S : ~Busy(l)

ListActive(lag) ==
  /\ scan.phase = "idle"
  /\ MayList(Listed("active"))
  /\ scan' = [phase |-> "mark", todo |-> Listed("active"), utcToday |-> today - lag]
  /\ UNCHANGED <<loan, rep, paid, settled, today, req>>

ListOverdue ==
  /\ scan.phase = "mark" /\ scan.todo = {}
  /\ MayList(Listed("overdue"))
  /\ scan' = [scan EXCEPT !.phase = "clear", !.todo = Listed("overdue")]
  /\ UNCHANGED <<loan, rep, paid, settled, today, req>>

\* Visit l: write status `to' when the condition holds.  A row that is gone
\* makes save(update_fields=...) raise, which ends the task.
Visit(l, condition, to) ==
  /\ l \in scan.todo
  /\ LET write == condition /\ Exists(l)
         broken == condition /\ ~Exists(l)
     IN  /\ loan' = IF write THEN [loan EXCEPT ![l].status = to] ELSE loan
         /\ scan' = IF broken THEN [scan EXCEPT !.phase = "idle", !.todo = {}]
                    ELSE [scan EXCEPT !.todo = @ \ {l}]
  /\ UNCHANGED <<rep, paid, settled, today, req>>

\* Mutant: a status that is not among the choices, which save() does not check.
MarkNpa(l) ==
  scan.phase = "mark" /\ Visit(l, DaysUnpaid(l, scan.utcToday) > OverdueDays, "npa")

\* Mutant: a cycle is added to the threshold.
MarkOverdueLate(l) ==
  scan.phase = "mark" /\ Visit(l, DaysUnpaid(l, scan.utcToday) > 2 * OverdueDays, "overdue")

MarkOverdue(l) ==
  scan.phase = "mark" /\ Visit(l, DaysUnpaid(l, scan.utcToday) > OverdueDays, "overdue")
\* Mutant: the second pass asks for a payment that is not there yet.
ClearOverdueNever(l) ==
  scan.phase = "clear" /\ Visit(l, DaysUnpaid(l, scan.utcToday) < 0, "active")

ClearOverdue(l) ==
  scan.phase = "clear" /\ Visit(l, DaysUnpaid(l, scan.utcToday) <= OverdueDays, "active")

EndScan ==
  /\ scan.phase = "clear" /\ scan.todo = {}
  /\ scan' = [scan EXCEPT !.phase = "idle"]
  /\ UNCHANGED <<loan, rep, paid, settled, today, req>>

-----------------------------------------------------------------------------
\* Requests and scans are short: no night falls while one is at work; a form may
\* be left open.
Tick ==
  /\ today + TickDays <= LastDay
  /\ \A w \in Workers : req[w] # None => req[w].stage = "open"
  /\ scan.phase = "idle"
  /\ today' = today + TickDays
  /\ UNCHANGED <<loan, rep, paid, settled, req, scan>>

Init ==
  /\ loan = [l \in Loans |-> NoRow]
  /\ rep = [r \in Receipts |-> None]
  /\ paid = [l \in Loans |-> 0]
  /\ settled = [l \in Loans |-> 0]
  /\ today = 0
  /\ req = [w \in Workers |-> None]
  /\ scan = [phase |-> "idle", todo |-> {}, utcToday |-> 0]

RepaymentStep(w) ==
  \/ \E l \in Loans, r \in Receipts, pay \in Payments, offset \in PaidOffsets :
       CheckRepayment(w, l, r, pay, offset)
  \/ SaveRepayment(w)
  \/ CommitRepayment(w)

ActionStep(w) ==
  \/ \E l \in Loans :
       AskPreclose(w, l) \/ AskRenew(w, l) \/ \E x \in Extras : AskTopup(w, l, x)
  \/ Preclose(w)
  \/ \E n \in Loans, lag \in Lags : CarryForward(w, n, lag)
  \/ Abandon(w)

FormStep(w) ==
  \/ \E l \in Loans : OpenLoanForm(w, l)
  \/ /\ req[w] # None
     /\ \E fields \in FilledIn(req[w].seen), one, two \in Lines, lag \in Lags :
          PostLoanForm(w, fields, one, two, lag)
  \/ SaveLoanForm(w)

AdminStep ==
  \/ \E l \in Loans, p \in Principals, offset \in StartOffsets, status \in EntryStatuses :
       BookLoan(l, p, offset, status)
  \/ \E l \in Loans : DeleteLoan(l)
  \/ \E r \in Receipts : DeleteRepayment(r)

ClassifierStep ==
  \/ \E lag \in Lags : ListActive(lag)
  \/ ListOverdue
  \/ \E l \in Loans : MarkOverdue(l) \/ ClearOverdue(l)
  \/ EndScan

Next ==
  \/ \E w \in Workers : RepaymentStep(w) \/ ActionStep(w) \/ FormStep(w)
  \/ AdminStep
  \/ ClassifierStep
  \/ Tick

Spec == Init /\ [][Next]_vars

\* Celery beat starts the classifier every night and the worker carries on.
FairSpec == Spec /\ WF_vars(ClassifierStep)
-----------------------------------------------------------------------------
(* Properties *)

\* Rows, totals, requests and the classifier stay within their types.
TypeOK ==
  /\ loan \in [Loans -> LoanRow]
  /\ rep \in [Receipts -> RepaymentRow \cup {None}]
  /\ paid \in [Loans -> Int]
  /\ settled \in [Loans -> Int]
  /\ today \in Nat
  /\ req \in [Workers -> Request \cup {None}]
  /\ scan \in [phase : {"idle", "mark", "clear"}, todo : SUBSET Loans, utcToday : Int]

\* Repayment.clean's promise: whatever was added, edited and deleted, and on
\* whatever day, no loan has received more principal than was lent on it, nor
\* more interest (paid or waived) than has accrued, beyond the paisa allowed.
NoOverSettlement ==
  \A l \in Loans : Exists(l) =>
    /\ paid[l] <= loan[l].principal + Tolerance
    /\ settled[l] <= Accrued(loan[l]) + Tolerance

\* autoclose_loan's promise: a loan with nothing left to pay is not running.
SettledLoansAreClosed ==
  \A l \in Loans :
    loan[l].status \in Live => Outstanding(loan[l], l) > 0 \/ InterestDue(loan[l], l) > 0

\* One pledge of gold secures at most one running loan: renewal and top-up
\* copy the items to the new loan and close the old one.
OneLoanPerPledge ==
  \A l, m \in Loans :
    loan[l].status \in Live /\ loan[m].status \in Live /\ loan[l].pledge = loan[m].pledge
      => l = m

\* renewed_to always names an existing other loan on the same pledge, through
\* stale saves, deletions (SET_NULL) and re-inserted rows.
RenewalLinksIntact ==
  \A l \in Loans : Exists(l) /\ loan[l].renewedTo # None =>
    LET n == loan[l].renewedTo
    IN  n # l /\ Exists(n) /\ loan[n].pledge = loan[l].pledge

\* "If this loan was renewed/topped-up, points to the new loan": a running loan
\* on a pledge that another loan was booked on is the one a link leads to.
RenewalIsLinked ==
  \A n \in Loans :
    loan[n].status \in Live /\ loan[n].pledge # n /\ Exists(loan[n].pledge)
      => \E l \in Loans : loan[l].renewedTo = n

\* No step, of staff or of the classifier, brings a closed or auctioned loan
\* back to the running ones (the loan form's status field apart).
ClosedStaysClosed ==
  [][\A l \in Loans : loan[l].status \in Terminal => loan'[l].status \notin Live]_vars

\* When the step that records repayments closes a loan that was running and not
\* closed by hand on the form, the committed books show it fully settled, though
\* the decision was taken earlier or on an instance that may be stale.
AutoCloseJustified ==
  [][\A w \in Workers, l \in Loans :
       (/\ req[w] # None /\ req[w].loan = l /\ req[w].seen.status \in Live
        /\ req'[w] = None /\ rep' # rep
        /\ loan[l].status \in Live /\ loan'[l].status = "closed") =>
         Outstanding(loan[l], l)' <= 0 /\ InterestDue(loan[l], l)' = 0]_vars

\* The loan that runs on pledge g.
Holder(g) ==
  LET running == {l \in Loans : loan[l].status \in Live /\ loan[l].pledge = g}
  IN  IF running = {} THEN None ELSE CHOOSE l \in running : TRUE

Lifecycle == INSTANCE LoanLifecycle WITH
  booked <- {l \in Loans : loan[l].status # "unused"},
  holder <- [g \in Loans |-> Holder(g)],
  lent <- [l \in Loans |-> loan[l].principal],
  received <- paid,
  Cap <- EligiblePrincipal,
  Slack <- Tolerance

\* Kept apart, the requests that read, decide and commit in separate steps act
\* on a pledge as the one-step operations of LoanLifecycle do: no repayment,
\* renewal or closure takes effect on figures that are no longer true.
FollowsLifecycle == Lifecycle!Spec

Delinquent(l) ==
  loan[l].status = "active" /\ \A lag \in Lags : DaysUnpaid(l, today - lag) > OverdueDays
Cured(l) ==
  loan[l].status = "overdue" /\ \A lag \in Lags : DaysUnpaid(l, today - lag) <= OverdueDays

\* Every loan whose interest is unpaid for more than 30 days is flagged, or is
\* paid or closed before the classifier comes by, whatever requests interleave.
DelinquentIsFlagged == \A l \in Loans : Delinquent(l) ~> ~Delinquent(l)

\* And an overdue loan on which interest was paid comes back to active.
CuredIsCleared == \A l \in Loans : Cured(l) ~> ~Cured(l)
=============================================================================
