--------------------------- MODULE LoanBookProofs ---------------------------
(***************************************************************************)
(* Theorems about LoanBook, for any set of loans, repayments and workers,  *)
(* any amounts and any calendar: types and links first, then what holds    *)
(* although requests overlap, then what needs the requests on one loan     *)
(* kept apart, down to the refinement of LoanLifecycle.                    *)
(***************************************************************************)
EXTENDS LoanBook, Arithmetic

-----------------------------------------------------------------------------
(* Type correctness *)

LEMMA InitType == Init => TypeOK
BY AmountAssumption, CalendarAssumption
   DEF Init, TypeOK, NoRow, LoanRow, Statuses, Live, Terminal

LEMMA BookLoanType ==
  ASSUME TypeOK, NEW l \in Loans, NEW p \in Principals, NEW offset \in StartOffsets,
         NEW status \in EntryStatuses, BookLoan(l, p, offset, status)
  PROVE  TypeOK'
<1>1. [status |-> status, principal |-> p, start |-> today + offset, pledge |-> l,
       renewedTo |-> None] \in LoanRow
  BY AmountAssumption, CalendarAssumption DEF TypeOK, LoanRow
<1>. QED
  BY <1>1 DEF TypeOK, BookLoan

LEMMA RetotalType ==
  ASSUME TypeOK, NEW l \in Loans, NEW old \in Payment, NEW pay \in Payment,
         Retotal(l, old, pay)
  PROVE  /\ paid' \in [Loans -> Int]
         /\ settled' \in [Loans -> Int]
BY DEF TypeOK, Retotal, Payment

LEMMA StoredType ==
  ASSUME TypeOK, NEW r \in Receipts
  PROVE  Stored(r) \in Payment
BY DEF TypeOK, Stored, NoPay, Payment, RepaymentRow

LEMMA NewRequestType ==
  ASSUME TypeOK, NEW l \in Loans, Exists(l), NEW op \in {"repay", "preclose", "renew", "topup", "form"}
  PROVE  /\ op # "repay" => NewRequest(op, l) \in Request
         /\ \A r \in Receipts, pay \in Payment, on \in Int :
              [NewRequest(op, l) EXCEPT !.receipt = r, !.pay = pay, !.on = on] \in Request
         /\ \A amount \in Int :
              op # "repay" => [NewRequest(op, l) EXCEPT !.amount = amount] \in Request
         /\ op = "form" => [NewRequest(op, l) EXCEPT !.stage = "open"] \in Request
<1>1. loan[l] \in LoanRow /\ loan[l].status \in Statuses /\ today \in Int /\ NoPay \in Payment
  BY DEF TypeOK, NoPay, Payment, Exists
<1>. DEFINE new == NewRequest(op, l)
<1>2. new \in
        [op : {op}, stage : {"checked"}, loan : Loans, seen : {ln \in LoanRow : ln.status \in Statuses},
         receipt : {None}, pay : Payment, second : {None}, secondPay : Payment, on : Int,
         close : BOOLEAN, amount : Int]
  BY <1>1 DEF NewRequest
<1>. HIDE DEF new
<1>3. op # "repay" => new \in Request
  BY <1>2 DEF Request
<1>4. ASSUME NEW r \in Receipts, NEW pay \in Payment, NEW on \in Int
      PROVE  [new EXCEPT !.receipt = r, !.pay = pay, !.on = on] \in Request
  BY <1>2 DEF Request
<1>5. ASSUME NEW amount \in Int, op # "repay"
      PROVE  [new EXCEPT !.amount = amount] \in Request
  BY <1>2, <1>5 DEF Request
<1>6. op = "form" => [new EXCEPT !.stage = "open"] \in Request
  BY <1>2 DEF Request
<1>. QED
  BY <1>3, <1>4, <1>5, <1>6 DEF new

LEMMA CheckRepaymentType ==
  ASSUME TypeOK, NEW w \in Workers, NEW l \in Loans, NEW r \in Receipts,
         NEW pay \in Payments, NEW offset \in PaidOffsets,
         CheckRepayment(w, l, r, pay, offset)
  PROVE  TypeOK'
<1>1. today + offset \in Int
  BY CalendarAssumption DEF TypeOK
<1>2. pay \in Payment
  BY AmountAssumption DEF Payment
<1>3. [NewRequest("repay", l) EXCEPT !.receipt = r, !.pay = pay, !.on = today + offset]
        \in Request
  BY <1>1, <1>2, NewRequestType DEF CheckRepayment
<1>. QED
  BY <1>3 DEF TypeOK, CheckRepayment

LEMMA SaveRepaymentType ==
  ASSUME TypeOK, NEW w \in Workers, SaveRepayment(w)
  PROVE  TypeOK'
<1>1. req[w] \in Request
  BY DEF TypeOK, SaveRepayment
<1>. DEFINE q == req[w]
            close == ClearsLoan(q.seen, q.loan, Stored(q.receipt), q.pay)
<1>2. req' = [req EXCEPT ![w].stage = "saved", ![w].close = close]
  BY DEF SaveRepayment
<1>5. close \in BOOLEAN
  BY DEF ClearsLoan
<1>. HIDE DEF close
<1>3. [req[w] EXCEPT !.stage = "saved", !.close = close] \in Request
  BY <1>1, <1>5 DEF Request
<1>4. req' = [req EXCEPT ![w] = [req[w] EXCEPT !.stage = "saved", !.close = close]]
  BY <1>2 DEF TypeOK
<1>. QED
  BY <1>3, <1>4 DEF TypeOK, SaveRepayment

LEMMA StatusType ==
  ASSUME TypeOK, NEW l \in Loans, NEW status \in Statuses
  PROVE  [loan EXCEPT ![l].status = status] \in [Loans -> LoanRow]
BY DEF TypeOK, LoanRow

LEMMA CommitRepaymentType ==
  ASSUME TypeOK, NEW w \in Workers, CommitRepayment(w)
  PROVE  TypeOK'
<1>1. req[w] \in Request /\ req[w].receipt \in Receipts
  BY DEF TypeOK, CommitRepayment, Request
<1>2. /\ req[w].loan \in Loans /\ req[w].pay \in Payment
      /\ [loan |-> req[w].loan, pay |-> req[w].pay, on |-> req[w].on] \in RepaymentRow
  BY <1>1 DEF Request, RepaymentRow, Payment
<1>3. rep' \in [Receipts -> RepaymentRow \cup {None}]
  BY <1>2 DEF TypeOK, CommitRepayment
<1>4. loan' \in [Loans -> LoanRow]
  BY <1>2, StatusType DEF CommitRepayment, Statuses, Terminal, TypeOK
<1>5. paid' \in [Loans -> Int] /\ settled' \in [Loans -> Int]
  <2>1. Stored(req[w].receipt) \in Payment
    BY <1>1, StoredType
  <2>2. Retotal(req[w].loan, Stored(req[w].receipt), req[w].pay)
    BY DEF CommitRepayment
  <2>. QED
    BY <1>2, <2>1, <2>2, RetotalType
<1>. QED
  BY <1>3, <1>4, <1>5 DEF TypeOK, CommitRepayment

LEMMA OutstandingType ==
  ASSUME TypeOK, NEW l \in Loans, NEW ln \in LoanRow
  PROVE  Outstanding(ln, l) \in Int
BY DEF TypeOK, Outstanding, LoanRow

LEMMA AskType ==
  ASSUME TypeOK, NEW w \in Workers, NEW l \in Loans, NEW amount \in Int,
         NEW op \in {"preclose", "renew", "topup"}, Ask(w, op, l, amount)
  PROVE  TypeOK'
<1>1. [NewRequest(op, l) EXCEPT !.amount = amount] \in Request
  BY NewRequestType DEF Ask, Exists, Statuses
<1>. QED
  BY <1>1 DEF TypeOK, Ask

LEMMA PrecloseType ==
  ASSUME TypeOK, NEW w \in Workers, Preclose(w)
  PROVE  TypeOK'
<1>1. req[w] \in Request
  BY DEF TypeOK, Preclose
<1>2. [req[w].seen EXCEPT !.status = "closed"] \in LoanRow
  BY <1>1 DEF Request, LoanRow, Statuses, Terminal
<1>. QED
  BY <1>2 DEF TypeOK, Preclose

LEMMA CarryForwardType ==
  ASSUME TypeOK, NEW w \in Workers, NEW n \in Loans, NEW lag \in Lags,
         CarryForward(w, n, lag)
  PROVE  TypeOK'
<1>. DEFINE q == req[w]
            carried == IF q.op = "renew" THEN Outstanding(q.seen, q.loan) ELSE q.amount
            new == [status |-> "active", principal |-> carried, start |-> today - lag,
                    pledge |-> q.seen.pledge, renewedTo |-> None]
            old == [q.seen EXCEPT !.status = "closed", !.renewedTo = n]
<1>1. q \in Request
  BY DEF TypeOK, CarryForward
<1>2. q.loan \in Loans /\ q.seen \in LoanRow /\ q.amount \in Int
  BY <1>1 DEF Request
<1>3. carried \in Int
  BY <1>2, OutstandingType
<1>4. new \in LoanRow
  BY <1>2, <1>3, CalendarAssumption DEF TypeOK, LoanRow, Statuses, Live
<1>5. old \in LoanRow
  BY <1>2 DEF LoanRow, Statuses, Terminal
<1>6. loan' = [loan EXCEPT ![n] = new, ![q.loan] = old]
  BY DEF CarryForward
<1>. HIDE DEF new, old
<1>. QED
  BY <1>2, <1>4, <1>5, <1>6 DEF TypeOK, CarryForward

LEMMA DeleteLoanType ==
  ASSUME TypeOK, NEW l \in Loans, DeleteLoan(l)
  PROVE  TypeOK'
<1>1. loan' \in [Loans -> LoanRow]
  <2>1. [loan[l] EXCEPT !.status = "deleted", !.renewedTo = None] \in LoanRow
    <3>1. loan[l] \in LoanRow
      BY DEF TypeOK
    <3>. QED
      BY <3>1 DEF LoanRow
  <2>2. \A m \in Loans : [loan[m] EXCEPT !.renewedTo = None] \in LoanRow
    BY DEF TypeOK, LoanRow
  <2>. QED
    BY <2>1, <2>2 DEF DeleteLoan, TypeOK
<1>2. rep' \in [Receipts -> RepaymentRow \cup {None}]
  BY DEF DeleteLoan, TypeOK
<1>. QED
  BY <1>1, <1>2 DEF TypeOK, DeleteLoan

LEMMA DeleteRepaymentType ==
  ASSUME TypeOK, NEW r \in Receipts, DeleteRepayment(r)
  PROVE  TypeOK'
<1>1. rep[r] \in RepaymentRow
  BY DEF TypeOK, DeleteRepayment
<1>2. rep[r].loan \in Loans /\ rep[r].pay \in Payment
  BY <1>1 DEF RepaymentRow
<1>3. NoPay \in Payment
  BY DEF NoPay, Payment
<1>4. Retotal(rep[r].loan, rep[r].pay, NoPay)
  BY DEF DeleteRepayment
<1>5. paid' \in [Loans -> Int] /\ settled' \in [Loans -> Int]
  BY <1>2, <1>3, <1>4, RetotalType
<1>. QED
  BY <1>5 DEF TypeOK, DeleteRepayment

LEMMA OpenLoanFormType ==
  ASSUME TypeOK, NEW w \in Workers, NEW l \in Loans, OpenLoanForm(w, l)
  PROVE  TypeOK'
<1>1. [NewRequest("form", l) EXCEPT !.stage = "open"] \in Request
  BY NewRequestType DEF OpenLoanForm
<1>. QED
  BY <1>1 DEF TypeOK, OpenLoanForm

\* The instance of a posted form: the row as it is, with the three fields sent.
Filled(ln, fields) ==
  [ln EXCEPT !.status = fields.status, !.principal = fields.principal, !.start = fields.start]

\* The request that a form becomes when it is posted.
PostedRequest(q, ln, one, two, on) ==
  [q EXCEPT !.stage = "checked", !.seen = ln, !.on = on, !.receipt = one.receipt,
            !.pay = one.pay, !.second = two.receipt, !.secondPay = two.pay]

LEMMA FieldsType ==
  ASSUME TypeOK, NEW ln \in LoanRow, ln.status \in Statuses, NEW fields \in FilledIn(ln)
  PROVE  fields.status \in Statuses /\ fields.principal \in Int /\ fields.start \in Int
<1>1. ln.principal \in Int /\ ln.start \in Int
  BY DEF LoanRow
<1>2. Principals \cup {ln.principal} \subseteq Int
  <2>1. Principals \subseteq Int
    BY AmountAssumption
  <2>. QED
    BY <1>1, <2>1
<1>3. {ln.start} \cup {today + offset : offset \in StartOffsets} \subseteq Int
  <2>1. \A offset \in StartOffsets : today + offset \in Int
    BY CalendarAssumption DEF TypeOK
  <2>2. {today + offset : offset \in StartOffsets} \subseteq Int
    BY <2>1
  <2>. QED
    BY <1>1, <2>2
<1>4. fields = ln \/ fields \in [status : Statuses, principal : Principals \cup {ln.principal},
              start : {ln.start} \cup {today + offset : offset \in StartOffsets}]
  BY DEF FilledIn
<1>. QED
  BY <1>1, <1>2, <1>3, <1>4

LEMMA FilledType ==
  ASSUME TypeOK, NEW w \in Workers, req[w] # None, NEW fields \in FilledIn(req[w].seen)
  PROVE  /\ Filled(loan[req[w].loan], fields) \in LoanRow
         /\ Filled(loan[req[w].loan], fields).status \in Statuses
         /\ Filled(loan[req[w].loan], fields).pledge = loan[req[w].loan].pledge
         /\ Filled(loan[req[w].loan], fields).renewedTo = loan[req[w].loan].renewedTo
<1>1. req[w] \in Request
  BY DEF TypeOK
<1>2. req[w].seen \in LoanRow /\ req[w].seen.status \in Statuses /\ loan[req[w].loan] \in LoanRow
  BY <1>1 DEF TypeOK, Request
<1>3. fields.status \in Statuses /\ fields.principal \in Int /\ fields.start \in Int
  BY <1>2, FieldsType
<1>. QED
  BY <1>2, <1>3 DEF Filled, LoanRow

LEMMA LinesType ==
  ASSUME NEW line \in Lines
  PROVE  line.receipt \in Receipts \cup {None} /\ line.pay \in Payment
BY AmountAssumption DEF Lines, NoPay, Payment

\* What posting a form does, spelled out once.
LEMMA PostedFacts ==
  ASSUME TypeOK, NEW w \in Workers, NEW fields \in FilledIn(req[w].seen),
         NEW one \in Lines, NEW two \in Lines, NEW lag \in Lags,
         PostLoanForm(w, fields, one, two, lag)
  PROVE  /\ req[w] \in Request /\ req[w].op = "form" /\ Exists(req[w].loan)
         /\ Filled(loan[req[w].loan], fields) \in LoanRow
         /\ Filled(loan[req[w].loan], fields).pledge = loan[req[w].loan].pledge
         /\ Filled(loan[req[w].loan], fields).renewedTo = loan[req[w].loan].renewedTo
         /\ PostedRequest(req[w], Filled(loan[req[w].loan], fields), one, two, today - lag)
              \in Request
         /\ req' = [req EXCEPT ![w] =
              PostedRequest(req[w], Filled(loan[req[w].loan], fields), one, two, today - lag)]
         /\ UNCHANGED <<loan, rep, paid, settled, today, scan>>
<1>1. req[w] \in Request /\ req[w] # None /\ req[w].op = "form" /\ Exists(req[w].loan)
  BY DEF TypeOK, PostLoanForm
<1>2. /\ Filled(loan[req[w].loan], fields) \in LoanRow
      /\ Filled(loan[req[w].loan], fields).status \in Statuses
      /\ Filled(loan[req[w].loan], fields).pledge = loan[req[w].loan].pledge
      /\ Filled(loan[req[w].loan], fields).renewedTo = loan[req[w].loan].renewedTo
  BY <1>1, FilledType
<1>3. today - lag \in Int
  BY CalendarAssumption DEF TypeOK
<1>4. PostedRequest(req[w], Filled(loan[req[w].loan], fields), one, two, today - lag)
        \in Request
  BY <1>1, <1>2, <1>3, LinesType DEF PostedRequest, Request
<1>5. req' = [req EXCEPT ![w] =
        PostedRequest(req[w], Filled(loan[req[w].loan], fields), one, two, today - lag)]
  BY DEF TypeOK, PostLoanForm, PostedRequest, Filled
<1>. QED
  BY <1>1, <1>2, <1>4, <1>5 DEF PostLoanForm

LEMMA PostLoanFormType ==
  ASSUME TypeOK, NEW w \in Workers, NEW fields \in FilledIn(req[w].seen),
         NEW one \in Lines, NEW two \in Lines, NEW lag \in Lags,
         PostLoanForm(w, fields, one, two, lag)
  PROVE  TypeOK'
BY PostedFacts DEF TypeOK

\* The instance that saving a form writes.
SavedInstance(q) ==
  IF {q.receipt, q.second} \ {None} # {}
     /\ ClearsLoan(q.seen, q.loan, NoPay, Both(q.pay, q.secondPay))
  THEN [q.seen EXCEPT !.status = "closed"] ELSE q.seen

LEMMA SaveLoanFormType ==
  ASSUME TypeOK, NEW w \in Workers, SaveLoanForm(w)
  PROVE  /\ TypeOK'
         /\ req[w] \in Request /\ req[w].loan \in Loans
         /\ SavedInstance(req[w]) \in LoanRow /\ SavedInstance(req[w]).status \in Statuses
         /\ loan' = [loan EXCEPT ![req[w].loan] = SavedInstance(req[w])]
         /\ Both(req[w].pay, req[w].secondPay) \in Payment
<1>. DEFINE q == req[w]
<1>1. q \in Request
  BY DEF TypeOK, SaveLoanForm
<1>2. q.loan \in Loans /\ q.seen \in LoanRow /\ q.pay \in Payment /\ q.secondPay \in Payment
      /\ q.on \in Int /\ q.seen.status \in Statuses
  BY <1>1 DEF Request
<1>3. SavedInstance(q) \in LoanRow /\ SavedInstance(q).status \in Statuses
  <2>1. /\ [q.seen EXCEPT !.status = "closed"] \in LoanRow
        /\ [q.seen EXCEPT !.status = "closed"].status \in Statuses
    BY <1>2 DEF LoanRow, Statuses, Terminal
  <2>. QED
    BY <1>2, <2>1 DEF SavedInstance
<1>4. loan' = [loan EXCEPT ![q.loan] = SavedInstance(q)]
  BY DEF SaveLoanForm, SavedInstance
<1>5. Both(q.pay, q.secondPay) \in Payment
  BY <1>2 DEF Both, Payment
<1>6. paid' \in [Loans -> Int] /\ settled' \in [Loans -> Int]
  <2>1. Retotal(q.loan, NoPay, Both(q.pay, q.secondPay)) /\ NoPay \in Payment
    BY DEF SaveLoanForm, NoPay, Payment
  <2>. QED
    BY <1>2, <1>5, <2>1, RetotalType
<1>7. rep' \in [Receipts -> RepaymentRow \cup {None}]
  <2>1. \A pay \in Payment : [loan |-> q.loan, pay |-> pay, on |-> q.on] \in RepaymentRow
    BY <1>2 DEF RepaymentRow, Payment
  <2>2. \A r \in Receipts : (IF r = q.receipt THEN q.pay ELSE q.secondPay) \in Payment
    BY <1>2
  <2>3. rep' = [r \in Receipts |->
          IF r \notin {q.receipt, q.second} \ {None} THEN rep[r]
          ELSE [loan |-> q.loan, pay |-> IF r = q.receipt THEN q.pay ELSE q.secondPay,
                on |-> q.on]]
    BY DEF SaveLoanForm
  <2>. QED
    BY <2>1, <2>2, <2>3 DEF TypeOK
<1>8. req' = [req EXCEPT ![w] = None] /\ UNCHANGED <<today, scan>>
  BY DEF SaveLoanForm
<1>9. loan' \in [Loans -> LoanRow]
  BY <1>2, <1>3, <1>4 DEF TypeOK
<1>. QED
  BY <1>1, <1>2, <1>3, <1>4, <1>5, <1>6, <1>7, <1>8, <1>9 DEF TypeOK

LEMMA VisitType ==
  ASSUME TypeOK, NEW l \in Loans, NEW condition, NEW to \in Live, Visit(l, condition, to)
  PROVE  TypeOK'
<1>1. [loan EXCEPT ![l].status = to] \in [Loans -> LoanRow]
  BY StatusType DEF Statuses
<1>2. loan' \in [Loans -> LoanRow]
  BY <1>1 DEF Visit, TypeOK
<1>3. scan' \in [phase : {"idle", "mark", "clear"}, todo : SUBSET Loans, utcToday : Int]
  BY DEF Visit, TypeOK
<1>. QED
  BY <1>2, <1>3 DEF TypeOK, Visit

LEMMA ClassifierType ==
  ASSUME TypeOK, ClassifierStep
  PROVE  TypeOK'
<1>1. CASE \E lag \in Lags : ListActive(lag)
  BY <1>1, CalendarAssumption DEF TypeOK, ListActive, Listed
<1>2. CASE ListOverdue
  BY <1>2 DEF TypeOK, ListOverdue, Listed
<1>3. CASE \E l \in Loans : MarkOverdue(l) \/ ClearOverdue(l)
  BY <1>3, VisitType DEF MarkOverdue, ClearOverdue, Live
<1>4. CASE EndScan
  BY <1>4 DEF TypeOK, EndScan
<1>. QED
  BY <1>1, <1>2, <1>3, <1>4 DEF ClassifierStep

LEMMA RepaymentStepType ==
  ASSUME TypeOK, NEW w \in Workers, RepaymentStep(w)
  PROVE  TypeOK'
BY CheckRepaymentType, SaveRepaymentType, CommitRepaymentType DEF RepaymentStep

LEMMA ActionStepType ==
  ASSUME TypeOK, NEW w \in Workers, ActionStep(w)
  PROVE  TypeOK'
<1>1. ASSUME NEW l \in Loans, AskPreclose(w, l) PROVE TypeOK'
  BY <1>1, AskType DEF AskPreclose
<1>2. ASSUME NEW l \in Loans, AskRenew(w, l) PROVE TypeOK'
  BY <1>2, AskType DEF AskRenew
<1>3. ASSUME NEW l \in Loans, NEW x \in Extras, AskTopup(w, l, x) PROVE TypeOK'
  <2>1. Outstanding(loan[l], l) + x \in Int
    BY OutstandingType, AmountAssumption DEF TypeOK
  <2>. QED
    BY <1>3, <2>1, AskType DEF AskTopup
<1>4. ASSUME Abandon(w) PROVE TypeOK'
  BY <1>4 DEF TypeOK, Abandon
<1>. QED
  BY <1>1, <1>2, <1>3, <1>4, PrecloseType, CarryForwardType DEF ActionStep

LEMMA FormStepType ==
  ASSUME TypeOK, NEW w \in Workers, FormStep(w)
  PROVE  TypeOK'
BY OpenLoanFormType, PostLoanFormType, SaveLoanFormType DEF FormStep

LEMMA AdminStepType ==
  ASSUME TypeOK, AdminStep
  PROVE  TypeOK'
BY BookLoanType, DeleteLoanType, DeleteRepaymentType DEF AdminStep

LEMMA NextType == TypeOK /\ [Next]_vars => TypeOK'
<1>. SUFFICES ASSUME TypeOK, [Next]_vars PROVE TypeOK'
  OBVIOUS
<1>1. CASE Tick
  BY <1>1, CalendarAssumption DEF TypeOK, Tick
<1>2. CASE UNCHANGED vars
  BY <1>2 DEF TypeOK, vars
<1>. QED
  BY <1>1, <1>2, RepaymentStepType, ActionStepType, FormStepType, AdminStepType, ClassifierType
     DEF Next

\* Rows, totals, requests and the classifier keep their types in every behaviour:
\* a renewal or a stale save never leaves a row that the code could not read.
THEOREM TypeCorrect == Spec => []TypeOK
BY InitType, NextType, PTL DEF Spec

-----------------------------------------------------------------------------
(* Interest *)

LEMMA HalfEvenType ==
  ASSUME NEW n \in Int, NEW d \in {MonthDays, 100000, 1200000}
  PROVE  HalfEven(n, d) \in Int
BY DEF HalfEven, MonthDays

LEMMA AccruedType ==
  ASSUME TypeOK, NEW ln \in LoanRow
  PROVE  Accrued(ln) \in Int
<1>1. ln.principal \in Int /\ ln.start \in Int /\ today \in Nat
  BY DEF TypeOK, LoanRow
<1>2. ln.principal * RatePct \in Int
  BY <1>1, AmountAssumption
<1>3. MonthlyInterest(ln.principal, RateType, RatePct) \in Int
  BY <1>2, HalfEvenType DEF MonthlyInterest
<1>. HIDE DEF MonthlyInterest
<1>4. DaysOutstanding(ln.start, today) \in Int
  BY <1>1 DEF DaysOutstanding, NonNegative
<1>5. ASSUME NEW m \in Int, NEW days \in Int PROVE HalfEven(m * days, MonthDays) \in Int
  BY HalfEvenType
<1>. QED
  BY <1>1, <1>3, <1>4, <1>5 DEF Accrued, InterestAccrued

-----------------------------------------------------------------------------
(* Links of renewals, as the program is deployed: requests overlap freely *)

\* The link of instance ln of row l leads to another loan, booked on its pledge.
SoundLink(ln, l) ==
  ln.renewedTo # None =>
    LET n == ln.renewedTo
    IN  n # l /\ loan[n].status # "unused" /\ loan[n].pledge = ln.pledge

\* The invariant: links are sound in the rows and in the instances that requests
\* hold, which may be written back, and those of rows lead to loans not deleted.
RowLinks == \A l \in Loans : SoundLink(loan[l], l)

InstanceLinks ==
  \A w \in Workers : req[w] # None =>
    LET q == req[w] IN
    /\ loan[q.loan].status # "unused"
    /\ q.seen.pledge = loan[q.loan].pledge
    /\ SoundLink(q.seen, q.loan)

LinkTargets == \A l \in Loans : loan[l].renewedTo # None => Exists(loan[l].renewedTo)

LinkInv == RowLinks /\ InstanceLinks /\ LinkTargets

\* A row once used stays in use, as a deleted one if need be, on its pledge.
BookedStays ==
  \A m \in Loans : loan[m].status # "unused" =>
    loan'[m].status # "unused" /\ loan'[m].pledge = loan[m].pledge

\* No request is started or moved to another loan.
NoNewRequest ==
  \A v \in Workers : req'[v] # None =>
    req[v] # None /\ req'[v].loan = req[v].loan /\ req'[v].seen = req[v].seen

LEMMA InitLinks == Init => LinkInv
BY DEF Init, LinkInv, RowLinks, InstanceLinks, LinkTargets, SoundLink, NoRow

LEMMA InstanceLinksKept ==
  ASSUME TypeOK, LinkInv, BookedStays, NoNewRequest
  PROVE  InstanceLinks'
<1>. SUFFICES ASSUME NEW w \in Workers, req'[w] # None
              PROVE  /\ loan'[req'[w].loan].status # "unused"
                     /\ req'[w].seen.pledge = loan'[req'[w].loan].pledge
                     /\ SoundLink(req[w].seen, req[w].loan)'
  BY DEF InstanceLinks
<1>. DEFINE l == req[w].loan
            seen == req[w].seen
<1>1. req[w] # None /\ req[w] \in Request /\ req'[w].loan = l /\ req'[w].seen = seen
  BY DEF NoNewRequest, TypeOK
<1>2. l \in Loans /\ seen.renewedTo \in Loans \cup {None}
  BY <1>1 DEF Request, LoanRow
<1>3. loan[l].status # "unused" /\ seen.pledge = loan[l].pledge /\ SoundLink(seen, l)
  BY <1>1 DEF LinkInv, InstanceLinks
<1>4. loan'[l].status # "unused" /\ seen.pledge = loan'[l].pledge
  BY <1>2, <1>3 DEF BookedStays
<1>5. seen.renewedTo # None =>
        LET n == seen.renewedTo
        IN  n # l /\ loan'[n].status # "unused" /\ loan'[n].pledge = seen.pledge
  BY <1>2, <1>3 DEF SoundLink, BookedStays
<1>. QED
  BY <1>1, <1>4, <1>5 DEF SoundLink

\* A step that at most takes links away or changes a status.
LEMMA RowsKeptLinks ==
  ASSUME TypeOK, LinkInv, BookedStays, NoNewRequest,
         \A m \in Loans : \/ loan'[m].renewedTo = None
                          \/ /\ loan'[m].renewedTo = loan[m].renewedTo
                             /\ loan'[m].pledge = loan[m].pledge
                             /\ Exists(loan[m].renewedTo) => Exists(loan[m].renewedTo)'
  PROVE  LinkInv'
<1>1. \A m \in Loans : loan[m].renewedTo \in Loans \cup {None}
  BY DEF TypeOK, LoanRow
<1>2. RowLinks'
  BY <1>1 DEF LinkInv, RowLinks, SoundLink, BookedStays
<1>3. LinkTargets'
  BY <1>1 DEF LinkInv, LinkTargets, Exists
<1>. QED
  BY <1>2, <1>3, InstanceLinksKept DEF LinkInv

\* A request is let in with the instance it has just read, or takes on the pledge
\* and the link it reads now.
LEMMA NewRequestLinks ==
  ASSUME TypeOK, LinkInv, NEW w \in Workers, NEW q, q.loan \in Loans,
         q.seen.pledge = loan[q.loan].pledge, q.seen.renewedTo = loan[q.loan].renewedTo,
         loan[q.loan].status # "unused",
         req' = [req EXCEPT ![w] = q], loan' = loan
  PROVE  LinkInv'
<1>1. req'[w] = q /\ \A v \in Workers \ {w} : req'[v] = req[v]
  BY DEF TypeOK
<1>2. SoundLink(loan[q.loan], q.loan)
  BY DEF LinkInv, RowLinks
<1>3. InstanceLinks'
  <2>. SUFFICES ASSUME NEW v \in Workers, req'[v] # None
                PROVE  /\ loan[req'[v].loan].status # "unused"
                       /\ req'[v].seen.pledge = loan[req'[v].loan].pledge
                       /\ SoundLink(req'[v].seen, req'[v].loan)
    BY DEF InstanceLinks, SoundLink
  <2>1. CASE v = w
    BY <1>1, <1>2, <2>1 DEF SoundLink
  <2>2. CASE v # w
    BY <1>1, <2>2 DEF LinkInv, InstanceLinks
  <2>. QED
    BY <2>1, <2>2
<1>. QED
  BY <1>3 DEF LinkInv, RowLinks, LinkTargets, SoundLink, Exists

LEMMA CommitRepaymentLinks ==
  ASSUME TypeOK, LinkInv, NEW w \in Workers, CommitRepayment(w)
  PROVE  LinkInv'
<1>1. req[w] # None /\ req[w].loan \in Loans
  BY DEF TypeOK, Request, CommitRepayment
<1>2. /\ req' = [req EXCEPT ![w] = None]
      /\ loan' = loan \/ loan' = [loan EXCEPT ![req[w].loan].status = "closed"]
  BY DEF CommitRepayment
<1>3. \A m \in Loans : /\ loan'[m].renewedTo = loan[m].renewedTo
                       /\ loan'[m].pledge = loan[m].pledge
                       /\ loan'[m].status \in {loan[m].status, "closed"}
  BY <1>1, <1>2 DEF TypeOK, LoanRow
<1>4. NoNewRequest
  BY <1>2 DEF TypeOK, NoNewRequest
<1>5. BookedStays
  BY <1>3 DEF BookedStays
<1>6. \A m \in Loans : Exists(m) => Exists(m)'
  BY <1>3 DEF Exists, Statuses, Terminal
<1>7. \A m \in Loans : loan[m].renewedTo \in Loans \cup {None}
  BY DEF TypeOK, LoanRow
<1>. QED
  BY <1>3, <1>4, <1>5, <1>6, <1>7, RowsKeptLinks

\* A stale instance is written back: its link was sound when it was read and the
\* database still accepts it.
LEMMA WriteBackLinks ==
  ASSUME TypeOK, LinkInv, NEW w \in Workers, req[w] # None, ReferenceHolds(req[w].seen),
         NEW row, row.status \in Statuses,
         row.pledge = req[w].seen.pledge, row.renewedTo = req[w].seen.renewedTo,
         loan' = [loan EXCEPT ![req[w].loan] = row], req' = [req EXCEPT ![w] = None]
  PROVE  LinkInv'
<1>. DEFINE l == req[w].loan
            seen == req[w].seen
<1>1. req[w] \in Request /\ l \in Loans /\ seen \in LoanRow
  BY DEF TypeOK, Request
<1>2. loan[l].status # "unused" /\ seen.pledge = loan[l].pledge /\ SoundLink(seen, l)
  BY <1>1 DEF LinkInv, InstanceLinks
<1>3. seen.renewedTo \in Loans \cup {None}
  BY <1>1 DEF LoanRow
<1>4. loan' = [loan EXCEPT ![l] = row]
  OBVIOUS
<1>. HIDE DEF seen, l
<1>5. loan'[l] = row /\ \A m \in Loans \ {l} : loan'[m] = loan[m]
  BY <1>1, <1>4 DEF TypeOK
<1>6. NoNewRequest
  BY DEF TypeOK, NoNewRequest
<1>7. BookedStays
  BY <1>2, <1>5 DEF BookedStays, Statuses, Live, Terminal, seen
<1>8. \A m \in Loans : Exists(m) => Exists(m)'
  BY <1>5 DEF Exists
<1>9. \A m \in Loans : loan[m].renewedTo \in Loans \cup {None}
  BY DEF TypeOK, LoanRow
<1>10. RowLinks'
  BY <1>1, <1>2, <1>3, <1>5, <1>7, <1>9 DEF LinkInv, RowLinks, SoundLink, BookedStays, seen
<1>11. LinkTargets'
  BY <1>2, <1>3, <1>5, <1>8, <1>9 DEF LinkInv, LinkTargets, ReferenceHolds, seen
<1>. QED
  BY <1>6, <1>7, <1>10, <1>11, InstanceLinksKept DEF LinkInv

LEMMA PrecloseLinks ==
  ASSUME TypeOK, LinkInv, NEW w \in Workers, Preclose(w)
  PROVE  LinkInv'
<1>. DEFINE row == [req[w].seen EXCEPT !.status = "closed"]
<1>1. req[w] # None /\ req[w] \in Request /\ req[w].seen \in LoanRow
  BY DEF Preclose, TypeOK, Request
<1>2. /\ row.status \in Statuses
      /\ row.renewedTo = req[w].seen.renewedTo /\ row.pledge = req[w].seen.pledge
  BY <1>1 DEF LoanRow, Statuses, Terminal
<1>3. /\ loan' = [loan EXCEPT ![req[w].loan] = row] /\ req' = [req EXCEPT ![w] = None]
      /\ ReferenceHolds(req[w].seen)
  BY DEF Preclose
<1>. HIDE DEF row
<1>. QED
  BY <1>1, <1>2, <1>3, WriteBackLinks

LEMMA SaveLoanFormLinks ==
  ASSUME TypeOK, LinkInv, NEW w \in Workers, SaveLoanForm(w)
  PROVE  LinkInv'
<1>1. /\ req[w] # None /\ ReferenceHolds(req[w].seen)
      /\ req' = [req EXCEPT ![w] = None]
  BY DEF SaveLoanForm
<1>2. /\ loan' = [loan EXCEPT ![req[w].loan] = SavedInstance(req[w])]
      /\ SavedInstance(req[w]).status \in Statuses /\ req[w] \in Request
  BY SaveLoanFormType
<1>3. /\ SavedInstance(req[w]).pledge = req[w].seen.pledge
      /\ SavedInstance(req[w]).renewedTo = req[w].seen.renewedTo
  BY <1>2 DEF SavedInstance, Request, LoanRow
<1>. QED
  BY <1>1, <1>2, <1>3, WriteBackLinks

\* Renewal and top-up link the old row to the row they insert.
LEMMA CarryForwardLinks ==
  ASSUME TypeOK, LinkInv, NEW w \in Workers, NEW n \in Loans, NEW lag \in Lags,
         CarryForward(w, n, lag)
  PROVE  LinkInv'
<1>. DEFINE l == req[w].loan
            seen == req[w].seen
            carried == IF req[w].op = "renew" THEN Outstanding(seen, l) ELSE req[w].amount
            new == [status |-> "active", principal |-> carried, start |-> today - lag,
                    pledge |-> seen.pledge, renewedTo |-> None]
            old == [seen EXCEPT !.status = "closed", !.renewedTo = n]
<1>1. req[w] # None /\ req[w] \in Request /\ l \in Loans /\ seen \in LoanRow
  BY DEF CarryForward, TypeOK, Request
<1>2. loan[l].status # "unused" /\ seen.pledge = loan[l].pledge /\ loan[n].status = "unused"
  BY <1>1 DEF LinkInv, InstanceLinks, CarryForward
<1>3. old.status = "closed" /\ old.renewedTo = n /\ old.pledge = seen.pledge
  BY <1>1 DEF LoanRow
<1>4. new.status = "active" /\ new.renewedTo = None /\ new.pledge = seen.pledge
  OBVIOUS
<1>5. loan' = [loan EXCEPT ![n] = new, ![l] = old] /\ req' = [req EXCEPT ![w] = None]
  BY DEF CarryForward
<1>. HIDE DEF old, new, seen, l
<1>6. /\ n # l /\ loan'[l] = old /\ loan'[n] = new
      /\ \A m \in Loans \ {l, n} : loan'[m] = loan[m]
  BY <1>1, <1>2, <1>5 DEF TypeOK
<1>7. NoNewRequest
  BY <1>5 DEF TypeOK, NoNewRequest
<1>8. BookedStays
  BY <1>2, <1>3, <1>6 DEF BookedStays
<1>9. \A m \in Loans : Exists(m) => Exists(m)'
  BY <1>3, <1>4, <1>6 DEF Exists, Statuses, Terminal, Live
<1>10. \A m \in Loans : loan[m].renewedTo \in Loans \cup {None}
  BY DEF TypeOK, LoanRow
<1>11. RowLinks'
  BY <1>1, <1>2, <1>3, <1>4, <1>6, <1>8, <1>10 DEF LinkInv, RowLinks, SoundLink, BookedStays
<1>12. LinkTargets'
  <2>1. Exists(n)'
    BY <1>4, <1>6 DEF Exists, Statuses, Live
  <2>. QED
    BY <1>3, <1>4, <1>6, <1>9, <1>10, <2>1 DEF LinkInv, LinkTargets
<1>. QED
  BY <1>7, <1>8, <1>11, <1>12, InstanceLinksKept DEF LinkInv

LEMMA DeleteLoanLinks ==
  ASSUME TypeOK, LinkInv, NEW l \in Loans, DeleteLoan(l)
  PROVE  LinkInv'
<1>1. \A m \in Loans : loan[m] \in LoanRow /\ loan[m].renewedTo \in Loans \cup {None}
  BY DEF TypeOK, LoanRow
<1>2. \A m \in Loans : /\ loan'[m].pledge = loan[m].pledge
                       /\ loan'[m].status = IF m = l THEN "deleted" ELSE loan[m].status
                       /\ loan'[m].renewedTo = IF m = l \/ loan[m].renewedTo = l THEN None
                                               ELSE loan[m].renewedTo
  BY <1>1 DEF DeleteLoan, LoanRow
<1>3. NoNewRequest /\ loan[l].status # "unused"
  BY DEF DeleteLoan, NoNewRequest, Exists, Statuses, Live, Terminal
<1>4. BookedStays
  BY <1>2, <1>3 DEF BookedStays
<1>5. \A m \in Loans : m # l /\ Exists(m) => Exists(m)'
  BY <1>2 DEF Exists
<1>6. \A m \in Loans : \/ loan'[m].renewedTo = None
                       \/ /\ loan'[m].renewedTo = loan[m].renewedTo
                          /\ loan'[m].pledge = loan[m].pledge
                          /\ Exists(loan[m].renewedTo) => Exists(loan[m].renewedTo)'
  <2>. TAKE m \in Loans
  <2>1. CASE loan'[m].renewedTo = None
    BY <2>1
  <2>2. CASE loan'[m].renewedTo # None
    BY <1>1, <1>2, <1>5, <2>2
  <2>. QED
    BY <2>1, <2>2
<1>. QED
  BY <1>3, <1>4, <1>6, RowsKeptLinks

\* A step that changes statuses at most.
LEMMA StatusStepLinks ==
  ASSUME TypeOK, LinkInv, req' = req,
         \A m \in Loans : /\ loan'[m].renewedTo = loan[m].renewedTo
                          /\ loan'[m].pledge = loan[m].pledge
                          /\ loan[m].status # "unused" => loan'[m].status # "unused"
                          /\ Exists(m) => Exists(m)'
  PROVE  LinkInv'
<1>1. NoNewRequest /\ BookedStays
  BY DEF NoNewRequest, BookedStays
<1>2. \A m \in Loans : loan[m].renewedTo \in Loans \cup {None}
  BY DEF TypeOK, LoanRow
<1>3. \A m \in Loans : loan[m].renewedTo # None =>
        (Exists(loan[m].renewedTo) => Exists(loan[m].renewedTo)')
  BY <1>2
<1>. QED
  BY <1>1, <1>2, <1>3, RowsKeptLinks

LEMMA BookLoanLinks ==
  ASSUME TypeOK, LinkInv, NEW l \in Loans, NEW p \in Principals, NEW offset \in StartOffsets,
         NEW status \in EntryStatuses, BookLoan(l, p, offset, status)
  PROVE  LinkInv'
<1>1. /\ loan[l].status = "unused" /\ loan'[l].renewedTo = None /\ loan'[l].status \in Statuses
      /\ \A m \in Loans \ {l} : loan'[m] = loan[m]
      /\ req' = req
  BY AmountAssumption DEF BookLoan, TypeOK
<1>2. NoNewRequest /\ BookedStays
  BY <1>1 DEF NoNewRequest, BookedStays
<1>3. \A m \in Loans : Exists(m) => Exists(m)'
  BY <1>1 DEF Exists, Statuses, Live
<1>4. \A m \in Loans : loan[m].renewedTo \in Loans \cup {None}
  BY DEF TypeOK, LoanRow
<1>5. \A m \in Loans : \/ loan'[m].renewedTo = None
                       \/ /\ loan'[m].renewedTo = loan[m].renewedTo
                          /\ loan'[m].pledge = loan[m].pledge
                          /\ Exists(loan[m].renewedTo) => Exists(loan[m].renewedTo)'
  BY <1>1, <1>3, <1>4
<1>. QED
  BY <1>2, <1>5, RowsKeptLinks

LEMMA VisitLinks ==
  ASSUME TypeOK, LinkInv, NEW l \in Loans, NEW condition, NEW to \in Live, Visit(l, condition, to)
  PROVE  LinkInv'
<1>1. req' = req /\ \/ loan' = loan
                    \/ Exists(l) /\ loan' = [loan EXCEPT ![l].status = to]
  BY DEF Visit
<1>2. \A m \in Loans : /\ loan'[m].renewedTo = loan[m].renewedTo
                       /\ loan'[m].pledge = loan[m].pledge
                       /\ loan'[m].status \in {loan[m].status} \cup Live
  BY <1>1 DEF TypeOK, LoanRow
<1>. QED
  BY <1>1, <1>2, StatusStepLinks DEF Exists, Statuses, Live, Terminal

LEMMA AdminStepLinks ==
  ASSUME TypeOK, LinkInv, AdminStep
  PROVE  LinkInv'
<1>1. ASSUME NEW r \in Receipts, DeleteRepayment(r) PROVE LinkInv'
  BY <1>1, StatusStepLinks DEF DeleteRepayment, Exists
<1>. QED
  BY <1>1, BookLoanLinks, DeleteLoanLinks DEF AdminStep

LEMMA FormStepLinks ==
  ASSUME TypeOK, LinkInv, NEW w \in Workers, FormStep(w)
  PROVE  LinkInv'
<1>1. ASSUME NEW l \in Loans, OpenLoanForm(w, l) PROVE LinkInv'
  <2>1. loan[l].status # "unused" /\ loan' = loan
    BY <1>1 DEF OpenLoanForm, Exists, Statuses, Live, Terminal
  <2>. QED
    BY <1>1, <2>1, NewRequestLinks DEF OpenLoanForm, NewRequest
<1>2. ASSUME NEW fields \in FilledIn(req[w].seen), NEW one \in Lines, NEW two \in Lines,
             NEW lag \in Lags, PostLoanForm(w, fields, one, two, lag)
      PROVE  LinkInv'
  <2>. DEFINE ln == Filled(loan[req[w].loan], fields)
              q == PostedRequest(req[w], ln, one, two, today - lag)
  <2>1. /\ req[w] \in Request /\ Exists(req[w].loan)
        /\ ln.pledge = loan[req[w].loan].pledge /\ ln.renewedTo = loan[req[w].loan].renewedTo
        /\ req' = [req EXCEPT ![w] = q] /\ loan' = loan
    BY <1>2, PostedFacts
  <2>2. q.loan = req[w].loan /\ q.seen = ln /\ req[w].loan \in Loans
    BY <2>1 DEF Request, PostedRequest
  <2>3. loan[req[w].loan].status # "unused"
    BY <2>1 DEF Exists, Statuses, Live, Terminal
  <2>. HIDE DEF q, ln
  <2>. QED
    BY <2>1, <2>2, <2>3, NewRequestLinks
<1>. QED
  BY <1>1, <1>2, SaveLoanFormLinks DEF FormStep

LEMMA RepaymentStepLinks ==
  ASSUME TypeOK, LinkInv, NEW w \in Workers, RepaymentStep(w)
  PROVE  LinkInv'
<1>1. ASSUME NEW l \in Loans, NEW r \in Receipts, NEW pay \in Payments,
             NEW offset \in PaidOffsets, CheckRepayment(w, l, r, pay, offset)
      PROVE  LinkInv'
  <2>1. loan[l].status # "unused" /\ loan' = loan
    BY <1>1 DEF CheckRepayment, Exists, Statuses, Live, Terminal
  <2>. QED
    BY <1>1, <2>1, NewRequestLinks DEF CheckRepayment, NewRequest
<1>2. ASSUME SaveRepayment(w) PROVE LinkInv'
  <2>1. req[w] \in Request /\ req[w] # None
    BY <1>2 DEF SaveRepayment, TypeOK
  <2>2. /\ req'[w].loan = req[w].loan /\ req'[w].seen = req[w].seen
        /\ \A v \in Workers \ {w} : req'[v] = req[v]
        /\ loan' = loan
    BY <1>2, <2>1 DEF SaveRepayment, TypeOK, Request
  <2>3. NoNewRequest /\ BookedStays
    BY <2>1, <2>2 DEF NoNewRequest, BookedStays
  <2>4. \A m \in Loans : Exists(loan[m].renewedTo) => Exists(loan[m].renewedTo)'
    BY <2>2 DEF Exists
  <2>. QED
    BY <2>2, <2>3, <2>4, RowsKeptLinks
<1>. QED
  BY <1>1, <1>2, CommitRepaymentLinks DEF RepaymentStep

LEMMA ActionStepLinks ==
  ASSUME TypeOK, LinkInv, NEW w \in Workers, ActionStep(w)
  PROVE  LinkInv'
<1>1. ASSUME NEW l \in Loans, NEW amount, NEW op, Ask(w, op, l, amount)
      PROVE  LinkInv'
  <2>1. loan[l].status # "unused" /\ loan' = loan
    BY <1>1 DEF Ask, Live
  <2>. QED
    BY <1>1, <2>1, NewRequestLinks DEF Ask, NewRequest
<1>2. ASSUME Abandon(w) PROVE LinkInv'
  <2>1. NoNewRequest /\ BookedStays /\ loan' = loan
    BY <1>2 DEF Abandon, TypeOK, NoNewRequest, BookedStays
  <2>2. \A m \in Loans : Exists(loan[m].renewedTo) => Exists(loan[m].renewedTo)'
    BY <2>1 DEF Exists
  <2>. QED
    BY <2>1, <2>2, RowsKeptLinks
<1>. QED
  BY <1>1, <1>2, PrecloseLinks, CarryForwardLinks
     DEF ActionStep, AskPreclose, AskRenew, AskTopup

LEMMA NextLinks == TypeOK /\ LinkInv /\ [Next]_vars => LinkInv'
<1>. SUFFICES ASSUME TypeOK, LinkInv, [Next]_vars PROVE LinkInv'
  OBVIOUS
<1>1. CASE req' = req /\ loan' = loan
  BY <1>1, StatusStepLinks DEF Exists
<1>2. CASE ClassifierStep
  BY <1>1, <1>2, VisitLinks
     DEF ClassifierStep, ListActive, ListOverdue, EndScan, MarkOverdue, ClearOverdue, Live
<1>. QED
  BY <1>1, <1>2, RepaymentStepLinks, ActionStepLinks, FormStepLinks, AdminStepLinks
     DEF Next, Tick, vars

\* As deployed: the link of a renewed loan always leads to an existing other loan
\* on the same pledge, whatever stale instances are written back, whatever is
\* deleted, and rows are inserted again, by any number of overlapping requests.
THEOREM LinksIntact == Spec => []RenewalLinksIntact
<1>1. Init => TypeOK /\ LinkInv
  BY InitType, InitLinks
<1>2. TypeOK /\ LinkInv /\ [Next]_vars => (TypeOK /\ LinkInv)'
  BY NextType, NextLinks
<1>3. TypeOK /\ LinkInv => RenewalLinksIntact
  BY DEF LinkInv, RowLinks, LinkTargets, SoundLink, RenewalLinksIntact
<1>. QED
  BY <1>1, <1>2, <1>3, PTL DEF Spec

-----------------------------------------------------------------------------
(* Automatic closing, as the program is deployed *)

\* Corrections that take back an amount already counted.
Takebacks == {"delete_repayment", "edit_repayment", "edit_loan"}

\* The decision to close taken for request q is still right.
StillClears(q) ==
  /\ q.stage = "saved"
  /\ Outstanding(q.seen, q.loan) <= q.pay.p
  /\ Accrued(q.seen) <= settled[q.loan] + q.pay.i + q.pay.w

\* The repayment rows that request q is to insert.
HeldBy(q) == {q.receipt, q.second} \ {None}

\* The invariant: principal and start of the instance a request holds are the
\* loan's, its receipts are nobody else's, and its decision to close still right.
SoundRequest(w) ==
  LET q == req[w] IN
  /\ loan[q.loan].status # "unused"
  /\ q.seen.principal = loan[q.loan].principal
  /\ q.seen.start = loan[q.loan].start
  /\ \A r \in HeldBy(q) :
       /\ rep[r] = None
       /\ \A v \in Workers \ {w} : req[v] # None => r \notin HeldBy(req[v])
  /\ q.close => StillClears(q)

SoundRequests == \A w \in Workers : req[w] # None => SoundRequest(w)

LEMMA InitRequests == Init => SoundRequests
BY DEF Init, SoundRequests

\* What SoundRequests is made of, for one request.
LEMMA RequestFacts ==
  ASSUME TypeOK, SoundRequests, NEW w \in Workers, req[w] # None
  PROVE  /\ req[w] \in Request /\ req[w].loan \in Loans /\ req[w].seen \in LoanRow
         /\ req[w].pay \in Payment /\ req[w].close \in BOOLEAN
         /\ HeldBy(req[w]) \subseteq Receipts
         /\ req[w].op = "repay" => req[w].receipt \in HeldBy(req[w])
         /\ SoundRequest(w)
<1>1. req[w] \in Request /\ SoundRequest(w)
  BY DEF TypeOK, SoundRequests
<1>2. /\ req[w].loan \in Loans /\ req[w].seen \in LoanRow /\ req[w].pay \in Payment
      /\ req[w].close \in BOOLEAN
      /\ req[w].receipt \in Receipts \cup {None} /\ req[w].second \in Receipts \cup {None}
      /\ req[w].op = "repay" => req[w].receipt \in Receipts
  BY <1>1 DEF Request
<1>. QED
  BY <1>1, <1>2, DeskAssumption DEF HeldBy

\* The debt of a loan once used keeps its principal and start.
SameDebt ==
  \A m \in Loans : loan[m].status # "unused" =>
    /\ loan'[m].status # "unused"
    /\ loan'[m].principal = loan[m].principal
    /\ loan'[m].start = loan[m].start

\* A step that starts no request, takes no receipt that one holds and takes
\* nothing back from a loan that one is about to close.
LEMMA RequestsKept ==
  ASSUME TypeOK, SoundRequests, SameDebt, today' = today,
         \A v \in Workers : req'[v] # None =>
           /\ req'[v] = req[v]
           /\ \A r \in HeldBy(req[v]) : rep'[r] = None
           /\ req[v].close => /\ paid[req[v].loan] <= paid'[req[v].loan]
                              /\ settled[req[v].loan] <= settled'[req[v].loan]
                              /\ paid'[req[v].loan] \in Int /\ settled'[req[v].loan] \in Int
  PROVE  SoundRequests'
<1>. SUFFICES ASSUME NEW w \in Workers, req'[w] # None PROVE SoundRequest(w)'
  BY DEF SoundRequests
<1>1. req'[w] = req[w] /\ req[w] # None
  OBVIOUS
<1>2. /\ req[w] \in Request /\ req[w].loan \in Loans /\ req[w].seen \in LoanRow
      /\ req[w].pay \in Payment /\ SoundRequest(w)
  BY <1>1, RequestFacts
<1>3. req[w].close => StillClears(req[w])'
  <2>. SUFFICES ASSUME req[w].close PROVE StillClears(req[w])'
    OBVIOUS
  <2>1. StillClears(req[w])
    BY <1>2 DEF SoundRequest
  <2>2. paid[req[w].loan] \in Int /\ settled[req[w].loan] \in Int
    BY <1>2 DEF TypeOK
  <2>3. Accrued(req[w].seen)' = Accrued(req[w].seen) /\ Accrued(req[w].seen) \in Int
    BY <1>1, <1>2, AccruedType DEF Accrued
  <2>4. req[w].seen.principal \in Int /\ req[w].pay.p \in Int
        /\ req[w].pay.i \in Int /\ req[w].pay.w \in Int
    BY <1>2 DEF LoanRow, Payment
  <2>. QED
    BY <1>1, <1>2, <2>1, <2>2, <2>3, <2>4 DEF StillClears, Outstanding
<1>4. ASSUME NEW r \in HeldBy(req[w])
      PROVE  /\ rep'[r] = None
             /\ \A v \in Workers \ {w} : req'[v] # None => r \notin HeldBy(req'[v])
  BY <1>1, <1>2 DEF SoundRequest
<1>5. SameDebt /\ req[w].loan \in Loans
  BY <1>2
<1>6. /\ loan'[req[w].loan].status # "unused"
      /\ req[w].seen.principal = loan'[req[w].loan].principal
      /\ req[w].seen.start = loan'[req[w].loan].start
  BY <1>2, <1>5 DEF SoundRequest, SameDebt
<1>. QED
  BY <1>1, <1>3, <1>4, <1>6 DEF SoundRequest, HeldBy

\* A request is let in, or a form posted, on the figures it has just read and with
\* receipts that nobody holds.
LEMMA NewRequestSound ==
  ASSUME TypeOK, SoundRequests, NEW w \in Workers, NEW q \in Request,
         q.seen.principal = loan[q.loan].principal, q.seen.start = loan[q.loan].start,
         loan[q.loan].status # "unused", q.close = FALSE,
         \A r \in HeldBy(q) : rep[r] = None /\ ~RowHeld(r),
         req' = [req EXCEPT ![w] = q], UNCHANGED <<loan, rep, paid, settled, today>>
  PROVE  SoundRequests'
<1>1. req'[w] = q /\ \A v \in Workers \ {w} : req'[v] = req[v]
  BY DEF TypeOK
<1>2. \A r \in HeldBy(q), v \in Workers : req[v] # None => r \notin HeldBy(req[v])
  BY DEF RowHeld, HeldBy
<1>3. SoundRequest(w)'
  <2>1. \A r \in HeldBy(q) : rep'[r] = None /\
          \A v \in Workers \ {w} : req'[v] # None => r \notin HeldBy(req'[v])
    BY <1>1, <1>2
  <2>. QED
    BY <1>1, <2>1 DEF SoundRequest, HeldBy
<1>4. ASSUME NEW v \in Workers \ {w}, req[v] # None PROVE SoundRequest(v)'
  <2>1. SoundRequest(v)
    BY <1>4, RequestFacts
  <2>2. StillClears(req[v]) => StillClears(req[v])'
    BY <1>1 DEF StillClears, Outstanding, Accrued
  <2>3. ASSUME NEW r \in HeldBy(req[v])
        PROVE  /\ rep'[r] = None
               /\ \A u \in Workers \ {v} : req'[u] # None => r \notin HeldBy(req'[u])
    <3>1. r \notin HeldBy(q)
      BY <1>2, <1>4
    <3>. QED
      BY <1>1, <2>1, <3>1 DEF SoundRequest
  <2>. QED
    BY <1>1, <2>1, <2>2, <2>3 DEF SoundRequest, HeldBy
<1>. QED
  BY <1>1, <1>3, <1>4 DEF SoundRequests

LEMMA SaveRepaymentSound ==
  ASSUME TypeOK, SoundRequests, NEW w \in Workers, SaveRepayment(w)
  PROVE  SoundRequests'
<1>. DEFINE q == req[w]
            close == ClearsLoan(q.seen, q.loan, Stored(q.receipt), q.pay)
<1>1. /\ q # None /\ q \in Request /\ q.op = "repay" /\ q.loan \in Loans
      /\ q.seen \in LoanRow /\ q.pay \in Payment /\ SoundRequest(w)
      /\ q.receipt \in HeldBy(q)
  BY RequestFacts DEF SaveRepayment
<1>2. close \in BOOLEAN
  BY DEF ClearsLoan
<1>3. close => /\ Outstanding(q.seen, q.loan) <= q.pay.p
               /\ Accrued(q.seen) <= settled[q.loan] + q.pay.i + q.pay.w
  <2>1. Stored(q.receipt) = NoPay
    BY <1>1 DEF SoundRequest, Stored
  <2>2. Accrued(q.seen) \in Int /\ Outstanding(q.seen, q.loan) \in Int
    BY <1>1, AccruedType, OutstandingType
  <2>3. settled[q.loan] \in Int /\ q.pay.p \in Int /\ q.pay.i \in Int /\ q.pay.w \in Int
    BY <1>1 DEF TypeOK, Payment
  <2>. HIDE DEF q
  <2>. QED
    BY <2>1, <2>2, <2>3 DEF ClearsLoan, NoPay
<1>4. /\ req' = [req EXCEPT ![w] = [q EXCEPT !.stage = "saved", !.close = close]]
      /\ UNCHANGED <<loan, rep, paid, settled, today>>
  BY <1>1 DEF SaveRepayment, TypeOK
<1>. HIDE DEF close
<1>5. /\ req'[w].stage = "saved" /\ req'[w].close = close /\ req'[w].op = q.op
      /\ req'[w].loan = q.loan /\ req'[w].seen = q.seen /\ req'[w].receipt = q.receipt
      /\ req'[w].pay = q.pay /\ HeldBy(req'[w]) = HeldBy(q)
      /\ \A v \in Workers \ {w} : req'[v] = req[v]
  BY <1>1, <1>4 DEF TypeOK, Request, HeldBy
<1>6. close => StillClears(req[w])'
  BY <1>3, <1>4, <1>5 DEF StillClears, Outstanding, Accrued
<1>7. SoundRequest(w)'
  <2>1. HeldBy(req[w])' = HeldBy(q)
    BY <1>5 DEF HeldBy
  <2>2. \A v \in Workers : HeldBy(req[v])' = HeldBy(req'[v])
    BY DEF HeldBy
  <2>. QED
    BY <1>1, <1>4, <1>5, <1>6, <2>1, <2>2 DEF SoundRequest
<1>8. ASSUME NEW v \in Workers \ {w}, req[v] # None PROVE SoundRequest(v)'
  <2>1. SoundRequest(v)
    BY <1>8 DEF SoundRequests
  <2>2. StillClears(req[v]) => StillClears(req[v])'
    BY <1>4, <1>5 DEF StillClears, Outstanding, Accrued
  <2>3. \A u \in Workers : HeldBy(req[u])' = HeldBy(req[u])
    BY <1>5 DEF HeldBy
  <2>4. \A u \in Workers : req'[u] # None => req[u] # None
    BY <1>1, <1>5
  <2>. QED
    BY <1>4, <1>5, <1>8, <2>1, <2>2, <2>3, <2>4 DEF SoundRequest
<1>. QED
  BY <1>5, <1>7, <1>8 DEF SoundRequests

\* A repayment adds to the totals; its receipt was its own.
LEMMA CommitRepaymentSound ==
  ASSUME TypeOK, SoundRequests, NEW w \in Workers, CommitRepayment(w)
  PROVE  SoundRequests'
<1>. DEFINE q == req[w]
<1>1. /\ q # None /\ q \in Request /\ q.op = "repay" /\ q.loan \in Loans
      /\ q.pay \in Payment /\ q.receipt \in HeldBy(q) /\ SoundRequest(w)
  BY RequestFacts DEF CommitRepayment
<1>2. Stored(q.receipt) = NoPay
  BY <1>1 DEF SoundRequest, Stored
<1>3. \A m \in Loans : /\ paid[m] <= paid'[m] /\ settled[m] <= settled'[m]
                       /\ paid'[m] \in Int /\ settled'[m] \in Int
  <2>1. paid' = [paid EXCEPT ![q.loan] = @ - 0 + q.pay.p]
    BY <1>2 DEF CommitRepayment, Retotal, NoPay
  <2>2. settled' = [settled EXCEPT ![q.loan] = @ - 0 - 0 + q.pay.i + q.pay.w]
    BY <1>2 DEF CommitRepayment, Retotal, NoPay
  <2>3. q.pay.p \in Nat /\ q.pay.i \in Nat /\ q.pay.w \in Nat
    BY <1>1 DEF Payment
  <2>. HIDE DEF q
  <2>. QED
    BY <1>1, <2>1, <2>2, <2>3 DEF TypeOK
<1>4. \A r \in Receipts \ {q.receipt} : rep'[r] = rep[r]
  BY DEF CommitRepayment, TypeOK
<1>5. SameDebt
  <2>1. loan' = loan \/ loan' = [loan EXCEPT ![q.loan].status = "closed"]
    BY DEF CommitRepayment
  <2>. QED
    BY <1>1, <2>1 DEF TypeOK, LoanRow, SameDebt
<1>6. \A v \in Workers : req'[v] # None => v # w /\ req'[v] = req[v]
  BY DEF CommitRepayment, TypeOK
<1>7. ASSUME NEW v \in Workers, v # w, req[v] # None
      PROVE  /\ req[v].loan \in Loans
             /\ \A r \in HeldBy(req[v]) : rep'[r] = None
  BY <1>1, <1>4, <1>7, RequestFacts DEF SoundRequest
<1>8. today' = today
  BY DEF CommitRepayment
<1>. QED
  BY <1>3, <1>5, <1>6, <1>7, <1>8, RequestsKept

\* An instance written back carries the principal and start of its loan.
LEMMA PrecloseSound ==
  ASSUME TypeOK, SoundRequests, NEW w \in Workers, Preclose(w)
  PROVE  SoundRequests'
<1>. DEFINE q == req[w]
            row == [q.seen EXCEPT !.status = "closed"]
<1>1. q # None /\ q \in Request /\ q.loan \in Loans /\ q.seen \in LoanRow /\ SoundRequest(w)
  BY RequestFacts DEF Preclose
<1>2. /\ row.status = "closed" /\ row.principal = loan[q.loan].principal
      /\ row.start = loan[q.loan].start
  BY <1>1 DEF SoundRequest, LoanRow
<1>3. /\ loan' = [loan EXCEPT ![q.loan] = row] /\ req' = [req EXCEPT ![w] = None]
      /\ UNCHANGED <<rep, paid, settled, today>>
  BY DEF Preclose
<1>. HIDE DEF row
<1>4. SameDebt
  BY <1>1, <1>2, <1>3 DEF SameDebt, TypeOK
<1>5. \A v \in Workers : req'[v] # None => req'[v] = req[v]
  BY <1>3 DEF TypeOK
<1>6. ASSUME NEW v \in Workers, req[v] # None
      PROVE  /\ paid[req[v].loan] \in Int /\ settled[req[v].loan] \in Int
             /\ \A r \in HeldBy(req[v]) : rep[r] = None
  BY <1>6, RequestFacts DEF SoundRequest, TypeOK
<1>. QED
  BY <1>3, <1>4, <1>5, <1>6, RequestsKept

LEMMA CarryForwardSound ==
  ASSUME TypeOK, SoundRequests, NEW w \in Workers, NEW n \in Loans, NEW lag \in Lags,
         CarryForward(w, n, lag)
  PROVE  SoundRequests'
<1>. DEFINE q == req[w]
            carried == IF q.op = "renew" THEN Outstanding(q.seen, q.loan) ELSE q.amount
            new == [status |-> "active", principal |-> carried, start |-> today - lag,
                    pledge |-> q.seen.pledge, renewedTo |-> None]
            old == [q.seen EXCEPT !.status = "closed", !.renewedTo = n]
<1>1. q # None /\ q \in Request /\ q.loan \in Loans /\ q.seen \in LoanRow /\ SoundRequest(w)
  BY RequestFacts DEF CarryForward
<1>2. /\ old.status = "closed" /\ old.principal = loan[q.loan].principal
      /\ old.start = loan[q.loan].start
  BY <1>1 DEF SoundRequest, LoanRow
<1>3. /\ loan' = [loan EXCEPT ![n] = new, ![q.loan] = old] /\ loan[n].status = "unused"
      /\ req' = [req EXCEPT ![w] = None]
      /\ UNCHANGED <<rep, paid, settled, today>>
  BY DEF CarryForward
<1>. HIDE DEF old, new
<1>4. SameDebt
  BY <1>1, <1>2, <1>3 DEF SameDebt, TypeOK
<1>5. \A v \in Workers : req'[v] # None => req'[v] = req[v]
  BY <1>3 DEF TypeOK
<1>6. ASSUME NEW v \in Workers, req[v] # None
      PROVE  /\ paid[req[v].loan] \in Int /\ settled[req[v].loan] \in Int
             /\ \A r \in HeldBy(req[v]) : rep[r] = None
  BY <1>6, RequestFacts DEF SoundRequest, TypeOK
<1>. QED
  BY <1>3, <1>4, <1>5, <1>6, RequestsKept

\* Only loans that no open transaction refers to are deleted: no decision to
\* close is pending on them.
LEMMA DeleteLoanSound ==
  ASSUME TypeOK, SoundRequests, NEW l \in Loans, DeleteLoan(l)
  PROVE  SoundRequests'
<1>1. \A m \in Loans : loan[m] \in LoanRow
  BY DEF TypeOK
<1>2. SameDebt
  BY <1>1 DEF DeleteLoan, SameDebt, LoanRow, Exists, Statuses, Live, Terminal
<1>3. \A m \in Loans \ {l} : paid'[m] = paid[m] /\ settled'[m] = settled[m]
  BY DEF DeleteLoan, TypeOK
<1>4. ASSUME NEW v \in Workers, req[v] # None
      PROVE  /\ \A r \in HeldBy(req[v]) : rep'[r] = None
             /\ req[v].loan \in Loans
             /\ req[v].close => req[v].loan # l
  <2>1. SoundRequest(v) /\ HeldBy(req[v]) \subseteq Receipts
    BY <1>4, RequestFacts
  <2>2. req[v].loan \in Loans
    BY <1>4, RequestFacts
  <2>3. \A r \in HeldBy(req[v]) : rep'[r] = None
    BY <2>1 DEF SoundRequest, DeleteLoan
  <2>4. req[v].close => req[v].loan # l
    BY <1>4, <2>1 DEF SoundRequest, StillClears, DeleteLoan, Unreferenced
  <2>. QED
    BY <2>2, <2>3, <2>4
<1>5. req' = req /\ today' = today
  BY DEF DeleteLoan
<1>6. \A m \in Loans : paid[m] \in Int /\ settled[m] \in Int
  BY DEF TypeOK
<1>. QED
  BY <1>2, <1>3, <1>4, <1>5, <1>6, RequestsKept

\* A form that sends back what it showed leaves the debt alone, and its rows add to
\* the totals.
LEMMA SaveLoanFormSound ==
  ASSUME TypeOK, SoundRequests, NEW w \in Workers, SaveLoanForm(w)
  PROVE  SoundRequests'
<1>. DEFINE q == req[w]
            sum == Both(q.pay, q.secondPay)
<1>1. /\ q # None /\ q \in Request /\ q.loan \in Loans /\ q.seen \in LoanRow /\ SoundRequest(w)
  BY RequestFacts DEF SaveLoanForm
<1>2. /\ loan' = [loan EXCEPT ![q.loan] = SavedInstance(q)]
      /\ SavedInstance(q).status \in Statuses /\ sum \in Payment
  BY SaveLoanFormType
<1>3. \A m \in Loans : /\ paid[m] <= paid'[m] /\ settled[m] <= settled'[m]
                       /\ paid'[m] \in Int /\ settled'[m] \in Int
  <2>1. /\ paid' = [paid EXCEPT ![q.loan] = @ - 0 + sum.p]
        /\ settled' = [settled EXCEPT ![q.loan] = @ - 0 - 0 + sum.i + sum.w]
    BY DEF SaveLoanForm, Retotal, NoPay
  <2>2. sum.p \in Nat /\ sum.i \in Nat /\ sum.w \in Nat
    BY <1>2 DEF Payment
  <2>. HIDE DEF sum, q
  <2>. QED
    BY <1>1, <2>1, <2>2 DEF TypeOK
<1>4. \A r \in Receipts : r \notin HeldBy(q) => rep'[r] = rep[r]
  BY DEF SaveLoanForm, HeldBy
<1>5. SameDebt
  <2>1. SavedInstance(q).principal = q.seen.principal /\ SavedInstance(q).start = q.seen.start
    BY <1>1 DEF SavedInstance, LoanRow
  <2>2. q.seen.principal = loan[q.loan].principal /\ q.seen.start = loan[q.loan].start
    BY <1>1 DEF SoundRequest
  <2>. HIDE DEF q
  <2>. QED
    BY <1>1, <1>2, <2>1, <2>2 DEF TypeOK, SameDebt, Statuses, Live, Terminal
<1>6. \A v \in Workers : req'[v] # None => v # w /\ req'[v] = req[v]
  BY DEF SaveLoanForm, TypeOK
<1>7. ASSUME NEW v \in Workers, v # w, req[v] # None
      PROVE  /\ req[v].loan \in Loans
             /\ \A r \in HeldBy(req[v]) : rep'[r] = None
  <2>1. /\ req[v].loan \in Loans /\ HeldBy(req[v]) \subseteq Receipts /\ SoundRequest(v)
    BY <1>7, RequestFacts
  <2>2. \A r \in HeldBy(req[v]) : r \notin HeldBy(q) /\ rep[r] = None
    BY <1>1, <1>7, <2>1 DEF SoundRequest
  <2>. QED
    BY <1>4, <2>1, <2>2
<1>8. today' = today
  BY DEF SaveLoanForm
<1>. HIDE DEF q, sum
<1>. QED
  BY <1>3, <1>5, <1>6, <1>7, <1>8, RequestsKept

\* A step that leaves the books alone, a status or a new loan apart.
LEMMA BooksKeptSound ==
  ASSUME TypeOK, SoundRequests, SameDebt, UNCHANGED <<rep, paid, settled, today>>,
         \A v \in Workers : req'[v] # None => req'[v] = req[v]
  PROVE  SoundRequests'
<1>1. ASSUME NEW v \in Workers, req[v] # None
      PROVE  /\ paid[req[v].loan] \in Int /\ settled[req[v].loan] \in Int
             /\ \A r \in HeldBy(req[v]) : rep[r] = None
  BY <1>1, RequestFacts DEF SoundRequest, TypeOK
<1>. QED
  BY <1>1, RequestsKept

LEMMA RepaymentStepSound ==
  ASSUME AdminActs \cap Takebacks = {}, TypeOK, SoundRequests,
         NEW w \in Workers, RepaymentStep(w)
  PROVE  SoundRequests'
<1>1. ASSUME NEW l \in Loans, NEW r \in Receipts, NEW pay \in Payments,
             NEW offset \in PaidOffsets, CheckRepayment(w, l, r, pay, offset)
      PROVE  SoundRequests'
  <2>. DEFINE q == [NewRequest("repay", l) EXCEPT
                      !.receipt = r, !.pay = pay, !.on = today + offset]
  <2>1. today + offset \in Int /\ pay \in Payment
    BY CalendarAssumption, AmountAssumption DEF TypeOK, Payment
  <2>2. q \in Request
    BY <1>1, <2>1, NewRequestType DEF CheckRepayment
  <2>3. rep[r] = None /\ ~RowHeld(r) /\ loan[l].status # "unused"
    BY <1>1 DEF CheckRepayment, Takebacks, Exists, Statuses, Live, Terminal
  <2>4. /\ req' = [req EXCEPT ![w] = q]
        /\ UNCHANGED <<loan, rep, paid, settled, today>>
    BY <1>1 DEF CheckRepayment
  <2>5. q.loan = l /\ q.seen = loan[l] /\ q.receipt = r /\ q.second = None /\ q.close = FALSE
    BY DEF NewRequest
  <2>. HIDE DEF q
  <2>6. HeldBy(q) \subseteq {r}
    BY <2>5 DEF HeldBy
  <2>. QED
    BY <2>2, <2>3, <2>4, <2>5, <2>6, NewRequestSound
<1>. QED
  BY <1>1, SaveRepaymentSound, CommitRepaymentSound DEF RepaymentStep

LEMMA ActionStepSound ==
  ASSUME TypeOK, SoundRequests, NEW w \in Workers, ActionStep(w)
  PROVE  SoundRequests'
<1>1. ASSUME NEW l \in Loans, NEW amount \in Int, NEW op \in {"preclose", "renew", "topup"},
             Ask(w, op, l, amount)
      PROVE  SoundRequests'
  <2>. DEFINE q == [NewRequest(op, l) EXCEPT !.amount = amount]
  <2>1. q \in Request
    BY <1>1, NewRequestType DEF Ask, Exists, Statuses
  <2>2. /\ loan[l].status # "unused" /\ req' = [req EXCEPT ![w] = q]
        /\ UNCHANGED <<loan, rep, paid, settled, today>>
    BY <1>1 DEF Ask, Live
  <2>3. q.loan = l /\ q.seen = loan[l] /\ q.close = FALSE /\ HeldBy(q) = {}
    BY DEF NewRequest, HeldBy
  <2>. HIDE DEF q
  <2>. QED
    BY <2>1, <2>2, <2>3, NewRequestSound
<1>2. ASSUME NEW l \in Loans, AskPreclose(w, l) PROVE SoundRequests'
  BY <1>1, <1>2 DEF AskPreclose
<1>3. ASSUME NEW l \in Loans, AskRenew(w, l) PROVE SoundRequests'
  BY <1>1, <1>3 DEF AskRenew
<1>4. ASSUME NEW l \in Loans, NEW x \in Extras, AskTopup(w, l, x) PROVE SoundRequests'
  <2>1. Outstanding(loan[l], l) + x \in Int
    BY OutstandingType, AmountAssumption DEF TypeOK
  <2>. QED
    BY <1>1, <1>4, <2>1 DEF AskTopup
<1>5. ASSUME Abandon(w) PROVE SoundRequests'
  <2>1. SameDebt /\ \A v \in Workers : req'[v] # None => req'[v] = req[v]
    BY <1>5 DEF Abandon, SameDebt, TypeOK
  <2>. QED
    BY <1>5, <2>1, BooksKeptSound DEF Abandon
<1>. QED
  BY <1>2, <1>3, <1>4, <1>5, PrecloseSound, CarryForwardSound DEF ActionStep

LEMMA AdminStepSound ==
  ASSUME AdminActs \cap Takebacks = {}, TypeOK, SoundRequests, AdminStep
  PROVE  SoundRequests'
<1>1. ASSUME NEW l \in Loans, NEW p \in Principals, NEW offset \in StartOffsets,
             NEW status \in EntryStatuses, BookLoan(l, p, offset, status)
      PROVE  SoundRequests'
  <2>1. SameDebt /\ req' = req
    BY <1>1 DEF BookLoan, SameDebt, TypeOK
  <2>. QED
    BY <1>1, <2>1, BooksKeptSound DEF BookLoan
<1>2. ASSUME NEW r, DeleteRepayment(r) PROVE FALSE
  BY <1>2 DEF DeleteRepayment, Takebacks
<1>. QED
  BY <1>1, <1>2, DeleteLoanSound DEF AdminStep

LEMMA FormStepSound ==
  ASSUME AdminActs \cap Takebacks = {}, TypeOK, SoundRequests, NEW w \in Workers, FormStep(w)
  PROVE  SoundRequests'
<1>1. ASSUME NEW l \in Loans, OpenLoanForm(w, l) PROVE SoundRequests'
  <2>. DEFINE q == [NewRequest("form", l) EXCEPT !.stage = "open"]
  <2>1. q \in Request
    BY <1>1, NewRequestType DEF OpenLoanForm
  <2>2. /\ loan[l].status # "unused" /\ req' = [req EXCEPT ![w] = q]
        /\ UNCHANGED <<loan, rep, paid, settled, today>>
    BY <1>1 DEF OpenLoanForm, Exists, Statuses, Live, Terminal
  <2>3. q.loan = l /\ q.seen = loan[l] /\ q.close = FALSE /\ HeldBy(q) = {}
    BY DEF NewRequest, HeldBy
  <2>. HIDE DEF q
  <2>. QED
    BY <2>1, <2>2, <2>3, NewRequestSound
<1>2. ASSUME NEW fields \in FilledIn(req[w].seen), NEW one \in Lines, NEW two \in Lines,
             NEW lag \in Lags, PostLoanForm(w, fields, one, two, lag)
      PROVE  SoundRequests'
  <2>. DEFINE l == req[w].loan
              ln == Filled(loan[l], fields)
              q == PostedRequest(req[w], ln, one, two, today - lag)
  <2>1. /\ req[w] # None /\ req[w].stage = "open"
        /\ LinePasses(one, ln, l) /\ LinePasses(two, ln, l)
    BY <1>2 DEF PostLoanForm, Filled
  <2>2. req[w] \in Request /\ l \in Loans /\ SoundRequest(w) /\ Exists(l)
    BY <1>2, <2>1, RequestFacts DEF PostLoanForm
  <2>3. fields = req[w].seen
    BY <1>2 DEF FilledIn, Takebacks
  <2>4. ln.principal = loan[l].principal /\ ln.start = loan[l].start
    <3>1. loan[l] \in LoanRow
      BY <2>2 DEF TypeOK
    <3>. QED
      BY <2>2, <2>3, <3>1 DEF SoundRequest, Filled, LoanRow
  <2>5. /\ q \in Request /\ req' = [req EXCEPT ![w] = q]
        /\ UNCHANGED <<loan, rep, paid, settled, today>>
    BY <1>2, PostedFacts
  <2>6. /\ q.loan = l /\ q.seen = ln /\ q.close = req[w].close
        /\ q.receipt = one.receipt /\ q.second = two.receipt
    BY <2>2 DEF PostedRequest, Request
  <2>7. q.close = FALSE
    <3>1. req[w].close \in BOOLEAN
      BY <2>2 DEF Request
    <3>. QED
      BY <2>1, <2>2, <2>6, <3>1 DEF SoundRequest, StillClears
  <2>8. loan[l].status # "unused"
    BY <2>2 DEF Exists, Statuses, Live, Terminal
  <2>. HIDE DEF q, ln, l
  <2>9. \A r \in HeldBy(q) : rep[r] = None /\ ~RowHeld(r)
    BY <2>1, <2>6 DEF HeldBy, LinePasses
  <2>. QED
    BY <2>4, <2>5, <2>6, <2>7, <2>8, <2>9, NewRequestSound
<1>. QED
  BY <1>1, <1>2, SaveLoanFormSound DEF FormStep

LEMMA ClassifierSound ==
  ASSUME TypeOK, SoundRequests, ClassifierStep
  PROVE  SoundRequests'
<1>1. ASSUME NEW l \in Loans, NEW condition, NEW to \in Live, Visit(l, condition, to)
      PROVE  SoundRequests'
  <2>1. loan' = loan \/ loan' = [loan EXCEPT ![l].status = to]
    BY <1>1 DEF Visit
  <2>2. SameDebt
    BY <2>1 DEF SameDebt, TypeOK, LoanRow, Live
  <2>. QED
    BY <1>1, <2>2, BooksKeptSound DEF Visit
<1>2. CASE UNCHANGED <<loan, rep, paid, settled, today, req>>
  BY <1>2, BooksKeptSound DEF SameDebt
<1>. QED
  BY <1>1, <1>2
     DEF ClassifierStep, ListActive, ListOverdue, EndScan, MarkOverdue, ClearOverdue, Live

LEMMA NextSound ==
  ASSUME AdminActs \cap Takebacks = {}
  PROVE  TypeOK /\ SoundRequests /\ [Next]_vars => SoundRequests'
<1>. SUFFICES ASSUME TypeOK, SoundRequests, [Next]_vars PROVE SoundRequests'
  OBVIOUS
<1>1. CASE Tick
  <2>1. /\ UNCHANGED <<loan, rep, paid, settled, req>>
        /\ \A v \in Workers : req[v] # None => req[v].stage = "open"
    BY <1>1 DEF Tick
  <2>2. ASSUME NEW v \in Workers, req[v] # None PROVE SoundRequest(v)'
    <3>1. SoundRequest(v)
      BY <2>2 DEF SoundRequests
    <3>2. ~req[v].close
      BY <2>1, <2>2, <3>1 DEF SoundRequest, StillClears
    <3>. QED
      BY <2>1, <3>1, <3>2 DEF SoundRequest, HeldBy
  <2>. QED
    BY <2>1, <2>2 DEF SoundRequests
<1>2. CASE UNCHANGED vars
  BY <1>2, BooksKeptSound DEF vars, SameDebt
<1>. QED
  BY <1>1, <1>2, RepaymentStepSound, ActionStepSound, FormStepSound, AdminStepSound,
     ClassifierSound DEF Next

\* A repayment that clears loan l as the books stand has cleared it still when
\* more than that is counted.
LEMMA ClearedStaysCleared ==
  ASSUME TypeOK, TypeOK', NEW l \in Loans, NEW p \in Nat, NEW i \in Nat, NEW w \in Nat,
         Outstanding(loan[l], l) <= p, Accrued(loan[l]) <= settled[l] + i + w,
         paid[l] + p <= paid'[l], settled[l] + i + w <= settled'[l],
         loan'[l].principal = loan[l].principal, loan'[l].start = loan[l].start,
         today' = today
  PROVE  Outstanding(loan[l], l)' <= 0 /\ InterestDue(loan[l], l)' = 0
<1>1. /\ loan[l] \in LoanRow /\ loan'[l] \in LoanRow
      /\ paid[l] \in Int /\ settled[l] \in Int /\ paid'[l] \in Int /\ settled'[l] \in Int
      /\ loan[l].principal \in Int
  BY DEF TypeOK, LoanRow
<1>2. Accrued(loan[l])' = Accrued(loan[l]) /\ Accrued(loan[l]) \in Int
  BY <1>1, AccruedType DEF Accrued
<1>3. Outstanding(loan[l], l)' <= 0
  BY <1>1 DEF Outstanding
<1>. QED
  BY <1>1, <1>2, <1>3 DEF InterestDue, NonNegative

AutoCloses ==
  \A w \in Workers, l \in Loans :
    (/\ req[w] # None /\ req[w].loan = l /\ req[w].seen.status \in Live
     /\ req'[w] = None /\ rep' # rep
     /\ loan[l].status \in Live /\ loan'[l].status = "closed") =>
      Outstanding(loan[l], l)' <= 0 /\ InterestDue(loan[l], l)' = 0

LEMMA CommitAutoCloses ==
  ASSUME TypeOK, TypeOK', SoundRequests, NEW w \in Workers, CommitRepayment(w)
  PROVE  AutoCloses
<1>. SUFFICES ASSUME NEW l \in Loans, loan[l].status \in Live, loan'[l].status = "closed"
              PROVE  Outstanding(loan[l], l)' <= 0 /\ InterestDue(loan[l], l)' = 0
  BY DEF AutoCloses
<1>. DEFINE q == req[w]
<1>0. q.receipt \in HeldBy(q)
  BY RequestFacts DEF CommitRepayment
<1>1. /\ q \in Request /\ q.op = "repay" /\ q.loan \in Loans /\ q.seen \in LoanRow
      /\ q.pay \in Payment /\ q.close \in BOOLEAN /\ SoundRequest(w)
  BY RequestFacts DEF CommitRepayment
<1>2. /\ loan' = IF q.close THEN [loan EXCEPT ![q.loan].status = "closed"] ELSE loan
      /\ today' = today
  BY DEF CommitRepayment
<1>3. q.close /\ q.loan = l
  BY <1>1, <1>2 DEF TypeOK, Live
<1>4. loan'[l].principal = loan[l].principal /\ loan'[l].start = loan[l].start
  BY <1>2, <1>3 DEF TypeOK, LoanRow
<1>5. StillClears(q) /\ q.seen.principal = loan[l].principal /\ q.seen.start = loan[l].start
  BY <1>1, <1>3 DEF SoundRequest
<1>6. q.pay.p \in Nat /\ q.pay.i \in Nat /\ q.pay.w \in Nat
  BY <1>1 DEF Payment
<1>7. /\ Outstanding(loan[l], l) <= q.pay.p
      /\ Accrued(loan[l]) <= settled[l] + q.pay.i + q.pay.w
  BY <1>3, <1>5 DEF StillClears, Outstanding, Accrued
<1>8. /\ paid[l] + q.pay.p <= paid'[l]
      /\ settled[l] + q.pay.i + q.pay.w <= settled'[l]
  <2>1. Stored(q.receipt) = NoPay
    BY <1>0, <1>1 DEF SoundRequest, Stored
  <2>2. /\ paid' = [paid EXCEPT ![l] = @ - 0 + q.pay.p]
        /\ settled' = [settled EXCEPT ![l] = @ - 0 - 0 + q.pay.i + q.pay.w]
    BY <1>3, <2>1 DEF CommitRepayment, Retotal, NoPay
  <2>. HIDE DEF q
  <2>. QED
    BY <1>6, <2>2 DEF TypeOK
<1>. HIDE DEF q
<1>. QED
  BY <1>2, <1>4, <1>6, <1>7, <1>8, ClearedStaysCleared

\* The rows of a form close the loan on the figures of its instance, which are the
\* loan's though the form may have been opened long before.
LEMMA FormAutoCloses ==
  ASSUME TypeOK, TypeOK', SoundRequests, NEW w \in Workers, SaveLoanForm(w)
  PROVE  AutoCloses
<1>. DEFINE q == req[w]
            sum == Both(q.pay, q.secondPay)
<1>1. \A v \in Workers \ {w} : req'[v] = req[v]
  BY DEF SaveLoanForm, TypeOK
<1>. SUFFICES ASSUME NEW l \in Loans, q.loan = l, q.seen.status \in Live,
                     loan'[l].status = "closed"
              PROVE  Outstanding(loan[l], l)' <= 0 /\ InterestDue(loan[l], l)' = 0
  BY <1>1 DEF AutoCloses
<1>2. q \in Request /\ q.seen \in LoanRow /\ SoundRequest(w)
  BY RequestFacts DEF SaveLoanForm
<1>3. /\ loan' = [loan EXCEPT ![l] = SavedInstance(q)] /\ SavedInstance(q) \in LoanRow
      /\ sum \in Payment
  BY SaveLoanFormType
<1>4. SavedInstance(q).status = "closed" /\ loan'[l] = SavedInstance(q)
  BY <1>3 DEF TypeOK
<1>5. ClearsLoan(q.seen, l, NoPay, sum)
  BY <1>4 DEF SavedInstance, Live
<1>6. /\ SavedInstance(q).principal = q.seen.principal
      /\ SavedInstance(q).start = q.seen.start
  BY <1>2 DEF SavedInstance, LoanRow
<1>7. q.seen.principal = loan[l].principal /\ q.seen.start = loan[l].start
  BY <1>2 DEF SoundRequest
<1>8. sum.p \in Nat /\ sum.i \in Nat /\ sum.w \in Nat
  BY <1>3 DEF Payment
<1>9. Outstanding(loan[l], l) = Outstanding(q.seen, l) /\ Accrued(loan[l]) = Accrued(q.seen)
  BY <1>7 DEF Outstanding, Accrued
<1>10. /\ paid[l] \in Int /\ settled[l] \in Int /\ Accrued(q.seen) \in Int
       /\ Outstanding(q.seen, l) \in Int
  BY <1>2, AccruedType, OutstandingType DEF TypeOK
<1>11. /\ paid' = [paid EXCEPT ![l] = @ - 0 + sum.p]
       /\ settled' = [settled EXCEPT ![l] = @ - 0 - 0 + sum.i + sum.w]
       /\ today' = today
  BY DEF SaveLoanForm, Retotal, NoPay
<1>12. loan'[l].principal = loan[l].principal /\ loan'[l].start = loan[l].start
  BY <1>4, <1>6, <1>7
<1>. HIDE DEF sum, q
<1>13. Outstanding(q.seen, l) <= sum.p /\ Accrued(q.seen) <= settled[l] + sum.i + sum.w
  BY <1>5, <1>8, <1>10 DEF ClearsLoan, NoPay
<1>14. paid[l] + sum.p <= paid'[l] /\ settled[l] + sum.i + sum.w <= settled'[l]
  BY <1>8, <1>10, <1>11 DEF TypeOK
<1>. QED
  BY <1>8, <1>9, <1>11, <1>12, <1>13, <1>14, ClearedStaysCleared

LEMMA NextAutoCloses ==
  ASSUME AdminActs \cap Takebacks = {}
  PROVE  TypeOK /\ TypeOK' /\ SoundRequests /\ [Next]_vars => [AutoCloses]_vars
<1>. SUFFICES ASSUME TypeOK, TypeOK', SoundRequests, Next PROVE AutoCloses
  OBVIOUS
<1>1. CASE rep' = rep
  BY <1>1 DEF AutoCloses
<1>2. ASSUME NEW w \in Workers, RepaymentStep(w) PROVE AutoCloses
  BY <1>1, <1>2, CommitAutoCloses DEF RepaymentStep, CheckRepayment, SaveRepayment
<1>3. ASSUME NEW w \in Workers, ActionStep(w) PROVE rep' = rep
  BY <1>3
     DEF ActionStep, AskPreclose, AskRenew, AskTopup, Ask, Preclose, CarryForward, Abandon
<1>4. CASE req' = req
  BY <1>4 DEF AutoCloses
<1>5. ASSUME AdminStep PROVE req' = req
  BY <1>5 DEF AdminStep, BookLoan, DeleteLoan, DeleteRepayment
<1>6. ASSUME NEW w \in Workers, FormStep(w) PROVE AutoCloses
  <2>1. ASSUME NEW l, OpenLoanForm(w, l) PROVE rep' = rep
    BY <2>1 DEF OpenLoanForm
  <2>2. ASSUME NEW fields, NEW one, NEW two, NEW lag, PostLoanForm(w, fields, one, two, lag)
        PROVE  rep' = rep
    BY <2>2 DEF PostLoanForm
  <2>. QED
    BY <1>1, <1>6, <2>1, <2>2, FormAutoCloses DEF FormStep
<1>7. ASSUME ClassifierStep PROVE rep' = rep
  BY <1>7
     DEF ClassifierStep, ListActive, ListOverdue, EndScan, MarkOverdue, ClearOverdue, Visit
<1>8. ASSUME Tick PROVE rep' = rep
  BY <1>8 DEF Tick
<1>. QED
  BY <1>1, <1>2, <1>3, <1>4, <1>5, <1>6, <1>7, <1>8 DEF Next

\* As deployed: repayments that close a running loan, on a form of their own or as
\* rows of a loan form opened any time before, leave it fully settled in the
\* committed books, though the decision fell before the commit and other
\* repayments, pre-closes and deletions may come in between; corrections that
\* take back amounts already counted, or change the debt, are left out.
THEOREM AutoClosesAreJustified ==
  ASSUME AdminActs \cap Takebacks = {}
  PROVE  Spec => AutoCloseJustified
<1>1. Init => TypeOK /\ SoundRequests
  BY InitType, InitRequests
<1>2. TypeOK /\ SoundRequests /\ [Next]_vars => (TypeOK /\ SoundRequests)'
  BY NextType, NextSound
<1>3. TypeOK /\ TypeOK' /\ SoundRequests /\ [Next]_vars =>
        [\A w \in Workers, l \in Loans :
           (/\ req[w] # None /\ req[w].loan = l /\ req[w].seen.status \in Live
            /\ req'[w] = None /\ rep' # rep
            /\ loan[l].status \in Live /\ loan'[l].status = "closed") =>
             Outstanding(loan[l], l)' <= 0 /\ InterestDue(loan[l], l)' = 0]_vars
  BY NextAutoCloses DEF AutoCloses
<1>. QED
  BY <1>1, <1>2, <1>3, PTL DEF Spec, AutoCloseJustified

-----------------------------------------------------------------------------
(* Requests kept apart.                                                      *)
(*                                                                           *)
(* Without SameLoanOverlap the instance a request holds stays equal to the   *)
(* row (up to renewed_to, which deleting another loan may clear), so writing *)
(* all of its fields back does no harm.                                      *)

\* The invariant: what a request read is still so, no two requests are on one
\* loan, the classifier's list is up to date, and a key not yet used by a loan
\* is not the name of a pledge either.
FreshRead ==
  \A w \in Workers : req[w] # None =>
    LET q == req[w] IN
    /\ q.seen.status = loan[q.loan].status /\ q.seen.status \in Statuses
    /\ q.seen.principal = loan[q.loan].principal
    /\ q.seen.start = loan[q.loan].start
    /\ q.seen.pledge = loan[q.loan].pledge
    /\ q.op \notin {"repay", "form"} => q.seen.status \in Live

OneRequestPerLoan ==
  \A v, w \in Workers :
    req[v] # None /\ req[w] # None /\ req[v].loan = req[w].loan => v = w

FreshList ==
  \A l \in scan.todo : loan[l].status \in Live /\ ~Busy(l)

FreshPledge ==
  \A l, m \in Loans : loan[l].status = "unused" => loan[m].pledge # l

Apart == FreshRead /\ OneRequestPerLoan /\ FreshList /\ FreshPledge

ApartInv == TypeOK /\ Apart /\ OneLoanPerPledge

\* The step leaves the row of m as it is, its link apart.
SameRow(m) ==
  /\ loan'[m].status = loan[m].status
  /\ loan'[m].principal = loan[m].principal
  /\ loan'[m].start = loan[m].start
  /\ loan'[m].pledge = loan[m].pledge

LEMMA InitApart == Init => Apart /\ OneLoanPerPledge
<1>. SUFFICES ASSUME Init PROVE Apart /\ OneLoanPerPledge
  OBVIOUS
<1>1. \A l \in Loans : loan[l].status = "unused" /\ loan[l].pledge = None
  BY DEF Init, NoRow
<1>2. FreshRead /\ OneRequestPerLoan /\ FreshList
  BY DEF Init, FreshRead, OneRequestPerLoan, FreshList
<1>3. FreshPledge
  BY <1>1, DeskAssumption DEF FreshPledge
<1>4. OneLoanPerPledge
  BY <1>1 DEF OneLoanPerPledge, Live
<1>. QED
  BY <1>2, <1>3, <1>4 DEF Apart

\* A request is let in on a loan that no other request and no list holds.
LEMMA NewRequestApart ==
  ASSUME ~SameLoanOverlap, ApartInv, NEW w \in Workers, NEW l \in Loans, NEW q \in Request,
         q.loan = l, q.seen = loan[l], Exists(l), MayTouch(l),
         q.op \notin {"repay", "form"} => loan[l].status \in Live,
         req' = [req EXCEPT ![w] = q], UNCHANGED <<loan, scan>>
  PROVE  Apart' /\ OneLoanPerPledge'
<1>0. TypeOK /\ Apart /\ OneLoanPerPledge
  BY DEF ApartInv
<1>1. ~Busy(l) /\ l \notin scan.todo
  BY DEF MayTouch
<1>2. req'[w] = q /\ \A v \in Workers \ {w} : req'[v] = req[v]
  BY <1>0 DEF TypeOK
<1>3. FreshRead'
  BY <1>0, <1>2 DEF Apart, FreshRead, Exists
<1>4. OneRequestPerLoan'
  BY <1>0, <1>1, <1>2 DEF Apart, OneRequestPerLoan, Busy
<1>5. FreshList'
  BY <1>0, <1>1, <1>2 DEF Apart, FreshList, Busy
<1>6. FreshPledge' /\ OneLoanPerPledge'
  BY <1>0 DEF Apart, FreshPledge, OneLoanPerPledge
<1>. QED
  BY <1>3, <1>4, <1>5, <1>6 DEF Apart

\* A step that starts no request, moves no request to another loan and rewrites
\* no row but its links.
LEMMA QuietStepApart ==
  ASSUME ApartInv, \A m \in Loans : SameRow(m),
         \A v \in Workers : \/ req'[v] = None
                             \/ /\ req'[v] # None /\ req[v] # None
                                /\ req'[v].loan = req[v].loan /\ req'[v].seen = req[v].seen
                                /\ req'[v].op = req[v].op,
         req \in [Workers -> Request \cup {None}],
         scan'.todo \subseteq scan.todo
  PROVE  Apart' /\ OneLoanPerPledge'
<1>0. Apart /\ OneLoanPerPledge
  BY DEF ApartInv
<1>1. \A v \in Workers : req[v] # None => req[v].loan \in Loans
  BY DEF Request
<1>2. FreshRead'
  BY <1>0, <1>1 DEF Apart, FreshRead, SameRow
<1>3. OneRequestPerLoan'
  BY <1>0 DEF Apart, OneRequestPerLoan
<1>4. FreshList'
  <2>1. scan.todo \subseteq Loans
    BY DEF ApartInv, TypeOK
  <2>. QED
    BY <1>0, <2>1 DEF Apart, FreshList, Busy, SameRow
<1>5. FreshPledge' /\ OneLoanPerPledge'
  BY <1>0 DEF Apart, FreshPledge, OneLoanPerPledge, SameRow
<1>. QED
  BY <1>2, <1>3, <1>4, <1>5 DEF Apart

\* A step that rewrites the row of one loan, which is then held by nobody, and
\* does not bring it back to life.
LEMMA OneRowApart ==
  ASSUME ApartInv, NEW l \in Loans,
         \A m \in Loans \ {l} : SameRow(m),
         loan'[l].pledge = loan[l].pledge,
         loan[l].status # "unused", loan'[l].status # "unused",
         loan'[l].status \in Live => loan[l].status \in Live,
         \A v \in Workers : req'[v] # None => req'[v] = req[v] /\ req[v].loan # l,
         scan'.todo \subseteq scan.todo \ {l}
  PROVE  Apart' /\ OneLoanPerPledge'
<1>0. TypeOK /\ Apart /\ OneLoanPerPledge
  BY DEF ApartInv
<1>1. \A v \in Workers : req[v] # None => req[v].loan \in Loans
  BY <1>0 DEF TypeOK, Request
<1>2. FreshRead'
  BY <1>0, <1>1 DEF Apart, FreshRead, SameRow
<1>3. OneRequestPerLoan'
  BY <1>0 DEF Apart, OneRequestPerLoan
<1>4. FreshList'
  <2>1. scan.todo \subseteq Loans
    BY <1>0 DEF TypeOK
  <2>. QED
    BY <1>0, <2>1 DEF Apart, FreshList, Busy, SameRow
<1>5. FreshPledge'
  BY <1>0 DEF Apart, FreshPledge, SameRow
<1>6. OneLoanPerPledge'
  BY <1>0 DEF OneLoanPerPledge, SameRow
<1>. QED
  BY <1>2, <1>3, <1>4, <1>5, <1>6 DEF Apart

LEMMA BookLoanApart ==
  ASSUME ApartInv, NEW l \in Loans, NEW p \in Principals, NEW offset \in StartOffsets,
         NEW status \in EntryStatuses, BookLoan(l, p, offset, status)
  PROVE  Apart' /\ OneLoanPerPledge'
<1>0. TypeOK /\ Apart /\ OneLoanPerPledge
  BY DEF ApartInv
<1>1. /\ loan[l].status = "unused"
      /\ loan'[l].status \in Statuses /\ loan'[l].pledge = l
      /\ \A m \in Loans \ {l} : loan'[m] = loan[m]
      /\ UNCHANGED <<req, scan>>
  BY <1>0, AmountAssumption DEF BookLoan, TypeOK
<1>2. \A v \in Workers : req[v] # None => req[v].loan \in Loans \ {l}
  BY <1>0, <1>1 DEF TypeOK, Request, Apart, FreshRead, Statuses, Live, Terminal
<1>3. FreshRead'
  BY <1>0, <1>1, <1>2 DEF Apart, FreshRead
<1>4. OneRequestPerLoan'
  BY <1>0, <1>1 DEF Apart, OneRequestPerLoan
<1>5. FreshList'
  <2>1. scan.todo \subseteq Loans \ {l}
    BY <1>0, <1>1 DEF TypeOK, Apart, FreshList, Live
  <2>. QED
    BY <1>0, <1>1, <2>1 DEF Apart, FreshList, Busy
<1>6. FreshPledge'
  BY <1>0, <1>1 DEF Apart, FreshPledge, Statuses, Live, Terminal
<1>7. OneLoanPerPledge'
  <2>1. \A m \in Loans : loan[m].pledge # l
    BY <1>0, <1>1 DEF Apart, FreshPledge
  <2>. QED
    BY <1>0, <1>1, <2>1 DEF OneLoanPerPledge
<1>. QED
  BY <1>3, <1>4, <1>5, <1>6, <1>7 DEF Apart

LEMMA CommitRepaymentApart ==
  ASSUME ApartInv, NEW w \in Workers, CommitRepayment(w)
  PROVE  Apart' /\ OneLoanPerPledge'
<1>. DEFINE l == req[w].loan
<1>0. TypeOK /\ Apart /\ OneLoanPerPledge
  BY DEF ApartInv
<1>1. /\ req[w] # None /\ req[w] \in Request /\ l \in Loans
      /\ req'[w] = None /\ scan' = scan
      /\ \A v \in Workers \ {w} : req'[v] = req[v]
  BY <1>0 DEF CommitRepayment, TypeOK, Request
<1>2. /\ loan'[l].pledge = loan[l].pledge
      /\ loan'[l].status \in {loan[l].status, "closed"}
      /\ \A m \in Loans \ {l} : SameRow(m)
  BY <1>0, <1>1 DEF CommitRepayment, TypeOK, LoanRow, SameRow
<1>3. loan[l].status \in Statuses
  BY <1>0, <1>1 DEF Apart, FreshRead
<1>4. \A v \in Workers : req'[v] # None => req'[v] = req[v] /\ req[v].loan # l
  BY <1>0, <1>1 DEF Apart, OneRequestPerLoan
<1>5. l \notin scan.todo
  BY <1>0, <1>1 DEF Apart, FreshList, Busy
<1>. HIDE DEF l
<1>. QED
  BY <1>1, <1>2, <1>3, <1>4, <1>5, OneRowApart DEF Live, Statuses, Terminal

LEMMA PrecloseApart ==
  ASSUME ApartInv, NEW w \in Workers, Preclose(w)
  PROVE  Apart' /\ OneLoanPerPledge'
<1>. DEFINE l == req[w].loan
<1>0. TypeOK /\ Apart /\ OneLoanPerPledge
  BY DEF ApartInv
<1>1. /\ req[w] # None /\ req[w] \in Request /\ l \in Loans
      /\ req'[w] = None /\ scan' = scan
      /\ \A v \in Workers \ {w} : req'[v] = req[v]
  BY <1>0 DEF Preclose, TypeOK, Request
<1>2. req[w].seen \in LoanRow /\ req[w].seen.pledge = loan[l].pledge
  BY <1>0, <1>1 DEF Request, Apart, FreshRead
<1>3. /\ loan'[l].pledge = loan[l].pledge
      /\ loan'[l].status = "closed"
      /\ \A m \in Loans \ {l} : SameRow(m)
  BY <1>0, <1>1, <1>2 DEF Preclose, TypeOK, LoanRow, SameRow
<1>4. loan[l].status \in Statuses
  BY <1>0, <1>1 DEF Apart, FreshRead
<1>5. \A v \in Workers : req'[v] # None => req'[v] = req[v] /\ req[v].loan # l
  BY <1>0, <1>1 DEF Apart, OneRequestPerLoan
<1>6. l \notin scan.todo
  BY <1>0, <1>1 DEF Apart, FreshList, Busy
<1>. HIDE DEF l
<1>. QED
  BY <1>1, <1>3, <1>4, <1>5, <1>6, OneRowApart DEF Live, Statuses, Terminal

\* Renewal and top-up: the new loan takes the pledge over from the one running
\* loan that had it, in the same step that closes that loan.
LEMMA CarryForwardApart ==
  ASSUME ApartInv, NEW w \in Workers, NEW n \in Loans, NEW lag \in Lags,
         CarryForward(w, n, lag)
  PROVE  Apart' /\ OneLoanPerPledge'
<1>. DEFINE l == req[w].loan
<1>0. TypeOK /\ Apart /\ OneLoanPerPledge
  BY DEF ApartInv
<1>1. /\ req[w] # None /\ req[w] \in Request /\ l \in Loans
      /\ req'[w] = None /\ scan' = scan
      /\ \A v \in Workers \ {w} : req'[v] = req[v]
      /\ loan[n].status = "unused" /\ req[w].op \in {"renew", "topup"}
  BY <1>0 DEF CarryForward, TypeOK, Request
<1>2. /\ req[w].seen \in LoanRow /\ req[w].seen.pledge = loan[l].pledge
      /\ loan[l].status \in Live
  BY <1>0, <1>1 DEF Request, Apart, FreshRead
<1>3. n # l
  BY <1>1, <1>2 DEF Live
<1>4. /\ loan'[l].pledge = loan[l].pledge /\ loan'[l].status = "closed"
      /\ loan'[n].pledge = loan[l].pledge /\ loan'[n].status = "active"
      /\ \A m \in Loans \ {l, n} : loan'[m] = loan[m]
  BY <1>0, <1>1, <1>2, <1>3 DEF CarryForward, TypeOK, LoanRow
<1>5. \A v \in Workers : req'[v] # None => req'[v] = req[v] /\ req[v].loan \in Loans \ {l, n}
  BY <1>0, <1>1
     DEF Apart, OneRequestPerLoan, FreshRead, TypeOK, Request, Statuses, Live, Terminal
<1>6. scan.todo \subseteq Loans \ {l, n}
  BY <1>0, <1>1 DEF Apart, FreshList, Busy, TypeOK, Live
<1>. HIDE DEF l
<1>7. FreshRead'
  BY <1>0, <1>4, <1>5 DEF Apart, FreshRead
<1>8. OneRequestPerLoan'
  BY <1>0, <1>5 DEF Apart, OneRequestPerLoan
<1>9. FreshList'
  BY <1>0, <1>1, <1>4, <1>5, <1>6 DEF Apart, FreshList, Busy
<1>10. FreshPledge'
  BY <1>0, <1>1, <1>4, <1>3 DEF Apart, FreshPledge
<1>11. OneLoanPerPledge'
  BY <1>0, <1>1, <1>2, <1>4 DEF OneLoanPerPledge, Live
<1>. QED
  BY <1>7, <1>8, <1>9, <1>10, <1>11 DEF Apart

LEMMA DeleteLoanApart ==
  ASSUME ~SameLoanOverlap, ApartInv, NEW l \in Loans, DeleteLoan(l)
  PROVE  Apart' /\ OneLoanPerPledge'
<1>0. TypeOK /\ ~Busy(l) /\ l \notin scan.todo /\ loan[l].status \in Statuses
  BY DEF ApartInv, DeleteLoan, MayTouch, Exists
<1>1. /\ loan'[l].pledge = loan[l].pledge /\ loan'[l].status = "deleted"
      /\ req' = req /\ scan' = scan
  <2>1. loan[l] \in LoanRow
    BY <1>0 DEF TypeOK
  <2>2. loan'[l] = [loan[l] EXCEPT !.status = "deleted", !.renewedTo = None]
    BY DEF DeleteLoan
  <2>3. req' = req /\ scan' = scan
    BY DEF DeleteLoan
  <2>. QED
    BY <2>1, <2>2, <2>3 DEF LoanRow
<1>2. \A m \in Loans \ {l} : SameRow(m)
  <2>1. \A m \in Loans \ {l} : loan[m] \in LoanRow
    BY <1>0 DEF TypeOK
  <2>. QED
    BY <2>1 DEF DeleteLoan, LoanRow, SameRow
<1>3. \A v \in Workers : req'[v] # None => req'[v] = req[v] /\ req[v].loan # l
  BY <1>0, <1>1 DEF Busy
<1>. QED
  BY <1>0, <1>1, <1>2, <1>3, OneRowApart DEF Live, Statuses, Terminal

\* Kept apart, a form that sends back what it showed finds that still so.
LEMMA SaveLoanFormApart ==
  ASSUME ApartInv, NEW w \in Workers, SaveLoanForm(w)
  PROVE  Apart' /\ OneLoanPerPledge'
<1>. DEFINE l == req[w].loan
<1>0. TypeOK /\ Apart /\ OneLoanPerPledge
  BY DEF ApartInv
<1>1. /\ req[w] # None /\ req[w] \in Request /\ l \in Loans
      /\ req'[w] = None /\ scan' = scan
      /\ \A v \in Workers \ {w} : req'[v] = req[v]
  BY <1>0 DEF SaveLoanForm, TypeOK, Request
<1>2. /\ req[w].seen \in LoanRow /\ req[w].seen.pledge = loan[l].pledge
      /\ req[w].seen.status = loan[l].status /\ loan[l].status \in Statuses
  BY <1>0, <1>1 DEF Request, Apart, FreshRead
<1>3. /\ SavedInstance(req[w]).pledge = loan[l].pledge
      /\ SavedInstance(req[w]).status \in {loan[l].status, "closed"}
  BY <1>2 DEF SavedInstance, LoanRow
<1>4. loan' = [loan EXCEPT ![l] = SavedInstance(req[w])]
  BY <1>0, SaveLoanFormType
<1>5. \A v \in Workers : req'[v] # None => req'[v] = req[v] /\ req[v].loan # l
  BY <1>0, <1>1 DEF Apart, OneRequestPerLoan
<1>6. l \notin scan.todo
  BY <1>0, <1>1 DEF Apart, FreshList, Busy
<1>. HIDE DEF l
<1>7. /\ loan'[l].pledge = loan[l].pledge /\ loan'[l].status \in {loan[l].status, "closed"}
      /\ \A m \in Loans \ {l} : SameRow(m)
  BY <1>0, <1>1, <1>3, <1>4 DEF TypeOK, SameRow
<1>. QED
  BY <1>1, <1>2, <1>5, <1>6, <1>7, OneRowApart DEF Live, Statuses, Terminal

LEMMA VisitApart ==
  ASSUME ApartInv, NEW l \in Loans, NEW condition, NEW to \in Live, Visit(l, condition, to)
  PROVE  Apart' /\ OneLoanPerPledge'
<1>0. TypeOK /\ Apart /\ l \in scan.todo
  BY DEF ApartInv, Visit
<1>1. loan[l].status \in Live /\ ~Busy(l)
  BY <1>0 DEF Apart, FreshList
<1>2. req' = req /\ scan'.todo \subseteq scan.todo \ {l}
  BY <1>0 DEF Visit, TypeOK
<1>3. loan' = loan \/ loan' = [loan EXCEPT ![l].status = to]
  BY DEF Visit
<1>4. /\ loan'[l].pledge = loan[l].pledge
      /\ loan'[l].status \in {loan[l].status, to}
      /\ \A m \in Loans \ {l} : SameRow(m)
  BY <1>0, <1>3 DEF TypeOK, LoanRow, SameRow
<1>5. \A v \in Workers : req'[v] # None => req'[v] = req[v] /\ req[v].loan # l
  BY <1>1, <1>2 DEF Busy
<1>. QED
  BY <1>1, <1>2, <1>4, <1>5, OneRowApart DEF Live

LEMMA RepaymentStepApart ==
  ASSUME ~SameLoanOverlap, ApartInv, NEW w \in Workers, RepaymentStep(w)
  PROVE  Apart' /\ OneLoanPerPledge'
<1>0. TypeOK
  BY DEF ApartInv
<1>1. ASSUME NEW l \in Loans, NEW r \in Receipts, NEW pay \in Payments,
             NEW offset \in PaidOffsets, CheckRepayment(w, l, r, pay, offset)
      PROVE  Apart' /\ OneLoanPerPledge'
  <2>. DEFINE q == [NewRequest("repay", l) EXCEPT
                      !.receipt = r, !.pay = pay, !.on = today + offset]
  <2>1. today + offset \in Int /\ pay \in Payment
    BY <1>0, CalendarAssumption, AmountAssumption DEF TypeOK, Payment
  <2>2. q \in Request
    BY <1>0, <1>1, <2>1, NewRequestType DEF CheckRepayment
  <2>3. /\ Exists(l) /\ MayTouch(l)
        /\ req' = [req EXCEPT ![w] = q] /\ UNCHANGED <<loan, scan>>
    BY <1>1 DEF CheckRepayment
  <2>4. q.loan = l /\ q.seen = loan[l] /\ q.op = "repay"
    BY DEF NewRequest
  <2>. HIDE DEF q
  <2>. QED
    BY <2>2, <2>3, <2>4, NewRequestApart
<1>2. ASSUME SaveRepayment(w) PROVE Apart' /\ OneLoanPerPledge'
  <2>1. req[w] \in Request /\ req[w] # None
    BY <1>0, <1>2 DEF SaveRepayment, TypeOK
  <2>2. /\ req'[w].loan = req[w].loan /\ req'[w].seen = req[w].seen
        /\ req'[w].op = req[w].op
        /\ \A v \in Workers \ {w} : req'[v] = req[v]
        /\ loan' = loan /\ scan' = scan
    BY <1>0, <1>2, <2>1 DEF SaveRepayment, TypeOK, Request
  <2>3. \A v \in Workers : req'[v] # None => req[v] # None
    BY <2>1, <2>2
  <2>4. \A m \in Loans : SameRow(m)
    BY <2>2 DEF SameRow
  <2>. QED
    BY <1>0, <2>1, <2>2, <2>3, <2>4, QuietStepApart DEF TypeOK
<1>. QED
  BY <1>1, <1>2, CommitRepaymentApart DEF RepaymentStep

LEMMA ActionStepApart ==
  ASSUME ~SameLoanOverlap, ApartInv, NEW w \in Workers, ActionStep(w)
  PROVE  Apart' /\ OneLoanPerPledge'
<1>0. TypeOK
  BY DEF ApartInv
<1>1. ASSUME NEW l \in Loans, NEW amount \in Int, NEW op \in {"preclose", "renew", "topup"},
             Ask(w, op, l, amount)
      PROVE  Apart' /\ OneLoanPerPledge'
  <2>. DEFINE q == [NewRequest(op, l) EXCEPT !.amount = amount]
  <2>1. Exists(l)
    BY <1>1 DEF Ask, Exists, Statuses
  <2>2. q \in Request
    BY <1>0, <2>1, NewRequestType
  <2>3. /\ loan[l].status \in Live /\ MayTouch(l)
        /\ req' = [req EXCEPT ![w] = q] /\ UNCHANGED <<loan, scan>>
    BY <1>1 DEF Ask
  <2>4. q.loan = l /\ q.seen = loan[l]
    BY DEF NewRequest
  <2>. HIDE DEF q
  <2>. QED
    BY <2>1, <2>2, <2>3, <2>4, NewRequestApart
<1>2. ASSUME NEW l \in Loans, AskPreclose(w, l) PROVE Apart' /\ OneLoanPerPledge'
  BY <1>1, <1>2 DEF AskPreclose
<1>3. ASSUME NEW l \in Loans, AskRenew(w, l) PROVE Apart' /\ OneLoanPerPledge'
  BY <1>1, <1>3 DEF AskRenew
<1>4. ASSUME NEW l \in Loans, NEW x \in Extras, AskTopup(w, l, x)
      PROVE  Apart' /\ OneLoanPerPledge'
  <2>1. Outstanding(loan[l], l) + x \in Int
    BY <1>0, OutstandingType, AmountAssumption DEF TypeOK
  <2>. QED
    BY <1>1, <1>4, <2>1 DEF AskTopup
<1>5. ASSUME Abandon(w) PROVE Apart' /\ OneLoanPerPledge'
  <2>1. /\ req'[w] = None /\ \A v \in Workers \ {w} : req'[v] = req[v]
        /\ loan' = loan /\ scan' = scan
    BY <1>0, <1>5 DEF Abandon, TypeOK
  <2>2. \A m \in Loans : SameRow(m)
    BY <2>1 DEF SameRow
  <2>. QED
    BY <1>0, <2>1, <2>2, QuietStepApart DEF TypeOK
<1>. QED
  BY <1>2, <1>3, <1>4, <1>5, PrecloseApart, CarryForwardApart DEF ActionStep

LEMMA FormStepApart ==
  ASSUME ~SameLoanOverlap, "edit_loan" \notin AdminActs, ApartInv,
         NEW w \in Workers, FormStep(w)
  PROVE  Apart' /\ OneLoanPerPledge'
<1>0. TypeOK /\ Apart
  BY DEF ApartInv
<1>1. ASSUME NEW l \in Loans, OpenLoanForm(w, l) PROVE Apart' /\ OneLoanPerPledge'
  <2>. DEFINE q == [NewRequest("form", l) EXCEPT !.stage = "open"]
  <2>1. q \in Request
    BY <1>0, <1>1, NewRequestType DEF OpenLoanForm
  <2>2. /\ Exists(l) /\ MayTouch(l)
        /\ req' = [req EXCEPT ![w] = q] /\ UNCHANGED <<loan, scan>>
    BY <1>1 DEF OpenLoanForm
  <2>3. q.loan = l /\ q.seen = loan[l] /\ q.op = "form"
    BY DEF NewRequest
  <2>. HIDE DEF q
  <2>. QED
    BY <2>1, <2>2, <2>3, NewRequestApart
<1>2. ASSUME NEW fields \in FilledIn(req[w].seen), NEW one \in Lines, NEW two \in Lines,
             NEW lag \in Lags, PostLoanForm(w, fields, one, two, lag)
      PROVE  Apart' /\ OneLoanPerPledge'
  <2>. DEFINE l == req[w].loan
              ln == Filled(loan[l], fields)
              q == PostedRequest(req[w], ln, one, two, today - lag)
  <2>1. /\ req[w] \in Request /\ req[w].op = "form" /\ q \in Request
        /\ req' = [req EXCEPT ![w] = q] /\ UNCHANGED <<loan, scan>>
        /\ ln.pledge = loan[l].pledge
    BY <1>0, <1>2, PostedFacts
  <2>2. fields = req[w].seen /\ req[w] # None
    BY <1>2 DEF FilledIn, PostLoanForm
  <2>3. /\ l \in Loans /\ loan[l] \in LoanRow
        /\ fields.status = loan[l].status /\ fields.principal = loan[l].principal
        /\ fields.start = loan[l].start /\ loan[l].status \in Statuses
    BY <1>0, <2>1, <2>2 DEF Apart, FreshRead, TypeOK, Request
  <2>4. ln.status = loan[l].status /\ ln.principal = loan[l].principal /\ ln.start = loan[l].start
    BY <2>3 DEF Filled, LoanRow
  <2>5. q.loan = l /\ q.seen = ln /\ q.op = "form"
    BY <2>1 DEF PostedRequest, Request
  <2>. HIDE DEF q, ln, l
  <2>6. /\ req'[w] = q /\ \A v \in Workers \ {w} : req'[v] = req[v]
    BY <1>0, <2>1 DEF TypeOK
  <2>7. FreshRead'
    BY <1>0, <2>1, <2>3, <2>4, <2>5, <2>6 DEF Apart, FreshRead
  <2>8. \A v \in Workers : req'[v] # None => req[v] # None /\ req'[v].loan = req[v].loan
    BY <2>2, <2>5, <2>6 DEF l
  <2>9. OneRequestPerLoan' /\ FreshList'
    BY <1>0, <2>1, <2>8 DEF Apart, OneRequestPerLoan, FreshList, Busy
  <2>10. FreshPledge' /\ OneLoanPerPledge'
    BY <2>1 DEF ApartInv, Apart, FreshPledge, OneLoanPerPledge
  <2>. QED
    BY <2>7, <2>9, <2>10 DEF Apart
<1>. QED
  BY <1>1, <1>2, SaveLoanFormApart DEF FormStep

LEMMA AdminStepApart ==
  ASSUME ~SameLoanOverlap, ApartInv, AdminStep
  PROVE  Apart' /\ OneLoanPerPledge'
<1>1. ASSUME NEW r \in Receipts, DeleteRepayment(r) PROVE Apart' /\ OneLoanPerPledge'
  <2>1. \A m \in Loans : SameRow(m)
    BY <1>1 DEF DeleteRepayment, SameRow
  <2>2. req' = req /\ scan' = scan
    BY <1>1 DEF DeleteRepayment
  <2>. QED
    BY <2>1, <2>2, QuietStepApart DEF ApartInv, TypeOK
<1>. QED
  BY <1>1, BookLoanApart, DeleteLoanApart DEF AdminStep

LEMMA ClassifierApart ==
  ASSUME ~SameLoanOverlap, ApartInv, ClassifierStep
  PROVE  Apart' /\ OneLoanPerPledge'
<1>0. TypeOK /\ Apart /\ OneLoanPerPledge
  BY DEF ApartInv
<1>1. ASSUME NEW S \in SUBSET Loans, \A l \in S : loan[l].status \in Live, MayList(S),
             scan'.todo = S, UNCHANGED <<loan, req>>
      PROVE  Apart' /\ OneLoanPerPledge'
  <2>1. FreshList'
    BY <1>0, <1>1 DEF FreshList, MayList, Busy
  <2>2. (FreshRead /\ OneRequestPerLoan /\ FreshPledge /\ OneLoanPerPledge)'
    BY <1>0, <1>1 DEF Apart, FreshRead, OneRequestPerLoan, FreshPledge, OneLoanPerPledge
  <2>. QED
    BY <2>1, <2>2 DEF Apart
<1>2. ASSUME NEW lag \in Lags, ListActive(lag) PROVE Apart' /\ OneLoanPerPledge'
  BY <1>0, <1>1, <1>2 DEF ListActive, Listed, Live, TypeOK
<1>3. ASSUME ListOverdue PROVE Apart' /\ OneLoanPerPledge'
  <2>1. scan'.todo = Listed("overdue")
    BY <1>0, <1>3 DEF ListOverdue, TypeOK
  <2>. QED
    BY <1>1, <1>3, <2>1 DEF ListOverdue, Listed, Live
<1>4. ASSUME EndScan PROVE Apart' /\ OneLoanPerPledge'
  <2>1. scan'.todo = {} /\ MayList({})
    BY <1>0, <1>4 DEF EndScan, TypeOK, MayList
  <2>. QED
    BY <1>1, <1>4, <2>1 DEF EndScan
<1>. QED
  BY <1>2, <1>3, <1>4, VisitApart DEF ClassifierStep, MarkOverdue, ClearOverdue, Live

LEMMA NextApart ==
  ASSUME ~SameLoanOverlap, "edit_loan" \notin AdminActs
  PROVE  ApartInv /\ [Next]_vars => ApartInv'
<1>. SUFFICES ASSUME ApartInv, [Next]_vars PROVE ApartInv'
  OBVIOUS
<1>1. TypeOK'
  BY NextType DEF ApartInv
<1>2. CASE Tick
  <2>1. req' = req /\ scan' = scan /\ \A m \in Loans : SameRow(m)
    BY <1>2 DEF Tick, SameRow
  <2>2. Apart' /\ OneLoanPerPledge'
    BY <2>1, QuietStepApart DEF ApartInv, TypeOK
  <2>. QED
    BY <1>1, <2>2 DEF ApartInv
<1>3. CASE UNCHANGED vars
  <2>1. req' = req /\ scan' = scan /\ \A m \in Loans : SameRow(m)
    BY <1>3 DEF vars, SameRow
  <2>2. Apart' /\ OneLoanPerPledge'
    BY <2>1, QuietStepApart DEF ApartInv, TypeOK
  <2>. QED
    BY <1>1, <2>2 DEF ApartInv
<1>4. CASE Next /\ ~Tick
  <2>1. Apart' /\ OneLoanPerPledge'
    BY <1>4, RepaymentStepApart, ActionStepApart, FormStepApart, AdminStepApart,
       ClassifierApart DEF Next
  <2>. QED
    BY <1>1, <2>1 DEF ApartInv
<1>. QED
  BY <1>2, <1>3, <1>4

\* One pledge never secures two running loans, whatever is booked, repaid,
\* renewed, topped up, deleted and classified, as long as no two requests work
\* on one loan at a time and nobody changes a loan by hand.
THEOREM PledgeSafety ==
  ASSUME ~SameLoanOverlap, "edit_loan" \notin AdminActs
  PROVE  Spec => []OneLoanPerPledge
<1>1. Init => ApartInv
  BY InitType, InitApart DEF ApartInv
<1>2. ApartInv => OneLoanPerPledge
  BY DEF ApartInv
<1>. QED
  BY <1>1, <1>2, NextApart, PTL DEF Spec

-----------------------------------------------------------------------------
(* A closed loan stays closed, under the same conditions *)

\* The step brings no closed or auctioned loan to life.
StaysClosed == \A m \in Loans : loan[m].status \in Terminal => loan'[m].status \notin Live

LEMMA RepaymentStaysClosed ==
  ASSUME ApartInv, NEW w \in Workers, RepaymentStep(w)
  PROVE  StaysClosed
<1>0. TypeOK
  BY DEF ApartInv
<1>1. loan' = loan \/ \E l \in Loans : loan' = [loan EXCEPT ![l].status = "closed"]
  <2>1. CASE CommitRepayment(w)
    <3>1. req[w].loan \in Loans
      BY <1>0, <2>1 DEF TypeOK, Request, CommitRepayment
    <3>. QED
      BY <2>1, <3>1 DEF CommitRepayment
  <2>. QED
    BY <2>1 DEF RepaymentStep, CheckRepayment, SaveRepayment
<1>. QED
  BY <1>0, <1>1 DEF TypeOK, LoanRow, StaysClosed, Live, Terminal

\* A pre-close closes; a renewal brings to life a row that was not in use.
LEMMA ActionStaysClosed ==
  ASSUME ApartInv, NEW w \in Workers, ActionStep(w)
  PROVE  StaysClosed
<1>0. TypeOK
  BY DEF ApartInv
<1>1. CASE Preclose(w)
  <2>. DEFINE row == [req[w].seen EXCEPT !.status = "closed"]
  <2>1. req[w] \in Request
    BY <1>0, <1>1 DEF Preclose, TypeOK
  <2>2. req[w].loan \in Loans /\ row.status = "closed"
    BY <2>1 DEF Request, LoanRow
  <2>3. loan' = [loan EXCEPT ![req[w].loan] = row]
    BY <1>1 DEF Preclose
  <2>. HIDE DEF row
  <2>. QED
    BY <1>0, <2>2, <2>3 DEF TypeOK, StaysClosed, Live, Terminal
<1>2. ASSUME NEW n \in Loans, NEW lag \in Lags, CarryForward(w, n, lag)
      PROVE  StaysClosed
  <2>. DEFINE q == req[w]
              carried == IF q.op = "renew" THEN Outstanding(q.seen, q.loan) ELSE q.amount
              new == [status |-> "active", principal |-> carried, start |-> today - lag,
                      pledge |-> q.seen.pledge, renewedTo |-> None]
              old == [q.seen EXCEPT !.status = "closed", !.renewedTo = n]
  <2>1. q \in Request
    BY <1>0, <1>2 DEF CarryForward, TypeOK
  <2>2. q.loan \in Loans /\ old.status = "closed"
    BY <2>1 DEF Request, LoanRow
  <2>3. loan' = [loan EXCEPT ![n] = new, ![q.loan] = old] /\ loan[n].status = "unused"
    BY <1>2 DEF CarryForward
  <2>. HIDE DEF new, old, q
  <2>. QED
    BY <1>0, <2>2, <2>3 DEF TypeOK, StaysClosed, Live, Terminal
<1>3. CASE loan' = loan
  BY <1>3 DEF StaysClosed, Live, Terminal
<1>. QED
  BY <1>1, <1>2, <1>3 DEF ActionStep, AskPreclose, AskRenew, AskTopup, Ask, Abandon

LEMMA AdminStaysClosed ==
  ASSUME ApartInv, AdminStep
  PROVE  StaysClosed
<1>0. TypeOK
  BY DEF ApartInv
<1>1. ASSUME NEW l \in Loans, NEW p \in Principals, NEW offset \in StartOffsets,
             NEW status, BookLoan(l, p, offset, status)
      PROVE  StaysClosed
  BY <1>0, <1>1 DEF BookLoan, TypeOK, StaysClosed, Live, Terminal
<1>2. ASSUME NEW l \in Loans, DeleteLoan(l) PROVE StaysClosed
  <2>1. \A m \in Loans : loan'[m].status \in {loan[m].status, "deleted"}
    BY <1>0, <1>2 DEF DeleteLoan, TypeOK, LoanRow
  <2>. QED
    BY <2>1 DEF StaysClosed, Live, Terminal
<1>3. ASSUME NEW r \in Receipts, DeleteRepayment(r) PROVE StaysClosed
  BY <1>3 DEF DeleteRepayment, StaysClosed, Live, Terminal
<1>. QED
  BY <1>1, <1>2, <1>3 DEF AdminStep

\* The status a form writes back is the one the loan has, or closed.
LEMMA FormStaysClosed ==
  ASSUME ApartInv, NEW w \in Workers, FormStep(w)
  PROVE  StaysClosed
<1>0. TypeOK /\ FreshRead
  BY DEF ApartInv, Apart
<1>1. ASSUME SaveLoanForm(w) PROVE StaysClosed
  <2>1. /\ req[w] # None /\ req[w] \in Request /\ req[w].loan \in Loans
        /\ loan' = [loan EXCEPT ![req[w].loan] = SavedInstance(req[w])]
    BY <1>0, <1>1, SaveLoanFormType DEF SaveLoanForm
  <2>2. req[w].seen \in LoanRow /\ req[w].seen.status = loan[req[w].loan].status
    BY <1>0, <2>1 DEF FreshRead, Request
  <2>3. SavedInstance(req[w]).status \in {loan[req[w].loan].status, "closed"}
    BY <2>2 DEF SavedInstance, LoanRow
  <2>. QED
    BY <1>0, <2>1, <2>3 DEF TypeOK, StaysClosed, Live, Terminal
<1>2. ASSUME NEW l, OpenLoanForm(w, l) PROVE StaysClosed
  BY <1>2 DEF OpenLoanForm, StaysClosed, Live, Terminal
<1>3. ASSUME NEW fields, NEW one, NEW two, NEW lag, PostLoanForm(w, fields, one, two, lag)
      PROVE  StaysClosed
  BY <1>3 DEF PostLoanForm, StaysClosed, Live, Terminal
<1>. QED
  BY <1>1, <1>2, <1>3 DEF FormStep

\* The classifier's list holds running loans only.
LEMMA ClassifierStaysClosed ==
  ASSUME ApartInv, ClassifierStep
  PROVE  StaysClosed
<1>0. TypeOK /\ FreshList
  BY DEF ApartInv, Apart
<1>1. ASSUME NEW l \in Loans, NEW condition, NEW to \in Live, Visit(l, condition, to)
      PROVE  StaysClosed
  <2>1. loan[l].status \in Live
    BY <1>0, <1>1 DEF Visit, FreshList
  <2>2. loan' = loan \/ loan' = [loan EXCEPT ![l].status = to]
    BY <1>1 DEF Visit
  <2>. QED
    BY <1>0, <2>1, <2>2 DEF TypeOK, LoanRow, StaysClosed, Live, Terminal
<1>2. CASE loan' = loan
  BY <1>2 DEF StaysClosed, Live, Terminal
<1>. QED
  BY <1>1, <1>2
     DEF ClassifierStep, MarkOverdue, ClearOverdue, ListActive, ListOverdue, EndScan, Live

LEMMA NextStaysClosed == ApartInv /\ [Next]_vars => [StaysClosed]_vars
<1>. SUFFICES ASSUME ApartInv, Next PROVE StaysClosed
  OBVIOUS
<1>1. CASE Tick
  BY <1>1 DEF Tick, StaysClosed, Live, Terminal
<1>. QED
  BY <1>1, RepaymentStaysClosed, ActionStaysClosed, FormStaysClosed, AdminStaysClosed,
     ClassifierStaysClosed DEF Next

\* A closed or auctioned loan never runs again: no stale instance, classifier's
\* list or renewal brings it back, as long as requests on one loan are kept
\* apart and nobody changes a loan by hand.
THEOREM ClosedForGood ==
  ASSUME ~SameLoanOverlap, "edit_loan" \notin AdminActs
  PROVE  Spec => ClosedStaysClosed
<1>1. Init => ApartInv
  BY InitType, InitApart DEF ApartInv
<1>2. ApartInv /\ [Next]_vars =>
        [\A l \in Loans : loan[l].status \in Terminal => loan'[l].status \notin Live]_vars
  BY NextStaysClosed DEF StaysClosed
<1>. QED
  BY <1>1, <1>2, NextApart, PTL DEF Spec, ClosedStaysClosed

-----------------------------------------------------------------------------
(* Renewed loans are linked, under the same conditions *)

\* The invariant: only closed loans have a link; the instances of requests have
\* the links of their rows; a loan that runs on another's pledge is linked from
\* somewhere.
Unlinked(ln) == ln.status \notin Terminal => ln.renewedTo = None

Linked ==
  /\ \A l \in Loans : Unlinked(loan[l])
  /\ \A w \in Workers : req[w] # None =>
       req[w].seen.renewedTo = loan[req[w].loan].renewedTo
  /\ \A n \in Loans : loan[n].status \in Live /\ loan[n].pledge # n =>
       \E l \in Loans : loan[l].renewedTo = n

LinkedInv == ApartInv /\ Linked

LEMMA InitLinked == Init => Linked
BY DEF Init, Linked, Unlinked, NoRow, Live, Terminal

\* A step that takes no link away and brings no loan to life.
LEMMA LinksKept ==
  ASSUME LinkedInv,
         \A m \in Loans : /\ loan'[m].renewedTo = loan[m].renewedTo
                          /\ loan'[m].pledge = loan[m].pledge
                          /\ loan'[m].status \in Live => loan[m].status \in Live
                          /\ loan'[m].status \notin Terminal => loan[m].status \notin Terminal,
         \A v \in Workers : req'[v] # None =>
           \/ req[v] # None /\ req'[v].seen = req[v].seen /\ req'[v].loan = req[v].loan
           \/ /\ req'[v].loan \in Loans
              /\ req'[v].seen.renewedTo = loan[req'[v].loan].renewedTo
  PROVE  Linked'
<1>1. \A v \in Workers : req[v] # None => req[v].loan \in Loans
  BY DEF LinkedInv, ApartInv, TypeOK, Request
<1>2. \A l \in Loans : Unlinked(loan[l])'
  BY DEF LinkedInv, Linked, Unlinked
<1>3. \A w \in Workers : req'[w] # None =>
        req'[w].seen.renewedTo = loan'[req'[w].loan].renewedTo
  BY <1>1 DEF LinkedInv, Linked
<1>4. \A n \in Loans : loan'[n].status \in Live /\ loan'[n].pledge # n =>
        \E l \in Loans : loan'[l].renewedTo = n
  BY DEF LinkedInv, Linked
<1>. QED
  BY <1>2, <1>3, <1>4 DEF Linked

LEMMA BookLoanLinked ==
  ASSUME LinkedInv, NEW l \in Loans, NEW p \in Principals, NEW offset \in StartOffsets,
         NEW status, BookLoan(l, p, offset, status)
  PROVE  Linked'
<1>0. TypeOK /\ Linked /\ FreshRead
  BY DEF LinkedInv, ApartInv, Apart
<1>1. /\ loan'[l].pledge = l /\ loan'[l].renewedTo = None /\ loan[l].status = "unused"
      /\ \A m \in Loans \ {l} : loan'[m] = loan[m]
      /\ req' = req
  BY <1>0 DEF BookLoan, TypeOK
<1>2. \A n \in Loans : loan[n].status \in Live /\ loan[n].pledge # n =>
        \E k \in Loans : loan'[k].renewedTo = n
  <2>. SUFFICES ASSUME NEW n \in Loans, loan[n].status \in Live, loan[n].pledge # n
                PROVE  \E k \in Loans : loan'[k].renewedTo = n
    OBVIOUS
  <2>1. PICK k \in Loans : loan[k].renewedTo = n
    BY <1>0 DEF Linked
  <2>. QED
    BY <1>0, <1>1, <2>1, DeskAssumption DEF Linked, Unlinked, Terminal
<1>3. \A v \in Workers : req[v] # None => req[v].loan \in Loans \ {l}
  BY <1>0, <1>1 DEF FreshRead, TypeOK, Request, Statuses, Live, Terminal
<1>. QED
  BY <1>0, <1>1, <1>2, <1>3 DEF Linked, Unlinked

\* A pre-close and the loan form write back the link they read.
LEMMA PrecloseLinked ==
  ASSUME LinkedInv, NEW w \in Workers, Preclose(w)
  PROVE  Linked'
<1>. DEFINE q == req[w]
            row == [q.seen EXCEPT !.status = "closed"]
<1>0. TypeOK /\ FreshRead /\ Linked
  BY DEF LinkedInv, ApartInv, Apart
<1>. PICK l \in Loans : l = q.loan
  BY <1>0 DEF Preclose, TypeOK, Request
<1>1. q # None /\ q \in Request /\ q.op = "preclose" /\ q.loan = l /\ q.seen \in LoanRow
  BY <1>0 DEF Preclose, TypeOK, Request
<1>2. /\ loan[l].status \in Live /\ q.seen.status \in Live
      /\ q.seen.pledge = loan[l].pledge
  BY <1>0, <1>1 DEF FreshRead
<1>3. q.seen.renewedTo = loan[l].renewedTo
  BY <1>0, <1>1 DEF Linked
<1>4. row.status = "closed" /\ row.pledge = loan[l].pledge /\ row.renewedTo = loan[l].renewedTo
  BY <1>1, <1>2, <1>3 DEF LoanRow
<1>5. loan' = [loan EXCEPT ![l] = row] /\ req' = [req EXCEPT ![w] = None]
  BY <1>1 DEF Preclose
<1>. HIDE DEF row
<1>6. loan'[l] = row /\ \A m \in Loans \ {l} : loan'[m] = loan[m]
  BY <1>0, <1>5 DEF TypeOK
<1>7. \A v \in Workers : req'[v] # None =>
        req[v] # None /\ req'[v].seen = req[v].seen /\ req'[v].loan = req[v].loan
  BY <1>0, <1>5 DEF TypeOK
<1>. QED
  BY <1>4, <1>6, <1>7, LinksKept DEF Live, Terminal

LEMMA SaveLoanFormLinked ==
  ASSUME LinkedInv, NEW w \in Workers, SaveLoanForm(w)
  PROVE  Linked'
<1>. DEFINE q == req[w]
            row == SavedInstance(q)
<1>0. TypeOK /\ FreshRead /\ Linked
  BY DEF LinkedInv, ApartInv, Apart
<1>. PICK l \in Loans : l = q.loan
  BY <1>0, SaveLoanFormType
<1>1. q # None /\ q \in Request /\ q.seen \in LoanRow
  BY <1>0 DEF SaveLoanForm, TypeOK, Request
<1>2. /\ q.seen.status = loan[l].status /\ q.seen.pledge = loan[l].pledge
      /\ q.seen.renewedTo = loan[l].renewedTo
  BY <1>0, <1>1 DEF FreshRead, Linked
<1>3. /\ row.status \in {loan[l].status, "closed"}
      /\ row.pledge = loan[l].pledge /\ row.renewedTo = loan[l].renewedTo
  BY <1>1, <1>2 DEF SavedInstance, LoanRow
<1>4. loan' = [loan EXCEPT ![l] = row] /\ req' = [req EXCEPT ![w] = None]
  BY <1>0, SaveLoanFormType DEF SaveLoanForm
<1>. HIDE DEF row
<1>5. loan'[l] = row /\ \A m \in Loans \ {l} : loan'[m] = loan[m]
  BY <1>0, <1>4 DEF TypeOK
<1>6. \A v \in Workers : req'[v] # None =>
        req[v] # None /\ req'[v].seen = req[v].seen /\ req'[v].loan = req[v].loan
  BY <1>0, <1>4 DEF TypeOK
<1>. QED
  BY <1>3, <1>5, <1>6, LinksKept DEF Live, Terminal

\* The loan renewed had no link that the new one could overwrite.
LEMMA CarryForwardLinked ==
  ASSUME LinkedInv, NEW w \in Workers, NEW n \in Loans, NEW lag \in Lags,
         CarryForward(w, n, lag)
  PROVE  Linked'
<1>. DEFINE q == req[w]
            carried == IF q.op = "renew" THEN Outstanding(q.seen, q.loan) ELSE q.amount
            new == [status |-> "active", principal |-> carried, start |-> today - lag,
                    pledge |-> q.seen.pledge, renewedTo |-> None]
            old == [q.seen EXCEPT !.status = "closed", !.renewedTo = n]
<1>0. TypeOK /\ FreshRead /\ OneRequestPerLoan /\ Linked
  BY DEF LinkedInv, ApartInv, Apart
<1>. PICK l \in Loans : l = q.loan
  BY <1>0 DEF CarryForward, TypeOK, Request
<1>1. /\ q # None /\ q \in Request /\ q.op \in {"renew", "topup"} /\ q.loan = l /\ q.seen \in LoanRow
      /\ loan[n].status = "unused"
  BY <1>0 DEF CarryForward, TypeOK, Request
<1>2. loan[l].status \in Live /\ loan[l].renewedTo = None
  BY <1>0, <1>1 DEF FreshRead, Linked, Unlinked, Live, Terminal
<1>3. old.status = "closed" /\ old.renewedTo = n /\ new.renewedTo = None
  BY <1>1 DEF LoanRow
<1>4. loan' = [loan EXCEPT ![n] = new, ![l] = old] /\ req' = [req EXCEPT ![w] = None]
  BY <1>1 DEF CarryForward
<1>. HIDE DEF old, new
<1>5. /\ n # l /\ loan'[l] = old /\ loan'[n] = new
      /\ \A m \in Loans \ {l, n} : loan'[m] = loan[m]
  BY <1>0, <1>1, <1>2, <1>4 DEF TypeOK, Live
<1>6. \A v \in Workers : req'[v] # None =>
        req[v] # None /\ req'[v] = req[v] /\ req[v].loan \in Loans \ {l, n}
  <2>1. \A v \in Workers : req'[v] # None => v # w /\ req'[v] = req[v]
    BY <1>0, <1>4 DEF TypeOK
  <2>2. \A v \in Workers : req[v] # None => req[v].loan \in Loans \ {n}
    BY <1>0, <1>1 DEF FreshRead, TypeOK, Request, Statuses, Live, Terminal
  <2>. QED
    BY <1>0, <1>1, <2>1, <2>2 DEF OneRequestPerLoan
<1>7. \A m \in Loans : Unlinked(loan[m])'
  BY <1>0, <1>3, <1>5 DEF Linked, Unlinked, Terminal
<1>8. \A v \in Workers : req'[v] # None =>
        req'[v].seen.renewedTo = loan'[req'[v].loan].renewedTo
  BY <1>0, <1>5, <1>6 DEF Linked
<1>9. ASSUME NEW m \in Loans, loan'[m].status \in Live, loan'[m].pledge # m
      PROVE  \E k \in Loans : loan'[k].renewedTo = m
  <2>1. CASE m = n
    BY <1>3, <1>5, <2>1
  <2>2. CASE m # n
    <3>1. loan'[m] = loan[m]
      BY <1>3, <1>5, <1>9, <2>2 DEF Live
    <3>2. PICK k \in Loans : loan[k].renewedTo = m
      BY <1>0, <1>9, <3>1 DEF Linked
    <3>3. k # l /\ k # n
      BY <1>0, <1>1, <1>2, <3>2, DeskAssumption DEF Linked, Unlinked, Terminal
    <3>. QED
      BY <1>5, <3>2, <3>3
  <2>. QED
    BY <2>1, <2>2
<1>. QED
  BY <1>7, <1>8, <1>9 DEF Linked

LEMMA NextLinked ==
  ASSUME ~SameLoanOverlap, AdminActs \cap {"edit_loan", "delete_loan"} = {}
  PROVE  LinkedInv /\ [Next]_vars => LinkedInv'
<1>. SUFFICES ASSUME LinkedInv, [Next]_vars PROVE LinkedInv'
  OBVIOUS
<1>0. TypeOK /\ FreshRead /\ FreshList
  BY DEF LinkedInv, ApartInv, Apart
<1>1. ASSUME NEW l \in Loans, loan' = [loan EXCEPT ![l].status = "closed"] \/ loan' = loan,
             \A v \in Workers : req'[v] # None =>
               req[v] # None /\ req'[v].seen = req[v].seen /\ req'[v].loan = req[v].loan
      PROVE  Linked'
  <2>1. \A m \in Loans : /\ loan'[m].renewedTo = loan[m].renewedTo
                         /\ loan'[m].pledge = loan[m].pledge
                         /\ loan'[m].status \in {loan[m].status, "closed"}
    BY <1>0, <1>1 DEF TypeOK, LoanRow
  <2>. QED
    BY <1>1, <2>1, LinksKept DEF Live, Terminal
<1>2. ASSUME loan' = loan,
             \A v \in Workers : req'[v] # None =>
               \/ req[v] # None /\ req'[v].seen = req[v].seen /\ req'[v].loan = req[v].loan
               \/ /\ req'[v].loan \in Loans
                  /\ req'[v].seen.renewedTo = loan[req'[v].loan].renewedTo
      PROVE  Linked'
  BY <1>2, LinksKept
<1>3. ASSUME NEW w \in Workers, RepaymentStep(w) PROVE Linked'
  <2>1. ASSUME NEW l \in Loans, NEW r, NEW pay, NEW offset, CheckRepayment(w, l, r, pay, offset)
        PROVE  Linked'
    <3>1. /\ loan' = loan /\ req'[w].seen = loan[l] /\ req'[w].loan = l
          /\ \A v \in Workers \ {w} : req'[v] = req[v]
      BY <1>0, <2>1 DEF CheckRepayment, NewRequest, TypeOK
    <3>. QED
      BY <1>2, <3>1
  <2>2. ASSUME SaveRepayment(w) PROVE Linked'
    <3>1. req[w] \in Request /\ req[w] # None
      BY <1>0, <2>2 DEF SaveRepayment, TypeOK
    <3>2. /\ loan' = loan /\ req'[w].seen = req[w].seen /\ req'[w].loan = req[w].loan
          /\ \A v \in Workers \ {w} : req'[v] = req[v]
      BY <1>0, <2>2, <3>1 DEF SaveRepayment, TypeOK, Request
    <3>. QED
      BY <1>2, <3>1, <3>2
  <2>3. ASSUME CommitRepayment(w) PROVE Linked'
    <3>1. /\ req[w].loan \in Loans
          /\ loan' = [loan EXCEPT ![req[w].loan].status = "closed"] \/ loan' = loan
          /\ \A v \in Workers : req'[v] # None =>
               req[v] # None /\ req'[v].seen = req[v].seen /\ req'[v].loan = req[v].loan
      BY <1>0, <2>3 DEF CommitRepayment, TypeOK, Request
    <3>. QED
      BY <1>1, <3>1
  <2>. QED
    BY <1>3, <2>1, <2>2, <2>3 DEF RepaymentStep
<1>4. ASSUME NEW w \in Workers, ActionStep(w) PROVE Linked'
  <2>1. ASSUME NEW l \in Loans, NEW op, NEW amount, Ask(w, op, l, amount) PROVE Linked'
    <3>1. /\ loan' = loan /\ req'[w].seen = loan[l] /\ req'[w].loan = l
          /\ \A v \in Workers \ {w} : req'[v] = req[v]
      BY <1>0, <2>1 DEF Ask, NewRequest, TypeOK
    <3>. QED
      BY <1>2, <3>1
  <2>2. ASSUME Abandon(w) PROVE Linked'
    <3>1. loan' = loan /\ \A v \in Workers : req'[v] # None => req'[v] = req[v]
      BY <1>0, <2>2 DEF Abandon, TypeOK
    <3>. QED
      BY <1>2, <3>1
  <2>. QED
    BY <1>4, <2>1, <2>2, PrecloseLinked, CarryForwardLinked
       DEF ActionStep, AskPreclose, AskRenew, AskTopup
<1>5. ASSUME AdminStep PROVE Linked'
  <2>1. ASSUME NEW l, DeleteLoan(l) PROVE FALSE
    BY <2>1 DEF DeleteLoan
  <2>2. ASSUME NEW r, DeleteRepayment(r) PROVE Linked'
    BY <1>2, <2>2 DEF DeleteRepayment
  <2>. QED
    BY <1>5, <2>1, <2>2, BookLoanLinked DEF AdminStep
<1>6. ASSUME ClassifierStep PROVE Linked'
  <2>1. ASSUME NEW l \in Loans, NEW condition, NEW to \in Live, Visit(l, condition, to)
        PROVE  Linked'
    <3>1. loan[l].status \in Live
      BY <1>0, <2>1 DEF Visit, FreshList
    <3>2. (loan' = [loan EXCEPT ![l].status = to] \/ loan' = loan) /\ req' = req
      BY <2>1 DEF Visit
    <3>3. \A m \in Loans : /\ loan'[m].renewedTo = loan[m].renewedTo
                           /\ loan'[m].pledge = loan[m].pledge
                           /\ \/ loan'[m].status = loan[m].status
                              \/ loan'[m].status \in Live /\ loan[m].status \in Live
      BY <1>0, <3>1, <3>2 DEF TypeOK, LoanRow
    <3>. QED
      BY <3>2, <3>3, LinksKept DEF Live, Terminal
  <2>. QED
    BY <1>2, <1>6, <2>1
       DEF ClassifierStep, ListActive, ListOverdue, EndScan, MarkOverdue, ClearOverdue, Live
<1>7. ASSUME NEW w \in Workers, FormStep(w) PROVE Linked'
  <2>1. ASSUME NEW l \in Loans, OpenLoanForm(w, l) PROVE Linked'
    <3>1. /\ loan' = loan /\ req'[w].seen = loan[l] /\ req'[w].loan = l
          /\ \A v \in Workers \ {w} : req'[v] = req[v]
      BY <1>0, <2>1 DEF OpenLoanForm, NewRequest, TypeOK
    <3>. QED
      BY <1>2, <3>1
  <2>2. ASSUME NEW fields \in FilledIn(req[w].seen), NEW one \in Lines, NEW two \in Lines,
               NEW lag \in Lags, PostLoanForm(w, fields, one, two, lag)
        PROVE  Linked'
    <3>. DEFINE ln == Filled(loan[req[w].loan], fields)
                q == PostedRequest(req[w], ln, one, two, today - lag)
    <3>1. /\ req[w] \in Request /\ req' = [req EXCEPT ![w] = q] /\ loan' = loan
          /\ ln.renewedTo = loan[req[w].loan].renewedTo
      BY <1>0, <2>2, PostedFacts
    <3>2. q.loan = req[w].loan /\ q.seen = ln /\ req[w].loan \in Loans
      BY <3>1 DEF PostedRequest, Request
    <3>. HIDE DEF q, ln
    <3>3. req'[w] = q /\ \A v \in Workers \ {w} : req'[v] = req[v]
      BY <1>0, <3>1 DEF TypeOK
    <3>. QED
      BY <1>2, <3>1, <3>2, <3>3
  <2>. QED
    BY <1>7, <2>1, <2>2, SaveLoanFormLinked DEF FormStep
<1>8. Linked'
  BY <1>2, <1>3, <1>4, <1>5, <1>6, <1>7 DEF Next, Tick, vars
<1>. QED
  BY <1>8, NextApart DEF LinkedInv

\* A loan that runs on a pledge taken over from another loan is linked from the
\* one it renewed, when requests on one loan are kept apart and no loan is
\* deleted or changed by hand.
THEOREM RenewalsAreLinked ==
  ASSUME ~SameLoanOverlap, AdminActs \cap {"edit_loan", "delete_loan"} = {}
  PROVE  Spec => []RenewalIsLinked
<1>1. Init => LinkedInv
  BY InitType, InitApart, InitLinked DEF LinkedInv, ApartInv
<1>2. LinkedInv => RenewalIsLinked
  BY DEF LinkedInv, Linked, RenewalIsLinked
<1>. QED
  BY <1>1, <1>2, NextLinked, PTL DEF Spec

-----------------------------------------------------------------------------
(* Interest of a principal *)

LEMMA MonthlyInterestNat ==
  ASSUME NEW principal \in Nat
  PROVE  MonthlyInterest(principal, RateType, RatePct) \in Nat
<1>1. principal * RatePct \in Nat
  BY AmountAssumption
<1>. QED
  BY <1>1, HalfEvenNat DEF MonthlyInterest

-----------------------------------------------------------------------------
(* The money of each loan *)

\* The invariant: every loan is within its limits and has something due while it
\* runs; an unused row has received nothing; a used one has a pledge.
LoanMoney(l) ==
  /\ loan[l].principal >= 0
  /\ loan[l].status = "unused" => paid[l] = 0 /\ settled[l] = 0
  /\ loan[l].status # "unused" => loan[l].pledge \in Loans
  /\ Exists(l) => /\ paid[l] <= loan[l].principal + Tolerance
                  /\ settled[l] <= Accrued(loan[l]) + Tolerance
  /\ loan[l].status \in Live =>
       Outstanding(loan[l], l) > 0 \/ InterestDue(loan[l], l) > 0

LoansMoney == \A l \in Loans : LoanMoney(l)

RowsOnLoans == \A r \in Receipts : rep[r] # None => Exists(rep[r].loan)

\* A receipt being written is of the request's loan, and of one request.
HeldReceipts ==
  \A w \in Workers : req[w] # None /\ req[w].op = "repay" =>
    /\ rep[req[w].receipt] # None => rep[req[w].receipt].loan = req[w].loan
    /\ \A v \in Workers \ {w} : req[v] # None /\ req[v].op = "repay" =>
         req[v].receipt # req[w].receipt

\* No loan form is at work, and what a request was checked or decided on is
\* still so.
SoundDecision(q) ==
  /\ q.op # "form" /\ q.stage # "open"
  /\ q.op = "repay" => CleanPasses(loan[q.loan], q.loan, Stored(q.receipt), q.pay)
  /\ q.op = "repay" /\ q.stage = "saved" =>
       (q.close <=> ClearsLoan(q.seen, q.loan, Stored(q.receipt), q.pay))
  /\ q.op = "renew" => /\ 0 < Outstanding(q.seen, q.loan)
                       /\ Outstanding(q.seen, q.loan) <= EligiblePrincipal
  /\ q.op = "topup" => /\ 0 < q.amount /\ q.amount <= EligiblePrincipal
                       /\ Outstanding(q.seen, q.loan) <= q.amount

SoundDecisions == \A w \in Workers : req[w] # None => SoundDecision(req[w])

Money == LoansMoney /\ RowsOnLoans /\ HeldReceipts /\ SoundDecisions

MoneyInv == ApartInv /\ Money

LEMMA InitMoney == Init => Money
<1>. SUFFICES ASSUME Init PROVE Money
  OBVIOUS
<1>1. \A l \in Loans : loan[l] = NoRow /\ paid[l] = 0 /\ settled[l] = 0
  BY DEF Init
<1>2. LoansMoney
  BY <1>1 DEF LoansMoney, LoanMoney, NoRow, Exists, Statuses, Live, Terminal
<1>3. RowsOnLoans /\ HeldReceipts /\ SoundDecisions
  BY DEF Init, RowsOnLoans, HeldReceipts, SoundDecisions
<1>. QED
  BY <1>2, <1>3 DEF Money

\* The step leaves row and totals of m as they are.
SameMoney(m) == SameRow(m) /\ paid'[m] = paid[m] /\ settled'[m] = settled[m]

LEMMA MoneyTypes ==
  ASSUME TypeOK, NEW l \in Loans
  PROVE  /\ loan[l] \in LoanRow /\ loan[l].principal \in Int /\ loan[l].start \in Int
         /\ paid[l] \in Int /\ settled[l] \in Int /\ today \in Nat
         /\ Accrued(loan[l]) \in Int
BY AccruedType DEF TypeOK, LoanRow

LEMMA SameMoneyKept ==
  ASSUME TypeOK, NEW m \in Loans, SameMoney(m), today' = today, LoanMoney(m)
  PROVE  LoanMoney(m)'
BY DEF SameMoney, SameRow, LoanMoney, Exists, Accrued, Outstanding, InterestDue

\* A row without requests, or one whose status moves among the running ones or
\* to a closed one, keeps its money.
LEMMA StatusKeepsMoney ==
  ASSUME TypeOK, NEW m \in Loans, LoanMoney(m), today' = today,
         loan'[m].principal = loan[m].principal, loan'[m].start = loan[m].start,
         loan'[m].pledge = loan[m].pledge,
         paid'[m] = paid[m], settled'[m] = settled[m],
         loan[m].status \in Statuses, loan'[m].status \in Statuses,
         loan'[m].status \in Live => loan[m].status \in Live
  PROVE  LoanMoney(m)'
BY DEF LoanMoney, Exists, Accrued, Outstanding, InterestDue, Statuses, Live, Terminal

\* A new loan has received nothing and has its principal due.
LEMMA NewLoanMoney ==
  ASSUME TypeOK, TypeOK', NEW n \in Loans, LoanMoney(n), loan[n].status = "unused",
         loan'[n].status \in Statuses, loan'[n].principal > 0, loan'[n].pledge \in Loans,
         paid'[n] = paid[n], settled'[n] = settled[n]
  PROVE  LoanMoney(n)'
<1>1. paid'[n] = 0 /\ settled'[n] = 0 /\ loan'[n].principal \in Int
  BY DEF LoanMoney, TypeOK, LoanRow
<1>2. loan'[n] \in LoanRow /\ Accrued(loan[n])' \in Nat
  <2>1. loan'[n] \in LoanRow /\ loan'[n].principal >= 0
    BY <1>1 DEF TypeOK
  <2>2. MonthlyInterest(loan'[n].principal, RateType, RatePct) \in Nat
    BY <1>1, <2>1, MonthlyInterestNat
  <2>3. loan'[n].start \in Int /\ today' \in Int
    BY <2>1 DEF TypeOK, LoanRow
  <2>. QED
    BY <2>1, <2>2, <2>3, InterestAccruedNat DEF Accrued
<1>3. Outstanding(loan[n], n)' > 0
  BY <1>1 DEF Outstanding
<1>. QED
  BY <1>1, <1>2, <1>3 DEF LoanMoney, Exists, Tolerance, Live, Statuses, Terminal

\* Requests that stay see nothing of the step.
LEMMA DecisionsKept ==
  ASSUME TypeOK, HeldReceipts, SoundDecisions, today' = today,
         \A v \in Workers : req'[v] # None =>
           /\ req'[v] = req[v] /\ SameMoney(req[v].loan)
           /\ req[v].op = "repay" => rep'[req[v].receipt] = rep[req[v].receipt]
  PROVE  HeldReceipts' /\ SoundDecisions'
<1>1. HeldReceipts'
  BY DEF HeldReceipts
<1>2. ASSUME NEW v \in Workers, req'[v] # None
      PROVE  SoundDecision(req[v])'
  <2>1. /\ req'[v] = req[v] /\ SoundDecision(req[v]) /\ SameMoney(req[v].loan)
        /\ req[v].op = "repay" => rep'[req[v].receipt] = rep[req[v].receipt]
    BY <1>2 DEF SoundDecisions
  <2>. QED
    BY <2>1 DEF SoundDecision, SameMoney, SameRow, CleanPasses, ClearsLoan, Stored,
                Accrued, Outstanding
<1>. QED
  BY <1>1, <1>2 DEF SoundDecisions

LEMMA BookLoanMoney ==
  ASSUME MoneyInv, TypeOK', NEW l \in Loans, NEW p \in Principals, NEW offset \in StartOffsets,
         NEW status \in EntryStatuses, BookLoan(l, p, offset, status)
  PROVE  Money'
<1>0. TypeOK /\ ApartInv /\ FreshRead /\ Money
  BY DEF MoneyInv, ApartInv, Apart
<1>1. /\ loan[l].status = "unused"
      /\ loan'[l].status \in Statuses /\ loan'[l].principal = p /\ loan'[l].pledge = l
      /\ \A m \in Loans \ {l} : loan'[m] = loan[m]
      /\ UNCHANGED <<rep, paid, settled, today, req>>
  BY <1>0, AmountAssumption DEF BookLoan, TypeOK
<1>2. \A m \in Loans \ {l} : SameMoney(m)
  BY <1>1 DEF SameMoney, SameRow
<1>3. LoansMoney'
  <2>1. p > 0
    BY AmountAssumption
  <2>2. LoanMoney(l)'
    BY <1>0, <1>1, <2>1, NewLoanMoney DEF Money, LoansMoney
  <2>3. ASSUME NEW m \in Loans \ {l} PROVE LoanMoney(m)'
    BY <1>0, <1>1, <1>2, SameMoneyKept DEF Money, LoansMoney
  <2>. QED
    BY <2>2, <2>3 DEF LoansMoney
<1>4. RowsOnLoans'
  <2>1. \A m \in Loans : Exists(m) => Exists(m)'
    BY <1>1 DEF Exists
  <2>2. \A r \in Receipts : rep[r] # None => rep[r].loan \in Loans
    BY <1>0 DEF TypeOK, RepaymentRow
  <2>. QED
    BY <1>0, <1>1, <2>1, <2>2 DEF Money, RowsOnLoans
<1>5. \A v \in Workers : req[v] # None => req[v].loan \in Loans \ {l}
  BY <1>0, <1>1 DEF TypeOK, Request, FreshRead, Statuses, Live, Terminal
<1>6. HeldReceipts' /\ SoundDecisions'
  BY <1>0, <1>1, <1>2, <1>5, DecisionsKept DEF Money
<1>. QED
  BY <1>3, <1>4, <1>6 DEF Money

\* A request is let in on a loan no other holds.
LEMMA NewRequestMoney ==
  ASSUME MoneyInv, NEW w \in Workers, NEW q, SoundDecision(q),
         ~Busy(q.loan),
         q.op = "repay" =>
           \/ /\ rep[q.receipt] = None
              /\ \A v \in Workers : req[v] # None => req[v].receipt # q.receipt
           \/ rep[q.receipt] # None /\ rep[q.receipt].loan = q.loan,
         req' = [req EXCEPT ![w] = q], UNCHANGED <<loan, rep, paid, settled, today>>
  PROVE  Money'
<1>0. TypeOK /\ Money
  BY DEF MoneyInv, ApartInv
<1>1. req'[w] = q /\ \A v \in Workers \ {w} : req'[v] = req[v]
  BY <1>0 DEF TypeOK
<1>2. LoansMoney'
  <2>1. \A m \in Loans : SameMoney(m)
    BY DEF SameMoney, SameRow
  <2>. QED
    BY <1>0, <2>1, SameMoneyKept DEF Money, LoansMoney
<1>3. RowsOnLoans'
  BY <1>0 DEF Money, RowsOnLoans, Exists
<1>4. HeldReceipts'
  <2>1. \A v \in Workers : req[v] # None => req[v].loan # q.loan
    BY DEF Busy
  <2>. QED
    BY <1>0, <1>1, <2>1 DEF Money, HeldReceipts
<1>5. SoundDecisions'
  <2>1. ASSUME NEW x, SoundDecision(x) PROVE SoundDecision(x)'
    BY <2>1 DEF SoundDecision, CleanPasses, ClearsLoan, Stored, Accrued, Outstanding
  <2>2. ASSUME NEW v \in Workers, req'[v] # None PROVE SoundDecision(req[v])'
    <3>1. CASE v = w
      BY <1>1, <3>1 DEF SoundDecision, CleanPasses, ClearsLoan, Stored, Accrued, Outstanding
    <3>2. CASE v # w
      <4>1. req'[v] = req[v] /\ SoundDecision(req[v])
        BY <1>0, <1>1, <2>2, <3>2 DEF Money, SoundDecisions
      <4>. QED
        BY <4>1 DEF SoundDecision, CleanPasses, ClearsLoan, Stored, Accrued, Outstanding
    <3>. QED
      BY <3>1, <3>2
  <2>. QED
    BY <2>2 DEF SoundDecisions
<1>. QED
  BY <1>2, <1>3, <1>4, <1>5 DEF Money

LEMMA CheckRepaymentMoney ==
  ASSUME ~SameLoanOverlap, MoneyInv, NEW w \in Workers, NEW l \in Loans,
         NEW r \in Receipts, NEW pay \in Payments, NEW offset \in PaidOffsets,
         CheckRepayment(w, l, r, pay, offset)
  PROVE  Money'
<1>. DEFINE q == [NewRequest("repay", l) EXCEPT
                   !.receipt = r, !.pay = pay, !.on = today + offset]
<1>1. q.op = "repay" /\ q.stage = "checked" /\ q.loan = l /\ q.receipt = r /\ q.pay = pay
  BY DEF NewRequest
<1>2. CleanPasses(loan[l], l, Stored(r), pay)
  BY DEF CheckRepayment
<1>3. /\ ~Busy(l) /\ req' = [req EXCEPT ![w] = q]
      /\ UNCHANGED <<loan, rep, paid, settled, today>>
      /\ \/ rep[r] = None /\ ~RowHeld(r)
         \/ rep[r] # None /\ rep[r].loan = l
  BY DEF CheckRepayment, MayTouch
<1>. HIDE DEF q
<1>4. SoundDecision(q)
  BY <1>1, <1>2 DEF SoundDecision
<1>5. ~RowHeld(r) => \A v \in Workers : req[v] # None => req[v].receipt # r
  BY DEF RowHeld
<1>. QED
  BY <1>1, <1>3, <1>4, <1>5, NewRequestMoney

LEMMA SaveRepaymentMoney ==
  ASSUME MoneyInv, NEW w \in Workers, SaveRepayment(w)
  PROVE  Money'
<1>0. TypeOK /\ Money
  BY DEF MoneyInv, ApartInv
<1>. DEFINE q == req[w]
            close == ClearsLoan(q.seen, q.loan, Stored(q.receipt), q.pay)
<1>1. q # None /\ q \in Request /\ q.op = "repay"
  BY <1>0 DEF SaveRepayment, TypeOK
<1>2. /\ req' = [req EXCEPT ![w] = [q EXCEPT !.stage = "saved", !.close = close]]
      /\ UNCHANGED <<loan, rep, paid, settled, today>>
  BY <1>0, <1>1 DEF SaveRepayment, TypeOK
<1>. HIDE DEF close
<1>3. /\ req'[w].stage = "saved" /\ req'[w].close = close /\ req'[w].op = "repay"
      /\ req'[w].loan = q.loan /\ req'[w].seen = q.seen /\ req'[w].receipt = q.receipt
      /\ req'[w].pay = q.pay
      /\ \A v \in Workers \ {w} : req'[v] = req[v]
  BY <1>0, <1>1, <1>2 DEF TypeOK, Request
<1>4. LoansMoney' /\ RowsOnLoans'
  <2>1. \A m \in Loans : SameMoney(m)
    BY <1>2 DEF SameMoney, SameRow
  <2>. QED
    BY <1>0, <1>2, <2>1, SameMoneyKept DEF Money, LoansMoney, RowsOnLoans, Exists
<1>5. HeldReceipts'
  BY <1>0, <1>1, <1>2, <1>3 DEF Money, HeldReceipts
<1>6. ASSUME NEW v \in Workers, req'[v] # None PROVE SoundDecision(req[v])'
  <2>1. CASE v = w
    <3>1. CleanPasses(loan[q.loan], q.loan, Stored(q.receipt), q.pay)
      BY <1>0, <1>1 DEF Money, SoundDecisions, SoundDecision
    <3>2. CleanPasses(loan[req[w].loan], req[w].loan, Stored(req[w].receipt), req[w].pay)'
      BY <1>2, <1>3, <3>1 DEF CleanPasses, Stored, Accrued
    <3>3. ClearsLoan(req[w].seen, req[w].loan, Stored(req[w].receipt), req[w].pay)'
            <=> ClearsLoan(q.seen, q.loan, Stored(q.receipt), q.pay)
      BY <1>2, <1>3 DEF ClearsLoan, Stored, Accrued, Outstanding
    <3>4. req'[w].close <=> ClearsLoan(q.seen, q.loan, Stored(q.receipt), q.pay)
      BY <1>3 DEF close
    <3>. QED
      BY <1>3, <2>1, <3>2, <3>3, <3>4 DEF SoundDecision
  <2>2. CASE v # w
    <3>1. req'[v] = req[v] /\ SoundDecision(req[v])
      BY <1>0, <1>3, <1>6, <2>2 DEF Money, SoundDecisions
    <3>. QED
      BY <1>2, <3>1 DEF SoundDecision, CleanPasses, ClearsLoan, Stored, Accrued, Outstanding
  <2>. QED
    BY <2>1, <2>2
<1>. QED
  BY <1>4, <1>5, <1>6 DEF Money, SoundDecisions

\* A step that changes the money of at most one loan, which no request holds
\* afterwards, and the rows of repayments on it.
LEMMA OneLoanMoney ==
  ASSUME MoneyInv, NEW l \in Loans, LoanMoney(l)', today' = today,
         \A m \in Loans \ {l} : SameMoney(m),
         \A v \in Workers : req'[v] # None => req'[v] = req[v] /\ req[v].loan # l,
         \A r \in Receipts : rep'[r] # None => \/ rep'[r].loan = l /\ Exists(l)'
                                               \/ rep'[r] = rep[r] /\ rep[r].loan # l,
         \A v \in Workers : req'[v] # None /\ req[v].op = "repay" =>
           rep'[req[v].receipt] = rep[req[v].receipt]
  PROVE  Money'
<1>0. TypeOK /\ Money
  BY DEF MoneyInv, ApartInv
<1>1. LoansMoney'
  BY <1>0, SameMoneyKept DEF Money, LoansMoney
<1>2. RowsOnLoans'
  <2>1. \A r \in Receipts : rep[r] # None => rep[r].loan \in Loans /\ Exists(rep[r].loan)
    BY <1>0 DEF TypeOK, RepaymentRow, Money, RowsOnLoans
  <2>2. \A m \in Loans \ {l} : Exists(m) => Exists(m)'
    BY DEF SameMoney, SameRow, Exists
  <2>3. ASSUME NEW r \in Receipts, rep'[r] # None PROVE Exists(rep[r].loan)'
    <3>1. CASE rep'[r].loan = l /\ Exists(l)'
      BY <3>1 DEF Exists
    <3>2. CASE rep'[r] = rep[r] /\ rep[r].loan # l
      BY <2>1, <2>2, <2>3, <3>2 DEF Exists
    <3>. QED
      BY <2>3, <3>1, <3>2
  <2>. QED
    BY <2>3 DEF RowsOnLoans
<1>3. \A v \in Workers : req[v] # None => req[v].loan \in Loans
  BY <1>0 DEF TypeOK, Request
<1>4. \A v \in Workers : req'[v] # None => req[v] # None /\ SameMoney(req[v].loan)
  BY <1>3
<1>5. HeldReceipts' /\ SoundDecisions'
  BY <1>0, <1>4, DecisionsKept DEF Money
<1>. QED
  BY <1>1, <1>2, <1>5 DEF Money

\* The totals of a loan after one of its rows has changed as Repayment.clean allowed.
LEMMA RetotalledMoney ==
  ASSUME TypeOK, NEW l \in Loans, LoanMoney(l), NEW old \in Payment, NEW pay \in Payment,
         CleanPasses(loan[l], l, old, pay), loan[l].status \in Statuses,
         Retotal(l, old, pay), SameRow(l), today' = today,
         ~ClearsLoan(loan[l], l, old, pay)
  PROVE  LoanMoney(l)'
<1>1. /\ loan[l].principal \in Int /\ paid[l] \in Int /\ settled[l] \in Int
      /\ Accrued(loan[l]) \in Int
  BY MoneyTypes
<1>2. /\ old.p \in Nat /\ old.i \in Nat /\ old.w \in Nat
      /\ pay.p \in Nat /\ pay.i \in Nat /\ pay.w \in Nat
  BY DEF Payment
<1>3. /\ paid'[l] = paid[l] - old.p + pay.p
      /\ settled'[l] = settled[l] - old.i - old.w + pay.i + pay.w
  BY DEF Retotal, TypeOK
<1>4. /\ loan'[l].principal = loan[l].principal /\ loan'[l].status = loan[l].status
      /\ loan'[l].pledge = loan[l].pledge
      /\ Accrued(loan[l])' = Accrued(loan[l])
  BY DEF SameRow, Accrued
<1>5. /\ paid'[l] <= loan[l].principal + Tolerance
      /\ settled'[l] <= Accrued(loan[l]) + Tolerance
  BY <1>1, <1>2, <1>3 DEF CleanPasses, Tolerance
<1>6. loan[l].status \in Live =>
        loan[l].principal - paid'[l] > 0 \/ Accrued(loan[l]) - settled'[l] > 0
  BY <1>1, <1>2, <1>3 DEF ClearsLoan, Outstanding
<1>7. paid'[l] \in Int /\ settled'[l] \in Int
  BY <1>1, <1>2, <1>3
<1>8. loan[l].status \in Live =>
        Outstanding(loan[l], l)' > 0 \/ InterestDue(loan[l], l)' > 0
  BY <1>1, <1>4, <1>6, <1>7 DEF Outstanding, InterestDue, NonNegative
<1>. QED
  BY <1>4, <1>5, <1>8 DEF LoanMoney, Exists, Statuses, Live, Terminal

LEMMA ClosedMoney ==
  ASSUME TypeOK, NEW l \in Loans, LoanMoney(l), NEW old \in Payment, NEW pay \in Payment,
         CleanPasses(loan[l], l, old, pay), loan[l].status \in Statuses, Retotal(l, old, pay),
         loan'[l].principal = loan[l].principal, loan'[l].start = loan[l].start,
         loan'[l].pledge = loan[l].pledge, loan'[l].status = "closed", today' = today
  PROVE  LoanMoney(l)'
<1>1. /\ loan[l].principal \in Int /\ paid[l] \in Int /\ settled[l] \in Int
      /\ Accrued(loan[l]) \in Int
  BY MoneyTypes
<1>2. /\ old.p \in Nat /\ old.i \in Nat /\ old.w \in Nat
      /\ pay.p \in Nat /\ pay.i \in Nat /\ pay.w \in Nat
  BY DEF Payment
<1>3. /\ paid'[l] = paid[l] - old.p + pay.p
      /\ settled'[l] = settled[l] - old.i - old.w + pay.i + pay.w
  BY DEF Retotal, TypeOK
<1>4. Accrued(loan[l])' = Accrued(loan[l])
  BY DEF Accrued
<1>5. /\ paid'[l] <= loan[l].principal + Tolerance
      /\ settled'[l] <= Accrued(loan[l]) + Tolerance
  BY <1>1, <1>2, <1>3 DEF CleanPasses, Tolerance
<1>. QED
  BY <1>4, <1>5 DEF LoanMoney, Exists, Statuses, Live, Terminal

LEMMA CommitRepaymentMoney ==
  ASSUME MoneyInv, NEW w \in Workers, CommitRepayment(w)
  PROVE  Money'
<1>. DEFINE q == req[w]
            old == Stored(q.receipt)
<1>0. TypeOK /\ FreshRead /\ OneRequestPerLoan /\ Money
  BY DEF MoneyInv, ApartInv, Apart
<1>. PICK l \in Loans : l = q.loan
  BY <1>0 DEF CommitRepayment, TypeOK, Request
<1>1. /\ q # None /\ q \in Request /\ q.op = "repay" /\ q.stage = "saved" /\ q.loan = l
      /\ q.pay \in Payment /\ q.receipt \in Receipts /\ q.seen \in LoanRow
      /\ q.close \in BOOLEAN
  BY <1>0 DEF CommitRepayment, TypeOK, Request, Payment
<1>2. old \in Payment
  BY <1>0, <1>1, StoredType
<1>3. /\ LoanMoney(l) /\ CleanPasses(loan[l], l, old, q.pay)
      /\ q.close <=> ClearsLoan(q.seen, l, old, q.pay)
  BY <1>0, <1>1 DEF Money, LoansMoney, SoundDecisions, SoundDecision
<1>4. /\ loan[l].status \in Statuses /\ q.seen.status = loan[l].status
      /\ q.seen.principal = loan[l].principal /\ q.seen.start = loan[l].start
  BY <1>0, <1>1 DEF FreshRead
<1>5. ClearsLoan(q.seen, l, old, q.pay) <=> ClearsLoan(loan[l], l, old, q.pay)
  BY <1>4 DEF ClearsLoan, Accrued, Outstanding
<1>6. /\ Retotal(l, old, q.pay) /\ today' = today
      /\ rep' = [rep EXCEPT ![q.receipt] = [loan |-> l, pay |-> q.pay, on |-> q.on]]
      /\ loan' = IF q.close THEN [loan EXCEPT ![l].status = "closed"] ELSE loan
      /\ req' = [req EXCEPT ![w] = None]
  BY DEF CommitRepayment
<1>7. \A v \in Workers : req'[v] # None => /\ v # w /\ req'[v] = req[v] /\ req[v] # None
                                            /\ req[v].loan # l
  BY <1>0, <1>1, <1>6 DEF TypeOK, OneRequestPerLoan
<1>8. \A v \in Workers : req'[v] # None /\ req[v].op = "repay" =>
        rep'[req[v].receipt] = rep[req[v].receipt]
  <2>1. \A v \in Workers : req'[v] # None /\ req[v].op = "repay" =>
          req[v].receipt \in Receipts \ {q.receipt}
    BY <1>0, <1>1, <1>7 DEF Money, HeldReceipts, TypeOK, Request
  <2>. QED
    BY <1>0, <1>6, <2>1 DEF TypeOK
<1>9. \A r \in Receipts : rep'[r] # None => rep'[r].loan = l \/ rep'[r] = rep[r]
  BY <1>0, <1>6 DEF TypeOK
<1>. HIDE DEF old
<1>10. \A m \in Loans \ {l} : SameMoney(m)
  <2>1. \A m \in Loans \ {l} : loan'[m] = loan[m] /\ paid'[m] = paid[m] /\ settled'[m] = settled[m]
    BY <1>0, <1>1, <1>6 DEF Retotal, TypeOK
  <2>. QED
    BY <2>1 DEF SameMoney, SameRow
<1>. HIDE DEF q
<1>11. LoanMoney(l)' /\ Exists(l)'
  <2>1. CASE q.close
    <3>1. /\ loan'[l].principal = loan[l].principal /\ loan'[l].start = loan[l].start
          /\ loan'[l].pledge = loan[l].pledge /\ loan'[l].status = "closed"
      BY <1>0, <1>1, <1>6, <2>1 DEF TypeOK, LoanRow
    <3>. QED
      BY <1>0, <1>1, <1>2, <1>3, <1>4, <1>6, <3>1, ClosedMoney
         DEF Exists, Statuses, Terminal
  <2>2. CASE ~q.close
    <3>1. loan' = loan /\ SameRow(l)
      BY <1>6, <2>2 DEF SameRow
    <3>. QED
      BY <1>0, <1>1, <1>2, <1>3, <1>4, <1>5, <1>6, <2>2, <3>1, RetotalledMoney DEF Exists
  <2>. QED
    BY <2>1, <2>2
<1>12. \A r \in Receipts : rep'[r] # None => \/ rep'[r].loan = l /\ Exists(l)'
                                             \/ rep'[r] = rep[r] /\ rep[r].loan # l
  BY <1>9, <1>11
<1>. QED
  BY <1>1, <1>6, <1>7, <1>8, <1>10, <1>11, <1>12, OneLoanMoney

LEMMA PrecloseMoney ==
  ASSUME MoneyInv, NEW w \in Workers, Preclose(w)
  PROVE  Money'
<1>. DEFINE q == req[w]
            row == [q.seen EXCEPT !.status = "closed"]
<1>0. TypeOK /\ FreshRead /\ OneRequestPerLoan /\ Money
  BY DEF MoneyInv, ApartInv, Apart
<1>. PICK l \in Loans : l = q.loan
  BY <1>0 DEF Preclose, TypeOK, Request
<1>1. q # None /\ q \in Request /\ q.loan = l /\ q.seen \in LoanRow
  BY <1>0 DEF Preclose, TypeOK, Request
<1>2. /\ loan[l].status \in Statuses /\ q.seen.principal = loan[l].principal
      /\ q.seen.start = loan[l].start /\ q.seen.pledge = loan[l].pledge
  BY <1>0, <1>1 DEF FreshRead
<1>3. /\ row.status = "closed" /\ row.principal = loan[l].principal
      /\ row.start = loan[l].start /\ row.pledge = loan[l].pledge
  BY <1>1, <1>2 DEF LoanRow
<1>4. /\ loan' = [loan EXCEPT ![l] = row] /\ req' = [req EXCEPT ![w] = None]
      /\ UNCHANGED <<rep, paid, settled, today>>
  BY DEF Preclose
<1>. HIDE DEF row
<1>5. loan'[l] = row /\ \A m \in Loans \ {l} : SameMoney(m)
  BY <1>0, <1>1, <1>4 DEF TypeOK, SameMoney, SameRow
<1>6. \A v \in Workers : req'[v] # None => req'[v] = req[v] /\ req[v].loan # l
  BY <1>0, <1>1, <1>4 DEF TypeOK, OneRequestPerLoan
<1>7. LoanMoney(l)' /\ Exists(l)'
  BY <1>0, <1>1, <1>2, <1>3, <1>4, <1>5, StatusKeepsMoney
     DEF Money, LoansMoney, Exists, Statuses, Terminal, Live
<1>. HIDE DEF q
<1>. QED
  BY <1>1, <1>4, <1>5, <1>6, <1>7, OneLoanMoney

\* The new loan is booked for what was still owed, or for that and the top-up:
\* more than nothing, since no interest was due.
LEMMA CarryForwardMoney ==
  ASSUME MoneyInv, TypeOK', NEW w \in Workers, NEW n \in Loans, NEW lag \in Lags,
         CarryForward(w, n, lag)
  PROVE  Money'
<1>. DEFINE q == req[w]
            carried == IF q.op = "renew" THEN Outstanding(q.seen, q.loan) ELSE q.amount
            new == [status |-> "active", principal |-> carried, start |-> today - lag,
                    pledge |-> q.seen.pledge, renewedTo |-> None]
            old == [q.seen EXCEPT !.status = "closed", !.renewedTo = n]
<1>0. TypeOK /\ FreshRead /\ OneRequestPerLoan /\ Money
  BY DEF MoneyInv, ApartInv, Apart
<1>. PICK l \in Loans : l = q.loan
  BY <1>0 DEF CarryForward, TypeOK, Request
<1>1. /\ q # None /\ q \in Request /\ q.loan = l /\ q.seen \in LoanRow
      /\ q.op \in {"renew", "topup"} /\ loan[n].status = "unused"
  BY <1>0 DEF CarryForward, TypeOK, Request
<1>2. /\ loan[l].status \in Live /\ q.seen.principal = loan[l].principal
      /\ q.seen.start = loan[l].start /\ q.seen.pledge = loan[l].pledge
  BY <1>0, <1>1 DEF FreshRead
<1>3. carried > 0
  BY <1>0, <1>1 DEF Money, SoundDecisions, SoundDecision
<1>4. /\ old.status = "closed" /\ old.principal = loan[l].principal
      /\ old.start = loan[l].start /\ old.pledge = loan[l].pledge
      /\ new.status = "active" /\ new.principal = carried /\ new.pledge = loan[l].pledge
  BY <1>1, <1>2 DEF LoanRow
<1>5. /\ loan' = [loan EXCEPT ![n] = new, ![l] = old] /\ req' = [req EXCEPT ![w] = None]
      /\ UNCHANGED <<rep, paid, settled, today>>
  BY <1>1 DEF CarryForward
<1>. HIDE DEF old, new, carried
<1>6. /\ n # l /\ loan'[l] = old /\ loan'[n] = new
      /\ \A m \in Loans \ {l, n} : SameMoney(m)
  BY <1>0, <1>1, <1>2, <1>5 DEF TypeOK, SameMoney, SameRow, Live
<1>7. \A v \in Workers : req'[v] # None => /\ req'[v] = req[v] /\ req[v] # None
                                            /\ req[v].loan \in Loans \ {l, n}
  BY <1>0, <1>1, <1>5
     DEF TypeOK, Request, OneRequestPerLoan, FreshRead, Statuses, Live, Terminal
<1>8. LoansMoney'
  <2>1. LoanMoney(l)'
    BY <1>0, <1>2, <1>4, <1>5, <1>6, StatusKeepsMoney
       DEF Money, LoansMoney, Statuses, Live, Terminal
  <2>2. LoanMoney(n)'
    <3>1. loan[l].pledge \in Loans
      BY <1>0, <1>2 DEF Money, LoansMoney, LoanMoney, Live
    <3>. QED
      BY <1>0, <1>1, <1>3, <1>4, <1>5, <1>6, <3>1, NewLoanMoney
         DEF Money, LoansMoney, Statuses, Live
  <2>3. ASSUME NEW m \in Loans \ {l, n} PROVE LoanMoney(m)'
    BY <1>0, <1>5, <1>6, SameMoneyKept DEF Money, LoansMoney
  <2>. QED
    BY <2>1, <2>2, <2>3 DEF LoansMoney
<1>9. RowsOnLoans'
  <2>1. \A m \in Loans : Exists(m) => Exists(m)'
    BY <1>4, <1>6 DEF Exists, Statuses, Live, Terminal, SameMoney, SameRow
  <2>2. \A r \in Receipts : rep[r] # None => rep[r].loan \in Loans
    BY <1>0 DEF TypeOK, RepaymentRow
  <2>. QED
    BY <1>0, <1>5, <2>1, <2>2 DEF Money, RowsOnLoans
<1>10. HeldReceipts' /\ SoundDecisions'
  BY <1>0, <1>5, <1>6, <1>7, DecisionsKept DEF Money
<1>. QED
  BY <1>8, <1>9, <1>10 DEF Money

\* Before a renewal or a top-up is let in, no interest is due: then a running
\* loan has principal outstanding.
LEMMA AskMoney ==
  ASSUME ~SameLoanOverlap, MoneyInv, NEW w \in Workers, NEW l \in Loans,
         \/ AskPreclose(w, l)
         \/ AskRenew(w, l)
         \/ \E x \in Extras : AskTopup(w, l, x)
  PROVE  Money'
<1>0. TypeOK /\ Money
  BY DEF MoneyInv, ApartInv
<1>1. ASSUME NEW op \in {"preclose", "renew", "topup"}, NEW amount, Ask(w, op, l, amount),
             op = "renew" => /\ 0 < Outstanding(loan[l], l)
                             /\ Outstanding(loan[l], l) <= EligiblePrincipal,
             op = "topup" => /\ 0 < amount /\ amount <= EligiblePrincipal
                             /\ Outstanding(loan[l], l) <= amount
      PROVE  Money'
  <2>. DEFINE q == [NewRequest(op, l) EXCEPT !.amount = amount]
  <2>1. /\ q.op = op /\ q.stage = "checked" /\ q.loan = l /\ q.seen = loan[l]
        /\ q.amount = amount
    BY DEF NewRequest
  <2>2. /\ ~Busy(l) /\ req' = [req EXCEPT ![w] = q]
        /\ UNCHANGED <<loan, rep, paid, settled, today>>
    BY <1>1 DEF Ask, MayTouch
  <2>. HIDE DEF q
  <2>3. SoundDecision(q)
    BY <1>1, <2>1 DEF SoundDecision
  <2>. QED
    BY <1>1, <2>1, <2>2, <2>3, NewRequestMoney
<1>2. ASSUME loan[l].status \in Live, InterestDue(loan[l], l) = 0
      PROVE  Outstanding(loan[l], l) > 0
  BY <1>0, <1>2 DEF Money, LoansMoney, LoanMoney
<1>3. CASE AskPreclose(w, l)
  BY <1>1, <1>3 DEF AskPreclose
<1>4. CASE AskRenew(w, l)
  <2>1. /\ 0 < Outstanding(loan[l], l) /\ Outstanding(loan[l], l) <= EligiblePrincipal
        /\ Ask(w, "renew", l, 0)
    BY <1>2, <1>4 DEF AskRenew, NotBlocked, Ask
  <2>. QED
    BY <1>1, <2>1
<1>5. ASSUME NEW x \in Extras, AskTopup(w, l, x) PROVE Money'
  <2>. DEFINE amount == Outstanding(loan[l], l) + x
  <2>1. Outstanding(loan[l], l) \in Int /\ x \in Nat
    BY <1>0, OutstandingType, AmountAssumption DEF TypeOK
  <2>2. /\ 0 < Outstanding(loan[l], l) /\ amount <= EligiblePrincipal
        /\ Ask(w, "topup", l, amount)
    BY <1>2, <1>5 DEF AskTopup, NotBlocked, Ask
  <2>3. 0 < amount /\ Outstanding(loan[l], l) <= amount
    BY <2>1, <2>2
  <2>. QED
    BY <1>1, <2>2, <2>3
<1>. QED
  BY <1>3, <1>4, <1>5

LEMMA AbandonMoney ==
  ASSUME MoneyInv, NEW w \in Workers, Abandon(w)
  PROVE  Money'
<1>0. TypeOK /\ Money
  BY DEF MoneyInv, ApartInv
<1>1. /\ \A m \in Loans : SameMoney(m)
      /\ UNCHANGED <<loan, rep, paid, settled, today>>
      /\ \A v \in Workers : req'[v] # None => req'[v] = req[v] /\ req[v] # None
  BY <1>0 DEF Abandon, SameMoney, SameRow, TypeOK
<1>2. LoansMoney' /\ RowsOnLoans'
  BY <1>0, <1>1, SameMoneyKept DEF Money, LoansMoney, RowsOnLoans, Exists
<1>3. \A v \in Workers : req[v] # None => req[v].loan \in Loans
  BY <1>0 DEF TypeOK, Request
<1>4. HeldReceipts' /\ SoundDecisions'
  BY <1>0, <1>1, <1>3, DecisionsKept DEF Money
<1>. QED
  BY <1>2, <1>4 DEF Money

\* Taking a repayment back leaves more due than before.
LEMMA DeleteRepaymentMoney ==
  ASSUME ~SameLoanOverlap, MoneyInv, NEW r \in Receipts, DeleteRepayment(r)
  PROVE  Money'
<1>0. TypeOK /\ Money
  BY DEF MoneyInv, ApartInv
<1>. DEFINE old == rep[r].pay
<1>. PICK l \in Loans : l = rep[r].loan
  BY <1>0 DEF DeleteRepayment, TypeOK, RepaymentRow
<1>1. rep[r] # None /\ rep[r].loan = l /\ old \in Payment /\ NoPay \in Payment
  BY <1>0 DEF DeleteRepayment, TypeOK, RepaymentRow, NoPay, Payment
<1>2. /\ ~Busy(l) /\ Retotal(l, old, NoPay) /\ rep' = [rep EXCEPT ![r] = None]
      /\ UNCHANGED <<loan, today, req>>
  BY <1>1 DEF DeleteRepayment, MayTouch
<1>3. Exists(l) /\ LoanMoney(l)
  BY <1>0, <1>1 DEF Money, RowsOnLoans, LoansMoney
<1>4. LoanMoney(l)' /\ Exists(l)'
  <2>1. /\ loan[l].principal \in Int /\ paid[l] \in Int /\ settled[l] \in Int
        /\ Accrued(loan[l]) \in Int
    BY <1>0, MoneyTypes
  <2>2. /\ old.p \in Nat /\ old.i \in Nat /\ old.w \in Nat
    BY <1>1 DEF Payment
  <2>. HIDE DEF old
  <2>3. paid'[l] = paid[l] - old.p + 0 /\ settled'[l] = settled[l] - old.i - old.w + 0 + 0
    BY <1>0, <1>2 DEF Retotal, TypeOK, NoPay
  <2>4. paid'[l] <= paid[l] /\ settled'[l] <= settled[l] /\ paid'[l] \in Int /\ settled'[l] \in Int
    BY <2>1, <2>2, <2>3
  <2>5. Accrued(loan[l])' = Accrued(loan[l]) /\ loan' = loan
    BY <1>2 DEF Accrued
  <2>6. /\ paid[l] <= loan[l].principal + Tolerance => paid'[l] <= loan[l].principal + Tolerance
        /\ settled[l] <= Accrued(loan[l]) + Tolerance =>
             settled'[l] <= Accrued(loan[l]) + Tolerance
    BY <2>1, <2>4 DEF Tolerance
  <2>7. Outstanding(loan[l], l) > 0 \/ InterestDue(loan[l], l) > 0 =>
          Outstanding(loan[l], l)' > 0 \/ InterestDue(loan[l], l)' > 0
    BY <2>1, <2>4, <2>5 DEF Outstanding, InterestDue, NonNegative
  <2>. QED
    BY <1>3, <2>5, <2>6, <2>7 DEF LoanMoney, Exists, Statuses, Live, Terminal
<1>5. \A m \in Loans \ {l} : SameMoney(m)
  BY <1>0, <1>2 DEF Retotal, SameMoney, SameRow, TypeOK
<1>6. \A v \in Workers : req'[v] # None => req'[v] = req[v] /\ req[v].loan # l
  BY <1>2 DEF Busy
<1>7. \A v \in Workers : req'[v] # None /\ req[v].op = "repay" =>
        rep'[req[v].receipt] = rep[req[v].receipt]
  <2>1. \A v \in Workers : req'[v] # None /\ req[v].op = "repay" =>
          req[v].receipt \in Receipts \ {r}
    BY <1>0, <1>1, <1>2, <1>6 DEF Money, HeldReceipts, TypeOK, Request
  <2>. QED
    BY <1>0, <1>2, <2>1 DEF TypeOK
<1>8. \A s \in Receipts : rep'[s] # None => rep'[s] = rep[s]
  BY <1>0, <1>2 DEF TypeOK
<1>. HIDE DEF old
<1>. QED
  BY <1>2, <1>4, <1>5, <1>6, <1>7, <1>8, OneLoanMoney

LEMMA DeleteLoanMoney ==
  ASSUME ~SameLoanOverlap, MoneyInv, NEW l \in Loans, DeleteLoan(l)
  PROVE  Money'
<1>0. TypeOK /\ Money
  BY DEF MoneyInv, ApartInv
<1>1. \A m \in Loans : loan[m] \in LoanRow
  BY <1>0 DEF TypeOK
<1>2. /\ loan'[l].status = "deleted" /\ loan'[l].principal = loan[l].principal
      /\ loan'[l].pledge = loan[l].pledge
  BY <1>1 DEF DeleteLoan, LoanRow
<1>3. \A m \in Loans \ {l} : SameMoney(m)
  BY <1>0, <1>1 DEF DeleteLoan, LoanRow, SameMoney, SameRow, TypeOK
<1>4. ~Busy(l) /\ Exists(l) /\ req' = req /\ today' = today
  BY DEF DeleteLoan, MayTouch
<1>5. LoanMoney(l)'
  BY <1>0, <1>2, <1>4 DEF Money, LoansMoney, LoanMoney, Exists, Statuses, Live, Terminal
<1>6. \A v \in Workers : req'[v] # None => req'[v] = req[v] /\ req[v].loan # l
  BY <1>4 DEF Busy
<1>7. \A r \in Receipts : rep'[r] # None => rep'[r] = rep[r] /\ rep[r].loan # l
  BY DEF DeleteLoan
<1>8. \A v \in Workers : req'[v] # None /\ req[v].op = "repay" =>
        rep'[req[v].receipt] = rep[req[v].receipt]
  <2>1. \A v \in Workers : req'[v] # None /\ req[v].op = "repay" =>
          /\ req[v].receipt \in Receipts
          /\ rep[req[v].receipt] # None => rep[req[v].receipt].loan # l
    BY <1>0, <1>4, <1>6 DEF Money, HeldReceipts, TypeOK, Request
  <2>. QED
    BY <2>1 DEF DeleteLoan
<1>. QED
  BY <1>3, <1>4, <1>5, <1>6, <1>7, <1>8, OneLoanMoney

LEMMA VisitMoney ==
  ASSUME MoneyInv, NEW l \in Loans, NEW condition, NEW to \in Live, Visit(l, condition, to)
  PROVE  Money'
<1>0. TypeOK /\ FreshList /\ Money
  BY DEF MoneyInv, ApartInv, Apart
<1>1. loan[l].status \in Live /\ ~Busy(l)
  BY <1>0 DEF FreshList, Visit
<1>2. /\ loan' = loan \/ loan' = [loan EXCEPT ![l].status = to]
      /\ UNCHANGED <<rep, paid, settled, today, req>>
  BY DEF Visit
<1>3. /\ loan'[l].principal = loan[l].principal /\ loan'[l].start = loan[l].start
      /\ loan'[l].pledge = loan[l].pledge /\ loan'[l].status \in Live
      /\ \A m \in Loans \ {l} : SameMoney(m)
  BY <1>0, <1>1, <1>2 DEF TypeOK, LoanRow, SameMoney, SameRow
<1>4. LoanMoney(l)' /\ Exists(l)'
  BY <1>0, <1>1, <1>2, <1>3, StatusKeepsMoney DEF Money, LoansMoney, Exists, Statuses
<1>5. \A v \in Workers : req'[v] # None => req'[v] = req[v] /\ req[v].loan # l
  BY <1>1, <1>2 DEF Busy
<1>. QED
  BY <1>2, <1>3, <1>4, <1>5, OneLoanMoney

LEMMA StutterMoney ==
  ASSUME MoneyInv, UNCHANGED <<loan, rep, paid, settled, today, req>>
  PROVE  Money'
<1>0. TypeOK /\ Money
  BY DEF MoneyInv, ApartInv
<1>1. \A m \in Loans : SameMoney(m)
  BY DEF SameMoney, SameRow
<1>2. LoansMoney' /\ RowsOnLoans'
  BY <1>0, <1>1, SameMoneyKept DEF Money, LoansMoney, RowsOnLoans, Exists
<1>3. \A v \in Workers : req[v] # None => req[v].loan \in Loans
  BY <1>0 DEF TypeOK, Request
<1>4. HeldReceipts' /\ SoundDecisions'
  BY <1>0, <1>1, <1>3, DecisionsKept DEF Money
<1>. QED
  BY <1>2, <1>4 DEF Money

\* The calendar moves on: interest accrues, nothing else changes.
LEMMA TickMoney ==
  ASSUME MoneyInv, Tick
  PROVE  Money'
<1>0. TypeOK /\ Money
  BY DEF MoneyInv, ApartInv
<1>1. /\ today' \in Nat /\ today <= today'
      /\ UNCHANGED <<loan, rep, paid, settled, req>>
      /\ \A w \in Workers : req[w] = None
  BY <1>0, CalendarAssumption DEF Tick, TypeOK, Money, SoundDecisions, SoundDecision
<1>2. ASSUME NEW l \in Loans PROVE LoanMoney(l)'
  <2>1. LoanMoney(l) /\ loan[l].principal \in Nat /\ loan[l].start \in Int
        /\ paid[l] \in Int /\ settled[l] \in Int /\ today \in Int /\ today' \in Int
    BY <1>0, <1>1 DEF Money, LoansMoney, LoanMoney, TypeOK, LoanRow
  <2>. DEFINE monthly == MonthlyInterest(loan[l].principal, RateType, RatePct)
              before == InterestAccrued(monthly, loan[l].start, today)
              after == InterestAccrued(monthly, loan[l].start, today')
  <2>2. monthly \in Nat
    BY <2>1, MonthlyInterestNat
  <2>3. before \in Nat /\ after \in Nat /\ before <= after
    BY <1>1, <2>1, <2>2, InterestAccruedNat, InterestGrows
  <2>4. Accrued(loan[l]) = before /\ Accrued(loan[l])' = after
    BY <1>1 DEF Accrued
  <2>. HIDE DEF before, after, monthly
  <2>5. settled[l] <= before + Tolerance => settled[l] <= after + Tolerance
    BY <2>1, <2>3 DEF Tolerance
  <2>6. InterestDue(loan[l], l) > 0 => InterestDue(loan[l], l)' > 0
    BY <1>1, <2>1, <2>3, <2>4 DEF InterestDue, NonNegative
  <2>7. Outstanding(loan[l], l)' = Outstanding(loan[l], l)
    BY <1>1 DEF Outstanding
  <2>. QED
    BY <1>1, <2>1, <2>4, <2>5, <2>6, <2>7 DEF LoanMoney, Exists
<1>3. RowsOnLoans'
  BY <1>0, <1>1 DEF Money, RowsOnLoans, Exists
<1>4. HeldReceipts' /\ SoundDecisions'
  BY <1>1 DEF HeldReceipts, SoundDecisions
<1>. QED
  BY <1>2, <1>3, <1>4 DEF Money, LoansMoney

\* The uses of the loan form: it writes amounts unseen by Repayment.clean, and
\* two rows it saw one by one.
Unchecked == {"edit_loan", "inline_rows"}

LEMMA NoFormStep ==
  ASSUME AdminActs \cap Unchecked = {}, MoneyInv, NEW w \in Workers, FormStep(w)
  PROVE  FALSE
<1>1. req[w] # None => req[w].op # "form"
  BY DEF MoneyInv, Money, SoundDecisions, SoundDecision
<1>2. ASSUME NEW l, OpenLoanForm(w, l) PROVE FALSE
  BY <1>2 DEF OpenLoanForm, Unchecked
<1>3. ASSUME NEW fields, NEW one, NEW two, NEW lag, PostLoanForm(w, fields, one, two, lag)
      PROVE  FALSE
  BY <1>1, <1>3 DEF PostLoanForm
<1>4. ASSUME SaveLoanForm(w) PROVE FALSE
  BY <1>1, <1>4 DEF SaveLoanForm
<1>. QED
  BY <1>2, <1>3, <1>4 DEF FormStep

LEMMA NextMoney ==
  ASSUME ~SameLoanOverlap, AdminActs \cap Unchecked = {}
  PROVE  MoneyInv /\ [Next]_vars => MoneyInv'
<1>. SUFFICES ASSUME MoneyInv, [Next]_vars PROVE MoneyInv'
  OBVIOUS
<1>1. ApartInv' /\ TypeOK'
  BY NextApart DEF MoneyInv, ApartInv, Unchecked
<1>2. ASSUME NEW w \in Workers, RepaymentStep(w) PROVE Money'
  BY <1>2, CheckRepaymentMoney, SaveRepaymentMoney, CommitRepaymentMoney DEF RepaymentStep
<1>3. ASSUME NEW w \in Workers, ActionStep(w) PROVE Money'
  BY <1>1, <1>3, AskMoney, PrecloseMoney, CarryForwardMoney, AbandonMoney DEF ActionStep
<1>4. ASSUME AdminStep PROVE Money'
  BY <1>1, <1>4, BookLoanMoney, DeleteLoanMoney, DeleteRepaymentMoney DEF AdminStep
<1>5. ASSUME ClassifierStep PROVE Money'
  BY <1>5, VisitMoney, StutterMoney
     DEF ClassifierStep, ListActive, ListOverdue, EndScan, MarkOverdue, ClearOverdue, Live
<1>6. ASSUME UNCHANGED vars PROVE Money'
  BY <1>6, StutterMoney DEF vars
<1>7. Money'
  BY <1>2, <1>3, <1>4, <1>5, <1>6, TickMoney, NoFormStep DEF Next
<1>. QED
  BY <1>1, <1>7 DEF MoneyInv

LEMMA AlwaysMoney ==
  ASSUME ~SameLoanOverlap, AdminActs \cap Unchecked = {}
  PROVE  Spec => []MoneyInv
<1>1. Init => MoneyInv
  BY InitType, InitApart, InitMoney DEF MoneyInv, ApartInv
<1>. QED
  BY <1>1, NextMoney, PTL DEF Spec

\* Requests on one loan kept apart, no loan ever takes more principal than was
\* lent, nor more interest than has accrued, a paisa apart: whatever is repaid,
\* corrected, taken back, renewed and deleted, on whatever days.
THEOREM NothingOverSettled ==
  ASSUME ~SameLoanOverlap, AdminActs \cap Unchecked = {}
  PROVE  Spec => []NoOverSettlement
<1>1. MoneyInv => NoOverSettlement
  BY DEF MoneyInv, Money, LoansMoney, LoanMoney, NoOverSettlement
<1>. QED
  BY <1>1, AlwaysMoney, PTL

\* Under the same conditions a loan that runs has something left to pay:
\* autoclose_loan misses none.
THEOREM NoneSettledRuns ==
  ASSUME ~SameLoanOverlap, AdminActs \cap Unchecked = {}
  PROVE  Spec => []SettledLoansAreClosed
<1>1. MoneyInv => SettledLoansAreClosed
  BY DEF MoneyInv, Money, LoansMoney, LoanMoney, SettledLoansAreClosed
<1>. QED
  BY <1>1, AlwaysMoney, PTL

-----------------------------------------------------------------------------
(* The loan book implements LoanLifecycle *)

\* The refinement mapping, by the names of LoanLifecycle.
Booked == {l \in Loans : loan[l].status # "unused"}
Holders == [g \in Loans |-> Holder(g)]
Lent == [l \in Loans |-> loan[l].principal]

\* Loan l runs on pledge g.
Runs(l, g) == loan[l].status \in Live /\ loan[l].pledge = g

LEMMA HolderRuns ==
  ASSUME OneLoanPerPledge, NEW g \in Loans, NEW l \in Loans, Runs(l, g)
  PROVE  Holder(g) = l
<1>. DEFINE running == {m \in Loans : loan[m].status \in Live /\ loan[m].pledge = g}
<1>1. running = {l}
  BY DEF Runs, OneLoanPerPledge
<1>. QED
  BY <1>1 DEF Holder

LEMMA HolderRunsAfter ==
  ASSUME OneLoanPerPledge', NEW g \in Loans, NEW l \in Loans, Runs(l, g)'
  PROVE  Holder(g)' = l
<1>. DEFINE running == {m \in Loans : loan[m].status \in Live /\ loan[m].pledge = g}
<1>1. running' = {l}
  BY DEF Runs, OneLoanPerPledge
<1>. QED
  BY <1>1 DEF Holder

LEMMA NobodyHolds ==
  ASSUME NEW g \in Loans, \A m \in Loans : ~Runs(m, g)
  PROVE  Holder(g) = None
BY DEF Holder, Runs

LEMMA NobodyHoldsAfter ==
  ASSUME NEW g \in Loans, \A m \in Loans : ~Runs(m, g)'
  PROVE  Holder(g)' = None
BY DEF Holder, Runs

LEMMA SameHolder ==
  ASSUME NEW g \in Loans, \A m \in Loans : Runs(m, g)' <=> Runs(m, g)
  PROVE  Holder(g)' = Holder(g)
<1>. DEFINE running == {m \in Loans : loan[m].status \in Live /\ loan[m].pledge = g}
<1>1. running' = running
  BY DEF Runs
<1>2. Holder(g) = IF running = {} THEN None ELSE CHOOSE l \in running : TRUE
  BY DEF Holder
<1>3. Holder(g)' = IF running' = {} THEN None ELSE CHOOSE l \in running' : TRUE
  BY DEF Holder
<1>. HIDE DEF running
<1>. QED
  BY <1>1, <1>2, <1>3

\* What LoanLifecycle sees of row m does not change.
SameToOwner(m) ==
  /\ loan'[m].principal = loan[m].principal
  /\ loan'[m].status = "unused" <=> loan[m].status = "unused"
  /\ loan'[m].status \in Live <=> loan[m].status \in Live
  /\ loan'[m].pledge = loan[m].pledge

LEMMA LifecycleStutters ==
  ASSUME \A m \in Loans : SameToOwner(m), paid' = paid
  PROVE  UNCHANGED Lifecycle!vars
<1>1. Booked' = Booked
  BY DEF SameToOwner, Booked
<1>2. Holders' = Holders
  BY SameHolder DEF SameToOwner, Runs, Holders
<1>3. Lent' = Lent
  BY DEF SameToOwner, Lent
<1>. QED
  BY <1>1, <1>2, <1>3 DEF Lifecycle!vars, Booked, Holders, Lent

LEMMA BookImplements ==
  ASSUME MoneyInv, MoneyInv', NEW l \in Loans, NEW p \in Principals, NEW offset \in StartOffsets,
         NEW status \in EntryStatuses, BookLoan(l, p, offset, status)
  PROVE  Lifecycle!Book(l) \/ Lifecycle!Enter(l)
<1>0. TypeOK /\ FreshPledge /\ OneLoanPerPledge'
  BY DEF MoneyInv, ApartInv, Apart
<1>1. /\ loan[l].status = "unused" /\ status \in Statuses
      /\ loan'[l].status = status /\ loan'[l].principal = p /\ loan'[l].pledge = l
      /\ \A m \in Loans \ {l} : loan'[m] = loan[m]
      /\ paid' = paid
  BY <1>0, AmountAssumption DEF BookLoan, TypeOK
<1>2. \A m \in Loans : ~Runs(m, l)
  BY <1>0, <1>1 DEF FreshPledge, Runs
<1>3. Holders[l] = None /\ l \notin Booked
  BY <1>1, <1>2, NobodyHolds DEF Holders, Booked
<1>4. Booked' = Booked \cup {l}
  BY <1>1 DEF Booked, Statuses, Live, Terminal
<1>5. Lent' = [Lent EXCEPT ![l] = Lent'[l]] /\ Lent'[l] > 0
  <2>1. p > 0
    BY AmountAssumption
  <2>2. \A m \in Loans \ {l} : Lent'[m] = Lent[m]
    BY <1>1 DEF Lent
  <2>3. Lent'[l] = p
    BY <1>1 DEF Lent
  <2>. QED
    BY <2>1, <2>2, <2>3 DEF Lent
<1>6. ASSUME status \in Live PROVE Holders' = [Holders EXCEPT ![l] = l]
  <2>1. Holder(l)' = l
    BY <1>0, <1>1, <1>6, HolderRunsAfter DEF Runs
  <2>2. ASSUME NEW g \in Loans \ {l} PROVE Holder(g)' = Holder(g)
    BY <1>1, SameHolder DEF Runs, Live
  <2>. QED
    BY <2>1, <2>2 DEF Holders
<1>7. ASSUME status \notin Live PROVE Holders' = Holders
  BY <1>1, <1>7, SameHolder DEF Runs, Holders, Live
<1>8. CASE status \in Live
  BY <1>1, <1>3, <1>4, <1>5, <1>6, <1>8 DEF Lifecycle!Book, Booked, Holders, Lent
<1>9. CASE status \notin Live
  BY <1>1, <1>3, <1>4, <1>5, <1>7, <1>9 DEF Lifecycle!Enter, Booked, Holders, Lent
<1>. QED
  BY <1>8, <1>9

\* The step that stops l, and no other loan, leaves its pledge to nobody.
LEMMA OneLoanStops ==
  ASSUME OneLoanPerPledge, NEW l \in Loans,
         Runs(l, loan[l].pledge), loan[l].pledge \in Loans,
         loan'[l].status \notin Live,
         \A m \in Loans \ {l} : loan'[m] = loan[m]
  PROVE  /\ Holders[loan[l].pledge] = l
         /\ Holders' = [Holders EXCEPT ![loan[l].pledge] = None]
<1>. PICK g \in Loans : g = loan[l].pledge
  OBVIOUS
<1>1. Holder(g) = l
  BY HolderRuns
<1>2. \A m \in Loans : ~Runs(m, g)'
  BY DEF Runs, OneLoanPerPledge
<1>3. Holder(g)' = None
  BY <1>2, NobodyHoldsAfter
<1>4. ASSUME NEW h \in Loans \ {g} PROVE Holder(h)' = Holder(h)
  <2>1. \A m \in Loans : Runs(m, h)' <=> Runs(m, h)
    BY DEF Runs
  <2>. QED
    BY <2>1, SameHolder
<1>. QED
  BY <1>1, <1>3, <1>4 DEF Holders

\* Totals of l change, and l runs on or not as before.
LEMMA TotalsImplement ==
  ASSUME MoneyInv, MoneyInv', NEW l \in Loans, Exists(l), Exists(l)',
         \A m \in Loans : SameToOwner(m),
         \A m \in Loans \ {l} : paid'[m] = paid[m]
  PROVE  Lifecycle!Receive(l)
<1>0. TypeOK /\ TypeOK' /\ LoanMoney(l)'
  BY DEF MoneyInv, ApartInv, Money, LoansMoney
<1>1. Booked' = Booked /\ l \in Booked
  BY DEF SameToOwner, Booked, Exists, Statuses, Live, Terminal
<1>2. Holders' = Holders
  BY SameHolder DEF SameToOwner, Runs, Holders
<1>3. Lent' = Lent
  BY DEF SameToOwner, Lent
<1>4. paid' = [paid EXCEPT ![l] = paid'[l]]
  BY <1>0 DEF TypeOK
<1>5. paid'[l] <= Lent[l] + Tolerance
  BY <1>0 DEF LoanMoney, SameToOwner, Lent
<1>. QED
  BY <1>1, <1>2, <1>3, <1>4, <1>5 DEF Lifecycle!Receive, Booked, Holders, Lent

LEMMA CommitImplements ==
  ASSUME MoneyInv, MoneyInv', NEW w \in Workers, CommitRepayment(w)
  PROVE  \E l \in Loans : Lifecycle!Receive(l)
<1>. DEFINE q == req[w]
            old == Stored(q.receipt)
<1>0. TypeOK /\ TypeOK' /\ FreshRead /\ Money /\ Money' /\ OneLoanPerPledge
  BY DEF MoneyInv, ApartInv, Apart
<1>. PICK l \in Loans : l = q.loan
  BY <1>0 DEF CommitRepayment, TypeOK, Request
<1>1. /\ q # None /\ q \in Request /\ q.op = "repay" /\ q.stage = "saved" /\ q.loan = l
      /\ q.pay \in Payment /\ q.receipt \in Receipts /\ q.seen \in LoanRow
      /\ q.close \in BOOLEAN
  BY <1>0 DEF CommitRepayment, TypeOK, Request, Payment
<1>2. old \in Payment
  BY <1>0, <1>1, StoredType
<1>3. q.close <=> ClearsLoan(q.seen, l, old, q.pay)
  BY <1>0, <1>1 DEF Money, SoundDecisions, SoundDecision
<1>4. /\ loan[l].status \in Statuses /\ q.seen.status = loan[l].status
      /\ q.seen.principal = loan[l].principal
  BY <1>0, <1>1 DEF FreshRead
<1>5. /\ Retotal(l, old, q.pay)
      /\ loan' = IF q.close THEN [loan EXCEPT ![l].status = "closed"] ELSE loan
  BY DEF CommitRepayment
<1>. HIDE DEF old, q
<1>6. /\ paid'[l] = paid[l] - old.p + q.pay.p
      /\ \A m \in Loans \ {l} : paid'[m] = paid[m]
      /\ paid' = [paid EXCEPT ![l] = paid'[l]]
  BY <1>0, <1>5 DEF Retotal, TypeOK
<1>7. CASE ~q.close
  <2>1. loan' = loan
    BY <1>5, <1>7
  <2>2. Exists(l) /\ Exists(l)' /\ \A m \in Loans : SameToOwner(m)
    BY <1>4, <2>1 DEF Exists, SameToOwner
  <2>. QED
    BY <1>6, <2>2, TotalsImplement
<1>8. CASE q.close
  <2>1. /\ loan[l].status \in Live /\ loan'[l] = [loan[l] EXCEPT !.status = "closed"]
        /\ \A m \in Loans \ {l} : loan'[m] = loan[m]
    BY <1>0, <1>3, <1>4, <1>5, <1>8 DEF ClearsLoan, TypeOK
  <2>2. /\ loan'[l].status = "closed" /\ loan'[l].principal = loan[l].principal
    BY <1>0, <2>1 DEF TypeOK, LoanRow
  <2>3. loan[l].pledge \in Loans /\ LoanMoney(l)'
    BY <1>0, <2>1 DEF Money, LoansMoney, LoanMoney, Live
  <2>4. paid'[l] >= loan[l].principal
    <3>1. Outstanding(q.seen, l) + old.p - q.pay.p <= 0
      BY <1>3, <1>8 DEF ClearsLoan
    <3>2. loan[l].principal \in Int /\ paid[l] \in Int /\ old.p \in Int /\ q.pay.p \in Int
      BY <1>0, <1>1, <1>2, MoneyTypes DEF Payment
    <3>. QED
      BY <1>4, <1>6, <3>1, <3>2 DEF Outstanding
  <2>5. paid'[l] <= loan[l].principal + Tolerance
    BY <2>2, <2>3 DEF LoanMoney, Exists, Statuses, Terminal
  <2>6. /\ Holders[loan[l].pledge] = l
        /\ Holders' = [Holders EXCEPT ![loan[l].pledge] = None]
    BY <1>0, <2>1, <2>2, <2>3, OneLoanStops DEF Runs, Live
  <2>7. \A m \in Loans : /\ loan'[m].status = "unused" <=> loan[m].status = "unused"
                         /\ loan'[m].principal = loan[m].principal
    BY <2>1, <2>2 DEF Live
  <2>8. Booked' = Booked /\ l \in Booked
    BY <2>1, <2>7 DEF Booked, Live
  <2>9. Lent' = Lent
    BY <2>7 DEF Lent
  <2>. QED
    BY <1>6, <2>3, <2>4, <2>5, <2>6, <2>8, <2>9
       DEF Lifecycle!Receive, Booked, Holders, Lent
<1>. QED
  BY <1>1, <1>7, <1>8

LEMMA DeleteRepaymentImplements ==
  ASSUME MoneyInv, MoneyInv', NEW r \in Receipts, DeleteRepayment(r)
  PROVE  \E l \in Loans : Lifecycle!Receive(l)
<1>0. TypeOK /\ Money
  BY DEF MoneyInv, ApartInv
<1>1. PICK l \in Loans : l = rep[r].loan
  BY <1>0 DEF DeleteRepayment, TypeOK, RepaymentRow
<1>2. Exists(l) /\ loan' = loan
  BY <1>0, <1>1 DEF DeleteRepayment, Money, RowsOnLoans
<1>3. Exists(l)' /\ \A m \in Loans : SameToOwner(m)
  BY <1>2 DEF Exists, SameToOwner
<1>4. \A m \in Loans \ {l} : paid'[m] = paid[m]
  BY <1>0, <1>1 DEF DeleteRepayment, Retotal, TypeOK
<1>. QED
  BY <1>2, <1>3, <1>4, TotalsImplement

LEMMA PrecloseImplements ==
  ASSUME MoneyInv, NEW w \in Workers, Preclose(w)
  PROVE  \E g \in Loans : Lifecycle!GiveUp(g)
<1>. DEFINE q == req[w]
<1>0. TypeOK /\ FreshRead /\ Money /\ OneLoanPerPledge
  BY DEF MoneyInv, ApartInv, Apart
<1>. PICK l \in Loans : l = q.loan
  BY <1>0 DEF Preclose, TypeOK, Request
<1>1. q # None /\ q \in Request /\ q.loan = l /\ q.op = "preclose" /\ q.seen \in LoanRow
  BY <1>0 DEF Preclose, TypeOK, Request
<1>2. /\ loan[l].status \in Live /\ q.seen.principal = loan[l].principal
  BY <1>0, <1>1 DEF FreshRead
<1>3. /\ loan' = [loan EXCEPT ![l] = [q.seen EXCEPT !.status = "closed"]] /\ paid' = paid
  BY DEF Preclose
<1>4. /\ loan'[l].status = "closed" /\ loan'[l].principal = loan[l].principal
      /\ \A m \in Loans \ {l} : loan'[m] = loan[m]
  BY <1>0, <1>1, <1>2, <1>3 DEF TypeOK, LoanRow
<1>5. loan[l].pledge \in Loans
  BY <1>0, <1>2 DEF Money, LoansMoney, LoanMoney, Live
<1>6. /\ Holders[loan[l].pledge] = l
      /\ Holders' = [Holders EXCEPT ![loan[l].pledge] = None]
  BY <1>0, <1>2, <1>4, <1>5, OneLoanStops DEF Runs, Live
<1>7. Booked' = Booked /\ Lent' = Lent
  BY <1>2, <1>4 DEF Booked, Lent, Live
<1>8. Holders[loan[l].pledge] # None
  BY <1>6, DeskAssumption
<1>9. Lifecycle!GiveUp(loan[l].pledge)
  BY <1>3, <1>5, <1>6, <1>7, <1>8 DEF Lifecycle!GiveUp, Booked, Holders, Lent
<1>. QED
  BY <1>5, <1>9

LEMMA CarryForwardImplements ==
  ASSUME MoneyInv, MoneyInv', NEW w \in Workers, NEW n \in Loans, NEW lag \in Lags,
         CarryForward(w, n, lag)
  PROVE  \E g \in Loans : Lifecycle!TakeOver(g, n)
<1>. DEFINE q == req[w]
            carried == IF q.op = "renew" THEN Outstanding(q.seen, q.loan) ELSE q.amount
            new == [status |-> "active", principal |-> carried, start |-> today - lag,
                    pledge |-> q.seen.pledge, renewedTo |-> None]
            old == [q.seen EXCEPT !.status = "closed", !.renewedTo = n]
<1>0. TypeOK /\ FreshRead /\ Money /\ OneLoanPerPledge /\ OneLoanPerPledge'
  BY DEF MoneyInv, ApartInv, Apart
<1>. PICK l \in Loans : l = q.loan
  BY <1>0 DEF CarryForward, TypeOK, Request
<1>1. /\ q # None /\ q \in Request /\ q.loan = l /\ q.seen \in LoanRow
      /\ q.op \in {"renew", "topup"} /\ loan[n].status = "unused"
  BY <1>0 DEF CarryForward, TypeOK, Request
<1>2. /\ loan[l].status \in Live /\ q.seen.principal = loan[l].principal
      /\ q.seen.pledge = loan[l].pledge
  BY <1>0, <1>1 DEF FreshRead
<1>3. carried <= EligiblePrincipal /\ Outstanding(loan[l], l) <= carried
  <2>1. /\ q.op = "renew" => Outstanding(q.seen, q.loan) <= EligiblePrincipal
        /\ q.op = "topup" => /\ q.amount <= EligiblePrincipal
                             /\ Outstanding(q.seen, q.loan) <= q.amount
    BY <1>0, <1>1 DEF Money, SoundDecisions, SoundDecision
  <2>2. Outstanding(q.seen, q.loan) = Outstanding(loan[l], l)
    BY <1>1, <1>2 DEF Outstanding
  <2>3. Outstanding(loan[l], l) \in Int
    BY <1>0, MoneyTypes DEF Outstanding
  <2>. QED
    BY <1>1, <2>1, <2>2, <2>3
<1>4. /\ old.status = "closed" /\ old.principal = loan[l].principal
      /\ old.pledge = loan[l].pledge
      /\ new.status = "active" /\ new.principal = carried /\ new.pledge = loan[l].pledge
  BY <1>1, <1>2 DEF LoanRow
<1>5. /\ loan' = [loan EXCEPT ![n] = new, ![l] = old] /\ paid' = paid
  BY <1>1 DEF CarryForward
<1>. HIDE DEF old, new, carried
<1>6. /\ n # l /\ loan'[l] = old /\ loan'[n] = new
      /\ \A m \in Loans \ {l, n} : loan'[m] = loan[m]
  BY <1>0, <1>1, <1>2, <1>5 DEF TypeOK, Live
<1>. PICK g \in Loans : g = loan[l].pledge
  BY <1>0, <1>2 DEF Money, LoansMoney, LoanMoney, Live
<1>7. Holder(g) = l
  BY <1>0, <1>2, HolderRuns DEF Runs
<1>8. Holder(g)' = n
  BY <1>0, <1>4, <1>6, HolderRunsAfter DEF Runs, Live
<1>9. ASSUME NEW h \in Loans \ {g} PROVE Holder(h)' = Holder(h)
  <2>1. \A m \in Loans : Runs(m, h)' <=> Runs(m, h)
    BY <1>1, <1>4, <1>6 DEF Runs, Live
  <2>. QED
    BY <2>1, SameHolder
<1>10. Holders' = [Holders EXCEPT ![g] = n] /\ Holders[g] = l
  BY <1>7, <1>8, <1>9 DEF Holders
<1>11. n \notin Booked /\ Booked' = Booked \cup {n}
  BY <1>1, <1>2, <1>4, <1>6 DEF Booked, Live
<1>12. /\ Lent' = [Lent EXCEPT ![n] = Lent'[n]] /\ Lent'[n] = carried
       /\ Lent[l] = loan[l].principal
  BY <1>1, <1>4, <1>6 DEF Lent
<1>13. Holders[g] # None
  BY <1>10, DeskAssumption
<1>14. Lent'[n] <= EligiblePrincipal /\ Lent'[n] >= Lent[Holders[g]] - paid[Holders[g]]
  BY <1>3, <1>10, <1>12 DEF Outstanding
<1>15. Lifecycle!TakeOver(g, n)
  BY <1>5, <1>10, <1>11, <1>12, <1>13, <1>14
     DEF Lifecycle!TakeOver, Lifecycle!Owed, Booked, Holders, Lent
<1>. QED
  BY <1>15

\* The classifier moves a loan between the running statuses.
LEMMA VisitStutters ==
  ASSUME MoneyInv, NEW l \in Loans, NEW condition, NEW to \in Live, Visit(l, condition, to)
  PROVE  UNCHANGED Lifecycle!vars
<1>0. TypeOK /\ FreshList
  BY DEF MoneyInv, ApartInv, Apart
<1>1. paid' = paid
  BY DEF Visit
<1>2. loan[l].status \in Live
  BY <1>0 DEF FreshList, Visit
<1>3. CASE loan' = loan
  BY <1>1, <1>3, LifecycleStutters DEF SameToOwner
<1>4. CASE loan' = [loan EXCEPT ![l].status = to]
  <2>1. \A m \in Loans : SameToOwner(m)
    BY <1>0, <1>2, <1>4 DEF SameToOwner, TypeOK, LoanRow, Live
  <2>. QED
    BY <1>1, <2>1, LifecycleStutters
<1>. QED
  BY <1>3, <1>4 DEF Visit

LEMMA QuietStutters ==
  ASSUME loan' = loan, paid' = paid
  PROVE  UNCHANGED Lifecycle!vars
BY LifecycleStutters DEF SameToOwner

LEMMA InitImplements == Init => Lifecycle!Init
<1>. SUFFICES ASSUME Init PROVE Lifecycle!Init
  OBVIOUS
<1>1. \A l \in Loans : loan[l].status = "unused" /\ loan[l].principal = 0
  BY DEF Init, NoRow
<1>2. Booked = {} /\ Lent = [l \in Loans |-> 0]
  BY <1>1 DEF Booked, Lent
<1>3. Holders = [g \in Loans |-> None]
  BY <1>1, NobodyHolds DEF Runs, Holders, Live
<1>4. paid = [l \in Loans |-> 0]
  BY DEF Init
<1>. QED
  BY <1>2, <1>3, <1>4 DEF Lifecycle!Init, Booked, Holders, Lent

LEMMA NextImplements ==
  ASSUME ~SameLoanOverlap, AdminActs \cap (Unchecked \cup {"delete_loan"}) = {},
         MoneyInv, MoneyInv', [Next]_vars
  PROVE  [Lifecycle!Next]_(Lifecycle!vars)
<1>1. ASSUME NEW w \in Workers, RepaymentStep(w) PROVE [Lifecycle!Next]_(Lifecycle!vars)
  <2>1. CASE CommitRepayment(w)
    BY <2>1, CommitImplements DEF Lifecycle!Next
  <2>2. CASE loan' = loan /\ paid' = paid
    BY <2>2, QuietStutters
  <2>. QED
    BY <1>1, <2>1, <2>2 DEF RepaymentStep, CheckRepayment, SaveRepayment
<1>2. ASSUME NEW w \in Workers, ActionStep(w) PROVE [Lifecycle!Next]_(Lifecycle!vars)
  <2>1. CASE Preclose(w)
    BY <2>1, PrecloseImplements DEF Lifecycle!Next
  <2>2. ASSUME NEW n \in Loans, NEW lag \in Lags, CarryForward(w, n, lag)
        PROVE  [Lifecycle!Next]_(Lifecycle!vars)
    BY <2>2, CarryForwardImplements DEF Lifecycle!Next
  <2>3. CASE loan' = loan /\ paid' = paid
    BY <2>3, QuietStutters
  <2>. QED
    BY <1>2, <2>1, <2>2, <2>3
       DEF ActionStep, AskPreclose, AskRenew, AskTopup, Ask, Abandon
<1>3. ASSUME AdminStep PROVE [Lifecycle!Next]_(Lifecycle!vars)
  <2>1. ASSUME NEW l, DeleteLoan(l) PROVE FALSE
    BY <2>1 DEF DeleteLoan
  <2>2. ASSUME NEW l \in Loans, NEW p \in Principals, NEW offset \in StartOffsets,
               NEW status \in EntryStatuses, BookLoan(l, p, offset, status)
        PROVE  [Lifecycle!Next]_(Lifecycle!vars)
    BY <2>2, BookImplements DEF Lifecycle!Next
  <2>3. ASSUME NEW r \in Receipts, DeleteRepayment(r)
        PROVE  [Lifecycle!Next]_(Lifecycle!vars)
    BY <2>3, DeleteRepaymentImplements DEF Lifecycle!Next
  <2>. QED
    BY <1>3, <2>1, <2>2, <2>3 DEF AdminStep
<1>4. ASSUME ClassifierStep PROVE [Lifecycle!Next]_(Lifecycle!vars)
  BY <1>4, VisitStutters, QuietStutters
     DEF ClassifierStep, ListActive, ListOverdue, EndScan, MarkOverdue, ClearOverdue, Live
<1>5. ASSUME Tick PROVE [Lifecycle!Next]_(Lifecycle!vars)
  BY <1>5, QuietStutters DEF Tick
<1>6. ASSUME UNCHANGED vars PROVE [Lifecycle!Next]_(Lifecycle!vars)
  BY <1>6, QuietStutters DEF vars
<1>7. ASSUME NEW w \in Workers, FormStep(w) PROVE FALSE
  BY <1>7, NoFormStep
<1>. QED
  BY <1>1, <1>2, <1>3, <1>4, <1>5, <1>6, <1>7 DEF Next

\* Requests on one loan kept apart, and no loan deleted or rewritten in the
\* admin, the loan book implements the lifecycle of LoanLifecycle: the requests
\* that read, decide and commit in three steps act on a pledge in one.
THEOREM ImplementsLifecycle ==
  ASSUME ~SameLoanOverlap, AdminActs \cap (Unchecked \cup {"delete_loan"}) = {}
  PROVE  Spec => FollowsLifecycle
<1>1. Spec => []MoneyInv
  BY AlwaysMoney
<1>2. MoneyInv /\ MoneyInv' /\ [Next]_vars => [Lifecycle!Next]_(Lifecycle!vars)
  BY NextImplements
<1>. QED
  BY <1>1, <1>2, InitImplements, PTL DEF Spec, FollowsLifecycle, Lifecycle!Spec
=============================================================================
