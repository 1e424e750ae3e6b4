------------------------------ MODULE Auctions ------------------------------
(***************************************************************************)
(* Auction cases (apps/auctions): the nightly detection of eligible loans, *)
(* the two notices with fourteen days after each, sale, settlement and     *)
(* cancellation, with several requests at work on one case.                *)
(*                                                                         *)
(* A request checks the row it read (Ask) and later writes all of that     *)
(* row back with its changes; the transaction around the write reads the   *)
(* loan afresh.  The requests on the loan itself, and the classifier, also *)
(* save a status to a loan they read before (saving).  Of a loan the model *)
(* keeps its status, its dues and whether interest was ever paid; LoanBook *)
(* has the rest.                                                           *)
(***************************************************************************)
EXTENDS Integers

CONSTANTS
  Loans, Workers, None,
  Dues,          \* what may be owed on a loan
  Prices,        \* what a sale may bring
  Maturities,    \* maturity dates
  Lags,          \* days by which the UTC date is behind the local one
  Steps,         \* how far the calendar moves at once
  LastDay,       \* bound of the calendar
  MaxEdits,      \* bound on the edits of a case or of a loan in their forms
  AdminActs      \* what is done in the admin pages

ASSUME AuctionAssumption ==
  /\ Dues \subseteq Nat \ {0} /\ Prices \subseteq Nat \ {0}
  /\ Maturities \subseteq Int /\ Lags \subseteq Nat
  /\ Steps \subseteq Nat \ {0} /\ LastDay \in Nat /\ MaxEdits \in Nat
  /\ AdminActs \subseteq {"edit_case", "delete_case", "delete_notice", "edit_loan"}
  /\ None \notin Int

VARIABLES
  loan,       \* rows of loans
  case,       \* row of the auction of a loan, None without one
  log,        \* day on which notice 1 and notice 2 of a loan's case were logged
  saving,     \* status about to be saved to a loan that was read before, or None
  refunded,   \* surplus paid out in cash rows for the case a loan has
  req,        \* the request each worker serves
  todo,       \* loans the detection has listed and not yet opened
  today,
  edits,      \* edits in the forms of cases and loans so far
  crossed,    \* history: loans whose case two requests worked on at once
  byHand,     \* history: loans whose case or notices were changed in the admin pages
  retold      \* history: loans that were given a status over "auctioned", or in their form

marks == <<edits, crossed, byHand, retold>>
vars == <<loan, saving, case, log, refunded, req, todo, today, marks>>

NoticeDays == 14
NpaToAuctionDays == 30

Live == {"active", "overdue"}
Saved == Live \cup {"closed"}
LoanStatuses == Saved \cup {"auctioned"}
Statuses == {"eligible", "notice1", "notice2", "scheduled", "sold", "posted", "cancelled"}
Final == {"posted", "cancelled"}
AfterNotices == {"scheduled", "sold", "posted"}
Ops == {"notice1", "notice2", "schedule", "sell", "post", "cancel"}

Day == Int \cup {None}
LoanRow == [status : LoanStatuses, owed : Nat, paid : BOOLEAN, maturity : Int]
Case == [status : Statuses, n1 : Day, n2 : Day, surplus : Nat]
Request == [op : Ops, loan : Loans, seen : Case]

ASSUME CaseAssumption == None \notin Case

Larger(a, b) == IF a > b THEN a ELSE b

-----------------------------------------------------------------------------
(* services.py: detection, after the nightly classification *)

Eligible(l, day) ==
  /\ loan[l].status = "overdue"
  /\ \/ loan[l].maturity + NpaToAuctionDays <= day
     \/ loan[l].maturity <= day /\ ~loan[l].paid

ListEligible(lag) ==
  /\ todo = {}
  /\ todo' = {l \in Loans : Eligible(l, today - lag) /\ case[l] = None}
  /\ todo' # {}
  /\ UNCHANGED <<loan, saving, case, log, refunded, req, today, marks>>

\* The loan is not looked at again.
OpenCase(l) ==
  /\ l \in todo
  /\ case' = [case EXCEPT ![l] = [status |-> "eligible", n1 |-> None, n2 |-> None, surplus |-> 0]]
  /\ todo' = todo \ {l}
  /\ UNCHANGED <<loan, saving, log, refunded, req, today, marks>>

-----------------------------------------------------------------------------
(* actions.py: a request reads the case and checks it ... *)

Waited(day) == day # None /\ today - day >= NoticeDays

\* Mutant: the second notice is forgotten in can_schedule.
MayStartUnnoticed(op, c) ==
  \/ op = "notice1" /\ c.status = "eligible"
  \/ op = "notice2" /\ c.status = "notice1" /\ Waited(c.n1)
  \/ op = "schedule" /\ c.status \in {"notice1", "notice2"} /\ Waited(c.n1)
  \/ op = "sell" /\ c.status = "scheduled"
  \/ op = "post" /\ c.status = "sold"
  \/ op = "cancel" /\ c.status \notin Final

\* Mutant: a settlement may be posted again.
MayStartTwice(op, c) ==
  \/ op = "notice1" /\ c.status = "eligible"
  \/ op = "notice2" /\ c.status = "notice1" /\ Waited(c.n1)
  \/ op = "schedule" /\ c.status = "notice2" /\ Waited(c.n2)
  \/ op = "sell" /\ c.status = "scheduled"
  \/ op = "post" /\ c.status \in {"sold", "posted"}
  \/ op = "cancel" /\ c.status \notin Final

\* Mutant: any case can be cancelled.
MayStartLate(op, c) ==
  \/ op = "notice1" /\ c.status = "eligible"
  \/ op = "notice2" /\ c.status = "notice1" /\ Waited(c.n1)
  \/ op = "schedule" /\ c.status = "notice2" /\ Waited(c.n2)
  \/ op = "sell" /\ c.status = "scheduled"
  \/ op = "post" /\ c.status = "sold"
  \/ op = "cancel"

\* can_send_notice_1, can_send_notice_2, can_schedule, can_record_sale,
\* can_post_settlement, is_open.
MayStart(op, c) ==
  \/ op = "notice1" /\ c.status = "eligible"
  \/ op = "notice2" /\ c.status = "notice1" /\ Waited(c.n1)
  \/ op = "schedule" /\ c.status = "notice2" /\ Waited(c.n2)
  \/ op = "sell" /\ c.status = "scheduled"
  \/ op = "post" /\ c.status = "sold"
  \/ op = "cancel" /\ c.status \notin Final

Busy(l) == \E w \in Workers : req[w] # None /\ req[w].loan = l

Ask(w, l, op) ==
  /\ req[w] = None
  /\ case[l] # None /\ MayStart(op, case[l])
  /\ req' = [req EXCEPT ![w] = [op |-> op, loan |-> l, seen |-> case[l]]]
  /\ crossed' = IF Busy(l) THEN crossed \cup {l} ELSE crossed
  /\ UNCHANGED <<loan, saving, case, log, refunded, todo, today, edits, byHand, retold>>

-----------------------------------------------------------------------------
(* ... and writes it back *)

Serving(w, op) == req[w] # None /\ req[w].op = op

Save(w, row) ==
  /\ case' = [case EXCEPT ![req[w].loan] = row]
  /\ req' = [req EXCEPT ![w] = None]
  /\ UNCHANGED <<saving, todo, today, marks>>

\* _send_notice inserts the notice; uniq_notice_per_auction refuses a second one.
SendNotice1(w) ==
  /\ Serving(w, "notice1")
  /\ LET l == req[w].loan IN
       /\ log[l][1] = None
       /\ log' = [log EXCEPT ![l][1] = today]
  /\ Save(w, [req[w].seen EXCEPT !.status = "notice1", !.n1 = today])
  /\ UNCHANGED <<loan, refunded>>

SendNotice2(w) ==
  /\ Serving(w, "notice2")
  /\ LET l == req[w].loan IN
       /\ log[l][2] = None
       /\ log' = [log EXCEPT ![l][2] = today]
  /\ Save(w, [req[w].seen EXCEPT !.status = "notice2", !.n2 = today])
  /\ UNCHANGED <<loan, refunded>>

\* The date entered is not compared with anything.
Schedule(w) ==
  /\ Serving(w, "schedule")
  /\ Save(w, [req[w].seen EXCEPT !.status = "scheduled"])
  /\ UNCHANGED <<loan, log, refunded>>

\* Mutant: a shortfall is a negative surplus.
RecordSaleSigned(w, price) ==
  /\ Serving(w, "sell")
  /\ Save(w, [req[w].seen EXCEPT !.status = "sold", !.surplus = price - loan[req[w].loan].owed])
  /\ UNCHANGED <<loan, log, refunded>>

RecordSale(w, price) ==
  /\ Serving(w, "sell")
  /\ Save(w, [req[w].seen EXCEPT !.status = "sold",
                                 !.surplus = Larger(price - loan[req[w].loan].owed, 0)])
  /\ UNCHANGED <<loan, log, refunded>>

\* The surplus computed at the sale is paid out; the loan's status is overwritten
\* whatever it is by now.
PostSettlement(w) ==
  /\ Serving(w, "post")
  /\ LET l == req[w].loan IN
       /\ refunded' = [refunded EXCEPT ![l] = @ + req[w].seen.surplus]
       /\ loan' = [loan EXCEPT ![l].status = "auctioned"]
  /\ Save(w, [req[w].seen EXCEPT !.status = "posted"])
  /\ UNCHANGED log

Cancel(w) ==
  /\ Serving(w, "cancel")
  /\ Save(w, [req[w].seen EXCEPT !.status = "cancelled"])
  /\ UNCHANGED <<loan, log, refunded>>

\* A request ends without an effect: a notice that exists already, an invalid
\* date or price, or a worker that dies before the commit.
Abandon(w) ==
  /\ req[w] # None
  /\ req' = [req EXCEPT ![w] = None]
  /\ UNCHANGED <<loan, saving, case, log, refunded, todo, today, marks>>

-----------------------------------------------------------------------------
(* AuctionAdmin and AuctionNoticeAdmin.  Deleting a case takes its notices   *)
(* along; what it refunded stays in the cash book but is no longer counted   *)
(* for the loan.  Deleting a case that a request holds is not modelled.      *)

EditCase(l, status, surplus) ==
  /\ "edit_case" \in AdminActs
  /\ case[l] # None
  /\ edits < MaxEdits /\ edits' = edits + 1
  /\ case' = [case EXCEPT ![l].status = status, ![l].surplus = surplus]
  /\ byHand' = byHand \cup {l}
  /\ UNCHANGED <<loan, saving, log, refunded, req, todo, today, crossed, retold>>

DeleteCase(l) ==
  /\ "delete_case" \in AdminActs
  /\ case[l] # None /\ ~Busy(l)
  /\ case' = [case EXCEPT ![l] = None]
  /\ log' = [log EXCEPT ![l] = [k \in 1..2 |-> None]]
  /\ refunded' = [refunded EXCEPT ![l] = 0]
  /\ UNCHANGED <<loan, saving, req, todo, today, marks>>

\* The fields of a notice are read-only; the row can be deleted.
DeleteNotice(l, k) ==
  /\ "delete_notice" \in AdminActs
  /\ log[l][k] # None
  /\ log' = [log EXCEPT ![l][k] = None]
  /\ byHand' = byHand \cup {l}
  /\ UNCHANGED <<loan, saving, case, refunded, req, todo, today, edits, crossed, retold>>

-----------------------------------------------------------------------------
(* Loans, as far as auctions see them: repayments with or without interest;  *)
(* the form of a loan; and the pre-close, the renewal, the automatic close   *)
(* and the classifier, which read a loan, check its status, and later save   *)
(* another one over whatever it has by then.  One such save at a time is     *)
(* modelled per loan.                                                        *)

ReadLoan(l, status) ==
  /\ saving[l] = None
  /\ loan[l].status \in Live
  /\ status # loan[l].status
  /\ saving' = [saving EXCEPT ![l] = status]
  /\ UNCHANGED <<loan, case, log, refunded, req, todo, today, marks>>

\* The classifier asks for the last payment of interest just before it saves.
SaveLoan(l) ==
  /\ saving[l] # None
  /\ saving[l] = "active" => loan[l].paid
  /\ loan' = [loan EXCEPT ![l].status = saving[l]]
  /\ saving' = [saving EXCEPT ![l] = None]
  /\ retold' = IF loan[l].status = "auctioned" THEN retold \cup {l} ELSE retold
  /\ UNCHANGED <<case, log, refunded, req, todo, today, edits, crossed, byHand>>

\* The dues are not settled after all, interest came or did not, or a crash.
DropLoan(l) ==
  /\ saving[l] # None
  /\ saving' = [saving EXCEPT ![l] = None]
  /\ UNCHANGED <<loan, case, log, refunded, req, todo, today, marks>>

Repay(l, left, interest) ==
  /\ left < loan[l].owed
  /\ loan' = [loan EXCEPT ![l].owed = left, ![l].paid = @ \/ interest,
                          ![l].status = IF left = 0 /\ @ \in Live THEN "closed" ELSE @]
  /\ UNCHANGED <<saving, case, log, refunded, req, todo, today, marks>>

EditLoan(l, status) ==
  /\ "edit_loan" \in AdminActs
  /\ edits < MaxEdits /\ edits' = edits + 1
  /\ loan' = [loan EXCEPT ![l].status = status]
  /\ retold' = retold \cup {l}
  /\ UNCHANGED <<saving, case, log, refunded, req, todo, today, crossed, byHand>>

\* The calendar moves between requests.
Tick(days) ==
  /\ today + days <= LastDay
  /\ todo = {} /\ \A w \in Workers : req[w] = None
  /\ \A l \in Loans : saving[l] = None
  /\ today' = today + days
  /\ UNCHANGED <<loan, saving, case, log, refunded, req, todo, marks>>

Init ==
  /\ loan \in [Loans -> [status : {"active"}, owed : Dues, paid : {FALSE}, maturity : Maturities]]
  /\ saving = [l \in Loans |-> None]
  /\ case = [l \in Loans |-> None]
  /\ log = [l \in Loans |-> [k \in 1..2 |-> None]]
  /\ refunded = [l \in Loans |-> 0]
  /\ req = [w \in Workers |-> None]
  /\ todo = {} /\ today = 0
  /\ edits = 0 /\ crossed = {} /\ byHand = {} /\ retold = {}

Detection ==
  \/ \E lag \in Lags : ListEligible(lag)
  \/ \E l \in Loans : OpenCase(l)

RequestStep(w) ==
  \/ \E l \in Loans, op \in Ops : Ask(w, l, op)
  \/ SendNotice1(w) \/ SendNotice2(w)
  \/ Schedule(w)
  \/ \E price \in Prices : RecordSale(w, price)
  \/ PostSettlement(w)
  \/ Cancel(w)
  \/ Abandon(w)

AdminStep ==
  \E l \in Loans :
    \/ DeleteCase(l)
    \/ \E k \in 1..2 : DeleteNotice(l, k)
    \/ \E status \in Statuses, surplus \in Prices \cup {0} : EditCase(l, status, surplus)

LoanStep ==
  \E l \in Loans :
    \/ \E status \in Saved : ReadLoan(l, status)
    \/ \E status \in LoanStatuses : EditLoan(l, status)
    \/ SaveLoan(l) \/ DropLoan(l)
    \/ \E left \in Dues \cup {0}, interest \in BOOLEAN : Repay(l, left, interest)

Next ==
  \/ Detection \/ AdminStep \/ LoanStep
  \/ \E w \in Workers : RequestStep(w)
  \/ \E days \in Steps : Tick(days)

Spec == Init /\ [][Next]_vars
-----------------------------------------------------------------------------
(* Properties *)

\* Rows, requests and histories stay within their types.
TypeOK ==
  /\ loan \in [Loans -> LoanRow]
  /\ saving \in [Loans -> Saved \cup {None}]
  /\ case \in [Loans -> Case \cup {None}]
  /\ log \in [Loans -> [1..2 -> Day]]
  /\ refunded \in [Loans -> Nat]
  /\ req \in [Workers -> Request \cup {None}]
  /\ todo \subseteq Loans /\ today \in Nat /\ edits \in 0..MaxEdits
  /\ crossed \subseteq Loans /\ byHand \subseteq Loans /\ retold \subseteq Loans

\* The two notices of a case are on record, on the days the case shows, at least
\* fourteen days apart and the second at least fourteen days ago.
Noticed(l, c) ==
  /\ c.n1 = log[l][1] /\ c.n1 # None
  /\ c.n2 = log[l][2] /\ c.n2 # None
  /\ c.n2 - c.n1 >= NoticeDays
  /\ today - c.n2 >= NoticeDays

\* The workflow of Auction: no gold is put up for sale, sold or settled before
\* both notice periods are over, even when requests on one case overlap and
\* write back what they read.  Cases changed in the admin pages are set apart.
NoticePeriods ==
  \A l \in Loans \ byHand :
    case[l] # None /\ case[l].status \in AfterNotices => Noticed(l, case[l])

\* Settlement is one step in the books: with the case posted, its surplus is
\* refunded, once, and the loan is auctioned, never one without the other.  Cases
\* two requests worked on at once, or changed in the admin pages, are set apart,
\* and, as to the loan's status, loans that got one over "auctioned".
SettledTogether ==
  \A l \in Loans \ (crossed \cup byHand) : case[l] # None =>
    /\ refunded[l] = IF case[l].status = "posted" THEN case[l].surplus ELSE 0
    /\ l \notin retold => (case[l].status = "posted" <=> loan[l].status = "auctioned")

\* "Auction already closed.": a posted or cancelled case never changes again,
\* short of being deleted.
ClosedCasesStayClosed ==
  [][\A l \in Loans : (case[l] # None /\ case[l].status \in Final) =>
       \/ case'[l] \in {case[l], None}
       \/ l \in crossed' \cup byHand']_vars
=============================================================================
