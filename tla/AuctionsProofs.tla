--------------------------- MODULE AuctionsProofs ---------------------------
(***************************************************************************)
(* Type correctness of Auctions; that no gold is sold before both notice   *)
(* periods are over; that a settlement is one step in the books; and that  *)
(* a closed case stays closed: for any loans, workers, prices and dates,   *)
(* with requests on one case overlapping.                                  *)
(***************************************************************************)
EXTENDS Auctions, TLAPS

-----------------------------------------------------------------------------
(* Types *)

LEMMA SaveType ==
  ASSUME TypeOK, NEW w \in Workers, NEW row \in Case, req[w] # None, Save(w, row)
  PROVE  /\ case' \in [Loans -> Case \cup {None}]
         /\ req' \in [Workers -> Request \cup {None}]
         /\ saving' \in [Loans -> Saved \cup {None}]
         /\ todo' \subseteq Loans /\ today' \in Nat /\ edits' \in 0..MaxEdits
         /\ crossed' \subseteq Loans /\ byHand' \subseteq Loans /\ retold' \subseteq Loans
BY DEF TypeOK, Save, Request, marks

LEMMA InitType == Init => TypeOK
<1>. SUFFICES ASSUME Init PROVE TypeOK
  OBVIOUS
<1>1. loan \in [Loans -> LoanRow]
  <2>1. [status : {"active"}, owed : Dues, paid : {FALSE}, maturity : Maturities] \subseteq LoanRow
    BY AuctionAssumption DEF LoanRow, LoanStatuses, Saved, Live
  <2>. QED
    BY <2>1 DEF Init
<1>2. None \in Day
  BY DEF Day
<1>. QED
  BY <1>1, <1>2, AuctionAssumption DEF Init, TypeOK

LEMMA RequestType ==
  ASSUME TypeOK, NEW w \in Workers, RequestStep(w)
  PROVE  TypeOK'
<1>1. ASSUME NEW l \in Loans, NEW op \in Ops, Ask(w, l, op) PROVE TypeOK'
  BY <1>1 DEF Ask, TypeOK, Request
<1>2. CASE SendNotice1(w)
  <2>1. req[w] # None /\ req[w].loan \in Loans /\ req[w].seen \in Case /\ today \in Day
    BY <1>2 DEF SendNotice1, Serving, TypeOK, Request, Day
  <2>2. [req[w].seen EXCEPT !.status = "notice1", !.n1 = today] \in Case
    BY <2>1 DEF Case, Statuses
  <2>3. log' = [log EXCEPT ![req[w].loan] = [log[req[w].loan] EXCEPT ![1] = today]]
    BY <1>2 DEF SendNotice1
  <2>4. log' \in [Loans -> [1..2 -> Day]]
    BY <2>1, <2>3 DEF TypeOK
  <2>. QED
    BY <1>2, <2>1, <2>2, <2>4, SaveType DEF SendNotice1, TypeOK
<1>3. CASE SendNotice2(w)
  <2>1. req[w] # None /\ req[w].loan \in Loans /\ req[w].seen \in Case /\ today \in Day
    BY <1>3 DEF SendNotice2, Serving, TypeOK, Request, Day
  <2>2. [req[w].seen EXCEPT !.status = "notice2", !.n2 = today] \in Case
    BY <2>1 DEF Case, Statuses
  <2>3. log' = [log EXCEPT ![req[w].loan] = [log[req[w].loan] EXCEPT ![2] = today]]
    BY <1>3 DEF SendNotice2
  <2>4. log' \in [Loans -> [1..2 -> Day]]
    BY <2>1, <2>3 DEF TypeOK
  <2>. QED
    BY <1>3, <2>1, <2>2, <2>4, SaveType DEF SendNotice2, TypeOK
<1>4. CASE Schedule(w)
  <2>1. [req[w].seen EXCEPT !.status = "scheduled"] \in Case
    BY <1>4 DEF Schedule, Serving, TypeOK, Request, Case, Statuses
  <2>. QED
    BY <1>4, <2>1, SaveType DEF Schedule, Serving, TypeOK
<1>5. ASSUME NEW price \in Prices, RecordSale(w, price) PROVE TypeOK'
  <2>. DEFINE surplus == Larger(price - loan[req[w].loan].owed, 0)
  <2>1. req[w].loan \in Loans /\ req[w].seen \in Case
    BY <1>5 DEF RecordSale, Serving, TypeOK, Request
  <2>2. surplus \in Nat
    BY <2>1, AuctionAssumption DEF Larger, TypeOK, LoanRow
  <2>3. Save(w, [req[w].seen EXCEPT !.status = "sold", !.surplus = surplus])
    BY <1>5 DEF RecordSale
  <2>. HIDE DEF surplus
  <2>4. [req[w].seen EXCEPT !.status = "sold", !.surplus = surplus] \in Case
    BY <2>1, <2>2 DEF Case, Statuses
  <2>. QED
    BY <1>5, <2>3, <2>4, SaveType DEF RecordSale, Serving, TypeOK
<1>6. CASE PostSettlement(w)
  <2>1. [req[w].seen EXCEPT !.status = "posted"] \in Case
    BY <1>6 DEF PostSettlement, Serving, TypeOK, Request, Case, Statuses
  <2>2. req[w].loan \in Loans /\ req[w].seen.surplus \in Nat
    BY <1>6 DEF PostSettlement, Serving, TypeOK, Request, Case
  <2>3. loan' \in [Loans -> LoanRow]
    BY <1>6, <2>2 DEF PostSettlement, TypeOK, LoanRow, LoanStatuses, Saved
  <2>4. refunded' \in [Loans -> Nat]
    BY <1>6, <2>2 DEF PostSettlement, TypeOK
  <2>. QED
    BY <1>6, <2>1, <2>3, <2>4, SaveType DEF PostSettlement, Serving, TypeOK
<1>7. CASE Cancel(w)
  <2>1. [req[w].seen EXCEPT !.status = "cancelled"] \in Case
    BY <1>7 DEF Cancel, Serving, TypeOK, Request, Case, Statuses
  <2>. QED
    BY <1>7, <2>1, SaveType DEF Cancel, Serving, TypeOK
<1>8. CASE Abandon(w)
  BY <1>8 DEF Abandon, TypeOK, marks
<1>. QED
  BY <1>1, <1>2, <1>3, <1>4, <1>5, <1>6, <1>7, <1>8 DEF RequestStep

LEMMA LoanType ==
  ASSUME TypeOK, LoanStep
  PROVE  TypeOK'
<1>1. ASSUME NEW l \in Loans, NEW status \in Saved, ReadLoan(l, status) PROVE TypeOK'
  BY <1>1 DEF ReadLoan, TypeOK, marks
<1>2. ASSUME NEW l \in Loans, NEW status \in LoanStatuses, EditLoan(l, status) PROVE TypeOK'
  <2>1. loan' \in [Loans -> LoanRow]
    BY <1>2 DEF EditLoan, TypeOK, LoanRow
  <2>. QED
    BY <1>2, <2>1, AuctionAssumption DEF EditLoan, TypeOK
<1>3. ASSUME NEW l \in Loans, SaveLoan(l) PROVE TypeOK'
  <2>1. saving[l] \in LoanStatuses
    BY <1>3 DEF SaveLoan, TypeOK, LoanStatuses
  <2>2. loan' \in [Loans -> LoanRow]
    BY <1>3, <2>1 DEF SaveLoan, TypeOK, LoanRow
  <2>. QED
    BY <1>3, <2>2 DEF SaveLoan, TypeOK
<1>4. ASSUME NEW l \in Loans, DropLoan(l) PROVE TypeOK'
  BY <1>4 DEF DropLoan, TypeOK, marks
<1>5. ASSUME NEW l \in Loans, NEW left \in Dues \cup {0}, NEW interest \in BOOLEAN,
             Repay(l, left, interest)
      PROVE  TypeOK'
  <2>. DEFINE row == [loan[l] EXCEPT !.owed = left, !.paid = @ \/ interest,
                        !.status = IF left = 0 /\ @ \in Live THEN "closed" ELSE @]
  <2>1. row \in LoanRow
    <3>1. loan[l] \in LoanRow /\ left \in Nat /\ (loan[l].paid \/ interest) \in BOOLEAN
      BY AuctionAssumption DEF TypeOK, LoanRow
    <3>. QED
      BY <3>1 DEF LoanRow, LoanStatuses, Saved
  <2>2. loan' = [loan EXCEPT ![l] = row] /\ UNCHANGED <<saving, case, log, refunded, req, todo, today, marks>>
    BY <1>5 DEF Repay
  <2>. HIDE DEF row
  <2>. QED
    BY <2>1, <2>2 DEF TypeOK, marks
<1>. QED
  BY <1>1, <1>2, <1>3, <1>4, <1>5 DEF LoanStep

LEMMA NextType == TypeOK /\ [Next]_vars => TypeOK'
<1>. SUFFICES ASSUME TypeOK, [Next]_vars PROVE TypeOK'
  OBVIOUS
<1>1. CASE Detection
  <2>1. ASSUME NEW lag \in Lags, ListEligible(lag) PROVE TypeOK'
    BY <2>1 DEF ListEligible, TypeOK, marks
  <2>2. ASSUME NEW l \in Loans, OpenCase(l) PROVE TypeOK'
    BY <2>2 DEF OpenCase, TypeOK, Case, Statuses, Day, marks
  <2>. QED
    BY <1>1, <2>1, <2>2 DEF Detection
<1>2. CASE AdminStep
  <2>1. ASSUME NEW l \in Loans, DeleteCase(l) PROVE TypeOK'
    BY <2>1 DEF DeleteCase, TypeOK, Day, marks
  <2>2. ASSUME NEW l \in Loans, NEW k \in 1..2, DeleteNotice(l, k) PROVE TypeOK'
    <3>1. log' \in [Loans -> [1..2 -> Day]]
      BY <2>2 DEF DeleteNotice, TypeOK, Day
    <3>. QED
      BY <2>2, <3>1 DEF DeleteNotice, TypeOK
  <2>3. ASSUME NEW l \in Loans, NEW status \in Statuses, NEW surplus \in Prices \cup {0},
               EditCase(l, status, surplus)
        PROVE  TypeOK'
    <3>1. surplus \in Nat
      BY AuctionAssumption
    <3>2. case' \in [Loans -> Case \cup {None}]
      BY <2>3, <3>1 DEF EditCase, TypeOK, Case
    <3>. QED
      BY <2>3, <3>2, AuctionAssumption DEF EditCase, TypeOK
  <2>. QED
    BY <1>2, <2>1, <2>2, <2>3 DEF AdminStep
<1>3. CASE LoanStep
  BY <1>3, LoanType
<1>4. CASE \E w \in Workers : RequestStep(w)
  BY <1>4, RequestType
<1>5. CASE \E days \in Steps : Tick(days)
  BY <1>5, AuctionAssumption DEF Tick, TypeOK, marks
<1>6. CASE UNCHANGED vars
  BY <1>6 DEF vars, TypeOK, marks
<1>. QED
  BY <1>1, <1>2, <1>3, <1>4, <1>5, <1>6 DEF Next

\* Rows, requests and the calendar stay within their types.
THEOREM TypeCorrect == Spec => []TypeOK
BY InitType, NextType, PTL DEF Spec

-----------------------------------------------------------------------------
(* The notice periods.  What a row says of its notices is true of the log,   *)
(* in the table and in every copy a request holds.                           *)

\* Row c agrees with notices logged on d1 and d2 (or None), on the given day.
Sound(c, d1, d2, day) ==
  /\ c.status \in {"notice1", "notice2"} \cup AfterNotices =>
       c.n1 = d1 /\ c.n1 # None
  /\ c.status \in {"notice2"} \cup AfterNotices =>
       c.n2 = d2 /\ c.n2 # None /\ c.n2 - c.n1 >= NoticeDays
  /\ c.status \in AfterNotices => day - c.n2 >= NoticeDays

SoundRow(l) == case[l] # None => Sound(case[l], log[l][1], log[l][2], today)

SoundRead(w) ==
  /\ Sound(req[w].seen, log[req[w].loan][1], log[req[w].loan][2], today)
  /\ MayStart(req[w].op, req[w].seen)

NoticeInv ==
  /\ \A l \in Loans \ byHand : SoundRow(l)
  /\ \A w \in Workers : req[w] # None /\ req[w].loan \notin byHand => SoundRead(w)

\* A notice goes into the log only where there was none; no row relied on it.
LEMMA NewNoticeKeepsSound ==
  ASSUME NEW c, NEW d1, NEW d2, NEW day, NEW d
  PROVE  /\ Sound(c, None, d2, day) => Sound(c, d, d2, day)
         /\ Sound(c, d1, None, day) => Sound(c, d1, d, day)
BY DEF Sound

\* A step on loan l that keeps the calendar, leaves every other request as it is
\* or ends it, and logs nothing but a new notice of l.
LEMMA WriteKeepsNotice ==
  ASSUME TypeOK, NoticeInv, NEW l \in Loans,
         today' = today, byHand \subseteq byHand',
         \A m \in Loans \ {l} : case'[m] = case[m] /\ log'[m] = log[m],
         \A v \in Workers : req'[v] \in {req[v], None},
         \A k \in 1..2 : log'[l][k] = log[l][k] \/ log[l][k] = None,
         log'[l][1] = log[l][1] \/ log'[l][2] = log[l][2],
         l \notin byHand' => SoundRow(l)'
  PROVE  NoticeInv'
<1>1. ASSUME NEW m \in Loans, NEW c, Sound(c, log[m][1], log[m][2], today)
      PROVE  Sound(c, log'[m][1], log'[m][2], today')
  <2>1. CASE m # l
    BY <1>1, <2>1
  <2>2. CASE m = l /\ log'[l][1] # log[l][1]
    BY <1>1, <2>2, NewNoticeKeepsSound
  <2>3. CASE m = l /\ log'[l][1] = log[l][1]
    BY <1>1, <2>3, NewNoticeKeepsSound
  <2>. QED
    BY <2>1, <2>2, <2>3
<1>2. ASSUME NEW m \in Loans \ byHand' PROVE SoundRow(m)'
  <2>1. CASE m # l
    BY <1>1, <1>2, <2>1 DEF NoticeInv, SoundRow
  <2>. QED
    BY <2>1, <1>2
<1>3. ASSUME NEW v \in Workers, req'[v] # None, req'[v].loan \notin byHand' PROVE SoundRead(v)'
  <2>1. req'[v] = req[v] /\ req[v].loan \in Loans /\ req[v].loan \notin byHand
    BY <1>3 DEF TypeOK, Request
  <2>2. SoundRead(v)
    BY <1>3, <2>1 DEF NoticeInv
  <2>3. Sound(req[v].seen, log'[req[v].loan][1], log'[req[v].loan][2], today')
    BY <1>1, <2>1, <2>2 DEF SoundRead
  <2>. QED
    BY <2>1, <2>2, <2>3 DEF SoundRead, MayStart, Waited
<1>. QED
  BY <1>2, <1>3 DEF NoticeInv

LEMMA InitNotice == Init => NoticeInv
BY DEF Init, NoticeInv, SoundRow

LEMMA AskNotice ==
  ASSUME TypeOK, NoticeInv, NEW w \in Workers, NEW l \in Loans, NEW op \in Ops, Ask(w, l, op)
  PROVE  NoticeInv'
<1>1. /\ UNCHANGED <<case, log, today, byHand>>
      /\ req' = [req EXCEPT ![w] = [op |-> op, loan |-> l, seen |-> case[l]]]
  BY DEF Ask
<1>2. \A m \in Loans \ byHand' : SoundRow(m)'
  BY <1>1 DEF NoticeInv, SoundRow
<1>3. ASSUME NEW v \in Workers, req'[v] # None, req'[v].loan \notin byHand' PROVE SoundRead(v)'
  <2>1. CASE v = w
    <3>1. req'[v] = [op |-> op, loan |-> l, seen |-> case[l]]
      BY <1>1, <2>1 DEF TypeOK
    <3>2. Sound(case[l], log[l][1], log[l][2], today) /\ MayStart(op, case[l])
      BY <1>1, <1>3, <3>1 DEF Ask, NoticeInv, SoundRow
    <3>. QED
      BY <1>1, <3>1, <3>2 DEF SoundRead, MayStart, Waited
  <2>2. CASE v # w
    <3>1. req'[v] = req[v]
      BY <1>1, <2>2 DEF TypeOK
    <3>2. SoundRead(v)
      BY <1>1, <1>3, <3>1 DEF NoticeInv
    <3>. QED
      BY <1>1, <3>1, <3>2 DEF SoundRead, MayStart, Waited
  <2>. QED
    BY <2>1, <2>2
<1>. QED
  BY <1>2, <1>3 DEF NoticeInv

\* What a request that is about to write knows.
LEMMA KnownBeforeWrite ==
  ASSUME TypeOK, NoticeInv, NEW w \in Workers, req[w] # None
  PROVE  /\ req[w].loan \in Loans /\ req[w].seen \in Case
         /\ req[w].loan \notin byHand => SoundRead(w)
BY DEF TypeOK, Request, NoticeInv

LEMMA SaveEffect ==
  ASSUME TypeOK, NEW w \in Workers, NEW row, req[w] # None, Save(w, row)
  PROVE  /\ today' = today /\ UNCHANGED <<saving, todo, crossed, byHand, retold>>
         /\ case'[req[w].loan] = row
         /\ \A m \in Loans \ {req[w].loan} : case'[m] = case[m]
         /\ \A v \in Workers : req'[v] \in {req[v], None}
BY DEF Save, TypeOK, Request, marks

\* A write without a notice, of a row that is sound.
LEMMA SaveNotice ==
  ASSUME TypeOK, NoticeInv, NEW w \in Workers, NEW row, req[w] # None, Save(w, row), log' = log,
         req[w].loan \notin byHand =>
           Sound(row, log[req[w].loan][1], log[req[w].loan][2], today)
  PROVE  NoticeInv'
<1>1. PICK l \in Loans : l = req[w].loan
  BY KnownBeforeWrite
<1>2. /\ today' = today /\ byHand' = byHand /\ case'[l] = row
      /\ \A m \in Loans \ {l} : case'[m] = case[m]
      /\ \A v \in Workers : req'[v] \in {req[v], None}
  BY <1>1, SaveEffect
<1>3. l \notin byHand' => SoundRow(l)'
  BY <1>1, <1>2 DEF SoundRow
<1>4. /\ byHand \subseteq byHand'
      /\ \A m \in Loans \ {l} : case'[m] = case[m] /\ log'[m] = log[m]
      /\ \A k \in 1..2 : log'[l][k] = log[l][k] \/ log[l][k] = None
      /\ log'[l][1] = log[l][1] \/ log'[l][2] = log[l][2]
  BY <1>2
<1>. QED
  BY <1>2, <1>3, <1>4, WriteKeepsNotice

LEMMA SendNotice1Notice ==
  ASSUME TypeOK, NoticeInv, NEW w \in Workers, SendNotice1(w)
  PROVE  NoticeInv'
<1>0. PICK l \in Loans : l = req[w].loan
  BY KnownBeforeWrite DEF SendNotice1, Serving
<1>. DEFINE row == [req[w].seen EXCEPT !.status = "notice1", !.n1 = today]
<1>1. /\ req[w] # None /\ Save(w, row)
      /\ log[l][1] = None /\ log' = [log EXCEPT ![l][1] = today]
  BY <1>0 DEF SendNotice1, Serving
<1>2. req[w].seen \in Case
  BY <1>0, <1>1, KnownBeforeWrite
<1>3. row.status = "notice1" /\ row.n1 = today
  BY <1>2 DEF Case
<1>. HIDE DEF row
<1>4. /\ today' = today /\ byHand' = byHand /\ case'[l] = row
      /\ \A m \in Loans \ {l} : case'[m] = case[m]
      /\ \A v \in Workers : req'[v] \in {req[v], None}
  BY <1>0, <1>1, SaveEffect
<1>5. /\ \A m \in Loans \ {l} : log'[m] = log[m]
      /\ log'[l][1] = today /\ log'[l][2] = log[l][2]
  BY <1>1, <1>2 DEF TypeOK
<1>6. SoundRow(l)'
  <2>1. today # None
    BY AuctionAssumption DEF TypeOK
  <2>. QED
    BY <1>3, <1>4, <1>5, <2>1 DEF SoundRow, Sound, AfterNotices
<1>7. /\ byHand \subseteq byHand'
      /\ \A k \in 1..2 : log'[l][k] = log[l][k] \/ log[l][k] = None
      /\ \A m \in Loans \ {l} : case'[m] = case[m] /\ log'[m] = log[m]
      /\ log'[l][1] = log[l][1] \/ log'[l][2] = log[l][2]
  BY <1>1, <1>4, <1>5
<1>. QED
  BY <1>4, <1>6, <1>7, WriteKeepsNotice

LEMMA SendNotice2Notice ==
  ASSUME TypeOK, NoticeInv, NEW w \in Workers, SendNotice2(w)
  PROVE  NoticeInv'
<1>0. PICK l \in Loans : l = req[w].loan
  BY KnownBeforeWrite DEF SendNotice2, Serving
<1>. DEFINE row == [req[w].seen EXCEPT !.status = "notice2", !.n2 = today]
<1>1. /\ req[w] # None /\ req[w].op = "notice2" /\ Save(w, row)
      /\ log[l][2] = None /\ log' = [log EXCEPT ![l][2] = today]
  BY <1>0 DEF SendNotice2, Serving
<1>2. req[w].seen \in Case /\ (l \notin byHand => SoundRead(w))
  BY <1>0, <1>1, KnownBeforeWrite
<1>3. row.status = "notice2" /\ row.n2 = today /\ row.n1 = req[w].seen.n1
  BY <1>2 DEF Case
<1>. HIDE DEF row
<1>4. /\ today' = today /\ byHand' = byHand /\ case'[l] = row
      /\ \A m \in Loans \ {l} : case'[m] = case[m]
      /\ \A v \in Workers : req'[v] \in {req[v], None}
  BY <1>0, <1>1, SaveEffect
<1>5. /\ \A m \in Loans \ {l} : log'[m] = log[m]
      /\ log'[l][2] = today /\ log'[l][1] = log[l][1]
  BY <1>1, <1>2 DEF TypeOK
<1>6. ASSUME l \notin byHand' PROVE SoundRow(l)'
  <2>1. today # None
    BY AuctionAssumption DEF TypeOK
  <2>2. req[w].seen.status = "notice1" /\ Waited(req[w].seen.n1)
    BY <1>1, <1>2, <1>4, <1>6 DEF SoundRead, MayStart
  <2>3. req[w].seen.n1 = log[l][1]
    BY <1>0, <1>2, <1>4, <1>6, <2>2 DEF SoundRead, Sound
  <2>. QED
    BY <1>3, <1>4, <1>5, <2>1, <2>2, <2>3 DEF SoundRow, Sound, AfterNotices, Waited
<1>7. /\ byHand \subseteq byHand'
      /\ \A k \in 1..2 : log'[l][k] = log[l][k] \/ log[l][k] = None
      /\ \A m \in Loans \ {l} : case'[m] = case[m] /\ log'[m] = log[m]
      /\ log'[l][1] = log[l][1] \/ log'[l][2] = log[l][2]
  BY <1>1, <1>4, <1>5
<1>. QED
  BY <1>4, <1>6, <1>7, WriteKeepsNotice

\* Scheduling is the step that relies on the second period.
LEMMA ScheduleNotice ==
  ASSUME TypeOK, NoticeInv, NEW w \in Workers, Schedule(w)
  PROVE  NoticeInv'
<1>. DEFINE row == [req[w].seen EXCEPT !.status = "scheduled"]
<1>1. req[w] # None /\ req[w].op = "schedule" /\ Save(w, row) /\ log' = log
  BY DEF Schedule, Serving
<1>2. req[w].seen \in Case /\ (req[w].loan \notin byHand => SoundRead(w))
  BY <1>1, KnownBeforeWrite
<1>3. row.status = "scheduled" /\ row.n1 = req[w].seen.n1 /\ row.n2 = req[w].seen.n2
  BY <1>2 DEF Case
<1>. HIDE DEF row
<1>4. req[w].loan \notin byHand =>
        Sound(row, log[req[w].loan][1], log[req[w].loan][2], today)
  BY <1>1, <1>2, <1>3 DEF SoundRead, MayStart, Waited, Sound
<1>. QED
  BY <1>1, <1>4, SaveNotice

LEMMA SaleNotice ==
  ASSUME TypeOK, NoticeInv, NEW w \in Workers, NEW price, RecordSale(w, price)
  PROVE  NoticeInv'
<1>. DEFINE surplus == Larger(price - loan[req[w].loan].owed, 0)
            row == [req[w].seen EXCEPT !.status = "sold", !.surplus = surplus]
<1>1. req[w] # None /\ req[w].op = "sell" /\ Save(w, row) /\ log' = log
  BY DEF RecordSale, Serving
<1>. HIDE DEF surplus
<1>2. req[w].seen \in Case /\ (req[w].loan \notin byHand => SoundRead(w))
  BY <1>1, KnownBeforeWrite
<1>3. row.status = "sold" /\ row.n1 = req[w].seen.n1 /\ row.n2 = req[w].seen.n2
  BY <1>2 DEF Case
<1>. HIDE DEF row
<1>4. req[w].loan \notin byHand =>
        Sound(row, log[req[w].loan][1], log[req[w].loan][2], today)
  BY <1>1, <1>2, <1>3 DEF SoundRead, MayStart, Sound, AfterNotices
<1>. QED
  BY <1>1, <1>4, SaveNotice

LEMMA PostNotice ==
  ASSUME TypeOK, NoticeInv, NEW w \in Workers, PostSettlement(w)
  PROVE  NoticeInv'
<1>. DEFINE row == [req[w].seen EXCEPT !.status = "posted"]
<1>1. req[w] # None /\ req[w].op = "post" /\ Save(w, row) /\ log' = log
  BY DEF PostSettlement, Serving
<1>2. req[w].seen \in Case /\ (req[w].loan \notin byHand => SoundRead(w))
  BY <1>1, KnownBeforeWrite
<1>3. row.status = "posted" /\ row.n1 = req[w].seen.n1 /\ row.n2 = req[w].seen.n2
  BY <1>2 DEF Case
<1>. HIDE DEF row
<1>4. req[w].loan \notin byHand =>
        Sound(row, log[req[w].loan][1], log[req[w].loan][2], today)
  BY <1>1, <1>2, <1>3 DEF SoundRead, MayStart, Sound, AfterNotices
<1>. QED
  BY <1>1, <1>4, SaveNotice

LEMMA CancelNotice ==
  ASSUME TypeOK, NoticeInv, NEW w \in Workers, Cancel(w)
  PROVE  NoticeInv'
<1>. DEFINE row == [req[w].seen EXCEPT !.status = "cancelled"]
<1>1. req[w] # None /\ Save(w, row) /\ log' = log
  BY DEF Cancel, Serving
<1>2. req[w].seen \in Case
  BY <1>1, KnownBeforeWrite
<1>3. row.status = "cancelled"
  BY <1>2 DEF Case
<1>. HIDE DEF row
<1>4. Sound(row, log[req[w].loan][1], log[req[w].loan][2], today)
  BY <1>3 DEF Sound, AfterNotices
<1>. QED
  BY <1>1, <1>4, SaveNotice

\* A step on the case of one loan, or on none, with no request touched.
LEMMA CaseStepNotice ==
  ASSUME TypeOK, NoticeInv, NEW l \in Loans,
         UNCHANGED <<log, today, req>>, byHand \subseteq byHand',
         \A m \in Loans \ {l} : case'[m] = case[m],
         l \notin byHand' => SoundRow(l)'
  PROVE  NoticeInv'
<1>1. /\ today' = today
      /\ \A m \in Loans \ {l} : case'[m] = case[m] /\ log'[m] = log[m]
      /\ \A v \in Workers : req'[v] \in {req[v], None}
      /\ \A k \in 1..2 : log'[l][k] = log[l][k] \/ log[l][k] = None
      /\ log'[l][1] = log[l][1] \/ log'[l][2] = log[l][2]
  OBVIOUS
<1>. QED
  BY <1>1, WriteKeepsNotice

LEMMA IdleNotice ==
  ASSUME NoticeInv, UNCHANGED <<case, log, today, byHand>>,
         \A v \in Workers : req'[v] \in {req[v], None}
  PROVE  NoticeInv'
<1>1. \A m \in Loans \ byHand' : SoundRow(m)'
  BY DEF NoticeInv, SoundRow
<1>2. ASSUME NEW v \in Workers, req'[v] # None, req'[v].loan \notin byHand' PROVE SoundRead(v)'
  <2>1. req'[v] = req[v] /\ SoundRead(v)
    BY <1>2 DEF NoticeInv
  <2>. QED
    BY <2>1 DEF SoundRead, MayStart, Waited
<1>. QED
  BY <1>1, <1>2 DEF NoticeInv

LEMMA NextNotice == TypeOK /\ NoticeInv /\ [Next]_vars => NoticeInv'
<1>. SUFFICES ASSUME TypeOK, NoticeInv, [Next]_vars PROVE NoticeInv'
  OBVIOUS
<1>1. CASE Detection
  <2>1. ASSUME NEW lag \in Lags, ListEligible(lag) PROVE NoticeInv'
    BY <2>1, IdleNotice DEF ListEligible, marks
  <2>2. ASSUME NEW l \in Loans, OpenCase(l) PROVE NoticeInv'
    <3>1. /\ UNCHANGED <<log, today, req>> /\ byHand \subseteq byHand'
          /\ case'[l].status = "eligible"
          /\ \A m \in Loans \ {l} : case'[m] = case[m]
      BY <2>2 DEF OpenCase, TypeOK, marks
    <3>2. SoundRow(l)'
      BY <3>1 DEF SoundRow, Sound, AfterNotices
    <3>. QED
      BY <3>1, <3>2, CaseStepNotice
  <2>. QED
    BY <1>1, <2>1, <2>2 DEF Detection
<1>2. CASE AdminStep
  <2>1. ASSUME NEW l \in Loans, DeleteCase(l) PROVE NoticeInv'
    <3>1. /\ UNCHANGED <<req, today, byHand>> /\ ~Busy(l)
          /\ case'[l] = None
          /\ \A m \in Loans \ {l} : case'[m] = case[m] /\ log'[m] = log[m]
      BY <2>1 DEF DeleteCase, TypeOK, marks
    <3>2. \A m \in Loans \ byHand' : SoundRow(m)'
      BY <3>1 DEF NoticeInv, SoundRow
    <3>3. ASSUME NEW v \in Workers, req'[v] # None, req'[v].loan \notin byHand'
          PROVE  SoundRead(v)'
      <4>1. req[v].loan \in Loans \ {l} /\ SoundRead(v)
        BY <3>1, <3>3 DEF Busy, TypeOK, Request, NoticeInv
      <4>. QED
        BY <3>1, <4>1 DEF SoundRead, MayStart, Waited
    <3>. QED
      BY <3>2, <3>3 DEF NoticeInv
  <2>2. ASSUME NEW l \in Loans, NEW k \in 1..2, DeleteNotice(l, k) PROVE NoticeInv'
    <3>1. /\ UNCHANGED <<case, today, req>> /\ byHand' = byHand \cup {l}
          /\ \A m \in Loans \ {l} : log'[m] = log[m]
      BY <2>2 DEF DeleteNotice, TypeOK
    <3>2. \A m \in Loans \ byHand' : SoundRow(m)'
      BY <3>1 DEF NoticeInv, SoundRow
    <3>3. ASSUME NEW v \in Workers, req'[v] # None, req'[v].loan \notin byHand'
          PROVE  SoundRead(v)'
      <4>1. req[v].loan \in Loans \ {l} /\ SoundRead(v)
        BY <3>1, <3>3 DEF TypeOK, Request, NoticeInv
      <4>. QED
        BY <3>1, <4>1 DEF SoundRead, MayStart, Waited
    <3>. QED
      BY <3>2, <3>3 DEF NoticeInv
  <2>3. ASSUME NEW l \in Loans, NEW status \in Statuses, NEW surplus \in Prices \cup {0},
               EditCase(l, status, surplus)
        PROVE  NoticeInv'
    <3>1. /\ UNCHANGED <<log, today, req>>
          /\ byHand \subseteq byHand' /\ l \in byHand'
          /\ \A m \in Loans \ {l} : case'[m] = case[m]
      BY <2>3 DEF EditCase, TypeOK
    <3>. QED
      BY <3>1, CaseStepNotice
  <2>. QED
    BY <1>2, <2>1, <2>2, <2>3 DEF AdminStep
<1>3. CASE LoanStep
  <2>1. UNCHANGED <<case, log, today, byHand, req>>
    BY <1>3 DEF LoanStep, ReadLoan, EditLoan, SaveLoan, DropLoan, Repay, marks
  <2>. QED
    BY <2>1, IdleNotice
<1>4. ASSUME NEW w \in Workers, RequestStep(w) PROVE NoticeInv'
  <2>1. CASE Abandon(w)
    <3>1. /\ UNCHANGED <<case, log, today, byHand>>
          /\ \A v \in Workers : req'[v] \in {req[v], None}
      BY <2>1 DEF Abandon, TypeOK, marks
    <3>. QED
      BY <3>1, IdleNotice
  <2>. QED
    BY <1>4, <2>1, AskNotice, SendNotice1Notice, SendNotice2Notice, ScheduleNotice,
       SaleNotice, PostNotice, CancelNotice DEF RequestStep
<1>5. ASSUME NEW days \in Steps, Tick(days) PROVE NoticeInv'
  <2>1. /\ UNCHANGED <<case, log, byHand>> /\ today' = today + days /\ days \in Nat
        /\ \A v \in Workers : req'[v] = None
    BY <1>5, AuctionAssumption DEF Tick, marks
  <2>2. ASSUME NEW c \in Case, NEW d1, NEW d2, Sound(c, d1, d2, today)
        PROVE  Sound(c, d1, d2, today')
    <3>1. c.status \in AfterNotices => c.n2 \in Int
      BY <2>2 DEF Sound, Case, Day
    <3>. QED
      BY <2>1, <2>2, <3>1 DEF Sound, TypeOK, NoticeDays
  <2>3. ASSUME NEW m \in Loans \ byHand' PROVE SoundRow(m)'
    <3>1. SoundRow(m) /\ case[m] \in Case \cup {None}
      BY <2>1, <2>3 DEF NoticeInv, TypeOK
    <3>. QED
      BY <2>1, <2>2, <3>1 DEF SoundRow
  <2>. QED
    BY <2>1, <2>3 DEF NoticeInv
<1>6. CASE UNCHANGED vars
  BY <1>6, IdleNotice DEF vars, marks
<1>. QED
  BY <1>1, <1>2, <1>3, <1>4, <1>5, <1>6 DEF Next

LEMMA NoticeImplies == TypeOK /\ NoticeInv => NoticePeriods
BY DEF NoticeInv, NoticePeriods, SoundRow, Sound, Noticed, AfterNotices

\* can_send_notice_2 and can_schedule wait fourteen days on a row that may be
\* stale; since a notice can be logged only once, no case gets to a sale early.
THEOREM NoticesBeforeSale == Spec => []NoticePeriods
<1>1. Init => TypeOK /\ NoticeInv
  BY InitType, InitNotice
<1>2. TypeOK /\ NoticeInv /\ [Next]_vars => TypeOK' /\ NoticeInv'
  BY NextType, NextNotice
<1>3. TypeOK /\ NoticeInv => NoticePeriods
  BY NoticeImplies
<1>. QED
  BY <1>1, <1>2, <1>3, PTL DEF Spec

-----------------------------------------------------------------------------
(* Settlement.  A case that requests never crossed and nobody edited by hand *)
(* is held by one request at a time, which writes back what is still true.   *)

Undisturbed(l) == l \notin crossed \cup byHand

\* What SettledTogether says of l, and that money goes out only with the status.
Settled(l) ==
  /\ case[l] = None => refunded[l] = 0
  /\ case[l] # None =>
       /\ refunded[l] = IF case[l].status = "posted" THEN case[l].surplus ELSE 0
       /\ l \notin retold => (case[l].status = "posted" <=> loan[l].status = "auctioned")

\* Request w is the only one on its case, and what it read is still there.
Alone(w) ==
  /\ case[req[w].loan] # None
  /\ req[w].seen = case[req[w].loan]
  /\ MayStart(req[w].op, req[w].seen)
  /\ \A v \in Workers \ {w} : req[v] # None => req[v].loan # req[w].loan

ToBeOpened(l) == case[l] = None /\ (l \notin retold => loan[l].status # "auctioned")

SettleInv ==
  /\ \A l \in todo : Undisturbed(l) => ToBeOpened(l)
  /\ \A w \in Workers : req[w] # None /\ Undisturbed(req[w].loan) => Alone(w)
  /\ \A l \in Loans : Undisturbed(l) => Settled(l)

LEMMA InitSettle == Init => SettleInv
BY DEF Init, SettleInv, Settled

\* A step on loan l: a case that stays undisturbed is settled after it, no longer
\* on the list, and no longer held.
LEMMA WriteSettle ==
  ASSUME TypeOK, SettleInv, NEW l \in Loans,
         today' = today, crossed \subseteq crossed', byHand \subseteq byHand',
         retold \subseteq retold', todo' \subseteq todo,
         \A m \in Loans \ {l} : /\ case'[m] = case[m] /\ loan'[m] = loan[m]
                                /\ refunded'[m] = refunded[m],
         \A v \in Workers : req'[v] \in {req[v], None},
         Undisturbed(l)' => /\ Settled(l)' /\ l \notin todo'
                            /\ \A v \in Workers : req'[v] # None => req[v].loan # l
  PROVE  SettleInv'
<1>1. ASSUME NEW m \in todo', Undisturbed(m)' PROVE ToBeOpened(m)'
  <2>1. m \in todo /\ m \in Loans \ {l} /\ Undisturbed(m)
    BY <1>1 DEF Undisturbed, TypeOK
  <2>. QED
    BY <2>1 DEF SettleInv, ToBeOpened
<1>2. ASSUME NEW w \in Workers, req'[w] # None, Undisturbed(req[w].loan)'
      PROVE  Alone(w)'
  <2>1. req'[w] = req[w] /\ req[w].loan \in Loans
    BY <1>2 DEF TypeOK, Request
  <2>2. PICK m \in Loans : m = req[w].loan
    BY <2>1
  <2>3. m # l /\ Undisturbed(m)
    BY <1>2, <2>1, <2>2 DEF Undisturbed
  <2>4. Alone(w)
    BY <1>2, <2>1, <2>2, <2>3 DEF SettleInv
  <2>5. \A v \in Workers \ {w} : req'[v] # None => req'[v].loan # m
    BY <2>2, <2>4 DEF Alone
  <2>. QED
    BY <2>1, <2>2, <2>3, <2>4, <2>5 DEF Alone, MayStart, Waited
<1>3. ASSUME NEW m \in Loans, Undisturbed(m)' PROVE Settled(m)'
  <2>1. CASE m = l
    BY <1>3, <2>1
  <2>2. CASE m # l
    <3>1. Settled(m)
      BY <1>3 DEF SettleInv, Undisturbed
    <3>. QED
      BY <2>2, <3>1 DEF Settled
  <2>. QED
    BY <2>1, <2>2
<1>. QED
  BY <1>1, <1>2, <1>3 DEF SettleInv

\* A step that touches no case and auctions no loan, or marks it as retold.
LEMMA QuietSettle ==
  ASSUME TypeOK, SettleInv, UNCHANGED <<case, refunded, crossed, byHand>>,
         retold \subseteq retold',
         \A m \in Loans \ retold' :
           loan'[m].status = "auctioned" <=> loan[m].status = "auctioned",
         \A m \in todo' : m \in Loans /\ (m \in todo \/ ToBeOpened(m)),
         \A v \in Workers : req'[v] \in {req[v], None},
         today' = today \/ \A v \in Workers : req'[v] = None
  PROVE  SettleInv'
<1>1. ASSUME NEW m \in todo', Undisturbed(m)' PROVE ToBeOpened(m)'
  BY <1>1 DEF SettleInv, ToBeOpened, Undisturbed
<1>2. ASSUME NEW w \in Workers, req'[w] # None, Undisturbed(req[w].loan)'
      PROVE  Alone(w)'
  <2>1. req'[w] = req[w] /\ today' = today /\ Undisturbed(req[w].loan)
    BY <1>2 DEF Undisturbed
  <2>2. Alone(w)
    BY <1>2, <2>1 DEF SettleInv
  <2>. QED
    BY <2>1, <2>2 DEF Alone, MayStart, Waited
<1>3. ASSUME NEW m \in Loans, Undisturbed(m)' PROVE Settled(m)'
  <2>1. Settled(m)
    BY <1>3 DEF SettleInv, Undisturbed
  <2>. QED
    BY <2>1 DEF Settled
<1>. QED
  BY <1>1, <1>2, <1>3 DEF SettleInv

\* A second request on a case leaves it disturbed.
LEMMA AskSettle ==
  ASSUME TypeOK, SettleInv, NEW w \in Workers, NEW l \in Loans, NEW op \in Ops, Ask(w, l, op)
  PROVE  SettleInv'
<1>1. /\ UNCHANGED <<loan, case, refunded, todo, today, byHand, retold>>
      /\ req[w] = None /\ case[l] # None /\ MayStart(op, case[l])
      /\ req' = [req EXCEPT ![w] = [op |-> op, loan |-> l, seen |-> case[l]]]
      /\ crossed' = IF Busy(l) THEN crossed \cup {l} ELSE crossed
  BY DEF Ask
<1>2. req'[w] = [op |-> op, loan |-> l, seen |-> case[l]]
  BY <1>1 DEF TypeOK
<1>3. \A v \in Workers \ {w} : req'[v] = req[v]
  BY <1>1 DEF TypeOK
<1>4. ASSUME NEW v \in Workers, req'[v] # None, Undisturbed(req[v].loan)'
      PROVE  Alone(v)'
  <2>1. CASE v = w
    <3>1. ~Busy(l)
      BY <1>1, <1>2, <1>4, <2>1 DEF Undisturbed
    <3>2. \A u \in Workers \ {w} : req'[u] # None => req'[u].loan # l
      BY <1>3, <3>1 DEF Busy
    <3>. QED
      BY <1>1, <1>2, <2>1, <3>2 DEF Alone, MayStart, Waited
  <2>2. CASE v # w
    <3>1. req'[v] = req[v] /\ Undisturbed(req[v].loan)
      BY <1>1, <1>3, <1>4, <2>2 DEF Undisturbed
    <3>2. Alone(v)
      BY <1>4, <3>1 DEF SettleInv
    <3>3. req[v].loan # l
      BY <1>1, <1>4, <3>1 DEF Undisturbed, Busy
    <3>4. \A u \in Workers \ {v} : req'[u] # None => req'[u].loan # req[v].loan
      BY <1>2, <1>3, <3>2, <3>3 DEF Alone
    <3>. QED
      BY <1>1, <3>1, <3>2, <3>4 DEF Alone, MayStart, Waited
  <2>. QED
    BY <2>1, <2>2
<1>5. \A m \in todo' : Undisturbed(m)' => ToBeOpened(m)'
  BY <1>1 DEF SettleInv, Undisturbed, ToBeOpened
<1>6. \A m \in Loans : Undisturbed(m)' => Settled(m)'
  BY <1>1 DEF SettleInv, Undisturbed, Settled
<1>. QED
  BY <1>4, <1>5, <1>6 DEF SettleInv

\* A request that writes: undisturbed, it still holds the row of the table.
LEMMA SaveSettle ==
  ASSUME TypeOK, SettleInv, NEW w \in Workers, NEW row, req[w] # None, Save(w, row),
         \A m \in Loans \ {req[w].loan} : loan'[m] = loan[m] /\ refunded'[m] = refunded[m],
         Undisturbed(req[w].loan) /\ Settled(req[w].loan) /\ Alone(w) =>
           /\ row # None
           /\ refunded'[req[w].loan] = IF row.status = "posted" THEN row.surplus ELSE 0
           /\ req[w].loan \notin retold =>
                (row.status = "posted" <=> loan'[req[w].loan].status = "auctioned")
  PROVE  SettleInv'
<1>1. PICK l \in Loans : l = req[w].loan
  BY DEF TypeOK, Request
<1>2. /\ today' = today /\ UNCHANGED <<todo, crossed, byHand, retold>> /\ case'[l] = row
      /\ \A m \in Loans \ {l} : case'[m] = case[m]
      /\ \A v \in Workers : req'[v] \in {req[v], None}
      /\ req'[w] = None
  BY <1>1, SaveEffect DEF Save, TypeOK
<1>3. ASSUME Undisturbed(l)'
      PROVE  /\ Settled(l)' /\ l \notin todo'
             /\ \A v \in Workers : req'[v] # None => req[v].loan # l
  <2>1. Undisturbed(l) /\ Alone(w) /\ Settled(l)
    BY <1>1, <1>2, <1>3 DEF Undisturbed, SettleInv
  <2>2. Settled(l)'
    BY <1>1, <1>2, <2>1 DEF Settled
  <2>3. l \notin todo'
    BY <1>1, <1>2, <2>1 DEF SettleInv, Alone, ToBeOpened
  <2>4. \A v \in Workers : req'[v] # None => req[v].loan # l
    BY <1>1, <1>2, <2>1 DEF Alone
  <2>. QED
    BY <2>2, <2>3, <2>4
<1>. QED
  BY <1>1, <1>2, <1>3, WriteSettle

\* Every write but the settlement leaves a case that is not posted.
LEMMA OtherSaveSettle ==
  ASSUME TypeOK, SettleInv, NEW w \in Workers, NEW row \in Case, req[w] # None, Save(w, row),
         UNCHANGED <<loan, refunded>>, row.status # "posted"
  PROVE  SettleInv'
<1>1. ASSUME Settled(req[w].loan), Alone(w)
      PROVE  /\ refunded[req[w].loan] = 0
             /\ req[w].loan \notin retold => loan[req[w].loan].status # "auctioned"
  <2>1. case[req[w].loan].status # "posted"
    BY <1>1 DEF Alone, MayStart, Final
  <2>. QED
    BY <1>1, <2>1 DEF Alone, Settled
<1>2. row # None
  BY CaseAssumption
<1>. QED
  BY <1>1, <1>2, SaveSettle

LEMMA PostSettle ==
  ASSUME TypeOK, SettleInv, NEW w \in Workers, PostSettlement(w)
  PROVE  SettleInv'
<1>. DEFINE row == [req[w].seen EXCEPT !.status = "posted"]
<1>1. PICK l \in Loans : l = req[w].loan
  BY DEF TypeOK, Request, PostSettlement, Serving
<1>2. /\ req[w] # None /\ req[w].op = "post" /\ Save(w, row)
      /\ refunded' = [refunded EXCEPT ![l] = @ + req[w].seen.surplus]
      /\ loan' = [loan EXCEPT ![l].status = "auctioned"]
  BY <1>1 DEF PostSettlement, Serving
<1>3. req[w].seen \in Case /\ req[w].seen.surplus \in Nat
  BY <1>2 DEF TypeOK, Request, Case
<1>4. row \in Case /\ row.status = "posted" /\ row.surplus = req[w].seen.surplus
  BY <1>3 DEF Case, Statuses
<1>. HIDE DEF row
<1>5. /\ loan'[l].status = "auctioned" /\ refunded'[l] = refunded[l] + req[w].seen.surplus
      /\ \A m \in Loans \ {l} : loan'[m] = loan[m] /\ refunded'[m] = refunded[m]
  BY <1>2 DEF TypeOK, LoanRow
<1>6. ASSUME Settled(l), Alone(w) PROVE refunded[l] = 0
  BY <1>1, <1>2, <1>6 DEF Settled, Alone, MayStart
<1>. QED
  BY <1>1, <1>2, <1>3, <1>4, <1>5, <1>6, CaseAssumption, SaveSettle

LEMMA RequestSettle ==
  ASSUME TypeOK, SettleInv, NEW w \in Workers, RequestStep(w)
  PROVE  SettleInv'
<1>0. today \in Day
  BY DEF TypeOK, Day
<1>1. CASE Abandon(w)
  BY <1>1, QuietSettle DEF Abandon, TypeOK, marks
<1>2. ASSUME req[w] # None PROVE req[w].seen \in Case
  BY <1>2 DEF TypeOK, Request
<1>3. CASE SendNotice1(w)
  <2>1. /\ [req[w].seen EXCEPT !.status = "notice1", !.n1 = today] \in Case
        /\ [req[w].seen EXCEPT !.status = "notice1", !.n1 = today].status # "posted"
    BY <1>2, <1>3, <1>0 DEF SendNotice1, Serving, Case, Statuses
  <2>. QED
    BY <1>3, <2>1, OtherSaveSettle DEF SendNotice1, Serving
<1>4. CASE SendNotice2(w)
  <2>1. /\ [req[w].seen EXCEPT !.status = "notice2", !.n2 = today] \in Case
        /\ [req[w].seen EXCEPT !.status = "notice2", !.n2 = today].status # "posted"
    BY <1>2, <1>4, <1>0 DEF SendNotice2, Serving, Case, Statuses
  <2>. QED
    BY <1>4, <2>1, OtherSaveSettle DEF SendNotice2, Serving
<1>5. CASE Schedule(w)
  <2>1. /\ [req[w].seen EXCEPT !.status = "scheduled"] \in Case
        /\ [req[w].seen EXCEPT !.status = "scheduled"].status # "posted"
    BY <1>2, <1>5 DEF Schedule, Serving, Case, Statuses
  <2>. QED
    BY <1>5, <2>1, OtherSaveSettle DEF Schedule, Serving
<1>6. ASSUME NEW price \in Prices, RecordSale(w, price) PROVE SettleInv'
  <2>. DEFINE surplus == Larger(price - loan[req[w].loan].owed, 0)
  <2>1. /\ req[w] # None /\ UNCHANGED <<loan, refunded>>
        /\ Save(w, [req[w].seen EXCEPT !.status = "sold", !.surplus = surplus])
    BY <1>6 DEF RecordSale, Serving
  <2>2. surplus \in Nat
    BY <2>1, AuctionAssumption DEF Larger, TypeOK, LoanRow, Request
  <2>. HIDE DEF surplus
  <2>3. /\ [req[w].seen EXCEPT !.status = "sold", !.surplus = surplus] \in Case
        /\ [req[w].seen EXCEPT !.status = "sold", !.surplus = surplus].status # "posted"
    BY <1>2, <2>1, <2>2 DEF Case, Statuses
  <2>. QED
    BY <2>1, <2>3, OtherSaveSettle
<1>7. CASE Cancel(w)
  <2>1. /\ [req[w].seen EXCEPT !.status = "cancelled"] \in Case
        /\ [req[w].seen EXCEPT !.status = "cancelled"].status # "posted"
    BY <1>2, <1>7 DEF Cancel, Serving, Case, Statuses
  <2>. QED
    BY <1>7, <2>1, OtherSaveSettle DEF Cancel, Serving
<1>. QED
  BY <1>1, <1>3, <1>4, <1>5, <1>6, <1>7, AskSettle, PostSettle DEF RequestStep

\* Nothing that happens to a loan outside its auction auctions it or undoes that,
\* short of a status saved to a loan read earlier, or chosen in its form.
LEMMA LoanSettle ==
  ASSUME TypeOK, SettleInv, LoanStep
  PROVE  SettleInv'
<1>1. PICK l \in Loans :
        \/ \E status \in Saved : ReadLoan(l, status)
        \/ \E status \in LoanStatuses : EditLoan(l, status)
        \/ SaveLoan(l) \/ DropLoan(l)
        \/ \E left \in Dues \cup {0}, interest \in BOOLEAN : Repay(l, left, interest)
  BY DEF LoanStep
<1>2. /\ UNCHANGED <<case, refunded, req, todo, today, crossed, byHand>>
      /\ retold \subseteq retold'
      /\ \A m \in Loans \ {l} : loan'[m] = loan[m]
  BY <1>1 DEF ReadLoan, EditLoan, SaveLoan, DropLoan, Repay, TypeOK, marks
<1>3. l \notin retold' => (loan'[l].status = "auctioned" <=> loan[l].status = "auctioned")
  <2>1. ASSUME NEW status, ReadLoan(l, status) \/ EditLoan(l, status)
        PROVE  l \notin retold' => loan'[l] = loan[l]
    BY <2>1 DEF ReadLoan, EditLoan
  <2>2. CASE DropLoan(l)
    BY <2>2 DEF DropLoan
  <2>3. CASE SaveLoan(l)
    <3>1. loan'[l].status = saving[l] /\ saving[l] # "auctioned"
      BY <2>3 DEF SaveLoan, TypeOK, LoanRow, Saved, Live
    <3>2. l \notin retold' => loan[l].status # "auctioned"
      BY <2>3 DEF SaveLoan
    <3>. QED
      BY <3>1, <3>2
  <2>4. ASSUME NEW left, NEW interest, Repay(l, left, interest)
        PROVE  loan'[l].status = "auctioned" <=> loan[l].status = "auctioned"
    <3>. DEFINE status == IF left = 0 /\ loan[l].status \in Live
                          THEN "closed" ELSE loan[l].status
                row == [loan[l] EXCEPT !.owed = left, !.paid = @ \/ interest, !.status = status]
    <3>1. loan'[l] = row
      BY <2>4 DEF Repay, TypeOK
    <3>2. row.status = status
      BY DEF TypeOK, LoanRow
    <3>. QED
      BY <3>1, <3>2 DEF Live
  <2>. QED
    BY <1>1, <2>1, <2>2, <2>3, <2>4
<1>4. todo' \subseteq Loans
  BY <1>2 DEF TypeOK
<1>. QED
  BY <1>2, <1>3, <1>4, QuietSettle

LEMMA NextSettle == TypeOK /\ SettleInv /\ [Next]_vars => SettleInv'
<1>. SUFFICES ASSUME TypeOK, SettleInv, [Next]_vars PROVE SettleInv'
  OBVIOUS
<1>1. CASE Detection
  <2>1. ASSUME NEW lag \in Lags, ListEligible(lag) PROVE SettleInv'
    <3>1. /\ UNCHANGED <<loan, case, refunded, req, today, crossed, byHand, retold>>
          /\ \A m \in todo' : m \in Loans /\ ToBeOpened(m)
      BY <2>1 DEF ListEligible, Eligible, ToBeOpened, marks
    <3>. QED
      BY <3>1, QuietSettle
  <2>2. ASSUME NEW l \in Loans, OpenCase(l) PROVE SettleInv'
    <3>1. /\ UNCHANGED <<loan, refunded, today, req, crossed, byHand, retold>>
          /\ l \in todo /\ todo' = todo \ {l}
          /\ case'[l].status = "eligible" /\ case'[l] # None
          /\ \A m \in Loans \ {l} : case'[m] = case[m]
      BY <2>2, CaseAssumption DEF OpenCase, TypeOK, Case, Statuses, Day, marks
    <3>2. ASSUME Undisturbed(l)'
          PROVE  /\ Settled(l)'
                 /\ \A v \in Workers : req'[v] # None => req[v].loan # l
      <4>1. ToBeOpened(l) /\ Settled(l)
        BY <3>1, <3>2 DEF SettleInv, Undisturbed
      <4>2. \A v \in Workers : req[v] # None => req[v].loan # l
        BY <3>1, <3>2, <4>1 DEF SettleInv, Undisturbed, Alone, ToBeOpened
      <4>. QED
        BY <3>1, <4>1, <4>2 DEF Settled, ToBeOpened
    <3>. QED
      BY <3>1, <3>2, WriteSettle
  <2>. QED
    BY <1>1, <2>1, <2>2 DEF Detection
<1>2. CASE AdminStep
  <2>1. ASSUME NEW l \in Loans, DeleteCase(l) PROVE SettleInv'
    <3>1. /\ UNCHANGED <<loan, req, todo, today, crossed, byHand, retold>> /\ ~Busy(l)
          /\ case[l] # None /\ case'[l] = None /\ refunded'[l] = 0
          /\ \A m \in Loans \ {l} : case'[m] = case[m] /\ refunded'[m] = refunded[m]
      BY <2>1 DEF DeleteCase, TypeOK, marks
    <3>2. ASSUME Undisturbed(l)'
          PROVE  /\ Settled(l)' /\ l \notin todo'
                 /\ \A v \in Workers : req'[v] # None => req[v].loan # l
      BY <3>1, <3>2 DEF SettleInv, Undisturbed, Settled, ToBeOpened, Busy
    <3>. QED
      BY <3>1, <3>2, WriteSettle
  <2>2. ASSUME NEW l \in Loans,
               \/ \E k \in 1..2 : DeleteNotice(l, k)
               \/ \E status \in Statuses, surplus \in Prices \cup {0} :
                    EditCase(l, status, surplus)
        PROVE  SettleInv'
    <3>1. /\ UNCHANGED <<loan, refunded, req, todo, today, crossed, retold>>
          /\ byHand' = byHand \cup {l}
          /\ \A m \in Loans \ {l} : case'[m] = case[m]
      BY <2>2 DEF EditCase, DeleteNotice, TypeOK
    <3>2. ~Undisturbed(l)'
      BY <3>1 DEF Undisturbed
    <3>. QED
      BY <3>1, <3>2, WriteSettle
  <2>. QED
    BY <1>2, <2>1, <2>2 DEF AdminStep
<1>3. ASSUME NEW w \in Workers, RequestStep(w) PROVE SettleInv'
  BY <1>3, RequestSettle
<1>4. ASSUME NEW days \in Steps, Tick(days) PROVE SettleInv'
  BY <1>4, QuietSettle DEF Tick, TypeOK, marks
<1>5. CASE UNCHANGED vars
  BY <1>5, QuietSettle DEF vars, marks, TypeOK
<1>. QED
  BY <1>1, <1>2, <1>3, <1>4, <1>5, LoanSettle DEF Next

\* Whatever the number of requests, as long as no two of them held the case at
\* once and nobody changed it in the admin pages: its surplus has been refunded
\* when and only when it is posted, once, and the loan is auctioned exactly then,
\* unless a pre-close, a renewal or the classifier saved over that status.
THEOREM SettledInOneStep == Spec => []SettledTogether
<1>1. Init => TypeOK /\ SettleInv
  BY InitType, InitSettle
<1>2. TypeOK /\ SettleInv /\ [Next]_vars => TypeOK' /\ SettleInv'
  BY NextType, NextSettle
<1>3. SettleInv => SettledTogether
  BY DEF SettleInv, Settled, Undisturbed, SettledTogether
<1>. QED
  BY <1>1, <1>2, <1>3, PTL DEF Spec

-----------------------------------------------------------------------------
(* Closed cases *)

StaysAsItIs(l) == case'[l] \in {case[l], None} \/ l \in crossed' \cup byHand'

\* The only writers of a case are requests, the detection and the admin pages.
LEMMA NextKeepsClosed ==
  ASSUME TypeOK, SettleInv, Next, NEW l \in Loans, case[l] # None, case[l].status \in Final
  PROVE  StaysAsItIs(l)
<1>1. ASSUME NEW w \in Workers, RequestStep(w) PROVE StaysAsItIs(l)
  <2>1. CASE case' = case
    BY <2>1 DEF StaysAsItIs
  <2>2. ASSUME req[w] # None, NEW row, Save(w, row) PROVE StaysAsItIs(l)
    <3>1. CASE req[w].loan # l
      BY <2>2, <3>1, SaveEffect DEF StaysAsItIs
    <3>2. CASE req[w].loan = l /\ Undisturbed(l)
      <4>1. Alone(w)
        BY <2>2, <3>2 DEF SettleInv
      <4>2. case[l].status \notin Final
        BY <3>2, <4>1 DEF Alone, MayStart, Final
      <4>. QED
        BY <4>2
    <3>3. CASE ~Undisturbed(l)
      BY <2>2, <3>3 DEF Undisturbed, Save, StaysAsItIs, marks
    <3>. QED
      BY <3>1, <3>2, <3>3
  <2>. QED
    BY <1>1, <2>1, <2>2
       DEF RequestStep, Ask, Abandon, Serving, SendNotice1, SendNotice2, Schedule,
           RecordSale, PostSettlement, Cancel
<1>2. CASE Detection
  <2>1. CASE case' = case
    BY <2>1 DEF StaysAsItIs
  <2>2. ASSUME NEW m \in Loans, OpenCase(m) PROVE StaysAsItIs(l)
    <3>1. case'[l] = case[l] \/ m = l
      BY <2>2 DEF OpenCase, TypeOK
    <3>2. m = l => ~Undisturbed(l)
      BY <2>2 DEF OpenCase, SettleInv, ToBeOpened
    <3>. QED
      BY <2>2, <3>1, <3>2 DEF StaysAsItIs, Undisturbed, OpenCase, marks
  <2>. QED
    BY <1>2, <2>1, <2>2 DEF Detection, ListEligible
<1>3. CASE AdminStep
  BY <1>3 DEF AdminStep, DeleteCase, DeleteNotice, EditCase, TypeOK, StaysAsItIs
<1>4. CASE LoanStep
  BY <1>4 DEF LoanStep, ReadLoan, EditLoan, SaveLoan, DropLoan, Repay, StaysAsItIs
<1>5. ASSUME NEW days \in Steps, Tick(days) PROVE StaysAsItIs(l)
  BY <1>5 DEF Tick, StaysAsItIs
<1>. QED
  BY <1>1, <1>2, <1>3, <1>4, <1>5 DEF Next

\* A posted or cancelled case changes no more: a request that still acts on it
\* read it before it was closed, and then two requests have held it at once.
THEOREM ClosedForGood == Spec => ClosedCasesStayClosed
<1>1. Init => TypeOK /\ SettleInv
  BY InitType, InitSettle
<1>2. TypeOK /\ SettleInv /\ [Next]_vars => TypeOK' /\ SettleInv'
  BY NextType, NextSettle
<1>3. TypeOK /\ SettleInv /\ [Next]_vars =>
        [\A l \in Loans : (case[l] # None /\ case[l].status \in Final) =>
           \/ case'[l] \in {case[l], None}
           \/ l \in crossed' \cup byHand']_vars
  BY NextKeepsClosed DEF StaysAsItIs
<1>. QED
  BY <1>1, <1>2, <1>3, PTL DEF Spec, ClosedCasesStayClosed
=============================================================================
