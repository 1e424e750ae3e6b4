----------------------------- MODULE Numbering -----------------------------
(***************************************************************************)
(* The numbers that save() gives to new rows: loan_no and receipt_no       *)
(* (apps/loans/models.py) count the rows of a year or of a day, the        *)
(* customer code (apps/customers/models.py) follows the highest id.  A     *)
(* number is read first and inserted later; the unique constraint rejects  *)
(* a second use and save() generates again, MaxNoRetries times in all.     *)
(* Customers have a second constraint, on the phone: it rejects an insert  *)
(* just the same, and generating another code does not help.               *)
(*                                                                         *)
(* An insert stands for its commit: a colliding insert waits for the       *)
(* transaction that holds the number, and nobody else reads its row        *)
(* before.  Ids used by other tenants would only widen the gaps that       *)
(* failed inserts leave.                                                   *)
(***************************************************************************)
EXTENDS Integers, FiniteSets

CONSTANTS
  Workers,
  Dates,         \* years of loans, days of receipts
  Phones,        \* phone numbers of customers
  None,          \* no date, no phone
  MaxNoRetries,  \* attempts of a save(), 5 in the code
  MaxId,         \* bound of the auto-increment
  MaxRows,       \* bound of the table
  MaxFixes       \* bound of deletions and changes of old rows

ASSUME BoundAssumption ==
  /\ MaxNoRetries \in Nat \ {0} /\ MaxId \in Nat /\ MaxRows \in Nat /\ MaxFixes \in Nat
  /\ None \notin Dates \cup Phones

VARIABLES
  scheme,    \* which of the two save() methods; never changes
  rows,      \* rows of the table
  nextId,    \* its auto-increment
  req,       \* the save() each worker is in
  fixes      \* how many old rows were deleted or changed

vars == <<scheme, rows, nextId, req, fixes>>

Schemes == {"count", "last_id"}

\* The number of a row is `prefix' and `no' together; customers have no date,
\* and only customers have a phone.
Row == [id : Nat \ {0}, date : Dates \cup {None}, prefix : Dates \cup {None},
        no : Nat \ {0}, phone : Phones \cup {None}]

\* History: `crowd' and `recent' count the rows others have inserted since
\* save() began and since it last generated a number; `twin' says that another
\* customer got the phone since the form found it free.
Save == [pc : {"idle", "number", "insert"}, date : Dates \cup {None},
         phone : Phones \cup {None}, no : Nat,
         attempt : 0 .. MaxNoRetries - 1, crowd : Nat, recent : Nat, twin : BOOLEAN]

Fresh(pc, d, p) ==
  [pc |-> pc, date |-> d, phone |-> p, no |-> 0, attempt |-> 0,
   crowd |-> 0, recent |-> 0, twin |-> FALSE]

Idle == Fresh("idle", None, None)

PhonesInUse == IF scheme = "count" THEN {None} ELSE Phones

Buckets == IF scheme = "count" THEN Dates ELSE {None}

Of(d) == {r \in rows : r.date = d}

Taken(d, n) == \E r \in rows : r.prefix = d /\ r.no = n

PhoneTaken(p) == p # None /\ \E r \in rows : r.phone = p

\* Either unique constraint raises the same IntegrityError.
Rejected(s) == Taken(s.date, s.no) \/ PhoneTaken(s.phone)

Newest == {r \in rows : \A s \in rows : s.id =< r.id}

NextNumbersGlobal(d) == {Cardinality(rows) + 1}

NextNumbersCounted(d) == {Cardinality(Of(d)) + 1}

\* _next_no, _next_receipt_no and _next_code: one number in every state.
NextNumbers(d) ==
  IF scheme = "count" THEN {Cardinality(Of(d)) + 1}
  ELSE IF rows = {} THEN {1} ELSE {r.id + 1 : r \in Newest}

\* The form has looked the phone up.
Start(w, d, p) ==
  /\ req[w].pc = "idle"
  /\ ~PhoneTaken(p)
  /\ req' = [req EXCEPT ![w] = Fresh("number", d, p)]
  /\ UNCHANGED <<scheme, rows, nextId, fixes>>

Generate(w) ==
  /\ req[w].pc = "number"
  /\ \E n \in NextNumbers(req[w].date) :
       req' = [req EXCEPT ![w] = [@ EXCEPT !.pc = "insert", !.no = n, !.recent = 0]]
  /\ UNCHANGED <<scheme, rows, nextId, fixes>>

Noticed(s, p) ==
  IF s.pc = "idle" THEN s
  ELSE [s EXCEPT !.crowd = @ + 1, !.recent = @ + 1, !.twin = @ \/ s.phone = p]

NewRow(w) ==
  [id |-> nextId, date |-> req[w].date, prefix |-> req[w].date, no |-> req[w].no,
   phone |-> req[w].phone]

InsertSameId(w) ==
  /\ req[w].pc = "insert" /\ ~Rejected(req[w])
  /\ nextId =< MaxId /\ Cardinality(rows) < MaxRows
  /\ rows' = rows \cup {NewRow(w)}
  /\ req' = [v \in Workers |-> IF v = w THEN Idle ELSE Noticed(req[v], req[w].phone)]
  /\ UNCHANGED <<scheme, nextId, fixes>>

Insert(w) ==
  /\ req[w].pc = "insert" /\ ~Rejected(req[w])
  /\ nextId =< MaxId /\ Cardinality(rows) < MaxRows
  /\ rows' = rows \cup {NewRow(w)}
  /\ nextId' = nextId + 1
  /\ req' = [v \in Workers |-> IF v = w THEN Idle ELSE Noticed(req[v], req[w].phone)]
  /\ UNCHANGED <<scheme, fixes>>

CollideSameNumber(w) ==
  /\ req[w].pc = "insert" /\ Rejected(req[w])
  /\ req[w].attempt < MaxNoRetries - 1
  /\ nextId =< MaxId
  /\ nextId' = nextId + 1
  /\ req' = [req EXCEPT ![w].attempt = @ + 1]
  /\ UNCHANGED <<scheme, rows, fixes>>

\* A rejected insert has used up an id.
Collide(w) ==
  /\ req[w].pc = "insert" /\ Rejected(req[w])
  /\ req[w].attempt < MaxNoRetries - 1
  /\ nextId =< MaxId
  /\ nextId' = nextId + 1
  /\ req' = [req EXCEPT ![w] = [@ EXCEPT !.pc = "number", !.attempt = req[w].attempt + 1]]
  /\ UNCHANGED <<scheme, rows, fixes>>

GiveUp(w) ==
  /\ req[w].pc = "insert" /\ Rejected(req[w])
  /\ req[w].attempt = MaxNoRetries - 1
  /\ nextId =< MaxId
  /\ nextId' = nextId + 1
  /\ req' = [req EXCEPT ![w] = Idle]
  /\ UNCHANGED <<scheme, rows, fixes>>

\* The worker dies, or the transaction around save() rolls back.
Abandon(w) ==
  /\ req[w].pc # "idle"
  /\ req' = [req EXCEPT ![w] = Idle]
  /\ UNCHANGED <<scheme, rows, nextId, fixes>>

Fix ==
  /\ fixes < MaxFixes /\ fixes' = fixes + 1
  /\ UNCHANGED <<scheme, nextId>>

Delete(r) == Fix /\ rows' = rows \ {r} /\ UNCHANGED req

\* A customer who has a code is saved without any retry.
EditPhone(r, p) ==
  /\ Fix
  /\ scheme = "last_id" /\ ~PhoneTaken(p)
  /\ rows' = (rows \ {r}) \cup {[r EXCEPT !.phone = p]}
  /\ req' = [v \in Workers |-> [req[v] EXCEPT !.twin = @ \/ req[v].phone = p]]

\* start_date and paid_at can be edited; the number stays.
MoveDate(r, d) ==
  /\ Fix
  /\ scheme = "count" /\ d # r.date
  /\ rows' = (rows \ {r}) \cup {[r EXCEPT !.date = d]}
  /\ UNCHANGED req

\* receipt_no is a field of the repayment forms.
Retype(r, n) ==
  /\ Fix
  /\ scheme = "count" /\ ~Taken(r.prefix, n)
  /\ rows' = (rows \ {r}) \cup {[r EXCEPT !.no = n]}
  /\ UNCHANGED req

Init ==
  /\ scheme \in Schemes
  /\ rows = {} /\ nextId = 1 /\ fixes = 0
  /\ req = [w \in Workers |-> Idle]

SaveStep(w) ==
  \/ \E d \in Buckets, p \in PhonesInUse : Start(w, d, p)
  \/ Generate(w) \/ Insert(w) \/ Collide(w) \/ GiveUp(w) \/ Abandon(w)

FixStep(r) ==
  \/ Delete(r)
  \/ \E p \in Phones : EditPhone(r, p)
  \/ \E d \in Dates : MoveDate(r, d)
  \/ \E n \in 1 .. MaxRows + 1 : Retype(r, n)

Next == (\E w \in Workers : SaveStep(w)) \/ (\E r \in rows : FixStep(r))

Spec == Init /\ [][Next]_vars

----------------------------------------------------------------------------

\* Every variable has its type and every id was given out by the counter.
TypeOK ==
  /\ scheme \in Schemes /\ fixes \in Nat /\ nextId \in Nat \ {0}
  /\ rows \subseteq Row /\ IsFiniteSet(rows)
  /\ \A r \in rows : r.id < nextId
  /\ \A r, s \in rows : r.id = s.id => r = s
  /\ req \in [Workers -> Save]

\* As long as no old row is deleted or changed, the loans of a year and the
\* receipts of a day are numbered 1, 2, 3, ... without a gap, whatever number
\* of requests generate, collide and fail (Loan._next_no, _next_receipt_no).
GapFree ==
  scheme = "count" /\ fixes = 0 =>
    \A d \in Dates :
      {r.no : r \in {q \in rows : q.prefix = d}} = 1 .. Cardinality(Of(d))

\* A generated number is free until somebody inserts a row: a number is only
\* ever taken by a concurrent insert.  Holds of customer codes whatever is
\* deleted, of the counted numbers while nothing is.
CollisionsAreConcurrent ==
  scheme = "last_id" \/ fixes = 0 =>
    \A w \in Workers :
      req[w].pc = "insert" /\ Taken(req[w].date, req[w].no) => req[w].recent > 0

\* save() fails only when others inserted a row for each of its attempts, or
\* when another customer got the phone since the form looked it up: then one
\* insert uses up all the attempts (the retry loop of Loan, Repayment and
\* Customer, which repeats after any IntegrityError).
GivesUpOnlyInACrowd ==
  [][ \A w \in Workers :
        GiveUp(w) /\ (scheme = "last_id" \/ fixes = 0)
          => req[w].crowd >= MaxNoRetries \/ req[w].twin ]_vars
=============================================================================
