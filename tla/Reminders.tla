------------------------------ MODULE Reminders ------------------------------
(***************************************************************************)
(* The monthly interest reminders (apps/notifications/tasks.py): a Celery  *)
(* task goes through the tenants and their active loans, keeps one row per *)
(* loan, month and channel, and hands a message to WhatsApp, then one to   *)
(* the mail server.  Nothing runs in a transaction: each row is committed  *)
(* as it is written.  Celery beat starts a run on the first of the month,  *)
(* an operator may start another by hand for any month, and a worker that  *)
(* dies takes its run along (a task is acknowledged when it starts).       *)
(* Meanwhile the super-admin may add, edit, move and delete the rows.      *)
(***************************************************************************)
EXTENDS Naturals, FiniteSets

CONSTANTS
  Loans,        \* primary keys of loan rows
  Tenants,
  TenantOf,     \* the tenant of each loan
  Workers,      \* processes of the Celery worker
  None,         \* no loan, no run
  Months,       \* values of period_month
  Contacts,     \* what a customer has: a phone, an address
  MaxOwed,      \* bound: interest due, in any unit
  MaxRuns,      \* bound: runs ever started
  MaxChanges,   \* bound: changes of loans and rows from outside
  ByHand        \* the statuses the super-admin writes into rows

ASSUME PartyAssumption ==
  /\ TenantOf \in [Loans -> Tenants]
  /\ None \notin Loans
  /\ Contacts \subseteq [phone : BOOLEAN, email : BOOLEAN]

Status == {"pending", "sent", "failed", "skipped"}

ASSUME BoundAssumption ==
  MaxRuns \in Nat /\ MaxChanges \in Nat /\ MaxOwed \in Nat /\ ByHand \subseteq Status

VARIABLES
  contact,    \* of the customer of each loan
  status,     \* of each loan
  owed,       \* interest due on each loan
  row,        \* the reminder rows: the status under each key, or "none"
  run,        \* per worker: the run it is at
  started,    \* number of runs so far
  changes,    \* number of changes from outside so far
  sent,       \* history: messages WhatsApp took, per month and loan
  tangled     \* history: <<month, loan>> whose WhatsApp row two runs held at
              \* once, or a run that ended held, or the super-admin touched

vars == <<contact, status, owed, row, run, started, changes, sent, tangled>>

\* uniq_reminder_per_loan_month_channel; SMS and LOG are written by nobody.
Channels == {"whatsapp", "email"}
Key == Months \X Loans \X Channels
Wa(m, l) == <<m, l, "whatsapp">>
Mail(m, l) == <<m, l, "email">>

Run == [month : Months,
        tenants : SUBSET Tenants,         \* still to come
        loans : SUBSET Loans,             \* of the current tenant, still to come
        at : Loans \cup {None},           \* the loan whose turn it is
        stage : {"list", "send", "save", "email"},
        result : {"sent", "failed"},      \* status on the instance it holds
        place : Key \cup {None},          \* where the row of that instance stands now
        steady : SUBSET Loans]            \* history: unchanged since they were listed

ASSUME NoneAssumption == None \notin Run /\ None \notin Key

-----------------------------------------------------------------------------
(* The world around the task *)

Change == changes < MaxChanges /\ changes' = changes + 1

Disturbed(l) ==
  [w \in Workers |-> IF run[w] = None THEN None ELSE [run[w] EXCEPT !.steady = @ \ {l}]]

\* Interest accrues or is paid; the classifier marks the loan or clears it.
ChangeLoan(l, s, n) ==
  /\ Change /\ status[l] # "deleted" /\ <<s, n>> # <<status[l], owed[l]>>
  /\ status' = [status EXCEPT ![l] = s]
  /\ owed' = [owed EXCEPT ![l] = n]
  /\ run' = Disturbed(l)
  /\ UNCHANGED <<contact, row, started, sent, tangled>>

\* Runs that hold the row under key k find it elsewhere, or gone.
Moved(k, to) ==
  [w \in Workers |->
     IF run[w] # None /\ run[w].place = k THEN [run[w] EXCEPT !.place = to] ELSE run[w]]

\* The row a run holds may go as well: its loan is another since it was moved.
Bereft(l) ==
  [w \in Workers |->
     IF run[w] = None THEN None
     ELSE [run[w] EXCEPT !.steady = @ \ {l},
                         !.place = IF @ # None /\ @[2] = l THEN None ELSE @]]

\* Deleting a loan takes its reminder rows along.
DeleteLoan(l) ==
  /\ Change /\ status[l] # "deleted"
  /\ status' = [status EXCEPT ![l] = "deleted"]
  /\ row' = [k \in Key |-> IF k[2] = l THEN "none" ELSE row[k]]
  /\ run' = Bereft(l)
  /\ UNCHANGED <<contact, owed, started, sent, tangled>>

\* What a run decides from: the WhatsApp rows among the keys.
Touched(keys) == {<<k[1], k[2]>> : k \in {x \in keys : x[3] = "whatsapp"}}

\* InterestReminderAdmin: a row is added, or its status edited (sent_at and error
\* are read-only, the status is not).
PutRow(k, s) ==
  /\ Change /\ status[k[2]] # "deleted" /\ row[k] # s
  /\ row' = [row EXCEPT ![k] = s]
  /\ tangled' = tangled \cup Touched({k})
  /\ UNCHANGED <<contact, status, owed, run, started, sent>>

\* Its month, its channel or its loan is edited, to a key no other row has.
MoveRow(k, to) ==
  /\ Change /\ row[k] # "none" /\ row[to] = "none"
  /\ status[to[2]] # "deleted" /\ TenantOf[to[2]] = TenantOf[k[2]]
  /\ row' = [row EXCEPT ![k] = "none", ![to] = row[k]]
  /\ run' = Moved(k, to)
  /\ tangled' = tangled \cup Touched({k, to})
  /\ UNCHANGED <<contact, status, owed, started, sent>>

DeleteRow(k) ==
  /\ Change /\ row[k] # "none"
  /\ row' = [row EXCEPT ![k] = "none"]
  /\ run' = Moved(k, None)
  /\ tangled' = tangled \cup Touched({k})
  /\ UNCHANGED <<contact, status, owed, started, sent>>

-----------------------------------------------------------------------------
(* A run.  The tenants are listed once, the loans of each when its turn comes. *)

Start(w, m) ==
  /\ run[w] = None /\ started < MaxRuns
  /\ run' = [run EXCEPT ![w] =
       [month |-> m, tenants |-> Tenants, loans |-> {}, at |-> None, stage |-> "list",
        result |-> "failed", place |-> None, steady |-> {}]]
  /\ started' = started + 1
  /\ UNCHANGED <<contact, status, owed, row, changes, sent, tangled>>

At(w, stage) == run[w] # None /\ run[w].stage = stage

\* Loan.objects is scoped by the tenant just set, and only active loans are listed.
NextTenant(w, t) ==
  /\ At(w, "list") /\ run[w].loans = {} /\ t \in run[w].tenants
  /\ LET listed == {l \in Loans : TenantOf[l] = t /\ status[l] = "active"}
     IN  run' = [run EXCEPT ![w].tenants = @ \ {t}, ![w].loans = listed,
                            ![w].steady = @ \cup listed]
  /\ UNCHANGED <<contact, status, owed, row, started, changes, sent, tangled>>

\* interest_due_now sums afresh: of a loan that is gone all that accrued is due.
Due(l) == IF status[l] = "deleted" THEN MaxOwed ELSE owed[l]

Turn(w, l) == At(w, "list") /\ l \in run[w].loans

\* Mutant: the first customer without a phone ends the turn of the tenant.
BreakOff(w, l) ==
  /\ Turn(w, l)
  /\ ~contact[l].phone \/ Due(l) = 0
  /\ run' = [run EXCEPT ![w].loans = {}]
  /\ UNCHANGED <<contact, status, owed, row, started, changes, sent, tangled>>

\* No phone, or nothing due: `continue'.
PassOver(w, l) ==
  /\ Turn(w, l)
  /\ ~contact[l].phone \/ Due(l) = 0
  /\ run' = [run EXCEPT ![w].loans = @ \ {l}]
  /\ UNCHANGED <<contact, status, owed, row, started, changes, sent, tangled>>

ToRemind(w, l) == Turn(w, l) /\ contact[l].phone /\ Due(l) > 0

\* A WhatsApp row marked SENT ends the turn of the loan, e-mail included.
AlreadySent(w, l) ==
  /\ ToRemind(w, l)
  /\ status[l] # "deleted" /\ row[Wa(run[w].month, l)] = "sent"
  /\ run' = [run EXCEPT ![w].loans = @ \ {l}]
  /\ UNCHANGED <<contact, status, owed, row, started, changes, sent, tangled>>

\* Another run holds this row, taken and not yet saved.
HeldByOther(w, m, l) ==
  \E v \in Workers \ {w} : run[v] # None /\ run[v].month = m /\ run[v].at = l

\* Mutant: SENT rows are not looked for.
TakeAnyRow(w, l) ==
  /\ ToRemind(w, l)
  /\ LET m == run[w].month
     IN  /\ status[l] # "deleted"
         /\ row' = IF row[Wa(m, l)] = "none" THEN [row EXCEPT ![Wa(m, l)] = "pending"] ELSE row
         /\ run' = [run EXCEPT ![w].loans = @ \ {l}, ![w].at = l, ![w].stage = "send",
                               ![w].place = Wa(m, l)]
         /\ tangled' = IF HeldByOther(w, m, l) THEN tangled \cup {<<m, l>>} ELSE tangled
  /\ UNCHANGED <<contact, status, owed, started, changes, sent>>

\* get_or_create finds a row that is not SENT, or makes one.
TakeRow(w, l) ==
  /\ ToRemind(w, l)
  /\ LET m == run[w].month
     IN  /\ status[l] # "deleted" /\ row[Wa(m, l)] # "sent"
         /\ row' = IF row[Wa(m, l)] = "none" THEN [row EXCEPT ![Wa(m, l)] = "pending"] ELSE row
         /\ run' = [run EXCEPT ![w].loans = @ \ {l}, ![w].at = l, ![w].stage = "send",
                               ![w].place = Wa(m, l)]
         /\ tangled' = IF HeldByOther(w, m, l) THEN tangled \cup {<<m, l>>} ELSE tangled
  /\ UNCHANGED <<contact, status, owed, started, changes, sent>>

\* The gateway takes the message of the row, or raises.
Send(w, result) ==
  /\ At(w, "send")
  /\ run' = [run EXCEPT ![w].stage = "save", ![w].result = result]
  /\ sent' = IF result = "sent" THEN [sent EXCEPT ![run[w].month][run[w].at] = @ + 1] ELSE sent
  /\ UNCHANGED <<contact, status, owed, row, started, changes, tangled>>

\* Where the turn goes after the WhatsApp row is saved.
AfterSave(w) ==
  IF contact[run[w].at].email
  THEN [run[w] EXCEPT !.stage = "email", !.place = None]
  ELSE [run[w] EXCEPT !.stage = "list", !.place = None, !.at = None]

\* The instance is written whole: a row that was moved meanwhile is fetched back,
\* one that was deleted is inserted again.
Written(w, s) ==
  LET key == Wa(run[w].month, run[w].at)
  IN  [k \in Key |-> IF k = key THEN s ELSE IF k = run[w].place THEN "none" ELSE row[k]]

\* Another row has taken the key meanwhile.
KeyTaken(w) ==
  LET key == Wa(run[w].month, run[w].at)
  IN  run[w].place # key /\ row[key] # "none"

\* Mutant: the status is set before the gateway has answered.
SaveAsSent(w) ==
  /\ At(w, "save") /\ status[run[w].at] # "deleted" /\ ~KeyTaken(w)
  /\ row' = Written(w, "sent")
  /\ run' = [run EXCEPT ![w] = AfterSave(w)]
  /\ UNCHANGED <<contact, status, owed, started, changes, sent, tangled>>

SaveRow(w) ==
  /\ At(w, "save") /\ status[run[w].at] # "deleted" /\ ~KeyTaken(w)
  /\ row' = Written(w, run[w].result)
  /\ run' = [run EXCEPT ![w] = AfterSave(w)]
  /\ UNCHANGED <<contact, status, owed, started, changes, sent, tangled>>

\* An exception nobody catches, or the death of the worker, ends the run; the
\* `finally' clears the tenant.
EndsHere(w) ==
  /\ run' = [run EXCEPT ![w] = None]
  /\ tangled' = IF run[w].stage \in {"send", "save"}
                THEN tangled \cup {<<run[w].month, run[w].at>>} ELSE tangled

\* The loan has been deleted: the row cannot be inserted without it.
LoanIsGone(w) ==
  /\ \/ \E l \in Loans : ToRemind(w, l) /\ status[l] = "deleted"
     \/ (At(w, "save") \/ At(w, "email")) /\ status[run[w].at] = "deleted"
  /\ EndsHere(w)
  /\ UNCHANGED <<contact, status, owed, row, started, changes, sent>>

\* The unique constraint refuses the row of the instance.
KeyIsTaken(w) ==
  /\ At(w, "save") /\ status[run[w].at] # "deleted" /\ KeyTaken(w)
  /\ EndsHere(w)
  /\ UNCHANGED <<contact, status, owed, row, started, changes, sent>>

\* An e-mail row is made (unless the address is longer than to_phone holds) or
\* found, and then `settings', which the module does not import, is a NameError.
RaiseNameError(w, fits) ==
  /\ At(w, "email")
  /\ LET m == run[w].month
         l == run[w].at
     IN  /\ status[l] # "deleted" /\ row[Mail(m, l)] # "sent"
         /\ row' = IF row[Mail(m, l)] = "none" /\ fits
                   THEN [row EXCEPT ![Mail(m, l)] = "pending"] ELSE row
  /\ EndsHere(w)
  /\ UNCHANGED <<contact, status, owed, started, changes, sent>>

\* Somebody marked the e-mail row SENT: nothing to do.
SkipEmail(w) ==
  /\ At(w, "email")
  /\ status[run[w].at] # "deleted" /\ row[Mail(run[w].month, run[w].at)] = "sent"
  /\ run' = [run EXCEPT ![w].stage = "list", ![w].at = None]
  /\ UNCHANGED <<contact, status, owed, row, started, changes, sent, tangled>>

Finished(w) == At(w, "list") /\ run[w].loans = {} /\ run[w].tenants = {}

Finish(w) ==
  /\ Finished(w)
  /\ run' = [run EXCEPT ![w] = None]
  /\ UNCHANGED <<contact, status, owed, row, started, changes, sent, tangled>>

Die(w) ==
  /\ run[w] # None
  /\ EndsHere(w)
  /\ UNCHANGED <<contact, status, owed, row, started, changes, sent>>
-----------------------------------------------------------------------------
Init ==
  /\ contact \in [Loans -> Contacts]
  /\ status = [l \in Loans |-> "active"]
  /\ owed \in [Loans -> 0..MaxOwed]
  /\ row = [k \in Key |-> "none"]
  /\ run = [w \in Workers |-> None]
  /\ started = 0
  /\ changes = 0
  /\ sent = [m \in Months |-> [l \in Loans |-> 0]]
  /\ tangled = {}

RunStep(w) ==
  \/ \E m \in Months : Start(w, m)
  \/ \E t \in Tenants : NextTenant(w, t)
  \/ \E l \in Loans : PassOver(w, l) \/ AlreadySent(w, l) \/ TakeRow(w, l)
  \/ \E result \in {"sent", "failed"} : Send(w, result)
  \/ SaveRow(w)
  \/ LoanIsGone(w) \/ KeyIsTaken(w)
  \/ \E fits \in BOOLEAN : RaiseNameError(w, fits)
  \/ SkipEmail(w)
  \/ Finish(w)
  \/ Die(w)

WorldStep ==
  \/ \E l \in Loans, s \in {"active", "overdue"}, n \in 0..MaxOwed : ChangeLoan(l, s, n)
  \/ \E l \in Loans : DeleteLoan(l)
  \/ \E k \in Key : \/ \E s \in ByHand : PutRow(k, s)
                    \/ \E to \in Key : MoveRow(k, to)
                    \/ DeleteRow(k)

Next == (\E w \in Workers : RunStep(w)) \/ WorldStep

Spec == Init /\ [][Next]_vars
-----------------------------------------------------------------------------
(* Properties *)

\* "Idempotent per loan+month+channel": however often a month is run, and
\* whatever the gateway answers, a borrower is not messaged twice, unless two
\* runs had hold of the row at once, one ended before it could save it, or the
\* super-admin touched the row.
OneMessageAMonth ==
  \A m \in Months, l \in Loans : sent[m][l] > 1 => <<m, l>> \in tangled

\* A row that says SENT has been sent, and one that says FAILED or is missing
\* has not (the rows of a deleted loan go with it).
RowsTellTheTruth ==
  \A m \in Months, l \in Loans :
    (<<m, l>> \notin tangled /\ status[l] # "deleted" /\ \A w \in Workers : run[w] = None)
      => (row[Wa(m, l)] = "sent" <=> sent[m][l] > 0)

Reminded(m, l) == row[Wa(m, l)] \in {"sent", "failed"} \/ <<m, l>> \in tangled

\* A run that comes to its end has tried to remind every borrower who was listed
\* with dues and a phone, whatever happened to the other loans on its list.
FinishedRunsAreComplete ==
  [][\A w \in Workers :
       Finished(w) /\ run'[w] = None =>
         \A l \in run[w].steady :
           contact[l].phone /\ owed[l] > 0 => Reminded(run[w].month, l)]_vars

\* "For each active tenant, iterate active loans ... and dispatch": a run that
\* finishes, or ends in the step that makes a row, has left nobody out.
NobodyIsLeftOut ==
  [][\A w \in Workers :
       run[w] # None /\ run'[w] = None /\ (Finished(w) \/ row' # row) =>
         \A l \in Loans :
           contact[l].phone /\ owed[l] > 0 /\ status[l] = "active"
             => Reminded(run[w].month, l)]_vars
=============================================================================
