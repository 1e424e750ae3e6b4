# Verification of the gold-loan back office

This directory holds TLA+ models of the gold-loan SaaS in `src/`, the TLC
configurations that check them and proofs checked by TLAPS.  The program is a
Django application (three gunicorn workers, one Celery worker, Celery beat) over
one MySQL database at READ COMMITTED; no request locks a row, and a model's
`save()` writes every field of the instance it was read into.  Most of what can
go wrong is therefore in the gap between what a request has read and what it
writes.

## The system

| Part | State | Operations | Talks to |
| --- | --- | --- | --- |
| Loan book (`apps/loans`) | loan, gold item and repayment rows | book, repay (add, edit, delete, inline), pre-close, renew, top-up, edit, delete; auto-close signal | cash book (signals), LTV (gate), reminders (message) |
| Overdue classifier (`loans/tasks.py`) | its list of loans, a date | mark overdue, clear overdue, every night | loan rows; opens auctions |
| Interest (`loans/models.py`) | none | monthly interest, accrual, cycles, dues | loan book, auctions, reports |
| Auto-numbering (`loans`, `customers`) | numbers in the rows | next number, insert, retry on collision | loan book, customers |
| Cash book (`apps/cashbook`) | cash transactions, day closes | post on disbursement and repayment, manual entry, close a day, cash on hand | loan book, auctions, reports |
| Auctions (`apps/auctions`) | auction case per loan, notice log | detect, notice 1, notice 2, schedule, sale, settlement, cancel | loan rows, cash book, e-mail |
| Reminders (`apps/notifications`) | one row per loan, month, channel | monthly run, WhatsApp, e-mail | loan book, gateways |
| Rates and LTV (`apps/rates`, the loan form's script) | gold rates, item rows, a cache per process | latest rate, LTV cap, live figure of the form, live feed | loan book, every page |
| Signup and tenants (`apps/signup`, `apps/iam`) | pending signups, tenants, branches, users | request, verify, onboard; add, edit, suspend, delete | e-mail |
| Tenancy and permissions (`apps/core`) | thread-local tenant | scope queries, fill in the tenant, uniqueness in forms, role matrix | everything |
| Reports (`apps/reports`) | none | figures, portfolio, statements | loan book, cash book |
| Pages, configuration | none | read-only | everything |

What makes each part correct, and what is hard about it:

- **Loan book.** A pledge secures one running loan; no more is settled than is
  owed; a settled loan is closed and stays closed; a renewal carries the debt
  over and leaves a link.  Hard: requests that overlap on one loan, stale
  saves, decisions taken before the transaction commits, deletions.
- **Classifier.** Every delinquent loan is flagged, every cured one cleared.
  Hard: its list is a snapshot, its date is UTC, an error ends the night.
- **Numbering.** An insert finds a free number.  Hard: concurrent inserts,
  deletions.
- **Cash book.** Cash on hand is the sum of all movements.  Hard: rows that
  arrive after their day was closed, days nobody closes, edits of the source.
- **Auctions.** Two notices, fourteen days each, before a sale; the surplus is
  refunded once.  Hard: two settlements at once, a cancellation overwritten,
  e-mail before commit.
- **Reminders.** One message per loan and month, nobody left out.  Hard: a worker
  that dies between sending and saving, a second run, one loan that fails.
- **Rates.** The cap is the share of the gold's worth that the tenant allows, in
  Python and in the browser alike.  Hard: rounding, rates of any date and purity,
  sources that fail, a cache in every process.
- **Signup, tenancy.** One tenant per signup; no query outside the tenant.  Hard:
  double clicks, unique values held by open transactions, threads that serve one
  host after another, tenants renamed or deleted under a request.

`PROJECT.json` lists every hazard at its line with the properties that cover it.

## Modules

### Interest

The arithmetic of `Loan.monthly_interest`, `days_outstanding`, `months_charged`
and `interest_accrued`: paise as integers, a rate in thousandths of a percent, days
as integers, `Decimal.quantize` as `HalfEven`.  It has no state; LoanBook uses it,
and Pricing checks that the accrual and the cycles agree.

### LoanBook and LoanLifecycle

LoanBook is one tenant's loans and repayments.

| Model | Code |
| --- | --- |
| `loan[l]` | row of `Loan`: status, principal, start_date, renewed_to; `pledge` names the gold, that is the loan it was first booked on, since renewal copies the items |
| `rep[r]` | row of `Repayment`: loan, the three amounts, the UTC date of paid_at |
| `paid`, `settled` | the SUM queries over a loan's repayments |
| `req[w]` | the request web worker `w` serves: the instance it read (`seen`), how far it is |
| `scan` | the classifier: first or second pass, loans still to visit, its UTC date |
| `CheckRepayment`, `SaveRepayment`, `CommitRepayment` | form validation (`Repayment.clean`); insert and the auto-close decision inside the transaction; commit |
| `BookLoan` | the add form, which offers every status: a loan of the past may be entered as closed or auctioned |
| `OpenLoanForm`, `PostLoanForm`, `SaveLoanForm` | the change form: rendered with status, principal and start date as they are; posted some time later, the other columns read again, up to two new repayment rows all validated; then the instance and the rows written, with the auto-close |
| `Ask*`, `Preclose`, `CarryForward` | `loan_action` and the gates of the POST handler; the transaction that writes |
| `Abandon` | the transaction rolls back or the worker dies |
| `DeleteLoan`, `DeleteRepayment` | the admin's own pages |
| `ListActive`, `MarkOverdue`, `ListOverdue`, `ClearOverdue`, `EndScan` | `classify_one_tenant`, one loan at a time |

A request is split exactly where the code decides on something it has read and
where its write becomes visible.  A transaction reads committed rows and its own,
which is what READ COMMITTED gives.  The row locks that MySQL takes on a write
are modelled for the repayment row (`Unwritten`) and for deleting a loan that an
open transaction refers to (`Unreferenced`); for updates of a loan row they are
not, which only adds interleavings that end in the same rows.

`SameLoanOverlap` says whether two requests, or a request and the classifier, may
be at work on one loan.  TRUE is the program as deployed.  FALSE is the same code
under the operating assumption the repository's README states ("No row-level
locking on loan numbering — fine for low concurrency"): staff do not work on one
loan at the same moment; a form left open counts as work on its loan.  `AdminActs` names the uses of the admin's pages
that are exercised: `inline_rows` is a loan form that sends back the fields it showed with
new rows, `edit_loan` one on which fields are changed.
Properties are checked in the stronger setting (TRUE) where they hold there.

All loans have the same rate and the LTV cap is a constant (Pricing has the cap
itself).  `Tick` moves the calendar between requests, not during one; only a form that
has been opened and not yet posted may wait overnight.  Of the form's inline table only new
rows on an existing loan are modelled: rows changed there go through the same checks as on
their own form, and on the form of a new loan `Repayment.clean` returns before it compares
anything (`loans/models.py:347`), so that nothing bounds what is entered there.

**LoanLifecycle** is what a pawnbroker would say of the same business: gold is
pledged, one loan runs on it, money comes in, the loan is paid off, given up, or
taken over by another that carries at least the principal still owed; a loan of the past
may be entered.  It has no requests, instances or statuses, and each operation is one step.  `LoanBook`
instantiates it as `Lifecycle`: `holder` is the running loan of a pledge,
`received` the principal paid.  `FollowsLifecycle` says that every step of the
loan book is a step of it or none.  This holds while requests on one loan are kept
apart; with `SameLoanOverlap` it does not.

### CashBook and Reports

CashBook is one branch's cash: `CashTransaction` rows, day closes, and the loans
and repayments whose signals post rows.

| Model | Code |
| --- | --- |
| `txn[x]` | row of `CashTransaction`; a row posted by a signal has the id of its source, a manual row is an entry `e`; the kinds are folded to in, out and adjustment, which is how `in_amount`, `out_amount` tell them apart |
| `close[d]` | row of `DayClose`: opening, closing, counted amount |
| `form[c]` | the figures clerk `c` has computed and not yet saved (`day_close_form`) |
| `drawer` | the cash really in the shop; no code holds it, a clerk counts it |
| `BookLoan`, `Repay`, `CarryForward`, `Preclose` | a saved loan or repayment with the row its signal posts; none for a loan saved as closed or auctioned (`cashbook/signals.py:20`) |
| `Enter`, `EditRow`, `EditLoan`, `EditRepayment`, `Delete*` | the admin pages; deletions cascade along `source_loan` and `source_repayment` |
| `ComputeClose`, `SaveClose`, `RefuseClose` | the close form: figures read, then saved, or refused by the unique constraint on branch and date |
| `AdminClose`, `DeleteClose` | `DayCloseAdmin`, which computes and saves at once |
| `Position`, `OnHand` | `cash_position`, `total_cash_on_hand` |

`Habits` names what the pages allow and a careful shop avoids: rows for a closed
or another day (`late_rows`), a row while a close is being made (`busy_desk`), a
day with movements left unclosed (`skip_days`), corrections, renewals, closes
through the admin, a close computed before midnight and saved after it (`overnight`).
The history variable `strayed` records the habits this behaviour has fallen into, any
number of times, so that each property says which of them break it.  `MaxHabits`
and `MaxStrays` bound how many habits and how many such steps a behaviour has; the
proofs hold for any bounds.

**Reports** adds the figures page and the portfolio (`compute_kpis`,
`compute_networth`, `outstanding_portfolio`): sums over loans and repayments
beside those of the cash book, related by `BooksBalance`.  `ByHandNet` is what manual rows
of every kind come to, `NeverPosted` the principal of the loans the figures count and no
row was posted for.

### Auctions

The auction case of a loan (`apps/auctions`), with what it sees of the loan:
status, dues, whether interest was ever paid, maturity.

| Model | Code |
| --- | --- |
| `case[l]` | row of `Auction` (one-to-one with the loan), with the two notice days and the surplus |
| `log[l]` | rows of `AuctionNotice`, unique per number |
| `refunded[l]` | the surplus rows `post_settlement` writes into the cash book |
| `req[w]` | a request between its `can_...` test and its transaction, with the row it read |
| `todo` | the candidates `detect_eligible_loans` iterates over |
| `ListEligible`, `OpenCase` | detection, one case at a time |
| `Ask`, `SendNotice1`, ..., `Cancel` | the test; the transaction that writes the whole row back |
| `EditCase`, `DeleteCase`, `DeleteNotice` | the admin form's status and surplus; deletion of a case with its notices, or of a notice alone |
| `saving[l]`, `ReadLoan`, `SaveLoan`, `DropLoan` | a pre-close, renewal or automatic close, or the classifier: the loan is read, and its status saved later over whatever it has by then |
| `Repay`, `EditLoan` | a repayment; the loan's own form |

`crossed`, `byHand` and `retold` are history variables: the loans whose case two requests
worked on at once, those whose case or notices were changed in the admin pages, and those
that were given a status over AUCTIONED, or in their form.  Properties that overlap or the
admin can break exclude just these loans, so one run checks both what survives overlap
(`NoticePeriods`) and what does not.  Bounds: one save from an earlier read at a time per
loan, one edit in the forms (`MaxEdits`), and a case is not deleted under a running
request.  That detection opens a case for every eligible loan is not stated as a property:
with weak fairness of the detection it would follow from the model's shape alone.

### Numbering

`save()` of `Loan`, `Repayment` and `Customer`: `Generate` reads the next number,
`Insert` commits it, `Collide` is the IntegrityError that generates again,
`GiveUp` the last one.  For customers the phone is unique as well: an IntegrityError of
that constraint is retried like the other, and the new code does not help (`Rejected`).
`scheme` is "count" for loans (per year) and receipts (per
day) and "last_id" for customers; it never changes.  An insert stands for its
commit, because a colliding insert waits for the transaction that holds the
number.  `crowd`, `recent` and `twin` are history: rows others inserted since `save()`
began, and since its last number, and whether another customer got the phone since the
form looked it up.

### Pricing and RateFeed

Pricing is the worth of one pledge: the rates brokers key in (`rate`, per tenant,
purity and date), the rows of the loan form (`item`), `GoldRate.latest_for`,
`compute()` of `rates/ltv.py` (`EligiblePrincipal`) and the script of the loan form
(`FormCap`), which computes the same figure in floating point from the rates the
page was rendered with (`page`, set by `OpenForm` and left alone by rates keyed in and by
midnight) and from the rate in each row.  The script's exact quotient
is carried as a multiple of 22, so that both are integers.  `ExactCap` is the
reference: the same share with nothing rounded.

RateFeed extends it with the ticker shown on every page (`rates/live.py`): `cache`
per process, `up` the sources that answer, `Page` for a web request, `Refresh` for
the Celery task, `Tick` for minutes, `Night` for a day.  `settled` and `fed` are
clocks for the properties.  A fetch takes no time in the model, while three sources that
time out take up to 24 seconds: the minutes of the properties are counted from the answer.

### Reminders

`send_monthly_interest_reminders` row by row: `Start`, `NextTenant`, then for each
loan `PassOver`, `AlreadySent` or `TakeRow` (get_or_create), `Send` (the gateway
takes the message or fails), `SaveRow`, then the e-mail row.  Nothing runs in a
transaction, so every step is visible at once and a worker may die in between
(`Die`).  `ChangeLoan` and `DeleteLoan` are the world around it; `PutRow`, `MoveRow` and
`DeleteRow` the super-admin's pages, where a row is added, its status edited, its loan,
month or channel changed (within a tenant), or the row deleted.  A run writes back the
instance it holds: a row moved meanwhile is fetched back, a deleted one inserted again,
and a key taken meanwhile ends the run (`KeyIsTaken`).
`sent` counts the messages that really left; `tangled` names the rows two runs held
at once, a run ended with, or the super-admin touched; `steady` is what has not changed
since a run listed it.

### Signup and Tenancy

Signup: the form (`Submit`), the link (`OpenLink`), the onboarding transaction one
statement at a time (`Check`, `InsertTenant`, `InsertOwner`, `Mail`, `Commit`), a
crash anywhere in it, the onboard_tenant command, the super-admin's tenant pages, and
the pages of the owner's account (`EditOwner`, `DeleteOwner`), which free its username.
`kept` records which tenants' owners still have the account they signed up with.
`SlugHeld` and `NameHeld` are the unique keys of uncommitted rows, for which MySQL
makes another insert wait.

Tenancy extends it: the same worker threads serve admin pages as well, each with its
thread-local `scope`.  `ArriveAtTenant` and `ArriveAtSuper` are the middleware up to
its `try`, `LoadUser` and `LoadUserFails` the lookup between setting the tenant and
the `try`, `CheckForm` and `SaveRow` or `SaveFails` the two halves of an admin form.
`others` is history: rows saved by others since the form was checked.

`*Proofs` modules hold the TLAPS proofs, Arithmetic the lemmas about numbers they share,
`MC*` the instances for TLC.

## Runs

`CHECK_DEADLOCK` is FALSE everywhere because row ids, days and runs are used up in a
finite instance; the program itself would go on.

| Run | Shows |
| --- | --- |
| `apart` | requests on one loan kept apart: nothing is over-settled, settled loans are closed and stay so, pledges are not doubled, renewals leave the link, and the whole implements LoanLifecycle |
| `overlap` | as deployed: a repayment closes a loan only when it is settled at commit; renewed_to never dangles or leaves the pledge |
| `nightly` | as deployed: delinquent loans are flagged, cured ones cleared |
| `inline_rows` | **violated**: two inline rows over-settle, with nothing overlapping |
| `cash` | cash on hand is the sum of all rows, openings chain, honest days balance, figures and cash agree, no posted row outlives its source, each under just the habits that leave it true |
| `auctions` | two overlapping requests, stale saves of the loan's status, the admin pages: notice periods, settlement in one step, closed cases |
| `numbering` | no gaps, collisions only with concurrent inserts, giving up only in a crowd or after a race for one phone |
| `pricing` | the cap is the exact share but for the roundings, the loan form names the same for the rates of its page, however old, only the newest rate not after today counts, interest agrees with the cycles printed beside it |
| `ticker` | stand-in rates go within two or fifteen minutes of a source's return; a page waits for the network no sooner than two minutes after its process got rates |
| `reminders` | two runs, crashes, rows edited, moved and deleted: no borrower is messaged twice, rows tell what was sent, a run that finishes has left nobody out |
| `reminders_cut_short` | **violated**: the first borrower with an e-mail address ends the run for all after him |
| `platform` | signup and pages on two threads while tenants are renamed, suspended and deleted: a request gets one tenant and keeps it, a page sees its tenant's rows and no others, a checked form fails only in a race |

Bounds.

- *LoanBook*: amounts are chosen so that a month's interest is 10 on a principal of
  100 (a payment can leave exactly nothing, one paisa over, or half), and the
  calendar jumps 31 days, so that one jump makes a loan delinquent.  `apart` has three
  loans, and of the two top-ups offered one leads back to the first principal, so that
  the interest of the new loan can be paid and it be taken over again, and one exceeds
  the cap; `overlap` and `nightly` have two loans.  Two repayments and two workers
  suffice for every pairwise race.  `overlap` stays within one day and offers no top-up,
  since its loans are one or two months old when they are booked; loan forms bring rows
  there and change fields in `nightly`.
- *CashBook*: two loans (one may be the renewal of the other), one repayment, one
  manual entry, two clerks, and two days, so that a close has one before it.  Each
  behaviour has one of the seven habits (`MaxHabits`), taken up to twice (`MaxStrays`).
- *Auctions*: one loan (cases do not meet), two workers, steps of 13 and 15 days, one
  short of a notice period and one beyond it, dues below and above the price, one edit.
- *Numbering*: three attempts instead of five, four rows and six ids: enough for
  another worker to win every attempt; one old row is changed; two dates, two phones.
- *Pricing*: the pledge's tenant and another, purities 18 and 22, two rates keyed in
  for three dates, two items whose weight and rates divide unevenly, days up to 62
  in steps of 15 and 16, which reach days 30, 31 and 62: both sides of a cycle's end.
- *RateFeed*: one web and one Celery process (a cache sees nothing of other processes),
  steps of one and seven minutes, below and above the two-minute life of a stand-in.
- *Reminders*: `reminders` has two loans of one tenant, two runs of one month, two
  changes from outside, those of the super-admin included; `reminders_cut_short` one loan for each of two tenants.
- *Signup and Tenancy*: one signup request, two tenants, two threads, three forms of
  which any two share a subdomain, a name or an address, one value of a unique column.

Fairness.  `nightly` assumes weak fairness of the classifier's steps and of nothing
else.  Celery beat starts the classifier every night; the worker carries a run to its
end; when a run breaks on a deleted row the next night starts afresh.  No fairness of staff
requests is assumed.  The worker's date is UTC, so it may trail by a day: `Lags`.

## Where the code falls short

Two violation runs show disagreements with what the code says of itself.  Others
appear when a constant of a passing run is changed to what is deployed, when an
exception is taken out of a property, or were met while modelling.

Loan book
- `SameLoanOverlap = TRUE` in `apart`: a pre-close that saves the instance it
  read before a renewal committed erases `renewed_to` (`RenewalIsLinked`); the
  classifier writes OVERDUE to a loan closed since its list was read
  (`ClosedStaysClosed`); two repayments, each within the balance, settle more than is
  owed (`NoOverSettlement`); two that settle a loan together leave it open, each blind
  to the other's row (`SettledLoansAreClosed`).
- The loan form sends back a status and amounts, and any status may be picked: picked
  active on a renewed or closed loan, or saved as shown after a renewal or a pre-close, it
  makes the old loan run again (`edit_loan` in `apart`, with or without the overlap:
  `OneLoanPerPledge`, `ClosedStaysClosed`).
- Deleting the repayment that settled a loan leaves it closed with a debt, by design
  (`loans/signals.py:17`); nothing shows the debt again.
- After a deletion count + 1 is a number in use, every retry computes it again, and no
  loan or receipt of that date can be saved (drop `fixes = 0` from the properties of
  `numbering`).  Customer codes do not have this problem.
- `Customer.save` retries on any IntegrityError (`customers/models.py:95`): one customer
  entered meanwhile with the same phone uses up all five attempts.

Cash book and reports
- A row entered for a closed day is never in the balance (`late_rows`), nor is one
  posted between the figures and the save of a close (`busy_desk`).
- Rows of a day nobody closed leave the balance with the next close (`skip_days`):
  `cash_position` takes the last close plus the rows of its own day
  (`cashbook/services.py:55`), and `total_cash_on_hand`, a "true running cash balance"
  by its docstring, builds on that close.
- An edited loan or repayment keeps its old cash row (`corrections`).
- A loan entered as closed or auctioned posts no row (`cashbook/signals.py:20`) while
  the figures page counts its principal as disbursed and outstanding.
- A close form left over midnight overwrites or inserts the close of the day it was
  opened for (`overnight`), with figures of that evening.
- A renewal posts the whole carried principal as cash paid out (`renewals`): the drawer
  and the balance part (`HonestDayBalances`), cash on hand falls by it, and the
  outstanding principal of the figures page, which counts renewed loans and their
  successors, rises by as much.  The two errors cancel in `BooksBalance`; net worth,
  which counts running loans only, is too low by the renewed principal.
- A customer's statement reduces the balance by interest paid as well as principal.

Auctions
- No step looks at the loan (`auctions/actions.py:251`): a loan its borrower settled and
  that closed meanwhile is sold and marked auctioned, although `auctions/models.py:17`
  ends its description with "or CANCELLED if borrower settles".
- A pre-close (`loans/actions.py:83`), a renewal or the classifier (`loans/tasks.py:33`)
  that read the loan before a settlement saves its own status over AUCTIONED: the case is
  posted, its surplus refunded, and the loan closed or overdue.  `SettledTogether` sets
  such loans apart (`retold`).
- A logged notice can be deleted (`auctions/admin.py:78`): a case then goes to sale
  without one of its notices on record.
- A cancelled case still belongs to its loan, and detection skips loans that have one:
  such a loan is not auctioned again.  What a sale brings is not posted to the cash
  book, only the surplus paid out.
- The notice e-mail leaves before the transaction commits (`auctions/actions.py:74`).

Reminders
- `settings` is not imported (`notifications/tasks.py:147`): the run ends at the first
  borrower with an e-mail address (`reminders_cut_short`).  Were it imported, lines
  148-160 would run; as it is they never do.
- A row that is SENT ends a loan's turn, so e-mail is not tried again.  A row left
  PENDING or FAILED is sent again with the dues of the day it was made.  An address
  longer than the twenty characters of `to_phone` is refused by the database.
- A worker that dies between sending and saving sends again in the next run; so does the
  next run for a row the super-admin deleted or moved away.

Rates
- The loan form keeps the rate of a row when its purity is corrected, or when a new
  rate is keyed in (`loan_ltv_live.js:47`), while `compute()` does not look at that
  rate: `FormAgreesWithCap` excludes rows with another rate than the page's.  A page left
  open keeps the rates it was rendered with, while renewal and top-up are held to the
  day's: the property is about `compute()` on the page's rates.
- Celery's refresh does not keep the ticker of the web workers warm, as
  `config/celery.py:23` has it: the cache is local to a process.  With every source down
  and nothing keyed in, nothing is cached and each page waits for three timeouts.
- `_fetch_from_db` looks at the newest tenant only; its docstring says "from any tenant".

Signup and tenancy
- The e-mail address of an owner is not unique in the database: two onboardings that
  overlap share one.  The welcome with the password leaves inside the transaction: a
  crash between mail and commit leaves credentials of a tenant that does not exist.
- What keeps a request from a second shop is the owner's username.  Once that account is
  renamed or deleted, a click that was still pending makes another (`kept`).
- A verified link whose tenant was deleted is an AttributeError.  `trial_ends_at` is
  enforced nowhere.
- When loading the user fails, the middleware's `finally` is not reached
  (`core/middleware.py:48`): the next page of that thread on the bare host shows one
  tenant's rows only, where `core/models.py:8` says the super-admin sees all.  A
  tenant's own pages are safe (`OwnScope`): they set the tenant afresh.

## Proofs

Every safety invariant and every action property of the passing runs is a theorem,
and so is the refinement of LoanLifecycle.  Each holds for every value of the
constants that the modules' ASSUMEs and the conditions below allow.

| Theorem | Statement |
| --- | --- |
| `LoanBookProofs!TypeCorrect` | `Spec => []TypeOK` |
| `LinksIntact`, `AutoClosesAreJustified` | `[]RenewalLinksIntact`, `AutoCloseJustified`, with requests that overlap freely; the second when no correction takes back an amount already counted |
| `PledgeSafety`, `ClosedForGood` | `[]OneLoanPerPledge`, `ClosedStaysClosed`, with requests on one loan kept apart and no loan changed in its form (inline rows may be used) |
| `RenewalsAreLinked` | `[]RenewalIsLinked`, under the same conditions and with no loan deleted |
| `NothingOverSettled`, `NoneSettledRuns` | `[]NoOverSettlement`, `[]SettledLoansAreClosed`, with requests on one loan kept apart and without the loan form, which writes amounts nobody checked together (`Unchecked`: inline rows, the principal field); deletions and corrections of repayments included |
| `ImplementsLifecycle` | `Spec => FollowsLifecycle`, under those conditions and with no loan deleted |
| `CashBookProofs!TypeCorrect`, `OrphanFree`, `OpeningsChained`, `OnHandCarried`, `HonestDaysBalance`, `BooksAlwaysBalance` | the six properties of `cash`, with every habit in use: each property says which habits it stands |
| `AuctionsProofs!TypeCorrect`, `NoticesBeforeSale`, `SettledInOneStep`, `ClosedForGood` | the four properties of `auctions`, overlapping requests and stale saves included |
| `NumberingProofs!TypeCorrect`, `Gapless`, `CollisionsNeedInserts`, `GivingUpNeedsCrowd` | the four properties of `numbering` |
| `PricingProofs!CapStaysExact`, `FormAndCapAgree`, `AccrualAgreesWithCycles`, `OvertakenRatesDoNotCount` | the four properties of `pricing` |
| `PricingProofs!OutagesHeal`, `WaitsAreRare` | the two properties of `ticker` |
| `RemindersProofs!OneMessage`, `TruthfulRows`, `CompleteRuns` | the three properties of `reminders` |
| `TenancyProofs!TypeCorrect`, `OneShop`, `VerifiedShop`, `OwnScopeAlways`, `OnlyRacesAlways` | the five properties of `platform` |

Beyond the ranges of the constants, the ASSUMEs say that `None` is none of the values it
stands in for, that sources of cash rows have ids of their own, and that a pledge has
finitely many items and rates finitely many dates.

### The loan book

*PledgeSafety, ClosedForGood.* `OneLoanPerPledge` is not inductive: a pre-close or
renewal writes back the instance it read.  `ApartInv` adds what the separation gives:
what a request holds still agrees with the row and is live for the actions that
closed loans are refused (`FreshRead`), no two requests hold one loan
(`OneRequestPerLoan`), the loans on the classifier's list are running and held by
nobody (`FreshList`), and an unused id is nobody's pledge (`FreshPledge`).  Each
action is discharged with one of three frame lemmas: a new request, a step that
leaves the rows alone, a step that writes one row.

*LinksIntact.* With overlap an instance may be stale in every field, so `LinkInv` asks
of each instance what it asks of the rows: its link, if any, leads to another loan
that was booked on the same pledge.  Deletion clears the link of the rows, which is
why only the links of rows lead to loans not deleted (`LinkTargets`): an instance
written back after such a deletion is refused by the foreign key.

*AutoClosesAreJustified.* The decision to close falls on what the transaction sees, and
`SoundRequests` says it stays right until the commit: principal and start of the
instance are the loan's whatever else overlaps, and the amount settled only grows.  A
loan form opened long before sends back a principal and a start date that have not changed.

*RenewalsAreLinked.* `Linked`: only closed loans have a link, in rows and instances,
so the save that closes a loan overwrites no link.

*NothingOverSettled, NoneSettledRuns.* A form is checked in one step and its row written
in another, and the loan is closed in a third.  `MoneyInv` states both for each loan (`LoanMoney`), that a receipt belongs to one request
(`HeldReceipts`), and that what a request was checked against or decided on still
holds when it commits (`SoundDecisions`).  That interest does not shrink from day to
day, so that a balance settled yesterday is not over-settled today, is the lemma
`InterestGrows`.

*ImplementsLifecycle.* The mapping takes the loans in use, the running loan of each
pledge (`Holder`, a CHOOSE that `OneLoanPerPledge` makes unique), the principal lent
and received.  A request's first steps change none of these; its commit is one step of
the lifecycle, and `SoundDecisions` gives its guard: a repayment within the balance,
a loan taken over by one that carries at least what is owed.

### Cash book and reports

*OrphanFree.* Rows are posted with their source and a source never changes its loan;
what has to be followed is that the cascade of a loan takes its repayments' rows.

*OpeningsChained.* A form holds an opening it computed earlier, and the code finds
the last close with an order by date, here the Max of a set.  `Chained` says of forms
and closes alike that their opening follows the last close before their day, and
that before any day there is a last close if there is one at all.  Saving today's
close disturbs neither, since nothing dated before today changes.

*OnHandCarried.* `Carried` says where the rows of a careful shop are: none dated ahead,
those of earlier days closed; each close has the sum of all rows up to its day, each
form in progress the sum of all there are.  Nothing about the latest close is stored:
that `cash_position` picks the right one follows from the sums.

*HonestDaysBalance.* `HonestInv`: while nothing but recorded movements has happened the
drawer is the sum of the rows; the close counts the one and computes the other, which
`CarriedInv` makes equal.

*BooksAlwaysBalance.* `BooksInv`: each movement shifts cash, principal out and interest
by the same.  A renewal posts the carried principal as paid out and leaves the old
loan's principal outstanding: one lemma shows that the two errors are the same number.

### Auctions

*NoticesBeforeSale.* A request can write back any row that the case once was.  The
invariant says of every such row, the current one and the ones requests hold, that
its notices are the logged ones and its periods over; it is kept because the unique
constraint lets a notice into the log once, and the calendar only moves forward.

*SettledInOneStep, ClosedForGood.* `SettleInv`: a request on a case that was never
crossed is alone on it and holds the row as it is, so a settlement is the first; a
case is opened only for a loan that was not auctioned.

### Numbering

`TableInv`: the counted numbers of a date are an initial segment, a customer code is at
most the id of its row.  `SaveInv`: a generated number is free until a row is inserted,
is at most one ahead, and the crowd has grown with every failed attempt.

### Pricing and the ticker

*CapStaysExact, FormAndCapAgree.* The cap and the exact share are sums over the items of
the pledge.  Two terms differ by less than a fixed amount each time one of them is
rounded, and these errors add up over a sum of any length; the last rounding comes on
top.  *AccrualAgreesWithCycles* is the arithmetic of `AccruedWithinCycles`: flat until
day 30, then pro rata with one half-even rounding.  *OvertakenRatesDoNotCount* compares
the Max of two sets of dates, before and after a rate is keyed in.

*OutagesHeal, WaitsAreRare.* `FeedInv`: a stand-in cached by a process has no more life
left than its betters have to wait (`StandInsExpire`), and what was got and what is left
of it are at least the shorter lifetime (`FedLately`).

### Reminders

`RemindersInv` says of each row that is not tangled that one run at most holds it,
that what this run has heard from the gateway is what was sent, and that between two
holders the row says it (`Untangled`); and of each run that whoever it listed is on its
list still, having a turn, or done, unless something changed (`OnCourse`); wherever the super-admin puts rows, no two runs
hold the same one untangled.

### Signup and tenancy

`SignupInv`: a process holds a tenant id and an owner's name that nobody else has once
it has inserted them (`SoundJob`, `JobsApart`), and a tenant belongs to who asked for it
(`SoundOwner`).  A slug may be renamed while a link is open, so it is the owner's name
and not the slug that keeps a request from a second shop (`OwnersUnique`).  `PageInv`:
while a page is served its thread-local is its tenant's, and a checked form's key is
taken only by a row saved since.

### Arithmetic

Half-even rounding, the growth of interest, the greatest member of a set, and sums
over finite sets.  The community modules define sums by recursion, and the library's
induction theorems cannot be instantiated with a property; the lemmas here do the
induction in first-order form: among the subsets of a finite set that violate a claim
there is a smallest (`SmallestSubset`, from the well-foundedness of inclusion), and
taking one member out of it gives a smaller one.  The laws of sums (`SumType`,
`SumWith`, `SumWithout`, `SumUnion`) and `MaxOf` rest on it.

### Only model-checked

`DelinquentIsFlagged` and `CuredIsCleared`: liveness under fairness is
out of the prover's reach.  The two violation runs are counterexamples, not theorems.

The conditions of the theorems are not for the prover's sake: with the overlap or the
admin act that one excludes switched on, TLC finds its property violated (the deletion of
a loan leaves a successor that no link leads to, and is no step of a lifecycle; the form's
principal field makes repayments exceed what was lent).  The one exception is inline rows
in `NoneSettledRuns`: no counterexample was found, and the proof does not do without.

## Not modelled

- Rendering, PDFs, statements, exports, filters, branding: no state.
- Editing a loan's rate or gold items, moving a repayment to another loan, repayment rows
  entered with a new loan or changed in the loan form, several rates side by side.
- Capital balances, payment modes and the sum over branches of the cash book; the
  date of a saved close.
- What e-mails and messages say; the mail of an auction notice; the role matrix
  and the choice of language; branches beyond the first, owners moved to another tenant
  and other users (a page's user may belong to any tenant), plans.
- The other fields of an auction case (amounts, dates) in its form; a case deleted while
  a request works on it.
- The parsing of the rate sources and the text of the ticker.
- Row locks of updates.  They only remove interleavings whose rows another
  interleaving also produces.

## Plan

1. The role matrix as an operator, and users moved between tenants.
2. LoanBook composed with CashBook: every movement of money has its row.
3. Proofs: `SettledLoansAreClosed` with inline rows in use; `NoOverSettlement` of loans
   nobody overlapped on, in the manner of `crossed` in Auctions, so that it no longer
   needs requests kept apart everywhere.
