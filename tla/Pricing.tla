------------------------------ MODULE Pricing ------------------------------
(***************************************************************************)
(* What a pledge is worth: the brokers' gold rates (apps/rates/models.py), *)
(* the loan-to-value cap (apps/rates/ltv.py) that renewal and top-up are   *)
(* held to, and the live figure of the loan form (loans/admin.py and       *)
(* static/admin/loans/loan_ltv_live.js), which works with the rates the    *)
(* page brought along and with the rate in each row.  These are the rates  *)
(* of the moment the page was rendered: a rate keyed in, or midnight,      *)
(* moves the cap of compute() and leaves the open page as it is.           *)
(*                                                                         *)
(* A rate is paise per gram, a weight milligrams, a purity carats, the cap *)
(* a percentage.                                                           *)
(***************************************************************************)
EXTENDS Interest, FiniteSets, FiniteSetsExt

CONSTANTS
  Tenants, Home,    \* Home is the tenant whose pledge is watched
  Purities,         \* purities rates are entered for
  RateValues,       \* amounts keyed in as a rate
  Items,            \* rows of gold items of the pledge
  Weights,          \* net weights
  MaxLtvPct,        \* Tenant.max_ltv_pct
  RateDays,         \* dates rates are entered for
  DaySteps, LastDay,    \* the calendar moves by a step, up to LastDay
  MaxEntries        \* bound: rates keyed in

Carat22 == 22

ASSUME PricingAssumption ==
  /\ Home \in Tenants
  /\ Purities \subseteq Nat \ {0} /\ Carat22 \in Purities
  /\ RateValues \subseteq Nat \ {0} /\ Weights \subseteq Nat \ {0}
  /\ MaxLtvPct \in Nat
  /\ RateDays \subseteq Nat /\ IsFiniteSet(RateDays) /\ IsFiniteSet(Items)
  /\ DaySteps \subseteq Nat \ {0} /\ LastDay \in Nat /\ MaxEntries \in Nat

VARIABLES
  today,
  rate,      \* GoldRate rows: per tenant, purity and date an amount, 0 for no row
  item,      \* gold items, with the rate stored in the row (0: none)
  page,      \* the rates the open loan form was rendered with, 0 for none
  entries    \* number of rates keyed in so far

pricingVars == <<today, rate, item, page, entries>>

Item == [net : Nat, purity : Purities, rate : Nat]
NoItem == [net |-> 0, purity |-> Carat22, rate |-> 0]

-----------------------------------------------------------------------------
(* Rates and the cap *)

\* Mutant: the newest row, whatever its date.
EnteredDates(t, p, day) == {d \in RateDays : rate[t][p][d] # 0}

DatesUpTo(t, p, day) == {d \in RateDays : d <= day /\ rate[t][p][d] # 0}

\* GoldRate.latest_for, 0 for None.
LatestFor(t, p, day) ==
  LET dates == DatesUpTo(t, p, day)
  IN  IF dates = {} THEN 0 ELSE rate[t][p][Max(dates)]

\* Mutant: quotients are cut off.
ScaledDown(amount, p) == (amount * p) \div Carat22

\* The 22-carat rate scaled by the ratio of the purities.
Scaled(amount, p) == HalfEven(amount * p, Carat22)

\* The rates of the day at home.
DayRates == [p \in Purities |-> LatestFor(Home, p, today)]

\* compute() on rates r: that of the purity, else the scaled 22-carat rate, else 0.
RatePerGram(r, p) == IF r[p] # 0 THEN r[p] ELSE Scaled(r[Carat22], p)

ItemValue(r, i) == HalfEven(item[i].net * RatePerGram(r, item[i].purity), 1000)

GrossValue(r) == MapThenSumSet(LAMBDA i : ItemValue(r, i), Items)

CapAt(r) == HalfEven(GrossValue(r) * MaxLtvPct, 100)

EligiblePrincipal == CapAt(DayRates)

-----------------------------------------------------------------------------
(* The loan form *)

\* The form is rendered: the page takes the day's rates along.
OpenForm ==
  /\ page' = DayRates
  /\ UNCHANGED <<today, rate, item, entries>>

\* Mutant: the 22-carat rate as it is.
PageRateUnscaled(p) == IF page[p] # 0 THEN page[p] * Carat22 ELSE page[Carat22] * Carat22

\* rateForPurity, on the rates the page was rendered with; times 22, for the
\* script does not round it.
PageRate(p) == IF page[p] # 0 THEN page[p] * Carat22 ELSE page[Carat22] * p

\* autoFillRate, for a field that is empty.
AutoFill(p) == HalfEven(PageRate(p), Carat22)

\* effectiveRate, times 22: the rate in the row wins.
FormRate(i) == IF item[i].rate # 0 THEN item[i].rate * Carat22 ELSE PageRate(item[i].purity)

\* recompute(): the worth of the rows times the percentage, in fractions of a paisa.
FormCap == MapThenSumSet(LAMBDA i : item[i].net * FormRate(i), Items) * MaxLtvPct

\* A row is added, with the rate that is typed or filled in.
AddItem(i, net, p, typed) ==
  /\ item[i].net = 0
  /\ item' = [item EXCEPT ![i] =
       [net |-> net, purity |-> p, rate |-> IF typed # 0 THEN typed ELSE AutoFill(p)]]
  /\ UNCHANGED <<today, rate, page, entries>>

\* A saved row: its rate is kept whatever becomes of the purity, for the page
\* knows no more that it was filled in; autoFillAll fills the empty ones.
SaveForm(i, p) ==
  /\ item[i].net # 0
  /\ item' = [j \in Items |->
       LET purity == IF j = i THEN p ELSE item[j].purity
       IN  IF item[j].net # 0 /\ item[j].rate = 0
             THEN [item[j] EXCEPT !.purity = purity, !.rate = AutoFill(purity)]
             ELSE [item[j] EXCEPT !.purity = purity]]
  /\ UNCHANGED <<today, rate, page, entries>>

RemoveItem(i) ==
  /\ item[i].net # 0
  /\ item' = [item EXCEPT ![i] = NoItem]
  /\ UNCHANGED <<today, rate, page, entries>>

\* GoldRateAdmin: one row per tenant, date and purity, entered, changed or
\* deleted (0); the date is free.
KeyInRate(t, p, d, v) ==
  /\ entries < MaxEntries /\ v # rate[t][p][d]
  /\ rate' = [rate EXCEPT ![t][p][d] = v]
  /\ entries' = entries + 1
  /\ UNCHANGED <<today, item, page>>

NextDay(n) ==
  /\ today + n <= LastDay
  /\ today' = today + n
  /\ UNCHANGED <<rate, item, page, entries>>
-----------------------------------------------------------------------------
PricingInit ==
  /\ today = 0
  /\ rate = [t \in Tenants |-> [p \in Purities |-> [d \in RateDays |-> 0]]]
  /\ item = [i \in Items |-> NoItem]
  /\ page = DayRates
  /\ entries = 0

DeskStep ==
  \/ OpenForm
  \/ \E i \in Items, net \in Weights, p \in Purities, typed \in RateValues \cup {0} :
       AddItem(i, net, p, typed)
  \/ \E i \in Items : RemoveItem(i) \/ \E p \in Purities : SaveForm(i, p)
  \/ \E t \in Tenants, p \in Purities, d \in RateDays, v \in RateValues \cup {0} :
       KeyInRate(t, p, d, v)

PricingNext == DeskStep \/ \E n \in DaySteps : NextDay(n)

PricingSpec == PricingInit /\ [][PricingNext]_pricingVars
-----------------------------------------------------------------------------
(* Properties *)

\* The worth of the pledge and its share in fractions of a paisa, nothing rounded.
ExactItem(i) ==
  LET direct == LatestFor(Home, item[i].purity, today)
      base == LatestFor(Home, Carat22, today)
  IN  item[i].net * (IF direct # 0 THEN direct * Carat22 ELSE base * item[i].purity)
ExactCap == MapThenSumSet(ExactItem, Items) * MaxLtvPct
CapUnit == Carat22 * 1000 * 100

\* Apart by no more than half a paisa for the rate of each gram, for each item
\* and for the cap itself.
Close(a, b) ==
  LET weight == MapThenSumSet(LAMBDA i : item[i].net, Items)
      slack == Carat22 * ((weight + 1000 * Cardinality(Items)) * MaxLtvPct + 1000 * 100)
  IN  2 * (a - b) <= slack /\ 2 * (b - a) <= slack

\* compute() rounds a scaled rate, every item and the sum to the paisa: what the
\* cap allows stays within those roundings of the exact share of the gold.
CapIsExact ==
  Close(EligiblePrincipal * CapUnit, ExactCap)

\* A rate keyed in for another tenant, for a date still to come, or for a date
\* that a later row of that purity has overtaken, does not move the cap.
OnlyLatestRateCounts ==
  [][\A t \in Tenants, p \in Purities, d \in RateDays :
       /\ rate'[t][p][d] # rate[t][p][d]
       /\ t # Home \/ d > today \/ \E later \in DatesUpTo(Home, p, today) : later > d
       => EligiblePrincipal' = EligiblePrincipal]_pricingVars

\* The script of the loan form and compute(), which decides on a renewal, name the
\* same cap, rounding apart, when the rows hold no rate or the page's, whatever rows
\* were added and edited and in what order.  The rates are the page's: what the desk
\* reads off a form is what compute() says until a rate of the day changes.
FormAgreesWithCap ==
  (\A i \in Items : item[i].rate \in {0, RatePerGram(page, item[i].purity)}) =>
    Close(CapAt(page) * CapUnit, FormCap)

Terms == {<<10000, "monthly", 1500>>, <<12345, "annual", 18000>>, <<999, "monthly", 2250>>}
Monthly(x) == MonthlyInterest(x[1], x[2], x[3])

\* The dues a reminder quotes and the cycles printed beside them agree: interest
\* is above that of the cycles before the current one, within those begun.
AccrualWithinCycles ==
  \A x \in Terms, start \in RateDays :
    LET accrued == InterestAccrued(Monthly(x), start, today)
        cycles == MonthsCharged(start, today)
    IN  /\ Monthly(x) * (cycles - 1) <= accrued
        /\ accrued <= Monthly(x) * cycles
=============================================================================
