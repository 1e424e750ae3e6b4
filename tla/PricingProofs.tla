--------------------------- MODULE PricingProofs ----------------------------
(***************************************************************************)
(* Theorems about Pricing and RateFeed, for any tenants, purities, items,  *)
(* rates, weights and percentages, any processes and any clock.            *)
(***************************************************************************)
EXTENDS RateFeed, Arithmetic

-----------------------------------------------------------------------------
(* Rates *)

PricingTypes ==
  /\ today \in Nat
  /\ rate \in [Tenants -> [Purities -> [RateDays -> Nat]]]
  /\ item \in [Items -> Item]
  /\ page \in [Purities -> Nat]

\* A latest rate is that of the last row up to the day.
LEMMA LatestRow ==
  ASSUME PricingTypes, NEW t \in Tenants, NEW p \in Purities
  PROVE  LET dates == DatesUpTo(t, p, today)
         IN  /\ dates = {} => LatestFor(t, p, today) = 0
             /\ dates # {} => /\ Max(dates) \in dates /\ \A d \in dates : d <= Max(dates)
                              /\ LatestFor(t, p, today) = rate[t][p][Max(dates)]
<1>. DEFINE dates == DatesUpTo(t, p, today)
<1>1. /\ IsFiniteSet(dates)
      /\ \A d \in dates : d \in Int
  <2>1. dates \subseteq RateDays
    BY DEF DatesUpTo
  <2>2. IsFiniteSet(RateDays) /\ \A d \in RateDays : d \in Int
    BY PricingAssumption
  <2>. HIDE DEF dates
  <2>. QED
    BY <2>1, <2>2, FS_Subset
<1>2. ASSUME dates # {} PROVE Max(dates) \in dates /\ \A d \in dates : d <= Max(dates)
  <2>. HIDE DEF dates
  <2>. QED
    BY <1>1, <1>2, MaxOf
<1>. QED
  BY <1>2 DEF LatestFor

LEMMA LatestNat ==
  ASSUME PricingTypes, NEW t \in Tenants, NEW p \in Purities
  PROVE  LatestFor(t, p, today) \in Nat
<1>1. \A d \in DatesUpTo(t, p, today) : rate[t][p][d] \in Nat
  BY DEF PricingTypes, DatesUpTo
<1>. QED
  BY <1>1, LatestRow

LEMMA PurityFacts ==
  /\ Home \in Tenants /\ Carat22 \in Purities /\ Carat22 \in Nat \ {0}
  /\ \A p \in Purities : p \in Nat \ {0}
BY PricingAssumption DEF Carat22

LEMMA PageRateNat ==
  ASSUME PricingTypes, NEW p \in Purities
  PROVE  PageRate(p) \in Nat /\ AutoFill(p) \in Nat
<1>1. PageRate(p) \in Nat
  BY PurityFacts DEF PageRate, PricingTypes
<1>. QED
  BY <1>1, PurityFacts, HalfEvenNat DEF AutoFill

LEMMA DayRatesNat == PricingTypes => DayRates \in [Purities -> Nat]
BY PurityFacts, LatestNat DEF DayRates

LEMMA InitPricing == PricingInit => PricingTypes
<1>. SUFFICES ASSUME PricingInit PROVE PricingTypes
  OBVIOUS
<1>1. /\ today \in Nat /\ item \in [Items -> Item]
      /\ rate \in [Tenants -> [Purities -> [RateDays -> Nat]]]
  BY PurityFacts DEF PricingInit, NoItem, Item
<1>2. \A p \in Purities : LatestFor(Home, p, today) = 0
  <2>1. \A p \in Purities : DatesUpTo(Home, p, today) = {}
    BY PurityFacts DEF PricingInit, DatesUpTo
  <2>. QED
    BY <2>1 DEF LatestFor
<1>3. page \in [Purities -> Nat]
  BY <1>2 DEF PricingInit, DayRates
<1>. QED
  BY <1>1, <1>3 DEF PricingTypes

LEMMA AddItemTypes ==
  ASSUME PricingTypes, NEW i \in Items, NEW net \in Weights, NEW p \in Purities,
         NEW typed \in RateValues \cup {0}, AddItem(i, net, p, typed)
  PROVE  PricingTypes'
<1>1. PICK r : r = IF typed # 0 THEN typed ELSE AutoFill(p)
  OBVIOUS
<1>2. r \in Nat
  BY <1>1, PageRateNat, PricingAssumption
<1>3. net \in Nat
  BY PricingAssumption
<1>4. [net |-> net, purity |-> p, rate |-> r] \in Item
  BY <1>2, <1>3 DEF Item
<1>5. item' = [item EXCEPT ![i] = [net |-> net, purity |-> p, rate |-> r]]
  BY <1>1 DEF AddItem
<1>6. item' \in [Items -> Item]
  BY <1>4, <1>5 DEF PricingTypes
<1>. QED
  BY <1>6 DEF AddItem, PricingTypes

LEMMA SaveFormTypes ==
  ASSUME PricingTypes, NEW i \in Items, NEW p \in Purities, SaveForm(i, p)
  PROVE  PricingTypes'
<1>1. ASSUME NEW j \in Items PROVE item'[j] \in Item
  <2>1. PICK q : q = IF j = i THEN p ELSE item[j].purity
    OBVIOUS
  <2>2. item[j] \in Item /\ q \in Purities
    BY <2>1 DEF PricingTypes, Item
  <2>3. item'[j] = IF item[j].net # 0 /\ item[j].rate = 0
                     THEN [item[j] EXCEPT !.purity = q, !.rate = AutoFill(q)]
                     ELSE [item[j] EXCEPT !.purity = q]
    BY <2>1 DEF SaveForm
  <2>. QED
    BY <2>2, <2>3, PageRateNat DEF Item
<1>2. item' = [j \in Items |-> item'[j]]
  BY DEF SaveForm
<1>3. item' \in [Items -> Item]
  BY <1>1, <1>2
<1>. QED
  BY <1>3 DEF SaveForm, PricingTypes

LEMMA NextPricing == PricingTypes /\ [PricingNext]_pricingVars => PricingTypes'
<1>. SUFFICES ASSUME PricingTypes, [PricingNext]_pricingVars PROVE PricingTypes'
  OBVIOUS
<1>1. ASSUME NEW i \in Items, RemoveItem(i) PROVE PricingTypes'
  <2>1. NoItem \in Item
    BY PurityFacts DEF NoItem, Item
  <2>. QED
    BY <1>1, <2>1 DEF RemoveItem, PricingTypes
<1>2. ASSUME NEW t \in Tenants, NEW p \in Purities, NEW d \in RateDays,
             NEW v \in RateValues \cup {0}, KeyInRate(t, p, d, v)
      PROVE  PricingTypes'
  <2>1. v \in Nat
    BY PricingAssumption
  <2>2. rate' \in [Tenants -> [Purities -> [RateDays -> Nat]]]
    BY <1>2, <2>1 DEF KeyInRate, PricingTypes
  <2>. QED
    BY <1>2, <2>2 DEF KeyInRate, PricingTypes
<1>3. ASSUME NEW n \in DaySteps, NextDay(n) PROVE PricingTypes'
  BY <1>3, PricingAssumption DEF NextDay, PricingTypes
<1>4. CASE UNCHANGED pricingVars
  BY <1>4 DEF pricingVars, PricingTypes
<1>5. ASSUME OpenForm PROVE PricingTypes'
  BY <1>5, DayRatesNat DEF OpenForm, PricingTypes
<1>. QED
  BY <1>1, <1>2, <1>3, <1>4, <1>5, AddItemTypes, SaveFormTypes DEF PricingNext, DeskStep

LEMMA AlwaysPricing == PricingSpec => []PricingTypes
BY InitPricing, NextPricing, PTL DEF PricingSpec

-----------------------------------------------------------------------------
(* The accrual *)

\* The dues a reminder quotes and the cycles printed beside them agree, on any
\* day and for any loan of the terms (Loan.interest_accrued, Loan.months_charged).
THEOREM AccrualAgreesWithCycles == PricingSpec => []AccrualWithinCycles
<1>1. PricingTypes => AccrualWithinCycles
  <2>. SUFFICES ASSUME PricingTypes, NEW x \in Terms, NEW start \in RateDays
       PROVE  LET accrued == InterestAccrued(Monthly(x), start, today)
                  cycles == MonthsCharged(start, today)
              IN  /\ Monthly(x) * (cycles - 1) <= accrued
                  /\ accrued <= Monthly(x) * cycles
    BY DEF AccrualWithinCycles
  <2>1. Monthly(x) \in Nat
    <3>1. /\ x[1] * x[3] \in Nat
          /\ x[2] \in {"monthly", "annual"}
      BY DEF Terms
    <3>2. \A d \in {100000, 1200000} : HalfEven(x[1] * x[3], d) \in Nat
      BY <3>1, HalfEvenNat
    <3>. QED
      BY <3>2 DEF Monthly, MonthlyInterest
  <2>2. start \in Int /\ today \in Int
    BY PricingAssumption DEF PricingTypes
  <2>. QED
    BY <2>1, <2>2, AccruedWithinCycles
<1>. QED
  BY <1>1, AlwaysPricing, PTL

-----------------------------------------------------------------------------
(* The cap *)

\* The sums over the items of a pledge, which FiniteSetsExt defines by recursion.
LEMMA GrossIsSum ==
  ASSUME NEW r, NEW v, \A i \in Items : v[i] = ItemValue(r, i)
  PROVE  GrossValue(r) = SumOver(v, Items)
<1>. DEFINE P(g) == g = [s \in SUBSET Items |-> IF s = {} THEN 0
                          ELSE ItemValue(r, One(s)) + g[s \ {One(s)}]]
<1>1. \A g : P(g) <=> Sums(g, v, Items)
  BY OneIn DEF Sums
<1>2. GrossValue(r) = (CHOOSE g : P(g))[Items]
  BY DEF GrossValue, MapThenSumSet, MapThenFoldSet, One
<1>3. \E g : P(g)
  BY <1>1, SumsExist, PricingAssumption
<1>. HIDE DEF P
<1>. QED
  BY <1>1, <1>2, <1>3, SumOverSums, PricingAssumption

\* The same after a step.
LEMMA GrossIsSumAfter ==
  ASSUME NEW v, \A i \in Items : v[i] = ItemValue(DayRates, i)'
  PROVE  GrossValue(DayRates)' = SumOver(v, Items)
<1>. DEFINE P(g) == g = [s \in SUBSET Items |-> IF s = {} THEN 0
                          ELSE ItemValue(DayRates, One(s))' + g[s \ {One(s)}]]
<1>1. \A g : P(g) <=> Sums(g, v, Items)
  BY OneIn DEF Sums
<1>2. GrossValue(DayRates)' = (CHOOSE g : P(g))[Items]
  BY DEF GrossValue, MapThenSumSet, MapThenFoldSet, One
<1>3. \E g : P(g)
  BY <1>1, SumsExist, PricingAssumption
<1>. HIDE DEF P
<1>. QED
  BY <1>1, <1>2, <1>3, SumOverSums, PricingAssumption

LEMMA ExactIsSum ==
  ASSUME NEW v, \A i \in Items : v[i] = ExactItem(i)
  PROVE  ExactCap = SumOver(v, Items) * MaxLtvPct
<1>. DEFINE P(g) == g = [s \in SUBSET Items |-> IF s = {} THEN 0
                          ELSE ExactItem(One(s)) + g[s \ {One(s)}]]
<1>1. \A g : P(g) <=> Sums(g, v, Items)
  BY OneIn DEF Sums
<1>2. ExactCap = (CHOOSE g : P(g))[Items] * MaxLtvPct
  BY DEF ExactCap, MapThenSumSet, MapThenFoldSet, One
<1>3. \E g : P(g)
  BY <1>1, SumsExist, PricingAssumption
<1>. HIDE DEF P
<1>. QED
  BY <1>1, <1>2, <1>3, SumOverSums, PricingAssumption

LEMMA FormIsSum ==
  ASSUME NEW v, \A i \in Items : v[i] = item[i].net * FormRate(i)
  PROVE  FormCap = SumOver(v, Items) * MaxLtvPct
<1>. DEFINE P(g) == g = [s \in SUBSET Items |-> IF s = {} THEN 0
                          ELSE item[One(s)].net * FormRate(One(s)) + g[s \ {One(s)}]]
<1>1. \A g : P(g) <=> Sums(g, v, Items)
  BY OneIn DEF Sums
<1>2. FormCap = (CHOOSE g : P(g))[Items] * MaxLtvPct
  BY DEF FormCap, MapThenSumSet, MapThenFoldSet, One
<1>3. \E g : P(g)
  BY <1>1, SumsExist, PricingAssumption
<1>. HIDE DEF P
<1>. QED
  BY <1>1, <1>2, <1>3, SumOverSums, PricingAssumption

\* Close, with its slack in terms of the sum of the weights.
LEMMA CloseSlack ==
  ASSUME NEW w, \A i \in Items : w[i] = item[i].net, NEW a, NEW b
  PROVE  Close(a, b) <=>
           LET slack == Carat22 * ((SumOver(w, Items) + 1000 * Cardinality(Items)) * MaxLtvPct
                                     + 1000 * 100)
           IN  2 * (a - b) <= slack /\ 2 * (b - a) <= slack
<1>. DEFINE P(g) == g = [s \in SUBSET Items |-> IF s = {} THEN 0
                          ELSE item[One(s)].net + g[s \ {One(s)}]]
            weight == MapThenSumSet(LAMBDA i : item[i].net, Items)
<1>1. \A g : P(g) <=> Sums(g, w, Items)
  BY OneIn DEF Sums
<1>2. weight = (CHOOSE g : P(g))[Items]
  BY DEF MapThenSumSet, MapThenFoldSet, One
<1>3. \E g : P(g)
  BY <1>1, SumsExist, PricingAssumption
<1>4. weight = SumOver(w, Items)
  <2>. HIDE DEF P
  <2>. QED
    BY <1>1, <1>2, <1>3, SumOverSums, PricingAssumption
<1>. QED
  BY <1>4 DEF Close

\* A sum of paise, and what it should be in 22000ths: half a paisa off for the rate
\* of each gram, and for each item.
InAll(v, x, w, S) ==
  LET slack == 22 * (1000 * Cardinality(S) + SumOver(w, S))
  IN  /\ 2 * (22000 * SumOver(v, S) - SumOver(x, S)) <= slack
      /\ 2 * (SumOver(x, S) - 22000 * SumOver(v, S)) <= slack

\* The errors of the items add up.
LEMMA ErrorsAddUp ==
  ASSUME NEW S, IsFiniteSet(S), NEW v, NEW x, NEW w,
         \A i \in S : /\ v[i] \in Int /\ x[i] \in Int /\ w[i] \in Int
                      /\ 2 * (22000 * v[i] - x[i]) <= 22 * (1000 + w[i])
                      /\ 2 * (x[i] - 22000 * v[i]) <= 22 * (1000 + w[i])
  PROVE  InAll(v, x, w, S)
<1>. USE DEF InAll
<1>. DEFINE
     Fine(T) == InAll(v, x, w, T)
     C == {T \in SUBSET S : ~ Fine(T)}
<1>. SUFFICES ASSUME C # {} PROVE FALSE
  OBVIOUS
<1>1. PICK T \in C : \A U \in C : U \subseteq T => U = T
  <2>1. C \in SUBSET SUBSET S
    OBVIOUS
  <2>. HIDE DEF C
  <2>. QED
    BY <2>1, SmallestSubset
<1>2. T \in SUBSET S /\ IsFiniteSet(T) /\ ~ Fine(T)
  BY FS_Subset
<1>3. CASE T = {}
  <2>1. /\ SumOver(v, T) = 0 /\ SumOver(x, T) = 0 /\ SumOver(w, T) = 0
        /\ Cardinality(T) = 0
    BY <1>3, SumOfNothing, FS_EmptySet
  <2>2. Fine(T)
    BY <2>1
  <2>. QED
    BY <1>2, <2>2
<1>4. CASE T # {}
  <2>1. PICK i : i \in T
    BY <1>4
  <2>. DEFINE R == T \ {i}
  <2>2. R = T \ {i}
    OBVIOUS
  <2>. HIDE DEF R
  <2>3. /\ R \in SUBSET S /\ R \subseteq T /\ R # T /\ IsFiniteSet(R) /\ i \in S
    BY <1>2, <2>1, <2>2, FS_Subset
  <2>4. Fine(R)
    <3>. HIDE DEF Fine
    <3>. QED
      BY <1>1, <2>3
  <2>5. Cardinality(R) \in Nat /\ Cardinality(T) = Cardinality(R) + 1
    BY <1>2, <2>1, <2>2, <2>3, FS_RemoveElement, FS_CardinalityType
  <2>6. /\ \A z \in T : v[z] \in Int /\ x[z] \in Int /\ w[z] \in Int
        /\ \A z \in R : v[z] \in Int /\ x[z] \in Int /\ w[z] \in Int
    BY <1>2, <2>3
  <2>7. /\ SumOver(v, T) = v[i] + SumOver(v, R)
        /\ SumOver(x, T) = x[i] + SumOver(x, R)
        /\ SumOver(w, T) = w[i] + SumOver(w, R)
    BY <1>2, <2>1, <2>2, <2>6, SumWithout
  <2>8. /\ SumOver(v, R) \in Int /\ SumOver(x, R) \in Int /\ SumOver(w, R) \in Int
    BY <2>3, <2>6, SumType
  <2>9. /\ v[i] \in Int /\ x[i] \in Int /\ w[i] \in Int
        /\ 2 * (22000 * v[i] - x[i]) <= 22 * (1000 + w[i])
        /\ 2 * (x[i] - 22000 * v[i]) <= 22 * (1000 + w[i])
    BY <2>3
  <2>10. Fine(T)
    BY <2>4, <2>5, <2>7, <2>8, <2>9
  <2>. QED
    BY <1>2, <2>10
<1>. QED
  BY <1>3, <1>4

\* An amount x per item, given in 22000ths, is as good as ItemValue when it is the
\* weight times a rate e that RatePerGram rounds.
RoundsTo(e, r) == 2 * (22 * r - e) <= 22 /\ 2 * (e - 22 * r) <= 22

ExactRate(r, p) == IF r[p] # 0 THEN r[p] * Carat22 ELSE r[Carat22] * p

LEMMA RateRounds ==
  ASSUME NEW r \in [Purities -> Nat], NEW p \in Purities
  PROVE  /\ RatePerGram(r, p) \in Nat
         /\ ExactRate(r, p) \in Nat /\ RoundsTo(ExactRate(r, p), RatePerGram(r, p))
<1>1. PICK base \in Nat : base = r[Carat22]
  BY PurityFacts
<1>2. PICK direct \in Nat : direct = r[p]
  OBVIOUS
<1>3. p \in Nat /\ base * p \in Nat
  BY PurityFacts
<1>4. CASE direct # 0
  <2>1. RatePerGram(r, p) = direct /\ ExactRate(r, p) = direct * 22
    BY <1>2, <1>4 DEF RatePerGram, ExactRate, Carat22
  <2>. QED
    BY <2>1 DEF RoundsTo
<1>5. CASE direct = 0
  <2>1. RatePerGram(r, p) = HalfEven(base * p, 22) /\ ExactRate(r, p) = base * p
    BY <1>1, <1>2, <1>5 DEF RatePerGram, ExactRate, Scaled, Carat22
  <2>. QED
    BY <1>3, <2>1, HalfEvenClose DEF RoundsTo
<1>. QED
  BY <1>4, <1>5

LEMMA ItemRounds ==
  ASSUME NEW r \in Nat, NEW e \in Nat, RoundsTo(e, r), NEW net \in Nat
  PROVE  /\ HalfEven(net * r, 1000) \in Nat
         /\ 2 * (22000 * HalfEven(net * r, 1000) - net * e) <= 22 * (1000 + net)
         /\ 2 * (net * e - 22000 * HalfEven(net * r, 1000)) <= 22 * (1000 + net)
<1>1. PICK v : v = HalfEven(net * r, 1000)
  OBVIOUS
<1>2. net * r \in Nat
  OBVIOUS
<1>3. v \in Nat /\ 2 * (1000 * v - net * r) <= 1000 /\ 2 * (net * r - 1000 * v) <= 1000
  BY <1>1, <1>2, HalfEvenClose
<1>4. PICK d \in Int : d = 22 * r - e
  <2>1. 22 * r - e \in Int
    OBVIOUS
  <2>. QED
    BY <2>1
<1>5. 2 * d <= 22 /\ -22 <= 2 * d
  BY <1>4 DEF RoundsTo
<1>6. net * d <= 11 * net /\ -(11 * net) <= net * d
  BY <1>5
<1>7. net * e = 22 * (net * r) - net * d
  BY <1>4
<1>8. PICK k \in Nat : k = net * r
  BY <1>2
<1>9. PICK m \in Int : m = net * d
  OBVIOUS
<1>10. PICK x \in Int : x = net * e
  OBVIOUS
<1>11. x = 22 * k - m
  BY <1>7, <1>8, <1>9, <1>10
<1>12. /\ 2 * (22000 * v - x) <= 22 * (1000 + net)
       /\ 2 * (x - 22000 * v) <= 22 * (1000 + net)
  BY <1>3, <1>6, <1>8, <1>9, <1>11
<1>. QED
  BY <1>1, <1>3, <1>10, <1>12

\* The cap at rates r is close to that at rates e of the rows which r rounds.
LEMMA CapClose ==
  ASSUME PricingTypes, NEW r \in [Purities -> Nat],
         NEW e, \A i \in Items : e[i] \in Nat,
         \A i \in Items : RoundsTo(e[i], RatePerGram(r, item[i].purity)),
         NEW x, \A i \in Items : x[i] = item[i].net * e[i]
  PROVE  Close(CapAt(r) * CapUnit, SumOver(x, Items) * MaxLtvPct)
<1>. DEFINE v == [i \in Items |-> ItemValue(r, i)]
            w == [i \in Items |-> item[i].net]
<1>1. IsFiniteSet(Items) /\ MaxLtvPct \in Nat
  BY PricingAssumption
<1>2. ASSUME NEW i \in Items
      PROVE  /\ v[i] \in Int /\ x[i] \in Int /\ w[i] \in Int
             /\ 2 * (22000 * v[i] - x[i]) <= 22 * (1000 + w[i])
             /\ 2 * (x[i] - 22000 * v[i]) <= 22 * (1000 + w[i])
             /\ v[i] \in Nat /\ w[i] \in Nat
  <2>1. item[i].net \in Nat /\ item[i].purity \in Purities
    BY DEF PricingTypes, Item
  <2>2. PICK k \in Nat : k = RatePerGram(r, item[i].purity)
    BY <2>1, RateRounds
  <2>3. PICK n \in Nat : n = item[i].net
    BY <2>1
  <2>4. v[i] = HalfEven(n * k, 1000) /\ w[i] = n /\ x[i] = n * e[i]
    BY <2>2, <2>3 DEF ItemValue
  <2>5. e[i] \in Nat /\ RoundsTo(e[i], k)
    BY <2>2
  <2>6. PICK h \in Nat : h = e[i]
    BY <2>5
  <2>. HIDE DEF v, w
  <2>7. RoundsTo(h, k)
    BY <2>5, <2>6
  <2>8. /\ HalfEven(n * k, 1000) \in Nat
        /\ 2 * (22000 * HalfEven(n * k, 1000) - n * h) <= 22 * (1000 + n)
        /\ 2 * (n * h - 22000 * HalfEven(n * k, 1000)) <= 22 * (1000 + n)
    BY ONLY <2>7, ItemRounds
  <2>9. v[i] = HalfEven(n * k, 1000) /\ w[i] = n /\ x[i] = n * h
    BY <2>4, <2>6
  <2>10. n * h \in Int
    OBVIOUS
  <2>. QED
    BY ONLY <2>8, <2>9, <2>10
<1>3. GrossValue(r) = SumOver(v, Items)
  BY GrossIsSum
<1>4. \A i \in Items : w[i] = item[i].net
  OBVIOUS
<1>. HIDE DEF v, w
<1>5. PICK g : g = GrossValue(r)
  OBVIOUS
<1>6. PICK a \in Int : a = SumOver(x, Items)
  BY <1>1, <1>2, SumType
<1>7. PICK s \in Int : s = SumOver(w, Items)
  BY <1>1, <1>2, SumType
<1>8. PICK n \in Nat : n = Cardinality(Items)
  BY <1>1, FS_CardinalityType
<1>9. g \in Nat
  BY <1>1, <1>2, <1>3, <1>5, SumNat
<1>10. 2 * (22000 * g - a) <= 22 * (1000 * n + s) /\ 2 * (a - 22000 * g) <= 22 * (1000 * n + s)
  <2>1. \A i \in Items : /\ v[i] \in Int /\ x[i] \in Int /\ w[i] \in Int
                         /\ 2 * (22000 * v[i] - x[i]) <= 22 * (1000 + w[i])
                         /\ 2 * (x[i] - 22000 * v[i]) <= 22 * (1000 + w[i])
    BY <1>2
  <2>2. InAll(v, x, w, Items)
    BY ONLY <1>1, <2>1, ErrorsAddUp
  <2>. QED
    BY <2>2, <1>3, <1>5, <1>6, <1>7, <1>8 DEF InAll
<1>11. PICK m \in Nat : m = MaxLtvPct
  BY <1>1
<1>12. PICK p : p = HalfEven(g * m, 100)
  OBVIOUS
<1>13. g * m \in Nat
  BY <1>9
<1>14. p \in Nat /\ 2 * (100 * p - g * m) <= 100 /\ 2 * (g * m - 100 * p) <= 100
  BY <1>12, <1>13, HalfEvenClose
<1>15. CapAt(r) = p
  BY <1>5, <1>11, <1>12 DEF CapAt
<1>16. PICK d \in Int : d = 22000 * g - a
  <2>1. 22000 * g - a \in Int
    BY <1>9
  <2>. QED
    BY <2>1
<1>17. PICK k \in Int : k = 11 * (1000 * n + s)
  OBVIOUS
<1>18. d <= k /\ -k <= d
  BY <1>10, <1>16, <1>17, <1>9
<1>19. d * m <= k * m /\ -(k * m) <= d * m
  BY <1>18
<1>20. /\ d * m = 22000 * (g * m) - a * m
       /\ k * m = 11 * ((s + 1000 * n) * m)
  BY <1>9, <1>16, <1>17
<1>21. PICK q \in Int : q = (s + 1000 * n) * m
  OBVIOUS
<1>22. PICK am \in Int : am = a * m
  OBVIOUS
<1>23. PICK gm \in Int : gm = g * m
  BY <1>13
<1>24. /\ 2 * (p * 2200000 - am) <= 22 * (q + 100000)
       /\ 2 * (am - p * 2200000) <= 22 * (q + 100000)
  <2>1. 22000 * gm - am <= 11 * q /\ -(11 * q) <= 22000 * gm - am
    <3>1. PICK dm \in Int : dm = d * m
      OBVIOUS
    <3>2. PICK km \in Int : km = k * m
      OBVIOUS
    <3>3. dm = 22000 * gm - am /\ km = 11 * q
      BY <1>20, <1>21, <1>22, <1>23, <3>1, <3>2
    <3>. QED
      BY <1>19, <3>1, <3>2, <3>3
  <2>2. 2 * (100 * p - gm) <= 100 /\ 2 * (gm - 100 * p) <= 100
    BY <1>14, <1>23
  <2>. QED
    BY <2>1, <2>2, <1>14
<1>25. CapUnit = 2200000
  BY DEF CapUnit, Carat22
<1>. QED
  BY <1>4, <1>6, <1>7, <1>8, <1>11, <1>15, <1>21, <1>22, <1>24, <1>25, CloseSlack DEF Carat22

\* What the cap allows (compute) stays within the roundings of the exact share of
\* the gold, however many items, of whatever purity, at whatever rates.
THEOREM CapStaysExact == PricingSpec => []CapIsExact
<1>1. PricingTypes => CapIsExact
  <2>. SUFFICES ASSUME PricingTypes PROVE CapIsExact
    OBVIOUS
  <2>. DEFINE e == [i \in Items |-> ExactRate(DayRates, item[i].purity)]
              x == [i \in Items |-> ExactItem(i)]
  <2>1. \A i \in Items : item[i].purity \in Purities
    BY DEF PricingTypes, Item
  <2>2. DayRates \in [Purities -> Nat]
    BY DayRatesNat
  <2>3. \A i \in Items :
          e[i] \in Nat /\ RoundsTo(e[i], RatePerGram(DayRates, item[i].purity))
    BY <2>1, <2>2, RateRounds
  <2>4. \A i \in Items : x[i] = item[i].net * e[i]
    BY <2>1, PurityFacts DEF ExactItem, ExactRate, DayRates
  <2>5. ExactCap = SumOver(x, Items) * MaxLtvPct
    BY ExactIsSum
  <2>. HIDE DEF e, x
  <2>. QED
    BY <2>2, <2>3, <2>4, <2>5, CapClose DEF CapIsExact, EligiblePrincipal
<1>. QED
  BY <1>1, AlwaysPricing, PTL

\* The script of the loan form (effectiveRate, recompute), on the rates the page was
\* rendered with, and compute() on those rates name the same cap, rounding apart, when
\* the rows hold no rate or the page's, however old the page is.
THEOREM FormAndCapAgree == PricingSpec => []FormAgreesWithCap
<1>1. PricingTypes => FormAgreesWithCap
  <2>. SUFFICES ASSUME PricingTypes,
                       \A i \in Items : item[i].rate \in {0, RatePerGram(page, item[i].purity)}
       PROVE  Close(CapAt(page) * CapUnit, FormCap)
    BY DEF FormAgreesWithCap
  <2>. DEFINE e == [i \in Items |-> FormRate(i)]
              x == [i \in Items |-> item[i].net * FormRate(i)]
  <2>1. /\ page \in [Purities -> Nat]
        /\ \A i \in Items : item[i].purity \in Purities
    BY DEF PricingTypes, Item
  <2>2. ASSUME NEW i \in Items
        PROVE  e[i] \in Nat /\ RoundsTo(e[i], RatePerGram(page, item[i].purity))
    <3>1. PICK r \in Nat : r = RatePerGram(page, item[i].purity)
      BY <2>1, RateRounds
    <3>2. CASE item[i].rate = 0
      <4>1. e[i] = ExactRate(page, item[i].purity)
        BY <3>2 DEF FormRate, PageRate, ExactRate
      <4>. QED
        BY <2>1, <4>1, RateRounds
    <3>3. CASE item[i].rate # 0
      <4>1. e[i] = r * 22
        BY <3>1, <3>3 DEF FormRate, Carat22
      <4>2. e[i] \in Nat /\ RoundsTo(e[i], r)
        BY <4>1 DEF RoundsTo
      <4>. QED
        BY <3>1, <4>2
    <3>. QED
      BY <3>2, <3>3
  <2>3. \A i \in Items : x[i] = item[i].net * e[i]
    OBVIOUS
  <2>4. FormCap = SumOver(x, Items) * MaxLtvPct
    BY FormIsSum
  <2>. HIDE DEF e, x
  <2>. QED
    BY <2>1, <2>2, <2>3, <2>4, CapClose
<1>. QED
  BY <1>1, AlwaysPricing, PTL

\* The cap depends on the day's rates at home alone.
LEMMA SameRatesSameCap ==
  ASSUME item' = item, \A i \in Items : item[i].purity \in Purities,
         \A p \in Purities : LatestFor(Home, p, today)' = LatestFor(Home, p, today)
  PROVE  EligiblePrincipal' = EligiblePrincipal
<1>1. DayRates' = DayRates
  BY DEF DayRates
<1>2. \A i \in Items : ItemValue(DayRates, i)' = ItemValue(DayRates, i)
  BY <1>1 DEF ItemValue, RatePerGram, Scaled
<1>. DEFINE v == [i \in Items |-> ItemValue(DayRates, i)]
<1>3. \A i \in Items : v[i] = ItemValue(DayRates, i)
  OBVIOUS
<1>4. GrossValue(DayRates) = SumOver(v, Items)
  BY GrossIsSum
<1>5. \A i \in Items : v[i] = ItemValue(DayRates, i)'
  BY <1>2, <1>3
<1>. HIDE DEF v
<1>6. PICK u : u = v
  OBVIOUS
<1>7. GrossValue(DayRates)' = SumOver(u, Items)
  BY <1>5, <1>6, GrossIsSumAfter
<1>. QED
  BY <1>4, <1>6, <1>7 DEF EligiblePrincipal, CapAt

\* A row of another tenant or of another purity is not looked at.
LEMMA OtherRowsKept ==
  ASSUME PricingTypes, NEW t \in Tenants, NEW p \in Purities, NEW d \in RateDays, NEW x,
         KeyInRate(t, p, d, x), NEW q \in Purities, t # Home \/ q # p
  PROVE  LatestFor(Home, q, today)' = LatestFor(Home, q, today)
<1>1. rate'[Home][q] = rate[Home][q] /\ today' = today
  BY PurityFacts DEF KeyInRate, PricingTypes
<1>2. DatesUpTo(Home, q, today)' = DatesUpTo(Home, q, today)
  BY <1>1 DEF DatesUpTo
<1>. QED
  BY <1>1, <1>2 DEF LatestFor

\* A row that is not due yet, or that a later one has overtaken, is not looked at.
LEMMA OvertakenRowsKept ==
  ASSUME PricingTypes, NEW p \in Purities, NEW d \in RateDays, NEW x,
         KeyInRate(Home, p, d, x),
         d > today \/ \E later \in DatesUpTo(Home, p, today) : later > d
  PROVE  LatestFor(Home, p, today)' = LatestFor(Home, p, today)
<1>. DEFINE D == DatesUpTo(Home, p, today)
            E == {e \in RateDays : e <= today /\ rate'[Home][p][e] # 0}
<1>1. /\ today' = today
      /\ \A e \in RateDays \ {d} : rate'[Home][p][e] = rate[Home][p][e]
  BY PurityFacts DEF KeyInRate, PricingTypes
<1>2. DatesUpTo(Home, p, today)' = E
  BY <1>1 DEF DatesUpTo
<1>3. /\ D \subseteq RateDays /\ E \subseteq RateDays
      /\ \A e \in RateDays \ {d} : e \in D <=> e \in E
  BY <1>1 DEF DatesUpTo
<1>4. /\ IsFiniteSet(RateDays)
      /\ today \in Int /\ \A e \in RateDays : e \in Int
  BY PricingAssumption DEF PricingTypes
<1>5. \A e \in D \cup E : e <= today
  BY DEF DatesUpTo
<1>6. LatestFor(Home, p, today)' = IF E = {} THEN 0 ELSE rate'[Home][p][Max(E)]
  BY <1>2 DEF LatestFor
<1>7. LatestFor(Home, p, today) = IF D = {} THEN 0 ELSE rate[Home][p][Max(D)]
  BY DEF LatestFor
<1>8. d > today \/ \E later \in D : later > d
  OBVIOUS
<1>. HIDE DEF D, E
<1>9. IsFiniteSet(D) /\ IsFiniteSet(E)
  BY <1>3, <1>4, FS_Subset
<1>10. \A e \in D \cup E : e \in Int
  BY <1>3, <1>4
<1>11. CASE d > today
  <2>1. d \notin D /\ d \notin E
    BY <1>4, <1>5, <1>11
  <2>2. D = E
    BY <1>3, <2>1
  <2>3. ASSUME D # {} PROVE rate'[Home][p][Max(D)] = rate[Home][p][Max(D)]
    <3>1. Max(D) \in D
      BY <1>9, <1>10, <2>3, MaxOf
    <3>. QED
      BY <1>1, <1>3, <2>1, <3>1
  <2>. QED
    BY <1>6, <1>7, <2>2, <2>3
<1>12. CASE \E later \in D : later > d
  <2>1. PICK later \in D : later > d
    BY <1>12
  <2>2. /\ Max(D) \in D /\ \A e \in D : e <= Max(D)
    <3>1. D # {} /\ \A e \in D : e \in Int
      BY <1>10, <2>1
    <3>. QED
      BY <1>9, <3>1, MaxOf
  <2>3. PICK m \in Int : m = Max(D)
    BY <1>10, <2>2
  <2>4. m \in D /\ m > d /\ m \in RateDays /\ d \in Int
    BY <1>3, <1>4, <1>10, <2>1, <2>2, <2>3
  <2>5. m \in E
    BY <1>3, <2>4
  <2>6. /\ Max(E) \in E /\ \A e \in E : e <= Max(E)
    <3>1. E # {} /\ \A e \in E : e \in Int
      BY <1>10, <2>5
    <3>. QED
      BY <1>9, <3>1, MaxOf
  <2>7. PICK k \in Int : k = Max(E)
    BY <1>10, <2>6
  <2>8. k \in E /\ m <= k
    BY <2>5, <2>6, <2>7
  <2>9. k # d /\ k \in D
    BY <1>3, <2>4, <2>7, <2>8
  <2>10. k <= m
    BY <2>2, <2>3, <2>9
  <2>11. k = m
    BY <2>3, <2>7, <2>8, <2>10
  <2>12. rate'[Home][p][m] = rate[Home][p][m]
    BY <1>1, <2>4
  <2>13. D # {} /\ E # {}
    BY <2>4, <2>5
  <2>. QED
    BY <1>6, <1>7, <2>3, <2>7, <2>11, <2>12, <2>13
<1>. QED
  BY <1>8, <1>11, <1>12

\* Rates keyed in for another tenant, for a date to come or for a date that a later
\* row has overtaken leave the cap where it was (GoldRate.latest_for).
THEOREM OvertakenRatesDoNotCount == PricingSpec => OnlyLatestRateCounts
<1>. DEFINE Counts ==
       \A t \in Tenants, p \in Purities, d \in RateDays :
         /\ rate'[t][p][d] # rate[t][p][d]
         /\ t # Home \/ d > today \/ \E later \in DatesUpTo(Home, p, today) : later > d
         => EligiblePrincipal' = EligiblePrincipal
<1>1. PricingTypes /\ [PricingNext]_pricingVars => [Counts]_pricingVars
  <2>. SUFFICES ASSUME PricingTypes, PricingNext,
                       NEW t \in Tenants, NEW p \in Purities, NEW d \in RateDays,
                       rate'[t][p][d] # rate[t][p][d],
                       t # Home \/ d > today \/ \E later \in DatesUpTo(Home, p, today) : later > d
       PROVE  EligiblePrincipal' = EligiblePrincipal
    OBVIOUS
  <2>1. rate' # rate
    OBVIOUS
  <2>2. PICK t0 \in Tenants, p0 \in Purities, d0 \in RateDays, x \in RateValues \cup {0} :
          KeyInRate(t0, p0, d0, x)
    BY <2>1 DEF PricingNext, DeskStep, OpenForm, AddItem, RemoveItem, SaveForm, NextDay
  <2>3. t = t0 /\ p = p0 /\ d = d0
    BY <2>2 DEF KeyInRate, PricingTypes
  <2>4. ASSUME NEW q \in Purities
        PROVE  LatestFor(Home, q, today)' = LatestFor(Home, q, today)
    <3>1. CASE t # Home \/ q # p
      BY <2>2, <2>3, <3>1, OtherRowsKept
    <3>2. CASE t = Home /\ q = p
      BY <2>2, <2>3, <3>2, OvertakenRowsKept
    <3>. QED
      BY <3>1, <3>2
  <2>5. item' = item /\ \A i \in Items : item[i].purity \in Purities
    BY <2>2 DEF KeyInRate, PricingTypes, Item
  <2>. QED
    BY <2>4, <2>5, SameRatesSameCap
<1>. QED
  BY <1>1, InitPricing, NextPricing, PTL DEF PricingSpec, OnlyLatestRateCounts

-----------------------------------------------------------------------------
(* The ticker *)

\* What is cached and how long a source has been up, each process by itself.
FeedTypes ==
  /\ cache \in [Processes -> Entry]
  /\ up \subseteq Sources
  /\ settled \in [Sources -> 0..(Ttl + 1)]
  /\ fed \in [Processes -> 0..(Ttl + 1)]

\* A source that is down has no time to its name, and a stand-in is kept no longer
\* than its source's betters have left to come back.
StandInsExpire ==
  /\ \A s \in Sources : s \notin up => settled[s] = 0
  /\ \A w \in Processes :
       /\ cache[w].source = "manual" =>
            \A s \in Sources : settled[s] + cache[w].left <= FallbackTtl
       /\ cache[w].source = "spot" => settled["goodreturns"] + cache[w].left <= Ttl

\* Two minutes lie between the rates a process got and the end of its cache.
FedLately ==
  \A w \in Processes :
    IF cache[w].source = "none" THEN fed[w] >= FallbackTtl
    ELSE fed[w] + cache[w].left >= FallbackTtl

FeedInv == FeedTypes /\ StandInsExpire /\ FedLately

LEMMA InitFeed == Init => FeedInv
BY DEF Init, FeedInv, FeedTypes, StandInsExpire, FedLately, Empty, Entry, Sources, Ttl,
       FallbackTtl

LEMMA FetchFeed ==
  ASSUME FeedInv, NEW w \in Processes, Fetch(w)
  PROVE  FeedInv'
<1>. USE DEF FeedInv, FeedTypes, StandInsExpire, FedLately, Sources, Ttl, FallbackTtl
<1>1. /\ up' = up /\ settled' = settled
      /\ \A x \in Processes \ {w} : cache'[x] = cache[x] /\ fed'[x] = fed[x]
  BY DEF Fetch
<1>2. CASE up = {} /\ ManualRates = {}
  <2>1. cache' = cache /\ fed' = fed
    BY <1>2 DEF Fetch
  <2>. QED
    BY <1>1, <2>1
<1>3. CASE up # {} \/ ManualRates # {}
  <2>1. PICK s \in {"goodreturns", "spot", "manual"} :
          /\ cache' = [cache EXCEPT ![w] = Kept(s)]
          /\ s = "spot" => "goodreturns" \notin up
          /\ s = "manual" => up = {}
    BY <1>3 DEF Fetch
  <2>2. /\ Kept(s) \in Entry /\ Kept(s).source = s
        /\ Kept(s).left = IF s = "manual" THEN 2 ELSE 15
    BY DEF Kept, Entry
  <2>3. fed' = [fed EXCEPT ![w] = 0]
    BY <1>3 DEF Fetch
  <2>4. cache'[w] = Kept(s) /\ fed'[w] = 0
    BY <2>1, <2>3
  <2>5. FeedTypes'
    BY <1>1, <2>1, <2>2, <2>3
  <2>6. StandInsExpire'
    BY <1>1, <2>1, <2>2, <2>4
  <2>7. FedLately'
    BY <1>1, <2>2, <2>4
  <2>. QED
    BY <2>5, <2>6, <2>7
<1>. QED
  BY <1>2, <1>3

LEMMA TickFeed ==
  ASSUME FeedInv, NEW n \in MinuteSteps, Tick(n)
  PROVE  FeedInv'
<1>. USE DEF FeedInv, FeedTypes, StandInsExpire, FedLately, Ttl, FallbackTtl
<1>1. n \in Nat \ {0}
  BY FeedAssumption
<1>2. ASSUME NEW s \in Sources
      PROVE  /\ settled'[s] \in 0..16
             /\ settled'[s] <= settled[s] + n
             /\ s \notin up => settled'[s] = 0
  <2>1. settled[s] \in 0..16
    OBVIOUS
  <2>2. settled'[s] = IF s \in up THEN IF settled[s] + n < 16 THEN settled[s] + n ELSE 16 ELSE 0
    BY DEF Tick, AtMost
  <2>. QED
    BY ONLY <1>1, <2>1, <2>2
<1>3. ASSUME NEW w \in Processes
      PROVE  /\ fed'[w] \in 0..16
             /\ fed'[w] = IF fed[w] + n < 16 THEN fed[w] + n ELSE 16
  <2>1. fed[w] \in 0..16
    OBVIOUS
  <2>2. fed'[w] = IF fed[w] + n < 16 THEN fed[w] + n ELSE 16
    BY DEF Tick, AtMost
  <2>3. (IF fed[w] + n < 16 THEN fed[w] + n ELSE 16) \in 0..16
    BY ONLY <1>1, <2>1
  <2>. QED
    BY ONLY <2>2, <2>3
<1>4. ASSUME NEW w \in Processes, cache[w].left > n
      PROVE  /\ cache'[w] \in Entry /\ cache'[w].source = cache[w].source
             /\ cache'[w].left = cache[w].left - n
  <2>1. cache'[w] = [cache[w] EXCEPT !.left = cache[w].left - n]
    BY <1>4 DEF Tick, Aged
  <2>2. cache[w] \in Entry /\ cache[w].left \in 0..15
    BY DEF Entry
  <2>3. cache[w].left - n \in 0..15
    BY <1>1, <1>4, <2>2
  <2>. QED
    BY <2>1, <2>2, <2>3 DEF Entry
<1>5. ASSUME NEW w \in Processes, ~(cache[w].left > n)
      PROVE  cache'[w] = Empty /\ cache'[w] \in Entry
  BY <1>5 DEF Tick, Aged, Entry, Empty
<1>6. FeedTypes'
  <2>1. cache' \in [Processes -> Entry]
    BY <1>4, <1>5 DEF Tick, Aged
  <2>2. settled' \in [Sources -> 0..16]
    BY <1>2 DEF Tick
  <2>3. fed' \in [Processes -> 0..16]
    BY <1>3 DEF Tick
  <2>. QED
    BY <2>1, <2>2, <2>3 DEF Tick
<1>7. StandInsExpire'
  <2>1. "goodreturns" \in Sources
    BY DEF Sources
  <2>2. ASSUME NEW w \in Processes
        PROVE  /\ cache'[w].source = "manual" =>
                    \A s \in Sources : settled'[s] + cache'[w].left <= 2
               /\ cache'[w].source = "spot" => settled'["goodreturns"] + cache'[w].left <= 15
    <3>1. cache[w].left \in Int
      BY DEF Entry
    <3>2. CASE cache[w].left > n
      BY <1>1, <1>2, <1>4, <2>1, <3>1, <3>2
    <3>3. CASE ~(cache[w].left > n)
      BY <1>5, <3>3 DEF Empty
    <3>. QED
      BY <3>2, <3>3
  <2>. QED
    BY <1>2, <2>2 DEF Tick
<1>8. FedLately'
  <2>1. ASSUME NEW w \in Processes
        PROVE  IF cache'[w].source = "none" THEN fed'[w] >= 2 ELSE fed'[w] + cache'[w].left >= 2
    <3>1. cache[w].left \in Int
      BY DEF Entry
    <3>2. CASE cache[w].left > n
      BY <1>1, <1>3, <1>4, <3>1, <3>2
    <3>3. CASE ~(cache[w].left > n)
      BY <1>1, <1>3, <1>5, <3>1, <3>3 DEF Empty
    <3>. QED
      BY <3>2, <3>3
  <2>. QED
    BY <2>1
<1>. QED
  BY <1>6, <1>7, <1>8

LEMMA NextFeed == FeedInv /\ [Next]_vars => FeedInv'
<1>. SUFFICES ASSUME FeedInv, [Next]_vars PROVE FeedInv'
  OBVIOUS
<1>1. ASSUME NEW s \in Sources, Turn(s) PROVE FeedInv'
  <2>1. settled' = [settled EXCEPT ![s] = 0] /\ cache' = cache /\ fed' = fed
        /\ up' = IF s \in up THEN up \ {s} ELSE up \cup {s}
    BY <1>1 DEF Turn
  <2>2. \A z \in Sources : settled[z] \in Int /\ 0 <= settled[z]
    BY DEF FeedInv, FeedTypes
  <2>3. \A z \in Sources : settled'[z] = IF z = s THEN 0 ELSE settled[z]
    BY <2>1 DEF FeedInv, FeedTypes
  <2>4. \A w \in Processes : cache[w].left \in Int
    BY DEF FeedInv, FeedTypes, Entry
  <2>5. FeedTypes'
    BY <1>1, <2>1 DEF FeedInv, FeedTypes, Ttl
  <2>6. StandInsExpire'
    <3>1. \A z \in Sources : settled'[z] <= settled[z]
      BY <2>2, <2>3
    <3>2. "goodreturns" \in Sources
      BY DEF Sources
    <3>3. \A z \in Sources : z \notin up' => settled'[z] = 0
      BY <2>1, <2>3 DEF FeedInv, StandInsExpire
    <3>4. \A z \in Sources : settled'[z] \in Int
      BY <2>2, <2>3
    <3>. QED
      BY <2>1, <2>2, <2>4, <3>1, <3>2, <3>3, <3>4
         DEF FeedInv, StandInsExpire, Ttl, FallbackTtl
  <2>7. FedLately'
    BY <2>1 DEF FeedInv, FedLately
  <2>. QED
    BY <2>5, <2>6, <2>7 DEF FeedInv
<1>2. ASSUME Night PROVE FeedInv'
  BY <1>2 DEF Night, FeedInv, FeedTypes, StandInsExpire, FedLately, Empty, Entry, Ttl, FallbackTtl
<1>3. CASE UNCHANGED feedVars
  BY <1>3 DEF feedVars, FeedInv, FeedTypes, StandInsExpire, FedLately
<1>4. WebWorkers \subseteq Processes /\ CeleryWorkers \subseteq Processes
  BY DEF Processes
<1>. QED
  BY <1>1, <1>2, <1>3, <1>4, FetchFeed, TickFeed DEF Next, FeedStep, Page, Refresh, vars

\* Outages heal: two minutes after any source is back no process keeps rates that
\* were keyed in, fifteen after GoodReturns is back none keeps the spot price
\* (get_live_rates, refresh_live_gold_rates), whatever fails in between.
THEOREM OutagesHeal == Spec => []StandInsAreBrief
<1>1. FeedInv => StandInsAreBrief
  BY DEF FeedInv, FeedTypes, StandInsExpire, StandInsAreBrief, Processes, Sources, Entry, Ttl,
         FallbackTtl
<1>. QED
  BY <1>1, InitFeed, NextFeed, PTL DEF Spec

\* A page that waits for the network does so two minutes or more after its process
\* got rates (live_gold_rates, the two lifetimes of the cache).
THEOREM WaitsAreRare == Spec => PagesSeldomWait
<1>1. FeedInv => \A w \in WebWorkers : Page(w) => fed[w] >= FallbackTtl
  BY DEF FeedInv, FedLately, Page, Processes
<1>2. FeedInv /\ [Next]_vars => [\A w \in WebWorkers : Page(w) => fed[w] >= FallbackTtl]_vars
  BY <1>1
<1>. QED
  BY <1>2, InitFeed, NextFeed, PTL DEF Spec, PagesSeldomWait
=============================================================================
