----------------------------- MODULE Arithmetic -----------------------------
(***************************************************************************)
(* Lemmas about numbers that the proofs of several components rest on: the *)
(* rounding and growth of interest (Interest), the greatest member and the *)
(* sum of a finite set, which the community modules define with CHOOSE and *)
(* by recursion.                                                           *)
(***************************************************************************)
EXTENDS Interest, FiniteSets, FiniteSetsExt, FiniteSetTheorems, WellFoundedInduction, TLAPS

-----------------------------------------------------------------------------
(* Interest *)

\* Rounding moves a quotient by half a unit at most.
LEMMA HalfEvenClose ==
  ASSUME NEW n \in Nat, NEW d \in Nat \ {0}
  PROVE  /\ HalfEven(n, d) \in Nat
         /\ 2 * (d * HalfEven(n, d) - n) <= d /\ 2 * (n - d * HalfEven(n, d)) <= d
<1>. DEFINE q == n \div d
            r == n % d
<1>1. q \in Nat /\ r \in Nat /\ r < d /\ n = d * q + r
  OBVIOUS
<1>2. HalfEven(n, d) = IF 2 * r > d \/ (2 * r = d /\ q % 2 = 1) THEN q + 1 ELSE q
  BY DEF HalfEven
<1>. HIDE DEF q, r
<1>3. d * (q + 1) = d * q + d /\ d * q \in Nat
  BY <1>1
<1>. QED
  BY <1>1, <1>2, <1>3

LEMMA HalfEvenNat ==
  ASSUME NEW n \in Nat, NEW d \in Nat \ {0}
  PROVE  HalfEven(n, d) \in Nat
BY DEF HalfEven, MonthDays

\* Rounding to the nearest integer, ties to the even one, keeps the order.
LEMMA HalfEvenGrows ==
  ASSUME NEW m \in Nat, NEW n \in Nat, m <= n
  PROVE  HalfEven(m, MonthDays) <= HalfEven(n, MonthDays)
BY DEF HalfEven, MonthDays

LEMMA HalfEvenOfWhole ==
  ASSUME NEW m \in Nat
  PROVE  HalfEven(m * MonthDays, MonthDays) = m
BY DEF HalfEven, MonthDays

LEMMA InterestAccruedNat ==
  ASSUME NEW m \in Nat, NEW start \in Int, NEW day \in Int
  PROVE  InterestAccrued(m, start, day) \in Nat
<1>1. DaysOutstanding(start, day) \in Nat
  BY DEF DaysOutstanding, NonNegative
<1>2. ASSUME NEW days \in Nat PROVE HalfEven(m * days, MonthDays) \in Nat
  BY HalfEvenNat DEF MonthDays
<1>. QED
  BY <1>1, <1>2 DEF InterestAccrued

\* Interest only grows with the days: a flat month first, then pro rata.
LEMMA InterestGrows ==
  ASSUME NEW m \in Nat, NEW start \in Int, NEW day \in Int, NEW later \in Int, day <= later
  PROVE  InterestAccrued(m, start, day) <= InterestAccrued(m, start, later)
<1>. DEFINE d == DaysOutstanding(start, day)
            e == DaysOutstanding(start, later)
<1>1. d \in Nat /\ e \in Nat /\ d <= e
  BY DEF DaysOutstanding, NonNegative
<1>2. CASE start > day
  BY <1>2, InterestAccruedNat DEF InterestAccrued
<1>3. CASE ~(start > day) /\ e <= MonthDays
  BY <1>1, <1>3 DEF InterestAccrued, MonthDays
<1>4. CASE ~(start > day) /\ e > MonthDays /\ d <= MonthDays
  <2>1. m * MonthDays \in Nat /\ m * e \in Nat /\ m * MonthDays <= m * e
    BY <1>1, <1>4 DEF MonthDays
  <2>2. m <= HalfEven(m * e, MonthDays)
    BY <2>1, HalfEvenGrows, HalfEvenOfWhole
  <2>. QED
    BY <1>1, <1>4, <2>2 DEF InterestAccrued, MonthDays
<1>5. CASE ~(start > day) /\ d > MonthDays
  <2>1. m * d \in Nat /\ m * e \in Nat /\ m * d <= m * e
    BY <1>1
  <2>2. HalfEven(m * d, MonthDays) <= HalfEven(m * e, MonthDays)
    BY <2>1, HalfEvenGrows
  <2>. QED
    BY <1>1, <1>5, <2>2 DEF InterestAccrued, MonthDays
<1>. QED
  BY <1>1, <1>2, <1>3, <1>4, <1>5 DEF MonthDays

\* The interest accrued lies within the cycles charged, the last of them begun.
LEMMA AccruedWithinCycles ==
  ASSUME NEW m \in Nat, NEW start \in Int, NEW day \in Int
  PROVE  /\ m * (MonthsCharged(start, day) - 1) <= InterestAccrued(m, start, day)
         /\ InterestAccrued(m, start, day) <= m * MonthsCharged(start, day)
<1>1. CASE start > day
  BY <1>1 DEF MonthsCharged, InterestAccrued
<1>2. CASE ~(start > day)
  <2>1. PICK e \in Nat : e = day - start
    BY <1>2
  <2>2. PICK c \in Nat : c = e \div MonthDays
    BY <2>1 DEF MonthDays
  <2>3. c * MonthDays <= e /\ e <= (c + 1) * MonthDays
    BY <2>2 DEF MonthDays
  <2>4. MonthsCharged(start, day) = c + 1 /\ DaysOutstanding(start, day) = e
    BY <1>2, <2>1, <2>2 DEF MonthsCharged, DaysOutstanding, NonNegative
  <2>5. m * (c + 1) = m * c + m /\ m * c \in Nat
    OBVIOUS
  <2>6. CASE e <= MonthDays
    <3>1. c = 0 \/ c = 1
      BY <2>3, <2>6 DEF MonthDays
    <3>2. InterestAccrued(m, start, day) = m
      BY <1>2, <2>4, <2>6 DEF InterestAccrued
    <3>3. m * 0 = 0 /\ m * 1 = m /\ m * 2 = m + m
      OBVIOUS
    <3>. QED
      BY <2>4, <3>1, <3>2, <3>3
  <2>7. CASE e > MonthDays
    <3>1. InterestAccrued(m, start, day) = HalfEven(m * e, MonthDays)
      BY <1>2, <2>4, <2>7 DEF InterestAccrued, MonthDays
    <3>2. /\ m * e \in Nat
          /\ (m * c) * MonthDays <= m * e /\ m * e <= (m * (c + 1)) * MonthDays
      <4>1. m * (c * MonthDays) <= m * e /\ m * e <= m * ((c + 1) * MonthDays)
        BY <2>3 DEF MonthDays
      <4>2. m * (c * MonthDays) = (m * c) * MonthDays
            /\ m * ((c + 1) * MonthDays) = (m * (c + 1)) * MonthDays
        BY DEF MonthDays
      <4>. QED
        BY <4>1, <4>2
    <3>3. /\ (m * c) * MonthDays \in Nat /\ m * (c + 1) \in Nat
          /\ (m * (c + 1)) * MonthDays \in Nat
      BY DEF MonthDays
    <3>4. /\ HalfEven((m * c) * MonthDays, MonthDays) <= HalfEven(m * e, MonthDays)
          /\ HalfEven(m * e, MonthDays) <= HalfEven((m * (c + 1)) * MonthDays, MonthDays)
      BY <3>2, <3>3, HalfEvenGrows
    <3>. QED
      BY <2>4, <2>5, <3>1, <3>3, <3>4, HalfEvenOfWhole
  <2>. QED
    BY <2>1, <2>6, <2>7 DEF MonthDays
<1>. QED
  BY <1>1, <1>2

-----------------------------------------------------------------------------
(* Finite sets *)

\* A collection of subsets of a finite set has a smallest one: the form in which
\* induction over finite sets can be used here.
LEMMA SmallestSubset ==
  ASSUME NEW S, IsFiniteSet(S), NEW C \in SUBSET SUBSET S, C # {}
  PROVE  \E T \in C : \A U \in C : U \subseteq T => U = T
<1>. DEFINE R == StrictSubsetOrdering(S)
<1>1. IsWellFoundedOn(R, SUBSET S)
  BY FS_StrictSubsetOrderingWellFounded, FS_FiniteSubsetsOfFinite
<1>2. \E T \in C : \A U \in C : ~ (<<U, T>> \in R)
  <2>. HIDE DEF R
  <2>. QED
    BY <1>1, WFMin
<1>3. ASSUME NEW T \in C, NEW U \in C, U \subseteq T, U # T PROVE <<U, T>> \in R
  BY <1>3 DEF StrictSubsetOrdering
<1>. QED
  BY <1>2, <1>3

One(s) == CHOOSE x \in s : TRUE

LEMMA OneIn == \A s : s # {} => One(s) \in s
BY DEF One

\* g has the sum of v over each subset of S.
Sums(g, v, S) ==
  g = [s \in SUBSET S |-> IF s = {} THEN 0 ELSE v[One(s)] + g[s \ {One(s)}]]

LEMMA SumsAgree ==
  ASSUME NEW S, IsFiniteSet(S), NEW T, NEW v, NEW w, NEW g, NEW h,
         Sums(g, v, S), Sums(h, w, T), S \subseteq T, \A x \in S : v[x] = w[x]
  PROVE  \A s \in SUBSET S : g[s] = h[s]
<1>. DEFINE C == {s \in SUBSET S : g[s] # h[s]}
<1>. SUFFICES ASSUME C # {} PROVE FALSE
  OBVIOUS
<1>1. PICK s \in C : \A U \in C : U \subseteq s => U = s
  <2>1. C \in SUBSET SUBSET S
    OBVIOUS
  <2>. HIDE DEF C
  <2>. QED
    BY <2>1, SmallestSubset
<1>2. /\ s \in SUBSET S /\ s \in SUBSET T /\ g[s] # h[s]
  OBVIOUS
<1>3. g[s] = (IF s = {} THEN 0 ELSE v[One(s)] + g[s \ {One(s)}])
  BY <1>2 DEF Sums
<1>4. h[s] = (IF s = {} THEN 0 ELSE w[One(s)] + h[s \ {One(s)}])
  BY <1>2 DEF Sums
<1>5. s # {} /\ One(s) \in s
  BY <1>2, <1>3, <1>4, OneIn
<1>6. g[s \ {One(s)}] = h[s \ {One(s)}]
  BY <1>1, <1>2, <1>5
<1>. QED
  BY <1>2, <1>3, <1>4, <1>5, <1>6

LEMMA SumsExist ==
  ASSUME NEW S, IsFiniteSet(S), NEW v
  PROVE  \E g : Sums(g, v, S)
<1>. DEFINE C == {T \in SUBSET S : ~ \E g : Sums(g, v, T)}
<1>. SUFFICES ASSUME C # {} PROVE FALSE
  OBVIOUS
<1>1. PICK T \in C : \A U \in C : U \subseteq T => U = T
  <2>1. C \in SUBSET SUBSET S
    OBVIOUS
  <2>. HIDE DEF C
  <2>. QED
    BY <2>1, SmallestSubset
<1>. DEFINE G(U) == CHOOSE g : Sums(g, v, U)
            h == [s \in SUBSET T |->
                   IF s = T
                   THEN IF s = {} THEN 0 ELSE v[One(s)] + G(s \ {One(s)})[s \ {One(s)}]
                   ELSE G(s)[s]]
<1>2. ASSUME NEW U \in SUBSET T, U # T PROVE Sums(G(U), v, U)
  <2>1. \E g : Sums(g, v, U)
    BY <1>1, <1>2
  <2>. QED
    BY <2>1
<1>. HIDE DEF G
<1>3. \A U \in SUBSET T : IsFiniteSet(U)
  BY FS_Subset
<1>4. ASSUME NEW s \in SUBSET T
      PROVE  h[s] = IF s = {} THEN 0 ELSE v[One(s)] + h[s \ {One(s)}]
  <2>1. CASE s = {} /\ s = T
    BY <2>1
  <2>2. CASE s = {} /\ s # T
    <3>1. G(s)[s] = 0
      BY <1>2, <2>2 DEF Sums
    <3>. QED
      BY <2>2, <3>1
  <2>3. CASE s # {}
    <3>. DEFINE r == s \ {One(s)}
    <3>1. r \in SUBSET T /\ r \subseteq s /\ r # T /\ r # s
      BY <2>3, OneIn
    <3>2. h[r] = G(r)[r]
      BY <3>1
    <3>3. CASE s = T
      BY <2>3, <3>2, <3>3
    <3>4. CASE s # T
      <4>1. Sums(G(s), v, s) /\ Sums(G(r), v, r)
        BY <1>2, <3>1, <3>4
      <4>2. G(s)[s] = v[One(s)] + G(s)[r]
        BY <2>3, <4>1 DEF Sums
      <4>3. G(r)[r] = G(s)[r]
        <5>. HIDE DEF r
        <5>. QED
          BY <1>3, <3>1, <4>1, SumsAgree
      <4>4. h[s] = G(s)[s]
        BY <3>4
      <4>. QED
        BY <2>3, <3>2, <4>2, <4>3, <4>4
    <3>. QED
      BY <3>3, <3>4
  <2>. QED
    BY <2>1, <2>2, <2>3
<1>5. Sums(h, v, T)
  <2>1. h = [s \in SUBSET T |-> h[s]]
    OBVIOUS
  <2>. HIDE DEF h
  <2>. QED
    BY <1>4, <2>1 DEF Sums
<1>. QED
  BY <1>5

SumOver(v, S) == (CHOOSE g : Sums(g, v, S))[S]

LEMMA SumOverSums ==
  ASSUME NEW S, IsFiniteSet(S), NEW v
  PROVE  /\ \E g : Sums(g, v, S) /\ SumOver(v, S) = g[S]
         /\ \A g : Sums(g, v, S) => SumOver(v, S) = g[S]
<1>. DEFINE h == CHOOSE g : Sums(g, v, S)
<1>1. Sums(h, v, S)
  BY SumsExist
<1>2. SumOver(v, S) = h[S]
  BY DEF SumOver
<1>. HIDE DEF h
<1>3. ASSUME NEW g, Sums(g, v, S) PROVE g[S] = h[S]
  BY <1>1, <1>3, SumsAgree
<1>. QED
  BY <1>1, <1>2, <1>3

LEMMA SumOfNothing == \A v : SumOver(v, {}) = 0
<1>. TAKE v
<1>1. PICK g : Sums(g, v, {}) /\ SumOver(v, {}) = g[{}]
  BY SumOverSums, FS_EmptySet
<1>. QED
  BY <1>1 DEF Sums

LEMMA SumTakesOne ==
  ASSUME NEW S, IsFiniteSet(S), S # {}, NEW v
  PROVE  /\ One(S) \in S
         /\ SumOver(v, S) = v[One(S)] + SumOver(v, S \ {One(S)})
<1>. DEFINE R == S \ {One(S)}
<1>1. One(S) \in S /\ R \subseteq S /\ IsFiniteSet(R)
  BY OneIn, FS_Subset
<1>2. PICK g : Sums(g, v, S) /\ SumOver(v, S) = g[S]
  BY SumOverSums
<1>3. PICK h : Sums(h, v, R) /\ SumOver(v, R) = h[R]
  BY <1>1, SumOverSums
<1>4. h[R] = g[R]
  <2>. HIDE DEF R
  <2>. QED
    BY <1>1, <1>2, <1>3, SumsAgree
<1>5. g[S] = v[One(S)] + g[R]
  BY <1>2 DEF Sums
<1>. QED
  BY <1>1, <1>2, <1>3, <1>4, <1>5

LEMMA SumType ==
  ASSUME NEW S, IsFiniteSet(S), NEW v, \A x \in S : v[x] \in Int
  PROVE  SumOver(v, S) \in Int
<1>. DEFINE C == {T \in SUBSET S : SumOver(v, T) \notin Int}
<1>. SUFFICES ASSUME C # {} PROVE FALSE
  OBVIOUS
<1>1. PICK T \in C : \A U \in C : U \subseteq T => U = T
  <2>1. C \in SUBSET SUBSET S
    OBVIOUS
  <2>. HIDE DEF C
  <2>. QED
    BY <2>1, SmallestSubset
<1>2. IsFiniteSet(T) /\ T \in SUBSET S /\ SumOver(v, T) \notin Int
  BY FS_Subset
<1>2a. T # {}
  BY <1>2, SumOfNothing
<1>3. One(T) \in T /\ SumOver(v, T) = v[One(T)] + SumOver(v, T \ {One(T)})
  BY <1>2, <1>2a, SumTakesOne
<1>4. SumOver(v, T \ {One(T)}) \in Int
  BY <1>1, <1>2, <1>3
<1>. QED
  BY <1>2, <1>3, <1>4

LEMMA SumNat ==
  ASSUME NEW S, IsFiniteSet(S), NEW v, \A x \in S : v[x] \in Nat
  PROVE  SumOver(v, S) \in Nat
<1>. DEFINE C == {T \in SUBSET S : SumOver(v, T) \notin Nat}
<1>. SUFFICES ASSUME C # {} PROVE FALSE
  OBVIOUS
<1>1. PICK T \in C : \A U \in C : U \subseteq T => U = T
  <2>1. C \in SUBSET SUBSET S
    OBVIOUS
  <2>. HIDE DEF C
  <2>. QED
    BY <2>1, SmallestSubset
<1>2. IsFiniteSet(T) /\ T \in SUBSET S /\ SumOver(v, T) \notin Nat
  BY FS_Subset
<1>3. T # {}
  BY <1>2, SumOfNothing
<1>4. One(T) \in T /\ SumOver(v, T) = v[One(T)] + SumOver(v, T \ {One(T)})
  BY <1>2, <1>3, SumTakesOne
<1>5. SumOver(v, T \ {One(T)}) \in Nat
  BY <1>1, <1>2, <1>4
<1>. QED
  BY <1>2, <1>4, <1>5

\* The order in which elements are taken does not matter.
LEMMA SumWithout ==
  ASSUME NEW S, IsFiniteSet(S), NEW v, \A x \in S : v[x] \in Int, NEW e \in S
  PROVE  SumOver(v, S) = v[e] + SumOver(v, S \ {e})
<1>. DEFINE C == {T \in SUBSET S : \E x \in T : SumOver(v, T) # v[x] + SumOver(v, T \ {x})}
<1>. SUFFICES ASSUME C # {} PROVE FALSE
  OBVIOUS
<1>1. PICK T \in C : \A U \in C : U \subseteq T => U = T
  <2>1. C \in SUBSET SUBSET S
    OBVIOUS
  <2>. HIDE DEF C
  <2>. QED
    BY <2>1, SmallestSubset
<1>2. T \in SUBSET S /\ IsFiniteSet(T)
  BY FS_Subset
<1>3. PICK x \in T : SumOver(v, T) # v[x] + SumOver(v, T \ {x})
  OBVIOUS
<1>4. PICK y : y = One(T)
  OBVIOUS
<1>5. y \in T /\ SumOver(v, T) = v[y] + SumOver(v, T \ {y}) /\ x # y
  BY <1>2, <1>3, <1>4, SumTakesOne
<1>6. \A U \in SUBSET T : U # T => \A z \in U : SumOver(v, U) = v[z] + SumOver(v, U \ {z})
  BY <1>1, <1>2
<1>7. SumOver(v, T \ {y}) = v[x] + SumOver(v, (T \ {y}) \ {x})
  BY <1>5, <1>6
<1>8. SumOver(v, T \ {x}) = v[y] + SumOver(v, (T \ {x}) \ {y})
  BY <1>3, <1>5, <1>6
<1>9. (T \ {y}) \ {x} = (T \ {x}) \ {y}
  OBVIOUS
<1>10. /\ (T \ {x}) \ {y} \in SUBSET T
       /\ \A z \in (T \ {x}) \ {y} : v[z] \in Int
       /\ v[x] \in Int /\ v[y] \in Int
  BY <1>2, <1>5
<1>11. PICK k \in Int : k = SumOver(v, (T \ {x}) \ {y})
  BY <1>2, <1>10, SumType, FS_Subset
<1>12. SumOver(v, T \ {y}) = v[x] + k /\ SumOver(v, T \ {x}) = v[y] + k
  BY <1>7, <1>8, <1>9, <1>11
<1>13. v[y] + (v[x] + k) = v[x] + (v[y] + k)
  BY <1>10
<1>. QED
  BY <1>3, <1>5, <1>12, <1>13

LEMMA SumWith ==
  ASSUME NEW S, IsFiniteSet(S), NEW k, k \notin S, NEW v, \A x \in S \cup {k} : v[x] \in Int
  PROVE  SumOver(v, S) \in Int /\ SumOver(v, S \cup {k}) = v[k] + SumOver(v, S)
<1>1. IsFiniteSet(S \cup {k}) /\ (S \cup {k}) \ {k} = S
  BY FS_AddElement
<1>2. SumOver(v, S \cup {k}) = v[k] + SumOver(v, (S \cup {k}) \ {k})
  BY <1>1, SumWithout
<1>. QED
  BY <1>1, <1>2, SumType

LEMMA SumUnion ==
  ASSUME NEW A, NEW B, IsFiniteSet(A), IsFiniteSet(B), A \cap B = {},
         NEW v, \A x \in A \cup B : v[x] \in Int
  PROVE  SumOver(v, A \cup B) = SumOver(v, A) + SumOver(v, B)
<1>. DEFINE C == {T \in SUBSET A : SumOver(v, T \cup B) # SumOver(v, T) + SumOver(v, B)}
<1>. SUFFICES ASSUME C # {} PROVE FALSE
  OBVIOUS
<1>1. PICK T \in C : \A U \in C : U \subseteq T => U = T
  <2>1. C \in SUBSET SUBSET A
    OBVIOUS
  <2>. HIDE DEF C
  <2>. QED
    BY <2>1, SmallestSubset
<1>2. T \in SUBSET A /\ IsFiniteSet(T) /\ IsFiniteSet(T \cup B)
  BY FS_Subset, FS_Union
<1>3. SumOver(v, B) \in Int
  BY SumType
<1>4. T # {}
  <2>. SUFFICES ASSUME T = {} PROVE FALSE
    OBVIOUS
  <2>1. T \cup B = B
    OBVIOUS
  <2>. QED
    BY <1>3, <2>1, SumOfNothing
<1>5. PICK x : x \in T
  BY <1>4
<1>6. SumOver(v, T) = v[x] + SumOver(v, T \ {x})
  BY <1>2, <1>5, SumWithout
<1>7. SumOver(v, T \cup B) = v[x] + SumOver(v, (T \cup B) \ {x})
  BY <1>2, <1>5, SumWithout
<1>8. (T \cup B) \ {x} = (T \ {x}) \cup B
  BY <1>2, <1>5
<1>9. SumOver(v, (T \ {x}) \cup B) = SumOver(v, T \ {x}) + SumOver(v, B)
  BY <1>1, <1>2, <1>5
<1>10. /\ T \ {x} \in SUBSET T /\ \A z \in T \ {x} : v[z] \in Int
       /\ v[x] \in Int
  BY <1>2, <1>5
<1>11. PICK k \in Int : k = SumOver(v, T \ {x})
  BY <1>2, <1>10, SumType, FS_Subset
<1>12. PICK m \in Int : m = SumOver(v, B)
  BY <1>3
<1>13. SumOver(v, T) = v[x] + k /\ SumOver(v, T \cup B) = v[x] + (k + m)
  BY <1>6, <1>7, <1>8, <1>9, <1>11, <1>12
<1>14. v[x] + (k + m) = (v[x] + k) + m
  BY <1>10
<1>15. SumOver(v, T \cup B) # SumOver(v, T) + SumOver(v, B)
  OBVIOUS
<1>. QED
  BY <1>12, <1>13, <1>14, <1>15

LEMMA Greatest ==
  ASSUME NEW S, IsFiniteSet(S), \A x \in S : x \in Int, S # {}
  PROVE  \E x \in S : \A y \in S : y <= x
<1>. DEFINE C == {T \in SUBSET S : T # {} /\ ~ \E x \in T : \A y \in T : y <= x}
<1>. SUFFICES ASSUME C # {} PROVE FALSE
  OBVIOUS
<1>1. PICK T \in C : \A U \in C : U \subseteq T => U = T
  <2>1. C \in SUBSET SUBSET S
    OBVIOUS
  <2>. HIDE DEF C
  <2>. QED
    BY <2>1, SmallestSubset
<1>2. T \in SUBSET S /\ T # {} /\ ~ \E x \in T : \A y \in T : y <= x
  OBVIOUS
<1>3. PICK x \in T : TRUE
  BY <1>2
<1>. DEFINE U == T \ {x}
<1>4. U # T /\ U \in SUBSET S /\ U \subseteq T
  BY <1>2, <1>3
<1>5. U = {} \/ \E y \in U : \A z \in U : z <= y
  BY <1>1, <1>4
<1>. QED
  BY <1>2, <1>3, <1>5

LEMMA MaxOf ==
  ASSUME NEW S, IsFiniteSet(S), \A x \in S : x \in Int, S # {}
  PROVE  Max(S) \in S /\ \A x \in S : x <= Max(S)
<1>1. PICK x \in S : \A y \in S : x >= y
  <2>1. PICK x \in S : \A y \in S : y <= x
    BY Greatest
  <2>. QED
    BY <2>1
<1>2. Max(S) \in S /\ \A y \in S : Max(S) >= y
  BY <1>1 DEF Max
<1>. QED
  BY <1>2
=============================================================================
