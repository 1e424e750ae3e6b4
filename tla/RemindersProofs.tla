---------------------------- MODULE RemindersProofs --------------------------
(***************************************************************************)
(* Theorems about Reminders, for any number of loans, tenants, workers and *)
(* runs: a borrower is messaged once a month, the rows say what was sent,  *)
(* and a run that finishes has tried everybody it should.                  *)
(***************************************************************************)
EXTENDS Reminders, TLAPS

LoanStatus == {"active", "overdue", "deleted"}

Rows == [Key -> Status \cup {"none"}]

TypeInv ==
  /\ contact \in [Loans -> Contacts]
  /\ status \in [Loans -> LoanStatus]
  /\ owed \in [Loans -> 0..MaxOwed]
  /\ row \in Rows
  /\ run \in [Workers -> Run \cup {None}]
  /\ sent \in [Months -> [Loans -> Nat]]
  /\ tangled \subseteq Months \X Loans

\* A run is at no loan exactly while it looks for the next one, and holds no row
\* when it comes to the e-mail.
SoundRun(r) ==
  r # None => /\ r.at = None <=> r.stage = "list"
              /\ r.stage = "email" => r.place = None

\* The run has taken the WhatsApp row of the loan and not yet saved it.
Holds(r, m, l) == r # None /\ r.month = m /\ r.at = l /\ r.stage \in {"send", "save"}

\* At most one run holds the row, and what it has heard from the gateway is what
\* was sent; between two holders the row says it.
Untangled(m, l) ==
  /\ sent[m][l] <= 1
  /\ \A v, w \in Workers : Holds(run[v], m, l) /\ Holds(run[w], m, l) => v = w
  /\ \A w \in Workers : Holds(run[w], m, l) =>
       /\ run[w].stage = "send" => sent[m][l] = 0
       /\ run[w].stage = "save" => (run[w].result = "sent" <=> sent[m][l] > 0)
  /\ (\A w \in Workers : ~Holds(run[w], m, l)) /\ status[l] # "deleted"
       => (row[Wa(m, l)] = "sent" <=> sent[m][l] > 0)

\* Whoever was listed is active until something changes, and is on the list still,
\* having a turn, or done.
OnCourse(r) ==
  r # None =>
    \A l \in r.steady :
      /\ status[l] = "active"
      /\ contact[l].phone /\ owed[l] > 0 =>
           l \in r.loans \/ Holds(r, r.month, l) \/ Reminded(r.month, l)

\* The row a run holds stands where the run found it, unless the super-admin put it
\* elsewhere.
InPlace(r) ==
  r # None /\ r.place # None => r.place = Wa(r.month, r.at) \/ Touched({r.place}) \subseteq tangled

RemindersInv ==
  /\ TypeInv
  /\ \A w \in Workers : SoundRun(run[w]) /\ OnCourse(run[w]) /\ InPlace(run[w])
  /\ \A m \in Months, l \in Loans : <<m, l>> \in tangled \/ Untangled(m, l)

-----------------------------------------------------------------------------
(* Writing rows *)

LEMMA Keys ==
  /\ \A m \in Months, l \in Loans : Wa(m, l) \in Key /\ Mail(m, l) \in Key
  /\ \A m, n \in Months, l, j \in Loans :
       Mail(n, j) # Wa(m, l) /\ (Wa(n, j) = Wa(m, l) => n = m /\ j = l)
BY DEF Wa, Mail, Key, Channels

LEMMA WriteRow ==
  ASSUME TypeInv, NEW k \in Key, NEW s \in Status \cup {"none"}, row' = [row EXCEPT ![k] = s]
  PROVE  row' \in Rows /\ row'[k] = s /\ \A j \in Key \ {k} : row'[j] = row[j]
BY DEF TypeInv, Rows

\* Touching a WhatsApp row tangles its month and loan.
LEMMA TouchedPairs ==
  /\ \A keys \in SUBSET Key : Touched(keys) \subseteq Months \X Loans
  /\ \A keys : \A m \in Months, l \in Loans : Wa(m, l) \in keys => <<m, l>> \in Touched(keys)
<1>1. ASSUME NEW keys \in SUBSET Key PROVE Touched(keys) \subseteq Months \X Loans
  BY DEF Touched, Key
<1>2. ASSUME NEW keys, NEW m \in Months, NEW l \in Loans, Wa(m, l) \in keys
      PROVE  <<m, l>> \in Touched(keys)
  <2>1. Wa(m, l)[1] = m /\ Wa(m, l)[2] = l /\ Wa(m, l)[3] = "whatsapp"
    BY DEF Wa
  <2>. QED
    BY <1>2, <2>1 DEF Touched
<1>. QED
  BY <1>1, <1>2

-----------------------------------------------------------------------------
(* Steps of a run *)

LEMMA InitReminders == Init => RemindersInv
<1>. SUFFICES ASSUME Init PROVE RemindersInv
  OBVIOUS
<1>2. TypeInv
  BY DEF Init, TypeInv, LoanStatus, Rows
<1>3. \A w \in Workers : run[w] = None
  BY DEF Init
<1>4. \A m \in Months, l \in Loans : sent[m][l] = 0 /\ row[Wa(m, l)] = "none"
  BY Keys DEF Init
<1>. QED
  BY <1>2, <1>3, <1>4 DEF RemindersInv, SoundRun, OnCourse, InPlace, Untangled, Holds

\* A step in which a run takes or saves no row: it neither starts nor stops to
\* hold one, or it ends and what it held is tangled.
LEMMA QuietStep ==
  ASSUME RemindersInv, NEW w \in Workers, NEW r \in Run \cup {None},
         run' = [run EXCEPT ![w] = r], UNCHANGED <<contact, status, owed, sent>>,
         row' \in Rows,
         \A m \in Months, l \in Loans : row'[Wa(m, l)] = row[Wa(m, l)],
         tangled' \subseteq Months \X Loans, tangled \subseteq tangled',
         \A m \in Months, l \in Loans : Holds(run[w], m, l) => <<m, l>> \in tangled',
         \A m \in Months, l \in Loans : ~Holds(r, m, l),
         SoundRun(r), OnCourse(r), InPlace(r)
  PROVE  RemindersInv'
<1>1. TypeInv /\ run'[w] = r /\ \A v \in Workers \ {w} : run'[v] = run[v]
  BY DEF RemindersInv, TypeInv
<1>2. TypeInv'
  BY <1>1 DEF TypeInv
<1>3. ASSUME NEW k \in Run \cup {None}, OnCourse(k) PROVE OnCourse(k)'
  <2>1. ASSUME k # None, NEW l \in k.steady, contact[l].phone, owed[l] > 0
        PROVE  l \in k.loans \/ Holds(k, k.month, l) \/ Reminded(k.month, l)'
    <3>1. k.month \in Months /\ l \in Loans
      BY <2>1 DEF Run
    <3>. QED
      BY <1>3, <2>1, <3>1 DEF OnCourse, Reminded
  <2>. QED
    BY <1>3, <2>1 DEF OnCourse, Holds
<1>4. \A v \in Workers : SoundRun(run[v])' /\ OnCourse(run[v])' /\ InPlace(run[v])'
  BY <1>1, <1>3 DEF RemindersInv, SoundRun, InPlace, TypeInv
<1>5. ASSUME NEW m \in Months, NEW l \in Loans, <<m, l>> \notin tangled'
      PROVE  Untangled(m, l)'
  <2>1. Untangled(m, l) /\ ~Holds(run[w], m, l)
    BY <1>5 DEF RemindersInv
  <2>2. \A v \in Workers : Holds(run[v], m, l)' => v # w /\ Holds(run[v], m, l)
    BY <1>1 DEF Holds
  <2>3. \A v \in Workers : Holds(run[v], m, l) => v # w /\ Holds(run[v], m, l)'
    BY <1>1, <2>1 DEF Holds
  <2>. QED
    BY <1>1, <2>1, <2>2, <2>3 DEF Untangled
<1>. QED
  BY <1>2, <1>4, <1>5 DEF RemindersInv

\* The end of a run.
LEMMA EndStep ==
  ASSUME RemindersInv, NEW w \in Workers, run[w] # None, EndsHere(w),
         UNCHANGED <<contact, status, owed, sent>>,
         row' \in Rows,
         \A m \in Months, l \in Loans : row'[Wa(m, l)] = row[Wa(m, l)]
  PROVE  RemindersInv'
<1>1. TypeInv /\ run[w] \in Run /\ SoundRun(run[w])
  BY DEF RemindersInv, TypeInv
<1>2. run' = [run EXCEPT ![w] = None] /\ tangled \subseteq tangled'
  BY DEF EndsHere
<1>3. tangled' \subseteq Months \X Loans
  BY <1>1 DEF EndsHere, TypeInv, Run, SoundRun
<1>4. \A m \in Months, l \in Loans : Holds(run[w], m, l) => <<m, l>> \in tangled'
  BY DEF EndsHere, Holds
<1>5. SoundRun(None) /\ OnCourse(None) /\ InPlace(None) /\ \A m \in Months, l \in Loans : ~Holds(None, m, l)
  BY DEF SoundRun, OnCourse, InPlace, Holds
<1>. QED
  BY <1>2, <1>3, <1>4, <1>5, QuietStep

\* A run that moves on with its list, at no loan.
LEMMA ListStep ==
  ASSUME RemindersInv, NEW w \in Workers, NEW r \in Run,
         run' = [run EXCEPT ![w] = r], UNCHANGED <<contact, status, owed, row, sent, tangled>>,
         run[w] = None \/ run[w].stage \in {"list", "email"},
         r.stage = "list", r.at = None, OnCourse(r), InPlace(r)
  PROVE  RemindersInv'
<1>1. TypeInv
  BY DEF RemindersInv
<1>2. row' \in Rows /\ tangled' \subseteq Months \X Loans
  BY <1>1 DEF TypeInv
<1>3. \A m \in Months, l \in Loans : ~Holds(run[w], m, l) /\ ~Holds(r, m, l)
  BY DEF Holds
<1>. QED
  BY <1>2, <1>3, QuietStep DEF SoundRun

LEMMA StartStep ==
  ASSUME RemindersInv, NEW w \in Workers, NEW m \in Months, Start(w, m)
  PROVE  RemindersInv'
<1>. DEFINE r == [month |-> m, tenants |-> Tenants, loans |-> {}, at |-> None, stage |-> "list",
                  result |-> "failed", place |-> None, steady |-> {}]
<1>1. r \in Run /\ r.stage = "list" /\ r.at = None /\ r.place = None /\ r.steady = {}
  BY DEF Run
<1>2. /\ run' = [run EXCEPT ![w] = r] /\ run[w] = None
      /\ UNCHANGED <<contact, status, owed, row, sent, tangled>>
  BY DEF Start
<1>. HIDE DEF r
<1>3. OnCourse(r) /\ InPlace(r)
  BY <1>1 DEF OnCourse, InPlace
<1>. QED
  BY <1>1, <1>2, <1>3, ListStep

LEMMA NextTenantStep ==
  ASSUME RemindersInv, NEW w \in Workers, NEW t \in Tenants, NextTenant(w, t)
  PROVE  RemindersInv'
<1>. DEFINE k == run[w]
            listed == {l \in Loans : TenantOf[l] = t /\ status[l] = "active"}
            r == [k EXCEPT !.tenants = @ \ {t}, !.loans = listed, !.steady = @ \cup listed]
<1>1. /\ TypeInv /\ k \in Run /\ k # None /\ SoundRun(k) /\ OnCourse(k) /\ InPlace(k)
      /\ k.stage = "list" /\ k.loans = {}
  BY DEF NextTenant, At, RemindersInv, TypeInv
<1>2. /\ r \in Run /\ r.stage = "list" /\ r.at = k.at /\ r.month = k.month /\ r.place = k.place
      /\ r.loans = listed /\ r.steady = k.steady \cup listed
  BY <1>1 DEF Run
<1>3. UNCHANGED <<contact, status, owed, row, sent, tangled>>
  BY DEF NextTenant
<1>4. run' = [run EXCEPT ![w] = r]
  <2>1. run' = [run EXCEPT ![w].tenants = @ \ {t}, ![w].loans = listed, ![w].steady = @ \cup listed]
    BY DEF NextTenant
  <2>. QED
    BY <1>1, <2>1 DEF TypeInv
<1>5. OnCourse(r) /\ InPlace(r)
  BY <1>1, <1>2 DEF OnCourse, InPlace, Holds
<1>. HIDE DEF r
<1>. QED
  BY <1>1, <1>2, <1>3, <1>4, <1>5, ListStep DEF SoundRun

LEMMA TurnOverStep ==
  ASSUME RemindersInv, NEW w \in Workers, NEW l \in Loans, PassOver(w, l) \/ AlreadySent(w, l)
  PROVE  RemindersInv'
<1>. DEFINE k == run[w]
            r == [k EXCEPT !.loans = @ \ {l}]
<1>1. /\ TypeInv /\ k \in Run /\ k # None /\ SoundRun(k) /\ OnCourse(k) /\ InPlace(k)
      /\ k.stage = "list"
      /\ UNCHANGED <<contact, status, owed, row, sent, tangled>>
  BY DEF PassOver, AlreadySent, ToRemind, Turn, At, RemindersInv, TypeInv
<1>2. /\ r \in Run /\ r.stage = "list" /\ r.at = k.at /\ r.month = k.month /\ r.place = k.place
      /\ r.loans = k.loans \ {l} /\ r.steady = k.steady
  BY <1>1 DEF Run
<1>3. run' = [run EXCEPT ![w] = r]
  <2>1. run' = [run EXCEPT ![w].loans = @ \ {l}]
    BY DEF PassOver, AlreadySent
  <2>. QED
    BY <1>1, <2>1 DEF TypeInv
<1>. HIDE DEF r
<1>4. \/ ~contact[l].phone \/ Due(l) = 0
      \/ row[Wa(k.month, l)] = "sent"
  BY DEF PassOver, AlreadySent
<1>5. ASSUME l \in k.steady, contact[l].phone, owed[l] > 0
      PROVE  Reminded(k.month, l)
  <2>1. Due(l) = owed[l]
    BY <1>1, <1>5 DEF OnCourse, Due
  <2>2. row[Wa(k.month, l)] = "sent"
    BY <1>1, <1>4, <1>5, <2>1 DEF TypeInv
  <2>. QED
    BY <2>2 DEF Reminded
<1>6. OnCourse(r) /\ InPlace(r)
  BY <1>1, <1>2, <1>5 DEF OnCourse, InPlace, Holds
<1>. QED
  BY <1>1, <1>2, <1>3, <1>6, ListStep DEF SoundRun

LEMMA SkipEmailStep ==
  ASSUME RemindersInv, NEW w \in Workers, SkipEmail(w)
  PROVE  RemindersInv'
<1>. DEFINE k == run[w]
            r == [k EXCEPT !.stage = "list", !.at = None]
<1>1. /\ TypeInv /\ k \in Run /\ k # None /\ OnCourse(k) /\ SoundRun(k)
      /\ k.stage = "email"
      /\ UNCHANGED <<contact, status, owed, row, sent, tangled>>
  BY DEF SkipEmail, At, RemindersInv, TypeInv
<1>2. /\ r \in Run /\ r.stage = "list" /\ r.at = None /\ r.month = k.month /\ r.place = k.place
      /\ r.loans = k.loans /\ r.steady = k.steady
  BY <1>1 DEF Run
<1>3. run' = [run EXCEPT ![w] = r]
  <2>1. run' = [run EXCEPT ![w].stage = "list", ![w].at = None]
    BY DEF SkipEmail
  <2>. QED
    BY <1>1, <2>1 DEF TypeInv
<1>4. OnCourse(r) /\ InPlace(r)
  BY <1>1, <1>2 DEF OnCourse, InPlace, SoundRun, Holds
<1>. HIDE DEF r
<1>. QED
  BY <1>1, <1>2, <1>3, <1>4, ListStep

LEMMA FinishStep ==
  ASSUME RemindersInv, NEW w \in Workers, Finish(w)
  PROVE  RemindersInv'
<1>1. /\ run' = [run EXCEPT ![w] = None]
      /\ run[w].stage = "list"
      /\ UNCHANGED <<contact, status, owed, row, sent, tangled>>
  BY DEF Finish, Finished, At
<1>2. row' \in Rows /\ tangled' \subseteq Months \X Loans
  BY <1>1 DEF RemindersInv, TypeInv
<1>3. \A m \in Months, l \in Loans : ~Holds(run[w], m, l) /\ ~Holds(None, m, l)
  BY <1>1 DEF Holds
<1>. QED
  BY <1>1, <1>2, <1>3, QuietStep DEF SoundRun, OnCourse, InPlace

LEMMA EndingStep ==
  ASSUME RemindersInv, NEW w \in Workers,
         LoanIsGone(w) \/ KeyIsTaken(w) \/ Die(w) \/ \E fits \in BOOLEAN : RaiseNameError(w, fits)
  PROVE  RemindersInv'
<1>0. TypeInv /\ SoundRun(run[w]) /\ run[w] \in Run \cup {None}
  BY DEF RemindersInv, TypeInv
<1>1. CASE LoanIsGone(w) \/ KeyIsTaken(w) \/ Die(w)
  <2>1. run[w] # None /\ EndsHere(w) /\ UNCHANGED <<contact, status, owed, row, sent>>
    BY <1>1 DEF LoanIsGone, KeyIsTaken, Die, At, ToRemind, Turn
  <2>2. row' \in Rows
    BY <1>0, <2>1 DEF TypeInv
  <2>. QED
    BY <2>1, <2>2, EndStep
<1>2. ASSUME NEW fits \in BOOLEAN, RaiseNameError(w, fits) PROVE RemindersInv'
  <2>. DEFINE m == run[w].month
              l == run[w].at
  <2>1. /\ run[w] # None /\ run[w].stage = "email" /\ EndsHere(w)
        /\ UNCHANGED <<contact, status, owed, sent>>
        /\ row' = row \/ row' = [row EXCEPT ![Mail(m, l)] = "pending"]
    BY <1>2 DEF RaiseNameError, At
  <2>2. m \in Months /\ l \in Loans
    BY <1>0, <2>1 DEF SoundRun, Run
  <2>3. CASE row' = row
    BY <1>0, <2>1, <2>3, EndStep DEF TypeInv
  <2>4. CASE row' = [row EXCEPT ![Mail(m, l)] = "pending"]
    <3>1. Mail(m, l) \in Key /\ "pending" \in Status \cup {"none"}
      BY <2>2, Keys DEF Status
    <3>2. row' \in Rows /\ \A k \in Key \ {Mail(m, l)} : row'[k] = row[k]
      BY ONLY <1>0, <2>4, <3>1, WriteRow
    <3>3. \A n \in Months, j \in Loans : row'[Wa(n, j)] = row[Wa(n, j)]
      BY <2>2, <3>2, Keys
    <3>. QED
      BY <2>1, <3>2, <3>3, EndStep
  <2>. QED
    BY <2>1, <2>3, <2>4
<1>. QED
  BY <1>1, <1>2

-----------------------------------------------------------------------------
(* Taking a row, sending, saving *)

\* A step of one run about one row: it leaves every other row alone, and nobody's
\* row becomes unsent.
OneRow(w, r, m, l) ==
  /\ run' = [run EXCEPT ![w] = r] /\ UNCHANGED <<contact, status, owed>>
  /\ row' \in Rows /\ sent' \in [Months -> [Loans -> Nat]]
  /\ tangled' = tangled \/ tangled' = tangled \cup {<<m, l>>}
  /\ \A n \in Months, j \in Loans : <<n, j>> # <<m, l>> =>
       /\ row'[Wa(n, j)] = row[Wa(n, j)] \/ <<n, j>> \in tangled
       /\ sent'[n][j] = sent[n][j]
       /\ ~Holds(run[w], n, j) /\ ~Holds(r, n, j)
  /\ row[Wa(m, l)] \in {"sent", "failed"} => row'[Wa(m, l)] \in {"sent", "failed"}

LEMMA HolderStep ==
  ASSUME RemindersInv, NEW w \in Workers, NEW r \in Run,
         NEW m \in Months, NEW l \in Loans, OneRow(w, r, m, l),
         SoundRun(r), OnCourse(r)', InPlace(r),
         <<m, l>> \in tangled' \/ Untangled(m, l)'
  PROVE  RemindersInv'
<1>1. TypeInv /\ run'[w] = r /\ \A v \in Workers \ {w} : run'[v] = run[v]
  BY DEF OneRow, RemindersInv, TypeInv
<1>2. TypeInv'
  BY <1>1 DEF OneRow, TypeInv
<1>3. ASSUME NEW n \in Months, NEW k \in Loans, Reminded(n, k) PROVE Reminded(n, k)'
  BY <1>3 DEF OneRow, Reminded
<1>4. ASSUME NEW v \in Workers \ {w} PROVE SoundRun(run[v])' /\ OnCourse(run[v])' /\ InPlace(run[v])'
  <2>. PICK k : k = run[v]
    OBVIOUS
  <2>1. k \in Run \cup {None} /\ SoundRun(k) /\ OnCourse(k) /\ InPlace(k) /\ run'[v] = k
    BY <1>1 DEF RemindersInv, TypeInv
  <2>2. OnCourse(k)'
    BY <1>3, <2>1 DEF OneRow, OnCourse, Holds, Run
  <2>3. InPlace(k)'
    BY <2>1 DEF OneRow, InPlace
  <2>. QED
    BY <2>1, <2>2, <2>3 DEF SoundRun
<1>5. SoundRun(run[w])' /\ OnCourse(run[w])' /\ InPlace(run[w])'
  BY <1>1 DEF OneRow, SoundRun, InPlace
<1>6. ASSUME NEW n \in Months, NEW k \in Loans, <<n, k>> # <<m, l>>, <<n, k>> \notin tangled'
      PROVE  Untangled(n, k)'
  <2>1. Untangled(n, k) /\ ~Holds(run[w], n, k) /\ ~Holds(r, n, k)
    BY <1>6 DEF OneRow, RemindersInv
  <2>2. \A v \in Workers : Holds(run[v], n, k)' => v # w /\ Holds(run[v], n, k)
    BY <1>1, <2>1 DEF Holds
  <2>3. \A v \in Workers : Holds(run[v], n, k) => v # w /\ Holds(run[v], n, k)'
    BY <1>1, <2>1 DEF Holds
  <2>. QED
    BY <1>1, <1>6, <2>1, <2>2, <2>3 DEF OneRow, Untangled
<1>. QED
  BY <1>2, <1>4, <1>5, <1>6 DEF RemindersInv

LEMMA TakeStep ==
  ASSUME RemindersInv, NEW w \in Workers, NEW l \in Loans, TakeRow(w, l)
  PROVE  RemindersInv'
<1>0. PICK k, m : k = run[w] /\ m = k.month
  OBVIOUS
<1>0a. PICK r : r = [k EXCEPT !.loans = @ \ {l}, !.at = l, !.stage = "send", !.place = Wa(m, l)]
  OBVIOUS
<1>1. /\ TypeInv /\ k \in Run /\ k # None /\ OnCourse(k) /\ m \in Months
      /\ k.stage = "list"
      /\ status[l] # "deleted" /\ row[Wa(m, l)] # "sent"
      /\ UNCHANGED <<contact, status, owed, sent>>
  BY <1>0 DEF TakeRow, ToRemind, Turn, At, RemindersInv, TypeInv, Run
<1>2. /\ r \in Run /\ r.stage = "send" /\ r.at = l /\ r.month = m
      /\ r.loans = k.loans \ {l} /\ r.steady = k.steady /\ r.place = Wa(m, l)
  BY <1>0, <1>0a, <1>1, Keys DEF Run
<1>2a. r # None
  BY <1>0, <1>2, NoneAssumption
<1>3. run' = [run EXCEPT ![w] = r]
  <2>1. run' = [run EXCEPT ![w].loans = @ \ {l}, ![w].at = l, ![w].stage = "send",
                              ![w].place = Wa(m, l)]
    BY <1>0 DEF TakeRow
  <2>. QED
    BY <1>0, <1>0a, <1>1, <2>1 DEF TypeInv
<1>4. /\ row' = IF row[Wa(m, l)] = "none" THEN [row EXCEPT ![Wa(m, l)] = "pending"] ELSE row
      /\ tangled' = IF HeldByOther(w, m, l) THEN tangled \cup {<<m, l>>} ELSE tangled
  BY <1>0 DEF TakeRow
<1>5. /\ row' \in Rows
      /\ \A n \in Months, j \in Loans : <<n, j>> # <<m, l>> => row'[Wa(n, j)] = row[Wa(n, j)]
      /\ row'[Wa(m, l)] = IF row[Wa(m, l)] = "none" THEN "pending" ELSE row[Wa(m, l)]
  <2>1. CASE row[Wa(m, l)] = "none"
    <3>1. Wa(m, l) \in Key /\ "pending" \in Status \cup {"none"}
      BY <1>1, Keys DEF Status
    <3>2. /\ row' \in Rows /\ row'[Wa(m, l)] = "pending"
          /\ \A x \in Key \ {Wa(m, l)} : row'[x] = row[x]
      BY <1>1, <1>4, <2>1, <3>1, WriteRow
    <3>3. \A n \in Months, j \in Loans :
            <<n, j>> # <<m, l>> => row'[Wa(n, j)] = row[Wa(n, j)]
      BY <1>1, <3>2, Keys
    <3>. QED
      BY <2>1, <3>2, <3>3
  <2>2. CASE row[Wa(m, l)] # "none"
    BY <1>1, <1>4, <2>2 DEF TypeInv
  <2>. QED
    BY <2>1, <2>2
<1>6. \A n \in Months, j \in Loans : ~Holds(k, n, j)
  BY <1>0, <1>1 DEF Holds
<1>7. OnCourse(r)'
  <2>1. Holds(r, m, l)
    BY <1>0, <1>2, <1>2a DEF Holds
  <2>2. ASSUME NEW j \in Loans, Reminded(m, j) PROVE Reminded(m, j)'
    BY <1>0, <1>1, <1>4, <1>5, <2>2 DEF Reminded
  <2>3. ASSUME NEW j \in r.steady
        PROVE  /\ status[j] = "active"
               /\ contact[j].phone /\ owed[j] > 0
                    => j \in r.loans \/ Holds(r, m, j) \/ Reminded(m, j)'
    <3>1. j \in Loans
      BY <1>0, <1>2, <2>3 DEF Run
    <3>. QED
      BY <1>0, <1>1, <1>2, <1>6, <2>1, <2>2, <2>3, <3>1 DEF OnCourse
  <2>. QED
    BY <1>0, <1>1, <1>2, <2>3 DEF OnCourse, Holds
<1>8. <<m, l>> \in tangled' \/ Untangled(m, l)'
  <2>. SUFFICES ASSUME <<m, l>> \notin tangled' PROVE Untangled(m, l)'
    OBVIOUS
  <2>1. ~HeldByOther(w, m, l) /\ <<m, l>> \notin tangled
    BY <1>4
  <2>2. \A v \in Workers : ~Holds(run[v], m, l)
    BY <1>0, <1>1, <1>6, <2>1 DEF HeldByOther, Holds
  <2>3. Untangled(m, l)
    BY <1>0, <1>1, <2>1 DEF RemindersInv
  <2>4. sent[m][l] = 0
    BY <1>0, <1>1, <2>2, <2>3 DEF Untangled, TypeInv
  <2>5. run'[w] = r /\ \A v \in Workers \ {w} : run'[v] = run[v]
    BY <1>0, <1>1, <1>3 DEF TypeInv
  <2>6. \A v \in Workers : Holds(run[v], m, l)' <=> v = w
    BY <1>0, <1>2, <1>2a, <2>2, <2>5 DEF Holds
  <2>. QED
    BY <1>0, <1>1, <1>2, <2>4, <2>5, <2>6 DEF Untangled
<1>9. \A n \in Months, j \in Loans : <<n, j>> # <<m, l>> => ~Holds(r, n, j)
  BY <1>0, <1>2 DEF Holds
<1>10. SoundRun(r) /\ InPlace(r) /\ l # None
  BY <1>0, <1>2, PartyAssumption DEF SoundRun, InPlace
<1>11. sent' \in [Months -> [Loans -> Nat]] /\ (tangled' = tangled \/ tangled' = tangled \cup {<<m, l>>})
  BY <1>0, <1>1, <1>4 DEF TypeInv
<1>12. /\ row[Wa(m, l)] \in {"sent", "failed"} => row'[Wa(m, l)] \in {"sent", "failed"}
       /\ \A n \in Months, j \in Loans : <<n, j>> # <<m, l>> =>
            /\ row'[Wa(n, j)] = row[Wa(n, j)] /\ sent'[n][j] = sent[n][j]
            /\ ~Holds(run[w], n, j) /\ ~Holds(r, n, j)
  BY <1>0, <1>1, <1>5, <1>6, <1>9
<1>13. OneRow(w, r, m, l)
  BY <1>0, <1>1, <1>3, <1>5, <1>11, <1>12 DEF OneRow
<1>. QED
  BY <1>0, <1>1, <1>2, <1>7, <1>8, <1>10, <1>13, HolderStep

LEMMA SendStep ==
  ASSUME RemindersInv, NEW w \in Workers, NEW result \in {"sent", "failed"}, Send(w, result)
  PROVE  RemindersInv'
<1>0. PICK k, m, l : k = run[w] /\ m = k.month /\ l = k.at
  OBVIOUS
<1>0a. PICK r : r = [k EXCEPT !.stage = "save", !.result = result]
  OBVIOUS
<1>1. /\ TypeInv /\ k \in Run /\ k # None /\ OnCourse(k) /\ SoundRun(k) /\ InPlace(k)
      /\ k.stage = "send"
      /\ UNCHANGED <<contact, status, owed, row, tangled>>
  BY <1>0 DEF Send, At, RemindersInv, TypeInv
<1>2. m \in Months /\ l \in Loans /\ l # None
  BY <1>0, <1>0a, <1>1 DEF Run, SoundRun
<1>3. /\ r \in Run /\ r.stage = "save" /\ r.at = l /\ r.month = m /\ r.result = result
      /\ r.loans = k.loans /\ r.steady = k.steady /\ r.place = k.place
  BY <1>0, <1>0a, <1>1 DEF Run
<1>4. r # None
  BY <1>3, NoneAssumption
<1>5. run' = [run EXCEPT ![w] = r]
  <2>1. run' = [run EXCEPT ![w].stage = "save", ![w].result = result]
    BY <1>0 DEF Send
  <2>. QED
    BY <1>0, <1>0a, <1>1, <2>1 DEF TypeInv
<1>6. sent' = IF result = "sent" THEN [sent EXCEPT ![m][l] = @ + 1] ELSE sent
  BY <1>0 DEF Send
<1>7. /\ sent' \in [Months -> [Loans -> Nat]]
      /\ \A n \in Months, j \in Loans : <<n, j>> # <<m, l>> => sent'[n][j] = sent[n][j]
      /\ sent'[m][l] = IF result = "sent" THEN sent[m][l] + 1 ELSE sent[m][l]
  <2>. DEFINE mine == [sent[m] EXCEPT ![l] = sent[m][l] + 1]
  <2>1. sent[m] \in [Loans -> Nat] /\ sent[m][l] \in Nat
    BY <1>0, <1>1, <1>2 DEF TypeInv
  <2>2. /\ mine \in [Loans -> Nat] /\ mine[l] = sent[m][l] + 1
        /\ \A j \in Loans \ {l} : mine[j] = sent[m][j]
    BY <2>1, <1>2
  <2>3. result = "sent" => sent' = [sent EXCEPT ![m] = mine]
    BY <1>6
  <2>. HIDE DEF mine
  <2>4. CASE result = "sent"
    <3>1. sent'[m] = mine /\ \A n \in Months \ {m} : sent'[n] = sent[n]
      BY <1>0, <1>1, <1>2, <2>3, <2>4 DEF TypeInv
    <3>. QED
      BY <1>0, <1>1, <1>2, <2>2, <2>3, <2>4, <3>1 DEF TypeInv
  <2>5. CASE result # "sent"
    BY <1>0, <1>1, <1>6, <2>5 DEF TypeInv
  <2>. QED
    BY <2>4, <2>5
<1>8. /\ Holds(k, m, l)
      /\ \A n \in Months, j \in Loans : <<n, j>> # <<m, l>> => ~Holds(k, n, j) /\ ~Holds(r, n, j)
      /\ \A n \in Months, j \in Loans : Holds(k, n, j) => Holds(r, n, j)
  BY <1>0, <1>1, <1>3, <1>4 DEF Holds
<1>9. OnCourse(r)'
  <2>1. ASSUME NEW j \in r.steady
        PROVE  /\ status[j] = "active"
               /\ contact[j].phone /\ owed[j] > 0
                    => j \in r.loans \/ Holds(r, m, j) \/ Reminded(m, j)
    <3>1. j \in Loans
      BY <1>3, <2>1 DEF Run
    <3>. QED
      BY <1>0, <1>1, <1>2, <1>3, <1>8, <2>1, <3>1 DEF OnCourse
  <2>. QED
    BY <1>0, <1>1, <1>3, <2>1 DEF OnCourse, Holds, Reminded
<1>10. <<m, l>> \in tangled' \/ Untangled(m, l)'
  <2>. SUFFICES ASSUME <<m, l>> \notin tangled PROVE Untangled(m, l)'
    BY <1>1
  <2>1. Untangled(m, l)
    BY <1>0, <1>2 DEF RemindersInv
  <2>2. sent[m][l] = 0
    BY <1>0, <1>1, <1>8, <2>1 DEF Untangled
  <2>3. run'[w] = r /\ \A v \in Workers \ {w} : run'[v] = run[v]
    BY <1>0, <1>1, <1>5 DEF TypeInv
  <2>4. \A v \in Workers : Holds(run[v], m, l)' <=> v = w
    BY <1>0, <1>2, <1>8, <2>1, <2>3 DEF Untangled, Holds
  <2>5. sent'[m][l] <= 1 /\ (sent'[m][l] > 0 <=> result = "sent")
    BY <1>7, <2>2
  <2>. QED
    BY <1>3, <2>3, <2>4, <2>5 DEF Untangled
<1>11. SoundRun(r) /\ InPlace(r) /\ row' \in Rows
  BY <1>0, <1>1, <1>2, <1>3 DEF SoundRun, InPlace, TypeInv
<1>12. /\ row'[Wa(m, l)] = row[Wa(m, l)]
       /\ \A n \in Months, j \in Loans : <<n, j>> # <<m, l>> =>
            /\ row'[Wa(n, j)] = row[Wa(n, j)] /\ sent'[n][j] = sent[n][j]
            /\ ~Holds(run[w], n, j) /\ ~Holds(r, n, j)
  BY <1>0, <1>1, <1>7, <1>8
<1>13. OneRow(w, r, m, l)
  BY <1>0, <1>1, <1>5, <1>7, <1>11, <1>12 DEF OneRow
<1>. QED
  BY <1>0, <1>1, <1>2, <1>3, <1>9, <1>10, <1>11, <1>13, HolderStep

LEMMA SaveStep ==
  ASSUME RemindersInv, NEW w \in Workers, SaveRow(w)
  PROVE  RemindersInv'
<1>0. PICK k, m, l : k = run[w] /\ m = k.month /\ l = k.at
  OBVIOUS
<1>1. /\ TypeInv /\ k \in Run /\ k # None /\ OnCourse(k) /\ SoundRun(k) /\ InPlace(k)
      /\ k.stage = "save" /\ status[l] # "deleted"
      /\ UNCHANGED <<contact, status, owed, sent, tangled>>
      /\ row' = Written(w, k.result)
  BY <1>0 DEF SaveRow, At, RemindersInv, TypeInv
<1>2. m \in Months /\ l \in Loans /\ l # None /\ k.result \in {"sent", "failed"}
  BY <1>0, <1>1 DEF Run, SoundRun
<1>3. PICK r : r = AfterSave(w)
  OBVIOUS
<1>4. /\ r \in Run /\ r.stage \in {"list", "email"} /\ r.month = m
      /\ r.at = IF r.stage = "list" THEN None ELSE l
      /\ r.loans = k.loans /\ r.steady = k.steady /\ r.place = None
  BY <1>0, <1>1, <1>2, <1>3 DEF AfterSave, Run
<1>5. run' = [run EXCEPT ![w] = r]
  BY <1>3 DEF SaveRow
<1>6. /\ row' \in Rows /\ row'[Wa(m, l)] = k.result
      /\ \A n \in Months, j \in Loans :
           <<n, j>> # <<m, l>> => row'[Wa(n, j)] = row[Wa(n, j)] \/ <<n, j>> \in tangled
  <2>1. row' = [x \in Key |-> IF x = Wa(m, l) THEN k.result
                              ELSE IF x = k.place THEN "none" ELSE row[x]]
    BY <1>0, <1>1 DEF Written
  <2>2. row' \in Rows /\ row'[Wa(m, l)] = k.result
    BY <1>1, <1>2, <2>1, Keys DEF Status, TypeInv, Rows
  <2>3. ASSUME NEW n \in Months, NEW j \in Loans, <<n, j>> # <<m, l>>
        PROVE  row'[Wa(n, j)] = row[Wa(n, j)] \/ <<n, j>> \in tangled
    <3>1. Wa(n, j) \in Key /\ Wa(n, j) # Wa(m, l)
      BY <1>2, <2>3, Keys
    <3>2. CASE k.place = Wa(n, j)
      <4>1. k.place # None
        BY <3>1, <3>2, NoneAssumption
      <4>2. Touched({k.place}) \subseteq tangled
        BY <1>0, <1>1, <3>1, <3>2, <4>1 DEF InPlace
      <4>. QED
        BY <3>2, <4>2, TouchedPairs
    <3>3. CASE k.place # Wa(n, j)
      BY <2>1, <3>1, <3>3
    <3>. QED
      BY <3>2, <3>3
  <2>. QED
    BY <2>2, <2>3
<1>7. /\ Holds(k, m, l)
      /\ \A n \in Months, j \in Loans : <<n, j>> # <<m, l>> => ~Holds(k, n, j)
      /\ \A n \in Months, j \in Loans : ~Holds(r, n, j)
  BY <1>0, <1>1, <1>4 DEF Holds
<1>8. OnCourse(r)'
  <2>1. ASSUME NEW j \in Loans, Reminded(m, j) \/ Holds(k, m, j) PROVE Reminded(m, j)'
    BY <1>0, <1>1, <1>2, <1>6, <1>7, <2>1 DEF Reminded
  <2>2. ASSUME NEW j \in r.steady
        PROVE  /\ status[j] = "active"
               /\ contact[j].phone /\ owed[j] > 0 => j \in r.loans \/ Reminded(m, j)'
    <3>1. j \in Loans
      BY <1>4, <2>2 DEF Run
    <3>. QED
      BY <1>0, <1>1, <1>4, <2>1, <2>2, <3>1 DEF OnCourse
  <2>. QED
    BY <1>0, <1>1, <1>4, <2>2 DEF OnCourse
<1>9. <<m, l>> \in tangled' \/ Untangled(m, l)'
  <2>. SUFFICES ASSUME <<m, l>> \notin tangled PROVE Untangled(m, l)'
    BY <1>1
  <2>1. Untangled(m, l)
    BY <1>0, <1>2 DEF RemindersInv
  <2>2. sent[m][l] <= 1 /\ (k.result = "sent" <=> sent[m][l] > 0)
    BY <1>0, <1>1, <1>7, <2>1 DEF Untangled
  <2>3. run'[w] = r /\ \A v \in Workers \ {w} : run'[v] = run[v]
    BY <1>0, <1>1, <1>5 DEF TypeInv
  <2>4. \A v \in Workers : ~Holds(run[v], m, l)'
    BY <1>0, <1>2, <1>7, <2>1, <2>3 DEF Untangled, Holds
  <2>. QED
    BY <1>0, <1>1, <1>6, <2>2, <2>4 DEF Untangled
<1>10. SoundRun(r) /\ InPlace(r) /\ sent' \in [Months -> [Loans -> Nat]]
  BY <1>0, <1>1, <1>2, <1>4 DEF SoundRun, InPlace, TypeInv
<1>11. /\ row'[Wa(m, l)] \in {"sent", "failed"}
       /\ \A n \in Months, j \in Loans : <<n, j>> # <<m, l>> =>
            /\ row'[Wa(n, j)] = row[Wa(n, j)] \/ <<n, j>> \in tangled
            /\ sent'[n][j] = sent[n][j]
            /\ ~Holds(run[w], n, j) /\ ~Holds(r, n, j)
  BY <1>0, <1>1, <1>2, <1>6, <1>7
<1>13. OneRow(w, r, m, l)
  BY <1>0, <1>1, <1>5, <1>6, <1>10, <1>11 DEF OneRow
<1>. QED
  BY <1>0, <1>1, <1>2, <1>4, <1>8, <1>9, <1>10, <1>13, HolderStep

-----------------------------------------------------------------------------
(* The world around the runs *)

\* The runs go on as they were, those that listed the loans of S no longer counting
\* on them; the row one holds may have gone, or to where the super-admin put it.
GoOn(S) ==
  /\ run' \in [Workers -> Run \cup {None}]
  /\ \A v \in Workers :
       /\ run'[v] # None <=> run[v] # None
       /\ run[v] # None =>
            /\ run'[v].month = run[v].month /\ run'[v].at = run[v].at
            /\ run'[v].stage = run[v].stage /\ run'[v].result = run[v].result
            /\ run'[v].loans = run[v].loans /\ run'[v].steady = run[v].steady \ S
            /\ \/ run'[v].place \in {run[v].place, None}
               \/ run[v].place # None /\ Touched({run'[v].place}) \subseteq tangled'

ChangedOrGone(l) == run' = Disturbed(l) \/ run' = Bereft(l)

LEMMA DisturbedRuns ==
  ASSUME TypeInv, NEW l \in Loans, ChangedOrGone(l)
  PROVE  GoOn({l})
<1>1. ASSUME NEW v \in Workers, run[v] # None
      PROVE  /\ run'[v] \in Run /\ run'[v] # None
             /\ run'[v].month = run[v].month /\ run'[v].at = run[v].at
             /\ run'[v].stage = run[v].stage /\ run'[v].result = run[v].result
             /\ run'[v].loans = run[v].loans /\ run'[v].steady = run[v].steady \ {l}
             /\ run'[v].place \in {run[v].place, None}
  <2>1. PICK p : /\ run'[v] = [run[v] EXCEPT !.steady = @ \ {l}, !.place = p]
                 /\ p \in {run[v].place, None}
    <3>1. run[v] \in Run
      BY <1>1 DEF TypeInv
    <3>2. CASE run' = Disturbed(l)
      <4>1. run'[v] = [run[v] EXCEPT !.steady = @ \ {l}]
        BY <1>1, <3>2 DEF Disturbed
      <4>2. run'[v] = [run[v] EXCEPT !.steady = @ \ {l}, !.place = run[v].place]
        BY <3>1, <4>1 DEF Run
      <4>. QED
        BY <4>2
    <3>3. CASE run' = Bereft(l)
      <4>. DEFINE p == IF run[v].place # None /\ run[v].place[2] = l THEN None ELSE run[v].place
      <4>1. run'[v] = [run[v] EXCEPT !.steady = @ \ {l}, !.place = p]
        BY <1>1, <3>3 DEF Bereft
      <4>2. p \in {run[v].place, None}
        OBVIOUS
      <4>. HIDE DEF p
      <4>. QED
        BY <4>1, <4>2
    <3>. QED
      BY <3>2, <3>3 DEF ChangedOrGone
  <2>2. run[v] \in Run
    BY <1>1 DEF TypeInv
  <2>3. run'[v] \in Run
    BY <2>1, <2>2 DEF Run
  <2>. QED
    BY <2>1, <2>2, <2>3, NoneAssumption DEF Run
<1>2. ASSUME NEW v \in Workers, run[v] = None PROVE run'[v] = None
  BY <1>2 DEF ChangedOrGone, Disturbed, Bereft
<1>3. \A v \in Workers : run'[v] \in Run \cup {None}
  BY <1>1, <1>2
<1>4. run' = [v \in Workers |-> run'[v]]
  BY DEF ChangedOrGone, Disturbed, Bereft
<1>5. run' \in [Workers -> Run \cup {None}]
  BY <1>3, <1>4
<1>. QED
  BY <1>1, <1>2, <1>5 DEF GoOn

LEMMA MovedRuns ==
  ASSUME TypeInv, NEW k \in Key, NEW to \in Key \cup {None}, run' = Moved(k, to),
         to # None => Touched({to}) \subseteq tangled'
  PROVE  GoOn({})
<1>1. ASSUME NEW v \in Workers, run[v] # None, run[v].place = k
      PROVE  /\ run'[v] \in Run /\ run'[v] # None
             /\ run'[v].month = run[v].month /\ run'[v].at = run[v].at
             /\ run'[v].stage = run[v].stage /\ run'[v].result = run[v].result
             /\ run'[v].loans = run[v].loans /\ run'[v].steady = run[v].steady
             /\ run'[v].place = to
  <2>1. run[v] \in Run /\ run'[v] = [run[v] EXCEPT !.place = to]
    BY <1>1 DEF TypeInv, Moved
  <2>2. run'[v] \in Run
    BY <2>1 DEF Run
  <2>. QED
    BY <2>1, <2>2, NoneAssumption DEF Run
<1>2. ASSUME NEW v \in Workers, ~(run[v] # None /\ run[v].place = k) PROVE run'[v] = run[v]
  BY <1>2 DEF Moved
<1>3. \A v \in Workers : run'[v] \in Run \cup {None}
  BY <1>1, <1>2 DEF TypeInv
<1>4. run' = [v \in Workers |-> run'[v]]
  BY DEF Moved
<1>5. run' \in [Workers -> Run \cup {None}]
  BY <1>3, <1>4
<1>6. k # None
  BY NoneAssumption
<1>. QED
  BY <1>1, <1>2, <1>5, <1>6 DEF GoOn

\* The world moves on: loans change or go, rows are touched by hand.
LEMMA WorldMoves ==
  ASSUME RemindersInv, NEW S \in SUBSET Loans, GoOn(S),
         status' \in [Loans -> LoanStatus], owed' \in [Loans -> 0..MaxOwed],
         row' \in Rows, UNCHANGED <<contact, sent>>,
         tangled \subseteq tangled', tangled' \subseteq Months \X Loans,
         \A k \in Loans \ S : status'[k] = status[k] /\ owed'[k] = owed[k],
         \A m \in Months, k \in Loans \ S :
           row'[Wa(m, k)] = row[Wa(m, k)] \/ <<m, k>> \in tangled',
         \A k \in S : status'[k] = "deleted" \/ (row' = row /\ status[k] # "deleted")
  PROVE  RemindersInv'
<1>1. TypeInv /\ TypeInv'
  BY DEF GoOn, RemindersInv, TypeInv
<1>3. ASSUME NEW v \in Workers PROVE SoundRun(run[v])' /\ OnCourse(run[v])' /\ InPlace(run[v])'
  <2>1. SoundRun(run[v]) /\ OnCourse(run[v]) /\ InPlace(run[v]) /\ run[v] \in Run \cup {None}
    BY <1>1 DEF RemindersInv, TypeInv
  <2>2. SoundRun(run[v])'
    BY <2>1 DEF GoOn, SoundRun
  <2>3. ASSUME run'[v] # None, NEW k \in run'[v].steady
        PROVE  /\ status'[k] = "active"
               /\ contact'[k].phone /\ owed'[k] > 0 =>
                    k \in run'[v].loans \/ Holds(run[v], run[v].month, k)'
                      \/ Reminded(run[v].month, k)'
    <3>1. run[v] # None /\ run[v] \in Run /\ k \in run[v].steady /\ k \in Loans \ S
      BY <2>1, <2>3 DEF GoOn, Run
    <3>2. run[v].month \in Months
      BY <3>1 DEF Run
    <3>3. Holds(run[v], run[v].month, k) => Holds(run[v], run[v].month, k)'
      BY <3>1 DEF GoOn, Holds
    <3>4. Reminded(run[v].month, k) => Reminded(run[v].month, k)'
      BY <3>1, <3>2 DEF GoOn, Reminded
    <3>. QED
      BY <2>1, <3>1, <3>3, <3>4 DEF GoOn, OnCourse
  <2>4. InPlace(run[v])'
    BY <2>1 DEF GoOn, InPlace
  <2>. QED
    BY <2>2, <2>3, <2>4 DEF OnCourse
<1>4. ASSUME NEW m \in Months, NEW k \in Loans, <<m, k>> \notin tangled'
      PROVE  Untangled(m, k)'
  <2>1. Untangled(m, k)
    BY <1>4 DEF RemindersInv
  <2>2. \A v \in Workers : Holds(run[v], m, k)' <=> Holds(run[v], m, k)
    BY DEF GoOn, Holds
  <2>3. \A v \in Workers : Holds(run[v], m, k) =>
          run'[v].stage = run[v].stage /\ run'[v].result = run[v].result
    BY DEF GoOn, Holds
  <2>4. status'[k] # "deleted" => status[k] # "deleted" /\ row'[Wa(m, k)] = row[Wa(m, k)]
    BY <1>4
  <2>. QED
    BY <2>1, <2>2, <2>3, <2>4 DEF Untangled
<1>. QED
  BY <1>1, <1>3, <1>4 DEF RemindersInv

\* A row touched by hand: what became of it, and of the runs.
LEMMA TouchStep ==
  ASSUME RemindersInv, NEW keys \in SUBSET Key, GoOn({}), row' \in Rows,
         UNCHANGED <<contact, status, owed, sent>>,
         tangled' = tangled \cup Touched(keys),
         \A k \in Key \ keys : row'[k] = row[k]
  PROVE  RemindersInv'
<1>1. TypeInv
  BY DEF RemindersInv
<1>2. tangled' \subseteq Months \X Loans
  BY <1>1, TouchedPairs DEF TypeInv
<1>3. \A m \in Months, l \in Loans : row'[Wa(m, l)] = row[Wa(m, l)] \/ <<m, l>> \in tangled'
  BY TouchedPairs, Keys
<1>4. status' \in [Loans -> LoanStatus] /\ owed' \in [Loans -> 0..MaxOwed]
  BY <1>1 DEF TypeInv
<1>. QED
  BY <1>2, <1>3, <1>4, WorldMoves

LEMMA EditStep ==
  ASSUME RemindersInv, NEW k \in Key,
         \/ \E s \in ByHand : PutRow(k, s)
         \/ \E to \in Key : MoveRow(k, to)
         \/ DeleteRow(k)
  PROVE  RemindersInv'
<1>0. TypeInv
  BY DEF RemindersInv
<1>1. ASSUME NEW s \in ByHand, PutRow(k, s) PROVE RemindersInv'
  <2>1. s \in Status /\ run' = run /\ row' = [row EXCEPT ![k] = s]
    BY <1>1, BoundAssumption DEF PutRow
  <2>2. row' \in Rows /\ \A j \in Key \ {k} : row'[j] = row[j]
    BY <1>0, <2>1, WriteRow
  <2>3. GoOn({})
    BY <1>0, <2>1 DEF GoOn, TypeInv
  <2>. QED
    BY <1>1, <2>2, <2>3, TouchStep DEF PutRow
<1>2. ASSUME NEW to \in Key, MoveRow(k, to) PROVE RemindersInv'
  <2>1. /\ row' = [row EXCEPT ![k] = "none", ![to] = row[k]] /\ run' = Moved(k, to)
        /\ tangled' = tangled \cup Touched({k, to})
        /\ UNCHANGED <<contact, status, owed, sent>>
    BY <1>2 DEF MoveRow
  <2>2. row' \in Rows /\ \A j \in Key \ {k, to} : row'[j] = row[j]
    BY <1>0, <2>1 DEF TypeInv, Rows
  <2>3. Touched({to}) \subseteq tangled'
    BY <2>1 DEF Touched
  <2>4. GoOn({})
    BY <1>0, <2>1, <2>3, MovedRuns
  <2>5. {k, to} \in SUBSET Key
    OBVIOUS
  <2>. QED
    BY <2>1, <2>2, <2>4, <2>5, TouchStep
<1>3. ASSUME DeleteRow(k) PROVE RemindersInv'
  <2>1. /\ row' = [row EXCEPT ![k] = "none"] /\ run' = Moved(k, None)
        /\ tangled' = tangled \cup Touched({k})
        /\ UNCHANGED <<contact, status, owed, sent>>
    BY <1>3 DEF DeleteRow
  <2>2. row' \in Rows /\ \A j \in Key \ {k} : row'[j] = row[j]
    BY <1>0, <2>1, WriteRow
  <2>3. GoOn({})
    BY <1>0, <2>1, MovedRuns
  <2>. QED
    BY <2>1, <2>2, <2>3, TouchStep
<1>. QED
  BY <1>1, <1>2, <1>3

LEMMA WorldReminders ==
  ASSUME RemindersInv, WorldStep
  PROVE  RemindersInv'
<1>0. TypeInv
  BY DEF RemindersInv
<1>1. ASSUME NEW l \in Loans, NEW s \in {"active", "overdue"}, NEW n \in 0..MaxOwed,
             ChangeLoan(l, s, n)
      PROVE  RemindersInv'
  <2>1. /\ status' = [status EXCEPT ![l] = s] /\ owed' = [owed EXCEPT ![l] = n]
        /\ ChangedOrGone(l) /\ UNCHANGED <<contact, row, sent, tangled>>
        /\ status[l] # "deleted"
    BY <1>1 DEF ChangeLoan, ChangedOrGone
  <2>2. /\ status' \in [Loans -> LoanStatus] /\ owed' \in [Loans -> 0..MaxOwed]
        /\ row' \in Rows /\ tangled' \subseteq Months \X Loans
        /\ \A k \in Loans \ {l} : status'[k] = status[k] /\ owed'[k] = owed[k]
    BY <1>0, <2>1 DEF TypeInv, LoanStatus
  <2>3. GoOn({l})
    BY <1>0, <2>1, DisturbedRuns
  <2>. QED
    BY <2>1, <2>2, <2>3, WorldMoves
<1>2. ASSUME NEW l \in Loans, DeleteLoan(l) PROVE RemindersInv'
  <2>1. /\ status' = [status EXCEPT ![l] = "deleted"]
        /\ row' = [k \in Key |-> IF k[2] = l THEN "none" ELSE row[k]]
        /\ ChangedOrGone(l) /\ UNCHANGED <<contact, owed, sent, tangled>>
    BY <1>2 DEF DeleteLoan, ChangedOrGone
  <2>2. /\ status' \in [Loans -> LoanStatus] /\ owed' \in [Loans -> 0..MaxOwed]
        /\ status'[l] = "deleted" /\ tangled' \subseteq Months \X Loans
        /\ \A k \in Loans \ {l} : status'[k] = status[k] /\ owed'[k] = owed[k]
    BY <1>0, <2>1 DEF TypeInv, LoanStatus
  <2>3. row' \in Rows
    BY <1>0, <2>1 DEF TypeInv, Rows
  <2>4. \A m \in Months, k \in Loans \ {l} : row'[Wa(m, k)] = row[Wa(m, k)]
    <3>1. \A m \in Months, k \in Loans : Wa(m, k)[2] = k
      BY DEF Wa
    <3>. QED
      BY <2>1, <3>1, Keys
  <2>5. GoOn({l})
    BY <1>0, <2>1, DisturbedRuns
  <2>. QED
    BY <2>1, <2>2, <2>3, <2>4, <2>5, WorldMoves
<1>. QED
  BY <1>1, <1>2, EditStep DEF WorldStep

LEMMA NextReminders == RemindersInv /\ [Next]_vars => RemindersInv'
<1>. SUFFICES ASSUME RemindersInv, [Next]_vars PROVE RemindersInv'
  OBVIOUS
<1>1. ASSUME NEW w \in Workers, RunStep(w) PROVE RemindersInv'
  BY <1>1, StartStep, NextTenantStep, TurnOverStep, TakeStep, SendStep, SaveStep, EndingStep,
     SkipEmailStep, FinishStep DEF RunStep
<1>2. CASE UNCHANGED vars
  <2>1. TypeInv'
    BY <1>2 DEF vars, RemindersInv, TypeInv
  <2>2. ASSUME NEW w \in Workers PROVE SoundRun(run[w])' /\ OnCourse(run[w])' /\ InPlace(run[w])'
    BY <1>2 DEF vars, RemindersInv, SoundRun, OnCourse, InPlace, Holds, Reminded
  <2>3. ASSUME NEW m \in Months, NEW l \in Loans
        PROVE  (<<m, l>> \in tangled \/ Untangled(m, l))'
    BY <1>2 DEF vars, RemindersInv, Untangled, Holds
  <2>. QED
    BY <2>1, <2>2, <2>3 DEF RemindersInv
<1>. QED
  BY <1>1, <1>2, WorldReminders DEF Next

LEMMA AlwaysReminders == Spec => []RemindersInv
BY InitReminders, NextReminders, PTL DEF Spec

-----------------------------------------------------------------------------
(* Theorems *)

\* One message a month: a second one needs two runs at the same row, a run that
\* ended between sending and saving, or an edit by the super-admin.
THEOREM OneMessage == Spec => []OneMessageAMonth
<1>1. RemindersInv => OneMessageAMonth
  BY DEF RemindersInv, TypeInv, Untangled, OneMessageAMonth
<1>. QED
  BY <1>1, AlwaysReminders, PTL

\* Between runs the row of a loan says SENT exactly if a message went out.
THEOREM TruthfulRows == Spec => []RowsTellTheTruth
<1>1. RemindersInv => RowsTellTheTruth
  BY DEF RemindersInv, Untangled, Holds, RowsTellTheTruth
<1>. QED
  BY <1>1, AlwaysReminders, PTL

\* A run that comes to the end of its lists has tried everybody who was listed
\* with dues and a phone and whose loan stayed as it was.
THEOREM CompleteRuns == Spec => FinishedRunsAreComplete
<1>1. ASSUME RemindersInv, NEW w \in Workers, Finished(w), NEW l \in run[w].steady,
             contact[l].phone, owed[l] > 0
      PROVE  Reminded(run[w].month, l)
  BY <1>1 DEF RemindersInv, OnCourse, Finished, At, Holds
<1>2. RemindersInv =>
        [\A w \in Workers :
           Finished(w) /\ run'[w] = None =>
             \A l \in run[w].steady :
               contact[l].phone /\ owed[l] > 0 => Reminded(run[w].month, l)]_vars
  BY <1>1
<1>. QED
  BY <1>2, AlwaysReminders, PTL DEF FinishedRunsAreComplete
=============================================================================
