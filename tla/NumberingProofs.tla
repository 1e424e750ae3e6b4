--------------------------- MODULE NumberingProofs ---------------------------
(***************************************************************************)
(* Numbering for any number of workers, dates, retries and rows.           *)
(***************************************************************************)
EXTENDS Numbering, FiniteSetTheorems, TLAPS

Settled == scheme = "last_id" \/ fixes = 0

\* The numbers in the table: counted ones are an initial segment per date,
\* a customer code is not above the id of its row.
TableInv ==
  /\ scheme = "count" /\ fixes = 0 =>
       /\ \A r \in rows : r.prefix = r.date
       /\ \A d \in Dates, n \in Nat \ {0} : Taken(d, n) <=> n =< Cardinality(Of(d))
  /\ scheme = "last_id" => \A r \in rows : r.no =< r.id

\* What a save() knows of the table.
SaveInv(w) ==
  /\ req[w].pc # "idle" => req[w].date \in Buckets
  /\ req[w].pc # "idle" /\ PhoneTaken(req[w].phone) => req[w].twin
  /\ req[w].pc = "number" /\ Settled => req[w].crowd >= req[w].attempt \/ req[w].twin
  /\ req[w].pc = "insert" =>
       /\ req[w].no # 0
       /\ scheme = "count" /\ fixes = 0 => req[w].no =< Cardinality(Of(req[w].date)) + 1
       /\ scheme = "last_id" => req[w].no =< nextId
       /\ Settled /\ req[w].recent = 0 => ~Taken(req[w].date, req[w].no)
       /\ Settled => req[w].crowd >= req[w].attempt + req[w].recent \/ req[w].twin

IInv == TypeOK /\ TableInv /\ \A w \in Workers : SaveInv(w)

----------------------------------------------------------------------------

\* The rows of a date are finitely many.
LEMMA OfFinite ==
  ASSUME TypeOK, NEW d
  PROVE  IsFiniteSet(Of(d)) /\ Cardinality(Of(d)) \in Nat
<1>1. Of(d) \subseteq rows
  BY DEF Of
<1> QED
  BY <1>1, FS_Subset, FS_CardinalityType DEF TypeOK

\* A generated number is positive, free, and no more than one ahead.
LEMMA GeneratedFree ==
  ASSUME IInv, NEW d \in Buckets, NEW n \in NextNumbers(d)
  PROVE  /\ n \in Nat \ {0}
         /\ Settled => ~Taken(d, n)
         /\ scheme = "count" => n =< Cardinality(Of(d)) + 1
         /\ scheme = "last_id" => n =< nextId
<1>1. CASE scheme = "count"
  <2>1. n = Cardinality(Of(d)) + 1 /\ d \in Dates
    BY <1>1 DEF NextNumbers, Buckets
  <2>2. Cardinality(Of(d)) \in Nat
    BY OfFinite DEF IInv
  <2>3. fixes = 0 => ~Taken(d, n)
    BY <1>1, <2>1, <2>2 DEF IInv, TableInv
  <2> QED
    BY <1>1, <2>1, <2>2, <2>3 DEF Settled
<1>2. CASE scheme = "last_id"
  <2>1. CASE rows = {}
    BY <1>2, <2>1 DEF NextNumbers, Taken, IInv, TypeOK
  <2>2. CASE rows # {}
    <3>1. PICK r \in Newest : n = r.id + 1
      BY <1>2, <2>2 DEF NextNumbers
    <3>2. r \in rows /\ r.id \in Nat /\ r.id < nextId /\ nextId \in Nat
      BY <3>1 DEF Newest, IInv, TypeOK, Row
    <3>3. \A s \in rows : s.no =< s.id /\ s.id =< r.id /\ s.no \in Nat /\ s.id \in Nat
      BY <1>2, <3>1 DEF Newest, IInv, TypeOK, Row, TableInv
    <3>4. \A s \in rows : s.no # n
      BY <3>1, <3>2, <3>3
    <3> QED
      BY <1>2, <3>1, <3>2, <3>4 DEF Taken
  <2> QED BY <2>1, <2>2
<1> QED
  BY <1>1, <1>2 DEF IInv, TypeOK, Schemes

\* The fields of a save() that moves on.
LEMMA SaveFields ==
  ASSUME NEW s \in Save
  PROVE  /\ \A n \in Nat : [s EXCEPT !.pc = "insert", !.no = n, !.recent = 0] \in Save
         /\ \A a \in 0 .. MaxNoRetries - 1 :
              [s EXCEPT !.pc = "number", !.attempt = a] \in Save
         /\ \A c, q \in Nat, b \in BOOLEAN :
              [s EXCEPT !.crowd = c, !.recent = q, !.twin = b] \in Save
         /\ \A b \in BOOLEAN : [s EXCEPT !.twin = b] \in Save
  BY DEF Save

\* Initially the table is empty and no save() is running.
LEMMA InitInv == Init => IInv
<1> SUFFICES ASSUME Init PROVE IInv
  OBVIOUS
<1>1. IsFiniteSet({}) /\ Cardinality({}) = 0
  BY FS_EmptySet
<1>2. \A d : Of(d) = {}
  BY DEF Init, Of
<1>3. TypeOK
  BY <1>1, BoundAssumption DEF Init, TypeOK, Idle, Fresh, Save
<1>4. TableInv
  BY <1>1, <1>2 DEF Init, TableInv, Taken
<1>5. \A w \in Workers : SaveInv(w)
  BY DEF Init, SaveInv, Idle, Fresh
<1> QED BY <1>3, <1>4, <1>5 DEF IInv

\* Frame: one worker moves and the rows stay.
LEMMA QuietStep ==
  ASSUME IInv, NEW w \in Workers, NEW s \in Save,
         req' = [req EXCEPT ![w] = s],
         UNCHANGED <<scheme, rows, fixes>>,
         nextId' \in {nextId, nextId + 1},
         SaveInv(w)'
  PROVE  IInv'
<1>1. TypeOK'
  <2>1. req' \in [Workers -> Save]
    BY DEF IInv, TypeOK
  <2>2. /\ nextId \in Nat \ {0} /\ nextId' \in Nat \ {0} /\ nextId =< nextId'
        /\ \A r \in rows : r.id \in Nat /\ r.id < nextId
    BY DEF IInv, TypeOK, Row
  <2>3. \A r \in rows' : r.id < nextId'
    BY <2>2
  <2>4. rows = rows' /\ scheme = scheme' /\ fixes = fixes'
    OBVIOUS
  <2> QED
    BY <2>1, <2>2, <2>3, <2>4, Zenon DEF IInv, TypeOK
<1>2. TableInv'
  BY DEF IInv, TableInv, Taken, Of
<1>3. ASSUME NEW v \in Workers, v # w PROVE SaveInv(v)'
  <2>1. req'[v] = req[v] /\ req[v] \in Save
    BY <1>3 DEF IInv, TypeOK
  <2>2. SaveInv(v)
    BY DEF IInv
  <2>3. nextId \in Nat /\ nextId' \in Nat /\ nextId =< nextId' /\ req[v].no \in Nat
    BY <2>1 DEF IInv, TypeOK, Save
  <2>4. req[v].no =< nextId => req[v].no =< nextId'
    BY <2>3
  <2>5. /\ Of(req[v].date)' = Of(req[v].date) /\ Settled' = Settled /\ Buckets' = Buckets
        /\ Taken(req[v].date, req[v].no)' = Taken(req[v].date, req[v].no)
        /\ PhoneTaken(req[v].phone)' = PhoneTaken(req[v].phone)
    BY <2>1 DEF Of, Settled, Buckets, Taken, PhoneTaken
  <2> QED
    BY <2>1, <2>2, <2>4, <2>5 DEF SaveInv
<1> QED BY <1>1, <1>2, <1>3 DEF IInv

\* save() begins.
LEMMA StartInv ==
  ASSUME IInv, NEW w \in Workers, NEW d \in Buckets, NEW p \in PhonesInUse,
         Start(w, d, p)
  PROVE  IInv'
<1> DEFINE s == Fresh("number", d, p)
<1>1. d \in Dates \cup {None} /\ p \in Phones \cup {None}
  BY DEF Buckets, PhonesInUse
<1>2. /\ s \in Save /\ s.pc = "number" /\ s.date = d /\ s.phone = p
      /\ s.crowd = 0 /\ s.attempt = 0
  <2>1. 0 \in 0 .. MaxNoRetries - 1
    BY BoundAssumption
  <2> QED
    BY <1>1, <2>1 DEF Fresh, Save
<1>3. /\ req' = [req EXCEPT ![w] = s] /\ req'[w] = s
      /\ UNCHANGED <<scheme, rows, nextId, fixes>> /\ ~PhoneTaken(p)
  BY DEF Start, IInv, TypeOK
<1> HIDE DEF s
<1>4. SaveInv(w)'
  BY <1>2, <1>3 DEF SaveInv, Buckets, PhoneTaken
<1> QED BY <1>2, <1>3, <1>4, QuietStep

\* A number is generated.
LEMMA GenerateInv ==
  ASSUME IInv, NEW w \in Workers, Generate(w)
  PROVE  IInv'
<1>1. PICK n \in NextNumbers(req[w].date) :
        req' = [req EXCEPT ![w] = [req[w] EXCEPT !.pc = "insert", !.no = n, !.recent = 0]]
  BY DEF Generate
<1> DEFINE s == [req[w] EXCEPT !.pc = "insert", !.no = n, !.recent = 0]
<1>2. req[w] \in Save /\ req[w].pc = "number" /\ SaveInv(w)
  BY DEF Generate, IInv, TypeOK
<1>3. req[w].date \in Buckets
  BY <1>2 DEF SaveInv
<1>4. /\ n \in Nat \ {0}
      /\ Settled => ~Taken(req[w].date, n)
      /\ scheme = "count" => n =< Cardinality(Of(req[w].date)) + 1
      /\ scheme = "last_id" => n =< nextId
  BY <1>3, GeneratedFree
<1>5. /\ s \in Save /\ s.pc = "insert" /\ s.no = n /\ s.recent = 0
      /\ s.date = req[w].date /\ s.crowd = req[w].crowd /\ s.attempt = req[w].attempt
      /\ s.phone = req[w].phone /\ s.twin = req[w].twin
      /\ s.crowd \in Nat /\ s.attempt \in Nat
  <2>1. s \in Save
    BY <1>2, <1>4, SaveFields
  <2>2. req[w].crowd \in Nat /\ req[w].attempt \in Nat
    BY <1>2 DEF Save
  <2>3. DOMAIN req[w] = {"pc", "date", "phone", "no", "attempt", "crowd", "recent", "twin"}
    BY <1>2 DEF Save
  <2> QED
    BY <2>1, <2>2, <2>3
<1>6. req' = [req EXCEPT ![w] = s] /\ req'[w] = s /\ UNCHANGED <<scheme, rows, nextId, fixes>>
  BY <1>1 DEF Generate, IInv, TypeOK
<1> HIDE DEF s
<1>7. Settled => s.crowd >= s.attempt + s.recent \/ s.twin
  BY <1>2, <1>5 DEF SaveInv
<1>8. SaveInv(w)'
  BY <1>2, <1>3, <1>4, <1>5, <1>6, <1>7 DEF SaveInv, Settled, Taken, PhoneTaken, Of, Buckets
<1> QED BY <1>5, <1>6, <1>8, QuietStep

\* A number is taken: somebody inserted a row since it was generated.
LEMMA TakenSince ==
  ASSUME IInv, Settled, NEW w \in Workers, req[w].pc = "insert",
         Taken(req[w].date, req[w].no)
  PROVE  req[w].recent > 0
<1>1. SaveInv(w) /\ req[w].recent \in Nat
  BY DEF IInv, TypeOK, Save
<1>2. req[w].recent # 0
  BY <1>1 DEF SaveInv
<1> QED BY <1>1, <1>2

\* An insert is rejected: the crowd has grown with this attempt too, or another
\* customer has the phone.
LEMMA CrowdGrows ==
  ASSUME IInv, Settled, NEW w \in Workers, req[w].pc = "insert", Rejected(req[w])
  PROVE  req[w].crowd >= req[w].attempt + 1 \/ req[w].twin
<1>1. SaveInv(w) /\ req[w] \in Save
  BY DEF IInv, TypeOK
<1>2. req[w].recent \in Nat /\ req[w].crowd \in Nat /\ req[w].attempt \in Nat
  BY <1>1 DEF Save
<1>3. CASE PhoneTaken(req[w].phone)
  BY <1>1, <1>3 DEF SaveInv
<1>4. CASE Taken(req[w].date, req[w].no)
  <2>1. req[w].recent > 0
    BY <1>4, TakenSince
  <2>2. req[w].crowd >= req[w].attempt + req[w].recent \/ req[w].twin
    BY <1>1 DEF SaveInv
  <2> QED BY <1>2, <2>1, <2>2
<1> QED BY <1>3, <1>4 DEF Rejected

\* The insert is rejected and another number will be generated.
LEMMA CollideInv ==
  ASSUME IInv, NEW w \in Workers, Collide(w)
  PROVE  IInv'
<1> DEFINE s == [req[w] EXCEPT !.pc = "number", !.attempt = req[w].attempt + 1]
<1>1. req[w] \in Save /\ req[w].pc = "insert" /\ SaveInv(w)
  BY DEF Collide, IInv, TypeOK
<1>2. /\ s \in Save /\ s.pc = "number" /\ s.attempt = req[w].attempt + 1
      /\ s.date = req[w].date /\ s.crowd = req[w].crowd
      /\ s.phone = req[w].phone /\ s.twin = req[w].twin
  <2>1. req[w].attempt + 1 \in 0 .. MaxNoRetries - 1
    BY <1>1, BoundAssumption DEF Save, Collide
  <2>2. s \in Save
    BY <1>1, <2>1, SaveFields
  <2>3. DOMAIN req[w] = {"pc", "date", "phone", "no", "attempt", "crowd", "recent", "twin"}
    BY <1>1 DEF Save
  <2> QED
    BY <2>2, <2>3
<1>3. /\ req' = [req EXCEPT ![w] = s] /\ req'[w] = s
      /\ UNCHANGED <<scheme, rows, fixes>> /\ nextId' = nextId + 1
  BY DEF Collide, IInv, TypeOK
<1>4. Settled => req[w].crowd >= req[w].attempt + 1 \/ req[w].twin
  BY <1>1, CrowdGrows DEF Collide
<1>5. req[w].date \in Buckets
  BY <1>1 DEF SaveInv
<1> HIDE DEF s
<1>6. SaveInv(w)'
  BY <1>1, <1>2, <1>3, <1>4, <1>5 DEF SaveInv, Settled, Buckets, PhoneTaken
<1> QED BY <1>2, <1>3, <1>6, QuietStep

\* save() ends without a row.
LEMMA EndInv ==
  ASSUME IInv, NEW w \in Workers, GiveUp(w) \/ Abandon(w)
  PROVE  IInv'
<1>1. Idle \in Save /\ Idle.pc = "idle"
  BY BoundAssumption DEF Idle, Fresh, Save
<1>2. /\ req' = [req EXCEPT ![w] = Idle] /\ req'[w] = Idle
      /\ UNCHANGED <<scheme, rows, fixes>> /\ nextId' \in {nextId, nextId + 1}
  BY DEF GiveUp, Abandon, IInv, TypeOK
<1>3. SaveInv(w)'
  BY <1>1, <1>2 DEF SaveInv
<1> QED BY <1>1, <1>2, <1>3, QuietStep

\* The row enters the table: it takes the next counted number, and a code is
\* not above its id.
LEMMA InsertInv ==
  ASSUME IInv, NEW w \in Workers, Insert(w)
  PROVE  IInv'
<1> DEFINE new == [id |-> nextId, date |-> req[w].date, prefix |-> req[w].date, no |-> req[w].no,
                 phone |-> req[w].phone]
<1>1. /\ req[w] \in Save /\ req[w].pc = "insert" /\ SaveInv(w)
      /\ ~Taken(req[w].date, req[w].no)
  BY DEF Insert, IInv, TypeOK, Rejected
<1>2. /\ rows' = rows \cup {new} /\ nextId' = nextId + 1 /\ UNCHANGED <<scheme, fixes>>
      /\ req' = [v \in Workers |-> IF v = w THEN Idle ELSE Noticed(req[v], req[w].phone)]
  BY DEF Insert, NewRow
<1>3. /\ new \in Row /\ new.id = nextId /\ new.date = req[w].date
      /\ new.prefix = req[w].date /\ new.no = req[w].no /\ new.phone = req[w].phone
  BY <1>1 DEF IInv, TypeOK, Row, Save, SaveInv
<1> HIDE DEF new
<1>4. nextId \in Nat \ {0} /\ \A r \in rows : r.id \in Nat /\ r.id < nextId
  BY DEF IInv, TypeOK, Row
<1>5. new \notin rows
  BY <1>3, <1>4
<1>6. ASSUME NEW d
      PROVE  /\ Cardinality(Of(d)) \in Nat
             /\ d = req[w].date => Cardinality(Of(d)') = Cardinality(Of(d)) + 1
             /\ d # req[w].date => Cardinality(Of(d)') = Cardinality(Of(d))
  <2>1. IsFiniteSet(Of(d)) /\ Cardinality(Of(d)) \in Nat
    BY OfFinite DEF IInv
  <2>2. new \notin Of(d)
    BY <1>5 DEF Of
  <2>3. CASE d = req[w].date
    <3>1. Of(d)' = Of(d) \cup {new}
      BY <1>2, <1>3, <2>3 DEF Of
    <3> QED BY <2>1, <2>2, <2>3, <3>1, FS_AddElement
  <2>4. CASE d # req[w].date
    BY <1>2, <1>3, <2>1, <2>4 DEF Of
  <2> QED BY <2>1, <2>3, <2>4
<1>7. \A d, n : Taken(d, n)' <=> Taken(d, n) \/ (d = req[w].date /\ n = req[w].no)
  BY <1>2, <1>3 DEF Taken
<1>11. \A p : PhoneTaken(p)' => PhoneTaken(p) \/ p = req[w].phone
  BY <1>2, <1>3 DEF PhoneTaken
<1>8. TypeOK'
  <2>1. rows' \subseteq Row /\ IsFiniteSet(rows')
    BY <1>2, <1>3, FS_AddElement DEF IInv, TypeOK
  <2>2. nextId' \in Nat \ {0} /\ \A r \in rows' : r.id < nextId'
    BY <1>2, <1>3, <1>4
  <2>3. \A r, s \in rows' : r.id = s.id => r = s
    BY <1>2, <1>3, <1>4 DEF IInv, TypeOK
  <2>4. ASSUME NEW v \in Workers PROVE Noticed(req[v], req[w].phone) \in Save /\ Idle \in Save
    <3>1. req[v] \in Save
      BY DEF IInv, TypeOK
    <3>2. Idle \in Save
      BY BoundAssumption DEF Idle, Fresh, Save
    <3>3. [req[v] EXCEPT !.crowd = req[v].crowd + 1, !.recent = req[v].recent + 1,
                         !.twin = req[v].twin \/ req[v].phone = req[w].phone] \in Save
      <4>1. /\ req[v].crowd + 1 \in Nat /\ req[v].recent + 1 \in Nat
            /\ (req[v].twin \/ req[v].phone = req[w].phone) \in BOOLEAN
        BY <3>1 DEF Save
      <4> QED BY <3>1, <4>1, SaveFields
    <3>4. Noticed(req[v], req[w].phone) \in Save
      BY <3>1, <3>3 DEF Noticed
    <3> QED BY <3>2, <3>4
  <2>5. req' \in [Workers -> Save]
    BY <1>2, <2>4
  <2> QED BY <1>2, <2>1, <2>2, <2>3, <2>5 DEF IInv, TypeOK
<1>9. TableInv'
  <2>1. ASSUME scheme = "count", fixes = 0
        PROVE  /\ \A r \in rows' : r.prefix = r.date
               /\ \A d \in Dates, n \in Nat \ {0} :
                    Taken(d, n)' <=> n =< Cardinality(Of(d)')
    <3>1. \A r \in rows' : r.prefix = r.date
      BY <1>2, <1>3, <2>1 DEF IInv, TableInv
    <3>2. req[w].date \in Dates /\ req[w].no \in Nat \ {0}
      BY <1>1, <2>1 DEF SaveInv, Buckets, Save
    <3>3. req[w].no = Cardinality(Of(req[w].date)) + 1
      <4>1. ~(req[w].no =< Cardinality(Of(req[w].date)))
        BY <1>1, <2>1, <3>2 DEF IInv, TableInv
      <4>2. req[w].no =< Cardinality(Of(req[w].date)) + 1
        BY <1>1, <2>1 DEF SaveInv
      <4>3. Cardinality(Of(req[w].date)) \in Nat
        BY OfFinite DEF IInv
      <4> QED BY <3>2, <4>1, <4>2, <4>3
    <3>4. ASSUME NEW d \in Dates, NEW n \in Nat \ {0}
          PROVE  Taken(d, n)' <=> n =< Cardinality(Of(d)')
      <4>1. Taken(d, n) <=> n =< Cardinality(Of(d))
        BY <2>1 DEF IInv, TableInv
      <4>2. CASE d = req[w].date
        <5>1. /\ Cardinality(Of(d)) \in Nat /\ Cardinality(Of(d)') = Cardinality(Of(d)) + 1
          BY <1>6, <4>2
        <5>3. req[w].no = Cardinality(Of(d)) + 1
          BY <3>3, <4>2
        <5>2. Taken(d, n)' <=> n =< Cardinality(Of(d)) \/ n = Cardinality(Of(d)) + 1
          BY <1>7, <4>1, <4>2, <5>1, <5>3
        <5> QED BY <5>1, <5>2
      <4>3. CASE d # req[w].date
        BY <1>6, <1>7, <4>1, <4>3
      <4> QED BY <4>2, <4>3
    <3> QED BY <3>1, <3>4
  <2>2. ASSUME scheme = "last_id" PROVE \A r \in rows' : r.no =< r.id
    BY <1>1, <1>2, <1>3, <2>2 DEF IInv, TableInv, SaveInv
  <2> QED BY <1>2, <2>1, <2>2 DEF TableInv
<1>10. ASSUME NEW v \in Workers PROVE SaveInv(v)'
  <2>1. CASE v = w \/ req[v].pc = "idle"
    BY <1>2, <2>1 DEF SaveInv, Idle, Fresh, Noticed
  <2>2. CASE v # w /\ req[v].pc # "idle"
    <3>1. SaveInv(v) /\ req[v] \in Save
      BY DEF IInv, TypeOK
    <3>2. /\ req'[v] = [req[v] EXCEPT !.crowd = req[v].crowd + 1, !.recent = req[v].recent + 1,
                                      !.twin = req[v].twin \/ req[v].phone = req[w].phone]
          /\ DOMAIN req[v] = {"pc", "date", "phone", "no", "attempt", "crowd", "recent", "twin"}
      BY <1>2, <2>2, <3>1 DEF Noticed, Save
    <3>3. /\ req'[v].pc = req[v].pc /\ req'[v].date = req[v].date /\ req'[v].no = req[v].no
          /\ req'[v].attempt = req[v].attempt /\ req'[v].crowd = req[v].crowd + 1
          /\ req'[v].recent = req[v].recent + 1 /\ req'[v].phone = req[v].phone
          /\ req'[v].twin = (req[v].twin \/ req[v].phone = req[w].phone)
      BY <3>2
    <3>4. /\ req[v].crowd \in Nat /\ req[v].recent \in Nat /\ req[v].attempt \in Nat
          /\ req[v].no \in Nat
      BY <3>1 DEF Save
    <3>5. PICK d : d = req[v].date
      OBVIOUS
    <3>6. Settled' = Settled /\ Buckets' = Buckets /\ scheme' = scheme /\ fixes' = fixes
      BY <1>2 DEF Settled, Buckets
    <3>7. Of(req[v].date) = Of(d) /\ Of(req[v].date)' = Of(d)'
      BY <3>3, <3>5 DEF Of
    <3>8. req[v].no =< Cardinality(Of(d)) + 1 => req[v].no =< Cardinality(Of(d)') + 1
      <4>1. /\ Cardinality(Of(d)) \in Nat /\ Cardinality(Of(d)') \in Nat
            /\ Cardinality(Of(d)') >= Cardinality(Of(d))
        <5>1. d = req[w].date \/ d # req[w].date
          OBVIOUS
        <5> QED BY <1>6, <5>1
      <4> QED BY <3>4, <4>1
    <3>9. req[v].no =< nextId => req[v].no =< nextId'
      BY <1>2, <1>4, <3>4
    <3>10. req'[v].recent # 0
      BY <3>3, <3>4
    <3>11. /\ req[v].crowd >= req[v].attempt + req[v].recent
                => req'[v].crowd >= req'[v].attempt + req'[v].recent
           /\ req[v].crowd >= req[v].attempt => req'[v].crowd >= req'[v].attempt
      BY <3>3, <3>4
    <3>13. PICK x : x = req[v].phone
      OBVIOUS
    <3>12. /\ req[v].twin => req'[v].twin
           /\ PhoneTaken(x)' => req'[v].twin
      BY <1>11, <2>2, <3>1, <3>3, <3>13 DEF SaveInv
    <3>14. PhoneTaken(req[v].phone)' <=> PhoneTaken(x)'
      BY <3>3, <3>13 DEF PhoneTaken
    <3> QED
      BY <3>1, <3>3, <3>6, <3>7, <3>8, <3>9, <3>10, <3>11, <3>12, <3>14 DEF SaveInv
  <2> QED BY <2>1, <2>2
<1> QED BY <1>8, <1>9, <1>10 DEF IInv

\* After a deletion or a change only customer codes keep their promises.
LEMMA FixInv ==
  ASSUME IInv, NEW r \in rows, FixStep(r)
  PROVE  IInv'
<1>1. fixes \in Nat /\ fixes' = fixes + 1 /\ UNCHANGED <<scheme, nextId>>
  BY DEF FixStep, Delete, EditPhone, MoveDate, Retype, Fix, IInv, TypeOK
<1>2. /\ rows \subseteq Row /\ IsFiniteSet(rows) /\ r \in Row /\ IsFiniteSet(rows \ {r})
      /\ \A q \in rows : q.id < nextId
      /\ \A q, s \in rows : q.id = s.id => q = s
  BY FS_RemoveElement DEF IInv, TypeOK
<1>3. CASE Delete(r)
  <2>0. rows' = rows \ {r} /\ req' = req
    BY <1>3 DEF Delete
  <2>1. TypeOK'
    BY <1>1, <1>2, <2>0 DEF IInv, TypeOK
  <2>2. TableInv'
    BY <1>1, <2>0 DEF IInv, TableInv
  <2>3. ASSUME NEW w \in Workers PROVE SaveInv(w)'
    <3>1. SaveInv(w)
      BY DEF IInv
    <3>2. /\ \A d, n : Taken(d, n)' => Taken(d, n)
          /\ \A p : PhoneTaken(p)' => PhoneTaken(p)
      BY <2>0 DEF Taken, PhoneTaken
    <3>3. Buckets' = Buckets /\ fixes' # 0 /\ (Settled' <=> scheme = "last_id")
      BY <1>1 DEF Buckets, Settled
    <3> QED BY <1>1, <2>0, <3>1, <3>2, <3>3 DEF SaveInv, Settled
  <2> QED BY <2>1, <2>2, <2>3 DEF IInv
<1>4. ASSUME NEW q \in Row, q.id = r.id, q.phone = r.phone,
             rows' = (rows \ {r}) \cup {q}, req' = req, scheme = "count"
      PROVE  IInv'
  <2>1. rows' \subseteq Row /\ IsFiniteSet(rows')
    BY <1>2, <1>4, FS_AddElement
  <2>2. \A a \in rows' : a.id < nextId
    BY <1>2, <1>4
  <2>3. \A a, b \in rows' : a.id = b.id => a = b
    BY <1>2, <1>4
  <2>4. TypeOK'
    BY <1>1, <1>4, <2>1, <2>2, <2>3 DEF IInv, TypeOK
  <2>5. fixes' # 0 /\ scheme' = "count" /\ ~Settled'
    BY <1>1, <1>4 DEF Settled
  <2>6. TableInv'
    BY <2>5 DEF TableInv
  <2>7. \A p : PhoneTaken(p)' => PhoneTaken(p)
    BY <1>4 DEF PhoneTaken
  <2>8. ASSUME NEW w \in Workers PROVE SaveInv(w)'
    BY <1>1, <1>4, <2>5, <2>7 DEF IInv, SaveInv, Buckets
  <2> QED BY <2>4, <2>6, <2>8 DEF IInv
<1>5. ASSUME NEW d \in Dates, MoveDate(r, d) PROVE IInv'
  <2>1. [r EXCEPT !.date = d] \in Row /\ [r EXCEPT !.date = d].id = r.id
        /\ [r EXCEPT !.date = d].phone = r.phone
    BY <1>2 DEF Row
  <2> QED BY <1>4, <1>5, <2>1 DEF MoveDate
<1>6. ASSUME NEW n \in 1 .. MaxRows + 1, Retype(r, n) PROVE IInv'
  <2>1. n \in Nat \ {0}
    BY <1>6, BoundAssumption
  <2>2. [r EXCEPT !.no = n] \in Row /\ [r EXCEPT !.no = n].id = r.id
        /\ [r EXCEPT !.no = n].phone = r.phone
    BY <1>2, <2>1 DEF Row
  <2> QED BY <1>4, <1>6, <2>2 DEF Retype
<1>7. ASSUME NEW p \in Phones, EditPhone(r, p) PROVE IInv'
  <2> DEFINE q == [r EXCEPT !.phone = p]
  <2>1. /\ q \in Row /\ q.id = r.id /\ q.no = r.no /\ q.prefix = r.prefix
        /\ q.date = r.date /\ q.phone = p
    BY <1>2 DEF Row
  <2>2. /\ scheme = "last_id" /\ rows' = (rows \ {r}) \cup {q}
        /\ req' = [v \in Workers |-> [req[v] EXCEPT !.twin = req[v].twin \/ req[v].phone = p]]
    BY <1>7 DEF EditPhone
  <2> HIDE DEF q
  <2>3. ASSUME NEW v \in Workers
        PROVE  /\ req'[v] \in Save /\ req'[v].pc = req[v].pc /\ req'[v].date = req[v].date
               /\ req'[v].phone = req[v].phone /\ req'[v].no = req[v].no
               /\ req'[v].attempt = req[v].attempt /\ req'[v].crowd = req[v].crowd
               /\ req'[v].recent = req[v].recent
               /\ req'[v].twin = (req[v].twin \/ req[v].phone = p)
    <3>1. req[v] \in Save
      BY DEF IInv, TypeOK
    <3>2. (req[v].twin \/ req[v].phone = p) \in BOOLEAN
      OBVIOUS
    <3>3. req'[v] = [req[v] EXCEPT !.twin = req[v].twin \/ req[v].phone = p]
      BY <2>2
    <3>4. req'[v] \in Save
      BY <3>1, <3>2, <3>3, SaveFields
    <3> QED BY <3>1, <3>3, <3>4 DEF Save
  <2>4. TypeOK'
    <3>1. rows' \subseteq Row /\ IsFiniteSet(rows')
      BY <1>2, <2>1, <2>2, FS_AddElement
    <3>2. \A a \in rows' : a.id < nextId
      BY <1>2, <2>1, <2>2
    <3>3. \A a, b \in rows' : a.id = b.id => a = b
      BY <1>2, <2>1, <2>2
    <3>4. req' \in [Workers -> Save]
      BY <2>2, <2>3
    <3> QED BY <1>1, <3>1, <3>2, <3>3, <3>4 DEF IInv, TypeOK
  <2>5. scheme' = "last_id" /\ scheme' # "count"
    BY <1>1, <2>2
  <2>6. TableInv'
    BY <2>1, <2>2, <2>5 DEF IInv, TableInv
  <2>7. /\ \A d, n : Taken(d, n)' <=> Taken(d, n)
        /\ \A x : PhoneTaken(x)' => PhoneTaken(x) \/ x = p
    BY <2>1, <2>2 DEF Taken, PhoneTaken
  <2>8. ASSUME NEW v \in Workers PROVE SaveInv(v)'
    <3>1. SaveInv(v) /\ Settled' /\ Settled /\ Buckets' = Buckets
      BY <1>1, <2>2 DEF IInv, Settled, Buckets
    <3> QED BY <1>1, <2>3, <2>5, <2>7, <3>1 DEF SaveInv
  <2> QED BY <2>4, <2>6, <2>8 DEF IInv
<1> QED BY <1>3, <1>5, <1>6, <1>7 DEF FixStep

\* Every step keeps the invariant.
LEMMA StepInv == IInv /\ [Next]_vars => IInv'
<1> SUFFICES ASSUME IInv, [Next]_vars PROVE IInv'
  OBVIOUS
<1>1. ASSUME NEW w \in Workers, SaveStep(w) PROVE IInv'
  <2>1. \A d \in Buckets, p \in PhonesInUse : Start(w, d, p) => IInv'
    BY StartInv
  <2> QED
    BY <1>1, <2>1, GenerateInv, InsertInv, CollideInv, EndInv DEF SaveStep
<1>2. ASSUME NEW r \in rows, FixStep(r) PROVE IInv'
  BY <1>2, FixInv
<1>3. CASE UNCHANGED vars
  <2>1. TypeOK'
    BY <1>3 DEF vars, IInv, TypeOK
  <2>2. TableInv'
    BY <1>3 DEF vars, IInv, TableInv, Taken, Of
  <2>3. \A w \in Workers : SaveInv(w)'
    BY <1>3 DEF vars, IInv, SaveInv, Settled, Buckets, Taken, PhoneTaken, Of
  <2> QED BY <2>1, <2>2, <2>3 DEF IInv
<1> QED BY <1>1, <1>2, <1>3 DEF Next

LEMMA Invariance == Spec => []IInv
  BY InitInv, StepInv, PTL DEF Spec

----------------------------------------------------------------------------

\* Every variable has its type and every id was given out by the counter.
THEOREM TypeCorrect == Spec => []TypeOK
<1>1. IInv => TypeOK
  BY DEF IInv
<1> QED BY <1>1, Invariance, PTL

\* Loans of a year and receipts of a day are numbered without a gap while
\* nothing old is deleted or changed.
THEOREM Gapless == Spec => []GapFree
<1>1. ASSUME IInv, scheme = "count", fixes = 0, NEW d \in Dates
      PROVE  {r.no : r \in {q \in rows : q.prefix = d}} = 1 .. Cardinality(Of(d))
  <2>1. \A r \in rows : r.no \in Nat \ {0}
    BY <1>1 DEF IInv, TypeOK, Row
  <2>2. Cardinality(Of(d)) \in Nat
    BY <1>1, OfFinite DEF IInv
  <2>3. \A n \in Nat \ {0} : (\E r \in rows : r.prefix = d /\ r.no = n)
                              <=> n =< Cardinality(Of(d))
    BY <1>1 DEF IInv, TableInv, Taken
  <2>4. ASSUME NEW n PROVE n \in {r.no : r \in {q \in rows : q.prefix = d}}
                             <=> n \in 1 .. Cardinality(Of(d))
    <3>1. n \in 1 .. Cardinality(Of(d)) <=> n \in Nat \ {0} /\ n =< Cardinality(Of(d))
      BY <2>2
    <3>2. n \in {r.no : r \in {q \in rows : q.prefix = d}}
            <=> \E r \in rows : r.prefix = d /\ r.no = n
      OBVIOUS
    <3> QED BY <2>1, <2>3, <3>1, <3>2
  <2> QED BY <2>4
<1>2. IInv => GapFree
  BY <1>1 DEF GapFree
<1> QED BY <1>2, Invariance, PTL

\* A number can only be taken by a row inserted after it was generated.
THEOREM CollisionsNeedInserts == Spec => []CollisionsAreConcurrent
<1>1. IInv => CollisionsAreConcurrent
  BY TakenSince DEF CollisionsAreConcurrent, Settled
<1> QED BY <1>1, Invariance, PTL

\* save() gives up only after as many inserts of others as it had attempts, or
\* when another customer has been given the phone since the form looked it up.
THEOREM GivingUpNeedsCrowd == Spec => GivesUpOnlyInACrowd
<1>1. ASSUME IInv, NEW w \in Workers, GiveUp(w), Settled
      PROVE  req[w].crowd >= MaxNoRetries \/ req[w].twin
  <2>1. req[w].crowd >= req[w].attempt + 1 \/ req[w].twin
    BY <1>1, CrowdGrows DEF GiveUp
  <2> QED BY <1>1, <2>1, BoundAssumption DEF GiveUp
<1>2. IInv /\ [Next]_vars
        => [\A w \in Workers : GiveUp(w) /\ (scheme = "last_id" \/ fixes = 0)
              => req[w].crowd >= MaxNoRetries \/ req[w].twin]_vars
  BY <1>1 DEF Settled
<1> QED BY <1>2, Invariance, PTL DEF Spec, GivesUpOnlyInACrowd
=============================================================================
