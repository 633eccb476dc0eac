----------------------------- MODULE KernelLists -----------------------------
(***************************************************************************)
(* Lemmas about the list operations of Kernel: what they do to the items   *)
(* of a ready list, the ring of tasks with its end marker, and to their    *)
(* places in it, and to the entries of a delayed list.                     *)
(***************************************************************************)
EXTENDS Kernel, SequenceTheorems, WellFoundedInduction, TLAPS

\* No item is in a list twice.
Distinct(s) == \A i, j \in DOMAIN s : s[i] = s[j] => i = j

Ring(r) == r \in Seq(Tasks \cup {End}) /\ Distinct(r) /\ End \in Range(r)

-----------------------------------------------------------------------------
(* Rings.                                                                  *)

\* What a ring is made of.
LEMMA RingFacts ==
  ASSUME NEW r, Ring(r)
  PROVE  /\ Len(r) \in Nat /\ Len(r) >= 1 /\ DOMAIN r = 1 .. Len(r)
         /\ Len(r) >= 2 <=> Len(r) # 1
         /\ r # << >>
         /\ Range(r) = { r[i] : i \in 1 .. Len(r) }
         /\ Range(r) \subseteq Tasks \cup {End}
  <1>1. r \in Seq(Tasks \cup {End})
    BY DEF Ring
  <1>2. Len(r) \in Nat /\ DOMAIN r = 1 .. Len(r) /\ r \in [1 .. Len(r) -> Tasks \cup {End}]
    BY <1>1, LenProperties
  <1>3. \E i \in 1 .. Len(r) : r[i] = End
    BY <1>2 DEF Ring, Range
  <1>4. r # << >>
    BY <1>2, <1>3
  <1> QED BY <1>1, <1>2, <1>3, <1>4 DEF Range

\* vListInsertEnd adds its item.
LEMMA InsertEndFacts ==
  ASSUME NEW r, Ring(r), NEW t \in Tasks, t \notin Range(r)
  PROVE  /\ Ring(InsertEnd(r, t))
         /\ Range(InsertEnd(r, t)) = Range(r) \cup {t}
         /\ Len(InsertEnd(r, t)) = Len(r) + 1
  <1> DEFINE a == Append(r, t)
             n == Len(r)
  <1>1. r \in Seq(Tasks \cup {End})
    BY DEF Ring
  <1>2. /\ a \in Seq(Tasks \cup {End}) /\ Len(a) = n + 1
        /\ \A i \in 1 .. n : a[i] = r[i]
        /\ a[n + 1] = t
    BY <1>1, AppendProperties
  <1>3. n \in Nat /\ DOMAIN r = 1 .. n /\ DOMAIN a = 1 .. n + 1
    BY <1>1, <1>2, LenProperties
  <1>4. Range(a) = Range(r) \cup {t}
    BY <1>2, <1>3 DEF Range
  <1>5. Distinct(a)
    <2> SUFFICES ASSUME NEW i \in 1 .. n + 1, NEW j \in 1 .. n + 1, a[i] = a[j]
                 PROVE  i = j
      BY <1>3 DEF Distinct
    <2>1. \A k \in 1 .. n : a[k] # t
      BY <1>2, <1>3 DEF Range
    <2>2. CASE i \in 1 .. n /\ j \in 1 .. n
      BY <2>2, <1>2, <1>3 DEF Ring, Distinct
    <2>3. CASE i = n + 1 \/ j = n + 1
      BY <2>1, <2>3, <1>2, <1>3
    <2> QED BY <2>2, <2>3, <1>3
  <1> QED BY <1>2, <1>4, <1>5 DEF Ring, InsertEnd

\* pxIndex goes to the next item of the ring.
LEMMA StepFacts ==
  ASSUME NEW r, Ring(r)
  PROVE  /\ Ring(Step(r)) /\ Range(Step(r)) = Range(r) /\ Len(Step(r)) = Len(r)
         /\ Step(r)[Len(r)] = r[1]
         /\ \A i \in 1 .. Len(r) - 1 : Step(r)[i] = r[i + 1]
  <1> DEFINE S == Tasks \cup {End}
             n == Len(r)
             q == Step(r)
  <1>1. r \in Seq(S) /\ r # << >> /\ n \in Nat \ {0} /\ DOMAIN r = 1 .. n
    BY RingFacts DEF Ring
  <1>2. /\ Tail(r) \in Seq(S) /\ Len(Tail(r)) = n - 1
        /\ \A i \in 1 .. n - 1 : Tail(r)[i] = r[i + 1]
        /\ Head(r) = r[1] /\ r[1] \in S
    BY <1>1, HeadTailProperties, ElementOfSeq
  <1>3. /\ q \in Seq(S) /\ Len(q) = n
        /\ \A i \in 1 .. n - 1 : q[i] = r[i + 1]
        /\ q[n] = r[1]
    BY <1>1, <1>2, AppendProperties DEF Step
  <1>4. DOMAIN q = 1 .. n
    BY <1>3, LenProperties
  <1>5. Range(q) = Range(r)
    <2>1. ASSUME NEW i \in 1 .. n PROVE \E j \in 1 .. n : q[i] = r[j]
      BY <1>1, <1>3
    <2>2. ASSUME NEW j \in 1 .. n PROVE \E i \in 1 .. n : q[i] = r[j]
      <3>1. CASE j = 1
        BY <3>1, <1>1, <1>3
      <3>2. CASE j # 1
        <4>1. j - 1 \in 1 .. n - 1 /\ j - 1 \in 1 .. n /\ j - 1 + 1 = j
          BY <3>2, <1>1
        <4> QED BY <4>1, <1>3
      <3> QED BY <3>1, <3>2
    <2>3. Range(q) = { q[i] : i \in 1 .. n } /\ Range(r) = { r[i] : i \in 1 .. n }
      BY <1>1, <1>4 DEF Range
    <2> HIDE DEF q, n
    <2> QED BY <2>1, <2>2, <2>3
  <1>6. Distinct(q)
    <2> SUFFICES ASSUME NEW i \in 1 .. n, NEW j \in 1 .. n, q[i] = q[j]
                 PROVE  i = j
      BY <1>4 DEF Distinct
    <2>1. \A k, m \in 1 .. n : r[k] = r[m] => k = m
      BY <1>1 DEF Ring, Distinct
    <2> HIDE DEF q, n
    <2>2. ASSUME NEW k \in 1 .. n
          PROVE  \/ k = n /\ q[k] = r[1]
                 \/ k # n /\ k + 1 \in 1 .. n /\ q[k] = r[k + 1]
      <3>1. CASE k = n
        BY <1>3, <3>1
      <3>2. CASE k # n
        BY <1>1, <1>3, <3>2
      <3> QED BY <3>1, <3>2
    <2> QED BY <2>1, <2>2, <1>1
  <1> QED BY <1>1, <1>3, <1>5, <1>6 DEF Ring

\* listGET_OWNER_OF_NEXT_ENTRY finds a task in a list that is not empty, and
\* leaves the items as they are.
LEMMA NextEntryFacts ==
  ASSUME NEW r, Ring(r), Len(r) >= 2
  PROVE  /\ Ring(NextEntry(r)) /\ Range(NextEntry(r)) = Range(r)
         /\ Len(NextEntry(r)) = Len(r)
         /\ Head(NextEntry(r)) \in Range(r) \ {End}
  <1> DEFINE q == Step(r)
             n == Len(r)
  <1>1. n \in Nat /\ n >= 2 /\ Ring(q) /\ Range(q) = Range(r) /\ Len(q) = n
    BY RingFacts, StepFacts
  <1>2. Ring(Step(q)) /\ Range(Step(q)) = Range(r) /\ Len(Step(q)) = n
        /\ Step(q)[1] = q[2]
    BY <1>1, StepFacts
  <1>3. \A s : Ring(s) => Head(s) = s[1] /\ s[1] \in Range(s)
    <2> SUFFICES ASSUME NEW s, Ring(s) PROVE Head(s) = s[1] /\ s[1] \in Range(s)
      OBVIOUS
    <2>1. s # << >> /\ 1 \in 1 .. Len(s) /\ DOMAIN s = 1 .. Len(s)
      BY RingFacts
    <2> QED BY <2>1 DEF Range, Ring
  <1>4. q[1] = End => q[2] # End
    <2>1. 1 \in DOMAIN q /\ 2 \in DOMAIN q
      BY <1>1, RingFacts
    <2> QED BY <2>1, <1>1 DEF Ring, Distinct
  <1>5. CASE Head(q) = End
    BY <1>1, <1>2, <1>3, <1>4, <1>5 DEF NextEntry
  <1>6. CASE Head(q) # End
    BY <1>1, <1>3, <1>6 DEF NextEntry
  <1> QED BY <1>5, <1>6

\* Where uxListRemove takes each item of the ring that it leaves from.
LEMMA RemoveItemPlaces ==
  ASSUME NEW r, Ring(r), NEW t \in Tasks, t \in Range(r)
  PROVE  /\ PlaceOf(r, t) \in 1 .. Len(r) /\ r[PlaceOf(r, t)] = t
         /\ Len(r) >= 2
         /\ RemoveItem(r, t) \in Seq(Tasks \cup {End})
         /\ Len(RemoveItem(r, t)) = Len(r) - 1
         /\ \A i \in 1 .. Len(r) - 1 :
              RemoveItem(r, t)[i] =
                r[IF PlaceOf(r, t) = 1 /\ i = 1 THEN Len(r)
                  ELSE IF i < PlaceOf(r, t) \/ PlaceOf(r, t) = 1 THEN i ELSE i + 1]
  <1> DEFINE S == Tasks \cup {End}
             n == Len(r)
             p == PlaceOf(r, t)
             q == RemoveItem(r, t)
  <1>1. r \in Seq(S) /\ n \in Nat /\ DOMAIN r = 1 .. n
        /\ \A i, j \in 1 .. n : r[i] = r[j] => i = j
    BY RingFacts DEF Ring, Distinct
  <1>2. p \in 1 .. n /\ r[p] = t
    BY <1>1 DEF PlaceOf, Range
  <1>3. PICK e \in 1 .. n : r[e] = End
    BY <1>1 DEF Ring, Range
  <1>4. e # p /\ n >= 2
    BY <1>1, <1>2, <1>3, TaskAssumption
  <1>5. \A i \in 1 .. n : r[i] \in S
    BY <1>1, ElementOfSeq
  <1>6. /\ q \in Seq(S) /\ Len(q) = n - 1
        /\ \A i \in 1 .. n - 1 :
             q[i] = r[IF p = 1 /\ i = 1 THEN n
                      ELSE IF i < p \/ p = 1 THEN i ELSE i + 1]
    <2>1. CASE p = 1
      <3> DEFINE b == SubSeq(r, 2, n - 1)
      <3>1. /\ b \in Seq(S) /\ Len(b) = n - 2
            /\ \A i \in 1 .. n - 2 : b[i] = r[i + 1]
        BY <1>1, <1>4, <1>5, SubSeqProperties
      <3>2. <<r[n]>> \in Seq(S) /\ Len(<<r[n]>>) = 1 /\ <<r[n]>>[1] = r[n]
        BY <1>4, <1>5, <1>1
      <3>3. q = <<r[n]>> \o b
        BY <2>1 DEF RemoveItem
      <3> HIDE DEF b
      <3>4. /\ q \in Seq(S) /\ Len(q) = n - 1
            /\ \A i \in 1 .. n - 1 : q[i] = IF i <= 1 THEN r[n] ELSE b[i - 1]
        BY <3>1, <3>2, <3>3, <1>1, <1>4, ConcatProperties
      <3> HIDE DEF q
      <3>5. \A i \in 2 .. n - 1 : b[i - 1] = r[i]
        BY <3>1, <1>1
      <3> QED BY <3>4, <3>5, <2>1, <1>1
    <2>2. CASE p # 1
      <3> DEFINE a == SubSeq(r, 1, p - 1)
                 b == SubSeq(r, p + 1, n)
      <3>1. /\ a \in Seq(S) /\ Len(a) = p - 1
            /\ \A i \in 1 .. p - 1 : a[i] = r[i]
        BY <1>1, <1>2, <1>5, <2>2, SubSeqProperties
      <3>2. /\ b \in Seq(S) /\ Len(b) = n - p
            /\ \A i \in 1 .. n - p : b[i] = r[i + p]
        BY <1>1, <1>2, <1>5, SubSeqProperties
      <3>3. q = a \o b
        BY <2>2 DEF RemoveItem
      <3> HIDE DEF a, b
      <3> HIDE DEF q, p, n
      <3>4. /\ q \in Seq(S) /\ Len(q) = Len(a) + Len(b)
            /\ \A i \in 1 .. Len(a) + Len(b) :
                 q[i] = IF i <= Len(a) THEN a[i] ELSE b[i - Len(a)]
        BY <3>1, <3>2, <3>3, ConcatProperties
      <3>5. Len(a) + Len(b) = n - 1
        BY <3>1, <3>2, <1>1, <1>2
      <3>6. ASSUME NEW i \in 1 .. n - 1
            PROVE  q[i] = r[IF i < p THEN i ELSE i + 1]
        <4>1. q[i] = IF i <= p - 1 THEN a[i] ELSE b[i - (p - 1)]
          BY <3>1, <3>4, <3>5
        <4>2. CASE i < p
          BY <4>1, <4>2, <3>1, <1>1, <1>2
        <4>3. CASE i >= p
          <5>1. i - (p - 1) \in 1 .. n - p /\ i - (p - 1) + p = i + 1
            BY <4>3, <1>1, <1>2
          <5> QED BY <4>1, <4>3, <5>1, <3>2, <1>1, <1>2
        <4> QED BY <4>2, <4>3, <1>1, <1>2
      <3> QED BY <3>4, <3>5, <3>6, <2>2
    <2> QED BY <2>1, <2>2
  <1> QED BY <1>2, <1>4, <1>6 DEF p, q, n

\* uxListRemove takes the task out of the ring, wherever it stands.
LEMMA RemoveItemFacts ==
  ASSUME NEW r, Ring(r), NEW t \in Tasks, t \in Range(r)
  PROVE  /\ Ring(RemoveItem(r, t))
         /\ Range(RemoveItem(r, t)) = Range(r) \ {t}
         /\ Len(RemoveItem(r, t)) = Len(r) - 1
         /\ Len(r) >= 2
  <1> DEFINE S == Tasks \cup {End}
             n == Len(r)
             p == PlaceOf(r, t)
             q == RemoveItem(r, t)
  <1>1. r \in Seq(S) /\ n \in Nat /\ DOMAIN r = 1 .. n
        /\ \A i, j \in 1 .. n : r[i] = r[j] => i = j
    BY RingFacts DEF Ring, Distinct
  <1>2. p \in 1 .. n /\ r[p] = t
    BY RemoveItemPlaces
  <1>4. n >= 2
    BY RemoveItemPlaces
  <1>6. /\ q \in Seq(S) /\ Len(q) = n - 1
        /\ \A i \in 1 .. n - 1 :
             q[i] = r[IF p = 1 /\ i = 1 THEN n
                      ELSE IF i < p \/ p = 1 THEN i ELSE i + 1]
    BY RemoveItemPlaces
  <1> DEFINE from(i) == IF p = 1 /\ i = 1 THEN n
                        ELSE IF i < p \/ p = 1 THEN i ELSE i + 1
  <1>7. DOMAIN q = 1 .. n - 1
    BY <1>6, LenProperties
  <1> HIDE DEF q, p, n
  <1>8. \A i \in 1 .. n - 1 : from(i) \in 1 .. n /\ from(i) # p /\ q[i] = r[from(i)]
    BY <1>1, <1>2, <1>4, <1>6
  <1>9. \A i, j \in 1 .. n - 1 : from(i) = from(j) => i = j
    BY <1>1, <1>2
  <1>10. \A k \in 1 .. n : k # p => \E i \in 1 .. n - 1 : from(i) = k
    <2> SUFFICES ASSUME NEW k \in 1 .. n, k # p
                 PROVE  \E i \in 1 .. n - 1 : from(i) = k
      OBVIOUS
    <2>1. CASE p = 1 /\ k = n
      <3>1. 1 \in 1 .. n - 1 /\ from(1) = k
        BY <2>1, <1>1, <1>4
      <3> QED BY <3>1
    <2>2. CASE p = 1 /\ k # n
      <3>1. k \in 1 .. n - 1 /\ from(k) = k
        BY <2>2, <1>1
      <3> QED BY <3>1
    <2>3. CASE p # 1 /\ k < p
      <3>1. k \in 1 .. n - 1 /\ from(k) = k
        BY <2>3, <1>1, <1>2
      <3> QED BY <3>1
    <2>4. CASE p # 1 /\ k > p
      <3>1. k - 1 \in 1 .. n - 1 /\ from(k - 1) = k
        BY <2>4, <1>1, <1>2
      <3> QED BY <3>1
    <2> QED BY <2>1, <2>2, <2>3, <2>4, <1>1, <1>2
  <1> HIDE DEF from
  <1>11. Distinct(q)
    BY <1>1, <1>7, <1>8, <1>9 DEF Distinct
  <1>12. Range(q) = Range(r) \ {t}
    <2>1. Range(q) = { q[i] : i \in 1 .. n - 1 } /\ Range(r) = { r[i] : i \in 1 .. n }
      BY <1>1, <1>7 DEF Range
    <2>2. \A i \in 1 .. n - 1 : q[i] # t
      BY <1>1, <1>2, <1>8
    <2>3. \A k \in 1 .. n : r[k] # t => \E i \in 1 .. n - 1 : q[i] = r[k]
      BY <1>2, <1>8, <1>10
    <2> QED BY <2>1, <2>2, <2>3, <1>8
  <1>13. End \in Range(q)
    BY <1>12, TaskAssumption DEF Ring
  <1> QED BY <1>4, <1>6, <1>11, <1>12, <1>13 DEF Ring, q, n

-----------------------------------------------------------------------------
(* The places of the items of a ring, counted from pxIndex.                *)

LEMMA PlaceFacts ==
  ASSUME NEW r, Ring(r)
  PROVE  /\ \A x \in Range(r) : PlaceOf(r, x) \in 1 .. Len(r) /\ r[PlaceOf(r, x)] = x
         /\ \A i \in 1 .. Len(r) : r[i] \in Range(r) /\ PlaceOf(r, r[i]) = i
  <1>1. DOMAIN r = 1 .. Len(r) /\ Range(r) = { r[i] : i \in 1 .. Len(r) }
    BY RingFacts
  <1>2. ASSUME NEW x \in Range(r)
        PROVE  PlaceOf(r, x) \in 1 .. Len(r) /\ r[PlaceOf(r, x)] = x
    <2>1. \E i \in DOMAIN r : r[i] = x
      BY <1>1
    <2> QED BY <1>1, <2>1 DEF PlaceOf
  <1>3. ASSUME NEW i \in 1 .. Len(r) PROVE r[i] \in Range(r) /\ PlaceOf(r, r[i]) = i
    <2>1. r[i] \in Range(r)
      BY <1>1
    <2> QED BY <1>1, <1>2, <2>1 DEF Ring, Distinct
  <1> QED BY <1>2, <1>3

\* vListInsertEnd leaves every item at its place.
LEMMA InsertEndPlaces ==
  ASSUME NEW r, Ring(r), NEW t \in Tasks, t \notin Range(r)
  PROVE  /\ PlaceOf(InsertEnd(r, t), t) = Len(r) + 1
         /\ \A x \in Range(r) : PlaceOf(InsertEnd(r, t), x) = PlaceOf(r, x)
         /\ Head(InsertEnd(r, t)) = Head(r)
  <1> DEFINE q == InsertEnd(r, t)
             n == Len(r)
  <1>1. n \in Nat /\ n >= 1 /\ r \in Seq(Tasks \cup {End})
    BY RingFacts DEF Ring
  <1>2. Ring(q) /\ Len(q) = n + 1
    BY InsertEndFacts
  <1>3. (\A i \in 1 .. n : q[i] = r[i]) /\ q[n + 1] = t
    BY <1>1, AppendProperties DEF InsertEnd
  <1> HIDE DEF q
  <1>4. PlaceOf(q, t) = n + 1
    BY <1>1, <1>2, <1>3, PlaceFacts
  <1>5. ASSUME NEW x \in Range(r) PROVE PlaceOf(q, x) = PlaceOf(r, x)
    <2>1. PlaceOf(r, x) \in 1 .. n /\ r[PlaceOf(r, x)] = x
      BY PlaceFacts
    <2>2. PlaceOf(r, x) \in 1 .. n + 1 /\ q[PlaceOf(r, x)] = x
      BY <2>1, <1>1, <1>3
    <2> QED BY <2>2, <1>2, PlaceFacts
  <1>6. Head(q) = Head(r)
    BY <1>1, <1>2, <1>3
  <1> QED BY <1>4, <1>5, <1>6 DEF q

\* When pxIndex goes to the next item, the others are one place nearer.
LEMMA StepPlaces ==
  ASSUME NEW r, Ring(r)
  PROVE  \A x \in Range(r) :
           PlaceOf(Step(r), x) = IF PlaceOf(r, x) = 1 THEN Len(r)
                                                      ELSE PlaceOf(r, x) - 1
  <1> DEFINE q == Step(r)
             n == Len(r)
  <1>1. n \in Nat /\ n >= 1
    BY RingFacts
  <1>2. /\ Ring(q) /\ Len(q) = n
        /\ q[n] = r[1] /\ \A i \in 1 .. n - 1 : q[i] = r[i + 1]
    BY StepFacts
  <1> HIDE DEF q
  <1>3. ASSUME NEW x \in Range(r)
        PROVE  PlaceOf(q, x) = IF PlaceOf(r, x) = 1 THEN n ELSE PlaceOf(r, x) - 1
    <2>1. PlaceOf(r, x) \in 1 .. n /\ r[PlaceOf(r, x)] = x
      BY PlaceFacts
    <2>2. CASE PlaceOf(r, x) = 1
      <3>1. n \in 1 .. n /\ q[n] = x
        BY <2>1, <2>2, <1>1, <1>2
      <3> QED BY <2>2, <3>1, <1>2, PlaceFacts
    <2>3. CASE PlaceOf(r, x) # 1
      <3>1. PlaceOf(r, x) - 1 \in 1 .. n - 1 /\ PlaceOf(r, x) - 1 \in 1 .. n
            /\ PlaceOf(r, x) - 1 + 1 = PlaceOf(r, x)
        BY <2>1, <2>3, <1>1
      <3>2. q[PlaceOf(r, x) - 1] = x
        BY <2>1, <3>1, <1>2
      <3> QED BY <2>3, <3>1, <3>2, <1>2, PlaceFacts
    <2> QED BY <2>2, <2>3
  <1> QED BY <1>3 DEF q

\* When the item at pxIndex is removed, the one before it, which is the last
\* to be reached, takes its place.
LEMMA RemovePlaces ==
  ASSUME NEW r, Ring(r), NEW t \in Tasks, t \in Range(r)
  PROVE  \A x \in Range(r) \ {t} :
           PlaceOf(RemoveItem(r, t), x) =
             IF PlaceOf(r, t) = 1
               THEN IF PlaceOf(r, x) = Len(r) THEN 1 ELSE PlaceOf(r, x)
               ELSE IF PlaceOf(r, x) < PlaceOf(r, t) THEN PlaceOf(r, x)
                                                     ELSE PlaceOf(r, x) - 1
  <1> DEFINE q == RemoveItem(r, t)
             n == Len(r)
             p == PlaceOf(r, t)
             from(i) == IF p = 1 /\ i = 1 THEN n
                        ELSE IF i < p \/ p = 1 THEN i ELSE i + 1
  <1>1. n \in Nat /\ n >= 2 /\ p \in 1 .. n /\ r[p] = t
    BY RingFacts, RemoveItemPlaces
  <1>2. Ring(q) /\ Len(q) = n - 1 /\ \A i \in 1 .. n - 1 : q[i] = r[from(i)]
    BY RemoveItemFacts, RemoveItemPlaces
  <1> HIDE DEF q, n, p
  <1> SUFFICES ASSUME NEW x \in Range(r) \ {t}
               PROVE  PlaceOf(q, x) =
                        IF p = 1 THEN IF PlaceOf(r, x) = n THEN 1 ELSE PlaceOf(r, x)
                        ELSE IF PlaceOf(r, x) < p THEN PlaceOf(r, x)
                                                  ELSE PlaceOf(r, x) - 1
    BY DEF q, n, p
  <1> DEFINE j == PlaceOf(r, x)
             k == IF p = 1 THEN IF j = n THEN 1 ELSE j
                  ELSE IF j < p THEN j ELSE j - 1
  <1>3. j \in 1 .. n /\ r[j] = x /\ j # p
    BY <1>1, PlaceFacts DEF n
  <1> HIDE DEF j
  <1>4. k \in 1 .. n - 1 /\ from(k) = j
    BY <1>1, <1>3
  <1> HIDE DEF k, from
  <1>5. q[k] = x
    BY <1>2, <1>3, <1>4
  <1>6. PlaceOf(q, x) = k
    BY <1>2, <1>4, <1>5, PlaceFacts
  <1> QED BY <1>6 DEF k, j

-----------------------------------------------------------------------------
(* Delayed lists.                                                          *)

Sorted(list) ==
  \A i, j \in DOMAIN list : i < j => list[i].wake <= list[j].wake

\* No task is in the list twice.
OneEach(list) ==
  \A i, j \in DOMAIN list : list[i].task = list[j].task => i = j

\* A non-empty set of natural numbers has a least member.
LEMMA LeastMember ==
  ASSUME NEW T \in SUBSET Nat, T # {}
  PROVE  \E n \in T : \A m \in T : n <= m
  <1>1. PICK n \in T : \A m \in T : <<m, n>> \notin OpToRel(<, Nat)
    BY NatLessThanWellFounded, WFMin
  <1>2. ASSUME NEW m \in T PROVE n <= m
    <2>1. <<m, n>> \in Nat \X Nat /\ ~(m < n)
      BY <1>1 DEF OpToRel
    <2> QED BY <2>1
  <1> QED BY <1>2

\* vListInsert finds a place in every list.
LEMMA EarlierFacts ==
  ASSUME NEW list \in Seq(Entries), NEW wake \in Ticks
  PROVE  /\ Earlier(list, wake) \in 0 .. Len(list)
         /\ \A i \in 1 .. Earlier(list, wake) : list[i].wake <= wake
         /\ Earlier(list, wake) < Len(list) => wake < list[Earlier(list, wake) + 1].wake
  <1> DEFINE n == Len(list)
             T == { k \in 0 .. n : k = n \/ wake < list[k + 1].wake }
             Fits(k) == /\ \A i \in 1 .. k : list[i].wake <= wake
                        /\ k < n => wake < list[k + 1].wake
  <1>1. n \in Nat /\ n \in T /\ T \in SUBSET Nat
    BY LenProperties
  <1>2. PICK k \in T : \A m \in T : k <= m
    BY <1>1, LeastMember
  <1>3. ASSUME NEW i \in 1 .. k PROVE list[i].wake <= wake
    <2>1. i - 1 \in 0 .. n /\ i - 1 # n /\ i - 1 \notin T
      BY <1>1, <1>2
    <2>2. ~(wake < list[i - 1 + 1].wake) /\ i - 1 + 1 = i /\ i \in 1 .. n
      BY <2>1, <1>1, <1>2
    <2>3. list[i] \in Entries
      BY <2>2, ElementOfSeq
    <2> QED BY <2>2, <2>3, TickAssumption DEF Entries, Ticks, MaxDelay
  <1>4. k \in 0 .. n /\ Fits(k)
    BY <1>1, <1>2, <1>3
  <1>5. Earlier(list, wake) = CHOOSE m \in 0 .. n : Fits(m)
    BY DEF Earlier
  <1> HIDE DEF Fits, n
  <1>6. Earlier(list, wake) \in 0 .. n /\ Fits(Earlier(list, wake))
    BY <1>4, <1>5
  <1> QED BY <1>6 DEF Fits, n

\* vListInsert adds its entry and keeps the order of the others.
LEMMA InsertFacts ==
  ASSUME NEW list \in Seq(Entries), NEW e \in Entries
  PROVE  /\ Insert(list, e) \in Seq(Entries)
         /\ Range(Insert(list, e)) = Range(list) \cup {e}
         /\ Sorted(list) => Sorted(Insert(list, e))
         /\ OneEach(list) /\ ~InList(list, e.task) => OneEach(Insert(list, e))
         /\ FirstWake(Insert(list, e)) =
              IF e.wake < FirstWake(list) THEN e.wake ELSE FirstWake(list)
  <1> DEFINE n == Len(list)
             k == Earlier(list, e.wake)
             q == Insert(list, e)
             a == SubSeq(list, 1, k)
             b == SubSeq(list, k + 1, n)
  <1>1. /\ n \in Nat /\ DOMAIN list = 1 .. n
        /\ \A i \in 1 .. n : list[i] \in Entries
    BY LenProperties, ElementOfSeq
  <1>2. e.wake \in Ticks
    BY DEF Entries
  <1>3. /\ k \in 0 .. n
        /\ \A i \in 1 .. k : list[i].wake <= e.wake
        /\ k < n => e.wake < list[k + 1].wake
    BY <1>2, EarlierFacts
  <1>4. /\ a \in Seq(Entries) /\ Len(a) = k
        /\ \A i \in 1 .. k : a[i] = list[i]
    <2> HIDE DEF k
    <2> QED BY <1>1, <1>3, SubSeqProperties
  <1>5. /\ b \in Seq(Entries) /\ Len(b) = n - k
        /\ \A i \in 1 .. n - k : b[i] = list[i + k]
    <2> HIDE DEF k, n
    <2>1. k + 1 \in Int /\ n \in Int /\ \A i \in k + 1 .. n : list[i] \in Entries
      BY <1>1, <1>3
    <2>2. /\ b \in Seq(Entries)
          /\ Len(b) = IF k + 1 <= n THEN n - (k + 1) + 1 ELSE 0
          /\ \A i \in 1 .. n - (k + 1) + 1 : b[i] = list[k + 1 + i - 1]
      BY <2>1, SubSeqProperties
    <2> HIDE DEF b
    <2>3. k \in Int /\ n \in Int /\ k <= n /\ n - (k + 1) + 1 = n - k
      BY <1>1, <1>3
    <2>4. Len(b) = n - k
      <3>1. IF k + 1 <= n THEN n - (k + 1) + 1 = n - k ELSE n - k = 0
        BY <2>3
      <3> QED BY <2>2, <3>1
    <2>5. ASSUME NEW i \in 1 .. n - k PROVE b[i] = list[i + k]
      <3>1. i \in 1 .. n - (k + 1) + 1 /\ k + 1 + i - 1 = i + k
        BY <2>3
      <3> QED BY <2>2, <3>1
    <2> QED BY <2>2, <2>4, <2>5
  <1>6. <<e>> \in Seq(Entries) /\ Len(<<e>>) = 1 /\ <<e>>[1] = e
    OBVIOUS
  <1>7. q = (a \o <<e>>) \o b
    BY DEF Insert
  <1> HIDE DEF a, b, k, n, q
  <1> DEFINE c == a \o <<e>>
  <1>8. /\ c \in Seq(Entries) /\ Len(c) = k + 1
        /\ \A i \in 1 .. k : c[i] = a[i]
        /\ c[k + 1] = e
    BY <1>4, <1>6, <1>3, ConcatProperties
  <1> HIDE DEF c
  <1>9. /\ q \in Seq(Entries) /\ Len(q) = Len(c) + Len(b)
        /\ \A i \in 1 .. Len(c) + Len(b) :
             q[i] = IF i <= Len(c) THEN c[i] ELSE b[i - Len(c)]
    <2>1. q = c \o b
      BY <1>7 DEF c
    <2> QED BY <2>1, <1>8, <1>5, ConcatProperties
  <1>10. Len(c) + Len(b) = n + 1
    BY <1>8, <1>5, <1>1, <1>3
  <1>11. DOMAIN q = 1 .. n + 1
    BY <1>9, <1>10, LenProperties
  <1>12. ASSUME NEW i \in 1 .. n + 1
         PROVE  /\ i <= k => q[i] = list[i] /\ i \in 1 .. n
                /\ i = k + 1 => q[i] = e
                /\ i > k + 1 => q[i] = list[i - 1] /\ i - 1 \in 1 .. n
    <2>1. CASE i <= k
      BY <2>1, <1>3, <1>4, <1>8, <1>9, <1>10, <1>1
    <2>2. CASE i = k + 1
      BY <2>2, <1>3, <1>8, <1>9, <1>10
    <2>3. CASE i > k + 1
      <3>1. i - (k + 1) \in 1 .. n - k /\ i - (k + 1) + k = i - 1
        BY <2>3, <1>1, <1>3
      <3>2. q[i] = b[i - (k + 1)]
        BY <2>3, <1>3, <1>8, <1>9, <1>10
      <3> QED BY <2>3, <3>1, <3>2, <1>5, <1>1, <1>3
    <2> QED BY <2>1, <2>2, <2>3, <1>1, <1>3
  <1>13. k + 1 \in 1 .. n + 1
    BY <1>1, <1>3
  <1>14. Range(q) = Range(list) \cup {e}
    <2>1. Range(q) = { q[i] : i \in 1 .. n + 1 } /\ Range(list) = { list[i] : i \in 1 .. n }
      BY <1>1, <1>11 DEF Range
    <2>2. ASSUME NEW i \in 1 .. n PROVE \E j \in 1 .. n + 1 : q[j] = list[i]
      <3>1. CASE i <= k
        <4>1. i \in 1 .. n + 1
          BY <1>1
        <4> QED BY <3>1, <4>1, <1>12
      <3>2. CASE i > k
        <4>1. i + 1 \in 1 .. n + 1 /\ i + 1 > k + 1 /\ i + 1 - 1 = i
          BY <3>2, <1>1, <1>3
        <4> QED BY <4>1, <1>12
      <3> QED BY <3>1, <3>2, <1>1, <1>3
    <2>3. ASSUME NEW j \in 1 .. n + 1
          PROVE  q[j] = e \/ \E i \in 1 .. n : q[j] = list[i]
      BY <1>1, <1>3, <1>12
    <2> QED BY <2>1, <2>2, <2>3, <1>12, <1>13
  <1>15. \A i \in 1 .. n : list[i].wake \in Nat /\ e.wake \in Nat
    BY <1>1, <1>2, TickAssumption DEF Entries, Ticks, MaxDelay
  <1>16. ASSUME Sorted(list) PROVE Sorted(q)
    <2> SUFFICES ASSUME NEW i \in 1 .. n + 1, NEW j \in 1 .. n + 1, i < j
                 PROVE  q[i].wake <= q[j].wake
      BY <1>11 DEF Sorted
    <2>1. \A x, y \in 1 .. n : x <= y => list[x].wake <= list[y].wake
      BY <1>16, <1>1, <1>15 DEF Sorted
    <2>2. \A x \in 1 .. n : x > k => e.wake <= list[x].wake
      <3> SUFFICES ASSUME NEW x \in 1 .. n, x > k PROVE e.wake <= list[x].wake
        OBVIOUS
      <3>1. k + 1 \in 1 .. n /\ k + 1 <= x /\ k < n
        BY <1>1, <1>3
      <3> QED BY <3>1, <2>1, <1>3, <1>15
    <2>3. CASE j <= k
      BY <2>1, <2>3, <1>12, <1>1, <1>3
    <2>4. CASE j = k + 1
      <3>1. i \in 1 .. k
        BY <2>4, <1>3
      <3> QED BY <3>1, <2>4, <1>12, <1>3
    <2>5. CASE j > k + 1 /\ i <= k
      <3>1. i <= j - 1
        BY <2>5, <1>3
      <3> QED BY <3>1, <2>1, <2>5, <1>12, <1>1, <1>3
    <2>6. CASE j > k + 1 /\ i = k + 1
      <3>1. j - 1 > k
        BY <2>6, <1>3
      <3> QED BY <3>1, <2>2, <2>6, <1>12, <1>1, <1>3
    <2>7. CASE j > k + 1 /\ i > k + 1
      <3>1. i - 1 <= j - 1
        OBVIOUS
      <3> QED BY <3>1, <2>1, <2>7, <1>12, <1>1, <1>3
    <2> QED BY <2>3, <2>4, <2>5, <2>6, <2>7, <1>1, <1>3
  <1>17. ASSUME OneEach(list), ~InList(list, e.task) PROVE OneEach(q)
    <2> SUFFICES ASSUME NEW i \in 1 .. n + 1, NEW j \in 1 .. n + 1,
                        q[i].task = q[j].task
                 PROVE  i = j
      BY <1>11 DEF OneEach
    <2>1. /\ \A x, y \in 1 .. n : list[x].task = list[y].task => x = y
          /\ \A x \in 1 .. n : list[x].task # e.task
      BY <1>17, <1>1 DEF OneEach, InList
    <2> QED BY <2>1, <1>12, <1>1, <1>3
  <1>18. FirstWake(q) = IF e.wake < FirstWake(list) THEN e.wake ELSE FirstWake(list)
    <2>1. q # << >> /\ Head(q) = q[1] /\ FirstWake(q) = q[1].wake
      BY <1>9, <1>10, <1>1, EmptySeq DEF FirstWake
    <2>2. CASE list = << >>
      <3>1. n = 0 /\ k = 0 /\ FirstWake(list) = MaxDelay
        BY <2>2, <1>3, EmptySeq DEF FirstWake, n
      <3>2. q[1] = e
        BY <3>1, <1>12, <1>13
      <3>3. e.wake <= MaxDelay
        BY <1>2, TickAssumption DEF Ticks, MaxDelay
      <3>4. e.wake < MaxDelay \/ e.wake = MaxDelay
        BY <3>3, <1>2, TickAssumption DEF Ticks, MaxDelay
      <3> QED BY <2>1, <3>1, <3>2, <3>4
    <2>3. CASE list # << >>
      <3>1. n >= 1 /\ FirstWake(list) = list[1].wake
        BY <2>3, <1>1, EmptySeq DEF FirstWake, n
      <3>2. CASE k = 0
        <4>1. 1 \in 1 .. n + 1 /\ 1 = k + 1 /\ k < n
          BY <3>1, <3>2, <1>1
        <4>2. q[1] = e
          BY <4>1, <1>12
        <4>3. e.wake < list[1].wake
          BY <4>1, <1>3
        <4> QED BY <2>1, <3>1, <4>2, <4>3
      <3>3. CASE k > 0
        <4>1. 1 \in 1 .. k /\ 1 \in 1 .. n + 1 /\ 1 \in 1 .. n
          BY <3>1, <3>3, <1>1, <1>3
        <4>2. q[1] = list[1] /\ list[1].wake <= e.wake
          BY <4>1, <1>3, <1>12
        <4> QED BY <2>1, <3>1, <4>1, <4>2, <1>15
      <3> QED BY <3>2, <3>3, <1>3
    <2> QED BY <2>2, <2>3
  <1> QED BY <1>9, <1>14, <1>16, <1>17, <1>18 DEF q

\* What is left of a delayed list without its head.
LEMMA TailFacts ==
  ASSUME NEW list \in Seq(Entries), list # << >>
  PROVE  /\ Tail(list) \in Seq(Entries) /\ Head(list) \in Entries
         /\ Head(list) \in Range(list)
         /\ Range(Tail(list)) \subseteq Range(list)
         /\ Range(list) = Range(Tail(list)) \cup {Head(list)}
         /\ Sorted(list) => Sorted(Tail(list))
         /\ Sorted(list) => \A x \in Range(list) : Head(list).wake <= x.wake
         /\ OneEach(list) => /\ OneEach(Tail(list))
                             /\ ~InList(Tail(list), Head(list).task)
  <1> DEFINE n == Len(list)
             q == Tail(list)
  <1>1. /\ n \in Nat \ {0} /\ DOMAIN list = 1 .. n
        /\ \A i \in 1 .. n : list[i] \in Entries
    BY LenProperties, ElementOfSeq, EmptySeq
  <1>2. /\ q \in Seq(Entries) /\ Len(q) = n - 1
        /\ \A i \in 1 .. n - 1 : q[i] = list[i + 1]
        /\ Head(list) = list[1]
    BY <1>1, HeadTailProperties
  <1>3. DOMAIN q = 1 .. n - 1
    BY <1>2, LenProperties
  <1> HIDE DEF n, q
  <1>4. Range(list) = { list[i] : i \in 1 .. n } /\ Range(q) = { q[i] : i \in 1 .. n - 1 }
    BY <1>1, <1>3 DEF Range
  <1>5. \A i \in 1 .. n - 1 : i + 1 \in 1 .. n
    BY <1>1
  <1>6. \A i \in 1 .. n : i # 1 => i - 1 \in 1 .. n - 1 /\ q[i - 1] = list[i]
    <2> SUFFICES ASSUME NEW i \in 1 .. n, i # 1
                 PROVE  i - 1 \in 1 .. n - 1 /\ q[i - 1] = list[i]
      OBVIOUS
    <2>1. i - 1 \in 1 .. n - 1 /\ i - 1 + 1 = i
      BY <1>1
    <2> QED BY <2>1, <1>2
  <1>7. 1 \in 1 .. n
    BY <1>1
  <1>8. Range(list) = Range(q) \cup {Head(list)}
    BY <1>2, <1>4, <1>5, <1>6, <1>7
  <1>9. ASSUME Sorted(list) PROVE Sorted(q)
    <2> SUFFICES ASSUME NEW i \in 1 .. n - 1, NEW j \in 1 .. n - 1, i < j
                 PROVE  q[i].wake <= q[j].wake
      BY <1>3 DEF Sorted
    <2>1. i + 1 \in 1 .. n /\ j + 1 \in 1 .. n /\ i + 1 < j + 1
      BY <1>1
    <2>2. list[i + 1].wake <= list[j + 1].wake
      BY <2>1, <1>1, <1>9 DEF Sorted
    <2> QED BY <2>2, <1>2
  <1>10. ASSUME Sorted(list), NEW x \in Range(list) PROVE Head(list).wake <= x.wake
    <2>1. PICK i \in 1 .. n : x = list[i]
      BY <1>4
    <2>2. list[1].wake \in Nat
      BY <1>1, <1>7, TickAssumption DEF Entries, Ticks, MaxDelay
    <2>3. CASE i = 1
      BY <2>1, <2>2, <2>3, <1>2
    <2>4. CASE i # 1
      <3>1. 1 < i
        BY <2>4, <1>1
      <3>2. list[1].wake <= list[i].wake
        BY <3>1, <1>1, <1>7, <1>10 DEF Sorted
      <3> QED BY <2>1, <3>2, <1>2
    <2> QED BY <2>3, <2>4
  <1>11. ASSUME OneEach(list) PROVE OneEach(q) /\ ~InList(q, Head(list).task)
    <2>1. \A i, j \in 1 .. n : list[i].task = list[j].task => i = j
      BY <1>11, <1>1 DEF OneEach
    <2>2. ASSUME NEW i \in 1 .. n - 1, NEW j \in 1 .. n - 1, q[i].task = q[j].task
          PROVE  i = j
      <3>1. i + 1 = j + 1
        BY <2>1, <2>2, <1>2, <1>5
      <3> QED BY <3>1
    <2>3. ASSUME NEW i \in 1 .. n - 1 PROVE q[i].task # Head(list).task
      <3>1. i + 1 # 1
        OBVIOUS
      <3> QED BY <3>1, <2>1, <1>2, <1>5, <1>7
    <2> QED BY <2>2, <2>3, <1>3 DEF OneEach, InList
  <1> QED BY <1>1, <1>2, <1>7, <1>8, <1>9, <1>10, <1>11, <1>4 DEF q
=============================================================================
