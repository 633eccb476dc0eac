-------------------------- MODULE KernelWaitProofs ---------------------------
(***************************************************************************)
(* How long a ready app task waits for the CPU, for every number of tasks. *)
(*                                                                         *)
(* The argument counts turns: Turns(ring, c) is the most context switches  *)
(* that still come before the one to the watched task, when c has the CPU. *)
(* A switch takes one away; a task that is woken goes in behind, so it     *)
(* adds none; a task that blocks takes pxIndex back by one item, and adds  *)
(* turns only when that item is the watched task, which was counted in     *)
(* advance.  pxIndex cannot fall back further than the end marker or the   *)
(* idle task, which never blocks, so this happens once for each wait.  A   *)
(* turn takes at most TurnTicks ticks, of which TicksLeft are still to     *)
(* come.                                                                   *)
(***************************************************************************)
EXTENDS KernelProofs, KernelWait, FiniteSetTheorems

-----------------------------------------------------------------------------
(* How many tasks share the priority of the watched one.                   *)

LEMMA SharingFacts ==
  /\ IsFiniteSet(Sharing) /\ Cardinality(Sharing) \in Nat
  /\ Cardinality(Sharing) >= 1 /\ Idle \in Sharing
  /\ Watched \in Tasks /\ Watched # Idle /\ Watched # End /\ Idle # End
  <1>1. Watched \in Tasks /\ Idle \in Tasks /\ Watched # Idle
        /\ Watched # End /\ Idle # End
    BY TaskFacts, WatchAssumption
  <1>2. IsFiniteSet(Tasks)
    <2> DEFINE m == Len(CreateOrder)
      <2>1. /\ m \in Nat /\ DOMAIN CreateOrder = 1 .. m
          /\ CreateOrder \in [1 .. m -> Tasks]
      BY TaskAssumption, LenProperties
    <2>2. CreateOrder \in Surjection(1 .. m, Tasks)
      BY <2>1, TaskAssumption DEF Surjection
    <2>3. IsFiniteSet(1 .. m)
      BY <2>1, FS_Interval
    <2> QED BY <2>2, <2>3, FS_Surjection
  <1>3. Sharing \in SUBSET Tasks /\ Idle \in Sharing
    BY <1>1, WatchAssumption DEF Sharing
  <1>4. IsFiniteSet(Sharing) /\ Cardinality(Sharing) \in Nat
    BY <1>2, <1>3, FS_Subset, FS_CardinalityType
  <1>5. Cardinality(Sharing) # 0
    BY <1>3, <1>4, FS_EmptySet
  <1> QED BY <1>1, <1>3, <1>4, <1>5

\* A ring of tasks of one priority, in which the watched task waits.
WaitRing(r) ==
  /\ Ring(r) /\ Watched \in Range(r) /\ Idle \in Range(r)
  /\ Range(r) \subseteq Sharing \cup {Watched, End}

LEMMA WaitRingLength ==
  ASSUME NEW r, WaitRing(r)
  PROVE  Len(r) <= Cardinality(Sharing) + 2
  <1> DEFINE n == Len(r)
             T == (Sharing \cup {Watched}) \cup {End}
             s == [i \in 1 .. n |-> r[i]]
  <1>1. /\ n \in Nat /\ DOMAIN r = 1 .. n
        /\ \A i, j \in 1 .. n : r[i] = r[j] => i = j
        /\ \A i \in 1 .. n : r[i] \in T
    BY RingFacts DEF WaitRing, Ring, Distinct
  <1>2. s \in Injection(1 .. n, T)
    BY <1>1 DEF Injection, IsInjective
  <1>3. /\ IsFiniteSet(T)
        /\ Cardinality(T) <= Cardinality(Sharing) + 2 /\ Cardinality(T) \in Nat
    <2>1. ASSUME NEW S, NEW x, IsFiniteSet(S)
          PROVE  /\ IsFiniteSet(S \cup {x})
                 /\ Cardinality(S) \in Nat /\ Cardinality(S \cup {x}) \in Nat
                 /\ Cardinality(S \cup {x}) <= Cardinality(S) + 1
      <3>1. /\ IsFiniteSet(S \cup {x})
            /\ Cardinality(S \cup {x}) =
                 IF x \in S THEN Cardinality(S) ELSE Cardinality(S) + 1
        BY <2>1, FS_AddElement
      <3>2. Cardinality(S) \in Nat
        BY <2>1, FS_CardinalityType
      <3> QED BY <3>1, <3>2
    <2>2. /\ IsFiniteSet(Sharing \cup {Watched})
          /\ Cardinality(Sharing \cup {Watched}) \in Nat
          /\ Cardinality(Sharing \cup {Watched}) <= Cardinality(Sharing) + 1
      BY <2>1, SharingFacts
    <2>3. /\ IsFiniteSet(T) /\ Cardinality(T) \in Nat
          /\ Cardinality(T) <= Cardinality(Sharing \cup {Watched}) + 1
      BY <2>1, <2>2
    <2> HIDE DEF T
    <2> QED BY <2>2, <2>3, SharingFacts
  <1>4. Cardinality(1 .. n) = n
    BY <1>1, FS_Interval
  <1> HIDE DEF T, s
  <1>5. Cardinality(1 .. n) <= Cardinality(T)
    BY <1>2, <1>3, FS_Injection
  <1> QED BY <1>1, <1>3, <1>4, <1>5, SharingFacts

-----------------------------------------------------------------------------
(* How many turns come before that of the watched task.                    *)

\* pxIndex stands at the watched task, which comes last then, or falls back
\* onto it when task c, which has its turn, blocks.
Passed(r, c) ==
  \/ PlaceOf(r, Watched) = 1
  \/ PlaceOf(r, Watched) = Len(r) /\ Head(r) = c /\ c # Idle

\* Nothing that blocks takes pxIndex back over the marker or the idle task.
FirstStop(r) ==
  IF PlaceOf(r, End) < PlaceOf(r, Idle) THEN PlaceOf(r, End) ELSE PlaceOf(r, Idle)

\* The most turns that other tasks get between the one of c and the one of the
\* watched task.
Turns(r, c) ==
  IF Passed(r, c)
    THEN FirstStop(r) - 2 + Cardinality(Sharing)
    ELSE PlaceOf(r, Watched) - 2
           - (IF PlaceOf(r, End) \in 2 .. PlaceOf(r, Watched) THEN 1 ELSE 0)

\* The items that matter, each at its place.
LEMMA WaitRingPlaces ==
  ASSUME NEW r, WaitRing(r)
  PROVE  /\ Len(r) \in Nat /\ Len(r) <= Cardinality(Sharing) + 2
         /\ PlaceOf(r, Watched) \in 1 .. Len(r)
         /\ PlaceOf(r, End) \in 1 .. Len(r)
         /\ PlaceOf(r, Idle) \in 1 .. Len(r)
         /\ PlaceOf(r, Watched) # PlaceOf(r, End)
         /\ PlaceOf(r, Watched) # PlaceOf(r, Idle)
         /\ PlaceOf(r, End) # PlaceOf(r, Idle)
         /\ \A x \in Range(r) : PlaceOf(r, x) = 1 <=> Head(r) = x
  <1>1. Ring(r) /\ {Watched, End, Idle} \subseteq Range(r)
    BY DEF WaitRing, Ring
  <1>2. \A x \in Range(r) : PlaceOf(r, x) \in 1 .. Len(r) /\ r[PlaceOf(r, x)] = x
    BY <1>1, PlaceFacts
  <1>3. /\ PlaceOf(r, Watched) # PlaceOf(r, End)
        /\ PlaceOf(r, Watched) # PlaceOf(r, Idle)
        /\ PlaceOf(r, End) # PlaceOf(r, Idle)
    BY <1>1, <1>2, SharingFacts
  <1>4. Len(r) \in Nat /\ Len(r) >= 1 /\ Head(r) = r[1]
    BY <1>1, RingFacts DEF Ring
  <1>5. PlaceOf(r, r[1]) = 1
    BY <1>1, <1>4, PlaceFacts
  <1> QED BY <1>1, <1>2, <1>3, <1>4, <1>5, WaitRingLength

\* The same as numbers: the length and the places of the watched task, of the
\* marker and of the idle task, for lemmas that reason about nothing else.
Numbers(n, i, e, k, N) ==
  /\ n \in Nat /\ N \in Nat /\ N >= 1 /\ n <= N + 2
  /\ i \in 1 .. n /\ e \in 1 .. n /\ k \in 1 .. n
  /\ i # e /\ i # k /\ e # k

NumberOfTurns(n, i, e, k, N, falls) ==
  IF i = 1 \/ (i = n /\ falls)
    THEN (IF e < k THEN e ELSE k) - 2 + N
    ELSE i - 2 - (IF e \in 2 .. i THEN 1 ELSE 0)

LEMMA NumberFacts ==
  ASSUME NEW r, WaitRing(r), NEW c
  PROVE  /\ Numbers(Len(r), PlaceOf(r, Watched), PlaceOf(r, End),
                    PlaceOf(r, Idle), Cardinality(Sharing))
         /\ Turns(r, c) =
              NumberOfTurns(Len(r), PlaceOf(r, Watched), PlaceOf(r, End),
                PlaceOf(r, Idle), Cardinality(Sharing), Head(r) = c /\ c # Idle)
  <1>1. Numbers(Len(r), PlaceOf(r, Watched), PlaceOf(r, End),
                PlaceOf(r, Idle), Cardinality(Sharing))
    BY WaitRingPlaces, SharingFacts DEF Numbers
  <1> QED BY <1>1 DEF Turns, Passed, FirstStop, NumberOfTurns

\* pxIndex cannot fall back from the marker or from the idle task.
LEMMA PassedFacts ==
  ASSUME NEW r, WaitRing(r), NEW c \in Tasks, Head(r) = c, c # Idle
  PROVE  PlaceOf(r, End) # 1 /\ PlaceOf(r, Idle) # 1
  <1>1. c # End
    BY TaskFacts
  <1> QED BY <1>1, WaitRingPlaces DEF WaitRing, Ring

LEMMA TurnsType ==
  ASSUME NEW r, WaitRing(r), NEW c \in Tasks
  PROVE  Turns(r, c) \in Nat
  <1>1. Head(r) = c /\ c # Idle => PlaceOf(r, End) # 1 /\ PlaceOf(r, Idle) # 1
    BY PassedFacts
  <1> DEFINE n == Len(r)
             N == Cardinality(Sharing)
             i == PlaceOf(r, Watched)
             e == PlaceOf(r, End)
             k == PlaceOf(r, Idle)
             falls == Head(r) = c /\ c # Idle
  <1>2. Numbers(n, i, e, k, N) /\ Turns(r, c) = NumberOfTurns(n, i, e, k, N, falls)
    BY NumberFacts
  <1> HIDE DEF n, N, i, e, k
  <1> QED BY <1>1, <1>2 DEF Numbers, NumberOfTurns

\* A task that becomes ready comes after the watched one, or when pxIndex was
\* to fall back onto that, keeps it from doing so.
LEMMA InsertTurns ==
  ASSUME NEW r, WaitRing(r), NEW c \in Tasks,
         NEW t \in Sharing, t \notin Range(r)
  PROVE  /\ WaitRing(InsertEnd(r, t))
         /\ Turns(InsertEnd(r, t), c) <= Turns(r, c)
  <1> DEFINE q == InsertEnd(r, t)
  <1>1. Ring(r) /\ t \in Tasks /\ {Watched, End, Idle} \subseteq Range(r)
    BY DEF WaitRing, Ring, Sharing
  <1>2. Ring(q) /\ Range(q) = Range(r) \cup {t} /\ Len(q) = Len(r) + 1
    BY <1>1, InsertEndFacts
  <1>3. WaitRing(q)
    BY <1>2 DEF WaitRing
  <1>4. /\ \A x \in {Watched, End, Idle} : PlaceOf(q, x) = PlaceOf(r, x)
        /\ Head(q) = Head(r)
    BY <1>1, InsertEndPlaces
  <1> HIDE DEF q
  <1>5. Head(r) = c /\ c # Idle => PlaceOf(r, End) # 1 /\ PlaceOf(r, Idle) # 1
    BY PassedFacts
  <1> DEFINE n == Len(r)
             N == Cardinality(Sharing)
             i == PlaceOf(r, Watched)
             e == PlaceOf(r, End)
             k == PlaceOf(r, Idle)
             falls == Head(r) = c /\ c # Idle
  <1>6. Turns(q, c) <= Turns(r, c)
    <2>1. /\ Numbers(n, i, e, k, N) /\ Numbers(n + 1, i, e, k, N)
          /\ Turns(r, c) = NumberOfTurns(n, i, e, k, N, falls)
          /\ Turns(q, c) = NumberOfTurns(n + 1, i, e, k, N, falls)
      BY <1>2, <1>3, <1>4, NumberFacts
    <2> HIDE DEF n, N, i, e, k
    <2> QED BY <1>5, <2>1 DEF Numbers, NumberOfTurns
  <1> QED BY <1>3, <1>6 DEF q

\* The watched task comes last when it becomes ready.
LEMMA WokenTurns ==
  ASSUME NEW r, Ring(r), Idle \in Range(r), Watched \notin Range(r),
         Range(r) \subseteq Sharing \cup {End}, NEW c \in Tasks
  PROVE  /\ WaitRing(InsertEnd(r, Watched))
         /\ Turns(InsertEnd(r, Watched), c) <= 2 * Cardinality(Sharing) - 1
  <1> DEFINE q == InsertEnd(r, Watched)
  <1>1. Ring(q) /\ Range(q) = Range(r) \cup {Watched} /\ Len(q) = Len(r) + 1
    BY SharingFacts, InsertEndFacts
  <1>2. WaitRing(q)
    BY <1>1 DEF WaitRing
  <1>3. PlaceOf(q, Watched) = Len(q) /\ Len(r) >= 1 /\ Len(r) \in Nat
    BY <1>1, InsertEndPlaces, RingFacts, SharingFacts
  <1> HIDE DEF q
  <1> DEFINE n == Len(q)
             N == Cardinality(Sharing)
             i == PlaceOf(q, Watched)
             e == PlaceOf(q, End)
             k == PlaceOf(q, Idle)
             falls == Head(q) = c /\ c # Idle
  <1>4. Turns(q, c) <= 2 * N - 1
    <2>1. /\ Numbers(n, i, e, k, N) /\ i = n
          /\ Turns(q, c) = NumberOfTurns(n, i, e, k, N, falls)
      BY <1>2, <1>3, NumberFacts
    <2> HIDE DEF n, N, i, e, k
    <2> QED BY <2>1 DEF Numbers, NumberOfTurns
  <1> QED BY <1>2, <1>4 DEF q, N

\* When the task that has its turn blocks, pxIndex falls back onto the watched
\* task only where that was foreseen.  The first task after the start has its
\* turn with pxIndex at the marker.
LEMMA BlockTurns ==
  ASSUME NEW r, WaitRing(r), NEW c \in Tasks \ {Watched, Idle}, c \in Range(r),
         Head(r) \in {c, End}
  PROVE  /\ WaitRing(RemoveItem(r, c))
         /\ Turns(RemoveItem(r, c), c) <= Turns(r, c)
  <1> DEFINE q == RemoveItem(r, c)
  <1>1. Ring(r) /\ {Watched, End, Idle} \subseteq Range(r) \ {c}
    BY TaskFacts DEF WaitRing, Ring
  <1>2. Ring(q) /\ Range(q) = Range(r) \ {c} /\ Len(q) = Len(r) - 1
    BY <1>1, RemoveItemFacts
  <1>3. WaitRing(q)
    BY <1>1, <1>2 DEF WaitRing
  <1>4. \A x \in {Watched, End, Idle} :
          PlaceOf(q, x) =
            IF PlaceOf(r, c) = 1
              THEN IF PlaceOf(r, x) = Len(r) THEN 1 ELSE PlaceOf(r, x)
              ELSE IF PlaceOf(r, x) < PlaceOf(r, c) THEN PlaceOf(r, x)
                                                    ELSE PlaceOf(r, x) - 1
    BY <1>1, RemovePlaces
  <1>5. Head(q) # c
    <2>1. Len(q) >= 1 /\ q # << >> /\ Len(q) \in Nat /\ Head(q) = q[1]
      BY <1>2, RingFacts DEF Ring
    <2>2. q[1] \in Range(q)
      BY <2>1, <1>2, PlaceFacts
    <2> QED BY <2>1, <2>2, <1>2
  <1>6. /\ PlaceOf(r, c) \in 1 .. Len(r)
        /\ \A x \in {Watched, End, Idle} : PlaceOf(r, x) # PlaceOf(r, c)
        /\ PlaceOf(r, c) = 1 <=> Head(r) = c
        /\ PlaceOf(r, End) = 1 <=> Head(r) = End
    BY <1>1, PlaceFacts, WaitRingPlaces
  <1> HIDE DEF q
  <1> DEFINE n == Len(r)
             N == Cardinality(Sharing)
             i == PlaceOf(r, Watched)
             e == PlaceOf(r, End)
             k == PlaceOf(r, Idle)
             p == PlaceOf(r, c)
             after(x) == IF p = 1 THEN IF x = n THEN 1 ELSE x
                         ELSE IF x < p THEN x ELSE x - 1
  <1>7. Turns(q, c) <= Turns(r, c)
    <2>1. /\ Numbers(n, i, e, k, N)
          /\ Turns(r, c) = NumberOfTurns(n, i, e, k, N, Head(r) = c)
      BY NumberFacts
    <2>2. /\ Numbers(n - 1, after(i), after(e), after(k), N)
          /\ Turns(q, c) = NumberOfTurns(n - 1, after(i), after(e), after(k), N, FALSE)
      <3>1. PlaceOf(q, Watched) = after(i) /\ PlaceOf(q, End) = after(e)
            /\ PlaceOf(q, Idle) = after(k) /\ Len(q) = n - 1
        BY <1>2, <1>4
      <3> HIDE DEF n, i, e, k, N, after
      <3> QED BY <1>3, <1>5, <3>1, NumberFacts DEF N, NumberOfTurns
    <2>3. /\ p \in 1 .. n /\ i # p /\ e # p /\ k # p
          /\ p = 1 <=> Head(r) = c
          /\ e = 1 <=> Head(r) = End
          /\ Head(r) = c \/ Head(r) = End
      BY <1>6
    <2> HIDE DEF n, i, e, k, N, p
    <2>4. p = 1 \/ (e = 1 /\ p # 1)
      BY <2>3
    <2>5. CASE p = 1
      BY <2>1, <2>2, <2>3, <2>5 DEF Numbers, NumberOfTurns
    <2>6. CASE e = 1 /\ p # 1
      BY <2>1, <2>2, <2>3, <2>6 DEF Numbers, NumberOfTurns
    <2> QED BY <2>4, <2>5, <2>6
  <1> QED BY <1>3, <1>7 DEF q

\* vTaskSwitchContext takes one turn away, or gives the CPU to the watched
\* task.
LEMMA SwitchTurns ==
  ASSUME NEW r, WaitRing(r), Head(NextEntry(r)) # Watched, NEW c \in Tasks
  PROVE  /\ WaitRing(NextEntry(r)) /\ Head(NextEntry(r)) \in Tasks
         /\ Turns(NextEntry(r), Head(NextEntry(r))) <= 2 * Cardinality(Sharing) - 2
         /\ Turns(NextEntry(r), Head(NextEntry(r))) + 1 <= Turns(r, c)
  <1> DEFINE s == Step(r)
             q == NextEntry(r)
             d == Head(q)
             n == Len(r)
             after(i) == IF i = 1 THEN n ELSE i - 1
  <1>1. Ring(r) /\ {Watched, End, Idle} \subseteq Range(r)
    BY DEF WaitRing, Ring
  <1>2. n \in Nat /\ n >= 2
    BY <1>1, RemoveItemFacts, TaskFacts
  <1>3. Ring(s) /\ Range(s) = Range(r) /\ Len(s) = n
        /\ \A x \in Range(r) : PlaceOf(s, x) = after(PlaceOf(r, x))
    BY <1>1, StepFacts, StepPlaces
  <1>4. Ring(q) /\ Range(q) = Range(r) /\ Len(q) = n /\ d \in Range(r) \ {End}
    BY <1>1, <1>2, NextEntryFacts
  <1>5. WaitRing(s) /\ WaitRing(q)
    BY <1>3, <1>4 DEF WaitRing
  <1>6. d \in Tasks
    BY <1>4, <1>1, RingFacts
  <1>7. \A x \in {Watched, End, Idle} :
          PlaceOf(q, x) = IF PlaceOf(s, End) = 1 THEN after(PlaceOf(s, x))
                                                 ELSE PlaceOf(s, x)
    <2>1. PlaceOf(s, End) = 1 <=> Head(s) = End
      BY <1>1, <1>3, <1>5, WaitRingPlaces
    <2>2. CASE Head(s) = End
      <3>1. q = Step(s)
        BY <2>2 DEF NextEntry
      <3> QED BY <2>1, <2>2, <3>1, <1>1, <1>3, StepPlaces
    <2>3. CASE Head(s) # End
      BY <2>1, <2>3 DEF NextEntry
    <2> QED BY <2>2, <2>3
  <1>8. /\ PlaceOf(q, Watched) # 1 /\ PlaceOf(q, End) # 1
        /\ PlaceOf(q, Idle) = 1 <=> d = Idle
    <2>1. d # Watched /\ d # End
      BY <1>4
    <2>2. \A x \in Range(q) : PlaceOf(q, x) = 1 <=> d = x
      BY <1>5, WaitRingPlaces
    <2>3. Watched \in Range(q) /\ End \in Range(q) /\ Idle \in Range(q)
      BY <1>1, <1>4
    <2> HIDE DEF d, q
    <2> QED BY <2>1, <2>2, <2>3
  <1>9. \A x \in {Watched, End, Idle} : PlaceOf(s, x) = after(PlaceOf(r, x))
    BY <1>1, <1>3
  <1>10. Head(r) = c /\ c # Idle => PlaceOf(r, End) # 1 /\ PlaceOf(r, Idle) # 1
    BY PassedFacts
  <1>11. /\ Turns(q, d) =
              IF PlaceOf(q, Watched) = n /\ PlaceOf(q, Idle) # 1
                THEN FirstStop(q) - 2 + Cardinality(Sharing)
                ELSE PlaceOf(q, Watched) - 2
                     - (IF PlaceOf(q, End) < PlaceOf(q, Watched) THEN 1 ELSE 0)
    <2>1. /\ n \in Nat /\ Len(q) = n /\ PlaceOf(q, Watched) # PlaceOf(q, End)
          /\ PlaceOf(q, Watched) \in 1 .. n /\ PlaceOf(q, End) \in 1 .. n
      BY <1>2, <1>4, <1>5, WaitRingPlaces
    <2>2. Passed(q, d) <=> PlaceOf(q, Watched) = n /\ PlaceOf(q, Idle) # 1
      BY <1>8, <2>1 DEF Passed
    <2> HIDE DEF q, d, n
    <2>3. PlaceOf(q, End) \in 2 .. PlaceOf(q, Watched)
            <=> PlaceOf(q, End) < PlaceOf(q, Watched)
      BY <1>8, <2>1
    <2> QED BY <2>2, <2>3 DEF Turns
  <1> DEFINE N == Cardinality(Sharing)
             i == PlaceOf(r, Watched)
             e == PlaceOf(r, End)
             k == PlaceOf(r, Idle)
             qi == PlaceOf(q, Watched)
             qe == PlaceOf(q, End)
             qk == PlaceOf(q, Idle)
  <1>12. /\ N \in Nat /\ N >= 1 /\ n <= N + 2
         /\ i \in 1 .. n /\ e \in 1 .. n /\ k \in 1 .. n
         /\ i # e /\ i # k /\ e # k
         /\ qi \in 1 .. n /\ qe \in 1 .. n /\ qk \in 1 .. n
         /\ qi # qe /\ qi # qk /\ qe # qk /\ qi # 1 /\ qe # 1
    BY <1>4, <1>5, <1>8, WaitRingPlaces, SharingFacts
  <1>13. \/ /\ e = 2
            /\ \A x \in {i, e, k} : after(x) \in 1 .. n
            /\ qi = after(after(i)) /\ qe = after(after(e)) /\ qk = after(after(k))
         \/ e # 2 /\ qi = after(i) /\ qe = after(e) /\ qk = after(k)
    <2> HIDE DEF q, s, d
    <2>1. PlaceOf(s, End) = 1 <=> e = 2
      BY <1>2, <1>9, <1>12
    <2>2. \A x \in {i, e, k} : after(x) \in 1 .. n
      BY <1>2, <1>12
    <2> HIDE DEF after
    <2> QED BY <2>1, <2>2, <1>7, <1>9
  <1>14. /\ Turns(q, d) =
              IF qi = n /\ qk # 1
                THEN (IF qe < qk THEN qe ELSE qk) - 2 + N
                ELSE qi - 2 - (IF qe < qi THEN 1 ELSE 0)
         /\ \/ /\ i = 1 \/ (i = n /\ e # 1 /\ k # 1)
               /\ Turns(r, c) = (IF e < k THEN e ELSE k) - 2 + N
            \/ /\ i # 1
               /\ Turns(r, c) = i - 2 - (IF e \in 2 .. i THEN 1 ELSE 0)
    <2>1. Turns(q, d) =
            IF qi = n /\ qk # 1
              THEN (IF qe < qk THEN qe ELSE qk) - 2 + N
              ELSE qi - 2 - (IF qe < qi THEN 1 ELSE 0)
      BY <1>11 DEF FirstStop
    <2>2. CASE Passed(r, c)
      BY <2>1, <2>2, <1>10 DEF Turns, Passed, FirstStop
    <2>3. CASE ~Passed(r, c)
      BY <2>1, <2>3 DEF Turns, Passed
    <2> QED BY <2>2, <2>3
  <1> HIDE DEF q, s, d, N, i, e, k, qi, qe, qk, n
  <1>15. Turns(q, d) <= 2 * N - 2
    BY <1>2, <1>12, <1>14
  <1>16. Turns(q, d) + 1 <= Turns(r, c)
    BY <1>2, <1>12, <1>13, <1>14
  <1> QED BY <1>5, <1>6, <1>15, <1>16 DEF q, d, N

\* At the start pxIndex is at the marker, and the task that was created last
\* has its turn first.
LEMMA StartTurns ==
  ASSUME NEW r, WaitRing(r), Head(r) = End, r[Len(r)] # Watched, NEW c \in Tasks
  PROVE  Turns(r, c) <= 2 * Cardinality(Sharing) - 2
  <1>1. Ring(r) /\ {Watched, End} \subseteq Range(r)
    BY DEF WaitRing, Ring
  <1>2. PlaceOf(r, Watched) # Len(r) /\ PlaceOf(r, End) = 1
    BY <1>1, PlaceFacts, WaitRingPlaces
  <1> DEFINE n == Len(r)
             N == Cardinality(Sharing)
             i == PlaceOf(r, Watched)
             e == PlaceOf(r, End)
             k == PlaceOf(r, Idle)
             falls == Head(r) = c /\ c # Idle
  <1>3. /\ Numbers(n, i, e, k, N) /\ i # n /\ e = 1
        /\ Turns(r, c) = NumberOfTurns(n, i, e, k, N, falls)
    BY <1>2, NumberFacts
  <1> HIDE DEF n, N, i, e, k
  <1>4. Turns(r, c) <= 2 * N - 2
    BY <1>3 DEF Numbers, NumberOfTurns
  <1> QED BY <1>4 DEF N

-----------------------------------------------------------------------------
(* The inductive invariant.                                                *)

\* The ready list the watched task waits in.
Queue == ready[Priority[Watched]]

\* A task that runs its own code, or has not yet left its ready list, has
\* pxIndex at its item; the first task after the start has it at the marker.
IndexInv ==
  /\ phase = "boot" =>
       /\ \A p \in Priorities : Head(ready[p]) = End
       /\ pxCurrentTCB # End =>
            ready[Priority[pxCurrentTCB]][Len(ready[Priority[pxCurrentTCB]])]
              = pxCurrentTCB
  /\ phase = "running" /\ pc[pxCurrentTCB] \in {"run", "locked", "leave"} =>
       Head(ready[Priority[pxCurrentTCB]]) \in {pxCurrentTCB, End}

\* A yield is pending only until the end of xTaskResumeAll.
YieldInv == xYieldPending => phase = "running" /\ pc[pxCurrentTCB] = "unwind"

\* The most ticks that still come before the current task is switched out.
TicksLeft ==
  IF tick # "no" THEN 0
  ELSE IF uxSchedulerSuspended THEN TurnTicks - xPendedTicks
  ELSE IF pc[pxCurrentTCB] = "unwind" /\ (xPendedTicks > 0 \/ xYieldPending) THEN 0
  ELSE TurnTicks

\* The ticks the watched task has waited and those it still has to wait.
WaitInv ==
  /\ waited \in Nat
  /\ Waits => waited + TurnTicks * Turns(Queue, pxCurrentTCB) + TicksLeft <= WaitBound
  /\ ~Waits => waited = 0

-----------------------------------------------------------------------------
(* What follows for a task that waits.                                     *)

LEMMA TurnTicksFacts ==
  TurnTicks \in Nat /\ TurnTicks >= 1 /\ MaxPended <= TurnTicks
  BY TickAssumption DEF TurnTicks

LEMMA QueueFacts ==
  ASSUME KernelInv, phase = "running"
  PROVE  /\ Ring(Queue) /\ Idle \in Range(Queue)
         /\ Range(Queue) \subseteq Sharing \cup {Watched, End}
         /\ IsReady(Watched) <=> Watched \in Range(Queue)
         /\ IsReady(Watched) => WaitRing(Queue)
  <1>1. Priority[Watched] \in Priorities
    BY SharingFacts, PriorityFacts
  <1>2. Ring(Queue) /\ \A t \in Range(Queue) : t # End => Priority[t] = Priority[Watched]
    BY <1>1 DEF KernelInv, Rings, Queue
  <1>3. Idle \in Range(Queue)
    BY RunningFacts, ReadyInRing, WatchAssumption DEF Queue
  <1>4. Range(Queue) \subseteq Sharing \cup {Watched, End}
    BY <1>2, RingFacts DEF Sharing
  <1>5. IsReady(Watched) <=> Watched \in Range(Queue)
    BY ReadyInRing DEF Queue
  <1> QED BY <1>2, <1>3, <1>4, <1>5 DEF WaitRing

\* What is true while the watched task waits.
Waiting ==
  /\ phase = "running" /\ IsReady(Watched)
  /\ pxCurrentTCB \in Tasks \ {Watched}
  /\ Priority[pxCurrentTCB] = Priority[Watched]
  /\ WaitRing(Queue) /\ Len(Queue) > 2
  /\ Turns(Queue, pxCurrentTCB) \in Nat

LEMMA WaitsFacts == KernelInv => (Waits <=> Waiting)
  <1>1. \A t \in Tasks : Priority[t] \in Nat /\ Priority[Watched] <= Priority[t]
    BY PriorityFacts, PriorityAssumption, WatchAssumption
  <1>2. ASSUME KernelInv, Waiting PROVE Waits
    BY <1>1, <1>2, SharingFacts DEF Waiting, Waits
  <1>3. ASSUME KernelInv, Waits PROVE Waiting
    <2>1. phase = "running" /\ IsReady(Watched) /\ pxCurrentTCB \in Tasks \ {Watched}
      BY <1>3, RunningFacts DEF Waits
    <2>2. Priority[pxCurrentTCB] = Priority[Watched]
      BY <1>1, <1>3, <2>1, SharingFacts DEF Waits
    <2>3. WaitRing(Queue)
      BY <1>3, <2>1, QueueFacts
    <2>4. Len(Queue) > 2
      BY <2>3, WaitRingPlaces
    <2>5. Turns(Queue, pxCurrentTCB) \in Nat
      BY <2>1, <2>3, TurnsType
    <2> QED BY <2>1, <2>2, <2>3, <2>4, <2>5 DEF Waiting
  <1> QED BY <1>2, <1>3

LEMMA WaitsFactsNext == KernelInv' => (Waits' <=> Waiting')
  BY WaitsFacts, PTL

LEMMA TicksLeftType == KernelInv => TicksLeft \in 0 .. TurnTicks
  BY TurnTicksFacts, TickAssumption DEF KernelInv, TypeOK, TicksLeft

LEMMA TicksLeftTypeNext == KernelInv' => (TicksLeft \in 0 .. TurnTicks)' 
  BY TicksLeftType, PTL

\* What a step that counts as a tick is.
LEMMA TickComesFacts ==
  ASSUME KernelInv, TickComes
  PROVE  /\ phase = "running" /\ tick = "no"
         /\ pc' = pc /\ pc[pxCurrentTCB] # "unwind"
         /\ \/ /\ uxSchedulerSuspended' /\ uxSchedulerSuspended /\ tick' = "no"
               /\ xPendedTicks < MaxPended /\ xPendedTicks' = xPendedTicks + 1
            \/ ~uxSchedulerSuspended /\ tick' # "no"
  <1>1. phase = "running" /\ tick = "no" /\ cpu.ccpn = 0 /\ pc' = pc
    BY DEF TickComes, PendTick, TickInterrupt, InterruptsOpen
  <1>2. pc[pxCurrentTCB] # "unwind"
    <2>1. cpu # Critical
      BY <1>1 DEF Critical, Masked
    <2> QED BY <1>1, <2>1, RunningFacts
  <1>3. CASE PendTick
    BY <1>1, <1>2, <1>3 DEF PendTick, tickVars
  <1>4. CASE TickInterrupt
    BY <1>1, <1>2, <1>4 DEF TickInterrupt, IncrementTick
  <1> QED BY <1>3, <1>4 DEF TickComes

\* A turn less makes up for its ticks.
LEMMA TurnsTimesTicks ==
  ASSUME NEW m \in Nat, NEW a \in Nat, NEW b \in Nat
  PROVE  /\ m * a \in Nat /\ m * b \in Nat
         /\ a <= b => m * a <= m * b
         /\ a + 1 <= b => m * a + m <= m * b
  <1>1. \A x, y \in Nat : x * y \in Nat
    OBVIOUS
  <1>2. ASSUME a <= b PROVE m * a <= m * b
    <2>1. b - a \in Nat /\ b = a + (b - a)
      BY <1>2
    <2>2. m * b = m * a + m * (b - a)
      BY <2>1
    <2> QED BY <1>1, <2>1, <2>2
  <1>3. ASSUME a + 1 <= b PROVE m * a + m <= m * b
    <2>1. b - a - 1 \in Nat /\ b = a + 1 + (b - a - 1)
      BY <1>3
    <2>2. m * b = m * a + m + m * (b - a - 1)
      BY <2>1
    <2> QED BY <1>1, <2>1, <2>2
  <1> QED BY <1>1, <1>2, <1>3

\* The count goes on with the wait.
LEMMA CountFacts ==
  ASSUME waited \in Nat, CountTick
  PROVE  /\ ~Waits' => waited' = 0
         /\ Waits' => waited' \in {waited, waited + 1}
         /\ Waits' /\ ~TickComes => waited' = waited
  BY DEF CountTick

\* What a step takes away from the turns and the ticks that are left, when it
\* ends no turn, when it ends one, and when it begins the wait.
GoesOn ==
  /\ Waits /\ Turns(Queue, pxCurrentTCB)' <= Turns(Queue, pxCurrentTCB)
  /\ TickComes => TicksLeft' + 1 <= TicksLeft
  /\ ~TickComes => TicksLeft' <= TicksLeft
TurnEnds ==
  /\ Waits /\ ~TickComes
  /\ Turns(Queue, pxCurrentTCB)' + 1 <= Turns(Queue, pxCurrentTCB)
Begins ==
  /\ ~Waits /\ ~TickComes
  /\ \/ Turns(Queue, pxCurrentTCB)' <= 2 * Cardinality(Sharing) - 2
     \/ /\ Turns(Queue, pxCurrentTCB)' <= 2 * Cardinality(Sharing) - 1
        /\ TicksLeft' = 0

\* Such a step keeps the bound.
LEMMA WaitGoesOn ==
  ASSUME KernelInv, KernelInv', WaitInv, CountTick,
         Waits' => GoesOn \/ TurnEnds \/ Begins
  PROVE  WaitInv'
  <1> DEFINE M == TurnTicks
             T == Turns(Queue, pxCurrentTCB)
             U == Turns(Queue, pxCurrentTCB)'
             A == TicksLeft
             B == TicksLeft'
             K == 2 * Cardinality(Sharing) - 1
             w == waited'
  <1>1. waited \in Nat /\ M \in Nat /\ K \in Nat /\ WaitBound = M * K
    BY TurnTicksFacts, SharingFacts DEF WaitInv, WaitBound
  <1>2. A \in 0 .. M /\ B \in 0 .. M
    BY TicksLeftType, TicksLeftTypeNext
  <1>3. Waits => T \in Nat /\ waited + M * T + A <= M * K
    BY <1>1, WaitsFacts DEF Waiting, WaitInv
  <1>4. ~Waits => waited = 0
    BY DEF WaitInv
  <1>5. CASE ~Waits'
    BY <1>1, <1>5, CountFacts DEF WaitInv
  <1>6. CASE Waits'
    <2>1. U \in Nat
      BY <1>6, WaitsFactsNext DEF Waiting
    <2>2. w \in {waited, waited + 1} /\ (~TickComes => w = waited)
      BY <1>1, <1>6, CountFacts
    <2>3. \/ Waits /\ U <= T /\ w + B <= waited + A
          \/ Waits /\ w = waited /\ U + 1 <= T
          \/ ~Waits /\ w = waited /\ U + 1 <= K
          \/ ~Waits /\ w = waited /\ B = 0 /\ U <= K
      <3>1. CASE TickComes
        <4>1. Waits /\ U <= T /\ B + 1 <= A
          BY <1>6, <3>1 DEF GoesOn, TurnEnds, Begins
        <4>2. w <= waited + 1
          BY <1>1, <2>2
        <4> HIDE DEF U, T, A, B, M, w
        <4>3. A \in Nat /\ B \in Nat /\ waited \in Nat /\ w \in Nat
          BY <1>1, <1>2, <2>2
        <4>4. B + 1 <= A
          BY <4>1
        <4>5. w + B <= waited + A
          BY <4>2, <4>3, <4>4
        <4> QED BY <4>1, <4>5
      <3>2. CASE ~TickComes
        <4>1. w = waited
          BY <2>2, <3>2
        <4>2. \/ Waits /\ U <= T /\ B <= A
              \/ Waits /\ U + 1 <= T
              \/ ~Waits /\ U <= K - 1
              \/ ~Waits /\ B = 0 /\ U <= K
          BY <1>6, <3>2, <2>1, SharingFacts DEF GoesOn, TurnEnds, Begins
        <4> HIDE DEF U, T, A, B, K
        <4>3. U <= K - 1 => U + 1 <= K
          BY <1>1, <2>1
        <4>4. B <= A => w + B <= waited + A
          BY <4>1, <1>1, <1>2
        <4> QED BY <4>1, <4>2, <4>3, <4>4
      <3> QED BY <3>1, <3>2
    <2> HIDE DEF M, T, U, A, B, K, w
    <2>4. w + M * U + B <= M * K
      <3> DEFINE x == M * U
                 y == M * T
                 z == M * K
      <3>1. /\ x \in Nat /\ z \in Nat
            /\ U + 1 <= K => x + M <= z
            /\ U <= K => x <= z
        BY <1>1, <2>1, TurnsTimesTicks
      <3>2. Waits => /\ y \in Nat /\ waited + y + A <= z
                     /\ U <= T => x <= y
                     /\ U + 1 <= T => x + M <= y
        BY <1>1, <1>3, <2>1, TurnsTimesTicks
      <3>3. A \in Nat /\ B \in Nat /\ B <= M /\ waited \in Nat /\ w \in Nat
        BY <1>1, <1>2, <2>2
      <3> HIDE DEF x, y, z
      <3>4. CASE Waits /\ U <= T /\ w + B <= waited + A
        <4>1. x <= y /\ y \in Nat /\ waited + y + A <= z
          BY <3>2, <3>4
        <4>2. w + B <= waited + A
          BY <3>4
        <4>3. w + x + B <= z
          BY <4>1, <4>2, <3>1, <3>3
        <4> QED BY <4>3 DEF x, z
      <3>5. CASE Waits /\ w = waited /\ U + 1 <= T
        <4>1. x + M <= y /\ y \in Nat /\ waited + y + A <= z /\ w = waited
          BY <3>2, <3>5
        <4>2. w + x + B <= z
          BY <4>1, <3>1, <3>3, <1>1
        <4> QED BY <4>2 DEF x, z
      <3>6. CASE ~Waits /\ w = waited /\ U + 1 <= K
        <4>1. x + M <= z /\ w = 0
          BY <3>1, <3>6, <1>4
        <4>2. w + x + B <= z
          BY <4>1, <3>1, <3>3, <1>1
        <4> QED BY <4>2 DEF x, z
      <3>7. CASE ~Waits /\ w = waited /\ B = 0 /\ U <= K
        <4>1. x <= z /\ w = 0 /\ B = 0
          BY <3>1, <3>7, <1>4
        <4>2. w + x + B <= z
          BY <4>1, <3>1
        <4> QED BY <4>2 DEF x, z
      <3> QED BY <2>3, <3>4, <3>5, <3>6, <3>7
    <2>5. WaitBound' = M * K /\ TurnTicks' = M
      BY <1>1 DEF WaitBound, TurnTicks, M, K
    <2>6. waited' \in Nat
      BY <1>1, <2>2 DEF w
    <2>7. (waited + TurnTicks * Turns(Queue, pxCurrentTCB) + TicksLeft <= WaitBound)'
      BY <2>4, <1>1 DEF M, U, B, K, w
    <2> QED BY <1>6, <2>6, <2>7 DEF WaitInv
  <1> QED BY <1>5, <1>6

-----------------------------------------------------------------------------
(* Each step keeps it.                                                     *)

\* What is proved of each step.
Kept == IndexInv' /\ YieldInv' /\ (Waits' => GoesOn \/ TurnEnds \/ Begins)

\* A step that leaves the ready lists and the current task alone.
LEMMA QuietStep ==
  ASSUME KernelInv, IndexInv, phase = "running",
         UNCHANGED <<phase, pxCurrentTCB, ready>>,
         LET Own == {"run", "locked", "leave"}
         IN  pc'[pxCurrentTCB] \in Own => pc[pxCurrentTCB] \in Own,
         Waits => IF TickComes THEN TicksLeft' + 1 <= TicksLeft
                               ELSE TicksLeft' <= TicksLeft
  PROVE  IndexInv' /\ (Waits' => GoesOn)
  <1>1. IndexInv'
    BY DEF IndexInv
  <1>2. Waits' => Waits
    BY DEF Waits, IsReady
  <1>3. Waits => Turns(Queue, pxCurrentTCB) \in Nat
    BY WaitsFacts DEF Waiting
  <1>4. Turns(Queue, pxCurrentTCB)' = Turns(Queue, pxCurrentTCB)
    BY DEF Queue, Turns, Passed, FirstStop
  <1>5. Waits => Turns(Queue, pxCurrentTCB)' <= Turns(Queue, pxCurrentTCB)
    BY <1>3, <1>4
  <1>6. Waits => GoesOn
    BY <1>5 DEF GoesOn
  <1> QED BY <1>1, <1>2, <1>6

LEMMA QuietTaskSteps ==
  ASSUME KernelInv, IndexInv, YieldInv, NEW t \in Tasks,
         \/ SuspendAll(t) \/ ResumeAll(t) \/ UnwindTick(t)
         \/ (EndUnwind(t) /\ ~xYieldPending) \/ ExitCritical(t)
  PROVE  Kept
  <1> USE DEF At, GoTo, heapVars, cpuVars, taskLists, timeVars, tickVars
  <1> DEFINE Own == {"run", "locked", "leave"}
  <1>1. /\ phase = "running" /\ tick = "no" /\ pxCurrentTCB = t /\ t \in Tasks
        /\ pc \in [Tasks -> Places]
        /\ UNCHANGED <<phase, pxCurrentTCB, ready, xYieldPending>>
    BY RunningFacts
    DEF SuspendAll, ResumeAll, UnwindTick, EndUnwind, ExitCritical
  <1>2. TicksLeft \in 0 .. TurnTicks /\ TurnTicks \in Nat /\ xPendedTicks \in Nat
    BY TicksLeftType, TurnTicksFacts DEF KernelInv, TypeOK
  <1>3. /\ uxSchedulerSuspended <=> pc[t] \in {"locked", "blocked"}
        /\ xPendedTicks > 0 => pc[t] \in {"locked", "blocked", "unwind"}
        /\ xYieldPending => pc[t] = "unwind"
    BY <1>1 DEF KernelInv, Running, YieldInv
  <1>4. CASE SuspendAll(t)
    <2>1. pc[t] = "run" /\ pc'[t] = "locked" /\ tick' = "no"
          /\ uxSchedulerSuspended' /\ xPendedTicks' = xPendedTicks
      BY <1>1, <1>4 DEF SuspendAll
    <2>2. ~TickComes
      BY <1>1, <2>1, TickComesFacts
    <2>3. TicksLeft' <= TicksLeft
      BY <1>1, <1>2, <1>3, <2>1 DEF TicksLeft, TurnTicks
    <2> QED BY <1>1, <1>3, <2>1, <2>2, <2>3, QuietStep DEF Kept, YieldInv
  <1>5. CASE ResumeAll(t)
    <2>1. pc[t] = "blocked" /\ pc'[t] = "unwind" /\ tick' = "no"
          /\ ~uxSchedulerSuspended' /\ xPendedTicks' = xPendedTicks
      BY <1>1, <1>5 DEF ResumeAll
    <2>2. ~TickComes
      BY <1>1, <2>1, TickComesFacts
    <2>3. TicksLeft' <= TicksLeft
      BY <1>1, <1>2, <1>3, <2>1 DEF TicksLeft, TurnTicks
    <2> QED BY <1>1, <1>3, <2>1, <2>2, <2>3, QuietStep DEF Kept, YieldInv
  <1>6. CASE UnwindTick(t)
    <2>1. pc[t] = "unwind" /\ pc' = pc /\ tick' # "no"
      BY <1>1, <1>6 DEF UnwindTick, IncrementTick
    <2>2. ~TickComes
      BY <1>1, <2>1, TickComesFacts
    <2>3. TicksLeft' <= TicksLeft
      BY <1>2, <2>1 DEF TicksLeft
    <2> QED BY <1>1, <2>1, <2>2, <2>3, QuietStep DEF Kept, YieldInv
  <1>7. CASE EndUnwind(t) /\ ~xYieldPending
    <2>1. pc[t] = "unwind" /\ pc'[t] = "release" /\ tick' = "no"
          /\ uxSchedulerSuspended' = uxSchedulerSuspended
          /\ xPendedTicks = 0 /\ xPendedTicks' = 0
      BY <1>1, <1>7 DEF EndUnwind
    <2>2. ~TickComes
      BY <1>1, <2>1, TickComesFacts
    <2>3. TicksLeft' <= TicksLeft
      BY <1>1, <1>2, <1>3, <1>7, <2>1 DEF TicksLeft, TurnTicks
    <2> QED BY <1>1, <1>7, <2>1, <2>2, <2>3, QuietStep DEF Kept, YieldInv
  <1>8. CASE ExitCritical(t)
    <2>1. /\ tick' = "no"
          /\ uxSchedulerSuspended' = uxSchedulerSuspended
          /\ xPendedTicks' = xPendedTicks
          /\ \/ pc[t] = "leave" /\ pc'[t] = "run"
             \/ pc[t] = "release" /\ pc'[t] = "yield"
      BY <1>1, <1>8 DEF ExitCritical
    <2>2. ~TickComes
      BY <1>1, <2>1, TickComesFacts
    <2>3. TicksLeft = TurnTicks /\ TicksLeft' = TurnTicks
      BY <1>1, <1>3, <2>1 DEF TicksLeft, TurnTicks
    <2>4. TicksLeft' <= TicksLeft
      BY <1>2, <2>3
    <2> QED BY <1>1, <1>3, <2>1, <2>2, <2>4, QuietStep DEF Kept, YieldInv
  <1> QED BY <1>4, <1>5, <1>6, <1>7, <1>8

\* A tick that comes is taken from those that are left of the turn.
LEMMA TickComesStep ==
  ASSUME KernelInv, IndexInv, YieldInv, TickComes
  PROVE  Kept
  <1>1. phase = "running" /\ pc' = pc /\ tick = "no"
        /\ UNCHANGED <<phase, pxCurrentTCB, ready, xYieldPending>>
    BY TickComesFacts
    DEF TickComes, PendTick, TickInterrupt, heapVars, cpuVars
  <1>2. /\ uxSchedulerSuspended <=> pc[pxCurrentTCB] \in {"locked", "blocked"}
        /\ xPendedTicks \in Nat /\ MaxPended \in Nat
    BY <1>1, TickAssumption DEF KernelInv, Running, TypeOK
  <1>3. TicksLeft' + 1 <= TicksLeft
    BY <1>1, <1>2, TickComesFacts, TurnTicksFacts DEF TicksLeft, TurnTicks
  <1>4. IndexInv' /\ (Waits' => GoesOn)
    BY <1>1, <1>3, QuietStep
  <1> QED BY <1>1, <1>4 DEF Kept, YieldInv

\* While a tick is being handled no other one is counted, and at its end the
\* handler finds more than one task to choose from.
LEMMA HandlerSteps ==
  ASSUME KernelInv, IndexInv, YieldInv,
         EndScan \/ (EndTick /\ (~SwitchNeeded \/ pc[pxCurrentTCB] = "unwind"))
  PROVE  Kept
  <1> USE DEF heapVars, cpuVars, tickVars
  <1>1. tick # "no" /\ ~TickComes
    BY TickComesFacts DEF EndScan, EndTick
  <1>2. phase = "running" /\ pc' = pc
        /\ UNCHANGED <<phase, pxCurrentTCB, ready>>
    BY <1>1 DEF EndScan, EndTick, KernelInv, Booting
  <1>3. CASE EndScan
    <2>1. TicksLeft' = 0 /\ TicksLeft = 0 /\ xYieldPending' = xYieldPending
      BY <1>1, <1>3 DEF EndScan, TicksLeft
    <2>2. TicksLeft' <= TicksLeft
      BY <2>1
    <2> QED BY <1>1, <1>2, <2>1, <2>2, QuietStep DEF Kept, YieldInv
  <1>4. CASE EndTick /\ ~SwitchNeeded
    <2>1. ~Waits
      <3>1. Waits => Len(ready[Priority[pxCurrentTCB]]) > 2
        BY WaitsFacts DEF Waiting, Queue
      <3> QED BY <1>4, <3>1 DEF SwitchNeeded
    <2>2. xYieldPending' = xYieldPending
      BY <1>4 DEF EndTick
    <2> QED BY <1>1, <1>2, <2>1, <2>2, QuietStep DEF Kept, YieldInv
  <1>5. CASE EndTick /\ SwitchNeeded /\ pc[pxCurrentTCB] = "unwind"
    <2>1. /\ xYieldPending' = TRUE /\ tick' = "no"
          /\ uxSchedulerSuspended' = uxSchedulerSuspended
      BY <1>5 DEF EndTick
    <2>2. ~uxSchedulerSuspended
      BY <1>2, <1>5 DEF KernelInv, Running
    <2>3. TicksLeft' = 0 /\ TicksLeft = 0
      BY <1>1, <1>2, <1>5, <2>1, <2>2 DEF TicksLeft
    <2>4. TicksLeft' <= TicksLeft
      BY <2>3
    <2> QED BY <1>1, <1>2, <1>5, <2>1, <2>4, QuietStep DEF Kept, YieldInv
  <1> QED BY <1>3, <1>4, <1>5

\* A context switch ends a turn, or the wait, or begins it.
LEMMA SwitchStep ==
  ASSUME KernelInv, KernelInv', phase = "running", phase' = phase,
         SwitchContext, ~TickComes
  PROVE  Kept
  <1>1. /\ \A u \in Tasks : IsReady(u)' <=> IsReady(u)
        /\ xYieldPending' = FALSE
        /\ ready'[Priority[pxCurrentTCB']] = NextEntry(ready[Priority[pxCurrentTCB']])
        /\ pxCurrentTCB' = Head(ready'[Priority[pxCurrentTCB']])
    BY RunningFacts, SwitchContextFacts DEF KernelInv
  <1>2. IndexInv' /\ YieldInv'
    BY <1>1 DEF IndexInv, YieldInv
  <1>3. ASSUME Waits' PROVE TurnEnds \/ Begins
    <2> DEFINE q == NextEntry(Queue)
    <2>1. /\ pxCurrentTCB' \in Tasks \ {Watched} /\ IsReady(Watched)'
          /\ Priority[pxCurrentTCB'] = Priority[Watched]
      BY <1>3, WaitsFactsNext DEF Waiting
    <2>2. Queue' = q /\ pxCurrentTCB' = Head(q)
      BY <1>1, <2>1 DEF Queue
    <2>3. WaitRing(Queue) /\ pxCurrentTCB \in Tasks
      BY <1>1, <2>1, QueueFacts, SharingFacts, RunningFacts
    <2>4. /\ Turns(q, Head(q)) <= 2 * Cardinality(Sharing) - 2
          /\ Turns(q, Head(q)) + 1 <= Turns(Queue, pxCurrentTCB)
      BY <2>1, <2>2, <2>3, SwitchTurns
    <2>5. Turns(Queue, pxCurrentTCB)' = Turns(q, Head(q))
      BY <2>2 DEF Turns, Passed, FirstStop
    <2> QED BY <2>4, <2>5 DEF TurnEnds, Begins
  <1> QED BY <1>2, <1>3 DEF Kept

LEMMA SwitchSteps ==
  ASSUME KernelInv, KernelInv',
         \/ \E t \in Tasks : YieldWithinApi(t) \/ (EndUnwind(t) /\ xYieldPending)
         \/ EndTick /\ SwitchNeeded /\ pc[pxCurrentTCB] # "unwind"
  PROVE  Kept
  <1>1. ASSUME NEW t \in Tasks, YieldWithinApi(t) \/ (EndUnwind(t) /\ xYieldPending)
        PROVE  Kept
    <2>1. /\ phase = "running" /\ phase' = phase /\ SwitchContext
          /\ pxCurrentTCB = t /\ pc[t] \in {"yield", "unwind"}
          /\ pc' = [pc EXCEPT ![t] = "run"] \/ pc' = [pc EXCEPT ![t] = "leave"]
      BY <1>1 DEF YieldWithinApi, EndUnwind, At, GoTo, heapVars
    <2>2. pc' # pc
      BY <2>1, RunningFacts
    <2>3. ~TickComes
      BY <2>2, TickComesFacts
    <2> QED BY <2>1, <2>3, SwitchStep
  <1>2. CASE EndTick /\ SwitchNeeded /\ pc[pxCurrentTCB] # "unwind"
    <2>1. phase = "running" /\ phase' = phase /\ SwitchContext
      BY <1>2 DEF EndTick, heapVars, KernelInv, Booting
    <2>2. ~TickComes
      BY <1>2, TickComesFacts DEF EndTick
    <2> QED BY <2>1, <2>2, SwitchStep
  <1> QED BY <1>1, <1>2

\* A task that is woken gets in line behind the watched task, or is that.
LEMMA UnblockHeadKeeps ==
  ASSUME KernelInv, IndexInv, YieldInv, UnblockHead
  PROVE  Kept
  <1> DEFINE t == Head(delayed).task
             p == Priority[t]
             q == InsertEnd(ready[p], t)
  <1>1. /\ tick = "scan" /\ delayed # << >> /\ AddToReady(t)
        /\ UNCHANGED <<phase, pc, pxCurrentTCB, xYieldPending,
             uxSchedulerSuspended, xPendedTicks, tick>>
    BY DEF UnblockHead, IsDue, heapVars, cpuVars
  <1>2. phase = "running" /\ pxCurrentTCB \in Tasks /\ ~TickComes
    BY <1>1, RunningFacts, TickComesFacts DEF KernelInv, Booting
  <1>3. t \in Tasks /\ ~IsReady(t)
    <2>1. Head(delayed) \in Entries /\ Head(delayed) \in Range(delayed)
      BY <1>1, TailFacts DEF KernelInv, Lists, DelayedList
    <2>2. t \in Tasks /\ InList(delayed, t)
      BY <2>1, InListRange, TickFacts
    <2> QED BY <2>2 DEF KernelInv, NoneTwice, IsDelayed
  <1> HIDE DEF t
  <1>4. p \in Priorities /\ Ring(ready[p]) /\ t \notin Range(ready[p])
    BY <1>3, PriorityFacts, ReadyInRing DEF KernelInv, Rings
  <1>5. /\ ready'[p] = q /\ Head(q) = Head(ready[p])
        /\ \A n \in Priorities : n # p => ready'[n] = ready[n]
        /\ \A u \in Tasks : IsReady(u)' <=> IsReady(u) \/ u = t
    BY <1>1, <1>3, <1>4, InsertEndPlaces, AddToReadyFacts
    DEF AddToReady, KernelInv, Rings
  <1> HIDE DEF p, q
  <1>6. IndexInv' /\ YieldInv'
    <2>1. Priority[pxCurrentTCB] \in Priorities
      BY <1>2, PriorityFacts
    <2>2. Head(ready'[Priority[pxCurrentTCB]]) = Head(ready[Priority[pxCurrentTCB]])
      BY <1>5, <2>1
    <2> QED BY <1>1, <1>2, <2>2 DEF IndexInv, YieldInv
  <1>7. TicksLeft = 0 /\ TicksLeft' = 0
    BY <1>1 DEF TicksLeft
  <1>8. Waits' => IsReady(Watched)'
    BY DEF Waits
  <1>9. Watched \in Tasks /\ Priority[Watched] \in Priorities
    BY SharingFacts, PriorityFacts
  <1>10. CASE t = Watched
    <2>1. ~Waits
      BY <1>3, <1>10 DEF Waits
    <2>2. Queue = ready[p] /\ Queue' = q
      BY <1>5, <1>10 DEF Queue, p
    <2>3. /\ Ring(Queue) /\ Idle \in Range(Queue) /\ Watched \notin Range(Queue)
          /\ Range(Queue) \subseteq Sharing \cup {End}
      BY <1>2, <1>4, <1>10, <2>2, QueueFacts
    <2>4. q = InsertEnd(Queue, Watched)
      BY <1>10, <2>2 DEF q, p
    <2>5. Turns(q, pxCurrentTCB) <= 2 * Cardinality(Sharing) - 1
      BY <1>2, <2>3, <2>4, WokenTurns
    <2>6. Turns(Queue, pxCurrentTCB)' = Turns(q, pxCurrentTCB)
      BY <1>1, <2>2 DEF Turns, Passed, FirstStop
    <2>7. Begins
      BY <1>2, <1>7, <2>1, <2>5, <2>6 DEF Begins
    <2> QED BY <1>6, <2>7 DEF Kept
  <1>11. CASE t # Watched
    <2>1. Waits' => Waits
      BY <1>1, <1>5, <1>9, <1>11 DEF Waits
    <2>2. ASSUME Waits PROVE Turns(Queue, pxCurrentTCB)' <= Turns(Queue, pxCurrentTCB)
      <3>1. WaitRing(Queue) /\ Turns(Queue, pxCurrentTCB) \in Nat
        BY <2>2, WaitsFacts DEF Waiting
      <3>2. CASE p = Priority[Watched]
        <4>1. Queue = ready[p] /\ Queue' = InsertEnd(Queue, t)
          BY <1>5, <3>2 DEF Queue, q
        <4>2. t \in Sharing /\ t \notin Range(Queue)
          BY <1>3, <1>4, <1>11, <3>2, <4>1 DEF Sharing, p
        <4>3. Turns(InsertEnd(Queue, t), pxCurrentTCB) <= Turns(Queue, pxCurrentTCB)
          BY <1>2, <3>1, <4>2, InsertTurns
        <4>4. Turns(Queue, pxCurrentTCB)' = Turns(InsertEnd(Queue, t), pxCurrentTCB)
          BY <1>1, <4>1 DEF Turns, Passed, FirstStop
        <4> QED BY <4>3, <4>4
      <3>3. CASE p # Priority[Watched]
        <4>1. Queue' = Queue
          BY <1>5, <1>9, <3>3 DEF Queue
        <4>2. Turns(Queue, pxCurrentTCB)' = Turns(Queue, pxCurrentTCB)
          BY <1>1, <4>1 DEF Turns, Passed, FirstStop
        <4> QED BY <3>1, <4>2
      <3> QED BY <3>2, <3>3
    <2>3. Waits => GoesOn
      BY <1>2, <1>7, <2>2 DEF GoesOn
    <2> QED BY <1>6, <2>1, <2>3 DEF Kept
  <1> QED BY <1>10, <1>11

\* When the current task blocks, pxIndex may fall back onto the watched one.
LEMMA BlockKeeps ==
  ASSUME KernelInv, IndexInv, YieldInv, NEW t \in Tasks, Block(t)
  PROVE  Kept
  <1>1. /\ phase = "running" /\ tick = "no" /\ pxCurrentTCB = t /\ pc[t] = "locked"
        /\ pc' = [pc EXCEPT ![t] = "blocked"]
        /\ ready' = [ready EXCEPT ![Priority[t]] = RemoveItem(ready[Priority[t]], t)]
        /\ UNCHANGED <<phase, pxCurrentTCB, xYieldPending, uxSchedulerSuspended,
             xPendedTicks, tick>>
    BY DEF Block, At, GoTo, heapVars, cpuVars, tickVars
  <1>2. /\ pc'[t] = "blocked" /\ t # Idle /\ IsReady(t)
        /\ uxSchedulerSuspended
    BY <1>1, RunningFacts DEF KernelInv, Running
  <1>3. ~TickComes
    BY <1>1, <1>2, TickComesFacts
  <1>4. IndexInv' /\ YieldInv'
    BY <1>1, <1>2 DEF IndexInv, YieldInv
  <1>5. \A u \in Tasks : IsReady(u)' <=> IsReady(u) /\ u # t
    BY <1>1, <1>2, RemoveFacts DEF Block, KernelInv
  <1>6. ASSUME Waits' PROVE GoesOn
    <2>1. t # Watched /\ Waits
      BY <1>1, <1>5, <1>6, SharingFacts DEF Waits
    <2>2. /\ WaitRing(Queue) /\ Priority[t] = Priority[Watched]
      BY <1>1, <2>1, WaitsFacts DEF Waiting
    <2>3. Priority[t] \in Priorities
      BY PriorityFacts
    <2>4. Queue' = RemoveItem(Queue, t) /\ t \in Range(Queue)
      BY <1>1, <1>2, <2>2, <2>3, ReadyInRing DEF Queue, KernelInv, TypeOK
    <2>5. Head(Queue) \in {t, End}
      BY <1>1, <2>2 DEF IndexInv, Queue
    <2>6. Turns(RemoveItem(Queue, t), t) <= Turns(Queue, t)
      BY <1>2, <2>1, <2>2, <2>4, <2>5, BlockTurns
    <2>7. Turns(Queue, pxCurrentTCB)' = Turns(RemoveItem(Queue, t), t)
      BY <1>1, <2>4 DEF Turns, Passed, FirstStop
    <2>8. TicksLeft' = TicksLeft /\ TicksLeft \in Nat
      <3>1. TicksLeft \in Nat
        BY TicksLeftType, TurnTicksFacts
      <3> QED BY <1>1, <1>2, <3>1 DEF TicksLeft, TurnTicks
    <2> QED BY <1>1, <1>3, <2>1, <2>6, <2>7, <2>8 DEF GoesOn
  <1> QED BY <1>4, <1>6 DEF Kept

\* At the boot the markers stay first, and the current task stays the last of
\* its list.
LEMMA CreateTaskKeeps ==
  ASSUME KernelInv, IndexInv, YieldInv, NEW t \in Tasks, CreateTask(t)
  PROVE  Kept
  <1>1. /\ phase = "boot" /\ phase' # "running"
        /\ xYieldPending' = xYieldPending
    BY DEF CreateTask
  <1>2. YieldInv' /\ ~Waits'
    BY <1>1 DEF YieldInv, Waits
  <1>3. /\ \A p \in Priorities : Head(ready[p]) = End
        /\ pxCurrentTCB # End =>
             ready[Priority[pxCurrentTCB]][Len(ready[Priority[pxCurrentTCB]])]
               = pxCurrentTCB
    BY <1>1 DEF IndexInv
  <1>4. CASE Allocated(t)
    <2> DEFINE p == Priority[t]
               r == ready[p]
               q == InsertEnd(r, t)
    <2>1. p \in Priorities /\ Ring(r)
      BY PriorityFacts DEF KernelInv, Rings
    <2>2. /\ r \in Seq(Tasks \cup {End}) /\ r # << >> /\ Len(r) \in Nat /\ Len(r) >= 1
      BY <2>1, RingFacts DEF Ring
    <2>3. /\ Len(q) = Len(r) + 1 /\ q[Len(q)] = t /\ q[1] = r[1]
          /\ q \in Seq(Tasks \cup {End})
      BY <2>2, AppendProperties DEF InsertEnd
    <2>4. Head(q) = q[1] /\ Head(r) = r[1]
      BY <2>2, <2>3
    <2>5. Head(q) = End
      BY <1>3, <2>1, <2>3, <2>4
    <2>6. /\ ready' = [ready EXCEPT ![p] = q]
          /\ pxCurrentTCB' = IF BecomesCurrent(t) THEN t ELSE pxCurrentTCB
      BY <1>4 DEF CreateTask, AddToReady
    <2> HIDE DEF q
    <2>7. /\ ready'[p] = q
          /\ \A n \in Priorities : n # p => ready'[n] = ready[n]
      BY <2>1, <2>6 DEF KernelInv, Rings
    <2>8. \A n \in Priorities : Head(ready'[n]) = End
      BY <1>3, <2>5, <2>7
    <2>9. ASSUME BecomesCurrent(t) PROVE IndexInv'
      BY <1>1, <2>3, <2>6, <2>7, <2>8, <2>9 DEF IndexInv
    <2>10. ASSUME ~BecomesCurrent(t) PROVE IndexInv'
      <3>1. /\ pxCurrentTCB' = pxCurrentTCB /\ pxCurrentTCB \in Tasks
            /\ pxCurrentTCB # End /\ ~(Priority[pxCurrentTCB] <= Priority[t])
        BY <2>6, <2>10 DEF BecomesCurrent, KernelInv, TypeOK
      <3>2. Priority[pxCurrentTCB] \in Priorities /\ Priority[pxCurrentTCB] # p
        BY <3>1, PriorityFacts
      <3>3. ready'[Priority[pxCurrentTCB]] = ready[Priority[pxCurrentTCB]]
        BY <2>7, <3>2
      <3> QED BY <1>1, <1>3, <2>8, <3>1, <3>3 DEF IndexInv
    <2> QED BY <1>2, <2>9, <2>10 DEF Kept
  <1>5. CASE ~Allocated(t)
    <2>1. UNCHANGED <<ready, pxCurrentTCB>>
      BY <1>5 DEF CreateTask
    <2>2. IndexInv'
      BY <1>1, <1>3, <2>1 DEF IndexInv
    <2> QED BY <1>2, <2>2 DEF Kept
  <1> QED BY <1>4, <1>5

LEMMA StartSchedulerKeeps ==
  ASSUME KernelInv, KernelInv', IndexInv, YieldInv, StartScheduler
  PROVE  Kept
  <1>1. /\ phase = "boot" /\ phase' = "running"
        /\ UNCHANGED <<pc, pxCurrentTCB, ready, xYieldPending>>
    BY DEF StartScheduler
  <1>2. pxCurrentTCB' \in Tasks
    BY <1>1 DEF KernelInv, Running
  <1>3. pxCurrentTCB # End /\ Priority[pxCurrentTCB] \in Priorities
    BY <1>1, <1>2, TaskFacts, PriorityFacts
  <1>4. LET r == ready[Priority[pxCurrentTCB]]
        IN  Head(r) = End /\ r[Len(r)] = pxCurrentTCB
    BY <1>1, <1>3 DEF IndexInv
  <1>5. IndexInv' /\ YieldInv'
    BY <1>1, <1>4 DEF IndexInv, YieldInv
  <1>6. ASSUME Waits' PROVE Begins
    <2>1. /\ pxCurrentTCB \in Tasks \ {Watched} /\ WaitRing(Queue)
          /\ Priority[pxCurrentTCB] = Priority[Watched]
      <3>1. Queue' = Queue
        BY <1>1 DEF Queue
      <3>2. WaitRing(Queue)' => WaitRing(Queue)
        BY <3>1 DEF WaitRing, Ring, Distinct
      <3> QED BY <1>1, <1>6, <3>2, WaitsFactsNext DEF Waiting
    <2>2. Head(Queue) = End /\ Queue[Len(Queue)] # Watched
      BY <1>4, <2>1 DEF Queue
    <2>3. Turns(Queue, pxCurrentTCB) <= 2 * Cardinality(Sharing) - 2
      BY <2>1, <2>2, StartTurns
    <2>4. Turns(Queue, pxCurrentTCB)' = Turns(Queue, pxCurrentTCB)
      BY <1>1 DEF Queue, Turns, Passed, FirstStop
    <2>5. ~Waits /\ ~TickComes
      BY <1>1, TickComesFacts DEF Waits
    <2> QED BY <2>3, <2>4, <2>5 DEF Begins
  <1> QED BY <1>5, <1>6 DEF Kept

LEMMA StutterKeeps ==
  ASSUME KernelInv, IndexInv, YieldInv, UNCHANGED vars
  PROVE  Kept
  <1>1. UNCHANGED <<phase, pc, pxCurrentTCB, ready, xYieldPending, tick,
             uxSchedulerSuspended, xPendedTicks>>
    BY DEF vars, heapVars, cpuVars, tickVars
  <1>2. YieldInv'
    BY <1>1 DEF YieldInv
  <1>3. CASE phase = "running"
    <2>1. ~TickComes
      <3>1. xPendedTicks \in Nat
        BY TickAssumption DEF KernelInv, TypeOK
      <3> QED BY <1>1, <3>1, TickComesFacts
    <2>2. TicksLeft' = TicksLeft /\ TicksLeft \in Nat
      <3>1. TicksLeft \in Nat
        BY TicksLeftType, TurnTicksFacts
      <3> QED BY <1>1, <3>1 DEF TicksLeft, TurnTicks
    <2>3. TicksLeft' <= TicksLeft
      BY <2>2
    <2> QED BY <1>1, <1>2, <1>3, <2>1, <2>3, QuietStep DEF Kept
  <1>4. CASE phase # "running"
    <2>1. ~Waits'
      BY <1>1, <1>4 DEF Waits
    <2>2. IndexInv'
      BY <1>1, <1>4 DEF IndexInv
    <2> QED BY <1>2, <2>1, <2>2 DEF Kept
  <1> QED BY <1>3, <1>4

LEMMA StepKeeps ==
  ASSUME KernelInv, KernelInv', IndexInv, YieldInv, [Next]_vars
  PROVE  Kept
  <1>1. CASE StartUp
    BY <1>1, CreateTaskKeeps, StartSchedulerKeeps DEF StartUp
  <1>2. ASSUME NEW t \in Tasks, TaskStep(t) PROVE Kept
    <2>1. CASE Block(t)
      BY <2>1, BlockKeeps
    <2>2. CASE YieldWithinApi(t) \/ (EndUnwind(t) /\ xYieldPending)
      BY <2>2, SwitchSteps
    <2>3. CASE \/ SuspendAll(t) \/ ResumeAll(t) \/ UnwindTick(t)
               \/ (EndUnwind(t) /\ ~xYieldPending) \/ ExitCritical(t)
      BY <2>3, QuietTaskSteps
    <2> QED BY <1>2, <2>1, <2>2, <2>3 DEF TaskStep
  <1>3. CASE PendTick \/ TickInterrupt
    BY <1>3, TickComesStep DEF TickComes
  <1>4. CASE UnblockHead
    BY <1>4, UnblockHeadKeeps
  <1>5. CASE EndScan
    BY <1>5, HandlerSteps
  <1>6. CASE EndTick
    <2>1. CASE SwitchNeeded /\ pc[pxCurrentTCB] # "unwind"
      BY <1>6, <2>1, SwitchSteps
    <2>2. CASE ~SwitchNeeded \/ pc[pxCurrentTCB] = "unwind"
      BY <1>6, <2>2, HandlerSteps
    <2> QED BY <2>1, <2>2
  <1>7. CASE UNCHANGED vars
    BY <1>7, StutterKeeps
  <1> QED BY <1>1, <1>2, <1>3, <1>4, <1>5, <1>6, <1>7 DEF Next, Off, TickHandler

-----------------------------------------------------------------------------
(* The bound.                                                              *)

WaitingInv == KernelInv /\ IndexInv /\ YieldInv /\ WaitInv

LEMMA WaitingInit == WaitInit => WaitingInv
  <1> SUFFICES ASSUME WaitInit PROVE WaitingInv
    OBVIOUS
  <1>1. KernelInv
    BY InitInv DEF WaitInit
  <1>2. IndexInv
    BY DEF WaitInit, Init, IndexInv
  <1>3. YieldInv /\ WaitInv
    BY DEF WaitInit, Init, YieldInv, WaitInv, Waits
  <1> QED BY <1>1, <1>2, <1>3 DEF WaitingInv

LEMMA WaitingNext == WaitingInv /\ [WaitNext]_waitVars => WaitingInv'
  <1> SUFFICES ASSUME WaitingInv, [WaitNext]_waitVars PROVE WaitingInv'
    OBVIOUS
  <1>1. [Next]_vars
    BY DEF WaitNext, waitVars
  <1>2. KernelInv'
    BY <1>1, NextInv DEF WaitingInv
  <1>3. Kept
    BY <1>1, <1>2, StepKeeps DEF WaitingInv
  <1>4. CASE WaitNext
    <2>1. WaitInv'
      BY <1>2, <1>3, <1>4, WaitGoesOn DEF WaitingInv, WaitNext, Kept
    <2> QED BY <1>2, <1>3, <2>1 DEF WaitingInv, Kept
  <1>5. CASE UNCHANGED waitVars
    <2>1. UNCHANGED <<waited, phase, pc, pxCurrentTCB, ready, xYieldPending,
             tick, uxSchedulerSuspended, xPendedTicks>>
      BY <1>5 DEF waitVars, vars, heapVars, cpuVars, tickVars
    <2>2. TicksLeft' = TicksLeft /\ (Waits' <=> Waits)
      BY <2>1 DEF TicksLeft, TurnTicks, Waits, IsReady
    <2>3. Turns(Queue, pxCurrentTCB)' = Turns(Queue, pxCurrentTCB)
      BY <2>1 DEF Queue, Turns, Passed, FirstStop
    <2>4. WaitInv'
      BY <2>1, <2>2, <2>3 DEF WaitingInv, WaitInv, WaitBound, TurnTicks
    <2> QED BY <1>2, <1>3, <2>4 DEF WaitingInv, Kept
  <1> QED BY <1>4, <1>5

\* No ready app task waits longer than WaitBound ticks for the CPU, whatever
\* the number of tasks, their delays, and the ticks that are pended.
THEOREM WaitsAreBounded == WaitSpec => []WaitIsBounded
  <1>1. WaitingInv => WaitIsBounded
    <2> SUFFICES ASSUME WaitingInv PROVE waited <= WaitBound
      BY DEF WaitIsBounded
    <2>1. /\ TurnTicks \in Nat /\ TicksLeft \in Nat /\ waited \in Nat
          /\ WaitBound \in Nat
      <3>1. 2 * Cardinality(Sharing) - 1 \in Nat
        BY SharingFacts
      <3> QED BY <3>1, TurnTicksFacts, TicksLeftType, TurnsTimesTicks
          DEF WaitingInv, WaitInv, WaitBound
    <2>2. CASE Waits
      <3>1. Turns(Queue, pxCurrentTCB) \in Nat
        BY <2>2, WaitsFacts DEF Waiting, WaitingInv
      <3> DEFINE x == TurnTicks * Turns(Queue, pxCurrentTCB)
      <3>2. x \in Nat
        BY <2>1, <3>1, TurnsTimesTicks
      <3>3. waited + x + TicksLeft <= WaitBound
        BY <2>2 DEF WaitingInv, WaitInv
      <3> HIDE DEF x
      <3> QED BY <2>1, <3>2, <3>3
    <2>3. CASE ~Waits
      BY <2>1, <2>3 DEF WaitingInv, WaitInv
    <2> QED BY <2>2, <2>3
  <1>2. WaitSpec => []WaitingInv
    BY WaitingInit, WaitingNext, PTL DEF WaitSpec
  <1> QED BY <1>1, <1>2, PTL
=============================================================================
