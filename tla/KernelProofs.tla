---------------------------- MODULE KernelProofs -----------------------------
(***************************************************************************)
(* Theorems about Kernel for every set of tasks, every order of their      *)
(* creation that ends with the timer task, every priorities, delays, heap  *)
(* and range of the tick counter: its invariants, and that it implements   *)
(* the delays of TaskDelay.                                                *)
(***************************************************************************)
EXTENDS KernelLists

-----------------------------------------------------------------------------
(* The inductive invariant.                                                *)

\* Each ready list is a ring of tasks of its priority, and the bit map tells
\* which of them hold a task.
Rings ==
  /\ ready \in [Priorities -> Seq(Tasks \cup {End})]
  /\ uxTopReadyPriority \subseteq Priorities
  /\ \A p \in Priorities :
       /\ Ring(ready[p])
       /\ \A t \in Range(ready[p]) : t # End => Priority[t] = p
       /\ p \in uxTopReadyPriority <=> Len(ready[p]) >= 2

\* A delayed list is sorted and holds app tasks, each of them once.
DelayedList(list) ==
  /\ list \in Seq(Entries)
  /\ Sorted(list) /\ OneEach(list)
  /\ \A e \in Range(list) : e.task \in AppTasks

Lists ==
  /\ DelayedList(delayed) /\ DelayedList(overflow)
  /\ suspended \subseteq {Timer}

\* No task is in two lists.
NoneTwice ==
  \A t \in Tasks :
    /\ ~(IsReady(t) /\ IsDelayed(t))
    /\ ~(InList(delayed, t) /\ InList(overflow, t))
    /\ t \in suspended => ~IsReady(t) /\ ~IsDelayed(t)

\* When each entry is due, before the wrap of the tick counter or after it.
Times ==
  /\ \A e \in Range(delayed) :
       IF tick = "scan" THEN xTickCount <= e.wake ELSE xTickCount < e.wake
  /\ \A e \in Range(overflow) : e.wake < xTickCount
  /\ tick # "scan" => xNextTaskUnblockTime = FirstWake(delayed)

\* The tasks created so far are ready and the highest of them is current,
\* unless the heap has no room for another stack.  There are no ticks.
Booting ==
  /\ phase # "running" => tick = "no"
  /\ phase = "boot" =>
    /\ delayed = << >> /\ overflow = << >> /\ suspended = {}
    /\ xPendedTicks = 0 /\ ~uxSchedulerSuspended
    /\ \A t \in Tasks : pc[t] = "run" /\ context[t] = Open
    /\ \A t \in Tasks : IsReady(t) => \E i \in 1 .. created : CreateOrder[i] = t
    /\ \/ \A i \in 1 .. created : IsReady(CreateOrder[i])
       \/ created < Len(CreateOrder) /\ heapSize <= xNextFreeByte + StackBytes
    /\ \A t \in Tasks : IsReady(t) =>
         /\ pxCurrentTCB # End
         /\ Priority[t] <= Priority[pxCurrentTCB]
    /\ pxCurrentTCB # End => IsReady(pxCurrentTCB)

\* Every task is in a list, and only the current one is in the middle of the
\* kernel's code.
Running ==
  phase = "running" =>
    /\ pxCurrentTCB \in Tasks
    /\ \A t \in Tasks : IsReady(t) \/ IsDelayed(t) \/ t \in suspended
    /\ pc[Idle] = "run"
    /\ \A t \in Tasks \ {pxCurrentTCB} : pc[t] \in {"run", "leave", "yield"}
    /\ uxSchedulerSuspended <=> pc[pxCurrentTCB] \in {"locked", "blocked"}
    /\ tick # "no" => pc[pxCurrentTCB] \in {"run", "yield", "unwind"}
    /\ xPendedTicks > 0 => pc[pxCurrentTCB] \in {"locked", "blocked", "unwind"}
    /\ pc[pxCurrentTCB] \in {"run", "locked", "leave"} => IsReady(pxCurrentTCB)

\* The current task has the highest priority of all that are ready, unless a
\* tick has found a higher one and has not yet switched to it.
Foremost ==
  /\ phase = "running" /\ pc[pxCurrentTCB] \in {"run", "leave"}
  /\ tick = "no" \/ ~xSwitchRequired
  => \A t \in Tasks : IsReady(t) => Priority[t] <= Priority[pxCurrentTCB]

KernelInv ==
  /\ TypeOK /\ Rings /\ Lists /\ NoneTwice /\ Times
  /\ Booting /\ Running /\ Foremost /\ MaskIsPrivate

\* The interrupt state of a task, on the CPU or in its saved context.
CpuOf(t) == IF t = pxCurrentTCB THEN cpu ELSE context[t]

-----------------------------------------------------------------------------
(* Lemmas about the operators of the model.                                *)

LEMMA PriorityFacts ==
  /\ Priorities \subseteq 0 .. 9
  /\ \A t \in Tasks : Priority[t] \in Priorities /\ Priority[t] \in 0 .. 9
  BY PriorityAssumption DEF Priorities

LEMMA TickFacts ==
  /\ MaxDelay \in Nat /\ MaxDelay >= 1 /\ TickRange = MaxDelay + 1
  /\ Ticks = 0 .. MaxDelay /\ Ticks \subseteq Nat
  /\ \A e \in Entries : e.task \in Tasks /\ e.wake \in Ticks /\ e.wake \in Nat
  BY TickAssumption DEF Ticks, MaxDelay, Entries

LEMMA TaskFacts ==
  /\ Idle \in Tasks /\ Timer \in Tasks /\ AppTasks \subseteq Tasks
  /\ \A t \in Tasks : t # End
  /\ Idle \notin AppTasks /\ Timer \notin AppTasks /\ Idle # Timer
  BY TaskAssumption DEF Tasks

\* A task is ready when it is an item of the ring of its priority.
LEMMA ReadyInRing ==
  ASSUME NEW t
  PROVE  IsReady(t) <=> t \in Range(ready[Priority[t]])
  BY DEF IsReady, Range

LEMMA ReadyInRingNext ==
  ASSUME NEW t
  PROVE  IsReady(t)' <=> t \in Range(ready'[Priority[t]])
  BY DEF IsReady, Range

LEMMA InListRange ==
  ASSUME NEW list, NEW t
  PROVE  InList(list, t) <=> \E e \in Range(list) : e.task = t
  BY DEF InList, Range

\* taskSELECT_HIGHEST_PRIORITY_TASK
LEMMA HighestFacts ==
  ASSUME uxTopReadyPriority \subseteq Priorities, uxTopReadyPriority # {}
  PROVE  /\ Highest \in uxTopReadyPriority
         /\ \A q \in uxTopReadyPriority : q <= Highest
  <1> DEFINE T == { n \in 0 .. 9 : 9 - n \in uxTopReadyPriority }
  <1>1. PICK p \in uxTopReadyPriority : p \in 0 .. 9
    BY PriorityFacts
  <1>2. 9 - p \in T
    <2>1. 9 - p \in 0 .. 9 /\ 9 - (9 - p) = p
      BY <1>1
    <2> QED BY <2>1, <1>1
  <1>3. PICK n \in T : \A m \in T : n <= m
    BY <1>2, LeastMember
  <1>4. ASSUME NEW q \in uxTopReadyPriority PROVE q <= 9 - n
    <2>1. q \in 0 .. 9 /\ 9 - q \in 0 .. 9 /\ 9 - (9 - q) = q
      BY PriorityFacts
    <2>2. n <= 9 - q
      BY <2>1, <1>3
    <2> QED BY <2>1, <2>2, <1>3
  <1>5. 9 - n \in uxTopReadyPriority
    BY <1>3
  <1> QED BY <1>4, <1>5 DEF Highest

\* prvAddTaskToReadyList adds a task that is not ready.
LEMMA AddToReadyFacts ==
  ASSUME Rings, NEW t \in Tasks, ~IsReady(t), AddToReady(t)
  PROVE  /\ Rings'
         /\ \A u \in Tasks : IsReady(u)' <=> IsReady(u) \/ u = t
  <1> DEFINE p == Priority[t]
             r == ready[p]
  <1>1. p \in Priorities /\ Ring(r) /\ t \notin Range(r)
    BY PriorityFacts, ReadyInRing DEF Rings
  <1>2. /\ Ring(InsertEnd(r, t)) /\ Range(InsertEnd(r, t)) = Range(r) \cup {t}
        /\ Len(InsertEnd(r, t)) = Len(r) + 1
        /\ Len(r) \in Nat /\ Len(r) >= 1
        /\ InsertEnd(r, t) \in Seq(Tasks \cup {End})
    BY <1>1, InsertEndFacts, RingFacts DEF Ring
  <1>3. /\ ready' = [ready EXCEPT ![p] = InsertEnd(r, t)]
        /\ uxTopReadyPriority' = uxTopReadyPriority \cup {p}
    BY DEF AddToReady
  <1>4. /\ ready'[p] = InsertEnd(r, t)
        /\ \A q \in Priorities : q # p => ready'[q] = ready[q]
        /\ ready' \in [Priorities -> Seq(Tasks \cup {End})]
    BY <1>1, <1>2, <1>3 DEF Rings
  <1> HIDE DEF p, r
  <1>5. Rings'
    <2> SUFFICES ASSUME NEW q \in Priorities
                 PROVE  /\ Ring(ready'[q])
                        /\ \A u \in Range(ready'[q]) : u # End => Priority[u] = q
                        /\ q \in uxTopReadyPriority' <=> Len(ready'[q]) >= 2
      BY <1>1, <1>3, <1>4 DEF Rings
    <2>1. CASE q = p
      BY <2>1, <1>1, <1>2, <1>3, <1>4 DEF Rings, p, r
    <2>2. CASE q # p
      BY <2>2, <1>3, <1>4 DEF Rings
    <2> QED BY <2>1, <2>2
  <1>6. ASSUME NEW u \in Tasks PROVE IsReady(u)' <=> IsReady(u) \/ u = t
    <2>1. Priority[u] \in Priorities
      BY PriorityFacts
    <2>2. CASE Priority[u] = p
      BY <2>2, <1>2, <1>4, ReadyInRing, ReadyInRingNext DEF r
    <2>3. CASE Priority[u] # p
      BY <2>1, <2>3, <1>4, ReadyInRing, ReadyInRingNext DEF p
    <2> QED BY <2>2, <2>3
  <1> QED BY <1>5, <1>6

\* vTaskSwitchContext rotates the ring of the highest priority and picks a
\* ready task of it; every task keeps its interrupt state.
LEMMA SwitchContextFacts ==
  ASSUME TypeOK, Rings, pxCurrentTCB \in Tasks, IsReady(Idle), SwitchContext
  PROVE  /\ Rings'
         /\ \A t \in Tasks : IsReady(t)' <=> IsReady(t)
         /\ pxCurrentTCB' \in Tasks /\ IsReady(pxCurrentTCB)'
         /\ \A t \in Tasks : IsReady(t) => Priority[t] <= Priority[pxCurrentTCB']
         /\ \A t \in Tasks : CpuOf(t)' = CpuOf(t)
         /\ cpu' \in {Open, Critical} /\ context' \in [Tasks -> {Open, Critical}]
         /\ xYieldPending' = FALSE
         /\ ready'[Priority[pxCurrentTCB']] = NextEntry(ready[Priority[pxCurrentTCB']])
         /\ pxCurrentTCB' = Head(ready'[Priority[pxCurrentTCB']])
  <1> DEFINE h == Highest
             r == ready[h]
             q == NextEntry(r)
  <1>1. ASSUME NEW t \in Tasks, IsReady(t) PROVE Priority[t] \in uxTopReadyPriority
    <2>1. Priority[t] \in Priorities
      BY PriorityFacts
    <2>2. Ring(ready[Priority[t]]) /\ t \in Range(ready[Priority[t]])
      BY <1>1, <2>1, ReadyInRing DEF Rings
    <2>3. Len(ready[Priority[t]]) >= 2
      BY <2>2, RemoveItemFacts
    <2> QED BY <2>1, <2>3 DEF Rings
  <1>2. h \in uxTopReadyPriority /\ \A p \in uxTopReadyPriority : p <= h
    BY <1>1, TaskFacts, HighestFacts DEF Rings
  <1>3. h \in Priorities /\ Ring(r) /\ Len(r) >= 2
    BY <1>2 DEF Rings
  <1>4. /\ Ring(q) /\ Range(q) = Range(r) /\ Len(q) = Len(r)
        /\ Head(q) \in Range(r) \ {End}
        /\ q \in Seq(Tasks \cup {End})
    BY <1>3, NextEntryFacts DEF Ring
  <1>5. Head(q) \in Tasks /\ Priority[Head(q)] = h
    BY <1>3, <1>4, RingFacts DEF Rings
  <1>6. /\ ready' = [ready EXCEPT ![h] = q]
        /\ pxCurrentTCB' = Head(q)
        /\ xYieldPending' = FALSE
        /\ context' = [context EXCEPT ![pxCurrentTCB] = cpu]
        /\ cpu' = context'[Head(q)]
        /\ uxTopReadyPriority' = uxTopReadyPriority
    BY DEF SwitchContext
  <1>7. /\ ready'[h] = q
        /\ \A p \in Priorities : p # h => ready'[p] = ready[p]
        /\ ready' \in [Priorities -> Seq(Tasks \cup {End})]
    BY <1>3, <1>4, <1>6 DEF Rings
  <1> HIDE DEF h, q
  <1>8. Rings'
    <2> SUFFICES ASSUME NEW p \in Priorities
                 PROVE  /\ Ring(ready'[p])
                        /\ \A u \in Range(ready'[p]) : u # End => Priority[u] = p
                        /\ p \in uxTopReadyPriority' <=> Len(ready'[p]) >= 2
      BY <1>6, <1>7 DEF Rings
    <2>1. CASE p = h
      BY <2>1, <1>3, <1>4, <1>6, <1>7 DEF Rings
    <2>2. CASE p # h
      BY <2>2, <1>6, <1>7 DEF Rings
    <2> QED BY <2>1, <2>2
  <1>9. ASSUME NEW t \in Tasks PROVE IsReady(t)' <=> IsReady(t)
    <2>1. Priority[t] \in Priorities
      BY PriorityFacts
    <2>2. CASE Priority[t] = h
      BY <2>2, <1>4, <1>7, ReadyInRing, ReadyInRingNext
    <2>3. CASE Priority[t] # h
      BY <2>1, <2>3, <1>7, ReadyInRing, ReadyInRingNext
    <2> QED BY <2>2, <2>3
  <1>10. IsReady(Head(q))
    BY <1>4, <1>5, ReadyInRing
  <1>11. pxCurrentTCB' \in Tasks /\ IsReady(pxCurrentTCB)'
    <2>1. Head(q) \in Range(ready'[Priority[Head(q)]])
      BY <1>4, <1>5, <1>7
    <2>2. pxCurrentTCB' \in Range(ready'[Priority[pxCurrentTCB']])
      BY <2>1, <1>6
    <2> QED BY <1>5, <1>6, <2>2 DEF IsReady, Range
  <1>12. ASSUME NEW t \in Tasks, IsReady(t) PROVE Priority[t] <= Priority[pxCurrentTCB']
    BY <1>1, <1>2, <1>5, <1>6, <1>12
  <1>13. cpu \in {Open, Critical} /\ context \in [Tasks -> {Open, Critical}]
    BY DEF TypeOK
  <1>14. cpu' \in {Open, Critical} /\ context' \in [Tasks -> {Open, Critical}]
    BY <1>5, <1>6, <1>13
  <1>15. ASSUME NEW t \in Tasks PROVE CpuOf(t)' = CpuOf(t)
    <2>1. context'[t] = IF t = pxCurrentTCB THEN cpu ELSE context[t]
      BY <1>6, <1>13
    <2> QED BY <2>1, <1>6 DEF CpuOf
  <1>16. /\ ready'[Priority[pxCurrentTCB']] = NextEntry(ready[Priority[pxCurrentTCB']])
         /\ pxCurrentTCB' = Head(ready'[Priority[pxCurrentTCB']])
    BY <1>5, <1>6, <1>7 DEF q
  <1> QED BY <1>6, <1>8, <1>9, <1>11, <1>12, <1>14, <1>15, <1>16

\* uxListRemove takes a task out of its ready list, and the last one of a
\* priority takes its bit along.
LEMMA RemoveFacts ==
  ASSUME Rings, NEW t \in Tasks, IsReady(t),
         ready' = [ready EXCEPT ![Priority[t]] = RemoveItem(ready[Priority[t]], t)],
         uxTopReadyPriority' =
           IF IsEmpty(RemoveItem(ready[Priority[t]], t))
             THEN uxTopReadyPriority \ {Priority[t]} ELSE uxTopReadyPriority
  PROVE  /\ Rings'
         /\ \A u \in Tasks : IsReady(u)' <=> IsReady(u) /\ u # t
  <1> DEFINE p == Priority[t]
             r == ready[p]
             s == RemoveItem(r, t)
  <1>1. p \in Priorities /\ Ring(r) /\ t \in Range(r)
    BY PriorityFacts, ReadyInRing DEF Rings
  <1>2. /\ Ring(s) /\ Range(s) = Range(r) \ {t}
        /\ Len(s) = Len(r) - 1 /\ Len(r) >= 2
        /\ Len(s) >= 2 <=> Len(s) # 1
        /\ s \in Seq(Tasks \cup {End})
    BY <1>1, RemoveItemFacts, RingFacts DEF Ring
  <1>3. /\ ready'[p] = s
        /\ \A q \in Priorities : q # p => ready'[q] = ready[q]
        /\ ready' \in [Priorities -> Seq(Tasks \cup {End})]
    BY <1>1, <1>2 DEF Rings
  <1>4. /\ uxTopReadyPriority' =
             IF Len(s) = 1 THEN uxTopReadyPriority \ {p} ELSE uxTopReadyPriority
        /\ p \in uxTopReadyPriority
    BY <1>1, <1>2 DEF IsEmpty, Rings
  <1> HIDE DEF p, s
  <1>5. Rings'
    <2> SUFFICES ASSUME NEW q \in Priorities
                 PROVE  /\ Ring(ready'[q])
                        /\ \A u \in Range(ready'[q]) : u # End => Priority[u] = q
                        /\ q \in uxTopReadyPriority' <=> Len(ready'[q]) >= 2
      BY <1>1, <1>3, <1>4 DEF Rings
    <2>1. CASE q = p
      <3>1. \A u \in Range(r) : u # End => Priority[u] = p
        BY <1>1 DEF Rings
      <3>2. p \in uxTopReadyPriority' <=> Len(s) >= 2
        BY <1>2, <1>4
      <3> QED BY <2>1, <3>1, <3>2, <1>2, <1>3
    <2>2. CASE q # p
      BY <2>2, <1>3, <1>4 DEF Rings
    <2> QED BY <2>1, <2>2
  <1>6. ASSUME NEW u \in Tasks PROVE IsReady(u)' <=> IsReady(u) /\ u # t
    <2>1. Priority[u] \in Priorities
      BY PriorityFacts
    <2>2. CASE Priority[u] = p
      BY <2>2, <1>2, <1>3, ReadyInRing, ReadyInRingNext
    <2>3. CASE Priority[u] # p
      BY <2>1, <2>3, <1>3, ReadyInRing, ReadyInRingNext DEF p
    <2> QED BY <2>2, <2>3
  <1> QED BY <1>5, <1>6

\* The first entry of a delayed list is the first to be due.
LEMMA FirstWakeFacts ==
  ASSUME NEW list, DelayedList(list)
  PROVE  /\ FirstWake(list) \in Ticks
         /\ \A e \in Range(list) : FirstWake(list) <= e.wake
         /\ \A e \in Range(list) : e \in Entries
  <1>1. list \in Seq(Entries)
    BY DEF DelayedList
  <1>2. \A e \in Range(list) : e \in Entries
    BY <1>1, RangeOfSeq
  <1>3. CASE list = << >>
    <2>1. Range(list) = {}
      BY <1>3 DEF Range
    <2> QED BY <2>1, <1>3, TickFacts DEF FirstWake
  <1>4. CASE list # << >>
    BY <1>1, <1>2, <1>4, TailFacts, TickFacts DEF FirstWake, DelayedList
  <1> QED BY <1>2, <1>3, <1>4

\* An empty list is a delayed list.
LEMMA EmptyList ==
  DelayedList(<< >>) /\ Range(<< >>) = {} /\ \A t : ~InList(<< >>, t)
  <1>1. << >> \in Seq(Entries) /\ DOMAIN << >> = {}
    OBVIOUS
  <1> QED BY <1>1 DEF DelayedList, Sorted, OneEach, Range, InList

\* A delayed list without entries is empty.
LEMMA NoEntries ==
  ASSUME NEW list, DelayedList(list), Range(list) = {}
  PROVE  list = << >>
  BY TailFacts DEF DelayedList

\* xTaskIncrementTick up to its loop: no task leaves the two lists, and each
\* of their entries is one tick nearer.
LEMMA IncrementTickFacts ==
  ASSUME TypeOK, Lists, Times, tick = "no", IncrementTick
  PROVE  /\ DelayedList(delayed') /\ DelayedList(overflow')
         /\ Times'
         /\ xTickCount' \in Ticks /\ xNextTaskUnblockTime' \in Ticks
         /\ tick' \in {"scan", "end"} /\ xSwitchRequired' = FALSE
         /\ \/ /\ delayed' = delayed /\ overflow' = overflow
               /\ xTickCount' = xTickCount + 1
            \/ /\ delayed = << >> /\ overflow' = << >> /\ delayed' = overflow
               /\ xTickCount = MaxDelay /\ xTickCount' = 0
  <1>1. /\ DelayedList(delayed) /\ DelayedList(overflow)
        /\ xTickCount \in Ticks /\ xNextTaskUnblockTime \in Ticks
        /\ MaxDelay \in Nat /\ TickRange = MaxDelay + 1 /\ Ticks = 0 .. MaxDelay
    BY TickFacts DEF Lists, TypeOK
  <1>2. /\ \A e \in Range(delayed) : e.wake \in Ticks /\ xTickCount < e.wake
        /\ \A e \in Range(overflow) : e.wake \in Ticks
        /\ xNextTaskUnblockTime = FirstWake(delayed)
    BY <1>1, FirstWakeFacts, TickFacts DEF Times
  <1>3. /\ xTickCount' = (xTickCount + 1) % TickRange
        /\ tick' = IF xTickCount' >= xNextTaskUnblockTime' THEN "scan" ELSE "end"
        /\ xSwitchRequired' = FALSE
    BY DEF IncrementTick
  <1>4. CASE xTickCount = MaxDelay
    <2>1. xTickCount' = 0
      BY <1>1, <1>3, <1>4
    <2>2. /\ delayed' = overflow /\ overflow' = delayed
          /\ xNextTaskUnblockTime' = FirstWake(overflow)
      BY <2>1 DEF IncrementTick
    <2>3. Range(delayed) = {}
      BY <1>1, <1>2, <1>4
    <2>4. delayed = << >>
      BY <2>3, <1>1, NoEntries
    <2>5. /\ FirstWake(overflow) \in Ticks
          /\ \A e \in Range(overflow) : FirstWake(overflow) <= e.wake
      BY <1>1, FirstWakeFacts
    <2>6. Times'
      <3>1. \A e \in Range(delayed') :
              IF tick' = "scan" THEN xTickCount' <= e.wake ELSE xTickCount' < e.wake
        BY <1>1, <1>2, <1>3, <2>1, <2>2, <2>5
      <3>2. Range(overflow') = {}
        BY <2>2, <2>3
      <3> QED BY <3>1, <3>2, <2>2 DEF Times
    <2> QED BY <1>1, <1>3, <1>4, <2>1, <2>2, <2>4, <2>5, <2>6
  <1>5. CASE xTickCount # MaxDelay
    <2>1. xTickCount' = xTickCount + 1 /\ xTickCount' # 0 /\ xTickCount' \in Ticks
      BY <1>1, <1>3, <1>5
    <2>2. /\ delayed' = delayed /\ overflow' = overflow
          /\ xNextTaskUnblockTime' = xNextTaskUnblockTime
      BY <2>1 DEF IncrementTick
    <2>3. Times'
      <3>1. \A e \in Range(delayed) : FirstWake(delayed) <= e.wake
        BY <1>1, FirstWakeFacts
      <3>2. \A e \in Range(delayed') :
              IF tick' = "scan" THEN xTickCount' <= e.wake ELSE xTickCount' < e.wake
        BY <1>1, <1>2, <1>3, <2>1, <2>2, <3>1
      <3>3. \A e \in Range(overflow') : e.wake < xTickCount'
        BY <1>1, <1>2, <2>1, <2>2 DEF Times
      <3> QED BY <3>2, <3>3, <2>2, <1>2 DEF Times
    <2> QED BY <1>1, <1>3, <2>1, <2>2, <2>3
  <1> QED BY <1>4, <1>5

-----------------------------------------------------------------------------
(* The invariant is inductive.                                             *)

\* What the invariant says of the ready and the delayed tasks.
LEMMA RunningFacts ==
  ASSUME KernelInv, phase = "running"
  PROVE  /\ pxCurrentTCB \in Tasks /\ IsReady(Idle)
         /\ \A t \in Tasks : IsDelayed(t) => t \in AppTasks
         /\ pc \in [Tasks -> Places] /\ tick \in {"no", "scan", "end"}
         /\ pc[Idle] = "run"
         /\ \A t \in Tasks \ {pxCurrentTCB} : pc[t] \in {"run", "leave", "yield"}
         /\ CpuOf(pxCurrentTCB) = cpu
         /\ \A t \in Tasks : CpuOf(t) =
              IF pc[t] \in {"unwind", "leave", "release"} THEN Critical ELSE Open
  <1>1. ASSUME NEW t \in Tasks, IsDelayed(t) PROVE t \in AppTasks
    BY <1>1, InListRange DEF IsDelayed, KernelInv, Lists, DelayedList
  <1>2. IsReady(Idle)
    BY <1>1, TaskFacts DEF KernelInv, Running, Lists
  <1>3. ASSUME NEW t \in Tasks
        PROVE  CpuOf(t) = IF pc[t] \in {"unwind", "leave", "release"} THEN Critical
                                                                    ELSE Open
    BY DEF KernelInv, MaskIsPrivate, CpuOf
  <1> QED BY <1>1, <1>2, <1>3 DEF KernelInv, TypeOK, Running, CpuOf

\* The mask of every task is its own when the places tell it.
LEMMA MaskFacts ==
  ASSUME \A t \in Tasks : CpuOf(t) =
              IF pc[t] \in {"unwind", "leave", "release"} THEN Critical ELSE Open
  PROVE  MaskIsPrivate
  BY DEF MaskIsPrivate, CpuOf

LEMMA SuspendAllStep ==
  ASSUME KernelInv, NEW t \in Tasks, SuspendAll(t)
  PROVE  KernelInv'
  <1> USE DEF SuspendAll, heapVars, cpuVars, taskLists, timeVars, tickVars
  <1>1. /\ phase = "running" /\ tick = "no" /\ pxCurrentTCB = t /\ pc[t] = "run"
        /\ pc' = [pc EXCEPT ![t] = "locked"] /\ t # Idle
        /\ pc'[t] = "locked" /\ \A u \in Tasks \ {t} : pc'[u] = pc[u]
    BY DEF At, GoTo, KernelInv, TypeOK
  <1>2. TypeOK'
    BY <1>1 DEF KernelInv, TypeOK, Places
  <1>3. Rings' /\ Lists' /\ NoneTwice'
    BY DEF KernelInv, Rings, Lists, NoneTwice, IsReady, IsDelayed
  <1>4. Times'
    BY DEF KernelInv, Times
  <1>5. Booting'
    BY <1>1 DEF Booting
  <1>6. Running'
    BY <1>1, RunningFacts DEF KernelInv, Running, IsReady, IsDelayed
  <1>7. Foremost'
    BY <1>1 DEF Foremost
  <1>8. MaskIsPrivate'
    BY <1>1 DEF KernelInv, MaskIsPrivate
  <1> QED BY <1>2, <1>3, <1>4, <1>5, <1>6, <1>7, <1>8 DEF KernelInv

LEMMA ResumeAllStep ==
  ASSUME KernelInv, NEW t \in Tasks, ResumeAll(t)
  PROVE  KernelInv'
  <1> USE DEF ResumeAll, heapVars, taskLists, timeVars, tickVars
  <1>1. /\ phase = "running" /\ tick = "no" /\ pxCurrentTCB = t /\ pc[t] = "blocked"
        /\ pc' = [pc EXCEPT ![t] = "unwind"] /\ t # Idle
        /\ pc'[t] = "unwind" /\ \A u \in Tasks \ {t} : pc'[u] = pc[u]
        /\ cpu = Open
    BY RunningFacts DEF At, GoTo, KernelInv, TypeOK
  <1>2. cpu' = Critical
    BY <1>1 DEF Open, Critical
  <1>3. TypeOK'
    BY <1>1, <1>2 DEF KernelInv, TypeOK, Places
  <1>4. Rings' /\ Lists' /\ NoneTwice'
    BY DEF KernelInv, Rings, Lists, NoneTwice, IsReady, IsDelayed
  <1>5. Times'
    BY DEF KernelInv, Times
  <1>6. Booting'
    BY <1>1 DEF Booting
  <1>7. Running'
    <2>1. \A u \in Tasks : IsReady(u)' \/ IsDelayed(u)' \/ u \in suspended'
      BY <1>1 DEF KernelInv, Running, IsReady, IsDelayed
    <2>2. /\ pc'[Idle] = "run"
          /\ \A u \in Tasks \ {t} : pc'[u] \in {"run", "leave", "yield"}
      BY <1>1, RunningFacts, TaskFacts
    <2>3. uxSchedulerSuspended' = FALSE
      OBVIOUS
    <2> QED BY <2>1, <2>2, <2>3, <1>1 DEF Running
  <1>8. Foremost'
    BY <1>1 DEF Foremost
  <1>9. MaskIsPrivate'
    BY <1>1, <1>2 DEF KernelInv, MaskIsPrivate
  <1> QED BY <1>3, <1>4, <1>5, <1>6, <1>7, <1>8, <1>9 DEF KernelInv

LEMMA ExitCriticalStep ==
  ASSUME KernelInv, NEW t \in Tasks, ExitCritical(t)
  PROVE  KernelInv'
  <1> USE DEF ExitCritical, heapVars, taskLists, timeVars, tickVars
  <1>1. /\ phase = "running" /\ tick = "no" /\ pxCurrentTCB = t
        /\ pc[t] \in {"leave", "release"}
        /\ pc'[t] = IF pc[t] = "leave" THEN "run" ELSE "yield"
        /\ pc' \in [Tasks -> Places]
        /\ \A u \in Tasks \ {t} : pc'[u] = pc[u]
        /\ cpu = Critical /\ t # Idle
    BY RunningFacts DEF At, GoTo, KernelInv, TypeOK, Places
  <1>2. cpu' = Open
    BY <1>1 DEF Open, Critical
  <1>3. TypeOK'
    BY <1>1, <1>2 DEF KernelInv, TypeOK
  <1>4. Rings' /\ Lists' /\ NoneTwice'
    BY DEF KernelInv, Rings, Lists, NoneTwice, IsReady, IsDelayed
  <1>5. Times'
    BY DEF KernelInv, Times
  <1>6. Booting'
    BY <1>1 DEF Booting
  <1>7. Running'
    <2>1. \A u \in Tasks : IsReady(u)' \/ IsDelayed(u)' \/ u \in suspended'
      BY <1>1 DEF KernelInv, Running, IsReady, IsDelayed
    <2>2. /\ pc'[Idle] = "run"
          /\ \A u \in Tasks \ {t} : pc'[u] \in {"run", "leave", "yield"}
      BY <1>1, RunningFacts, TaskFacts
    <2>3. /\ ~uxSchedulerSuspended /\ ~(xPendedTicks > 0)
          /\ pc[t] = "leave" => IsReady(t)
      BY <1>1 DEF KernelInv, Running
    <2>4. pc'[t] = "run" => IsReady(t)'
      BY <1>1, <2>3 DEF IsReady
    <2> QED BY <2>1, <2>2, <2>3, <2>4, <1>1 DEF Running
  <1>8. Foremost'
    BY <1>1 DEF KernelInv, Foremost, IsReady
  <1>9. MaskIsPrivate'
    BY <1>1, <1>2 DEF KernelInv, MaskIsPrivate
  <1> QED BY <1>3, <1>4, <1>5, <1>6, <1>7, <1>8, <1>9 DEF KernelInv

LEMMA PendTickStep ==
  ASSUME KernelInv, PendTick
  PROVE  KernelInv'
  <1> USE DEF PendTick, InterruptsOpen, heapVars, cpuVars, taskLists, timeVars,
              tickVars
  <1>1. xPendedTicks' \in 0 .. MaxPended
    BY TickAssumption DEF KernelInv, TypeOK
  <1>2. TypeOK'
    BY <1>1 DEF KernelInv, TypeOK
  <1>3. Rings' /\ Lists' /\ NoneTwice'
    BY DEF KernelInv, Rings, Lists, NoneTwice, IsReady, IsDelayed
  <1>4. Times'
    BY DEF KernelInv, Times
  <1>5. Booting'
    BY DEF Booting
  <1>6. Running'
    BY DEF KernelInv, Running, IsReady, IsDelayed
  <1>7. Foremost'
    BY DEF KernelInv, Foremost, IsReady
  <1>8. MaskIsPrivate'
    BY DEF KernelInv, MaskIsPrivate
  <1> QED BY <1>2, <1>3, <1>4, <1>5, <1>6, <1>7, <1>8 DEF KernelInv

LEMMA EndScanStep ==
  ASSUME KernelInv, EndScan
  PROVE  KernelInv'
  <1> USE DEF EndScan, heapVars, cpuVars, taskLists
  <1>1. /\ DelayedList(delayed) /\ FirstWake(delayed) \in Ticks
        /\ xTickCount \in Ticks
    BY FirstWakeFacts DEF KernelInv, Lists, TypeOK
  <1>2. TypeOK'
    BY <1>1 DEF KernelInv, TypeOK
  <1>3. Rings' /\ Lists' /\ NoneTwice'
    BY DEF KernelInv, Rings, Lists, NoneTwice, IsReady, IsDelayed
  <1>4. Times'
    <2>1. ASSUME NEW e \in Range(delayed) PROVE xTickCount < e.wake
      <3>1. delayed # << >> /\ delayed \in Seq(Entries) /\ Sorted(delayed)
        BY <1>1, EmptyList, <2>1 DEF DelayedList
      <3>2. Head(delayed).wake <= e.wake /\ Head(delayed) \in Entries
        BY <3>1, TailFacts
      <3>3. ~(Head(delayed).wake <= xTickCount)
        BY <3>1 DEF IsDue
      <3>4. e \in Entries
        BY <1>1, FirstWakeFacts
      <3> QED BY <3>2, <3>3, <3>4, <1>1, TickFacts
    <2> QED BY <2>1 DEF KernelInv, Times
  <1>5. Booting'
    BY DEF KernelInv, Booting
  <1>6. Running'
    BY DEF KernelInv, Running, IsReady, IsDelayed
  <1>7. Foremost'
    BY DEF KernelInv, Foremost, IsReady
  <1>8. MaskIsPrivate'
    BY DEF KernelInv, MaskIsPrivate
  <1> QED BY <1>2, <1>3, <1>4, <1>5, <1>6, <1>7, <1>8 DEF KernelInv

LEMMA YieldWithinApiStep ==
  ASSUME KernelInv, NEW t \in Tasks, YieldWithinApi(t)
  PROVE  KernelInv'
  <1> USE DEF YieldWithinApi, heapVars, taskLists, timeVars, tickVars
  <1>1. /\ phase = "running" /\ tick = "no" /\ pxCurrentTCB = t /\ pc[t] = "yield"
        /\ pc' = [pc EXCEPT ![t] = "run"]
        /\ pc'[t] = "run" /\ \A u \in Tasks \ {t} : pc'[u] = pc[u]
        /\ pc' \in [Tasks -> Places]
        /\ TypeOK /\ Rings /\ SwitchContext
    BY DEF At, GoTo, KernelInv, TypeOK, Places
  <1>2. /\ Rings'
        /\ \A u \in Tasks : IsReady(u)' <=> IsReady(u)
        /\ pxCurrentTCB' \in Tasks /\ IsReady(pxCurrentTCB)'
        /\ \A u \in Tasks : IsReady(u) => Priority[u] <= Priority[pxCurrentTCB']
        /\ \A u \in Tasks : CpuOf(u)' = CpuOf(u)
        /\ cpu' \in {Open, Critical} /\ context' \in [Tasks -> {Open, Critical}]
        /\ xYieldPending' = FALSE
    BY <1>1, RunningFacts, SwitchContextFacts
  <1>3. \A u \in Tasks : pc'[u] \in {"run", "leave", "yield"}
    BY <1>1, RunningFacts
  <1>4. TypeOK'
    BY <1>1, <1>2 DEF TypeOK, Rings
  <1>5. Lists' /\ NoneTwice'
    BY <1>2 DEF KernelInv, Lists, NoneTwice, IsDelayed
  <1>6. Times'
    BY DEF KernelInv, Times
  <1>7. Booting'
    BY <1>1 DEF Booting
  <1>8. Running'
    <2>1. \A u \in Tasks : IsReady(u)' \/ IsDelayed(u)' \/ u \in suspended'
      BY <1>1, <1>2 DEF KernelInv, Running, IsDelayed
    <2>2. pc'[Idle] = "run"
      BY <1>1, RunningFacts, TaskFacts
    <2>3. ~uxSchedulerSuspended /\ ~(xPendedTicks > 0)
      BY <1>1 DEF KernelInv, Running
    <2> QED BY <2>1, <2>2, <2>3, <1>1, <1>2, <1>3 DEF Running
  <1>9. Foremost'
    BY <1>2 DEF Foremost
  <1>10. MaskIsPrivate'
    <2>1. ASSUME NEW u \in Tasks
          PROVE  CpuOf(u)' = IF pc'[u] \in {"unwind", "leave", "release"} THEN Critical
                                                                      ELSE Open
      BY <1>1, <1>2, RunningFacts
    <2> QED BY <2>1 DEF MaskIsPrivate, CpuOf
  <1> QED BY <1>2, <1>4, <1>5, <1>6, <1>7, <1>8, <1>9, <1>10 DEF KernelInv

LEMMA EndUnwindStep ==
  ASSUME KernelInv, NEW t \in Tasks, EndUnwind(t)
  PROVE  KernelInv'
  <1> USE DEF EndUnwind, heapVars, taskLists, timeVars, tickVars
  <1>1. /\ phase = "running" /\ tick = "no" /\ pxCurrentTCB = t /\ pc[t] = "unwind"
        /\ xPendedTicks = 0 /\ t # Idle
        /\ TypeOK /\ Rings /\ pxCurrentTCB \in Tasks /\ IsReady(Idle)
    BY RunningFacts DEF At, KernelInv
  <1>2. Times'
    BY DEF KernelInv, Times
  <1>3. Booting'
    BY <1>1 DEF Booting
  <1>4. ~uxSchedulerSuspended /\ uxSchedulerSuspended' = uxSchedulerSuspended
    BY <1>1 DEF KernelInv, Running
  <1>5. CASE xYieldPending
    <2>1. /\ SwitchContext
          /\ pc' = [pc EXCEPT ![t] = "leave"]
          /\ pc'[t] = "leave" /\ \A u \in Tasks \ {t} : pc'[u] = pc[u]
          /\ pc' \in [Tasks -> Places]
      BY <1>1, <1>5 DEF GoTo, TypeOK, Places
    <2>2. /\ Rings'
          /\ \A u \in Tasks : IsReady(u)' <=> IsReady(u)
          /\ pxCurrentTCB' \in Tasks /\ IsReady(pxCurrentTCB)'
          /\ \A u \in Tasks : IsReady(u) => Priority[u] <= Priority[pxCurrentTCB']
          /\ \A u \in Tasks : CpuOf(u)' = CpuOf(u)
          /\ cpu' \in {Open, Critical} /\ context' \in [Tasks -> {Open, Critical}]
          /\ xYieldPending' = FALSE
      BY <1>1, <2>1, SwitchContextFacts
    <2>3. \A u \in Tasks : pc'[u] \in {"run", "leave", "yield"}
      BY <1>1, <2>1, RunningFacts
    <2>4. TypeOK'
      BY <1>1, <2>1, <2>2 DEF TypeOK, Rings
    <2>5. Lists' /\ NoneTwice'
      BY <2>2 DEF KernelInv, Lists, NoneTwice, IsDelayed
    <2>6. Running'
      <3>1. \A u \in Tasks : IsReady(u)' \/ IsDelayed(u)' \/ u \in suspended'
        BY <1>1, <2>2 DEF KernelInv, Running, IsDelayed
      <3>2. pc'[Idle] = "run"
        BY <1>1, <2>1, RunningFacts, TaskFacts
      <3> QED BY <3>1, <3>2, <1>1, <1>4, <2>2, <2>3 DEF Running
    <2>7. Foremost'
      BY <2>2 DEF Foremost
    <2>8. MaskIsPrivate'
      <3>1. ASSUME NEW u \in Tasks
            PROVE  CpuOf(u)' = IF pc'[u] \in {"unwind", "leave", "release"}
                                 THEN Critical ELSE Open
        BY <1>1, <2>1, <2>2, RunningFacts
      <3> QED BY <3>1 DEF MaskIsPrivate, CpuOf
    <2> QED BY <1>2, <1>3, <2>2, <2>4, <2>5, <2>6, <2>7, <2>8 DEF KernelInv
  <1>6. CASE ~xYieldPending
    <2>1. /\ pc' = [pc EXCEPT ![t] = "release"]
          /\ pc'[t] = "release" /\ \A u \in Tasks \ {t} : pc'[u] = pc[u]
          /\ pc' \in [Tasks -> Places]
          /\ UNCHANGED <<pxCurrentTCB, cpu, context, xYieldPending, ready,
                         uxTopReadyPriority>>
      BY <1>1, <1>6 DEF GoTo, TypeOK, Places, cpuVars
    <2>2. TypeOK'
      BY <1>1, <2>1 DEF TypeOK
    <2>3. Rings' /\ Lists' /\ NoneTwice'
      BY <2>1 DEF KernelInv, Rings, Lists, NoneTwice, IsReady, IsDelayed
    <2>4. Running'
      <3>1. \A u \in Tasks : IsReady(u)' \/ IsDelayed(u)' \/ u \in suspended'
        BY <1>1, <2>1 DEF KernelInv, Running, IsReady, IsDelayed
      <3>2. /\ pc'[Idle] = "run"
            /\ \A u \in Tasks \ {t} : pc'[u] \in {"run", "leave", "yield"}
        BY <1>1, <2>1, RunningFacts, TaskFacts
      <3> QED BY <3>1, <3>2, <1>1, <1>4, <2>1 DEF Running
    <2>5. Foremost'
      BY <1>1, <2>1 DEF Foremost
    <2>6. MaskIsPrivate'
      BY <1>1, <2>1 DEF KernelInv, MaskIsPrivate
    <2> QED BY <1>2, <1>3, <2>2, <2>3, <2>4, <2>5, <2>6 DEF KernelInv
  <1> QED BY <1>5, <1>6


LEMMA EndTickStep ==
  ASSUME KernelInv, EndTick
  PROVE  KernelInv'
  <1> USE DEF EndTick, heapVars, taskLists, timeVars
  <1>1. /\ phase = "running" /\ tick = "end" /\ tick' = "no"
        /\ TypeOK /\ Rings /\ pxCurrentTCB \in Tasks /\ IsReady(Idle)
    BY RunningFacts DEF KernelInv, Booting
  <1>2. Times'
    BY <1>1 DEF KernelInv, Times
  <1>3. Booting'
    BY <1>1 DEF Booting
  <1>4. CASE SwitchNeeded /\ pc[pxCurrentTCB] # "unwind"
    <2>1. /\ Rings'
          /\ \A u \in Tasks : IsReady(u)' <=> IsReady(u)
          /\ pxCurrentTCB' \in Tasks /\ IsReady(pxCurrentTCB)'
          /\ \A u \in Tasks : IsReady(u) => Priority[u] <= Priority[pxCurrentTCB']
          /\ \A u \in Tasks : CpuOf(u)' = CpuOf(u)
          /\ cpu' \in {Open, Critical} /\ context' \in [Tasks -> {Open, Critical}]
          /\ xYieldPending' = FALSE
      BY <1>1, <1>4, SwitchContextFacts
    <2>2. /\ pc[pxCurrentTCB] \in {"run", "yield"}
          /\ ~uxSchedulerSuspended /\ ~(xPendedTicks > 0)
      BY <1>1, <1>4 DEF KernelInv, Running
    <2>3. \A u \in Tasks : pc[u] \in {"run", "leave", "yield"}
      BY <1>1, <2>2, RunningFacts
    <2>4. TypeOK'
      BY <1>1, <2>1 DEF TypeOK, Rings
    <2>5. Lists' /\ NoneTwice'
      BY <2>1 DEF KernelInv, Lists, NoneTwice, IsDelayed
    <2>6. Running'
      <3>1. \A u \in Tasks : IsReady(u)' \/ IsDelayed(u)' \/ u \in suspended'
        BY <1>1, <2>1 DEF KernelInv, Running, IsDelayed
      <3>2. pc[Idle] = "run"
        BY <1>1, RunningFacts
      <3> QED BY <3>1, <3>2, <1>1, <2>1, <2>2, <2>3 DEF Running
    <2>7. Foremost'
      BY <2>1 DEF Foremost
    <2>8. MaskIsPrivate'
      <3>1. ASSUME NEW u \in Tasks
            PROVE  CpuOf(u)' = IF pc'[u] \in {"unwind", "leave", "release"}
                                 THEN Critical ELSE Open
        BY <1>1, <2>1, RunningFacts
      <3> QED BY <3>1 DEF MaskIsPrivate, CpuOf
    <2> QED BY <1>2, <1>3, <2>1, <2>4, <2>5, <2>6, <2>7, <2>8 DEF KernelInv
  <1>5. CASE ~SwitchNeeded \/ pc[pxCurrentTCB] = "unwind"
    <2>1. /\ UNCHANGED <<pxCurrentTCB, cpu, context, ready, uxTopReadyPriority>>
          /\ xYieldPending' \in BOOLEAN
      BY <1>5 DEF cpuVars, KernelInv, TypeOK
    <2>2. TypeOK'
      BY <1>1, <2>1 DEF TypeOK
    <2>3. Rings' /\ Lists' /\ NoneTwice'
      BY <2>1 DEF KernelInv, Rings, Lists, NoneTwice, IsReady, IsDelayed
    <2>4. Running'
      BY <1>1, <2>1 DEF KernelInv, Running, IsReady, IsDelayed
    <2>5. Foremost'
      <3>1. CASE pc[pxCurrentTCB] = "unwind"
        BY <3>1, <2>1 DEF Foremost
      <3>2. CASE pc[pxCurrentTCB] # "unwind"
        <4>1. ~xSwitchRequired
          BY <3>2, <1>5 DEF SwitchNeeded
        <4> QED BY <4>1, <1>1, <2>1 DEF KernelInv, Foremost, IsReady
      <3> QED BY <3>1, <3>2
    <2>6. MaskIsPrivate'
      BY <2>1 DEF KernelInv, MaskIsPrivate
    <2> QED BY <1>2, <1>3, <2>2, <2>3, <2>4, <2>5, <2>6 DEF KernelInv
  <1> QED BY <1>4, <1>5

LEMMA UnblockHeadStep ==
  ASSUME KernelInv, UnblockHead
  PROVE  KernelInv'
  <1> DEFINE e == Head(delayed)
             t == e.task
  <1> USE DEF heapVars, cpuVars, timeVars
  <1>1. /\ tick = "scan" /\ IsDue /\ delayed' = Tail(delayed) /\ AddToReady(t)
        /\ xSwitchRequired' =
             (xSwitchRequired \/ Priority[t] > Priority[pxCurrentTCB])
        /\ UNCHANGED <<phase, created, heapSize, xNextFreeByte, pc, pxCurrentTCB,
             cpu, context, xYieldPending, overflow, suspended, xTickCount,
             xNextTaskUnblockTime, uxSchedulerSuspended, xPendedTicks, tick>>
    BY DEF UnblockHead
  <1>2. phase = "running" /\ pxCurrentTCB \in Tasks
    BY <1>1, RunningFacts DEF KernelInv, Booting
  <1>3. /\ delayed # << >> /\ delayed \in Seq(Entries)
        /\ Sorted(delayed) /\ OneEach(delayed)
        /\ \A x \in Range(delayed) : x.task \in AppTasks
    BY <1>1 DEF IsDue, KernelInv, Lists, DelayedList
  <1>4. /\ Tail(delayed) \in Seq(Entries) /\ e \in Entries /\ e \in Range(delayed)
        /\ Range(Tail(delayed)) \subseteq Range(delayed)
        /\ Range(delayed) = Range(Tail(delayed)) \cup {e}
        /\ Sorted(Tail(delayed)) /\ OneEach(Tail(delayed))
        /\ ~InList(Tail(delayed), t)
    BY <1>3, TailFacts
  <1> HIDE DEF e
  <1>5. t \in Tasks /\ InList(delayed, t)
    BY <1>4, InListRange, TickFacts
  <1>6. ~IsReady(t) /\ ~InList(overflow, t) /\ t \notin suspended
    BY <1>5 DEF KernelInv, NoneTwice, IsDelayed
  <1>7. Rings' /\ \A u \in Tasks : IsReady(u)' <=> IsReady(u) \/ u = t
    BY <1>1, <1>5, <1>6, AddToReadyFacts DEF KernelInv
  <1>8. \A u : InList(Tail(delayed), u) <=> InList(delayed, u) /\ u # t
    BY <1>4, InListRange
  <1>9. TypeOK'
    BY <1>1, <1>4, <1>7 DEF KernelInv, TypeOK, Rings
  <1>10. Lists'
    BY <1>1, <1>3, <1>4 DEF KernelInv, Lists, DelayedList
  <1>11. NoneTwice'
    BY <1>1, <1>6, <1>7, <1>8 DEF KernelInv, NoneTwice, IsDelayed
  <1>12. Times'
    BY <1>1, <1>4 DEF KernelInv, Times
  <1>13. Booting'
    BY <1>1, <1>2 DEF Booting
  <1>14. Running'
    <2>1. \A u \in Tasks : IsReady(u)' \/ IsDelayed(u)' \/ u \in suspended'
      BY <1>1, <1>2, <1>7, <1>8 DEF KernelInv, Running, IsDelayed
    <2>2. IsReady(pxCurrentTCB) => IsReady(pxCurrentTCB)'
      BY <1>1, <1>2, <1>7 DEF IsReady
    <2> QED BY <1>1, <1>2, <2>1, <2>2 DEF KernelInv, Running
  <1>15. Foremost'
    <2>1. \/ Priority[t] > Priority[pxCurrentTCB]
          \/ Priority[t] <= Priority[pxCurrentTCB]
      BY <1>2, <1>5, PriorityFacts
    <2>2. ~xSwitchRequired' => ~xSwitchRequired /\ Priority[t] <= Priority[pxCurrentTCB]
      BY <1>1, <2>1, Zenon
    <2> QED BY <1>1, <1>2, <1>7, <2>2 DEF KernelInv, Foremost
  <1>16. MaskIsPrivate'
    BY <1>1 DEF KernelInv, MaskIsPrivate
  <1> QED BY <1>7, <1>9, <1>10, <1>11, <1>12, <1>13, <1>14, <1>15, <1>16 DEF KernelInv

\* The lists after the beginning of a tick hold the same tasks.
LEMMA IncrementTickLists ==
  ASSUME KernelInv, tick = "no", IncrementTick, suspended' = suspended,
         ready' = ready
  PROVE  /\ Lists' /\ NoneTwice'
         /\ \A t : IsDelayed(t)' <=> IsDelayed(t)
  <1>1. /\ DelayedList(delayed') /\ DelayedList(overflow')
        /\ \/ delayed' = delayed /\ overflow' = overflow
           \/ delayed = << >> /\ overflow' = << >> /\ delayed' = overflow
    BY IncrementTickFacts DEF KernelInv
  <1>2. \A t : IsDelayed(t)' <=> IsDelayed(t)
    BY <1>1, EmptyList DEF IsDelayed
  <1>3. \A t : IsReady(t)' <=> IsReady(t)
    BY DEF IsReady
  <1>4. ASSUME NEW t \in Tasks PROVE ~(InList(delayed', t) /\ InList(overflow', t))
    BY <1>1, EmptyList DEF KernelInv, NoneTwice
  <1> QED BY <1>1, <1>2, <1>3, <1>4 DEF KernelInv, Lists, NoneTwice

LEMMA TickInterruptStep ==
  ASSUME KernelInv, TickInterrupt
  PROVE  KernelInv'
  <1> USE DEF TickInterrupt, heapVars, cpuVars
  <1>1. /\ phase = "running" /\ tick = "no" /\ ~uxSchedulerSuspended
        /\ cpu.ccpn = 0 /\ pxCurrentTCB \in Tasks /\ IncrementTick
        /\ ready' = ready /\ suspended' = suspended
    BY RunningFacts DEF InterruptsOpen
  <1>2. /\ DelayedList(delayed') /\ DelayedList(overflow') /\ Times'
        /\ xTickCount' \in Ticks /\ xNextTaskUnblockTime' \in Ticks
        /\ tick' \in {"scan", "end"} /\ xSwitchRequired' = FALSE
    BY <1>1, IncrementTickFacts DEF KernelInv
  <1>3. Lists' /\ NoneTwice' /\ \A t : IsDelayed(t)' <=> IsDelayed(t)
    BY <1>1, IncrementTickLists
  <1>4. pc[pxCurrentTCB] \in {"run", "yield"} /\ ~(xPendedTicks > 0)
    <2>1. cpu # Critical
      BY <1>1 DEF Critical, Masked
    <2>2. pc[pxCurrentTCB] \notin {"unwind", "leave", "release"}
      BY <1>1, <2>1, RunningFacts
    <2> QED BY <1>1, <2>2, RunningFacts DEF KernelInv, Running, Places
  <1>5. TypeOK'
    BY <1>2 DEF KernelInv, TypeOK, DelayedList
  <1>6. Rings'
    BY DEF KernelInv, Rings
  <1>7. Booting'
    BY <1>1 DEF Booting
  <1>8. Running'
    BY <1>1, <1>3, <1>4 DEF KernelInv, Running, IsReady
  <1>9. Foremost'
    BY <1>1 DEF KernelInv, Foremost, IsReady
  <1>10. MaskIsPrivate'
    BY DEF KernelInv, MaskIsPrivate
  <1> QED BY <1>2, <1>3, <1>5, <1>6, <1>7, <1>8, <1>9, <1>10 DEF KernelInv

LEMMA UnwindTickStep ==
  ASSUME KernelInv, NEW t \in Tasks, UnwindTick(t)
  PROVE  KernelInv'
  <1> USE DEF UnwindTick, heapVars, cpuVars
  <1>1. /\ phase = "running" /\ tick = "no" /\ pxCurrentTCB = t
        /\ pc[t] = "unwind" /\ IncrementTick
        /\ ready' = ready /\ suspended' = suspended
    BY DEF At
  <1>2. /\ DelayedList(delayed') /\ DelayedList(overflow') /\ Times'
        /\ xTickCount' \in Ticks /\ xNextTaskUnblockTime' \in Ticks
        /\ tick' \in {"scan", "end"} /\ xSwitchRequired' = FALSE
    BY <1>1, IncrementTickFacts DEF KernelInv
  <1>3. Lists' /\ NoneTwice' /\ \A u : IsDelayed(u)' <=> IsDelayed(u)
    BY <1>1, IncrementTickLists
  <1>4. xPendedTicks' \in 0 .. MaxPended
    BY TickAssumption DEF KernelInv, TypeOK
  <1>5. TypeOK'
    BY <1>2, <1>4 DEF KernelInv, TypeOK, DelayedList
  <1>6. Rings'
    BY DEF KernelInv, Rings
  <1>7. Booting'
    BY <1>1 DEF Booting
  <1>8. Running'
    BY <1>1, <1>3 DEF KernelInv, Running, IsReady
  <1>9. Foremost'
    BY <1>1 DEF Foremost
  <1>10. MaskIsPrivate'
    BY DEF KernelInv, MaskIsPrivate
  <1> QED BY <1>2, <1>3, <1>5, <1>6, <1>7, <1>8, <1>9, <1>10 DEF KernelInv

\* The wake time of vTaskDelay is one of this round of the tick counter and
\* later than now, or one of the next round.
LEMMA WakeTimeFacts ==
  ASSUME xTickCount \in Ticks, NEW t \in AppTasks
  PROVE  /\ WakeTime(t) \in Ticks
         /\ \/ xTickCount < WakeTime(t) /\ WakeTime(t) = xTickCount + Delay[t]
            \/ /\ WakeTime(t) < xTickCount
               /\ WakeTime(t) + TickRange = xTickCount + Delay[t]
  <1> DEFINE x == xTickCount
             d == Delay[t]
             w == WakeTime(t)
  <1>1. /\ x \in 0 .. MaxDelay /\ d \in 1 .. MaxDelay
        /\ MaxDelay \in Nat /\ TickRange = MaxDelay + 1 /\ Ticks = 0 .. MaxDelay
    BY TickAssumption, TickFacts
  <1>2. w = (x + d) % TickRange
    BY DEF WakeTime
  <1> HIDE DEF x, d, w
  <1>3. CASE x + d < TickRange
    <2>1. w = x + d
      BY <1>1, <1>2, <1>3
    <2> QED BY <1>1, <1>3, <2>1 DEF x, d, w
  <1>4. CASE x + d >= TickRange
    <2>1. w = x + d - TickRange
      BY <1>1, <1>2, <1>4
    <2> QED BY <1>1, <1>4, <2>1 DEF x, d, w
  <1> QED BY <1>1, <1>3, <1>4

\* vListInsert of a task that is in none of the delayed lists.
LEMMA InsertDelayed ==
  ASSUME NEW list, DelayedList(list), NEW t \in AppTasks, NEW wake \in Ticks,
         ~InList(list, t)
  PROVE  LET q == Insert(list, [task |-> t, wake |-> wake])
         IN /\ DelayedList(q)
            /\ \A u : InList(q, u) <=> InList(list, u) \/ u = t
            /\ Range(q) = Range(list) \cup {[task |-> t, wake |-> wake]}
            /\ FirstWake(q) = IF wake < FirstWake(list) THEN wake ELSE FirstWake(list)
  <1> DEFINE e == [task |-> t, wake |-> wake]
             q == Insert(list, e)
  <1>1. e \in Entries /\ e.task = t /\ e.wake = wake
    BY TaskFacts DEF Entries
  <1> HIDE DEF e
  <1>2. list \in Seq(Entries) /\ Sorted(list) /\ OneEach(list) /\ ~InList(list, e.task)
    BY <1>1 DEF DelayedList
  <1>3. /\ q \in Seq(Entries) /\ Range(q) = Range(list) \cup {e}
        /\ Sorted(q) /\ OneEach(q)
        /\ FirstWake(q) = IF wake < FirstWake(list) THEN wake ELSE FirstWake(list)
    BY <1>1, <1>2, InsertFacts
  <1> HIDE DEF q
  <1>4. DelayedList(q)
    BY <1>1, <1>3 DEF DelayedList
  <1>5. \A u : InList(q, u) <=> InList(list, u) \/ u = t
    BY <1>1, <1>3, InListRange
  <1> QED BY <1>3, <1>4, <1>5 DEF q, e

LEMMA BlockStep ==
  ASSUME KernelInv, NEW t \in Tasks, Block(t)
  PROVE  KernelInv'
  <1> USE DEF heapVars, cpuVars, tickVars
  <1>1. /\ phase = "running" /\ tick = "no" /\ pxCurrentTCB = t /\ pc[t] = "locked"
        /\ pc' = [pc EXCEPT ![t] = "blocked"]
        /\ pc'[t] = "blocked" /\ \A u \in Tasks \ {t} : pc'[u] = pc[u]
        /\ pc' \in [Tasks -> Places]
        /\ t # Idle
        /\ UNCHANGED <<phase, created, heapSize, xNextFreeByte, pxCurrentTCB, cpu,
             context, xYieldPending, xTickCount, uxSchedulerSuspended,
             xPendedTicks, tick, xSwitchRequired>>
    BY RunningFacts DEF Block, At, GoTo, KernelInv, TypeOK, Places
  <1>2. IsReady(t)
    BY <1>1 DEF KernelInv, Running
  <1>3. Rings' /\ \A u \in Tasks : IsReady(u)' <=> IsReady(u) /\ u # t
    BY <1>2, RemoveFacts DEF Block, KernelInv
  <1>4. ~InList(delayed, t) /\ ~InList(overflow, t) /\ t \notin suspended
    BY <1>2 DEF KernelInv, NoneTwice, IsDelayed
  <1>5. DelayedList(delayed) /\ DelayedList(overflow) /\ xTickCount \in Ticks
    BY DEF KernelInv, Lists, TypeOK
  \* What the lists are afterwards.
  <1> DEFINE e == [task |-> t, wake |-> WakeTime(t)]
  <1>6. \/ /\ t = Timer /\ suspended' = suspended \cup {t}
           /\ UNCHANGED <<delayed, overflow, xNextTaskUnblockTime>>
        \/ /\ t \in AppTasks /\ e.wake < xTickCount
           /\ overflow' = Insert(overflow, e)
           /\ UNCHANGED <<delayed, suspended, xNextTaskUnblockTime>>
        \/ /\ t \in AppTasks /\ e.wake > xTickCount
           /\ delayed' = Insert(delayed, e)
           /\ xNextTaskUnblockTime' = IF e.wake < xNextTaskUnblockTime
                                        THEN e.wake ELSE xNextTaskUnblockTime
           /\ UNCHANGED <<overflow, suspended>>
    <2>1. CASE t = Timer
      BY <2>1 DEF Block
    <2>2. CASE t # Timer
      <3>1. t \in AppTasks
        BY <2>2, <1>1 DEF Tasks
      <3>2. WakeTime(t) < xTickCount \/ WakeTime(t) > xTickCount
        BY <3>1, <1>5, WakeTimeFacts
      <3>3. /\ WakeTime(t) \in Nat /\ xTickCount \in Nat
        BY <3>1, <1>5, WakeTimeFacts, TickFacts
      <3>4. AddToDelayed(t) /\ UNCHANGED suspended
        BY <2>2 DEF Block
      <3>5. CASE WakeTime(t) < xTickCount
        BY <3>1, <3>4, <3>5 DEF AddToDelayed
      <3>6. CASE WakeTime(t) > xTickCount
        <4>1. ~(WakeTime(t) < xTickCount)
          BY <3>3, <3>6
        <4> QED BY <3>1, <3>4, <3>6, <4>1 DEF AddToDelayed
      <3> QED BY <3>2, <3>5, <3>6
    <2> QED BY <2>1, <2>2
  <1>7. e.wake = WakeTime(t) /\ (t \in AppTasks => e.wake \in Ticks)
    BY <1>5, WakeTimeFacts
  <1>8. t \in AppTasks =>
          /\ DelayedList(Insert(delayed, e)) /\ DelayedList(Insert(overflow, e))
          /\ \A u : InList(Insert(delayed, e), u) <=> InList(delayed, u) \/ u = t
          /\ \A u : InList(Insert(overflow, e), u) <=> InList(overflow, u) \/ u = t
          /\ Range(Insert(delayed, e)) = Range(delayed) \cup {e}
          /\ Range(Insert(overflow, e)) = Range(overflow) \cup {e}
          /\ FirstWake(Insert(delayed, e)) =
               IF e.wake < FirstWake(delayed) THEN e.wake ELSE FirstWake(delayed)
    <2> SUFFICES ASSUME t \in AppTasks
                 PROVE  /\ DelayedList(Insert(delayed, e))
                        /\ DelayedList(Insert(overflow, e))
                        /\ \A u : InList(Insert(delayed, e), u)
                                    <=> InList(delayed, u) \/ u = t
                        /\ \A u : InList(Insert(overflow, e), u)
                                    <=> InList(overflow, u) \/ u = t
                        /\ Range(Insert(delayed, e)) = Range(delayed) \cup {e}
                        /\ Range(Insert(overflow, e)) = Range(overflow) \cup {e}
                        /\ FirstWake(Insert(delayed, e)) =
                             IF e.wake < FirstWake(delayed) THEN e.wake
                                                         ELSE FirstWake(delayed)
      OBVIOUS
    <2>1. WakeTime(t) \in Ticks
      BY <1>5, WakeTimeFacts
    <2> QED BY <1>4, <1>5, <1>7, <2>1, InsertDelayed
  <1> HIDE DEF e
  <1>9. xNextTaskUnblockTime \in Ticks /\ xNextTaskUnblockTime = FirstWake(delayed)
    BY <1>1 DEF KernelInv, TypeOK, Times
  <1>10. Lists'
    BY <1>5, <1>6, <1>8 DEF KernelInv, Lists
  <1>11. TypeOK'
    <2>1. xNextTaskUnblockTime' \in Ticks
      BY <1>6, <1>7, <1>9
    <2>2. delayed' \in Seq(Entries) /\ overflow' \in Seq(Entries)
          /\ suspended' \subseteq Tasks
      BY <1>10, TaskFacts DEF Lists, DelayedList
    <2> QED BY <1>1, <1>3, <2>1, <2>2 DEF KernelInv, TypeOK, Rings
  <1>12. \A u \in Tasks : u # t =>
           /\ IsDelayed(u)' <=> IsDelayed(u)
           /\ InList(delayed', u) <=> InList(delayed, u)
           /\ InList(overflow', u) <=> InList(overflow, u)
           /\ u \in suspended' <=> u \in suspended
    BY <1>6, <1>8 DEF IsDelayed
  <1>13. /\ ~(InList(delayed', t) /\ InList(overflow', t))
         /\ IsDelayed(t)' \/ t \in suspended'
         /\ t \in suspended' => ~IsDelayed(t)'
    BY <1>4, <1>6, <1>8 DEF IsDelayed
  <1>14. NoneTwice'
    BY <1>3, <1>12, <1>13 DEF KernelInv, NoneTwice
  <1>15. Times'
    BY <1>1, <1>6, <1>7, <1>8, <1>9 DEF KernelInv, Times
  <1>16. Booting'
    BY <1>1 DEF Booting
  <1>17. Running'
    <2>1. \A u \in Tasks : IsReady(u)' \/ IsDelayed(u)' \/ u \in suspended'
      BY <1>1, <1>3, <1>12, <1>13 DEF KernelInv, Running
    <2>2. /\ pc'[Idle] = "run"
          /\ \A u \in Tasks \ {t} : pc'[u] \in {"run", "leave", "yield"}
      BY <1>1, RunningFacts, TaskFacts
    <2>3. uxSchedulerSuspended
      BY <1>1 DEF KernelInv, Running
    <2> QED BY <1>1, <2>1, <2>2, <2>3 DEF Running
  <1>18. Foremost'
    BY <1>1 DEF Foremost
  <1>19. MaskIsPrivate'
    BY <1>1 DEF KernelInv, MaskIsPrivate
  <1> QED BY <1>3, <1>10, <1>11, <1>14, <1>15, <1>16, <1>17, <1>18, <1>19 DEF KernelInv

\* pvPortMalloc and xTaskCreate: a creation succeeds only with room for a
\* stack, and one that fails leaves less than that, whatever it has taken; the
\* queue of the timer task comes before its stack.
LEMMA AllocatedFacts ==
  ASSUME TypeOK, NEW t \in Tasks
  PROVE  /\ TcbTaken(t) \in Nat
         /\ Allocated(t) => xNextFreeByte + StackBytes < heapSize
         /\ t # Timer /\ ~Allocated(t) => heapSize <= TcbTaken(t) + StackBytes
  <1>1. /\ heapSize \in Nat /\ xNextFreeByte \in Nat
        /\ StackBytes \in Nat /\ TcbBytes \in Nat /\ QueueBytes \in Nat
        /\ TcbBytes > 0 /\ StackBytes > 0 /\ TcbBytes <= StackBytes
    BY HeapAssumption DEF TypeOK
  <1> DEFINE q == QueueTaken(t)
             s == StackTaken(t)
             b == TcbTaken(t)
  <1>2. /\ q \in Nat /\ xNextFreeByte <= q
        /\ t # Timer => q = xNextFreeByte
    BY <1>1 DEF QueueTaken, Malloc
  <1>3. \/ s = q /\ (t # Timer => heapSize <= q + StackBytes)
        \/ s = q + StackBytes /\ s < heapSize
    BY <1>1, <1>2 DEF StackTaken, Malloc
  <1>4. \/ b = s /\ (s = q \/ heapSize <= s + TcbBytes)
        \/ s # q /\ b = s + TcbBytes /\ b < heapSize
    <2>1. b = IF s = q THEN s ELSE Malloc(s, TcbBytes)
      BY DEF TcbTaken
    <2> HIDE DEF q, s, b
    <2>2. s \in Nat
      BY <1>1, <1>2, <1>3
    <2> QED BY <1>1, <2>1, <2>2 DEF Malloc
  <1>5. Allocated(t) <=> s # q /\ b # s
    BY DEF Allocated
  <1> HIDE DEF q, s, b
  <1>6. s \in Nat /\ b \in Nat
    BY <1>1, <1>2, <1>3, <1>4
  <1>7. Allocated(t) => xNextFreeByte + StackBytes < heapSize
    BY <1>1, <1>2, <1>3, <1>5, <1>6
  <1>8. ASSUME t # Timer, ~Allocated(t) PROVE heapSize <= b + StackBytes
    BY <1>1, <1>2, <1>3, <1>4, <1>5, <1>6, <1>8
  <1> QED BY <1>6, <1>7, <1>8 DEF b

LEMMA OrderFacts ==
  /\ Len(CreateOrder) \in Nat /\ DOMAIN CreateOrder = 1 .. Len(CreateOrder)
  /\ \A i \in 1 .. Len(CreateOrder) : CreateOrder[i] \in Tasks
  <1>1. CreateOrder \in Seq(Tasks)
    BY TaskAssumption
  <1> QED BY <1>1, LenProperties, ElementOfSeq

LEMMA CreateTaskStep ==
  ASSUME KernelInv, NEW t \in Tasks, CreateTask(t)
  PROVE  KernelInv'
  <1> DEFINE k == created + 1
             n == Len(CreateOrder)
  <1> USE DEF taskLists, timeVars, tickVars
  <1>1. /\ phase = "boot" /\ created \in Nat /\ n \in Nat /\ created < n
        /\ k \in 1 .. n /\ CreateOrder[k] = t /\ created' = k
        /\ xNextFreeByte' = TcbTaken(t) /\ TcbTaken(t) \in Nat
        /\ tick = "no" /\ delayed = << >> /\ overflow = << >> /\ suspended = {}
        /\ UNCHANGED <<heapSize, pc, cpu, context, xYieldPending, delayed,
             overflow, suspended, xTickCount, xNextTaskUnblockTime,
             uxSchedulerSuspended, xPendedTicks, tick, xSwitchRequired>>
    BY OrderFacts, AllocatedFacts DEF CreateTask, KernelInv, TypeOK, Booting
  <1>2. ~IsReady(t)
    <2> SUFFICES ASSUME IsReady(t) PROVE FALSE
      OBVIOUS
    <2>1. PICK i \in 1 .. created : CreateOrder[i] = t
      BY <1>1 DEF KernelInv, Booting
    <2>2. i \in 1 .. n /\ i # k
      BY <1>1
    <2> QED BY <1>1, <2>1, <2>2, TaskAssumption, OrderFacts
  <1>3. Lists'
    BY <1>1 DEF KernelInv, Lists
  <1>4. Times'
    BY <1>1 DEF KernelInv, Times
  <1>5. \A u : ~InList(delayed', u) /\ ~InList(overflow', u) /\ u \notin suspended'
    BY <1>1, EmptyList
  <1>6. NoneTwice'
    BY <1>5 DEF NoneTwice, IsDelayed
  <1>7. phase' \in {"boot", "off"}
    BY <1>1 DEF CreateTask
  <1>8. Running' /\ Foremost' /\ MaskIsPrivate'
    BY <1>7 DEF Running, Foremost, MaskIsPrivate
  <1>9. created' \in 0 .. n
    BY <1>1
  <1>10. CASE Allocated(t)
    <2>1. /\ AddToReady(t) /\ phase' = "boot"
          /\ pxCurrentTCB' = IF BecomesCurrent(t) THEN t ELSE pxCurrentTCB
      BY <1>1, <1>10 DEF CreateTask
    <2>2. Rings' /\ \A u \in Tasks : IsReady(u)' <=> IsReady(u) \/ u = t
      BY <1>2, <2>1, AddToReadyFacts DEF KernelInv
    <2>3. TypeOK'
      BY <1>1, <1>9, <2>1, <2>2 DEF KernelInv, TypeOK, Rings
    <2>4. xNextFreeByte + StackBytes < heapSize
      BY <1>10, AllocatedFacts DEF KernelInv
    <2>5. \A i \in 1 .. created : IsReady(CreateOrder[i])
      <3>1. ~(heapSize <= xNextFreeByte + StackBytes)
        BY <2>4, HeapAssumption DEF KernelInv, TypeOK
      <3> QED BY <1>1, <3>1 DEF KernelInv, Booting
    <2>6. \A i \in 1 .. created' : IsReady(CreateOrder[i])'
      <3> SUFFICES ASSUME NEW i \in 1 .. created' PROVE IsReady(CreateOrder[i])'
        OBVIOUS
      <3>1. i = k \/ i \in 1 .. created
        BY <1>1
      <3>2. CreateOrder[i] \in Tasks
        BY <1>1, OrderFacts
      <3> QED BY <1>1, <2>2, <2>5, <3>1, <3>2
    <2>7. \A u \in Tasks : IsReady(u)' => \E i \in 1 .. created' : CreateOrder[i] = u
      <3> SUFFICES ASSUME NEW u \in Tasks, IsReady(u)'
                   PROVE  \E i \in 1 .. created' : CreateOrder[i] = u
        OBVIOUS
      <3>1. CASE u = t
        BY <1>1, <3>1
      <3>2. CASE u # t
        <4>1. PICK i \in 1 .. created : CreateOrder[i] = u
          BY <1>1, <2>2, <3>2 DEF KernelInv, Booting
        <4>2. i \in 1 .. created'
          BY <1>1
        <4> QED BY <4>1, <4>2
      <3> QED BY <3>1, <3>2
    <2>8. /\ pxCurrentTCB' \in Tasks /\ IsReady(pxCurrentTCB)'
          /\ \A u \in Tasks : IsReady(u)' => Priority[u] <= Priority[pxCurrentTCB']
      <3>1. \A u \in Tasks : Priority[u] \in Nat
        BY PriorityFacts
      <3>2. pxCurrentTCB \in Tasks \cup {End}
        BY DEF KernelInv, TypeOK
      <3>3. \A u \in Tasks : IsReady(u) =>
              /\ pxCurrentTCB # End
              /\ Priority[u] <= Priority[pxCurrentTCB]
        BY <1>1 DEF KernelInv, Booting
      <3>4. CASE BecomesCurrent(t)
        <4>1. pxCurrentTCB' = t /\ IsReady(pxCurrentTCB)'
          BY <2>1, <2>2, <3>4 DEF IsReady
        <4>2. ASSUME NEW u \in Tasks, IsReady(u)' PROVE Priority[u] <= Priority[t]
          <5>1. CASE u = t
            BY <3>1, <5>1
          <5>2. CASE u # t
            <6>1. pxCurrentTCB \in Tasks /\ Priority[u] <= Priority[pxCurrentTCB]
              BY <2>2, <3>2, <3>3, <4>2, <5>2
            <6>2. Priority[pxCurrentTCB] <= Priority[t]
              BY <3>4, <6>1, TaskFacts DEF BecomesCurrent
            <6> QED BY <3>1, <6>1, <6>2
          <5> QED BY <5>1, <5>2
        <4> QED BY <4>1, <4>2
      <3>5. CASE ~BecomesCurrent(t)
        <4>1. /\ pxCurrentTCB' = pxCurrentTCB /\ pxCurrentTCB # End
              /\ pxCurrentTCB \in Tasks
              /\ ~(Priority[pxCurrentTCB] <= Priority[t])
          BY <2>1, <3>2, <3>5 DEF BecomesCurrent
        <4>2. Priority[t] <= Priority[pxCurrentTCB]
          BY <3>1, <4>1
        <4>3. IsReady(pxCurrentTCB)
          BY <1>1, <4>1 DEF KernelInv, Booting
        <4>4. IsReady(pxCurrentTCB)'
          BY <2>2, <4>1, <4>3 DEF IsReady
        <4> QED BY <2>2, <3>3, <4>1, <4>2, <4>4
      <3> QED BY <3>4, <3>5
    <2>9. Booting'
      BY <1>1, <2>1, <2>6, <2>7, <2>8, TaskFacts DEF KernelInv, Booting
    <2> QED BY <1>3, <1>4, <1>6, <1>8, <2>2, <2>3, <2>9 DEF KernelInv
  <1>11. CASE ~Allocated(t)
    <2>1. /\ phase' = IF Vital(t) THEN "off" ELSE "boot"
          /\ UNCHANGED <<ready, uxTopReadyPriority, pxCurrentTCB>>
      BY <1>1, <1>11 DEF CreateTask
    <2>2. TypeOK'
      BY <1>1, <1>9, <2>1 DEF KernelInv, TypeOK
    <2>3. Rings' /\ \A u : IsReady(u)' <=> IsReady(u)
      BY <2>1 DEF KernelInv, Rings, IsReady
    <2>4. Booting'
      <3>1. CASE Vital(t)
        BY <1>1, <2>1, <3>1 DEF Booting
      <3>2. CASE ~Vital(t)
        <4>1. t # Timer
          BY <3>2 DEF Vital
        <4>2. k # n
          BY <1>1, <4>1, TaskAssumption
        <4>3. created' < n /\ heapSize' <= xNextFreeByte' + StackBytes
          BY <1>1, <1>11, <4>1, <4>2, AllocatedFacts DEF KernelInv
        <4>4. \A u \in Tasks : IsReady(u)' => \E i \in 1 .. created' : CreateOrder[i] = u
          <5> SUFFICES ASSUME NEW u \in Tasks, IsReady(u)
                       PROVE  \E i \in 1 .. created' : CreateOrder[i] = u
            BY <2>3
          <5>1. PICK i \in 1 .. created : CreateOrder[i] = u
            BY <1>1 DEF KernelInv, Booting
          <5>2. i \in 1 .. created'
            BY <1>1
          <5> QED BY <5>1, <5>2
        <4> QED BY <1>1, <2>1, <2>3, <4>3, <4>4 DEF KernelInv, Booting, IsReady
      <3> QED BY <3>1, <3>2
    <2> QED BY <1>3, <1>4, <1>6, <1>8, <2>2, <2>3, <2>4 DEF KernelInv
  <1> QED BY <1>10, <1>11

LEMMA StartSchedulerStep ==
  ASSUME KernelInv, StartScheduler
  PROVE  KernelInv'
  <1> USE DEF taskLists, timeVars, tickVars
  <1>1. /\ phase = "boot" /\ created = Len(CreateOrder) /\ phase' = "running"
        /\ cpu' = context[pxCurrentTCB]
        /\ UNCHANGED <<created, heapSize, xNextFreeByte, pc, pxCurrentTCB,
             context, xYieldPending, ready, uxTopReadyPriority, delayed,
             overflow, suspended, xTickCount, xNextTaskUnblockTime,
             uxSchedulerSuspended, xPendedTicks, tick, xSwitchRequired>>
    BY DEF StartScheduler
  <1>2. /\ tick = "no" /\ ~uxSchedulerSuspended /\ xPendedTicks = 0
        /\ \A t \in Tasks : pc[t] = "run" /\ context[t] = Open
        /\ \A i \in 1 .. created : IsReady(CreateOrder[i])
        /\ \A t \in Tasks : IsReady(t) =>
             /\ pxCurrentTCB # End
             /\ Priority[t] <= Priority[pxCurrentTCB]
    BY <1>1, OrderFacts DEF KernelInv, Booting
  <1>3. \A t \in Tasks : IsReady(t)
    BY <1>1, <1>2, TaskAssumption, OrderFacts
  <1>4. pxCurrentTCB \in Tasks
    BY <1>2, <1>3, TaskFacts DEF KernelInv, TypeOK
  <1>5. TypeOK'
    BY <1>1, <1>2, <1>4 DEF KernelInv, TypeOK
  <1>6. Rings' /\ Lists' /\ NoneTwice'
    BY <1>1 DEF KernelInv, Rings, Lists, NoneTwice, IsReady, IsDelayed
  <1>7. Times' /\ Booting'
    BY <1>1 DEF KernelInv, Times, Booting
  <1>8. \A t \in Tasks : IsReady(t)'
    BY <1>1, <1>3 DEF IsReady
  <1>9. Running'
    BY <1>1, <1>2, <1>4, <1>8, TaskFacts DEF Running
  <1>10. Foremost'
    BY <1>1, <1>2, <1>3 DEF Foremost
  <1>11. MaskIsPrivate'
    BY <1>1, <1>2, <1>4 DEF MaskIsPrivate
  <1> QED BY <1>5, <1>6, <1>7, <1>9, <1>10, <1>11 DEF KernelInv

LEMMA InitInv == Init => KernelInv
  <1> SUFFICES ASSUME Init PROVE KernelInv
    OBVIOUS
  <1> DEFINE ring == <<End>>
  <1>1. Ring(ring) /\ Range(ring) = {End} /\ Len(ring) = 1 /\ ring \in Seq(Tasks \cup {End})
    BY DEF Ring, Distinct, Range
  <1> HIDE DEF ring
  <1>2. ready = [p \in Priorities |-> ring]
    BY DEF Init, ring
  <1>3. Rings
    BY <1>1, <1>2 DEF Init, Rings
  <1>4. \A t \in Tasks : ~IsReady(t)
    BY <1>1, <1>2, PriorityFacts, TaskFacts, ReadyInRing
  <1>5. \A t : ~InList(delayed, t) /\ ~InList(overflow, t) /\ t \notin suspended
    BY EmptyList DEF Init
  <1>6. Lists /\ NoneTwice
    BY <1>4, <1>5, EmptyList DEF Init, Lists, NoneTwice, IsDelayed
  <1>7. Times
    BY EmptyList DEF Init, Times, FirstWake
  <1>8. TypeOK
    <2>1. 0 \in 0 .. Len(CreateOrder) /\ 0 \in 0 .. MaxPended
      BY OrderFacts, TickAssumption
    <2>2. 0 \in Ticks /\ MaxDelay \in Ticks
      BY TickFacts
    <2>3. delayed \in Seq(Entries) /\ overflow \in Seq(Entries)
      BY <1>6 DEF Lists, DelayedList
    <2> QED BY <1>3, <2>1, <2>2, <2>3 DEF Init, TypeOK, Rings, Places
  <1>9. Booting
    BY <1>4 DEF Init, Booting
  <1>10. Running /\ Foremost /\ MaskIsPrivate
    BY DEF Init, Running, Foremost, MaskIsPrivate
  <1> QED BY <1>3, <1>6, <1>7, <1>8, <1>9, <1>10 DEF KernelInv

LEMMA NextInv == KernelInv /\ [Next]_vars => KernelInv'
  <1> SUFFICES ASSUME KernelInv, [Next]_vars PROVE KernelInv'
    OBVIOUS
  <1>1. CASE StartUp
    BY <1>1, CreateTaskStep, StartSchedulerStep DEF StartUp
  <1>2. ASSUME NEW t \in Tasks, TaskStep(t) PROVE KernelInv'
    BY <1>2, SuspendAllStep, BlockStep, ResumeAllStep, UnwindTickStep,
       EndUnwindStep, ExitCriticalStep, YieldWithinApiStep DEF TaskStep
  <1>3. CASE PendTick
    BY <1>3, PendTickStep
  <1>4. CASE TickHandler
    BY <1>4, TickInterruptStep, UnblockHeadStep, EndScanStep, EndTickStep
    DEF TickHandler
  <1>5. CASE UNCHANGED vars
    <2> USE <1>5 DEF vars, heapVars, cpuVars, taskLists, timeVars, tickVars
    <2>1. TypeOK' /\ Times'
      BY DEF KernelInv, TypeOK, Times
    <2>2. Rings' /\ Lists' /\ NoneTwice'
      BY DEF KernelInv, Rings, Lists, NoneTwice, IsReady, IsDelayed
    <2>3. Booting'
      BY DEF KernelInv, Booting, IsReady
    <2>4. Running' /\ Foremost'
      BY DEF KernelInv, Running, Foremost, IsReady, IsDelayed
    <2>5. MaskIsPrivate'
      BY DEF KernelInv, MaskIsPrivate
    <2> QED BY <2>1, <2>2, <2>3, <2>4, <2>5 DEF KernelInv
  <1> QED BY <1>1, <1>2, <1>3, <1>4, <1>5 DEF Next, Off

LEMMA InvHolds == Spec => []KernelInv
  BY InitInv, NextInv, PTL DEF Spec

-----------------------------------------------------------------------------
(* Theorems.                                                               *)

\* The variables keep their types: the tick counter wraps, priorities and
\* lists exist, no task but the timer task blocks for good.
THEOREM TypeCorrect == Spec => []TypeOK
  <1>1. KernelInv => TypeOK
    BY DEF KernelInv
  <1> QED BY <1>1, InvHolds, PTL

\* Whatever the heap, the scheduler runs with all tasks or not at all, and no
\* list operation loses a task or puts it into two lists or twice into one.
THEOREM NoTaskIsLost == Spec => []EveryTaskListed
  <1>1. KernelInv => EveryTaskListed
    <2> SUFFICES ASSUME KernelInv, phase = "running" PROVE EveryTaskListed
      BY DEF EveryTaskListed
    <2>1. \A t \in Tasks :
            /\ IsReady(t) \/ IsDelayed(t) \/ t \in suspended
            /\ ~(IsReady(t) /\ IsDelayed(t))
            /\ ~(InList(delayed, t) /\ InList(overflow, t))
            /\ t \in suspended => ~IsReady(t) /\ ~IsDelayed(t)
      BY DEF KernelInv, NoneTwice, Running
    <2>2. \A p \in Priorities : Distinct(ready[p])
      BY DEF KernelInv, Rings, Ring
    <2>3. OneEach(delayed) /\ OneEach(overflow)
      BY DEF KernelInv, Lists, DelayedList
    <2> QED BY <2>1, <2>2, <2>3 DEF EveryTaskListed, Distinct, OneEach
  <1> QED BY <1>1, InvHolds, PTL

\* No ready task of a higher priority waits for the task that runs.
THEOREM HighestPriorityRuns == Spec => []HighestRuns
  <1>1. KernelInv => HighestRuns
    BY DEF KernelInv, HighestRuns, Running, Foremost
  <1> QED BY <1>1, InvHolds, PTL

\* The interrupt mask a task leaves behind in the kernel is its own.
THEOREM MasksArePrivate == Spec => []MaskIsPrivate
  <1>1. KernelInv => MaskIsPrivate
    BY DEF KernelInv
  <1> QED BY <1>1, InvHolds, PTL

-----------------------------------------------------------------------------
(* Kernel implements TaskDelay: each of its steps is a step of the promise *)
(* or leaves what the promise is about alone.  A delayed entry is due      *)
(* after the tick count, one of the overflow list before it, and the ticks *)
(* that are pended are made up for before the kernel lets any task go on.  *)
(*                                                                         *)
(* First: the ticks that remain.                                           *)

\* The wake time of a task that is in a list once.
LEMMA WakeInFacts ==
  ASSUME NEW list, OneEach(list), NEW e \in Range(list)
  PROVE  WakeIn(list, e.task) = e.wake /\ InList(list, e.task)
  <1>1. PICK i \in DOMAIN list : list[i] = e
    BY DEF Range
  <1>2. \A j \in DOMAIN list : list[j].task = e.task => j = i
    BY <1>1 DEF OneEach
  <1>3. (CHOOSE j \in DOMAIN list : list[j].task = e.task) = i
    BY <1>1, <1>2
  <1> QED BY <1>1, <1>3 DEF WakeIn, InList

\* Two lists agree on the wake time of a task they hold with the same entry.
LEMMA SameWakeIn ==
  ASSUME NEW list, NEW q, OneEach(list), OneEach(q), NEW t, InList(list, t),
         \A e \in Range(list) : e.task = t => e \in Range(q)
  PROVE  WakeIn(q, t) = WakeIn(list, t) /\ InList(q, t)
  <1>1. PICK e \in Range(list) : e.task = t
    BY InListRange
  <1> QED BY <1>1, WakeInFacts

\* How the entries tell the ticks that are still to come.
LEMMA RemainingOfEntries ==
  ASSUME KernelInv
  PROVE  /\ \A e \in Range(delayed) : Remaining(e.task) = e.wake - xTickCount
         /\ \A e \in Range(overflow) :
              Remaining(e.task) = e.wake + TickRange - xTickCount
  <1>1. OneEach(delayed) /\ OneEach(overflow)
    BY DEF KernelInv, Lists, DelayedList
  <1>2. ASSUME NEW e \in Range(delayed)
        PROVE  Remaining(e.task) = e.wake - xTickCount
    BY <1>1, WakeInFacts DEF Remaining
  <1>3. ASSUME NEW e \in Range(overflow)
        PROVE  Remaining(e.task) = e.wake + TickRange - xTickCount
    <2>1. e.task \in AppTasks /\ InList(overflow, e.task)
      BY InListRange DEF KernelInv, Lists, DelayedList
    <2>2. ~InList(delayed, e.task)
      BY <2>1, TaskFacts DEF KernelInv, NoneTwice
    <2> QED BY <1>1, <2>2, WakeInFacts DEF Remaining
  <1> QED BY <1>2, <1>3

\* A delayed task has ticks to come, except when the scan is about to find it.
RemainingInv ==
  \A t \in AppTasks :
    /\ Remaining(t) \in Nat
    /\ IsDelayed(t) /\ tick # "scan" => Remaining(t) >= 1
    /\ ~IsDelayed(t) =>
         Remaining(t) = IF pc[t] = "locked" THEN Delay[t] ELSE 0

LEMMA RemainingFacts == KernelInv => RemainingInv
  <1> SUFFICES ASSUME KernelInv, NEW t \in AppTasks
               PROVE  /\ Remaining(t) \in Nat
                      /\ IsDelayed(t) /\ tick # "scan" => Remaining(t) >= 1
                      /\ ~IsDelayed(t) =>
                           Remaining(t) = IF pc[t] = "locked" THEN Delay[t] ELSE 0
    BY DEF RemainingInv
  <1>1. /\ xTickCount \in 0 .. MaxDelay /\ MaxDelay \in Nat
        /\ TickRange = MaxDelay + 1 /\ Delay[t] \in 1 .. MaxDelay
    BY TickFacts, TickAssumption DEF KernelInv, TypeOK
  <1>2. CASE InList(delayed, t)
    <2>1. PICK e \in Range(delayed) : e.task = t
      BY <1>2, InListRange
    <2>2. e \in Entries /\ e.wake \in Nat
      BY FirstWakeFacts, TickFacts DEF KernelInv, Lists
    <2>3. Remaining(t) = e.wake - xTickCount
      BY <2>1, RemainingOfEntries
    <2>4. IF tick = "scan" THEN xTickCount <= e.wake ELSE xTickCount < e.wake
      BY DEF KernelInv, Times
    <2> QED BY <1>1, <1>2, <2>2, <2>3, <2>4 DEF IsDelayed
  <1>3. CASE InList(overflow, t)
    <2>1. PICK e \in Range(overflow) : e.task = t
      BY <1>3, InListRange
    <2>2. e \in Entries /\ e.wake \in Nat
      BY FirstWakeFacts, TickFacts DEF KernelInv, Lists
    <2>3. Remaining(t) = e.wake + TickRange - xTickCount
      BY <2>1, RemainingOfEntries
    <2> QED BY <1>1, <1>3, <2>2, <2>3 DEF IsDelayed
  <1>4. CASE ~IsDelayed(t)
    BY <1>1, <1>4 DEF Remaining, IsDelayed
  <1> QED BY <1>2, <1>3, <1>4 DEF IsDelayed

LEMMA RemainingFactsNext == KernelInv' => RemainingInv'
  BY RemainingFacts, PTL

\* Nothing changes for a task as long as its entry, the tick count and
\* whether it is about to block stay as they are.
LEMMA SameRemaining ==
  ASSUME delayed' = delayed, overflow' = overflow, xTickCount' = xTickCount,
         NEW t, pc'[t] = "locked" <=> pc[t] = "locked"
  PROVE  Remaining(t)' = Remaining(t) /\ (IsDelayed(t)' <=> IsDelayed(t))
  BY DEF Remaining, IsDelayed

\* One tick later every delayed task has one tick less to wait.
LEMMA TickRemaining ==
  ASSUME KernelInv, tick = "no", IncrementTick, suspended' = suspended,
         ready' = ready, pc' = pc, NEW t \in AppTasks, pc[t] # "locked"
  PROVE  /\ IsDelayed(t)' <=> IsDelayed(t)
         /\ Remaining(t)' = IF IsDelayed(t) THEN Remaining(t) - 1 ELSE 0
  <1>1. IsDelayed(t)' <=> IsDelayed(t)
    BY IncrementTickLists
  <1>2. /\ \/ /\ delayed' = delayed /\ overflow' = overflow
              /\ xTickCount' = xTickCount + 1
           \/ /\ delayed = << >> /\ overflow' = << >> /\ delayed' = overflow
              /\ xTickCount = MaxDelay /\ xTickCount' = 0
        /\ xTickCount \in Nat /\ MaxDelay \in Nat /\ TickRange = MaxDelay + 1
        /\ OneEach(delayed) /\ OneEach(overflow)
    BY IncrementTickFacts, TickFacts DEF KernelInv, Lists, DelayedList, TypeOK
  <1>3. CASE ~IsDelayed(t)
    BY <1>1, <1>3 DEF Remaining, IsDelayed
  <1>4. CASE InList(delayed, t)
    <2>1. PICK e \in Range(delayed) : e.task = t
      BY <1>4, InListRange
    <2>2. e.wake \in Nat /\ Remaining(t) = e.wake - xTickCount
      BY <2>1, RemainingOfEntries, FirstWakeFacts, TickFacts DEF KernelInv, Lists
    <2>3. delayed # << >>
      BY <1>4, EmptyList
    <2>4. delayed' = delayed /\ xTickCount' = xTickCount + 1
      BY <1>2, <2>3
    <2>5. Remaining(t)' = e.wake - (xTickCount + 1)
      BY <1>2, <1>4, <2>1, <2>4, WakeInFacts DEF Remaining
    <2> QED BY <1>2, <1>4, <1>1, <2>2, <2>5 DEF IsDelayed
  <1>5. CASE InList(overflow, t)
    <2>1. PICK e \in Range(overflow) : e.task = t
      BY <1>5, InListRange
    <2>2. e.wake \in Nat /\ Remaining(t) = e.wake + TickRange - xTickCount
      BY <2>1, RemainingOfEntries, FirstWakeFacts, TickFacts DEF KernelInv, Lists
    <2>3. WakeIn(overflow, t) = e.wake
      BY <1>2, <2>1, WakeInFacts
    <2>4. ~InList(delayed, t)
      BY <1>5, TaskFacts DEF KernelInv, NoneTwice
    <2>5. CASE delayed' = delayed /\ overflow' = overflow /\ xTickCount' = xTickCount + 1
      <3>1. Remaining(t)' = e.wake + TickRange - (xTickCount + 1)
        BY <1>5, <2>3, <2>4, <2>5 DEF Remaining
      <3> QED BY <1>1, <1>2, <1>5, <2>2, <3>1 DEF IsDelayed
    <2>6. CASE delayed' = overflow /\ xTickCount = MaxDelay /\ xTickCount' = 0
      <3>1. Remaining(t)' = e.wake - 0
        BY <1>5, <2>3, <2>6 DEF Remaining
      <3> QED BY <1>1, <1>2, <1>5, <2>2, <2>6, <3>1 DEF IsDelayed
    <2> QED BY <1>2, <2>5, <2>6
  <1> QED BY <1>3, <1>4, <1>5 DEF IsDelayed

-----------------------------------------------------------------------------
(* The steps of the promise.                                               *)

\* A task that is about to block is the current one, outside any tick.
LEMMA LockedFacts ==
  ASSUME KernelInv, NEW t \in Tasks, pc[t] = "locked"
  PROVE  phase = "running" =>
           /\ t = pxCurrentTCB /\ tick = "no" /\ uxSchedulerSuspended
           /\ ~IsDelayed(t)
  <1> SUFFICES ASSUME phase = "running"
               PROVE  /\ t = pxCurrentTCB /\ tick = "no" /\ uxSchedulerSuspended
                      /\ ~IsDelayed(t)
    OBVIOUS
  <1>1. t = pxCurrentTCB
    BY RunningFacts
  <1> QED BY <1>1, RunningFacts DEF KernelInv, Running, NoneTwice

\* When no tick is pended what is left is what the entries tell.
LEMMA LeftFacts ==
  ASSUME KernelInv
  PROVE  /\ Left \in [AppTasks -> Nat]
         /\ \A t \in AppTasks :
              Left[t] = IF Remaining(t) > xPendedTicks
                          THEN Remaining(t) - xPendedTicks ELSE 0
         /\ xPendedTicks = 0 => \A t \in AppTasks : Left[t] = Remaining(t)
  <1>1. \A t \in AppTasks : Remaining(t) \in Nat
    BY RemainingFacts DEF RemainingInv
  <1>2. xPendedTicks \in Nat
    BY TickAssumption DEF KernelInv, TypeOK
  <1> QED BY <1>1, <1>2 DEF Left

\* Whatever leaves the entries and the tick count alone, and lets no task
\* begin to block or end it, is no step of the promise.
LEMMA NoStep ==
  ASSUME delayed' = delayed, overflow' = overflow, xTickCount' = xTickCount,
         xPendedTicks' = xPendedTicks, Busy' = Busy,
         \A t \in AppTasks : pc'[t] = "locked" <=> pc[t] = "locked"
  PROVE  UNCHANGED Promise!vars
  <1>1. \A t \in AppTasks :
          Remaining(t)' = Remaining(t) /\ (IsDelayed(t)' <=> IsDelayed(t))
    BY SameRemaining
  <1>2. Left' = Left
    BY <1>1 DEF Left
  <1>3. Awake' = Awake
    BY <1>1 DEF Awake
  <1> QED BY <1>2, <1>3 DEF Promise!vars

\* The kernel leaves when every task with ticks to come is asleep, and no
\* other one is.
LEMMA LeaveStep ==
  ASSUME KernelInv, tick # "scan", xPendedTicks = 0, Busy, ~Busy',
         delayed' = delayed, overflow' = overflow, xTickCount' = xTickCount,
         xPendedTicks' = xPendedTicks,
         \A t \in AppTasks : pc[t] # "locked" /\ pc'[t] # "locked"
  PROVE  Promise!Leave
  <1>1. \A t \in AppTasks :
          Remaining(t)' = Remaining(t) /\ (IsDelayed(t)' <=> IsDelayed(t))
    BY SameRemaining
  <1>2. Left' = Left /\ Awake' = Awake
    BY <1>1 DEF Left, Awake
  <1>3. ASSUME NEW t \in AppTasks PROVE t \in Awake <=> Left[t] = 0
    <2>1. Left[t] = Remaining(t) /\ Remaining(t) \in Nat
      BY LeftFacts, RemainingFacts DEF RemainingInv
    <2>2. CASE IsDelayed(t)
      BY <2>1, <2>2, RemainingFacts DEF RemainingInv, Awake
    <2>3. CASE ~IsDelayed(t)
      BY <2>1, <2>3, RemainingFacts DEF RemainingInv, Awake
    <2> QED BY <2>2, <2>3
  <1> QED BY <1>2, <1>3 DEF Promise!Leave

\* Outside the kernel nothing is busy.
LEMMA BusyFacts ==
  ASSUME KernelInv
  PROVE  /\ phase = "boot" => ~Busy
         /\ phase = "running" =>
              (Busy <=> \/ tick # "no"
                        \/ pc[pxCurrentTCB] \in {"locked", "blocked", "unwind"})
  BY DEF KernelInv, Booting, Running, Busy

LEMMA StartUpSimulates ==
  ASSUME KernelInv, StartUp
  PROVE  UNCHANGED Promise!vars
  <1> USE DEF taskLists, timeVars, tickVars
  <1>1. CASE \E t \in Tasks : CreateTask(t)
    <2>1. PICK t \in Tasks : CreateTask(t)
      BY <1>1
    <2>2. ~uxSchedulerSuspended /\ tick = "no" /\ phase = "boot"
      BY <2>1 DEF CreateTask, KernelInv, Booting
    <2>3. phase' # "running"
      BY <2>1 DEF CreateTask
    <2>4. Busy' = Busy
      BY <2>1, <2>2, <2>3 DEF CreateTask, Busy
    <2> QED BY <2>1, <2>4, NoStep DEF CreateTask
  <1>2. CASE StartScheduler
    <2>1. ~uxSchedulerSuspended /\ tick = "no" /\ phase = "boot"
      BY <1>2 DEF StartScheduler, KernelInv, Booting
    <2>2. pxCurrentTCB \in Tasks /\ pxCurrentTCB' = pxCurrentTCB
      BY <1>2, StartSchedulerStep DEF StartScheduler, KernelInv, Running
    <2>3. pc[pxCurrentTCB] = "run"
      BY <2>1, <2>2 DEF KernelInv, Booting
    <2>4. Busy' = Busy
      BY <1>2, <2>1, <2>2, <2>3 DEF StartScheduler, Busy
    <2> QED BY <1>2, <2>4, NoStep DEF StartScheduler
  <1> QED BY <1>1, <1>2 DEF StartUp

\* vTaskSuspendAll begins the delay: the caller was awake, and is still.
LEMMA SuspendAllSimulates ==
  ASSUME KernelInv, NEW t \in Tasks, SuspendAll(t)
  PROVE  IF t \in AppTasks THEN Promise!Call(t) ELSE Promise!Enter
  <1>1. /\ phase = "running" /\ tick = "no" /\ pxCurrentTCB = t /\ pc[t] = "run"
        /\ pc'[t] = "locked" /\ \A u \in Tasks \ {t} : pc'[u] = pc[u]
        /\ delayed' = delayed /\ overflow' = overflow
        /\ xTickCount' = xTickCount /\ xPendedTicks' = xPendedTicks
        /\ uxSchedulerSuspended'
    BY DEF SuspendAll, At, GoTo, KernelInv, TypeOK, taskLists, timeVars
  <1>2. ~Busy /\ Busy' /\ xPendedTicks = 0 /\ IsReady(t)
    BY <1>1, TickAssumption, BusyFacts DEF KernelInv, Running, TypeOK, Busy
  <1>3. \A u \in AppTasks : u # t => Remaining(u)' = Remaining(u)
    BY <1>1, TaskFacts, SameRemaining
  <1>4. \A u : IsDelayed(u)' <=> IsDelayed(u)
    BY <1>1 DEF IsDelayed
  <1>5. Awake' = Awake
    BY <1>4 DEF Awake
  <1>6. ~IsDelayed(t)'
    BY <1>2, <1>4 DEF KernelInv, NoneTwice
  <1>7. CASE t \in AppTasks
    <2>1. Delay[t] \in Nat /\ Delay[t] > 0
      BY <1>7, TickFacts, TickAssumption
    <2>2. RemainingInv'
      BY SuspendAllStep, RemainingFactsNext
    <2>3. Remaining(t)' = Delay[t]
      BY <1>1, <1>6, <1>7, <2>2 DEF RemainingInv
    <2>4. Left' = [Left EXCEPT ![t] = Delay[t]]
      <3>1. xPendedTicks' = 0
        BY <1>1, <1>2
      <3>2. ASSUME NEW u \in AppTasks
            PROVE  Left[u]' = IF u = t THEN Delay[t] ELSE Left[u]
        <4>1. CASE u = t
          BY <2>1, <2>3, <3>1, <4>1 DEF Left
        <4>2. CASE u # t
          BY <1>2, <1>3, <3>1, <4>2 DEF Left
        <4> QED BY <4>1, <4>2
      <3>3. Left \in [AppTasks -> Nat] /\ Left' = [u \in AppTasks |-> Left[u]']
        BY LeftFacts DEF Left
      <3> QED BY <1>7, <3>2, <3>3
    <2>5. t \in Awake
      BY <1>4, <1>6, <1>7 DEF Awake
    <2> QED BY <1>2, <1>5, <1>7, <2>4, <2>5 DEF Promise!Call
  <1>8. CASE t \notin AppTasks
    <2>1. Left' = Left
      BY <1>1, <1>3, <1>8 DEF Left
    <2> QED BY <1>2, <1>5, <1>8, <2>1 DEF Promise!Enter
  <1> QED BY <1>7, <1>8

\* The caller falls asleep with just the ticks it has asked for to come, in
\* whichever list its wake time puts it.
LEMMA BlockSimulates ==
  ASSUME KernelInv, NEW t \in Tasks, Block(t)
  PROVE  IF t \in AppTasks THEN Promise!FallAsleep(t)
                           ELSE UNCHANGED Promise!vars
  <1> DEFINE e == [task |-> t, wake |-> WakeTime(t)]
  <1>1. /\ phase = "running" /\ tick = "no" /\ pxCurrentTCB = t /\ pc[t] = "locked"
        /\ pc'[t] = "blocked" /\ \A u \in Tasks \ {t} : pc'[u] = pc[u]
        /\ xTickCount' = xTickCount /\ xPendedTicks' = xPendedTicks
        /\ uxSchedulerSuspended' = uxSchedulerSuspended
        /\ t # Timer => AddToDelayed(t)
        /\ t = Timer => delayed' = delayed /\ overflow' = overflow
    BY DEF Block, At, GoTo, KernelInv, TypeOK
  <1>2. Busy /\ Busy' /\ IsReady(t) /\ ~IsDelayed(t) /\ t # Idle
    BY <1>1, RunningFacts, BusyFacts DEF KernelInv, Running, NoneTwice, Busy
  <1>3. CASE t \in AppTasks
    <2>1. t # Timer /\ xTickCount \in Ticks /\ xTickCount \in Nat
          /\ DelayedList(delayed) /\ DelayedList(overflow)
          /\ ~InList(delayed, t) /\ ~InList(overflow, t)
      BY <1>2, <1>3, TaskFacts, TickFacts DEF KernelInv, TypeOK, Lists, IsDelayed
    <2>2. /\ WakeTime(t) \in Ticks /\ WakeTime(t) \in Nat
          /\ Delay[t] \in Nat /\ TickRange \in Nat
          /\ \/ xTickCount < WakeTime(t) /\ WakeTime(t) = xTickCount + Delay[t]
             \/ /\ WakeTime(t) < xTickCount
                /\ WakeTime(t) + TickRange = xTickCount + Delay[t]
      BY <1>3, <2>1, WakeTimeFacts, TickFacts, TickAssumption
    <2>3. /\ DelayedList(Insert(delayed, e)) /\ DelayedList(Insert(overflow, e))
          /\ Range(Insert(delayed, e)) = Range(delayed) \cup {e}
          /\ Range(Insert(overflow, e)) = Range(overflow) \cup {e}
          /\ \A u : InList(Insert(delayed, e), u) <=> InList(delayed, u) \/ u = t
          /\ \A u : InList(Insert(overflow, e), u) <=> InList(overflow, u) \/ u = t
      BY <1>3, <2>1, <2>2, InsertDelayed
    <2>4. Remaining(t) = Delay[t]
      BY <1>1, <1>2 DEF Remaining, IsDelayed
    <2>5. /\ e.task = t /\ e.wake = WakeTime(t)
          /\ OneEach(delayed) /\ OneEach(overflow)
          /\ OneEach(Insert(delayed, e)) /\ OneEach(Insert(overflow, e))
      BY <2>1, <2>3 DEF DelayedList
    <2> HIDE DEF e
    <2>6. \/ /\ WakeTime(t) < xTickCount
             /\ overflow' = Insert(overflow, e) /\ delayed' = delayed
          \/ /\ xTickCount < WakeTime(t)
             /\ delayed' = Insert(delayed, e) /\ overflow' = overflow
      <3>1. AddToDelayed(t) /\ e = [task |-> t, wake |-> WakeTime(t)]
        BY <1>1, <2>1 DEF e
      <3> QED BY <3>1, <2>1, <2>2, <2>5 DEF AddToDelayed
    <2>7. IsDelayed(t)' /\ Remaining(t)' = Delay[t]
      <3>1. CASE /\ WakeTime(t) < xTickCount
                 /\ overflow' = Insert(overflow, e) /\ delayed' = delayed
        <4>1. WakeIn(Insert(overflow, e), t) = WakeTime(t)
          BY <2>3, <2>5, WakeInFacts
        <4>2. Remaining(t)' = WakeTime(t) + TickRange - xTickCount
          BY <1>1, <2>1, <2>3, <3>1, <4>1 DEF Remaining
        <4> QED BY <2>1, <2>2, <2>3, <3>1, <4>2 DEF IsDelayed
      <3>2. CASE /\ xTickCount < WakeTime(t)
                 /\ delayed' = Insert(delayed, e) /\ overflow' = overflow
        <4>1. WakeIn(Insert(delayed, e), t) = WakeTime(t)
          BY <2>3, <2>5, WakeInFacts
        <4>2. Remaining(t)' = WakeTime(t) - xTickCount
          BY <1>1, <2>3, <3>2, <4>1 DEF Remaining
        <4> QED BY <2>1, <2>2, <2>3, <3>2, <4>2 DEF IsDelayed
      <3> QED BY <2>6, <3>1, <3>2
    <2>8. ASSUME NEW u \in AppTasks, u # t
          PROVE  Remaining(u)' = Remaining(u) /\ (IsDelayed(u)' <=> IsDelayed(u))
      <3>1. /\ InList(delayed', u) <=> InList(delayed, u)
            /\ InList(overflow', u) <=> InList(overflow, u)
        BY <2>3, <2>6, <2>8
      <3>2. InList(delayed, u) => WakeIn(delayed', u) = WakeIn(delayed, u)
        BY <2>3, <2>5, <2>6, SameWakeIn
      <3>3. InList(overflow, u) => WakeIn(overflow', u) = WakeIn(overflow, u)
        BY <2>3, <2>5, <2>6, SameWakeIn
      <3>4. pc'[u] = pc[u]
        BY <1>1, <2>8, TaskFacts
      <3> QED BY <1>1, <3>1, <3>2, <3>3, <3>4 DEF Remaining, IsDelayed
    <2>9. Left' = Left
      BY <1>1, <2>4, <2>7, <2>8 DEF Left
    <2>10. Awake' = Awake \ {t} /\ t \in Awake
      BY <1>2, <1>3, <2>7, <2>8 DEF Awake
    <2> QED BY <1>2, <1>3, <2>9, <2>10 DEF Promise!FallAsleep
  <1>4. CASE t \notin AppTasks
    <2>1. t = Timer
      BY <1>2, <1>4 DEF Tasks
    <2>2. \A u \in AppTasks : pc'[u] = pc[u]
      BY <1>1, <1>4, TaskFacts
    <2> QED BY <1>1, <1>2, <1>4, <2>1, <2>2, NoStep
  <1> QED BY <1>3, <1>4

\* xTaskResumeAll until it has made up for the last tick: the promise waits.
LEMMA ResumeAllSimulates ==
  ASSUME KernelInv, NEW t \in Tasks, ResumeAll(t)
  PROVE  UNCHANGED Promise!vars
  <1>1. /\ phase = "running" /\ tick = "no" /\ pxCurrentTCB = t /\ pc[t] = "blocked"
        /\ pc'[t] = "unwind" /\ \A u \in Tasks \ {t} : pc'[u] = pc[u]
        /\ UNCHANGED <<delayed, overflow, xTickCount, xPendedTicks, phase,
                       pxCurrentTCB>>
    BY DEF ResumeAll, At, GoTo, KernelInv, TypeOK, taskLists, timeVars, heapVars
  <1>2. Busy /\ Busy'
    BY <1>1, BusyFacts DEF Busy
  <1>3. \A u \in AppTasks : pc'[u] = "locked" <=> pc[u] = "locked"
    BY <1>1, TaskFacts
  <1> QED BY <1>1, <1>2, <1>3, NoStep

\* A pended tick that is made up for has been counted before.
LEMMA UnwindTickSimulates ==
  ASSUME KernelInv, NEW t \in Tasks, UnwindTick(t)
  PROVE  UNCHANGED Promise!vars
  <1>1. /\ phase = "running" /\ tick = "no" /\ pxCurrentTCB = t /\ pc[t] = "unwind"
        /\ xPendedTicks > 0 /\ xPendedTicks' = xPendedTicks - 1
        /\ IncrementTick
        /\ UNCHANGED <<phase, pxCurrentTCB, pc, ready, suspended>>
    BY DEF UnwindTick, At, heapVars, cpuVars
  <1>2. Busy /\ Busy'
    BY <1>1, BusyFacts DEF Busy
  <1>3. ASSUME NEW u \in AppTasks
        PROVE  /\ pc[u] # "locked" /\ (IsDelayed(u)' <=> IsDelayed(u))
               /\ Remaining(u)' = IF IsDelayed(u) THEN Remaining(u) - 1 ELSE 0
               /\ Remaining(u) \in Nat
               /\ IsDelayed(u) => Remaining(u) >= 1
               /\ ~IsDelayed(u) => Remaining(u) = 0
    <2>1. pc[u] # "locked"
      BY <1>1, TaskFacts, LockedFacts
    <2> QED BY <1>1, <2>1, TickRemaining, RemainingFacts DEF RemainingInv
  <1>4. xPendedTicks \in Nat
    BY TickAssumption DEF KernelInv, TypeOK
  <1>5. ASSUME NEW u \in AppTasks PROVE Left[u]' = Left[u]
    BY <1>1, <1>3, <1>4 DEF Left
  <1>6. Left' = Left
    BY <1>5 DEF Left
  <1>7. Awake' = Awake
    BY <1>3 DEF Awake
  <1> QED BY <1>2, <1>6, <1>7 DEF Promise!vars

\* With the last of them the kernel is done.
LEMMA EndUnwindSimulates ==
  ASSUME KernelInv, NEW t \in Tasks, EndUnwind(t)
  PROVE  Promise!Leave
  <1>1. /\ phase = "running" /\ tick = "no" /\ pxCurrentTCB = t /\ pc[t] = "unwind"
        /\ xPendedTicks = 0 /\ pc'[t] \in {"leave", "release"}
        /\ \A u \in Tasks \ {t} : pc'[u] = pc[u]
        /\ UNCHANGED <<delayed, overflow, xTickCount, xPendedTicks, phase, tick,
                       uxSchedulerSuspended>>
    BY DEF EndUnwind, At, GoTo, KernelInv, TypeOK, taskLists, timeVars, heapVars,
           tickVars
  <1>2. \A u \in Tasks : pc[u] # "locked" /\ pc'[u] # "locked" /\ pc'[u] # "unwind"
    BY <1>1, LockedFacts, RunningFacts
  <1>3. pxCurrentTCB' \in Tasks
    <2>1. KernelInv'
      BY EndUnwindStep
    <2> QED BY <1>1, <2>1 DEF KernelInv, Running
  <1>4. Busy /\ ~Busy'
    BY <1>1, <1>2, <1>3, BusyFacts DEF KernelInv, Running, Busy
  <1> QED BY <1>1, <1>2, <1>4, LeaveStep, TaskFacts

\* Outside the lists nothing is promised.
LEMMA ExitCriticalSimulates ==
  ASSUME KernelInv, NEW t \in Tasks, ExitCritical(t)
  PROVE  UNCHANGED Promise!vars
  <1>1. /\ phase = "running" /\ tick = "no" /\ pxCurrentTCB = t
        /\ pc[t] \in {"leave", "release"} /\ pc'[t] \in {"run", "yield"}
        /\ \A u \in Tasks \ {t} : pc'[u] = pc[u]
        /\ UNCHANGED <<delayed, overflow, xTickCount, xPendedTicks, phase, tick,
                       pxCurrentTCB, uxSchedulerSuspended>>
    BY DEF ExitCritical, At, GoTo, KernelInv, TypeOK, taskLists, timeVars,
           heapVars, tickVars
  <1>2. Busy' = Busy
    BY <1>1, BusyFacts DEF Busy
  <1>3. \A u \in AppTasks : pc'[u] = "locked" <=> pc[u] = "locked"
    BY <1>1, TaskFacts
  <1> QED BY <1>1, <1>2, <1>3, NoStep

LEMMA YieldWithinApiSimulates ==
  ASSUME KernelInv, NEW t \in Tasks, YieldWithinApi(t)
  PROVE  UNCHANGED Promise!vars
  <1>1. /\ phase = "running" /\ tick = "no" /\ pxCurrentTCB = t
        /\ pc[t] = "yield" /\ pc'[t] = "run"
        /\ \A u \in Tasks \ {t} : pc'[u] = pc[u]
        /\ UNCHANGED <<delayed, overflow, xTickCount, xPendedTicks, phase, tick,
                       uxSchedulerSuspended>>
    BY DEF YieldWithinApi, At, GoTo, KernelInv, TypeOK, taskLists, timeVars,
           heapVars, tickVars
  <1>2. \A u \in Tasks : pc'[u] # "unwind" /\ pc'[u] # "locked" /\ pc[u] # "locked"
    BY <1>1, RunningFacts
  <1>3. pxCurrentTCB' \in Tasks
    <2>1. KernelInv'
      BY YieldWithinApiStep
    <2> QED BY <1>1, <2>1 DEF KernelInv, Running
  <1>4. Busy' = Busy
    BY <1>1, <1>2, <1>3 DEF Busy
  <1> QED BY <1>1, <1>2, <1>4, NoStep, TaskFacts

\* A tick that is pended is one tick less to come, at once.
LEMMA PendTickSimulates ==
  ASSUME KernelInv, PendTick
  PROVE  Promise!Tick
  <1>1. /\ tick = "no" /\ uxSchedulerSuspended
        /\ xPendedTicks' = xPendedTicks + 1
        /\ UNCHANGED <<delayed, overflow, xTickCount, pc, uxSchedulerSuspended>>
    BY DEF PendTick, InterruptsOpen, taskLists, timeVars
  <1>2. \A u \in AppTasks : /\ Remaining(u)' = Remaining(u)
                            /\ IsDelayed(u)' <=> IsDelayed(u)
                            /\ Remaining(u) \in Nat
    BY <1>1, SameRemaining, RemainingFacts DEF RemainingInv
  <1>3. xPendedTicks \in Nat
    BY TickAssumption DEF KernelInv, TypeOK
  <1>4. ASSUME NEW u \in AppTasks
        PROVE  Left[u]' = IF Left[u] > 0 THEN Left[u] - 1 ELSE 0
    BY <1>1, <1>2, <1>3 DEF Left
  <1>5. Left' = [u \in AppTasks |-> IF Left[u] > 0 THEN Left[u] - 1 ELSE 0]
    BY <1>4 DEF Left
  <1>6. Awake' = Awake
    BY <1>2 DEF Awake
  <1>7. Busy'
    BY <1>1 DEF Busy
  <1> QED BY <1>5, <1>6, <1>7 DEF Promise!Tick

\* So is one that is handled at once.
LEMMA TickInterruptSimulates ==
  ASSUME KernelInv, TickInterrupt
  PROVE  Promise!Tick
  <1>1. /\ phase = "running" /\ tick = "no" /\ ~uxSchedulerSuspended
        /\ IncrementTick /\ cpu.ccpn = 0
        /\ UNCHANGED <<phase, pxCurrentTCB, pc, ready, suspended, xPendedTicks>>
    BY DEF TickInterrupt, InterruptsOpen, heapVars, cpuVars
  <1>2. xPendedTicks = 0
    <2>1. cpu # Critical
      BY <1>1 DEF Critical, Masked
    <2>2. pc[pxCurrentTCB] \notin {"locked", "blocked", "unwind"}
      BY <1>1, <2>1, RunningFacts DEF KernelInv, Running
    <2> QED BY <1>1, <2>2, TickAssumption DEF KernelInv, Running, TypeOK
  <1>3. ASSUME NEW u \in AppTasks
        PROVE  /\ IsDelayed(u)' <=> IsDelayed(u)
               /\ Remaining(u)' = IF IsDelayed(u) THEN Remaining(u) - 1 ELSE 0
               /\ Remaining(u) \in Nat
               /\ IsDelayed(u) => Remaining(u) >= 1
               /\ ~IsDelayed(u) => Remaining(u) = 0
    <2>1. pc[u] # "locked"
      BY <1>1, TaskFacts, LockedFacts
    <2> QED BY <1>1, <2>1, TickRemaining, RemainingFacts DEF RemainingInv
  <1>4. ASSUME NEW u \in AppTasks
        PROVE  Left[u]' = IF Left[u] > 0 THEN Left[u] - 1 ELSE 0
    BY <1>1, <1>2, <1>3 DEF Left
  <1>5. Left' = [u \in AppTasks |-> IF Left[u] > 0 THEN Left[u] - 1 ELSE 0]
    BY <1>4 DEF Left
  <1>6. Awake' = Awake
    BY <1>3 DEF Awake
  <1>7. Busy'
    BY <1>1, IncrementTickFacts DEF Busy, KernelInv
  <1> QED BY <1>5, <1>6, <1>7 DEF Promise!Tick

\* The head of the delayed list is woken when none of its ticks is left.
LEMMA UnblockHeadSimulates ==
  ASSUME KernelInv, UnblockHead
  PROVE  \E t \in AppTasks : Promise!Wake(t)
  <1> PICK e : e = Head(delayed)
    OBVIOUS
  <1> DEFINE t == e.task
  <1>1. /\ tick = "scan" /\ IsDue /\ delayed' = Tail(delayed)
        /\ UNCHANGED <<phase, pc, overflow, pxCurrentTCB, xTickCount,
                       uxSchedulerSuspended, xPendedTicks, tick>>
    BY DEF UnblockHead, heapVars, cpuVars, timeVars
  <1>2. phase = "running"
    BY <1>1 DEF KernelInv, Booting
  <1>3. /\ delayed # << >> /\ delayed \in Seq(Entries)
        /\ Sorted(delayed) /\ OneEach(delayed) /\ OneEach(overflow)
        /\ \A x \in Range(delayed) : x.task \in AppTasks
        /\ e.wake <= xTickCount
    BY <1>1 DEF IsDue, KernelInv, Lists, DelayedList
  <1>4. /\ e \in Entries /\ e \in Range(delayed)
        /\ Range(delayed) = Range(Tail(delayed)) \cup {e}
        /\ OneEach(Tail(delayed)) /\ ~InList(Tail(delayed), t)
    BY <1>3, TailFacts
  <1>5. /\ e.wake \in Nat /\ xTickCount \in Nat /\ xTickCount <= e.wake
        /\ t \in AppTasks /\ xPendedTicks \in Nat
    BY <1>1, <1>3, <1>4, TickFacts, TickAssumption DEF KernelInv, Times, TypeOK
  <1>6. InList(delayed, t) /\ Remaining(t) = 0
    BY <1>3, <1>4, <1>5, InListRange, RemainingOfEntries
  <1>7. ~InList(overflow, t)
    BY <1>5, <1>6, TaskFacts DEF KernelInv, NoneTwice
  <1>8. pc[t] # "locked"
    BY <1>1, <1>2, <1>5, TaskFacts, LockedFacts
  <1>9. ~IsDelayed(t)' /\ Remaining(t)' = 0
    BY <1>1, <1>4, <1>7, <1>8 DEF IsDelayed, Remaining
  <1>10. ASSUME NEW u \in AppTasks, u # t
         PROVE  Remaining(u)' = Remaining(u) /\ (IsDelayed(u)' <=> IsDelayed(u))
    <2>1. InList(delayed', u) <=> InList(delayed, u)
      BY <1>1, <1>4, <1>10, InListRange
    <2>2. InList(delayed, u) => WakeIn(delayed', u) = WakeIn(delayed, u)
      BY <1>1, <1>3, <1>4, <1>10, SameWakeIn
    <2> QED BY <1>1, <2>1, <2>2 DEF Remaining, IsDelayed
  <1>11. Left' = Left
    BY <1>1, <1>6, <1>9, <1>10 DEF Left
  <1>12. Left[t] = 0
    BY <1>5, <1>6, LeftFacts
  <1>13. Awake' = Awake \cup {t} /\ t \notin Awake
    BY <1>5, <1>6, <1>9, <1>10 DEF Awake, IsDelayed
  <1>14. Busy /\ Busy'
    BY <1>1 DEF Busy
  <1> QED BY <1>5, <1>11, <1>12, <1>13, <1>14 DEF Promise!Wake

LEMMA EndScanSimulates ==
  ASSUME KernelInv, EndScan
  PROVE  UNCHANGED Promise!vars
  <1>1. /\ tick = "scan" /\ tick' = "end"
        /\ UNCHANGED <<pc, delayed, overflow, xTickCount, xPendedTicks>>
    BY DEF EndScan, taskLists
  <1>2. Busy /\ Busy'
    BY <1>1 DEF Busy
  <1> QED BY <1>1, <1>2, NoStep

\* The end of a tick is the end of the kernel's work, unless the tick was one
\* that is made up for.
LEMMA EndTickSimulates ==
  ASSUME KernelInv, EndTick
  PROVE  Promise!Leave \/ UNCHANGED Promise!vars
  <1>1. /\ tick = "end" /\ tick' = "no"
        /\ UNCHANGED <<phase, pc, delayed, overflow, xTickCount, xPendedTicks,
                       uxSchedulerSuspended>>
    BY DEF EndTick, heapVars, taskLists, timeVars
  <1>2. /\ phase = "running" /\ pxCurrentTCB \in Tasks
        /\ pc[pxCurrentTCB] \in {"run", "yield", "unwind"}
        /\ ~uxSchedulerSuspended
    BY <1>1, RunningFacts DEF KernelInv, Booting, Running
  <1>3. CASE pc[pxCurrentTCB] = "unwind"
    <2>1. pxCurrentTCB' = pxCurrentTCB
      BY <1>3 DEF EndTick, cpuVars
    <2>2. Busy /\ Busy'
      BY <1>1, <1>2, <1>3, <2>1 DEF Busy
    <2> QED BY <1>1, <2>2, NoStep
  <1>4. CASE pc[pxCurrentTCB] # "unwind"
    <2>1. \A u \in Tasks : pc[u] # "unwind" /\ pc[u] # "locked"
      BY <1>2, <1>4, RunningFacts
    <2>2. pxCurrentTCB' \in Tasks
      <3>1. KernelInv'
        BY EndTickStep
      <3> QED BY <1>1, <1>2, <3>1 DEF KernelInv, Running
    <2>3. Busy /\ ~Busy'
      BY <1>1, <1>2, <2>1, <2>2 DEF Busy
    <2>4. xPendedTicks = 0
      BY <1>2, <1>4, TickAssumption DEF KernelInv, Running, TypeOK
    <2> QED BY <1>1, <2>1, <2>3, <2>4, LeaveStep, TaskFacts
  <1> QED BY <1>3, <1>4

LEMMA TaskStepSimulates ==
  ASSUME KernelInv, NEW t \in Tasks, TaskStep(t)
  PROVE  Promise!Next \/ UNCHANGED Promise!vars
  <1>1. CASE SuspendAll(t)
    BY <1>1, SuspendAllSimulates DEF Promise!Next
  <1>2. CASE Block(t)
    BY <1>2, BlockSimulates DEF Promise!Next
  <1>3. CASE EndUnwind(t)
    BY <1>3, EndUnwindSimulates DEF Promise!Next
  <1>4. CASE ResumeAll(t) \/ UnwindTick(t) \/ ExitCritical(t) \/ YieldWithinApi(t)
    BY <1>4, ResumeAllSimulates, UnwindTickSimulates, ExitCriticalSimulates,
       YieldWithinApiSimulates
  <1> QED BY <1>1, <1>2, <1>3, <1>4 DEF TaskStep

\* Every step of the kernel is one of the promise or none.
LEMMA StepSimulates ==
  ASSUME KernelInv, [Next]_vars
  PROVE  [Promise!Next]_(Promise!vars)
  <1>1. CASE StartUp
    BY <1>1, StartUpSimulates
  <1>2. ASSUME NEW t \in Tasks, TaskStep(t)
        PROVE  Promise!Next \/ UNCHANGED Promise!vars
    BY <1>2, TaskStepSimulates
  <1>3. CASE PendTick \/ TickInterrupt
    BY <1>3, PendTickSimulates, TickInterruptSimulates DEF Promise!Next
  <1>4. CASE UnblockHead
    BY <1>4, UnblockHeadSimulates DEF Promise!Next
  <1>5. CASE EndScan \/ EndTick
    BY <1>5, EndScanSimulates, EndTickSimulates DEF Promise!Next
  <1>6. CASE UNCHANGED vars
    <2>1. Busy' = Busy
      BY <1>6 DEF vars, heapVars, cpuVars, taskLists, timeVars, tickVars, Busy
    <2> QED
      BY <1>6, <2>1, NoStep
      DEF vars, heapVars, cpuVars, taskLists, timeVars, tickVars
  <1> QED
    BY <1>1, <1>2, <1>3, <1>4, <1>5, <1>6 DEF Next, Off, TickHandler

LEMMA InitSimulates == Init => Promise!Init
  <1> SUFFICES ASSUME Init PROVE Promise!Init
    OBVIOUS
  <1>1. \A t : ~InList(delayed, t) /\ ~InList(overflow, t)
    BY EmptyList DEF Init
  <1>2. \A t \in AppTasks : Remaining(t) = 0 /\ ~IsDelayed(t)
    BY <1>1, TaskFacts DEF Init, Remaining, IsDelayed
  <1>3. Left = [t \in AppTasks |-> 0]
    BY <1>2 DEF Left, Init
  <1>4. Awake = AppTasks
    BY <1>2 DEF Awake
  <1>5. ~Busy
    BY DEF Busy, Init
  <1> QED BY <1>3, <1>4, <1>5 DEF Promise!Init, Busy

-----------------------------------------------------------------------------
(* The theorem.                                                            *)

\* A delay takes exactly its number of tick interrupts, whatever the delays,
\* the priorities and the range of the counter, and however many ticks come
\* while the scheduler is suspended.
THEOREM DelaysAreExact == Spec => DelaysExactly
  <1>1. Init => Promise!Init
    BY InitSimulates
  <1>2. KernelInv /\ [Next]_vars => [Promise!Next]_(Promise!vars)
    BY StepSimulates
  <1>3. Spec => Promise!Init /\ [][Promise!Next]_(Promise!vars)
    BY <1>1, <1>2, InvHolds, PTL DEF Spec
  <1> QED BY <1>3 DEF DelaysExactly, Promise!Spec
=============================================================================
