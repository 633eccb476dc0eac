------------------------------- MODULE Kernel --------------------------------
(***************************************************************************)
(* The FreeRTOS kernel as this program uses it on core 0: the creation of  *)
(* the tasks from the heap, vTaskDelay with the scheduler suspended around *)
(* it, the tick interrupt that wakes the delayed tasks and shares the time *)
(* between tasks of one priority, and the context switches of the TriCore  *)
(* port.  Each app task works and then delays itself for its number of     *)
(* ticks, for ever; the timer service task has nothing to do and blocks    *)
(* for good; the idle task only spins.                                     *)
(*                                                                         *)
(* A tick interrupt may come between any two steps of a task while the CPU *)
(* priority lets it.  xTaskIncrementTick runs with interrupts masked, so   *)
(* while tick # "no" nothing else of the core runs.                        *)
(***************************************************************************)
EXTENDS Naturals, Sequences

CONSTANTS
  AppTasks,    \* the tasks core0_main creates
  Idle, Timer, \* the tasks vTaskStartScheduler creates
  CreateOrder, \* all of them, in the order of their creation
  Priority,    \* uxPriority of each task
  Delay,       \* the ticks each app task passes to vTaskDelay
  TickRange,   \* the tick count is modulo this number, 2^32 on the chip
  MaxPended,   \* most ticks that come while the scheduler is suspended
  HeapSizes,   \* values of configADJUSTED_HEAP_SIZE
  StackBytes,  \* size of a task's stack; all are configMINIMAL_STACK_SIZE
  TcbBytes,    \* size of a task's control block
  QueueBytes,  \* size of the timer queue
  End          \* xListEnd, the marker in a list that is no task

Tasks      == AppTasks \cup {Idle, Timer}
Priorities == { Priority[t] : t \in Tasks }
MaxDelay   == TickRange - 1      \* portMAX_DELAY
Ticks      == 0 .. MaxDelay
Masked     == 31                 \* configMAX_API_CALL_INTERRUPT_PRIORITY

ASSUME TaskAssumption ==
  /\ Idle \notin AppTasks /\ Timer \notin AppTasks /\ Idle # Timer
  /\ End \notin Tasks
  /\ CreateOrder \in Seq(Tasks)
  /\ \A i, j \in DOMAIN CreateOrder : i # j => CreateOrder[i] # CreateOrder[j]
  /\ \A t \in Tasks : \E i \in DOMAIN CreateOrder : CreateOrder[i] = t
  /\ CreateOrder[Len(CreateOrder)] = Timer
ASSUME PriorityAssumption ==
  /\ Priority \in [Tasks -> 0 .. 9]
  /\ \A t \in Tasks : Priority[Idle] <= Priority[t]
ASSUME TickAssumption ==
  /\ TickRange \in Nat \ {0, 1}
  /\ Delay \in [AppTasks -> 1 .. MaxDelay]
  /\ MaxPended \in Nat
ASSUME HeapAssumption ==
  /\ HeapSizes \subseteq Nat
  /\ TcbBytes \in Nat \ {0} /\ StackBytes \in Nat /\ TcbBytes <= StackBytes
  /\ QueueBytes \in Nat \ {0}

VARIABLES
  phase,                 \* whether the scheduler has been started
  created,               \* how many creations have been tried
  heapSize,              \* configADJUSTED_HEAP_SIZE
  xNextFreeByte,         \* of heap_1.c
  pc,                    \* each task's place in vTaskDelay
  pxCurrentTCB,
  ready,                 \* pxReadyTasksLists, each from its pxIndex on
  uxTopReadyPriority,    \* the bit map of priorities, as a set
  delayed, overflow,     \* the two delayed lists, as sequences of entries
  suspended,             \* xSuspendedTaskList
  xTickCount,
  xNextTaskUnblockTime,
  uxSchedulerSuspended,
  xPendedTicks,
  xYieldPending,
  tick,                  \* the place in xTaskIncrementTick
  xSwitchRequired,       \* its local variable
  cpu,                   \* uxCriticalNesting and ICR.CCPN
  context                \* the two of each task that is switched out

heapVars  == <<phase, created, heapSize, xNextFreeByte>>
taskLists == <<delayed, overflow, suspended>>
timeVars  == <<xTickCount, xNextTaskUnblockTime>>
tickVars  == <<tick, xSwitchRequired>>
cpuVars   == <<pxCurrentTCB, cpu, context, xYieldPending>>
vars == <<heapVars, pc, cpuVars, ready, uxTopReadyPriority, taskLists,
          timeVars, uxSchedulerSuspended, xPendedTicks, tickVars>>

Open     == [nesting |-> 0, ccpn |-> 0]
Critical == [nesting |-> 1, ccpn |-> Masked]
Entries  == [task : Tasks, wake : Ticks]
Places   == {"run", "locked", "blocked", "unwind", "leave", "release", "yield"}

Init ==
  /\ phase = "boot" /\ created = 0
  /\ heapSize \in HeapSizes /\ xNextFreeByte = 0
  /\ pc = [t \in Tasks |-> "run"]
  /\ pxCurrentTCB = End
  /\ ready = [p \in Priorities |-> <<End>>]
  /\ uxTopReadyPriority = {}
  /\ delayed = << >> /\ overflow = << >> /\ suspended = {}
  /\ xTickCount = 0 /\ xNextTaskUnblockTime = MaxDelay
  /\ uxSchedulerSuspended = FALSE
  /\ xPendedTicks = 0 /\ xYieldPending = FALSE
  /\ tick = "no" /\ xSwitchRequired = FALSE
  /\ cpu = Critical
  /\ context = [t \in Tasks |-> Open]

-----------------------------------------------------------------------------
(* Lists.  A ready list is the ring of its items and the end marker,       *)
(* written from the item pxIndex points at.                                *)

\* Mutant of InsertEnd: just behind pxIndex, first to be reached from it.
InsertEndFirst(ring, t) == <<Head(ring), t>> \o Tail(ring)

\* vListInsertEnd: just before pxIndex, last to be reached from it.
InsertEnd(ring, t) == Append(ring, t)

\* Mutant of NextEntry: the task pxIndex points at goes on.
NextEntryStays(ring) == IF Head(ring) = End THEN Append(Tail(ring), End) ELSE ring

\* listGET_OWNER_OF_NEXT_ENTRY: the next item, past the marker.
Step(ring) == Append(Tail(ring), Head(ring))
NextEntry(ring) ==
  IF Head(Step(ring)) = End THEN Step(Step(ring)) ELSE Step(ring)

\* uxListRemove: pxIndex falls back to the item before a removed one.
PlaceOf(ring, t) == CHOOSE i \in DOMAIN ring : ring[i] = t
RemoveItem(ring, t) ==
  LET i == PlaceOf(ring, t)
      n == Len(ring)
  IN IF i = 1 THEN <<ring[n]>> \o SubSeq(ring, 2, n - 1)
              ELSE SubSeq(ring, 1, i - 1) \o SubSeq(ring, i + 1, n)

IsEmpty(ring) == Len(ring) = 1

\* Mutant of Earlier: a list sorted the other way.
EarlierReversed(list, wake) ==
  CHOOSE n \in 0 .. Len(list) :
    /\ \A i \in 1 .. n : wake <= list[i].wake
    /\ n < Len(list) => list[n + 1].wake < wake

\* vListInsert: behind the entries that are not due later, in their order.
Earlier(list, wake) ==
  CHOOSE n \in 0 .. Len(list) :
    /\ \A i \in 1 .. n : list[i].wake <= wake
    /\ n < Len(list) => wake < list[n + 1].wake
Insert(list, e) ==
  LET n == Earlier(list, e.wake)
  IN SubSeq(list, 1, n) \o <<e>> \o SubSeq(list, n + 1, Len(list))

\* prvResetNextTaskUnblockTime
FirstWake(list) == IF list = << >> THEN MaxDelay ELSE Head(list).wake

\* prvAddTaskToReadyList
AddToReady(t) ==
  /\ ready' = [ready EXCEPT ![Priority[t]] = InsertEnd(@, t)]
  /\ uxTopReadyPriority' = uxTopReadyPriority \cup {Priority[t]}

-----------------------------------------------------------------------------
(* Start-up.                                                               *)

\* pvPortMalloc of heap_1: the next free byte afterwards, the same when the
\* heap is exhausted.
Malloc(free, bytes) == IF free + bytes < heapSize THEN free + bytes ELSE free

\* What xTaskCreate of t takes from the heap: for the timer task its queue
\* first, then a stack, then a control block, each only after the one before.
QueueTaken(t) ==
  IF t = Timer THEN Malloc(xNextFreeByte, QueueBytes) ELSE xNextFreeByte
StackTaken(t) ==
  IF t = Timer /\ QueueTaken(t) = xNextFreeByte
    THEN QueueTaken(t) ELSE Malloc(QueueTaken(t), StackBytes)
TcbTaken(t) ==
  IF StackTaken(t) = QueueTaken(t)
    THEN StackTaken(t) ELSE Malloc(StackTaken(t), TcbBytes)

Allocated(t) ==
  StackTaken(t) # QueueTaken(t) /\ TcbTaken(t) # StackTaken(t)

\* Mutant of Vital: the result of creating the timer task is dropped as well.
VitalIdleOnly(t) == t = Idle

\* The tasks without which vTaskStartScheduler gives up.
Vital(t) == t \in {Idle, Timer}

\* Mutant of BecomesCurrent: the task that was created first.
BecomesCurrentFirst(t) == pxCurrentTCB = End

\* The last task of the highest priority is the one to run first.
BecomesCurrent(t) ==
  pxCurrentTCB = End \/ Priority[pxCurrentTCB] <= Priority[t]

\* xTaskCreate with prvAddNewTaskToReadyList.  core0_main drops its result.
CreateTask(t) ==
  /\ phase = "boot" /\ created < Len(CreateOrder)
  /\ t = CreateOrder[created + 1]
  /\ created' = created + 1
  /\ xNextFreeByte' = TcbTaken(t)
  /\ IF Allocated(t)
       THEN /\ AddToReady(t)
            /\ pxCurrentTCB' = IF BecomesCurrent(t) THEN t ELSE pxCurrentTCB
            /\ UNCHANGED phase
       ELSE /\ phase' = IF Vital(t) THEN "off" ELSE phase
            /\ UNCHANGED <<ready, uxTopReadyPriority, pxCurrentTCB>>
  /\ UNCHANGED <<heapSize, pc, cpu, context, xYieldPending, taskLists,
                 timeVars, uxSchedulerSuspended, xPendedTicks, tickVars>>

\* The end of vTaskStartScheduler: the first task's context is loaded.
StartScheduler ==
  /\ phase = "boot" /\ created = Len(CreateOrder)
  /\ phase' = "running"
  /\ cpu' = context[pxCurrentTCB]
  /\ UNCHANGED <<created, heapSize, xNextFreeByte, pc, pxCurrentTCB, context,
                 xYieldPending, ready, uxTopReadyPriority, taskLists, timeVars,
                 uxSchedulerSuspended, xPendedTicks, tickVars>>

\* vTaskStartScheduler has returned: core0_main's last loop.
Off == phase = "off" /\ UNCHANGED vars

-----------------------------------------------------------------------------
(* The context switch, never called while the scheduler is suspended.      *)

Highest ==
  CHOOSE p \in uxTopReadyPriority : \A q \in uxTopReadyPriority : q <= p

\* Mutant of SwitchContext: the critical nesting is not the task's own.
SwitchContextSharesCpu ==
  LET ring == NextEntry(ready[Highest])
  IN /\ ready' = [ready EXCEPT ![Highest] = ring]
     /\ pxCurrentTCB' = Head(ring)
     /\ xYieldPending' = FALSE
     /\ UNCHANGED <<cpu, context, uxTopReadyPriority>>

\* vPortSaveContext, vTaskSwitchContext, vPortLoadContext: the next task of
\* the highest priority, with the interrupt state it left.
SwitchContext ==
  LET ring == NextEntry(ready[Highest])
  IN /\ ready' = [ready EXCEPT ![Highest] = ring]
     /\ pxCurrentTCB' = Head(ring)
     /\ xYieldPending' = FALSE
     /\ context' = [context EXCEPT ![pxCurrentTCB] = cpu]
     /\ cpu' = context'[Head(ring)]
     /\ UNCHANGED uxTopReadyPriority

-----------------------------------------------------------------------------
(* A task in vTaskDelay, the timer task in prvProcessTimerOrBlockTask.     *)

At(t, place) ==
  phase = "running" /\ tick = "no" /\ pxCurrentTCB = t /\ pc[t] = place
GoTo(t, place) == pc' = [pc EXCEPT ![t] = place]

\* vTaskSuspendAll, when the task's work of this round is done.
SuspendAll(t) ==
  /\ At(t, "run") /\ t # Idle
  /\ GoTo(t, "locked")
  /\ uxSchedulerSuspended' = TRUE
  /\ UNCHANGED <<heapVars, cpuVars, ready, uxTopReadyPriority, taskLists,
                 timeVars, xPendedTicks, tickVars>>

\* Mutant of WakeTime: the sum of more than 32 bits.
WakeTimeWide(t) == xTickCount + Delay[t]

WakeTime(t) == (xTickCount + Delay[t]) % TickRange

\* Into one of the delayed lists: the other one when the time has wrapped.
AddToDelayed(t) ==
  LET e == [task |-> t, wake |-> WakeTime(t)]
  IN IF e.wake < xTickCount
       THEN /\ overflow' = Insert(overflow, e)
            /\ UNCHANGED <<delayed, xNextTaskUnblockTime>>
       ELSE /\ delayed' = Insert(delayed, e)
            /\ xNextTaskUnblockTime' =
                 IF e.wake < xNextTaskUnblockTime THEN e.wake
                                                  ELSE xNextTaskUnblockTime
            /\ UNCHANGED overflow

\* prvAddCurrentTaskToDelayedList; the timer task blocks indefinitely.
Block(t) ==
  LET p    == Priority[t]
      ring == RemoveItem(ready[p], t)
  IN /\ At(t, "locked")
     /\ GoTo(t, "blocked")
     /\ ready' = [ready EXCEPT ![p] = ring]
     /\ uxTopReadyPriority' =
          IF IsEmpty(ring) THEN uxTopReadyPriority \ {p} ELSE uxTopReadyPriority
     /\ IF t = Timer
          THEN /\ suspended' = suspended \cup {t}
               /\ UNCHANGED <<delayed, overflow, xNextTaskUnblockTime>>
          ELSE AddToDelayed(t) /\ UNCHANGED suspended
     /\ UNCHANGED <<heapVars, cpuVars, xTickCount, uxSchedulerSuspended,
                    xPendedTicks, tickVars>>

\* xTaskResumeAll enters its critical section.
ResumeAll(t) ==
  /\ At(t, "blocked")
  /\ GoTo(t, "unwind")
  /\ cpu' = [nesting |-> cpu.nesting + 1, ccpn |-> Masked]
  /\ uxSchedulerSuspended' = FALSE
  /\ UNCHANGED <<heapVars, pxCurrentTCB, context, xYieldPending, ready,
                 uxTopReadyPriority, taskLists, timeVars, xPendedTicks,
                 tickVars>>

\* All ticks that were pended have been made up for: yield when one of them
\* has asked for it, still in the critical section.
EndUnwind(t) ==
  /\ At(t, "unwind") /\ xPendedTicks = 0
  /\ IF xYieldPending
       THEN SwitchContext /\ GoTo(t, "leave")
       ELSE GoTo(t, "release") /\ UNCHANGED <<cpuVars, ready, uxTopReadyPriority>>
  /\ UNCHANGED <<heapVars, taskLists, timeVars, uxSchedulerSuspended,
                 xPendedTicks, tickVars>>

\* taskEXIT_CRITICAL; the task has yielded already ("leave") or not yet.
ExitCritical(t) ==
  /\ At(t, "leave") \/ At(t, "release")
  /\ GoTo(t, IF pc[t] = "leave" THEN "run" ELSE "yield")
  /\ cpu' = [nesting |-> cpu.nesting - 1,
             ccpn |-> IF cpu.nesting = 1 THEN 0 ELSE cpu.ccpn]
  /\ UNCHANGED <<heapVars, pxCurrentTCB, context, xYieldPending, ready,
                 uxTopReadyPriority, taskLists, timeVars, uxSchedulerSuspended,
                 xPendedTicks, tickVars>>

\* portYIELD_WITHIN_API.  A tick may have come first: then the task gets here
\* only after its delay, and gives away the turn it has just been given.
YieldWithinApi(t) ==
  /\ At(t, "yield")
  /\ SwitchContext
  /\ GoTo(t, "run")
  /\ UNCHANGED <<heapVars, taskLists, timeVars, uxSchedulerSuspended,
                 xPendedTicks, tickVars>>

-----------------------------------------------------------------------------
(* The tick.                                                               *)

\* xTaskIncrementTick up to its loop.
IncrementTick ==
  /\ xTickCount' = (xTickCount + 1) % TickRange
  /\ IF xTickCount' = 0
       THEN /\ delayed' = overflow /\ overflow' = delayed
            /\ xNextTaskUnblockTime' = FirstWake(overflow)
       ELSE UNCHANGED <<delayed, overflow, xNextTaskUnblockTime>>
  /\ tick' = IF xTickCount' >= xNextTaskUnblockTime' THEN "scan" ELSE "end"
  /\ xSwitchRequired' = FALSE

InterruptsOpen == phase = "running" /\ tick = "no" /\ cpu.ccpn = 0

\* vPortSystemTickHandler while the scheduler is suspended.
PendTick ==
  /\ InterruptsOpen /\ uxSchedulerSuspended
  /\ xPendedTicks < MaxPended
  /\ xPendedTicks' = xPendedTicks + 1
  /\ UNCHANGED <<heapVars, pc, cpuVars, ready, uxTopReadyPriority, taskLists,
                 timeVars, uxSchedulerSuspended, tickVars>>

\* vPortSystemTickHandler otherwise.
TickInterrupt ==
  /\ InterruptsOpen /\ ~uxSchedulerSuspended
  /\ IncrementTick
  /\ UNCHANGED <<heapVars, pc, cpuVars, ready, uxTopReadyPriority, suspended,
                 uxSchedulerSuspended, xPendedTicks>>

\* xTaskResumeAll makes up for one pended tick.
UnwindTick(t) ==
  /\ At(t, "unwind") /\ xPendedTicks > 0
  /\ xPendedTicks' = xPendedTicks - 1
  /\ IncrementTick
  /\ UNCHANGED <<heapVars, pc, cpuVars, ready, uxTopReadyPriority, suspended,
                 uxSchedulerSuspended>>

IsDue == delayed # << >> /\ Head(delayed).wake <= xTickCount

\* The head of the delayed list is due: it is ready.
UnblockHead ==
  LET t == Head(delayed).task
  IN /\ tick = "scan" /\ IsDue
     /\ delayed' = Tail(delayed)
     /\ AddToReady(t)
     /\ xSwitchRequired' =
          (xSwitchRequired \/ Priority[t] > Priority[pxCurrentTCB])
     /\ UNCHANGED <<heapVars, pc, cpuVars, overflow, suspended, timeVars,
                    uxSchedulerSuspended, xPendedTicks, tick>>

EndScan ==
  /\ tick = "scan" /\ ~IsDue
  /\ xNextTaskUnblockTime' = FirstWake(delayed)
  /\ tick' = "end"
  /\ UNCHANGED <<heapVars, pc, cpuVars, ready, uxTopReadyPriority, taskLists,
                 xTickCount, uxSchedulerSuspended, xPendedTicks,
                 xSwitchRequired>>

\* What xTaskIncrementTick returns: time slicing among equal priorities, too.
SwitchNeeded ==
  \/ xSwitchRequired \/ xYieldPending
  \/ Len(ready[Priority[pxCurrentTCB]]) > 2

\* Back in xTaskResumeAll, or from the interrupt, which is followed by the
\* context interrupt at once.
EndTick ==
  /\ tick = "end" /\ tick' = "no"
  /\ IF SwitchNeeded
       THEN IF pc[pxCurrentTCB] = "unwind"
              THEN xYieldPending' = TRUE
                   /\ UNCHANGED <<pxCurrentTCB, cpu, context, ready,
                                  uxTopReadyPriority>>
              ELSE SwitchContext
       ELSE UNCHANGED <<cpuVars, ready, uxTopReadyPriority>>
  /\ UNCHANGED <<heapVars, pc, taskLists, timeVars, uxSchedulerSuspended,
                 xPendedTicks, xSwitchRequired>>

-----------------------------------------------------------------------------

\* A step of a task: of its own work, or in the kernel.
TaskStep(t) ==
  \/ SuspendAll(t) \/ Block(t) \/ ResumeAll(t) \/ UnwindTick(t)
  \/ EndUnwind(t) \/ ExitCritical(t) \/ YieldWithinApi(t)

StartUp == (\E t \in Tasks : CreateTask(t)) \/ StartScheduler

TickHandler == TickInterrupt \/ UnblockHead \/ EndScan \/ EndTick

Next ==
  \/ StartUp \/ Off
  \/ \E t \in Tasks : TaskStep(t)
  \/ PendTick \/ TickHandler

\* The start goes on, ticks keep coming and their handler runs to its end; a
\* task that gets the CPU again and again gets on with its work.
Fairness ==
  /\ WF_vars(StartUp) /\ WF_vars(TickHandler)
  /\ \A t \in Tasks \ {Idle} : SF_vars(TaskStep(t))

Spec == Init /\ [][Next]_vars /\ Fairness

-----------------------------------------------------------------------------
(* Properties.                                                             *)

InList(list, t) == \E i \in DOMAIN list : list[i].task = t
IsReady(t)      == \E i \in DOMAIN ready[Priority[t]] : ready[Priority[t]][i] = t
IsDelayed(t)    == InList(delayed, t) \/ InList(overflow, t)

\* Types of the variables.
TypeOK ==
  /\ phase \in {"boot", "running", "off"}
  /\ created \in 0 .. Len(CreateOrder)
  /\ heapSize \in HeapSizes /\ xNextFreeByte \in Nat
  /\ pc \in [Tasks -> Places]
  /\ pxCurrentTCB \in Tasks \cup {End}
  /\ ready \in [Priorities -> Seq(Tasks \cup {End})]
  /\ uxTopReadyPriority \subseteq Priorities
  /\ delayed \in Seq(Entries) /\ overflow \in Seq(Entries)
  /\ suspended \subseteq Tasks
  /\ xTickCount \in Ticks /\ xNextTaskUnblockTime \in Ticks
  /\ uxSchedulerSuspended \in BOOLEAN
  /\ xPendedTicks \in 0 .. MaxPended /\ xYieldPending \in BOOLEAN
  /\ tick \in {"no", "scan", "end"} /\ xSwitchRequired \in BOOLEAN
  /\ cpu \in {Open, Critical}
  /\ context \in [Tasks -> {Open, Critical}]

\* Although core0_main drops the results of xTaskCreate, the scheduler runs
\* only when no creation has failed, and from then on no list operation loses
\* or doubles a task: each is ready, delayed or suspended, and just one, and
\* no list holds an item twice.
EveryTaskListed ==
  phase = "running" =>
    /\ \A t \in Tasks :
         /\ IsReady(t) \/ IsDelayed(t) \/ t \in suspended
         /\ ~(IsReady(t) /\ IsDelayed(t))
         /\ ~(InList(delayed, t) /\ InList(overflow, t))
         /\ t \in suspended => ~IsReady(t) /\ ~IsDelayed(t)
    /\ \A p \in Priorities :
         \A i, j \in DOMAIN ready[p] : ready[p][i] = ready[p][j] => i = j
    /\ \A list \in {delayed, overflow} :
         \A i, j \in DOMAIN list : list[i].task = list[j].task => i = j

\* A task that runs its own code is ready, and no task of a higher priority
\* is kept waiting, whatever ticks were pended and whoever they woke.
HighestRuns ==
  phase = "running" /\ tick = "no" /\ pc[pxCurrentTCB] \in {"run", "leave"} =>
    /\ IsReady(pxCurrentTCB)
    /\ \A t \in Tasks : IsReady(t) => Priority[t] <= Priority[pxCurrentTCB]

\* xTaskResumeAll yields inside its critical section; the mask it leaves
\* behind stays with that task, and every other one runs with open interrupts.
MaskIsPrivate ==
  phase = "running" =>
    \A t \in Tasks :
      LET state == IF t = pxCurrentTCB THEN cpu ELSE context[t]
      IN state = IF pc[t] \in {"unwind", "leave", "release"} THEN Critical
                                                             ELSE Open

\* The promise of vTaskDelay, with the ticks that are still to come for a
\* task: those of its wrapped wake time less those that are pended.
WakeIn(list, t) == list[CHOOSE i \in DOMAIN list : list[i].task = t].wake
Remaining(t) ==
  IF InList(delayed, t) THEN WakeIn(delayed, t) - xTickCount
  ELSE IF InList(overflow, t) THEN WakeIn(overflow, t) + TickRange - xTickCount
  ELSE IF pc[t] = "locked" THEN Delay[t] ELSE 0

Left ==
  [t \in AppTasks |-> IF Remaining(t) > xPendedTicks
                        THEN Remaining(t) - xPendedTicks ELSE 0]
Awake == { t \in AppTasks : ~IsDelayed(t) }
Busy ==
  \/ uxSchedulerSuspended \/ tick # "no"
  \/ phase = "running" /\ pc[pxCurrentTCB] = "unwind"

Promise == INSTANCE TaskDelay
  WITH Sleepers <- AppTasks, left <- Left, awake <- Awake, busy <- Busy

\* A delay is exact: counted in tick interrupts from vTaskSuspendAll, across
\* the wrap of the counter, the two lists, and ticks that were pended.
DelaysExactly == Promise!Spec

\* Time slicing starves nobody: every task of the application runs again and
\* again once the scheduler has started.
EveryTaskRuns ==
  \A t \in AppTasks :
    []<>(phase = "running" => pxCurrentTCB = t /\ pc[t] = "run")
=============================================================================
