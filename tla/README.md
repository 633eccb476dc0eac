# A verification model of the ultrasonic sensor ECU

The sensor ECU is an Infineon TC375 running FreeRTOS. It triggers ten
ultrasonic sensors one after the other, turns the captured echo pulses into
distances and sends all ten in a CAN FD frame every 100 ms. This directory
holds TLA+ models of the parts of that program in which order, time and
concurrency matter, the TLC configurations that check them on small instances,
and TLAPS proofs of their main properties for every value of the constants.

The reference is the C code under `src/`. Of the vendored libraries (the Infineon
low level drivers, FreeRTOS) the part is modelled on which the application's
behaviour rests.

## 1. Inventory

| Part | State | Operations | Talks to |
|---|---|---|---|
| Ultrasonic task, `Apps/App_Ultrasonic` | `g_measureState`, `g_activeSensorIndex`, `g_stateStartTicks`, `g_sensors[]`, `g_distances[]`, `g_noEchoCount[]` | `UltrasonicApp_Init`, then `updateMeasurement` once a millisecond | polls STM0 and one GTM TIM channel per sensor; publishes `g_distances` |
| CAN task, `Apps/App_Can` | `g_imuYaw`, `g_vehicleSpeed`, a local message | `CanApp_Init`, then `sendUltrasonicDistanceMessage` every 100 ms | reads `g_distances` without a lock; calls the driver |
| CAN driver, transmit, `Drivers/Can/McmcanFd.c` | transmit buffer 0 and its request bit | `sendFrame`: up to 1000 attempts | node and bus |
| CAN driver, receive, same file | receive FIFO 0, a mailbox and a ready flag per command | `McmcanFd_IsrRxHandler`, `McmcanFd_Recv...` | interrupt against tasks on one core |
| Core start-up, `Cpu0_Main.c`, `Cpu1_Main.c`, `Cpu2_Main.c` | `g_cpuSyncEvent` | emit, wait at most 1 ms, core 0 starts the scheduler | three cores on one word |
| Status task, `Apps/App_SchedulingStatus` | an LED | toggles it every 500 ms | none |
| Viewer, `ustest.py` (on a PC) | a frame queue of one, a status queue, a stop event, the bus object | reader thread, Tk callbacks | two threads; listens to frame 0x200 |
| FreeRTOS kernel, `OS/FreeRTOS`, on core 0 | ready, delayed and suspended lists, tick count, pended ticks, critical nesting and mask of each task, heap | `xTaskCreate`, `vTaskStartScheduler`, `vTaskDelay`, the tick interrupt, the context switch | the four tasks of priority 0 (the idle task is one) and the timer task of priority 9 |
| low level drivers, start-up code | | | vendored |

What is hard here:

* *time*: every timeout is a difference of two reads of a 32-bit timer that
  wraps every 43 s, taken by a task that may be late;
* *hardware racing software*: a TIM channel may capture a value, lose one or
  overflow between any two register accesses of the task;
* *shared memory without locks*: `g_distances` between two tasks that the
  kernel time-slices; the mailboxes between a handler and the tasks it
  interrupts; `g_cpuSyncEvent` between cores;
* *a buffer the bus owns*: the message RAM is written by the task and by the
  node, and its areas are laid out by hand;
* *a scheduler that is itself interrupted*: a tick may come between any two steps
  of `vTaskDelay`, is then only counted, and is made up for by a task that is
  already in a delayed list; the tick count wraps;
* *bounded retries, lost notifications*: 1000 attempts, then silence; one frame
  per interrupt, then the flag is cleared.

What makes each part correct:

* ultrasonic task: only the echo of this trigger is measured; a miss is counted
  only after the real timeout; one miss changes nothing, two in a row show the
  maximum; sensors trigger a whole slot apart; none is starved;
* CAN task: a message is the board at one moment; the last distances reach the
  bus; the task never hangs;
* driver, transmit: what is sent is the message that was requested;
* driver, receive: commands in order, none twice, none torn, none left behind,
  and a full FIFO is emptied;
* start-up: a core leaves the barrier with all cores or after the real timeout,
  core 0 always starts;
* kernel: all tasks exist or the scheduler does not start; none is lost from the
  lists; a delay is exact in ticks; the highest priority runs; a ready task gets
  the CPU within a bounded number of ticks, which is what every deadline of the
  ultrasonic task rests on;
* viewer: the newest frame is shown and never an older one after it, across
  reconnects; one reader at a time that was not told to stop; a stopped reader ends; a failed
  connection is reported; only the current connection takes frames.

The hazards, at their lines and with the properties that cover them, are in
`PROJECT.json`.

## 2. Modules

| Module | What it is |
|---|---|
| `EchoMath` | `timTicksToUs`, `echoUsToDistanceMm`, `isDistanceUpdateValid` and the constants of `App_Ultrasonic.c`, as operators |
| `Ultrasonic` | the task, split at its register accesses, with STM0 and the TIM channels |
| `DistanceBoard` | the promise of the task to the readers of `g_distances`, without timers, registers or counters |
| `MessageRam` | the layout `McmcanFd_Init` configures and the address computations of the low level driver |
| `SensorCan` | the CAN task, `sendFrame`, transmit buffer 0, the bus |
| `Mailbox` | the promise of the receive path: of each command the latest is kept, and what a task takes is new |
| `CanRx` | receive FIFO 0, the interrupt handler, the `Recv` functions |
| `CpuSync` | the barrier of the three cores |
| `Viewer` | the reader threads and the GUI thread of `ustest.py` |
| `TaskDelay` | the promise of the kernel to a task that calls `vTaskDelay`, without lists, a counter that wraps or pended ticks |
| `Kernel` | creation of the tasks, `vTaskDelay`, the tick and the context switch of FreeRTOS on the TriCore |
| `KernelWait` | `Kernel` with a history of how long one task has waited for the CPU |
| `KernelLists` | lemmas about the kernel's lists |
| `MC...` | small instances for TLC |
| `...Proofs` | theorems and their proofs |

### Ultrasonic and DistanceBoard

`pc` is the place of the task between two accesses to hardware. One poll (one
call of `updateMeasurement`) is the sequence from `poll` back to `delay`:

| Actions | Code |
|---|---|
| `AppInit` | `UltrasonicApp_Init` |
| `Wake` | `vTaskDelay(1)` expires |
| `StartMeasurement`, `ArmTim` | `startMeasurement` before and after the trigger pulse |
| `CheckNewValue`, `ReadCapture`, `AcceptEcho`, `RejectPulse` | the branch that finds NEWVAL set |
| `CaptureFault`, `NoCaptureFault` | the test of the data-lost and overflow flags |
| `ExpireUseless`, `EchoTimedOut`, `KeepWaiting` | the timeout, after a useless capture or without any |
| `NextSensor`, `StayInSlot` | the `INTER_SENSOR_DELAY` case |
| `Capture`, `CounterOverflow`, `Tick` | the hardware, between any two of these |

Sensors are numbered by their place in the measurement order. `distances` is
`g_distances`; `g_sensors[].distanceMm` always has the same value and is left
out. The `default` case of the switch is unreachable and left out.

Three variables are history: `age` counts the units since the time stamp was
taken, `fresh` remembers whether the value in GPR0 was captured for this
trigger, `results` keeps the last results of each sensor. The properties compare
what the code computes with these.

A channel may report any pulse of `Captures` at any time, also on a sensor
that is not active, also during the trigger pulse. This is more than the
hardware does, and includes reverberation, crosstalk and glitches.

`DistanceBoard` says the same without any of this: `turn`, `done`, the last
results and the board, which is a function of them. `Ultrasonic` implements it
under the mapping `turn = activeSensorIndex`, `done = (measureState is
INTER_SENSOR_DELAY)`: checked with its liveness by `ultrasonic_live`
(`ImplementsBoard`), its safety part proved (`ImplementsTheBoard`).

### SensorCan and MessageRam

A distance is represented by how often it has changed. The task copies the
fields one by one (`CopyField`) while `UpdateDistance` may change them. The
16-bit accesses themselves are atomic on the TriCore. `sendFrame` is
`EnterSendFrame`, `BufferBusy` and `BufferFree`; the call of
`IfxCan_Can_sendMessage` that succeeds is `WriteElement` and
`RequestTransmission`, because the bus runs between the two. `GoBusOff` has no
inverse: no code of the repository brings the node back.

`MessageRam` computes the elements of FIFO 0 whose bytes reach into transmit
buffer 0: one, the eighth, whose data field begins at the buffer's first byte.
`SensorCan` takes the set as a constant (`SharedElements`), so that the sender
can be examined with and without that overlap.

`imuYaw` and `vehicleSpeed` are 0 in this repository (their setters have no
caller) and left out of the message.

### CanRx and Mailbox

The repository builds the sensor ECU (`McmcanFd_Cfg.h:5`), which has no
mailboxes; with `Commands = {}` the module is its handler. The judgment and the
motor ECU share the driver, and the module is instantiated as they build it.
The interrupt handler runs on the core of the tasks, so a task moves only when
`isr = "off"`, and may be interrupted between any two of its accesses
(`BeginRecv`, one `CopyWord` for each access of `memcpy`, `EndRecv`). The bus
(`StoreFrame`, `LoseFrame`) goes on while the handler runs.

Frames are numbered in the order of the bus. The handler's store into a mailbox
is one step: no task runs meanwhile.

How the node raises the interrupt while RF0N is already set is not visible in
the code. `Repeats` is both: TRUE, each stored frame requests the interrupt;
FALSE, only the rise of the flag does. All theorems but `FifoIsNeverStuck` hold
for both, and so do the three violations.

The module implements `Mailbox`, in which a command arrives and is taken, each
in one step: the handler's store is the arrival, `EndRecv` takes, and the frames
`given` are those of the words in `*out`. What `Take` leaves open is what the
code leaves open: the words may be of several unseen commands, and the latest
need not be among them.

### CpuSync

`EmitEvent` is the atomic load-modify-store of `IfxCpu_emitEvent`; `BeginWait`,
`AllDone`, `SomeMissing`, `TimedOut` and `WaitOn` are the accesses of
`IfxCpu_waitEvent`. Cores 1 and 2 may never start. After the barrier they do
nothing.

### Viewer

Each connection has its reader thread, so the readers that were stopped go on
beside the current one until they notice. `pc[r]` is the place of reader `r` in
`run` or `_put_latest`; each call of a queue, of the bus or of the event is a
step. The GUI thread runs one callback at a time, in steps:

| Actions | Code |
|---|---|
| `OpenBus`, `ReportConnected`, `OpenFails` | the first `try` of `run` |
| `CheckStop`, `RecvTimeout`, `RecvFails`, `Awake`, `RecvOther`, `RecvShort`, `RecvDistances` | one round of its loop, by the outcome of `recv` |
| `Discard`, `NothingToDiscard`, `Put` | `_put_latest`, with the fallback of a full queue |
| `Begin`, `ShutDown` | `disconnect_can` and `stop`, which every command runs first |
| `Connect`, `ConnectBadId`, `Disconnect`, `Close` | the rest of `connect_can`, `disconnect_can`, `_on_close` |
| `PollStatus`, `PollData`, `DataPolled` | `_poll_queues` |

Frames are numbered as they are taken from the adapter, so the properties can
compare what is shown with what was received. What a status message says is
its kind. A replaced status queue is dropped, as nobody reads it; a replaced
data queue is kept, as its reader still empties it. The loop over the status
queue is one step: it shares nothing with the data queue. python-can is
external: a bus opens or not, and a bus that is open may fail at any time; one
that was shut down always does.

### Kernel and TaskDelay

A task works and then delays itself, for ever. Its place in `vTaskDelay` is
`pc[t]`; the timer task goes through `prvProcessTimerOrBlockTask`, which is the
same sequence, and blocks for good, as the program has no timers:

| Actions | Code |
|---|---|
| `CreateTask` | `xTaskCreate` with `pvPortMalloc` of heap 1 and `prvAddNewTaskToReadyList`, by `core0_main`, `vTaskStartScheduler`, `xTimerCreateTimerTask` |
| `StartScheduler`, `Off` | `vTaskStartScheduler` loads the first task, or has returned |
| `SuspendAll`, `Block` | `vTaskSuspendAll`, `prvAddCurrentTaskToDelayedList` |
| `ResumeAll`, `UnwindTick`, `EndUnwind`, `ExitCritical` | `xTaskResumeAll`: its critical section, the pended ticks, the yield inside it |
| `YieldWithinApi` | the yield at the end of `vTaskDelay` |
| `PendTick`, `TickInterrupt` | `vPortSystemTickHandler` while the scheduler is suspended, and otherwise |
| `UnblockHead`, `EndScan`, `EndTick` | the loop of `xTaskIncrementTick`, its end and the context interrupt |

A ready list is a ring of items with its end marker and a `pxIndex`. It is
written as a sequence that starts at the item `pxIndex` points at, so that
`listGET_OWNER_OF_NEXT_ENTRY` rotates it, `listINSERT_END` appends to it and
`uxListRemove` of its head makes the last item the head. A delayed list is a
sequence of tasks with wake times, sorted. `uxTopReadyPriority` is the bit map
of the port, as a set. `cpu` is what a context switch saves and loads of the
interrupt state: `uxCriticalNesting` and the mask.

`TaskDelay` says: from the call a task has its number of tick interrupts to
come, and it is awake again when they have come, as soon as the kernel is done.
`Kernel` implements it with `left` = the wrapped wake time less the tick count
less the pended ticks, `awake` = not in a delayed list, `busy` = the scheduler
suspended, the tick handler at work or ticks being made up for. `Leave` of
`TaskDelay` is what makes this strong: whenever the kernel lets a task go on,
the tasks awake are those whose ticks have come, no more and no fewer.

`KernelWait` adds `waited`, the ticks since the watched task was ready or last
ran while a task of no higher priority has the CPU. Its bound is an expression,
`WaitBound == TurnTicks * (2 * Cardinality(Sharing) - 1)`: a turn of each task that
shares the watched one's priority, and, as `pxIndex` may fall back onto the watched
task once (section 4), a second turn of all of them but one; `TurnTicks` is how
many ticks can come in a turn.

## 3. Runs

| Run | Instance | Shows |
|---|---|---|
| `ultrasonic_timing` | 2 sensors, 3 kinds of pulse, confirmation 1, timer range 9, gap 2 | `TypeOK`, `ElapsedExact`, `DecidedInTime`, `CaptureIsFresh`, `SlotSpacing`, `NoEarlyMiss` |
| `ultrasonic_live` | 2 sensors, confirmation 2, saturation 3, timer range 6 | `BoardShowsResults`, `EverySensorMeasured`, `GoneIsReported`, `ImplementsBoard` |
| `sensor_can` | 3 fields, 2 attempts, foreign traffic, no shared element | `SnapshotIsAtomic`, `SendTerminates`, `BoardReachesBus` |
| `sensor_can_layout` | 2 fields, 2 attempts, foreign traffic, the real layout of the RAM | `RequestedIsSent` |
| `sensor_can_overlap` | the same | violates `FrameIntact` |
| `can_rx` | 2 commands and others, FIFO of 3, 2 words, 5 frames | `ReadsStored`, `ReadyIsUnread`, `NeverStuck`, `OnlyNewer`, `TornOnlyIfOvertaken`, `ReadsMailbox` |
| `can_rx_backlog` | 1 command and others, FIFO of 3, every frame requests | violates `NothingLeftBehind` |
| `can_rx_torn`, `can_rx_latest` | 1 command, a frame only when the handler is done | violate `RecvIsWhole`, `LatestIsKept` |
| `cpu_sync` | 3 cores, timer range 5 | `ReleasedOrTimedOut`, `Core0Starts` |
| `viewer` | 2 connections, 2 frames, queue of 1 | `OneLiveReader`, `OnlyCurrentReceives`, `NewestKept`, `ShownInOrder`, `StoppedReaderEnds`, `NewestShown`, `FailureReported` |
| `kernel` | the 5 tasks, delays 4, 2 and 1, tick range 5, 1 pended tick, 8 heaps | `EveryTaskListed`, `HighestRuns`, `MaskIsPrivate`, `WaitIsBounded`, `DelaysExactly`, `EveryTaskRuns` |

Bounds, and why they are enough:

* *time*. A unit of the STM in the model is an arbitrary amount of real time.
  What matters is the order of timeout, slot, scheduling gap and range. The
  timer ranges are only just larger than the longest age, so it wraps in almost
  every slot, at every phase of a measurement (the initial value is arbitrary).
  The real numbers, 30154 us and 40154 us against 2^32 ticks, satisfy the same
  assumptions with room to spare; the proofs hold for all of them.
* *pulses*. 5 mm, 5000 mm and 5001 mm in `ultrasonic_timing`: too short, at the
  end of the valid range and just past it; the distance arithmetic is computed,
  not abstracted. `ultrasonic_live` has one valid pulse, 172 mm.
* *confirmation and saturation*. 2 as in the code where the board is the question
  (`ultrasonic_live`), and 3 instead of 255, so that the saturated counter is
  reached; 1 where only time is (`ultrasonic_timing`).
* *attempts, FIFO, words*. Smallest numbers at which a retry is followed by
  another, a FIFO is partly filled, and a copy has a beginning and an end.
* `MaxVersion` bounds how often a distance changes, `MaxSent` the frames of a
  behaviour. Two changes per distance would only repeat what one shows: what
  the properties tell apart is whether the distance in a message is old or new.
  `CHECK_DEADLOCK FALSE` is set where `MaxSent` lets the receive path come to
  rest, and in `viewer`, which ends when its window is closed.
* `MaxConnects`, `MaxFrames` (`Viewer`): two connections, so that a stopped
  reader meets a new one, and two frames, so that one can overtake the other.
  `MaxStatus` keeps a disturbed bus from filling the status queue between two
  polls; an error is followed by half a second of pause.

* `TickRange`, `MaxPended`, delays (`Kernel`). The counter wraps every five ticks,
  so every delay meets the wrap at every phase. The delays keep the order of the
  program's 500, 100 and 1 and fall due together in every combination; one, the
  longest the range allows but for one value, is nearly a whole wrap. More pended
  ticks than one need a task that is held between `vTaskSuspendAll` and
  `xTaskResumeAll`, a few microseconds of code, for a second tick; the proofs are
  for any number. The heaps are that of the configuration and seven that end
  at each of the creations.
* `Watched` is the status task, whose wait reaches the bound of this instance,
  5 ticks, with these delays; that of the ultrasonic task reaches 4 here, and 5
  when all delays are 1. Before it was proved, the inductive invariant was
  checked for each of the three tasks, several delays and up to 2 pended ticks.

Assumptions about the environment, each a constant or a guard with a name:

* `PollGap` (`Ultrasonic`): two polls end at most this far apart, less than the
  echo timeout of 30 ms. It follows from `WaitIsBounded` of `Kernel`: four tasks
  share priority 0, the idle task among them, which spins for whole slices as
  `configIDLE_SHOULD_YIELD` is 0. A ready ultrasonic task waits at most 5 ticks
  for the CPU, which is proved (`WaitsAreBounded`). With its delay of one tick, one
  turn given away at the late yield of `vTaskDelay` (section 4), and a poll that is
  itself switched out once, that is 16 ms. Round robin alone would make the wait
  3 ticks. The same
  constant in `CpuSync` is the time of one round of the wait loop.
* `UpdatesPerCopy = 1` (`SensorCan`): two results of the ultrasonic task are at
  least the guard time of 10 ms apart (the property `SlotSpacing`), a copy of
  ten words takes less.
* in `sensor_can` no element of the FIFO reaches transmit buffer 0, because
  `BoardReachesBus` fails where every frame may be overwritten; what is said of a
  message under the real layout is checked by `sensor_can_layout`, and
  `sensor_can_overlap` shows what that layout does.
* `Paced` (`CanRx`): the next frame comes when the handler is done with the
  last. TRUE where tearing is shown to need no burst; FALSE elsewhere.

Fairness, and what justifies it:

* `WF(Task)`, `WF(CanTask)`, `WF(Wait(c))`: the scheduler runs each ready task,
  and a core that has started runs. Core 1 and 2 are not assumed to start.
* `WF(Tick)`: the timer counts.
* `WF(Transmit)`: a pending frame wins arbitration some time, while the node is
  on the bus. It is 0x200, and the other frames of `CanMsg.h` are sparse.
* `WF(Reader(r))`, `WF(Gui)`: the two threads run, and Tk serves its timer. No
  command, frame or successful open is assumed.
* `WF(StartUp)`, `WF(TickHandler)`, `SF(TaskStep(t))` for each task but the idle
  one (`Kernel`): `core0_main` goes on, ticks keep coming, and a task that gets
  the CPU again and again gets on with its work. Strong fairness is about the
  work only: that a task does get the CPU is what `EveryTaskRuns` and
  `WaitIsBounded` show.
* None in `CanRx`: its properties are safety properties.

`Capture` has no fairness: echoes need not come.

## 4. What the violations show

1. `sensor_can_overlap`. FIFO 0 begins at 0x200 and has 16 elements of 72 bytes,
   so it ends at 0x680; the transmit buffers begin at 0x400. Without a filter
   list all frames of other nodes are accepted to the FIFO. The eighth goes over
   transmit buffer 0. `RequestedIsSent`, checked for this layout and proved for any,
   says that nothing else gets into a waiting message: the driver itself does not
   touch one.
2. `can_rx_backlog`. One frame is read per interrupt, and the flag cleared after
   it. Frames that share an interrupt are left behind.
3. `can_rx_torn` and `can_rx_latest`. `Recv` copies and then clears the flag, with
   the interrupt enabled: it may hand out a mix of two frames, or clear the flag
   of a frame it has not copied. `TornOnlyIfOvertaken`, checked and proved, bounds
   the harm: only a frame stored after the first access of the copy can tear a
   command or be lost with it.

Not violations, but found by `kernel`: a task of priority 0 may wait five ticks where
a turn of each of the other tasks of its priority takes three. When the running task blocks,
`uxListRemove` moves `pxIndex` back to the item before it, and a task that wakes next
is inserted before that item: it overtakes a task that has waited longer.
`list.h:343` says that every other item is returned before the inserted one; this one
is not. And when a tick comes between the critical section of `xTaskResumeAll` and
the yield of `vTaskDelay`, the task, already blocked, is switched out by it; the
yield is made after it wakes, and gives away the slice it has just got. The first is
within the bound of `WaitIsBounded`. The second is not seen by it, as the task does get
the CPU; it costs one more wait for each call of `vTaskDelay` at most, because the yield
is made once in a call, and `EveryTaskRuns` shows that the task goes on.

That `core0_main` drops the results of `xTaskCreate` is harmless too: the stacks are
all of one size and heap 1 never takes anything back, so a creation that fails
leaves too little for the idle or the timer task, and `vTaskStartScheduler` returns
(`EveryTaskListed`).

Stale comments met on the way, of no effect: `McmcanFd.c:204` (17 bytes, DLC 20;
the structure has 24 bytes) and `McmcanFd.c:215` (12 bytes; it has 14).
`ustest.py` shows 0xFFFF as "Sensor Error"; `TypeOK` of `Ultrasonic`, proved,
says that the ECU never sends it.

## 5. Proofs

The theorems are about `Spec`, where nothing else is said, for every value of the
constants that satisfies the named assumptions of the module.

`UltrasonicProofs`

* `TypeCorrect`. The arithmetic lemmas (`TimTicksToUsType`, `AcceptedInRange`)
  give the range of a published distance.
* `TimerWrapIsHarmless`, `MissOnlyAfterTimeout`, `TriggersASlotApart`. The
  inductive invariant is `TimeInv`. That the wrapped difference is the age needs
  the age to stay below the timer's range (`WrapExact`), and that the age is
  bounded is not visible in any one state: `AgeInv` bounds it by the last
  deadline the task has tested, plus the lag since that test. `PcInv` says in
  which measurement state each place of the task is.
* `MeasurementsEnd`, from the same invariant: the poll that has found the timeout
  passed leaves `WAIT_ECHO`, with whatever it found in the registers.
* `PublishedIsConfirmed`. `BoardInv` relates the counter to the results: as long
  as it is below the confirmation count, it is the number of misses since the
  newest echo, and the distance is that echo.
* `OnlyTheEchoIsMeasured`. Inductive together with `PcInv`.
* `ImplementsTheBoard`. `JudgeInv` adds where the duration that is judged comes
  from; `ShownIsUnique` identifies what is shown with the board's function.

`SensorCanProofs`

* `SnapshotsAreAtomic`, assuming `UpdatesPerCopy = 1` (or 0). The invariant keeps, for the
  fields copied so far, a board of `seen` they agree with, and says which of
  the two boards each is: before the update or after it.
* `RequestsAreSent`, for any layout and with or without other senders. The invariant
  adds that no transmission is requested while the element is filled, and what is in
  it between that and the request (`RequestInv`).

`CanRxProofs`

* `HandlerReadsAFrame`: while a request waits or the handler is about to read,
  the FIFO is not empty (`RequestInv`); by itself inductive.
* `FifoIsNeverStuck`, assuming `Repeats`, from `RoomInv`.
* `ReadyIsNew`, `RecvOnlyNewer`: the numbers in FIFO, handler, mailbox, the copy
  under way and the last copy are ordered (`OrderInv`, `ReadInv`). `RecvOnlyNewer`
  is about every `Recv` that returns TRUE, so none hands out a command again.
* `OnlyOvertakenIsTorn`: as long as the mailbox holds the command of the first word
  copied, all words copied so far are of that command (`CopyInv`), because what the
  handler stores is newer than the mailbox (`OrderInv`).
* `ImplementsTheMailbox`: by `OrderInv` what the handler stores is newer than
  every mailbox, an arrival; by `ReadInv` the end of `Recv` takes words of unseen
  commands from a mailbox that is still marked ready; every other step leaves the
  mailbox alone.
`CpuSyncProofs`

* `TypeCorrect`, `BarrierOrTimeout`: the difference a core computes is the time
  it has waited, as that is bounded by the timeout and one gap.

`ViewerProofs`

* The inductive invariant is `Inv`: `GuiInv` (the polled queues are those of the
  last connection), and for each reader `ReaderInv`: it alone writes its queue,
  so the queue it has emptied is still empty at the put (`pc[r] # "full"`: the
  fallback that could lose the new frame is never reached), and the queue of
  the last connection holds nothing older than the screen (`QueueInv`).
* `TypeCorrect`, `OneReaderIsLive`, `FramesGoToTheCurrent`, `PutLatestKeepsTheNewest` follow from `Inv`
  alone; `ScreenGoesForward` is a step property, from `Inv` and what `PollData`
  shows (`PolledFrame`).

`KernelLists`, `KernelProofs`

* `KernelLists` says what the list operations do to the items of a ring and to the
  entries of a sorted list: inserting and removing lose and double nothing, the
  order by wake times is kept.
* The inductive invariant is `KernelInv`: `Rings` and `Lists` (what the lists hold,
  and that the bit map agrees with them), `NoneTwice`, `Times` (an entry of the
  delayed list is due after the tick count, one of the overflow list before it, and
  `xNextTaskUnblockTime` is the first of them; so the delayed list is empty when
  the count wraps, which `taskSWITCH_DELAYED_LISTS` asserts), `Booting` (all created
  tasks are ready, or the heap has no room for another stack), `Running` (only
  the current task is in the middle of the kernel), `Foremost` and `MaskIsPrivate`.
  The lists' invariants need one another: that a task is inserted once needs
  `NoneTwice`, which needs `Running`, which needs the mask.
* `TypeCorrect`, `NoTaskIsLost`, `HighestPriorityRuns`, `MasksArePrivate` follow.
* `DelaysAreExact`: each step of the kernel is a step of `TaskDelay` or leaves it
  alone, one lemma per action (`...Simulates`). The lemma `TickRemaining` shows that
  incrementing, with or without the wrap, takes one tick from every delay, and a
  pended tick does so at once by being counted.

`KernelWaitProofs`

* `WaitsAreBounded`: for any number of tasks, any delays and any number of pended
  ticks a ready app task waits at most `WaitBound` ticks. It assumes what
  `core0_main` does: the app tasks have the priority of the idle task.
* `waited <= WaitBound` says nothing about the ring, so it is not inductive. The
  invariant is `waited + TurnTicks * Turns(Queue, pxCurrentTCB) + TicksLeft <= WaitBound`
  (`WaitInv`). `Turns` is the most context switches that still come before the one
  to the watched task. When the watched task is the `d`-th item behind `pxIndex`,
  it is `d - 1`, less one if the end marker is between them, unless `pxIndex` stands at the
  watched task or may yet fall back onto it: then it is what follows from the
  first of the end marker and the idle task on, as `pxIndex` does not fall back
  over those. A fall back is thus counted before it happens, which is what
  makes the sum go down. `TicksLeft` is what is left of the current turn.
* It needs `IndexInv` (a task that is about to block has `pxIndex` at its item, or
  at the marker when it is the first after the start) and `YieldInv` (a yield is
  pending only in `xTaskResumeAll`), besides `KernelInv`.
* The lemmas `InsertTurns`, `WokenTurns`, `BlockTurns`, `SwitchTurns`, `StartTurns`
  say what each list operation does to `Turns`; the lemmas `...Keeps` and `...Step(s)`
  that each action goes on with the wait (`GoesOn`), ends a turn (`TurnEnds`) or
  begins the wait (`Begins`); `WaitGoesOn` that each of the three keeps `WaitInv`.

Only model-checked: the liveness properties (`EverySensorMeasured`,
`GoneIsReported`, the liveness of `ImplementsBoard`, `SendTerminates`,
`BoardReachesBus`, `Core0Starts`, `StoppedReaderEnds`, `NewestShown`,
`FailureReported`, `EveryTaskRuns`), which are beyond the proof system.

## 6. Not modelled

* the LED of the status task, the pin modes, the setting up of the peripherals: no
  state that another part reads, or fixed before the tasks run;
* of FreeRTOS: queues (but for the allocation of the timer queue), semaphores,
  notifications, event groups, software timers, deletion, suspension and priority
  changes. The program calls none of them;
* the time between ticks. `vPortSystemTickHandler` sets the next compare value one
  tick after the last one; if it is held up for a whole tick, the next comes only
  after the 32-bit timer has wrapped (`port.c:189`). `Kernel` counts tick interrupts,
  so this is not in it;
* the start-up code, the register headers and the drivers of peripherals that the
  program does not use: most of the repository's lines, no behaviour of the program;
* float32 rounding in `timTicksToUs`: the quotient is rounded exactly. float32
  has 24 bits; for pulses of the valid range the error is below one microsecond
  in 29155;
* the drawing of the viewer and the layout of its 23 bytes: no state but the last
  frame. One thing the model has and no property forbids: a stopped reader's last
  error goes over the "Disconnected" in the status line (`ustest.py:371`);
* the 32-bit overflow of `echoUs * 343`, for pulses of more than 12.5 s:
  the 24-bit counter of the channel overflows long before.

## 7. Plan

1. done: `EchoMath`, `Ultrasonic`, `DistanceBoard`, `MessageRam`, `SensorCan`,
   `CanRx`, `CpuSync`, `Viewer`, `TaskDelay`, `Kernel`, `KernelWait`, their runs and
   proofs.
2. `SensorEcu`: the ultrasonic and the CAN task on one clock, so that
   `UpdatesPerCopy = 1` is a consequence of `SlotSpacing` instead of an
   assumption, and an end-to-end property from echo to bus.
3. done: `Mailbox` for `CanRx`. Left: an abstract screen (newest frame taken) for
   `Viewer`.
4. done: a proof of `WaitIsBounded` for any number of tasks of one priority.
