------------------------------ MODULE CpuSync -------------------------------
(***************************************************************************)
(* Start-up of the three cores (Cpu0_Main.c, Cpu1_Main.c, Cpu2_Main.c).    *)
(* Each core sets its bit in the shared g_cpuSyncEvent and polls it until  *)
(* the bits of all cores are set or a timeout, measured on the wrapping    *)
(* STM0, has passed; the mains ignore which of the two it was.  Core 0     *)
(* then creates the tasks and starts the scheduler.                        *)
(***************************************************************************)
EXTENDS Naturals

CONSTANTS
  Cores,       \* the cores of IFXCPU_CFG_ALLCORE_DONE
  Timeout,     \* the timeout of 1 ms, in STM units
  StmRange,    \* the STM counts modulo this number
  PollGap      \* most units between two reads of the timer in the wait loop

ASSUME CoreAssumption == 0 \in Cores
ASSUME TimeAssumption == /\ Timeout \in Nat \ {0}
                         /\ PollGap \in Nat \ {0}
                         /\ StmRange \in Nat
                         /\ Timeout + PollGap < StmRange

VARIABLES
  stm,      \* STM0_TIM0
  event,    \* the cores whose bit is set in g_cpuSyncEvent
  pc,       \* where each core is
  begin,    \* stmCountBegin of each core
  late,     \* units since a waiting core last looked at the timer
  waited    \* history: units each core has spent waiting

vars == <<stm, event, pc, begin, late, waited>>

\* reset: not at the synchronisation point yet; emitted: bit set, wait not
\* begun; bits, clock: in the loop, about to read the event or the timer.
CoreStates == {"reset", "emitted", "bits", "clock", "released"}

Waiting == {"bits", "clock"}

Init ==
  /\ stm \in 0 .. StmRange - 1
  /\ event = {}
  /\ pc = [c \in Cores |-> "reset"]
  /\ begin = [c \in Cores |-> 0]
  /\ late = [c \in Cores |-> 0]
  /\ waited = [c \in Cores |-> 0]

\* IfxCpu_emitEvent: an atomic load-modify-store of one bit.
EmitEvent(c) ==
  /\ pc[c] = "reset"
  /\ event' = event \cup {c}
  /\ pc' = [pc EXCEPT ![c] = "emitted"]
  /\ UNCHANGED <<stm, begin, late, waited>>

\* Mutant of BeginWait: the timer value before the loop is not taken.
BeginWaitNoStamp(c) ==
  /\ pc[c] = "emitted"
  /\ pc' = [pc EXCEPT ![c] = "bits"]
  /\ UNCHANGED <<stm, event, begin, late, waited>>

\* IfxCpu_waitEvent reads the timer once before its loop.
BeginWait(c) ==
  /\ pc[c] = "emitted"
  /\ begin' = [begin EXCEPT ![c] = stm]
  /\ pc' = [pc EXCEPT ![c] = "bits"]
  /\ UNCHANGED <<stm, event, late, waited>>

\* The loop condition.
AllDone(c) ==
  /\ pc[c] = "bits" /\ event = Cores
  /\ pc' = [pc EXCEPT ![c] = "released"]
  /\ UNCHANGED <<stm, event, begin, late, waited>>

SomeMissing(c) ==
  /\ pc[c] = "bits" /\ event # Cores
  /\ pc' = [pc EXCEPT ![c] = "clock"]
  /\ UNCHANGED <<stm, event, begin, late, waited>>

\* The unsigned difference of two timer values.
TicksSince(start) ==
  IF stm >= start THEN stm - start ELSE stm + StmRange - start

\* Mutant of TimedOut: there is no timeout.
TimedOutNever(c) == pc[c] = "clock" /\ FALSE /\ UNCHANGED vars

\* The timeout breaks the loop; its result is not looked at.
TimedOut(c) ==
  /\ pc[c] = "clock" /\ TicksSince(begin[c]) >= Timeout
  /\ pc' = [pc EXCEPT ![c] = "released"]
  /\ UNCHANGED <<stm, event, begin, late, waited>>

\* Mutant of WaitOn: each round of the loop takes the time stamp anew.
WaitOnRestarts(c) ==
  /\ pc[c] = "clock" /\ TicksSince(begin[c]) < Timeout
  /\ pc' = [pc EXCEPT ![c] = "bits"]
  /\ late' = [late EXCEPT ![c] = 0]
  /\ begin' = [begin EXCEPT ![c] = stm]
  /\ UNCHANGED <<stm, event, waited>>

WaitOn(c) ==
  /\ pc[c] = "clock" /\ TicksSince(begin[c]) < Timeout
  /\ pc' = [pc EXCEPT ![c] = "bits"]
  /\ late' = [late EXCEPT ![c] = 0]
  /\ UNCHANGED <<stm, event, begin, waited>>

\* A waiting core looks at the timer at least every PollGap units.
Tick ==
  /\ \A c \in Cores : pc[c] \in Waiting => late[c] < PollGap
  /\ stm' = IF stm = StmRange - 1 THEN 0 ELSE stm + 1
  /\ late' = [c \in Cores |-> IF pc[c] \in Waiting THEN late[c] + 1 ELSE late[c]]
  /\ waited' =
       [c \in Cores |-> IF pc[c] \in Waiting THEN waited[c] + 1 ELSE waited[c]]
  /\ UNCHANGED <<event, pc, begin>>

Wait(c) == BeginWait(c) \/ AllDone(c) \/ SomeMissing(c) \/ TimedOut(c) \/ WaitOn(c)

Next == Tick \/ \E c \in Cores : EmitEvent(c) \/ Wait(c)

\* Core 0 and a core that has emitted run; another core may never start.
Fairness == /\ WF_vars(Tick)
            /\ WF_vars(EmitEvent(0))
            /\ \A c \in Cores : WF_vars(Wait(c))

Spec == Init /\ [][Next]_vars /\ Fairness

-----------------------------------------------------------------------------
(* Properties.                                                             *)

TypeOK ==
  /\ stm \in 0 .. StmRange - 1
  /\ event \subseteq Cores
  /\ pc \in [Cores -> CoreStates]
  /\ begin \in [Cores -> 0 .. StmRange - 1]
  /\ late \in [Cores -> 0 .. PollGap]
  /\ waited \in [Cores -> 0 .. Timeout + PollGap]

\* A core passes the barrier only because every core reached it or because
\* it has really waited for the timeout, wherever the timer wrapped.
ReleasedOrTimedOut ==
  \A c \in Cores :
    pc[c] = "released" => event = Cores \/ waited[c] >= Timeout

\* Core 0 gets to create its tasks even if another core never starts.
Core0Starts == <>(pc[0] = "released")
=============================================================================
