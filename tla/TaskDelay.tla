----------------------------- MODULE TaskDelay ------------------------------
(***************************************************************************)
(* What the kernel promises a task that calls vTaskDelay: it sleeps for    *)
(* its number of tick interrupts, counted from the call, and is ready      *)
(* again when they have passed, no tick sooner and no tick later, as soon  *)
(* as the kernel has finished its bookkeeping.  No tick counter that       *)
(* wraps, no list and no pended tick is here: Kernel implements this.      *)
(***************************************************************************)
EXTENDS Naturals

CONSTANTS
  Sleepers,   \* the tasks that delay themselves
  Delay       \* the number of ticks each of them asks for

VARIABLES
  left,       \* ticks that must still come before a task is ready
  awake,      \* the tasks that are not asleep
  busy        \* the kernel is at work, ticks that come are only counted

vars == <<left, awake, busy>>

Init ==
  /\ left = [t \in Sleepers |-> 0]
  /\ awake = Sleepers
  /\ busy = FALSE

\* Some task enters the kernel.
Enter == ~busy /\ busy' = TRUE /\ UNCHANGED <<left, awake>>

\* Task t enters the kernel to sleep: its delay begins.
Call(t) ==
  /\ ~busy /\ busy' = TRUE
  /\ t \in awake
  /\ left' = [left EXCEPT ![t] = Delay[t]]
  /\ UNCHANGED awake

\* The calling task is asleep from here on.
FallAsleep(t) ==
  /\ busy /\ t \in awake
  /\ awake' = awake \ {t}
  /\ UNCHANGED <<left, busy>>

\* A tick interrupt, whatever the kernel is doing.
Tick ==
  /\ left' = [t \in Sleepers |-> IF left[t] > 0 THEN left[t] - 1 ELSE 0]
  /\ busy' = TRUE
  /\ UNCHANGED awake

\* The kernel makes a task ready whose ticks have come ...
Wake(t) ==
  /\ busy /\ left[t] = 0 /\ t \notin awake
  /\ awake' = awake \cup {t}
  /\ UNCHANGED <<left, busy>>

\* ... and leaves only when it has found every such task.
Leave ==
  /\ busy /\ busy' = FALSE
  /\ \A t \in Sleepers : t \in awake <=> left[t] = 0
  /\ UNCHANGED <<left, awake>>

Next ==
  \/ Enter \/ Tick \/ Leave
  \/ \E t \in Sleepers : Call(t) \/ FallAsleep(t) \/ Wake(t)

Spec == Init /\ [][Next]_vars
=============================================================================
