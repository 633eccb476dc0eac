----------------------------- MODULE KernelWait ------------------------------
(***************************************************************************)
(* How long a ready task waits for the CPU: Kernel with a history variable *)
(* that counts the ticks of one task's wait.                               *)
(***************************************************************************)
EXTENDS Kernel, FiniteSets

CONSTANT Watched   \* the app task whose waits are counted

\* core0_main creates its tasks with priority 0, that of the idle task.
ASSUME WatchAssumption ==
  Watched \in AppTasks /\ Priority[Watched] = Priority[Idle]

\* The tasks that share the CPU with the watched one, the idle task included.
Sharing == { t \in Tasks \ {Watched} : Priority[t] = Priority[Watched] }

\* A tick ends the turn of a task, or more of them if they are pended.
TurnTicks == IF MaxPended = 0 THEN 1 ELSE MaxPended

\* The most ticks a ready task waits.
WaitBound == TurnTicks * (2 * Cardinality(Sharing) - 1)

VARIABLE waited   \* ticks since the watched task was ready or last ran

waitVars == <<vars, waited>>

Waits ==
  /\ phase = "running" /\ pxCurrentTCB # Watched /\ IsReady(Watched)
  /\ Priority[pxCurrentTCB] <= Priority[Watched]

\* A tick interrupt, pended or not; not one that is made up for.
TickComes == PendTick \/ TickInterrupt

\* The count stops one above the bound.
CountTick ==
  waited' = CASE ~Waits'                               -> 0
              [] Waits' /\ TickComes /\ waited <= WaitBound -> waited + 1
              [] OTHER                                 -> waited

WaitInit == Init /\ waited = 0
WaitNext == Next /\ CountTick
WaitSpec == WaitInit /\ [][WaitNext]_waitVars /\ Fairness

\* A ready task gets the CPU within WaitBound ticks.  One turn of each task
\* that shares its priority is not enough: pxIndex falls back from a task that
\* blocks, and when it falls back onto the watched task, all the others come
\* before that one once more.
WaitIsBounded == waited <= WaitBound
=============================================================================
