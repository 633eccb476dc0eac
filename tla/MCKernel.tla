------------------------------ MODULE MCKernel -------------------------------
(* An instance of Kernel and KernelWait for TLC: the program's tasks, with *)
(* short delays.                                                           *)
EXTENDS KernelWait

CONSTANTS Status, Can, Ultra

TheAppTasks == {Status, Can, Ultra}
TheOrder    == <<Status, Can, Ultra, Idle, Timer>>
ThePriority == [t \in {Status, Can, Ultra, Idle, Timer} |->
                  IF t = Timer THEN 9 ELSE 0]
\* The order of the delays 500, 100 and 1.
TheDelay    == [t \in TheAppTasks |-> CASE t = Status -> 4
                                        [] t = Can    -> 2
                                        [] t = Ultra  -> 1]

\* The 32 KB of the configuration, and heaps that end at every creation.
TheHeaps == {32760, 5800, 5700, 5000, 4500, 3300, 2200, 1000}
=============================================================================
