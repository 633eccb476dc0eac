------------------------------ MODULE Mailbox -------------------------------
(***************************************************************************)
(* What the receive path of the CAN driver promises: of each command the   *)
(* latest is kept, and a task that asks gets one it has not seen, once.    *)
(* There is no FIFO, no interrupt handler and no copy in progress here.    *)
(* What it does not promise is in Take: that the words taken are of one    *)
(* command, and that this is the latest.                                   *)
(***************************************************************************)
EXTENDS Naturals

CONSTANTS
  Commands,  \* the identifiers there is a mailbox for
  Numbers    \* the numbers a frame may have, in the order of the bus

VARIABLES
  latest,  \* the newest command of each kind
  fresh,   \* whether it waits to be taken
  given    \* the frames from which the words taken last came

vars == <<latest, fresh, given>>

Init ==
  /\ latest = [c \in Commands |-> 0]
  /\ fresh = [c \in Commands |-> FALSE]
  /\ given = [c \in Commands |-> {0}]

\* A command arrives, after all that have arrived so far.
Arrive(c) ==
  /\ \E n \in Numbers :
       /\ \A d \in Commands : latest[d] < n
       /\ latest' = [latest EXCEPT ![c] = n]
  /\ fresh' = [fresh EXCEPT ![c] = TRUE]
  /\ UNCHANGED given

\* The commands newer than all a task has had words of.
Unseen(c) ==
  { n \in Numbers : n <= latest[c] /\ \A o \in given[c] : o < n }

\* A task that finds a command waiting takes words of some it has not seen.
Take(c) ==
  /\ fresh[c]
  /\ \E S \in (SUBSET Unseen(c)) \ {{}} : given' = [given EXCEPT ![c] = S]
  /\ fresh' = [fresh EXCEPT ![c] = FALSE]
  /\ UNCHANGED latest

Next == \E c \in Commands : Arrive(c) \/ Take(c)

Spec == Init /\ [][Next]_vars
=============================================================================
