---------------------------- MODULE DistanceBoard ----------------------------
(***************************************************************************)
(* What the ultrasonic task promises to the readers of g_distances: the    *)
(* sensors take turns in a fixed order; in its turn a sensor yields one    *)
(* result, an echo or a miss; and what the board shows of a sensor is      *)
(* determined by its last NoEchoConfirm results.  There is no timer, no    *)
(* capture unit and no counter here: Ultrasonic implements this.           *)
(***************************************************************************)
EXTENDS EchoMath

CONSTANTS
  SensorCount,    \* ULTRASONIC_SENSOR_COUNT
  NoEchoConfirm,  \* ULTRASONIC_NO_ECHO_CONFIRM_COUNT
  Distances       \* the distances an echo may have

VARIABLES
  turn,       \* the sensor whose turn it is
  done,       \* whether it has yielded its result
  results,    \* the last results of each sensor, newest first
  distances   \* the board

vars == <<turn, done, results, distances>>

Sensors == 0 .. SensorCount - 1
NoEcho  == 0

\* What a sensor with these last results shows: its newest echo, the maximum
\* when there is none.
Echoes(log) == { i \in 1 .. NoEchoConfirm : log[i] # NoEcho }

Shown(log) ==
  IF Echoes(log) = {}
    THEN MaxDistanceMm
    ELSE log[CHOOSE i \in Echoes(log) : \A j \in Echoes(log) : i <= j]

Init ==
  /\ turn = 0 /\ done = FALSE
  /\ results = [s \in Sensors |-> [i \in 1 .. NoEchoConfirm |-> NoEcho]]
  /\ distances = [s \in Sensors |-> MaxDistanceMm]

Measure(r) ==
  /\ ~done /\ done' = TRUE
  /\ results' =
       [results EXCEPT ![turn] =
          [i \in 1 .. NoEchoConfirm |-> IF i = 1 THEN r ELSE @[i - 1]]]
  /\ distances' = [distances EXCEPT ![turn] = Shown(results'[turn])]
  /\ UNCHANGED turn

PassTurn ==
  /\ done /\ done' = FALSE
  /\ turn' = IF turn = SensorCount - 1 THEN 0 ELSE turn + 1
  /\ UNCHANGED <<results, distances>>

Next == PassTurn \/ \E r \in Distances \cup {NoEcho} : Measure(r)

Spec == Init /\ [][Next]_vars /\ WF_vars(Next)
=============================================================================
