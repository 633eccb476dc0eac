----------------------------- MODULE Ultrasonic -----------------------------
(***************************************************************************)
(* The ultrasonic task (App_Ultrasonic.c) with the hardware it polls: the  *)
(* free-running system timer STM0 and one GTM TIM capture channel per      *)
(* sensor.  The task runs updateMeasurement once per wake-up; the timer    *)
(* and the channels move between any two of its register accesses, so each *)
(* poll is split at those accesses (variable pc).                          *)
(*                                                                         *)
(* Sensors are named by their place in the measurement order, the index of *)
(* g_sensors and g_distances.  Time is counted in an arbitrary unit: one   *)
(* Tick is one unit of the STM and one chance for vTaskDelay(1) to expire. *)
(***************************************************************************)
EXTENDS EchoMath

CONSTANTS
  SensorCount,    \* ULTRASONIC_SENSOR_COUNT
  EchoTimeout,    \* ULTRASONIC_ECHO_TIMEOUT_US in STM units
  SensorSlot,     \* ULTRASONIC_SENSOR_SLOT_US in STM units
  StmRange,       \* the STM counts modulo this number (2^32 on the chip)
  PollGap,        \* most units between the ends of two polls (scheduling)
  NoEchoConfirm,  \* ULTRASONIC_NO_ECHO_CONFIRM_COUNT
  NoEchoLimit,    \* where the no-echo counter saturates (255 in the code)
  Captures,       \* pulse lengths, in TIM ticks, the channels may report
  CaptureMhz      \* capture clock of the TIM channels, 0 when stopped

Sensors == 0 .. SensorCount - 1

\* The longest the task can stay on one sensor before it evaluates the
\* clock again: the sum bounds every age the elapsed-time test meets.
MaxAge == SensorSlot + 2 * PollGap

ASSUME CountAssumption  == SensorCount \in Nat \ {0}
ASSUME TimeAssumption   == /\ EchoTimeout \in Nat \ {0}
                           /\ SensorSlot \in Nat
                           /\ EchoTimeout <= SensorSlot
                           /\ PollGap \in Nat \ {0}
                           /\ PollGap < EchoTimeout
                           /\ StmRange \in Nat
                           /\ MaxAge < StmRange
ASSUME NoEchoAssumption == /\ NoEchoConfirm \in Nat \ {0}
                           /\ NoEchoLimit \in Nat
                           /\ NoEchoConfirm <= NoEchoLimit
ASSUME CaptureAssumption == Captures \subseteq Nat /\ CaptureMhz \in Nat

VARIABLES
  stm,                \* IfxStm_getLower: the 32-bit timer
  tim,                \* status bits and GPR0 of each sensor's TIM channel
  pc,                 \* the task's place between two register accesses
  measureState,       \* g_measureState
  activeSensorIndex,  \* g_activeSensorIndex
  stateStartTicks,    \* g_stateStartTicks
  durationUs,         \* durationUs of the active sensor
  distances,          \* g_distances (g_sensors[].distanceMm mirrors it)
  noEchoCount,        \* g_noEchoCount
  lag,                \* units since the last poll ended
  age,                \* history: units since stateStartTicks was taken
  fresh,              \* history: GPR0 was captured since this trigger
  results             \* history: the last results of each sensor, newest first

swVars  == <<measureState, activeSensorIndex, stateStartTicks, durationUs,
             distances, noEchoCount>>
hist    == <<age, fresh, results>>
vars    == <<stm, tim, pc, swVars, lag, hist>>

\* The distances the channels can report, a reset GPR0 included.
CapturedDistances ==
  { EchoUsToDistanceMm(TimTicksToUs(c, CaptureMhz)) : c \in Captures \cup {0} }
    \cap ValidDistances

\* The promise of the task: a turn is done when the slot only has to pass.
Board == INSTANCE DistanceBoard
           WITH turn      <- activeSensorIndex,
                done      <- measureState = "INTER_SENSOR_DELAY",
                Distances <- CapturedDistances

NoEcho == 0            \* the result of a measurement without an echo
ResultLog == [1 .. NoEchoConfirm -> ValidDistances \cup {NoEcho}]

ClearedTim == [newval |-> FALSE, lost |-> FALSE, ovf |-> FALSE, gpr |-> 0]
TimChannels == [newval : BOOLEAN, lost : BOOLEAN, ovf : BOOLEAN,
                gpr : Captures \cup {0}]

PollSteps  == {"init", "delay", "poll", "arm", "read", "judge", "flags",
               "timeout", "expiry"}
MeasureStates == {"IDLE", "WAIT_ECHO", "INTER_SENSOR_DELAY"}

Init ==
  /\ stm \in 0 .. StmRange - 1
  /\ tim = [s \in Sensors |-> ClearedTim]
  /\ pc = "init"
  /\ measureState = "IDLE"
  /\ activeSensorIndex = 0
  /\ stateStartTicks = 0
  /\ durationUs = 0
  /\ distances = [s \in Sensors |-> MaxDistanceMm]
  /\ noEchoCount = [s \in Sensors |-> NoEchoConfirm]
  /\ lag = 0
  /\ age = 0
  /\ fresh = [s \in Sensors |-> FALSE]
  /\ results = [s \in Sensors |-> [i \in 1 .. NoEchoConfirm |-> NoEcho]]

-----------------------------------------------------------------------------
(* What the C functions compute and change.                                *)

\* The unsigned difference of two timer values: it wraps with the timer.
TicksSince(start) ==
  IF stm >= start THEN stm - start ELSE stm + StmRange - start

\* isTimeElapsedUs, always asked of g_stateStartTicks.
IsTimeElapsed(timeout) == TicksSince(stateStartTicks) >= timeout

\* clearTimStatus on the active sensor's channel.
ClearTimStatus ==
  tim' = [tim EXCEPT ![activeSensorIndex] = ClearedTim]

\* Return from updateMeasurement into vTaskDelay.
EndPoll == pc' = "delay" /\ lag' = 0

FinishMeasurement == measureState' = "INTER_SENSOR_DELAY" /\ EndPoll

\* Record a result in the history of a sensor.
Push(r, log) == [i \in 1 .. NoEchoConfirm |-> IF i = 1 THEN r ELSE log[i - 1]]

\* Mutant of AcceptDistance: the miss counter is not reset.
AcceptDistanceKeepsCount(s, mm) ==
  /\ noEchoCount' = noEchoCount
  /\ distances' = [distances EXCEPT ![s] = mm]
  /\ results' = [results EXCEPT ![s] = Push(mm, @)]

AcceptDistance(s, mm) ==
  /\ noEchoCount' = [noEchoCount EXCEPT ![s] = 0]
  /\ distances' = [distances EXCEPT ![s] = mm]
  /\ results' = [results EXCEPT ![s] = Push(mm, @)]

HandleNoEcho(s) ==
  /\ noEchoCount' =
       [noEchoCount EXCEPT ![s] = IF @ < NoEchoLimit THEN @ + 1 ELSE @]
  /\ distances' = IF noEchoCount'[s] >= NoEchoConfirm
                    THEN [distances EXCEPT ![s] = MaxDistanceMm]
                    ELSE distances
  /\ results' = [results EXCEPT ![s] = Push(NoEcho, @)]

-----------------------------------------------------------------------------
(* The task.                                                               *)

\* UltrasonicApp_Init, run once by the task before its loop.
AppInit ==
  /\ pc = "init"
  /\ tim' = [s \in Sensors |-> ClearedTim]
  /\ durationUs' = 0
  /\ distances' = [s \in Sensors |-> MaxDistanceMm]
  /\ noEchoCount' = [s \in Sensors |-> NoEchoConfirm]
  /\ activeSensorIndex' = 0
  /\ stateStartTicks' = stm
  /\ measureState' = "IDLE"
  /\ pc' = "poll"
  /\ age' = 0
  /\ UNCHANGED <<stm, lag, fresh, results>>

\* vTaskDelay(1) expires at the next tick at the earliest.
Wake ==
  /\ pc = "delay" /\ lag > 0
  /\ pc' = "poll"
  /\ UNCHANGED <<stm, tim, swVars, lag, hist>>

\* Mutant of StartMeasurement: the start of the slot is not taken.
StartMeasurementNoStamp ==
  /\ pc = "poll" /\ measureState = "IDLE"
  /\ durationUs' = 0
  /\ pc' = "arm"
  /\ age' = 0
  /\ fresh' = [fresh EXCEPT ![activeSensorIndex] = FALSE]
  /\ UNCHANGED <<stm, tim, stateStartTicks, measureState, activeSensorIndex,
                 distances, noEchoCount, lag, results>>

\* startMeasurement up to the end of the trigger pulse.
StartMeasurement ==
  /\ pc = "poll" /\ measureState = "IDLE"
  /\ durationUs' = 0
  /\ stateStartTicks' = stm
  /\ pc' = "arm"
  /\ age' = 0
  /\ fresh' = [fresh EXCEPT ![activeSensorIndex] = FALSE]
  /\ UNCHANGED <<stm, tim, measureState, activeSensorIndex, distances,
                 noEchoCount, lag, results>>

\* Mutant of ArmTim: the channel is enabled without clearing its status.
ArmTimUncleared ==
  /\ pc = "arm"
  /\ measureState' = "WAIT_ECHO"
  /\ EndPoll
  /\ UNCHANGED <<stm, tim, activeSensorIndex, stateStartTicks, durationUs,
                 distances, noEchoCount, hist>>

\* initTimChannel resets the channel and clears its status; then the wait.
ArmTim ==
  /\ pc = "arm"
  /\ ClearTimStatus
  /\ measureState' = "WAIT_ECHO"
  /\ EndPoll
  /\ UNCHANGED <<stm, activeSensorIndex, stateStartTicks, durationUs,
                 distances, noEchoCount, hist>>

\* The NEWVAL test that opens the WAIT_ECHO case.
CheckNewValue ==
  /\ pc = "poll" /\ measureState = "WAIT_ECHO"
  /\ pc' = IF tim[activeSensorIndex].newval THEN "read" ELSE "flags"
  /\ UNCHANGED <<stm, tim, swVars, lag, hist>>

ReadCapture ==
  /\ pc = "read"
  /\ durationUs' = TimTicksToUs(tim[activeSensorIndex].gpr, CaptureMhz)
  /\ pc' = "judge"
  /\ UNCHANGED <<stm, tim, measureState, activeSensorIndex, stateStartTicks,
                 distances, noEchoCount, lag, hist>>

CapturedMm == EchoUsToDistanceMm(durationUs)

\* The status is cleared and the capture is a plausible distance.
AcceptEcho ==
  /\ pc = "judge" /\ IsDistanceUpdateValid(CapturedMm)
  /\ ClearTimStatus
  /\ AcceptDistance(activeSensorIndex, CapturedMm)
  /\ FinishMeasurement
  /\ UNCHANGED <<stm, activeSensorIndex, stateStartTicks, durationUs, age,
                 fresh>>

\* Mutant of RejectPulse: another poll, whatever the clock says.
RejectPulseAndWait ==
  /\ pc = "judge" /\ ~IsDistanceUpdateValid(CapturedMm)
  /\ ClearTimStatus
  /\ EndPoll
  /\ UNCHANGED <<stm, swVars, hist>>

\* The status is cleared and the capture is not: look at the clock.
RejectPulse ==
  /\ pc = "judge" /\ ~IsDistanceUpdateValid(CapturedMm)
  /\ ClearTimStatus
  /\ pc' = "expiry"
  /\ UNCHANGED <<stm, swVars, lag, hist>>

\* Data lost or counter overflow without a new value: clear, look at the clock.
CaptureFault ==
  /\ pc = "flags"
  /\ tim[activeSensorIndex].lost \/ tim[activeSensorIndex].ovf
  /\ ClearTimStatus
  /\ pc' = "expiry"
  /\ UNCHANGED <<stm, swVars, lag, hist>>

NoCaptureFault ==
  /\ pc = "flags"
  /\ ~(tim[activeSensorIndex].lost \/ tim[activeSensorIndex].ovf)
  /\ pc' = "timeout"
  /\ UNCHANGED <<stm, tim, swVars, lag, hist>>

\* Mutant of ExpireUseless: a useless capture counts as a miss at once.
ExpireUselessAtOnce ==
  /\ pc = "expiry"
  /\ HandleNoEcho(activeSensorIndex)
  /\ FinishMeasurement
  /\ UNCHANGED <<stm, tim, activeSensorIndex, stateStartTicks, durationUs,
                 age, fresh>>

\* Mutant of ExpireUseless: the miss is counted, the measurement goes on.
ExpireUselessGoesOn ==
  /\ pc = "expiry" /\ IsTimeElapsed(EchoTimeout)
  /\ HandleNoEcho(activeSensorIndex)
  /\ EndPoll
  /\ UNCHANGED <<stm, tim, measureState, activeSensorIndex, stateStartTicks,
                 durationUs, age, fresh>>

\* After a useless capture the measurement ends only at the timeout.
ExpireUseless ==
  /\ pc = "expiry" /\ IsTimeElapsed(EchoTimeout)
  /\ HandleNoEcho(activeSensorIndex)
  /\ FinishMeasurement
  /\ UNCHANGED <<stm, tim, activeSensorIndex, stateStartTicks, durationUs,
                 age, fresh>>

\* Mutant of EchoTimedOut: the measurement ends without counting the miss.
EchoTimedOutUncounted ==
  /\ pc = "timeout" /\ IsTimeElapsed(EchoTimeout)
  /\ ClearTimStatus
  /\ durationUs' = 0
  /\ FinishMeasurement
  /\ UNCHANGED <<stm, activeSensorIndex, stateStartTicks, distances,
                 noEchoCount, hist>>

\* Nothing was captured and the timeout has passed.
EchoTimedOut ==
  /\ pc = "timeout" /\ IsTimeElapsed(EchoTimeout)
  /\ ClearTimStatus
  /\ durationUs' = 0
  /\ HandleNoEcho(activeSensorIndex)
  /\ FinishMeasurement
  /\ UNCHANGED <<stm, activeSensorIndex, stateStartTicks, age, fresh>>

KeepWaiting ==
  /\ pc \in {"expiry", "timeout"} /\ ~IsTimeElapsed(EchoTimeout)
  /\ EndPoll
  /\ UNCHANGED <<stm, tim, swVars, hist>>

\* Mutant of NextSensor: the guard time is left out of the slot.
NextSensorNoGuardTime ==
  /\ pc = "poll" /\ measureState = "INTER_SENSOR_DELAY"
  /\ IsTimeElapsed(EchoTimeout)
  /\ activeSensorIndex' = (activeSensorIndex + 1) % SensorCount
  /\ measureState' = "IDLE"
  /\ EndPoll
  /\ UNCHANGED <<stm, tim, stateStartTicks, durationUs, distances,
                 noEchoCount, hist>>

\* Mutant of NextSensor: the index stops at the last sensor.
NextSensorNoWrap ==
  /\ pc = "poll" /\ measureState = "INTER_SENSOR_DELAY"
  /\ IsTimeElapsed(SensorSlot)
  /\ activeSensorIndex' =
       IF activeSensorIndex + 1 >= SensorCount THEN activeSensorIndex
                                               ELSE activeSensorIndex + 1
  /\ measureState' = "IDLE"
  /\ EndPoll
  /\ UNCHANGED <<stm, tim, stateStartTicks, durationUs, distances,
                 noEchoCount, hist>>

\* INTER_SENSOR_DELAY: the slot, counted from the trigger, is over.
NextSensor ==
  /\ pc = "poll" /\ measureState = "INTER_SENSOR_DELAY"
  /\ IsTimeElapsed(SensorSlot)
  /\ activeSensorIndex' =
       IF activeSensorIndex + 1 >= SensorCount THEN 0 ELSE activeSensorIndex + 1
  /\ measureState' = "IDLE"
  /\ EndPoll
  /\ UNCHANGED <<stm, tim, stateStartTicks, durationUs, distances,
                 noEchoCount, hist>>

StayInSlot ==
  /\ pc = "poll" /\ measureState = "INTER_SENSOR_DELAY"
  /\ ~IsTimeElapsed(SensorSlot)
  /\ EndPoll
  /\ UNCHANGED <<stm, tim, swVars, hist>>

Task ==
  \/ AppInit \/ Wake \/ StartMeasurement \/ ArmTim \/ CheckNewValue
  \/ ReadCapture \/ AcceptEcho \/ RejectPulse \/ CaptureFault
  \/ NoCaptureFault \/ ExpireUseless \/ EchoTimedOut \/ KeepWaiting
  \/ NextSensor \/ StayInSlot

-----------------------------------------------------------------------------
(* The hardware, modelled from how the code reads it.                      *)

\* A falling edge ends a pulse on sensor s: echo, reverberation, crosstalk.
\* An unread value is overwritten and the loss recorded.
Capture(s, ticks) ==
  /\ pc # "init"
  /\ tim' = [tim EXCEPT ![s] = [newval |-> TRUE, lost |-> @.lost \/ @.newval,
                                ovf |-> @.ovf, gpr |-> ticks]]
  /\ fresh' = [fresh EXCEPT ![s] = s = activeSensorIndex
                                   /\ measureState = "WAIT_ECHO"]
  /\ UNCHANGED <<stm, pc, swVars, lag, age, results>>

\* The line stays high until the pulse counter overflows.
CounterOverflow(s) ==
  /\ pc # "init" /\ ~tim[s].ovf
  /\ tim' = [tim EXCEPT ![s] = [newval |-> @.newval, lost |-> @.lost,
                                ovf |-> TRUE, gpr |-> @.gpr]]
  /\ UNCHANGED <<stm, pc, swVars, lag, hist>>

\* Time passes.  The scheduler lets a poll end at least every PollGap units.
Tick ==
  /\ lag < PollGap
  /\ stm' = IF stm = StmRange - 1 THEN 0 ELSE stm + 1
  /\ lag' = lag + 1
  /\ age' = IF age < StmRange THEN age + 1 ELSE age
  /\ UNCHANGED <<tim, pc, swVars, fresh, results>>

Hardware ==
  \/ \E s \in Sensors : (\E c \in Captures : Capture(s, c)) \/ CounterOverflow(s)
  \/ Tick

Next == Task \/ Hardware

Fairness == WF_vars(Task) /\ WF_vars(Tick)

Spec == Init /\ [][Next]_vars /\ Fairness

-----------------------------------------------------------------------------
(* Properties.                                                             *)

\* The types of the variables; in particular a stored distance is always in
\* 10..5000 mm, so the 0xFFFF of echoUsToDistanceMm is never published.
TypeOK ==
  /\ stm \in 0 .. StmRange - 1 /\ stateStartTicks \in 0 .. StmRange - 1
  /\ tim \in [Sensors -> TimChannels]
  /\ pc \in PollSteps
  /\ measureState \in MeasureStates
  /\ activeSensorIndex \in Sensors
  /\ durationUs \in Nat
  /\ distances \in [Sensors -> ValidDistances]
  /\ noEchoCount \in [Sensors -> 0 .. NoEchoLimit]
  /\ lag \in 0 .. PollGap
  /\ age \in 0 .. StmRange
  /\ fresh \in [Sensors -> BOOLEAN]
  /\ results \in [Sensors -> ResultLog]

\* Whenever isTimeElapsedUs is about to be evaluated, the wrapped 32-bit
\* difference is the time that really passed: a measurement is never taken
\* for younger than it is because the timer wrapped.
ElapsedExact ==
  measureState # "IDLE" =>
    /\ age < MaxAge
    /\ TicksSince(stateStartTicks) = age

\* A measurement is over by the first poll that ends with EchoTimeout passed:
\* useless pulses, losses and overflows, one in every poll even, cannot hold
\* the task on a sensor.
DecidedInTime ==
  measureState = "WAIT_ECHO" => age < EchoTimeout + PollGap

\* mm is what a sensor with these last results must show: the newest echo
\* among the last NoEchoConfirm results, the maximum when all are misses.
Shows(log, mm) ==
  \/ (\A i \in DOMAIN log : log[i] = NoEcho) /\ mm = MaxDistanceMm
  \/ \E i \in DOMAIN log : /\ log[i] = mm
                           /\ \A j \in 1 .. i - 1 : log[j] = NoEcho
                           /\ mm # NoEcho

\* One missed echo never moves a published distance, NoEchoConfirm in a row
\* always do, whatever the counter's saturation and its resets.
BoardShowsResults == \A s \in Sensors : Shows(results[s], distances[s])

\* In WAIT_ECHO a new value belongs to this trigger: neither the driven
\* trigger pulse nor crosstalk of an earlier slot is taken for the echo
\* ("only the echo pulse is measured", startMeasurement).
CaptureIsFresh ==
  /\ measureState = "WAIT_ECHO" /\ tim[activeSensorIndex].newval
       => fresh[activeSensorIndex]
  /\ pc \in {"read", "judge"} => fresh[activeSensorIndex]

\* A step that ends the active sensor's measurement and records a miss.
EndsWithMiss ==
  /\ measureState = "WAIT_ECHO" /\ measureState' = "INTER_SENSOR_DELAY"
  /\ results'[activeSensorIndex][1] = NoEcho

\* A measurement ends without an echo only when the echo timeout has really
\* passed, whatever invalid pulses, losses and overflows were seen before.
NoEarlyMiss == [][EndsWithMiss => age >= EchoTimeout]_vars

\* The next sensor is allowed to trigger only a whole slot after this one's
\* start: late echoes die out before another sensor listens.
SlotSpacing ==
  [][ measureState = "INTER_SENSOR_DELAY" /\ measureState' = "IDLE"
        => age >= SensorSlot ]_vars

\* No sensor is starved: each one is measured again and again.
EverySensorMeasured ==
  \A s \in Sensors :
    []<>(activeSensorIndex = s /\ measureState = "WAIT_ECHO")

\* The task implements the board: one result per turn, the turns in order,
\* the distances the function of the results, and no turn that never ends,
\* although captures, losses and timeouts come in any order.
ImplementsBoard == Board!Spec

AnyCapture == \E s \in Sensors, c \in Captures : Capture(s, c)

\* When all echoes stop for good every sensor ends up showing the maximum.
GoneIsReported ==
  <>[][~AnyCapture]_vars =>
    \A s \in Sensors : <>[](distances[s] = MaxDistanceMm)
=============================================================================
