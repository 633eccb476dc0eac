-------------------------- MODULE UltrasonicProofs --------------------------
(***************************************************************************)
(* Theorems about Ultrasonic for every number of sensors, every timing     *)
(* that satisfies TimeAssumption and every set of captures.                *)
(***************************************************************************)
EXTENDS Ultrasonic, TLAPS

\* Which program points go with which measurement state.
PcInv ==
  /\ pc \in {"read", "judge", "flags", "timeout", "expiry"}
       => measureState = "WAIT_ECHO"
  /\ pc \in {"init", "arm"} => measureState = "IDLE"

\* The timer and the true age agree modulo StmRange.
ClockInv ==
  pc # "init" /\ age < StmRange =>
    \/ stm = stateStartTicks + age
    \/ stm = stateStartTicks + age - StmRange

\* How old the measurement can be in each state.
AgeInv ==
  /\ pc = "arm" => age <= lag
  /\ measureState = "WAIT_ECHO" => age <= EchoTimeout - 1 + lag
  /\ measureState = "INTER_SENSOR_DELAY" => age <= SensorSlot - 1 + PollGap + lag

TimeInv == TypeOK /\ PcInv /\ ClockInv /\ AgeInv

\* A pulse is at most the quotient's dividend, so its length is a number.
LEMMA DivNat == ASSUME NEW a \in Nat, NEW b \in Nat \ {0} PROVE a \div b \in Nat
  OBVIOUS

\* timTicksToUs returns a natural number for every capture clock.
LEMMA TimTicksToUsType ==
  ASSUME NEW t \in Nat PROVE TimTicksToUs(t, CaptureMhz) \in Nat
  BY CaptureAssumption DEF TimTicksToUs

\* What passes the validity test is a distance in range.
LEMMA AcceptedInRange ==
  ASSUME NEW d, IsDistanceUpdateValid(EchoUsToDistanceMm(d))
  PROVE  EchoUsToDistanceMm(d) \in ValidDistances
  BY DEF IsDistanceUpdateValid, EchoUsToDistanceMm

\* What is assumed of the constants, known to every proof below.
USE CountAssumption, TimeAssumption, NoEchoAssumption DEF MaxAge

LEMMA TypeInit == Init => TypeOK
  BY CaptureAssumption
  DEF Init, TypeOK, Sensors, TimChannels, ClearedTim, PollSteps, MeasureStates,
      ResultLog, ValidDistances, MaxDistanceMm, MinDistanceMm

\* A new result pushed onto a log gives a log.
LEMMA PushType ==
  ASSUME NEW log \in ResultLog, NEW r \in ValidDistances \cup {NoEcho}
  PROVE  Push(r, log) \in ResultLog
  BY DEF Push, ResultLog

LEMMA AcceptType ==
  ASSUME TypeOK, NEW s \in Sensors, NEW mm \in ValidDistances,
         AcceptDistance(s, mm)
  PROVE  /\ distances' \in [Sensors -> ValidDistances]
         /\ noEchoCount' \in [Sensors -> 0 .. NoEchoLimit]
         /\ results' \in [Sensors -> ResultLog]
  BY PushType DEF TypeOK, AcceptDistance

LEMMA NoEchoType ==
  ASSUME TypeOK, NEW s \in Sensors, HandleNoEcho(s)
  PROVE  /\ distances' \in [Sensors -> ValidDistances]
         /\ noEchoCount' \in [Sensors -> 0 .. NoEchoLimit]
         /\ results' \in [Sensors -> ResultLog]
  <1>1. noEchoCount' \in [Sensors -> 0 .. NoEchoLimit]
    BY DEF TypeOK, HandleNoEcho
  <1>2. distances' \in [Sensors -> ValidDistances]
    BY DEF TypeOK, HandleNoEcho, ValidDistances, MaxDistanceMm, MinDistanceMm
  <1>3. results' \in [Sensors -> ResultLog]
    BY PushType DEF TypeOK, HandleNoEcho
  <1> QED BY <1>1, <1>2, <1>3

\* The variables keep their types in every step.
LEMMA TypeNext == TypeOK /\ [Next]_vars => TypeOK'
  <1> SUFFICES ASSUME TypeOK, [Next]_vars PROVE TypeOK'
    OBVIOUS
  <1> USE CaptureAssumption DEF TypeOK, Sensors, PollSteps, MeasureStates
  <1>0. ClearedTim \in TimChannels
    BY DEF ClearedTim, TimChannels
  <1>1. CASE AppInit
    BY <1>0, <1>1 DEF AppInit, ValidDistances, MaxDistanceMm, MinDistanceMm
  <1>2. CASE Wake
    BY <1>2 DEF Wake, swVars, hist
  <1>3. CASE StartMeasurement
    BY <1>3 DEF StartMeasurement
  <1>4. CASE ArmTim
    BY <1>0, <1>4 DEF ArmTim, ClearTimStatus, EndPoll, hist
  <1>5. CASE CheckNewValue
    BY <1>5 DEF CheckNewValue, swVars, hist
  <1>6. CASE ReadCapture
    <2>1. tim[activeSensorIndex] \in TimChannels
      OBVIOUS
    <2>2. tim[activeSensorIndex].gpr \in Captures \cup {0}
      BY <2>1 DEF TimChannels
    <2>3. \A x \in Captures \cup {0} : x \in Nat
      OBVIOUS
    <2>4. tim[activeSensorIndex].gpr \in Nat
      BY <2>2, <2>3
    <2> QED BY <1>6, <2>4, TimTicksToUsType DEF ReadCapture, hist
  <1>7. CASE AcceptEcho
    <2>1. CapturedMm \in ValidDistances
      BY <1>7, AcceptedInRange DEF AcceptEcho, CapturedMm
    <2>2. AcceptDistance(activeSensorIndex, CapturedMm)
      BY <1>7 DEF AcceptEcho
    <2> QED
      BY <1>0, <1>7, <2>1, <2>2, AcceptType
      DEF AcceptEcho, ClearTimStatus, FinishMeasurement, EndPoll
  <1>8. CASE RejectPulse
    BY <1>0, <1>8 DEF RejectPulse, ClearTimStatus, swVars, hist
  <1>9. CASE CaptureFault
    BY <1>0, <1>9 DEF CaptureFault, ClearTimStatus, swVars, hist
  <1>10. CASE NoCaptureFault
    BY <1>10 DEF NoCaptureFault, swVars, hist
  <1>11. CASE ExpireUseless
    BY <1>11, NoEchoType DEF ExpireUseless, FinishMeasurement, EndPoll
  <1>12. CASE EchoTimedOut
    BY <1>0, <1>12, NoEchoType
    DEF EchoTimedOut, ClearTimStatus, FinishMeasurement, EndPoll
  <1>13. CASE KeepWaiting
    BY <1>13 DEF KeepWaiting, EndPoll, swVars, hist
  <1>14. CASE NextSensor
    BY <1>14 DEF NextSensor, EndPoll, hist
  <1>15. CASE StayInSlot
    BY <1>15 DEF StayInSlot, EndPoll, swVars, hist
  <1>16. ASSUME NEW s \in Sensors, NEW c \in Captures, Capture(s, c)
         PROVE  TypeOK'
    <2>1. tim' \in [Sensors -> TimChannels]
      BY <1>16 DEF Capture, TimChannels
    <2> QED BY <1>16, <2>1 DEF Capture, swVars
  <1>17. ASSUME NEW s \in Sensors, CounterOverflow(s) PROVE TypeOK'
    <2>1. tim' \in [Sensors -> TimChannels]
      BY <1>17 DEF CounterOverflow, TimChannels
    <2> QED BY <1>17, <2>1 DEF CounterOverflow, swVars, hist
  <1>18. CASE Tick
    BY <1>18 DEF Tick, swVars
  <1>19. CASE UNCHANGED vars
    BY <1>19 DEF vars, swVars, hist
  <1> QED
    BY <1>1, <1>2, <1>3, <1>4, <1>5, <1>6, <1>7, <1>8, <1>9, <1>10, <1>11,
       <1>12, <1>13, <1>14, <1>15, <1>16, <1>17, <1>18, <1>19
    DEF Next, Task, Hardware

\* Type correctness: in particular a published distance is never the 0xFFFF
\* that echoUsToDistanceMm returns for an implausible pulse.
THEOREM TypeCorrect == Spec => []TypeOK
  BY TypeInit, TypeNext, PTL DEF Spec

-----------------------------------------------------------------------------
(* The wrapped timer.                                                      *)

LEMMA TimeInit == Init => TimeInv
  <1> SUFFICES ASSUME Init PROVE TimeInv
    OBVIOUS
  <1>1. TypeOK
    BY TypeInit
  <1>2. PcInv /\ ClockInv /\ AgeInv
    BY DEF Init, PcInv, ClockInv, AgeInv
  <1> QED BY <1>1, <1>2 DEF TimeInv

\* As long as AgeInv holds, the wrapped difference is the true age.
LEMMA WrapExact ==
  ASSUME TimeInv, measureState # "IDLE"
  PROVE  /\ age < MaxAge
         /\ TicksSince(stateStartTicks) = age
  BY DEF TimeInv, TypeOK, PcInv, ClockInv, AgeInv, TicksSince, MeasureStates

\* Each step keeps the bounds: a failed test of the clock ends the poll, so
\* the age grows past a tested bound only by the lag since that poll.
LEMMA TimeNext == TimeInv /\ [Next]_vars => TimeInv'
  <1> SUFFICES ASSUME TimeInv, [Next]_vars PROVE TimeInv'
    OBVIOUS
  <1>T. TypeOK /\ TypeOK'
    BY TypeNext DEF TimeInv
  <1> USE <1>T DEF TimeInv, TypeOK, PcInv, ClockInv, AgeInv
  <1>1. CASE AppInit
    BY <1>1 DEF AppInit
  <1>2. CASE Wake
    BY <1>2 DEF Wake, swVars, hist
  <1>3. CASE StartMeasurement
    BY <1>3 DEF StartMeasurement
  <1>4. CASE ArmTim
    BY <1>4 DEF ArmTim, EndPoll, hist
  <1>5. CASE CheckNewValue
    BY <1>5 DEF CheckNewValue, swVars, hist
  <1>6. CASE ReadCapture
    BY <1>6 DEF ReadCapture, hist
  <1>7. CASE AcceptEcho
    BY <1>7 DEF AcceptEcho, FinishMeasurement, EndPoll
  <1>8. CASE RejectPulse
    BY <1>8 DEF RejectPulse, swVars, hist
  <1>9. CASE CaptureFault
    BY <1>9 DEF CaptureFault, swVars, hist
  <1>10. CASE NoCaptureFault
    BY <1>10 DEF NoCaptureFault, swVars, hist
  <1>11. CASE ExpireUseless
    BY <1>11 DEF ExpireUseless, FinishMeasurement, EndPoll
  <1>12. CASE EchoTimedOut
    BY <1>12 DEF EchoTimedOut, FinishMeasurement, EndPoll
  <1>13. CASE KeepWaiting
    <2>1. age < EchoTimeout
      BY <1>13, WrapExact DEF KeepWaiting, IsTimeElapsed
    <2> QED BY <1>13, <2>1 DEF KeepWaiting, EndPoll, swVars, hist
  <1>14. CASE NextSensor
    BY <1>14 DEF NextSensor, EndPoll, hist
  <1>15. CASE StayInSlot
    <2>1. age < SensorSlot
      BY <1>15, WrapExact DEF StayInSlot, IsTimeElapsed
    <2> QED BY <1>15, <2>1 DEF StayInSlot, EndPoll, swVars, hist
  <1>16. ASSUME NEW s \in Sensors, NEW c \in Captures, Capture(s, c)
         PROVE  TimeInv'
    BY <1>16 DEF Capture, swVars
  <1>17. ASSUME NEW s \in Sensors, CounterOverflow(s) PROVE TimeInv'
    BY <1>17 DEF CounterOverflow, swVars, hist
  <1>18. CASE Tick
    BY <1>18 DEF Tick, swVars, MeasureStates
  <1>19. CASE UNCHANGED vars
    BY <1>19 DEF vars, swVars, hist
  <1> QED
    BY <1>1, <1>2, <1>3, <1>4, <1>5, <1>6, <1>7, <1>8, <1>9, <1>10, <1>11,
       <1>12, <1>13, <1>14, <1>15, <1>16, <1>17, <1>18, <1>19
    DEF Next, Task, Hardware

\* The 32-bit timer may wrap at any moment of a measurement: the elapsed time
\* the code computes from it is the time that passed.
THEOREM TimerWrapIsHarmless == Spec => []ElapsedExact
  <1>1. TimeInv => ElapsedExact
    BY WrapExact DEF ElapsedExact
  <1> QED BY TimeInit, TimeNext, <1>1, PTL DEF Spec

\* No stream of useless captures prolongs a measurement: it is over by the
\* first poll that ends with the echo timeout passed.
THEOREM MeasurementsEnd == Spec => []DecidedInTime
  <1>1. TimeInv => DecidedInTime
    BY DEF TimeInv, TypeOK, AgeInv, DecidedInTime
  <1> QED BY TimeInit, TimeNext, <1>1, PTL DEF Spec

-----------------------------------------------------------------------------
(* What a step may do to a measurement.                                    *)

\* A miss is recorded only by the two expiry branches, and the age they test
\* is the true one.
LEMMA NoEarlyMissStep ==
  ASSUME TimeInv, [Next]_vars, EndsWithMiss
  PROVE  age >= EchoTimeout
  <1> USE DEF TimeInv, TypeOK, EndsWithMiss
  <1>1. CASE ExpireUseless
    BY <1>1, WrapExact DEF ExpireUseless, IsTimeElapsed, PcInv
  <1>2. CASE EchoTimedOut
    BY <1>2, WrapExact DEF EchoTimedOut, IsTimeElapsed, PcInv
  <1>3. CASE AcceptEcho
    <2>1. CapturedMm \in ValidDistances
      BY <1>3, AcceptedInRange DEF AcceptEcho, CapturedMm
    <2>2. results' = [results EXCEPT ![activeSensorIndex] =
                                         Push(CapturedMm, @)]
      BY <1>3 DEF AcceptEcho, AcceptDistance
    <2>3. results'[activeSensorIndex][1] = CapturedMm
      BY <2>2 DEF Push
    <2> QED
      BY <2>1, <2>3 DEF ValidDistances, MinDistanceMm, NoEcho
  <1>4. ASSUME measureState' \in {measureState, "IDLE", "WAIT_ECHO"} PROVE FALSE
    BY <1>4
  <1> QED
    BY <1>1, <1>2, <1>3, <1>4
    DEF Next, Task, Hardware, vars, swVars, AppInit, Wake, StartMeasurement,
        ArmTim, CheckNewValue, ReadCapture, RejectPulse, CaptureFault,
        NoCaptureFault, KeepWaiting, NextSensor, StayInSlot, Capture,
        CounterOverflow, Tick

\* A measurement is never given up before the echo timeout has passed, even
\* when the timer wraps between trigger and test.
THEOREM MissOnlyAfterTimeout == Spec => NoEarlyMiss
  <1>1. TimeInv /\ [Next]_vars =>
          [EndsWithMiss => age >= EchoTimeout]_vars
    BY NoEarlyMissStep
  <1> QED BY TimeInit, TimeNext, <1>1, PTL DEF Spec, NoEarlyMiss

\* Only NextSensor leaves INTER_SENSOR_DELAY, and only after the slot.
LEMMA SlotSpacingStep ==
  ASSUME TimeInv, [Next]_vars,
         measureState = "INTER_SENSOR_DELAY", measureState' = "IDLE"
  PROVE  age >= SensorSlot
  <1> USE DEF TimeInv, TypeOK
  <1>1. CASE NextSensor
    BY <1>1, WrapExact DEF NextSensor, IsTimeElapsed
  <1>2. CASE AppInit
    BY <1>2 DEF AppInit, PcInv
  <1> QED
    BY <1>1, <1>2
    DEF Next, Task, Hardware, vars, swVars, hist, Wake, StartMeasurement,
        ArmTim, CheckNewValue, ReadCapture, AcceptEcho, RejectPulse,
        CaptureFault, NoCaptureFault, ExpireUseless, EchoTimedOut,
        KeepWaiting, FinishMeasurement, StayInSlot, Capture, CounterOverflow,
        Tick

\* Two sensors' triggers are a whole slot apart.
THEOREM TriggersASlotApart == Spec => SlotSpacing
  <1>1. TimeInv /\ [Next]_vars =>
          [ measureState = "INTER_SENSOR_DELAY" /\ measureState' = "IDLE"
              => age >= SensorSlot ]_vars
    BY SlotSpacingStep
  <1> QED BY TimeInit, TimeNext, <1>1, PTL DEF Spec, SlotSpacing
-----------------------------------------------------------------------------
(* The published distance against the results of the last measurements.    *)

\* The counter counts the newest misses exactly until it confirms, and what
\* is published is the result just before them.
SensorInv(log, mm, count) ==
  /\ \A i \in 1 .. NoEchoConfirm : i <= count => log[i] = NoEcho
  /\ IF count < NoEchoConfirm THEN log[count + 1] = mm ELSE mm = MaxDistanceMm

BoardInv ==
  /\ \A s \in Sensors : SensorInv(results[s], distances[s], noEchoCount[s])
  /\ pc = "init" =>
       \A s \in Sensors : \A i \in 1 .. NoEchoConfirm : results[s][i] = NoEcho

LEMMA SensorInvShows ==
  ASSUME NEW log \in ResultLog, NEW mm \in ValidDistances,
         NEW count \in 0 .. NoEchoLimit, SensorInv(log, mm, count)
  PROVE  Shows(log, mm)
  <1>1. DOMAIN log = 1 .. NoEchoConfirm
    BY DEF ResultLog
  <1>2. CASE count < NoEchoConfirm
    <2>1. count + 1 \in 1 .. NoEchoConfirm /\ log[count + 1] = mm
      BY <1>2 DEF SensorInv
    <2>2. \A j \in 1 .. (count + 1) - 1 : log[j] = NoEcho
      BY <1>2 DEF SensorInv
    <2>3. mm # NoEcho
      BY DEF ValidDistances, MinDistanceMm, NoEcho
    <2> QED BY <1>1, <2>1, <2>2, <2>3 DEF Shows
  <1>3. CASE count >= NoEchoConfirm
    BY <1>1, <1>3 DEF SensorInv, Shows
  <1> QED BY <1>2, <1>3

\* acceptDistance: the counter restarts behind the new distance.
LEMMA SensorInvAccept ==
  ASSUME NEW log \in ResultLog, NEW mm \in ValidDistances
  PROVE  SensorInv(Push(mm, log), mm, 0)
  BY DEF SensorInv, Push

\* handleNoEcho: one more miss, and the maximum from NoEchoConfirm on.
LEMMA SensorInvMiss ==
  ASSUME NEW log \in ResultLog, NEW mm \in ValidDistances,
         NEW count \in 0 .. NoEchoLimit, SensorInv(log, mm, count),
         NEW next \in 0 .. NoEchoLimit,
         next = IF count < NoEchoLimit THEN count + 1 ELSE count
  PROVE  SensorInv(Push(NoEcho, log),
                   IF next >= NoEchoConfirm THEN MaxDistanceMm ELSE mm, next)
  <1>1. \A i \in 1 .. NoEchoConfirm : i <= next => Push(NoEcho, log)[i] = NoEcho
    <2> SUFFICES ASSUME NEW i \in 1 .. NoEchoConfirm, i <= next
                 PROVE  Push(NoEcho, log)[i] = NoEcho
      OBVIOUS
    <2>1. CASE i = 1
      BY <2>1 DEF Push
    <2>2. CASE i # 1
      <3>1. i - 1 \in 1 .. NoEchoConfirm /\ i - 1 <= count
        BY <2>2
      <3>2. log[i - 1] = NoEcho
        BY <3>1 DEF SensorInv
      <3> QED BY <2>2, <3>2 DEF Push
    <2> QED BY <2>1, <2>2
  <1>2. CASE next < NoEchoConfirm
    <2>1. count < NoEchoConfirm /\ next = count + 1
      BY <1>2
    <2>2. log[count + 1] = mm
      BY <2>1 DEF SensorInv
    <2>3. Push(NoEcho, log)[next + 1] = log[next]
      BY <1>2, <2>1 DEF Push
    <2> QED BY <1>1, <1>2, <2>1, <2>2, <2>3 DEF SensorInv
  <1>3. CASE next >= NoEchoConfirm
    BY <1>1, <1>3 DEF SensorInv
  <1> QED BY <1>2, <1>3

LEMMA BoardInit == Init => BoardInv
  BY DEF Init, BoardInv, SensorInv

LEMMA BoardAccept ==
  ASSUME TypeOK, BoardInv, NEW a \in Sensors, NEW mm \in ValidDistances,
         AcceptDistance(a, mm)
  PROVE  \A s \in Sensors :
           SensorInv(results'[s], distances'[s], noEchoCount'[s])
  <1> SUFFICES ASSUME NEW s \in Sensors
               PROVE  SensorInv(results'[s], distances'[s], noEchoCount'[s])
    OBVIOUS
  <1>1. CASE s = a
    <2>1. /\ results'[s] = Push(mm, results[s])
          /\ distances'[s] = mm /\ noEchoCount'[s] = 0
      BY <1>1 DEF AcceptDistance, TypeOK
    <2>2. results[s] \in ResultLog
      BY DEF TypeOK
    <2> QED BY <2>1, <2>2, SensorInvAccept
  <1>2. CASE s # a
    <2>1. /\ results'[s] = results[s] /\ distances'[s] = distances[s]
          /\ noEchoCount'[s] = noEchoCount[s]
      BY <1>2 DEF AcceptDistance, TypeOK
    <2> QED BY <2>1 DEF BoardInv
  <1> QED BY <1>1, <1>2

LEMMA BoardMiss ==
  ASSUME TypeOK, BoardInv, NEW a \in Sensors, HandleNoEcho(a)
  PROVE  \A s \in Sensors :
           SensorInv(results'[s], distances'[s], noEchoCount'[s])
  <1> SUFFICES ASSUME NEW s \in Sensors
               PROVE  SensorInv(results'[s], distances'[s], noEchoCount'[s])
    OBVIOUS
  <1>1. CASE s = a
    <2>1. /\ results'[s] = Push(NoEcho, results[s])
          /\ distances'[s] = IF noEchoCount'[s] >= NoEchoConfirm
                               THEN MaxDistanceMm ELSE distances[s]
      BY <1>1 DEF HandleNoEcho, TypeOK
    <2>2. noEchoCount'[s] = IF noEchoCount[s] < NoEchoLimit
                              THEN noEchoCount[s] + 1 ELSE noEchoCount[s]
      BY <1>1 DEF HandleNoEcho, TypeOK
    <2>3. /\ results[s] \in ResultLog /\ distances[s] \in ValidDistances
          /\ noEchoCount[s] \in 0 .. NoEchoLimit
          /\ noEchoCount'[s] \in 0 .. NoEchoLimit
      BY <2>2 DEF TypeOK
    <2>4. SensorInv(results[s], distances[s], noEchoCount[s])
      BY DEF BoardInv
    <2> QED BY <2>1, <2>2, <2>3, <2>4, SensorInvMiss
  <1>2. CASE s # a
    <2>1. /\ results'[s] = results[s] /\ distances'[s] = distances[s]
          /\ noEchoCount'[s] = noEchoCount[s]
      BY <1>2 DEF HandleNoEcho, TypeOK
    <2> QED BY <2>1 DEF BoardInv
  <1> QED BY <1>1, <1>2

LEMMA BoardNext == TypeOK /\ PcInv /\ BoardInv /\ [Next]_vars => BoardInv'
  <1> SUFFICES ASSUME TypeOK, PcInv, BoardInv, [Next]_vars PROVE BoardInv'
    OBVIOUS
  <1>1. CASE AppInit
    <2>1. \A s \in Sensors :
            SensorInv(results'[s], distances'[s], noEchoCount'[s])
      BY <1>1 DEF AppInit, BoardInv, SensorInv
    <2> QED BY <1>1, <2>1 DEF AppInit, BoardInv
  <1>2. CASE AcceptEcho
    <2>1. CapturedMm \in ValidDistances
      BY <1>2, AcceptedInRange DEF AcceptEcho, CapturedMm
    <2>2. activeSensorIndex \in Sensors
      BY DEF TypeOK
    <2>3. AcceptDistance(activeSensorIndex, CapturedMm) /\ pc' = "delay"
      BY <1>2 DEF AcceptEcho, FinishMeasurement, EndPoll
    <2>4. \A s \in Sensors :
            SensorInv(results'[s], distances'[s], noEchoCount'[s])
      BY <2>1, <2>2, <2>3, BoardAccept
    <2> QED BY <2>3, <2>4 DEF BoardInv
  <1>3. CASE ExpireUseless \/ EchoTimedOut
    <2>1. activeSensorIndex \in Sensors
      BY DEF TypeOK
    <2>2. HandleNoEcho(activeSensorIndex) /\ pc' = "delay"
      BY <1>3 DEF ExpireUseless, EchoTimedOut, FinishMeasurement, EndPoll
    <2>3. \A s \in Sensors :
            SensorInv(results'[s], distances'[s], noEchoCount'[s])
      BY <2>1, <2>2, BoardMiss
    <2> QED BY <2>2, <2>3 DEF BoardInv
  <1>4. ASSUME UNCHANGED <<results, distances, noEchoCount>>,
               pc' = "init" => pc = "init"
        PROVE  BoardInv'
    BY <1>4 DEF BoardInv
  <1> QED
    BY <1>1, <1>2, <1>3, <1>4
    DEF Next, Task, Hardware, vars, swVars, hist, Wake, StartMeasurement,
        ArmTim, CheckNewValue, ReadCapture, RejectPulse, CaptureFault,
        NoCaptureFault, KeepWaiting, NextSensor, StayInSlot, EndPoll, Capture,
        CounterOverflow, Tick

\* A sensor shows its newest echo until NoEchoConfirm measurements in a row
\* missed, then the maximum: the 8-bit counter with its saturation computes
\* this for every number of confirmations and every limit at least as large.
THEOREM PublishedIsConfirmed == Spec => []BoardShowsResults
  <1>1. TypeOK /\ BoardInv => BoardShowsResults
    BY SensorInvShows DEF BoardShowsResults, BoardInv, TypeOK
  <1>2. Init => TimeInv /\ BoardInv
    BY TimeInit, BoardInit
  <1>3. TimeInv /\ BoardInv /\ [Next]_vars => (TimeInv /\ BoardInv)'
    BY TimeNext, BoardNext DEF TimeInv
  <1>4. TimeInv => TypeOK
    BY DEF TimeInv
  <1> QED BY <1>1, <1>2, <1>3, <1>4, PTL DEF Spec
-----------------------------------------------------------------------------
(* A new value belongs to the trigger it is read for.                      *)

LEMMA FreshNext ==
  TypeOK /\ PcInv /\ CaptureIsFresh /\ [Next]_vars => CaptureIsFresh'
  <1> SUFFICES ASSUME TypeOK, PcInv, CaptureIsFresh, [Next]_vars
               PROVE  CaptureIsFresh'
    OBVIOUS
  <1> USE DEF TypeOK, PcInv, CaptureIsFresh
  <1>1. CASE ArmTim
    BY <1>1 DEF ArmTim, ClearTimStatus, ClearedTim, EndPoll, hist
  <1>2. CASE StartMeasurement
    BY <1>2 DEF StartMeasurement
  <1>3. CASE CheckNewValue \/ ReadCapture
    BY <1>3 DEF CheckNewValue, ReadCapture, swVars, hist
  <1>4. CASE RejectPulse \/ CaptureFault
    BY <1>4 DEF RejectPulse, CaptureFault, ClearTimStatus, ClearedTim, swVars,
                hist
  <1>5. CASE AcceptEcho \/ ExpireUseless \/ EchoTimedOut
    BY <1>5 DEF AcceptEcho, ExpireUseless, EchoTimedOut, FinishMeasurement,
                EndPoll
  <1>6. CASE NextSensor \/ AppInit
    BY <1>6 DEF NextSensor, AppInit, EndPoll, hist
  <1>7. ASSUME NEW s \in Sensors, NEW c \in Captures, Capture(s, c)
        PROVE  CaptureIsFresh'
    <2>1. UNCHANGED <<pc, measureState, activeSensorIndex>>
      BY <1>7 DEF Capture, swVars
    <2>2. CASE s = activeSensorIndex
      BY <1>7, <2>1, <2>2 DEF Capture
    <2>3. CASE s # activeSensorIndex
      <3>1. /\ tim'[activeSensorIndex] = tim[activeSensorIndex]
            /\ fresh'[activeSensorIndex] = fresh[activeSensorIndex]
        BY <1>7, <2>3 DEF Capture
      <3> QED BY <2>1, <3>1
    <2> QED BY <2>2, <2>3
  <1>8. ASSUME NEW s \in Sensors, CounterOverflow(s) PROVE CaptureIsFresh'
    <2>1. \A r \in Sensors : tim'[r].newval = tim[r].newval
      BY <1>8 DEF CounterOverflow
    <2> QED BY <1>8, <2>1 DEF CounterOverflow, swVars, hist
  <1>9. ASSUME UNCHANGED <<tim, measureState, activeSensorIndex, fresh>>,
               pc' \in {"read", "judge"} => pc \in {"read", "judge"}
        PROVE  CaptureIsFresh'
    BY <1>9
  <1> QED
    BY <1>1, <1>2, <1>3, <1>4, <1>5, <1>6, <1>7, <1>8, <1>9
    DEF Next, Task, Hardware, vars, swVars, hist, Wake, NoCaptureFault,
        KeepWaiting, StayInSlot, EndPoll, Tick

\* Arming the channel after the trigger pulse, with its status cleared, is
\* enough: whatever arrived before is never taken for this echo.
THEOREM OnlyTheEchoIsMeasured == Spec => []CaptureIsFresh
  <1>1. Init => TimeInv /\ CaptureIsFresh
    BY TimeInit DEF Init, CaptureIsFresh
  <1>2. TimeInv /\ CaptureIsFresh /\ [Next]_vars => (TimeInv /\ CaptureIsFresh)'
    BY TimeNext, FreshNext DEF TimeInv
  <1> QED BY <1>1, <1>2, PTL DEF Spec

-----------------------------------------------------------------------------
(* The task implements the board.                                          *)

\* The duration that is judged is that of a pulse the channel can report.
\* The sensors start with the first.
JudgeInv ==
  /\ pc = "judge" =>
       \E c \in Captures \cup {0} : durationUs = TimTicksToUs(c, CaptureMhz)
  /\ pc = "init" => activeSensorIndex = 0

LEMMA JudgeNext == TypeOK /\ JudgeInv /\ [Next]_vars => JudgeInv'
  <1> SUFFICES ASSUME TypeOK, JudgeInv, [Next]_vars PROVE JudgeInv'
    OBVIOUS
  <1>1. CASE ReadCapture
    <2>1. tim[activeSensorIndex].gpr \in Captures \cup {0}
      BY DEF TypeOK, TimChannels
    <2> QED BY <1>1, <2>1 DEF ReadCapture, JudgeInv
  <1>2. ASSUME pc' # "judge" \/ UNCHANGED <<pc, durationUs>>,
               pc' # "init" \/ UNCHANGED <<pc, activeSensorIndex>>
        PROVE  JudgeInv'
    BY <1>2 DEF JudgeInv
  <1> QED
    BY <1>1, <1>2
    DEF Next, Task, Hardware, vars, swVars, hist, AppInit, Wake,
        StartMeasurement, ArmTim, CheckNewValue, AcceptEcho, RejectPulse,
        CaptureFault, NoCaptureFault, ExpireUseless, EchoTimedOut,
        KeepWaiting, NextSensor, StayInSlot, FinishMeasurement, EndPoll,
        Capture, CounterOverflow, Tick

\* Shows determines what is shown: it is the abstract board's function.
LEMMA ShownIsUnique ==
  ASSUME NEW log \in ResultLog, NEW mm, Shows(log, mm)
  PROVE  mm = Board!Shown(log)
  <1> USE DEF Board!Echoes, Board!NoEcho, NoEcho
  <1>0. DOMAIN log = 1 .. NoEchoConfirm
    BY DEF ResultLog
  <1>1. CASE (\A i \in DOMAIN log : log[i] = NoEcho) /\ mm = MaxDistanceMm
    <2>1. Board!Echoes(log) = {}
      BY <1>0, <1>1
    <2> QED BY <1>1, <2>1 DEF Board!Shown, Board!MaxDistanceMm, MaxDistanceMm
  <1>2. ASSUME NEW i \in DOMAIN log, log[i] = mm, mm # NoEcho,
               \A j \in 1 .. i - 1 : log[j] = NoEcho
        PROVE  mm = Board!Shown(log)
    <2>1. i \in Board!Echoes(log) /\ i \in 1 .. NoEchoConfirm
      BY <1>0, <1>2
    <2>2. \A j \in Board!Echoes(log) : i <= j
      BY <1>0, <1>2
    <2>3. ASSUME NEW k \in Board!Echoes(log),
                 \A j \in Board!Echoes(log) : k <= j
          PROVE  k = i
      BY <2>1, <2>2, <2>3
    <2>4. (CHOOSE k \in Board!Echoes(log) :
             \A j \in Board!Echoes(log) : k <= j) = i
      BY <2>1, <2>2, <2>3
    <2> QED BY <1>2, <2>1, <2>4 DEF Board!Shown
  <1> QED BY <1>1, <1>2 DEF Shows

\* A result recorded for the active sensor is the abstract board's step.
LEMMA MeasureStep ==
  ASSUME TypeOK, TypeOK', BoardInv', measureState = "WAIT_ECHO",
         measureState' = "INTER_SENSOR_DELAY",
         activeSensorIndex' = activeSensorIndex,
         NEW r \in CapturedDistances \cup {NoEcho},
         results' = [results EXCEPT ![activeSensorIndex] = Push(r, @)],
         \A s \in Sensors \ {activeSensorIndex} : distances'[s] = distances[s]
  PROVE  Board!Next
  <1> DEFINE a == activeSensorIndex
  <1>1. a \in Sensors
    BY DEF TypeOK
  <1>2. /\ results'[a] \in ResultLog /\ distances'[a] \in ValidDistances
        /\ noEchoCount'[a] \in 0 .. NoEchoLimit
    BY <1>1 DEF TypeOK
  <1>3. distances'[a] = Board!Shown(results'[a])
    BY <1>1, <1>2, SensorInvShows, ShownIsUnique DEF BoardInv
  <1>4. distances' = [distances EXCEPT ![a] = Board!Shown(results'[a])]
    BY <1>1, <1>3 DEF TypeOK
  <1>5. Board!Measure(r)
    BY <1>4 DEF Board!Measure, Push
  <1> QED BY <1>5 DEF Board!Next, Board!NoEcho, NoEcho

LEMMA BoardStep ==
  ASSUME TypeOK, PcInv, BoardInv, JudgeInv, TypeOK', BoardInv', [Next]_vars
  PROVE  [Board!Next]_(Board!vars)
  <1>1. CASE AcceptEcho
    <2>1. CapturedMm \in ValidDistances
      BY <1>1, AcceptedInRange DEF AcceptEcho, CapturedMm
    <2>2. CapturedMm \in CapturedDistances
      BY <1>1, <2>1 DEF AcceptEcho, JudgeInv, CapturedMm, CapturedDistances
    <2>3. /\ measureState = "WAIT_ECHO" /\ measureState' = "INTER_SENSOR_DELAY"
          /\ activeSensorIndex' = activeSensorIndex
      BY <1>1 DEF AcceptEcho, FinishMeasurement, PcInv
    <2>4. /\ results' = [results EXCEPT ![activeSensorIndex] =
                                            Push(CapturedMm, @)]
          /\ \A s \in Sensors \ {activeSensorIndex} :
               distances'[s] = distances[s]
      BY <1>1 DEF AcceptEcho, AcceptDistance, TypeOK
    <2>5. Board!Next
      BY <2>2, <2>3, <2>4, MeasureStep
    <2> QED BY <2>5
  <1>2. CASE ExpireUseless \/ EchoTimedOut
    <2>1. /\ measureState = "WAIT_ECHO" /\ measureState' = "INTER_SENSOR_DELAY"
          /\ activeSensorIndex' = activeSensorIndex
      BY <1>2 DEF ExpireUseless, EchoTimedOut, FinishMeasurement, PcInv
    <2>2. HandleNoEcho(activeSensorIndex)
      BY <1>2 DEF ExpireUseless, EchoTimedOut
    <2>3. /\ results' = [results EXCEPT ![activeSensorIndex] = Push(NoEcho, @)]
          /\ \A s \in Sensors \ {activeSensorIndex} :
               distances'[s] = distances[s]
      BY <2>2 DEF HandleNoEcho, TypeOK
    <2>4. Board!Next
      BY <2>1, <2>3, MeasureStep
    <2> QED BY <2>4
  <1>3. CASE NextSensor
    <2>1. /\ measureState = "INTER_SENSOR_DELAY"
          /\ (measureState' = "INTER_SENSOR_DELAY") = FALSE
          /\ UNCHANGED <<results, distances>>
      BY <1>3 DEF NextSensor, hist
    <2>2. activeSensorIndex \in 0 .. SensorCount - 1
      BY DEF TypeOK, Sensors
    <2>3. activeSensorIndex' = IF activeSensorIndex = SensorCount - 1
                                 THEN 0 ELSE activeSensorIndex + 1
      BY <1>3, <2>2 DEF NextSensor
    <2>4. Board!PassTurn
      BY <2>1, <2>3 DEF Board!PassTurn
    <2> QED BY <2>4 DEF Board!Next
  <1>4. CASE AppInit
    <2>1. ASSUME NEW s \in Sensors PROVE distances[s] = MaxDistanceMm
      <3>1. /\ \A i \in 1 .. NoEchoConfirm : results[s][i] = NoEcho
            /\ SensorInv(results[s], distances[s], noEchoCount[s])
            /\ noEchoCount[s] \in Nat /\ distances[s] # NoEcho
        BY <1>4 DEF AppInit, BoardInv, TypeOK, ValidDistances, MinDistanceMm,
                    NoEcho
      <3> QED BY <3>1 DEF SensorInv
    <2>2. distances' = distances
      BY <1>4, <2>1 DEF AppInit, TypeOK
    <2>3. UNCHANGED <<activeSensorIndex, results>>
      BY <1>4 DEF AppInit, JudgeInv
    <2>4. (measureState = "INTER_SENSOR_DELAY")'
            = (measureState = "INTER_SENSOR_DELAY")
      BY <1>4 DEF AppInit, PcInv
    <2>5. UNCHANGED Board!vars
      BY <2>2, <2>3, <2>4 DEF Board!vars
    <2> QED BY <2>5
  <1>5. ASSUME UNCHANGED <<activeSensorIndex, results, distances>>,
               (measureState = "INTER_SENSOR_DELAY")'
                 = (measureState = "INTER_SENSOR_DELAY")
        PROVE  [Board!Next]_(Board!vars)
    <2>1. UNCHANGED Board!vars
      BY <1>5 DEF Board!vars
    <2> QED BY <2>1
  <1>6. CASE ArmTim
    <2>1. UNCHANGED <<activeSensorIndex, results, distances>>
      BY <1>6 DEF ArmTim, hist
    <2>2. (measureState = "INTER_SENSOR_DELAY")'
            = (measureState = "INTER_SENSOR_DELAY")
      BY <1>6 DEF ArmTim, PcInv
    <2> QED BY <2>1, <2>2, <1>5
  <1>7. CASE StartMeasurement \/ ReadCapture \/ UNCHANGED swVars
             \/ UNCHANGED vars
    <2>1. UNCHANGED <<activeSensorIndex, distances, measureState>>
      BY <1>7 DEF StartMeasurement, ReadCapture, swVars, vars
    <2>2. CASE UNCHANGED results
      BY <2>1, <2>2, <1>5
    <2>3. CASE AcceptEcho \/ ExpireUseless \/ EchoTimedOut
      BY <2>3, <1>1, <1>2
    <2> QED
      BY <1>7, <2>2, <2>3, <1>3, <1>4, <1>6
      DEF Next, Task, Hardware, vars, hist, Wake, StartMeasurement,
          CheckNewValue, ReadCapture, RejectPulse, CaptureFault,
          NoCaptureFault, KeepWaiting, StayInSlot, Capture, CounterOverflow,
          Tick
  <1> QED
    BY <1>1, <1>2, <1>3, <1>4, <1>6, <1>7
    DEF Next, Task, Hardware, Wake, CheckNewValue, RejectPulse, CaptureFault,
        NoCaptureFault, KeepWaiting, StayInSlot, Capture, CounterOverflow, Tick

\* Every behaviour of the task, shown as turns, results and distances, is one
\* of the board; that no turn lasts for ever is left to the model checker.
THEOREM ImplementsTheBoard == Spec => Board!Init /\ [][Board!Next]_(Board!vars)
  <1> DEFINE Inv == TimeInv /\ BoardInv /\ JudgeInv
  <1>1. Init => Inv
    BY TimeInit, BoardInit DEF Init, JudgeInv
  <1>2. Init => Board!Init
    BY DEF Init, Board!Init, Board!Sensors, Sensors, Board!NoEcho, NoEcho,
           Board!MaxDistanceMm, MaxDistanceMm
  <1>3. Inv /\ [Next]_vars => Inv'
    BY TimeNext, BoardNext, JudgeNext DEF TimeInv
  <1>4. Inv /\ Inv' /\ [Next]_vars => [Board!Next]_(Board!vars)
    BY BoardStep DEF TimeInv
  <1> HIDE DEF Inv
  <1> QED BY <1>1, <1>2, <1>3, <1>4, PTL DEF Spec
=============================================================================
