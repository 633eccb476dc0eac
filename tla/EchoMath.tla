------------------------------ MODULE EchoMath ------------------------------
(***************************************************************************)
(* The arithmetic of App_Ultrasonic.c: from a pulse captured by the TIM    *)
(* channel to a distance, and from microseconds to STM ticks.  Lengths are *)
(* in millimetres and durations in microseconds, as in the code.           *)
(***************************************************************************)
EXTENDS Naturals

SoundSpeedMmPerMs == 343       \* ULTRASONIC_SOUND_SPEED_MM_PER_MS
MinDistanceMm     == 10        \* ULTRASONIC_MIN_DISTANCE_MM
MaxDistanceMm     == 5000      \* ULTRASONIC_MAX_DISTANCE_MM
InvalidDistanceMm == 65535     \* ULTRASONIC_INVALID_DISTANCE_MM

EchoTimeoutUs == (MaxDistanceMm * 2000) \div SoundSpeedMmPerMs + 1000
SensorGuardUs == 10000
SensorSlotUs  == EchoTimeoutUs + SensorGuardUs

\* Every distance the ECU regards as a measurement.
ValidDistances == MinDistanceMm .. MaxDistanceMm

\* timTicksToUs.  mhz is the capture clock in MHz, 0 when it is not running.
\* The float32 quotient plus 0.5f, truncated, is rounding to nearest.
TimTicksToUs(ticks, mhz) ==
  IF mhz = 0 THEN 0 ELSE (2 * ticks + mhz) \div (2 * mhz)

\* The rounded quotient of echoUsToDistanceMm, before its range check.
RawDistanceMm(echoUs) == (echoUs * SoundSpeedMmPerMs + 1000) \div 2000

EchoUsToDistanceMm(echoUs) ==
  IF RawDistanceMm(echoUs) \in ValidDistances
    THEN RawDistanceMm(echoUs)
    ELSE InvalidDistanceMm

\* Mutant of IsDistanceUpdateValid: the out-of-range mark is accepted.
AcceptsInvalidMark(mm) == mm > 0

IsDistanceUpdateValid(mm) == mm > 0 /\ mm # InvalidDistanceMm
=============================================================================
