---------------------------- MODULE MCUltrasonic ----------------------------
(* Small instances of Ultrasonic for TLC.                                  *)
EXTENDS Ultrasonic

\* TIM ticks at 100 MHz: 30 us (5 mm, too short), 1000 us (172 mm),
\* 29155 us (5000 mm) and 29160 us (5001 mm, too long).
Short  == 3000
Near   == 100000
Far    == 2915500
TooFar == 2916000

Boundaries == {Short, Far, TooFar}
NearOnly   == {Near}
=============================================================================
