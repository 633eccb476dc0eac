------------------------------- MODULE MCCanRx -------------------------------
(* Small instances of CanRx for TLC.                                       *)
EXTENDS CanRx

CONSTANTS Ultrasonic, AutoParking, Other

OneCommand  == {Ultrasonic}
TwoCommands == {Ultrasonic, AutoParking}
OtherFrames == {Other}
=============================================================================
