----------------------------- MODULE MCCpuSync ------------------------------
(* The three cores of the TC375 for TLC.                                   *)
EXTENDS CpuSync

ThreeCores == {0, 1, 2}
=============================================================================
