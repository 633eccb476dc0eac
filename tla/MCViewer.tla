------------------------------ MODULE MCViewer ------------------------------
(* Instance of the viewer for TLC: see Viewer.cfg.                         *)
EXTENDS Viewer
=============================================================================
