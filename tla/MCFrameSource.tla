--------------------------- MODULE MCFrameSource ---------------------------
(* FrameSource on a small instance. *)
EXTENDS FrameSource

ThreeProcesses == 1 .. 3
=============================================================================
