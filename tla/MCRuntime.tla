----------------------------- MODULE MCRuntime -----------------------------
(* Runtime on small instances. *)
EXTENDS Runtime

CONSTANTS c1, c2, s1

OneCamera  == {c1}
TwoCameras == {c1, c2}
OneSpeaker == {s1}
TwoRegions == {0, 1}
FirstRegion == {0}  \* nothing tells the regions apart
=============================================================================
