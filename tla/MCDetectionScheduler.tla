----------------------- MODULE MCDetectionScheduler -----------------------
(* The detection scheduler on small instances. *)
EXTENDS DetectionScheduler

CONSTANTS person, object, c1, c2

MCKinds == {person, object}
MCReplaceable == {object}
OneCamera == {c1}
TwoCameras == {c1, c2}
=============================================================================
