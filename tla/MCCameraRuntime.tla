-------------------------- MODULE MCCameraRuntime --------------------------
(* One camera on small instances; a tick is one wait for a frame.             *)
EXTENDS CameraRuntime
=============================================================================
