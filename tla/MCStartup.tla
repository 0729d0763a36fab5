----------------------------- MODULE MCStartup -----------------------------
(* Startup with a few faults. *)
EXTENDS Startup
=============================================================================
