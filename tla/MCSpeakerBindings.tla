------------------------- MODULE MCSpeakerBindings -------------------------
(* SpeakerBindings on small instances. *)
EXTENDS SpeakerBindings, TLC

CONSTANTS u1, u2, c1, c2

TwoUsers   == {u1, u2}
TwoCameras == {c1, c2}
Alike      == Permutations(TwoUsers) \cup Permutations(TwoCameras)
=============================================================================
