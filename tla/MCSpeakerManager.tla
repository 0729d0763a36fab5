-------------------------- MODULE MCSpeakerManager --------------------------
(* Small instances of SpeakerManager for TLC. *)
EXTENDS SpeakerManager

CONSTANTS s1, s2, c1

MCSpeakers == {s1, s2}
MCCameras == {c1}
MCAnnouncements == 1..3
MCObjects == {1, 2}
MCCameraOf == [a \in MCAnnouncements |-> c1]
MCSpeakerOf == [a \in MCAnnouncements |-> IF a = 3 THEN s2 ELSE s1]

MCOneSpeaker == {s1}
MCAllToOne == [a \in MCAnnouncements |-> s1]
=============================================================================
