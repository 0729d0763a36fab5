-------------------------- MODULE MCXiaomiAccount --------------------------
(* XiaomiAccount on small instances. *)
EXTENDS XiaomiAccount

CONSTANTS u1, u2, d1, d2

TwoUsers   == {u1, u2}
TwoDevices == {d1, d2}
OneEach    == [u \in TwoUsers |-> IF u = u1 THEN {d1} ELSE {d2}]
=============================================================================
