------------------------- MODULE AnnouncementLedger -------------------------
(***************************************************************************)
(* What the speaker workers promise about each announcement, without the   *)
(* queues, keys, gates and tasks that keep the promise: it is refused or   *)
(* waits once, a speaker plays one announcement at a time, playing is never*)
(* repeated, what was closed or lost stays so, and only a speaker that     *)
(* nobody serves loses an announcement without closing it.                 *)
(***************************************************************************)
EXTENDS Naturals

CONSTANTS Speakers, Announcements, SpeakerOf

VARIABLES fate, served

Fates == {"new", "waiting", "playing", "closed", "lost"}

In(F) == {a \in Announcements : fate[a] \in F}

Move(A, f) == fate' = [a \in Announcements |-> IF a \in A THEN f ELSE fate[a]]

Init == fate = [a \in Announcements |-> "new"] /\ served \subseteq Speakers

Refuse(a) == a \in In({"new"}) /\ Move({a}, "closed")

\* Taking an announcement may close one older announcement of the same speaker.
Accept(a) ==
    /\ a \in In({"new"})
    /\ \/ Move({a}, "waiting")
       \/ \E b \in In({"waiting"}) :
            /\ b < a /\ SpeakerOf[b] = SpeakerOf[a]
            /\ fate' = [fate EXCEPT ![a] = "waiting", ![b] = "closed"]

Play(a) ==
    /\ a \in In({"waiting"}) /\ SpeakerOf[a] \in served
    /\ \A b \in In({"playing"}) : SpeakerOf[b] # SpeakerOf[a]
    /\ Move({a}, "playing")

Close == \E A \in SUBSET In({"waiting", "playing"}) : Move(A, "closed")

Lose == \E A \in SUBSET In({"waiting", "playing"}) :
          /\ \A a \in A : SpeakerOf[a] \notin served \cap served'
          /\ Move(A, "lost")

Next ==
    /\ served' \subseteq Speakers
    /\ \/ \E a \in Announcements : Refuse(a) \/ Accept(a) \/ Play(a)
       \/ Close
       \/ Lose

Spec == Init /\ [][Next]_<<fate, served>>
=============================================================================
