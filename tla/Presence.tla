------------------------------ MODULE Presence ------------------------------
(***************************************************************************)
(* PresenceTracker (src/src/guduck/presence.py) as functions of its state: *)
(* what a frame with or without a person, or a gap, makes of it.           *)
(* CameraRuntime gives it times that never go back, so observe() does not  *)
(* raise.                                                                  *)
(***************************************************************************)
EXTENDS Integers, Sequences

CONSTANTS LeaveSeconds, None

ASSUME PresenceAssumption == LeaveSeconds \in Nat /\ None \notin Nat

PresenceStates == {"unknown", "absent", "present"}

\* state, _recent and _negative_started_at
Trackers == [state : PresenceStates, recent : {w \in Seq(BOOLEAN) : Len(w) <= 3},
             negative : Nat \cup {None}]

NewTracker == [state |-> "unknown", recent |-> <<>>, negative |-> None]

\* Variants: a gap leaves the negative observations, or the window, as they are.
KeepsNegative(p) == [p EXCEPT !.recent = <<>>]
KeepsWindow(p) == [p EXCEPT !.negative = None]

Invalidate(p) == [state |-> p.state, recent |-> <<>>, negative |-> None]

\* deque(maxlen=3)
Window(p, seen) == LET w == Append(p.recent, seen)
                   IN  IF Len(w) > 3 THEN Tail(w) ELSE w

StablePresent(w) == Len(w) = 3 /\ \E i, j \in 1..3 : i # j /\ w[i] /\ w[j]

Observe(p, at, seen) ==
    LET w == Window(p, seen)
        become(s, n) == [state |-> s, recent |-> w, negative |-> n]
    IN  CASE p.state = "unknown" /\ Len(w) = 3 ->
                 become(IF StablePresent(w) THEN "present" ELSE "absent", None)
          [] p.state = "absent" /\ StablePresent(w) -> become("present", None)
          [] p.state = "present" /\ seen -> become("present", None)
          [] p.state = "present" /\ ~seen /\ p.negative = None -> become("present", at)
          [] p.state = "present" /\ ~seen /\ p.negative # None /\ at - p.negative >= LeaveSeconds ->
                 [state |-> "absent", recent |-> <<FALSE>>, negative |-> None]
          [] OTHER -> [p EXCEPT !.recent = w]

\* observe() returned PERSON_ENTERED.
Entered(p, q) == p.state = "absent" /\ q.state = "present"
=============================================================================
