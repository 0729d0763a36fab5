------------------------ MODULE CameraRuntimeProofs ------------------------
(***************************************************************************)
(* Proofs about CameraRuntime for any times and any number of runtimes: a  *)
(* gap in the observations counts neither towards a leave nor an entry.    *)
(***************************************************************************)
EXTENDS CameraRuntime, TLAPS

\* A wait found no frame, and the tracker is not told yet.
Missed == loop = "returned" /\ sample = None

\* The negative observations a leave is counted from were captured after the last sighting and the
\* last gap, and so were the frame in hand and the one after it.
Calm ==
    /\ presence.negative # None =>
           presence.state = "present" /\ (Missed \/ disturbed <= presence.negative)
    /\ disturbed <= now
    /\ sample # None => disturbed <= sample /\ sample <= now
    /\ latest # None => disturbed <= latest /\ latest <= now
    /\ sample # None /\ latest # None => sample <= latest

\* Each sighting in the window was counted.
Counted ==
    LET w == presence.recent
    IN  ~Missed =>
          /\ (\E i \in DOMAIN w : w[i]) => sightings >= 1
          /\ (\E i, j \in DOMAIN w : i # j /\ w[i] /\ w[j]) => sightings >= 2

CInv == TypeOK /\ Calm /\ Counted

-----------------------------------------------------------------------------
USE PresenceAssumption, CameraRuntimeAssumption

(* The tracker. *)

\* A window of at most three observations is one afterwards, and only the new one is added.
LEMMA WindowType ==
    ASSUME NEW p \in Trackers, NEW seen \in BOOLEAN
    PROVE  LET w == Window(p, seen) IN
           /\ w \in Seq(BOOLEAN) /\ Len(w) <= 3 /\ Len(w) >= 1
           /\ w[Len(w)] = seen
           /\ \E d \in {0, 1} : \A i \in 1..(Len(w) - 1) :
                 i + d \in DOMAIN p.recent /\ w[i] = p.recent[i + d]
<1>1. p.recent \in Seq(BOOLEAN) /\ Len(p.recent) <= 3
  BY DEF Trackers
<1> DEFINE a == Append(p.recent, seen)
<1>2. /\ a \in Seq(BOOLEAN) /\ Len(a) = Len(p.recent) + 1 /\ a[Len(a)] = seen
      /\ \A i \in 1..(Len(a) - 1) : i \in DOMAIN p.recent /\ a[i] = p.recent[i]
  BY <1>1
<1>3. CASE Len(a) > 3
  <2>1. Window(p, seen) = Tail(a)
    BY <1>3 DEF Window
  <2>2. /\ Tail(a) \in Seq(BOOLEAN) /\ Len(Tail(a)) = Len(a) - 1
        /\ \A i \in 1..Len(Tail(a)) : Tail(a)[i] = a[i + 1]
    BY <1>2, <1>3
  <2>. QED  BY <1>1, <1>2, <1>3, <2>1, <2>2
<1>4. CASE Len(a) <= 3
  <2>1. Window(p, seen) = a
    BY <1>4, <1>2, <1>1 DEF Window
  <2>. QED  BY <1>1, <1>2, <1>4, <2>1
<1>. QED  BY <1>1, <1>2, <1>3, <1>4

LEMMA ObserveType ==
    ASSUME NEW p \in Trackers, NEW at \in Nat, NEW seen \in BOOLEAN
    PROVE  /\ Observe(p, at, seen) \in Trackers
           /\ Observe(p, at, seen).recent \in {Window(p, seen), <<FALSE>>}
<1>1. Window(p, seen) \in Seq(BOOLEAN) /\ Len(Window(p, seen)) <= 3
  BY WindowType
<1>. QED  BY <1>1 DEF Observe, Trackers, PresenceStates

LEMMA InvalidateType ==
    ASSUME NEW p \in Trackers
    PROVE  /\ Invalidate(p) \in Trackers
           /\ Invalidate(p).state = p.state /\ Invalidate(p).recent = <<>>
           /\ Invalidate(p).negative = None
<1>1. <<>> \in Seq(BOOLEAN) /\ Len(<<>>) = 0
  OBVIOUS
<1>2. p.state \in PresenceStates
  BY DEF Trackers
<1>. QED  BY <1>1, <1>2 DEF Trackers, Invalidate

\* When a tracker counts a leave, and what ends the counting.
LEMMA ObserveNegative ==
    ASSUME NEW p \in Trackers, NEW at \in Nat, NEW seen \in BOOLEAN,
           p.negative # None => p.state = "present",
           Observe(p, at, seen).negative # None
    PROVE  /\ Observe(p, at, seen).state = "present" /\ ~seen
           /\ Observe(p, at, seen).negative \in {at, p.negative}
BY DEF Observe, Trackers, PresenceStates

LEMMA ObserveLeaves ==
    ASSUME NEW p \in Trackers, NEW at \in Nat, NEW seen \in BOOLEAN,
           p.state = "present", Observe(p, at, seen).state = "absent"
    PROVE  ~seen /\ p.negative # None /\ at - p.negative >= LeaveSeconds
BY DEF Observe, Trackers, PresenceStates

LEMMA ObserveEnters ==
    ASSUME NEW p \in Trackers, NEW at \in Nat, NEW seen \in BOOLEAN,
           Entered(p, Observe(p, at, seen))
    PROVE  /\ StablePresent(Window(p, seen))
           /\ Observe(p, at, seen).recent = Window(p, seen)
BY DEF Observe, Entered, Trackers, PresenceStates

LEMMA NewTrackerType == NewTracker \in Trackers
<1>1. <<>> \in Seq(BOOLEAN) /\ Len(<<>>) = 0
  OBVIOUS
<1>. QED  BY <1>1 DEF NewTracker, Trackers, PresenceStates

-----------------------------------------------------------------------------
(* One lemma for each action: it preserves CInv. *)

LEMMA NoJobsType == NoJobs \in [Kinds -> Answers \cup {"none", "asked"}]
BY DEF NoJobs

LEMMA InitCInv == Init => CInv
<1> SUFFICES ASSUME Init  PROVE CInv
  OBVIOUS
<1>1. TypeOK
  <2>1. /\ now \in Times /\ since \in Times /\ disturbed \in Times
        /\ quiet \in 0..OutageSeconds + 1 /\ runtimes \in 0..MaxRuntimes /\ sightings \in 0..2
    BY DEF Init, Times
  <2>2. rules \subseteq Kinds /\ held \subseteq Kinds
    BY DEF Init
  <2>. QED  BY <2>1, <2>2, NewTrackerType, NoJobsType DEF Init, TypeOK
<1>2. Calm /\ Counted
  BY DEF Init, Calm, Counted, NewTracker, Missed
<1>. QED  BY <1>1, <1>2 DEF CInv

\* A runtime that was just made, or forgotten.
LEMMA FreshFacts ==
    ASSUME NEW R \in SUBSET Kinds, NEW b \in BOOLEAN, NEW t \in Times, Fresh(R, b, t),
           now' = now, now \in Times, t <= now
    PROVE  /\ rules' \subseteq Kinds /\ suppress' \in BOOLEAN /\ objectFailed' \in BOOLEAN
           /\ gate' \in BOOLEAN /\ since' \in Times /\ stream' \in {"starting", "ready", "degraded"}
           /\ waited' \in BOOLEAN /\ answer' = NoJobs /\ sample' = None /\ latest' = None
           /\ answer' \in [Kinds -> Answers \cup {"none", "asked"}]
           /\ presence' \in Trackers /\ lastAction' \in Times \cup {None}
           /\ disturbed' \in Times /\ sightings' \in 0..2 /\ quiet' \in 0..OutageSeconds + 1
           /\ Calm' /\ Counted'
<1>1. presence' \in Trackers
  BY NewTrackerType DEF Fresh
<1>2. Calm' /\ Counted'
  BY DEF Fresh, Calm, Counted, NewTracker, Times, Missed
<1>3. /\ since' \in Times /\ disturbed' \in Times /\ sightings' \in 0..2
      /\ quiet' \in 0..OutageSeconds + 1
  BY DEF Fresh
<1>. QED  BY <1>1, <1>2, <1>3, NoJobsType DEF Fresh

LEMMA StartStep ==
    ASSUME CInv, NEW R \in SUBSET Kinds, NEW b \in BOOLEAN, Start(R, b)
    PROVE  CInv'
<1>1. now \in Times /\ now <= now /\ now' = now
  BY DEF CInv, TypeOK, Times, Start
<1>2. TypeOK' <=> runtimes' \in 0..MaxRuntimes
  BY <1>1, FreshFacts DEF CInv, TypeOK, Start
<1>3. Calm' /\ Counted'
  BY <1>1, FreshFacts DEF Start
<1>. QED  BY <1>2, <1>3 DEF CInv, TypeOK, Start

LEMMA StopReturnsStep ==
    ASSUME CInv, StopReturns
    PROVE  CInv'
<1>1. now \in Times /\ 0 \in Times /\ 0 <= now /\ {} \in SUBSET Kinds
  BY DEF CInv, TypeOK, Times
<1>. QED  BY <1>1, FreshFacts DEF CInv, TypeOK, StopReturns

LEMMA StopStep ==
    ASSUME CInv, Stop
    PROVE  CInv'
BY DEF CInv, TypeOK, Calm, Counted, Missed, Stop, objects, outage, frames, person, history

LEMMA ArrivesStep ==
    ASSUME CInv, Arrives
    PROVE  CInv'
<1>1. /\ latest' = now /\ now \in Times /\ now \in Nat
      /\ UNCHANGED <<now, life, loop, waited, objects, outage, sample, answer, person, held,
                     history>>
  BY DEF CInv, TypeOK, Arrives, Times
<1>2. TypeOK'
  BY <1>1 DEF CInv, TypeOK, life, objects, outage, person, history
<1>3. Missed' <=> Missed
  BY <1>1 DEF Missed
<1>4. Calm'
  <2>1. disturbed <= now /\ (sample # None => disturbed <= sample /\ sample <= now)
    BY DEF CInv, Calm
  <2>2. presence' = presence /\ disturbed' = disturbed
    BY <1>1 DEF person, history
  <2>. QED  BY <1>1, <1>3, <2>1, <2>2 DEF CInv, Calm
<1>5. Counted'
  <2>1. presence' = presence /\ sightings' = sightings
    BY <1>1 DEF person, history
  <2>. QED  BY <1>3, <2>1 DEF CInv, Counted
<1>. QED  BY <1>2, <1>4, <1>5 DEF CInv

\* The gap of a missing frame is at the present, and every frame to come is captured after it.
LEMMA WaitEndsStep ==
    ASSUME CInv, WaitEnds
    PROVE  CInv'
<1> USE DEF CInv, WaitEnds, Gap, life, objects, outage, person
<1>1. TypeOK'
  <2>1. /\ disturbed' \in Times /\ sightings' \in 0..2 /\ sample' \in Times \cup {None}
        /\ latest' \in Times \cup {None}
    BY DEF TypeOK
  <2>2. loop' = "returned" /\ waited' = FALSE /\ answer' = NoJobs
    BY DEF TypeOK
  <2>. QED  BY <2>1, <2>2 DEF TypeOK
<1>2. ~Missed /\ UNCHANGED <<now, presence>>
  BY DEF Missed
<1>3. CASE latest # None
  <2>1. sample' = latest /\ latest' = None /\ UNCHANGED <<disturbed, sightings>> /\ ~Missed'
    BY <1>3 DEF Missed
  <2>2. Calm'
    BY <1>2, <1>3, <2>1 DEF Calm
  <2>3. Counted'
    BY <1>2, <2>1 DEF Counted
  <2>. QED  BY <1>1, <2>2, <2>3
<1>4. CASE latest = None
  <2>1. Missed' /\ disturbed' = now /\ now \in Nat /\ latest' = None /\ sample' = None
    BY <1>4 DEF Missed, TypeOK, Times
  <2>2. Calm'
    BY <1>2, <2>1 DEF Calm
  <2>3. Counted'
    BY <2>1 DEF Counted
  <2>. QED  BY <1>1, <2>2, <2>3
<1>. QED  BY <1>3, <1>4

LEMMA MissingFrameStep ==
    ASSUME CInv, MissingFrame
    PROVE  CInv'
<1> USE DEF CInv, MissingFrame, life, frames, history
<1>1. /\ presence' \in Trackers /\ presence'.recent = <<>> /\ presence'.negative = None
  BY InvalidateType DEF TypeOK
<1>2. TypeOK'
  <2>1. stream' \in {"starting", "ready", "degraded"}
    BY DEF TypeOK
  <2>2. loop' \in {"finished", "frame", "dead"}
    BY DEF Loop
  <2>3. answer' = NoJobs /\ sample' = None
    BY DEF TypeOK
  <2>. QED  BY <1>1, <2>1, <2>2, <2>3 DEF TypeOK
<1>3. Calm' /\ Counted'
  BY <1>1 DEF Calm, Counted
<1>. QED  BY <1>2, <1>3

LEMMA FrameStep ==
    ASSUME CInv, NEW changed \in BOOLEAN, NEW gone \in SUBSET Kinds, Frame(changed, gone)
    PROVE  CInv'
<1> DEFINE asked == Requests(changed)
<1> USE DEF CInv, Frame, life, person
<1>1. asked \subseteq Kinds
  BY DEF Requests, Kinds
<1>2. /\ answer' \in [Kinds -> Answers \cup {"none", "asked"}] /\ held' \subseteq Kinds
      /\ asked = {} => answer' = NoJobs
  BY <1>1 DEF TypeOK, Answers, NoJobs
<1>3. sample' \in Times \cup {None} /\ (sample' # None => sample' = sample)
      /\ (asked # {} => sample' # None) /\ (asked = {} => sample' = None)
  BY DEF TypeOK, Times
<1>4. TypeOK'
  <2>1. loop' = IF asked = {} THEN Loop ELSE "detecting"
    OBVIOUS
  <2>2. Loop \in {"finished", "frame"}
    BY DEF Loop
  <2>3. /\ loop' = "detecting" => sample' # None
        /\ loop' # "detecting" => answer' = NoJobs /\ sample' = None
    BY <1>2, <1>3, <2>1, <2>2
  <2>4. suppress' \in BOOLEAN /\ gate' \in BOOLEAN /\ objectFailed' \in BOOLEAN
    BY DEF TypeOK
  <2>5. since' \in Times /\ sightings' \in 0..2 /\ waited' \in BOOLEAN
    BY DEF TypeOK
  <2>6. quiet' \in 0..OutageSeconds + 1 /\ stream' \in {"starting", "ready", "degraded"}
    <3>1. quiet' = 0 /\ stream' = "ready"
      OBVIOUS
    <3>. QED  BY <3>1
  <2>7. loop' \in {"finished", "frame", "detecting"} /\ sample' \in Times \cup {None}
    BY <1>3, <2>1, <2>2
  <2>. QED  BY <1>2, <2>3, <2>4, <2>5, <2>6, <2>7 DEF TypeOK
<1>5. ~Missed /\ ~Missed'
  BY DEF Missed, Loop
<1>6. Calm' /\ Counted'
  BY <1>3, <1>5 DEF Calm, Counted
<1>. QED  BY <1>4, <1>6

LEMMA JobEndsStep ==
    ASSUME CInv, NEW k \in Kinds, NEW result \in Answers, JobEnds(k, result)
    PROVE  CInv'
<1> USE DEF CInv, JobEnds, life, objects, outage, frames, person, history
<1>1. answer' \in [Kinds -> Answers \cup {"none", "asked"}]
      /\ (answer = NoJobs => answer' = NoJobs)
  BY DEF TypeOK, NoJobs
<1>. QED  BY <1>1 DEF TypeOK, Calm, Counted, Missed

LEMMA TickStep ==
    ASSUME CInv, Tick
    PROVE  CInv'
BY DEF CInv, TypeOK, Calm, Counted, Missed, Tick, Times, UpTo, life, objects, outage, frames, person

\* What a detection's answer makes of the window was counted.
LEMMA SightingsCounted ==
    ASSUME CInv, ~Missed, NEW seen \in BOOLEAN,
           NEW n, n = IF seen THEN UpTo(sightings + 1, 2) ELSE sightings
    PROVE  LET w == Window(presence, seen)
           IN  /\ (\E i \in DOMAIN w : w[i]) => n >= 1
               /\ (\E i, j \in DOMAIN w : i # j /\ w[i] /\ w[j]) => n >= 2
<1> DEFINE w == Window(presence, seen)
           v == presence.recent
<1>1. sightings \in 0..2 /\ presence \in Trackers
  BY DEF CInv, TypeOK
<1>2. /\ w \in Seq(BOOLEAN) /\ Len(w) >= 1 /\ w[Len(w)] = seen
      /\ \E d \in {0, 1} : \A i \in 1..(Len(w) - 1) :
            i + d \in DOMAIN v /\ w[i] = v[i + d]
  BY <1>1, WindowType
<1>3. PICK d \in {0, 1} : \A i \in 1..(Len(w) - 1) : i + d \in DOMAIN v /\ w[i] = v[i + d]
  BY <1>2
<1>4. /\ (\E i \in DOMAIN v : v[i]) => sightings >= 1
      /\ (\E i, j \in DOMAIN v : i # j /\ v[i] /\ v[j]) => sightings >= 2
  BY DEF CInv, Counted
<1>5. n = IF seen THEN (IF sightings + 1 < 2 THEN sightings + 1 ELSE 2) ELSE sightings
  BY DEF UpTo
<1>6. DOMAIN w = 1..Len(w) /\ Len(w) \in Nat
  BY <1>2
<1> HIDE DEF w, v
<1>7. ASSUME NEW i \in DOMAIN w, w[i]  PROVE n >= 1
  <2>1. CASE i = Len(w)
    BY <1>1, <1>2, <1>5, <1>7, <2>1
  <2>2. CASE i # Len(w)
    <3>1. i + d \in DOMAIN v /\ v[i + d]
      BY <1>3, <1>6, <1>7, <2>2
    <3>. QED  BY <1>1, <1>4, <1>5, <3>1
  <2>. QED  BY <2>1, <2>2
<1>8. ASSUME NEW i \in DOMAIN w, NEW j \in DOMAIN w, i < j, w[i], w[j]  PROVE n >= 2
  <2>1. i + d \in DOMAIN v /\ v[i + d]
    BY <1>3, <1>6, <1>8
  <2>2. CASE j = Len(w)
    BY <1>1, <1>2, <1>4, <1>5, <1>8, <2>1, <2>2
  <2>3. CASE j # Len(w)
    <3>1. j + d \in DOMAIN v /\ v[j + d]
      BY <1>3, <1>6, <1>8, <2>3
    <3>2. i + d # j + d
      BY <1>3, <1>6, <1>8
    <3>. QED  BY <1>1, <1>4, <1>5, <2>1, <3>1, <3>2
  <2>. QED  BY <2>2, <2>3
<1>9. (\E i, j \in DOMAIN w : i # j /\ w[i] /\ w[j]) => n >= 2
  BY <1>6, <1>8
<1>10. (\E i \in DOMAIN w : w[i]) => n >= 1
  BY <1>7
<1>. QED  BY <1>9, <1>10 DEF w

LEMMA PersonSeenStep ==
    ASSUME CInv, loop = "detecting", NEW seen \in BOOLEAN, NEW on \in BOOLEAN,
           PersonSeen(seen, on)
    PROVE  /\ presence' \in Trackers /\ lastAction' \in Times \cup {None}
           /\ disturbed' \in Times /\ sightings' \in 0..2
           /\ disturbed' <= now /\ Counted'
           /\ latest # None => disturbed' <= latest
           /\ presence'.negative # None =>
                 presence'.state = "present" /\ disturbed' <= presence'.negative
<1>1. /\ sample \in Times /\ sample \in Nat /\ sample <= now /\ disturbed <= sample
      /\ now \in Nat /\ presence \in Trackers
      /\ sightings \in 0..2 /\ disturbed \in Times
  <2>1. TypeOK /\ Calm
    BY DEF CInv
  <2>2. sample # None /\ sample \in Times
    BY <2>1 DEF TypeOK
  <2>3. sample \in Nat /\ now \in Nat
    BY <2>1, <2>2 DEF TypeOK, Times
  <2>4. sample <= now /\ disturbed <= sample
    BY <2>1, <2>2 DEF Calm
  <2>. QED  BY <2>1, <2>2, <2>3, <2>4 DEF TypeOK
<1>0. ~Missed
  BY DEF Missed
<1>2. presence' = Observe(presence, sample, seen)
  BY DEF PersonSeen
<1>3. presence' \in Trackers /\ presence'.recent \in {Window(presence, seen), <<FALSE>>}
  BY <1>1, <1>2, ObserveType
<1>4. /\ disturbed' \in Times /\ disturbed' <= now /\ sightings' \in 0..2
      /\ latest # None => disturbed' <= latest
  BY <1>1 DEF PersonSeen, UpTo, CInv, Calm, TypeOK
<1>5. lastAction' \in Times \cup {None}
  BY <1>1 DEF PersonSeen, CInv, TypeOK
<1>6. Counted'
  <2>1. sightings' = IF seen THEN UpTo(sightings + 1, 2) ELSE sightings
    BY DEF PersonSeen
  <2>2. CASE presence'.recent = Window(presence, seen)
    <3>1. /\ (\E i \in DOMAIN presence'.recent : presence'.recent[i]) => sightings' >= 1
          /\ (\E i, j \in DOMAIN presence'.recent :
                i # j /\ presence'.recent[i] /\ presence'.recent[j]) => sightings' >= 2
      BY <1>0, <2>1, <2>2, SightingsCounted
    <3>. QED  BY <3>1 DEF Counted
  <2>3. CASE presence'.recent = <<FALSE>>
    <3>1. DOMAIN <<FALSE>> = {1} /\ <<FALSE>>[1] = FALSE
      OBVIOUS
    <3>2. \A i \in DOMAIN presence'.recent : i = 1 /\ ~ presence'.recent[i]
      BY <2>3, <3>1
    <3>. QED  BY <3>2 DEF Counted
  <2>. QED  BY <1>3, <2>2, <2>3
<1>7. ASSUME presence'.negative # None
      PROVE  presence'.state = "present" /\ disturbed' <= presence'.negative
  <2>1. presence.negative # None =>
            presence.state = "present" /\ disturbed <= presence.negative
    BY <1>0 DEF CInv, Calm
  <2>2. /\ presence'.state = "present" /\ ~seen
        /\ presence'.negative \in {sample, presence.negative}
    BY <1>1, <1>2, <1>7, <2>1, ObserveNegative
  <2>3. disturbed' = disturbed
    BY <2>2 DEF PersonSeen
  <2>. QED  BY <1>1, <1>7, <2>1, <2>2, <2>3
<1>. QED  BY <1>3, <1>4, <1>5, <1>6, <1>7

\* What a judged frame does, whether the storage raises or not.
LEMMA JudgedStep ==
    ASSUME CInv, NEW on \in BOOLEAN, Judging, PersonJudged(on), objectFailed' \in BOOLEAN,
           loop' \in {"finished", "frame", "dead"}
    PROVE  CInv'
<1> DEFINE a == answer["person"]
           Person == /\ presence' \in Trackers /\ lastAction' \in Times \cup {None}
                     /\ disturbed' \in Times
                     /\ sightings' \in 0..2 /\ disturbed' <= now /\ Counted'
                     /\ latest # None => disturbed' <= latest
                     /\ presence'.negative # None =>
                           presence'.state = "present" /\ disturbed' <= presence'.negative
<1>1. loop = "detecting" /\ now \in Times /\ presence \in Trackers /\ ~Missed
  BY DEF CInv, TypeOK, Judging, Missed
<1>2. ASSUME a = "failed"  PROVE Person
  <2>1. presence' = Invalidate(presence) /\ Gap(sample) /\ lastAction' = lastAction
    BY <1>2 DEF PersonJudged
  <2>2. /\ presence' \in Trackers /\ presence'.recent = <<>> /\ presence'.negative = None
    BY <1>1, <2>1, InvalidateType
  <2>3. Counted'
    BY <2>1, <2>2 DEF Counted, Gap
  <2>4. /\ sample \in Times /\ sample <= now
        /\ latest # None => sample <= latest
    BY <1>1 DEF CInv, TypeOK, Calm
  <2>. QED  BY <1>1, <2>1, <2>2, <2>3, <2>4 DEF Gap, CInv, TypeOK
<1>3. ASSUME a \in {"yes", "no"}  PROVE Person
  <2>1. PersonSeen(a = "yes", on)
    BY <1>3 DEF PersonJudged
  <2>2. (a = "yes") \in BOOLEAN
    OBVIOUS
  <2> HIDE DEF a
  <2>. QED  BY <1>1, <2>1, <2>2, PersonSeenStep
<1>4. ASSUME a \notin {"failed", "yes", "no"}  PROVE Person
  <2>1. UNCHANGED <<person, disturbed, sightings>>
    BY <1>4 DEF PersonJudged
  <2>. QED  BY <1>1, <2>1 DEF person, CInv, TypeOK, Calm, Counted
<1>5. Person
  BY <1>2, <1>3, <1>4
<1>6. /\ answer' = NoJobs /\ sample' = None /\ now' = now
      /\ UNCHANGED <<life, waited, suppress, gate, outage, latest, held, quiet>>
  BY DEF Judging
<1> HIDE DEF Person
<1>7. TypeOK'
  BY <1>5, <1>6, NoJobsType DEF CInv, TypeOK, Person, life, outage
<1>8. Calm'
  <2>1. latest # None => latest <= now
    BY DEF CInv, Calm
  <2>. QED  BY <1>5, <1>6, <2>1 DEF Person, Calm
<1>9. Counted'
  BY <1>5 DEF Person
<1>. QED  BY <1>7, <1>8, <1>9 DEF CInv

LEMMA JudgeStep ==
    ASSUME CInv, NEW on \in BOOLEAN, Judge(on) \/ JudgeRaises(on)
    PROVE  CInv'
<1>1. Judging /\ PersonJudged(on) /\ loop' \in {"finished", "frame", "dead"}
  BY DEF Judge, JudgeRaises, Loop
<1>2. objectFailed' \in BOOLEAN
  BY DEF Judge, JudgeRaises, CInv, TypeOK
<1>. QED  BY <1>1, <1>2, JudgedStep

LEMMA NextCInv == CInv /\ [Next]_vars => CInv'
<1> SUFFICES ASSUME CInv, [Next]_vars  PROVE CInv'
  OBVIOUS
<1>1. CASE \E R \in (SUBSET Kinds) \ {{}}, baseline \in BOOLEAN : Start(R, baseline)
  BY <1>1, StartStep
<1>2. CASE Stop
  BY <1>2, StopStep
<1>3. CASE StopReturns
  BY <1>3, StopReturnsStep
<1>4. CASE MissingFrame
  BY <1>4, MissingFrameStep
<1>5. CASE Arrives \/ WaitEnds
  BY <1>5, ArrivesStep, WaitEndsStep
<1>6. CASE Tick
  BY <1>6, TickStep
<1>7. CASE \E changed \in BOOLEAN, gone \in SUBSET Kinds : Frame(changed, gone)
  BY <1>7, FrameStep
<1>8. CASE \E k \in Kinds, result \in Answers : JobEnds(k, result)
  BY <1>8, JobEndsStep
<1>9. CASE \E on \in BOOLEAN : Judge(on) \/ JudgeRaises(on)
  BY <1>9, JudgeStep
<1>10. CASE UNCHANGED vars
  BY <1>10 DEF vars, life, objects, outage, frames, person, history, CInv, TypeOK, Calm, Counted,
               Missed
<1>. QED  BY <1>1, <1>2, <1>3, <1>4, <1>5, <1>6, <1>7, <1>8, <1>9, <1>10 DEF Next

-----------------------------------------------------------------------------
(* The theorems. *)

\* CInv is an invariant of a camera.
THEOREM CInvHolds == Spec => []CInv
<1>. QED  BY InitCInv, NextCInv, PTL DEF Spec

\* Every variable always has its type, and only a detection has answers.
THEOREM TypeCorrect == Spec => []TypeOK
<1>1. CInv => TypeOK
  BY DEF CInv
<1>. QED  BY <1>1, CInvHolds, PTL

\* Only an answer of the person detector changes what the tracker thinks of an observed person.
LEMMA PresenceSteps ==
    ASSUME CInv, [Next]_vars, presence.state # "unknown", presence'.state # presence.state,
           presence'.state # "unknown"
    PROVE  \E seen, on \in BOOLEAN :
              loop = "detecting" /\ PersonSeen(seen, on)
<1>1. presence \in Trackers /\ answer \in [Kinds -> Answers \cup {"none", "asked"}]
  BY DEF CInv, TypeOK
<1>2. presence' # presence
  OBVIOUS
<1>3. presence' # Invalidate(presence) /\ presence' # NewTracker
  BY <1>1, InvalidateType DEF NewTracker
<1>4. PICK on \in BOOLEAN : Judging /\ PersonJudged(on)
  <2>1. ~ Stop /\ ~ Arrives /\ ~ WaitEnds /\ ~ Tick /\ ~ UNCHANGED vars
    BY <1>2 DEF Stop, Arrives, WaitEnds, Tick, vars, person
  <2>2. ~ MissingFrame /\ ~ StopReturns
    BY <1>3 DEF MissingFrame, StopReturns, Fresh
  <2>3. /\ \A R \in (SUBSET Kinds) \ {{}}, baseline \in BOOLEAN : ~ Start(R, baseline)
        /\ \A changed \in BOOLEAN, gone \in SUBSET Kinds : ~ Frame(changed, gone)
        /\ \A k \in Kinds, result \in Answers : ~ JobEnds(k, result)
    BY <1>2, <1>3 DEF Start, Fresh, Frame, JobEnds, person
  <2>. QED  BY <2>1, <2>2, <2>3 DEF Next, Judge, JudgeRaises
<1>5. answer["person"] \in {"yes", "no"}
  BY <1>2, <1>3, <1>4 DEF PersonJudged, person
<1>6. loop = "detecting" /\ PersonSeen(answer["person"] = "yes", on)
  BY <1>4, <1>5 DEF Judging, PersonJudged
<1>7. (answer["person"] = "yes") \in BOOLEAN
  OBVIOUS
<1>. QED  BY <1>6, <1>7

LEMMA PresenceLoop ==
    ASSUME loop = "detecting", [Next]_vars, presence' # presence, presence'.state # "unknown"
    PROVE  loop' # "returned"
<1>1. ~ Stop /\ ~ Arrives /\ ~ Tick /\ ~ UNCHANGED vars
  BY DEF Stop, Arrives, Tick, vars, person
<1>2. CASE \E on \in BOOLEAN : Judge(on) \/ JudgeRaises(on)
  BY <1>2 DEF Judge, JudgeRaises, Loop
<1>3. ~ WaitEnds /\ ~ MissingFrame
  BY DEF WaitEnds, MissingFrame
<1>4. CASE \/ \E R \in (SUBSET Kinds) \ {{}}, baseline \in BOOLEAN : Start(R, baseline)
           \/ StopReturns
           \/ \E changed \in BOOLEAN, gone \in SUBSET Kinds : Frame(changed, gone)
           \/ \E k \in Kinds, result \in Answers : JobEnds(k, result)
  BY <1>4 DEF Start, StopReturns, Frame, JobEnds, Loop
<1>. QED  BY <1>1, <1>2, <1>3, <1>4 DEF Next

\* A person is taken to have left only when, by the times the frames were captured, LeaveSeconds
\* have passed since the last sighting, failed detection and vain wait for a frame.
THEOREM LeavesConfirmed == Spec => LeavesAreConfirmed
<1>1. ASSUME CInv, [Next]_vars, presence.state = "present", presence'.state = "absent"
      PROVE  sample - disturbed >= LeaveSeconds
  <2>1. PICK seen, on \in BOOLEAN : loop = "detecting" /\ PersonSeen(seen, on)
    BY <1>1, PresenceSteps
  <2>2. /\ sample \in Nat /\ disturbed \in Nat /\ presence \in Trackers
        /\ presence.negative \in Nat \cup {None}
        /\ presence.negative # None => disturbed <= presence.negative
    BY <1>1, <2>1 DEF CInv, TypeOK, Calm, Missed, Times, Trackers
  <2>3. presence' = Observe(presence, sample, seen)
    BY <2>1 DEF PersonSeen
  <2>4. presence.negative # None /\ sample - presence.negative >= LeaveSeconds
    BY <1>1, <2>2, <2>3, ObserveLeaves
  <2>. QED  BY <2>2, <2>4
<1>2. CInv /\ [Next]_vars =>
        [presence.state = "present" /\ presence'.state = "absent" =>
            sample - disturbed >= LeaveSeconds]_vars
  BY <1>1
<1>. QED  BY <1>2, CInvHolds, PTL DEF Spec, LeavesAreConfirmed

\* A person is taken to have entered only on two sightings since the last gap.
THEOREM EntriesConfirmed == Spec => EntriesAreConfirmed
<1>1. ASSUME CInv, CInv', [Next]_vars, Entered(presence, presence')  PROVE sightings' >= 2
  <2>1. PICK seen, on \in BOOLEAN : loop = "detecting" /\ PersonSeen(seen, on)
    BY <1>1, PresenceSteps DEF Entered
  <2>2. sample \in Nat /\ presence \in Trackers
    BY <1>1, <2>1 DEF CInv, TypeOK, Times
  <2>3. presence' = Observe(presence, sample, seen)
    BY <2>1 DEF PersonSeen
  <2>4. StablePresent(Window(presence, seen)) /\ presence'.recent = Window(presence, seen)
    BY <1>1, <2>2, <2>3, ObserveEnters
  <2>5. presence'.recent \in Seq(BOOLEAN)
    BY <1>1 DEF CInv, TypeOK, Trackers
  <2>6. \E i, j \in DOMAIN presence'.recent :
            i # j /\ presence'.recent[i] /\ presence'.recent[j]
    BY <2>4, <2>5 DEF StablePresent
  <2>7. ~Missed'
    BY <1>1, <2>1, PresenceLoop DEF Entered, Missed
  <2>. QED  BY <1>1, <2>6, <2>7 DEF CInv, Counted
<1>2. CInv /\ CInv' /\ [Next]_vars =>
        [Entered(presence, presence') => sightings' >= 2]_vars
  BY <1>1
<1>. QED  BY <1>2, CInvHolds, PTL DEF Spec, EntriesAreConfirmed

-----------------------------------------------------------------------------
(* The outage. *)

\* The ticks waited since the last frame are no more than the time since then, and a camera that
\* has been waited for that long, apart from the wait that goes on, is shown as degraded.
Patient ==
    /\ quiet <= now - since
    /\ loop = "detecting" => quiet = 0
    /\ loop = "frame" /\ quiet >= OutageSeconds /\ (waited => quiet > OutageSeconds) =>
           stream = "degraded"

LEMMA InitPatient == Init => Patient
BY DEF Init, Patient

LEMMA NextPatient == CInv /\ Patient /\ [Next]_vars => Patient'
<1> SUFFICES ASSUME CInv, Patient, [Next]_vars  PROVE Patient'
  OBVIOUS
<1> USE DEF Patient
<1>0. /\ now \in Nat /\ since \in Nat /\ quiet \in 0..OutageSeconds + 1 /\ waited \in BOOLEAN
      /\ OutageSeconds \in Nat /\ OutageSeconds # 0
  BY DEF CInv, TypeOK, Times
<1>1. ASSUME NEW R \in SUBSET Kinds, NEW baseline \in BOOLEAN, Start(R, baseline)
      PROVE  Patient'
  BY <1>0, <1>1 DEF Start, Fresh
<1>2. CASE StopReturns
  BY <1>0, <1>2 DEF StopReturns, Fresh
<1>3. CASE MissingFrame
  BY <1>0, <1>3 DEF MissingFrame, Overdue, Loop, history
<1>4. CASE Tick
  <2>1. now' = now + 1 /\ UNCHANGED <<loop, since, stream>>
    BY <1>4 DEF Tick, outage
  <2>2. CASE loop = "frame"
    <3>1. ~waited /\ quiet' = UpTo(quiet + 1, OutageSeconds + 1)
      BY <1>4, <2>2 DEF Tick
    <3>2. quiet >= OutageSeconds => stream = "degraded"
      BY <2>2, <3>1
    <3>3. quiet' <= now' - since' /\ (quiet' > OutageSeconds => quiet >= OutageSeconds)
      BY <1>0, <2>1, <3>1 DEF UpTo
    <3>4. waited' /\ quiet' > OutageSeconds => stream' = "degraded"
      BY <2>1, <3>2, <3>3
    <3>5. waited' /\ loop' # "detecting"
      BY <1>4, <2>1, <2>2 DEF Tick
    <3>. QED  BY <3>3, <3>4, <3>5
  <2>3. CASE loop # "frame"
    BY <1>0, <1>4, <2>1, <2>3 DEF Tick
  <2>. QED  BY <2>2, <2>3
<1>5. ASSUME NEW changed \in BOOLEAN, NEW gone \in SUBSET Kinds, Frame(changed, gone)
      PROVE  Patient'
  BY <1>0, <1>5 DEF Frame, Loop
<1>6. ASSUME NEW on \in BOOLEAN, Judge(on) \/ JudgeRaises(on)
      PROVE  Patient'
  BY <1>0, <1>6 DEF Judge, JudgeRaises, Judging, Loop, outage
<1>7. ASSUME \/ Stop \/ Arrives \/ WaitEnds \/ UNCHANGED vars
             \/ \E k \in Kinds, result \in Answers : JobEnds(k, result)
      PROVE  Patient'
  BY <1>0, <1>7 DEF Stop, Arrives, WaitEnds, JobEnds, vars, outage, history
<1>. QED  BY <1>1, <1>2, <1>3, <1>4, <1>5, <1>6, <1>7 DEF Next

\* A camera that has been waited for OutageSeconds and one more wait shows as degraded, for any
\* limit and any order of frames, waits and stops.
THEOREM OutageShown == Spec => []OutageIsShown
<1>1. CInv /\ Patient => OutageIsShown
  BY DEF CInv, TypeOK, Patient, OutageIsShown
<1>. QED  BY <1>1, InitPatient, NextPatient, CInvHolds, PTL DEF Spec

=============================================================================
