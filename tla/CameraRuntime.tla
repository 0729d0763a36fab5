---------------------------- MODULE CameraRuntime ----------------------------
(***************************************************************************)
(* One camera (src/src/guduck/camera_runtime.py with presence.py, rules.py *)
(* and vision/scene_change.py): the detection loop that waits for frames,  *)
(* asks the scheduler about them, follows who is present and welcomes, and *)
(* the runtimes Runtime makes for the camera one after the other.          *)
(*                                                                         *)
(* A frame is the time it was captured and whether it differs from the one *)
(* before.  The reader of the stream keeps the latest frame; the wait for  *)
(* one ends in a thread, and the loop goes on some time later, with a      *)
(* frame that may be old.  Of the scheduler there is the key it holds for  *)
(* each request that has not left it.  A tick is one wait for a frame.     *)
(* Latencies, confidences and the status of each pipeline, which only the  *)
(* page reads, are left out, and so is what the objects in a frame are.    *)
(***************************************************************************)
EXTENDS Presence

CONSTANTS
    CooldownSeconds,  \* of the welcome rule
    OutageSeconds,    \* CAMERA_OUTAGE_SECONDS
    MaxTime,          \* bound on the clock
    MaxRuntimes       \* bound on the runtimes made for the camera

ASSUME CameraRuntimeAssumption ==
    /\ CooldownSeconds \in Nat /\ OutageSeconds \in Nat \ {0}
    /\ MaxTime \in Nat /\ MaxRuntimes \in Nat

VARIABLES
    now,
    runtimes,      \* how many runtimes were made
    loop,          \* _task: at its awaits "frame" and "detecting", "returned" when the wait for
                   \* a frame is over, "finished", "dead", or "off"
    stop,          \* stop() has been called and has not returned
    waited,        \* the wait for a frame has lasted a tick
    rules,         \* the kinds whose rule the runtime was made with
    suppress,      \* _suppress_initial_object_detection
    objectFailed,  \* _object_failed
    gate,          \* the scene gate has a reference
    since,         \* _last_frame_at, or _started_at before the first frame
    stream,        \* _stream_status: "degraded" once the outage is recorded
    latest,        \* when the latest frame the loop has not seen was captured
    sample,        \* when the frame in the hands of the loop was captured
    answer,        \* what became of its request of each kind
    presence,      \* the PresenceTracker
    lastAction,    \* _last_action_at of the welcome rule
    held,          \* the kinds whose key the scheduler holds for the camera
    disturbed,     \* history: the last frame with somebody in it or with a failed detection,
                   \* or the last wait that found none, whichever was later
    sightings,     \* history: sightings since the last gap, up to two
    quiet          \* history: ticks spent waiting since the last frame

life    == <<runtimes, rules, stop>>
objects == <<suppress, objectFailed, gate>>
outage  == <<since, stream>>
person  == <<presence, lastAction>>
history == <<disturbed, sightings, quiet>>
frames  == <<latest, sample>>
vars    == <<now, life, loop, waited, objects, outage, frames, answer, person, held, history>>

Kinds   == {"person", "object"}
Answers == {"yes", "no", "failed"}
NoJobs  == [k \in Kinds |-> "none"]
Times   == 0..MaxTime
UpTo(n, m) == IF n < m THEN n ELSE m

-----------------------------------------------------------------------------
Init ==
    /\ now = 0 /\ runtimes = 0 /\ rules = {} /\ loop = "off" /\ stop = FALSE /\ waited = FALSE
    /\ suppress = FALSE /\ objectFailed = FALSE /\ gate = FALSE
    /\ since = 0 /\ stream = "starting"
    /\ latest = None /\ sample = None /\ answer = NoJobs
    /\ presence = NewTracker /\ lastAction = None /\ held = {}
    /\ disturbed = 0 /\ sightings = 0 /\ quiet = 0

\* The state of a runtime made at time t; the last one is forgotten when it has stopped.
Fresh(R, baseline, t) ==
    /\ rules' = R /\ suppress' = baseline /\ objectFailed' = FALSE /\ gate' = FALSE
    /\ since' = t /\ stream' = "starting" /\ waited' = FALSE
    /\ answer' = NoJobs /\ latest' = None /\ sample' = None
    /\ presence' = NewTracker /\ lastAction' = None
    /\ disturbed' = t /\ sightings' = 0 /\ quiet' = 0

\* __init__ and start(), for the rules that are on; the first frame after a change of the
\* detection region is a baseline.
Start(R, baseline) ==
    /\ loop = "off" /\ runtimes < MaxRuntimes /\ runtimes' = runtimes + 1
    /\ loop' = "frame" /\ Fresh(R, baseline, now)
    /\ UNCHANGED <<now, stop, held>>

Stop ==
    /\ loop # "off" /\ ~stop /\ stop' = TRUE
    /\ UNCHANGED <<now, runtimes, rules, loop, waited, objects, outage, frames, answer, person,
                   held, history>>

\* Variant: stop() waits for the task without a timeout.
TaskEnded == loop \in {"finished", "dead"}

\* The task has ended, or is cancelled when the timeout finds it at a detection.
TaskEnds == loop \in {"finished", "dead", "detecting"}

\* A cancelled detection leaves its job, and so its key, in the scheduler.
StopReturns ==
    /\ stop /\ TaskEnds
    /\ stop' = FALSE /\ loop' = "off" /\ Fresh({}, FALSE, 0)
    /\ UNCHANGED <<now, runtimes, held>>

-----------------------------------------------------------------------------
(* The detection loop. *)

\* The loop looks at _stop before it waits again.
Loop == IF stop THEN "finished" ELSE "frame"

\* history of a gap in the observations at time t
Gap(t) == disturbed' = t /\ sightings' = 0

\* The reader thread replaces the latest frame, also while the loop looks at an earlier one.
Arrives ==
    /\ loop \notin {"off", "finished", "dead"} /\ latest' = now
    /\ UNCHANGED <<now, life, loop, waited, objects, outage, sample, answer, person, held, history>>

\* wait_for_frame returns the latest frame that was not seen yet, or None: when the wait timed
\* out after a tick or, once stop() waits, before the tick was counted.
WaitEnds ==
    /\ loop = "frame" /\ loop' = "returned" /\ waited' = FALSE
    /\ sample' = latest /\ latest' = None
    /\ IF latest # None THEN UNCHANGED <<disturbed, sightings>>
                        ELSE (waited \/ stop) /\ Gap(now)
    /\ UNCHANGED <<now, life, objects, outage, answer, person, held, quiet>>

\* Variant: the outage is compared with the limit before the last wait.
OverdueLate == now - since > OutageSeconds + 1

Overdue == now - since >= OutageSeconds

\* _handle_missing_frame.  Recording the outage may raise: the task ends, and nobody makes
\* another.
MissingFrame ==
    /\ loop = "returned" /\ sample = None
    /\ presence' = Invalidate(presence) /\ gate' = FALSE
    /\ stream' = IF Overdue THEN "degraded" ELSE stream
    /\ \/ loop' = Loop
       \/ Overdue /\ stream # "degraded" /\ loop' = "dead"
    /\ UNCHANGED <<now, life, waited, suppress, objectFailed, since, frames, answer, lastAction,
                   held, history>>

\* The requests of _process_sample: the object rule looks at frames that changed.
Requests(changed) ==
    (rules \cap {"person"}) \cup
    (IF "object" \in rules /\ ~objectFailed /\ ~suppress /\ changed THEN {"object"} ELSE {})

\* _process_sample up to its await.  The scheduler refuses a request whose key it holds, or
\* when the detector is gone.
Frame(changed, gone) ==
    /\ loop = "returned" /\ sample # None /\ (~gate => changed)
    /\ since' = now /\ stream' = "ready"
    /\ sample' = (IF Requests(changed) = {} THEN None ELSE sample)
    /\ IF "object" \in rules /\ ~objectFailed THEN suppress' = FALSE /\ gate' = TRUE
                                              ELSE UNCHANGED <<suppress, gate>>
    /\ LET asked == Requests(changed)
       IN  /\ gone \subseteq asked
           /\ answer' = [k \in Kinds |-> IF k \notin asked THEN "none"
                                         ELSE IF k \in held \cup gone THEN "failed" ELSE "asked"]
           /\ held' = held \cup (asked \ gone)
           /\ loop' = IF asked = {} THEN Loop ELSE "detecting"
    /\ quiet' = 0
    /\ UNCHANGED <<now, life, waited, objectFailed, latest, person, disturbed, sightings>>

\* A job leaves the scheduler, with the answer of the detector or an error.
JobEnds(k, result) ==
    /\ k \in held /\ held' = held \ {k}
    /\ answer' = [answer EXCEPT ![k] = IF @ = "asked" THEN result ELSE @]
    /\ UNCHANGED <<now, life, loop, waited, objects, outage, frames, person, history>>

\* WelcomeRule.handle of an entry, when the storage says the rule is (on).
Welcomes(on) == on /\ (lastAction = None \/ sample - lastAction >= CooldownSeconds)

\* _handle_person_result
PersonSeen(seen, on) ==
    /\ presence' = Observe(presence, sample, seen)
    /\ IF Entered(presence, presence') /\ Welcomes(on)
       THEN lastAction' = sample
       ELSE UNCHANGED lastAction
    /\ IF seen THEN disturbed' = sample /\ sightings' = UpTo(sightings + 1, 2)
               ELSE UNCHANGED <<disturbed, sightings>>

\* What the answer about persons, if there was a request, does.
PersonJudged(on) ==
    CASE answer["person"] = "failed" ->
             presence' = Invalidate(presence) /\ Gap(sample) /\ UNCHANGED lastAction
      [] answer["person"] \in {"yes", "no"} -> PersonSeen(answer["person"] = "yes", on)
      [] OTHER -> UNCHANGED <<person, disturbed, sightings>>

\* gather has all the answers.
Judging ==
    /\ loop = "detecting" /\ \A k \in Kinds : answer[k] # "asked"
    /\ answer' = NoJobs /\ sample' = None
    /\ UNCHANGED <<now, life, waited, suppress, gate, outage, latest, held, quiet>>

\* The rest of _process_sample.
Judge(on) ==
    /\ Judging /\ PersonJudged(on)
    /\ objectFailed' = (objectFailed \/ answer["object"] = "failed")
    /\ loop' = Loop

\* The storage raises when an event is recorded or a rule reads it, about the person (the rest is
\* not reached) or about the objects: the task ends, and nobody makes another.
JudgeRaises(on) ==
    /\ Judging /\ PersonJudged(on)
    /\ \/ /\ answer["person"] = "failed" \/ presence'.state # presence.state
          /\ UNCHANGED objectFailed
       \/ answer["object"] = "failed" /\ objectFailed' = TRUE
       \/ answer["object"] = "yes" /\ UNCHANGED objectFailed
    /\ loop' = "dead"

-----------------------------------------------------------------------------
\* Time passes; a wait for a frame ends when its tick is over.
Tick ==
    /\ now < MaxTime /\ now' = now + 1
    /\ loop = "frame" => ~waited
    /\ waited' = (loop = "frame")
    /\ quiet' = IF loop = "frame" THEN UpTo(quiet + 1, OutageSeconds + 1) ELSE quiet
    /\ UNCHANGED <<life, loop, objects, outage, frames, answer, person, held, disturbed,
                   sightings>>

Next ==
    \/ \E R \in (SUBSET Kinds) \ {{}}, baseline \in BOOLEAN : Start(R, baseline)
    \/ Stop \/ StopReturns
    \/ Arrives \/ WaitEnds \/ MissingFrame \/ Tick
    \/ \E changed \in BOOLEAN, gone \in SUBSET Kinds : Frame(changed, gone)
    \/ \E k \in Kinds, result \in Answers : JobEnds(k, result)
    \/ \E on \in BOOLEAN : Judge(on) \/ JudgeRaises(on)

\* The event loop runs what can run, the wait for a frame has a timeout, and so has stop().
\* Nothing is assumed of the detectors or of time.
Fairness ==
    /\ WF_vars(WaitEnds) /\ WF_vars(MissingFrame) /\ WF_vars(StopReturns)
    /\ WF_vars(\E changed \in BOOLEAN, gone \in SUBSET Kinds : Frame(changed, gone))
    /\ WF_vars(\E on \in BOOLEAN : Judge(on) \/ JudgeRaises(on))

Spec == Init /\ [][Next]_vars /\ Fairness

-----------------------------------------------------------------------------
(* Properties. *)

\* Every variable has its type, and only a detection has answers.
TypeOK ==
    /\ now \in Times /\ runtimes \in 0..MaxRuntimes /\ rules \subseteq Kinds
    /\ loop \in {"off", "frame", "returned", "detecting", "finished", "dead"}
    /\ stop \in BOOLEAN /\ waited \in BOOLEAN
    /\ suppress \in BOOLEAN /\ objectFailed \in BOOLEAN /\ gate \in BOOLEAN
    /\ since \in Times /\ stream \in {"starting", "ready", "degraded"}
    /\ latest \in Times \cup {None} /\ sample \in Times \cup {None}
    /\ answer \in [Kinds -> Answers \cup {"none", "asked"}]
    /\ presence \in Trackers /\ lastAction \in Times \cup {None} /\ held \subseteq Kinds
    /\ disturbed \in Times /\ sightings \in 0..2
    /\ quiet \in 0..OutageSeconds + 1
    /\ loop = "detecting" => sample # None
    /\ loop # "detecting" => answer = NoJobs
    /\ loop \notin {"returned", "detecting"} => sample = None

\* A person is taken to have left only when, by the times the frames were captured, LeaveSeconds
\* have passed since the last frame with somebody in it, since the last frame whose detection
\* failed, and since the last wait that found no frame: an outage is no empty room, however late
\* the loop learns of it and however old the frames are it then gets.
LeavesAreConfirmed ==
    [][presence.state = "present" /\ presence'.state = "absent" =>
         sample - disturbed >= LeaveSeconds]_vars

\* A person is taken to have entered only on two sightings since the last gap: what was seen
\* before an outage does not count towards an entry after it.
EntriesAreConfirmed == [][Entered(presence, presence') => sightings' >= 2]_vars

\* A camera that has been waited for OutageSeconds and one more wait shows as degraded.
OutageIsShown == loop = "frame" /\ quiet > OutageSeconds => stream = "degraded"

\* stop() returns although a detection may never end and the loop may have died.
StopEnds == stop ~> ~stop
=============================================================================
