------------------------------ MODULE Runtime ------------------------------
(***************************************************************************)
(* Runtime (src/src/guduck/runtime.py): it keeps the cameras running as    *)
(* the storage and the speakers say, one call at a time under its _lock.   *)
(* Of the application around it there is what those calls meet: the        *)
(* speakers the manager takes for available, and the account and the       *)
(* workers, which call refresh_speaker_state when that changes.  The       *)
(* lifespan of the web server starts and stops it.                         *)
(*                                                                         *)
(* The descriptor of a camera is its rules and its detection region.  All  *)
(* cameras are in the storage.  Of the scheduler there is which detectors  *)
(* are loaded and which kinds are degraded; DetectionScheduler has the     *)
(* rest.  Which adapter makes the object detector is left open.            *)
(***************************************************************************)
EXTENDS Integers, Sequences, Functions

CONSTANTS
    Cameras,
    Speakers,
    Regions,   \* detection regions
    StoredRegions,  \* those the cameras may have when the server starts
    MaxCalls,  \* bound on what comes from outside: calls, publications, losses, hangs
    None

VARIABLES
    enabled, paired, region,  \* storage: rules, speaker and region of each camera
    streams,     \* _available_stream_ids, None before the first discovery
    started,     \* the manager has been started and not stopped
    available,   \* the speakers the account published as available
    lost,        \* auth_status is reauth_required
    fatal,       \* fatal_error of the manager
    lifespan,    \* of the web server: "starting", "serving", "stopping", "over"
    app,         \* _app_status
    runtime,     \* _camera_runtimes
    descriptor,  \* _camera_descriptors
    errors,      \* the keys of _camera_runtime_errors
    baselines,   \* _pending_object_baselines
    kinds,       \* the detectors that the scheduler has loaded
    degraded,    \* the replaceable kinds whose status is degraded, not stopped
    left,        \* the replaceable kinds, now disabled, of which jobs may still be in the queue
    reloaded,    \* history: the degraded kinds that an exchange loaded since _reconcile
    hung,        \* the awaits that will never end
    waiters,     \* the calls that wait for _lock; "notice" is a worker in on_auth_required
    turn,        \* the call that holds it
    at,          \* the await it is at
    wanted,      \* its `desired`, with descriptors
    todo,        \* the cameras its loop has still to do
    observed,    \* history: the region of the last frame the object rule of a camera saw, None
                 \* if the rule was off since
    spent,       \* history: the cameras whose runtime ended before the first frame it was to
                 \* suppress, and that saw none since
    calls        \* how much came from outside

storage  == <<enabled, paired, region>>
speakers == <<started, available, lost, fatal>>
server   == <<lifespan, app>>
history  == <<observed, spent>>
cameras  == <<runtime, descriptor, errors, baselines, history>>
models   == <<kinds, degraded, left, reloaded>>
detectors == <<models, hung>>
holder   == <<turn, at, wanted, todo>>
vars     == <<storage, streams, speakers, server, cameras, detectors, waiters, holder, calls>>

Rules       == {"welcome", "object"}
Kinds       == {"person", "object"}
Replaceable == {"object"}  \* the kinds whose factory is exchanged
KindOf(r)   == IF r = "welcome" THEN "person" ELSE "object"
Descriptors == ((SUBSET Rules) \ {{}}) \X Regions
Runtimes    == [fits : Descriptors, baseline : BOOLEAN, alive : BOOLEAN]
Ops         == {"boot", "refresh", "rule", "speaker", "region", "adapter", "state", "notice",
                "stop"}
Awaits      == {"discovering", "dropping", "rebuilding", "exchanging", "closing", "speakers"}
Nothing     == [c \in Cameras |-> None]

ASSUME RuntimeAssumption ==
    /\ MaxCalls \in Nat /\ StoredRegions \subseteq Regions
    /\ None \notin Speakers \cup Regions \cup Descriptors \cup Runtimes \cup Ops \cup Awaits

-----------------------------------------------------------------------------
\* SpeakerManager.available
Available(s) == started /\ s \in available /\ ~lost /\ ~fatal

\* What _reconcile wants of a camera.
Wanted(c) == IF /\ enabled[c] # {} /\ Available(paired[c])
                /\ streams = None \/ c \in streams
             THEN <<enabled[c], region[c]>> ELSE None

\* Variant: the detectors of all rules that are on.
NeededByRules == {KindOf(r) : r \in UNION {enabled[c] : c \in Cameras}}

Needed == {KindOf(r) : r \in UNION {wanted[c][1] : c \in {d \in Cameras : wanted[d] # None}}}

-----------------------------------------------------------------------------
Init ==
    /\ enabled \in [Cameras -> SUBSET Rules] /\ paired \in [Cameras -> Speakers \cup {None}]
    /\ region \in [Cameras -> StoredRegions] /\ streams = None
    /\ started = FALSE /\ available = {} /\ lost = FALSE /\ fatal = FALSE
    /\ lifespan = "starting" /\ app = "stopped"
    /\ runtime = Nothing /\ descriptor = Nothing /\ errors = {} /\ baselines = {}
    /\ observed = Nothing /\ spent = {}
    /\ kinds = {} /\ degraded = {} /\ left = {} /\ reloaded = {} /\ hung = {}
    /\ waiters = <<>> /\ turn = None /\ at = None /\ wanted = Nothing /\ todo = {}
    /\ calls = 0

-----------------------------------------------------------------------------
(* What comes from outside. *)

Outside == calls < MaxCalls /\ calls' = calls + 1

\* start() up to the refresh_speaker_state of XiaomiAccountManager.start, which publishes the
\* speakers A.
Start(A) ==
    /\ lifespan = "starting" /\ ~started
    /\ started' = TRUE /\ available' = A
    /\ waiters' = <<"boot">>
    /\ UNCHANGED <<storage, streams, lost, fatal, server, cameras, detectors, holder, calls>>

\* A request calls one of the methods that take the lock.
Request(op) ==
    /\ Outside /\ lifespan = "serving" /\ op \in {"refresh", "rule", "speaker", "region", "adapter"}
    /\ waiters' = Append(waiters, op)
    /\ UNCHANGED <<storage, streams, speakers, server, cameras, detectors, holder>>

\* The lifespan ends when the requests, and what the account publishes in them, are over.
Stop ==
    /\ lifespan = "serving" /\ lifespan' = "stopping"
    /\ Range(waiters) \cup {turn} \subseteq {"notice", None}
    /\ waiters' = Append(waiters, "stop")
    /\ UNCHANGED <<storage, streams, speakers, app, cameras, detectors, holder, calls>>

\* _publish_runtime of the account, with what it then tells Runtime.
Publish(A, auth) ==
    /\ Outside /\ lifespan = "serving"
    /\ available' = A /\ lost' = ~auth /\ (~auth => A = {})
    /\ waiters' = Append(waiters, "state")
    /\ UNCHANGED <<storage, streams, started, fatal, server, cameras, detectors, holder>>

\* A speech returns reauth_required: the worker tells the account, which publishes that no
\* speaker is available and tells Runtime.  The worker may be speaking while it is stopped.
LosesAccount ==
    /\ Outside /\ (started \/ at = "speakers")
    /\ ~lost /\ lost' = TRUE /\ available' = {}
    /\ waiters' = Append(waiters, "notice")
    /\ UNCHANGED <<storage, streams, started, fatal, server, cameras, detectors, holder>>

\* A worker ends with an exception.  Nobody is told.  If its queue is full, a stop() that waits
\* for room in it will wait for ever.
WorkerDies ==
    /\ Outside /\ (started \/ at = "speakers") /\ ~fatal /\ fatal' = TRUE
    /\ hung' \in {hung, hung \cup ({at} \cap {"speakers"})}
    /\ UNCHANGED <<storage, streams, started, available, lost, server, cameras, models,
                   waiters, holder>>

\* The account is lost already, and one more speech returns reauth_required: the worker drains
\* the queues again, and with them what was to end the workers.
PillsDrained ==
    /\ Outside /\ at = "speakers" /\ lost /\ hung' = hung \cup {"speakers"}
    /\ UNCHANGED <<storage, streams, speakers, server, cameras, models, waiters, holder>>

\* The picture of a camera reaches its object rule: a runtime that was to suppress the first
\* one now has.
Frame(c) ==
    /\ runtime[c] # None /\ runtime[c].alive /\ "object" \in runtime[c].fits[1]
    /\ runtime' = [runtime EXCEPT ![c].baseline = FALSE]
    /\ observed' = [observed EXCEPT ![c] = runtime[c].fits[2]] /\ spent' = spent \ {c}
    /\ UNCHANGED <<storage, streams, speakers, server, descriptor, errors, baselines, detectors,
                   waiters, holder, calls>>

\* The consumer of the scheduler runs, and is not in an inference that never ends.
Consumes == kinds # {} /\ "exchanging" \notin hung

\* An inference fails: the scheduler drops its detector.
DetectorFails(k) ==
    /\ Consumes /\ k \in kinds
    /\ kinds' = kinds \ {k} /\ degraded' = degraded \cup ({k} \cap Replaceable)
    /\ UNCHANGED <<storage, streams, speakers, server, cameras, left, reloaded, hung, waiters,
                   holder, calls>>

\* A job of a disabled kind comes up and fails: the kind is no longer stopped.
LeftJob(k) ==
    /\ Consumes /\ k \in left \ kinds /\ degraded' = degraded \cup {k}
    /\ UNCHANGED <<storage, streams, speakers, server, cameras, kinds, left, reloaded, hung,
                   waiters, holder, calls>>

\* A detect() never returns: whoever wants the inference lock waits for ever.
InferenceHangs ==
    /\ Outside /\ Consumes /\ hung' = hung \cup {"exchanging"}
    /\ UNCHANGED <<storage, streams, speakers, server, cameras, models, waiters, holder>>

-----------------------------------------------------------------------------
(* The calls, from the acquisition of the lock to their first await. *)

Takes(op) == turn = None /\ waiters # <<>> /\ op = Head(waiters) /\ waiters' = Tail(waiters)

\* Variant: a changed region is only remembered for a camera that runs.
BaselinesOfRunning(changed) == {c \in baselines \cup changed : runtime[c] # None}

\* A camera keeps its baseline until it is used, or its rules are all off.
Baselines(changed) == {c \in baselines \cup changed : enabled'[c] # {}}

\* The head of _reconcile; `changed` are the cameras with a new region.
Reconcile(op, changed) ==
    /\ turn' = op /\ at' = "dropping"
    /\ UNCHANGED <<speakers, server, runtime, descriptor, errors, detectors, calls>>
    /\ wanted' = [c \in Cameras |-> Wanted(c)']
    /\ todo' = {c \in Cameras : runtime[c] # None /\ wanted'[c] = None}
    /\ baselines' = Baselines(changed)
    /\ observed' = [c \in Cameras |-> IF "object" \in enabled'[c] THEN observed[c] ELSE None]
    /\ spent' = {c \in spent : "object" \in enabled'[c]}

\* Variant: a call that raises keeps the lock.
LeavesLocked ==
    /\ turn' = Head(waiters)
    /\ UNCHANGED <<storage, streams, speakers, server, cameras, detectors, at, wanted, todo, calls>>

\* A call that raises or has nothing to do.
Leaves == UNCHANGED <<storage, streams, speakers, server, cameras, detectors, holder, calls>>

SetRule(c, r, on) ==
    /\ Takes("rule")
    /\ IF on /\ ~Available(paired[c]) THEN Leaves
       ELSE /\ enabled' = [enabled EXCEPT ![c] = IF on THEN @ \cup {r} ELSE @ \ {r}]
            /\ UNCHANGED <<paired, region, streams>>
            /\ Reconcile("rule", {})

SetSpeaker(c, s) ==
    /\ Takes("speaker")
    /\ paired' = [paired EXCEPT ![c] = s]
    /\ UNCHANGED <<enabled, region, streams>>
    /\ Reconcile("speaker", {})

SetRegion(c, g) ==
    /\ Takes("region")
    /\ IF region[c] = g THEN Leaves
       ELSE /\ region' = [region EXCEPT ![c] = g]
            /\ UNCHANGED <<enabled, paired, streams>>
            /\ Reconcile("region", {c})

RefreshState(op) ==
    /\ Takes(op) /\ op \in {"boot", "state", "notice"}
    /\ UNCHANGED <<storage, streams>>
    /\ Reconcile(op, {})

\* set_object_detector_adapter: the adapter is the selected one or cannot be used, or its
\* detector is made and waits for the inference lock.
SetAdapter ==
    /\ Takes("adapter")
    /\ \/ Leaves
       \/ /\ turn' = "adapter" /\ at' = "exchanging"
          /\ UNCHANGED <<storage, streams, speakers, server, cameras, detectors, wanted, todo, calls>>

\* The new detector takes the place of the old one, if the kind is not stopped.
Exchange ==
    /\ at = "exchanging" /\ "exchanging" \notin hung
    /\ IF "object" \in kinds \cup degraded
       THEN /\ kinds' = kinds \cup {"object"} /\ degraded' = degraded \ {"object"}
            /\ reloaded' = reloaded \cup ({"object"} \ kinds)
       ELSE UNCHANGED <<kinds, degraded, reloaded>>
    /\ turn' = None /\ at' = None
    /\ UNCHANGED <<storage, streams, speakers, server, cameras, left, hung, waiters, wanted, todo,
                   calls>>

RefreshCameras ==
    /\ Takes("refresh")
    /\ turn' = "refresh" /\ at' = "discovering"
    /\ UNCHANGED <<storage, streams, speakers, server, cameras, detectors, wanted, todo, calls>>

\* The discovery answers with the streams S, or fails.
Discovered(S) ==
    /\ at = "discovering"
    /\ streams' \in {S, streams}
    /\ UNCHANGED <<storage, waiters>>
    /\ Reconcile("refresh", {})

-----------------------------------------------------------------------------
(* The rest of _reconcile, one await after the other. *)

\* The runtime of c has ended without the frame it was to suppress.
Unused(c) == IF runtime[c].baseline THEN {c} ELSE {}

\* A camera that is not wanted is stopped.  If that raises, its loop ends all the same.
Drop(c, stops) ==
    /\ at = "dropping" /\ c \in todo /\ todo' = todo \ {c}
    /\ runtime' = [runtime EXCEPT ![c] = IF stops THEN None ELSE [@ EXCEPT !.alive = FALSE]]
    /\ descriptor' = [descriptor EXCEPT ![c] = IF stops THEN None ELSE @]
    /\ errors' = IF stops THEN errors \ {c} ELSE errors \cup {c}
    /\ spent' = IF stops THEN spent \cup Unused(c) ELSE spent
    /\ UNCHANGED <<storage, streams, speakers, server, baselines, observed, detectors, waiters,
                   turn, at, wanted, calls>>

\* A kind is disabled when none is loaded, person before object: the consumer ends within two
\* seconds and its queue is emptied.
ConsumerEnds ==
    \/ "person" \notin Needed /\ "object" \notin kinds
    \/ "object" \notin Needed /\ kinds' = {}

\* The detectors that are needed are enabled, of which those in `failing` do not load, the
\* others disabled, of which jobs that were left degrade those in `upset` meanwhile.
Detectors(failing, upset) ==
    /\ at = "dropping" /\ todo = {}
    /\ errors' = {c \in errors : wanted[c] # None \/ runtime[c] # None}
    /\ failing \subseteq Needed \ kinds
    /\ kinds' = Needed \ failing
    /\ upset \subseteq ((left \cup kinds) \ Needed) \cap Replaceable
    /\ upset # {} => "exchanging" \notin hung /\ kinds \cup kinds' # {}
    /\ degraded' = (failing \cup upset) \cap Replaceable /\ reloaded' = {}
    /\ left' = IF ConsumerEnds THEN {} ELSE left \cup ((kinds \ kinds') \cap Replaceable)
    /\ hung' = IF ConsumerEnds THEN hung \ {"exchanging"} ELSE hung
    /\ at' = "rebuilding"
    /\ todo' = {c \in Cameras : wanted[c] # None /\ descriptor[c] # wanted[c]}
    /\ UNCHANGED <<storage, streams, speakers, server, runtime, descriptor, baselines, history,
                   waiters, turn, wanted, calls>>

\* The old runtime of c has stopped and the new one has not started.
Between(c) == runtime[c] = None /\ descriptor[c] # None

\* Variant: a runtime that did not stop is not shown as failed.
StopFailsUnseen(c) == errors

StopFails(c) == errors \cup {c}

\* A camera whose descriptor has changed is stopped.
StopOld(c, stops) ==
    /\ at = "rebuilding" /\ c \in todo /\ runtime[c] # None
    /\ \A d \in todo : ~Between(d)
    /\ runtime' = [runtime EXCEPT ![c] = IF stops THEN None ELSE [@ EXCEPT !.alive = FALSE]]
    /\ IF stops THEN UNCHANGED <<errors, todo>>
                ELSE errors' = StopFails(c) /\ todo' = todo \ {c}
    /\ spent' = IF stops THEN spent \cup Unused(c) ELSE spent
    /\ UNCHANGED <<storage, streams, speakers, server, descriptor, baselines, observed, detectors,
                   waiters, turn, at, wanted, calls>>

\* Variant: a camera that does not start keeps its descriptor.
KeptDescriptor(c, starts) == [descriptor EXCEPT ![c] = wanted[c]]

NewDescriptor(c, starts) == [descriptor EXCEPT ![c] = IF starts THEN wanted[c] ELSE None]

\* ... and a new one is made and started, if it can be.
StartNew(c, starts) ==
    /\ at = "rebuilding" /\ c \in todo /\ runtime[c] = None /\ todo' = todo \ {c}
    /\ \A d \in todo \ {c} : ~Between(d)
    /\ descriptor' = NewDescriptor(c, starts)
    /\ IF starts
       THEN /\ runtime' = [runtime EXCEPT ![c] = [fits |-> wanted[c], baseline |-> c \in baselines,
                                                  alive |-> TRUE]]
            /\ errors' = errors \ {c} /\ baselines' = baselines \ {c}
       ELSE errors' = errors \cup {c} /\ UNCHANGED <<runtime, baselines>>
    /\ UNCHANGED <<storage, streams, speakers, server, history, detectors, waiters, turn, at,
                   wanted, calls>>

\* The call returns.  Runtime.start goes on with refresh_cameras, and the server then serves.
Return ==
    /\ at = "rebuilding" /\ todo = {}
    /\ turn' = None /\ at' = None /\ wanted' = Nothing
    /\ app' = IF turn = "boot" THEN "running" ELSE app
    /\ waiters' = IF turn = "boot" THEN Append(waiters, "refresh") ELSE waiters
    /\ lifespan' = IF turn = "refresh" /\ lifespan = "starting" THEN "serving" ELSE lifespan
    /\ UNCHANGED <<storage, streams, started, available, lost, fatal, cameras, detectors, todo, calls>>

-----------------------------------------------------------------------------
(* stop() *)

BeginStop ==
    /\ Takes("stop")
    /\ turn' = "stop" /\ at' = "closing"
    /\ UNCHANGED <<storage, streams, speakers, server, cameras, detectors, wanted, todo, calls>>

CloseCamera(c) ==
    /\ at = "closing" /\ runtime[c] # None
    /\ runtime' = [runtime EXCEPT ![c] = None] /\ spent' = spent \cup Unused(c)
    /\ UNCHANGED <<storage, streams, speakers, server, descriptor, errors, baselines, observed,
                   detectors, waiters, holder, calls>>

\* The scheduler is closed, and the manager stops.
CloseRest ==
    /\ at = "closing" /\ runtime = Nothing /\ at' = "speakers"
    /\ descriptor' = Nothing /\ errors' = {} /\ baselines' = {}
    /\ kinds' = {} /\ degraded' = {} /\ left' = {} /\ reloaded' = {} /\ hung' = {}
    /\ started' = FALSE
    /\ UNCHANGED <<storage, streams, available, lost, fatal, server, runtime, history,
                   waiters, turn, wanted, todo, calls>>

\* A worker waits for the lock.
WorkerWaits == "notice" \in Range(waiters)

\* SpeakerManager.stop waits for its workers.
StopReturns ==
    /\ at = "speakers" /\ ~WorkerWaits /\ "speakers" \notin hung
    /\ turn' = None /\ at' = None /\ app' = "stopped" /\ lifespan' = "over"
    /\ UNCHANGED <<storage, streams, speakers, cameras, detectors, waiters, wanted, todo, calls>>

\* A camera that cannot be stopped ends the lifespan, and the process.
StopRaises(c) ==
    /\ at = "closing" /\ runtime[c] # None
    /\ runtime' = [runtime EXCEPT ![c] = None] /\ spent' = spent \cup Unused(c)
    /\ turn' = None /\ at' = None /\ lifespan' = "over" /\ waiters' = <<>>
    /\ UNCHANGED <<storage, streams, speakers, app, descriptor, errors, baselines, observed, detectors,
                   wanted, todo, calls>>

-----------------------------------------------------------------------------
Enter ==
    \/ \E c \in Cameras, r \in Rules, on \in BOOLEAN : SetRule(c, r, on)
    \/ \E c \in Cameras, s \in Speakers : SetSpeaker(c, s)
    \/ \E c \in Cameras, g \in Regions : SetRegion(c, g)
    \/ \E op \in Ops : RefreshState(op)
    \/ SetAdapter \/ RefreshCameras \/ BeginStop

GoOn ==
    \/ \E S \in SUBSET Cameras : Discovered(S)
    \/ \E c \in Cameras, ok \in BOOLEAN : Drop(c, ok) \/ StopOld(c, ok) \/ StartNew(c, ok)
    \/ \E failing \in SUBSET Kinds, upset \in SUBSET Replaceable : Detectors(failing, upset)
    \/ Exchange \/ Return
    \/ \E c \in Cameras : CloseCamera(c) \/ StopRaises(c)
    \/ CloseRest \/ StopReturns

Next ==
    \/ \E A \in SUBSET Speakers : Start(A)
    \/ \E op \in Ops : Request(op)
    \/ \E A \in SUBSET Speakers, auth \in BOOLEAN : Publish(A, auth)
    \/ Stop \/ LosesAccount \/ WorkerDies \/ PillsDrained \/ InferenceHangs
    \/ \E c \in Cameras : Frame(c)
    \/ \E k \in Kinds : DetectorFails(k) \/ LeftJob(k)
    \/ Enter \/ GoOn

\* The lock goes to whoever waits first; discovery, stopping the scheduler, and starting and
\* stopping a camera have timeouts, and loading a detector ends.  Nothing is assumed of what
\* has none: an inference and the workers of the speakers.
Fairness == WF_vars(Enter) /\ WF_vars(GoOn)

Spec == Init /\ [][Next]_vars /\ Fairness

-----------------------------------------------------------------------------
(* Properties. *)

\* Every variable has its type.
TypeOK ==
    /\ enabled \in [Cameras -> SUBSET Rules] /\ paired \in [Cameras -> Speakers \cup {None}]
    /\ region \in [Cameras -> Regions] /\ streams \in (SUBSET Cameras) \cup {None}
    /\ started \in BOOLEAN /\ available \subseteq Speakers /\ lost \in BOOLEAN
    /\ fatal \in BOOLEAN
    /\ lifespan \in {"starting", "serving", "stopping", "over"} /\ app \in {"stopped", "running"}
    /\ runtime \in [Cameras -> Runtimes \cup {None}]
    /\ descriptor \in [Cameras -> Descriptors \cup {None}]
    /\ errors \subseteq Cameras /\ baselines \subseteq Cameras /\ spent \subseteq Cameras
    /\ kinds \subseteq Kinds /\ degraded \subseteq Replaceable /\ left \subseteq Replaceable
    /\ reloaded \subseteq Replaceable /\ hung \subseteq Awaits
    /\ waiters \in Seq(Ops) /\ turn \in Ops \cup {None}
    /\ at \in Awaits \cup {None}
    /\ wanted \in [Cameras -> Descriptors \cup {None}] /\ todo \subseteq Cameras
    /\ observed \in [Cameras -> Regions \cup {None}] /\ calls \in 0..MaxCalls

\* No call is under way and none is to come.
Quiet == lifespan = "serving" /\ turn = None /\ waiters = <<>>

\* When the calls are over, every camera is in the state its rules, region, speaker and stream
\* ask for, or shows its failure: whatever changed during a call has brought another.  Only the
\* death of a worker, which nobody is told of, leaves cameras running.
SettledAsWanted ==
    Quiet /\ ~fatal => \A c \in Cameras \ errors : descriptor[c] = Wanted(c)

\* A detector is not kept for cameras that do not use it, except that an exchange of the adapter
\* loads an object detector nobody uses when a job that was left has degraded the disabled kind:
\* the exchange takes it for one that is in use and failed.
DetectorsAreNeeded ==
    Quiet /\ ~fatal =>
        \A k \in kinds \ reloaded :
            \E c \in Cameras : Wanted(c) # None /\ \E r \in enabled[c] : KindOf(r) = k

\* A camera that shows no failure runs as its descriptor says, outside its own rebuilding and
\* stop(): a stop or start that fails is never taken for a running camera.
ShownAsItRuns ==
    at # "closing" /\ lifespan # "over" =>
        \A c \in Cameras \ errors :
            descriptor[c] # None /\ ~(at = "rebuilding" /\ c \in todo /\ Between(c)) =>
                runtime[c] # None /\ runtime[c].alive /\ runtime[c].fits = descriptor[c]

\* An object rule that comes back with another region than that of the last picture it saw
\* takes its first frame as a baseline, whatever failed in between, unless it was off.  One case
\* is excepted, which the code loses: the runtime that was to take the baseline ended before its
\* first frame, when the pending baseline was already discarded.
ChangedRegionStartsWithBaseline ==
    [][\A c \in Cameras :
         runtime[c] = None /\ runtime'[c] # None
         /\ observed[c] \notin {None, runtime'[c].fits[2]} /\ c \notin spent
         => runtime'[c].baseline]_vars

\* stop() holds the lock while it waits for the worker that waits for the lock.
Deadlocked == at = "speakers" /\ WorkerWaits

\* Every call gives the lock back, but for a stop() that meets a worker's notice, or waits for
\* room in the queue of a worker that is gone or for a worker whose pill was drained, and an
\* exchange of the adapter that waits for a detect() that never returns.
LockIsReleased == turn # None ~> turn = None \/ Deadlocked \/ at \in hung

\* The design: shutting down ends the workers in bounded time.  Here, even if none of them dies
\* with a full queue and none loses its pill.
ShutdownEnds == lifespan = "stopping" ~> lifespan = "over" \/ "speakers" \in hung
=============================================================================
