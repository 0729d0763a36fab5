---------------------------- MODULE FrameSource ----------------------------
(***************************************************************************)
(* FfmpegFrameSource (src/src/guduck/vision/frame_source.py): a reader     *)
(* thread that runs one ffmpeg after another and takes frames from it, a   *)
(* watchdog thread that ends an ffmpeg that has gone silent, and the       *)
(* camera's calls of start(), stop() and wait_for_frame().  The threads    *)
(* share the stop event and _process without holding anything over a step. *)
(*                                                                         *)
(* An action is what a thread does between two steps of another that it    *)
(* can tell apart.  A camera starts a source once, and may stop it twice.  *)
(* The contents of a frame, and the status that nobody reads, are left     *)
(* out; a frame counter is what the camera has not seen of it.             *)
(***************************************************************************)
EXTENDS Integers, FiniteSetsExt

CONSTANTS
    Processes,   \* enough for one in use, and those stop() and the watchdog hold
    MaxSignals   \* external: the SIGTERM at which an ffmpeg gives up

ASSUME FrameAssumption == 0 \notin Processes /\ MaxSignals \in Nat \ {0}

VARIABLES
    stop,      \* the event _stop
    process,   \* _process, 0 if None
    reader,    \* where _run is
    own,       \* its local process
    frames,    \* complete_frames # 0
    attempt,   \* its attempt, up to the one that waits longest
    delay,     \* seconds it waits before the next ffmpeg
    watchdog,  \* where _watch_stalls is
    suspect,   \* its local process
    call,      \* where stop() is
    taken,     \* its local process
    alive,     \* external: the ffmpegs running
    closed,    \* external: those of them that have closed their stdout
    signals,   \* external: SIGTERMs each has had
    silent,    \* 30 seconds since the last frame, or since the start, of _process
    fresh      \* there is a frame the camera has not seen

readers   == <<reader, own, frames, attempt, delay>>
watchdogs == <<watchdog, suspect>>
calls     == <<call, taken>>
ffmpegs   == <<alive, closed, signals>>
vars      == <<stop, process, readers, watchdogs, calls, ffmpegs, silent, fresh>>

Init ==
    /\ stop = FALSE /\ process = 0
    /\ reader = "none" /\ own = 0 /\ frames = FALSE /\ attempt = 0 /\ delay = 0
    /\ watchdog = "none" /\ suspect = 0 /\ call = "none" /\ taken = 0
    /\ alive = {} /\ closed = {} /\ signals = [p \in Processes |-> 0]
    /\ silent = FALSE /\ fresh = FALSE

Running(thread) == thread \notin {"none", "ended"}

-----------------------------------------------------------------------------
(* ffmpeg. *)

Unused == Processes \ (alive \cup {suspect, taken})

Spawn(p) == alive' = alive \cup {p} /\ UNCHANGED <<closed, signals>>

Gone(p) ==
    /\ alive' = alive \ {p} /\ closed' = closed \ {p} /\ signals' = [signals EXCEPT ![p] = 0]

\* _terminate: no error if it has exited.
Terminate(p) ==
    /\ signals' = IF p \in alive THEN [signals EXCEPT ![p] = Min({@ + 1, MaxSignals})] ELSE signals
    /\ UNCHANGED <<alive, closed>>

Exit(p) ==
    /\ p \in alive /\ Gone(p)
    /\ UNCHANGED <<stop, process, readers, watchdogs, calls, silent, fresh>>

CloseOutput(p) ==
    /\ p \in alive \ closed /\ closed' = closed \cup {p}
    /\ UNCHANGED <<stop, process, readers, watchdogs, calls, alive, signals, silent, fresh>>

GoesSilent ==
    /\ process # 0 /\ ~silent /\ silent' = TRUE
    /\ UNCHANGED <<stop, process, readers, watchdogs, calls, ffmpegs, fresh>>

-----------------------------------------------------------------------------
(* The reader: _run. *)

ReconnectDelay(n) == Min({2^n, 30})

\* The first attempt whose delay is the longest, and one that waits for that.
LastAttempt == 6

Backs(n, after) ==
    /\ delay' = ReconnectDelay(n) /\ attempt' = Min({after, LastAttempt})
    /\ reader' = "backoff"

Loop ==
    /\ reader = "loop" /\ reader' = IF stop THEN "ended" ELSE "spawning"
    /\ UNCHANGED <<stop, process, own, frames, attempt, delay, watchdogs, calls, ffmpegs, silent, fresh>>

SpawnFails ==
    /\ reader = "spawning" /\ Backs(attempt, attempt + 1)
    /\ UNCHANGED <<stop, process, own, frames, watchdogs, calls, ffmpegs, silent, fresh>>

Spawned ==
    /\ reader = "spawning" /\ Unused # {}
    /\ own' = (CHOOSE p \in Unused : TRUE) /\ Spawn(own') /\ reader' = "spawned"
    /\ UNCHANGED <<stop, process, frames, attempt, delay, watchdogs, calls, silent, fresh>>

Publish ==
    /\ reader = "spawned" /\ process' = own /\ silent' = FALSE
    /\ reader' = "check"
    /\ UNCHANGED <<stop, own, frames, attempt, delay, watchdogs, calls, ffmpegs, fresh>>

\* Variant: the event is not looked at before a read.
CheckAssumed ==
    /\ reader = "check" /\ reader' = "read"
    /\ UNCHANGED <<stop, process, own, frames, attempt, delay, watchdogs, calls, ffmpegs, silent, fresh>>

Check ==
    /\ reader = "check" /\ reader' = IF stop THEN "end" ELSE "read"
    /\ UNCHANGED <<stop, process, own, frames, attempt, delay, watchdogs, calls, ffmpegs, silent, fresh>>

Frame ==
    /\ reader = "read" /\ own \in alive \ closed
    /\ fresh' = TRUE /\ frames' = TRUE /\ silent' = FALSE /\ reader' = "check"
    /\ UNCHANGED <<stop, process, own, attempt, delay, watchdogs, calls, ffmpegs>>

EndOfStream ==
    /\ reader = "read" /\ own \notin alive \ closed /\ reader' = "end"
    /\ UNCHANGED <<stop, process, own, frames, attempt, delay, watchdogs, calls, ffmpegs, silent, fresh>>

EndProcess ==
    /\ reader = "end"
    /\ reader' = IF own \in alive THEN "wait" ELSE "clear"
    /\ Terminate(own)
    /\ UNCHANGED <<stop, process, own, frames, attempt, delay, watchdogs, calls, silent, fresh>>

Waited ==
    /\ reader = "wait" /\ own \notin alive /\ reader' = "clear"
    /\ UNCHANGED <<stop, process, own, frames, attempt, delay, watchdogs, calls, ffmpegs, silent, fresh>>

\* Variant: the wait is all.
WaitGivesUp ==
    /\ reader = "wait" /\ own \in alive /\ reader' = "clear"
    /\ UNCHANGED <<stop, process, own, frames, attempt, delay, watchdogs, calls, ffmpegs, silent, fresh>>

WaitTimesOut ==
    /\ reader = "wait" /\ own \in alive /\ Gone(own) /\ reader' = "clear"
    /\ UNCHANGED <<stop, process, own, frames, attempt, delay, watchdogs, calls, silent, fresh>>

Clear ==
    /\ reader = "clear" /\ process' = IF process = own THEN 0 ELSE process
    /\ silent' = (silent /\ process # own) /\ own' = 0 /\ frames' = FALSE
    /\ \/ stop /\ reader' = "ended" /\ UNCHANGED <<attempt, delay>>
       \/ ~stop /\ LET tries == IF frames THEN 0 ELSE attempt + 1
                   IN Backs(Max({0, tries - 1}), tries)
    /\ UNCHANGED <<stop, watchdogs, calls, ffmpegs, fresh>>

BackoffEnds ==
    /\ reader = "backoff" /\ reader' = IF stop THEN "ended" ELSE "loop"
    /\ delay' = 0
    /\ UNCHANGED <<stop, process, own, frames, attempt, watchdogs, calls, ffmpegs, silent, fresh>>

-----------------------------------------------------------------------------
(* The watchdog: _watch_stalls. *)

\* Variant: an ffmpeg that has not given a frame is not timed.
StalledAfterFrame == silent /\ frames

Stalled == silent

WatchdogLooks ==
    /\ watchdog = "waiting"
    /\ \/ stop /\ watchdog' = "ended" /\ UNCHANGED suspect
       \/ ~stop /\ process # 0 /\ Stalled /\ suspect' = process /\ watchdog' = "stalled"
    /\ UNCHANGED <<stop, process, readers, calls, ffmpegs, silent, fresh>>

WatchdogActs ==
    /\ watchdog = "stalled" /\ Terminate(suspect)
    /\ suspect' = 0 /\ watchdog' = "waiting"
    /\ UNCHANGED <<stop, process, readers, calls, silent, fresh>>

-----------------------------------------------------------------------------
(* The camera's calls. *)

Start ==
    /\ reader = "none" /\ call = "none"
    /\ reader' = "loop" /\ watchdog' = "waiting"
    /\ UNCHANGED <<stop, process, own, frames, attempt, delay, suspect, calls, ffmpegs, silent, fresh>>

WaitForFrame ==
    /\ fresh /\ fresh' = FALSE
    /\ UNCHANGED <<stop, process, readers, watchdogs, calls, ffmpegs, silent>>

Stop ==
    /\ call = "none" /\ stop' = TRUE /\ call' = "take"
    /\ UNCHANGED <<process, readers, watchdogs, taken, ffmpegs, silent, fresh>>

\* It reads _process once; the reader may be starting another ffmpeg.
StopTerminates ==
    /\ call = "take" /\ taken' = process /\ call' = "join"
    /\ IF process # 0 THEN Terminate(process) ELSE UNCHANGED ffmpegs
    /\ UNCHANGED <<stop, process, readers, watchdogs, silent, fresh>>

Joined ==
    /\ call \in {"join", "join again"} /\ ~Running(reader) /\ call' = "join watchdog"
    /\ UNCHANGED <<stop, process, readers, watchdogs, taken, ffmpegs, silent, fresh>>

JoinTimesOut ==
    /\ call = "join" /\ Running(reader)
    /\ IF taken # 0 THEN Gone(taken) /\ call' = "join again"
       ELSE UNCHANGED ffmpegs /\ call' = "join watchdog"
    /\ UNCHANGED <<stop, process, readers, watchdogs, taken, silent, fresh>>

JoinAgainTimesOut ==
    /\ call = "join again" /\ Running(reader) /\ call' = "join watchdog"
    /\ UNCHANGED <<stop, process, readers, watchdogs, taken, ffmpegs, silent, fresh>>

\* The watchdog has ended, or has not within two seconds; both threads are forgotten.
StopReturns ==
    /\ call = "join watchdog" /\ call' = "done" /\ taken' = 0
    /\ UNCHANGED <<stop, process, readers, watchdogs, ffmpegs, silent, fresh>>

\* There is no thread to wait for any more.
StopAgain ==
    /\ call = "done" /\ process # 0 /\ Terminate(process)
    /\ UNCHANGED <<stop, process, readers, watchdogs, calls, silent, fresh>>

Reader ==
    \/ Loop \/ SpawnFails \/ Spawned \/ Publish \/ Check
    \/ EndOfStream \/ EndProcess \/ Waited \/ WaitTimesOut \/ Clear \/ BackoffEnds

Stopping ==
    \/ StopTerminates \/ Joined \/ JoinTimesOut \/ JoinAgainTimesOut \/ StopReturns

Next ==
    \/ Reader \/ Frame \/ WatchdogLooks \/ WatchdogActs
    \/ Start \/ WaitForFrame \/ Stop \/ StopAgain \/ Stopping
    \/ \E p \in Processes : Exit(p) \/ CloseOutput(p)
    \/ GoesSilent

\* Threads run, waits and joins time out, time passes, and an ffmpeg exits at the last SIGTERM.
Fairness ==
    /\ WF_vars(Reader) /\ WF_vars(Stopping) /\ WF_vars(WatchdogLooks) /\ WF_vars(WatchdogActs)
    /\ WF_vars(GoesSilent)
    /\ \A p \in Processes : WF_vars(signals[p] = MaxSignals /\ Exit(p))

Spec == Init /\ [][Next]_vars /\ Fairness

-----------------------------------------------------------------------------
(* Properties. *)

\* The variables have their types.
TypeOK ==
    /\ stop \in BOOLEAN /\ process \in Processes \cup {0} /\ own \in Processes \cup {0}
    /\ reader \in {"none", "loop", "spawning", "spawned", "check", "read", "end", "wait", "clear",
                   "backoff", "ended"}
    /\ frames \in BOOLEAN /\ attempt \in 0 .. LastAttempt /\ delay \in 0 .. 30
    /\ watchdog \in {"none", "waiting", "stalled", "ended"} /\ suspect \in Processes \cup {0}
    /\ call \in {"none", "take", "join", "join again", "join watchdog", "done"}
    /\ taken \in Processes \cup {0} /\ alive \subseteq Processes /\ closed \subseteq Processes
    /\ signals \in [Processes -> 0 .. MaxSignals] /\ silent \in BOOLEAN /\ fresh \in BOOLEAN

\* A source never has two ffmpegs on its camera, whatever the reader, the watchdog and stop() do
\* to each (_run, stop).
OneFfmpeg == \A p, q \in alive : p = q

\* After stop() both threads end and no ffmpeg is left, also if it came while one was being
\* started, if an ffmpeg ignores SIGTERM, or if a join ran out (stop, _run).
StopLeavesNothing ==
    stop ~> [](~Running(reader) /\ ~Running(watchdog) /\ alive = {})

\* A camera that is silent for 30 seconds gets another ffmpeg, also if this one never gave a
\* frame or does not heed the first SIGTERM (_watch_stalls).
SilenceEnds == silent ~> ~silent \/ stop
=============================================================================
