--------------------------- MODULE SpeakerManager ---------------------------
(***************************************************************************)
(* The speaker workers of GuDuck (src/src/guduck/speaker_worker.py).       *)
(*                                                                         *)
(* Camera runtimes submit announcements; each installed speaker has one    *)
(* bounded queue and one worker task.  Everything but the text-to-speech   *)
(* call runs on one event loop, so the code between two awaits is one      *)
(* action.  The awaits are: a worker waiting for an entry, the speech in a *)
(* thread, the re-authorization callback, and the callers of stop and      *)
(* replace_speakers waiting for queue room and for the tasks to end.       *)
(* Events are kept by what became of the announcement ("spoken",           *)
(* "superseded", "dropped"); speaker_statuses, which only the status page  *)
(* reads, is left out.  A record_event that raises ends a worker (Crash);  *)
(* that it breaks off a submit or a drain half-way is left out.            *)
(***************************************************************************)
EXTENDS Integers, Sequences, Functions

CONSTANTS
    Speakers,             \* the bindings the account may install
    Cameras,
    Announcements,        \* SpeechAction objects, numbered in order of creation
    ObjectAnnouncements,  \* those of the object rule; the others are welcomes
    CameraOf,             \* the camera an announcement comes from
    SpeakerOf,            \* the speaker that camera was paired with at creation
    QueueSize,            \* maxsize of each asyncio.Queue
    MaxChanges,           \* bound on the calls and settings that arrive from outside
    None,
    Pill                  \* the None entry that ends a worker

ASSUME SpeakerManagerAssumption ==
    /\ QueueSize \in Nat \ {0} /\ MaxChanges \in Nat
    /\ Announcements \subseteq Nat /\ ObjectAnnouncements \subseteq Announcements
    /\ CameraOf \in [Announcements -> Cameras]
    /\ SpeakerOf \in [Announcements -> Speakers]
    /\ Announcements \cap Cameras = {}
    /\ Pill \notin Announcements \cup Cameras
    /\ None \notin Announcements \cup Cameras \cup Speakers \cup {Pill}

VARIABLES
    installed,   \* keys of _speakers
    available,   \* _available_ids
    started,     \* _started
    fatal,       \* fatal_error
    auth,        \* auth_status
    queue,       \* _queues: welcomes, the camera (coalesce key) of an object
                 \* announcement, or the pill
    pending,     \* _pending_actions: the object announcement behind each key
    worker,      \* the task in _tasks, by the await it is at
    inFlight,    \* the `action` of a worker that is speaking or notifying
    stopping,    \* a stop() call waits in _stop_workers
    pillsDue,    \* the tasks its loop has not reached
    blocked,     \* the speaker on whose full queue its put() waits
    replacing,   \* _replacing: a replace_speakers() call waits in _stop_workers
    enabled,     \* storage: the rules enabled for each camera
    paired,      \* storage: the speaker each camera is paired with
    aged,        \* object announcements older than max_queue_age_seconds
    changes,     \* how many changes arrived from outside
    submitted,   \* announcements submit() was called with
    accepted,    \* those it returned True for
    outcomes     \* storage: the events recorded for each announcement

gates  == <<installed, available, started, fatal, auth>>
queues == <<queue, pending>>
tasks  == <<worker, inFlight>>
calls  == <<stopping, pillsDue, blocked, replacing>>
store  == <<enabled, paired, aged>>
ledger == <<submitted, accepted, outcomes>>
vars   == <<gates, queues, tasks, calls, store, changes, ledger>>

Rules       == {"welcome", "object"}
AuthStates  == {"unknown", "ready", "reauth_required"}
WorkerState == {"none", "waiting", "speaking", "notifying", "exited", "crashed", "failed"}
Outcome     == {"spoken", "superseded", "dropped"}

RuleOf(a) == IF a \in ObjectAnnouncements THEN "object" ELSE "welcome"

\* Variant: an object announcement is queued itself, not under its key.
EntryOfItself(a) == a

EntryOf(a) == IF a \in ObjectAnnouncements THEN CameraOf[a] ELSE a
Entries == Announcements \cup Cameras \cup {Pill}

\* One of the bounded changes from outside.
Change == changes < MaxChanges /\ changes' = changes + 1

-----------------------------------------------------------------------------
(* The private methods. *)

\* _resolve_entry: a welcome stands for itself, a key for what is pending there.
Resolve(s, entry) == IF entry \in Cameras THEN pending[s][entry] ELSE entry

\* What a drain of the speakers in S resolves.
Waiting(S) == {a \in Announcements :
                 \E s \in S : \E i \in DOMAIN queue[s] : Resolve(s, queue[s][i]) = a}

\* _record, for every announcement of the set A.
Recorded(A, outcome) ==
    [a \in Announcements |-> IF a \in A THEN Append(outcomes[a], outcome)
                                        ELSE outcomes[a]]

\* _drain_queue of each speaker in S: every entry goes, a pill too.
\* Variant: the drain leaves the pending actions behind.
DrainKeysForgets(S) == [s \in Speakers |-> pending[s]]

DrainKeys(S) == [s \in Speakers |-> [c \in Cameras |->
                   IF s \in S /\ c \in Range(queue[s]) THEN None ELSE pending[s][c]]]

Drain(S) ==
    /\ queue' = [s \in Speakers |-> IF s \in S THEN <<>> ELSE queue[s]]
    /\ pending' = DrainKeys(S)

\* _install_speakers, then _start_workers when the manager is started.
Install(S, A) ==
    /\ installed' = S /\ available' = A
    /\ queue' = [s \in Speakers |-> <<>>]
    /\ pending' = [s \in Speakers |-> [c \in Cameras |-> None]]
    /\ worker' = [s \in Speakers |-> IF started /\ s \in S THEN "waiting" ELSE "none"]

Tasks   == {s \in Speakers : worker[s] # "none"}
Done(s) == worker[s] \in {"exited", "crashed", "failed"}

\* gather() returns; a task's done callback runs before that.
TasksEnded == \A s \in Speakers : worker[s] \in {"none", "exited", "failed"}

-----------------------------------------------------------------------------
Init ==
    /\ installed \in SUBSET Speakers /\ available = installed
    /\ started = FALSE /\ fatal = FALSE /\ auth = "unknown"
    /\ queue = [s \in Speakers |-> <<>>]
    /\ pending = [s \in Speakers |-> [c \in Cameras |-> None]]
    /\ worker = [s \in Speakers |-> "none"]
    /\ inFlight = [s \in Speakers |-> None]
    /\ stopping = FALSE /\ pillsDue = {} /\ blocked = None /\ replacing = FALSE
    /\ enabled = [c \in Cameras |-> Rules]
    /\ paired \in [Cameras -> Speakers]
    /\ aged = {} /\ changes = 0
    /\ submitted = {} /\ accepted = {}
    /\ outcomes = [a \in Announcements |-> <<>>]

-----------------------------------------------------------------------------
(* Calls on the manager. *)

\* start(); Runtime never starts the manager while it stops or replaces.
Start ==
    /\ Change /\ ~started /\ ~stopping /\ ~replacing
    /\ started' = TRUE /\ fatal' = FALSE
    /\ worker' = [s \in Speakers |-> IF s \in installed THEN "waiting" ELSE "none"]
    /\ UNCHANGED <<installed, available, auth, queues, inFlight, calls, store, ledger>>

\* stop() up to its first await.
Stop ==
    /\ Change /\ started
    /\ started' = FALSE
    /\ stopping' = (Tasks # {}) /\ pillsDue' = Tasks
    /\ UNCHANGED <<installed, available, fatal, auth, queues, tasks, blocked,
                   replacing, store, ledger>>

\* One round of the loop in _stop_workers(graceful=True): a task that is done is
\* passed over, the others get a pill, for which put() waits when the queue is
\* full.  The order of _tasks is that of the bindings, which is left open.
SendPill(s) ==
    /\ s \in pillsDue
    /\ \/ /\ blocked = None /\ Done(s)
          /\ pillsDue' = pillsDue \ {s}
          /\ UNCHANGED <<queue, blocked>>
       \/ /\ blocked = s \/ (blocked = None /\ ~Done(s))
          /\ Len(queue[s]) < QueueSize
          /\ queue' = [queue EXCEPT ![s] = Append(@, Pill)]
          /\ pillsDue' = pillsDue \ {s} /\ blocked' = None
       \/ /\ blocked = None /\ ~Done(s) /\ Len(queue[s]) >= QueueSize
          /\ blocked' = s
          /\ UNCHANGED <<queue, pillsDue>>
    /\ UNCHANGED <<gates, pending, tasks, stopping, replacing, store, changes, ledger>>

StopReturns ==
    /\ stopping /\ pillsDue = {} /\ TasksEnded
    /\ stopping' = FALSE
    /\ worker' = [s \in Speakers |-> "none"]
    /\ UNCHANGED <<gates, queues, inFlight, pillsDue, blocked, replacing, store,
                   changes, ledger>>

\* replace_speakers() with no task to wait for: what is queued goes unrecorded.
ReplaceIdle(S, A) ==
    /\ Change /\ ~replacing /\ Tasks = {}
    /\ Install(S, A)
    /\ UNCHANGED <<started, fatal, auth, inFlight, calls, store, ledger>>

\* replace_speakers() up to its await: drain, then one pill per live task.
BeginReplace ==
    /\ Change /\ ~replacing /\ Tasks # {}
    /\ replacing' = TRUE
    /\ outcomes' = Recorded(Waiting(installed), "dropped")
    /\ queue' = [s \in Speakers |-> IF s \in Tasks /\ ~Done(s) THEN <<Pill>> ELSE <<>>]
    /\ pending' = DrainKeys(installed)
    /\ UNCHANGED <<gates, tasks, stopping, pillsDue, blocked, store, submitted, accepted>>

\* The rest of it, where the arguments S and A come in.  A put() of stop() that
\* the drain woke up is over: it was scheduled before the tasks could end.
FinishReplace(S, A) ==
    /\ replacing /\ pillsDue = {} /\ TasksEnded
    /\ Install(S, A)
    /\ replacing' = FALSE
    /\ UNCHANGED <<started, fatal, auth, inFlight, stopping, pillsDue, blocked, store,
                   changes, ledger>>

Known(A) == A \cap installed

SetAvailableIds(A) ==
    /\ Change
    /\ available' = Known(A)
    /\ Drain(available \ Known(A))
    /\ outcomes' = Recorded(Waiting(available \ Known(A)), "dropped")
    /\ UNCHANGED <<installed, started, fatal, auth, tasks, calls, store, submitted, accepted>>

\* set_auth_status; A is what its caller records with the drained announcements.
ApplyAuth(newAuth, A) ==
    /\ auth' = newAuth
    /\ IF newAuth = "reauth_required"
       THEN Drain(installed) /\ outcomes' = Recorded(Waiting(installed) \cup A, "dropped")
       ELSE UNCHANGED <<queues, outcomes>>
    /\ UNCHANGED <<installed, available, started, fatal>>

SetAuthStatus(newAuth) ==
    /\ Change
    /\ ApplyAuth(newAuth, {})
    /\ UNCHANGED <<tasks, calls, store, submitted, accepted>>

-----------------------------------------------------------------------------
(* submit(): a detection loop submits what it creates in order of creation. *)

MaySubmit(a) ==
    /\ a \notin submitted
    /\ \A b \in Announcements :
         b < a /\ CameraOf[b] = CameraOf[a] /\ RuleOf(b) = RuleOf(a) => b \in submitted

\* Variant: submit() does not look at auth_status.
GateIgnoresAuth == ~fatal

\* Neither of the conditions under which submit() returns False without an event.
GateOpen == auth # "reauth_required" /\ ~fatal

\* The announcement a new one takes the place of, if any.
Superseded(a) ==
    IF a \in ObjectAnnouncements
    THEN {b \in Announcements : b = pending[SpeakerOf[a]][CameraOf[a]]}
    ELSE {}

Takes(a) ==
    /\ GateOpen /\ ~replacing
    /\ SpeakerOf[a] \in available
    /\ Superseded(a) # {} \/ Len(queue[SpeakerOf[a]]) < QueueSize

SubmitRefused(a) ==
    /\ MaySubmit(a) /\ ~Takes(a)
    /\ submitted' = submitted \cup {a}
    /\ outcomes' = IF GateOpen THEN Recorded({a}, "dropped") ELSE outcomes
    /\ UNCHANGED <<gates, queues, tasks, calls, store, changes, accepted>>

\* A newer object announcement takes the pending one's place in the queue.
SubmitCoalesced(a) ==
    /\ MaySubmit(a) /\ Takes(a) /\ Superseded(a) # {}
    /\ pending' = [pending EXCEPT ![SpeakerOf[a]][CameraOf[a]] = a]
    /\ submitted' = submitted \cup {a} /\ accepted' = accepted \cup {a}
    /\ outcomes' = Recorded(Superseded(a), "superseded")
    /\ UNCHANGED <<gates, queue, tasks, calls, store, changes>>

SubmitQueued(a) ==
    /\ MaySubmit(a) /\ Takes(a) /\ Superseded(a) = {}
    /\ queue' = [queue EXCEPT ![SpeakerOf[a]] = Append(@, EntryOf(a))]
    /\ pending' = IF a \in ObjectAnnouncements
                  THEN [pending EXCEPT ![SpeakerOf[a]][CameraOf[a]] = a]
                  ELSE pending
    /\ submitted' = submitted \cup {a} /\ accepted' = accepted \cup {a}
    /\ UNCHANGED <<gates, tasks, calls, store, changes, outcomes>>

Submit(a) == SubmitRefused(a) \/ SubmitCoalesced(a) \/ SubmitQueued(a)

-----------------------------------------------------------------------------
(* The worker of speaker s: _consume. *)

\* Variant: the pending action is read and not popped.
PoppedNothing(s) == pending

\* What _resolve_entry leaves of the pending actions.
Popped(s) == IF Head(queue[s]) \in Cameras
             THEN [pending EXCEPT ![s][Head(queue[s])] = None]
             ELSE pending

\* Variant: a worker takes nothing more once stop() is called.
DequeueUnlessStopping(s) ==
    /\ ~stopping /\ worker[s] = "waiting" /\ queue[s] # <<>>
    /\ queue' = [queue EXCEPT ![s] = Tail(@)] /\ pending' = Popped(s)

\* queue.get() and _resolve_entry.
Dequeue(s) ==
    /\ worker[s] = "waiting" /\ queue[s] # <<>>
    /\ queue' = [queue EXCEPT ![s] = Tail(@)] /\ pending' = Popped(s)

\* The announcement the worker takes, and the checks before it speaks.
Taken(s) == Resolve(s, Head(queue[s]))

MaySpeak(s, a) ==
    /\ a \in Announcements
    /\ auth # "reauth_required" /\ s \in available
    /\ a \notin aged
    /\ RuleOf(a) \in enabled[CameraOf[a]]
    /\ paired[CameraOf[a]] = SpeakerOf[a]

Goto(s, state, a) ==
    /\ worker' = [worker EXCEPT ![s] = state]
    /\ inFlight' = [inFlight EXCEPT ![s] = a]

TakePill(s) ==
    /\ Dequeue(s) /\ Head(queue[s]) = Pill
    /\ Goto(s, "exited", None)
    /\ UNCHANGED <<gates, calls, store, changes, ledger>>

\* Variant: a skipped announcement leaves no event.
SkipSilently(s) ==
    /\ Dequeue(s) /\ Head(queue[s]) # Pill /\ ~MaySpeak(s, Taken(s))
    /\ UNCHANGED <<gates, tasks, calls, store, changes, ledger>>

Skip(s) ==
    /\ Dequeue(s) /\ Head(queue[s]) # Pill /\ ~MaySpeak(s, Taken(s))
    /\ outcomes' = Recorded({Taken(s)}, "dropped")
    /\ UNCHANGED <<gates, tasks, calls, store, changes, submitted, accepted>>

\* asyncio.to_thread(speaker.speak, ...): the worker is away until it returns.
StartSpeaking(s) ==
    /\ Dequeue(s) /\ Head(queue[s]) # Pill /\ MaySpeak(s, Taken(s))
    /\ Goto(s, "speaking", Taken(s))
    /\ UNCHANGED <<gates, calls, store, changes, ledger>>

\* Variant: every answer reports the account ready.
AlwaysReady == "ready"

AuthAfterSpeech == IF auth = "reauth_required" THEN auth ELSE "ready"

\* speak() returned another code than reauth_required.
SpeechReturns(s) ==
    /\ worker[s] = "speaking"
    /\ auth' = AuthAfterSpeech
    /\ outcomes' = Recorded({inFlight[s]}, "spoken")
    /\ Goto(s, "waiting", None)
    /\ UNCHANGED <<installed, available, started, fatal, queues, calls, store,
                   changes, submitted, accepted>>

\* speak() returned reauth_required: _enter_auth_required gates every speaker;
\* the first worker to do so tells the account and waits until that is done.
SpeechRejected(s) ==
    /\ worker[s] = "speaking"
    /\ IF auth = "reauth_required"
       THEN ApplyAuth("reauth_required", {inFlight[s]}) /\ Goto(s, "waiting", None)
       ELSE ApplyAuth("reauth_required", {}) /\ Goto(s, "notifying", inFlight[s])
    /\ UNCHANGED <<calls, store, changes, submitted, accepted>>

NotifyReturns(s) ==
    /\ worker[s] = "notifying"
    /\ outcomes' = Recorded({inFlight[s]}, "dropped")
    /\ Goto(s, "waiting", None)
    /\ UNCHANGED <<gates, queues, calls, store, changes, submitted, accepted>>

\* The storage or the callback raises: the task ends with what it had in hand.
\* After a speech the account was reported ready before the event is recorded.
Crash(s) ==
    /\ \/ Dequeue(s) /\ Head(queue[s]) # Pill
       \/ worker[s] \in {"speaking", "notifying"} /\ UNCHANGED queues
    /\ auth' = auth \/ (worker[s] = "speaking" /\ auth' = AuthAfterSpeech)
    /\ Goto(s, "crashed", None)
    /\ UNCHANGED <<installed, available, started, fatal, calls, store, changes, ledger>>

\* _record_task_result
ReportCrash(s) ==
    /\ worker[s] = "crashed"
    /\ Goto(s, "failed", None)
    /\ fatal' = TRUE
    /\ UNCHANGED <<installed, available, started, auth, queues, calls, store,
                   changes, ledger>>

WorkerStep(s) ==
    \/ TakePill(s) \/ Skip(s) \/ StartSpeaking(s)
    \/ SpeechReturns(s) \/ SpeechRejected(s) \/ NotifyReturns(s)
    \/ Crash(s) \/ ReportCrash(s)

-----------------------------------------------------------------------------
(* What the rest of the application does to the storage, and time. *)

\* available()
Available(s) == started /\ s \in available /\ GateOpen

\* Runtime.set_rule_enabled; a rule goes on only for an available speaker.
SwitchRule(c, r) ==
    /\ Change
    /\ r \notin enabled[c] => Available(paired[c])
    /\ enabled' = [enabled EXCEPT ![c] = IF r \in @ THEN @ \ {r} ELSE @ \cup {r}]
    /\ UNCHANGED <<gates, queues, tasks, calls, paired, aged, ledger>>

Pair(c, s) ==
    /\ Change
    /\ paired' = [paired EXCEPT ![c] = s]
    /\ UNCHANGED <<gates, queues, tasks, calls, enabled, aged, ledger>>

\* Three seconds pass since the creation of a, and of those created before.
Age(a) ==
    /\ aged' = aged \cup {b \in ObjectAnnouncements : b <= a}
    /\ UNCHANGED <<gates, queues, tasks, calls, enabled, paired, changes, ledger>>

-----------------------------------------------------------------------------
CallStep ==
    \/ \E s \in Speakers : SendPill(s)
    \/ StopReturns
    \/ \E S \in SUBSET Speakers : \E A \in SUBSET S : FinishReplace(S, A)

Next ==
    \/ Start \/ Stop \/ BeginReplace
    \/ CallStep
    \/ \E S \in SUBSET Speakers : \E A \in SUBSET S : ReplaceIdle(S, A)
    \/ \E A \in SUBSET Speakers : SetAvailableIds(A)
    \/ \E newAuth \in AuthStates : SetAuthStatus(newAuth)
    \/ \E a \in Announcements : Submit(a)
    \/ \E s \in Speakers : WorkerStep(s)
    \/ \E c \in Cameras, r \in Rules : SwitchRule(c, r)
    \/ \E c \in Cameras, s \in Speakers : Pair(c, s)
    \/ \E a \in ObjectAnnouncements : Age(a)

\* The event loop runs every task that can go on, and MiNASpeaker.speak returns
\* within 30 seconds.  Nothing is said of a worker that is notifying: the
\* callback waits for the lock of Runtime, which the caller of stop() may hold.
Fairness ==
    /\ \A s \in Speakers : WF_vars(worker[s] # "notifying" /\ WorkerStep(s))
    /\ WF_vars(CallStep)

Spec == Init /\ [][Next]_vars /\ Fairness

-----------------------------------------------------------------------------
TypeOK ==
    /\ installed \subseteq Speakers /\ available \subseteq installed
    /\ started \in BOOLEAN /\ fatal \in BOOLEAN /\ auth \in AuthStates
    /\ queue \in [Speakers -> Seq(Entries)]
    /\ pending \in [Speakers -> [Cameras -> ObjectAnnouncements \cup {None}]]
    /\ worker \in [Speakers -> WorkerState]
    /\ inFlight \in [Speakers -> Announcements \cup {None}]
    /\ stopping \in BOOLEAN /\ replacing \in BOOLEAN
    /\ pillsDue \subseteq Speakers /\ blocked \in Speakers \cup {None}
    /\ enabled \in [Cameras -> SUBSET Rules] /\ paired \in [Cameras -> Speakers]
    /\ aged \subseteq ObjectAnnouncements /\ changes \in 0..MaxChanges
    /\ submitted \subseteq Announcements /\ accepted \subseteq submitted
    /\ outcomes \in [Announcements -> Seq(Outcome)]

(* A coalesce key stands in a speaker's queue once while an object            *)
(* announcement is pending behind it, and not at all otherwise: submit's      *)
(* in-place replacement, _resolve_entry's pop and every drain keep the two    *)
(* structures in step, or an announcement would be lost or played twice.      *)
KeysMatchPending ==
    \A s \in Speakers, c \in Cameras :
        LET at == {i \in DOMAIN queue[s] : queue[s][i] = c}
        IN  /\ (pending[s][c] # None) <=> (at # {})
            /\ \A i, j \in at : i = j

(* No announcement is recorded twice, whatever superseding, draining,         *)
(* replacing and finishing do to it.                                          *)
OneOutcome == \A a \in Announcements : Len(outcomes[a]) <= 1

(* While the account needs re-authorization no announcement waits anywhere,   *)
(* and none waits for a speaker that is not available: a change back never    *)
(* lets an old announcement out.  Of a storage that fails this says nothing:  *)
(* a record_event that raises breaks a drain off, gate shut, the rest queued. *)
GatesEmptyQueues ==
    /\ auth = "reauth_required" => Waiting(Speakers) = {}
    /\ Waiting(Speakers \ available) = {}

(* A late answer of another speaker never lifts the re-authorization gate:    *)
(* only the account does (set_auth_status), never a worker.                   *)
LateAnswerKeepsGate ==
    [][auth = "reauth_required" /\ worker' # worker => auth' = auth]_vars

(* An object announcement that starts to play is the newest its speaker       *)
(* accepted from that camera.                                                 *)
NewestIsSpoken ==
    [][\A s \in Speakers, b \in ObjectAnnouncements \cap accepted :
         LET a == inFlight'[s] IN
         a # inFlight[s] /\ a \in ObjectAnnouncements
         /\ CameraOf[b] = CameraOf[a] /\ SpeakerOf[b] = s => b <= a]_vars

fate == [a \in Announcements |->
           IF a \notin submitted THEN "new"
           ELSE IF outcomes[a] # <<>> \/ a \notin accepted THEN "closed"
           ELSE IF a \in Range(inFlight) THEN "playing"
           ELSE IF a \in Waiting(Speakers) THEN "waiting" ELSE "lost"]

Live(s) == worker[s] \in {"waiting", "speaking", "notifying"}

Ledger == INSTANCE AnnouncementLedger WITH served <- {s \in Speakers : Live(s)}

(* The workers keep the promise of AnnouncementLedger.                        *)
KeepsLedger == Ledger!Spec

\* The re-authorization callback of the worker of s never returns.
Notifying(s) == [](worker[s] = "notifying")

(* An announcement that waits for a speaker does not wait for ever: it is     *)
(* played, recorded or given up, unless the worker is gone or its             *)
(* re-authorization callback never returns.                                   *)
EveryAnnouncementIsSettled ==
    \A a \in Announcements :
        fate[a] = "waiting" ~> \/ fate[a] \in {"closed", "lost"}
                               \/ ~Live(SpeakerOf[a]) \/ Notifying(SpeakerOf[a])

(* A worker waits on an empty queue for a pill that was drained, or stop()    *)
(* waits for room in the queue of a worker that is gone.                      *)
Stranded ==
    \/ \E s \in Speakers \ pillsDue : worker[s] = "waiting" /\ queue[s] = <<>>
    \/ \E s \in pillsDue : blocked = s /\ Done(s)

(* stop() and replace_speakers() return once the speeches end, unless they    *)
(* are stranded, or wait for a worker whose callback never returns: under     *)
(* Runtime.stop it waits for the very lock that the caller holds.             *)
CallsEndUnlessStranded ==
    /\ stopping ~> ~stopping \/ Stranded \/ \E s \in Speakers : Notifying(s)
    /\ replacing ~> ~replacing \/ Stranded \/ \E s \in Speakers : Notifying(s)
=============================================================================
