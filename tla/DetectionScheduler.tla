------------------------ MODULE DetectionScheduler ------------------------
(***************************************************************************)
(* The detection scheduler (src/src/guduck/detection_scheduler.py): camera *)
(* loops hand it frames, one consumer task runs the shared detectors on    *)
(* them, and Runtime, under its lock and so one call at a time, enables,   *)
(* disables and replaces the detectors.                                    *)
(*                                                                         *)
(* A camera waits for its answer before it sends the next frame of a kind; *)
(* when it is stopped in the meantime it gives the request up.  Frames and *)
(* results are left out: a request is known by the number of its future.   *)
(***************************************************************************)
EXTENDS Integers, Sequences, FiniteSets, Functions

CONSTANTS
    Kinds,        \* DetectorKind
    Replaceable,  \* the kinds whose factory Runtime exchanges: the object detector
    Cameras,
    MaxRequests,  \* bound on the requests that are accepted
    MaxCalls,     \* bound on the calls of Runtime
    None,
    Pill          \* the None entry that ends the consumer

ASSUME DetectionSchedulerAssumption ==
    /\ Replaceable \subseteq Kinds
    /\ MaxRequests \in Nat /\ MaxCalls \in Nat
    /\ None \notin Nat \cup Kinds /\ Pill \notin Nat

VARIABLES
    detector,   \* _detectors: the instance loaded for each kind, or None
    status,     \* _statuses
    queue,      \* _queue: futures and the pill
    pending,    \* _pending: the future registered for each kind and camera
    keys,       \* the kind and camera of each future
    future,     \* the state of each future
    consumer,   \* _task: "none", at an await ("waiting", "inferring") or "done"
    job,        \* the future whose frame is being looked at
    using,      \* the instance that looks at it
    call,       \* what Runtime waits for: <<method, kind>>
    calls       \* how many calls Runtime has made; an instance is known by its call

detectors == <<detector, status>>
requests  == <<queue, pending, keys, future>>
task      == <<consumer, job, using>>
vars      == <<detectors, requests, task, call, calls>>

Statuses == {"stopped", "starting", "ready", "degraded"}
Futures  == {"waiting", "answered", "failed", "cancelled"}
Idle     == <<"idle", None>>
Busy     == {"enable", "disable", "close", "load", "lock"} \X (Kinds \cup {None})

Kind(i)     == keys[i][1]
Alive       == consumer \in {"waiting", "inferring"}
Loaded      == {k \in Kinds : detector[k] # None}
NonePending == [k \in Kinds |-> [c \in Cameras |-> None]]

-----------------------------------------------------------------------------
(* The private methods. *)

\* Variant: what is unregistered is not failed.
PendingOfNone(K) == {}

\* The pending futures of the kinds in K.
PendingOf(K) ==
    {i \in DOMAIN future : \E k \in K, c \in Cameras : pending[k][c] = i}

\* set_exception on those of F that are not done.
Failed(F) == [i \in DOMAIN future |-> IF i \in F /\ future[i] = "waiting"
                                      THEN "failed" ELSE future[i]]

\* Variants: the failure of one kind takes the requests of all, or only the failed one.
UnregisteredAll(K) == NonePending
StillRegistered(K) == pending

Unregistered(K) == [k \in Kinds |-> IF k \in K THEN NonePending[k] ELSE pending[k]]

\* The finally clause of _consume: whatever is registered under the job's key goes.
Released(i, p) == [p EXCEPT ![keys[i][1]][keys[i][2]] = None]

\* Variant: no consumer is made when the last one has ended.
FirstConsumer == IF consumer = "none" THEN "waiting" ELSE consumer

\* A consumer is made when there is none that runs.
Consumer == IF Alive THEN consumer ELSE "waiting"

Load(k) ==
    /\ detector' = [detector EXCEPT ![k] = calls]
    /\ status' = [status EXCEPT ![k] = "ready"]
    /\ consumer' = Consumer
    /\ UNCHANGED <<job, using>>

\* _stop_consumer up to its await, which there is only for a consumer that runs.
StopConsumer(method) ==
    IF Alive
    THEN queue' = Append(queue, Pill) /\ call' = <<method, None>> /\ UNCHANGED consumer
    ELSE queue' = <<>> /\ call' = Idle /\ consumer' = "none"

-----------------------------------------------------------------------------
Init ==
    /\ detector = [k \in Kinds |-> None] /\ status = [k \in Kinds |-> "stopped"]
    /\ queue = <<>> /\ pending = NonePending /\ keys = <<>> /\ future = <<>>
    /\ consumer = "none" /\ job = None /\ using = None
    /\ call = Idle /\ calls = 0

-----------------------------------------------------------------------------
(* Calls of Runtime. *)

Call == call = Idle /\ calls < MaxCalls /\ calls' = calls + 1

Enable(k) ==
    /\ Call
    /\ IF k \in Loaded THEN UNCHANGED <<status, call>>
       ELSE status' = [status EXCEPT ![k] = "starting"] /\ call' = <<"enable", k>>
    /\ UNCHANGED <<detector, requests, task>>

EnableReturns(k) ==
    /\ call = <<"enable", k>>
    /\ Load(k)
    /\ call' = Idle
    /\ UNCHANGED <<requests, calls>>

EnableFails(k) ==
    /\ call = <<"enable", k>>
    /\ detector' = [detector EXCEPT ![k] = None]
    /\ status' = [status EXCEPT ![k] = "degraded"]
    /\ call' = Idle
    /\ UNCHANGED <<requests, task, calls>>

Disable(k) ==
    /\ Call
    /\ future' = Failed(PendingOf({k})) /\ pending' = Unregistered({k})
    /\ detector' = [detector EXCEPT ![k] = None]
    /\ status' = [status EXCEPT ![k] = "stopped"]
    /\ IF Loaded \subseteq {k} THEN StopConsumer("disable")
                               ELSE UNCHANGED <<queue, call, consumer>>
    /\ UNCHANGED <<keys, job, using>>

Close ==
    /\ Call
    /\ future' = Failed(PendingOf(Kinds)) /\ pending' = NonePending
    /\ detector' = [k \in Kinds |-> None]
    /\ status' = IF Alive THEN status ELSE [k \in Kinds |-> "stopped"]
    /\ StopConsumer("close")
    /\ UNCHANGED <<keys, job, using>>

\* Variant: no timeout.
ConsumerReturns == consumer = "done" /\ UNCHANGED <<pending, job, using>>

\* The consumer ends, or the timeout cancels it, which does not end its thread.
ConsumerEnds ==
    \/ consumer = "done" /\ UNCHANGED <<pending, job, using>>
    \/ /\ consumer = "inferring"
       /\ pending' = Released(job, pending)
       /\ job' = None /\ using' = None

\* The rest of _stop_consumer, and of close().
StopReturns ==
    /\ call[1] \in {"disable", "close"} /\ ConsumerEnds
    /\ queue' = <<>> /\ consumer' = "none"
    /\ status' = IF call[1] = "close" THEN [k \in Kinds |-> "stopped"] ELSE status
    /\ call' = Idle
    /\ UNCHANGED <<detector, keys, future, calls>>

\* replace_factory: the factory runs in a thread, then the inference lock is awaited.
Replace(k) ==
    /\ Call /\ call' = <<"load", k>>
    /\ UNCHANGED <<detectors, requests, task>>

ReplacementLoaded(k) ==
    /\ call = <<"load", k>>
    /\ call' \in {<<"lock", k>>, Idle}
    /\ UNCHANGED <<detectors, requests, task, calls>>

\* Variant: the detector is exchanged without waiting for the inference lock.
ReplaceWithoutLock(k) ==
    /\ call = <<"lock", k>>
    /\ IF status[k] # "stopped" THEN Load(k) ELSE UNCHANGED <<detectors, task>>
    /\ call' = Idle
    /\ UNCHANGED <<requests, calls>>

ReplaceReturns(k) ==
    /\ call = <<"lock", k>> /\ consumer # "inferring"
    /\ IF status[k] # "stopped" THEN Load(k) ELSE UNCHANGED <<detectors, task>>
    /\ call' = Idle
    /\ UNCHANGED <<requests, calls>>

-----------------------------------------------------------------------------
(* The cameras. *)

\* _detect, when it does not raise.
Request(k, c) ==
    /\ Len(future) < MaxRequests
    /\ \A i \in DOMAIN future : keys[i] = <<k, c>> => future[i] # "waiting"
    /\ k \in Loaded /\ Alive /\ pending[k][c] = None
    /\ LET i == Len(future) + 1
       IN  /\ future' = Append(future, "waiting") /\ keys' = Append(keys, <<k, c>>)
           /\ pending' = [pending EXCEPT ![k][c] = i]
           /\ queue' = Append(queue, i)
    /\ UNCHANGED <<detectors, task, call, calls>>

\* CameraRuntime.stop cancels a detection loop that does not end in time; Runtime
\* stops cameras between its calls of the scheduler.
GiveUp(i) ==
    /\ call = Idle /\ future[i] = "waiting"
    /\ future' = [future EXCEPT ![i] = "cancelled"]
    /\ UNCHANGED <<detectors, queue, pending, keys, task, call, calls>>

-----------------------------------------------------------------------------
(* The consumer. *)

\* _queue.get() has an entry, and no replacement that came first holds up the lock.
Served == consumer = "waiting" /\ queue # <<>> /\ call[1] # "lock"

TakePill ==
    /\ Served /\ Head(queue) = Pill
    /\ queue' = Tail(queue) /\ consumer' = "done"
    /\ UNCHANGED <<detectors, pending, keys, future, job, using, call, calls>>

Begin ==
    /\ Served /\ Head(queue) # Pill /\ Kind(Head(queue)) \in Loaded
    /\ queue' = Tail(queue) /\ job' = Head(queue)
    /\ using' = detector[Kind(Head(queue))] /\ consumer' = "inferring"
    /\ UNCHANGED <<detectors, pending, keys, future, call, calls>>

\* Variant: the status stays as it is.
StatusKept(k) == status

Degraded(k) == [status EXCEPT ![k] = "degraded"]

\* The except clause of _consume, and its finally clause.
FailJob(i) ==
    /\ future' = Failed(PendingOf({Kind(i)}) \cup {i})
    /\ pending' = Released(i, Unregistered({Kind(i)}))
    /\ detector' = [detector EXCEPT ![Kind(i)] = None]
    /\ status' = Degraded(Kind(i))
    /\ consumer' = IF Loaded \subseteq {Kind(i)} THEN "done" ELSE "waiting"
    /\ job' = None /\ using' = None
    /\ UNCHANGED <<keys, call, calls>>

\* The detector of the job went while the job was in the queue.
StaleJob ==
    /\ Served /\ Head(queue) # Pill /\ Kind(Head(queue)) \notin Loaded
    /\ queue' = Tail(queue)
    /\ FailJob(Head(queue))

InferenceFails ==
    /\ consumer = "inferring"
    /\ FailJob(job)
    /\ UNCHANGED queue

InferenceReturns ==
    /\ consumer = "inferring"
    /\ future' = [future EXCEPT ![job] = IF @ = "waiting" THEN "answered" ELSE @]
    /\ pending' = Released(job, pending)
    /\ consumer' = "waiting" /\ job' = None /\ using' = None
    /\ UNCHANGED <<detectors, queue, keys, call, calls>>

-----------------------------------------------------------------------------
Consume == TakePill \/ Begin \/ StaleJob

EnableEnds == \E k \in Kinds : EnableReturns(k) \/ EnableFails(k)

ReplaceGoesOn == \E k \in Replaceable : ReplacementLoaded(k) \/ ReplaceReturns(k)

Next ==
    \/ \E k \in Kinds : Enable(k) \/ Disable(k)
    \/ \E k \in Replaceable : Replace(k)
    \/ EnableEnds \/ ReplaceGoesOn \/ Close \/ StopReturns
    \/ \E k \in Kinds, c \in Cameras : Request(k, c)
    \/ \E i \in DOMAIN future : GiveUp(i)
    \/ Consume \/ InferenceFails \/ InferenceReturns

\* A factory returns or raises, the event loop runs whatever can run, and _stop_consumer
\* has a timeout.  Nothing is assumed of detect(): it may never return.
Fairness ==
    /\ WF_vars(EnableEnds) /\ WF_vars(ReplaceGoesOn) /\ WF_vars(StopReturns)
    /\ WF_vars(Consume)

Spec == Init /\ [][Next]_vars /\ Fairness

-----------------------------------------------------------------------------
(* Properties. *)

\* Every variable has its type; the pills and jobs in the queue are known.
TypeOK ==
    /\ detector \in [Kinds -> (1..calls) \cup {None}] /\ status \in [Kinds -> Statuses]
    /\ keys \in Seq(Kinds \X Cameras) /\ future \in Seq(Futures) /\ Len(keys) = Len(future)
    /\ queue \in Seq(DOMAIN future \cup {Pill})
    /\ pending \in [Kinds -> [Cameras -> DOMAIN future \cup {None}]]
    /\ consumer \in {"none", "waiting", "inferring", "done"}
    /\ IF consumer = "inferring" THEN job \in DOMAIN future /\ using \in 1..calls
                                 ELSE job = None /\ using = None
    /\ call \in {Idle} \cup Busy
    /\ calls \in 0..MaxCalls

\* What Runtime.snapshot shows is so: a kind is "ready" exactly while its detector is
\* loaded, outside close(), which resets the statuses only when the consumer has ended.
StatusMatchesDetectors ==
    call[1] # "close" => \A k \in Kinds : status[k] = "ready" <=> k \in Loaded

\* A loaded detector has a consumer to run it: neither the failure of another kind, nor the
\* pill of an earlier stop, nor a timeout may leave _detect without the task it checks for.
LoadedIsServed == Loaded # {} => Alive

\* A camera that is held off by "detector_request_pending" is held off by a request the
\* consumer will still come to, for a kind that is loaded: a registration whose job is gone
\* would shut the camera out for good.
RegisteredWillBeServed ==
    \A k \in Kinds, c \in Cameras :
        LET i == pending[k][c]
        IN  i # None => /\ k \in Loaded
                        /\ i = job \/ \E n \in DOMAIN queue : queue[n] = i

\* An inference that fails degrades its own kind: the detectors of the other kinds, their
\* registered requests and the futures their cameras wait for stay as they are.
FailureIsolated ==
    [][\A k \in Kinds : (status[k] # "degraded" /\ status'[k] = "degraded") =>
         \A j \in Kinds \ {k} :
            /\ detector'[j] = detector[j] /\ pending'[j] = pending[j]
            /\ \A i \in DOMAIN future : Kind(i) = j => future'[i] = future[i]]_vars

\* A registered request is answered by the detector that is installed: an exchange waits for
\* the inference, and a disable fails the requests of the detector it takes away.
AnswersAreCurrent ==
    [][\A k \in Kinds, c \in Cameras : \A i \in DOMAIN future :
         (pending[k][c] = i /\ future[i] = "waiting" /\ future'[i] = "answered") =>
             using = detector[k]]_vars

InferencesEnd == []<>(consumer # "inferring")

Outstanding == {job} \cup Range(queue)

\* i is registered and the only request of its key that the consumer has yet to finish.
Waits(i, k, c) ==
    /\ i \in DOMAIN future /\ future[i] = "waiting" /\ pending[k][c] = i
    /\ \A j \in DOMAIN future \ {i} : keys[j] = keys[i] => j \notin Outstanding

\* While inferences end, a camera that waits for a registered request gets an answer or an
\* error.  (Not when an older job of the same key, failed by a disable, is still to come:
\* its finally clause unregisters the new request, which no later stop then fails.)
RequestsAreAnswered ==
    InferencesEnd =>
        \A k \in Kinds, c \in Cameras, i \in 1..MaxRequests :
            Waits(i, k, c) ~> (i \in DOMAIN future /\ future[i] # "waiting")

\* enable, disable and close end even when an inference never does; replace_factory ends
\* while inferences do.
CallsEnd ==
    /\ (call[1] \in {"enable", "disable", "close"}) ~> (call = Idle)
    /\ InferencesEnd => ((call # Idle) ~> (call = Idle))
=============================================================================
