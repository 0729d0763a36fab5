---------------------- MODULE DetectionSchedulerProofs ----------------------
(***************************************************************************)
(* Proofs about DetectionScheduler for any kinds, cameras and bounds: the  *)
(* inductive invariant DInv, one lemma per action, and from it the         *)
(* invariants and the action properties the runs check.                    *)
(***************************************************************************)
EXTENDS DetectionScheduler, TLAPS

\* A registration stands for a request of its key that is queued or under way, and the
\* detector of its kind is loaded.
RegisteredAt(k, c) ==
    LET i == pending[k][c]
    IN  i # None => /\ keys[i] = <<k, c>> /\ detector[k] # None
                    /\ i = job \/ \E n \in DOMAIN queue : queue[n] = i

Registered == \A k \in Kinds, c \in Cameras : RegisteredAt(k, c)

\* Only a stop has a pill in the queue.
PillsOfStops == \A n \in DOMAIN queue : queue[n] = Pill => call[1] \in {"disable", "close"}

\* No detector is loaded while a stop waits, nor is the one that enable is loading; a call
\* that waits has been counted.
CallsFindNone ==
    /\ call # Idle => calls > 0
    /\ call[1] \in {"disable", "close"} => \A k \in Kinds : detector[k] = None
    /\ \A k \in Kinds : call = <<"enable", k>> => detector[k] = None

Served1 == \A k \in Kinds : detector[k] # None => consumer \in {"waiting", "inferring"}

StatusShown ==
    call[1] # "close" => \A k \in Kinds : status[k] = "ready" <=> detector[k] # None

\* The request under way, if it is still registered, is looked at by the installed detector.
UsingInstalled ==
    consumer = "inferring" =>
        \A k \in Kinds, c \in Cameras : pending[k][c] = job => using = detector[k]

DInv == /\ TypeOK /\ Registered /\ PillsOfStops /\ CallsFindNone /\ Served1
        /\ StatusShown /\ UsingInstalled

-----------------------------------------------------------------------------
USE DetectionSchedulerAssumption

LEMMA InitDInv == Init => DInv
<1> SUFFICES ASSUME Init PROVE DInv
  OBVIOUS
<1>1. TypeOK
  BY DEF Init, TypeOK, NonePending, Statuses, Futures, Idle
<1>. QED
  BY <1>1 DEF Init, DInv, Registered, RegisteredAt, PillsOfStops, CallsFindNone, Served1,
              StatusShown, UsingInstalled, NonePending, Idle

(* One lemma for each action: it preserves DInv. *)
LEMMA EnableStep ==
    ASSUME DInv, NEW k \in Kinds, Enable(k)
    PROVE  DInv'
<1> USE DEF DInv, Enable, Call, detectors, requests, task, Idle
<1>1. TypeOK'
  <2>1. /\ detector' \in [Kinds -> (1..calls') \cup {None}] /\ calls' \in 0..MaxCalls
        /\ IF consumer' = "inferring" THEN job' \in DOMAIN future' /\ using' \in 1..calls'
                                      ELSE job' = None /\ using' = None
    BY DEF TypeOK
  <2>2. status' \in [Kinds -> Statuses]
    BY DEF TypeOK, Statuses
  <2>3. call' = Idle \/ call' = <<"enable", k>>
    BY DEF TypeOK, Call
  <2>4. <<"enable", k>> \in Busy
    BY DEF Busy
  <2>. QED  BY <2>1, <2>2, <2>3, <2>4 DEF TypeOK
<1>2. Registered' /\ PillsOfStops' /\ Served1'
  BY DEF Registered, RegisteredAt, PillsOfStops, Served1, TypeOK
<1>3. CallsFindNone'
  BY <1>1 DEF CallsFindNone, Loaded, TypeOK
<1>4. StatusShown' /\ UsingInstalled'
  BY <1>1 DEF StatusShown, UsingInstalled, Loaded, TypeOK
<1>. QED  BY <1>1, <1>2, <1>3, <1>4

LEMMA LoadStep ==
    ASSUME DInv, NEW k \in Kinds, Load(k), calls \in 1..MaxCalls,
           call[1] \notin {"disable", "close"}, call' = Idle,
           detector[k] = None \/ consumer # "inferring",
           UNCHANGED <<requests, calls>>
    PROVE  DInv'
<1> USE DEF DInv, Load, requests, Idle
<1>1. TypeOK'
  BY DEF TypeOK, Statuses, Consumer, Alive
<1>2. Registered' /\ PillsOfStops'
  BY <1>1 DEF Registered, RegisteredAt, PillsOfStops, TypeOK
<1>3. Served1' /\ CallsFindNone'
  BY <1>1 DEF Served1, CallsFindNone, TypeOK, Consumer, Alive
<1>4. StatusShown'
  BY <1>1 DEF StatusShown, TypeOK
<1>5. UsingInstalled'
  BY <1>1 DEF UsingInstalled, Registered, RegisteredAt, TypeOK, Consumer, Alive
<1>. QED  BY <1>1, <1>2, <1>3, <1>4, <1>5

LEMMA EnableReturnsStep ==
    ASSUME DInv, NEW k \in Kinds, EnableReturns(k)
    PROVE  DInv'
<1>1. calls \in 1..MaxCalls /\ detector[k] = None /\ call[1] \notin {"disable", "close"}
  BY DEF DInv, TypeOK, CallsFindNone, EnableReturns, Idle
<1>. QED  BY <1>1, LoadStep DEF EnableReturns

LEMMA EnableFailsStep ==
    ASSUME DInv, NEW k \in Kinds, EnableFails(k)
    PROVE  DInv'
<1> USE DEF DInv, EnableFails, requests, task, Idle
<1>0. detector[k] = None /\ detector' = detector
  BY DEF CallsFindNone, TypeOK
<1>1. TypeOK'
  BY DEF TypeOK, Statuses
<1>2. Registered' /\ PillsOfStops' /\ Served1' /\ CallsFindNone' /\ UsingInstalled'
  BY <1>0 DEF Registered, RegisteredAt, PillsOfStops, Served1, CallsFindNone, UsingInstalled,
              TypeOK
<1>3. StatusShown'
  BY <1>0 DEF StatusShown, TypeOK
<1>. QED  BY <1>1, <1>2, <1>3

LEMMA ReplaceStep ==
    ASSUME DInv, NEW k \in Replaceable, Replace(k)
    PROVE  DInv'
<1> USE DEF DInv, Replace, Call, detectors, requests, task, Idle
<1>1. TypeOK'
  BY DEF TypeOK, Busy
<1>. QED
  BY <1>1 DEF Registered, RegisteredAt, PillsOfStops, CallsFindNone, Served1, StatusShown,
              UsingInstalled, TypeOK

LEMMA ReplacementLoadedStep ==
    ASSUME DInv, NEW k \in Replaceable, ReplacementLoaded(k)
    PROVE  DInv'
<1> USE DEF DInv, ReplacementLoaded, detectors, requests, task, Idle
<1>1. TypeOK'
  BY DEF TypeOK, Busy
<1>. QED
  BY <1>1 DEF Registered, RegisteredAt, PillsOfStops, CallsFindNone, Served1, StatusShown,
              UsingInstalled, TypeOK

LEMMA ReplaceReturnsStep ==
    ASSUME DInv, NEW k \in Replaceable, ReplaceReturns(k)
    PROVE  DInv'
<1>1. calls \in 1..MaxCalls /\ call[1] \notin {"disable", "close"}
  BY DEF DInv, TypeOK, CallsFindNone, ReplaceReturns, Idle
<1>2. CASE status[k] # "stopped"
  BY <1>1, <1>2, LoadStep DEF ReplaceReturns
<1>3. CASE status[k] = "stopped"
  <2>1. TypeOK'
    BY <1>3 DEF DInv, TypeOK, ReplaceReturns, detectors, requests, task, Idle
  <2>. QED
    BY <1>1, <1>3, <2>1 DEF DInv, ReplaceReturns, detectors, requests, task, Idle, Registered,
       RegisteredAt, PillsOfStops, CallsFindNone, Served1, StatusShown, UsingInstalled, TypeOK
<1>. QED  BY <1>2, <1>3

LEMMA RequestStep ==
    ASSUME DInv, NEW k \in Kinds, NEW c \in Cameras, Request(k, c)
    PROVE  DInv'
<1> USE DEF DInv, Request, detectors, task, Idle
<1>1. TypeOK'
  <2>1. /\ future' \in Seq(Futures) /\ keys' \in Seq(Kinds \X Cameras)
        /\ Len(keys') = Len(future') /\ Len(future') = Len(future) + 1
    BY DEF TypeOK, Futures
  <2>2. DOMAIN future \subseteq DOMAIN future' /\ Len(future) + 1 \in DOMAIN future'
    BY <2>1 DEF TypeOK
  <2>3. queue' \in Seq(DOMAIN future' \cup {Pill})
    <3>1. queue \in Seq(DOMAIN future' \cup {Pill})
      BY <2>2 DEF TypeOK
    <3>. QED  BY <2>2, <3>1
  <2>4. pending' \in [Kinds -> [Cameras -> DOMAIN future' \cup {None}]]
    BY <2>2 DEF TypeOK
  <2>. QED  BY <2>1, <2>2, <2>3, <2>4 DEF TypeOK
<1>2. ASSUME NEW j \in Kinds, NEW d \in Cameras  PROVE RegisteredAt(j, d)'
  <2>1. CASE <<j, d>> = <<k, c>>
    <3>1. j = k /\ d = c
      BY <2>1
    <3>2. pending'[k][c] = Len(future) + 1
      BY DEF TypeOK
    <3>3. keys'[Len(future) + 1] = <<k, c>> /\ future'[Len(future) + 1] = "waiting"
      BY DEF TypeOK
    <3>4. Len(queue) + 1 \in DOMAIN queue' /\ queue'[Len(queue) + 1] = Len(future) + 1
      BY DEF TypeOK
    <3>5. detector'[k] # None
      BY DEF Loaded
    <3>. QED  BY <3>1, <3>2, <3>3, <3>4, <3>5 DEF RegisteredAt
  <2>2. CASE <<j, d>> # <<k, c>>
    <3>1. /\ RegisteredAt(j, d) /\ job' = job /\ detector' = detector
          /\ pending'[j][d] = pending[j][d]
      BY <2>2 DEF Registered, TypeOK
    <3>2. \A i \in DOMAIN future : keys'[i] = keys[i]
      BY DEF TypeOK
    <3>3. \A n \in DOMAIN queue : n \in DOMAIN queue' /\ queue'[n] = queue[n]
      BY DEF TypeOK
    <3>4. pending[j][d] \in DOMAIN future \cup {None}
      BY DEF TypeOK
    <3>. QED  BY <3>1, <3>2, <3>3, <3>4 DEF RegisteredAt
  <2>. QED  BY <2>1, <2>2
<1>3. PillsOfStops' /\ CallsFindNone' /\ Served1' /\ StatusShown'
  BY <1>1 DEF PillsOfStops, CallsFindNone, Served1, StatusShown, TypeOK
<1>4. UsingInstalled'
  BY <1>1 DEF UsingInstalled, TypeOK
<1>. QED  BY <1>1, <1>2, <1>3, <1>4 DEF Registered

LEMMA GiveUpStep ==
    ASSUME DInv, NEW i \in DOMAIN future, GiveUp(i)
    PROVE  DInv'
<1> USE DEF DInv, GiveUp, detectors, task, Idle
<1>1. TypeOK'
  BY DEF TypeOK, Futures
<1>. QED
  BY <1>1 DEF Registered, RegisteredAt, PillsOfStops, CallsFindNone, Served1, StatusShown,
              UsingInstalled, TypeOK

(* What becomes of the requests. *)
LEMMA FailedType ==
    ASSUME TypeOK, NEW F
    PROVE  Failed(F) \in Seq(Futures) /\ Len(Failed(F)) = Len(future)
BY DEF TypeOK, Failed, Futures

LEMMA ReleasedType ==
    ASSUME TypeOK, NEW i \in DOMAIN future,
           NEW p \in [Kinds -> [Cameras -> DOMAIN future \cup {None}]]
    PROVE  /\ Released(i, p) \in [Kinds -> [Cameras -> DOMAIN future \cup {None}]]
           /\ \A k \in Kinds, c \in Cameras :
                 Released(i, p)[k][c] = IF keys[i] = <<k, c>> THEN None ELSE p[k][c]
<1>1. PICK k \in Kinds, c \in Cameras : keys[i] = <<k, c>>
  BY DEF TypeOK
<1>. QED  BY <1>1 DEF Released

LEMMA UnregisteredType ==
    ASSUME TypeOK, NEW K
    PROVE  Unregistered(K) \in [Kinds -> [Cameras -> DOMAIN future \cup {None}]]
BY DEF TypeOK, Unregistered, NonePending

\* The three outcomes of a stop up to its await.
LEMMA StopConsumerType ==
    ASSUME TypeOK, NEW m \in {"disable", "close"}, StopConsumer(m)
    PROVE  /\ queue' \in Seq(DOMAIN future \cup {Pill})
           /\ call' \in {Idle} \cup Busy
           /\ consumer' \in {"none", "waiting", "inferring", "done"}
           /\ (consumer = "inferring" <=> consumer' = "inferring")
<1> USE DEF TypeOK, StopConsumer
<1>1. CASE Alive
  <2>1. Append(queue, Pill) \in Seq(DOMAIN future \cup {Pill})
    OBVIOUS
  <2>2. <<m, None>> \in Busy
    BY DEF Busy
  <2>. QED  BY <1>1, <2>1, <2>2 DEF Alive
<1>2. CASE ~ Alive
  BY <1>2 DEF Alive
<1>. QED  BY <1>1, <1>2

LEMMA DisableStep ==
    ASSUME DInv, NEW k \in Kinds, Disable(k)
    PROVE  DInv'
<1> USE DEF DInv, Disable, Call, Idle
<1>1. TypeOK'
  <2>1. /\ queue' \in Seq(DOMAIN future \cup {Pill}) /\ call' \in {Idle} \cup Busy
        /\ consumer' \in {"none", "waiting", "inferring", "done"}
        /\ (consumer = "inferring" <=> consumer' = "inferring")
    BY StopConsumerType DEF TypeOK
  <2>2. /\ future' \in Seq(Futures) /\ Len(future') = Len(future)
        /\ pending' \in [Kinds -> [Cameras -> DOMAIN future \cup {None}]]
    BY FailedType, UnregisteredType
  <2>3. DOMAIN future' = DOMAIN future
    BY <2>2 DEF TypeOK
  <2>4. /\ detector' \in [Kinds -> (1..calls') \cup {None}] /\ status' \in [Kinds -> Statuses]
        /\ calls' \in 0..MaxCalls
    BY DEF TypeOK, Statuses
  <2>5. IF consumer' = "inferring" THEN job' \in DOMAIN future' /\ using' \in 1..calls'
                                   ELSE job' = None /\ using' = None
    BY <2>1, <2>3, <2>4 DEF TypeOK
  <2>. QED  BY <2>1, <2>2, <2>3, <2>4, <2>5 DEF TypeOK
<1>2. ASSUME NEW j \in Kinds, NEW c \in Cameras  PROVE RegisteredAt(j, c)'
  <2>1. CASE j = k
    BY <2>1 DEF RegisteredAt, Unregistered, NonePending, TypeOK
  <2>2. CASE j # k
    <3>1. pending'[j][c] = pending[j][c] /\ detector'[j] = detector[j]
      BY <2>2 DEF Unregistered, TypeOK
    <3>2. CASE detector[j] = None
      BY <3>1, <3>2 DEF Registered, RegisteredAt
    <3>3. CASE detector[j] # None
      <4>1. queue' = queue
        BY <2>2, <3>3 DEF Loaded
      <4>2. RegisteredAt(j, c) /\ keys' = keys /\ job' = job
        BY DEF Registered
      <4>. QED  BY <3>1, <4>1, <4>2 DEF RegisteredAt
    <3>. QED  BY <3>2, <3>3
  <2>. QED  BY <2>1, <2>2
<1>3. PillsOfStops'
  BY <1>1 DEF PillsOfStops, StopConsumer, TypeOK
<1>4. CallsFindNone'
  <2>1. CASE Loaded \subseteq {k}
    BY <1>1, <2>1 DEF CallsFindNone, StopConsumer, Loaded, TypeOK
  <2>2. CASE ~ (Loaded \subseteq {k})
    BY <1>1, <2>2 DEF CallsFindNone, TypeOK
  <2>. QED  BY <2>1, <2>2
<1>5. Served1'
  <2>1. CASE Loaded \subseteq {k}
    BY <1>1, <2>1 DEF Served1, Loaded, TypeOK
  <2>2. CASE ~ (Loaded \subseteq {k})
    BY <1>1, <2>2 DEF Served1, TypeOK
  <2>. QED  BY <2>1, <2>2
<1>6. StatusShown'
  BY <1>1 DEF StatusShown, TypeOK
<1>7. UsingInstalled'
  <2> SUFFICES ASSUME consumer' = "inferring", NEW j \in Kinds, NEW c \in Cameras,
                      pending'[j][c] = job'
               PROVE  using' = detector'[j]
    BY DEF UsingInstalled
  <2>1. consumer = "inferring" /\ job' \in DOMAIN future
    BY StopConsumerType DEF TypeOK
  <2>2. j # k
    BY <2>1 DEF Unregistered, NonePending, TypeOK
  <2>. QED  BY <2>1, <2>2 DEF UsingInstalled, Unregistered, TypeOK
<1>. QED  BY <1>1, <1>2, <1>3, <1>4, <1>5, <1>6, <1>7 DEF Registered

LEMMA CloseStep ==
    ASSUME DInv, Close
    PROVE  DInv'
<1> USE DEF DInv, Close, Call, Idle
<1>1. TypeOK'
  <2>1. /\ queue' \in Seq(DOMAIN future \cup {Pill}) /\ call' \in {Idle} \cup Busy
        /\ consumer' \in {"none", "waiting", "inferring", "done"}
        /\ (consumer = "inferring" <=> consumer' = "inferring")
    BY StopConsumerType DEF TypeOK
  <2>2. /\ future' \in Seq(Futures) /\ Len(future') = Len(future)
        /\ pending' \in [Kinds -> [Cameras -> DOMAIN future \cup {None}]]
    BY FailedType DEF NonePending
  <2>3. DOMAIN future' = DOMAIN future
    BY <2>2 DEF TypeOK
  <2>4. /\ detector' \in [Kinds -> (1..calls') \cup {None}] /\ status' \in [Kinds -> Statuses]
        /\ calls' \in 0..MaxCalls
    BY DEF TypeOK, Statuses
  <2>5. IF consumer' = "inferring" THEN job' \in DOMAIN future' /\ using' \in 1..calls'
                                   ELSE job' = None /\ using' = None
    BY <2>1, <2>3, <2>4 DEF TypeOK
  <2>. QED  BY <2>1, <2>2, <2>3, <2>4, <2>5 DEF TypeOK
<1>2. Registered'
  BY DEF Registered, RegisteredAt, NonePending
<1>3. PillsOfStops' /\ CallsFindNone' /\ Served1'
  BY <1>1 DEF PillsOfStops, CallsFindNone, Served1, StopConsumer, TypeOK
<1>4. StatusShown'
  BY <1>1 DEF StatusShown, StopConsumer, Alive, TypeOK
<1>5. UsingInstalled'
  BY <1>1 DEF UsingInstalled, NonePending, TypeOK
<1>. QED  BY <1>1, <1>2, <1>3, <1>4, <1>5

LEMMA StopReturnsStep ==
    ASSUME DInv, StopReturns
    PROVE  DInv'
<1> USE DEF DInv, StopReturns, Idle
<1>0. /\ consumer = "done" \/ consumer = "inferring"
      /\ pending' \in [Kinds -> [Cameras -> DOMAIN future \cup {None}]]
      /\ job' = None /\ using' = None
  <2>1. CASE consumer = "done"
    BY <2>1 DEF ConsumerEnds, TypeOK
  <2>2. CASE consumer = "inferring"
    <3>1. /\ job \in DOMAIN future
          /\ pending \in [Kinds -> [Cameras -> DOMAIN future \cup {None}]]
      BY <2>2 DEF TypeOK
    <3>. QED  BY <2>2, <3>1, ReleasedType DEF ConsumerEnds, TypeOK
  <2>. QED  BY <2>1, <2>2 DEF ConsumerEnds
<1>1. TypeOK'
  BY <1>0 DEF TypeOK, Statuses
<1>2. \A k \in Kinds : detector[k] = None
  BY DEF CallsFindNone
<1>3. \A k \in Kinds, c \in Cameras : pending'[k][c] = None
  <2>1. \A k \in Kinds, c \in Cameras : pending[k][c] = None
    BY <1>2 DEF Registered, RegisteredAt
  <2>2. CASE consumer = "done"
    BY <2>1, <2>2 DEF ConsumerEnds
  <2>3. CASE consumer = "inferring"
    <3>1. /\ job \in DOMAIN future
          /\ pending \in [Kinds -> [Cameras -> DOMAIN future \cup {None}]]
      BY <2>3 DEF TypeOK
    <3>. QED  BY <2>1, <2>3, <3>1, ReleasedType DEF ConsumerEnds
  <2>. QED  BY <1>0, <2>2, <2>3
<1>4. Registered' /\ PillsOfStops' /\ CallsFindNone' /\ Served1' /\ UsingInstalled'
  BY <1>1, <1>2, <1>3 DEF Registered, RegisteredAt, PillsOfStops, CallsFindNone, Served1,
                          UsingInstalled, TypeOK
<1>5. StatusShown'
  <2>1. CASE call[1] = "close"
    BY <1>1, <1>2, <2>1 DEF StatusShown, TypeOK
  <2>2. CASE call[1] # "close"
    BY <1>1, <1>2, <2>2 DEF StatusShown, TypeOK
  <2>. QED  BY <2>1, <2>2
<1>. QED  BY <1>1, <1>4, <1>5

\* What is left in the queue when its head is taken.
LEMMA TailFacts ==
    ASSUME NEW S, NEW q \in Seq(S), q # <<>>
    PROVE  /\ Head(q) \in S /\ Tail(q) \in Seq(S)
           /\ \A n \in DOMAIN q : q[n] = Head(q) \/ \E l \in DOMAIN Tail(q) : Tail(q)[l] = q[n]
           /\ \A l \in DOMAIN Tail(q) : \E n \in DOMAIN q : Tail(q)[l] = q[n]
<1>1. Head(q) \in S /\ Tail(q) \in Seq(S)
  OBVIOUS
<1>2. ASSUME NEW n \in DOMAIN q, q[n] # Head(q)
      PROVE  \E l \in DOMAIN Tail(q) : Tail(q)[l] = q[n]
  <2>1. n - 1 \in DOMAIN Tail(q) /\ Tail(q)[n - 1] = q[n]
    BY <1>2
  <2>. QED  BY <2>1
<1>3. ASSUME NEW l \in DOMAIN Tail(q)
      PROVE  \E n \in DOMAIN q : Tail(q)[l] = q[n]
  <2>1. l + 1 \in DOMAIN q /\ Tail(q)[l] = q[l + 1]
    BY <1>3
  <2>. QED  BY <2>1
<1>. QED  BY <1>1, <1>2, <1>3

LEMMA ServedQueue ==
    ASSUME TypeOK, Served, queue' = Tail(queue)
    PROVE  /\ Head(queue) \in DOMAIN future \cup {Pill}
           /\ queue' \in Seq(DOMAIN future \cup {Pill})
           /\ \A n \in DOMAIN queue : queue[n] = Head(queue)
                                      \/ \E l \in DOMAIN queue' : queue'[l] = queue[n]
           /\ \A l \in DOMAIN queue' : \E n \in DOMAIN queue : queue'[l] = queue[n]
<1>1. queue \in Seq(DOMAIN future \cup {Pill}) /\ queue # <<>>
  BY DEF TypeOK, Served
<1>. QED  BY <1>1, TailFacts

LEMMA TakePillStep ==
    ASSUME DInv, TakePill
    PROVE  DInv'
<1> USE DEF DInv, TakePill, detectors, Idle
<1>1. TypeOK'
  BY ServedQueue DEF TypeOK, Served
<1>2. queue \in Seq(DOMAIN future \cup {Pill}) /\ queue # <<>> /\ queue[1] = Pill
  BY DEF TypeOK, Served
<1>3. \A k \in Kinds : detector[k] = None
  BY <1>2 DEF PillsOfStops, CallsFindNone
<1>4. Registered' /\ Served1'
  BY <1>3 DEF Registered, RegisteredAt, Served1
<1>5. PillsOfStops'
  BY ServedQueue DEF PillsOfStops
<1>. QED
  BY <1>1, <1>4, <1>5 DEF CallsFindNone, StatusShown, UsingInstalled

LEMMA BeginStep ==
    ASSUME DInv, Begin
    PROVE  DInv'
<1> USE DEF DInv, Begin, detectors, Idle
<1>0. /\ Head(queue) \in DOMAIN future /\ Kind(Head(queue)) \in Kinds
      /\ detector[Kind(Head(queue))] \in 1..calls
  BY ServedQueue DEF TypeOK, Loaded, Kind
<1>1. TypeOK'
  BY <1>0, ServedQueue DEF TypeOK, Served
<1>2. ASSUME NEW k \in Kinds, NEW c \in Cameras  PROVE RegisteredAt(k, c)'
  <2>1. RegisteredAt(k, c) /\ job = None
    BY DEF Registered, TypeOK, Served
  <2>. QED  BY <2>1, ServedQueue DEF RegisteredAt
<1>3. PillsOfStops'
  BY ServedQueue DEF PillsOfStops
<1>4. CallsFindNone' /\ Served1' /\ StatusShown'
  BY DEF CallsFindNone, Served1, StatusShown
<1>5. UsingInstalled'
  <2> SUFFICES ASSUME NEW k \in Kinds, NEW c \in Cameras, pending[k][c] = Head(queue)
               PROVE  k = Kind(Head(queue))
    BY DEF UsingInstalled
  <2>1. pending[k][c] # None
    BY <1>0, <1>1 DEF TypeOK
  <2>. QED  BY <2>1 DEF Registered, RegisteredAt, Kind
<1>. QED  BY <1>1, <1>2, <1>3, <1>4, <1>5 DEF Registered

LEMMA FailedJobRegistrations ==
    ASSUME TypeOK, NEW i \in DOMAIN future
    PROVE  LET p == Released(i, Unregistered({Kind(i)}))
           IN  /\ p \in [Kinds -> [Cameras -> DOMAIN future \cup {None}]]
               /\ \A j \in Kinds, c \in Cameras :
                     p[j][c] = IF j = Kind(i) \/ keys[i] = <<j, c>> THEN None ELSE pending[j][c]
<1> DEFINE u == Unregistered({Kind(i)})
<1>1. u \in [Kinds -> [Cameras -> DOMAIN future \cup {None}]]
  BY UnregisteredType
<1>2. \A j \in Kinds, c \in Cameras : u[j][c] = IF j = Kind(i) THEN None ELSE pending[j][c]
  BY DEF Unregistered, NonePending, TypeOK
<1> HIDE DEF u
<1>3. /\ Released(i, u) \in [Kinds -> [Cameras -> DOMAIN future \cup {None}]]
      /\ \A j \in Kinds, c \in Cameras :
            Released(i, u)[j][c] = IF keys[i] = <<j, c>> THEN None ELSE u[j][c]
  BY <1>1, ReleasedType
<1>4. \A j \in Kinds, c \in Cameras :
          Released(i, u)[j][c] = IF j = Kind(i) \/ keys[i] = <<j, c>> THEN None ELSE pending[j][c]
  BY <1>2, <1>3
<1>. QED  BY <1>3, <1>4 DEF u

\* The failure of a job, taken from the queue or under way.
LEMMA FailJobStep ==
    ASSUME DInv, NEW i \in DOMAIN future, FailJob(i), call[1] # "lock" \/ consumer = "inferring",
           consumer \in {"waiting", "inferring"},
           queue' \in Seq(DOMAIN future \cup {Pill}),
           \A n \in DOMAIN queue : queue[n] = i \/ \E l \in DOMAIN queue' : queue'[l] = queue[n],
           \A l \in DOMAIN queue' : \E n \in DOMAIN queue : queue'[l] = queue[n],
           job = None \/ job = i
    PROVE  DInv'
<1> DEFINE k == Kind(i)
<1> USE DEF DInv, FailJob, Degraded, Idle
<1>0. k \in Kinds
  BY DEF TypeOK, Kind
<1>1. /\ pending' \in [Kinds -> [Cameras -> DOMAIN future \cup {None}]]
      /\ \A j \in Kinds, c \in Cameras :
            pending'[j][c] = IF j = k \/ keys[i] = <<j, c>> THEN None ELSE pending[j][c]
  <2>1. pending' = Released(i, Unregistered({Kind(i)}))
    OBVIOUS
  <2>. QED  BY ONLY <2>1, FailedJobRegistrations, TypeOK, i \in DOMAIN future
<1>2. TypeOK'
  <2>1. future' \in Seq(Futures) /\ Len(future') = Len(future) /\ DOMAIN future' = DOMAIN future
    BY FailedType DEF TypeOK
  <2>2. detector' \in [Kinds -> (1..calls) \cup {None}] /\ status' \in [Kinds -> Statuses]
    BY DEF TypeOK, Statuses
  <2>. QED  BY <1>1, <2>1, <2>2 DEF TypeOK
<1>3. ASSUME NEW j \in Kinds, NEW c \in Cameras  PROVE RegisteredAt(j, c)'
  <2> SUFFICES ASSUME pending'[j][c] # None  PROVE RegisteredAt(j, c)'
    BY DEF RegisteredAt
  <2>1. j # k /\ keys[i] # <<j, c>> /\ pending'[j][c] = pending[j][c]
    BY <1>1
  <2>2. /\ keys[pending[j][c]] = <<j, c>> /\ detector[j] # None
        /\ pending[j][c] = job \/ \E n \in DOMAIN queue : queue[n] = pending[j][c]
    BY <2>1 DEF Registered, RegisteredAt
  <2>3. pending[j][c] # i /\ pending[j][c] # job
    BY <2>1, <2>2
  <2>4. detector'[j] = detector[j]
    BY <2>1 DEF TypeOK
  <2>. QED  BY <2>1, <2>2, <2>3, <2>4 DEF RegisteredAt
<1>4. PillsOfStops'
  BY DEF PillsOfStops
<1>5. CallsFindNone' /\ StatusShown'
  BY <1>0, <1>2 DEF CallsFindNone, StatusShown, TypeOK
<1>6. Served1'
  BY <1>0, <1>2 DEF Served1, Loaded, TypeOK
<1>7. UsingInstalled'
  BY DEF UsingInstalled
<1>. QED  BY <1>2, <1>3, <1>4, <1>5, <1>6, <1>7 DEF Registered

LEMMA StaleJobStep ==
    ASSUME DInv, StaleJob
    PROVE  DInv'
<1>1. Head(queue) \in DOMAIN future /\ job = None
  BY ServedQueue DEF DInv, TypeOK, StaleJob, Served
<1>. QED  BY <1>1, ServedQueue, FailJobStep DEF DInv, StaleJob, Served

LEMMA InferenceFailsStep ==
    ASSUME DInv, InferenceFails
    PROVE  DInv'
<1>1. job \in DOMAIN future /\ queue \in Seq(DOMAIN future \cup {Pill})
  BY DEF DInv, TypeOK, InferenceFails
<1>. QED  BY <1>1, FailJobStep DEF InferenceFails

LEMMA InferenceReturnsStep ==
    ASSUME DInv, InferenceReturns
    PROVE  DInv'
<1> USE DEF DInv, InferenceReturns, detectors, Idle
<1>0. job \in DOMAIN future
  BY DEF TypeOK
<1>1. /\ pending' \in [Kinds -> [Cameras -> DOMAIN future \cup {None}]]
      /\ \A k \in Kinds, c \in Cameras :
            pending'[k][c] = IF keys[job] = <<k, c>> THEN None ELSE pending[k][c]
  <2>1. pending \in [Kinds -> [Cameras -> DOMAIN future \cup {None}]]
    BY DEF TypeOK
  <2>. QED  BY <1>0, <2>1, ReleasedType
<1>2. TypeOK'
  <2>1. future' \in Seq(Futures) /\ Len(future') = Len(future) /\ DOMAIN future' = DOMAIN future
    BY <1>0 DEF TypeOK, Futures
  <2>. QED  BY <1>1, <2>1 DEF TypeOK
<1>3. ASSUME NEW k \in Kinds, NEW c \in Cameras, pending'[k][c] # None
      PROVE  RegisteredAt(k, c)'
  <2>1. keys[job] # <<k, c>> /\ pending'[k][c] = pending[k][c]
    BY <1>1, <1>3
  <2>2. RegisteredAt(k, c)
    BY DEF Registered
  <2>3. pending[k][c] # job
    BY <1>3, <2>1, <2>2 DEF RegisteredAt
  <2>. QED  BY <1>3, <2>1, <2>2, <2>3 DEF RegisteredAt
<1>4. PillsOfStops' /\ CallsFindNone' /\ Served1' /\ StatusShown' /\ UsingInstalled'
  BY DEF PillsOfStops, CallsFindNone, Served1, StatusShown, UsingInstalled
<1>. QED  BY <1>2, <1>3, <1>4 DEF Registered, RegisteredAt

LEMMA NextDInv ==
    ASSUME DInv, [Next]_vars
    PROVE  DInv'
<1>1. CASE UNCHANGED vars
  <2> USE <1>1 DEF vars, detectors, requests, task, DInv
  <2>1. TypeOK' /\ Registered' /\ PillsOfStops' /\ CallsFindNone'
    BY DEF TypeOK, Registered, RegisteredAt, PillsOfStops, CallsFindNone
  <2>2. Served1' /\ StatusShown' /\ UsingInstalled'
    BY DEF Served1, StatusShown, UsingInstalled
  <2>. QED  BY <2>1, <2>2
<1>2. CASE Next
  <2>1. CASE \E k \in Kinds : Enable(k) \/ Disable(k)
    BY <2>1, EnableStep, DisableStep
  <2>2. CASE \E k \in Replaceable : Replace(k)
    BY <2>2, ReplaceStep
  <2>3. CASE EnableEnds
    BY <2>3, EnableReturnsStep, EnableFailsStep DEF EnableEnds
  <2>4. CASE ReplaceGoesOn
    BY <2>4, ReplacementLoadedStep, ReplaceReturnsStep DEF ReplaceGoesOn
  <2>5. CASE Close \/ StopReturns
    BY <2>5, CloseStep, StopReturnsStep
  <2>6. CASE \E k \in Kinds, c \in Cameras : Request(k, c)
    BY <2>6, RequestStep
  <2>7. CASE \E i \in DOMAIN future : GiveUp(i)
    BY <2>7, GiveUpStep
  <2>8. CASE Consume
    BY <2>8, TakePillStep, BeginStep, StaleJobStep DEF Consume
  <2>9. CASE InferenceFails \/ InferenceReturns
    BY <2>9, InferenceFailsStep, InferenceReturnsStep
  <2>. QED  BY <1>2, <2>1, <2>2, <2>3, <2>4, <2>5, <2>6, <2>7, <2>8, <2>9 DEF Next
<1>. QED  BY <1>1, <1>2

THEOREM DInvHolds == Spec => []DInv
<1>1. Init => DInv
  BY InitDInv
<1>2. DInv /\ [Next]_vars => DInv'
  BY NextDInv
<1>. QED  BY <1>1, <1>2, PTL DEF Spec

-----------------------------------------------------------------------------
(* The results.                                                                *)

\* enable, disable, close, replace_factory, _detect and _consume keep the types.
THEOREM TypeCorrect == Spec => []TypeOK
<1>1. DInv => TypeOK
  BY DEF DInv
<1>. QED  BY <1>1, DInvHolds, PTL

\* The status Runtime.snapshot shows of a kind is "ready" exactly while it is loaded.
THEOREM StatusesMatch == Spec => []StatusMatchesDetectors
<1>1. DInv => StatusMatchesDetectors
  BY DEF DInv, StatusShown, StatusMatchesDetectors, Loaded
<1>. QED  BY <1>1, DInvHolds, PTL

\* A loaded detector always has a consumer task that runs.
THEOREM LoadedServed == Spec => []LoadedIsServed
<1>1. DInv => LoadedIsServed
  BY DEF DInv, Served1, LoadedIsServed, Loaded, Alive
<1>. QED  BY <1>1, DInvHolds, PTL

\* A registration that holds a camera off stands for a job the consumer will come to.
THEOREM RegisteredServed == Spec => []RegisteredWillBeServed
<1>1. DInv => RegisteredWillBeServed
  BY DEF DInv, Registered, RegisteredAt, RegisteredWillBeServed, Loaded
<1>. QED  BY <1>1, DInvHolds, PTL

\* Only the return of an inference answers a request, and only its own.
LEMMA OnlyInferenceAnswers ==
    ASSUME DInv, [Next]_vars, NEW i \in DOMAIN future,
           future[i] = "waiting", future'[i] = "answered"
    PROVE  consumer = "inferring" /\ i = job
<1>0. future \in Seq(Futures)
  BY DEF DInv, TypeOK
<1>1. CASE InferenceReturns
  BY <1>0, <1>1 DEF InferenceReturns
<1>2. CASE \E F : future' = Failed(F)
  BY <1>0, <1>2 DEF Failed
<1>3. CASE \E k \in Kinds, c \in Cameras : Request(k, c)
  BY <1>0, <1>3 DEF Request
<1>4. CASE \E n \in DOMAIN future : GiveUp(n)
  BY <1>0, <1>4 DEF GiveUp
<1>5. CASE future' = future
  BY <1>5
<1>6. InferenceFails \/ StaleJob \/ Close \/ (\E k \in Kinds : Disable(k))
        => \E F : future' = Failed(F)
  <2>1. ASSUME NEW n, FailJob(n)  PROVE \E F : future' = Failed(F)
    BY <2>1 DEF FailJob
  <2>2. ASSUME NEW k, Disable(k)  PROVE \E F : future' = Failed(F)
    BY <2>2 DEF Disable
  <2>3. Close => \E F : future' = Failed(F)
    BY DEF Close
  <2>. QED  BY <2>1, <2>2, <2>3 DEF InferenceFails, StaleJob
<1>7. TakePill \/ Begin \/ StopReturns \/ EnableEnds \/ ReplaceGoesOn
         \/ (\E k \in Kinds : Enable(k)) \/ (\E k \in Replaceable : Replace(k))
         \/ UNCHANGED vars
        => future' = future
  BY DEF TakePill, Begin, StopReturns, EnableEnds, EnableReturns, EnableFails,
         ReplaceGoesOn, ReplacementLoaded, ReplaceReturns, Enable, Replace, vars, requests
<1>. QED  BY <1>1, <1>2, <1>3, <1>4, <1>5, <1>6, <1>7 DEF Next, Consume

\* A registered request is answered by the detector that is installed.
THEOREM AnswersCurrent == Spec => AnswersAreCurrent
<1>1. DInv /\ [Next]_vars =>
        [\A k \in Kinds, c \in Cameras : \A i \in DOMAIN future :
           (pending[k][c] = i /\ future[i] = "waiting" /\ future'[i] = "answered") =>
               using = detector[k]]_vars
  BY OnlyInferenceAnswers DEF DInv, UsingInstalled
<1>. QED  BY <1>1, DInvHolds, PTL DEF Spec, AnswersAreCurrent

\* The failure of a job leaves the other kinds alone.
LEMMA FailJobIsolated ==
    ASSUME DInv, NEW i \in DOMAIN future, FailJob(i), NEW j \in Kinds \ {Kind(i)}
    PROVE  /\ detector'[j] = detector[j] /\ pending'[j] = pending[j]
           /\ \A n \in DOMAIN future : Kind(n) = j => future'[n] = future[n]
<1>1. detector'[j] = detector[j]
  BY DEF FailJob, DInv, TypeOK
<1>2. pending'[j] = pending[j]
  <2>1. TypeOK /\ pending' = Released(i, Unregistered({Kind(i)}))
    BY DEF DInv, FailJob
  <2>2. /\ pending' \in [Kinds -> [Cameras -> DOMAIN future \cup {None}]]
        /\ \A k \in Kinds, c \in Cameras :
              pending'[k][c] = IF k = Kind(i) \/ keys[i] = <<k, c>> THEN None ELSE pending[k][c]
    BY ONLY <2>1, FailedJobRegistrations, i \in DOMAIN future
  <2>3. \A c \in Cameras : pending'[j][c] = pending[j][c]
    BY <2>2 DEF Kind
  <2>4. /\ pending[j] \in [Cameras -> DOMAIN future \cup {None}]
        /\ pending'[j] \in [Cameras -> DOMAIN future \cup {None}]
    BY <2>1, <2>2 DEF TypeOK
  <2>. QED  BY ONLY <2>3, <2>4
<1>3. ASSUME NEW n \in DOMAIN future, Kind(n) = j  PROVE future'[n] = future[n]
  <2>1. n \notin PendingOf({Kind(i)}) \cup {i}
    <3> SUFFICES ASSUME NEW c \in Cameras, Kind(i) \in Kinds, pending[Kind(i)][c] = n
                 PROVE  FALSE
      BY <1>3 DEF PendingOf, DInv, TypeOK, Kind
    <3>1. pending[Kind(i)][c] # None
      BY DEF DInv, TypeOK
    <3>2. keys[n] = <<Kind(i), c>>
      BY <3>1 DEF DInv, Registered, RegisteredAt
    <3>. QED  BY <1>3, <3>2 DEF Kind
  <2>. QED  BY <2>1 DEF FailJob, Failed
<1>. QED  BY <1>1, <1>2, <1>3

\* An inference that fails degrades its own kind and no other.
THEOREM FailuresIsolated == Spec => FailureIsolated
<1> DEFINE Isolated(k) == \A j \in Kinds \ {k} :
                /\ detector'[j] = detector[j] /\ pending'[j] = pending[j]
                /\ \A i \in DOMAIN future : Kind(i) = j => future'[i] = future[i]
           Step == \A k \in Kinds : (status[k] # "degraded" /\ status'[k] = "degraded") => Isolated(k)
<1>1. ASSUME DInv, Next, NEW k \in Kinds, status[k] # "degraded", status'[k] = "degraded"
      PROVE  Isolated(k)
  <2>0. status \in [Kinds -> Statuses]
    BY <1>1 DEF DInv, TypeOK
  <2>1. ASSUME NEW i \in DOMAIN future, FailJob(i)  PROVE Isolated(k)
    <3>1. Kind(i) = k
      BY <1>1, <2>0, <2>1 DEF FailJob, Degraded
    <3>. QED  BY <1>1, <2>1, <3>1, FailJobIsolated
  <2>2. ASSUME NEW l \in Kinds, EnableFails(l)  PROVE Isolated(k)
    <3>1. l = k
      BY <1>1, <2>0, <2>2 DEF EnableFails
    <3>. QED  BY <1>1, <2>2, <3>1 DEF EnableFails, requests, DInv, TypeOK
  <2>3. \A l \in Kinds : ~ Enable(l) /\ ~ Disable(l) /\ ~ EnableReturns(l)
    BY <1>1, <2>0 DEF Enable, Disable, EnableReturns, Load
  <2>4. \A l \in Replaceable : ~ Replace(l) /\ ~ ReplacementLoaded(l) /\ ~ ReplaceReturns(l)
    BY <1>1, <2>0 DEF Replace, ReplacementLoaded, ReplaceReturns, Load, detectors
  <2>5. ~ Close /\ ~ StopReturns /\ ~ TakePill /\ ~ Begin /\ ~ InferenceReturns
    BY <1>1, <2>0 DEF Close, StopReturns, TakePill, Begin, InferenceReturns, detectors
  <2>6. ~ (\E c \in Cameras, l \in Kinds : Request(l, c)) /\ ~ (\E i \in DOMAIN future : GiveUp(i))
    BY <1>1 DEF Request, GiveUp, detectors
  <2>7. StaleJob => \E i \in DOMAIN future : FailJob(i)
    BY <1>1, ServedQueue DEF DInv, StaleJob
  <2>8. InferenceFails => \E i \in DOMAIN future : FailJob(i)
    BY <1>1 DEF DInv, TypeOK, InferenceFails
  <2>. QED
    BY <1>1, <2>1, <2>2, <2>3, <2>4, <2>5, <2>6, <2>7, <2>8
       DEF Next, Consume, EnableEnds, ReplaceGoesOn
<1>2. DInv /\ [Next]_vars => [Step]_vars
  BY <1>1
<1>. QED  BY <1>2, DInvHolds, PTL DEF Spec, FailureIsolated
=============================================================================
