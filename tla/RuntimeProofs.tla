--------------------------- MODULE RuntimeProofs ---------------------------
(***************************************************************************)
(* Proofs about Runtime for any cameras, speakers, regions and calls, in   *)
(* three layers: the types, the order in which calls hold the lock, and    *)
(* what _reconcile has made of the cameras at each of its awaits.          *)
(***************************************************************************)
EXTENDS Runtime, TLAPS

USE RuntimeAssumption

-----------------------------------------------------------------------------
(* Types. *)

Flags == started \in BOOLEAN /\ lost \in BOOLEAN /\ fatal \in BOOLEAN

Stored ==
    /\ enabled \in [Cameras -> SUBSET Rules] /\ paired \in [Cameras -> Speakers \cup {None}]
    /\ region \in [Cameras -> Regions] /\ streams \in (SUBSET Cameras) \cup {None}
    /\ available \subseteq Speakers

Kept ==
    /\ runtime \in [Cameras -> Runtimes \cup {None}]
    /\ descriptor \in [Cameras -> Descriptors \cup {None}]
    /\ errors \subseteq Cameras /\ baselines \subseteq Cameras /\ spent \subseteq Cameras
    /\ observed \in [Cameras -> Regions \cup {None}]

Models ==
    /\ kinds \subseteq Kinds /\ degraded \subseteq Replaceable /\ left \subseteq Replaceable
    /\ reloaded \subseteq Replaceable /\ hung \subseteq Awaits

Held ==
    /\ lifespan \in {"starting", "serving", "stopping", "over"} /\ app \in {"stopped", "running"}
    /\ turn \in Ops \cup {None} /\ at \in Awaits \cup {None}
    /\ wanted \in [Cameras -> Descriptors \cup {None}] /\ todo \subseteq Cameras

\* Only a camera that has a runtime is dropped, and only one that is wanted is built.
ToDo ==
    /\ at = "dropping" => \A c \in todo : runtime[c] # None
    /\ at = "rebuilding" => \A c \in todo : wanted[c] # None

Types ==
    /\ Flags /\ Stored /\ Kept /\ Models /\ Held /\ ToDo
    /\ waiters \in Seq(Ops) /\ calls \in 0 .. MaxCalls

\* What is at the end and at the head of a queue.
LEMMA AppendRange ==
    ASSUME NEW S, NEW q \in Seq(S), NEW x \in S
    PROVE  Append(q, x) \in Seq(S) /\ Range(Append(q, x)) = Range(q) \cup {x}
<1>1. /\ Append(q, x) \in Seq(S) /\ Len(Append(q, x)) = Len(q) + 1
      /\ \A i \in 1 .. Len(q) : Append(q, x)[i] = q[i]
      /\ Append(q, x)[Len(q) + 1] = x
  OBVIOUS
<1>2. DOMAIN q = 1 .. Len(q) /\ DOMAIN Append(q, x) = 1 .. Len(q) + 1 /\ Len(q) \in Nat
  OBVIOUS
<1>. QED  BY <1>1, <1>2 DEF Range

LEMMA TailRange ==
    ASSUME NEW S, NEW q \in Seq(S), q # <<>>
    PROVE  /\ Tail(q) \in Seq(S) /\ Head(q) \in Range(q) /\ Head(q) \in S
           /\ Range(q) = Range(Tail(q)) \cup {Head(q)}
<1>1. /\ Tail(q) \in Seq(S) /\ Len(Tail(q)) = Len(q) - 1 /\ Len(q) \in Nat \ {0}
      /\ \A i \in 1 .. Len(q) - 1 : Tail(q)[i] = q[i + 1]
      /\ Head(q) = q[1] /\ Head(q) \in S
  OBVIOUS
<1>2. DOMAIN q = 1 .. Len(q) /\ DOMAIN Tail(q) = 1 .. Len(q) - 1
  BY <1>1
<1>3. \A i \in 2 .. Len(q) : i - 1 \in 1 .. Len(q) - 1 /\ Tail(q)[i - 1] = q[i]
  BY <1>1
<1>4. \A i \in 1 .. Len(q) - 1 : i + 1 \in 1 .. Len(q)
  BY <1>1
<1>5. ASSUME NEW x \in Range(q)
      PROVE  x \in Range(Tail(q)) \cup {Head(q)}
  <2>1. PICK i \in 1 .. Len(q) : x = q[i]
    BY <1>2 DEF Range
  <2>2. CASE i = 1
    BY <2>1, <2>2, <1>1
  <2>3. CASE i # 1
    <3>1. i \in 2 .. Len(q)
      BY <2>3, <1>1
    <3>. QED  BY <2>1, <3>1, <1>2, <1>3 DEF Range
  <2>. QED  BY <2>2, <2>3
<1>6. Head(q) \in Range(q)
  BY <1>1, <1>2 DEF Range
<1>7. Range(Tail(q)) \subseteq Range(q)
  BY <1>1, <1>2, <1>4 DEF Range
<1>. QED  BY <1>1, <1>5, <1>6, <1>7

LEMMA InitTypes == Init => Types
<1> SUFFICES ASSUME Init PROVE Types
  OBVIOUS
<1>1. Flags
  BY DEF Init, Flags
<1>2. Stored /\ Kept /\ Models /\ Held /\ ToDo
  BY DEF Init, Stored, Kept, Models, Held, ToDo, Nothing
<1>3. waiters \in Seq(Ops) /\ calls \in 0 .. MaxCalls
  BY DEF Init
<1>. QED  BY <1>1, <1>2, <1>3 DEF Types

LEMMA FlagsStep ==
    ASSUME Flags, [Next]_vars
    PROVE  Flags'
<1> USE DEF Flags
<1>1. CASE \E A \in SUBSET Speakers : Start(A)
  BY <1>1 DEF Start
<1>2. CASE \E A \in SUBSET Speakers, auth \in BOOLEAN : Publish(A, auth)
  BY <1>2 DEF Publish
<1>3. CASE LosesAccount \/ WorkerDies \/ CloseRest
  BY <1>3 DEF LosesAccount, WorkerDies, CloseRest
<1>4. CASE UNCHANGED <<started, lost, fatal>>
  BY <1>4
<1>. QED
  BY <1>1, <1>2, <1>3, <1>4
     DEF Next, Enter, GoOn, vars, speakers, Request, Stop, PillsDrained, InferenceHangs, Frame,
         DetectorFails, LeftJob, SetRule, SetSpeaker, SetRegion, RefreshState, SetAdapter,
         RefreshCameras, BeginStop, Leaves, Reconcile, Discovered, Drop, StopOld, StartNew,
         Detectors, Exchange, Return, CloseCamera, StopRaises, StopReturns

LEMMA CallsStep ==
    ASSUME calls \in 0 .. MaxCalls, [Next]_vars
    PROVE  calls' \in 0 .. MaxCalls
<1>1. CASE Outside
  BY <1>1 DEF Outside
<1>2. CASE UNCHANGED calls
  BY <1>2
<1>. QED
  BY <1>1, <1>2 DEF Next, Enter, GoOn, vars, Start, Request,
       Publish, Stop, LosesAccount, WorkerDies, PillsDrained, InferenceHangs, Frame, DetectorFails,
       LeftJob, SetRule, SetSpeaker, SetRegion, RefreshState, SetAdapter, RefreshCameras, BeginStop,
       Leaves, Reconcile, Discovered, Drop, StopOld, StartNew, Detectors, Exchange, Return,
       CloseCamera, StopRaises, CloseRest, StopReturns

LEMMA WaitersStep ==
    ASSUME waiters \in Seq(Ops), [Next]_vars
    PROVE  waiters' \in Seq(Ops)
<1>1. CASE \E op \in Ops : Takes(op)
  BY <1>1, TailRange DEF Takes
<1>2. CASE \E op \in Ops : waiters' = Append(waiters, op)
  BY <1>2, AppendRange
<1>3. CASE waiters' = <<"boot">> \/ waiters' = <<>>
  <2>1. <<>> \in Seq(Ops)
    OBVIOUS
  <2>2. "boot" \in Ops
    BY DEF Ops
  <2>3. <<"boot">> \in Seq(Ops)
    BY <2>2
  <2>. QED  BY <1>3, <2>1, <2>3
<1>4. CASE UNCHANGED waiters
  BY <1>4
<1>5. {"rule", "speaker", "region", "adapter", "refresh", "stop", "notice", "state"} \subseteq Ops
  BY DEF Ops
<1>6. CASE Enter
  BY <1>1, <1>5, <1>6 DEF Enter, SetRule, SetSpeaker, SetRegion, RefreshState, SetAdapter,
                                      RefreshCameras, BeginStop
<1>7. CASE GoOn
  <2>1. CASE Return
    BY <1>2, <1>4, <1>5, <2>1 DEF Return
  <2>2. CASE \E c \in Cameras : StopRaises(c)
    BY <1>3, <2>2 DEF StopRaises
  <2>3. CASE \E S \in SUBSET Cameras : Discovered(S)
    BY <1>4, <2>3 DEF Discovered
  <2>. QED
    BY <1>4, <1>7, <2>1, <2>2, <2>3
       DEF GoOn, Drop, StopOld, StartNew, Detectors, Exchange, CloseCamera, CloseRest, StopReturns
<1>. QED
  BY <1>2, <1>3, <1>4, <1>5, <1>6, <1>7
     DEF Next, vars, Start, Request, Publish, Stop, LosesAccount, WorkerDies, PillsDrained,
         InferenceHangs, Frame, DetectorFails, LeftJob

LEMMA DescriptorType ==
    ASSUME NEW e \in SUBSET Rules, e # {}, NEW g \in Regions
    PROVE  <<e, g>> \in Descriptors
BY DEF Descriptors

LEMMA WantedType ==
    ASSUME Stored, NEW c \in Cameras
    PROVE  Wanted(c) \in Descriptors \cup {None}
<1>1. enabled[c] # {} => <<enabled[c], region[c]>> \in Descriptors
  BY DescriptorType DEF Stored
<1>. QED  BY <1>1 DEF Wanted

LEMMA WantedTypeNext ==
    ASSUME Stored', NEW c \in Cameras
    PROVE  Wanted(c)' \in Descriptors \cup {None}
<1>1. enabled'[c] # {} => <<enabled'[c], region'[c]>> \in Descriptors
  BY DescriptorType DEF Stored
<1>. QED  BY <1>1 DEF Wanted

LEMMA ReconcileTypes ==
    ASSUME Kept, Models, Held, Stored', NEW op \in Ops, NEW changed \in SUBSET Cameras,
           Reconcile(op, changed)
    PROVE  Kept' /\ Models' /\ Held' /\ ToDo'
<1> USE DEF Reconcile, server, speakers, detectors, models
<1>1. wanted' \in [Cameras -> Descriptors \cup {None}]
  BY WantedTypeNext
<1>2. Held'
  BY <1>1 DEF Held, Awaits
<1>3. /\ baselines' \subseteq Cameras /\ spent' \subseteq Cameras
      /\ observed' \in [Cameras -> Regions \cup {None}]
  BY DEF Kept, Baselines
<1>4. ToDo'
  BY DEF ToDo
<1>. QED  BY <1>2, <1>3, <1>4 DEF Kept, Models

\* A call that changes something begins with the head of _reconcile.
Reconciles ==
    \E op \in Ops \ {"stop"}, changed \in SUBSET Cameras :
        /\ Takes(op) \/ (at = "discovering" /\ op = "refresh" /\ UNCHANGED waiters)
        /\ \A c \in Cameras : region'[c] = region[c] \/ (c \in changed /\ enabled'[c] = enabled[c])
        /\ Reconcile(op, changed)

\* A call that is over as soon as it has the lock.
LeavesAtOnce == Leaves /\ \E op \in {"rule", "region", "adapter"} : Takes(op)

\* A call that waits for something before it changes anything.
Waits == RefreshCameras \/ (SetAdapter /\ turn' = "adapter")

\* Steps of a call between two awaits, of a stop, and of everything else.
CallGoesOn ==
    \/ \E c \in Cameras, ok \in BOOLEAN : Drop(c, ok) \/ StopOld(c, ok) \/ StartNew(c, ok)
    \/ \E failing \in SUBSET Kinds, upset \in SUBSET Replaceable : Detectors(failing, upset)
    \/ Exchange \/ Return

StopGoesOn ==
    \/ BeginStop \/ CloseRest \/ StopReturns
    \/ \E c \in Cameras : CloseCamera(c) \/ StopRaises(c)

Around ==
    \/ \E A \in SUBSET Speakers : Start(A)
    \/ \E op \in Ops : Request(op)
    \/ \E A \in SUBSET Speakers, auth \in BOOLEAN : Publish(A, auth)
    \/ Stop \/ LosesAccount \/ WorkerDies \/ PillsDrained \/ InferenceHangs
    \/ \E k \in Kinds : DetectorFails(k) \/ LeftJob(k)

LEMMA WaitsChange ==
    ASSUME Held, Waits
    PROVE  /\ UNCHANGED <<storage, streams, speakers, server, cameras, detectors, wanted, todo, calls>>
           /\ \/ Takes("refresh") /\ turn' = "refresh" /\ at' = "discovering"
              \/ Takes("adapter") /\ turn' = "adapter" /\ at' = "exchanging"
<1>1. CASE RefreshCameras
  BY <1>1 DEF RefreshCameras
<1>2. CASE SetAdapter /\ turn' = "adapter"
  <2>1. turn = None /\ None # "adapter"
    BY <1>2 DEF SetAdapter, Takes, Ops
  <2>. QED  BY <1>2, <2>1 DEF SetAdapter, Leaves, holder
<1>. QED  BY <1>1, <1>2 DEF Waits

LEMMA CallBegins ==
    ASSUME Types,
           \/ \E c \in Cameras, r \in Rules, on \in BOOLEAN : SetRule(c, r, on)
           \/ \E c \in Cameras, s \in Speakers : SetSpeaker(c, s)
           \/ \E c \in Cameras, g \in Regions : SetRegion(c, g)
           \/ \E op \in Ops : RefreshState(op)
           \/ \E S \in SUBSET Cameras : Discovered(S)
    PROVE  (Reconciles \/ LeavesAtOnce) /\ Stored'
<1> USE DEF Types, storage
<1>1. {"rule", "speaker", "region", "refresh", "boot", "state", "notice"} \subseteq Ops \ {"stop"}
  BY DEF Ops
<1>2. ASSUME NEW c \in Cameras, NEW r \in Rules, NEW on \in BOOLEAN, SetRule(c, r, on)
      PROVE  (Reconciles \/ LeavesAtOnce) /\ Stored'
  <2>1. CASE Leaves
    BY <1>1, <1>2, <2>1 DEF SetRule, LeavesAtOnce, Leaves, Stored, speakers
  <2>2. CASE ~Leaves
    <3>1. /\ enabled' = [enabled EXCEPT ![c] = IF on THEN @ \cup {r} ELSE @ \ {r}]
          /\ UNCHANGED <<paired, region, streams>> /\ Takes("rule") /\ Reconcile("rule", {})
      BY <1>2, <2>2 DEF SetRule
    <3>2. enabled' \in [Cameras -> SUBSET Rules]
      BY <3>1 DEF Stored
    <3>3. Stored'
      BY <3>1, <3>2 DEF Stored, Reconcile, speakers
    <3>. QED  BY <1>1, <3>1, <3>3 DEF Reconciles
  <2>. QED  BY <2>1, <2>2
<1>3. ASSUME NEW c \in Cameras, NEW s \in Speakers, SetSpeaker(c, s)
      PROVE  Reconciles /\ Stored'
  BY <1>1, <1>3 DEF SetSpeaker, Reconciles, Stored, Reconcile, speakers
<1>4. ASSUME NEW c \in Cameras, NEW g \in Regions, SetRegion(c, g)
      PROVE  (Reconciles \/ LeavesAtOnce) /\ Stored'
  <2>1. CASE Leaves
    BY <1>1, <1>4, <2>1 DEF SetRegion, LeavesAtOnce, Leaves, Stored, speakers
  <2>2. CASE ~Leaves
    <3>1. /\ region' = [region EXCEPT ![c] = g]
          /\ UNCHANGED <<enabled, paired, streams>> /\ Takes("region") /\ Reconcile("region", {c})
      BY <1>4, <2>2 DEF SetRegion
    <3>2. region' \in [Cameras -> Regions]
          /\ \A d \in Cameras : region'[d] = region[d] \/ d \in {c}
      BY <3>1 DEF Stored
    <3>3. Stored'
      BY <3>1, <3>2 DEF Stored, Reconcile, speakers
    <3>. QED  BY <1>1, <3>1, <3>2, <3>3 DEF Reconciles
  <2>. QED  BY <2>1, <2>2
<1>5. ASSUME NEW op \in Ops, RefreshState(op)
      PROVE  Reconciles /\ Stored'
  BY <1>1, <1>5 DEF RefreshState, Reconciles, Stored, Reconcile, speakers
<1>6. ASSUME NEW S \in SUBSET Cameras, Discovered(S)
      PROVE  Reconciles /\ Stored'
  BY <1>1, <1>6 DEF Discovered, Reconciles, Stored, Reconcile, speakers
<1>. QED  BY <1>2, <1>3, <1>4, <1>5, <1>6

\* What a step may be.
LEMMA NextCases ==
    ASSUME Types, [Next]_vars
    PROVE  \/ Reconciles /\ Stored'
           \/ LeavesAtOnce \/ Waits \/ CallGoesOn \/ StopGoesOn \/ Around
           \/ \E c \in Cameras : Frame(c)
           \/ UNCHANGED vars
<1>1. SetAdapter => LeavesAtOnce \/ Waits
  BY DEF SetAdapter, LeavesAtOnce, Waits
<1>. QED  BY <1>1, CallBegins DEF Next, Enter, GoOn, Waits, CallGoesOn, StopGoesOn, Around

LEMMA CallGoesOnTypes ==
    ASSUME Types, CallGoesOn
    PROVE  Stored' /\ Kept' /\ Models' /\ Held' /\ ToDo'
<1> USE DEF Types, storage, speakers, server, cameras, history, detectors, models
<1>1. ASSUME NEW c \in Cameras, NEW ok \in BOOLEAN, Drop(c, ok) \/ StopOld(c, ok)
      PROVE  Stored' /\ Kept' /\ Models' /\ Held' /\ ToDo'
  <2>1. runtime[c] # None
    BY <1>1 DEF Drop, StopOld, ToDo
  <2>2. [runtime[c] EXCEPT !.alive = FALSE] \in Runtimes
    BY <2>1 DEF Kept, Runtimes
  <2>3. runtime' \in [Cameras -> Runtimes \cup {None}] /\ \A d \in Cameras \ {c} : runtime'[d] = runtime[d]
    <3> DEFINE dead == [runtime[c] EXCEPT !.alive = FALSE]
    <3>1. runtime' = [runtime EXCEPT ![c] = IF ok THEN None ELSE dead]
      BY <1>1 DEF Drop, StopOld
    <3>2. dead \in Runtimes
      BY <2>2
    <3> HIDE DEF dead
    <3>. QED  BY <3>1, <3>2 DEF Kept
  <2>4. CASE Drop(c, ok)
    <3>1. todo' = todo \ {c} /\ at = "dropping" /\ UNCHANGED at
      BY <2>4 DEF Drop
    <3>2. ToDo'
      BY <2>3, <3>1 DEF ToDo, Held
    <3>. QED  BY <2>3, <2>4, <3>2 DEF Drop, Unused, Stored, Kept, Models, Held
  <2>5. CASE StopOld(c, ok)
    <3>1. ToDo'
      BY <2>5 DEF StopOld, ToDo
    <3>. QED  BY <2>3, <2>5, <3>1 DEF StopOld, StopFails, Unused, Stored, Kept, Models, Held
  <2>. QED  BY <1>1, <2>4, <2>5
<1>2. ASSUME NEW c \in Cameras, NEW ok \in BOOLEAN, StartNew(c, ok)
      PROVE  Stored' /\ Kept' /\ Models' /\ Held' /\ ToDo'
  <2>1. CASE ok
    <3>1. wanted[c] \in Descriptors
      BY <1>2 DEF StartNew, ToDo, Held
    <3> DEFINE new == [fits |-> wanted[c], baseline |-> c \in baselines, alive |-> TRUE]
    <3>2. new \in Runtimes
      BY <3>1 DEF Runtimes
    <3>3. /\ runtime' = [runtime EXCEPT ![c] = new]
          /\ descriptor' = [descriptor EXCEPT ![c] = wanted[c]]
          /\ errors' \subseteq errors /\ baselines' \subseteq baselines
          /\ UNCHANGED <<history, detectors>>
      BY <1>2, <2>1 DEF StartNew, NewDescriptor
    <3> HIDE DEF new
    <3>4. Kept'
      BY <3>1, <3>2, <3>3 DEF Kept
    <3>. QED  BY <1>2, <3>4 DEF StartNew, Stored, Models, Held, ToDo
  <2>2. CASE ~ok
    BY <1>2, <2>2 DEF StartNew, NewDescriptor, Stored, Kept, Models, Held, ToDo
  <2>. QED  BY <2>1, <2>2
<1>3. ASSUME NEW failing \in SUBSET Kinds, NEW upset \in SUBSET Replaceable,
             Detectors(failing, upset)
      PROVE  Stored' /\ Kept' /\ Models' /\ Held' /\ ToDo'
  <2>1. kinds' \subseteq Kinds
    BY <1>3 DEF Detectors, Needed, KindOf, Kinds
  <2>2. Models'
    BY <1>3, <2>1 DEF Detectors, Models
  <2>. QED  BY <1>3, <2>2 DEF Detectors, Stored, Kept, Held, ToDo, Awaits
<1>4. CASE Return
  BY <1>4 DEF Return, Stored, Kept, Models, Held, ToDo, Nothing, Awaits
<1>5. CASE Exchange
  BY <1>5 DEF Exchange, Stored, Kept, Models, Held, ToDo, Kinds, Replaceable, Awaits
<1>. QED  BY <1>1, <1>2, <1>3, <1>4, <1>5 DEF CallGoesOn

LEMMA StopGoesOnTypes ==
    ASSUME Types, StopGoesOn
    PROVE  Stored' /\ Kept' /\ Models' /\ Held' /\ ToDo'
<1> USE DEF Types, storage, speakers, server, cameras, history, detectors, models, Awaits, Stored,
            Kept, Models, Held, ToDo
<1>1. CASE BeginStop
  BY <1>1 DEF BeginStop, Ops
<1>2. CASE CloseRest
  BY <1>2 DEF CloseRest, Nothing
<1>3. CASE StopReturns
  BY <1>3 DEF StopReturns
<1>4. ASSUME NEW c \in Cameras, CloseCamera(c)
      PROVE  Stored' /\ Kept' /\ Models' /\ Held' /\ ToDo'
  BY <1>4 DEF CloseCamera, Unused, holder
<1>5. ASSUME NEW c \in Cameras, StopRaises(c)
      PROVE  Stored' /\ Kept' /\ Models' /\ Held' /\ ToDo'
  BY <1>5 DEF StopRaises, Unused
<1>. QED  BY <1>1, <1>2, <1>3, <1>4, <1>5 DEF StopGoesOn

LEMMA AroundTypes ==
    ASSUME Types, Around
    PROVE  Stored' /\ Kept' /\ Models' /\ Held' /\ ToDo'
<1> USE DEF Types, storage, speakers, server, cameras, history, detectors, models, holder
<1>1. /\ UNCHANGED <<enabled, paired, region, streams, holder, app, cameras>>
      /\ available' \subseteq Speakers
      /\ lifespan' \in {lifespan, "stopping"}
  BY DEF Around, Start, Request, Publish, Stop, LosesAccount, WorkerDies, PillsDrained,
         InferenceHangs, DetectorFails, LeftJob, Stored
<1>2. Models'
  BY DEF Around, Start, Request, Publish, Stop, LosesAccount, WorkerDies, PillsDrained,
         InferenceHangs, DetectorFails, LeftJob, Models, Awaits
<1>. QED  BY <1>1, <1>2 DEF Stored, Kept, Held, ToDo

LEMMA FrameTypes ==
    ASSUME Types, NEW c \in Cameras, Frame(c)
    PROVE  Stored' /\ Kept' /\ Models' /\ Held' /\ ToDo'
<1> USE DEF Types
<1>1. runtime[c] \in Runtimes
  BY DEF Frame, Kept
<1>2. [runtime[c] EXCEPT !.baseline = FALSE] \in Runtimes /\ runtime[c].fits[2] \in Regions
  BY <1>1 DEF Runtimes, Descriptors
<1>3. /\ runtime' = [runtime EXCEPT ![c] = [runtime[c] EXCEPT !.baseline = FALSE]]
      /\ observed' = [observed EXCEPT ![c] = runtime[c].fits[2]]
  BY DEF Frame
<1>4. Kept'
  BY <1>2, <1>3 DEF Frame, Kept
<1>5. \A d \in Cameras : runtime[d] # None => runtime'[d] # None
  BY <1>2, <1>3 DEF Kept
<1>6. Stored' /\ Models' /\ Held' /\ ToDo'
  BY <1>5 DEF Frame, Stored, Models, Held, ToDo, storage, speakers, server, detectors, models, holder
<1>. QED  BY <1>4, <1>6

LEMMA NextTypes == Types /\ [Next]_vars => Types'
<1> SUFFICES ASSUME Types, [Next]_vars PROVE Stored' /\ Kept' /\ Models' /\ Held' /\ ToDo'
  BY FlagsStep, CallsStep, WaitersStep DEF Types
<1>1. CASE Reconciles /\ Stored'
  BY <1>1, ReconcileTypes DEF Reconciles, Types
<1>2. CASE LeavesAtOnce \/ UNCHANGED vars
  BY <1>2 DEF LeavesAtOnce, Leaves, vars, storage, speakers, server, cameras, history, detectors,
              models, holder, Types, Stored, Kept, Models, Held, ToDo
<1>3. CASE Waits
  <2>1. /\ UNCHANGED <<storage, streams, speakers, server, cameras, detectors, wanted, todo>>
        /\ \/ turn' = "refresh" /\ at' = "discovering"
           \/ turn' = "adapter" /\ at' = "exchanging"
    BY <1>3, WaitsChange DEF Types
  <2>2. Held' /\ ToDo'
    BY <2>1 DEF Types, Held, ToDo, Ops, Awaits, server
  <2>. QED
    BY <2>1, <2>2 DEF storage, speakers, cameras, history, detectors, models, Types, Stored, Kept, Models
<1>. QED  BY <1>1, <1>2, <1>3, NextCases, CallGoesOnTypes, StopGoesOnTypes, AroundTypes, FrameTypes

-----------------------------------------------------------------------------
(* The order of the calls. *)

OneStop == \A m, n \in DOMAIN waiters : waiters[m] = "stop" /\ waiters[n] = "stop" => m = n

\* Who is at an await holds the lock; a stop comes once, after the requests, and only notices
\* come after it.
Order ==
    /\ turn = None <=> at = None
    /\ turn = "stop" <=> at \in {"closing", "speakers"}
    /\ at = "discovering" => turn = "refresh"
    /\ OneStop
    /\ lifespan # "stopping" \/ turn = "stop" => "stop" \notin Range(waiters)
    /\ turn = "stop" => lifespan = "stopping"
    /\ at = "speakers" => ~started
    /\ lifespan \in {"stopping", "over"} =>
           Range(waiters) \subseteq {"notice", "stop"} /\ turn \in {None, "notice", "stop"}
    /\ lifespan = "over" /\ ~started => waiters = <<>> /\ turn = None

LEMMA NoneApart ==
    /\ None # "discovering" /\ None # "dropping" /\ None # "rebuilding" /\ None # "closing"
    /\ None # "exchanging" /\ None # "adapter" /\ None # "speakers" /\ None # "boot" /\ None # "refresh" /\ None # "stop" /\ None # "notice"
BY DEF Ops, Awaits

LEMMA OneStopAppend ==
    ASSUME waiters \in Seq(Ops), OneStop, NEW x \in Ops, waiters' = Append(waiters, x),
           x # "stop" \/ "stop" \notin Range(waiters)
    PROVE  OneStop'
<1>1. /\ DOMAIN waiters = 1 .. Len(waiters) /\ Len(waiters) \in Nat
      /\ DOMAIN waiters' = 1 .. Len(waiters) + 1
      /\ \A i \in 1 .. Len(waiters) : waiters'[i] = waiters[i]
      /\ waiters'[Len(waiters) + 1] = x
  OBVIOUS
<1>2. \A i \in 1 .. Len(waiters) + 1 : i = Len(waiters) + 1 \/ i \in 1 .. Len(waiters)
  BY <1>1
<1>3. \A i \in 1 .. Len(waiters) : waiters[i] \in Range(waiters)
  BY <1>1 DEF Range
<1>4. SUFFICES ASSUME NEW m \in 1 .. Len(waiters) + 1, NEW n \in 1 .. Len(waiters) + 1,
                      waiters'[m] = "stop", waiters'[n] = "stop"
               PROVE  m = n
  BY <1>1 DEF OneStop
<1>5. CASE m \in 1 .. Len(waiters) /\ n \in 1 .. Len(waiters)
  BY <1>1, <1>4, <1>5 DEF OneStop
<1>6. CASE x = "stop"
  BY <1>1, <1>2, <1>3, <1>4, <1>6
<1>. QED  BY <1>1, <1>2, <1>4, <1>5, <1>6

LEMMA OneStopTail ==
    ASSUME waiters \in Seq(Ops), OneStop, waiters # <<>>, waiters' = Tail(waiters)
    PROVE  OneStop' /\ (Head(waiters) = "stop" => "stop" \notin Range(waiters'))
<1>1. /\ DOMAIN waiters = 1 .. Len(waiters) /\ Len(waiters) \in Nat \ {0}
      /\ DOMAIN waiters' = 1 .. Len(waiters) - 1
      /\ \A i \in 1 .. Len(waiters) - 1 : waiters'[i] = waiters[i + 1]
      /\ Head(waiters) = waiters[1]
  OBVIOUS
<1>2. \A i \in 1 .. Len(waiters) - 1 : i + 1 \in 1 .. Len(waiters) /\ i + 1 # 1
  BY <1>1
<1>3. ASSUME NEW m \in 1 .. Len(waiters) - 1, NEW n \in 1 .. Len(waiters) - 1,
             waiters'[m] = "stop", waiters'[n] = "stop"
      PROVE  m = n
  <2>1. m + 1 = n + 1
    BY <1>1, <1>2, <1>3 DEF OneStop
  <2>. QED  BY <2>1
<1>4. ASSUME Head(waiters) = "stop", NEW i \in 1 .. Len(waiters) - 1
      PROVE  waiters'[i] # "stop"
  <2>1. 1 \in DOMAIN waiters
    BY <1>1
  <2>. QED  BY <1>1, <1>2, <1>4, <2>1 DEF OneStop
<1>. QED  BY <1>1, <1>3, <1>4 DEF OneStop, Range

\* A call gets the lock.
LEMMA TakesOrder ==
    ASSUME Types, Order, NEW op \in Ops, Takes(op)
    PROVE  /\ turn = None /\ op \in Range(waiters) /\ Range(waiters') \subseteq Range(waiters)
           /\ OneStop' /\ (op = "stop" => "stop" \notin Range(waiters'))
           /\ ~(lifespan = "over" /\ ~started)
BY TailRange, OneStopTail DEF Takes, Order, Types

LEMMA ReconcilesOrder ==
    ASSUME Types, Order, Reconciles
    PROVE  Order'
<1>1. PICK op \in Ops \ {"stop"} :
          /\ Takes(op) \/ (at = "discovering" /\ op = "refresh" /\ UNCHANGED waiters)
          /\ turn' = op /\ at' = "dropping" /\ UNCHANGED <<lifespan, started>>
  BY DEF Reconciles, Reconcile, server, speakers
<1>2. CASE Takes(op)
  <2>1. /\ op \in Range(waiters) /\ Range(waiters') \subseteq Range(waiters) /\ OneStop'
        /\ ~(lifespan = "over" /\ ~started)
    BY <1>2, TakesOrder
  <2>. QED  BY <1>1, <2>1, NoneApart DEF Order
<1>3. CASE at = "discovering" /\ op = "refresh" /\ UNCHANGED waiters
  BY <1>1, <1>3 DEF Order, OneStop, Awaits
<1>. QED  BY <1>1, <1>2, <1>3

LEMMA CallGoesOnOrder ==
    ASSUME Types, Order, CallGoesOn
    PROVE  Order'
<1> USE DEF Types
<1>1. CASE Return
  <2>1. /\ turn' = None /\ at' = None /\ UNCHANGED started
        /\ turn \notin {None, "stop"}
        /\ lifespan' = lifespan \/ (lifespan = "starting" /\ lifespan' = "serving")
    BY <1>1, NoneApart DEF Return, Order
  <2>2. CASE turn = "boot"
    <3>1. waiters' = Append(waiters, "refresh") /\ "refresh" \in Ops
      BY <1>1, <2>2 DEF Return, Ops
    <3>2. Range(waiters') = Range(waiters) \cup {"refresh"} /\ OneStop'
      BY <3>1, AppendRange, OneStopAppend DEF Order
    <3>. QED  BY <2>1, <2>2, <3>2, NoneApart DEF Order
  <2>3. CASE turn # "boot"
    <3>1. UNCHANGED waiters
      BY <1>1, <2>3 DEF Return
    <3>. QED  BY <2>1, <3>1, NoneApart DEF Order, OneStop
  <2>. QED  BY <2>2, <2>3
<1>2. CASE \E failing \in SUBSET Kinds, upset \in SUBSET Replaceable : Detectors(failing, upset)
  BY <1>2, NoneApart DEF Detectors, Order, OneStop, server, speakers
<1>4. CASE Exchange
  BY <1>4, NoneApart DEF Exchange, Order, OneStop, server, speakers
<1>3. CASE \E c \in Cameras, ok \in BOOLEAN : Drop(c, ok) \/ StopOld(c, ok) \/ StartNew(c, ok)
  <2>1. UNCHANGED <<server, speakers, waiters, turn, at>>
    BY <1>3 DEF Drop, StopOld, StartNew
  <2>. QED  BY <2>1 DEF Order, OneStop, server, speakers
<1>. QED  BY <1>1, <1>2, <1>3, <1>4 DEF CallGoesOn

LEMMA StopGoesOnOrder ==
    ASSUME Types, Order, StopGoesOn
    PROVE  Order'
<1> USE DEF Types
<1>1. CASE BeginStop
  <2>1. "stop" \in Ops
    BY DEF Ops
  <2>2. /\ turn = None /\ "stop" \in Range(waiters) /\ Range(waiters') \subseteq Range(waiters)
        /\ OneStop' /\ "stop" \notin Range(waiters')
    BY <1>1, <2>1, TakesOrder DEF BeginStop
  <2>. QED  BY <1>1, <2>2, NoneApart DEF BeginStop, Order, server, speakers
<1>2. CASE CloseRest
  BY <1>2, NoneApart DEF CloseRest, Order, OneStop, server
<1>3. CASE StopReturns
  <2>1. Range(waiters) = {} /\ UNCHANGED <<waiters, started>>
    BY <1>3 DEF StopReturns, WorkerWaits, Order, speakers
  <2>2. waiters = <<>>
    <3>1. waiters # <<>> => Head(waiters) \in Range(waiters)
      BY TailRange
    <3>. QED  BY <2>1, <3>1
  <2>. QED  BY <1>3, <2>1, <2>2, NoneApart DEF StopReturns, Order, OneStop
<1>4. CASE \E c \in Cameras : CloseCamera(c)
  BY <1>4 DEF CloseCamera, Order, OneStop, server, speakers, holder
<1>5. CASE \E c \in Cameras : StopRaises(c)
  <2>1. waiters' = <<>> /\ Range(waiters') = {} /\ DOMAIN waiters' = {}
    BY <1>5 DEF StopRaises, Range
  <2>. QED  BY <1>5, <2>1, NoneApart DEF StopRaises, Order, OneStop, speakers
<1>. QED  BY <1>1, <1>2, <1>3, <1>4, <1>5 DEF StopGoesOn

LEMMA AroundOrder ==
    ASSUME Types, Order, Around
    PROVE  Order'
<1> USE DEF Types
<1>1. UNCHANGED <<turn, at>>
  BY DEF Around, Start, Request, Publish, Stop, LosesAccount, WorkerDies, PillsDrained,
         InferenceHangs, DetectorFails, LeftJob, holder
<1>2. ASSUME NEW x \in Ops \ {"stop"}, waiters' = Append(waiters, x),
             UNCHANGED <<lifespan, started>>,
             lifespan \in {"stopping", "over"} => x = "notice",
             ~(lifespan = "over" /\ ~started)
      PROVE  Order'
  <2>1. Range(waiters') = Range(waiters) \cup {x} /\ OneStop'
    BY <1>2, AppendRange, OneStopAppend DEF Order
  <2>. QED  BY <1>1, <1>2, <2>1 DEF Order
<1>3. {"refresh", "rule", "speaker", "region", "adapter", "state", "notice"} \subseteq Ops \ {"stop"}
  BY DEF Ops
<1>4. ASSUME NEW A \in SUBSET Speakers, Start(A)
      PROVE  Order'
  <2>1. waiters' = <<"boot">> /\ Range(waiters') = {"boot"} /\ OneStop'
    BY <1>4 DEF Start, Range, OneStop
  <2>. QED  BY <1>1, <1>4, <2>1 DEF Start, Order, server
<1>5. ASSUME NEW op \in Ops, Request(op)
      PROVE  Order'
  BY <1>2, <1>3, <1>5 DEF Request, server, speakers
<1>6. ASSUME NEW A \in SUBSET Speakers, NEW auth \in BOOLEAN, Publish(A, auth)
      PROVE  Order'
  BY <1>2, <1>3, <1>6 DEF Publish, server
<1>7. CASE LosesAccount
  <2>1. ~(lifespan = "over" /\ ~started)
    BY <1>7 DEF LosesAccount, Order
  <2>. QED  BY <1>2, <1>3, <1>7, <2>1 DEF LosesAccount, server
<1>8. CASE Stop
  <2>1. "stop" \in Ops
    BY DEF Ops
  <2>2. Range(waiters') = Range(waiters) \cup {"stop"} /\ OneStop'
    BY <1>8, <2>1, AppendRange, OneStopAppend DEF Stop, Order
  <2>3. None \notin Range(waiters)
    <3>1. \A i \in DOMAIN waiters : waiters[i] \in Ops
      OBVIOUS
    <3>. QED  BY <3>1 DEF Range
  <2>. QED  BY <1>1, <1>8, <2>2, <2>3, NoneApart DEF Stop, Order, speakers
<1>9. CASE WorkerDies \/ PillsDrained \/ InferenceHangs \/ \E k \in Kinds : DetectorFails(k) \/ LeftJob(k)
  BY <1>1, <1>9
     DEF WorkerDies, PillsDrained, InferenceHangs, DetectorFails, LeftJob, Order, OneStop, server, speakers
<1>. QED  BY <1>4, <1>5, <1>6, <1>7, <1>8, <1>9 DEF Around

LEMMA InitOrder == Init => Order
BY NoneApart DEF Init, Order, OneStop, Range

LEMMA NextOrder == Types /\ Order /\ [Next]_vars => Order'
<1> SUFFICES ASSUME Types, Order, [Next]_vars PROVE Order'
  OBVIOUS
<1>1. CASE LeavesAtOnce
  <2>1. PICK op \in Ops \ {"stop"} : Takes(op)
    <3>1. {"rule", "region", "adapter"} \subseteq Ops \ {"stop"}
      BY DEF Ops
    <3>. QED  BY <1>1, <3>1 DEF LeavesAtOnce
  <2>2. Range(waiters') \subseteq Range(waiters) /\ OneStop' /\ ~(lifespan = "over" /\ ~started)
    BY <2>1, TakesOrder
  <2>. QED  BY <1>1, <2>2 DEF LeavesAtOnce, Leaves, Order, server, speakers, holder
<1>2. CASE Waits
  <2>1. PICK op \in {"refresh", "adapter"} :
            /\ Takes(op) /\ turn' = op /\ at' \in {"discovering", "exchanging"}
            /\ at' = "discovering" => op = "refresh"
            /\ UNCHANGED <<speakers, server>>
    BY <1>2, WaitsChange DEF Types
  <2>2. op \in Ops
    BY <2>1 DEF Ops
  <2>3. /\ Range(waiters') \subseteq Range(waiters) /\ OneStop' /\ ~(lifespan = "over" /\ ~started)
        /\ op \in Range(waiters)
    BY <2>1, <2>2, TakesOrder
  <2>. QED  BY <2>1, <2>3, NoneApart DEF Order, server, speakers
<1>3. CASE UNCHANGED vars \/ \E c \in Cameras : Frame(c)
  BY <1>3 DEF vars, Frame, Order, OneStop, server, speakers, holder
<1>. QED
  BY <1>1, <1>2, <1>3, NextCases, ReconcilesOrder, CallGoesOnOrder, StopGoesOnOrder, AroundOrder

-----------------------------------------------------------------------------
(* The cameras. *)

\* Nobody will see to the cameras any more.
GivenUp == lifespan = "over" \/ at = "closing"

\* A call that looks at everything again is waiting.
Comes == \E op \in {"boot", "state", "notice"} : op \in Range(waiters)

\* What _reconcile wants of a camera are its rules and its region, which do not change meanwhile.
Asked ==
    at \in {"dropping", "rebuilding"} =>
        \A c \in Cameras : wanted[c] # None => wanted[c] = <<enabled[c], region[c]>>

\* A camera whose runtime still runs.
Runs(c) == runtime[c] # None /\ runtime[c].alive

\* A runtime that still runs is as its descriptor says, and its camera shows no failure.
Running == \A c \in Cameras : Runs(c) => c \notin errors /\ descriptor[c] = runtime[c].fits

\* It is as the rules and the region ask, but for those that _reconcile has yet to stop.
Fresh ==
    \A c \in Cameras : Runs(c) =>
        \/ runtime[c].fits = <<enabled[c], region[c]>>
        \/ at = "dropping" /\ (wanted[c] # None \/ c \in todo)
        \/ at = "rebuilding" /\ c \in todo

\* The baselines are forgotten only when nothing will start any more.
Forgotten == at = "speakers" \/ (lifespan = "over" /\ ~started)

\* A runtime with an old region will be followed by one that takes a baseline.
Followed ==
    Forgotten \/ \A c \in Cameras : Runs(c) => runtime[c].fits[2] = region[c] \/ c \in baselines

\* An object rule that last saw another region has a baseline to come, in the next runtime or
\* in this one, or has lost it.
Based ==
    Forgotten \/ \A c \in Cameras :
        \/ observed[c] \in {None, region[c]} \/ c \in baselines \cup spent
        \/ runtime[c] # None /\ runtime[c].baseline

\* Only a camera that is being rebuilt has a descriptor and no runtime.
Halfway == ~GivenUp => \A c \in Cameras : Between(c) => at = "rebuilding" /\ c \in todo

\* A runtime whose camera shows no failure is alive and as the descriptor says.
Shown ==
    ~GivenUp => \A c \in Cameras \ errors :
        descriptor[c] # None /\ runtime[c] # None =>
            runtime[c].alive /\ runtime[c].fits = descriptor[c]

\* At each await, the cameras that are not to do any more are as wanted.
Settling ==
    ~GivenUp => \A c \in Cameras \ (errors \cup todo) :
        /\ at = "dropping" /\ wanted[c] = None => descriptor[c] = None
        /\ at = "rebuilding" => descriptor[c] = wanted[c]

\* Unless a call is waiting that will look again, what is wanted is what the settings and the
\* speakers now ask for, and between calls the cameras and detectors are so.
Current ==
    ~GivenUp /\ ~fatal /\ ~Comes =>
        /\ at \in {"dropping", "rebuilding"} => \A c \in Cameras : wanted[c] = Wanted(c)
        /\ at \in {None, "exchanging"} => \A c \in Cameras \ errors : descriptor[c] = Wanted(c)
        /\ at \in {None, "exchanging"} => \A k \in kinds \ reloaded : \E c \in Cameras :
               Wanted(c) # None /\ \E r \in enabled[c] : KindOf(r) = k

\* While cameras are built, only detectors of wanted ones are loaded.
Used ==
    at = "rebuilding" => \A k \in kinds : \E c \in Cameras :
        wanted[c] # None /\ \E r \in wanted[c][1] : KindOf(r) = k

Suppressing == Running /\ Fresh /\ Followed /\ Based

CamInv == Asked /\ Suppressing /\ Halfway /\ Shown /\ Settling /\ Current /\ Used

RInv == Types /\ Order /\ CamInv

LEMMA WantedSame ==
    ASSUME UNCHANGED <<enabled, paired, region, streams, started, available, lost, fatal>>,
           NEW c \in Cameras
    PROVE  Wanted(c)' = Wanted(c)
BY DEF Wanted, Available

LEMMA InitCamInv == Init => CamInv
<1> SUFFICES ASSUME Init PROVE CamInv
  OBVIOUS
<1>1. \A c \in Cameras : Wanted(c) = None /\ runtime[c] = None /\ descriptor[c] = None
  BY DEF Init, Wanted, Available, Nothing
<1>2. Asked /\ Suppressing /\ Settling /\ Used
  BY <1>1, NoneApart DEF Init, Asked, Suppressing, Running, Fresh, Followed, Based, Runs, Settling,
                         Used, Nothing
<1>3. Halfway /\ Shown /\ Current
  BY <1>1 DEF Init, Halfway, Between, Shown, Current
<1>. QED  BY <1>2, <1>3 DEF CamInv

\* The head of _reconcile makes all of it true again.
LEMMA ReconcilesCam ==
    ASSUME Types, Order, CamInv, Reconciles
    PROVE  CamInv'
<1> USE NoneApart DEF CamInv
<1>1. PICK op \in Ops \ {"stop"}, changed \in SUBSET Cameras :
          /\ Takes(op) \/ (at = "discovering" /\ op = "refresh" /\ UNCHANGED waiters)
          /\ \A c \in Cameras : region'[c] = region[c] \/ (c \in changed /\ enabled'[c] = enabled[c])
          /\ Reconcile(op, changed)
  BY DEF Reconciles
<1>2. /\ at' = "dropping" /\ turn' = op
      /\ UNCHANGED <<started, lifespan, runtime, descriptor, errors, kinds>>
      /\ spent' = {c \in spent : "object" \in enabled'[c]}
      /\ wanted' = [c \in Cameras |-> Wanted(c)']
      /\ todo' = {c \in Cameras : runtime[c] # None /\ wanted'[c] = None}
      /\ baselines' = {c \in baselines \cup changed : enabled'[c] # {}}
      /\ observed' = [c \in Cameras |-> IF "object" \in enabled'[c] THEN observed[c] ELSE None]
  BY <1>1 DEF Reconcile, Baselines, speakers, server, detectors, models
<1>3. at \in {None, "discovering"} /\ ~(lifespan = "over" /\ ~started)
  BY <1>1, TakesOrder DEF Takes, Order
<1>4. Asked'
  BY <1>2 DEF Asked, Wanted
<1>5. Suppressing'
  <2>1. \A c \in Cameras : Runs(c)' <=> Runs(c)
    BY <1>2 DEF Runs
  <2>2. Running' /\ Fresh'
    BY <1>2, <2>1 DEF Suppressing, Running, Fresh, Runs
  <2>3. \A c \in Cameras : Runs(c) => runtime[c].fits = <<enabled[c], region[c]>> /\ enabled[c] # {}
    <3>1. \A c \in Cameras : Runs(c) => runtime[c].fits = <<enabled[c], region[c]>>
      BY <1>3 DEF Suppressing, Fresh
    <3>2. \A c \in Cameras : Runs(c) => runtime[c].fits \in Descriptors
      BY DEF Runs, Types, Kept, Runtimes
    <3>. QED  BY <3>1, <3>2 DEF Descriptors
  <2>4. Followed'
    <3>1. ~Forgotten
      BY <1>3 DEF Forgotten
    <3>2. ASSUME NEW c \in Cameras, Runs(c)'
          PROVE  runtime'[c].fits[2] = region'[c] \/ c \in baselines'
      <4>1. runtime[c].fits[2] = region[c] /\ enabled[c] # {} /\ runtime'[c] = runtime[c]
        BY <1>2, <2>1, <2>3, <3>2
      <4>. QED  BY <1>1, <1>2, <4>1
    <3>. QED  BY <3>2 DEF Followed
  <2>5. Based'
    BY <1>1, <1>2, <1>3 DEF Suppressing, Based, Forgotten
  <2>. QED  BY <2>2, <2>4, <2>5 DEF Suppressing
<1>6. Halfway' /\ Shown'
  BY <1>2, <1>3 DEF Halfway, Between, GivenUp, Shown
<1>7. Settling'
  BY <1>2, <1>3 DEF Settling, Halfway, Between, GivenUp
<1>8. Current' /\ Used'
  BY <1>2 DEF Current, Used
<1>. QED  BY <1>4, <1>5, <1>6, <1>7, <1>8

\* Stopping a runtime, well or not, leaves the others alone and records an unused suppression.
LEMMA StopsOne ==
    ASSUME Types, Suppressing, NEW c \in Cameras, NEW stops \in BOOLEAN, runtime[c] # None,
           runtime' = [runtime EXCEPT ![c] = IF stops THEN None ELSE [@ EXCEPT !.alive = FALSE]],
           spent' = IF stops THEN spent \cup Unused(c) ELSE spent,
           UNCHANGED <<enabled, region, observed, baselines, started, lifespan, wanted, at>>,
           \A d \in Cameras \ {c} : descriptor'[d] = descriptor[d],
           \A d \in Cameras \ {c} : d \in errors' <=> d \in errors,
           \A d \in Cameras \ {c} : d \in todo' <=> d \in todo
    PROVE  Suppressing' /\ (~stops => runtime'[c] # None)
<1> DEFINE dead == [runtime[c] EXCEPT !.alive = FALSE]
<1>1. dead \in Runtimes /\ ~dead.alive /\ dead.baseline = runtime[c].baseline
  <2>1. runtime[c] \in Runtimes
    BY DEF Types, Kept
  <2>. QED  BY <2>1 DEF Runtimes
<1>2. runtime' = [runtime EXCEPT ![c] = IF stops THEN None ELSE dead]
  OBVIOUS
<1> HIDE DEF dead
<1>3. \A d \in Cameras \ {c} : runtime'[d] = runtime[d]
  BY <1>2 DEF Types, Kept
<1>4. runtime'[c] = IF stops THEN None ELSE dead
  BY <1>2 DEF Types, Kept
<1>5. ~Runs(c)' /\ \A d \in Cameras \ {c} : (Runs(d)' <=> Runs(d))
  BY <1>1, <1>3, <1>4 DEF Runs
<1>6. Running' /\ Fresh' /\ Followed'
  BY <1>3, <1>5 DEF Suppressing, Running, Fresh, Followed, Forgotten
<1>7. Based'
  <2>3. spent \subseteq spent'
    OBVIOUS
  <2>4. stops => spent' = spent \cup Unused(c)
    OBVIOUS
  <2>5. ~stops => runtime'[c] # None /\ runtime'[c].baseline = runtime[c].baseline
    BY <1>1, <1>4
  <2>6. ASSUME ~Forgotten, NEW d \in Cameras
        PROVE  \/ observed[d] \in {None, region[d]} \/ d \in baselines \cup spent'
               \/ runtime'[d] # None /\ runtime'[d].baseline
    <3>1. \/ observed[d] \in {None, region[d]} \/ d \in baselines \cup spent
          \/ runtime[d] # None /\ runtime[d].baseline
      BY <2>6 DEF Suppressing, Based
    <3>2. CASE d # c
      BY <3>1, <3>2, <1>3, <2>3
    <3>3. CASE d = c
      BY <3>1, <3>3, <2>3, <2>4, <2>5 DEF Unused
    <3>. QED  BY <3>2, <3>3
  <2>. QED  BY <2>6 DEF Based, Forgotten
<1>. QED  BY <1>1, <1>4, <1>6, <1>7 DEF Suppressing

LEMMA DropCam ==
    ASSUME Types, Order, CamInv, NEW c \in Cameras, NEW stops \in BOOLEAN, Drop(c, stops)
    PROVE  CamInv'
<1> USE NoneApart DEF CamInv
<1>1. /\ at = "dropping" /\ at' = at /\ todo' = todo \ {c} /\ wanted' = wanted
      /\ UNCHANGED <<lifespan, fatal, started, enabled, region, waiters, baselines, observed, kinds>>
  BY DEF Drop, server, speakers, storage, detectors, models
<1>2. /\ \A d \in Cameras \ {c} : /\ runtime'[d] = runtime[d] /\ descriptor'[d] = descriptor[d]
                                  /\ d \in errors' <=> d \in errors
      /\ stops => runtime'[c] = None /\ descriptor'[c] = None
      /\ ~stops => c \in errors' /\ descriptor' = descriptor
  BY DEF Drop, Types, Kept
<1>3. Suppressing' /\ (~stops => runtime'[c] # None)
  <2>1. runtime[c] # None
    BY DEF Types, ToDo, Drop
  <2>. QED  BY <1>1, <1>2, <2>1, StopsOne DEF Drop
<1>4. Asked' /\ Used'
  BY <1>1 DEF Asked, Used
<1>5. Halfway' /\ Shown' /\ Settling'
  BY <1>1, <1>2, <1>3 DEF Halfway, Shown, Settling, GivenUp, Between
<1>6. \A d \in Cameras : Wanted(d)' = Wanted(d)
  BY WantedSame DEF Drop, speakers, storage
<1>7. Current'
  BY <1>1, <1>6 DEF Current, Comes, GivenUp
<1>. QED  BY <1>3, <1>4, <1>5, <1>7

LEMMA DetectorsCam ==
    ASSUME Types, Order, CamInv, NEW failing \in SUBSET Kinds, NEW upset \in SUBSET Replaceable,
           Detectors(failing, upset)
    PROVE  CamInv'
<1> USE NoneApart DEF CamInv
<1>1. /\ at = "dropping" /\ todo = {} /\ at' = "rebuilding" /\ kinds' = Needed \ failing
      /\ errors' = {c \in errors : wanted[c] # None \/ runtime[c] # None}
      /\ todo' = {c \in Cameras : wanted[c] # None /\ descriptor[c] # wanted[c]}
      /\ UNCHANGED <<lifespan, fatal, started, enabled, region, waiters, baselines, observed, spent,
                     wanted, runtime, descriptor>>
  BY DEF Detectors, server, speakers, storage, history
<1>2. Asked' /\ Suppressing'
  <2>1. Asked' /\ Followed' /\ Based' /\ \A c \in Cameras : Runs(c)' <=> Runs(c)
    BY <1>1 DEF Asked, Suppressing, Followed, Based, Forgotten, Runs
  <2>2. Running'
    BY <1>1, <2>1 DEF Suppressing, Running
  <2>3. Fresh'
    BY <1>1, <2>1 DEF Suppressing, Running, Fresh, Asked
  <2>. QED  BY <2>1, <2>2, <2>3 DEF Suppressing
<1>3. ~GivenUp => \A c \in Cameras : ~Between(c)
  BY <1>1 DEF Halfway
<1>4. Halfway' /\ Shown'
  BY <1>1, <1>3 DEF Halfway, Shown, GivenUp, Between
<1>5. Settling'
  BY <1>1, <1>3 DEF Settling, GivenUp, Between
<1>6. Used'
  BY <1>1 DEF Used, Needed
<1>7. \A d \in Cameras : Wanted(d)' = Wanted(d)
  BY WantedSame DEF Detectors, speakers, storage
<1>8. Current'
  BY <1>1, <1>7 DEF Current, Comes, GivenUp
<1>. QED  BY <1>2, <1>4, <1>5, <1>6, <1>8

LEMMA StopOldCam ==
    ASSUME Types, Order, CamInv, NEW c \in Cameras, NEW stops \in BOOLEAN, StopOld(c, stops)
    PROVE  CamInv'
<1> USE NoneApart DEF CamInv
<1>1. /\ at = "rebuilding" /\ at' = at /\ c \in todo /\ wanted' = wanted /\ descriptor' = descriptor
      /\ UNCHANGED <<lifespan, fatal, started, enabled, region, waiters, baselines, observed, kinds>>
      /\ todo' = IF stops THEN todo ELSE todo \ {c}
      /\ errors' = IF stops THEN errors ELSE errors \cup {c}
  BY DEF StopOld, StopFails, server, speakers, storage, detectors, models
<1>2. /\ \A d \in Cameras \ {c} : runtime'[d] = runtime[d]
      /\ stops => runtime'[c] = None
  BY DEF StopOld, Types, Kept
<1>3. Suppressing' /\ (~stops => runtime'[c] # None)
  <2>1. runtime[c] # None
    BY DEF StopOld
  <2>. QED  BY <1>1, <2>1, StopsOne DEF StopOld
<1>4. Asked' /\ Used'
  BY <1>1 DEF Asked, Used
<1>5. Halfway' /\ Shown' /\ Settling'
  BY <1>1, <1>2, <1>3 DEF Halfway, Shown, Settling, GivenUp, Between
<1>6. \A d \in Cameras : Wanted(d)' = Wanted(d)
  BY WantedSame DEF StopOld, speakers, storage
<1>7. Current'
  BY <1>1, <1>6 DEF Current, Comes, GivenUp
<1>. QED  BY <1>3, <1>4, <1>5, <1>7

LEMMA StartNewCam ==
    ASSUME Types, Order, CamInv, NEW c \in Cameras, NEW starts \in BOOLEAN, StartNew(c, starts)
    PROVE  CamInv'
<1> USE NoneApart DEF CamInv
<1>1. /\ at = "rebuilding" /\ at' = at /\ c \in todo /\ todo' = todo \ {c} /\ wanted' = wanted
      /\ UNCHANGED <<lifespan, fatal, started, enabled, region, waiters, kinds, observed, spent>>
      /\ errors' = IF starts THEN errors \ {c} ELSE errors \cup {c}
      /\ baselines' = IF starts THEN baselines \ {c} ELSE baselines
  BY DEF StartNew, server, speakers, storage, history, detectors, models
<1>2. /\ \A d \in Cameras \ {c} : runtime'[d] = runtime[d] /\ descriptor'[d] = descriptor[d]
      /\ starts => descriptor'[c] = wanted[c]
      /\ ~starts => descriptor'[c] = None /\ runtime' = runtime
      /\ runtime[c] = None
  BY DEF StartNew, NewDescriptor, Types, Kept
<1>3. starts => /\ runtime'[c].alive /\ runtime'[c].fits = wanted[c] /\ runtime'[c] # None
                /\ runtime'[c].baseline <=> c \in baselines
  <2> DEFINE new == [fits |-> wanted[c], baseline |-> c \in baselines, alive |-> TRUE]
  <2>1. wanted[c] \in Descriptors
    BY DEF StartNew, Types, ToDo, Held
  <2>2. new.alive /\ new.fits = wanted[c] /\ (new.baseline <=> c \in baselines)
    OBVIOUS
  <2>3. new \in Runtimes
    BY <2>1 DEF Runtimes
  <2>4. starts => runtime' = [runtime EXCEPT ![c] = new]
    BY DEF StartNew
  <2> HIDE DEF new
  <2>. QED  BY <2>2, <2>3, <2>4 DEF Types, Kept
<1>4. Asked' /\ Used'
  BY <1>1 DEF Asked, Used
<1>5. wanted[c] = <<enabled[c], region[c]>>
  BY <1>1 DEF Asked, Types, ToDo
<1>6. Suppressing'
  <2>1. \A d \in Cameras \ {c} : Runs(d)' <=> Runs(d)
    BY <1>2 DEF Runs
  <2>2. ~starts => ~Runs(c)'
    BY <1>2 DEF Runs
  <2>3. Running' /\ Fresh' /\ Followed'
    BY <1>1, <1>2, <1>3, <1>5, <2>1, <2>2 DEF Suppressing, Running, Fresh, Followed, Forgotten
  <2>4. Based'
    BY <1>1, <1>2, <1>3 DEF Suppressing, Based, Forgotten
  <2>. QED  BY <2>3, <2>4 DEF Suppressing
<1>7. Halfway' /\ Shown' /\ Settling'
  BY <1>1, <1>2, <1>3 DEF Halfway, Shown, Settling, GivenUp, Between
<1>8. \A d \in Cameras : Wanted(d)' = Wanted(d)
  BY WantedSame DEF StartNew, speakers, storage
<1>9. Current'
  BY <1>1, <1>8 DEF Current, Comes, GivenUp
<1>. QED  BY <1>4, <1>6, <1>7, <1>9

\* The call returns: unless another comes, everything is as it should be.
LEMMA ReturnCam ==
    ASSUME Types, Order, CamInv, Return
    PROVE  CamInv'
<1> USE NoneApart DEF CamInv
<1>1. /\ at = "rebuilding" /\ todo = {} /\ at' = None
      /\ UNCHANGED <<fatal, started, enabled, region, baselines, history, kinds, reloaded,
                     runtime, descriptor, errors, todo>>
      /\ lifespan' = lifespan \/ (lifespan = "starting" /\ lifespan' = "serving")
  BY DEF Return, cameras, storage, detectors, models
<1>2. Asked' /\ Settling' /\ Used' /\ Suppressing'
  BY <1>1 DEF Asked, Settling, Used, Suppressing, Running, Fresh, Followed, Based, Forgotten, Runs,
              history
<1>3. Halfway' /\ Shown'
  BY <1>1 DEF Halfway, Shown, GivenUp, Between
<1>4. Comes => Comes'
  <2>1. "refresh" \in Ops
    BY DEF Ops
  <2>2. Range(waiters) \subseteq Range(waiters')
    BY <2>1, AppendRange DEF Return, Types
  <2>. QED  BY <2>2 DEF Comes
<1>5. \A c \in Cameras : Wanted(c)' = Wanted(c)
  BY WantedSame DEF Return, storage
<1>6. ASSUME ~GivenUp', ~fatal', ~Comes'
      PROVE  /\ \A c \in Cameras \ errors' : descriptor'[c] = Wanted(c)'
             /\ \A k \in (kinds \ reloaded)' : \E c \in Cameras :
                    Wanted(c)' # None /\ \E r \in enabled'[c] : KindOf(r) = k
  <2>1. /\ \A c \in Cameras : wanted[c] = Wanted(c)
        /\ \A c \in Cameras \ errors : descriptor[c] = wanted[c]
    BY <1>1, <1>4, <1>6 DEF Current, Settling, GivenUp
  <2>2. \A c \in Cameras : wanted[c] # None => wanted[c][1] = enabled[c]
    BY <1>1 DEF Asked
  <2>3. \A k \in kinds : \E c \in Cameras :
            wanted[c] # None /\ \E r \in enabled[c] : KindOf(r) = k
    BY <1>1, <2>2 DEF Used
  <2>. QED  BY <1>1, <1>5, <2>1, <2>3
<1>7. Current'
  BY <1>1, <1>6 DEF Current
<1>. QED  BY <1>2, <1>3, <1>7

\* An exchange loads no detector but the one that is loaded or is put in place of a failed one.
LEMMA ExchangeCam ==
    ASSUME Types, Order, CamInv, Exchange
    PROVE  CamInv'
<1> USE NoneApart DEF CamInv
<1>1. /\ at = "exchanging" /\ at' = None
      /\ UNCHANGED <<lifespan, fatal, started, enabled, region, waiters, cameras>>
      /\ reloaded \subseteq reloaded' /\ kinds' \ reloaded' \subseteq kinds \ reloaded
  BY DEF Exchange, server, speakers, storage
<1>2. Asked' /\ Settling' /\ Used' /\ Suppressing'
  BY <1>1 DEF Asked, Settling, Used, Suppressing, Running, Fresh, Followed, Based, Forgotten, Runs,
              cameras, history
<1>3. Halfway' /\ Shown'
  BY <1>1 DEF Halfway, Shown, GivenUp, Between, cameras
<1>4. \A c \in Cameras : Wanted(c)' = Wanted(c)
  BY WantedSame DEF Exchange, speakers, storage
<1>5. Current'
  BY <1>1, <1>4 DEF Current, Comes, GivenUp, cameras
<1>. QED  BY <1>2, <1>3, <1>5

LEMMA StopGoesOnCam ==
    ASSUME Types, Order, CamInv, StopGoesOn
    PROVE  CamInv'
<1> USE NoneApart DEF CamInv
<1> USE DEF Running, Fresh, Followed, Based, Forgotten, Runs
<1>1. CASE BeginStop
  <2>1. /\ at' = "closing" /\ at = None
        /\ UNCHANGED <<lifespan, started, enabled, region, cameras>>
    BY <1>1 DEF BeginStop, Takes, Order, storage, speakers, server
  <2>2. Suppressing'
    BY <2>1 DEF Suppressing, cameras, history
  <2>. QED  BY <2>1, <2>2 DEF Asked, Halfway, Shown, Settling, Current, Used, GivenUp
<1>2. CASE CloseRest
  <2>1. /\ at' = "speakers" /\ descriptor' = Nothing /\ runtime' = Nothing
    BY <1>2 DEF CloseRest
  <2>2. \A c \in Cameras : descriptor'[c] = None /\ runtime'[c] = None
    BY <2>1 DEF Nothing
  <2>3. Suppressing'
    BY <2>1, <2>2 DEF Suppressing
  <2>. QED
    BY <2>1, <2>2, <2>3 DEF Asked, Halfway, Shown, Settling, Current, Used, GivenUp, Between
<1>3. CASE StopReturns
  <2>1. /\ lifespan' = "over" /\ at' = None /\ UNCHANGED <<started, enabled, region, cameras>>
        /\ at = "speakers" /\ ~started
    BY <1>3 DEF StopReturns, storage, speakers, Order
  <2>2. Suppressing'
    BY <2>1 DEF Suppressing, cameras, history
  <2>. QED  BY <2>1, <2>2 DEF Asked, Halfway, Shown, Settling, Current, Used, GivenUp
<1>4. ASSUME NEW c \in Cameras, CloseCamera(c) \/ StopRaises(c)
      PROVE  CamInv'
  <2>1. /\ runtime' = [runtime EXCEPT ![c] = None] /\ spent' = spent \cup Unused(c)
        /\ UNCHANGED <<started, enabled, region, observed, baselines, descriptor, errors>>
        /\ at = "closing" /\ (at' = "closing" \/ (at' = None /\ lifespan' = "over"))
        /\ lifespan' = lifespan \/ lifespan' = "over"
    BY <1>4 DEF CloseCamera, StopRaises, storage, speakers, server, holder
  <2>2. runtime'[c] = None /\ \A d \in Cameras \ {c} : runtime'[d] = runtime[d]
    BY <2>1 DEF Types, Kept
  <2>3. Running' /\ Fresh' /\ Followed'
    BY <2>1, <2>2 DEF Suppressing, Order
  <2>4. Based'
    BY <2>1, <2>2 DEF Suppressing, Unused, Order
  <2>. QED
    BY <2>1, <2>3, <2>4 DEF Suppressing, Asked, Halfway, Shown, Settling, Current, Used, GivenUp
<1>. QED  BY <1>1, <1>2, <1>3, <1>4 DEF StopGoesOn

\* A picture uses up the suppression of its runtime.
LEMMA FrameCam ==
    ASSUME Types, Order, CamInv, NEW c \in Cameras, Frame(c)
    PROVE  CamInv'
<1> USE NoneApart DEF CamInv
<1> DEFINE seen == [runtime[c] EXCEPT !.baseline = FALSE]
<1>1. runtime[c] \in Runtimes /\ runtime[c] # None /\ runtime[c].alive
  BY DEF Frame, Types, Kept
<1>2. /\ seen \in Runtimes /\ seen.alive = runtime[c].alive /\ seen.fits = runtime[c].fits
      /\ ~seen.baseline
  BY <1>1 DEF Runtimes
<1>3. runtime' = [runtime EXCEPT ![c] = seen]
  BY DEF Frame
<1> HIDE DEF seen
<1>4. /\ \A d \in Cameras \ {c} : runtime'[d] = runtime[d] /\ observed'[d] = observed[d]
      /\ runtime'[c] = seen /\ observed'[c] = runtime[c].fits[2] /\ spent' = spent \ {c}
      /\ UNCHANGED <<storage, speakers, streams, server, descriptor, errors, baselines, kinds,
                     reloaded, waiters, at, wanted, todo>>
  BY <1>3 DEF Frame, Types, Kept, detectors, models, holder
<1>5. \A d \in Cameras :
          /\ Runs(d)' <=> Runs(d)
          /\ runtime'[d] = None <=> runtime[d] = None
          /\ runtime[d] # None =>
                 runtime'[d].fits = runtime[d].fits /\ runtime'[d].alive = runtime[d].alive
  BY <1>1, <1>2, <1>4 DEF Runs
<1> USE DEF storage, speakers, server
<1>6. Running' /\ Fresh' /\ Followed'
  BY <1>4, <1>5 DEF Suppressing, Running, Fresh, Followed, Forgotten, Runs
<1>7. Based'
  BY <1>1, <1>4 DEF Suppressing, Followed, Based, Forgotten, Runs
<1>8. Asked' /\ Used' /\ Settling'
  BY <1>4 DEF Asked, Used, Settling, GivenUp
<1>9. Halfway' /\ Shown'
  BY <1>4, <1>5 DEF Halfway, Shown, GivenUp, Between
<1>10. \A d \in Cameras : Wanted(d)' = Wanted(d)
  BY <1>4, WantedSame
<1>11. Current'
  BY <1>4, <1>10 DEF Current, Comes, GivenUp
<1>. QED  BY <1>6, <1>7, <1>8, <1>9, <1>11 DEF Suppressing

\* Whatever changes what is wanted brings a call that looks again, but for the death of a worker.
LEMMA AroundCam ==
    ASSUME Types, Order, CamInv, Around
    PROVE  CamInv'
<1> USE NoneApart DEF CamInv
<1>1. /\ UNCHANGED <<enabled, paired, region, streams, at, wanted, todo, runtime, descriptor, errors,
                     baselines, observed, spent, reloaded>>
      /\ kinds' \subseteq kinds
      /\ lifespan' = lifespan \/ (lifespan = "serving" /\ lifespan' = "stopping")
      /\ started' = started \/ lifespan' # "over"
      /\ started' \/ ~started
  BY DEF Around, Start, Request, Publish, Stop, LosesAccount, WorkerDies, PillsDrained,
         InferenceHangs, DetectorFails, LeftJob, storage, server, cameras, history, detectors, models,
         holder, speakers
<1>2. Asked' /\ Used' /\ Suppressing'
  BY <1>1 DEF Asked, Used, Suppressing, Running, Fresh, Followed, Based, Forgotten, Runs
<1>3. Halfway' /\ Shown' /\ Settling'
  BY <1>1 DEF Halfway, Shown, Settling, GivenUp, Between
<1>4. \/ Comes' \/ fatal'
      \/ UNCHANGED <<started, available, lost, fatal>> /\ (Comes => Comes')
  <2>1. CASE \E A \in SUBSET Speakers : Start(A)
    <3>1. waiters' = <<"boot">>
      BY <2>1 DEF Start
    <3>2. 1 \in DOMAIN waiters' /\ waiters'[1] = "boot"
      BY <3>1
    <3>3. "boot" \in Range(waiters')
      BY <3>2 DEF Range
    <3>. QED  BY <3>3 DEF Comes
  <2>2. ASSUME NEW op \in Ops, waiters' = Append(waiters, op)
        PROVE  (Comes => Comes') /\ (op \in {"state", "notice"} => Comes')
    BY <2>2, AppendRange DEF Comes, Types
  <2>3. {"state", "notice", "stop"} \subseteq Ops
    BY DEF Ops
  <2>4. CASE LosesAccount \/ \E A \in SUBSET Speakers, auth \in BOOLEAN : Publish(A, auth)
    BY <2>2, <2>3, <2>4 DEF LosesAccount, Publish
  <2>5. CASE Stop \/ \E op \in Ops : Request(op)
    BY <2>2, <2>3, <2>5 DEF Stop, Request, speakers
  <2>6. CASE WorkerDies
    BY <2>6 DEF WorkerDies
  <2>7. CASE PillsDrained \/ InferenceHangs \/ \E k \in Kinds : DetectorFails(k) \/ LeftJob(k)
    BY <2>7 DEF PillsDrained, InferenceHangs, DetectorFails, LeftJob, speakers, Comes
  <2>. QED  BY <2>1, <2>4, <2>5, <2>6, <2>7 DEF Around
<1>5. CASE UNCHANGED <<started, available, lost, fatal>> /\ (Comes => Comes')
  <2>1. \A c \in Cameras : Wanted(c)' = Wanted(c)
    BY <1>1, <1>5, WantedSame
  <2>2. Current'
    BY <1>1, <1>5, <2>1 DEF Current, GivenUp
  <2>. QED  BY <1>2, <1>3, <2>2
<1>6. CASE Comes' \/ fatal'
  BY <1>2, <1>3, <1>6 DEF Current
<1>. QED  BY <1>4, <1>5, <1>6

LEMMA NextCamInv == Types /\ Order /\ CamInv /\ [Next]_vars => CamInv'
<1> SUFFICES ASSUME Types, Order, CamInv, [Next]_vars PROVE CamInv'
  OBVIOUS
<1>1. CASE LeavesAtOnce \/ UNCHANGED vars
  <2>1. UNCHANGED <<storage, streams, speakers, server, cameras, kinds, reloaded, holder>>
    BY <1>1 DEF LeavesAtOnce, Leaves, vars, detectors, models
  <2>2. Comes => Comes'
    <3>1. CASE \E op \in {"rule", "region", "adapter"} : Takes(op)
      <4>1. waiters # <<>> /\ Head(waiters) \in {"rule", "region", "adapter"} /\ waiters' = Tail(waiters)
        BY <3>1 DEF Takes
      <4>. QED  BY <4>1, TailRange DEF Comes, Types
    <3>2. CASE UNCHANGED vars
      BY <3>2 DEF vars, Comes
    <3>. QED  BY <1>1, <3>1, <3>2 DEF LeavesAtOnce
  <2>3. \A c \in Cameras : Wanted(c)' = Wanted(c)
    BY <2>1, WantedSame DEF storage, speakers
  <2>4. Current'
    BY <2>1, <2>2, <2>3 DEF CamInv, Current, GivenUp, storage, speakers, server, cameras, holder
  <2>5. Asked' /\ Used' /\ Suppressing'
    BY <2>1 DEF CamInv, Asked, Used, Suppressing, Running, Fresh, Followed, Based, Forgotten, Runs,
                storage, speakers, server, cameras, history, holder
  <2>6. Halfway' /\ Shown' /\ Settling'
    BY <2>1 DEF CamInv, Halfway, Shown, Settling, GivenUp, Between, server, cameras, holder
  <2>. QED  BY <2>4, <2>5, <2>6 DEF CamInv
<1>2. CASE Waits
  <2>1. /\ at = None /\ at' \in {"discovering", "exchanging"}
        /\ UNCHANGED <<storage, streams, speakers, server, cameras, kinds, reloaded, wanted, todo>>
        /\ waiters' = Tail(waiters) /\ waiters # <<>> /\ Head(waiters) \in {"refresh", "adapter"}
    BY <1>2, WaitsChange DEF Types, Takes, Order, detectors, models
  <2>2. Suppressing'
    BY <2>1, NoneApart DEF CamInv, Suppressing, Running, Fresh, Followed, Based, Forgotten, Runs,
                           storage, speakers, server, cameras, history
  <2>3. Comes => Comes'
    BY <2>1, TailRange DEF Comes, Types
  <2>4. \A c \in Cameras : Wanted(c)' = Wanted(c)
    BY <2>1, WantedSame DEF storage, speakers
  <2>5. Current'
    BY <2>1, <2>3, <2>4, NoneApart DEF CamInv, Current, GivenUp, storage, speakers, server, cameras
  <2>6. Halfway' /\ Shown'
    BY <2>1, NoneApart DEF CamInv, Halfway, Shown, GivenUp, Between, server, cameras
  <2>. QED  BY <2>1, <2>2, <2>5, <2>6, NoneApart DEF CamInv, Asked, Settling, Used
<1>3. CASE CallGoesOn
  BY <1>3, DropCam, StopOldCam, StartNewCam, DetectorsCam, ExchangeCam, ReturnCam DEF CallGoesOn
<1>. QED
  BY <1>1, <1>2, <1>3, NextCases, ReconcilesCam, StopGoesOnCam, AroundCam, FrameCam

LEMMA RInvHolds == Spec => []RInv
<1>1. Init => RInv
  BY InitTypes, InitOrder, InitCamInv DEF RInv
<1>2. RInv /\ [Next]_vars => RInv'
  BY NextTypes, NextOrder, NextCamInv DEF RInv
<1>. QED  BY <1>1, <1>2, PTL DEF Spec

-----------------------------------------------------------------------------
\* Every variable of the runtime keeps its type, for any cameras, speakers and regions.
THEOREM TypeCorrect == Spec => []TypeOK
<1>1. RInv => TypeOK
  BY DEF RInv, Types, Flags, Stored, Kept, Models, Held, TypeOK
<1>. QED  BY <1>1, RInvHolds, PTL

\* When the calls are over every camera is as its settings ask or shows its failure.
THEOREM Settled == Spec => []SettledAsWanted
<1>1. RInv => SettledAsWanted
  <2>1. Quiet /\ RInv => at = None /\ ~Comes /\ ~GivenUp
    BY NoneApart DEF Quiet, RInv, Order, Comes, Range, GivenUp
  <2>. QED  BY <2>1 DEF RInv, CamInv, Current, SettledAsWanted
<1>. QED  BY <1>1, RInvHolds, PTL

\* When the calls are over every loaded detector has a camera that uses it, or was put by an
\* exchange of the adapter in the place of one whose kind had been degraded.
THEOREM OnlyNeeded == Spec => []DetectorsAreNeeded
<1>1. RInv => DetectorsAreNeeded
  <2>1. Quiet /\ RInv => at = None /\ ~Comes /\ ~GivenUp
    BY NoneApart DEF Quiet, RInv, Order, Comes, Range, GivenUp
  <2>. QED  BY <2>1 DEF RInv, CamInv, Current, DetectorsAreNeeded
<1>. QED  BY <1>1, RInvHolds, PTL

\* A camera that shows no failure is never taken for running when it is not.
THEOREM NeverTakenForRunning == Spec => []ShownAsItRuns
<1>1. RInv => ShownAsItRuns
  BY DEF RInv, CamInv, Halfway, Shown, GivenUp, Between, ShownAsItRuns
<1>. QED  BY <1>1, RInvHolds, PTL

\* Only a start puts a runtime where there is none, and it takes the pending baseline.
LEMMA BaselineStep ==
    ASSUME RInv, [Next]_vars, NEW c \in Cameras, runtime[c] = None, runtime'[c] # None,
           observed[c] \notin {None, runtime'[c].fits[2]}, c \notin spent
    PROVE  runtime'[c].baseline
<1> USE NoneApart DEF RInv
<1>1. CASE StartNew(c, TRUE)
  <2> DEFINE new == [fits |-> wanted[c], baseline |-> c \in baselines, alive |-> TRUE]
  <2>1. runtime' = [runtime EXCEPT ![c] = new] /\ at = "rebuilding"
    BY <1>1 DEF StartNew
  <2>2. new.fits = wanted[c] /\ (new.baseline <=> c \in baselines)
    OBVIOUS
  <2> HIDE DEF new
  <2>3. runtime'[c] = new
    BY <2>1 DEF Types, Kept
  <2>4. wanted[c] # None /\ wanted[c][2] = region[c]
    BY <1>1, <2>1 DEF StartNew, CamInv, Asked, Types, ToDo
  <2>5. c \in baselines
    BY <2>1, <2>2, <2>3, <2>4 DEF CamInv, Suppressing, Based, Forgotten, Order
  <2>. QED  BY <2>2, <2>3, <2>5
<1>2. CASE \E d \in Cameras, ok \in BOOLEAN : StartNew(d, ok)
  <2>1. PICK d \in Cameras, ok \in BOOLEAN : StartNew(d, ok)
    BY <1>2
  <2>2. d = c /\ ok
    BY <2>1 DEF StartNew, Types, Kept
  <2>. QED  BY <1>1, <2>1, <2>2
<1>3. CASE \E d \in Cameras, ok \in BOOLEAN : Drop(d, ok) \/ StopOld(d, ok)
  <2>1. PICK d \in Cameras, ok \in BOOLEAN : Drop(d, ok) \/ StopOld(d, ok)
    BY <1>3
  <2>2. runtime[d] # None
    BY <2>1 DEF Drop, StopOld, Types, ToDo
  <2>. QED  BY <2>1, <2>2 DEF Drop, StopOld, Types, Kept
<1>4. CASE StopGoesOn \/ \E d \in Cameras : Frame(d)
  BY <1>4 DEF StopGoesOn, BeginStop, CloseCamera, CloseRest, StopReturns, StopRaises, Frame, cameras,
              Types, Kept
<1>5. CASE Reconciles
  BY <1>5 DEF Reconciles, Reconcile
<1>6. CASE LeavesAtOnce \/ Waits \/ Around \/ UNCHANGED vars
  BY <1>6, WaitsChange
     DEF LeavesAtOnce, Leaves, Around, Start, Request, Publish, Stop, LosesAccount, WorkerDies,
         PillsDrained, InferenceHangs, DetectorFails, LeftJob, cameras, vars, Types
<1>7. CASE \/ Exchange \/ Return
           \/ \E failing \in SUBSET Kinds, upset \in SUBSET Replaceable : Detectors(failing, upset)
  BY <1>7 DEF Exchange, Return, Detectors, cameras
<1>. QED  BY <1>2, <1>3, <1>4, <1>5, <1>6, <1>7, NextCases DEF CallGoesOn

\* A changed region is never compared with pictures of the old one, whatever failed in between,
\* but for a runtime that ended before the first frame it was to suppress.
THEOREM BaselineFirst == Spec => ChangedRegionStartsWithBaseline
<1>1. RInv /\ [Next]_vars =>
          [\A c \in Cameras :
             runtime[c] = None /\ runtime'[c] # None
             /\ observed[c] \notin {None, runtime'[c].fits[2]} /\ c \notin spent
             => runtime'[c].baseline]_vars
  BY BaselineStep
<1>. QED  BY <1>1, RInvHolds, PTL DEF Spec, ChangedRegionStartsWithBaseline
=============================================================================
