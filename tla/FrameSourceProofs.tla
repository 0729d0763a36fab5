------------------------- MODULE FrameSourceProofs -------------------------
(***************************************************************************)
(* Proofs about FrameSource for any set of processes and any number of     *)
(* signals an ffmpeg may ignore: the types of what the threads share, and  *)
(* that the reader never has an ffmpeg beside the one it reads.            *)
(***************************************************************************)
EXTENDS FrameSource, TLAPS

\* The four parts of TypeOK: what is true or false, what is counted, the steps the threads are
\* at, and the processes they hold.
Flags == stop \in BOOLEAN /\ frames \in BOOLEAN /\ silent \in BOOLEAN /\ fresh \in BOOLEAN

Counts ==
    attempt \in 0 .. LastAttempt /\ delay \in 0 .. 30 /\ signals \in [Processes -> 0 .. MaxSignals]

Steps ==
    /\ reader \in {"none", "loop", "spawning", "spawned", "check", "read", "end", "wait", "clear",
                   "backoff", "ended"}
    /\ watchdog \in {"none", "waiting", "stalled", "ended"}
    /\ call \in {"none", "take", "join", "join again", "join watchdog", "done"}

Hands ==
    /\ {process, own, suspect, taken} \subseteq Processes \cup {0}
    /\ alive \subseteq Processes /\ closed \subseteq Processes

Places == Steps /\ Hands

\* An ffmpeg that runs is the reader's, and the reader has one only from the spawn of it to the
\* end of the wait for it.
OwnOnly ==
    /\ alive \subseteq {own}
    /\ reader \in {"none", "loop", "spawning", "clear", "backoff", "ended"} => alive = {}

FInv == Flags /\ Counts /\ Places /\ OwnOnly

-----------------------------------------------------------------------------
USE FrameAssumption

\* Min and Max of two integers.
LEMMA MinOfTwo ==
    ASSUME NEW a \in Int, NEW b \in Int
    PROVE  Min({a, b}) = IF a <= b THEN a ELSE b
BY DEF Min

LEMMA MaxOfTwo ==
    ASSUME NEW a \in Int, NEW b \in Int
    PROVE  Max({a, b}) = IF a <= b THEN b ELSE a
BY DEF Max

\* The reader waits at least a second and at most thirty.
LEMMA DelayBounds ==
    ASSUME NEW n \in 0 .. LastAttempt
    PROVE  ReconnectDelay(n) \in 1 .. 30
<1>1. n \in {0, 1, 2, 3, 4, 5, 6}
  BY DEF LastAttempt
<1>2. n = 0 => 2^n = 1
  OBVIOUS
<1>3. n = 1 => 2^n = 2
  OBVIOUS
<1>4. n = 2 => 2^n = 4
  OBVIOUS
<1>5. n = 3 => 2^n = 8
  OBVIOUS
<1>6. n = 4 => 2^n = 16
  OBVIOUS
<1>7. n = 5 => 2^n = 32
  OBVIOUS
<1>8. n = 6 => 2^n = 64
  OBVIOUS
<1>9. PICK m \in 1 .. 64 : m = 2^n
  BY <1>1, <1>2, <1>3, <1>4, <1>5, <1>6, <1>7, <1>8
<1>10. Min({m, 30}) \in 1 .. 30
  BY MinOfTwo
<1>. QED  BY <1>9, <1>10 DEF ReconnectDelay

LEMMA BacksTypes ==
    ASSUME NEW n \in 0 .. LastAttempt, NEW after \in Nat, Backs(n, after)
    PROVE  delay' \in 0 .. 30 /\ attempt' \in 0 .. LastAttempt
<1>1. Min({after, LastAttempt}) \in 0 .. LastAttempt
  BY MinOfTwo DEF LastAttempt
<1>2. \A m \in 1 .. 30 : m \in 0 .. 30
  OBVIOUS
<1>. QED  BY <1>1, <1>2, DelayBounds DEF Backs

LEMMA TerminateTypes ==
    ASSUME NEW p, Terminate(p), signals \in [Processes -> 0 .. MaxSignals]
    PROVE  signals' \in [Processes -> 0 .. MaxSignals]
<1>1. \A n \in 0 .. MaxSignals : Min({n + 1, MaxSignals}) \in 0 .. MaxSignals
  BY MinOfTwo
<1>2. CASE p \in alive \cap Processes
  <2>1. Min({signals[p] + 1, MaxSignals}) \in 0 .. MaxSignals
    BY <1>1, <1>2
  <2>. QED  BY <1>2, <2>1 DEF Terminate
<1>3. CASE p \notin alive \cap Processes
  BY <1>3 DEF Terminate
<1>. QED  BY <1>2, <1>3

LEMMA InitFInv == Init => FInv
<1>1. Init => Flags
  BY DEF Init, Flags
<1>2. Init => Counts
  BY DEF Init, Counts, LastAttempt
<1>3. Init => Places
  BY DEF Init, Places, Steps, Hands
<1>. QED  BY <1>1, <1>2, <1>3 DEF Init, FInv, OwnOnly

LEMMA FlagsStep ==
    ASSUME Flags, [Next]_vars
    PROVE  Flags'
BY DEF Flags, Next, vars, readers, watchdogs, calls, ffmpegs, Reader, Stopping, Loop, SpawnFails,
       Spawned, Publish, Check, EndOfStream, EndProcess, Waited, WaitTimesOut, Clear, BackoffEnds,
       Frame, WatchdogLooks, WatchdogActs, Start, WaitForFrame, Stop, StopAgain, StopTerminates,
       Joined, JoinTimesOut, JoinAgainTimesOut, StopReturns, Exit, CloseOutput, GoesSilent

\* The counts change where the reader backs off, and where an ffmpeg is signalled or is gone.
LEMMA CountsStep ==
    ASSUME Counts, [Next]_vars
    PROVE  Counts'
<1> USE DEF Counts, readers, watchdogs, calls, ffmpegs
<1>1. CASE SpawnFails
  BY <1>1, BacksTypes DEF SpawnFails, LastAttempt
<1>2. CASE Clear
  <2>1. CASE stop
    BY <1>2, <2>1 DEF Clear
  <2>2. CASE ~stop
    <3> DEFINE tries == IF frames THEN 0 ELSE attempt + 1
    <3>1. Backs(Max({0, tries - 1}), tries) /\ UNCHANGED signals
      BY <1>2, <2>2 DEF Clear
    <3>2. tries \in 0 .. LastAttempt + 1
      <4>1. tries = 0 \/ tries = attempt + 1
        OBVIOUS
      <4> HIDE DEF tries
      <4>. QED  BY <4>1 DEF LastAttempt
    <3> HIDE DEF tries
    <3>3. tries \in Nat /\ Max({0, tries - 1}) \in 0 .. LastAttempt
      BY <3>2, MaxOfTwo DEF LastAttempt
    <3>. QED  BY <3>1, <3>3, BacksTypes
  <2>. QED  BY <2>1, <2>2
<1>3. CASE BackoffEnds
  BY <1>3 DEF BackoffEnds
<1>4. CASE EndProcess \/ WatchdogActs \/ StopTerminates \/ StopAgain
  <2>1. UNCHANGED <<attempt, delay>> /\ (UNCHANGED signals \/ \E p : Terminate(p))
    BY <1>4 DEF EndProcess, WatchdogActs, StopTerminates, StopAgain
  <2>. QED  BY <2>1, TerminateTypes
<1>5. CASE WaitTimesOut \/ JoinTimesOut \/ \E p \in Processes : Exit(p)
  <2>1. UNCHANGED <<attempt, delay>> /\ (UNCHANGED signals \/ \E p : Gone(p))
    BY <1>5 DEF WaitTimesOut, JoinTimesOut, Exit
  <2>. QED  BY <2>1 DEF Gone
<1>6. CASE UNCHANGED <<attempt, delay, signals>>
  BY <1>6
<1>. QED
  BY <1>1, <1>2, <1>3, <1>4, <1>5, <1>6
     DEF Next, vars, Reader, Stopping, Loop, Spawned, Spawn, Publish, Check, EndOfStream, Waited,
         Frame, WatchdogLooks, Start, WaitForFrame, Stop, Joined, JoinAgainTimesOut, StopReturns,
         CloseOutput, GoesSilent

\* The reader gets on with an ffmpeg or without one.
LEMMA ReaderStep ==
    ASSUME Places, OwnOnly, Reader \/ Frame
    PROVE  Places' /\ OwnOnly'
<1> USE DEF Places, Steps, Hands, OwnOnly, readers, watchdogs, calls, ffmpegs
<1>1. CASE Loop \/ Publish \/ Check \/ EndOfStream \/ Waited \/ BackoffEnds \/ Frame
  BY <1>1 DEF Loop, Publish, Check, EndOfStream, Waited, BackoffEnds, Frame
<1>2. CASE SpawnFails
  BY <1>2 DEF SpawnFails, Backs
<1>3. CASE Spawned
  <2>1. own' \in Unused
    BY <1>3 DEF Spawned
  <2>2. alive' = {own'} /\ own' \in Processes
    BY <1>3, <2>1 DEF Spawned, Spawn, Unused
  <2>. QED  BY <1>3, <2>2 DEF Spawned, Spawn
<1>4. CASE EndProcess
  BY <1>4 DEF EndProcess, Terminate
<1>5. CASE WaitTimesOut
  BY <1>5 DEF WaitTimesOut, Gone
<1>6. CASE Clear
  BY <1>6 DEF Clear, Backs
<1>. QED  BY <1>1, <1>2, <1>3, <1>4, <1>5, <1>6 DEF Reader

\* The other threads, the camera and ffmpeg itself only ever take ffmpegs away.
LEMMA OthersStep ==
    ASSUME Places, OwnOnly,
           \/ WatchdogLooks \/ WatchdogActs \/ Start \/ WaitForFrame \/ Stop \/ StopAgain
           \/ Stopping \/ (\E p \in Processes : Exit(p) \/ CloseOutput(p)) \/ GoesSilent
    PROVE  Places' /\ OwnOnly'
<1> USE DEF Places, Steps, Hands, OwnOnly, readers, watchdogs, calls, ffmpegs
<1>1. CASE WatchdogLooks \/ WatchdogActs
  BY <1>1 DEF WatchdogLooks, WatchdogActs, Terminate
<1>2. CASE Start \/ WaitForFrame \/ Stop
  BY <1>2 DEF Start, WaitForFrame, Stop
<1>7. CASE GoesSilent \/ StopAgain
  BY <1>7 DEF GoesSilent, StopAgain, Terminate
<1>3. CASE StopTerminates
  BY <1>3 DEF StopTerminates, Terminate
<1>4. CASE Joined \/ JoinAgainTimesOut \/ StopReturns
  BY <1>4 DEF Joined, JoinAgainTimesOut, StopReturns
<1>5. CASE JoinTimesOut
  BY <1>5 DEF JoinTimesOut, Gone
<1>6. ASSUME NEW p \in Processes, Exit(p) \/ CloseOutput(p)
      PROVE  Places' /\ OwnOnly'
  BY <1>6 DEF Exit, CloseOutput, Gone
<1>. QED  BY <1>1, <1>2, <1>3, <1>4, <1>5, <1>6, <1>7 DEF Stopping

LEMMA FInvHolds == Spec => []FInv
<1>1. FInv /\ [Next]_vars => FInv'
  <2>1. ASSUME Places, OwnOnly, UNCHANGED vars
        PROVE  Places' /\ OwnOnly'
    <3>1. UNCHANGED <<process, reader, own, watchdog, suspect, call, taken, alive, closed>>
      BY <2>1 DEF vars, readers, watchdogs, calls, ffmpegs
    <3>2. Steps'
      BY <2>1, <3>1 DEF Places, Steps
    <3>3. Hands'
      BY <2>1, <3>1 DEF Places, Hands
    <3>4. OwnOnly'
      BY <2>1, <3>1 DEF OwnOnly
    <3>. QED  BY <3>2, <3>3, <3>4 DEF Places
  <2>2. ASSUME Places, OwnOnly, Next
        PROVE  Places' /\ OwnOnly'
    BY <2>2, ReaderStep, OthersStep DEF Next
  <2>3. Flags /\ [Next]_vars => Flags'
    BY FlagsStep
  <2>4. Counts /\ [Next]_vars => Counts'
    BY CountsStep
  <2>. QED  BY <2>1, <2>2, <2>3, <2>4 DEF FInv
<1>. QED  BY <1>1, InitFInv, PTL DEF Spec

-----------------------------------------------------------------------------
\* Everything the threads share and keep has its type; in particular the reader never waits
\* longer than thirty seconds before the next ffmpeg.
THEOREM TypeCorrect == Spec => []TypeOK
<1>1. FInv => TypeOK
  BY DEF FInv, Flags, Counts, Places, Steps, Hands, TypeOK
<1>. QED  BY <1>1, FInvHolds, PTL

\* There are never two ffmpegs on the camera, however often it is restarted and stopped.
THEOREM NeverTwo == Spec => []OneFfmpeg
<1>1. FInv => OneFfmpeg
  BY DEF FInv, OwnOnly, OneFfmpeg
<1>. QED  BY <1>1, FInvHolds, PTL

\* While the reader waits to try again, and when it has ended, none of its ffmpegs is left.
THEOREM NoneLeftBehind == Spec => [](reader \in {"backoff", "ended"} => alive = {})
<1>1. FInv => (reader \in {"backoff", "ended"} => alive = {})
  BY DEF FInv, OwnOnly
<1>. QED  BY <1>1, FInvHolds, PTL
=============================================================================
