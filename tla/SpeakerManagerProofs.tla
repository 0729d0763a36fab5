------------------------ MODULE SpeakerManagerProofs ------------------------
(* What holds of SpeakerManager for any speakers, cameras, announcements and   *)
(* queue size, and for any number of changes from outside.                     *)
EXTENDS SpeakerManager, TLAPS

-----------------------------------------------------------------------------
(* _record adds one event to the announcements it is given. *)
LEMMA RecordedType ==
    ASSUME TypeOK, NEW A, NEW o \in Outcome
    PROVE  Recorded(A, o) \in [Announcements -> Seq(Outcome)]
BY DEF Recorded, TypeOK

(* A drain leaves queues of entries and pending actions. *)
LEMMA DrainType ==
    ASSUME TypeOK, NEW S, Drain(S)
    PROVE  /\ queue' \in [Speakers -> Seq(Entries)]
           /\ pending' \in [Speakers -> [Cameras -> ObjectAnnouncements \cup {None}]]
BY DEF Drain, DrainKeys, TypeOK

(* So does taking an entry. *)
LEMMA DequeueType ==
    ASSUME TypeOK, NEW s \in Speakers, Dequeue(s)
    PROVE  /\ queue' \in [Speakers -> Seq(Entries)]
           /\ pending' \in [Speakers -> [Cameras -> ObjectAnnouncements \cup {None}]]
BY DEF Dequeue, Popped, TypeOK

(* The entry a worker takes stands for an announcement or for nothing. *)
LEMMA TakenType ==
    ASSUME TypeOK, SpeakerManagerAssumption, NEW s \in Speakers, queue[s] # <<>>,
           Head(queue[s]) # Pill
    PROVE  Taken(s) \in Announcements \cup {None}
<1>1. Head(queue[s]) \in Entries
  BY DEF TypeOK
<1>2. CASE Head(queue[s]) \in Cameras
  <2>1. pending[s][Head(queue[s])] \in ObjectAnnouncements \cup {None}
    BY <1>2 DEF TypeOK
  <2>. QED  BY <1>2, <2>1 DEF Taken, Resolve, SpeakerManagerAssumption
<1>3. CASE Head(queue[s]) \notin Cameras
  BY <1>1, <1>3 DEF Taken, Resolve, Entries
<1>. QED  BY <1>2, <1>3

-----------------------------------------------------------------------------
(* The type invariant. *)
LEMMA InitTypeOK == Init /\ SpeakerManagerAssumption => TypeOK
<1> SUFFICES ASSUME Init, SpeakerManagerAssumption  PROVE TypeOK
  OBVIOUS
<1>1. changes \in 0..MaxChanges
  BY DEF Init, SpeakerManagerAssumption
<1>2. /\ queue \in [Speakers -> Seq(Entries)]
      /\ outcomes \in [Announcements -> Seq(Outcome)]
  BY DEF Init
<1>3. auth \in AuthStates /\ worker \in [Speakers -> WorkerState]
  BY DEF Init, AuthStates, WorkerState
<1>. QED  BY <1>1, <1>2, <1>3 DEF Init, TypeOK

LEMMA NextTypeOK ==
    ASSUME SpeakerManagerAssumption, TypeOK, [Next]_vars
    PROVE  TypeOK'
<1> USE DEF gates, queues, tasks, calls, store, ledger
<1>0. Change => changes' \in 0..MaxChanges
  BY DEF Change, TypeOK, SpeakerManagerAssumption
<1>1. CASE Start
  <2>1. worker' \in [Speakers -> WorkerState]
    BY <1>1 DEF Start, WorkerState
  <2>. QED  BY <1>0, <1>1, <2>1 DEF Start, TypeOK
<1>2. CASE Stop
  <2>1. stopping' \in BOOLEAN /\ pillsDue' \subseteq Speakers
    BY <1>2 DEF Stop, Tasks
  <2>. QED  BY <1>0, <1>2, <2>1 DEF Stop, TypeOK
<1>3. CASE BeginReplace
  <2>1. outcomes' \in [Announcements -> Seq(Outcome)]
    BY <1>3, RecordedType DEF BeginReplace, Outcome
  <2>2. queue' \in [Speakers -> Seq(Entries)]
    <3>1. <<Pill>> \in Seq(Entries) /\ <<>> \in Seq(Entries)
      BY DEF Entries
    <3>. QED  BY <1>3, <3>1 DEF BeginReplace
  <2>3. pending' \in [Speakers -> [Cameras -> ObjectAnnouncements \cup {None}]]
    BY <1>3 DEF BeginReplace, DrainKeys, TypeOK
  <2>. QED  BY <1>0, <1>3, <2>1, <2>2, <2>3 DEF BeginReplace, TypeOK
<1>4. ASSUME NEW s \in Speakers, SendPill(s)  PROVE TypeOK'
  <2>1. queue' \in [Speakers -> Seq(Entries)]
    <3>1. Pill \in Entries
      BY DEF Entries
    <3>2. Append(queue[s], Pill) \in Seq(Entries)
      BY <3>1 DEF TypeOK
    <3>3. \/ UNCHANGED queue
          \/ queue' = [queue EXCEPT ![s] = Append(queue[s], Pill)]
      BY <1>4 DEF SendPill
    <3>4. queue \in [Speakers -> Seq(Entries)]
      BY DEF TypeOK
    <3>. QED  BY <3>2, <3>3, <3>4
  <2>2. pillsDue' \subseteq Speakers /\ blocked' \in Speakers \cup {None}
    BY <1>4 DEF SendPill, TypeOK
  <2>. QED  BY <1>4, <2>1, <2>2 DEF SendPill, TypeOK
<1>5. CASE StopReturns
  BY <1>5 DEF StopReturns, TypeOK, WorkerState
<1>6. ASSUME NEW S \in SUBSET Speakers, NEW A \in SUBSET S, Install(S, A)
      PROVE  /\ installed' \subseteq Speakers /\ available' \subseteq installed'
             /\ queue' \in [Speakers -> Seq(Entries)]
             /\ pending' \in [Speakers -> [Cameras -> ObjectAnnouncements \cup {None}]]
             /\ worker' \in [Speakers -> WorkerState]
  BY <1>6 DEF Install, WorkerState
<1>7. ASSUME NEW S \in SUBSET Speakers, NEW A \in SUBSET S, FinishReplace(S, A)
      PROVE  TypeOK'
  BY <1>6, <1>7 DEF FinishReplace, TypeOK
<1>8. ASSUME NEW S \in SUBSET Speakers, NEW A \in SUBSET S, ReplaceIdle(S, A)
      PROVE  TypeOK'
  BY <1>0, <1>6, <1>8 DEF ReplaceIdle, TypeOK
<1>9. ASSUME NEW A \in SUBSET Speakers, SetAvailableIds(A)  PROVE TypeOK'
  <2>1. outcomes' \in [Announcements -> Seq(Outcome)]
    BY <1>9, RecordedType DEF SetAvailableIds, Outcome
  <2>. QED  BY <1>0, <1>9, <2>1, DrainType DEF SetAvailableIds, Known, TypeOK
<1>10. ASSUME NEW newAuth \in AuthStates, NEW A, ApplyAuth(newAuth, A)
       PROVE  /\ auth' \in AuthStates
              /\ queue' \in [Speakers -> Seq(Entries)]
              /\ pending' \in [Speakers -> [Cameras -> ObjectAnnouncements \cup {None}]]
              /\ outcomes' \in [Announcements -> Seq(Outcome)]
  <2>1. CASE newAuth = "reauth_required"
    BY <1>10, <2>1, DrainType, RecordedType DEF ApplyAuth, Outcome
  <2>2. CASE newAuth # "reauth_required"
    BY <1>10, <2>2 DEF ApplyAuth, TypeOK
  <2>. QED  BY <2>1, <2>2
<1>11. ASSUME NEW newAuth \in AuthStates, SetAuthStatus(newAuth)  PROVE TypeOK'
  <2>. ApplyAuth(newAuth, {})  BY <1>11 DEF SetAuthStatus
  <2>. QED  BY <1>0, <1>10, <1>11 DEF SetAuthStatus, ApplyAuth, TypeOK
<1>12. ASSUME NEW a \in Announcements, Submit(a)  PROVE TypeOK'
  <2>. SpeakerOf[a] \in Speakers /\ CameraOf[a] \in Cameras /\ EntryOf(a) \in Entries
    BY DEF SpeakerManagerAssumption, EntryOf, Entries
  <2>1. CASE SubmitRefused(a)
    <3>1. outcomes' \in [Announcements -> Seq(Outcome)]
      BY <2>1, RecordedType DEF SubmitRefused, Outcome, TypeOK
    <3>. QED  BY <2>1, <3>1 DEF SubmitRefused, TypeOK
  <2>2. CASE SubmitCoalesced(a)
    <3>1. outcomes' \in [Announcements -> Seq(Outcome)]
      BY <2>2, RecordedType DEF SubmitCoalesced, Outcome
    <3>2. a \in ObjectAnnouncements
      BY <2>2 DEF SubmitCoalesced, Superseded
    <3>. QED  BY <2>2, <3>1, <3>2 DEF SubmitCoalesced, TypeOK
  <2>3. CASE SubmitQueued(a)
    <3>1. queue' \in [Speakers -> Seq(Entries)]
      BY <2>3 DEF SubmitQueued, TypeOK
    <3>. QED  BY <2>3, <3>1 DEF SubmitQueued, TypeOK
  <2>. QED  BY <1>12, <2>1, <2>2, <2>3 DEF Submit
<1>13. ASSUME NEW s \in Speakers, WorkerStep(s)  PROVE TypeOK'
  <2>0. ASSUME NEW st \in WorkerState, NEW b \in Announcements \cup {None}, Goto(s, st, b)
        PROVE  /\ worker' \in [Speakers -> WorkerState]
               /\ inFlight' \in [Speakers -> Announcements \cup {None}]
    BY <2>0 DEF Goto, TypeOK
  <2>1. CASE TakePill(s)
    BY <2>1, <2>0, DequeueType DEF TakePill, TypeOK, WorkerState
  <2>2. CASE Skip(s)
    <3>1. outcomes' \in [Announcements -> Seq(Outcome)]
      BY <2>2, RecordedType DEF Skip, Outcome
    <3>. QED  BY <2>2, <3>1, DequeueType DEF Skip, TypeOK
  <2>3. CASE StartSpeaking(s)
    <3>1. Taken(s) \in Announcements \cup {None}
      BY <2>3, TakenType DEF StartSpeaking, Dequeue
    <3>. QED  BY <2>3, <3>1, <2>0, DequeueType DEF StartSpeaking, TypeOK, WorkerState
  <2>4. CASE SpeechReturns(s)
    <3>1. outcomes' \in [Announcements -> Seq(Outcome)]
      BY <2>4, RecordedType DEF SpeechReturns, Outcome
    <3>2. auth' \in AuthStates
      BY <2>4 DEF SpeechReturns, AuthAfterSpeech, AuthStates, TypeOK
    <3>. QED  BY <2>4, <3>1, <3>2, <2>0 DEF SpeechReturns, TypeOK, WorkerState
  <2>5. CASE SpeechRejected(s)
    <3>1. "reauth_required" \in AuthStates
      BY DEF AuthStates
    <3>2. \E A : ApplyAuth("reauth_required", A)
      BY <2>5 DEF SpeechRejected
    <3>3. /\ worker' \in [Speakers -> WorkerState]
          /\ inFlight' \in [Speakers -> Announcements \cup {None}]
      BY <2>5, <2>0 DEF SpeechRejected, TypeOK, WorkerState
    <3>4. UNCHANGED <<installed, available, started, fatal>>
      BY <3>2 DEF ApplyAuth
    <3>. QED  BY <2>5, <3>1, <3>2, <3>3, <3>4, <1>10 DEF SpeechRejected, TypeOK
  <2>6. CASE NotifyReturns(s)
    <3>1. outcomes' \in [Announcements -> Seq(Outcome)]
      BY <2>6, RecordedType DEF NotifyReturns, Outcome
    <3>. QED  BY <2>6, <3>1, <2>0 DEF NotifyReturns, TypeOK, WorkerState
  <2>7. CASE Crash(s)
    <3>1. /\ queue' \in [Speakers -> Seq(Entries)]
          /\ pending' \in [Speakers -> [Cameras -> ObjectAnnouncements \cup {None}]]
      BY <2>7, DequeueType DEF Crash, TypeOK
    <3>2. auth' \in AuthStates
      BY <2>7 DEF Crash, AuthAfterSpeech, AuthStates, TypeOK
    <3>. QED  BY <2>7, <3>1, <3>2, <2>0 DEF Crash, TypeOK, WorkerState
  <2>8. CASE ReportCrash(s)
    BY <2>8, <2>0 DEF ReportCrash, TypeOK, WorkerState
  <2>. QED  BY <1>13, <2>1, <2>2, <2>3, <2>4, <2>5, <2>6, <2>7, <2>8 DEF WorkerStep
<1>14. ASSUME NEW c \in Cameras, NEW r \in Rules, SwitchRule(c, r)  PROVE TypeOK'
  BY <1>0, <1>14 DEF SwitchRule, TypeOK
<1>15. ASSUME NEW c \in Cameras, NEW s \in Speakers, Pair(c, s)  PROVE TypeOK'
  BY <1>0, <1>15 DEF Pair, TypeOK
<1>16. ASSUME NEW a \in ObjectAnnouncements, Age(a)  PROVE TypeOK'
  BY <1>16 DEF Age, TypeOK
<1>17. CASE UNCHANGED vars
  BY <1>17 DEF vars, TypeOK
<1>. QED
  BY <1>1, <1>2, <1>3, <1>4, <1>5, <1>7, <1>8, <1>9, <1>11, <1>12, <1>13, <1>14,
     <1>15, <1>16, <1>17 DEF Next, CallStep

(* Every variable of the manager keeps its type. *)
THEOREM TypeCorrect == Spec => []TypeOK
BY InitTypeOK, NextTypeOK, SpeakerManagerAssumption, PTL DEF Spec

-----------------------------------------------------------------------------
(* The inductive invariant.  An announcement that a queue, a pending map or a  *)
(* worker holds has been submitted and has no event yet; it is held at its own *)
(* speaker, in one place.                                                      *)
Fresh(a) == a \in submitted /\ outcomes[a] = <<>>

NoDuplicates(s) ==
    \A i, j \in DOMAIN queue[s] :
        queue[s][i] = queue[s][j] /\ queue[s][i] # Pill => i = j

WelcomeInv(s) ==
    \A i \in DOMAIN queue[s] : queue[s][i] \in Announcements =>
        /\ queue[s][i] \notin ObjectAnnouncements
        /\ SpeakerOf[queue[s][i]] = s /\ Fresh(queue[s][i])
        /\ inFlight[s] # queue[s][i]

KeyInv(s) ==
    \A i \in DOMAIN queue[s] : queue[s][i] \in Cameras => pending[s][queue[s][i]] # None

PendingInv(s) ==
    \A c \in Cameras : pending[s][c] # None =>
        /\ \E i \in DOMAIN queue[s] : queue[s][i] = c
        /\ CameraOf[pending[s][c]] = c
        /\ SpeakerOf[pending[s][c]] = s /\ Fresh(pending[s][c])
        /\ inFlight[s] # pending[s][c]

InFlightInv(s) ==
    inFlight[s] # None => SpeakerOf[inFlight[s]] = s /\ Fresh(inFlight[s])

SpeakerInv(s) ==
    NoDuplicates(s) /\ WelcomeInv(s) /\ KeyInv(s) /\ PendingInv(s) /\ InFlightInv(s)

NewInv == \A a \in Announcements \ submitted : outcomes[a] = <<>>

PlacesInv ==
    /\ Tasks \subseteq installed /\ pillsDue \subseteq Tasks
    /\ \A s \in Speakers \ installed : queue[s] = <<>>

IInv == TypeOK /\ OneOutcome /\ NewInv /\ PlacesInv /\ \A s \in Speakers : SpeakerInv(s)

-----------------------------------------------------------------------------
(* A step that leaves a speaker's queue alone and records none of its          *)
(* announcements keeps its invariant.                                          *)
LEMMA SpeakerUndisturbed ==
    ASSUME TypeOK, TypeOK', SpeakerManagerAssumption, NEW s \in Speakers, SpeakerInv(s),
           queue'[s] = queue[s], pending'[s] = pending[s],
           inFlight'[s] \in {inFlight[s], None},
           \A a \in Announcements :
              SpeakerOf[a] = s /\ Fresh(a) /\ (a = inFlight[s] => inFlight'[s] = a)
                => a \in submitted' /\ outcomes'[a] = <<>>
    PROVE  SpeakerInv(s)'
<1>1. NoDuplicates(s)' /\ KeyInv(s)'
  BY DEF NoDuplicates, KeyInv, SpeakerInv
<1>0. WelcomeInv(s)'
  <2>1. WelcomeInv(s)
    BY DEF SpeakerInv
  <2>2. None \notin Announcements
    BY DEF SpeakerManagerAssumption
  <2>. QED  BY <2>1, <2>2 DEF WelcomeInv, Fresh
<1>2. ASSUME NEW c \in Cameras, NEW b, b = pending[s][c], b # None
      PROVE  /\ \E i \in DOMAIN queue[s] : queue[s][i] = c
             /\ CameraOf[b] = c /\ SpeakerOf[b] = s
             /\ b \in submitted' /\ outcomes'[b] = <<>> /\ inFlight'[s] # b
  <2>1. b \in Announcements
    BY <1>2 DEF TypeOK, SpeakerManagerAssumption
  <2>2. /\ \E i \in DOMAIN queue[s] : queue[s][i] = c
        /\ CameraOf[b] = c /\ SpeakerOf[b] = s /\ Fresh(b) /\ inFlight[s] # b
    BY <1>2 DEF SpeakerInv, PendingInv
  <2>3. b \in submitted' /\ outcomes'[b] = <<>>
    BY <2>1, <2>2
  <2>. QED  BY <1>2, <2>2, <2>3
<1>4. PendingInv(s)'
  BY <1>2 DEF PendingInv, Fresh
<1>3. InFlightInv(s)'
  BY DEF InFlightInv, SpeakerInv, TypeOK, Fresh
<1>. QED  BY <1>0, <1>1, <1>3, <1>4 DEF SpeakerInv

LEMMA PendingType ==
    ASSUME TypeOK, SpeakerManagerAssumption, NEW s \in Speakers, NEW c \in Cameras
    PROVE  pending[s][c] # None => pending[s][c] \in ObjectAnnouncements /\
                                   pending[s][c] \in Announcements
<1>1. pending \in [Speakers -> [Cameras -> ObjectAnnouncements \cup {None}]]
  BY DEF TypeOK
<1>2. pending[s] \in [Cameras -> ObjectAnnouncements \cup {None}]
  BY <1>1
<1>3. pending[s][c] \in ObjectAnnouncements \cup {None}
  BY <1>2
<1>. QED  BY <1>3 DEF SpeakerManagerAssumption

(* What a drain resolves waits at its own speaker, fresh, and is not in flight. *)
LEMMA WaitingIsFresh ==
    ASSUME IInv, SpeakerManagerAssumption, NEW S \in SUBSET Speakers, NEW a \in Waiting(S)
    PROVE  a \in Announcements /\ SpeakerOf[a] \in S /\ Fresh(a)
           /\ \A t \in Speakers : inFlight[t] # a
<1>1. PICK s \in S : \E i \in DOMAIN queue[s] : Resolve(s, queue[s][i]) = a
  BY DEF Waiting
<1>2. a \in Announcements /\ a # None
  BY DEF Waiting, SpeakerManagerAssumption
<1>3. SpeakerInv(s)
  BY DEF IInv
<1>4. SpeakerOf[a] = s /\ Fresh(a) /\ inFlight[s] # a
  <2> PICK i \in DOMAIN queue[s] : Resolve(s, queue[s][i]) = a
    BY <1>1
  <2>1. CASE queue[s][i] \in Cameras
    BY <1>2, <1>3, <2>1 DEF Resolve, SpeakerInv, PendingInv
  <2>2. CASE queue[s][i] \notin Cameras
    BY <1>2, <1>3, <2>2 DEF Resolve, SpeakerInv, WelcomeInv
  <2>. QED  BY <2>1, <2>2
<1>5. \A t \in Speakers : inFlight[t] = a => SpeakerOf[a] = t
  BY <1>2 DEF IInv, SpeakerInv, InFlightInv
<1>. QED  BY <1>2, <1>4, <1>5

(* A drained speaker has nothing left, the others keep what they have. *)
LEMMA DrainEmpties ==
    ASSUME IInv, NEW S \in SUBSET Speakers, Drain(S), NEW s \in Speakers
    PROVE  /\ s \in S => queue'[s] = <<>> /\ \A c \in Cameras : pending'[s][c] = None
           /\ s \notin S => queue'[s] = queue[s] /\ pending'[s] = pending[s]
<1>1. SpeakerInv(s) /\ pending \in [Speakers -> [Cameras -> ObjectAnnouncements \cup {None}]]
  BY DEF IInv, TypeOK
<1>2. \A c \in Cameras : pending[s][c] # None => c \in Range(queue[s])
  BY <1>1 DEF SpeakerInv, PendingInv, Range
<1>. QED  BY <1>1, <1>2 DEF Drain, DrainKeys

(* An empty speaker has nothing to violate. *)
LEMMA EmptySpeaker ==
    ASSUME TypeOK', NEW s \in Speakers, SpeakerManagerAssumption,
           \/ queue'[s] = <<>>
           \/ queue'[s] = <<Pill>>,
           \A c \in Cameras : pending'[s][c] = None, InFlightInv(s)'
    PROVE  SpeakerInv(s)'
<1>1. NoDuplicates(s)' /\ WelcomeInv(s)' /\ KeyInv(s)'
  BY DEF NoDuplicates, WelcomeInv, KeyInv, SpeakerManagerAssumption
<1>2. PendingInv(s)'
  BY DEF PendingInv
<1>. QED  BY <1>1, <1>2 DEF SpeakerInv

(* Recording one event for announcements that have none. *)
LEMMA RecordedOnce ==
    ASSUME OneOutcome, TypeOK, NEW A, NEW o \in Outcome, outcomes' = Recorded(A, o),
           \A a \in A \cap Announcements : outcomes[a] = <<>>
    PROVE  /\ OneOutcome'
           /\ \A a \in Announcements \ A : outcomes'[a] = outcomes[a]
BY DEF OneOutcome, Recorded, TypeOK

-----------------------------------------------------------------------------
LEMMA InitIInv == Init => IInv
<1> SUFFICES ASSUME Init PROVE IInv
  OBVIOUS
<1>1. TypeOK
  BY InitTypeOK, SpeakerManagerAssumption
<1>2. \A s \in Speakers : SpeakerInv(s)
  BY SpeakerManagerAssumption
     DEF Init, SpeakerInv, NoDuplicates, WelcomeInv, KeyInv, PendingInv, InFlightInv
<1>3. OneOutcome /\ NewInv /\ PlacesInv
  BY DEF Init, OneOutcome, NewInv, PlacesInv, Tasks
<1>. QED  BY <1>1, <1>2, <1>3 DEF IInv

(* A worker takes the head of its queue: what is left is as good as before,    *)
(* whatever becomes of the announcement it took.                               *)
LEMMA DequeueKeeps ==
    ASSUME IInv, TypeOK', NEW s \in Speakers, Dequeue(s), submitted' = submitted,
           \A b \in Announcements \ {Taken(s)} : outcomes'[b] = outcomes[b],
           inFlight' = inFlight \/ inFlight' = [inFlight EXCEPT ![s] = None]
           \/ (/\ Head(queue[s]) # Pill /\ outcomes' = outcomes
               /\ inFlight' = [inFlight EXCEPT ![s] = Taken(s)])
    PROVE  \A t \in Speakers : SpeakerInv(t)'
<1> USE SpeakerManagerAssumption
<1> DEFINE h == Head(queue[s])  a == Taken(s)
<1>1. /\ SpeakerInv(s) /\ TypeOK /\ queue[s] \in Seq(Entries) /\ queue[s] # <<>>
      /\ h \in Entries /\ 1 \in DOMAIN queue[s] /\ queue[s][1] = h
  BY DEF IInv, Dequeue, TypeOK
<1>2. h # Pill => /\ a \in Announcements /\ SpeakerOf[a] = s /\ Fresh(a)
                  /\ inFlight[s] # a
  <2>1. CASE h \in Cameras
    <3>1. pending[s][h] # None /\ a = pending[s][h]
      BY <1>1, <2>1 DEF SpeakerInv, KeyInv, Taken, Resolve
    <3>2. a \in Announcements
      BY <1>1, <2>1, <3>1, PendingType
    <3>. QED  BY <1>1, <2>1, <3>1, <3>2 DEF SpeakerInv, PendingInv
  <2>2. CASE h \notin Cameras /\ h # Pill
    <3>1. h \in Announcements /\ a = h
      BY <1>1, <2>2 DEF Entries, Taken, Resolve
    <3>. QED  BY <1>1, <2>2, <3>1 DEF SpeakerInv, WelcomeInv
  <2>. QED  BY <2>1, <2>2
<1>3. \A i \in DOMAIN queue'[s] : /\ i + 1 \in DOMAIN queue[s] /\ i + 1 # 1
                                  /\ queue'[s][i] = queue[s][i + 1]
  BY <1>1 DEF Dequeue, TypeOK
<1>4. \A i \in DOMAIN queue[s] : i # 1 => i - 1 \in DOMAIN queue'[s]
                                          /\ queue'[s][i - 1] = queue[s][i]
  BY <1>1 DEF Dequeue, TypeOK
<1>5. /\ \A c \in Cameras \ {h} : pending'[s][c] = pending[s][c]
      /\ h \in Cameras => pending'[s][h] = None
  BY <1>1 DEF Dequeue, Popped, TypeOK
<1>6. \A i \in DOMAIN queue'[s] : queue'[s][i] # Pill => queue'[s][i] # h
  BY <1>1, <1>3 DEF SpeakerInv, NoDuplicates
<1>7. \A b \in Announcements : Fresh(b) /\ b # a => b \in submitted' /\ outcomes'[b] = <<>>
  BY DEF Fresh
<1>8. inFlight'[s] # inFlight[s] /\ inFlight'[s] # None =>
        inFlight'[s] = a /\ h # Pill /\ outcomes' = outcomes
  BY <1>1 DEF TypeOK
<1>9. NoDuplicates(s)'
  BY <1>1, <1>3 DEF SpeakerInv, NoDuplicates, TypeOK
<1>10. WelcomeInv(s)'
  <2> SUFFICES ASSUME NEW i \in DOMAIN queue'[s], NEW b, b = queue'[s][i], b \in Announcements
               PROVE  /\ b \notin ObjectAnnouncements /\ SpeakerOf[b] = s
                      /\ b \in submitted' /\ outcomes'[b] = <<>> /\ inFlight'[s] # b
    BY DEF WelcomeInv, Fresh
  <2>1. b \notin ObjectAnnouncements /\ SpeakerOf[b] = s /\ Fresh(b) /\ inFlight[s] # b
    BY <1>1, <1>3 DEF SpeakerInv, WelcomeInv
  <2>2. b # h /\ b # Pill /\ b # None
    BY <1>6 DEF SpeakerManagerAssumption
  <2>3. h # Pill => b # a
    <3>1. h \in Cameras => pending[s][h] # None
      BY <1>1 DEF SpeakerInv, KeyInv
    <3>2. h \in Cameras => pending[s][h] \in ObjectAnnouncements
      BY <1>1, <3>1, PendingType
    <3>. QED  BY <2>1, <2>2, <3>2 DEF Taken, Resolve
  <2>4. h = Pill => a = Pill
    BY DEF Taken, Resolve, SpeakerManagerAssumption
  <2>5. b # a
    BY <2>2, <2>3, <2>4
  <2>. QED  BY <1>7, <1>8, <2>1, <2>2, <2>5
<1>11. KeyInv(s)'
  BY <1>1, <1>3, <1>5, <1>6 DEF SpeakerInv, KeyInv, SpeakerManagerAssumption
<1>12. PendingInv(s)'
  <2> SUFFICES ASSUME NEW c \in Cameras, NEW b, b = pending'[s][c], b # None
               PROVE  /\ \E i \in DOMAIN queue'[s] : queue'[s][i] = c
                      /\ CameraOf[b] = c /\ SpeakerOf[b] = s
                      /\ b \in submitted' /\ outcomes'[b] = <<>> /\ inFlight'[s] # b
    BY DEF PendingInv, Fresh
  <2>1. c # h /\ b = pending[s][c] /\ b \in ObjectAnnouncements /\ b \in Announcements
    BY <1>1, <1>5, PendingType
  <2>2. /\ CameraOf[b] = c /\ SpeakerOf[b] = s /\ Fresh(b) /\ inFlight[s] # b
        /\ \E i \in DOMAIN queue[s] : queue[s][i] = c
    BY <1>1, <2>1 DEF SpeakerInv, PendingInv
  <2>3. \E i \in DOMAIN queue'[s] : queue'[s][i] = c
    BY <1>1, <1>4, <2>1, <2>2
  <2>4. b # a
    <3>1. CASE h \in Cameras
      <4>1. a = pending[s][h] /\ pending[s][h] # None
        BY <1>1, <3>1 DEF Taken, Resolve, SpeakerInv, KeyInv
      <4>2. CameraOf[a] = h
        BY <1>1, <3>1, <4>1 DEF SpeakerInv, PendingInv
      <4>. QED  BY <2>1, <2>2, <4>2
    <3>2. CASE h \notin Cameras
      <4>1. a = h
        BY <3>2 DEF Taken, Resolve
      <4>2. h \in Announcements => h \notin ObjectAnnouncements
        BY <1>1 DEF SpeakerInv, WelcomeInv
      <4>. QED  BY <2>1, <4>1, <4>2
    <3>. QED  BY <3>1, <3>2
  <2>. QED  BY <1>7, <1>8, <2>1, <2>2, <2>3, <2>4
<1>13. InFlightInv(s)'
  <2>1. CASE inFlight'[s] = None
    BY <2>1 DEF InFlightInv
  <2>2. CASE inFlight'[s] # None /\ inFlight'[s] # inFlight[s]
    BY <1>2, <1>8, <2>2 DEF InFlightInv, Fresh
  <2>3. CASE inFlight'[s] # None /\ inFlight'[s] = inFlight[s]
    <3>1. inFlight[s] \in Announcements /\ SpeakerOf[inFlight[s]] = s /\ Fresh(inFlight[s])
      BY <1>1, <2>3 DEF SpeakerInv, InFlightInv, TypeOK
    <3>2. inFlight[s] # a
      <4>1. h = Pill => a = Pill
        BY DEF Taken, Resolve, SpeakerManagerAssumption
      <4>. QED  BY <1>2, <3>1, <4>1 DEF SpeakerManagerAssumption
    <3>. QED  BY <1>7, <2>3, <3>1, <3>2 DEF InFlightInv, Fresh
  <2>. QED  BY <2>1, <2>2, <2>3
<1>14. SpeakerInv(s)'
  BY <1>9, <1>10, <1>11, <1>12, <1>13 DEF SpeakerInv
<1>15. ASSUME NEW t \in Speakers, t # s  PROVE SpeakerInv(t)'
  <2>1. SpeakerInv(t) /\ queue'[t] = queue[t] /\ pending'[t] = pending[t]
        /\ inFlight'[t] = inFlight[t]
    BY <1>1, <1>15 DEF IInv, Dequeue, Popped, TypeOK
  <2>2. ASSUME NEW b \in Announcements, SpeakerOf[b] = t, Fresh(b)
        PROVE  b \in submitted' /\ outcomes'[b] = <<>>
    <3>1. h = Pill => a = Pill
      BY DEF Taken, Resolve, SpeakerManagerAssumption
    <3>. QED  BY <1>2, <1>7, <1>15, <2>2, <3>1 DEF SpeakerManagerAssumption
  <2>. QED  BY <1>1, <2>1, <2>2, SpeakerUndisturbed
<1>. QED  BY <1>14, <1>15


(* Events are recorded for announcements that are submitted and have none. *)
LEMMA EventsKept ==
    ASSUME OneOutcome, NewInv, TypeOK, submitted \subseteq submitted', NEW A, NEW o \in Outcome,
           outcomes' = Recorded(A, o),
           \A a \in A \cap Announcements : outcomes[a] = <<>> /\ a \in submitted'
    PROVE  OneOutcome' /\ NewInv'
BY DEF OneOutcome, NewInv, Recorded, TypeOK

(* A drain of the speakers in S, recorded together with the announcement that  *)
(* one of their workers puts down.                                             *)
LEMMA DrainKeeps ==
    ASSUME IInv, TypeOK', NEW S \in SUBSET Speakers, Drain(S), submitted' = submitted,
           NEW A, outcomes' = Recorded(Waiting(S) \cup A, "dropped"),
           \A t \in Speakers : inFlight'[t] \in {inFlight[t], None},
           \A a \in A : \E t \in S : a = inFlight[t] /\ a # None /\ inFlight'[t] = None
    PROVE  OneOutcome' /\ NewInv' /\ \A s \in Speakers : SpeakerInv(s)'
<1> USE SpeakerManagerAssumption
<1>1. TypeOK /\ (\A s \in Speakers : SpeakerInv(s)) /\ OneOutcome /\ NewInv
  BY DEF IInv
<1>2. \A a \in Waiting(S) : /\ a \in Announcements /\ SpeakerOf[a] \in S /\ Fresh(a)
                            /\ \A t \in Speakers : inFlight[t] # a
  BY WaitingIsFresh
<1>3. \A a \in A : /\ a \in Announcements /\ SpeakerOf[a] \in S /\ Fresh(a)
                   /\ inFlight'[SpeakerOf[a]] = None
  BY <1>1 DEF SpeakerInv, InFlightInv, TypeOK
<1>4. OneOutcome' /\ NewInv'
  BY <1>1, <1>2, <1>3, EventsKept DEF Fresh, Outcome
<1>5. \A a \in Announcements \ (Waiting(S) \cup A) : outcomes'[a] = outcomes[a]
  BY DEF Recorded
<1>6. ASSUME NEW s \in Speakers, s \notin S  PROVE SpeakerInv(s)'
  <2>1. queue'[s] = queue[s] /\ pending'[s] = pending[s]
    BY <1>6, DrainEmpties
  <2>2. ASSUME NEW a \in Announcements, SpeakerOf[a] = s, Fresh(a)
        PROVE  a \in submitted' /\ outcomes'[a] = <<>>
    <3>1. a \notin Waiting(S) /\ a \notin A
      BY <1>2, <1>3, <1>6, <2>2
    <3>. QED  BY <1>5, <2>2, <3>1 DEF Fresh
  <2>. QED  BY <1>1, <2>1, <2>2, SpeakerUndisturbed
<1>7. ASSUME NEW s \in S  PROVE SpeakerInv(s)'
  <2>1. queue'[s] = <<>> /\ \A c \in Cameras : pending'[s][c] = None
    BY <1>7, DrainEmpties
  <2>2. InFlightInv(s)'
    <3> SUFFICES ASSUME NEW b, b = inFlight'[s], b # None
                 PROVE  SpeakerOf[b] = s /\ b \in submitted' /\ outcomes'[b] = <<>>
      BY DEF InFlightInv, Fresh
    <3>1. b = inFlight[s] /\ b \in Announcements /\ SpeakerOf[b] = s /\ Fresh(b)
      BY <1>1, <1>7 DEF SpeakerInv, InFlightInv, TypeOK
    <3>2. b \notin Waiting(S) /\ b \notin A
      BY <1>2, <1>3, <1>7, <3>1
    <3>. QED  BY <1>5, <3>1, <3>2 DEF Fresh
  <2>. QED  BY <2>1, <2>2, EmptySpeaker
<1>. QED  BY <1>4, <1>6, <1>7

(* A queue gets the pill of a stop. *)
LEMMA SendPillKeeps ==
    ASSUME IInv, TypeOK', NEW s \in Speakers, SendPill(s)
    PROVE  \A t \in Speakers : SpeakerInv(t)'
<1> USE SpeakerManagerAssumption
<1>1. TypeOK /\ (\A t \in Speakers : SpeakerInv(t)) /\ UNCHANGED <<pending, tasks, ledger>>
  BY DEF IInv, SendPill
<1>2. \A a \in Announcements : Fresh(a) => a \in submitted' /\ outcomes'[a] = <<>>
  BY <1>1 DEF ledger, Fresh
<1>3. ASSUME NEW t \in Speakers, queue'[t] = queue[t]  PROVE SpeakerInv(t)'
  BY <1>1, <1>2, <1>3, SpeakerUndisturbed DEF tasks
<1>4. ASSUME queue' = [queue EXCEPT ![s] = Append(@, Pill)]  PROVE SpeakerInv(s)'
  <2>1. queue'[s] = Append(queue[s], Pill) /\ queue[s] \in Seq(Entries)
    BY <1>1, <1>4 DEF TypeOK
  <2>2. \A i \in DOMAIN queue[s] : i \in DOMAIN queue'[s] /\ queue'[s][i] = queue[s][i]
    BY <2>1
  <2>3. \A i \in DOMAIN queue'[s] : queue'[s][i] # Pill =>
          i \in DOMAIN queue[s] /\ queue'[s][i] = queue[s][i]
    BY <2>1
  <2>4. NoDuplicates(s)' /\ WelcomeInv(s)' /\ KeyInv(s)'
    BY <1>1, <2>3
       DEF SpeakerInv, NoDuplicates, WelcomeInv, KeyInv, Fresh, tasks, ledger,
           SpeakerManagerAssumption
  <2>5. PendingInv(s)' /\ InFlightInv(s)'
    BY <1>1, <2>2 DEF SpeakerInv, PendingInv, InFlightInv, Fresh, tasks, ledger
  <2>. QED  BY <2>4, <2>5 DEF SpeakerInv
<1>. QED
  <2>1. queue' = queue \/ queue' = [queue EXCEPT ![s] = Append(@, Pill)]
    BY DEF SendPill
  <2>2. \A t \in Speakers \ {s} : queue'[t] = queue[t]
    BY <1>1, <2>1 DEF TypeOK
  <2>. QED  BY <1>3, <1>4, <2>1, <2>2


(* A newer object announcement takes the place of the pending one. *)
LEMMA SubmitCoalescedKeeps ==
    ASSUME IInv, TypeOK', NEW a \in Announcements, SubmitCoalesced(a)
    PROVE  OneOutcome' /\ NewInv' /\ \A s \in Speakers : SpeakerInv(s)'
<1> USE SpeakerManagerAssumption
<1> DEFINE s == SpeakerOf[a]  c == CameraOf[a]  b == pending[s][c]
<1>1. /\ TypeOK /\ OneOutcome /\ NewInv /\ \A t \in Speakers : SpeakerInv(t)
      /\ s \in Speakers /\ c \in Cameras /\ a \notin submitted
  BY DEF IInv, SubmitCoalesced, MaySubmit, SpeakerManagerAssumption
<1>2. a \in ObjectAnnouncements /\ b \in Announcements /\ b # None /\ Superseded(a) = {b}
  <2>1. a \in ObjectAnnouncements /\ \E x \in Announcements : x = b
    BY DEF SubmitCoalesced, Superseded
  <2>. QED  BY <2>1 DEF Superseded, SpeakerManagerAssumption
<1>3. /\ CameraOf[b] = c /\ SpeakerOf[b] = s /\ Fresh(b) /\ inFlight[s] # b
      /\ \E i \in DOMAIN queue[s] : queue[s][i] = c
  BY <1>1, <1>2 DEF SpeakerInv, PendingInv
<1>4. /\ queue' = queue /\ inFlight' = inFlight /\ submitted' = submitted \cup {a}
      /\ pending'[s][c] = a
      /\ \A t \in Speakers, d \in Cameras : t # s \/ d # c => pending'[t][d] = pending[t][d]
  BY <1>1 DEF SubmitCoalesced, TypeOK, tasks
<1>5. outcomes' = Recorded({b}, "superseded")
  BY <1>2 DEF SubmitCoalesced
<1>6. OneOutcome' /\ NewInv'
  BY <1>1, <1>2, <1>3, <1>4, <1>5, EventsKept DEF Fresh, Outcome
<1>7. \A x \in Announcements : Fresh(x) /\ x # b => x \in submitted' /\ outcomes'[x] = <<>>
  BY <1>4, <1>5 DEF Fresh, Recorded
<1>8. outcomes'[a] = <<>> /\ a # b /\ inFlight[s] # a
  <2>1. a # b /\ outcomes[a] = <<>>
    BY <1>1, <1>3 DEF Fresh, NewInv
  <2>2. inFlight[s] # a
    BY <1>1 DEF SpeakerInv, InFlightInv, Fresh, SpeakerManagerAssumption
  <2>. QED  BY <1>5, <2>1, <2>2 DEF Recorded
<1>9. ASSUME NEW t \in Speakers, t # s  PROVE SpeakerInv(t)'
  <2>1. pending'[t] = pending[t]
    BY <1>1, <1>9 DEF SubmitCoalesced, TypeOK
  <2>2. \A x \in Announcements : SpeakerOf[x] = t /\ Fresh(x)
                                   => x \in submitted' /\ outcomes'[x] = <<>>
    BY <1>3, <1>7, <1>9
  <2>. QED  BY <1>1, <1>4, <2>1, <2>2, SpeakerUndisturbed
<1>10. NoDuplicates(s)' /\ KeyInv(s)'
  BY <1>1, <1>2, <1>4 DEF SpeakerInv, NoDuplicates, KeyInv, SpeakerManagerAssumption
<1>11. WelcomeInv(s)'
  <2> SUFFICES ASSUME NEW i \in DOMAIN queue[s], NEW x, x = queue[s][i], x \in Announcements
               PROVE  /\ x \notin ObjectAnnouncements /\ SpeakerOf[x] = s
                      /\ x \in submitted' /\ outcomes'[x] = <<>> /\ inFlight[s] # x
    BY <1>4 DEF WelcomeInv, Fresh
  <2>1. x \notin ObjectAnnouncements /\ SpeakerOf[x] = s /\ Fresh(x) /\ inFlight[s] # x
    BY <1>1 DEF SpeakerInv, WelcomeInv
  <2>2. b \in ObjectAnnouncements
    BY <1>1, <1>2, PendingType
  <2>. QED  BY <1>7, <2>1, <2>2
<1>12. PendingInv(s)'
  <2> SUFFICES ASSUME NEW d \in Cameras, NEW x, x = pending'[s][d], x # None
               PROVE  /\ \E i \in DOMAIN queue[s] : queue[s][i] = d
                      /\ CameraOf[x] = d /\ SpeakerOf[x] = s
                      /\ x \in submitted' /\ outcomes'[x] = <<>> /\ inFlight[s] # x
    BY <1>4 DEF PendingInv, Fresh
  <2>1. CASE d = c
    BY <1>3, <1>4, <1>8, <2>1
  <2>2. CASE d # c
    <3>1. x = pending[s][d] /\ x \in Announcements
      BY <1>1, <1>4, <2>2, PendingType
    <3>2. /\ CameraOf[x] = d /\ SpeakerOf[x] = s /\ Fresh(x) /\ inFlight[s] # x
          /\ \E i \in DOMAIN queue[s] : queue[s][i] = d
      BY <1>1, <3>1 DEF SpeakerInv, PendingInv
    <3>. QED  BY <1>3, <1>7, <2>2, <3>1, <3>2
  <2>. QED  BY <2>1, <2>2
<1>13. InFlightInv(s)'
  <2> SUFFICES ASSUME NEW x, x = inFlight[s], x # None
               PROVE  SpeakerOf[x] = s /\ x \in submitted' /\ outcomes'[x] = <<>>
    BY <1>4 DEF InFlightInv, Fresh
  <2>1. x \in Announcements /\ SpeakerOf[x] = s /\ Fresh(x)
    BY <1>1 DEF SpeakerInv, InFlightInv, TypeOK
  <2>. QED  BY <1>3, <1>7, <2>1
<1>. QED
  <2>1. SpeakerInv(s)'
    BY <1>10, <1>11, <1>12, <1>13 DEF SpeakerInv
  <2>. QED  BY <1>6, <1>9, <2>1


(* An announcement takes a place of its own at the end of the queue. *)
LEMMA SubmitQueuedKeeps ==
    ASSUME IInv, TypeOK', NEW a \in Announcements, SubmitQueued(a)
    PROVE  OneOutcome' /\ NewInv' /\ \A s \in Speakers : SpeakerInv(s)'
<1> USE SpeakerManagerAssumption
<1> DEFINE s == SpeakerOf[a]  e == EntryOf(a)
<1>1. /\ TypeOK /\ OneOutcome /\ NewInv /\ \A t \in Speakers : SpeakerInv(t)
      /\ s \in Speakers /\ CameraOf[a] \in Cameras /\ a \notin submitted /\ a # None
  BY DEF IInv, SubmitQueued, MaySubmit, SpeakerManagerAssumption
<1>2. /\ queue' = [queue EXCEPT ![s] = Append(@, e)] /\ inFlight' = inFlight
      /\ submitted' = submitted \cup {a} /\ outcomes' = outcomes
  BY DEF SubmitQueued, tasks
<1>3. queue'[s] = Append(queue[s], e) /\ queue[s] \in Seq(Entries)
  BY <1>1, <1>2 DEF TypeOK
<1>4. OneOutcome' /\ NewInv'
  BY <1>1, <1>2 DEF OneOutcome, NewInv
<1>5. \A x \in Announcements : Fresh(x) => x \in submitted' /\ outcomes'[x] = <<>>
  BY <1>2 DEF Fresh
<1>6. a \in submitted' /\ outcomes'[a] = <<>> /\ inFlight[s] # a
  BY <1>1, <1>2 DEF NewInv, SpeakerInv, InFlightInv, Fresh
<1>7. ASSUME NEW t \in Speakers, t # s  PROVE SpeakerInv(t)'
  <2>1. queue'[t] = queue[t] /\ pending'[t] = pending[t] /\ inFlight'[t] = inFlight[t]
    BY <1>1, <1>2, <1>7 DEF SubmitQueued, TypeOK
  <2>. QED  BY <1>1, <1>5, <2>1, SpeakerUndisturbed
<1>8. \A i \in DOMAIN queue'[s] : \/ i \in DOMAIN queue[s] /\ queue'[s][i] = queue[s][i]
                                  \/ i = Len(queue[s]) + 1 /\ queue'[s][i] = e
  BY <1>3
<1>9. \A i \in DOMAIN queue[s] : i \in DOMAIN queue'[s] /\ queue'[s][i] = queue[s][i]
  BY <1>3
<1>10. Len(queue[s]) + 1 \in DOMAIN queue'[s] /\ queue'[s][Len(queue[s]) + 1] = e
  BY <1>3 DEF EntryOf, Entries, SpeakerManagerAssumption
<1>11. a \in ObjectAnnouncements => e \in Cameras /\ e = CameraOf[a] /\ pending[s][e] = None
  <2> SUFFICES ASSUME a \in ObjectAnnouncements, pending[s][CameraOf[a]] # None
               PROVE  FALSE
    BY <1>1 DEF EntryOf
  <2>1. pending[s][CameraOf[a]] \in Announcements
    BY <1>1, PendingType
  <2>. QED  BY <2>1 DEF SubmitQueued, Superseded
<1>12. a \notin ObjectAnnouncements => e = a
  BY DEF EntryOf
<1>13. \A i \in DOMAIN queue[s] : queue[s][i] # e
  <2>1. CASE a \in ObjectAnnouncements
    BY <1>1, <1>11, <2>1 DEF SpeakerInv, KeyInv
  <2>2. CASE a \notin ObjectAnnouncements
    BY <1>1, <1>12, <2>2 DEF SpeakerInv, WelcomeInv, Fresh
  <2>. QED  BY <2>1, <2>2
<1>14. /\ \A d \in Cameras : d # e => pending'[s][d] = pending[s][d]
       /\ e \in Cameras => a \in ObjectAnnouncements /\ pending'[s][e] = a
  <2>1. CASE a \in ObjectAnnouncements
    BY <1>1, <1>11, <2>1 DEF SubmitQueued, TypeOK
  <2>2. CASE a \notin ObjectAnnouncements
    BY <1>1, <1>12, <2>2 DEF SubmitQueued, SpeakerManagerAssumption
  <2>. QED  BY <2>1, <2>2
<1>15. NoDuplicates(s)'
  BY <1>1, <1>8, <1>13 DEF SpeakerInv, NoDuplicates
<1>16. KeyInv(s)'
  BY <1>1, <1>8, <1>13, <1>14 DEF SpeakerInv, KeyInv
<1>17. WelcomeInv(s)'
  <2> SUFFICES ASSUME NEW i \in DOMAIN queue'[s], NEW x, x = queue'[s][i], x \in Announcements
               PROVE  /\ x \notin ObjectAnnouncements /\ SpeakerOf[x] = s
                      /\ x \in submitted' /\ outcomes'[x] = <<>> /\ inFlight[s] # x
    BY <1>2 DEF WelcomeInv, Fresh
  <2>1. CASE i \in DOMAIN queue[s] /\ x = queue[s][i]
    <3>1. x \notin ObjectAnnouncements /\ SpeakerOf[x] = s /\ Fresh(x) /\ inFlight[s] # x
      BY <1>1, <2>1 DEF SpeakerInv, WelcomeInv
    <3>. QED  BY <1>5, <3>1
  <2>2. CASE x = e
    <3>1. a \notin ObjectAnnouncements
      BY <1>11, <2>2 DEF SpeakerManagerAssumption
    <3>. QED  BY <1>6, <1>12, <2>2, <3>1
  <2>. QED  BY <1>8, <2>1, <2>2
<1>18. PendingInv(s)'
  <2> SUFFICES ASSUME NEW d \in Cameras, NEW x, x = pending'[s][d], x # None
               PROVE  /\ \E i \in DOMAIN queue'[s] : queue'[s][i] = d
                      /\ CameraOf[x] = d /\ SpeakerOf[x] = s
                      /\ x \in submitted' /\ outcomes'[x] = <<>> /\ inFlight[s] # x
    BY <1>2 DEF PendingInv, Fresh
  <2>1. CASE d = e
    BY <1>6, <1>10, <1>11, <1>14, <2>1
  <2>2. CASE d # e
    <3>1. x = pending[s][d] /\ x \in Announcements
      BY <1>1, <1>14, <2>2, PendingType
    <3>2. /\ CameraOf[x] = d /\ SpeakerOf[x] = s /\ Fresh(x) /\ inFlight[s] # x
          /\ \E i \in DOMAIN queue[s] : queue[s][i] = d
      BY <1>1, <3>1 DEF SpeakerInv, PendingInv
    <3>. QED  BY <1>5, <1>9, <3>1, <3>2
  <2>. QED  BY <2>1, <2>2
<1>19. InFlightInv(s)'
  <2> SUFFICES ASSUME NEW x, x = inFlight[s], x # None
               PROVE  SpeakerOf[x] = s /\ x \in submitted' /\ outcomes'[x] = <<>>
    BY <1>2 DEF InFlightInv, Fresh
  <2>1. x \in Announcements /\ SpeakerOf[x] = s /\ Fresh(x)
    BY <1>1 DEF SpeakerInv, InFlightInv, TypeOK
  <2>. QED  BY <1>5, <2>1
<1>. QED
  <2>1. SpeakerInv(s)'
    BY <1>15, <1>16, <1>17, <1>18, <1>19 DEF SpeakerInv
  <2>. QED  BY <1>4, <1>7, <2>1


(* A worker puts down what it had in hand, with an event or without. *)
LEMMA FinishKeeps ==
    ASSUME IInv, TypeOK', NEW s \in Speakers, UNCHANGED <<queues, submitted>>,
           inFlight' = [inFlight EXCEPT ![s] = None],
           outcomes' = outcomes \/ \E o \in Outcome : outcomes' = Recorded({inFlight[s]}, o)
    PROVE  OneOutcome' /\ NewInv' /\ \A t \in Speakers : SpeakerInv(t)'
<1> USE SpeakerManagerAssumption
<1>1. TypeOK /\ OneOutcome /\ NewInv /\ \A t \in Speakers : SpeakerInv(t)
  BY DEF IInv
<1>2. \A t \in Speakers : inFlight[t] \in Announcements =>
        SpeakerOf[inFlight[t]] = t /\ Fresh(inFlight[t])
  BY <1>1 DEF SpeakerInv, InFlightInv, SpeakerManagerAssumption
<1>3. OneOutcome' /\ NewInv'
  <2>1. CASE outcomes' = outcomes
    BY <1>1, <2>1 DEF OneOutcome, NewInv
  <2>2. CASE \E o \in Outcome : outcomes' = Recorded({inFlight[s]}, o)
    BY <1>1, <1>2, <2>2, EventsKept DEF Fresh
  <2>. QED  BY <2>1, <2>2
<1>4. \A a \in Announcements \ {inFlight[s]} : outcomes'[a] = outcomes[a]
  BY DEF Recorded
<1>5. ASSUME NEW t \in Speakers  PROVE SpeakerInv(t)'
  <2>1. /\ queue'[t] = queue[t] /\ pending'[t] = pending[t]
        /\ inFlight'[t] = IF t = s THEN None ELSE inFlight[t]
    BY <1>1 DEF queues, TypeOK
  <2>2. ASSUME NEW a \in Announcements, SpeakerOf[a] = t, Fresh(a),
               a = inFlight[t] => inFlight'[t] = a
        PROVE  a \in submitted' /\ outcomes'[a] = <<>>
    <3>1. a # inFlight[s]
      BY <1>2, <2>1, <2>2 DEF SpeakerManagerAssumption
    <3>. QED  BY <1>4, <2>2, <3>1 DEF Fresh
  <2>. QED  BY <1>1, <2>1, <2>2, SpeakerUndisturbed
<1>. QED  BY <1>3, <1>5

(* Nothing that is announced changes. *)
LEMMA UnchangedKeeps ==
    ASSUME IInv, TypeOK', UNCHANGED <<queues, inFlight, submitted, outcomes>>
    PROVE  OneOutcome' /\ NewInv' /\ \A s \in Speakers : SpeakerInv(s)'
<1> USE SpeakerManagerAssumption
<1>1. TypeOK /\ OneOutcome /\ NewInv /\ \A s \in Speakers : SpeakerInv(s)
  BY DEF IInv
<1>2. \A a \in Announcements : Fresh(a) => a \in submitted' /\ outcomes'[a] = <<>>
  BY DEF Fresh
<1>3. \A s \in Speakers : SpeakerInv(s)'
  BY <1>1, <1>2, SpeakerUndisturbed DEF queues
<1>. QED  BY <1>1, <1>3 DEF OneOutcome, NewInv

(* Every queue is emptied or left with a pill, and no worker changes. *)
LEMMA EmptyKeeps ==
    ASSUME IInv, TypeOK', UNCHANGED <<inFlight, submitted>>,
           NEW A, \A a \in A : a \in Announcements /\ Fresh(a)
                               /\ \A t \in Speakers : inFlight[t] # a,
           outcomes' = outcomes \/ outcomes' = Recorded(A, "dropped"),
           \A s \in Speakers : queue'[s] \in {<<>>, <<Pill>>},
           \A s \in Speakers, c \in Cameras : pending'[s][c] = None
    PROVE  OneOutcome' /\ NewInv' /\ \A s \in Speakers : SpeakerInv(s)'
<1> USE SpeakerManagerAssumption
<1>1. TypeOK /\ OneOutcome /\ NewInv /\ \A s \in Speakers : SpeakerInv(s)
  BY DEF IInv
<1>2. OneOutcome' /\ NewInv'
  <2>1. CASE outcomes' = outcomes
    BY <1>1, <2>1 DEF OneOutcome, NewInv
  <2>2. CASE outcomes' = Recorded(A, "dropped")
    BY <1>1, <2>2, EventsKept DEF Fresh, Outcome
  <2>. QED  BY <2>1, <2>2
<1>3. ASSUME NEW s \in Speakers  PROVE InFlightInv(s)'
  <2> SUFFICES ASSUME NEW b, b = inFlight[s], b # None
               PROVE  SpeakerOf[b] = s /\ b \in submitted' /\ outcomes'[b] = <<>>
    BY DEF InFlightInv, Fresh
  <2>1. b \in Announcements /\ SpeakerOf[b] = s /\ Fresh(b) /\ b \notin A
    BY <1>1 DEF SpeakerInv, InFlightInv, TypeOK
  <2>. QED  BY <2>1 DEF Fresh, Recorded
<1>4. \A s \in Speakers : SpeakerInv(s)'
  BY <1>3, EmptySpeaker
<1>. QED  BY <1>2, <1>4


(* Workers and queues exist for installed speakers only. *)
LEMMA PlacesKept ==
    ASSUME IInv, [Next]_vars
    PROVE  PlacesInv'
<1> USE SpeakerManagerAssumption DEF gates, queues, tasks, calls, store, ledger
<1>0. TypeOK /\ PlacesInv
  BY DEF IInv
<1>1. CASE Start
  BY <1>0, <1>1 DEF Start, PlacesInv, Tasks, TypeOK
<1>2. CASE Stop
  BY <1>0, <1>2 DEF Stop, PlacesInv, Tasks
<1>3. CASE BeginReplace
  BY <1>0, <1>3 DEF BeginReplace, PlacesInv, Tasks, TypeOK
<1>4. ASSUME NEW s \in Speakers, SendPill(s)  PROVE PlacesInv'
  BY <1>0, <1>4 DEF SendPill, PlacesInv, Tasks, TypeOK
<1>5. CASE StopReturns
  BY <1>0, <1>5 DEF StopReturns, PlacesInv, Tasks, TypeOK
<1>6. ASSUME NEW S \in SUBSET Speakers, NEW A \in SUBSET S, FinishReplace(S, A) \/ ReplaceIdle(S, A)
      PROVE  PlacesInv'
  BY <1>0, <1>6 DEF FinishReplace, ReplaceIdle, Install, PlacesInv, Tasks, TypeOK
<1>7. ASSUME NEW S, Drain(S), UNCHANGED <<installed, pillsDue>>, Tasks' = Tasks  PROVE PlacesInv'
  BY <1>0, <1>7 DEF Drain, PlacesInv
<1>8. ASSUME UNCHANGED <<installed, pillsDue, queue>>, Tasks' = Tasks  PROVE PlacesInv'
  BY <1>0, <1>8 DEF PlacesInv
<1>9. ASSUME NEW A \in SUBSET Speakers, SetAvailableIds(A)  PROVE PlacesInv'
  BY <1>7, <1>9 DEF SetAvailableIds, Tasks
<1>10. ASSUME NEW newAuth \in AuthStates, SetAuthStatus(newAuth)  PROVE PlacesInv'
  BY <1>7, <1>8, <1>10 DEF SetAuthStatus, ApplyAuth, Tasks
<1>11. ASSUME NEW a \in Announcements, Submit(a)  PROVE PlacesInv'
  <2>1. CASE SubmitRefused(a) \/ SubmitCoalesced(a)
    BY <1>8, <2>1 DEF SubmitRefused, SubmitCoalesced, Tasks
  <2>2. CASE SubmitQueued(a)
    BY <1>0, <2>2 DEF SubmitQueued, Takes, PlacesInv, Tasks, TypeOK, SpeakerManagerAssumption
  <2>. QED  BY <1>11, <2>1, <2>2 DEF Submit
<1>12. ASSUME NEW s \in Speakers, WorkerStep(s)  PROVE PlacesInv'
  <2>1. Tasks' = Tasks
    BY <1>0, <1>12
       DEF WorkerStep, TakePill, Skip, StartSpeaking, SpeechReturns, SpeechRejected,
           NotifyReturns, Crash, ReportCrash, Dequeue, Goto, Tasks, TypeOK
  <2>2. UNCHANGED <<installed, pillsDue>>
    BY <1>12
       DEF WorkerStep, TakePill, Skip, StartSpeaking, SpeechReturns, SpeechRejected,
           NotifyReturns, Crash, ReportCrash, ApplyAuth
  <2>3. CASE Dequeue(s)
    BY <1>0, <2>1, <2>2, <2>3 DEF Dequeue, PlacesInv, TypeOK
  <2>4. CASE Drain(installed)
    BY <1>7, <2>1, <2>2, <2>4
  <2>5. CASE queue' = queue
    BY <1>8, <2>1, <2>2, <2>5
  <2>. QED
    BY <1>12, <2>3, <2>4, <2>5
       DEF WorkerStep, TakePill, Skip, StartSpeaking, SpeechReturns, SpeechRejected,
           NotifyReturns, Crash, ReportCrash, ApplyAuth
<1>13. ASSUME NEW c \in Cameras, NEW r \in Rules, SwitchRule(c, r)  PROVE PlacesInv'
  BY <1>8, <1>13 DEF SwitchRule, Tasks
<1>14. ASSUME NEW c \in Cameras, NEW s \in Speakers, Pair(c, s)  PROVE PlacesInv'
  BY <1>8, <1>14 DEF Pair, Tasks
<1>15. ASSUME NEW a \in ObjectAnnouncements, Age(a)  PROVE PlacesInv'
  BY <1>8, <1>15 DEF Age, Tasks
<1>16. CASE UNCHANGED vars
  BY <1>8, <1>16 DEF vars, Tasks
<1>. QED
  BY <1>1, <1>2, <1>3, <1>4, <1>5, <1>6, <1>9, <1>10, <1>11, <1>12, <1>13, <1>14,
     <1>15, <1>16 DEF Next, CallStep


-----------------------------------------------------------------------------
LEMMA NextIInv ==
    ASSUME IInv, [Next]_vars
    PROVE  IInv'
<1> USE SpeakerManagerAssumption DEF gates, tasks, calls, store, ledger
<1> DEFINE Goal == OneOutcome' /\ NewInv' /\ \A s \in Speakers : SpeakerInv(s)'
<1>0. TypeOK /\ TypeOK' /\ PlacesInv' /\ \A s \in Speakers : SpeakerInv(s)
  BY NextTypeOK, PlacesKept DEF IInv
<1>1. ASSUME UNCHANGED <<queues, inFlight, submitted, outcomes>>  PROVE Goal
  BY <1>0, <1>1, UnchangedKeeps
<1>2. ASSUME Start \/ Stop \/ StopReturns  PROVE Goal
  BY <1>1, <1>2 DEF Start, Stop, StopReturns
<1>3. ASSUME BeginReplace  PROVE Goal
  <2>1. \A s \in Speakers : queue'[s] \in {<<>>, <<Pill>>}
    BY <1>3 DEF BeginReplace
  <2>2. ASSUME NEW s \in Speakers, NEW c \in Cameras  PROVE pending'[s][c] = None
    <3>1. pending[s][c] # None => \E i \in DOMAIN queue[s] : queue[s][i] = c
      BY <1>0 DEF SpeakerInv, PendingInv
    <3>2. s \notin installed => queue[s] = <<>>
      BY DEF IInv, PlacesInv
    <3>. QED  BY <1>3, <3>1, <3>2 DEF BeginReplace, DrainKeys, Range
  <2>3. \A a \in Waiting(installed) : a \in Announcements /\ Fresh(a)
                                      /\ \A t \in Speakers : inFlight[t] # a
    BY <1>0, WaitingIsFresh DEF TypeOK
  <2>. QED  BY <1>0, <1>3, <2>1, <2>2, <2>3, EmptyKeeps DEF BeginReplace
<1>4. ASSUME NEW S \in SUBSET Speakers, NEW A \in SUBSET S, FinishReplace(S, A) \/ ReplaceIdle(S, A)
      PROVE  Goal
  <2>1. /\ \A s \in Speakers : queue'[s] \in {<<>>, <<Pill>>}
        /\ \A s \in Speakers, c \in Cameras : pending'[s][c] = None
        /\ UNCHANGED <<inFlight, submitted, outcomes>>
    BY <1>4 DEF FinishReplace, ReplaceIdle, Install
  <2>. QED  BY <1>0, <2>1, EmptyKeeps
<1>5. ASSUME NEW s \in Speakers, SendPill(s)  PROVE Goal
  <2>1. OneOutcome' /\ NewInv'
    BY <1>5 DEF SendPill, IInv, OneOutcome, NewInv
  <2>. QED  BY <1>0, <1>5, <2>1, SendPillKeeps
<1>6. ASSUME NEW A \in SUBSET Speakers, SetAvailableIds(A)  PROVE Goal
  <2> DEFINE S == available \ Known(A)
  <2>1. /\ Drain(S) /\ S \in SUBSET Speakers
        /\ outcomes' = Recorded(Waiting(S) \cup {}, "dropped")
        /\ UNCHANGED <<inFlight, submitted>>
    BY <1>0, <1>6 DEF SetAvailableIds, Known, TypeOK
  <2>. QED  BY <1>0, <2>1, DrainKeeps
<1>7. ASSUME NEW newAuth \in AuthStates, SetAuthStatus(newAuth)  PROVE Goal
  <2>1. CASE newAuth = "reauth_required"
    <3>1. /\ Drain(installed) /\ installed \in SUBSET Speakers
          /\ outcomes' = Recorded(Waiting(installed) \cup {}, "dropped")
          /\ UNCHANGED <<inFlight, submitted>>
      BY <1>0, <1>7, <2>1 DEF SetAuthStatus, ApplyAuth, TypeOK
    <3>. QED  BY <1>0, <3>1, DrainKeeps
  <2>2. CASE newAuth # "reauth_required"
    BY <1>1, <1>7, <2>2 DEF SetAuthStatus, ApplyAuth
  <2>. QED  BY <2>1, <2>2
<1>8. ASSUME NEW a \in Announcements, Submit(a)  PROVE Goal
  <2>1. CASE SubmitRefused(a)
    <3>1. OneOutcome' /\ NewInv'
      <4>1. OneOutcome /\ NewInv /\ submitted' = submitted \cup {a} /\ outcomes[a] = <<>>
        BY <2>1 DEF SubmitRefused, MaySubmit, IInv, NewInv
      <4>2. CASE outcomes' = outcomes
        BY <4>1, <4>2 DEF OneOutcome, NewInv
      <4>3. CASE outcomes' = Recorded({a}, "dropped")
        BY <1>0, <4>1, <4>3, EventsKept DEF Outcome
      <4>. QED  BY <2>1, <4>2, <4>3 DEF SubmitRefused
    <3>2. \A x \in Announcements : Fresh(x) => x \in submitted' /\ outcomes'[x] = <<>>
      BY <2>1 DEF SubmitRefused, MaySubmit, Fresh, Recorded
    <3>3. UNCHANGED <<queue, pending, inFlight>>
      BY <2>1 DEF SubmitRefused, queues
    <3>. QED  BY <1>0, <3>1, <3>2, <3>3, SpeakerUndisturbed
  <2>2. CASE SubmitCoalesced(a)
    BY <1>0, <2>2, SubmitCoalescedKeeps
  <2>3. CASE SubmitQueued(a)
    BY <1>0, <2>3, SubmitQueuedKeeps
  <2>. QED  BY <1>8, <2>1, <2>2, <2>3 DEF Submit
<1>9. ASSUME NEW s \in Speakers, WorkerStep(s)  PROVE Goal
  <2>1. CASE TakePill(s) \/ StartSpeaking(s) \/ (Crash(s) /\ Dequeue(s))
    <3>1. /\ Dequeue(s) /\ UNCHANGED <<submitted, outcomes>>
          /\ \/ inFlight' = [inFlight EXCEPT ![s] = None]
             \/ /\ Head(queue[s]) # Pill
                /\ inFlight' = [inFlight EXCEPT ![s] = Taken(s)]
      BY <2>1 DEF TakePill, StartSpeaking, Crash, Goto
    <3>2. OneOutcome' /\ NewInv'
      BY <3>1 DEF IInv, OneOutcome, NewInv
    <3>. QED  BY <1>0, <3>1, <3>2, DequeueKeeps
  <2>2. CASE Skip(s)
    <3>1. /\ Dequeue(s) /\ outcomes' = Recorded({Taken(s)}, "dropped")
          /\ UNCHANGED <<submitted, inFlight>>
      BY <2>2 DEF Skip
    <3>2. Taken(s) \in Announcements => Fresh(Taken(s))
      <4>1. queue[s] \in Seq(Entries) /\ queue[s] # <<>> /\ Head(queue[s]) = queue[s][1]
            /\ 1 \in DOMAIN queue[s] /\ SpeakerInv(s)
        BY <1>0, <3>1 DEF Dequeue, TypeOK
      <4>2. CASE Head(queue[s]) \in Cameras
        BY <4>1, <4>2 DEF Taken, Resolve, SpeakerInv, KeyInv, PendingInv
      <4>3. CASE Head(queue[s]) \notin Cameras
        BY <4>1, <4>3 DEF Taken, Resolve, SpeakerInv, WelcomeInv
      <4>. QED  BY <4>2, <4>3
    <3>3. OneOutcome' /\ NewInv'
      BY <1>0, <3>1, <3>2, EventsKept DEF IInv, Fresh, Outcome
    <3>4. \A b \in Announcements \ {Taken(s)} : outcomes'[b] = outcomes[b]
      BY <3>1 DEF Recorded
    <3>. QED  BY <1>0, <3>1, <3>3, <3>4, DequeueKeeps
  <2>3. CASE SpeechReturns(s) \/ NotifyReturns(s) \/ (Crash(s) /\ UNCHANGED queues)
             \/ ReportCrash(s)
    <3>1. /\ inFlight' = [inFlight EXCEPT ![s] = None] /\ UNCHANGED <<queues, submitted>>
          /\ outcomes' = outcomes \/ \E o \in Outcome : outcomes' = Recorded({inFlight[s]}, o)
      BY <2>3 DEF SpeechReturns, NotifyReturns, Crash, ReportCrash, Goto, Outcome
    <3>. QED  BY <1>0, <3>1, FinishKeeps
  <2>4. CASE SpeechRejected(s)
    <3>1. Drain(installed) /\ submitted' = submitted /\ s \in installed
          /\ installed \in SUBSET Speakers
      BY <1>0, <2>4 DEF SpeechRejected, ApplyAuth, IInv, PlacesInv, Tasks, TypeOK
    <3>2. CASE auth = "reauth_required"
      <4>1. CASE inFlight[s] = None
        <5>1. outcomes' = Recorded(Waiting(installed) \cup {}, "dropped") /\ inFlight' = inFlight
          BY <1>0, <2>4, <3>2, <4>1
             DEF SpeechRejected, ApplyAuth, Goto, Recorded, TypeOK, SpeakerManagerAssumption
        <5>. QED  BY <1>0, <3>1, <5>1, DrainKeeps
      <4>2. CASE inFlight[s] # None
        <5> PICK A : A = {inFlight[s]}
          OBVIOUS
        <5>1. /\ outcomes' = Recorded(Waiting(installed) \cup A, "dropped")
              /\ inFlight' = [inFlight EXCEPT ![s] = None]
          BY <2>4, <3>2 DEF SpeechRejected, ApplyAuth, Goto
        <5>2. /\ \A t \in Speakers : inFlight'[t] \in {inFlight[t], None}
              /\ inFlight'[s] = None
          BY <1>0, <5>1 DEF TypeOK
        <5>3. \A a \in A :
                \E t \in installed : a = inFlight[t] /\ a # None /\ inFlight'[t] = None
          BY <3>1, <4>2, <5>2
        <5>. QED  BY <1>0, <3>1, <5>1, <5>2, <5>3, DrainKeeps
      <4>. QED  BY <4>1, <4>2
    <3>3. CASE auth # "reauth_required"
      <4>1. outcomes' = Recorded(Waiting(installed) \cup {}, "dropped") /\ inFlight' = inFlight
        BY <1>0, <2>4, <3>3 DEF SpeechRejected, ApplyAuth, Goto, TypeOK
      <4>. QED  BY <1>0, <3>1, <4>1, DrainKeeps
    <3>. QED  BY <3>2, <3>3
  <2>. QED  BY <1>9, <2>1, <2>2, <2>3, <2>4 DEF WorkerStep, Crash
<1>10. ASSUME NEW c \in Cameras, NEW r \in Rules, SwitchRule(c, r)  PROVE Goal
  BY <1>1, <1>10 DEF SwitchRule
<1>12. ASSUME NEW c \in Cameras, NEW s \in Speakers, Pair(c, s)  PROVE Goal
  BY <1>1, <1>12 DEF Pair
<1>13. ASSUME NEW a \in ObjectAnnouncements, Age(a)  PROVE Goal
  BY <1>1, <1>13 DEF Age
<1>14. ASSUME UNCHANGED vars  PROVE Goal
  BY <1>1, <1>14 DEF vars
<1>11. Goal
  BY <1>1, <1>2, <1>3, <1>4, <1>5, <1>6, <1>7, <1>8, <1>9, <1>10, <1>12, <1>13, <1>14
     DEF Next, CallStep
<1>. QED  BY <1>0, <1>11 DEF IInv

LEMMA IInvImplies == IInv => KeysMatchPending /\ OneOutcome
<1> SUFFICES ASSUME IInv, NEW s \in Speakers, NEW c \in Cameras
             PROVE  LET at == {i \in DOMAIN queue[s] : queue[s][i] = c}
                    IN  /\ (pending[s][c] # None) <=> (at # {})
                        /\ \A i, j \in at : i = j
  BY DEF KeysMatchPending, IInv
<1>1. NoDuplicates(s) /\ KeyInv(s) /\ PendingInv(s) /\ c # Pill
  BY SpeakerManagerAssumption DEF IInv, SpeakerInv, SpeakerManagerAssumption
<1>. QED  BY <1>1 DEF NoDuplicates, KeyInv, PendingInv

LEMMA IInvCorrect == Spec => []IInv
BY InitIInv, NextIInv, PTL DEF Spec

(* Keys and pending actions stay in step, for any number of speakers, cameras  *)
(* and announcements and any queue size.                                       *)
THEOREM KeysStayInStep == Spec => []KeysMatchPending
BY IInvCorrect, IInvImplies, PTL

(* No announcement ever gets a second event.                                   *)
THEOREM RecordedAtMostOnce == Spec => []OneOutcome
BY IInvCorrect, IInvImplies, PTL

-----------------------------------------------------------------------------
(* The gates.  Where a speaker is gated its queue holds pills at most; what is *)
(* queued at a speaker that is not gated was let in by submit().               *)
Gated(s) == auth = "reauth_required" \/ s \notin available

GateInv == \A s \in Speakers : Gated(s) => \A i \in DOMAIN queue[s] : queue[s][i] = Pill

LEMMA GateImplies == IInv /\ GateInv => GatesEmptyQueues
<1> SUFFICES ASSUME GateInv, NEW S \in SUBSET Speakers, \A s \in S : Gated(s)
             PROVE  Waiting(S) = {}
  BY DEF GatesEmptyQueues, Gated
<1>. QED
  BY SpeakerManagerAssumption DEF GateInv, Waiting, Resolve, SpeakerManagerAssumption

(* A worker leaves the gates as they are or closes that of the account.        *)
LEMMA WorkerGates ==
    ASSUME NEW s \in Speakers, WorkerStep(s)
    PROVE  /\ available' = available
           /\ \/ auth' = "reauth_required" /\ Drain(installed)
              \/ /\ auth = "reauth_required" <=> auth' = "reauth_required"
                 /\ queue' = queue \/ Dequeue(s)
<1>1. CASE SpeechReturns(s)
  BY <1>1 DEF SpeechReturns, AuthAfterSpeech, queues
<1>2. CASE SpeechRejected(s)
  BY <1>2 DEF SpeechRejected, ApplyAuth
<1>3. CASE Crash(s)
  BY <1>3 DEF Crash, AuthAfterSpeech, queues
<1>. QED
  BY <1>1, <1>2, <1>3
     DEF WorkerStep, TakePill, Skip, StartSpeaking, NotifyReturns, ReportCrash, gates, queues

LEMMA InitGateInv == Init => GateInv
BY DEF Init, GateInv

LEMMA NextGateInv ==
    ASSUME IInv, GateInv, [Next]_vars
    PROVE  GateInv'
<1> USE SpeakerManagerAssumption DEF gates, queues, tasks, calls, store, ledger
<1>0. TypeOK /\ PlacesInv
  BY DEF IInv
<1>1. ASSUME UNCHANGED <<queue, auth, available>>  PROVE GateInv'
  BY <1>1 DEF GateInv, Gated
<1>2. ASSUME \A s \in Speakers : queue'[s] \in {<<>>, <<Pill>>}  PROVE GateInv'
  BY <1>2 DEF GateInv
<1>3. ASSUME Drain(installed)  PROVE GateInv'
  BY <1>0, <1>3, <1>2 DEF Drain, PlacesInv
<1>4. ASSUME NEW s \in Speakers, SendPill(s)  PROVE GateInv'
  <2>1. UNCHANGED <<auth, available>>
    BY <1>4 DEF SendPill
  <2>2. queue' = queue \/ queue' = [queue EXCEPT ![s] = Append(@, Pill)]
    BY <1>4 DEF SendPill
  <2>3. queue[s] \in Seq(Entries)
    BY <1>0 DEF TypeOK
  <2>4. CASE queue' = [queue EXCEPT ![s] = Append(@, Pill)]
    <3>1. queue'[s] = Append(queue[s], Pill) /\ \A t \in Speakers \ {s} : queue'[t] = queue[t]
      BY <1>0, <2>4 DEF TypeOK
    <3>2. \A i \in DOMAIN queue'[s] : \/ queue'[s][i] = Pill
                                      \/ i \in DOMAIN queue[s] /\ queue'[s][i] = queue[s][i]
      BY <2>3, <3>1
    <3>. QED  BY <2>1, <3>1, <3>2 DEF GateInv, Gated
  <2>. QED  BY <1>1, <2>1, <2>2, <2>4
<1>5. ASSUME NEW A \in SUBSET Speakers, SetAvailableIds(A)  PROVE GateInv'
  <2>1. auth' = auth /\ available' = Known(A)
    BY <1>5 DEF SetAvailableIds
  <2>2. \A s \in Speakers : queue'[s] = IF s \in available \ Known(A) THEN <<>> ELSE queue[s]
    BY <1>5 DEF SetAvailableIds, Drain
  <2>. QED  BY <2>1, <2>2 DEF GateInv, Gated
<1>6. ASSUME NEW newAuth \in AuthStates, SetAuthStatus(newAuth)  PROVE GateInv'
  <2>1. CASE newAuth = "reauth_required"
    BY <1>3, <1>6, <2>1 DEF SetAuthStatus, ApplyAuth
  <2>2. CASE newAuth # "reauth_required"
    BY <1>6, <2>2 DEF SetAuthStatus, ApplyAuth, GateInv, Gated
  <2>. QED  BY <2>1, <2>2
<1>7. ASSUME NEW a \in Announcements, Submit(a)  PROVE GateInv'
  <2>1. CASE SubmitRefused(a) \/ SubmitCoalesced(a)
    BY <1>1, <2>1 DEF SubmitRefused, SubmitCoalesced
  <2>2. CASE SubmitQueued(a)
    <3>1. UNCHANGED <<auth, available>> /\ ~Gated(SpeakerOf[a])
      BY <2>2 DEF SubmitQueued, Takes, GateOpen, Gated
    <3>2. \A t \in Speakers \ {SpeakerOf[a]} : queue'[t] = queue[t]
      BY <1>0, <2>2 DEF SubmitQueued, TypeOK
    <3>. QED  BY <3>1, <3>2 DEF GateInv, Gated
  <2>. QED  BY <1>7, <2>1, <2>2 DEF Submit
<1>8. ASSUME NEW s \in Speakers, WorkerStep(s)  PROVE GateInv'
  <2>1. CASE auth' = "reauth_required" /\ Drain(installed)
    BY <1>3, <2>1
  <2>2. CASE /\ auth = "reauth_required" <=> auth' = "reauth_required"
             /\ queue' = queue
    <3>1. available' = available
      BY <1>8, WorkerGates
    <3>. QED  BY <2>2, <3>1 DEF GateInv, Gated
  <2>3. CASE /\ auth = "reauth_required" <=> auth' = "reauth_required"
             /\ Dequeue(s)
    <3>1. \A i \in DOMAIN queue'[s] : i + 1 \in DOMAIN queue[s]
                                      /\ queue'[s][i] = queue[s][i + 1]
      BY <1>0, <2>3 DEF Dequeue, TypeOK
    <3>2. \A t \in Speakers \ {s} : queue'[t] = queue[t]
      BY <1>0, <2>3 DEF Dequeue, TypeOK
    <3>3. available' = available
      BY <1>8, WorkerGates
    <3>4. \A t \in Speakers : Gated(t)' => Gated(t)
      BY <2>3, <3>3 DEF Gated
    <3>. QED  BY <3>1, <3>2, <3>4 DEF GateInv
  <2>. QED  BY <1>8, <2>1, <2>2, <2>3, WorkerGates
<1>9. ASSUME NEW S \in SUBSET Speakers, NEW A \in SUBSET S, FinishReplace(S, A) \/ ReplaceIdle(S, A)
      PROVE  GateInv'
  BY <1>2, <1>9 DEF FinishReplace, ReplaceIdle, Install
<1>10. CASE BeginReplace
  BY <1>2, <1>10 DEF BeginReplace
<1>11. CASE \/ Start \/ Stop \/ StopReturns \/ UNCHANGED vars
            \/ \E c \in Cameras, r \in Rules : SwitchRule(c, r)
            \/ \E c \in Cameras, s \in Speakers : Pair(c, s)
            \/ \E a \in ObjectAnnouncements : Age(a)
  BY <1>1, <1>11 DEF Start, Stop, StopReturns, SwitchRule, Pair, Age, vars
<1>. QED
  BY <1>4, <1>5, <1>6, <1>7, <1>8, <1>9, <1>10, <1>11 DEF Next, CallStep

(* Where a gate is closed nothing waits, for any speakers and queues.          *)
THEOREM NothingBehindGates == Spec => []GatesEmptyQueues
<1>1. Init => GateInv
  BY InitGateInv
<1>2. IInv /\ GateInv /\ [Next]_vars => GateInv'
  BY NextGateInv
<1>. QED  BY <1>1, <1>2, IInvCorrect, GateImplies, PTL DEF Spec

(* No answer of a worker opens the gate of the account again.                  *)
THEOREM GateStaysShut == Spec => LateAnswerKeepsGate
<1>1. [Next]_vars => [auth = "reauth_required" /\ worker' # worker => auth' = auth]_vars
  <2> SUFFICES ASSUME [Next]_vars, auth = "reauth_required", worker' # worker
               PROVE  auth' = auth
    OBVIOUS
  <2>1. CASE \E s \in Speakers : WorkerStep(s)
    BY <2>1, WorkerGates
  <2>2. CASE \/ Start \/ StopReturns
             \/ \E S \in SUBSET Speakers : \E A \in SUBSET S :
                    FinishReplace(S, A) \/ ReplaceIdle(S, A)
    BY <2>2 DEF Start, StopReturns, FinishReplace, ReplaceIdle, gates
  <2>3. CASE \/ Stop \/ BeginReplace \/ UNCHANGED vars
             \/ \E s \in Speakers : SendPill(s)
             \/ \E A \in SUBSET Speakers : SetAvailableIds(A)
             \/ \E newAuth \in AuthStates : SetAuthStatus(newAuth)
             \/ \E a \in Announcements : Submit(a)
             \/ \E c \in Cameras, r \in Rules : SwitchRule(c, r)
             \/ \E c \in Cameras, s \in Speakers : Pair(c, s)
             \/ \E a \in ObjectAnnouncements : Age(a)
    BY <2>3 DEF Stop, BeginReplace, SendPill, SetAvailableIds, SetAuthStatus, Submit, SubmitRefused,
                SubmitCoalesced, SubmitQueued, SwitchRule, Pair, Age, tasks, vars
  <2>. QED  BY <2>1, <2>2, <2>3 DEF Next, CallStep
<1>. QED  BY <1>1, PTL DEF Spec, LateAnswerKeepsGate

-----------------------------------------------------------------------------
(* Where an announcement is.  By IInv it waits, or is spoken, only at its own  *)
(* speaker: as a queued welcome, or behind the key of its camera.              *)
Waits(a) == a \in Range(queue[SpeakerOf[a]]) \/ pending[SpeakerOf[a]][CameraOf[a]] = a

Plays(a) == inFlight[SpeakerOf[a]] = a

LEMMA WaitsWhere ==
    IInv => \A S \in SUBSET Speakers, a \in Announcements :
                a \in Waiting(S) <=> SpeakerOf[a] \in S /\ Waits(a)
<1> SUFFICES ASSUME IInv, NEW S \in SUBSET Speakers, NEW a \in Announcements
             PROVE  a \in Waiting(S) <=> SpeakerOf[a] \in S /\ Waits(a)
  OBVIOUS
<1> USE SpeakerManagerAssumption
<1>1. /\ \A s \in Speakers : SpeakerInv(s)
      /\ CameraOf[a] \in Cameras /\ a \notin Cameras /\ a # None /\ a # Pill
      /\ SpeakerOf[a] \in Speakers
  BY DEF IInv, SpeakerManagerAssumption
<1>2. ASSUME NEW s \in S, NEW i \in DOMAIN queue[s], Resolve(s, queue[s][i]) = a
      PROVE  SpeakerOf[a] = s /\ Waits(a)
  <2>1. CASE queue[s][i] \in Cameras
    BY <1>1, <1>2, <2>1 DEF Resolve, SpeakerInv, PendingInv, Waits
  <2>2. CASE queue[s][i] \notin Cameras
    BY <1>1, <1>2, <2>2 DEF Resolve, SpeakerInv, WelcomeInv, Waits, Range
  <2>. QED  BY <2>1, <2>2
<1>3. ASSUME SpeakerOf[a] \in S, Waits(a)
      PROVE  \E s \in S : \E i \in DOMAIN queue[s] : Resolve(s, queue[s][i]) = a
  <2> DEFINE s == SpeakerOf[a]  c == CameraOf[a]
  <2>1. CASE pending[s][c] = a
    <3>1. PICK i \in DOMAIN queue[s] : queue[s][i] = c
      BY <1>1, <2>1 DEF SpeakerInv, PendingInv
    <3>. QED  BY <1>1, <1>3, <2>1, <3>1 DEF Resolve
  <2>2. CASE a \in Range(queue[s])
    <3>1. PICK i \in DOMAIN queue[s] : queue[s][i] = a
      BY <2>2 DEF Range
    <3>. QED  BY <1>1, <1>3, <3>1 DEF Resolve
  <2>. QED  BY <1>3, <2>1, <2>2 DEF Waits
<1>. QED  BY <1>2, <1>3 DEF Waiting

LEMMA PlaysWhere ==
    IInv => \A a \in Announcements : a \in Range(inFlight) <=> Plays(a)
<1> SUFFICES ASSUME IInv, NEW a \in Announcements
             PROVE  a \in Range(inFlight) <=> Plays(a)
  OBVIOUS
<1>1. /\ \A s \in Speakers : InFlightInv(s)
      /\ a # None /\ SpeakerOf[a] \in Speakers /\ DOMAIN inFlight = Speakers
  BY SpeakerManagerAssumption DEF IInv, SpeakerInv, TypeOK, SpeakerManagerAssumption
<1>. QED  BY <1>1 DEF InFlightInv, Plays, Range

(* What waits or is spoken has been submitted and has no event, and an object  *)
(* announcement that waits is the one behind its key.                          *)
LEMMA HeldIsFresh ==
    IInv => \A a \in Announcements :
                /\ Waits(a) => Fresh(a) /\ ~Plays(a)
                /\ Plays(a) => Fresh(a)
                /\ Waits(a) /\ a \in ObjectAnnouncements =>
                       pending[SpeakerOf[a]][CameraOf[a]] = a
<1> SUFFICES ASSUME IInv, NEW a \in Announcements
             PROVE  /\ Waits(a) => Fresh(a) /\ ~Plays(a)
                    /\ Plays(a) => Fresh(a)
                    /\ Waits(a) /\ a \in ObjectAnnouncements =>
                           pending[SpeakerOf[a]][CameraOf[a]] = a
  OBVIOUS
<1>1. /\ SpeakerInv(SpeakerOf[a]) /\ CameraOf[a] \in Cameras /\ a # None
  BY SpeakerManagerAssumption DEF IInv, SpeakerManagerAssumption
<1>2. a \in Range(queue[SpeakerOf[a]]) =>
          Fresh(a) /\ ~Plays(a) /\ a \notin ObjectAnnouncements
  BY <1>1 DEF SpeakerInv, WelcomeInv, Range, Plays
<1>3. pending[SpeakerOf[a]][CameraOf[a]] = a => Fresh(a) /\ ~Plays(a)
  BY <1>1 DEF SpeakerInv, PendingInv, Plays
<1>4. Plays(a) => Fresh(a)
  BY <1>1 DEF SpeakerInv, InFlightInv, Plays
<1>. QED  BY <1>2, <1>3, <1>4 DEF Waits

HeldFresh ==
    \A a \in Announcements : Waits(a) \/ Plays(a) => a \in submitted /\ outcomes[a] = <<>>

LEMMA HeldHasNoEvent == IInv => HeldFresh
BY HeldIsFresh DEF Fresh, HeldFresh

LEMMA BehindItsKey ==
    IInv => \A a \in ObjectAnnouncements : Waits(a) => pending[SpeakerOf[a]][CameraOf[a]] = a
BY HeldIsFresh, SpeakerManagerAssumption DEF SpeakerManagerAssumption

(* What the steps do to the places: a worker empties the head of its queue,    *)
LEMMA TakenWaits ==
    ASSUME IInv, NEW s \in Speakers, queue[s] # <<>>, Head(queue[s]) # Pill
    PROVE  Taken(s) \in Announcements /\ SpeakerOf[Taken(s)] = s /\ Waits(Taken(s))
<1> USE SpeakerManagerAssumption
<1> DEFINE h == Head(queue[s])
<1>1. /\ SpeakerInv(s) /\ TypeOK /\ queue[s] \in Seq(Entries) /\ h \in Entries
      /\ 1 \in DOMAIN queue[s] /\ queue[s][1] = h
  BY DEF IInv, TypeOK
<1>2. CASE h \in Cameras
  <2>1. pending[s][h] # None /\ Taken(s) = pending[s][h]
    BY <1>1, <1>2 DEF SpeakerInv, KeyInv, Taken, Resolve
  <2>2. pending[s][h] \in Announcements
    BY <1>1, <1>2, <2>1, PendingType
  <2>3. SpeakerOf[pending[s][h]] = s /\ CameraOf[pending[s][h]] = h
    BY <1>1, <1>2, <2>1 DEF SpeakerInv, PendingInv
  <2>. QED  BY <2>1, <2>2, <2>3 DEF Waits
<1>3. CASE h \notin Cameras
  <2>1. h \in Announcements /\ Taken(s) = h
    BY <1>1, <1>3 DEF Entries, Taken, Resolve
  <2>. QED  BY <1>1, <2>1 DEF SpeakerInv, WelcomeInv, Waits, Range
<1>. QED  BY <1>2, <1>3

LEMMA DequeueMoves ==
    ASSUME IInv, NEW s \in Speakers, Dequeue(s), NEW x \in Announcements
    PROVE  Waits(x)' <=> Waits(x) /\ x # Taken(s)
<1> USE SpeakerManagerAssumption
<1> DEFINE h == Head(queue[s])  c == CameraOf[x]
<1>1. /\ SpeakerInv(s) /\ TypeOK /\ queue[s] \in Seq(Entries) /\ queue[s] # <<>> /\ h \in Entries
      /\ 1 \in DOMAIN queue[s] /\ queue[s][1] = h /\ c \in Cameras /\ SpeakerOf[x] \in Speakers
      /\ x \notin Cameras /\ x # None /\ x # Pill
  BY DEF IInv, Dequeue, TypeOK, SpeakerManagerAssumption
<1>2. CASE SpeakerOf[x] # s
  <2>1. queue'[SpeakerOf[x]] = queue[SpeakerOf[x]] /\ pending'[SpeakerOf[x]] = pending[SpeakerOf[x]]
    BY <1>1, <1>2 DEF Dequeue, Popped, TypeOK
  <2>2. x # Taken(s)
    <3>1. h = Pill => Taken(s) = Pill
      BY DEF Taken, Resolve, SpeakerManagerAssumption
    <3>. QED  BY <1>1, <1>2, <3>1, TakenWaits
  <2>. QED  BY <2>1, <2>2 DEF Waits
<1>3. CASE SpeakerOf[x] = s
  <2>1. queue'[s] = Tail(queue[s])
    BY <1>1 DEF Dequeue, TypeOK
  <2>2. x \in Range(queue'[s]) <=> x \in Range(queue[s]) /\ x # h
    <3>1. \A i \in DOMAIN queue'[s] : /\ i + 1 \in DOMAIN queue[s] /\ i + 1 # 1
                                      /\ queue'[s][i] = queue[s][i + 1]
      BY <1>1, <2>1
    <3>2. \A i \in DOMAIN queue[s] : i # 1 => i - 1 \in DOMAIN queue'[s]
                                              /\ queue'[s][i - 1] = queue[s][i]
      BY <1>1, <2>1
    <3>3. ASSUME x \in Range(queue'[s])  PROVE x \in Range(queue[s]) /\ x # h
      <4>1. PICK i \in DOMAIN queue'[s] : queue'[s][i] = x
        BY <3>3 DEF Range
      <4>2. i + 1 \in DOMAIN queue[s] /\ i + 1 # 1 /\ queue[s][i + 1] = x
        BY <3>1, <4>1
      <4>3. x # h
        BY <1>1, <4>2 DEF SpeakerInv, NoDuplicates
      <4>. QED  BY <4>2, <4>3 DEF Range
    <3>4. ASSUME x \in Range(queue[s]), x # h  PROVE x \in Range(queue'[s])
      <4>1. PICK i \in DOMAIN queue[s] : queue[s][i] = x
        BY <3>4 DEF Range
      <4>2. i # 1
        BY <1>1, <3>4, <4>1
      <4>3. i - 1 \in DOMAIN queue'[s] /\ queue'[s][i - 1] = x
        BY <3>2, <4>1, <4>2
      <4>. QED  BY <4>3 DEF Range
    <3>. QED  BY <3>3, <3>4
  <2>3. pending'[s][c] = IF c = h THEN None ELSE pending[s][c]
    BY <1>1 DEF Dequeue, Popped, TypeOK
  <2>4. CASE h \in Cameras
    <3>1. /\ pending[s][h] # None /\ Taken(s) = pending[s][h]
          /\ CameraOf[Taken(s)] = h /\ Taken(s) \in ObjectAnnouncements
      BY <1>1, <2>4, PendingType DEF SpeakerInv, KeyInv, PendingInv, Taken, Resolve
    <3>2. Taken(s) \notin Range(queue[s]) \/ Taken(s) \notin Announcements
      BY <1>1, <3>1 DEF SpeakerInv, WelcomeInv, Range
    <3>. QED  BY <1>1, <1>3, <2>2, <2>3, <2>4, <3>1, <3>2 DEF Waits
  <2>5. CASE h \notin Cameras
    <3>1. Taken(s) = h
      BY <2>5 DEF Taken, Resolve
    <3>2. pending[s][c] = x => x # h
      <4>1. h \in Announcements => h \notin ObjectAnnouncements
        BY <1>1 DEF SpeakerInv, WelcomeInv
      <4>. QED  BY <1>1, <4>1, PendingType
    <3>. QED  BY <1>1, <1>3, <2>2, <2>3, <2>5, <3>1, <3>2 DEF Waits
  <2>. QED  BY <2>4, <2>5
<1>. QED  BY <1>2, <1>3

(* a drain empties whole speakers,                                             *)
LEMMA DrainMoves ==
    ASSUME IInv, NEW S \in SUBSET Speakers, Drain(S), NEW x \in Announcements
    PROVE  Waits(x)' <=> Waits(x) /\ SpeakerOf[x] \notin S
<1>1. SpeakerOf[x] \in Speakers /\ CameraOf[x] \in Cameras /\ x # None
  BY SpeakerManagerAssumption DEF SpeakerManagerAssumption
<1>2. CASE SpeakerOf[x] \in S
  BY <1>1, <1>2, DrainEmpties DEF Waits, Range
<1>3. CASE SpeakerOf[x] \notin S
  BY <1>1, <1>3, DrainEmpties DEF Waits
<1>. QED  BY <1>2, <1>3

(* new queues hold pills at most,                                              *)
LEMMA EmptyMoves ==
    ASSUME \A s \in Speakers : queue'[s] \in {<<>>, <<Pill>>},
           \A s \in Speakers, c \in Cameras : pending'[s][c] = None,
           NEW x \in Announcements
    PROVE  ~Waits(x)'
BY SpeakerManagerAssumption DEF Waits, Range, SpeakerManagerAssumption

(* a pill moves nothing,                                                       *)
LEMMA SendPillMoves ==
    ASSUME IInv, NEW s \in Speakers, SendPill(s), NEW x \in Announcements
    PROVE  Waits(x)' <=> Waits(x)
<1>1. /\ TypeOK /\ x # Pill /\ SpeakerOf[x] \in Speakers /\ pending' = pending
      /\ queue' = queue \/ queue' = [queue EXCEPT ![s] = Append(@, Pill)]
  BY SpeakerManagerAssumption DEF IInv, SendPill, SpeakerManagerAssumption
<1>2. CASE queue' = queue
  BY <1>1, <1>2 DEF Waits
<1>3. CASE queue' = [queue EXCEPT ![s] = Append(@, Pill)]
  <2>1. queue[s] \in Seq(Entries) /\ queue'[s] = Append(queue[s], Pill)
    BY <1>1, <1>3 DEF TypeOK
  <2>2. \A i \in DOMAIN queue[s] : i \in DOMAIN queue'[s] /\ queue'[s][i] = queue[s][i]
    BY <2>1
  <2>3. \A i \in DOMAIN queue'[s] : \/ i \in DOMAIN queue[s] /\ queue'[s][i] = queue[s][i]
                                    \/ queue'[s][i] = Pill
    BY <2>1
  <2>4. x \in Range(queue'[s]) <=> x \in Range(queue[s])
    BY <1>1, <2>2, <2>3 DEF Range
  <2>5. \A t \in Speakers \ {s} : queue'[t] = queue[t]
    BY <1>1, <1>3 DEF TypeOK
  <2>. QED  BY <1>1, <2>4, <2>5 DEF Waits
<1>. QED  BY <1>1, <1>2, <1>3

(* and submit() puts an announcement at the place of an older one              *)
LEMMA CoalescedMoves ==
    ASSUME IInv, NEW a \in Announcements, SubmitCoalesced(a), NEW x \in Announcements
    PROVE  /\ Waits(x)' <=> x = a \/ (Waits(x) /\ x \notin Superseded(a))
           /\ \E b \in ObjectAnnouncements :
                  /\ Superseded(a) = {b} /\ Waits(b) /\ b # a
                  /\ SpeakerOf[b] = SpeakerOf[a] /\ CameraOf[b] = CameraOf[a]
<1> USE SpeakerManagerAssumption
<1> DEFINE s == SpeakerOf[a]  c == CameraOf[a]  b == pending[s][c]
<1>1. /\ TypeOK /\ SpeakerInv(s) /\ NewInv /\ s \in Speakers /\ c \in Cameras /\ a \notin submitted
      /\ SpeakerOf[x] \in Speakers /\ CameraOf[x] \in Cameras
  BY DEF IInv, SubmitCoalesced, MaySubmit, SpeakerManagerAssumption
<1>2. a \in ObjectAnnouncements /\ b \in Announcements /\ b # None /\ Superseded(a) = {b}
  <2>1. a \in ObjectAnnouncements /\ \E y \in Announcements : y = b
    BY DEF SubmitCoalesced, Superseded
  <2>. QED  BY <2>1 DEF Superseded, SpeakerManagerAssumption
<1>3. CameraOf[b] = c /\ SpeakerOf[b] = s /\ Fresh(b) /\ b \in ObjectAnnouncements
  BY <1>1, <1>2, PendingType DEF SpeakerInv, PendingInv
<1>4. Waits(b) /\ b # a
  BY <1>1, <1>3 DEF Waits, Fresh
<1>5. /\ queue' = queue /\ pending'[s][c] = a
      /\ \A t \in Speakers, d \in Cameras : t # s \/ d # c => pending'[t][d] = pending[t][d]
  BY <1>1 DEF SubmitCoalesced, TypeOK
<1>6. a \notin Range(queue[s]) /\ b \notin Range(queue[s])
  BY <1>1, <1>2, <1>3 DEF SpeakerInv, WelcomeInv, Range
<1>7. Waits(x)' <=> x = a \/ (Waits(x) /\ x # b)
  <2>1. CASE SpeakerOf[x] = s /\ CameraOf[x] = c
    BY <1>5, <1>6, <2>1 DEF Waits
  <2>2. CASE SpeakerOf[x] # s \/ CameraOf[x] # c
    BY <1>1, <1>3, <1>5, <2>2 DEF Waits
  <2>. QED  BY <2>1, <2>2
<1>. QED  BY <1>2, <1>3, <1>4, <1>7

(* or at the end of the queue.                                                 *)
LEMMA QueuedMoves ==
    ASSUME IInv, NEW a \in Announcements, SubmitQueued(a), NEW x \in Announcements
    PROVE  Waits(x)' <=> x = a \/ Waits(x)
<1> USE SpeakerManagerAssumption
<1> DEFINE s == SpeakerOf[a]  c == CameraOf[a]  e == EntryOf(a)
<1>1. /\ TypeOK /\ s \in Speakers /\ c \in Cameras /\ a # None /\ e \in Entries
      /\ SpeakerOf[x] \in Speakers /\ CameraOf[x] \in Cameras /\ x \notin Cameras
  BY DEF IInv, EntryOf, Entries, SpeakerManagerAssumption
<1>2. queue'[s] = Append(queue[s], e) /\ queue[s] \in Seq(Entries)
      /\ \A t \in Speakers \ {s} : queue'[t] = queue[t]
  BY <1>1 DEF SubmitQueued, TypeOK
<1>3. x \in Range(queue'[s]) <=> x \in Range(queue[s]) \/ x = e
  <2>1. \A i \in DOMAIN queue[s] : i \in DOMAIN queue'[s] /\ queue'[s][i] = queue[s][i]
    BY <1>2
  <2>2. \A i \in DOMAIN queue'[s] : \/ i \in DOMAIN queue[s] /\ queue'[s][i] = queue[s][i]
                                    \/ queue'[s][i] = e
    BY <1>2
  <2>3. Len(queue[s]) + 1 \in DOMAIN queue'[s] /\ queue'[s][Len(queue[s]) + 1] = e
    BY <1>1, <1>2
  <2>. QED  BY <2>1, <2>2, <2>3 DEF Range
<1>4. CASE a \in ObjectAnnouncements
  <2>1. pending[s][c] \notin Announcements
    BY <1>4 DEF SubmitQueued, Superseded
  <2>2. /\ pending'[s][c] = a
        /\ \A t \in Speakers, d \in Cameras : t # s \/ d # c => pending'[t][d] = pending[t][d]
    BY <1>1, <1>4 DEF SubmitQueued, TypeOK
  <2>3. x # e
    BY <1>1, <1>4 DEF EntryOf
  <2> HIDE DEF e
  <2>6. x \in Range(queue'[SpeakerOf[x]]) <=> x \in Range(queue[SpeakerOf[x]])
    <3>1. CASE SpeakerOf[x] = s
      BY <1>3, <2>3, <3>1
    <3>2. CASE SpeakerOf[x] # s
      BY <1>1, <1>2, <3>2
    <3>. QED  BY <3>1, <3>2
  <2>4. CASE SpeakerOf[x] = s /\ CameraOf[x] = c
    <3>2. pending'[SpeakerOf[x]][CameraOf[x]] = x <=> x = a
      BY <2>2, <2>4
    <3>3. pending[SpeakerOf[x]][CameraOf[x]] # x
      BY <2>1, <2>4
    <3>. QED  BY <2>6, <3>2, <3>3 DEF Waits
  <2>5. CASE SpeakerOf[x] # s \/ CameraOf[x] # c
    <3>1. pending'[SpeakerOf[x]][CameraOf[x]] = pending[SpeakerOf[x]][CameraOf[x]]
      BY <1>1, <2>2, <2>5
    <3>2. x # a
      BY <2>5
    <3>. QED  BY <2>6, <3>1, <3>2 DEF Waits
  <2>. QED  BY <2>4, <2>5
<1>5. CASE a \notin ObjectAnnouncements
  <2>1. e = a /\ pending' = pending
    BY <1>5 DEF EntryOf, SubmitQueued
  <2>. QED  BY <1>1, <1>2, <1>3, <2>1 DEF Waits
<1>. QED  BY <1>4, <1>5

-----------------------------------------------------------------------------
(* What a step does to the announcements, seen from outside: it ends some,     *)
(* takes one up, or answers a submit().                                        *)
Stays(x) == /\ Waits(x)' <=> Waits(x)
            /\ Plays(x)' <=> Plays(x)
            /\ outcomes'[x] = outcomes[x]

Held == {x \in Announcements : Waits(x) \/ Plays(x)}

Ends ==
    /\ UNCHANGED <<submitted, accepted>>
    /\ \E A \in SUBSET Held :
         /\ \A x \in Announcements \ A : Stays(x)
         /\ \/ \A x \in A : outcomes'[x] # <<>>
            \/ \A x \in A : /\ ~Waits(x)' /\ ~Plays(x)' /\ outcomes'[x] = <<>>
                            /\ ~(Live(SpeakerOf[x]) /\ Live(SpeakerOf[x])')

Begins ==
    /\ UNCHANGED <<submitted, accepted>>
    /\ \E a \in Announcements :
         /\ \A x \in Announcements \ {a} : Stays(x)
         /\ Waits(a) /\ ~Waits(a)' /\ Plays(a)' /\ outcomes'[a] = outcomes[a]
         /\ Live(SpeakerOf[a]) /\ inFlight[SpeakerOf[a]] = None

Refuses ==
    \E a \in Announcements :
        /\ MaySubmit(a) /\ submitted' = submitted \cup {a} /\ accepted' = accepted
        /\ \A x \in Announcements \ {a} : Stays(x)
        /\ ~Waits(a)' /\ ~Plays(a)'

Accepts ==
    \E a \in Announcements :
        /\ MaySubmit(a) /\ submitted' = submitted \cup {a} /\ accepted' = accepted \cup {a}
        /\ Waits(a)' /\ ~Plays(a)' /\ outcomes'[a] = <<>>
        /\ \/ \A x \in Announcements \ {a} : Stays(x)
           \/ \E b \in ObjectAnnouncements :
                /\ \A x \in Announcements \ {a, b} : Stays(x)
                /\ Waits(b) /\ ~Waits(b)' /\ ~Plays(b)' /\ outcomes'[b] # <<>> /\ b # a
                /\ SpeakerOf[b] = SpeakerOf[a] /\ CameraOf[b] = CameraOf[a]
                /\ a \in ObjectAnnouncements

(* A worker that has something in hand is at an await, and workers outlive     *)
(* neither stop() nor a replacement.                                           *)
Busy ==
    /\ \A s \in Speakers : inFlight[s] # None => worker[s] \in {"speaking", "notifying"}
    /\ Tasks # {} => started \/ stopping

LEMMA NextBusy ==
    ASSUME TypeOK, Busy, [Next]_vars
    PROVE  Busy'
<1> USE SpeakerManagerAssumption DEF Busy
<1>0. /\ worker \in [Speakers -> WorkerState]
      /\ inFlight \in [Speakers -> Announcements \cup {None}]
  BY DEF TypeOK
<1>1. CASE Start
  <2>1. \A s \in Speakers : inFlight[s] = None
    BY <1>1 DEF Start, Tasks
  <2>. QED  BY <1>1, <2>1 DEF Start
<1>2. CASE Stop
  BY <1>2 DEF Stop, tasks, Tasks
<1>3. CASE StopReturns
  BY <1>3 DEF StopReturns, TasksEnded, Tasks
<1>4. ASSUME NEW S \in SUBSET Speakers, NEW A \in SUBSET S, FinishReplace(S, A) \/ ReplaceIdle(S, A)
      PROVE  Busy'
  <2>1. \A s \in Speakers : inFlight'[s] = None
    BY <1>4 DEF FinishReplace, ReplaceIdle, TasksEnded, Tasks
  <2>2. Tasks' # {} => started' \/ stopping'
    BY <1>4 DEF FinishReplace, ReplaceIdle, Install, Tasks, calls
  <2>. QED  BY <2>1, <2>2
<1>5. ASSUME NEW s \in Speakers, WorkerStep(s)  PROVE Busy'
  <2>1. /\ worker[s] # "none" /\ UNCHANGED <<started, stopping>>
        /\ \E st \in WorkerState, b \in Announcements \cup {None, Taken(s)} :
              /\ b # None => st \in {"speaking", "notifying"}
              /\ Goto(s, st, b) \/ UNCHANGED tasks
    BY <1>0, <1>5
       DEF WorkerStep, TakePill, Skip, StartSpeaking, SpeechReturns, SpeechRejected, NotifyReturns,
           Crash, ReportCrash, ApplyAuth, Dequeue, Goto, gates, calls, WorkerState
  <2>2. \A t \in Speakers : inFlight'[t] # None => worker'[t] \in {"speaking", "notifying"}
    BY <1>0, <2>1 DEF Goto, tasks
  <2>3. Tasks # {} /\ started' = started /\ stopping' = stopping
    BY <2>1 DEF Tasks
  <2>. QED  BY <2>2, <2>3
<1>6. ASSUME UNCHANGED <<tasks, started, stopping>>  PROVE Busy'
  BY <1>6 DEF tasks, Tasks
<1>7. CASE \/ BeginReplace \/ UNCHANGED vars
           \/ \E s \in Speakers : SendPill(s)
           \/ \E A \in SUBSET Speakers : SetAvailableIds(A)
           \/ \E newAuth \in AuthStates : SetAuthStatus(newAuth)
           \/ \E a \in Announcements : Submit(a)
           \/ \E c \in Cameras, r \in Rules : SwitchRule(c, r)
           \/ \E c \in Cameras, s \in Speakers : Pair(c, s)
           \/ \E a \in ObjectAnnouncements : Age(a)
  BY <1>6, <1>7 DEF BeginReplace, SendPill, SetAvailableIds, SetAuthStatus, ApplyAuth, Submit,
                    SubmitRefused, SubmitCoalesced, SubmitQueued, SwitchRule, Pair, Age, vars,
                    gates, calls
<1>. QED  BY <1>1, <1>2, <1>3, <1>4, <1>5, <1>7 DEF Next, CallStep

(* Each step has one of the four forms. *)
LEMMA NothingMoves ==
    ASSUME \A x \in Announcements : Stays(x), UNCHANGED <<submitted, accepted>>
    PROVE  Ends
<1>1. {} \in SUBSET Held
  OBVIOUS
<1>. QED  BY <1>1 DEF Ends

LEMMA RecordedNonempty ==
    ASSUME TypeOK, NEW A, NEW o \in Outcome, outcomes' = Recorded(A, o), NEW x \in Announcements
    PROVE  IF x \in A THEN outcomes'[x] # <<>> ELSE outcomes'[x] = outcomes[x]
<1>1. outcomes[x] \in Seq(Outcome)
  BY DEF TypeOK
<1>2. Append(outcomes[x], o) # <<>>
  BY <1>1
<1>. QED  BY <1>2 DEF Recorded

LEMMA DrainEnds ==
    ASSUME IInv, NEW S \in SUBSET Speakers, Drain(S), UNCHANGED <<submitted, accepted>>,
           NEW B, \A b \in B \cap Announcements : Plays(b),
           outcomes' = Recorded(Waiting(S) \cup B, "dropped"),
           \A x \in Announcements \ B : Plays(x)' <=> Plays(x)
    PROVE  Ends
<1> DEFINE A == (Waiting(S) \cup B) \cap Announcements
<1>1. A \in SUBSET Held
  BY WaitsWhere DEF Held
<1>2. \A x \in A : outcomes'[x] # <<>>
  BY RecordedNonempty DEF IInv, Outcome
<1>3. ASSUME NEW x \in Announcements \ A  PROVE Stays(x)
  <2>1. outcomes'[x] = outcomes[x]
    BY <1>3, RecordedNonempty DEF IInv, Outcome
  <2>2. Waits(x)' <=> Waits(x)
    BY <1>3, WaitsWhere, DrainMoves
  <2>. QED  BY <1>3, <2>1, <2>2 DEF Stays
<1>. QED  BY <1>1, <1>2, <1>3 DEF Ends

LEMMA ReplaceEnds ==
    ASSUME IInv, Busy, NEW S \in SUBSET Speakers, NEW A \in SUBSET S,
           FinishReplace(S, A) \/ ReplaceIdle(S, A)
    PROVE  Ends
<1>1. /\ \A s \in Speakers : ~Live(s) /\ inFlight[s] = None
      /\ UNCHANGED <<submitted, accepted, outcomes, inFlight>>
      /\ \A s \in Speakers : queue'[s] \in {<<>>, <<Pill>>}
      /\ \A s \in Speakers, c \in Cameras : pending'[s][c] = None
  BY DEF FinishReplace, ReplaceIdle, Install, TasksEnded, Tasks, Live, Busy, ledger
<1>2. ASSUME NEW x \in Announcements
      PROVE  /\ ~Waits(x)' /\ ~Plays(x) /\ ~Plays(x)' /\ outcomes'[x] = outcomes[x]
             /\ ~Live(SpeakerOf[x]) /\ (Waits(x) => outcomes[x] = <<>>)
  BY <1>1, EmptyMoves, HeldIsFresh, SpeakerManagerAssumption
     DEF Plays, Fresh, SpeakerManagerAssumption
<1>3. Held \in SUBSET Held /\ \A x \in Announcements \ Held : Stays(x)
  BY <1>2 DEF Held, Stays
<1>. QED  BY <1>1, <1>2, <1>3 DEF Ends, Held

LEMMA BeginReplaceEnds ==
    ASSUME IInv, BeginReplace
    PROVE  Ends
<1>1. /\ UNCHANGED <<submitted, accepted, inFlight>>
      /\ outcomes' = Recorded(Waiting(installed), "dropped")
      /\ \A s \in Speakers : queue'[s] \in {<<>>, <<Pill>>}
      /\ installed \in SUBSET Speakers /\ TypeOK
  BY DEF BeginReplace, tasks, IInv, TypeOK
<1>2. ASSUME NEW s \in Speakers, NEW c \in Cameras
      PROVE  pending'[s][c] = None /\ (s \notin installed => pending[s][c] = None)
  <2>1. pending[s][c] # None => \E i \in DOMAIN queue[s] : queue[s][i] = c
    BY DEF IInv, SpeakerInv, PendingInv
  <2>2. s \notin installed => queue[s] = <<>>
    BY DEF IInv, PlacesInv
  <2>. QED  BY <2>1, <2>2 DEF BeginReplace, DrainKeys, Range
<1>3. ASSUME NEW x \in Announcements, SpeakerOf[x] \notin installed  PROVE ~Waits(x)
  <2>1. SpeakerOf[x] \in Speakers /\ CameraOf[x] \in Cameras /\ x # None
    BY SpeakerManagerAssumption DEF SpeakerManagerAssumption
  <2>2. queue[SpeakerOf[x]] = <<>>
    BY <1>3, <2>1 DEF IInv, PlacesInv
  <2>. QED  BY <1>2, <1>3, <2>1, <2>2 DEF Waits, Range
<1>4. \A x \in Announcements : ~Waits(x)' /\ (Plays(x)' <=> Plays(x))
  BY <1>1, <1>2, EmptyMoves DEF Plays
<1>5. /\ Waiting(installed) \in SUBSET Held
      /\ \A x \in Waiting(installed) : outcomes'[x] # <<>>
  <2>1. \A x \in Waiting(installed) : x \in Announcements /\ Waits(x)
    BY <1>1, WaitsWhere DEF Waiting
  <2>2. "dropped" \in Outcome
    BY DEF Outcome
  <2>. QED  BY <1>1, <2>1, <2>2, RecordedNonempty DEF Held
<1>6. ASSUME NEW x \in Announcements \ Waiting(installed)  PROVE Stays(x)
  <2>1. outcomes'[x] = outcomes[x] /\ ~Waits(x)
    BY <1>1, <1>3, <1>6, WaitsWhere, RecordedNonempty DEF Outcome
  <2>. QED  BY <1>4, <2>1 DEF Stays
<1>. QED  BY <1>1, <1>5, <1>6 DEF Ends

LEMMA WorkerForms ==
    ASSUME IInv, IInv', Busy, NEW s \in Speakers, WorkerStep(s)
    PROVE  Ends \/ Begins
<1> USE SpeakerManagerAssumption
<1>0. /\ TypeOK /\ UNCHANGED <<submitted, accepted>>
      /\ inFlight \in [Speakers -> Announcements \cup {None}]
      /\ \A x \in Announcements : x # None /\ x # Pill /\ SpeakerOf[x] \in Speakers
  BY DEF IInv, TypeOK, WorkerStep, TakePill, Skip, StartSpeaking, SpeechReturns, SpeechRejected,
         NotifyReturns, Crash, ReportCrash, ledger, SpeakerManagerAssumption
<1>1. ASSUME inFlight' = [inFlight EXCEPT ![s] = None]
      PROVE  \A x \in Announcements : Plays(x)' <=> Plays(x) /\ x # inFlight[s]
  BY <1>0, <1>1 DEF Plays, IInv, SpeakerInv, InFlightInv
<1>2. worker[s] = "waiting" \/ worker[s] = "crashed" => inFlight[s] = None
  BY DEF Busy
<1>3. ASSUME Dequeue(s), Head(queue[s]) # Pill
      PROVE  \E a \in Announcements :
                 /\ a = Taken(s) /\ SpeakerOf[a] = s /\ Waits(a) /\ ~Plays(a) /\ outcomes[a] = <<>>
                 /\ \A x \in Announcements : Waits(x)' <=> Waits(x) /\ x # a
  <2> PICK a : a = Taken(s)
    OBVIOUS
  <2>1. a \in Announcements /\ SpeakerOf[a] = s /\ Waits(a)
    BY <1>3, TakenWaits DEF Dequeue
  <2>2. ~Plays(a) /\ outcomes[a] = <<>>
    BY <2>1, HeldIsFresh DEF Fresh
  <2>3. \A x \in Announcements : Waits(x)' <=> Waits(x) /\ x # a
    BY <1>3, DequeueMoves
  <2>. QED  BY <2>1, <2>2, <2>3
<1>4. CASE TakePill(s)
  <2>1. \A x \in Announcements : x # Taken(s)
    BY <1>0, <1>4 DEF TakePill, Taken, Resolve, SpeakerManagerAssumption
  <2>2. \A x \in Announcements : Stays(x)
    BY <1>0, <1>1, <1>2, <1>4, <2>1, DequeueMoves DEF TakePill, Dequeue, Goto, Stays, ledger
  <2>. QED  BY <1>0, <2>2, NothingMoves
<1>5. CASE Skip(s)
  <2>1. /\ Dequeue(s) /\ Head(queue[s]) # Pill /\ inFlight' = inFlight
        /\ outcomes' = Recorded({Taken(s)}, "dropped") /\ "dropped" \in Outcome
    BY <1>5 DEF Skip, tasks, Outcome
  <2> PICK a \in Announcements :
          /\ a = Taken(s) /\ Waits(a)
          /\ \A x \in Announcements : Waits(x)' <=> Waits(x) /\ x # a
    BY <1>3, <2>1
  <2>2. outcomes'[a] # <<>> /\ {a} \in SUBSET Held
    <3> PICK A : A = {a}
      OBVIOUS
    <3>1. outcomes' = Recorded(A, "dropped") /\ a \in A
      BY <2>1
    <3>2. outcomes'[a] # <<>>
      BY <1>0, <2>1, <3>1, RecordedNonempty
    <3>. QED  BY <3>2 DEF Held
  <2>3. \A x \in Announcements \ {a} : outcomes'[x] = outcomes[x]
    BY <2>1 DEF Recorded
  <2>4. \A x \in Announcements \ {a} : Stays(x)
    BY <2>1, <2>3 DEF Stays, Plays
  <2>. QED  BY <1>0, <2>2, <2>4 DEF Ends
<1>6. CASE StartSpeaking(s)
  <2>1. /\ Dequeue(s) /\ Head(queue[s]) # Pill /\ inFlight' = [inFlight EXCEPT ![s] = Taken(s)]
        /\ outcomes' = outcomes /\ worker[s] = "waiting"
    BY <1>6 DEF StartSpeaking, Dequeue, Goto, ledger
  <2> PICK a \in Announcements :
          /\ a = Taken(s) /\ SpeakerOf[a] = s /\ Waits(a)
          /\ \A x \in Announcements : Waits(x)' <=> Waits(x) /\ x # a
    BY <1>3, <2>1
  <2>2. ~Waits(a)' /\ Plays(a)' /\ Live(s) /\ inFlight[s] = None
    BY <1>0, <1>2, <2>1 DEF Live, Plays
  <2>3. \A x \in Announcements \ {a} : Stays(x)
    BY <1>0, <2>1, <2>2 DEF Stays, Plays
  <2>. QED  BY <1>0, <2>1, <2>2, <2>3 DEF Begins
<1>7. ASSUME inFlight' = [inFlight EXCEPT ![s] = None], UNCHANGED queues,
             \E o \in Outcome : outcomes' = Recorded({inFlight[s]}, o)
      PROVE  Ends
  <2> DEFINE A == {inFlight[s]} \cap Announcements
  <2>1. A \in SUBSET Held
    BY PlaysWhere, <1>0 DEF Held, Range
  <2>2. /\ \A x \in A : outcomes'[x] # <<>>
        /\ \A x \in Announcements \ A : outcomes'[x] = outcomes[x]
    BY <1>0, <1>7, RecordedNonempty
  <2>3. \A x \in Announcements \ A : Stays(x)
    BY <1>1, <1>7, <2>2 DEF Stays, Waits, queues
  <2>. QED  BY <1>0, <2>1, <2>2, <2>3 DEF Ends
<1>8. CASE SpeechReturns(s) \/ NotifyReturns(s)
  BY <1>7, <1>8 DEF SpeechReturns, NotifyReturns, Goto, Outcome
<1>9. CASE SpeechRejected(s)
  <2>1. installed \in SUBSET Speakers /\ Drain(installed)
    BY <1>0, <1>9 DEF SpeechRejected, ApplyAuth, TypeOK
  <2>2. CASE auth = "reauth_required"
    <3> PICK B : B = {inFlight[s]}
      OBVIOUS
    <3>1. /\ outcomes' = Recorded(Waiting(installed) \cup B, "dropped")
          /\ inFlight' = [inFlight EXCEPT ![s] = None]
      BY <1>9, <2>2 DEF SpeechRejected, ApplyAuth, Goto
    <3>2. \A b \in B \cap Announcements : Plays(b)
      BY <1>0, PlaysWhere DEF Range
    <3>3. \A x \in Announcements \ B : Plays(x)' <=> Plays(x)
      BY <1>1, <3>1
    <3>. QED  BY <1>0, <2>1, <3>1, <3>2, <3>3, DrainEnds
  <2>3. CASE auth # "reauth_required"
    <3> PICK B : B = {}
      OBVIOUS
    <3>1. outcomes' = Recorded(Waiting(installed) \cup B, "dropped") /\ inFlight' = inFlight
      BY <1>0, <1>9, <2>3 DEF SpeechRejected, ApplyAuth, Goto
    <3>. QED  BY <1>0, <2>1, <3>1, DrainEnds DEF Plays
  <2>. QED  BY <2>2, <2>3
<1>10. CASE Crash(s)
  <2>1. /\ outcomes' = outcomes /\ ~Live(s)'
        /\ inFlight' = [inFlight EXCEPT ![s] = None]
    BY <1>0, <1>10 DEF Crash, Goto, Live, ledger, TypeOK
  <2>2. CASE Dequeue(s) /\ Head(queue[s]) # Pill
    <3>1. inFlight[s] = None
      BY <1>2, <2>2 DEF Dequeue
    <3> PICK a \in Announcements :
            /\ a = Taken(s) /\ SpeakerOf[a] = s /\ Waits(a) /\ ~Plays(a) /\ outcomes[a] = <<>>
            /\ \A x \in Announcements : Waits(x)' <=> Waits(x) /\ x # a
      BY <1>3, <2>2
    <3>2. \A x \in Announcements \ {a} : Stays(x)
      BY <1>0, <1>1, <2>1, <3>1 DEF Stays
    <3>3. ~Waits(a)' /\ ~Plays(a)' /\ outcomes'[a] = <<>> /\ ~Live(SpeakerOf[a])'
      BY <1>1, <2>1
    <3>4. {a} \in SUBSET Held
      BY DEF Held
    <3>5. UNCHANGED <<submitted, accepted>>
      BY <1>0
    <3> PICK A : A = {a}
      OBVIOUS
    <3>6. \A x \in Announcements \ A : Stays(x)
      BY <3>2
    <3>7. \A x \in A : /\ ~Waits(x)' /\ ~Plays(x)' /\ outcomes'[x] = <<>>
                      /\ ~(Live(SpeakerOf[x]) /\ Live(SpeakerOf[x])')
      <4> SUFFICES ASSUME NEW x \in A
                   PROVE  /\ ~Waits(x)' /\ ~Plays(x)' /\ outcomes'[x] = <<>>
                          /\ ~Live(SpeakerOf[x])'
        OBVIOUS
      <4>. QED  BY <3>3
    <3>. QED  BY <3>4, <3>5, <3>6, <3>7 DEF Ends
  <2>3. CASE UNCHANGED queues
    <3> DEFINE A == {inFlight[s]} \cap Announcements
    <3>1. A \in SUBSET Held /\ \A x \in A : Plays(x) /\ SpeakerOf[x] = s
      <4>1. \A x \in A : SpeakerOf[x] = s
        BY <1>0 DEF IInv, SpeakerInv, InFlightInv
      <4>2. \A x \in A : Plays(x)
        BY <4>1 DEF Plays
      <4>. QED  BY <4>2, <4>1 DEF Held
    <3>2. \A x \in Announcements : (Waits(x)' <=> Waits(x)) /\ outcomes'[x] = outcomes[x]
      BY <2>1, <2>3 DEF Waits, queues
    <3>3. \A x \in Announcements \ A : Stays(x)
      BY <1>1, <2>1, <3>2 DEF Stays
    <3>4. ASSUME NEW x \in A  PROVE ~Waits(x)' /\ ~Plays(x)' /\ outcomes'[x] = <<>>
      <4>1. ~Waits(x) /\ outcomes[x] = <<>>
        BY <3>1, HeldIsFresh DEF Fresh
      <4>2. ~Plays(x)'
        BY <1>1, <2>1
      <4>. QED  BY <3>2, <4>1, <4>2
    <3>5. \A x \in A : ~Live(SpeakerOf[x])'
      BY <2>1, <3>1
    <3>6. UNCHANGED <<submitted, accepted>>
      BY <1>0
    <3> HIDE DEF A
    <3>. QED  BY <3>1, <3>3, <3>4, <3>5, <3>6 DEF Ends
  <2>. QED  BY <1>10, <2>2, <2>3 DEF Crash
<1>11. CASE ReportCrash(s)
  <2>1. \A x \in Announcements : Stays(x)
    BY <1>0, <1>1, <1>2, <1>11 DEF ReportCrash, Goto, Stays, Waits, queues, ledger
  <2>. QED  BY <1>0, <2>1, NothingMoves
<1>. QED  BY <1>4, <1>5, <1>6, <1>8, <1>9, <1>10, <1>11 DEF WorkerStep

LEMMA SubmitForms ==
    ASSUME IInv, IInv', NEW a \in Announcements, Submit(a)
    PROVE  Refuses \/ Accepts
<1> USE SpeakerManagerAssumption
<1>0. /\ TypeOK /\ NewInv /\ MaySubmit(a) /\ a \notin submitted /\ outcomes[a] = <<>>
      /\ submitted' = submitted \cup {a} /\ inFlight' = inFlight
  BY DEF IInv, NewInv, Submit, SubmitRefused, SubmitCoalesced, SubmitQueued, MaySubmit, tasks
<1>1. ~Waits(a) /\ ~Plays(a) /\ ~Plays(a)'
  BY <1>0, HeldIsFresh DEF Fresh, Plays
<1>2. CASE SubmitRefused(a)
  <2>1. \A x \in Announcements \ {a} : outcomes'[x] = outcomes[x]
    BY <1>2 DEF SubmitRefused, Recorded
  <2>2. \A x \in Announcements : (Waits(x)' <=> Waits(x)) /\ (Plays(x)' <=> Plays(x))
    BY <1>2 DEF SubmitRefused, Waits, Plays, queues, tasks
  <2>. QED  BY <1>0, <1>1, <1>2, <2>1, <2>2 DEF SubmitRefused, Stays, Refuses
<1>3. CASE SubmitQueued(a)
  <2>1. outcomes' = outcomes /\ accepted' = accepted \cup {a}
    BY <1>3 DEF SubmitQueued
  <2>2. \A x \in Announcements \ {a} : Stays(x)
    BY <1>0, <1>3, <2>1, QueuedMoves DEF Stays, Plays
  <2>. QED  BY <1>0, <1>1, <1>3, <2>1, <2>2, QueuedMoves DEF Accepts
<1>4. CASE SubmitCoalesced(a)
  <2>1. PICK b \in ObjectAnnouncements :
            /\ Superseded(a) = {b} /\ Waits(b) /\ b # a
            /\ SpeakerOf[b] = SpeakerOf[a] /\ CameraOf[b] = CameraOf[a]
    BY <1>4, CoalescedMoves
  <2>2. /\ outcomes' = Recorded({b}, "superseded") /\ "superseded" \in Outcome
        /\ accepted' = accepted \cup {a} /\ b \in Announcements /\ a \in ObjectAnnouncements
    BY <1>4, <2>1 DEF SubmitCoalesced, Superseded, Outcome, SpeakerManagerAssumption
  <2>3. /\ outcomes'[b] # <<>>
        /\ \A x \in Announcements \ {b} : outcomes'[x] = outcomes[x]
    BY <1>0, <2>2, RecordedNonempty
  <2>4. \A x \in Announcements \ {a, b} : Stays(x)
    BY <1>0, <1>4, <2>1, <2>3, CoalescedMoves DEF Stays, Plays
  <2>5. Waits(a)' /\ ~Waits(b)' /\ ~Plays(b)'
    BY <1>0, <1>4, <2>1, <2>2, CoalescedMoves, HeldIsFresh DEF Plays
  <2>. QED  BY <1>0, <1>1, <2>1, <2>2, <2>3, <2>4, <2>5 DEF Accepts
<1>. QED  BY <1>2, <1>3, <1>4 DEF Submit

LEMMA NextForms ==
    ASSUME IInv, IInv', Busy, [Next]_vars
    PROVE  Ends \/ Begins \/ Refuses \/ Accepts
<1> USE SpeakerManagerAssumption
<1>1. ASSUME UNCHANGED <<queues, inFlight, ledger>>  PROVE Ends
  <2>1. \A x \in Announcements : Stays(x)
    BY <1>1 DEF Stays, Waits, Plays, queues, ledger
  <2>. QED  BY <1>1, <2>1, NothingMoves DEF ledger
<1>2. ASSUME NEW s \in Speakers, SendPill(s)  PROVE Ends
  <2>1. \A x \in Announcements : Stays(x)
    BY <1>2, SendPillMoves DEF SendPill, Stays, Plays, tasks, ledger
  <2>. QED  BY <1>2, <2>1, NothingMoves DEF SendPill, ledger
<1>3. ASSUME NEW A \in SUBSET Speakers, SetAvailableIds(A)  PROVE Ends
  <2> DEFINE S == available \ Known(A)
  <2> PICK B : B = {}
    OBVIOUS
  <2>1. /\ S \in SUBSET Speakers /\ Drain(S) /\ UNCHANGED <<submitted, accepted, inFlight>>
        /\ outcomes' = Recorded(Waiting(S) \cup B, "dropped")
    BY <1>3 DEF SetAvailableIds, IInv, TypeOK, tasks
  <2> HIDE DEF S
  <2>. QED  BY <2>1, DrainEnds DEF Plays
<1>4. ASSUME NEW newAuth \in AuthStates, SetAuthStatus(newAuth)  PROVE Ends
  <2>1. CASE newAuth = "reauth_required"
    <3> PICK B : B = {}
      OBVIOUS
    <3>1. /\ installed \in SUBSET Speakers /\ Drain(installed)
          /\ UNCHANGED <<submitted, accepted, inFlight>>
          /\ outcomes' = Recorded(Waiting(installed) \cup B, "dropped")
      BY <1>4, <2>1 DEF SetAuthStatus, ApplyAuth, IInv, TypeOK, tasks
    <3>. QED  BY <3>1, DrainEnds DEF Plays
  <2>2. CASE newAuth # "reauth_required"
    BY <1>1, <1>4, <2>2 DEF SetAuthStatus, ApplyAuth, tasks, ledger
  <2>. QED  BY <2>1, <2>2
<1>5. CASE \/ Start \/ Stop \/ StopReturns \/ UNCHANGED vars
           \/ \E c \in Cameras, r \in Rules : SwitchRule(c, r)
           \/ \E c \in Cameras, s \in Speakers : Pair(c, s)
           \/ \E a \in ObjectAnnouncements : Age(a)
  BY <1>1, <1>5 DEF Start, Stop, StopReturns, SwitchRule, Pair, Age, vars, tasks
<1>. QED
  BY <1>2, <1>3, <1>4, <1>5, WorkerForms, SubmitForms, ReplaceEnds, BeginReplaceEnds
     DEF Next, CallStep

-----------------------------------------------------------------------------
(* A camera's announcements of one rule come in order; what is held has been   *)
(* accepted; and of the object announcements of a camera the newest waits.     *)
Ordered ==
    \A a, b \in Announcements :
        b \in submitted /\ a < b /\ CameraOf[a] = CameraOf[b] /\ RuleOf(a) = RuleOf(b) =>
            a \in submitted

HeldAccepted == \A a \in Held : a \in accepted

Newest ==
    \A a \in ObjectAnnouncements, b \in ObjectAnnouncements \cap accepted :
        Waits(a) /\ SpeakerOf[b] = SpeakerOf[a] /\ CameraOf[b] = CameraOf[a] => b <= a

LedgerInv == Busy /\ Ordered /\ HeldAccepted /\ Newest

LEMMA SubmittedIsNewest ==
    ASSUME Ordered, NEW a \in ObjectAnnouncements, MaySubmit(a),
           NEW b \in ObjectAnnouncements, b \in submitted, CameraOf[b] = CameraOf[a]
    PROVE  b < a
<1>1. /\ a \in Announcements /\ b \in Announcements /\ RuleOf(a) = RuleOf(b)
      /\ a \in Nat /\ b \in Nat /\ b # a
  BY SpeakerManagerAssumption DEF SpeakerManagerAssumption, RuleOf, MaySubmit
<1>2. ~(a < b)
  BY <1>1 DEF Ordered, MaySubmit
<1>. QED  BY <1>1, <1>2

LEMMA InitLedgerInv == Init => LedgerInv
<1> SUFFICES ASSUME Init PROVE LedgerInv
  OBVIOUS
<1>1. \A a \in Announcements : ~Waits(a) /\ ~Plays(a)
  BY SpeakerManagerAssumption DEF Init, Waits, Plays, Range, SpeakerManagerAssumption
<1>2. Busy /\ Ordered
  BY DEF Init, Busy, Tasks, Ordered
<1>3. HeldAccepted /\ Newest
  BY <1>1, SpeakerManagerAssumption DEF HeldAccepted, Held, Newest, SpeakerManagerAssumption
<1>. QED  BY <1>2, <1>3 DEF LedgerInv

LEMMA NextLedgerInv ==
    ASSUME IInv, LedgerInv, [Next]_vars
    PROVE  LedgerInv'
<1> USE SpeakerManagerAssumption
<1>1. TypeOK /\ IInv' /\ Busy'
  BY NextIInv, NextBusy DEF IInv, LedgerInv
<1>2. (\A a \in ObjectAnnouncements : Waits(a) => pending[SpeakerOf[a]][CameraOf[a]] = a)'
  BY <1>1, BehindItsKey, PTL
<1>2a. HeldFresh'
  BY <1>1, HeldHasNoEvent, PTL
<1>3. ASSUME UNCHANGED <<submitted, accepted>>,
             \A x \in Announcements : Waits(x)' => Waits(x),
             \A x \in Announcements : Plays(x)' => Plays(x) \/ Waits(x)
      PROVE  Ordered' /\ HeldAccepted' /\ Newest'
  <2>1. Ordered'
    BY <1>3 DEF LedgerInv, Ordered
  <2>2. HeldAccepted'
    BY <1>3 DEF LedgerInv, HeldAccepted, Held
  <2>3. Newest'
    BY <1>3 DEF LedgerInv, Newest, SpeakerManagerAssumption
  <2>. QED  BY <2>1, <2>2, <2>3
<1>4. CASE Ends
  <2>1. PICK A \in SUBSET Held :
            /\ \A x \in Announcements \ A : Stays(x)
            /\ \/ \A x \in A : outcomes'[x] # <<>>
               \/ \A x \in A : ~Waits(x)' /\ ~Plays(x)'
    BY <1>4 DEF Ends
  <2>3. \A x \in A : x \in Announcements
    BY DEF Held
  <2>4. \A x \in A : ~Waits(x)' /\ ~Plays(x)'
    <3>1. CASE \A x \in A : outcomes'[x] # <<>>
      BY <3>1, <1>2a, <2>3 DEF HeldFresh
    <3>. QED  BY <3>1, <2>1
  <2>5. /\ \A x \in Announcements : Waits(x)' => Waits(x)
        /\ \A x \in Announcements : Plays(x)' => Plays(x)
    BY <2>1, <2>4 DEF Stays
  <2>6. UNCHANGED <<submitted, accepted>>
    BY <1>4 DEF Ends
  <2>. QED  BY <1>1, <1>3, <2>5, <2>6 DEF LedgerInv
<1>5. CASE Begins
  <2>1. /\ \A x \in Announcements : Waits(x)' => Waits(x)
        /\ \A x \in Announcements : Plays(x)' => Plays(x) \/ Waits(x)
    BY <1>5 DEF Begins, Stays
  <2>2. UNCHANGED <<submitted, accepted>>
    BY <1>5 DEF Begins
  <2>. QED  BY <1>1, <1>3, <2>1, <2>2 DEF LedgerInv
<1>6. ASSUME NEW a \in Announcements, MaySubmit(a), submitted' = submitted \cup {a}
      PROVE  Ordered'
  BY <1>6 DEF LedgerInv, Ordered, MaySubmit, SpeakerManagerAssumption
<1>7. CASE Refuses
  <2>1. PICK a \in Announcements :
            /\ MaySubmit(a) /\ submitted' = submitted \cup {a} /\ accepted' = accepted
            /\ \A x \in Announcements \ {a} : Stays(x)
            /\ ~Waits(a)' /\ ~Plays(a)'
    BY <1>7 DEF Refuses
  <2>2. HeldAccepted'
    BY <2>1 DEF LedgerInv, HeldAccepted, Held, Stays
  <2>3. Newest'
    BY <2>1 DEF LedgerInv, Newest, Stays, SpeakerManagerAssumption
  <2>. QED  BY <1>1, <1>6, <2>1, <2>2, <2>3 DEF LedgerInv
<1>8. CASE Accepts
  <2>1. PICK a \in Announcements :
            /\ MaySubmit(a) /\ submitted' = submitted \cup {a} /\ accepted' = accepted \cup {a}
            /\ Waits(a)' /\ ~Plays(a)'
            /\ \A x \in Announcements \ {a} : \/ Stays(x)
                                              \/ ~Waits(x)' /\ ~Plays(x)'
    BY <1>8 DEF Accepts
  <2>2. HeldAccepted'
    BY <2>1 DEF LedgerInv, HeldAccepted, Held, Stays
  <2>3. ASSUME NEW x \in ObjectAnnouncements, NEW b \in ObjectAnnouncements,
               Waits(x)', b \in accepted', SpeakerOf[b] = SpeakerOf[x], CameraOf[b] = CameraOf[x]
        PROVE  b <= x
    <3>0. x \in Announcements /\ b \in Announcements /\ x \in Nat /\ b \in Nat
      BY DEF SpeakerManagerAssumption
    <3>1. CASE x = a
      <4>1. b \in accepted => b < x
        BY <2>1, <2>3, <3>1, SubmittedIsNewest, <1>1 DEF LedgerInv, TypeOK
      <4>. QED  BY <2>1, <2>3, <3>0, <3>1, <4>1
    <3>2. CASE x # a /\ b = a
      <4>1. pending'[SpeakerOf[x]][CameraOf[x]] = x /\ pending'[SpeakerOf[a]][CameraOf[a]] = a
        BY <1>2, <2>1, <2>3, <3>0, <3>2
      <4>. QED  BY <2>3, <3>2, <4>1
    <3>3. CASE x # a /\ b # a
      BY <2>1, <2>3, <3>0, <3>3 DEF LedgerInv, Newest, Stays
    <3>. QED  BY <3>1, <3>2, <3>3
  <2>4. Newest'
    BY <2>3 DEF Newest
  <2>. QED  BY <1>1, <1>6, <2>1, <2>2, <2>4 DEF LedgerInv
<1>9. Ends \/ Begins \/ Refuses \/ Accepts
  BY <1>1, NextForms DEF LedgerInv
<1>. QED  BY <1>1, <1>4, <1>5, <1>3, <1>7, <1>8, <1>9 DEF LedgerInv

LEMMA LedgerInvCorrect == Spec => [](IInv /\ LedgerInv)
<1>1. Init => LedgerInv
  BY InitLedgerInv
<1>2. IInv /\ LedgerInv /\ [Next]_vars => LedgerInv'
  BY NextLedgerInv
<1>. QED  BY <1>1, <1>2, IInvCorrect, PTL DEF Spec

(* What a speaker begins to play, of the object announcements of one camera,   *)
(* is the newest it accepted: whatever was superseded, drained or dropped.     *)
THEOREM NewestSpoken == Spec => NewestIsSpoken
<1>1. IInv /\ IInv' /\ LedgerInv /\ [Next]_vars =>
          [\A s \in Speakers, b \in ObjectAnnouncements \cap accepted :
             LET a == inFlight'[s] IN
             a # inFlight[s] /\ a \in ObjectAnnouncements
             /\ CameraOf[b] = CameraOf[a] /\ SpeakerOf[b] = s => b <= a]_vars
  <2> SUFFICES ASSUME IInv, IInv', LedgerInv, [Next]_vars,
                      NEW s \in Speakers, NEW b \in ObjectAnnouncements \cap accepted,
                      NEW a, a = inFlight'[s], a # inFlight[s], a \in ObjectAnnouncements,
                      CameraOf[b] = CameraOf[a], SpeakerOf[b] = s
               PROVE  b <= a
    OBVIOUS
  <2>1. a \in Announcements /\ a # None
    BY SpeakerManagerAssumption DEF SpeakerManagerAssumption
  <2>2. SpeakerOf[a] = s
    BY <2>1 DEF IInv, SpeakerInv, InFlightInv
  <2>3. Plays(a)' /\ ~Plays(a)
    BY <2>2 DEF Plays
  <2>4. Waits(a)
    <3>1. Ends \/ Begins \/ Refuses \/ Accepts
      BY NextForms DEF LedgerInv
    <3>2. CASE Ends
      <4>1. \A x \in Announcements : x \in Held \/ ~Plays(x)'
        BY <3>2 DEF Ends, Stays, Held
      <4>. QED  BY <2>1, <2>3, <4>1 DEF Held
    <3>3. CASE Begins
      BY <2>1, <2>3, <3>3 DEF Begins, Stays
    <3>4. CASE Refuses
      BY <2>1, <2>3, <3>4 DEF Refuses, Stays
    <3>5. CASE Accepts
      BY <2>1, <2>3, <3>5 DEF Accepts, Stays
    <3>. QED  BY <3>1, <3>2, <3>3, <3>4, <3>5
  <2>. QED  BY <2>2, <2>4 DEF LedgerInv, Newest
<1>. QED  BY <1>1, LedgerInvCorrect, PTL DEF Spec, NewestIsSpoken

-----------------------------------------------------------------------------
(* The fate of an announcement, read off the place where it is.                *)
Fate(x) ==
    IF x \notin submitted THEN "new"
    ELSE IF Plays(x) THEN "playing"
    ELSE IF Waits(x) THEN "waiting"
    ELSE IF x \in accepted /\ outcomes[x] = <<>> THEN "lost"
    ELSE "closed"

FateByPlace == fate = [x \in Announcements |-> Fate(x)]

LEMMA FateIsByPlace == IInv /\ HeldAccepted => FateByPlace
<1> SUFFICES ASSUME IInv, HeldAccepted PROVE FateByPlace
  OBVIOUS
<1>1. HeldFresh
  BY HeldHasNoEvent
<1>2. ASSUME NEW x \in Announcements
      PROVE  Fate(x) = IF x \notin submitted THEN "new"
                       ELSE IF outcomes[x] # <<>> \/ x \notin accepted THEN "closed"
                       ELSE IF x \in Range(inFlight) THEN "playing"
                       ELSE IF x \in Waiting(Speakers) THEN "waiting" ELSE "lost"
  <2>1. (x \in Range(inFlight) <=> Plays(x)) /\ (x \in Waiting(Speakers) <=> Waits(x))
    BY PlaysWhere, WaitsWhere, SpeakerManagerAssumption DEF SpeakerManagerAssumption
  <2>2. Waits(x) \/ Plays(x) => outcomes[x] = <<>> /\ x \in accepted
    BY <1>1 DEF HeldFresh, HeldAccepted, Held
  <2>. QED  BY <2>1, <2>2 DEF Fate
<1>. QED  BY <1>2 DEF FateByPlace, fate

LEMMA HeldFate ==
    ASSUME IInv, NEW x \in Announcements
    PROVE  /\ Plays(x) <=> Fate(x) = "playing"
           /\ Waits(x) <=> Fate(x) = "waiting"
BY HeldIsFresh DEF Fresh, Fate

LEMMA FateStays ==
    ASSUME NEW x, Stays(x), x \in submitted' <=> x \in submitted, x \in accepted' <=> x \in accepted
    PROVE  Fate(x)' = Fate(x)
BY DEF Stays, Fate

LEMMA FateMoves ==
    ASSUME FateByPlace, FateByPlace', NEW A \in SUBSET Announcements, NEW f,
           \A x \in A : Fate(x)' = f, \A x \in Announcements \ A : Fate(x)' = Fate(x)
    PROVE  Ledger!Move(A, f)
BY DEF FateByPlace, Ledger!Move

LEMMA InitLedger == Init => Ledger!Init
<1> SUFFICES ASSUME Init PROVE Ledger!Init
  OBVIOUS
<1>. QED  BY DEF Init, fate, Ledger!Init

(* What an end of the tasks, a drain, a skip or an answer does is a Close or a *)
(* Lose of the ledger,                                                         *)
LEMMA EndsLedger ==
    ASSUME IInv, IInv', LedgerInv, LedgerInv', FateByPlace, FateByPlace', Ends
    PROVE  Ledger!Close \/ Ledger!Lose
<1>1. HeldFresh /\ HeldAccepted
  BY HeldHasNoEvent DEF LedgerInv
<1>2. HeldFresh'
  BY HeldHasNoEvent, PTL
<1>3. UNCHANGED <<submitted, accepted>>
  BY DEF Ends
<1>4. PICK A \in SUBSET Held :
         /\ \A x \in Announcements \ A : Stays(x)
         /\ \/ \A x \in A : outcomes'[x] # <<>>
            \/ \A x \in A : /\ ~Waits(x)' /\ ~Plays(x)' /\ outcomes'[x] = <<>>
                            /\ ~(Live(SpeakerOf[x]) /\ Live(SpeakerOf[x])')
  BY DEF Ends
<1>5. A \in SUBSET Announcements
  BY DEF Held
<1>6. \A x \in A : x \in submitted' /\ x \in accepted'
  BY <1>1, <1>3, <1>5 DEF HeldFresh, HeldAccepted, Held
<1>7. \A x \in Announcements \ A : Fate(x)' = Fate(x)
  BY <1>3, <1>4, FateStays
<1>8. A \in SUBSET Ledger!In({"waiting", "playing"})
  BY <1>5, HeldFate DEF Held, FateByPlace, Ledger!In
<1>9. CASE \A x \in A : outcomes'[x] # <<>>
  <2>1. \A x \in A : ~Waits(x)' /\ ~Plays(x)'
    BY <1>2, <1>5, <1>9 DEF HeldFresh
  <2>2. \A x \in A : Fate(x)' = "closed"
    BY <1>6, <1>9, <2>1 DEF Fate
  <2>. QED  BY <1>5, <1>7, <1>8, <2>2, FateMoves DEF Ledger!Close
<1>10. CASE \A x \in A : /\ ~Waits(x)' /\ ~Plays(x)' /\ outcomes'[x] = <<>>
                         /\ ~(Live(SpeakerOf[x]) /\ Live(SpeakerOf[x])')
  <2>1. \A x \in A : Fate(x)' = "lost"
    BY <1>6, <1>10 DEF Fate
  <2>2. Ledger!Move(A, "lost")
    BY <1>5, <1>7, <2>1, FateMoves
  <2>. QED  BY <1>8, <1>10, <2>2 DEF Ledger!Lose
<1>. QED  BY <1>4, <1>9, <1>10

(* what a worker takes up is a Play of an announcement that waits,             *)
LEMMA BeginsLedger ==
    ASSUME IInv, IInv', FateByPlace, FateByPlace', Begins
    PROVE  \E a \in Announcements : Ledger!Play(a)
<1>1. UNCHANGED <<submitted, accepted>>
  BY DEF Begins
<1>2. PICK a \in Announcements :
         /\ \A x \in Announcements \ {a} : Stays(x)
         /\ Waits(a) /\ ~Waits(a)' /\ Plays(a)' /\ outcomes'[a] = outcomes[a]
         /\ Live(SpeakerOf[a]) /\ inFlight[SpeakerOf[a]] = None
  BY DEF Begins
<1>3. a \in Ledger!In({"waiting"}) /\ SpeakerOf[a] \in Speakers
  BY <1>2, HeldFate, SpeakerManagerAssumption
     DEF FateByPlace, Ledger!In, SpeakerManagerAssumption
<1>4. ASSUME NEW b \in Ledger!In({"playing"})  PROVE SpeakerOf[b] # SpeakerOf[a]
  <2>1. b \in Announcements /\ Plays(b) /\ b # None
    BY HeldFate, SpeakerManagerAssumption DEF FateByPlace, Ledger!In, SpeakerManagerAssumption
  <2>. QED  BY <1>2, <2>1 DEF Plays
<1>5. Fate(a)' = "playing"
  BY <1>1, <1>2, HeldHasNoEvent DEF HeldFresh, Fate
<1>6. \A x \in Announcements \ {a} : Fate(x)' = Fate(x)
  BY <1>1, <1>2, FateStays
<1>7. Ledger!Move({a}, "playing")
  <2> PICK A : A = {a}
    OBVIOUS
  <2>. QED  BY <1>5, <1>6, FateMoves
<1>. QED  BY <1>2, <1>3, <1>4, <1>7 DEF Ledger!Play

(* and what a submit() answers is a Refuse or an Accept.                       *)
LEMMA RefusesLedger ==
    ASSUME IInv, FateByPlace, FateByPlace', Refuses
    PROVE  \E a \in Announcements : Ledger!Refuse(a)
<1>1. PICK a \in Announcements :
         /\ MaySubmit(a) /\ submitted' = submitted \cup {a} /\ accepted' = accepted
         /\ \A x \in Announcements \ {a} : Stays(x)
         /\ ~Waits(a)' /\ ~Plays(a)'
  BY DEF Refuses
<1>2. a \notin submitted /\ a \notin accepted'
  BY <1>1 DEF MaySubmit, IInv, TypeOK
<1>3. Fate(a) = "new" /\ Fate(a)' = "closed"
  BY <1>1, <1>2 DEF Fate
<1>4. \A x \in Announcements \ {a} : Fate(x)' = Fate(x)
  BY <1>1, FateStays
<1>5. Ledger!Move({a}, "closed")
  <2> PICK A : A = {a}
    OBVIOUS
  <2>. QED  BY <1>3, <1>4, FateMoves
<1>. QED  BY <1>3, <1>5 DEF FateByPlace, Ledger!Refuse, Ledger!In

LEMMA AcceptsLedger ==
    ASSUME IInv, LedgerInv, FateByPlace, FateByPlace', Accepts
    PROVE  \E a \in Announcements : Ledger!Accept(a)
<1>1. PICK a \in Announcements :
        /\ MaySubmit(a) /\ submitted' = submitted \cup {a} /\ accepted' = accepted \cup {a}
        /\ Waits(a)' /\ ~Plays(a)' /\ outcomes'[a] = <<>>
        /\ \/ \A x \in Announcements \ {a} : Stays(x)
           \/ \E b \in ObjectAnnouncements :
                /\ \A x \in Announcements \ {a, b} : Stays(x)
                /\ Waits(b) /\ ~Waits(b)' /\ ~Plays(b)' /\ outcomes'[b] # <<>> /\ b # a
                /\ SpeakerOf[b] = SpeakerOf[a] /\ CameraOf[b] = CameraOf[a]
                /\ a \in ObjectAnnouncements
  BY DEF Accepts
<1>2. Fate(a) = "new" /\ Fate(a)' = "waiting"
  BY <1>1 DEF Fate, MaySubmit
<1>3. a \in Ledger!In({"new"})
  BY <1>2 DEF FateByPlace, Ledger!In
<1>4. CASE \A x \in Announcements \ {a} : Stays(x)
  <2>1. \A x \in Announcements \ {a} : Fate(x)' = Fate(x)
    BY <1>1, <1>4, FateStays
  <2>2. Ledger!Move({a}, "waiting")
    <3> PICK A : A = {a}
      OBVIOUS
    <3>. QED  BY <1>2, <2>1, FateMoves
  <2>. QED  BY <1>3, <2>2 DEF Ledger!Accept
<1>5. ASSUME NEW b \in ObjectAnnouncements,
             \A x \in Announcements \ {a, b} : Stays(x),
             Waits(b), ~Waits(b)', ~Plays(b)', outcomes'[b] # <<>>, b # a,
             SpeakerOf[b] = SpeakerOf[a], CameraOf[b] = CameraOf[a],
             a \in ObjectAnnouncements
      PROVE  Ledger!Accept(a)
  <2>1. b \in Announcements
    BY SpeakerManagerAssumption DEF SpeakerManagerAssumption
  <2>2. b \in submitted
    BY <1>5, <2>1, HeldHasNoEvent DEF HeldFresh
  <2>3. b < a
    BY <1>1, <1>5, <2>2, SubmittedIsNewest DEF LedgerInv
  <2>4. Fate(b) = "waiting" /\ Fate(b)' = "closed"
    BY <1>1, <1>5, <2>1, <2>2, HeldFate DEF Fate
  <2>5. \A x \in Announcements \ {a, b} : Fate(x)' = Fate(x)
    BY <1>1, <1>5, FateStays
  <2>6. b \in Ledger!In({"waiting"})
    BY <2>1, <2>4 DEF FateByPlace, Ledger!In
  <2>7. fate' = [fate EXCEPT ![a] = "waiting", ![b] = "closed"]
    BY <1>2, <1>5, <2>1, <2>4, <2>5 DEF FateByPlace
  <2>. QED  BY <1>3, <1>5, <2>3, <2>6, <2>7 DEF Ledger!Accept
<1>. QED  BY <1>1, <1>4, <1>5

(* The workers keep the promise of AnnouncementLedger: every step of theirs is *)
(* one of its steps, for any speakers, queues and callers.                     *)
THEOREM LedgerKept == Spec => KeepsLedger
<1>1. Init => Ledger!Init
  BY InitLedger
<1>2. /\ IInv /\ IInv' /\ LedgerInv /\ LedgerInv' /\ FateByPlace /\ FateByPlace'
      /\ [Next]_vars
      => Ledger!Next
  <2> SUFFICES ASSUME IInv, IInv', LedgerInv, LedgerInv', FateByPlace, FateByPlace', [Next]_vars
               PROVE  Ledger!Next
    OBVIOUS
  <2>1. Ends \/ Begins \/ Refuses \/ Accepts
    BY NextForms DEF LedgerInv
  <2>2. {s \in Speakers : Live(s)}' \subseteq Speakers
    OBVIOUS
  <2>. QED
    BY <2>1, <2>2, EndsLedger, BeginsLedger, RefusesLedger, AcceptsLedger DEF Ledger!Next
<1>3. IInv /\ LedgerInv => FateByPlace
  BY FateIsByPlace DEF LedgerInv
<1>. QED  BY <1>1, <1>2, <1>3, LedgerInvCorrect, PTL DEF Spec, KeepsLedger, Ledger!Spec

=============================================================================
