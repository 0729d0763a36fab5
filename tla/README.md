# GuDuck in TLA+

GuDuck (`src/src/guduck/`) watches home cameras, detects persons and objects, and announces them on
Xiaomi speakers.  One asyncio event loop runs the application; readers of the cameras, detector
inferences and text-to-speech calls run in threads.  This directory holds TLA+ modules of its parts,
TLC configurations that check them on small instances, and TLAPS proofs for every instance.

    tlc -workers 2 -config MCSpeakerManager.cfg MCSpeakerManager
    tlapm SpeakerManagerProofs.tla

`PROJECT.json` lists the runs, the source lines each definition models, the mutants each property
kills, the hazards of the code and the theorems.

## 1. The system

    camera --RTSP/ffmpeg--> FrameSource --frame--> CameraRuntime --request--> DetectionScheduler
    (go2rtc)                (thread)               (task per camera)          (one consumer task,
                                                     | announcement            inference in a thread)
                                                     v
    Xiaomi cloud <--speak() in a thread-- SpeakerManager (queue + task per speaker)
         ^                                   |  reauth_required callback
         |                                   v
    XiaomiAccount <--- web.py ---> Runtime (its _lock; starts, stops and rebuilds all of the above)
         |                            |
         +--------- Storage (SQLite: cameras, rules, bindings, events) ----------+

| Component | State it keeps | Operations | What makes it correct |
|---|---|---|---|
| Speaker workers, `speaker_worker.py` | bindings, gates (`auth_status`, `_available_ids`, `fatal_error`), a queue, pending object announcements and a task per speaker | `submit`, `start`, `stop`, `replace_speakers`, `set_available_ids`, `set_auth_status`, the worker loop | each announcement is played, recorded or given up once; gates leave nothing waiting; calls return |
| Detection scheduler, `detection_scheduler.py` | detector and status of each kind, job queue, registered requests, consumer task | `enable`, `disable`, `close`, `replace_factory`, `_detect`, the consumer | requests are answered by the installed detector; failures stay with their kind; stopping is bounded |
| Camera pipeline, `camera_runtime.py`, `presence.py`, `rules.py`, `object_rule.py`, `vision/scene_change.py` | the loop task, presence window, cooldown, scene reference, outage | `start`, `stop`, the detection loop | gaps are no evidence; outages show; `stop` returns; one request per kind |
| Object selection and region, `object_selection.py`, `detection_region.py` | none | pure functions | a region lies in the picture |
| Frame source, `vision/frame_source.py` | latest frame, ffmpeg process, stop flag, back-off | `start`, `wait_for_frame`, `stop`, reader thread, watchdog | no process outlives `stop`; a stalled stream is restarted |
| Runtime, `runtime.py` | camera runtimes, rule and speaker settings, `_lock` | `start`, `stop`, `refresh_cameras`, the `set_…` calls, `_reconcile` | cameras run exactly as the storage says; shutdown ends |
| Xiaomi account, `xiaomi.py` | state, authentication attempt, devices, published speakers | `start_auth`, `submit_otp`, `cancel_auth`, `refresh_devices`, `save_bindings`, `mark_auth_required`, expiry | one attempt; the answer of an old account or attempt changes nothing |
| Storage, `storage.py` | SQLite tables | synchronisation, events, bindings, confirmations, migrations | bindings change only as confirmed; a restart repeats nothing |
| Database file, `database.py` | file names | migration of the old name | a crash at any step loses no data |
| Region editor, `static/region-editor.js` | region, draft, interaction, saves under way | draw, move, resize, type, reset, preview, save | the region stays in the picture but for rounding; what is called saved is saved |
| Speaker client, detectors, web API, other browser code, entry point, tools | little or none | I/O, rendering, numerical code | see `PROJECT.json` for why each is left out |

What is hard here is not parallel memory access but **awaits**: whatever runs between two awaits of
the event loop is atomic, and everything read before an await may have changed after it.  Added to
that are threads a cancelled task leaves behind, timeouts of `stop()`, bounded queues, a worker that
dies when the storage raises, and settings that change while something is queued.  The hazards are
listed with their lines in `PROJECT.json`.

## 2. The modules

| Module | Models |
|---|---|
| `SpeakerManager` | `speaker_worker.py`: all methods that change state, and the switches and pairings the workers read |
| `AnnouncementLedger` | abstract specification: what the workers promise about each announcement |
| `MCSpeakerManager` | instances for TLC |
| `SpeakerManagerProofs` | types, all safety properties of the workers, and that every step is a step of `AnnouncementLedger` |
| `DetectionScheduler` | `detection_scheduler.py`, and the order in which `Runtime` calls it |
| `MCDetectionScheduler` | instances |
| `DetectionSchedulerProofs` | types and five of the properties, from one inductive invariant |
| `Presence` | `presence.py` as functions of the tracker's state |
| `CameraRuntime` | `camera_runtime.py`, `rules.py` and the scene gate: one camera and its successive runtimes |
| `MCCameraRuntime` | instances |
| `CameraRuntimeProofs` | types, that gaps are no evidence of a leave or an entry, and that outages show |
| `Runtime` | `runtime.py`: the calls under `_lock` and `_reconcile`, with what the account, the workers and the server's lifespan bring about |
| `MCRuntime` | instances |
| `RuntimeProofs` | types, and what each await of `_reconcile` has made of the cameras |
| `XiaomiAccount` | `xiaomi.py`: the account in use, the attempts to authorize another, saves and publication |
| `XiaomiAccountProofs` | types, one attempt, its release, accounts apart, and workers as stored |
| `SpeakerBindings` | the rows of `storage.py` for speakers, bindings and cameras, the device lists of `xiaomi.py` that name them, and the confirmations |
| `FrameSource` | `vision/frame_source.py`: the reader and watchdog threads, `start`, `stop`, and ffmpeg |
| `FrameSourceProofs` | types, and never two ffmpegs |
| `Startup` | `database.py` and `Storage.initialize`: the rename and the migrations, with crashes |
| `StorageProofs` | `Startup`: types, and that nothing is lost; `SpeakerBindings`: types and all its properties |
| `RegionEditor` | `static/region-editor.js`, with the requests of `web.py` it sends and the check of `detection_region.py` |
| `RegionEditorProofs` | types, the geometry of an edit, and that the page shows what is saved |
| `MC…` of each | instances |

**Grain.** An action is the code between two awaits, trailing calls included.  The awaits of each
task are the values of a control variable (`worker`, `consumer`, `loop`, `call`).

### SpeakerManager

`queue[s]` holds what the code's `asyncio.Queue` holds: a welcome itself, the *coalesce key* of an
object announcement (its camera), or the pill `None`; `pending[s]` is `_pending_actions`.  `worker`
says at which await a task is; `crashed` and `failed` are a dead task before and after its done
callback.  `stop()` is split at `put(None)` on the bounded queue (`SendPill`) and at `gather`
(`StopReturns`), `replace_speakers()` at its `gather` (`BeginReplace`, `FinishReplace`).  `speak()`
may return, return `reauth_required`, or be followed by a storage error that ends the worker, before or
after the status has been set.  A `record_event` that raises within a drain or a submit, and so breaks
it off half-way, is not modelled.  Time is kept only where it matters: an object
announcement older than three seconds is `aged`.  `outcomes` are the recorded events.

`fate` maps this state to `AnnouncementLedger`, and the run `speakers_live` checks that every step is
a step of it: refused or accepted once, played one at a time per speaker, never repeated, and lost
only where a worker is gone.

### DetectionScheduler

A request is the number of its future; `keys` gives its kind and camera; `pending` is what is
registered.  `call` is the await at which a call of `Runtime` is: calls come one at a time because
`Runtime` makes them under its lock.  `detector[k]` is the number of the call that loaded the
instance, so an exchange is seen as a different instance.  The thread that a cancelled consumer
leaves in `detect()` is not followed.  A camera waits for its answer before its next
request, and may give up only between calls (`CameraRuntime.stop`).

### Presence and CameraRuntime

`Observe`, `Invalidate` and `Window` are `PresenceTracker`.  A frame is known by the time it was captured:
`Arrives` makes one the `latest`, as the reader of the stream does at any moment, and the loop judges
the person in it at that time (`sample`), not at the time it gets round to it.  The wait for a frame
runs in a thread, so it ends (`WaitEnds`) and the loop goes on later (`MissingFrame`, `Frame`); with the
detection (`gather`) these are its awaits.  `Judge` is all of `_process_sample` after its await, with
presence, rule and the next round of the loop.  Recording an event may raise in `MissingFrame`
and, after the tracker has changed, in `Judge` (`JudgeRaises`), which ends the loop.  `held` is what of
the scheduler matters to a camera: the keys that are registered for
it, including one left there by a runtime whose `stop()` timed out.  `Fresh` is the state of a new
runtime; after `StopReturns` the next may start.  `disturbed`, `sightings` and `quiet` are
history variables: properties relate them to the code's state, no guard reads them.

### Runtime

`waiters` is the queue of `asyncio.Lock`, first come first served; `turn` is the call that holds the
lock and `at` the await it is at.  A call acts (`SetRule`, `SetSpeaker`, `SetRegion`, `RefreshState`,
`Discovered`) up to the first await of `_reconcile`, so each of these actions contains `Reconcile`,
which fixes `wanted`, the code's `desired`, for the rest of the call.  What follows is one action per
camera and await: `Drop`, `StopOld`, `StartNew`, each of which may fail; `Detectors` stands for the
loads and unloads together, of which any may fail.  Between them run `Publish` (the account),
`LosesAccount`, `WorkerDies` and `PillsDrained` (the workers), `DetectorFails`, `LeftJob` and
`InferenceHangs` (the scheduler) and `Frame` (the first frame a runtime sees).

The object model is exchanged by `SetAdapter`, which waits under the lock for the inference in progress,
and `Exchange`, which loads the new detector unless the kind is stopped; which adapter it is, and storing
the choice, are left out.  `left` and `degraded` are what makes the exchange go wrong: a job left in
the queue by `disable` fails later and turns the disabled kind degraded, and the exchange takes that for a
detector in use.  `hung` are the awaits that never end: the queue of a dead worker that is full, a
drained pill, an inference.

`Start` and `Stop` are the lifespan of the web server, which waits for its requests before it calls
`Runtime.stop`; only a worker's callback can still come then, which is `"notice"` in `waiters`.
`alive` is FALSE for a runtime whose `stop()` failed: `CameraRuntime.stop` has told its loop to end
by then.  All cameras are in the storage from the beginning, with a region of `StoredRegions`.  `observed`, the
region of the last frame the object rule of a camera saw, `spent`, the cameras whose runtime ended before the
first frame it was to suppress, and `reloaded`, the degraded kinds an exchange loaded, are history variables.

### XiaomiAccount

`att[a]` is the `_AuthAttempt` of attempt `a`, `auth[a]` the await of its task, `timer[a]` its
`_expire_attempt`.  `_finish_attempt` is called by six callers (`Endings`), awaits the task and the
timer and then the closing of the session, so each call is a member of `ends` with the await it is
at, and several may be under way for one attempt.  `save` is the await of `save_bindings`: the end
of its attempt, `replace_speakers`, the closing of the old session.  A session is a number, 0 for
the one `start()` makes of the stored account; `owner` and `open` say whose it is and whether it is
closed.  Refreshes are a set and cross each other and everything else.  The workers are seen from here:
the session and devices they were given.  `Alone` is a bound, not a lock of the code: one save, one test and
one speech are under way at a time.  `crossed` names what the properties except: the requests whose answers came
after a save that they began before, a save from an attempt that was being ended (`"end"`), and a test
that lost the account and told nobody (`"untold"`).

### SpeakerBindings

`row` is `speaker_bindings` by device, `pairing` is `cameras.speaker_id`; `snapshot` and the list of
`choice` say which binding id each listed device has.  `Save` is the whole transaction of
`replace_xiaomi_configuration`, with the confirmation it uses up; `SaveFails` rolls it back.
A confirmation (`asked`) is issued for what is selected, removed and taken from which cameras, and
ages with `Tick`.  Each member of `refreshes` has the snapshot it found before its await; any number
of them overlap.  `XiaomiAccount` and this module divide `xiaomi.py` between them: there sessions
and awaits, here ids, rows and confirmations.

### FrameSource

`reader`, `watchdog` and `call` are the steps of `_run`, `_watch_stalls` and `stop()` that another
thread can tell apart, `own`, `suspect` and `taken` the process each has read from `_process`.  An
ffmpeg may exit or close its output at any moment, go silent, and heed only the second SIGTERM.
Process names are used again once nobody holds them, so the back-off goes on for ever.

### Startup

`legacy` and `current` are the directory entries under the old and the new name.  Every `link`,
`unlink` and commit is an action, and `Crash` or an error (`Fails`) may come between any two.
`executescript` commits on its own, so creating a first database has a state in between (`"partly"`); the
migrations work in `work` until they commit.  `lost` records that the database was opened without the journal
it was written with.

### RegionEditor

One axis of the picture, with positions in the units of `roundSix` and the pointer at halves of them:
at a position that is no half, the length beside it gains what the position loses.  `enabled` is
the save button, which is not a function of the rest: a text that is not valid locks it, and an
edit or a preview may open it again while a save is under way.  A drag starts from any region, also one
outside the picture, up to `MaxDrift`.  A save that the page has given up (`awaited` is FALSE) may
still be carried out by the server.  A text that is no number is a number out of bounds: both lock the
button and leave the region.  `shows`, `crossed` and `drift` are history variables.

## 3. What is checked

| Run | Instance | Shows |
|---|---|---|
| `speakers` | 2 speakers, 1 camera, 2 object announcements and a welcome, queue of 1, 3 changes | `KeysMatchPending`, `OneOutcome`, `GatesEmptyQueues`, `LateAnswerKeepsGate`, `NewestIsSpoken` |
| `speakers_live` | 1 speaker, queue of 2, the same announcements | refinement `KeepsLedger`; `EveryAnnouncementIsSettled`, `CallsEndUnlessStranded` |
| `scheduler` | 2 kinds, 1 camera, 3 requests, 5 calls | `StatusMatchesDetectors`, `LoadedIsServed`, `RegisteredWillBeServed`, `FailureIsolated`, `AnswersAreCurrent`, `RequestsAreAnswered`, `CallsEnd` |
| `camera` | 1 runtime, 3 ticks; leave after 2, outage after 2, cooldown 3 | `OutageIsShown`, `LeavesAreConfirmed`, `EntriesAreConfirmed`, `StopEnds` |
| `runtime` | 1 camera, 1 speaker, 2 regions (1 of them stored at the start), 3 calls from outside | `SettledAsWanted`, `DetectorsAreNeeded`, `ShownAsItRuns`, `ChangedRegionStartsWithBaseline`, `LockIsReleased` |
| `shutdown_hangs` | 1 call | **violation** of `ShutdownEnds` |
| `account` | 2 users with a device each, 2 attempts, 3 calls, 1 restart | `ReleasedWhenOver`, `OneAttempt`, `AccountsDoNotMix`, `PublishedAsStored`, `AttemptsEnd` |
| `tests_use_attempt` | the same | **violation** of `TestsUseActiveAccount` |
| `bindings` | 2 users, one of them or none stored, 2 devices, 2 cameras, 2 ids, 1 confirmation, 3 calls | `UnbindIsConfirmed`, `BoundAsSaved`, `AvailabilityIsCurrent`, `CandidatesAgreeWithRows` |
| `frames` | 3 processes, 2 signals | `OneFfmpeg`, `StopLeavesNothing`, `SilenceEnds` |
| `startup` | any files of an earlier release, any schema, 3 faults | `NothingIsLost`, `StartsInTheEnd` |
| `region` | 2 units, 2 saves under way together, regions up to 2 units outside | `EditsStayInPicture`, `PageShowsSaved` |

**Bounds.** `MaxChanges`, `MaxCalls`, `MaxRequests`, `MaxTime`, `MaxRuntimes`, `MaxAttempts`,
`MaxRestarts`, `MaxIds`, `MaxTokens`, `MaxFaults`, `SaveIds`, `MaxDrift` and `Alone` bound what comes from
outside; they stand in guards, so every behaviour of the instance is a behaviour of the code.
Three changes are enough for every pair of calls of the manager after `start`; two object
announcements and a welcome, on one camera, give superseding, a full queue and a second worker.
Five calls let the scheduler enable both kinds, disable one, enable it again and exchange it, with
requests before and after.  One camera is enough there because cameras share only the queue, which
three requests of two kinds already fill in all orders.  Three ticks hold a sighting, two frames without
and a leave at any delay of the loop, or an outage and a return; the successive runtimes of a camera share only the keys left
in the scheduler, so one suffices.  In `Runtime` cameras share only the detectors, and one camera with two rules already needs both, one or
none; it starts from every stored setting but the other region, and three calls make a change, a second one that fails or
meets it, and the return of the first.  In `XiaomiAccount` the attempts share the fields of the
manager: with two attempts, one can be ended by the other or by a save while a third
request or a speech is under way.  Two saves under way together are left out, though `xiaomi.py` has no lock
around them: the transaction of each is atomic (`SpeakerBindings` has them in any order), but the second may publish
before the first has, and what they leave is not checked.  In `SpeakerBindings` two devices and two ids give a choice that
keeps one speaker and loses the other; one confirmation already expires, is refused, is used and is
presented again for another choice; ids are
never used again, so two bound a history of two listed devices; with an account stored at the start, three
calls hold two refreshes that cross each other and a login that is saved between their answers.  Three processes are one in use and one
in the hands of each other thread, and a fourth would be handled by nobody.  Three faults break off
three starts, one in each of the rename, the creation and a migration.  Two units hold a move, a resize to
the least size and a rounding out of the picture, over its end, over its start and under the least
size; a drift of two starts a drag from a region that is already outside.
The theorems below hold for every bound.

**Fairness** is weak fairness of what the event loop schedules: a task that can run does (asyncio's
ready queue is first in, first out), a thread's `speak()` returns (the client's requests time out after 30
seconds at most), a stop with a timeout goes on after it, `asyncio.Lock` serves its waiters in order, and
discovery, loading a detector, and starting or stopping a camera come to an end.  Nothing is assumed of `detect()`, of the
callback of a worker that lost the account (it waits for `Runtime._lock`), of time, of
frames or of callers; where a property needs inferences to end it says so (`InferencesEnd`).
In `XiaomiAccount` an expiry comes in time and closing a session ends; a login may wait for ever.  In
`FrameSource` threads run, waits and joins time out, and an ffmpeg exits at its last SIGTERM, for the
watchdog never sends another signal; nothing makes it give frames.  In `Startup` the
process goes on and is started again; crashes are bounded.

**Deadlock** is checked for the speakers and the region.  The others really stop when calls,
requests, time or faults are used up, the source when it has been stopped, and the server when its
lifespan is over, so those configurations say `CHECK_DEADLOCK FALSE`.

**Findings** (`PROJECT.json`, "findings", has the quotations):

1. `Runtime.stop` waits under `_lock` for workers; a worker that has just lost the account waits for
   `_lock` (`runtime.py:350`, `speaker_worker.py:251`, `xiaomi.py:724`): the shutdown never ends.
2. While an attempt is kept, also one that was cancelled or has expired, a speaker the account in use has
   listed is tested with the session of the attempt, or with none (`xiaomi.py:375`).

**Conditions in the properties** name what the code does not give:

- `CallsEndUnlessStranded`: a drain takes the pill of a worker that is being stopped
  (`speaker_worker.py:98`), or a pill waits for room in the queue of a dead worker, or a worker is in the
  callback of a lost account, which under `Runtime.stop` never returns (finding 1);
  `replace_speakers()` or `stop()` then hangs.
- `EveryAnnouncementIsSettled`: a worker that is gone, or in that callback for ever.
- `RequestsAreAnswered`: the `finally` of an older job of the same key removes a newer registration.
- `SettledAsWanted`: the end of a dead worker, which nobody tells `Runtime`.
- `DetectorsAreNeeded`: the exchange of the object model loads a detector no camera uses once a job left by
  `disable` has turned the kind degraded (`detection_scheduler.py:222`, `127-132`).
- `ChangedRegionStartsWithBaseline`: `_reconcile` forgets the pending baseline when it starts a runtime
  (`runtime.py:654`), which uses it up at its first frame only (`camera_runtime.py:220-221`).  A runtime that
  ends before it takes the baseline with it, and the rule may announce what the change of the region
  uncovers, against `docs/superpowers/specs/2026-09-02-camera-detection-region-design.md:115-118, 233`.
- `LockIsReleased`: finding 1; `SpeakerManager.stop` under the lock that meets a drained pill or the full
  queue of a dead worker; an exchange that waits under the lock for a `detect()` that never ends
  (`runtime.py:477-488`, `detection_scheduler.py:126`).  `ShutdownEnds` leaves out the second, so that its
  counterexample is finding 1.
- `AccountsDoNotMix`, `PublishedAsStored`: a save from an attempt that is already being ended installs a
  session that this end closes; the answer to `refresh_devices` or to a test that comes after a save
  writes the devices, or the lost authorization, of the old account over those of the new.
- `PublishedAsStored`, with no save involved: while an attempt is kept, the test of a bound speaker that is no candidate
  marks the account in use as lost (`xiaomi.py:400-402`) and publishes nothing (`413-417`): the
  workers keep a session that is known to be refused.
- `AvailabilityIsCurrent`: a speaker that a second login of the same account did not list stays available
  as it was, and so do choices made from an older snapshot.
- `CandidatesAgreeWithRows`: `refresh_devices` puts back the snapshot it found before its
  await when listing fails; if a save came between, its ids are no longer those of the rows, and every
  save is refused until a refresh succeeds (`xiaomi.py:271`).
- `StartsInTheEnd`: a foreign schema; a journal of another file under the new name; and a first start broken
  off within `executescript`, which leaves some of the tables: this database is refused on
  every later start.
- `EditsStayInPicture`: position and length are rounded each by itself.  At a picture 640 pixels wide, 320
  columns of the pointer give `x + width = 1.000001` when the region is drawn to the right border
  (0.001563 + 0.998438): the save button is disabled without a message.  What is moved or resized from there
  may go a unit further out each time, come out under the least size, or start left of the picture,
  where `docs/superpowers/specs/2026-09-02-camera-detection-region-design.md:166` says that
  dragging always keeps the rectangle in the picture.  The property says how far out it can be.
- `PageShowsSaved`: an edit made during a save opens the save button again, so two saves may
  overlap and be answered in another order; so does a save the page has given up and the server has
  not.  Edits made during a save are overwritten by its answer.

Seen while modelling, and outside these properties: two saves that overlap may leave the state
`devices_ready` with speakers bound; after the timeout of `_stop_consumer` the thread it leaves and a new
inference may run at once; the key of a request left by a camera's `stop()` makes the scheduler
refuse the object request of its next runtime; a rebuilt camera forgets its last welcome; a camera whose `stop()`
failed keeps its descriptor, and is taken for running when its old settings come back
(`runtime.py:606`).

## 4. What is proved

Assumed are the named `ASSUME`s of the modules only: bounds and lengths of time are naturals, a queue
has room, the limit of an outage is not zero, a picture is at least as large as the least region; and the
identities the code keeps apart by type are apart (announcements, cameras and pills; `None` and
what may stand in its place).  The theorems hold for every number of speakers, cameras, calls,
attempts, faults and so on.  In every module
below `TypeCorrect` is `TypeOK` as a theorem (`StartTypeCorrect` and `BindingsTypeCorrect` in `StorageProofs`).

*SpeakerManager* (`SpeakerManagerProofs`).

- `KeysStayInStep` and `RecordedAtMostOnce` rest on an inductive invariant `IInv`.  "No second
  event" is not inductive by itself: an announcement must also be in at most one place (queued as a
  welcome, pending behind its key, in flight) and have no event while it is there, and an
  unsubmitted one must be nowhere.  Each action moves announcements between places, and one lemma
  per kind of move shows that nothing is copied.
- `NothingBehindGates` needs `GateInv`, which speaks of every speaker and of pills: where a gate is
  shut, the queue holds pills at most.  `GateStaysShut` looks at the worker's steps alone.
- The refinement `LedgerKept` reads an announcement's `fate` off the place where it is
  (`FateIsByPlace`).  Seen from outside, every step has one of four forms: it ends some
  announcements, begins one, refuses one or accepts one (`Ends`, `Begins`, `Refuses`, `Accepts`), or
  it leaves them alone; each form is a step of `AnnouncementLedger` or a stutter.  `LedgerInv` says
  what the ledger's guards ask: a worker with something in hand is at an await (`Busy`), what is held was
  accepted, and what waits is the newest of its camera (`Newest`), which is also `NewestSpoken`.

*DetectionScheduler* (`DetectionSchedulerProofs`).  `DInv` adds to the checked invariants what makes
them inductive: a registration carries the key of its request and its kind is loaded
(`Registered`), only a stop has a pill in the queue (`PillsOfStops`), nothing is loaded while a stop
waits (`CallsFindNone`), and the request under way, while registered, is looked at by the installed
detector (`UsingInstalled`).  From it follow `TypeCorrect`, `StatusesMatch`, `LoadedServed`,
`RegisteredServed`, and step by step `AnswersCurrent` and `FailuresIsolated`.

*CameraRuntime* (`CameraRuntimeProofs`).  `CInv` says that the frames a leave is counted from, the one in
hand and the one after it were captured after the last gap, failed detection and sighting (`Calm`; a wait
that has found nothing is a gap before the loop knows of it, `Missed`), and that each sighting in the window was
counted (`Counted`).  Lemmas about `Window` and `Observe` say what one observation does to a tracker;
`LeavesConfirmed` and `EntriesConfirmed` follow, for any grace period and any number of runtimes.
`OutageShown` adds `Patient`: the ticks waited in vain are no more than the time since the last
frame, which is what the code compares with its limit.

*Runtime* (`RuntimeProofs`).  `RInv` has three layers.  `Types` with what is left to do at each await
(`ToDo`); `Order`, which call may hold the lock in which part of the lifespan, so that nothing comes
after `stop`; and `CamInv`, about the cameras.  `SettledAsWanted` speaks of moments when no call is
left, so the proof must carry it through the calls: at each await the cameras no longer in `todo` are as
`wanted` (`Settling`), and `wanted` is what the settings ask for now, unless a call is waiting that
looks again (`Current`).  `NeverTakenForRunning` needs `Shown` and `Halfway` (a descriptor
without a runtime only while its camera is rebuilt), `OnlyNeeded` needs `Used`.  `BaselineFirst`
needs `Suppressing`: a runtime that runs is as the settings ask or still to be stopped (`Fresh`), one with
an old region has a pending baseline behind it (`Followed`), and a rule that last saw another region has
its baseline pending, in its runtime or lost (`Based`), through failures of `StopOld` and `StartNew`.

*XiaomiAccount* (`XiaomiAccountProofs`).  `AInv` has four layers, each resting on those before.

- Attempts: a call of `_finish_attempt` may rely on what the calls before its await did
  (`Ended`, for any number of calls under way for one attempt), and an open session belongs to an
  attempt, is active, or is about to be closed by a save (`Opened`).  `OneAtATime` and
  `ReleasedAtTheEnd` follow.
- Sessions: a session is handed over once and no attempt has it again (`Handed`); where a save is
  determines which session the workers may have (`Saving`).
- Owners: what an attempt offers, what is listed and what is bound is of the user whose session
  listed it (`Owning`, `Listing`, `Binding`).  `AccountsApart` follows.
- Workers: outside a publication they are as published, and what a replacement is about to install is what
  is stored (`Published`, `Installing`), from which `WorkersAsStored` follows.

Actions are put into a few forms before the invariant is looked at (what they do to an attempt,
to the sessions, to what is bound, to what is offered), so each layer is proved once per form
and not once per action.

*FrameSource* (`FrameSourceProofs`).  An ffmpeg that runs is the one the reader holds in `own`, and only from
its spawn to the end of the wait for it (`OwnOnly`), whatever the watchdog and `stop()` do with the
process they have read before: `NeverTwo` follows, and `NoneLeftBehind`, the safety half of
`StopLeavesNothing`.  `TypeCorrect` includes that a back-off lasts thirty seconds at most.

*Startup* (`StorageProofs`).  `JournalFirst`: once the database has its new name its journal has no
other, and once the rename is past the journal none is left under the old name.
`OneUpgrade`: a transaction is open only in a migration, and goes one version up.  With these
`NothingLost` is inductive, for any number of crashes and errors.  `Startup` and `SpeakerBindings`, the two modules of the storage,
share `StorageProofs`; where both had a name, that of `Startup` begins with `Start`.

*SpeakerBindings* (`StorageProofs`).  `BInv` says that an id in a row or a list has been made and is
one device's (`Made`, `Apart`), that a list and the rows agree (`Agreed`), that a confirmation is used once
(`Spent`), and that the snapshot lists devices that were found (`Seen`).

- `Apart` covers all four places of an id at once, rows, snapshot, choice and the snapshot a refresh
  may put back: `Merge` takes ids from rows and snapshot together, and a list that mixes them
  is distinct only if these are apart from each other.  Lemmas about `Merge` (`NewId`,
  `NewIdsDiffer`, `MergeAgrees`) do the rest, and every step either keeps the ids a device is
  known by or names some devices anew (`KnownForms`).
- `SaveBinds`: the three statements of a save together bind exactly what was selected.  From it
  follow `BoundIsSaved` and, with `Spent`, `LossIsConfirmed`: the cameras that lose
  their speaker are those the confirmation was asked for.
- `ChosenIds`: a speaker that a save binds anew was chosen from the list, so it may be offered;
  `AvailableIfListed` rests on this.  `ListsAgree` is `Agreed` for the list in use.

*RegionEditor* (`RegionEditorProofs`).  That a region is out by no more than `drift` is not inductive: what an
edit makes of it depends on how it is out.  `Near` has the three ways (over the end, under the least size,
over the start), and one lemma for each edit (`BoundedAxisNear`, `MovedNear`, `EndNear`, `StartNear`)
says that it keeps `Near`, one unit further only if two halves are rounded.  `InsideOrTied` follows
for any picture and any number of edits in a row.
`ShownIsSaved` needs that saves that do not overlap come one at a time (`OneSave`).

Only model-checked is

- liveness (`EveryAnnouncementIsSettled`, `CallsEndUnlessStranded`, `RequestsAreAnswered`, `CallsEnd`,
  `StopEnds`, `LockIsReleased`, `AttemptsEnd`, `StopLeavesNothing`, `SilenceEnds`,
  `StartsInTheEnd`), which rests on fairness and `ENABLED`, beyond TLAPS 1.4;

and the two findings are counterexamples.  Every safety property a passing run checks is a theorem.

Two properties changed with the proofs.  `ReleasedWhenOver` excused any session a save replaces
or installs; its invariant showed that only the active one and the one about to be closed may
still be open, and it now says so.  The type invariant of `XiaomiAccount` now fixes the records of attempts and what
the workers are given, without which the layers above cannot be stated.

## 5. Plan

1. *Done:* `SpeakerManager`, `DetectionScheduler`, `CameraRuntime`, the core path from a frame to an
   announcement; `Runtime`, which starts, rebuilds and stops it; `XiaomiAccount`,
   `SpeakerBindings`, `FrameSource`, `Startup` and `RegionEditor`; the proofs of their safety.
2. The safety halves of liveness: invariants that say which step is left to take where a call waits
   (as `NoneLeftBehind` does for `StopLeavesNothing`), so that only fairness is left to TLC.

## 6. What is not modelled

Frames, detections and confidences are no more than the answer they lead to; message texts, latencies,
statuses only the page reads, logging, HTTP and image processing are left out.  The object rule's
choice of category and wording is left out of `CameraRuntime` with its announcements, whose way
starts in `SpeakerManager` at `submit`.  Of the storage, events, phrases and the synchronisation of the camera list
are single statements and left out; a failing statement is modelled where its caller goes on
after it.  Not modelled at all: the detectors, whose only state is the loaded network; the selection of
objects, image geometry without state; `app.js`, which renders what it polls; the entry point,
settings and one-shot helpers; and the measurement scripts of `guduck_poc` and `tools`, which are not
part of the running application.  In `RegionEditor` one axis stands for both.
