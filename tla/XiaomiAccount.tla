--------------------------- MODULE XiaomiAccount ---------------------------
(***************************************************************************)
(* XiaomiAccountManager (src/src/guduck/xiaomi.py): the account in use and *)
(* the attempt to authorize another one.  An attempt is a task that logs   *)
(* in and lists the speakers, and a timer; whoever ends it cancels both,   *)
(* waits for them, closes the session and only then forgets the rest.      *)
(* Saving the chosen speakers makes the session of the attempt the active  *)
(* one and has the workers replaced.                                       *)
(*                                                                         *)
(* An action is the code from one await to the next.  Bindings and devices *)
(* are identified here (SpeakerBindings has their rows, names, tests and   *)
(* confirmations); the workers are what SpeakerManager does about them     *)
(* seen from here.  Session 0 is the one that start() makes of the stored  *)
(* account, session a that of attempt a.  Only session 0 keeps its token   *)
(* in the database.                                                        *)
(*                                                                         *)
(* Bounds: one save, one test and one speech at a time (Alone).  The code  *)
(* has no lock around a save or a test; refreshes cross each other here.   *)
(***************************************************************************)
EXTENDS Integers, FiniteSets

CONSTANTS
    Users,
    Devices,
    Owned,        \* external: the devices of a user
    MaxAttempts,  \* bound on the attempts of one process
    MaxCalls,     \* bound on the requests and speeches
    MaxRestarts,
    None

\* The states of an attempt; it is over once _finish_attempt is done with it.
Over          == {"cancelled", "expired", "failed", "ready"}
AttemptStates == Over \cup {"authenticating", "otp_required", "fetching_devices", "devices_ready",
                            "auth_required"}

ASSUME AccountAssumption ==
    /\ Owned \in [Users -> SUBSET Devices] /\ None \notin Users \cup Int \cup AttemptStates
    /\ MaxAttempts \in Nat /\ MaxCalls \in Nat /\ MaxRestarts \in Nat

Attempts == 1 .. MaxAttempts
Sessions == 0 .. MaxAttempts

VARIABLES
    stored,    \* user of the xiaomi_account row
    bound,     \* the devices of the bound rows of speaker_bindings
    avail,     \* those of them that are available
    running,   \* the server: "on", "stopping", "off"
    attempt,   \* _attempt, 0 if None
    att,       \* the attempts made so far
    auth,      \* where the task of an attempt is
    timer,     \* _expire_attempt of an attempt sleeps
    ends,      \* the calls of _finish_attempt in progress
    open,      \* external: the HTTP sessions not closed
    owner,     \* the user of each session
    active,    \* session of _active_account
    snapshot,  \* _active_snapshot
    state,     \* _state
    flag,      \* _playback_auth_required
    refreshes,  \* the calls of refresh_devices in progress
    test, save,  \* the test and the save in progress
    workers,   \* the session and the devices of the speakers of SpeakerManager
    offered,   \* its _available_ids
    refusing,  \* its auth_status is reauth_required
    speaking,  \* the session that a worker speaks with
    hung,      \* replace_speakers waits for a worker that has lost its None
    crossed,   \* history: what a save has crossed, and "untold" (Untold)
    calls, restarts

storage  == <<stored, bound, avail>>
attempts == <<attempt, att, auth, timer, ends>>
manager  == <<active, snapshot, state, flag>>
requests == <<refreshes, test, save>>
speakers == <<workers, offered, refusing, speaking, hung>>
bounds   == <<calls, restarts>>
vars     == <<storage, running, attempts, open, owner, manager, requests, speakers, crossed, bounds>>

NoAttempt == [user |-> None, state |-> None, password |-> FALSE, otp |-> FALSE,
              token |-> FALSE, account |-> FALSE, candidates |-> {}]
Nobody    == [session |-> None, devices |-> {}]
NoSave    == [at |-> "idle", selected |-> {}, old |-> None, install |-> Nobody, offer |-> {}]
Endings   == {"cancel", "restart", "stop", "expire", "fail", "save"}

-----------------------------------------------------------------------------
(* Reading. *)

Choosing == attempt # 0 /\ att[attempt].state = "devices_ready"

Candidates == IF Choosing THEN att[attempt].candidates ELSE snapshot

\* Variant: any account may keep the bound rows.
SameAccountAssumed == Choosing

\* _same_persisted_account
SameAccount == Choosing /\ stored # None /\ stored = att[attempt].user

\* What save_bindings accepts: candidates, and bound rows unless the account changes.
Selectable == Candidates \cup IF ~Choosing \/ SameAccount THEN bound ELSE {}

\* The session that test_binding uses for a device.
TestSession(d) ==
    IF attempt # 0 /\ d \in Candidates
    THEN IF att[attempt].account THEN attempt ELSE None
    ELSE active

\* Variant: the availability alone decides.
OfferUnauthorized(st, b, a) == b \cap a

\* available_ids of _publish_runtime
Offer(st, b, a) == IF st = "ready" THEN b \cap a ELSE {}

Flag(st) == IF st = "ready" THEN FALSE ELSE st = "auth_required" \/ flag

-----------------------------------------------------------------------------
(* What a process starts with. *)

Fresh(s) ==
    /\ attempt' = 0 /\ att' = [a \in Attempts |-> NoAttempt]
    /\ auth' = [a \in Attempts |-> "none"] /\ timer' = [a \in Attempts |-> FALSE] /\ ends' = {}
    /\ refreshes' = {} /\ test' = None /\ save' = NoSave
    /\ snapshot' = {} /\ flag' = FALSE /\ speaking' = None /\ hung' = FALSE
    /\ refusing' = FALSE /\ running' = s

Init ==
    /\ stored \in Users \cup {None}
    /\ bound \in SUBSET IF stored = None THEN {} ELSE Owned[stored]
    /\ avail \in SUBSET bound
    /\ running = "off" /\ attempt = 0 /\ att = [a \in Attempts |-> NoAttempt]
    /\ auth = [a \in Attempts |-> "none"] /\ timer = [a \in Attempts |-> FALSE] /\ ends = {}
    /\ open = {} /\ owner = [s \in Sessions |-> None]
    /\ active = None /\ snapshot = {} /\ state = "unconfigured" /\ flag = FALSE
    /\ refreshes = {} /\ test = None /\ save = NoSave
    /\ workers = Nobody /\ offered = {} /\ refusing = FALSE
    /\ speaking = None /\ hung = FALSE /\ crossed = {} /\ calls = 0 /\ restarts = 0

Call == running = "on" /\ calls < MaxCalls /\ calls' = calls + 1

\* Bound: no other save, test or speech is in progress.
Alone(request, none) == request = none

\* start(): no worker runs yet, so replace_speakers returns at once.
Start ==
    /\ running = "off" /\ Fresh("on")
    /\ owner' = [s \in Sessions |-> IF s = 0 THEN stored ELSE None]
    /\ IF stored = None
       THEN /\ state' = "unconfigured" /\ active' = None /\ open' = {}
            /\ workers' = Nobody /\ offered' = {}
       ELSE /\ state' = IF bound = {} THEN "devices_ready" ELSE "ready"
            /\ active' = 0 /\ open' = {0}
            /\ workers' = [session |-> 0, devices |-> bound]
            /\ offered' = Offer(state', bound, avail)
    /\ UNCHANGED <<storage, crossed, bounds>>

\* The process is killed.
Crash ==
    /\ running # "off" /\ restarts < MaxRestarts /\ restarts' = restarts + 1 /\ Fresh("off")
    /\ open' = {} /\ owner' = [s \in Sessions |-> None] /\ active' = None /\ state' = "unconfigured"
    /\ workers' = Nobody /\ offered' = {}
    /\ UNCHANGED <<storage, crossed, calls>>

-----------------------------------------------------------------------------
(* _finish_attempt *)

\* Variant: the password stays until the tasks are over.
SilencedLater(record) == [record EXCEPT !.otp = FALSE]

Silenced(record) == [record EXCEPT !.password = FALSE, !.otp = FALSE]

\* The calls of _finish_attempt when one more begins: it cancels those of the task and the timer.
EndsWith(a, by) ==
    {e \in ends : e.attempt # a \/ e.by \notin {"expire", "fail"}}
        \cup {[attempt |-> a, by |-> by, at |-> "tasks"]}

\* Its first part: the task and the timer are cancelled, except the one that runs it.
Ends(a, by, record) ==
    /\ att' = [att EXCEPT ![a] = Silenced(record)]
    /\ auth' = [auth EXCEPT ![a] = IF by = "fail" THEN "ending" ELSE "done"]
    /\ timer' = [timer EXCEPT ![a] = FALSE]
    /\ ends' = EndsWith(a, by)

Final(e) ==
    CASE e.by \in {"cancel", "restart", "stop"} -> "cancelled"
      [] e.by = "expire" -> "expired"
      [] e.by = "fail"   -> "failed"
      [] e.by = "save"   -> IF save.selected = {} THEN "devices_ready" ELSE "ready"

\* The tasks are over: the session, if it is still the attempt's, is being closed.
EndCloses(e) ==
    /\ e.at = "tasks" /\ att[e.attempt].account
    /\ open' = open \ {e.attempt}
    /\ ends' = (ends \ {e}) \cup {[e EXCEPT !.at = "closing"]}
    /\ UNCHANGED <<storage, running, attempt, att, auth, timer, owner, manager, requests, speakers,
                   crossed, bounds>>

\* Variant: the candidates stay.
ForgetKeepsList(e) ==
    att' = [att EXCEPT ![e.attempt] =
              [@ EXCEPT !.account = FALSE, !.token = FALSE, !.state = Final(e)]]

\* Its last part.
Forget(e) ==
    att' = [att EXCEPT ![e.attempt] =
              [@ EXCEPT !.account = FALSE, !.token = FALSE, !.candidates = {}, !.state = Final(e)]]

EndForgets(e) ==
    /\ e.by # "save"
    /\ e.at = "closing" \/ ~att[e.attempt].account
    /\ Forget(e) /\ ends' = ends \ {e}
    /\ auth' = [auth EXCEPT ![e.attempt] = "done"]
    /\ UNCHANGED <<storage, running, attempt, timer, open, owner, manager, requests, speakers,
                   crossed, bounds>>

-----------------------------------------------------------------------------
(* The attempt: its requests, its task and its timer. *)

Current(a) == running = "on" /\ attempt = a

\* start_auth; the new task runs up to its login.
StartAuth(u) ==
    /\ Call
    /\ \E a \in Attempts :
        LET new == [NoAttempt EXCEPT !.user = u, !.state = "authenticating", !.password = TRUE,
                                     !.account = TRUE] IN
        /\ att[a] = NoAttempt /\ \A b \in 1 .. a - 1 : att[b] # NoAttempt
        /\ attempt' = a /\ open' = open \cup {a} /\ owner' = [owner EXCEPT ![a] = u]
        /\ att' = [b \in Attempts |-> CASE b = a       -> new
                                        [] b = attempt -> Silenced(att[b])
                                        [] OTHER       -> att[b]]
        /\ auth' = [b \in Attempts |-> CASE b = a       -> "login"
                                         [] b = attempt -> "done"
                                         [] OTHER       -> auth[b]]
        /\ timer' = [b \in Attempts |-> b = a \/ (b # attempt /\ timer[b])]
        /\ ends' = IF attempt = 0 THEN ends ELSE EndsWith(attempt, "restart")
    /\ UNCHANGED <<storage, running, manager, requests, speakers, crossed, restarts>>

Runs(a, at) == auth[a] = at /\ Current(a)
AttemptStep == UNCHANGED <<storage, running, attempt, open, owner, manager, requests, speakers,
                           crossed, bounds>>

\* _request_otp
RequestOtp(a) ==
    /\ Runs(a, "login")
    /\ att' = [att EXCEPT ![a].otp = TRUE, ![a].state = "otp_required"]
    /\ auth' = [auth EXCEPT ![a] = "otp"] /\ UNCHANGED <<timer, ends>> /\ AttemptStep

\* submit_otp with a well-formed code.
SubmitOtp ==
    /\ Current(attempt) /\ attempt # 0
    /\ att[attempt].state = "otp_required" /\ att[attempt].otp
    /\ att' = [att EXCEPT ![attempt].otp = FALSE, ![attempt].state = "authenticating"]
    /\ auth' = [auth EXCEPT ![attempt] = "login"] /\ UNCHANGED <<timer, ends>> /\ AttemptStep

\* login returns True: the token is in memory, the password goes.
LoggedIn(a) ==
    /\ Runs(a, "login")
    /\ att' = [att EXCEPT ![a].token = TRUE, ![a].password = FALSE, ![a].state = "fetching_devices"]
    /\ auth' = [auth EXCEPT ![a] = "fetch"] /\ UNCHANGED <<timer, ends>> /\ AttemptStep

\* login or device_list fails.
AuthFails(a) ==
    /\ Runs(a, "login") \/ Runs(a, "fetch")
    /\ Ends(a, "fail", att[a]) /\ AttemptStep

Fetched(a, devices) ==
    /\ Runs(a, "fetch") /\ devices \subseteq Owned[att[a].user]
    /\ att' = [att EXCEPT ![a].candidates = devices, ![a].state = "devices_ready"]
    /\ auth' = [auth EXCEPT ![a] = "done"] /\ UNCHANGED <<timer, ends>> /\ AttemptStep

\* Variant: only while the task runs.
ExpireTask(a) ==
    timer[a] /\ auth[a] # "done" /\ Current(a) /\ Ends(a, "expire", att[a]) /\ AttemptStep

Expire(a) == timer[a] /\ Current(a) /\ Ends(a, "expire", att[a]) /\ AttemptStep

\* cancel_auth, which takes an attempt that is over as well.
CancelAuth ==
    /\ Call /\ attempt # 0 /\ \A e \in ends : e.attempt = attempt => e.by # "cancel"
    /\ Ends(attempt, "cancel", att[attempt])
    /\ UNCHANGED <<storage, running, attempt, open, owner, manager, requests, speakers, crossed,
                   restarts>>

-----------------------------------------------------------------------------
(* stop(), after the workers have stopped and the requests are over. *)

Stop ==
    /\ running = "on" /\ running' = "stopping"
    /\ requests = <<{}, None, NoSave>> /\ speaking = None
    /\ \A e \in ends : e.by \in {"expire", "fail"}
    /\ attempt' = 0
    /\ IF attempt = 0 THEN UNCHANGED <<att, auth, timer, ends>>
                      ELSE Ends(attempt, "stop", att[attempt])
    /\ workers' = Nobody /\ offered' = {}
    /\ UNCHANGED <<storage, open, owner, manager, requests, refusing, speaking, hung, crossed, bounds>>

Stopped ==
    /\ running = "stopping" /\ \A e \in ends : e.by # "stop"
    /\ running' = "off" /\ open' = open \ {active} /\ active' = None
    /\ UNCHANGED <<storage, attempts, owner, snapshot, state, flag, requests, speakers, crossed,
                   bounds>>

-----------------------------------------------------------------------------
(* save_bindings and what it publishes. *)

\* _publish_runtime(replace=True), up to the await of replace_speakers.
Publish(selected, old) ==
    /\ state' = IF selected = {} THEN "devices_ready" ELSE "ready"
    /\ flag' = Flag(state')
    /\ save' = [at |-> "replacing", selected |-> selected, old |-> old,
                install |-> [session |-> active', devices |-> IF active' = None THEN {} ELSE bound'],
                offer |-> Offer(state', bound', avail')]

\* The transaction of replace_xiaomi_configuration; a save it refuses changes nothing here.
Commit(user, selected) ==
    /\ stored' = user /\ bound' = selected
    /\ avail' = selected \cap (avail \cup Candidates)

\* The speakers chosen with the new session.
SaveChoice(selected) ==
    /\ Call /\ Alone(save, NoSave) /\ Choosing /\ selected \subseteq Selectable
    /\ Commit(att[attempt].user, selected)
    /\ active' = attempt /\ snapshot' = Candidates /\ attempt' = 0
    /\ Ends(attempt, "save", [att[attempt] EXCEPT !.account = FALSE])
    /\ save' = [at |-> "finishing", selected |-> selected, old |-> active, install |-> Nobody,
                offer |-> {}]
    /\ crossed' = crossed \cup IF \E e \in ends : e.attempt = attempt THEN {"end"} ELSE {}
    /\ UNCHANGED <<running, open, owner, state, flag, refreshes, test, speakers, restarts>>

SavePublishes(e) ==
    /\ e.by = "save" /\ Forget(e) /\ ends' = ends \ {e}
    /\ UNCHANGED <<storage, active>>
    /\ Publish(save.selected, save.old)
    /\ UNCHANGED <<running, attempt, auth, timer, open, owner, snapshot, refreshes, test, speakers,
                   crossed, bounds>>

\* Other speakers of the account in use.
SaveBindings(selected) ==
    /\ Call /\ Alone(save, NoSave) /\ ~Choosing /\ selected \subseteq Selectable /\ stored # None
    /\ Commit(stored, selected) /\ UNCHANGED active
    /\ Publish(selected, None)
    /\ UNCHANGED <<running, attempts, open, owner, snapshot, refreshes, test, speakers, crossed,
                   restarts>>

\* SpeakerManager.replace_speakers returns, once no worker speaks.
Replaced ==
    /\ save.at = "replacing" /\ speaking = None /\ ~hung
    /\ workers' = save.install /\ offered' = save.offer
    /\ refusing' = (state = "auth_required")
    /\ save' = IF save.old = None THEN NoSave ELSE [save EXCEPT !.at = "closing"]
    /\ UNCHANGED <<storage, running, attempts, open, owner, manager, refreshes, test, speaking, hung,
                   crossed, bounds>>

CloseOld ==
    /\ save.at = "closing"
    /\ open' = open \ {save.old} /\ save' = NoSave
    /\ UNCHANGED <<storage, running, attempts, owner, manager, refreshes, test, speakers, crossed,
                   bounds>>

-----------------------------------------------------------------------------
(* Calls of a session: their answers may renew its token, or lose it. *)

\* DatabaseTokenStore: only session 0 has one.
Renewed(s) == IF s = 0 THEN {stored, owner[0]} ELSE {stored}
Lost(s)    == IF s = 0 THEN {stored, None} ELSE {stored}

\* _publish_runtime(replace=False)
Republish(st) ==
    /\ flag' = Flag(st) /\ refusing' = (st = "auth_required")
    /\ offered' = Offer(st, bound', avail') \cap workers.devices

Late(s) == save # NoSave \/ s # active
Crosses(kind, late) == crossed' = crossed \cup IF late THEN {kind} ELSE {}

RefreshDevices ==
    /\ Call /\ active # None
    /\ refreshes' = refreshes \cup {[call |-> calls', session |-> active, previous |-> snapshot]}
    /\ UNCHANGED <<storage, running, attempts, open, owner, manager, test, save, speakers, crossed,
                   restarts>>

Refreshed(r, devices) ==
    /\ refreshes' = refreshes \ {r}
    /\ devices \subseteq Owned[owner[r.session]]
    /\ stored' \in Renewed(r.session)
    /\ bound' = bound /\ avail' = bound \cap devices /\ snapshot' = devices
    /\ UNCHANGED state /\ Republish(state)
    /\ Crosses("refresh", Late(r.session))
    /\ UNCHANGED <<running, attempts, open, owner, active, test, save, workers, speaking, hung, bounds>>

RefreshLosesAccount(r) ==
    /\ refreshes' = refreshes \ {r} /\ stored' \in Lost(r.session)
    /\ state' = "auth_required" /\ UNCHANGED <<bound, avail>> /\ Republish(state')
    /\ Crosses("refresh", Late(r.session))
    /\ UNCHANGED <<running, attempts, open, owner, active, snapshot, test, save, workers, speaking,
                   hung, bounds>>

RefreshFails(r) ==
    /\ refreshes' = refreshes \ {r} /\ snapshot' = r.previous
    /\ Crosses("refresh", Late(r.session))
    /\ UNCHANGED <<storage, running, attempts, open, owner, active, state, flag, test, save,
                   speakers, bounds>>

\* test_binding
TestBinding(d) ==
    /\ Call /\ Alone(test, None) /\ d \in Candidates \cup bound /\ TestSession(d) # None
    /\ test' = [attempt |-> attempt, session |-> TestSession(d), candidate |-> d \in Candidates]
    /\ UNCHANGED <<storage, running, attempts, open, owner, manager, refreshes, save, speakers,
                   crossed, restarts>>

\* After the answer: published if there was no attempt.
TestPublishes(st) ==
    IF test.attempt = 0 /\ st = "auth_required"
    THEN Republish(st) ELSE UNCHANGED <<flag, refusing, offered>>

Tested ==
    /\ test # None /\ test' = None /\ stored' \in Renewed(test.session)
    /\ UNCHANGED <<bound, avail, state>> /\ TestPublishes(state)
    /\ Crosses("test", Late(test.session) /\ stored' # stored)
    /\ UNCHANGED <<running, attempts, open, owner, active, snapshot, refreshes, save, workers,
                   speaking, hung, bounds>>

\* The test of a bound speaker that is no candidate, while an attempt is kept: the account is
\* marked as lost, and the workers are not told.
Untold == test.attempt # 0 /\ ~test.candidate /\ state # "auth_required"

TestLosesAccount ==
    /\ test # None /\ test' = None /\ stored' \in Lost(test.session) /\ UNCHANGED <<bound, avail>>
    /\ IF test.attempt # 0 /\ test.candidate
       THEN /\ att' = [att EXCEPT ![test.attempt].state = "auth_required"]
            /\ UNCHANGED <<state, crossed>>
       ELSE /\ att' = att /\ state' = "auth_required"
            /\ crossed' = crossed \cup (IF Late(test.session) THEN {"test"} ELSE {})
                                  \cup (IF Untold THEN {"untold"} ELSE {})
    /\ TestPublishes(state')
    /\ UNCHANGED <<running, attempt, auth, timer, ends, open, owner, active, snapshot, refreshes, save,
                   workers, speaking, hung, bounds>>

-----------------------------------------------------------------------------
(* The workers: SpeakerManager and the MiNASpeaker objects of runtime_speakers. *)

\* on_auth_required of a worker, with mark_auth_required unless it is known.
RequireAuth ==
    /\ refusing' = TRUE /\ flag' = TRUE
    /\ IF refusing THEN UNCHANGED <<state, offered>> ELSE state' = "auth_required" /\ offered' = {}

Speak ==
    /\ Call /\ Alone(speaking, None)
    /\ save.at # "replacing"
    /\ ~refusing /\ workers.devices \cap offered # {}
    /\ IF flag THEN RequireAuth /\ UNCHANGED speaking
       ELSE speaking' = workers.session /\ UNCHANGED <<refusing, flag, state, offered>>
    /\ UNCHANGED <<storage, running, attempts, open, owner, active, snapshot, requests, workers,
                   hung, crossed, restarts>>

Spoken ==
    /\ speaking # None /\ speaking' = None /\ stored' \in Renewed(speaking)
    /\ Crosses("speech", Late(speaking) /\ stored' # stored)
    /\ UNCHANGED <<bound, avail, running, attempts, open, owner, manager, requests, workers, offered,
                   refusing, hung, bounds>>

\* A worker that is being replaced loses its None with the queue: the replacement never ends.
SpeechLosesAccount ==
    /\ speaking # None /\ speaking' = None /\ stored' \in Lost(speaking)
    /\ RequireAuth /\ hung' = (save.at = "replacing")
    /\ Crosses("speech", Late(speaking))
    /\ UNCHANGED <<bound, avail, running, attempts, open, owner, active, snapshot, requests, workers,
                   bounds>>

-----------------------------------------------------------------------------
Request ==
    \/ \E u \in Users : StartAuth(u)
    \/ SubmitOtp \/ CancelAuth
    \/ \E b \in SUBSET Devices : SaveChoice(b) \/ SaveBindings(b)
    \/ RefreshDevices
    \/ \E d \in Devices : TestBinding(d)
    \/ Speak

Task(a) == RequestOtp(a) \/ LoggedIn(a) \/ AuthFails(a) \/ \E D \in SUBSET Devices : Fetched(a, D)
Finish  == \E e \in ends : EndCloses(e) \/ EndForgets(e) \/ SavePublishes(e)
Answer  == \/ \E r \in refreshes :
               \/ \E D \in SUBSET Devices : Refreshed(r, D)
               \/ RefreshLosesAccount(r) \/ RefreshFails(r)
           \/ Tested \/ TestLosesAccount \/ Spoken \/ SpeechLosesAccount

Next == \/ Start \/ Crash \/ Stop \/ Stopped \/ Request \/ Finish \/ Answer \/ Replaced \/ CloseOld
        \/ \E a \in Attempts : Task(a) \/ Expire(a)

\* The event loop goes on, and so does time.
Fairness == WF_vars(Finish) /\ \A a \in Attempts : WF_vars(Expire(a))

Spec == Init /\ [][Next]_vars /\ Fairness

-----------------------------------------------------------------------------
(* Properties. *)

Records == [user : Users \cup {None}, state : AttemptStates \cup {None}, password : BOOLEAN,
            otp : BOOLEAN, token : BOOLEAN, account : BOOLEAN, candidates : SUBSET Devices]
Teams   == [session : Sessions \cup {None}, devices : SUBSET Devices]

\* The variables have their types.
TypeOK ==
    /\ stored \in Users \cup {None} /\ bound \subseteq Devices /\ avail \subseteq bound
    /\ running \in {"on", "stopping", "off"} /\ attempt \in 0 .. MaxAttempts
    /\ att \in [Attempts -> Records]
    /\ auth \in [Attempts -> {"none", "login", "otp", "fetch", "ending", "done"}]
    /\ timer \in [Attempts -> BOOLEAN]
    /\ ends \subseteq [attempt : Attempts, by : Endings, at : {"tasks", "closing"}]
    /\ open \subseteq Sessions /\ owner \in [Sessions -> Users \cup {None}]
    /\ active \in Sessions \cup {None} /\ snapshot \subseteq Devices
    /\ state \in {"unconfigured", "devices_ready", "ready", "auth_required"} /\ flag \in BOOLEAN
    /\ refreshes \subseteq [call : 1 .. MaxCalls, session : Sessions, previous : SUBSET Devices]
    /\ test \in [attempt : 0 .. MaxAttempts, session : Sessions, candidate : BOOLEAN] \cup {None}
    /\ save \in [at : {"idle", "finishing", "replacing", "closing"}, selected : SUBSET Devices,
                 old : Sessions \cup {None}, install : Teams, offer : SUBSET Devices]
    /\ workers \in Teams /\ offered \subseteq Devices /\ refusing \in BOOLEAN
    /\ speaking \in Sessions \cup {None} /\ hung \in BOOLEAN
    /\ crossed \subseteq {"end", "refresh", "test", "speech", "untold"}
    /\ calls \in 0 .. MaxCalls /\ restarts \in 0 .. MaxRestarts

\* An attempt that is over, however it ended and whatever it waited for, holds no password,
\* code, token, candidates or open session, but the one that a save has made the active one, and
\* the one that another save is about to close (_finish_attempt, save_bindings).
ReleasedWhenOver ==
    \A a \in Attempts : att[a].state \in Over =>
        /\ ~att[a].password /\ ~att[a].otp /\ ~att[a].token /\ ~att[a].account
        /\ att[a].candidates = {} /\ auth[a] = "done" /\ ~timer[a]
        /\ a \in open => a \in {active, save.old}

\* Only the current attempt runs, waits for a code or holds a password, also when it was started
\* while the one before was being ended (start_auth, _authenticate, _expire_attempt).
OneAttempt ==
    \A a \in Attempts :
        auth[a] \in {"login", "otp", "fetch"} \/ timer[a] \/ att[a].password \/ att[a].otp
            => attempt = a

\* Workers and requests use an open session, unless a save crossed the end of an attempt; they
\* know devices of its user, unless a save crossed the answer to a refresh; and what is bound is
\* of the user stored, who is that of the session, unless a save crossed the answer to a
\* refresh, a test or a speech (save_bindings, refresh_devices, DatabaseTokenStore).
AccountsDoNotMix ==
    /\ "end" \notin crossed => {workers.session, active} \subseteq open \cup {None}
    /\ "refresh" \notin crossed /\ active # None => snapshot \subseteq Owned[owner[active]]
    /\ crossed \subseteq {"end", "untold"} /\ stored # None =>
           /\ bound \subseteq Owned[stored]
           /\ active # None => stored = owner[active]

\* Between saves the workers are as the account and its bindings are, and may speak if it is
\* ready.  Excepted are the answers to a refresh or a test that a save crossed, and, a fault of
\* test_binding with no save involved, the test of a bound speaker that is no candidate while an
\* attempt is kept: when it loses the account nothing is published, and the workers keep a
\* session that is known to be refused (_publish_runtime, mark_auth_required).
PublishedAsStored ==
    crossed \cap {"refresh", "test", "untold"} = {} /\ running = "on" /\ save = NoSave =>
        /\ workers = IF active = None THEN Nobody ELSE [session |-> active, devices |-> bound]
        /\ offered = Offer(state, bound, avail)
        /\ refusing <=> state = "auth_required"
        /\ flag => state # "ready"

Holds(a) == att[a].password \/ att[a].account \/ att[a].token \/ att[a].candidates # {}

\* What an attempt holds is released in the end, also if nobody goes on with it (_expire_attempt,
\* _finish_attempt).
AttemptsEnd == \A a \in Attempts : Holds(a) ~> ~Holds(a)

\* A speaker of the account in use is tested with its session, unless an attempt offers others
\* (the design: an attempt does not affect the account in use; test_binding).
TestsUseActiveAccount ==
    active # None /\ ~Choosing => \A d \in snapshot : TestSession(d) = active
=============================================================================
