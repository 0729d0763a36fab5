------------------------ MODULE XiaomiAccountProofs ------------------------
(***************************************************************************)
(* Proofs about XiaomiAccount for any users, devices and number of         *)
(* attempts: an attempt that is over holds nothing, one attempt runs at a  *)
(* time, sessions and bindings of two accounts do not mix, and the workers *)
(* are given what is stored.                                               *)
(***************************************************************************)
EXTENDS XiaomiAccount, TLAPS

\* Attempts. --------------------------------------------------------------

\* The task, the timer and the secrets of an attempt that is being ended are gone.
Silent(a) ==
    ~att[a].password /\ ~att[a].otp /\ ~timer[a] /\ auth[a] \in {"ending", "done"}

\* Only an attempt that was made is current or has a task.
Made == \A a \in Attempts : attempt = a \/ auth[a] # "none" => att[a].user # None

\* What a call of _finish_attempt has done and may rely on.
Ended ==
    \A e \in ends :
        /\ Silent(e.attempt)
        /\ e.by # "fail" => auth[e.attempt] = "done"
        /\ e.at = "closing" => e.attempt \notin open
        /\ e.by = "save" => ~att[e.attempt].account /\ save.at = "finishing"

\* One save is in progress at a time.
OneSave == \A e, f \in ends : e.by = "save" /\ f.by = "save" => e = f

\* An attempt that is over holds nothing.
Released ==
    \A a \in Attempts : att[a].state \in Over =>
        /\ Silent(a) /\ auth[a] = "done" /\ ~att[a].token /\ ~att[a].account
        /\ att[a].candidates = {}

\* An open session belongs to an attempt, is the active one, or the one a save replaces.
Opened ==
    \A a \in Attempts \cap open : att[a].account \/ a = active \/ a = save.old

AttemptInv == OneAttempt /\ Made /\ Ended /\ OneSave /\ Released /\ Opened

\* Sessions. --------------------------------------------------------------

\* An attempt has a session while it goes on.
Working ==
    \A a \in Attempts :
        \/ attempt = a /\ att[a].state \in {"authenticating", "otp_required", "fetching_devices",
                                            "devices_ready"}
        \/ auth[a] \in {"login", "otp", "fetch"}
        => att[a].account

\* The session of an attempt is open until the attempt is being ended.
Holding == \A a \in Attempts : att[a].account => a \in open \/ \E e \in ends : e.attempt = a

\* A session that is in use, or was: no attempt has it any more.
InHand(a) ==
    a = active \/ a = save.old \/ \E r \in refreshes : a = r.session

Handed ==
    \A a \in Attempts : InHand(a) => att[a].user # None /\ ~att[a].account /\ attempt # a

\* Where a save is, and which session the workers have meanwhile.
Saving ==
    /\ save.at = "idle" => save = NoSave
    /\ running # "on" => save = NoSave /\ refreshes = {} /\ workers.session = None
    /\ \A e \in ends : e.by = "save" => e.attempt = active
    /\ save.old # None => save.old # active
    /\ save.at = "replacing" => save.install.session = active
    /\ running = "on" =>
           IF save.at \in {"idle", "closing"} THEN workers.session = active
           ELSE workers.session \in {active, save.old, None}

\* The sessions in use are open.
InUse == "end" \notin crossed => {active, save.old} \subseteq open \cup {None}

SessionInv == Working /\ Holding /\ Handed /\ Saving /\ InUse

\* Owners. ----------------------------------------------------------------

\* A session is its attempt's user's, and the devices an attempt offers are too.
Owning ==
    \A a \in Attempts :
        /\ owner[a] = att[a].user
        /\ att[a].user # None => att[a].candidates \subseteq Owned[att[a].user]

\* The devices listed are those of the session that listed them.
Listing ==
    /\ active = None => refreshes = {} /\ (running = "on" => snapshot = {})
    /\ "refresh" \notin crossed =>
           /\ active # None => snapshot \subseteq Owned[owner[active]]
           /\ \A r \in refreshes : r.previous \subseteq Owned[owner[r.session]]

\* What may have been crossed without a change of what is stored.
Harmless == {"end", "untold"}

\* The bound devices are of the account stored and of the one in use, which are the same.
Binding ==
    crossed \subseteq Harmless =>
        /\ stored # None => bound \subseteq Owned[stored]
        /\ active # None => bound \subseteq Owned[owner[active]] /\ stored \in {None, owner[active]}

OwnerInv == Owning /\ Listing /\ Binding

\* Workers. ---------------------------------------------------------------

InStep == crossed \cap {"refresh", "test", "untold"} = {} /\ running = "on"

Team == IF active = None THEN Nobody ELSE [session |-> active, devices |-> bound]

\* While nobody replaces the workers they are as published; and what a replacement is about to
\* install is what is stored.
Published ==
    InStep /\ save.at \in {"idle", "closing"} =>
        /\ workers = Team
        /\ offered = Offer(state, bound, avail)
        /\ refusing <=> state = "auth_required"
        /\ flag => state # "ready"

Installing ==
    InStep /\ save.at = "replacing" /\ ~hung =>
        /\ save.install = Team
        /\ save.offer = Offer(state, bound, avail)
        /\ state # "auth_required"
        /\ flag => state # "ready"

WorkerInv == Published /\ Installing

AInv == TypeOK /\ AttemptInv /\ SessionInv /\ OwnerInv /\ WorkerInv

-----------------------------------------------------------------------------
USE AccountAssumption

(* The operators on the attempts. *)

AuthSteps == {"none", "login", "otp", "fetch", "ending", "done"}

AttemptTypes ==
    /\ attempt \in 0 .. MaxAttempts /\ att \in [Attempts -> Records]
    /\ auth \in [Attempts -> AuthSteps] /\ timer \in [Attempts -> BOOLEAN]
    /\ ends \subseteq [attempt : Attempts, by : Endings, at : {"tasks", "closing"}]

\* The record, the task and the timer of an attempt stay.
Same(b) == att'[b] = att[b] /\ auth'[b] = auth[b] /\ timer'[b] = timer[b]

LEMMA NoAttemptType ==
    /\ NoAttempt \in Records /\ NoAttempt.user = None /\ NoAttempt.state \notin Over
    /\ ~NoAttempt.password /\ ~NoAttempt.otp /\ ~NoAttempt.account /\ NoAttempt.candidates = {}
BY DEF NoAttempt, Records, AttemptStates

LEMMA SilencedType ==
    ASSUME NEW r \in Records
    PROVE  /\ Silenced(r) \in Records /\ ~Silenced(r).password /\ ~Silenced(r).otp
           /\ Silenced(r).user = r.user /\ Silenced(r).state = r.state
           /\ Silenced(r).token = r.token /\ Silenced(r).account = r.account
           /\ Silenced(r).candidates = r.candidates
BY DEF Silenced, Records

\* The record of an attempt is replaced.
LEMMA AttUpdated ==
    ASSUME AttemptTypes, NEW a \in Attempts, NEW r \in Records, att' = [att EXCEPT ![a] = r]
    PROVE  /\ att' \in [Attempts -> Records] /\ att'[a] = r
           /\ \A b \in Attempts \ {a} : att'[b] = att[b]
BY DEF AttemptTypes

\* _finish_attempt begins: the calls then in progress, and what is left of the attempt.
LEMMA EndsWithCalls ==
    ASSUME AttemptTypes, NEW a \in Attempts, NEW by \in Endings
    PROVE  /\ EndsWith(a, by) \subseteq [attempt : Attempts, by : Endings, at : {"tasks", "closing"}]
           /\ \E e \in EndsWith(a, by) : e.attempt = a
           /\ \A e \in ends : e.attempt # a => e \in EndsWith(a, by)
           /\ \A e \in EndsWith(a, by) :
                \/ e \in ends /\ (e.attempt # a \/ e.by \notin {"expire", "fail"})
                \/ e = [attempt |-> a, by |-> by, at |-> "tasks"]
<1> PICK new : new = [attempt |-> a, by |-> by, at |-> "tasks"]
  OBVIOUS
<1>1. new \in [attempt : Attempts, by : Endings, at : {"tasks", "closing"}] /\ new.attempt = a
  OBVIOUS
<1>2. EndsWith(a, by) = {e \in ends : e.attempt # a \/ e.by \notin {"expire", "fail"}} \cup {new}
  BY DEF EndsWith
<1>. QED  BY <1>1, <1>2 DEF AttemptTypes

LEMMA EndsBegins ==
    ASSUME AttemptTypes, NEW a \in Attempts, NEW by \in Endings, NEW r \in Records, Ends(a, by, r)
    PROVE  /\ att' \in [Attempts -> Records] /\ auth' \in [Attempts -> AuthSteps]
           /\ timer' \in [Attempts -> BOOLEAN] /\ ends' = EndsWith(a, by)
           /\ ends' \subseteq [attempt : Attempts, by : Endings, at : {"tasks", "closing"}]
           /\ Silent(a)' /\ auth'[a] = IF by = "fail" THEN "ending" ELSE "done"
           /\ att'[a].user = r.user /\ att'[a].state = r.state /\ att'[a].token = r.token
           /\ att'[a].account = r.account /\ att'[a].candidates = r.candidates
           /\ \A b \in Attempts \ {a} : Same(b)
<1> PICK s : s = Silenced(r)
  OBVIOUS
<1>1. /\ s \in Records /\ ~s.password /\ ~s.otp /\ s.user = r.user /\ s.state = r.state
      /\ s.token = r.token /\ s.account = r.account /\ s.candidates = r.candidates
  BY SilencedType
<1>2. att' \in [Attempts -> Records] /\ att'[a] = s /\ \A b \in Attempts \ {a} : att'[b] = att[b]
  BY <1>1, AttUpdated DEF Ends
<1>3. /\ auth' \in [Attempts -> AuthSteps] /\ timer' \in [Attempts -> BOOLEAN]
      /\ auth'[a] = IF by = "fail" THEN "ending" ELSE "done"
      /\ ~timer'[a] /\ \A b \in Attempts \ {a} : auth'[b] = auth[b] /\ timer'[b] = timer[b]
  BY DEF Ends, AttemptTypes, AuthSteps
<1>4. ends' = EndsWith(a, by)
      /\ ends' \subseteq [attempt : Attempts, by : Endings, at : {"tasks", "closing"}]
  BY EndsWithCalls DEF Ends
<1>. QED  BY <1>1, <1>2, <1>3, <1>4 DEF Silent, Same

LEMMA FinalType == ASSUME AttemptTypes, NEW e \in ends  PROVE Final(e) \in AttemptStates
<1>1. e.by \in Endings
  BY DEF AttemptTypes
<1>. QED  BY <1>1 DEF Final, Endings, AttemptStates, Over

\* _finish_attempt ends.
LEMMA ForgetClears ==
    ASSUME AttemptTypes, NEW e \in ends, Forget(e)
    PROVE  LET a == e.attempt
           IN  /\ a \in Attempts /\ att' \in [Attempts -> Records]
               /\ att'[a].user = att[a].user /\ att'[a].state = Final(e)
               /\ att'[a].password = att[a].password /\ att'[a].otp = att[a].otp
               /\ ~att'[a].token /\ ~att'[a].account /\ att'[a].candidates = {}
               /\ \A b \in Attempts \ {a} : att'[b] = att[b]
<1> PICK a : a = e.attempt
  OBVIOUS
<1> PICK f : f = Final(e)
  OBVIOUS
<1>1. a \in Attempts /\ att[a] \in Records /\ f \in AttemptStates
  BY FinalType DEF AttemptTypes
<1> PICK r : r = [att[a] EXCEPT !.account = FALSE, !.token = FALSE, !.candidates = {}, !.state = f]
  OBVIOUS
<1>2. /\ r \in Records /\ r.user = att[a].user /\ r.state = f /\ r.password = att[a].password
      /\ r.otp = att[a].otp /\ ~r.token /\ ~r.account /\ r.candidates = {}
  BY <1>1 DEF Records
<1>3. att' = [att EXCEPT ![a] = r]
  BY DEF Forget
<1>. QED  BY <1>1, <1>2, <1>3, AttUpdated

LEMMA StartAuthMakes ==
    ASSUME AttemptTypes, Made, NEW u \in Users, StartAuth(u)
    PROVE  \E a \in Attempts :
             /\ att[a] = NoAttempt /\ attempt # a /\ attempt' = a
             /\ att' \in [Attempts -> Records] /\ auth' \in [Attempts -> AuthSteps]
             /\ timer' \in [Attempts -> BOOLEAN]
             /\ ends' \subseteq [attempt : Attempts, by : Endings, at : {"tasks", "closing"}]
             /\ att'[a].user = u /\ att'[a].state = "authenticating" /\ att'[a].account
             /\ att'[a].candidates = {} /\ auth'[a] = "login"
             /\ \A p \in Attempts : p = attempt =>
                  /\ Silent(p)' /\ auth'[p] = "done"
                  /\ att'[p].user = att[p].user /\ att'[p].state = att[p].state
                  /\ att'[p].token = att[p].token /\ att'[p].account = att[p].account
                  /\ att'[p].candidates = att[p].candidates
             /\ \A b \in Attempts \ {a, attempt} : Same(b)
             /\ ends' = IF attempt = 0 THEN ends ELSE EndsWith(attempt, "restart")
             /\ open' = open \cup {a} /\ owner' = [owner EXCEPT ![a] = u]
<1> DEFINE new == [NoAttempt EXCEPT !.user = u, !.state = "authenticating", !.password = TRUE,
                                    !.account = TRUE]
<1>1. /\ new \in Records /\ new.user = u /\ new.state = "authenticating" /\ new.account
      /\ new.candidates = {}
  BY DEF NoAttempt, Records, AttemptStates
<1>2. PICK a \in Attempts :
        /\ att[a] = NoAttempt /\ attempt' = a
        /\ open' = open \cup {a} /\ owner' = [owner EXCEPT ![a] = u]
        /\ att' = [b \in Attempts |-> CASE b = a       -> new
                                        [] b = attempt -> Silenced(att[b])
                                        [] OTHER       -> att[b]]
        /\ auth' = [b \in Attempts |-> CASE b = a       -> "login"
                                         [] b = attempt -> "done"
                                         [] OTHER       -> auth[b]]
        /\ timer' = [b \in Attempts |-> b = a \/ (b # attempt /\ timer[b])]
        /\ ends' = IF attempt = 0 THEN ends ELSE EndsWith(attempt, "restart")
  BY DEF StartAuth
<1> HIDE DEF new
<1>2a. attempt # a
  BY <1>2, NoAttemptType DEF Made
<1>3. /\ att'[a] = new
      /\ \A b \in Attempts \ {a} : att'[b] = IF b = attempt THEN Silenced(att[b]) ELSE att[b]
  BY <1>2, <1>2a
<1>4. /\ auth'[a] = "login" /\ timer'[a]
      /\ \A b \in Attempts \ {a} : /\ auth'[b] = IF b = attempt THEN "done" ELSE auth[b]
                                   /\ timer'[b] <=> b # attempt /\ timer[b]
  BY <1>2, <1>2a
<1>4a. \A b \in Attempts \ {a, attempt} : Same(b)
  <2> SUFFICES ASSUME NEW b \in Attempts \ {a, attempt}  PROVE Same(b)
    OBVIOUS
  <2>1. att'[b] = att[b] /\ auth'[b] = auth[b]
    BY <1>3, <1>4
  <2>2. timer'[b] = timer[b]
    <3>1. timer'[b] = (b = a \/ (b # attempt /\ timer[b]))
      BY <1>2
    <3>2. timer[b] \in BOOLEAN
      BY DEF AttemptTypes
    <3>. QED  BY <3>1, <3>2
  <2>. QED  BY <2>1, <2>2 DEF Same
<1>5. attempt # 0 => attempt \in Attempts
  BY DEF AttemptTypes, Attempts
<1>6. att' \in [Attempts -> Records]
  <2>1. \A b \in Attempts : att'[b] \in Records
    <3>1. \A b \in Attempts : att[b] \in Records /\ Silenced(att[b]) \in Records
      BY SilencedType DEF AttemptTypes
    <3>. QED  BY <1>1, <1>3, <3>1
  <2>2. att' = [b \in Attempts |-> att'[b]]
    BY <1>2
  <2>. QED  BY <2>1, <2>2
<1>7. auth' \in [Attempts -> AuthSteps] /\ timer' \in [Attempts -> BOOLEAN]
  BY <1>2 DEF AttemptTypes, AuthSteps
<1>8. ends' \subseteq [attempt : Attempts, by : Endings, at : {"tasks", "closing"}]
  <2>1. "restart" \in Endings
    BY DEF Endings
  <2>. QED  BY <1>2, <1>5, <2>1, EndsWithCalls DEF AttemptTypes
<1>9. ASSUME NEW p \in Attempts, p = attempt
      PROVE  /\ Silent(p)' /\ auth'[p] = "done"
             /\ att'[p].user = att[p].user /\ att'[p].state = att[p].state
             /\ att'[p].token = att[p].token /\ att'[p].account = att[p].account
             /\ att'[p].candidates = att[p].candidates
  <2>1. p \in Attempts \ {a} /\ att[p] \in Records
    BY <1>2a, <1>9 DEF AttemptTypes
  <2>2. att'[p] = Silenced(att[p])
    BY <1>3, <1>9, <2>1
  <2>3. auth'[p] = "done"
    BY <1>4, <1>9, <2>1
  <2>4. ~timer'[p]
    BY <1>4, <1>9, <2>1
  <2>. QED  BY <2>1, <2>2, <2>3, <2>4, SilencedType DEF Silent
<1>. WITNESS a \in Attempts
<1>. QED  BY <1>1, <1>2, <1>2a, <1>3, <1>4, <1>4a, <1>6, <1>7, <1>8, <1>9

\* What the requests and the task of an attempt do to it until it is ended.
Advances(a) ==
    \/ RequestOtp(a) \/ LoggedIn(a) \/ \E D \in SUBSET Devices : Fetched(a, D)
    \/ SubmitOtp /\ a = attempt

LEMMA AdvancesKeeps ==
    ASSUME AttemptTypes, NEW a \in Attempts, Advances(a)
    PROVE  /\ att' \in [Attempts -> Records] /\ auth' \in [Attempts -> AuthSteps]
           /\ timer' = timer /\ ends' = ends /\ attempt = a /\ attempt' = a
           /\ auth[a] \in {"login", "fetch"} \/ (att[a].otp /\ att[a].state = "otp_required")
           /\ auth'[a] \in {"login", "otp", "fetch", "done"}
           /\ att'[a].user = att[a].user /\ att'[a].account = att[a].account
           /\ att'[a].state \in {"authenticating", "otp_required", "fetching_devices",
                                 "devices_ready"}
           /\ \/ att'[a].candidates = att[a].candidates
              \/ att'[a].candidates \subseteq Owned[att[a].user]
           /\ \A b \in Attempts \ {a} : Same(b)
<1>1. att[a] \in Records /\ running = "on" /\ attempt = a
  BY DEF AttemptTypes, Advances, RequestOtp, LoggedIn, Fetched, SubmitOtp, Runs, Current
<1> USE DEF AttemptStep, attempts
<1>2. ASSUME NEW r \in Records, att' = [att EXCEPT ![a] = r], r.user = att[a].user,
             r.account = att[a].account,
             r.state \in {"authenticating", "otp_required", "fetching_devices", "devices_ready"},
             r.candidates = att[a].candidates \/ r.candidates \subseteq Owned[att[a].user],
             NEW s \in {"login", "otp", "fetch", "done"}, auth' = [auth EXCEPT ![a] = s],
             timer' = timer, ends' = ends, attempt' = attempt,
             auth[a] \in {"login", "fetch"} \/ (att[a].otp /\ att[a].state = "otp_required")
      PROVE  /\ att' \in [Attempts -> Records] /\ auth' \in [Attempts -> AuthSteps]
             /\ timer' = timer /\ ends' = ends /\ attempt = a /\ attempt' = a
             /\ auth[a] \in {"login", "fetch"} \/ (att[a].otp /\ att[a].state = "otp_required")
             /\ auth'[a] \in {"login", "otp", "fetch", "done"}
             /\ att'[a].user = att[a].user /\ att'[a].account = att[a].account
             /\ att'[a].state \in {"authenticating", "otp_required", "fetching_devices",
                                   "devices_ready"}
             /\ \/ att'[a].candidates = att[a].candidates
                \/ att'[a].candidates \subseteq Owned[att[a].user]
             /\ \A b \in Attempts \ {a} : Same(b)
  <2>1. att' \in [Attempts -> Records] /\ att'[a] = r /\ \A b \in Attempts \ {a} : att'[b] = att[b]
    BY <1>2, AttUpdated
  <2>2. /\ auth' \in [Attempts -> AuthSteps] /\ auth'[a] = s
        /\ \A b \in Attempts \ {a} : auth'[b] = auth[b]
    BY <1>2 DEF AttemptTypes, AuthSteps
  <2>. QED  BY <1>1, <1>2, <2>1, <2>2 DEF Same
<1>3. CASE RequestOtp(a)
  <2> PICK r : r = [att[a] EXCEPT !.otp = TRUE, !.state = "otp_required"]
    OBVIOUS
  <2>1. /\ r \in Records /\ r.user = att[a].user /\ r.account = att[a].account
        /\ r.state = "otp_required" /\ r.candidates = att[a].candidates
    BY <1>1 DEF Records, AttemptStates
  <2>2. att' = [att EXCEPT ![a] = r]
    BY <1>1, <1>3 DEF RequestOtp, Records
  <2>3. /\ auth' = [auth EXCEPT ![a] = "otp"] /\ timer' = timer /\ ends' = ends /\ attempt' = attempt
        /\ auth[a] \in {"login", "fetch"}
    BY <1>3 DEF RequestOtp, Runs
  <2>4. auth[a] \in {"login", "fetch"} \/ (att[a].otp /\ att[a].state = "otp_required")
    BY <2>3
  <2>. QED  BY <1>2, <2>1, <2>2, <2>3, <2>4
<1>4. CASE SubmitOtp
  <2> PICK r : r = [att[a] EXCEPT !.otp = FALSE, !.state = "authenticating"]
    OBVIOUS
  <2>1. /\ r \in Records /\ r.user = att[a].user /\ r.account = att[a].account
        /\ r.state = "authenticating" /\ r.candidates = att[a].candidates
    BY <1>1 DEF Records, AttemptStates
  <2>2. att' = [att EXCEPT ![a] = r]
    BY <1>1, <1>4 DEF SubmitOtp, Records
  <2>3. /\ auth' = [auth EXCEPT ![a] = "login"] /\ timer' = timer /\ ends' = ends
        /\ attempt' = attempt /\ att[a].otp /\ att[a].state = "otp_required"
    BY <1>1, <1>4 DEF SubmitOtp
  <2>4. auth[a] \in {"login", "fetch"} \/ (att[a].otp /\ att[a].state = "otp_required")
    BY <2>3
  <2>. QED  BY <1>2, <2>1, <2>2, <2>3, <2>4
<1>5. CASE LoggedIn(a)
  <2> PICK r : r = [att[a] EXCEPT !.token = TRUE, !.password = FALSE, !.state = "fetching_devices"]
    OBVIOUS
  <2>1. /\ r \in Records /\ r.user = att[a].user /\ r.account = att[a].account
        /\ r.state = "fetching_devices" /\ r.candidates = att[a].candidates
    BY <1>1 DEF Records, AttemptStates
  <2>2. att' = [att EXCEPT ![a] = r]
    BY <1>1, <1>5 DEF LoggedIn, Records
  <2>3. /\ auth' = [auth EXCEPT ![a] = "fetch"] /\ timer' = timer /\ ends' = ends
        /\ attempt' = attempt /\ auth[a] \in {"login", "fetch"}
    BY <1>5 DEF LoggedIn, Runs
  <2>4. auth[a] \in {"login", "fetch"} \/ (att[a].otp /\ att[a].state = "otp_required")
    BY <2>3
  <2>. QED  BY <1>2, <2>1, <2>2, <2>3, <2>4
<1>6. ASSUME NEW D \in SUBSET Devices, Fetched(a, D)
      PROVE  /\ att' \in [Attempts -> Records] /\ auth' \in [Attempts -> AuthSteps]
             /\ timer' = timer /\ ends' = ends /\ attempt = a /\ attempt' = a
             /\ auth[a] \in {"login", "fetch"} \/ (att[a].otp /\ att[a].state = "otp_required")
             /\ auth'[a] \in {"login", "otp", "fetch", "done"}
             /\ att'[a].user = att[a].user /\ att'[a].account = att[a].account
             /\ att'[a].state \in {"authenticating", "otp_required", "fetching_devices",
                                   "devices_ready"}
             /\ \/ att'[a].candidates = att[a].candidates
                \/ att'[a].candidates \subseteq Owned[att[a].user]
             /\ \A b \in Attempts \ {a} : Same(b)
  <2> PICK r : r = [att[a] EXCEPT !.candidates = D, !.state = "devices_ready"]
    OBVIOUS
  <2>1. /\ r \in Records /\ r.user = att[a].user /\ r.account = att[a].account
        /\ r.state = "devices_ready" /\ r.candidates = D
    BY <1>1 DEF Records, AttemptStates
  <2>2. att' = [att EXCEPT ![a] = r]
    BY <1>1, <1>6 DEF Fetched, Records
  <2>3. /\ auth' = [auth EXCEPT ![a] = "done"] /\ timer' = timer /\ ends' = ends
        /\ attempt' = attempt /\ auth[a] \in {"login", "fetch"} /\ D \subseteq Owned[att[a].user]
    BY <1>6 DEF Fetched, Runs
  <2>4. auth[a] \in {"login", "fetch"} \/ (att[a].otp /\ att[a].state = "otp_required")
    BY <2>3
  <2>. QED  BY <1>2, <2>1, <2>2, <2>3, <2>4
<1>. QED  BY <1>3, <1>4, <1>5, <1>6 DEF Advances

\* A speaker that is tested with an attempt's session may lose it the authorization.
LEMMA TestLoses ==
    ASSUME AttemptTypes, TestLosesAccount,
           test \in [attempt : 0 .. MaxAttempts, session : Sessions, candidate : BOOLEAN] \cup {None}
    PROVE  /\ att' \in [Attempts -> Records]
           /\ \A a \in Attempts :
                \/ att'[a] = att[a]
                \/ /\ att'[a].state = "auth_required"
                   /\ att'[a].user = att[a].user /\ att'[a].account = att[a].account
                   /\ att'[a].password = att[a].password /\ att'[a].otp = att[a].otp
                   /\ att'[a].token = att[a].token /\ att'[a].candidates = att[a].candidates
           /\ UNCHANGED <<attempt, auth, timer, ends>>
<1>1. UNCHANGED <<attempt, auth, timer, ends>>
  BY DEF TestLosesAccount
<1>2. CASE att' = att
  BY <1>1, <1>2 DEF AttemptTypes
<1>3. CASE test.attempt # 0 /\ att' = [att EXCEPT ![test.attempt].state = "auth_required"]
  <2> PICK a : a = test.attempt
    OBVIOUS
  <2>1. a \in Attempts /\ att[a] \in Records
    BY <1>3 DEF TestLosesAccount, AttemptTypes, Attempts
  <2> PICK r : r = [att[a] EXCEPT !.state = "auth_required"]
    OBVIOUS
  <2>2. /\ r \in Records /\ r.user = att[a].user /\ r.account = att[a].account
        /\ r.password = att[a].password /\ r.otp = att[a].otp /\ r.token = att[a].token
        /\ r.candidates = att[a].candidates /\ r.state = "auth_required"
    BY <2>1 DEF Records, AttemptStates
  <2>3. att' = [att EXCEPT ![a] = r]
    BY <1>3, <2>1 DEF Records
  <2>4. att' \in [Attempts -> Records] /\ att'[a] = r /\ \A b \in Attempts \ {a} : att'[b] = att[b]
    BY <2>1, <2>2, <2>3, AttUpdated
  <2>. QED  BY <1>1, <2>1, <2>2, <2>4
<1>. QED  BY <1>2, <1>3 DEF TestLosesAccount

\* A process that was just started, or has ended, has no attempt.
LEMMA FreshAttempts ==
    ASSUME NEW s, Fresh(s)
    PROVE  /\ AttemptTypes' /\ ends' = {} /\ attempt' = 0
           /\ \A a \in Attempts : att'[a] = NoAttempt
           /\ \A a \in Attempts : auth'[a] = "none" /\ ~timer'[a]
<1>1. att' = [a \in Attempts |-> NoAttempt] /\ auth' = [a \in Attempts |-> "none"]
      /\ timer' = [a \in Attempts |-> FALSE] /\ ends' = {} /\ attempt' = 0
  BY DEF Fresh
<1>. QED  BY <1>1, NoAttemptType DEF AttemptTypes, AuthSteps

-----------------------------------------------------------------------------
(* Types. *)

StoreTypes ==
    /\ stored \in Users \cup {None} /\ bound \subseteq Devices /\ avail \subseteq bound
    /\ running \in {"on", "stopping", "off"}
    /\ open \subseteq Sessions /\ owner \in [Sessions -> Users \cup {None}]
    /\ crossed \subseteq {"end", "refresh", "test", "speech", "untold"}
    /\ calls \in 0 .. MaxCalls /\ restarts \in 0 .. MaxRestarts

ManagerTypes ==
    /\ active \in Sessions \cup {None} /\ snapshot \subseteq Devices
    /\ state \in {"unconfigured", "devices_ready", "ready", "auth_required"} /\ flag \in BOOLEAN

RequestTypes ==
    /\ refreshes \subseteq [call : 1 .. MaxCalls, session : Sessions, previous : SUBSET Devices]
    /\ test \in [attempt : 0 .. MaxAttempts, session : Sessions, candidate : BOOLEAN] \cup {None}
    /\ save \in [at : {"idle", "finishing", "replacing", "closing"}, selected : SUBSET Devices,
                 old : Sessions \cup {None}, install : Teams, offer : SUBSET Devices]

SpeakerTypes ==
    /\ workers \in Teams /\ offered \subseteq Devices /\ refusing \in BOOLEAN
    /\ speaking \in Sessions \cup {None} /\ hung \in BOOLEAN

LEMMA TypeParts ==
    TypeOK <=> AttemptTypes /\ StoreTypes /\ ManagerTypes /\ RequestTypes /\ SpeakerTypes
BY DEF TypeOK, AttemptTypes, AuthSteps, StoreTypes, ManagerTypes, RequestTypes, SpeakerTypes

LEMMA SessionTypes ==
    /\ 0 \in Sessions /\ Attempts \subseteq Sessions /\ 0 \notin Attempts /\ None \notin Sessions
    /\ NoSave.at = "idle" /\ NoSave.old = None /\ Nobody \in Teams /\ Nobody.session = None
    /\ Nobody.devices = {}
BY DEF Sessions, Attempts, NoSave, Nobody, Teams

LEMMA NoSaveType ==
    NoSave \in [at : {"idle", "finishing", "replacing", "closing"}, selected : SUBSET Devices,
                old : Sessions \cup {None}, install : Teams, offer : SUBSET Devices]
BY SessionTypes DEF NoSave

LEMMA InitTypes == Init => TypeOK
<1> SUFFICES ASSUME Init PROVE TypeOK
  OBVIOUS
<1>1. AttemptTypes
  BY NoAttemptType DEF Init, AttemptTypes, AuthSteps
<1>2. StoreTypes
  <2>1. bound \subseteq Devices
    BY DEF Init
  <2>. QED  BY <2>1 DEF Init, StoreTypes
<1>3. ManagerTypes /\ RequestTypes /\ SpeakerTypes
  BY SessionTypes, NoSaveType DEF Init, ManagerTypes, RequestTypes, SpeakerTypes
<1>. QED  BY <1>1, <1>2, <1>3, TypeParts

\* How a step can change the attempts.
LEMMA AttemptForms ==
    ASSUME AttemptTypes, [Next]_vars
    PROVE  \/ \E s : Fresh(s)
           \/ \E u \in Users : StartAuth(u)
           \/ \E a \in Attempts : Advances(a)
           \/ \E by \in Endings :
                /\ attempt # 0 /\ Ends(attempt, by, att[attempt]) /\ attempt' \in {attempt, 0}
           \/ /\ attempt # 0 /\ Ends(attempt, "save", [att[attempt] EXCEPT !.account = FALSE])
              /\ attempt' = 0
           \/ \E e \in ends : /\ e.by = "save" \/ e.at = "closing" \/ ~att[e.attempt].account
                              /\ Forget(e) /\ ends' = ends \ {e}
                              /\ auth' = auth \/ auth' = [auth EXCEPT ![e.attempt] = "done"]
                              /\ timer' = timer /\ attempt' = attempt
           \/ \E e \in ends : EndCloses(e)
           \/ TestLosesAccount
           \/ UNCHANGED <<attempt, att, auth, timer, ends>>
<1> USE DEF attempts, AttemptStep
<1>1. CASE Start \/ Crash
  BY <1>1 DEF Start, Crash
<1>2. CASE Stop
  BY <1>2 DEF Stop, Endings
<1>3. CASE Stopped \/ Replaced \/ CloseOld \/ UNCHANGED vars
  BY <1>3 DEF Stopped, Replaced, CloseOld, vars
<1>4. CASE Request
  <2>1. CASE CancelAuth
    BY <2>1 DEF CancelAuth, Endings
  <2>2. ASSUME NEW b \in SUBSET Devices, SaveChoice(b)
        PROVE  /\ attempt # 0 /\ Ends(attempt, "save", [att[attempt] EXCEPT !.account = FALSE])
               /\ attempt' = 0
    BY <2>2 DEF SaveChoice, Choosing
  <2>3. CASE SubmitOtp
    <3>1. attempt \in Attempts
      BY <2>3 DEF SubmitOtp, AttemptTypes, Attempts
    <3>. QED  BY <2>3, <3>1 DEF Advances
  <2>4. CASE \/ \E b \in SUBSET Devices : SaveBindings(b)
             \/ RefreshDevices \/ Speak \/ \E d \in Devices : TestBinding(d)
    BY <2>4 DEF SaveBindings, RefreshDevices, Speak, TestBinding
  <2>. QED  BY <1>4, <2>1, <2>2, <2>3, <2>4 DEF Request
<1>5. CASE Finish
  <2>1. ASSUME NEW e \in ends, EndForgets(e)
        PROVE  /\ e.at = "closing" \/ ~att[e.attempt].account
               /\ Forget(e) /\ ends' = ends \ {e} /\ auth' = [auth EXCEPT ![e.attempt] = "done"]
               /\ timer' = timer /\ attempt' = attempt
    BY <2>1 DEF EndForgets
  <2>2. ASSUME NEW e \in ends, SavePublishes(e)
        PROVE  /\ e.by = "save" /\ Forget(e) /\ ends' = ends \ {e} /\ auth' = auth /\ timer' = timer
               /\ attempt' = attempt
    BY <2>2 DEF SavePublishes
  <2>. QED  BY <1>5, <2>1, <2>2 DEF Finish
<1>6. CASE Answer
  BY <1>6 DEF Answer, Refreshed, RefreshLosesAccount, RefreshFails, Tested, Spoken,
              SpeechLosesAccount
<1>7. ASSUME NEW a \in Attempts, Task(a) \/ Expire(a)
      PROVE  \/ Advances(a)
             \/ \E by \in Endings :
                  attempt # 0 /\ Ends(attempt, by, att[attempt]) /\ attempt' = attempt
  <2>1. ASSUME AuthFails(a) \/ Expire(a)
        PROVE  a = attempt /\ attempt' = attempt /\ \E by \in Endings : Ends(a, by, att[a])
    BY <2>1 DEF AuthFails, Expire, Runs, Current, Endings
  <2>2. a # 0
    BY SessionTypes
  <2>. QED  BY <1>7, <2>1, <2>2 DEF Task, Advances
<1>. QED  BY <1>1, <1>2, <1>3, <1>4, <1>5, <1>6, <1>7 DEF Next

\* Types, and that one attempt at most goes on: all that depends on the attempts alone.
LEMMA NextAttempts ==
    ASSUME AttemptTypes, RequestTypes, Made, OneAttempt, Ended, [Next]_vars
    PROVE  AttemptTypes' /\ Made' /\ OneAttempt'
<1>0. attempt # 0 => attempt \in Attempts
  BY DEF AttemptTypes, Attempts
<1>1. ASSUME NEW s, Fresh(s)  PROVE AttemptTypes' /\ Made' /\ OneAttempt'
  <2>1. /\ AttemptTypes' /\ attempt' = 0 /\ \A a \in Attempts : att'[a] = NoAttempt
        /\ \A a \in Attempts : auth'[a] = "none" /\ ~timer'[a]
    BY <1>1, FreshAttempts
  <2>. QED  BY <2>1, NoAttemptType, SessionTypes DEF Made, OneAttempt
<1>2. ASSUME NEW u \in Users, StartAuth(u)  PROVE AttemptTypes' /\ Made' /\ OneAttempt'
  <2>1. PICK a \in Attempts :
             /\ att[a] = NoAttempt /\ attempt # a /\ attempt' = a
             /\ att' \in [Attempts -> Records] /\ auth' \in [Attempts -> AuthSteps]
             /\ timer' \in [Attempts -> BOOLEAN]
             /\ ends' \subseteq [attempt : Attempts, by : Endings, at : {"tasks", "closing"}]
             /\ att'[a].user = u
             /\ \A p \in Attempts : p = attempt =>
                  Silent(p)' /\ auth'[p] = "done" /\ att'[p].user = att[p].user
             /\ \A b \in Attempts \ {a, attempt} : Same(b)
    BY <1>2, StartAuthMakes
  <2>2. AttemptTypes'
    BY <2>1 DEF AttemptTypes, Attempts
  <2>3. Made'
    <3>1. ASSUME NEW b \in Attempts, attempt' = b \/ auth'[b] # "none"
          PROVE  att'[b].user # None
      <4>1. CASE b = a
        BY <2>1, <4>1
      <4>2. CASE b = attempt
        BY <2>1, <4>2 DEF Made
      <4>3. CASE b # a /\ b # attempt
        BY <2>1, <3>1, <4>3 DEF Made, Same
      <4>. QED  BY <4>1, <4>2, <4>3
    <3>. QED  BY <3>1 DEF Made
  <2>4. OneAttempt'
    <3>1. ASSUME NEW b \in Attempts, b # a
          PROVE  auth'[b] \notin {"login", "otp", "fetch"} /\ ~timer'[b] /\ ~att'[b].password
                 /\ ~att'[b].otp
      <4>1. CASE b = attempt
        BY <2>1, <4>1 DEF Silent
      <4>2. CASE b # attempt
        BY <2>1, <3>1, <4>2 DEF OneAttempt, Same
      <4>. QED  BY <4>1, <4>2
    <3>. QED  BY <2>1, <3>1 DEF OneAttempt
  <2>. QED  BY <2>2, <2>3, <2>4
<1>3. ASSUME NEW a \in Attempts, Advances(a)  PROVE AttemptTypes' /\ Made' /\ OneAttempt'
  <2>1. /\ att' \in [Attempts -> Records] /\ auth' \in [Attempts -> AuthSteps]
        /\ timer' = timer /\ ends' = ends /\ attempt = a /\ attempt' = a
        /\ att'[a].user = att[a].user
        /\ \A b \in Attempts \ {a} : Same(b)
    BY <1>3, AdvancesKeeps
  <2>2. AttemptTypes'
    BY <2>1 DEF AttemptTypes
  <2>3. Made'
    BY <2>1 DEF Made, Same
  <2>4. OneAttempt'
    BY <2>1 DEF OneAttempt, Same
  <2>. QED  BY <2>2, <2>3, <2>4
<1>4. ASSUME NEW a \in Attempts, NEW by \in Endings, NEW r \in Records, Ends(a, by, r),
             a = attempt, attempt' \in {attempt, 0}, r.user = att[a].user
      PROVE  AttemptTypes' /\ Made' /\ OneAttempt'
  <2>1. /\ att' \in [Attempts -> Records] /\ auth' \in [Attempts -> AuthSteps]
        /\ timer' \in [Attempts -> BOOLEAN]
        /\ ends' \subseteq [attempt : Attempts, by : Endings, at : {"tasks", "closing"}]
        /\ Silent(a)' /\ att'[a].user = r.user
        /\ \A b \in Attempts \ {a} : Same(b)
    BY <1>4, EndsBegins
  <2>2. AttemptTypes'
    BY <1>4, <2>1 DEF AttemptTypes
  <2>3. Made'
    BY <1>4, <2>1, SessionTypes DEF Made, Same
  <2>4. OneAttempt'
    BY <1>4, <2>1, SessionTypes DEF OneAttempt, Same, Silent
  <2>. QED  BY <2>2, <2>3, <2>4
<1>5. ASSUME NEW by \in Endings, attempt # 0, Ends(attempt, by, att[attempt]),
             attempt' \in {attempt, 0}
      PROVE  AttemptTypes' /\ Made' /\ OneAttempt'
  BY <1>0, <1>4, <1>5 DEF AttemptTypes
<1>6. ASSUME attempt # 0, Ends(attempt, "save", [att[attempt] EXCEPT !.account = FALSE]),
             attempt' = 0
      PROVE  AttemptTypes' /\ Made' /\ OneAttempt'
  <2> PICK r : r = [att[attempt] EXCEPT !.account = FALSE]
    OBVIOUS
  <2>0. attempt \in Attempts /\ att[attempt] \in Records
    BY <1>0, <1>6 DEF AttemptTypes
  <2>1. r \in Records /\ r.user = att[attempt].user
    BY <2>0 DEF Records
  <2>2. Ends(attempt, "save", r)
    BY <1>6
  <2>. QED  BY <1>0, <1>4, <1>6, <2>1, <2>2 DEF Endings
<1>7. ASSUME NEW e \in ends, Forget(e), ends' = ends \ {e}, timer' = timer, attempt' = attempt,
             auth' = auth \/ auth' = [auth EXCEPT ![e.attempt] = "done"]
      PROVE  AttemptTypes' /\ Made' /\ OneAttempt'
  <2> PICK a : a = e.attempt
    OBVIOUS
  <2>1. /\ a \in Attempts /\ att' \in [Attempts -> Records]
        /\ att'[a].user = att[a].user
        /\ att'[a].password = att[a].password /\ att'[a].otp = att[a].otp
        /\ \A b \in Attempts \ {a} : att'[b] = att[b]
    BY <1>7, ForgetClears
  <2>2. auth' \in [Attempts -> AuthSteps] /\ \A b \in Attempts : auth'[b] \in {auth[b], "done"}
    BY <1>7 DEF AttemptTypes, AuthSteps
  <2>3. \A b \in Attempts : auth'[b] # auth[b] => b = a
    BY <1>7, <2>1 DEF AttemptTypes
  <2>4. AttemptTypes'
    BY <1>7, <2>1, <2>2 DEF AttemptTypes
  <2>5. OneAttempt'
    BY <1>7, <2>1, <2>2 DEF OneAttempt
  <2>6. auth[a] # "none"
    BY DEF Ended, Silent
  <2>7. Made'
    BY <1>7, <2>1, <2>3, <2>6 DEF Made
  <2>. QED  BY <2>4, <2>5, <2>7
<1>8. CASE TestLosesAccount
  <2>1. /\ att' \in [Attempts -> Records]
        /\ \A a \in Attempts :
             \/ att'[a] = att[a]
             \/ /\ att'[a].user = att[a].user
                /\ att'[a].password = att[a].password /\ att'[a].otp = att[a].otp
        /\ UNCHANGED <<attempt, auth, timer, ends>>
    BY <1>8, TestLoses DEF RequestTypes
  <2>2. AttemptTypes'
    BY <2>1 DEF AttemptTypes
  <2>3. Made'
    BY <2>1 DEF Made
  <2>4. OneAttempt'
    BY <2>1 DEF OneAttempt
  <2>. QED  BY <2>2, <2>3, <2>4
<1>9. ASSUME UNCHANGED <<attempt, att, auth, timer>>,
             ends' \subseteq [attempt : Attempts, by : Endings, at : {"tasks", "closing"}]
      PROVE  AttemptTypes' /\ Made' /\ OneAttempt'
  BY <1>9 DEF AttemptTypes, Made, OneAttempt
<1>10. ASSUME NEW e \in ends, EndCloses(e)  PROVE AttemptTypes' /\ Made' /\ OneAttempt'
  <2>1. [e EXCEPT !.at = "closing"] \in [attempt : Attempts, by : Endings, at : {"tasks", "closing"}]
    BY DEF AttemptTypes
  <2>. QED  BY <1>9, <1>10, <2>1 DEF EndCloses, AttemptTypes
<1>11. CASE UNCHANGED <<attempt, att, auth, timer, ends>>
  BY <1>9, <1>11 DEF AttemptTypes
<1>. QED
  BY <1>1, <1>2, <1>3, <1>5, <1>6, <1>7, <1>8, <1>10, <1>11, AttemptForms

\* What is read is typed.
LEMMA Reading ==
    ASSUME TypeOK
    PROVE  /\ Candidates \subseteq Devices
           /\ \A st : Flag(st) \in BOOLEAN
           /\ \A st, b, a : Offer(st, b, a) \subseteq b /\ Offer(st, b, a) \subseteq a
           /\ attempt # 0 => attempt \in Attempts
           /\ \A s : Renewed(s) \subseteq {stored, owner[0]} /\ Lost(s) \subseteq {stored, None}
           /\ \A d : TestSession(d) \in Sessions \cup {None}
<1>1. attempt # 0 => attempt \in Attempts /\ att[attempt] \in Records
  BY DEF TypeOK, Attempts
<1>2. Candidates \subseteq Devices
  <2>1. attempt # 0 => att[attempt].candidates \subseteq Devices
    BY <1>1 DEF Records
  <2>. QED  BY <2>1 DEF Candidates, Choosing, TypeOK
<1>3. \A st : Flag(st) \in BOOLEAN
  BY DEF TypeOK, Flag
<1>4. \A st, b, a : Offer(st, b, a) \subseteq b /\ Offer(st, b, a) \subseteq a
  BY DEF Offer
<1>5. \A s : Renewed(s) \subseteq {stored, owner[0]} /\ Lost(s) \subseteq {stored, None}
  BY DEF Renewed, Lost
<1>6. \A d : TestSession(d) \in Sessions \cup {None}
  BY <1>1, SessionTypes DEF TestSession, TypeOK
<1>. QED  BY <1>1, <1>2, <1>3, <1>4, <1>5, <1>6

LEMMA Publishing ==
    ASSUME TypeOK, NEW selected \in SUBSET Devices, NEW old \in Sessions \cup {None},
           active' \in Sessions \cup {None}, bound' \subseteq Devices, Publish(selected, old)
    PROVE  /\ state' = (IF selected = {} THEN "devices_ready" ELSE "ready") /\ flag' = Flag(state')
           /\ save' \in [at : {"idle", "finishing", "replacing", "closing"},
                         selected : SUBSET Devices, old : Sessions \cup {None},
                         install : Teams, offer : SUBSET Devices]
           /\ save'.at = "replacing" /\ save'.selected = selected /\ save'.old = old
           /\ save'.install = [session |-> active',
                               devices |-> IF active' = None THEN {} ELSE bound']
           /\ save'.offer = Offer(state', bound', avail')
<1> PICK team : team = [session |-> active', devices |-> IF active' = None THEN {} ELSE bound']
  OBVIOUS
<1> PICK o : o = Offer(state', bound', avail')
  OBVIOUS
<1>1. team \in Teams /\ o \in SUBSET Devices
  BY Reading DEF Teams
<1>2. save' = [at |-> "replacing", selected |-> selected, old |-> old, install |-> team, offer |-> o]
  BY DEF Publish
<1>. QED  BY <1>1, <1>2 DEF Publish

LEMMA NextManagerTypes ==
    ASSUME TypeOK, [Next]_vars  PROVE ManagerTypes'
<1> USE DEF manager, attempts, AttemptStep, ManagerTypes
<1>0. ManagerTypes
  BY TypeParts
<1>1. CASE Start \/ Crash
  BY <1>1, SessionTypes DEF Start, Crash, Fresh
<1>2. CASE Stop \/ Replaced \/ CloseOld \/ UNCHANGED vars \/ CancelAuth \/ SubmitOtp \/ RefreshDevices
  BY <1>0, <1>2 DEF Stop, Replaced, CloseOld, vars, CancelAuth, SubmitOtp, RefreshDevices
<1>3. CASE Stopped
  BY <1>0, <1>3 DEF Stopped
<1>4. ASSUME NEW u \in Users, StartAuth(u)  PROVE ManagerTypes'
  BY <1>0, <1>4 DEF StartAuth
<1>5. ASSUME NEW b \in SUBSET Devices, SaveChoice(b)  PROVE ManagerTypes'
  <2>1. attempt # 0
    BY <1>5 DEF SaveChoice, Choosing
  <2>. QED  BY <1>0, <1>5, <2>1, SessionTypes, Reading DEF SaveChoice
<1>6. ASSUME NEW b \in SUBSET Devices, SaveBindings(b)  PROVE ManagerTypes'
  <2>1. state' \in {"devices_ready", "ready"} /\ flag' = Flag(state')
    BY <1>6 DEF SaveBindings, Publish
  <2>. QED  BY <1>0, <1>6, <2>1, Reading DEF SaveBindings
<1>7. ASSUME NEW d \in Devices, TestBinding(d)  PROVE ManagerTypes'
  BY <1>0, <1>7 DEF TestBinding
<1>8. CASE Speak \/ SpeechLosesAccount \/ Spoken
  BY <1>0, <1>8 DEF Speak, SpeechLosesAccount, Spoken, RequireAuth
<1>9. ASSUME NEW a \in Attempts, Task(a) \/ Expire(a)  PROVE ManagerTypes'
  BY <1>0, <1>9 DEF Task, RequestOtp, LoggedIn, AuthFails, Fetched, Expire
<1>10. ASSUME NEW e \in ends, EndCloses(e) \/ EndForgets(e)  PROVE ManagerTypes'
  BY <1>0, <1>10 DEF EndCloses, EndForgets
<1>11. ASSUME NEW e \in ends, SavePublishes(e)  PROVE ManagerTypes'
  <2>1. state' \in {"devices_ready", "ready"} /\ flag' = Flag(state')
    BY <1>11 DEF SavePublishes, Publish
  <2>. QED  BY <1>0, <1>11, <2>1, Reading DEF SavePublishes
<1>12. ASSUME NEW r \in refreshes, NEW D \in SUBSET Devices, Refreshed(r, D)
      PROVE  ManagerTypes'
  BY <1>0, <1>12, Reading DEF Refreshed, Republish
<1>13. ASSUME NEW r \in refreshes, RefreshLosesAccount(r)  PROVE ManagerTypes'
  BY <1>0, <1>13, Reading DEF RefreshLosesAccount, Republish
<1>14. ASSUME NEW r \in refreshes, RefreshFails(r)  PROVE ManagerTypes'
  <2>1. r.previous \in SUBSET Devices
    BY <1>14 DEF RefreshFails, TypeOK
  <2>. QED  BY <1>0, <1>14, <2>1 DEF RefreshFails
<1>15. CASE Tested \/ TestLosesAccount
  BY <1>0, <1>15, Reading DEF Tested, TestLosesAccount, TestPublishes, Republish
<1>. QED
  BY <1>1, <1>2, <1>3, <1>4, <1>5, <1>6, <1>7, <1>8, <1>9, <1>10, <1>11, <1>12, <1>13, <1>14, <1>15
  DEF Next, Request, Finish, Answer

LEMMA NextStoreTypes ==
    ASSUME TypeOK, [Next]_vars  PROVE StoreTypes'
<1> USE DEF storage, attempts, bounds, AttemptStep, StoreTypes
<1>0. StoreTypes
  BY TypeParts
<1>1. CASE Start
  <2>1. running' = "on"
    BY <1>1 DEF Start, Fresh
  <2>2. open' \subseteq Sessions /\ owner' \in [Sessions -> Users \cup {None}]
    BY <1>0, <1>1, SessionTypes DEF Start
  <2>. QED  BY <1>0, <1>1, <2>1, <2>2 DEF Start
<1>2. CASE Crash
  <2>1. running' = "off"
    BY <1>2 DEF Crash, Fresh
  <2>2. restarts' \in 0 .. MaxRestarts
    BY <1>0, <1>2 DEF Crash
  <2>. QED  BY <1>0, <1>2, <2>1, <2>2 DEF Crash
<1>3. ASSUME Call  PROVE calls' \in 0 .. MaxCalls /\ running = "on"
  BY <1>0, <1>3 DEF Call
<1>4. CASE \/ Stop \/ Replaced \/ UNCHANGED vars \/ SubmitOtp
           \/ \E r \in refreshes : RefreshFails(r)
  BY <1>0, <1>4 DEF Stop, Replaced, vars, SubmitOtp, RefreshFails, Crosses
<1>5. CASE CancelAuth \/ RefreshDevices \/ Speak
  BY <1>0, <1>3, <1>5 DEF CancelAuth, RefreshDevices, Speak
<1>6. CASE Stopped \/ CloseOld
  BY <1>0, <1>6 DEF Stopped, CloseOld
<1>7. ASSUME NEW u \in Users, StartAuth(u)  PROVE StoreTypes'
  <2>1. open' \subseteq Sessions /\ owner' \in [Sessions -> Users \cup {None}]
    BY <1>0, <1>7, SessionTypes DEF StartAuth
  <2>. QED  BY <1>0, <1>3, <1>7, <2>1 DEF StartAuth
<1>8. ASSUME NEW b \in SUBSET Devices, SaveChoice(b)  PROVE StoreTypes'
  <2>1. attempt \in Attempts /\ att[attempt] \in Records
    BY <1>8, Reading DEF SaveChoice, Choosing, TypeOK
  <2>2. att[attempt].user \in Users \cup {None}
    BY <2>1 DEF Records
  <2>. QED  BY <1>0, <1>3, <1>8, <2>2 DEF SaveChoice, Commit
<1>9. ASSUME NEW b \in SUBSET Devices, SaveBindings(b)  PROVE StoreTypes'
  BY <1>0, <1>3, <1>9 DEF SaveBindings, Commit
<1>10. ASSUME NEW d \in Devices, TestBinding(d)  PROVE StoreTypes'
  BY <1>0, <1>3, <1>10 DEF TestBinding
<1>11. ASSUME NEW a \in Attempts, Task(a) \/ Expire(a)  PROVE StoreTypes'
  BY <1>0, <1>11 DEF Task, RequestOtp, LoggedIn, AuthFails, Fetched, Expire
<1>12. ASSUME NEW e \in ends, EndCloses(e) \/ EndForgets(e) \/ SavePublishes(e)
       PROVE  StoreTypes'
  BY <1>0, <1>12 DEF EndCloses, EndForgets, SavePublishes
<1>13. {stored, owner[0], None} \subseteq Users \cup {None}
  BY <1>0, SessionTypes
<1>14. ASSUME NEW r \in refreshes, NEW D \in SUBSET Devices, Refreshed(r, D)
      PROVE  StoreTypes'
  <2>1. stored' \in Users \cup {None}
    BY <1>13, <1>14, Reading DEF Refreshed
  <2>. QED  BY <1>0, <1>14, <2>1 DEF Refreshed, Crosses
<1>15. ASSUME NEW r \in refreshes, RefreshLosesAccount(r)  PROVE StoreTypes'
  <2>1. stored' \in Users \cup {None}
    BY <1>13, <1>15, Reading DEF RefreshLosesAccount
  <2>. QED  BY <1>0, <1>15, <2>1 DEF RefreshLosesAccount, Crosses
<1>16. CASE Tested
  <2>1. stored' \in Users \cup {None}
    BY <1>13, <1>16, Reading DEF Tested
  <2>. QED  BY <1>0, <1>16, <2>1 DEF Tested, Crosses
<1>17. CASE TestLosesAccount
  <2>1. stored' \in Users \cup {None}
    BY <1>13, <1>17, Reading DEF TestLosesAccount
  <2>. QED  BY <1>0, <1>17, <2>1 DEF TestLosesAccount, Crosses
<1>18. CASE Spoken
  <2>1. stored' \in Users \cup {None}
    BY <1>13, <1>18, Reading DEF Spoken
  <2>. QED  BY <1>0, <1>18, <2>1 DEF Spoken, Crosses
<1>19. CASE SpeechLosesAccount
  <2>1. stored' \in Users \cup {None}
    BY <1>13, <1>19, Reading DEF SpeechLosesAccount
  <2>. QED  BY <1>0, <1>19, <2>1 DEF SpeechLosesAccount, Crosses
<1>. QED
  BY <1>1, <1>2, <1>4, <1>5, <1>6, <1>7, <1>8, <1>9, <1>10, <1>11, <1>12, <1>14, <1>15, <1>16,
     <1>17, <1>18, <1>19
  DEF Next, Request, Finish, Answer

LEMMA NextRequestTypes ==
    ASSUME TypeOK, [Next]_vars  PROVE RequestTypes'
<1> USE DEF requests, attempts, AttemptStep
<1>0. RequestTypes
  BY TypeParts
<1>1. CASE Start \/ Crash
  BY <1>1, NoSaveType DEF Start, Crash, Fresh, RequestTypes
<1>2. CASE Stop \/ Stopped \/ UNCHANGED vars \/ SubmitOtp \/ CancelAuth \/ Speak
  BY <1>0, <1>2 DEF Stop, Stopped, vars, SubmitOtp, CancelAuth, Speak, RequestTypes
<1>3. CASE Spoken \/ SpeechLosesAccount
  BY <1>0, <1>3 DEF Spoken, SpeechLosesAccount, RequestTypes
<1>4. CASE \/ \E r \in refreshes : RefreshLosesAccount(r) \/ RefreshFails(r)
           \/ Tested \/ TestLosesAccount
  BY <1>0, <1>4 DEF RefreshLosesAccount, RefreshFails, Tested, TestLosesAccount, RequestTypes
<1>5. ASSUME NEW r \in refreshes, NEW D \in SUBSET Devices, Refreshed(r, D)
      PROVE  RequestTypes'
  BY <1>0, <1>5 DEF Refreshed, RequestTypes
<1>6. ASSUME NEW u \in Users, StartAuth(u)  PROVE RequestTypes'
  BY <1>0, <1>6 DEF StartAuth, RequestTypes
<1>7. ASSUME NEW a \in Attempts, Task(a) \/ Expire(a)  PROVE RequestTypes'
  BY <1>0, <1>7 DEF Task, RequestOtp, LoggedIn, AuthFails, Fetched, Expire, RequestTypes
<1>8. ASSUME NEW e \in ends, EndCloses(e) \/ EndForgets(e)  PROVE RequestTypes'
  BY <1>0, <1>8 DEF EndCloses, EndForgets, RequestTypes
<1>9. CASE Replaced
  BY <1>0, <1>9, NoSaveType DEF Replaced, RequestTypes
<1>10. CASE CloseOld
  BY <1>0, <1>10, NoSaveType DEF CloseOld, RequestTypes
<1>11. CASE RefreshDevices
  <2>1. calls' \in 1 .. MaxCalls
    BY <1>11 DEF RefreshDevices, Call, TypeOK
  <2>. QED  BY <1>0, <1>11, <2>1 DEF RefreshDevices, RequestTypes, TypeOK
<1>12. ASSUME NEW d \in Devices, TestBinding(d)  PROVE RequestTypes'
  <2>1. TestSession(d) \in Sessions
    BY <1>12, Reading DEF TestBinding
  <2>. QED  BY <1>0, <1>12, <2>1 DEF TestBinding, RequestTypes, TypeOK
<1>13. ASSUME NEW b \in SUBSET Devices, SaveChoice(b)  PROVE RequestTypes'
  <2>1. save' = [at |-> "finishing", selected |-> b, old |-> active, install |-> Nobody,
                 offer |-> {}]
    BY <1>13 DEF SaveChoice
  <2>2. refreshes' = refreshes /\ test' = test
    BY <1>13 DEF SaveChoice
  <2>. QED  BY <1>0, <2>1, <2>2, SessionTypes DEF TypeOK, RequestTypes
<1>14. ASSUME NEW b \in SUBSET Devices, SaveBindings(b)  PROVE RequestTypes'
  <2>1. refreshes' = refreshes /\ test' = test /\ Publish(b, None)
    BY <1>14 DEF SaveBindings
  <2>2. active' \in Sessions \cup {None} /\ bound' \subseteq Devices
    BY <1>14 DEF SaveBindings, Commit, TypeOK
  <2>. QED  BY <1>0, <2>1, <2>2, Publishing DEF RequestTypes
<1>15. ASSUME NEW e \in ends, SavePublishes(e)  PROVE RequestTypes'
  <2>1. refreshes' = refreshes /\ test' = test /\ Publish(save.selected, save.old)
    BY <1>15 DEF SavePublishes
  <2>2. active' \in Sessions \cup {None} /\ bound' \subseteq Devices
    BY <1>15 DEF SavePublishes, storage, TypeOK
  <2>3. save.selected \in SUBSET Devices /\ save.old \in Sessions \cup {None}
    BY <1>0 DEF RequestTypes
  <2>. QED  BY <1>0, <2>1, <2>2, <2>3, Publishing DEF RequestTypes
<1>. QED
  BY <1>1, <1>2, <1>3, <1>4, <1>5, <1>6, <1>7, <1>8, <1>9, <1>10, <1>11, <1>12, <1>13, <1>14, <1>15
  DEF Next, Request, Finish, Answer

LEMMA NextSpeakerTypes ==
    ASSUME TypeOK, [Next]_vars  PROVE SpeakerTypes'
<1> USE DEF speakers, attempts, AttemptStep
<1>0. SpeakerTypes
  BY TypeParts
<1>1. CASE Start
  <2>1. /\ refusing' = FALSE /\ speaking' = None /\ hung' = FALSE
    BY <1>1 DEF Start, Fresh
  <2>2. bound \subseteq Devices /\ offered' \subseteq Devices
    BY <1>1, Reading DEF Start, TypeOK, storage
  <2>3. workers' \in Teams
    BY <1>1, <2>2, SessionTypes DEF Start, Teams
  <2>. QED  BY <2>1, <2>2, <2>3 DEF SpeakerTypes
<1>2. CASE Crash
  BY <1>2, SessionTypes DEF Crash, Fresh, SpeakerTypes
<1>3. CASE Stop
  BY <1>0, <1>3, SessionTypes DEF Stop, SpeakerTypes
<1>4. CASE Stopped \/ CloseOld \/ UNCHANGED vars \/ SubmitOtp \/ CancelAuth \/ RefreshDevices
  BY <1>0, <1>4 DEF Stopped, CloseOld, vars, SubmitOtp, CancelAuth, RefreshDevices, SpeakerTypes
<1>5. CASE Replaced
  <2>1. save.install \in Teams /\ save.offer \subseteq Devices
    BY DEF TypeOK
  <2>. QED  BY <1>0, <1>5, <2>1 DEF Replaced, SpeakerTypes
<1>6. CASE Speak
  <2>1. workers.session \in Sessions \cup {None}
    BY <1>0 DEF SpeakerTypes, Teams
  <2>. QED  BY <1>0, <1>6, <2>1 DEF Speak, RequireAuth, SpeakerTypes
<1>7. CASE Spoken \/ SpeechLosesAccount
  BY <1>0, <1>7 DEF Spoken, SpeechLosesAccount, RequireAuth, SpeakerTypes
<1>8. ASSUME NEW st, Republish(st), UNCHANGED <<workers, speaking, hung>>  PROVE SpeakerTypes'
  <2>1. refusing' \in BOOLEAN /\ offered' \subseteq workers.devices
    BY <1>8 DEF Republish
  <2>2. workers.devices \subseteq Devices
    BY <1>0 DEF SpeakerTypes, Teams
  <2>. QED  BY <1>0, <1>8, <2>1, <2>2 DEF SpeakerTypes
<1>9. ASSUME NEW r \in refreshes, NEW D \in SUBSET Devices, Refreshed(r, D)
      PROVE  SpeakerTypes'
  BY <1>8, <1>9 DEF Refreshed
<1>10. ASSUME NEW r \in refreshes, RefreshLosesAccount(r)  PROVE SpeakerTypes'
  BY <1>8, <1>10 DEF RefreshLosesAccount
<1>11. ASSUME NEW r \in refreshes, RefreshFails(r)  PROVE SpeakerTypes'
  BY <1>0, <1>11 DEF RefreshFails, SpeakerTypes
<1>12. CASE Tested
  <2>1. UNCHANGED <<workers, speaking, hung>> /\ TestPublishes(state)
    BY <1>12 DEF Tested
  <2>. QED  BY <1>0, <1>8, <2>1 DEF TestPublishes, SpeakerTypes
<1>13. CASE TestLosesAccount
  <2>1. UNCHANGED <<workers, speaking, hung>> /\ TestPublishes(state')
    BY <1>13 DEF TestLosesAccount
  <2>. QED  BY <1>0, <1>8, <2>1 DEF TestPublishes, SpeakerTypes
<1>14. ASSUME NEW u \in Users, StartAuth(u)  PROVE SpeakerTypes'
  BY <1>0, <1>14 DEF StartAuth, SpeakerTypes
<1>15. ASSUME NEW b \in SUBSET Devices, SaveChoice(b) \/ SaveBindings(b)  PROVE SpeakerTypes'
  BY <1>0, <1>15 DEF SaveChoice, SaveBindings, SpeakerTypes
<1>16. ASSUME NEW d \in Devices, TestBinding(d)  PROVE SpeakerTypes'
  BY <1>0, <1>16 DEF TestBinding, SpeakerTypes
<1>17. ASSUME NEW a \in Attempts, Task(a) \/ Expire(a)  PROVE SpeakerTypes'
  BY <1>0, <1>17 DEF Task, RequestOtp, LoggedIn, AuthFails, Fetched, Expire, SpeakerTypes
<1>18. ASSUME NEW e \in ends, EndCloses(e) \/ EndForgets(e) \/ SavePublishes(e)
       PROVE  SpeakerTypes'
  BY <1>0, <1>18 DEF EndCloses, EndForgets, SavePublishes, SpeakerTypes
<1>. QED
  BY <1>1, <1>2, <1>3, <1>4, <1>5, <1>6, <1>7, <1>9, <1>10, <1>11, <1>12, <1>13, <1>14, <1>15,
     <1>16, <1>17, <1>18
  DEF Next, Request, Finish, Answer

LEMMA NextTypes ==
    ASSUME TypeOK, Made, OneAttempt, Ended, [Next]_vars
    PROVE  TypeOK' /\ Made' /\ OneAttempt'
<1>1. AttemptTypes' /\ Made' /\ OneAttempt'
  BY TypeParts, NextAttempts
<1>2. StoreTypes' /\ ManagerTypes' /\ RequestTypes' /\ SpeakerTypes'
  BY NextStoreTypes, NextManagerTypes, NextRequestTypes, NextSpeakerTypes
<1>3. (TypeOK <=> AttemptTypes /\ StoreTypes /\ ManagerTypes /\ RequestTypes /\ SpeakerTypes)'
  BY TypeParts, PTL
<1>. QED  BY <1>1, <1>2, <1>3

-----------------------------------------------------------------------------
(* An attempt that is over holds nothing. *)

\* How a step can change what the attempts hold, together with the sessions and the save.
LEMMA HoldForms ==
    ASSUME TypeOK, [Next]_vars
    PROVE  \/ \E s : /\ Fresh(s) /\ (Start \/ Crash)
                    /\ open' \subseteq {0} /\ active' \in {0, None}
           \/ \E u \in Users : StartAuth(u) /\ UNCHANGED <<active, save>>
           \/ \E a \in Attempts : Advances(a) /\ UNCHANGED <<open, active, save>>
           \/ \E by \in Endings \ {"save"} :
                /\ attempt # 0 /\ Ends(attempt, by, att[attempt])
                /\ by = "fail" => auth[attempt] \in {"login", "fetch"}
                /\ UNCHANGED <<open, active, save>>
           \/ \E b \in SUBSET Devices : SaveChoice(b)
           \/ \E e \in ends : EndForgets(e) /\ UNCHANGED <<open, active, save>>
           \/ \E e \in ends : SavePublishes(e)
           \/ \E e \in ends : EndCloses(e) /\ UNCHANGED <<active, save>>
           \/ TestLosesAccount /\ UNCHANGED <<open, active, save>>
           \/ /\ UNCHANGED <<att, auth, timer, ends>>
              /\ \/ \E b \in SUBSET Devices : SaveBindings(b)
                 \/ Replaced \/ CloseOld \/ Stopped \/ UNCHANGED <<open, active, save>>
<1> USE DEF attempts, AttemptStep, manager, requests
<1>1. CASE Start \/ Crash
  <2>1. \E s : Fresh(s)
    BY <1>1 DEF Start, Crash
  <2>2. open' \subseteq {0} /\ active' \in {0, None}
    BY <1>1 DEF Start, Crash
  <2>. QED  BY <1>1, <2>1, <2>2
<1>2. CASE Stop
  <2>1. "stop" \in Endings \ {"save"}
    BY DEF Endings
  <2>. QED  BY <1>2, <2>1 DEF Stop
<1>3. CASE Stopped \/ Replaced \/ CloseOld \/ UNCHANGED vars
  BY <1>3 DEF Stopped, Replaced, CloseOld, vars
<1>4. CASE CancelAuth
  <2>1. "cancel" \in Endings \ {"save"}
    BY DEF Endings
  <2>. QED  BY <1>4, <2>1 DEF CancelAuth
<1>5. CASE SubmitOtp
  <2>1. attempt \in Attempts
    BY <1>5, Reading DEF SubmitOtp
  <2>. QED  BY <1>5, <2>1 DEF SubmitOtp, Advances
<1>6. ASSUME NEW u \in Users, StartAuth(u)  PROVE UNCHANGED <<active, save>>
  BY <1>6 DEF StartAuth
<1>7. ASSUME NEW b \in SUBSET Devices, SaveBindings(b)  PROVE UNCHANGED <<att, auth, timer, ends>>
  BY <1>7 DEF SaveBindings
<1>8. CASE RefreshDevices \/ Speak \/ \E d \in Devices : TestBinding(d)
  <2>1. UNCHANGED <<att, auth, timer, ends>> /\ UNCHANGED <<open, active, save>>
    BY <1>8 DEF RefreshDevices, Speak, TestBinding
  <2>. QED  BY <2>1
<1>9. ASSUME NEW e \in ends, EndCloses(e) \/ EndForgets(e)  PROVE UNCHANGED <<active, save>>
  BY <1>9 DEF EndCloses, EndForgets
<1>10. ASSUME NEW e \in ends, EndForgets(e)  PROVE open' = open
  BY <1>10 DEF EndForgets
<1>11. CASE TestLosesAccount
  BY <1>11 DEF TestLosesAccount
<1>12. CASE Answer /\ ~TestLosesAccount
  <2>1. UNCHANGED <<att, auth, timer, ends>> /\ UNCHANGED <<open, active, save>>
    BY <1>12 DEF Answer, Refreshed, RefreshLosesAccount, RefreshFails, Tested, Spoken,
                 SpeechLosesAccount
  <2>. QED  BY <2>1
<1>13. ASSUME NEW a \in Attempts, Task(a)
       PROVE  \/ Advances(a) /\ UNCHANGED <<open, active, save>>
              \/ /\ attempt # 0 /\ Ends(attempt, "fail", att[attempt])
                 /\ auth[attempt] \in {"login", "fetch"} /\ UNCHANGED <<open, active, save>>
  <2>1. CASE AuthFails(a)
    BY <2>1, SessionTypes DEF AuthFails, Runs, Current
  <2>2. CASE RequestOtp(a)
    BY <2>2 DEF RequestOtp, Advances
  <2>3. CASE LoggedIn(a)
    BY <2>3 DEF LoggedIn, Advances
  <2>4. ASSUME NEW D \in SUBSET Devices, Fetched(a, D)
        PROVE  Advances(a) /\ UNCHANGED <<open, active, save>>
    BY <2>4 DEF Fetched, Advances
  <2>. QED  BY <1>13, <2>1, <2>2, <2>3, <2>4 DEF Task
<1>14. ASSUME NEW a \in Attempts, Expire(a)
       PROVE  /\ attempt # 0 /\ Ends(attempt, "expire", att[attempt])
              /\ UNCHANGED <<open, active, save>>
  BY <1>14, SessionTypes DEF Expire, Current
<1>15. {"fail", "expire"} \subseteq Endings \ {"save"}
  BY DEF Endings
<1>16. CASE \E a \in Attempts : Task(a) \/ Expire(a)
  BY <1>13, <1>14, <1>15, <1>16
<1>17. CASE Request
  BY <1>4, <1>5, <1>6, <1>7, <1>8, <1>17 DEF Request
<1>18. CASE Finish
  BY <1>9, <1>10, <1>18 DEF Finish
<1>. QED  BY <1>1, <1>2, <1>3, <1>11, <1>12, <1>16, <1>17, <1>18 DEF Next

\* What is said of the attempts, apart from their types.
Settled == Ended /\ OneSave /\ Released /\ Opened

\* The attempts stay, and a session closes, is handed over or stays.
LEMMA AttemptsStay ==
    ASSUME TypeOK, Ended, OneSave, Released, Opened, UNCHANGED <<att, auth, timer, ends>>,
           open' \subseteq open,
           \A e \in ends : e.by # "save",
           \A s \in open' \cap Attempts : s = active \/ s = save.old => s = active' \/ s = save'.old
    PROVE  Settled'
<1>1. Ended' /\ OneSave'
  BY DEF Ended, OneSave, Silent
<1>2. Released'
  BY DEF Released, Silent
<1>3. Opened'
  BY DEF Opened
<1>. QED  BY <1>1, <1>2, <1>3 DEF Settled

LEMMA NextHolds ==
    ASSUME TypeOK, Made, OneAttempt, Ended, OneSave, Released, Opened, [Next]_vars
    PROVE  Ended' /\ OneSave' /\ Released' /\ Opened'
<1>0. AttemptTypes /\ (attempt # 0 => attempt \in Attempts)
  BY TypeParts, Reading
<1>0a. \A e \in ends : e.attempt \in Attempts /\ att[e.attempt] \in Records
  BY <1>0 DEF AttemptTypes
<1>1. ASSUME NEW s, Fresh(s), open' \subseteq {0}  PROVE Settled'
  <2>1. ends' = {} /\ \A a \in Attempts : att'[a] = NoAttempt
    BY <1>1, FreshAttempts
  <2>2. Ended' /\ OneSave'
    BY <2>1 DEF Ended, OneSave
  <2>3. Released'
    BY <2>1, NoAttemptType DEF Released
  <2>4. Opened'
    BY <1>1, SessionTypes DEF Opened
  <2>. QED  BY <2>2, <2>3, <2>4 DEF Settled
<1>2. ASSUME NEW u \in Users, StartAuth(u), UNCHANGED <<active, save>>  PROVE Settled'
  <2>1. PICK a \in Attempts :
          /\ att[a] = NoAttempt /\ attempt # a /\ attempt' = a
          /\ att'[a].user = u /\ att'[a].state = "authenticating" /\ att'[a].account
          /\ \A p \in Attempts : p = attempt =>
               /\ Silent(p)' /\ auth'[p] = "done" /\ att'[p].state = att[p].state
               /\ att'[p].token = att[p].token /\ att'[p].account = att[p].account
               /\ att'[p].candidates = att[p].candidates
          /\ \A b \in Attempts \ {a, attempt} : Same(b)
          /\ ends' = IF attempt = 0 THEN ends ELSE EndsWith(attempt, "restart")
          /\ open' = open \cup {a}
    BY <1>0, <1>2, StartAuthMakes
  <2>2. \A e \in ends : e.attempt # a
    BY <1>0a, <2>1, NoAttemptType DEF Ended, Silent, Made
  <2>3. \A e \in ends' : e \in ends \/ (attempt # 0 /\ e = [attempt |-> attempt, by |-> "restart",
                                                           at |-> "tasks"])
    <3>1. "restart" \in Endings
      BY DEF Endings
    <3>. QED  BY <1>0, <2>1, <3>1, EndsWithCalls
  <2>4. Ended'
    <3>1. ASSUME NEW e \in ends', e \in ends
          PROVE  /\ Silent(e.attempt)'
                 /\ e.by # "fail" => auth'[e.attempt] = "done"
                 /\ e.at = "closing" => e.attempt \notin open'
                 /\ e.by = "save" => ~att'[e.attempt].account /\ save'.at = "finishing"
      <4> PICK p : p = e.attempt
        OBVIOUS
      <4>1. /\ Silent(p)
            /\ e.by # "fail" => auth[p] = "done"
            /\ e.at = "closing" => p \notin open
            /\ e.by = "save" => ~att[p].account /\ save.at = "finishing"
        BY <3>1 DEF Ended
      <4>2. p \in Attempts /\ p # a
        BY <1>0a, <2>2, <3>1
      <4>3. CASE p = attempt
        BY <1>2, <2>1, <4>1, <4>2, <4>3
      <4>4. CASE p # attempt
        BY <1>2, <2>1, <4>1, <4>2, <4>4 DEF Same, Silent
      <4>. QED  BY <4>3, <4>4
    <3>2. ASSUME NEW e \in ends', attempt # 0,
                 e = [attempt |-> attempt, by |-> "restart", at |-> "tasks"]
          PROVE  /\ Silent(e.attempt)'
                 /\ e.by # "fail" => auth'[e.attempt] = "done"
                 /\ e.at = "closing" => e.attempt \notin open'
                 /\ e.by = "save" => ~att'[e.attempt].account /\ save'.at = "finishing"
      <4> PICK p : p = e.attempt
        OBVIOUS
      <4>. QED  BY <1>0, <2>1, <3>2
    <3>. QED  BY <2>3, <3>1, <3>2 DEF Ended
  <2>5. OneSave'
    BY <2>3 DEF OneSave
  <2>6. Released'
    <3>1. ASSUME NEW b \in Attempts, att'[b].state \in Over
          PROVE  /\ Silent(b)' /\ auth'[b] = "done" /\ ~att'[b].token /\ ~att'[b].account
                 /\ att'[b].candidates = {}
      <4>1. b # a
        BY <2>1, <3>1 DEF Over
      <4>2. CASE b = attempt
        BY <2>1, <3>1, <4>2 DEF Released
      <4>3. CASE b # attempt
        BY <2>1, <3>1, <4>1, <4>3 DEF Released, Same, Silent
      <4>. QED  BY <4>2, <4>3
    <3>. QED  BY <3>1 DEF Released
  <2>7. Opened'
    BY <1>2, <2>1 DEF Opened, Same
  <2>. QED  BY <2>4, <2>5, <2>6, <2>7 DEF Settled
<1>3. ASSUME NEW a \in Attempts, Advances(a), UNCHANGED <<open, active, save>>  PROVE Settled'
  <2>1. /\ ends' = ends /\ att'[a].account = att[a].account
        /\ auth[a] \in {"login", "fetch"} \/ (att[a].otp /\ att[a].state = "otp_required")
        /\ att'[a].state \in {"authenticating", "otp_required", "fetching_devices", "devices_ready"}
        /\ \A b \in Attempts \ {a} : Same(b)
    BY <1>0, <1>3, AdvancesKeeps
  <2>2. \A e \in ends : e.attempt # a
    BY <2>1 DEF Ended, Silent
  <2>3. Ended'
    BY <1>0a, <1>3, <2>1, <2>2 DEF Ended, Same, Silent
  <2>4. OneSave'
    BY <2>1 DEF OneSave
  <2>5. Released'
    <3>1. att'[a].state \notin Over
      BY <2>1 DEF Over
    <3>. QED  BY <2>1, <3>1 DEF Released, Same, Silent
  <2>6. Opened'
    BY <1>3, <2>1 DEF Opened, Same
  <2>. QED  BY <2>3, <2>4, <2>5, <2>6 DEF Settled
<1>4. ASSUME NEW by \in Endings \ {"save"}, attempt # 0, Ends(attempt, by, att[attempt]),
             by = "fail" => auth[attempt] \in {"login", "fetch"}, UNCHANGED <<open, active, save>>
      PROVE  Settled'
  <2> PICK a : a = attempt
    OBVIOUS
  <2>0. a \in Attempts /\ att[a] \in Records
    BY <1>0, <1>4 DEF AttemptTypes
  <2>1. /\ Silent(a)' /\ auth'[a] = (IF by = "fail" THEN "ending" ELSE "done")
        /\ att'[a].state = att[a].state /\ att'[a].token = att[a].token
        /\ att'[a].account = att[a].account /\ att'[a].candidates = att[a].candidates
        /\ \A b \in Attempts \ {a} : Same(b)
        /\ ends' = EndsWith(a, by)
    BY <1>0, <1>4, <2>0, EndsBegins
  <2>2. \A e \in ends' : e \in ends \/ e = [attempt |-> a, by |-> by, at |-> "tasks"]
    BY <1>0, <2>0, <2>1, EndsWithCalls
  <2>3. by = "fail" => \A e \in ends : e.attempt # a
    BY <1>4 DEF Ended, Silent
  <2>4. Ended'
    <3>1. ASSUME NEW e \in ends', e \in ends
          PROVE  /\ Silent(e.attempt)'
                 /\ e.by # "fail" => auth'[e.attempt] = "done"
                 /\ e.at = "closing" => e.attempt \notin open'
                 /\ e.by = "save" => ~att'[e.attempt].account /\ save'.at = "finishing"
      <4> PICK p : p = e.attempt
        OBVIOUS
      <4>1. /\ Silent(p)
            /\ e.by # "fail" => auth[p] = "done"
            /\ e.at = "closing" => p \notin open
            /\ e.by = "save" => ~att[p].account /\ save.at = "finishing"
        BY <3>1 DEF Ended
      <4>2. p \in Attempts
        BY <1>0a, <3>1
      <4>3. CASE p = a
        BY <1>4, <2>1, <2>3, <3>1, <4>1, <4>3
      <4>4. CASE p # a
        BY <1>4, <2>1, <4>1, <4>2, <4>4 DEF Same, Silent
      <4>. QED  BY <4>3, <4>4
    <3>2. ASSUME NEW e \in ends', e = [attempt |-> a, by |-> by, at |-> "tasks"]
          PROVE  /\ Silent(e.attempt)'
                 /\ e.by # "fail" => auth'[e.attempt] = "done"
                 /\ e.at = "closing" => e.attempt \notin open'
                 /\ e.by = "save" => ~att'[e.attempt].account /\ save'.at = "finishing"
      <4>1. e.attempt = a /\ e.by = by /\ e.at = "tasks"
        BY <3>2
      <4>. QED  BY <2>1, <4>1
    <3>. QED  BY <2>2, <3>1, <3>2 DEF Ended
  <2>5. OneSave'
    BY <2>2 DEF OneSave
  <2>6. Released'
    <3>1. ASSUME NEW b \in Attempts, att'[b].state \in Over
          PROVE  /\ Silent(b)' /\ auth'[b] = "done" /\ ~att'[b].token /\ ~att'[b].account
                 /\ att'[b].candidates = {}
      <4>1. CASE b = a
        <5>1. /\ auth[a] = "done" /\ ~att[a].token /\ ~att[a].account /\ att[a].candidates = {}
          BY <2>0, <2>1, <3>1, <4>1 DEF Released
        <5>. QED  BY <1>4, <2>1, <4>1, <5>1
      <4>2. CASE b # a
        BY <2>1, <3>1, <4>2 DEF Released, Same, Silent
      <4>. QED  BY <4>1, <4>2
    <3>. QED  BY <3>1 DEF Released
  <2>7. Opened'
    BY <1>4, <2>1 DEF Opened, Same
  <2>. QED  BY <2>4, <2>5, <2>6, <2>7 DEF Settled
<1>5. ASSUME NEW b \in SUBSET Devices, SaveChoice(b)  PROVE Settled'
  <2> PICK a : a = attempt
    OBVIOUS
  <2> PICK r : r = [att[a] EXCEPT !.account = FALSE]
    OBVIOUS
  <2>0. a \in Attempts /\ att[a] \in Records /\ att[a].state = "devices_ready"
    BY <1>0, <1>5 DEF AttemptTypes, SaveChoice, Choosing
  <2>1. r \in Records /\ r.state = "devices_ready" /\ ~r.account
    BY <2>0 DEF Records
  <2>2. Ends(a, "save", r) /\ save = NoSave /\ save'.at = "finishing" /\ save'.old = active
        /\ open' = open /\ active' = a
    BY <1>5 DEF SaveChoice, Alone
  <2>3. /\ Silent(a)' /\ auth'[a] = "done"
        /\ att'[a].state = "devices_ready" /\ ~att'[a].account
        /\ \A c \in Attempts \ {a} : Same(c)
        /\ ends' = EndsWith(a, "save")
    <3>1. "save" \in Endings
      BY DEF Endings
    <3>2. ASSUME NEW by \in Endings, NEW q \in Records, Ends(a, by, q)
          PROVE  /\ Silent(a)' /\ auth'[a] = (IF by = "fail" THEN "ending" ELSE "done")
                 /\ att'[a].state = q.state /\ att'[a].account = q.account
                 /\ \A c \in Attempts \ {a} : Same(c)
                 /\ ends' = EndsWith(a, by)
      BY <1>0, <2>0, <3>2, EndsBegins
    <3>3. /\ Silent(a)' /\ auth'[a] = (IF "save" = "fail" THEN "ending" ELSE "done")
          /\ att'[a].state = r.state /\ att'[a].account = r.account
          /\ \A c \in Attempts \ {a} : Same(c)
          /\ ends' = EndsWith(a, "save")
      BY <2>1, <2>2, <3>1, <3>2
    <3>. QED  BY <2>1, <3>3
  <2>4. \A e \in ends' : e \in ends \/ e = [attempt |-> a, by |-> "save", at |-> "tasks"]
    BY <1>0, <2>0, <2>3, EndsWithCalls DEF Endings
  <2>5. \A e \in ends : e.by # "save"
    BY <2>2, SessionTypes DEF Ended
  <2>6. Ended'
    <3>1. ASSUME NEW e \in ends', e \in ends
          PROVE  /\ Silent(e.attempt)'
                 /\ e.by # "fail" => auth'[e.attempt] = "done"
                 /\ e.at = "closing" => e.attempt \notin open'
                 /\ e.by = "save" => ~att'[e.attempt].account /\ save'.at = "finishing"
      <4> PICK p : p = e.attempt
        OBVIOUS
      <4>1. /\ Silent(p)
            /\ e.by # "fail" => auth[p] = "done"
            /\ e.at = "closing" => p \notin open
        BY <3>1 DEF Ended
      <4>2. p \in Attempts
        BY <1>0a, <3>1
      <4>3. CASE p = a
        BY <2>2, <2>3, <2>5, <3>1, <4>1, <4>3
      <4>4. CASE p # a
        BY <2>2, <2>3, <2>5, <3>1, <4>1, <4>2, <4>4 DEF Same, Silent
      <4>. QED  BY <4>3, <4>4
    <3>2. ASSUME NEW e \in ends', e = [attempt |-> a, by |-> "save", at |-> "tasks"]
          PROVE  /\ Silent(e.attempt)'
                 /\ e.by # "fail" => auth'[e.attempt] = "done"
                 /\ e.at = "closing" => e.attempt \notin open'
                 /\ e.by = "save" => ~att'[e.attempt].account /\ save'.at = "finishing"
      <4>1. e.attempt = a /\ e.by = "save" /\ e.at = "tasks"
        BY <3>2
      <4>. QED  BY <2>2, <2>3, <4>1
    <3>. QED  BY <2>4, <3>1, <3>2 DEF Ended
  <2>7. OneSave'
    BY <2>4, <2>5 DEF OneSave
  <2>8. Released'
    <3>1. att'[a].state \notin Over
      BY <2>3 DEF Over
    <3>. QED  BY <2>3, <3>1 DEF Released, Same, Silent
  <2>9. Opened'
    BY <2>2, <2>3, SessionTypes DEF Opened, Same
  <2>. QED  BY <2>6, <2>7, <2>8, <2>9 DEF Settled
<1>6. ASSUME NEW e \in ends, Forget(e), ends' = ends \ {e}, timer' = timer,
             \/ e.by = "save" /\ auth' = auth
             \/ e.by # "save" /\ auth' = [auth EXCEPT ![e.attempt] = "done"] /\ save' = save,
             e.at = "closing" \/ ~att[e.attempt].account,
             open' = open, active' = active, save'.old = save.old
      PROVE  Settled'
  <2> PICK a : a = e.attempt
    OBVIOUS
  <2>1. /\ a \in Attempts /\ att'[a].state = Final(e)
        /\ att'[a].password = att[a].password /\ att'[a].otp = att[a].otp
        /\ ~att'[a].token /\ ~att'[a].account /\ att'[a].candidates = {}
        /\ \A b \in Attempts \ {a} : att'[b] = att[b]
    BY <1>0, <1>6, ForgetClears
  <2>2. /\ Silent(a)
        /\ e.at = "closing" => a \notin open
        /\ e.by # "fail" => auth[a] = "done"
    BY DEF Ended
  <2>3. auth'[a] = "done" /\ \A b \in Attempts \ {a} : auth'[b] = auth[b]
    BY <1>0, <1>6, <2>1, <2>2 DEF AttemptTypes
  <2>4. Silent(a)'
    BY <1>6, <2>1, <2>2, <2>3 DEF Silent
  <2>5. Ended'
    <3>1. ASSUME NEW f \in ends \ {e}
          PROVE  /\ Silent(f.attempt)'
                 /\ f.by # "fail" => auth'[f.attempt] = "done"
                 /\ f.at = "closing" => f.attempt \notin open'
                 /\ f.by = "save" => ~att'[f.attempt].account /\ save'.at = "finishing"
      <4> PICK p : p = f.attempt
        OBVIOUS
      <4>1. /\ Silent(p)
            /\ f.by # "fail" => auth[p] = "done"
            /\ f.at = "closing" => p \notin open
            /\ f.by = "save" => ~att[p].account /\ save.at = "finishing"
        BY DEF Ended
      <4>2. p \in Attempts
        BY <1>0a
      <4>3. f.by = "save" => save' = save
        BY <1>6 DEF OneSave
      <4>4. CASE p = a
        BY <1>6, <2>1, <2>3, <2>4, <4>1, <4>3, <4>4
      <4>5. CASE p # a
        BY <1>6, <2>1, <2>3, <4>1, <4>2, <4>3, <4>5 DEF Silent
      <4>. QED  BY <4>4, <4>5
    <3>. QED  BY <1>6, <3>1 DEF Ended
  <2>6. OneSave'
    BY <1>6 DEF OneSave
  <2>7. Released'
    <3>1. ASSUME NEW b \in Attempts, att'[b].state \in Over
          PROVE  /\ Silent(b)' /\ auth'[b] = "done" /\ ~att'[b].token /\ ~att'[b].account
                 /\ att'[b].candidates = {}
      <4>1. CASE b = a
        BY <2>1, <2>3, <2>4, <4>1
      <4>2. CASE b # a
        BY <1>6, <2>1, <2>3, <3>1, <4>2 DEF Released, Silent
      <4>. QED  BY <4>1, <4>2
    <3>. QED  BY <3>1 DEF Released
  <2>8. Opened'
    BY <1>6, <2>1, <2>2 DEF Opened
  <2>. QED  BY <2>5, <2>6, <2>7, <2>8 DEF Settled
<1>7. ASSUME NEW e \in ends, EndForgets(e), UNCHANGED <<open, active, save>>  PROVE Settled'
  <2>1. /\ Forget(e) /\ ends' = ends \ {e} /\ timer' = timer /\ e.by # "save"
        /\ auth' = [auth EXCEPT ![e.attempt] = "done"]
        /\ e.at = "closing" \/ ~att[e.attempt].account
    BY <1>7 DEF EndForgets
  <2>. QED  BY <1>6, <1>7, <2>1
<1>8. ASSUME NEW e \in ends, SavePublishes(e)  PROVE Settled'
  <2>1. /\ Forget(e) /\ ends' = ends \ {e} /\ timer' = timer /\ e.by = "save" /\ auth' = auth
        /\ open' = open /\ active' = active /\ save'.old = save.old
    BY <1>8 DEF SavePublishes, Publish
  <2>2. ~att[e.attempt].account
    BY <2>1 DEF Ended
  <2>. QED  BY <1>6, <2>1, <2>2
<1>9. ASSUME NEW e \in ends, EndCloses(e), UNCHANGED <<active, save>>  PROVE Settled'
  <2> PICK f : f = [e EXCEPT !.at = "closing"]
    OBVIOUS
  <2>1. /\ f.attempt = e.attempt /\ f.by = e.by /\ f.at = "closing" /\ e.by # "save"
    BY <1>9 DEF EndCloses, Ended, TypeOK
  <2>2. /\ open' = open \ {e.attempt} /\ ends' = (ends \ {e}) \cup {f}
        /\ UNCHANGED <<att, auth, timer>>
    BY <1>9 DEF EndCloses
  <2>a. Silent(f.attempt)' /\ auth' = auth /\ att' = att /\ save' = save
    BY <1>9, <2>1, <2>2 DEF Ended, Silent
  <2>b. ASSUME NEW g \in ends
        PROVE  /\ Silent(g.attempt)'
               /\ g.by # "fail" => auth'[g.attempt] = "done"
               /\ g.at = "closing" => g.attempt \notin open'
               /\ g.by = "save" => ~att'[g.attempt].account /\ save'.at = "finishing"
    BY <1>9, <2>2 DEF Ended, Silent
  <2>c. /\ f.by # "fail" => auth'[f.attempt] = "done"
        /\ f.attempt \notin open'
    BY <2>1, <2>2, <2>a DEF Ended
  <2>3. Ended'
    BY <2>1, <2>2, <2>a, <2>b, <2>c DEF Ended
  <2>4. OneSave'
    BY <2>1, <2>2 DEF OneSave
  <2>5. Released'
    BY <2>2 DEF Released, Silent
  <2>6. Opened'
    BY <1>9, <2>2 DEF Opened
  <2>. QED  BY <2>3, <2>4, <2>5, <2>6 DEF Settled
<1>10. ASSUME TestLosesAccount, UNCHANGED <<open, active, save>>  PROVE Settled'
  <2>1. /\ \A a \in Attempts :
              \/ att'[a] = att[a]
              \/ /\ att'[a].state = "auth_required"
                 /\ att'[a].account = att[a].account
                 /\ att'[a].password = att[a].password /\ att'[a].otp = att[a].otp
                 /\ att'[a].token = att[a].token /\ att'[a].candidates = att[a].candidates
        /\ UNCHANGED <<auth, timer, ends>>
    BY <1>0, <1>10, TestLoses DEF TypeOK
  <2>2. Ended'
    BY <1>0a, <1>10, <2>1 DEF Ended, Silent
  <2>3. OneSave'
    BY <2>1 DEF OneSave
  <2>4. Released'
    BY <2>1 DEF Released, Silent, Over
  <2>5. Opened'
    BY <1>10, <2>1 DEF Opened
  <2>. QED  BY <2>2, <2>3, <2>4, <2>5 DEF Settled
<1>11. ASSUME UNCHANGED <<att, auth, timer, ends>>, NEW b \in SUBSET Devices, SaveBindings(b)
       PROVE  Settled'
  <2>1. save = NoSave /\ open' = open /\ active' = active
    BY <1>11 DEF SaveBindings, Alone
  <2>2. \A e \in ends : e.by # "save"
    BY <2>1, SessionTypes DEF Ended
  <2>. QED  BY <1>11, <2>1, <2>2, AttemptsStay, SessionTypes
<1>12. ASSUME UNCHANGED <<att, auth, timer, ends>>, Replaced  PROVE Settled'
  <2>1. save.at # "finishing" /\ open' = open /\ active' = active /\ save'.old = save.old
    BY <1>12, SessionTypes DEF Replaced, manager, TypeOK
  <2>2. \A e \in ends : e.by # "save"
    BY <2>1 DEF Ended
  <2>. QED  BY <1>12, <2>1, <2>2, AttemptsStay
<1>13. ASSUME UNCHANGED <<att, auth, timer, ends>>, CloseOld  PROVE Settled'
  <2>1. save.at # "finishing" /\ open' = open \ {save.old} /\ active' = active
    BY <1>13 DEF CloseOld, manager
  <2>2. \A e \in ends : e.by # "save"
    BY <2>1 DEF Ended
  <2>. QED  BY <1>13, <2>1, <2>2, AttemptsStay
<1>14. ASSUME UNCHANGED <<att, auth, timer, ends>>, Stopped  PROVE Settled'
  <2>1. open' = open \ {active} /\ save' = save
    BY <1>14 DEF Stopped, requests
  <2>2. Ended' /\ OneSave' /\ Released'
    BY <1>14, <2>1 DEF Ended, OneSave, Released, Silent
  <2>3. Opened'
    BY <1>14, <2>1 DEF Opened
  <2>. QED  BY <2>2, <2>3 DEF Settled
<1>15. ASSUME UNCHANGED <<att, auth, timer, ends>>, UNCHANGED <<open, active, save>>  PROVE Settled'
  <2>1. Ended' /\ OneSave' /\ Released' /\ Opened'
    BY <1>15 DEF Ended, OneSave, Released, Opened, Silent
  <2>. QED  BY <2>1 DEF Settled
<1>16. Settled'
  BY <1>1, <1>2, <1>3, <1>4, <1>5, <1>7, <1>8, <1>9, <1>10, <1>11, <1>12, <1>13, <1>14, <1>15,
     HoldForms
<1>. QED  BY <1>16 DEF Settled

\* A step keeps what is said of the attempts.
LEMMA NextAttemptInv ==
    TypeOK /\ AttemptInv /\ [Next]_vars => TypeOK' /\ AttemptInv'
<1> SUFFICES ASSUME TypeOK, AttemptInv, [Next]_vars  PROVE TypeOK' /\ AttemptInv'
  OBVIOUS
<1>1. Made /\ OneAttempt /\ Ended /\ OneSave /\ Released /\ Opened
  BY DEF AttemptInv
<1>2. TypeOK' /\ Made' /\ OneAttempt'
  BY <1>1, NextTypes
<1>3. Ended' /\ OneSave' /\ Released' /\ Opened'
  BY <1>1, NextHolds
<1>. QED  BY <1>2, <1>3 DEF AttemptInv

LEMMA InitAttemptInv == Init => AttemptInv
<1> SUFFICES ASSUME Init PROVE AttemptInv
  OBVIOUS
<1>1. /\ attempt = 0 /\ ends = {} /\ open = {}
      /\ \A a \in Attempts : att[a] = NoAttempt /\ auth[a] = "none" /\ ~timer[a]
  BY DEF Init
<1>. QED
  BY <1>1, NoAttemptType, SessionTypes
  DEF AttemptInv, OneAttempt, Made, Ended, OneSave, Released, Opened

-----------------------------------------------------------------------------
(* A session has one holder: an attempt, or what uses it. *)

LEMMA AttemptGoes ==
    ASSUME TypeOK, Made, [Next]_vars
    PROVE  attempt' \in {attempt, 0} \/ \E u \in Users : StartAuth(u)
<1>0. AttemptTypes
  BY TypeParts
<1>1. ASSUME NEW s, Fresh(s)  PROVE attempt' = 0
  BY <1>1 DEF Fresh
<1>2. ASSUME NEW a \in Attempts, Advances(a)  PROVE attempt' = attempt
  BY <1>0, <1>2, AdvancesKeeps
<1>3. ASSUME NEW e \in ends, EndCloses(e)  PROVE attempt' = attempt
  BY <1>3 DEF EndCloses
<1>4. ASSUME TestLosesAccount  PROVE attempt' = attempt
  BY <1>4 DEF TestLosesAccount
<1>. QED  BY <1>0, <1>1, <1>2, <1>3, <1>4, AttemptForms

\* How the active session, the one a save replaces and the one a refresh uses come about.
LEMMA SessionGoes ==
    ASSUME TypeOK, [Next]_vars
    PROVE  /\ \/ active' \in {active, None, 0} /\ save'.old \in {save.old, None}
              \/ \E b \in SUBSET Devices : SaveChoice(b) /\ active' = attempt /\ save'.old = active
           /\ \/ refreshes' \subseteq refreshes
              \/ /\ \A r \in refreshes' \ refreshes : r.session = active /\ r.previous = snapshot
                 /\ active' = active /\ active # None /\ snapshot' = snapshot
                 /\ owner' = owner /\ crossed' = crossed
<1> USE DEF manager, requests, attempts, AttemptStep
<1>1. CASE Start \/ Crash
  <2>1. save' = NoSave /\ refreshes' = {}
    BY <1>1 DEF Start, Crash, Fresh
  <2>2. active' \in {None, 0}
    BY <1>1 DEF Start, Crash
  <2>. QED  BY <2>1, <2>2, SessionTypes
<1>2. CASE Stop \/ Stopped \/ UNCHANGED vars \/ CancelAuth \/ SubmitOtp \/ Speak
  BY <1>2 DEF Stop, Stopped, vars, CancelAuth, SubmitOtp, Speak
<1>3. CASE RefreshDevices
  BY <1>3 DEF RefreshDevices
<1>4. ASSUME NEW u \in Users, StartAuth(u)
      PROVE  UNCHANGED <<active, save, refreshes>>
  BY <1>4 DEF StartAuth
<1>5. ASSUME NEW b \in SUBSET Devices, SaveChoice(b)
      PROVE  active' = attempt /\ save'.old = active /\ refreshes' = refreshes
  BY <1>5 DEF SaveChoice
<1>6. ASSUME NEW b \in SUBSET Devices, SaveBindings(b)
      PROVE  active' = active /\ save'.old = None /\ refreshes' = refreshes
  BY <1>6 DEF SaveBindings, Publish
<1>7. ASSUME NEW d \in Devices, TestBinding(d)  PROVE UNCHANGED <<active, save, refreshes>>
  BY <1>7 DEF TestBinding
<1>8. ASSUME NEW a \in Attempts, Task(a) \/ Expire(a)  PROVE UNCHANGED <<active, save, refreshes>>
  BY <1>8 DEF Task, RequestOtp, LoggedIn, AuthFails, Fetched, Expire
<1>9. ASSUME NEW e \in ends, EndCloses(e) \/ EndForgets(e)
      PROVE  UNCHANGED <<active, save, refreshes>>
  BY <1>9 DEF EndCloses, EndForgets
<1>10. ASSUME NEW e \in ends, SavePublishes(e)
       PROVE  active' = active /\ save'.old = save.old /\ refreshes' = refreshes
  BY <1>10 DEF SavePublishes, Publish
<1>11. CASE Replaced
  <2>1. active' = active /\ refreshes' = refreshes
    BY <1>11 DEF Replaced
  <2>2. save'.old \in {save.old, None}
    <3>1. CASE save.old = None
      BY <1>11, <3>1, SessionTypes DEF Replaced
    <3>2. CASE save.old # None
      BY <1>11, <3>2 DEF Replaced, TypeOK
    <3>. QED  BY <3>1, <3>2
  <2>. QED  BY <2>1, <2>2
<1>12. CASE CloseOld
  BY <1>12, SessionTypes DEF CloseOld
<1>13. CASE Answer
  <2>1. active' = active /\ save' = save /\ refreshes' \subseteq refreshes
    BY <1>13 DEF Answer, Refreshed, RefreshLosesAccount, RefreshFails, Tested, TestLosesAccount,
                 Spoken, SpeechLosesAccount
  <2>. QED  BY <2>1
<1>14. CASE Request
  BY <1>2, <1>3, <1>4, <1>5, <1>6, <1>7, <1>14 DEF Request
<1>15. CASE Finish
  BY <1>9, <1>10, <1>15 DEF Finish
<1>16. CASE \E a \in Attempts : Task(a) \/ Expire(a)
  BY <1>8, <1>16
<1>. QED  BY <1>1, <1>2, <1>11, <1>12, <1>13, <1>14, <1>15, <1>16 DEF Next

LEMMA HandStays ==
    ASSUME TypeOK, [Next]_vars, active' \in {active, None}, save'.old \in {save.old, None},
           NEW a \in Attempts, InHand(a)'
    PROVE  InHand(a)
<1>1. a # None
  BY SessionTypes
<1>2. CASE a = active' \/ a = save'.old
  BY <1>1, <1>2 DEF InHand
<1>3. CASE \E r \in refreshes' : a = r.session
  BY <1>1, <1>3, SessionGoes DEF InHand
<1>. QED  BY <1>2, <1>3 DEF InHand

\* An attempt's session is its own until it is handed over.
Hands == Working /\ Holding /\ Handed

LEMMA NextHands ==
    ASSUME TypeOK, AttemptInv, Hands, Saving, [Next]_vars  PROVE Hands'
<1>0. AttemptTypes /\ (attempt # 0 => attempt \in Attempts) /\ 0 \notin Attempts
  BY TypeParts, Reading, SessionTypes
<1>0a. \A e \in ends : e.attempt \in Attempts /\ att[e.attempt] \in Records
  BY <1>0 DEF AttemptTypes
<1>0b. Made /\ Ended /\ Released
  BY DEF AttemptInv
<1>0c. Working /\ Holding /\ Handed
  BY DEF Hands
<1>1. ASSUME NEW s, Fresh(s), active' \in {0, None}  PROVE Hands'
  <2>1. /\ \A a \in Attempts : att'[a] = NoAttempt
        /\ \A a \in Attempts : auth'[a] = "none"
        /\ attempt' = 0
    BY <1>1, FreshAttempts
  <2>2. \A a \in Attempts : ~InHand(a)'
    BY <1>1, SessionTypes DEF Fresh, InHand
  <2>3. Working' /\ Holding'
    BY <2>1, <1>0, NoAttemptType DEF Working, Holding
  <2>4. Handed'
    BY <2>2 DEF Handed
  <2>. QED  BY <2>3, <2>4 DEF Hands
<1>2. ASSUME NEW u \in Users, StartAuth(u), UNCHANGED <<active, save>>  PROVE Hands'
  <2>1. PICK a \in Attempts :
          /\ att[a] = NoAttempt /\ attempt # a /\ attempt' = a
          /\ att'[a].user = u /\ att'[a].state = "authenticating" /\ att'[a].account
          /\ \A p \in Attempts : p = attempt =>
               /\ Silent(p)' /\ auth'[p] = "done" /\ att'[p].user = att[p].user
               /\ att'[p].account = att[p].account
          /\ \A b \in Attempts \ {a, attempt} : Same(b)
          /\ ends' = IF attempt = 0 THEN ends ELSE EndsWith(attempt, "restart")
          /\ open' = open \cup {a}
    BY <1>0, <1>0b, <1>2, StartAuthMakes
  <2>2. /\ attempt # 0 => \E e \in ends' : e.attempt = attempt
        /\ \A e \in ends : e.attempt # attempt => e \in ends'
    <3>1. "restart" \in Endings
      BY DEF Endings
    <3>. QED  BY <1>0, <2>1, <3>1, EndsWithCalls
  <2>3. Working'
    <3>1. ASSUME NEW b \in Attempts,
                 attempt' = b \/ auth'[b] \in {"login", "otp", "fetch"}
          PROVE  att'[b].account
      <4>1. CASE b = a
        BY <2>1, <4>1
      <4>2. CASE b = attempt
        BY <2>1, <3>1, <4>2
      <4>3. CASE b # a /\ b # attempt
        BY <1>0c, <2>1, <3>1, <4>3 DEF Working, Same
      <4>. QED  BY <4>1, <4>2, <4>3
    <3>. QED  BY <3>1 DEF Working
  <2>4. Holding'
    <3>1. ASSUME NEW b \in Attempts, att'[b].account
          PROVE  b \in open' \/ \E e \in ends' : e.attempt = b
      <4>1. CASE b = a
        BY <2>1, <4>1
      <4>2. CASE b = attempt
        BY <1>0, <2>2, <4>2
      <4>3. CASE b # a /\ b # attempt
        BY <1>0c, <2>1, <2>2, <3>1, <4>3 DEF Holding, Same
      <4>. QED  BY <4>1, <4>2, <4>3
    <3>. QED  BY <3>1 DEF Holding
  <2>5. Handed'
    <3>1. ASSUME NEW b \in Attempts, InHand(b)'
          PROVE  att'[b].user # None /\ ~att'[b].account /\ attempt' # b
      <4>1. InHand(b)
        BY <1>2, <3>1, HandStays
      <4>2. att[b].user # None /\ ~att[b].account /\ attempt # b
        BY <1>0c, <4>1 DEF Handed
      <4>3. b # a
        BY <2>1, <4>2, NoAttemptType
      <4>. QED  BY <2>1, <4>2, <4>3 DEF Same
    <3>. QED  BY <3>1 DEF Handed
  <2>. QED  BY <2>3, <2>4, <2>5 DEF Hands
<1>3. ASSUME NEW a \in Attempts, Advances(a), UNCHANGED <<open, active, save>>  PROVE Hands'
  <2>1. /\ ends' = ends /\ attempt = a /\ attempt' = a
        /\ auth[a] \in {"login", "fetch"} \/ (att[a].otp /\ att[a].state = "otp_required")
        /\ att'[a].user = att[a].user /\ att'[a].account = att[a].account
        /\ \A b \in Attempts \ {a} : Same(b)
    BY <1>0, <1>3, AdvancesKeeps
  <2>2. att[a].account
    BY <1>0c, <2>1 DEF Working
  <2>3. Working'
    BY <1>0c, <2>1, <2>2 DEF Working, Same
  <2>4. Holding'
    BY <1>0c, <1>3, <2>1 DEF Holding, Same
  <2>5. Handed'
    <3>1. ASSUME NEW b \in Attempts, InHand(b)'
          PROVE  att'[b].user # None /\ ~att'[b].account /\ attempt' # b
      <4>1. InHand(b)
        BY <1>3, <3>1, HandStays
      <4>2. att[b].user # None /\ ~att[b].account /\ attempt # b
        BY <1>0c, <4>1 DEF Handed
      <4>. QED  BY <2>1, <4>2 DEF Same
    <3>. QED  BY <3>1 DEF Handed
  <2>. QED  BY <2>3, <2>4, <2>5 DEF Hands
<1>4. ASSUME NEW by \in Endings, NEW r \in Records, attempt # 0, Ends(attempt, by, r),
             r.user = att[attempt].user, r.state = att[attempt].state,
             attempt' \in {attempt, 0}, open' = open
      PROVE  /\ by # "save" /\ r.account = att[attempt].account => Working'
             /\ attempt' = 0 => Working'
             /\ Holding'
             /\ att'[attempt].account = r.account /\ att'[attempt].user = r.user
             /\ \A b \in Attempts \ {attempt} : Same(b)
  <2> PICK a : a = attempt
    OBVIOUS
  <2>0. a \in Attempts
    BY <1>0, <1>4
  <2>1. /\ auth'[a] \in {"ending", "done"}
        /\ att'[a].state = r.state /\ att'[a].account = r.account /\ att'[a].user = r.user
        /\ \A b \in Attempts \ {a} : Same(b)
        /\ ends' = EndsWith(a, by)
    BY <1>0, <1>4, <2>0, EndsBegins
  <2>2. /\ \E e \in ends' : e.attempt = a
        /\ \A e \in ends : e.attempt # a => e \in ends'
    BY <1>0, <1>4, <2>0, <2>1, EndsWithCalls
  <2>3. ASSUME r.account = att[a].account  PROVE Working'
    <3>1. ASSUME NEW b \in Attempts,
                 \/ attempt' = b /\ att'[b].state \in {"authenticating", "otp_required",
                                                       "fetching_devices", "devices_ready"}
                 \/ auth'[b] \in {"login", "otp", "fetch"}
          PROVE  att'[b].account
      <4>1. CASE b = a
        <5>1. attempt = a /\ att[a].state \in {"authenticating", "otp_required",
                                               "fetching_devices", "devices_ready"}
          BY <1>4, <2>1, <3>1, <4>1
        <5>2. att[a].account
          BY <1>0c, <2>0, <5>1 DEF Working
        <5>. QED  BY <2>1, <2>3, <4>1, <5>2
      <4>2. CASE b # a
        BY <1>0, <1>0c, <1>4, <2>0, <2>1, <3>1, <4>2 DEF Working, Same
      <4>. QED  BY <4>1, <4>2
    <3>. QED  BY <3>1 DEF Working
  <2>4. ASSUME attempt' = 0  PROVE Working'
    BY <1>0, <1>0c, <2>1, <2>4 DEF Working, Same
  <2>5. Holding'
    <3>1. ASSUME NEW b \in Attempts, att'[b].account
          PROVE  b \in open' \/ \E e \in ends' : e.attempt = b
      <4>1. CASE b = a
        BY <2>2, <4>1
      <4>2. CASE b # a
        BY <1>0c, <1>4, <2>1, <2>2, <3>1, <4>2 DEF Holding, Same
      <4>. QED  BY <4>1, <4>2
    <3>. QED  BY <3>1 DEF Holding
  <2>. QED  BY <2>1, <2>3, <2>4, <2>5
<1>5. ASSUME NEW by \in Endings \ {"save"}, attempt # 0, Ends(attempt, by, att[attempt]),
             UNCHANGED <<open, active, save>>
      PROVE  Hands'
  <2>0. attempt \in Attempts /\ att[attempt] \in Records
    BY <1>0, <1>5 DEF AttemptTypes
  <2>1. attempt' \in {attempt, 0}
    <3>1. ASSUME NEW u \in Users, StartAuth(u)  PROVE FALSE
      <4>1. \E b \in Attempts : attempt # b /\ auth'[b] = "login" /\ auth[b] = "none"
        <5>1. PICK b \in Attempts : att[b] = NoAttempt /\ attempt # b /\ auth'[b] = "login"
          BY <1>0, <1>0b, <3>1, StartAuthMakes
        <5>2. auth[b] = "none"
          BY <1>0b, <5>1, NoAttemptType DEF Made
        <5>. QED  BY <5>1, <5>2
      <4>2. \A b \in Attempts \ {attempt} : Same(b)
        BY <1>0, <1>5, <2>0, EndsBegins
      <4>. QED  BY <4>1, <4>2 DEF Same
    <3>. QED  BY <1>0b, <3>1, AttemptGoes
  <2>2. /\ Working' /\ Holding'
        /\ att'[attempt].account = att[attempt].account /\ att'[attempt].user = att[attempt].user
        /\ \A b \in Attempts \ {attempt} : Same(b)
    BY <1>4, <1>5, <2>0, <2>1
  <2>3. Handed'
    <3>1. ASSUME NEW b \in Attempts, InHand(b)'
          PROVE  att'[b].user # None /\ ~att'[b].account /\ attempt' # b
      <4>1. InHand(b)
        BY <1>5, <3>1, HandStays
      <4>2. att[b].user # None /\ ~att[b].account /\ attempt # b
        BY <1>0c, <4>1 DEF Handed
      <4>. QED  BY <1>0, <2>1, <2>2, <4>2 DEF Same
    <3>. QED  BY <3>1 DEF Handed
  <2>. QED  BY <2>2, <2>3 DEF Hands
<1>6. ASSUME NEW c \in SUBSET Devices, SaveChoice(c)  PROVE Hands'
  <2> PICK a : a = attempt
    OBVIOUS
  <2> PICK r : r = [att[a] EXCEPT !.account = FALSE]
    OBVIOUS
  <2>0. a \in Attempts /\ att[a] \in Records
    BY <1>0, <1>6 DEF AttemptTypes, SaveChoice, Choosing
  <2>1. r \in Records /\ r.state = att[a].state /\ r.user = att[a].user /\ ~r.account
    BY <2>0 DEF Records
  <2>2. /\ Ends(a, "save", r) /\ save'.old = active /\ save.old = None
        /\ open' = open /\ active' = a /\ attempt' = 0 /\ refreshes' = refreshes
    BY <1>6, SessionTypes DEF SaveChoice, Alone
  <2>3. /\ Working' /\ Holding'
        /\ ~att'[a].account /\ att'[a].user = att[a].user
        /\ \A b \in Attempts \ {a} : Same(b)
    <3>1. "save" \in Endings
      BY DEF Endings
    <3>2. a # 0 /\ a = attempt
      BY <1>0, <2>0
    <3>. QED  BY <1>4, <2>0, <2>1, <2>2, <3>1, <3>2
  <2>4. att[a].user # None
    BY <1>0b, <2>0 DEF Made
  <2>5. Handed'
    <3>1. ASSUME NEW b \in Attempts, InHand(b)'
          PROVE  att'[b].user # None /\ ~att'[b].account /\ attempt' # b
      <4>1. CASE b = a
        BY <1>0, <2>2, <2>3, <2>4, <4>1
      <4>2. CASE b # a
        <5>1. InHand(b)
          BY <2>2, <3>1, <4>2 DEF InHand
        <5>2. att[b].user # None /\ ~att[b].account
          BY <1>0c, <5>1 DEF Handed
        <5>. QED  BY <1>0, <2>2, <2>3, <4>2, <5>2 DEF Same
      <4>. QED  BY <4>1, <4>2
    <3>. QED  BY <3>1 DEF Handed
  <2>. QED  BY <2>3, <2>5 DEF Hands
<1>7. ASSUME NEW e \in ends, EndForgets(e) \/ SavePublishes(e)  PROVE Hands'
  <2> PICK a : a = e.attempt
    OBVIOUS
  <2>1. /\ Forget(e) /\ ends' = ends \ {e} /\ attempt' = attempt /\ open' = open
        /\ active' = active /\ save'.old = save.old
        /\ auth' = auth \/ auth' = [auth EXCEPT ![a] = "done"]
    BY <1>7 DEF EndForgets, SavePublishes, Publish, manager, requests
  <2>2. /\ a \in Attempts /\ att'[a].user = att[a].user /\ att'[a].state = Final(e)
        /\ ~att'[a].account
        /\ \A b \in Attempts \ {a} : att'[b] = att[b]
    BY <1>0, <2>1, ForgetClears
  <2>3. Silent(a)
    BY <1>0b DEF Ended
  <2>4. /\ auth'[a] \notin {"login", "otp", "fetch"}
        /\ \A b \in Attempts \ {a} : auth'[b] = auth[b]
    BY <1>0, <2>1, <2>2, <2>3 DEF AttemptTypes, Silent
  <2>5. attempt = a => att'[a].state \in {"cancelled", "expired", "failed"}
    <3>1. CASE e.by = "save"
      <4>1. InHand(a)
        BY <3>1 DEF Saving, InHand
      <4>. QED  BY <1>0c, <2>2, <4>1 DEF Handed
    <3>2. CASE e.by # "save"
      <4>1. e.by \in Endings
        BY <1>0 DEF AttemptTypes
      <4>2. Final(e) \in {"cancelled", "expired", "failed"}
        BY <3>2, <4>1 DEF Final, Endings
      <4>. QED  BY <2>2, <4>2
    <3>. QED  BY <3>1, <3>2
  <2>6. Working'
    <3>1. ASSUME NEW b \in Attempts,
                 \/ attempt' = b /\ att'[b].state \in {"authenticating", "otp_required",
                                                       "fetching_devices", "devices_ready"}
                 \/ auth'[b] \in {"login", "otp", "fetch"}
          PROVE  att'[b].account
      <4>1. b # a
        BY <2>1, <2>4, <2>5, <3>1
      <4>. QED  BY <1>0c, <2>1, <2>2, <2>4, <3>1, <4>1 DEF Working
    <3>. QED  BY <3>1 DEF Working
  <2>7. Holding'
    BY <1>0c, <2>1, <2>2 DEF Holding
  <2>8. Handed'
    <3>1. ASSUME NEW b \in Attempts, InHand(b)'
          PROVE  att'[b].user # None /\ ~att'[b].account /\ attempt' # b
      <4>1. InHand(b)
        BY <2>1, <3>1, HandStays
      <4>2. att[b].user # None /\ ~att[b].account /\ attempt # b
        BY <1>0c, <4>1 DEF Handed
      <4>. QED  BY <2>1, <2>2, <4>2
    <3>. QED  BY <3>1 DEF Handed
  <2>. QED  BY <2>6, <2>7, <2>8 DEF Hands
<1>8. ASSUME NEW e \in ends, EndCloses(e)  PROVE Hands'
  <2> PICK f : f = [e EXCEPT !.at = "closing"]
    OBVIOUS
  <2>1. f.attempt = e.attempt
    BY <1>0 DEF AttemptTypes
  <2>2. /\ open' = open \ {e.attempt} /\ ends' = (ends \ {e}) \cup {f}
        /\ UNCHANGED <<attempt, att, auth, active, save>>
    BY <1>8 DEF EndCloses, manager, requests
  <2>3. Working'
    BY <1>0c, <2>2 DEF Working
  <2>4. Holding'
    BY <1>0c, <2>1, <2>2 DEF Holding
  <2>5. Handed'
    BY <1>0c, <2>2, HandStays DEF Handed
  <2>. QED  BY <2>3, <2>4, <2>5 DEF Hands
<1>9. ASSUME TestLosesAccount, UNCHANGED <<open, active, save>>  PROVE Hands'
  <2>1. /\ \A a \in Attempts :
              /\ att'[a].state \in {att[a].state, "auth_required"}
              /\ att'[a].user = att[a].user /\ att'[a].account = att[a].account
        /\ UNCHANGED <<attempt, auth, ends>>
    BY <1>0, <1>9, TestLoses DEF TypeOK
  <2>2. Working'
    BY <1>0c, <2>1 DEF Working
  <2>3. Holding'
    BY <1>0c, <1>9, <2>1 DEF Holding
  <2>4. Handed'
    <3>1. ASSUME NEW b \in Attempts, InHand(b)'
          PROVE  att'[b].user # None /\ ~att'[b].account /\ attempt' # b
      <4>1. InHand(b)
        BY <1>9, <3>1, HandStays
      <4>. QED  BY <1>0c, <2>1, <4>1 DEF Handed
    <3>. QED  BY <3>1 DEF Handed
  <2>. QED  BY <2>2, <2>3, <2>4 DEF Hands
<1>10. ASSUME UNCHANGED <<att, auth, ends>>, attempt' \in {attempt, 0},
              open' \subseteq open,
              \A a \in Attempts \cap open : a \in open' \/ InHand(a),
              active' \in {active, None}, save'.old \in {save.old, None}
       PROVE  Hands'
  <2>1. Working'
    BY <1>0, <1>0c, <1>10 DEF Working
  <2>2. Holding'
    BY <1>0c, <1>10 DEF Holding, Handed
  <2>3. Handed'
    <3>1. ASSUME NEW b \in Attempts, InHand(b)'
          PROVE  att'[b].user # None /\ ~att'[b].account /\ attempt' # b
      <4>1. InHand(b)
        BY <1>10, <3>1, HandStays
      <4>. QED  BY <1>0, <1>0c, <1>10, <4>1 DEF Handed
    <3>. QED  BY <3>1 DEF Handed
  <2>. QED  BY <2>1, <2>2, <2>3 DEF Hands
<1>11. ASSUME UNCHANGED <<att, auth, timer, ends>>, UNCHANGED <<open, active, save>>  PROVE Hands'
  <2>1. attempt' \in {attempt, 0}
    <3>1. ASSUME NEW u \in Users, StartAuth(u)  PROVE FALSE
      <4>1. \E b \in Attempts : att[b] = NoAttempt /\ att'[b].user = u
        BY <1>0, <1>0b, <3>1, StartAuthMakes
      <4>. QED  BY <1>11, <4>1, NoAttemptType DEF AccountAssumption
    <3>. QED  BY <1>0b, <3>1, AttemptGoes
  <2>. QED  BY <1>10, <1>11, <2>1
<1>12. ASSUME UNCHANGED <<att, auth, timer, ends>>,
              Replaced \/ CloseOld \/ Stopped \/ \E b \in SUBSET Devices : SaveBindings(b)
       PROVE  Hands'
  <2>1. attempt' = attempt
    BY <1>12 DEF Replaced, CloseOld, Stopped, SaveBindings, attempts
  <2>2. CASE Replaced
    <3>1. open' = open /\ active' = active
      BY <2>2 DEF Replaced, manager
    <3>2. save'.old \in {save.old, None}
      BY <2>2, SessionTypes DEF Replaced, TypeOK
    <3>. QED  BY <1>10, <1>12, <2>1, <3>1, <3>2
  <2>3. CASE CloseOld
    <3>1. open' = open \ {save.old} /\ active' = active /\ save'.old = None
      BY <2>3, SessionTypes DEF CloseOld, manager
    <3>. QED  BY <1>10, <1>12, <2>1, <3>1 DEF InHand
  <2>4. CASE Stopped
    <3>1. open' = open \ {active} /\ active' = None /\ save' = save
      BY <2>4 DEF Stopped, requests
    <3>. QED  BY <1>10, <1>12, <2>1, <3>1 DEF InHand
  <2>5. ASSUME NEW b \in SUBSET Devices, SaveBindings(b)  PROVE Hands'
    <3>1. open' = open /\ active' = active /\ save'.old = None
      BY <2>5 DEF SaveBindings, Publish
    <3>. QED  BY <1>10, <1>12, <2>1, <3>1
  <2>. QED  BY <1>12, <2>2, <2>3, <2>4, <2>5
<1>. QED
  BY <1>1, <1>2, <1>3, <1>5, <1>6, <1>7, <1>8, <1>9, <1>11, <1>12, HoldForms

LEMMA NextSaving ==
    ASSUME TypeOK, AttemptInv, Hands, Saving, [Next]_vars  PROVE Saving'
<1> USE DEF manager, requests, attempts, speakers, AttemptStep
<1>0. AttemptTypes /\ (attempt # 0 => attempt \in Attempts) /\ 0 \notin Attempts
  BY TypeParts, Reading, SessionTypes
<1>0a. save = NoSave => \A e \in ends : e.by # "save"
  BY SessionTypes DEF AttemptInv, Ended
<1>1. ASSUME UNCHANGED <<running, active, save, workers>>,
             refreshes' \subseteq refreshes \/ running = "on",
             \A e \in ends' : e.by = "save" => \E f \in ends : f.by = "save" /\ f.attempt = e.attempt
      PROVE  Saving'
  <2>1. \A e \in ends' : e.by = "save" => e.attempt = active
    BY <1>1 DEF Saving
  <2>2. running # "on" => refreshes' = {}
    BY <1>1 DEF Saving
  <2>. QED  BY <1>1, <2>1, <2>2 DEF Saving
<1>2. ASSUME NEW by \in Endings \ {"save"}, NEW a \in Attempts, NEW e \in EndsWith(a, by),
             e.by = "save"
      PROVE  e \in ends
  <2>1. e \in ends \/ e = [attempt |-> a, by |-> by, at |-> "tasks"]
    BY <1>0, EndsWithCalls
  <2>. QED  BY <1>2, <2>1
<1>3. ASSUME NEW by \in Endings \ {"save"}, attempt # 0, Ends(attempt, by, att[attempt]),
             NEW e \in ends', e.by = "save"
      PROVE  e \in ends
  BY <1>0, <1>2, <1>3 DEF Ends
<1>4. {"cancel", "restart", "stop", "expire", "fail"} \subseteq Endings \ {"save"}
  BY DEF Endings
<1>5. CASE Start \/ Crash
  <2>1. save' = NoSave /\ refreshes' = {} /\ ends' = {}
    BY <1>5 DEF Start, Crash, Fresh
  <2>2. CASE Start
    <3>1. running' = "on" /\ workers'.session = active'
      BY <2>2, SessionTypes DEF Start, Fresh
    <3>. QED  BY <2>1, <3>1, SessionTypes DEF Saving
  <2>3. CASE Crash
    <3>1. running' = "off" /\ workers'.session = None
      BY <2>3, SessionTypes DEF Crash, Fresh
    <3>. QED  BY <2>1, <3>1, SessionTypes DEF Saving
  <2>. QED  BY <1>5, <2>2, <2>3
<1>6. CASE Stop
  <2>1. /\ running' = "stopping" /\ save = NoSave /\ save' = NoSave /\ refreshes' = {}
        /\ active' = active /\ workers'.session = None
    BY <1>6, SessionTypes DEF Stop
  <2>2. \A e \in ends' : e.by = "save" => e \in ends
    BY <1>3, <1>4, <1>6 DEF Stop
  <2>. QED  BY <1>0a, <2>1, <2>2, SessionTypes DEF Saving
<1>7. CASE Stopped
  <2>1. /\ running = "stopping" /\ running' = "off" /\ UNCHANGED <<save, refreshes, workers, ends>>
    BY <1>7 DEF Stopped
  <2>2. save = NoSave /\ refreshes = {} /\ workers.session = None
    BY <2>1 DEF Saving
  <2>. QED  BY <1>0a, <2>1, <2>2, SessionTypes DEF Saving
<1>8. ASSUME NEW b \in SUBSET Devices, SaveChoice(b)  PROVE Saving'
  <2> PICK a : a = attempt
    OBVIOUS
  <2>1. /\ running = "on" /\ running' = "on" /\ save = NoSave /\ a \in Attempts
        /\ active' = a /\ refreshes' = refreshes /\ workers' = workers
        /\ save'.at = "finishing" /\ save'.old = active
        /\ ends' = EndsWith(a, "save")
    BY <1>0, <1>8 DEF SaveChoice, Alone, Call, Choosing, Ends
  <2>2. workers.session = active
    BY <2>1, SessionTypes DEF Saving
  <2>3. active # a
    BY <2>1 DEF Hands, Handed, InHand
  <2>4. \A e \in ends' : e.by = "save" => e.attempt = a
    <3>1. "save" \in Endings
      BY DEF Endings
    <3>2. ASSUME NEW e \in ends'  PROVE e \in ends \/ e.attempt = a
      BY <1>0, <2>1, <3>1, EndsWithCalls
    <3>. QED  BY <1>0a, <2>1, <3>2
  <2>. QED  BY <2>1, <2>2, <2>3, <2>4 DEF Saving
<1>9. ASSUME NEW e \in ends, SavePublishes(e)  PROVE Saving'
  <2>1. save.at = "finishing" /\ e.attempt = active
    BY <1>9 DEF SavePublishes, AttemptInv, Ended, Saving
  <2>2. running = "on"
    BY <2>1, SessionTypes DEF Saving
  <2>3. /\ running' = running /\ active' = active /\ workers' = workers /\ ends' = ends \ {e}
        /\ save'.at = "replacing" /\ save'.old = save.old /\ save'.install.session = active'
    BY <1>9 DEF SavePublishes, Publish
  <2>4. workers.session \in {active, save.old, None}
    BY <2>1, <2>2 DEF Saving
  <2>. QED  BY <2>1, <2>2, <2>3, <2>4 DEF Saving
<1>10. ASSUME NEW b \in SUBSET Devices, SaveBindings(b)  PROVE Saving'
  <2>1. /\ running = "on" /\ running' = "on" /\ save = NoSave
        /\ active' = active /\ workers' = workers /\ ends' = ends
        /\ save'.at = "replacing" /\ save'.old = None /\ save'.install.session = active'
    BY <1>10 DEF SaveBindings, Alone, Call, Publish
  <2>2. workers.session = active
    BY <2>1, SessionTypes DEF Saving
  <2>. QED  BY <1>0a, <2>1, <2>2 DEF Saving
<1>11. CASE Replaced
  <2>1. /\ save.at = "replacing" /\ running' = running /\ active' = active /\ ends' = ends
        /\ refreshes' = refreshes /\ workers' = save.install
    BY <1>11 DEF Replaced
  <2>2. running = "on" /\ workers'.session = active'
    BY <2>1, SessionTypes DEF Saving
  <2>3. \/ save' = NoSave
        \/ save'.at = "closing" /\ save'.old = save.old
    BY <1>11 DEF Replaced, TypeOK
  <2>. QED  BY <2>1, <2>2, <2>3, SessionTypes DEF Saving
<1>12. CASE CloseOld
  <2>1. /\ save.at = "closing" /\ running' = running /\ active' = active /\ ends' = ends
        /\ refreshes' = refreshes /\ workers' = workers /\ save' = NoSave
    BY <1>12 DEF CloseOld
  <2>2. running = "on" /\ workers.session = active
    BY <2>1, SessionTypes DEF Saving
  <2>. QED  BY <2>1, <2>2, SessionTypes DEF Saving
<1>13. ASSUME NEW u \in Users, StartAuth(u)  PROVE Saving'
  <2>1. UNCHANGED <<running, active, save, workers, refreshes>>
    BY <1>13 DEF StartAuth
  <2>2. ends' = IF attempt = 0 THEN ends ELSE EndsWith(attempt, "restart")
    BY <1>13 DEF StartAuth
  <2>3. \A e \in ends' : e.by = "save" => e \in ends
    BY <1>0, <1>2, <1>4, <2>2
  <2>. QED  BY <1>1, <2>1, <2>3
<1>14. CASE CancelAuth
  <2>1. UNCHANGED <<running, active, save, workers, refreshes>>
    BY <1>14 DEF CancelAuth
  <2>2. \A e \in ends' : e.by = "save" => e \in ends
    BY <1>3, <1>4, <1>14 DEF CancelAuth
  <2>. QED  BY <1>1, <2>1, <2>2
<1>15. ASSUME NEW a \in Attempts, Task(a) \/ Expire(a)  PROVE Saving'
  <2>1. UNCHANGED <<running, active, save, workers, refreshes>>
    BY <1>15 DEF Task, RequestOtp, LoggedIn, AuthFails, Fetched, Expire
  <2>2. CASE AuthFails(a) \/ Expire(a)
    <3>1. /\ a = attempt /\ attempt # 0
          /\ Ends(attempt, "fail", att[attempt]) \/ Ends(attempt, "expire", att[attempt])
      BY <1>0, <2>2 DEF AuthFails, Expire, Runs, Current
    <3>2. \A e \in ends' : e.by = "save" => e \in ends
      BY <1>3, <1>4, <3>1
    <3>. QED  BY <1>1, <2>1, <3>2
  <2>3. CASE RequestOtp(a) \/ LoggedIn(a) \/ \E D \in SUBSET Devices : Fetched(a, D)
    <3>1. ends' = ends
      BY <2>3 DEF RequestOtp, LoggedIn, Fetched
    <3>. QED  BY <1>1, <2>1, <3>1
  <2>. QED  BY <1>15, <2>2, <2>3 DEF Task
<1>16. ASSUME NEW e \in ends, EndCloses(e) \/ EndForgets(e)  PROVE Saving'
  <2>1. UNCHANGED <<running, active, save, workers, refreshes>>
    BY <1>16 DEF EndCloses, EndForgets
  <2>2. \A f \in ends' : f.by = "save" => \E g \in ends : g.by = "save" /\ g.attempt = f.attempt
    <3>1. CASE EndForgets(e)
      BY <3>1 DEF EndForgets
    <3>2. CASE EndCloses(e)
      <4> PICK f : f = [e EXCEPT !.at = "closing"]
        OBVIOUS
      <4>1. f.by = e.by /\ f.attempt = e.attempt
        BY <1>0 DEF AttemptTypes
      <4>2. ends' = (ends \ {e}) \cup {f}
        BY <3>2 DEF EndCloses
      <4>. QED  BY <4>1, <4>2
    <3>. QED  BY <1>16, <3>1, <3>2
  <2>. QED  BY <1>1, <2>1, <2>2
<1>17. CASE Answer
  <2>1. UNCHANGED <<running, active, save, workers, ends>> /\ refreshes' \subseteq refreshes
    BY <1>17 DEF Answer, Refreshed, RefreshLosesAccount, RefreshFails, Tested, TestLosesAccount,
                 Spoken, SpeechLosesAccount
  <2>. QED  BY <1>1, <2>1
<1>18. CASE RefreshDevices \/ Speak \/ SubmitOtp \/ \E d \in Devices : TestBinding(d)
  <2>1. UNCHANGED <<running, active, save, workers, ends>> /\ (running = "on" \/ refreshes' = refreshes)
    BY <1>18 DEF RefreshDevices, Speak, SubmitOtp, TestBinding, Call
  <2>. QED  BY <1>1, <2>1
<1>19. CASE UNCHANGED vars
  <2>1. UNCHANGED <<running, active, save, workers, ends, refreshes>>
    BY <1>19 DEF vars
  <2>. QED  BY <1>1, <2>1
<1>20. CASE Request
  BY <1>8, <1>10, <1>13, <1>14, <1>18, <1>20 DEF Request
<1>21. CASE Finish
  BY <1>9, <1>16, <1>21 DEF Finish
<1>22. CASE \E a \in Attempts : Task(a) \/ Expire(a)
  BY <1>15, <1>22
<1>. QED
  BY <1>5, <1>6, <1>7, <1>11, <1>12, <1>17, <1>19, <1>20, <1>21, <1>22 DEF Next

LEMMA NextInUse ==
    ASSUME TypeOK, AttemptInv, SessionInv, [Next]_vars  PROVE InUse'
<1> USE DEF manager, requests, attempts, speakers, AttemptStep
<1>0. AttemptTypes /\ (attempt # 0 => attempt \in Attempts) /\ 0 \notin Attempts
  BY TypeParts, Reading, SessionTypes
<1>1. ASSUME crossed \subseteq crossed', active' \in {active, None}, save'.old \in {save.old, None},
             open \subseteq open'
      PROVE  InUse'
  BY <1>1 DEF SessionInv, InUse
<1>2. CASE Start \/ Crash
  <2>1. save' = NoSave
    BY <1>2 DEF Start, Crash, Fresh
  <2>2. active' = None \/ active' \in open'
    BY <1>2 DEF Start, Crash
  <2>. QED  BY <2>1, <2>2, SessionTypes DEF InUse
<1>3. CASE Stopped
  <2>1. running = "stopping" /\ active' = None /\ save' = save
    BY <1>3 DEF Stopped
  <2>2. save = NoSave
    BY <2>1 DEF SessionInv, Saving
  <2>. QED  BY <2>1, <2>2, SessionTypes DEF InUse
<1>4. CASE CloseOld
  <2>1. open' = open \ {save.old} /\ active' = active /\ save'.old = None /\ crossed' = crossed
    BY <1>4, SessionTypes DEF CloseOld
  <2>2. active # save.old \/ active = None
    BY DEF SessionInv, Saving
  <2>. QED  BY <2>1, <2>2 DEF SessionInv, InUse
<1>5. ASSUME NEW b \in SUBSET Devices, SaveChoice(b)  PROVE InUse'
  <2>1. /\ attempt \in Attempts /\ att[attempt].state = "devices_ready" /\ active' = attempt
        /\ save'.old = active /\ open' = open
        /\ crossed' = crossed \cup IF \E e \in ends : e.attempt = attempt THEN {"end"} ELSE {}
    BY <1>0, <1>5 DEF SaveChoice, Choosing
  <2>2. att[attempt].account
    BY <2>1 DEF SessionInv, Working
  <2>3. attempt \in open \/ \E e \in ends : e.attempt = attempt
    BY <2>1, <2>2 DEF SessionInv, Holding
  <2>. QED  BY <2>1, <2>3 DEF SessionInv, InUse
<1>6. ASSUME NEW e \in ends, EndCloses(e)  PROVE InUse'
  <2>1. /\ att[e.attempt].account /\ open' = open \ {e.attempt}
        /\ UNCHANGED <<active, save, crossed>>
    BY <1>6 DEF EndCloses
  <2>2. e.attempt \in Attempts
    BY <1>0 DEF AttemptTypes
  <2>3. e.attempt # active /\ e.attempt # save.old
    BY <2>1, <2>2 DEF SessionInv, Handed, InHand
  <2>. QED  BY <2>1, <2>3 DEF SessionInv, InUse
<1>7. CASE Replaced
  <2>1. open' = open /\ active' = active /\ crossed' = crossed
    BY <1>7 DEF Replaced
  <2>2. save'.old \in {save.old, None}
    BY <1>7, SessionTypes DEF Replaced, TypeOK
  <2>. QED  BY <1>1, <2>1, <2>2
<1>8. ASSUME NEW u \in Users, StartAuth(u)  PROVE InUse'
  <2>1. open \subseteq open' /\ UNCHANGED <<active, save, crossed>>
    BY <1>8 DEF StartAuth
  <2>. QED  BY <1>1, <2>1
<1>9. ASSUME NEW b \in SUBSET Devices, SaveBindings(b)  PROVE InUse'
  <2>1. open' = open /\ active' = active /\ save'.old = None /\ crossed' = crossed
    BY <1>9 DEF SaveBindings, Publish
  <2>. QED  BY <1>1, <2>1
<1>10. ASSUME NEW e \in ends, SavePublishes(e)  PROVE InUse'
  <2>1. open' = open /\ active' = active /\ save'.old = save.old /\ crossed' = crossed
    BY <1>10 DEF SavePublishes, Publish
  <2>. QED  BY <1>1, <2>1
<1>11. CASE Stop \/ CancelAuth \/ SubmitOtp \/ RefreshDevices \/ Speak
            \/ \E d \in Devices : TestBinding(d)
  <2>1. UNCHANGED <<open, active, save, crossed>>
    BY <1>11 DEF Stop, CancelAuth, SubmitOtp, RefreshDevices, Speak, TestBinding
  <2>. QED  BY <1>1, <2>1
<1>12. CASE Answer
  <2>1. UNCHANGED <<open, active, save>> /\ crossed \subseteq crossed'
    BY <1>12 DEF Answer, Refreshed, RefreshLosesAccount, RefreshFails, Tested, TestLosesAccount,
                 Spoken, SpeechLosesAccount, Crosses
  <2>. QED  BY <1>1, <2>1
<1>13. ASSUME NEW a \in Attempts, Task(a) \/ Expire(a)  PROVE InUse'
  <2>1. UNCHANGED <<open, active, save, crossed>>
    BY <1>13 DEF Task, RequestOtp, LoggedIn, AuthFails, Fetched, Expire
  <2>. QED  BY <1>1, <2>1
<1>14. ASSUME NEW e \in ends, EndForgets(e)  PROVE InUse'
  <2>1. UNCHANGED <<open, active, save, crossed>>
    BY <1>14 DEF EndForgets
  <2>. QED  BY <1>1, <2>1
<1>15. CASE UNCHANGED vars
  <2>1. UNCHANGED <<open, active, save, crossed>>
    BY <1>15 DEF vars
  <2>. QED  BY <1>1, <2>1
<1>16. CASE Request
  BY <1>5, <1>8, <1>9, <1>11, <1>16 DEF Request
<1>17. CASE Finish
  BY <1>6, <1>10, <1>14, <1>17 DEF Finish
<1>18. CASE \E a \in Attempts : Task(a) \/ Expire(a)
  BY <1>13, <1>18
<1>. QED
  BY <1>2, <1>3, <1>4, <1>7, <1>11, <1>12, <1>15, <1>16, <1>17, <1>18 DEF Next

LEMMA InitSessionInv == Init => SessionInv
<1> SUFFICES ASSUME Init PROVE SessionInv
  OBVIOUS
<1>1. /\ attempt = 0 /\ ends = {} /\ open = {} /\ active = None /\ save = NoSave
      /\ refreshes = {} /\ workers = Nobody /\ running = "off"
      /\ \A a \in Attempts : att[a] = NoAttempt /\ auth[a] = "none"
  BY DEF Init
<1>2. Working /\ Holding
  BY <1>1, NoAttemptType, SessionTypes DEF Working, Holding
<1>3. Handed
  BY <1>1, SessionTypes DEF Handed, InHand
<1>4. Saving /\ InUse
  BY <1>1, SessionTypes DEF Saving, InUse
<1>. QED  BY <1>2, <1>3, <1>4 DEF SessionInv

LEMMA NextSessionInv ==
    TypeOK /\ AttemptInv /\ SessionInv /\ [Next]_vars => SessionInv'
<1> SUFFICES ASSUME TypeOK, AttemptInv, SessionInv, [Next]_vars  PROVE SessionInv'
  OBVIOUS
<1>1. Hands /\ Saving
  BY DEF SessionInv, Hands
<1>2. Hands' /\ Saving' /\ InUse'
  BY <1>1, NextHands, NextSaving, NextInUse
<1>. QED  BY <1>2 DEF SessionInv, Hands

-----------------------------------------------------------------------------
(* What is listed and bound is the account's whose session is used. *)

LEMMA OwnerGoes ==
    ASSUME TypeOK, [Next]_vars
    PROVE  owner' = owner \/ Start \/ Crash \/ \E u \in Users : StartAuth(u)
<1> USE DEF attempts, AttemptStep
<1>1. ASSUME NEW b \in SUBSET Devices, SaveChoice(b) \/ SaveBindings(b)  PROVE owner' = owner
  BY <1>1 DEF SaveChoice, SaveBindings
<1>2. CASE CancelAuth \/ SubmitOtp \/ RefreshDevices \/ Speak \/ \E d \in Devices : TestBinding(d)
  BY <1>2 DEF CancelAuth, SubmitOtp, RefreshDevices, Speak, TestBinding
<1>3. CASE Request
  BY <1>1, <1>2, <1>3 DEF Request
<1>4. CASE Finish
  BY <1>4 DEF Finish, EndCloses, EndForgets, SavePublishes
<1>5. CASE Answer
  BY <1>5 DEF Answer, Refreshed, RefreshLosesAccount, RefreshFails, Tested, TestLosesAccount,
              Spoken, SpeechLosesAccount
<1>6. CASE \E a \in Attempts : Task(a) \/ Expire(a)
  BY <1>6 DEF Task, RequestOtp, LoggedIn, AuthFails, Fetched, Expire
<1>7. CASE Stop \/ Stopped \/ Replaced \/ CloseOld \/ UNCHANGED vars
  BY <1>7 DEF Stop, Stopped, Replaced, CloseOld, vars
<1>. QED  BY <1>3, <1>4, <1>5, <1>6, <1>7 DEF Next

\* An attempt keeps its user, and its candidates are that user's.
LEMMA OffersGo ==
    ASSUME TypeOK, [Next]_vars
    PROVE  \/ Start \/ Crash
           \/ \E u \in Users : StartAuth(u)
           \/ \A a \in Attempts :
                /\ att'[a].user = att[a].user
                /\ \/ att'[a].candidates = att[a].candidates \/ att'[a].candidates = {}
                   \/ att'[a].candidates \subseteq Owned[att[a].user]
<1>0. AttemptTypes /\ (attempt # 0 => attempt \in Attempts)
  BY TypeParts, Reading
<1> DEFINE Kept == \A a \in Attempts :
                     /\ att'[a].user = att[a].user
                     /\ \/ att'[a].candidates = att[a].candidates \/ att'[a].candidates = {}
                        \/ att'[a].candidates \subseteq Owned[att[a].user]
<1>1. ASSUME NEW a \in Attempts, Advances(a)  PROVE Kept
  <2>1. /\ att'[a].user = att[a].user
        /\ \/ att'[a].candidates = att[a].candidates
           \/ att'[a].candidates \subseteq Owned[att[a].user]
        /\ \A b \in Attempts \ {a} : Same(b)
    BY <1>0, <1>1, AdvancesKeeps
  <2>. QED  BY <2>1 DEF Same
<1>2. ASSUME NEW a \in Attempts, NEW by \in Endings, NEW r \in Records, Ends(a, by, r),
             r.user = att[a].user, r.candidates = att[a].candidates
      PROVE  Kept
  <2>1. /\ att'[a].user = att[a].user /\ att'[a].candidates = att[a].candidates
        /\ \A b \in Attempts \ {a} : Same(b)
    BY <1>0, <1>2, EndsBegins
  <2>. QED  BY <2>1 DEF Same
<1>3. ASSUME NEW by \in Endings, attempt # 0, Ends(attempt, by, att[attempt])  PROVE Kept
  <2>1. attempt \in Attempts /\ att[attempt] \in Records
    BY <1>0, <1>3 DEF AttemptTypes
  <2>. QED  BY <1>2, <1>3, <2>1
<1>4. ASSUME NEW b \in SUBSET Devices, SaveChoice(b)  PROVE Kept
  <2> PICK a : a = attempt
    OBVIOUS
  <2> PICK r : r = [att[a] EXCEPT !.account = FALSE]
    OBVIOUS
  <2>0. a \in Attempts /\ att[a] \in Records
    BY <1>0, <1>4 DEF AttemptTypes, SaveChoice, Choosing
  <2>1. r \in Records /\ r.user = att[a].user /\ r.candidates = att[a].candidates
    BY <2>0 DEF Records
  <2>2. Ends(a, "save", r)
    BY <1>4 DEF SaveChoice
  <2>3. "save" \in Endings
    BY DEF Endings
  <2>. QED  BY <1>2, <2>0, <2>1, <2>2, <2>3
<1>5. ASSUME NEW e \in ends, Forget(e)  PROVE Kept
  <2> PICK a : a = e.attempt
    OBVIOUS
  <2>1. /\ att'[a].user = att[a].user /\ att'[a].candidates = {}
        /\ \A b \in Attempts \ {a} : att'[b] = att[b]
    BY <1>0, <1>5, ForgetClears
  <2>. QED  BY <2>1
<1>6. ASSUME NEW e \in ends, EndForgets(e) \/ SavePublishes(e)  PROVE Forget(e)
  BY <1>6 DEF EndForgets, SavePublishes
<1>7. ASSUME NEW e \in ends, EndCloses(e)  PROVE Kept
  <2>1. att' = att
    BY <1>7 DEF EndCloses
  <2>. QED  BY <2>1
<1>8. ASSUME TestLosesAccount  PROVE Kept
  <2>1. \A a \in Attempts : att'[a].user = att[a].user /\ att'[a].candidates = att[a].candidates
    BY <1>0, <1>8, TestLoses DEF TypeOK
  <2>. QED  BY <2>1
<1>9. ASSUME att' = att  PROVE Kept
  BY <1>9
<1> HIDE DEF Kept
<1>10. Start \/ Crash \/ (\E u \in Users : StartAuth(u)) \/ Kept
  BY <1>1, <1>3, <1>4, <1>5, <1>6, <1>7, <1>8, <1>9, HoldForms
<1>. QED  BY <1>10 DEF Kept

LEMMA NextOwning ==
    ASSUME TypeOK, AttemptInv, Owning, [Next]_vars  PROVE Owning'
<1>0. AttemptTypes /\ Made
  BY TypeParts DEF AttemptInv
<1>1. CASE Start \/ Crash
  <2>1. \A a \in Attempts : att'[a] = NoAttempt
    BY <1>1, FreshAttempts DEF Start, Crash
  <2>2. \A a \in Attempts : owner'[a] = None
    BY <1>1, SessionTypes DEF Start, Crash
  <2>. QED  BY <2>1, <2>2, NoAttemptType DEF Owning
<1>2. ASSUME NEW u \in Users, StartAuth(u)  PROVE Owning'
  <2>1. PICK a \in Attempts :
          /\ att'[a].user = u /\ att'[a].candidates = {}
          /\ \A p \in Attempts : p = attempt =>
               att'[p].user = att[p].user /\ att'[p].candidates = att[p].candidates
          /\ \A b \in Attempts \ {a, attempt} : Same(b)
          /\ owner' = [owner EXCEPT ![a] = u]
    BY <1>0, <1>2, StartAuthMakes
  <2>2. owner'[a] = u /\ \A b \in Attempts \ {a} : owner'[b] = owner[b]
    BY <2>1, SessionTypes DEF TypeOK
  <2>. QED  BY <2>1, <2>2 DEF Owning, Same
<1>3. ASSUME owner' = owner,
             \A a \in Attempts :
                /\ att'[a].user = att[a].user
                /\ \/ att'[a].candidates = att[a].candidates \/ att'[a].candidates = {}
                   \/ att'[a].candidates \subseteq Owned[att[a].user]
      PROVE  Owning'
  BY <1>3 DEF Owning
<1>. QED  BY <1>1, <1>2, <1>3, OwnerGoes, OffersGo

\* A new attempt does not take a session that is in use.
LEMMA OwnersStay ==
    ASSUME TypeOK, AttemptInv, Handed, NEW u \in Users, StartAuth(u)
    PROVE  /\ active # None => owner'[active] = owner[active]
           /\ \A r \in refreshes : owner'[r.session] = owner[r.session]
<1>1. PICK a \in Attempts : att[a] = NoAttempt /\ owner' = [owner EXCEPT ![a] = u]
  <2>1. AttemptTypes /\ Made
    BY TypeParts DEF AttemptInv
  <2>. QED  BY <2>1, StartAuthMakes
<1>2. ~InHand(a)
  BY <1>1, NoAttemptType DEF Handed
<1>3. \A s \in Sessions \ {a} : owner'[s] = owner[s]
  BY <1>1 DEF TypeOK
<1>4. active # None => active \in Sessions \ {a}
  BY <1>2 DEF InHand, TypeOK
<1>5. \A r \in refreshes : r.session \in Sessions \ {a}
  BY <1>2 DEF InHand, TypeOK
<1>. QED  BY <1>3, <1>4, <1>5

LEMMA OffersOwned ==
    ASSUME TypeOK, AttemptInv, Owning, Choosing
    PROVE  /\ attempt \in Attempts /\ att[attempt].user \in Users /\ owner[attempt] = att[attempt].user
           /\ Candidates \subseteq Owned[att[attempt].user]
<1>1. attempt \in Attempts /\ att[attempt] \in Records
  BY Reading DEF Choosing, TypeOK
<1>2. att[attempt].user # None
  BY <1>1 DEF AttemptInv, Made
<1>3. att[attempt].user \in Users
  BY <1>1, <1>2 DEF Records
<1>. QED  BY <1>1, <1>2, <1>3 DEF Owning, Candidates

LEMMA NextListing ==
    ASSUME TypeOK, AttemptInv, SessionInv, Owning, Listing, [Next]_vars  PROVE Listing'
<1> USE DEF manager, requests, attempts, speakers, AttemptStep
<1>0. Handed /\ Saving
  BY DEF SessionInv
<1>1. ASSUME UNCHANGED <<active, refreshes, snapshot, owner>>, crossed \subseteq crossed',
             running' = "on" => running = "on"
      PROVE  Listing'
  BY <1>1 DEF Listing
<1>2. CASE Start \/ Crash
  <2>1. refreshes' = {} /\ snapshot' = {}
    BY <1>2 DEF Start, Crash, Fresh
  <2>. QED  BY <2>1 DEF Listing
<1>3. CASE Stopped
  <2>1. /\ running = "stopping" /\ running' = "off" /\ active' = None /\ refreshes' = refreshes
    BY <1>3 DEF Stopped
  <2>2. refreshes = {}
    BY <1>0, <2>1 DEF Saving
  <2>. QED  BY <2>1, <2>2 DEF Listing
<1>4. ASSUME NEW u \in Users, StartAuth(u)  PROVE Listing'
  <2>1. /\ UNCHANGED <<active, refreshes, snapshot, running, crossed>>
    BY <1>4 DEF StartAuth
  <2>2. /\ active # None => owner'[active] = owner[active]
        /\ \A r \in refreshes : owner'[r.session] = owner[r.session]
    BY <1>0, <1>4, OwnersStay
  <2>. QED  BY <2>1, <2>2 DEF Listing
<1>5. ASSUME NEW b \in SUBSET Devices, SaveChoice(b)  PROVE Listing'
  <2>1. /\ Choosing /\ active' = attempt /\ snapshot' = Candidates /\ refreshes' = refreshes
        /\ owner' = owner /\ crossed \subseteq crossed'
    BY <1>5 DEF SaveChoice
  <2>2. /\ attempt \in Attempts /\ owner[attempt] = att[attempt].user
        /\ Candidates \subseteq Owned[att[attempt].user]
    BY <2>1, OffersOwned
  <2>3. attempt # None
    BY <2>2, SessionTypes
  <2>. QED  BY <2>1, <2>2, <2>3 DEF Listing
<1>6. CASE RefreshDevices
  <2>1. /\ active # None
        /\ refreshes' = refreshes \cup {[call |-> calls', session |-> active, previous |-> snapshot]}
        /\ UNCHANGED <<active, snapshot, owner, crossed>>
    BY <1>6 DEF RefreshDevices
  <2>. QED  BY <2>1 DEF Listing
<1>7. ASSUME NEW r \in refreshes, NEW D \in SUBSET Devices, Refreshed(r, D)
      PROVE  Listing'
  <2>1. /\ refreshes' \subseteq refreshes /\ D \subseteq Owned[owner[r.session]]
        /\ snapshot' = D /\ UNCHANGED <<active, owner>>
        /\ crossed \subseteq crossed'
        /\ r.session # active => "refresh" \in crossed'
    BY <1>7 DEF Refreshed, Crosses, Late
  <2>2. active # None
    BY <2>1 DEF Listing
  <2>. QED  BY <2>1, <2>2 DEF Listing
<1>8. ASSUME NEW r \in refreshes, RefreshFails(r)  PROVE Listing'
  <2>1. /\ refreshes' \subseteq refreshes
        /\ snapshot' = r.previous /\ UNCHANGED <<active, owner>>
        /\ crossed \subseteq crossed'
        /\ r.session # active => "refresh" \in crossed'
    BY <1>8 DEF RefreshFails, Crosses, Late
  <2>2. active # None
    BY <2>1 DEF Listing
  <2>. QED  BY <2>1, <2>2 DEF Listing
<1>9. ASSUME NEW r \in refreshes, RefreshLosesAccount(r)  PROVE Listing'
  <2>1. /\ refreshes' \subseteq refreshes /\ UNCHANGED <<active, owner, snapshot, running>>
        /\ crossed \subseteq crossed'
    BY <1>9 DEF RefreshLosesAccount, Crosses
  <2>. QED  BY <2>1 DEF Listing
<1>10. CASE Tested \/ TestLosesAccount \/ Spoken \/ SpeechLosesAccount
  <2>1. UNCHANGED <<active, refreshes, snapshot, owner, running>> /\ crossed \subseteq crossed'
    BY <1>10 DEF Tested, TestLosesAccount, Spoken, SpeechLosesAccount, Crosses
  <2>. QED  BY <1>1, <2>1
<1>11. CASE CancelAuth \/ SubmitOtp \/ Speak \/ \E d \in Devices : TestBinding(d)
  <2>1. UNCHANGED <<active, refreshes, snapshot, owner, running, crossed>>
    BY <1>11 DEF CancelAuth, SubmitOtp, Speak, TestBinding
  <2>. QED  BY <1>1, <2>1
<1>12. ASSUME NEW b \in SUBSET Devices, SaveBindings(b)  PROVE Listing'
  <2>1. UNCHANGED <<active, refreshes, snapshot, owner, running, crossed>>
    BY <1>12 DEF SaveBindings
  <2>. QED  BY <1>1, <2>1
<1>13. CASE Stop \/ Replaced \/ CloseOld \/ UNCHANGED vars
  <2>1. UNCHANGED <<active, refreshes, snapshot, owner, crossed>> /\ (running' = "on" => running = "on")
    BY <1>13 DEF Stop, Replaced, CloseOld, vars
  <2>. QED  BY <1>1, <2>1
<1>14. CASE Finish
  <2>1. UNCHANGED <<active, refreshes, snapshot, owner, running, crossed>>
    BY <1>14 DEF Finish, EndCloses, EndForgets, SavePublishes
  <2>. QED  BY <1>1, <2>1
<1>15. CASE \E a \in Attempts : Task(a) \/ Expire(a)
  <2>1. UNCHANGED <<active, refreshes, snapshot, owner, running, crossed>>
    BY <1>15 DEF Task, RequestOtp, LoggedIn, AuthFails, Fetched, Expire
  <2>. QED  BY <1>1, <2>1
<1>16. CASE Request
  BY <1>4, <1>5, <1>6, <1>11, <1>12, <1>16 DEF Request
<1>17. CASE Answer
  BY <1>7, <1>8, <1>9, <1>10, <1>17 DEF Answer
<1>. QED  BY <1>2, <1>3, <1>13, <1>14, <1>15, <1>16, <1>17 DEF Next

LEMMA NextBinding ==
    ASSUME TypeOK, AttemptInv, SessionInv, OwnerInv, [Next]_vars  PROVE Binding'
<1> USE DEF manager, requests, attempts, speakers, AttemptStep, storage
<1>0. Handed /\ Saving /\ Owning /\ Listing /\ Binding
  BY DEF SessionInv, OwnerInv
<1>1. ASSUME bound' = bound, active' \in {active, None}, owner' = owner, crossed \subseteq crossed',
             \/ stored' \in {stored, None}
             \/ crossed' \subseteq Harmless /\ active # None /\ stored' = owner[active]
      PROVE  Binding'
  BY <1>0, <1>1 DEF Binding
<1>2. CASE Start
  <2>1. /\ UNCHANGED <<stored, bound, crossed>> /\ owner'[0] = stored
        /\ active' = IF stored = None THEN None ELSE 0
    BY <1>2, SessionTypes DEF Start
  <2>. QED  BY <1>0, <2>1, SessionTypes DEF Binding
<1>3. CASE Crash \/ Stopped
  <2>1. UNCHANGED <<stored, bound, crossed>> /\ active' = None
    BY <1>3 DEF Crash, Stopped
  <2>. QED  BY <1>0, <2>1 DEF Binding
<1>4. ASSUME NEW u \in Users, StartAuth(u)  PROVE Binding'
  <2>1. UNCHANGED <<stored, bound, active, crossed>>
    BY <1>4 DEF StartAuth
  <2>2. active # None => owner'[active] = owner[active]
    BY <1>0, <1>4, OwnersStay
  <2>. QED  BY <1>0, <2>1, <2>2 DEF Binding
<1>5. ASSUME NEW b \in SUBSET Devices, SaveChoice(b)  PROVE Binding'
  <2> PICK u : u = att[attempt].user
    OBVIOUS
  <2>1. /\ Choosing /\ active' = attempt /\ owner' = owner /\ crossed \subseteq crossed'
        /\ stored' = u /\ bound' = b /\ b \subseteq Selectable
    BY <1>5 DEF SaveChoice, Commit
  <2>2. /\ u \in Users /\ owner[attempt] = u /\ Candidates \subseteq Owned[u]
    BY <1>0, <2>1, OffersOwned
  <2>3. ASSUME crossed \subseteq Harmless  PROVE b \subseteq Owned[u]
    <3>1. SameAccount => stored # None /\ stored = u
      BY DEF SameAccount
    <3>2. SameAccount => bound \subseteq Owned[u]
      BY <1>0, <2>3, <3>1 DEF Binding
    <3>. QED  BY <2>1, <2>2, <3>2 DEF Selectable
  <2>. QED  BY <2>1, <2>2, <2>3 DEF Binding
<1>6. ASSUME NEW b \in SUBSET Devices, SaveBindings(b)  PROVE Binding'
  <2>1. /\ ~Choosing /\ stored # None /\ stored' = stored /\ bound' = b
        /\ b \subseteq snapshot \cup bound /\ running = "on"
        /\ UNCHANGED <<active, owner, crossed>>
    BY <1>6 DEF SaveBindings, Commit, Selectable, Candidates, Call
  <2>2. ASSUME crossed \subseteq Harmless  PROVE b \subseteq Owned[stored]
    <3>1. bound \subseteq Owned[stored]
      BY <1>0, <2>1, <2>2 DEF Binding
    <3>2. CASE active = None
      BY <1>0, <2>1, <3>1, <3>2 DEF Listing
    <3>3. CASE active # None
      <4>1. stored = owner[active]
        BY <1>0, <2>1, <2>2, <3>3 DEF Binding
      <4>2. snapshot \subseteq Owned[owner[active]]
        BY <1>0, <2>2, <3>3 DEF Listing, Harmless
      <4>. QED  BY <2>1, <3>1, <4>1, <4>2
    <3>. QED  BY <3>2, <3>3
  <2>3. crossed \subseteq Harmless /\ active # None => stored = owner[active]
    BY <1>0, <2>1 DEF Binding
  <2>. QED  BY <2>1, <2>2, <2>3 DEF Binding
<1>7. ASSUME NEW s, stored' \in Renewed(s), NEW k, k \notin Harmless,
             Late(s) /\ stored' # stored => k \in crossed', s # None
      PROVE  \/ stored' \in {stored, None}
             \/ crossed' \subseteq Harmless /\ active # None /\ stored' = owner[active]
             \/ ~(crossed' \subseteq Harmless)
  BY <1>7 DEF Renewed, Late
<1>8. ASSUME bound' = bound, active' = active, owner' = owner, crossed \subseteq crossed',
             NEW s, s # None, stored' \in Renewed(s), NEW k, k \notin Harmless,
             Late(s) /\ stored' # stored => k \in crossed'
      PROVE  Binding'
  <2>1. CASE crossed' \subseteq Harmless
    BY <1>1, <1>7, <1>8, <2>1
  <2>2. CASE ~(crossed' \subseteq Harmless)
    BY <2>2 DEF Binding
  <2>. QED  BY <2>1, <2>2
<1>9. ASSUME NEW r \in refreshes, NEW D \in SUBSET Devices, Refreshed(r, D)
      PROVE  Binding'
  <2> PICK s : s = r.session
    OBVIOUS
  <2>1. s # None
    BY <1>9, SessionTypes DEF Refreshed, TypeOK
  <2>2. /\ bound' = bound /\ active' = active /\ owner' = owner /\ crossed \subseteq crossed'
        /\ stored' \in Renewed(s) /\ (Late(s) => "refresh" \in crossed')
    BY <1>9 DEF Refreshed, Crosses
  <2>. QED  BY <1>8, <2>1, <2>2 DEF Harmless
<1>10. CASE Tested
  <2> PICK s : s = test.session
    OBVIOUS
  <2>1. s # None
    BY <1>10, SessionTypes DEF Tested, TypeOK
  <2>2. /\ bound' = bound /\ active' = active /\ owner' = owner /\ crossed \subseteq crossed'
        /\ stored' \in Renewed(s) /\ (Late(s) /\ stored' # stored => "test" \in crossed')
    BY <1>10 DEF Tested, Crosses
  <2>. QED  BY <1>8, <2>1, <2>2 DEF Harmless
<1>11. CASE Spoken
  <2>1. /\ bound' = bound /\ active' = active /\ owner' = owner /\ crossed \subseteq crossed'
        /\ speaking # None /\ stored' \in Renewed(speaking)
        /\ (Late(speaking) /\ stored' # stored => "speech" \in crossed')
    BY <1>11 DEF Spoken, Crosses
  <2>. QED  BY <1>8, <2>1 DEF Harmless
<1>12. CASE \/ \E r \in refreshes : RefreshLosesAccount(r)
            \/ TestLosesAccount \/ SpeechLosesAccount
  <2>1. /\ bound' = bound /\ active' = active /\ owner' = owner /\ crossed \subseteq crossed'
    BY <1>12 DEF RefreshLosesAccount, TestLosesAccount, SpeechLosesAccount, Crosses
  <2>2. stored' \in {stored, None}
    BY <1>12 DEF RefreshLosesAccount, TestLosesAccount, SpeechLosesAccount, Lost
  <2>. QED  BY <1>1, <2>1, <2>2
<1>13. ASSUME NEW r \in refreshes, RefreshFails(r)  PROVE Binding'
  <2>1. UNCHANGED <<stored, bound, active, owner>> /\ crossed \subseteq crossed'
    BY <1>13 DEF RefreshFails, Crosses
  <2>. QED  BY <1>1, <2>1
<1>14. CASE CancelAuth \/ SubmitOtp \/ Speak \/ RefreshDevices \/ \E d \in Devices : TestBinding(d)
  <2>1. UNCHANGED <<stored, bound, active, owner, crossed>>
    BY <1>14 DEF CancelAuth, SubmitOtp, Speak, RefreshDevices, TestBinding
  <2>. QED  BY <1>1, <2>1
<1>15. CASE Stop \/ Replaced \/ CloseOld \/ UNCHANGED vars
  <2>1. UNCHANGED <<stored, bound, active, owner, crossed>>
    BY <1>15 DEF Stop, Replaced, CloseOld, vars
  <2>. QED  BY <1>1, <2>1
<1>16. CASE Finish
  <2>1. UNCHANGED <<stored, bound, active, owner, crossed>>
    BY <1>16 DEF Finish, EndCloses, EndForgets, SavePublishes
  <2>. QED  BY <1>1, <2>1
<1>17. CASE \E a \in Attempts : Task(a) \/ Expire(a)
  <2>1. UNCHANGED <<stored, bound, active, owner, crossed>>
    BY <1>17 DEF Task, RequestOtp, LoggedIn, AuthFails, Fetched, Expire
  <2>. QED  BY <1>1, <2>1
<1>18. CASE Request
  BY <1>4, <1>5, <1>6, <1>14, <1>18 DEF Request
<1>19. CASE Answer
  BY <1>9, <1>10, <1>11, <1>12, <1>13, <1>19 DEF Answer
<1>. QED  BY <1>2, <1>3, <1>15, <1>16, <1>17, <1>18, <1>19 DEF Next

LEMMA InitOwnerInv == Init => OwnerInv
<1> SUFFICES ASSUME Init PROVE OwnerInv
  OBVIOUS
<1>1. /\ active = None /\ refreshes = {} /\ snapshot = {} /\ crossed = {}
      /\ \A s \in Sessions : owner[s] = None
      /\ \A a \in Attempts : att[a] = NoAttempt
      /\ bound \subseteq IF stored = None THEN {} ELSE Owned[stored]
  BY DEF Init
<1>2. Owning
  BY <1>1, NoAttemptType, SessionTypes DEF Owning
<1>3. Listing /\ Binding
  BY <1>1 DEF Listing, Binding
<1>. QED  BY <1>2, <1>3 DEF OwnerInv

LEMMA NextOwnerInv ==
    TypeOK /\ AttemptInv /\ SessionInv /\ OwnerInv /\ [Next]_vars => OwnerInv'
<1> SUFFICES ASSUME TypeOK, AttemptInv, SessionInv, OwnerInv, [Next]_vars  PROVE OwnerInv'
  OBVIOUS
<1>1. Owning' /\ Listing' /\ Binding'
  BY NextOwning, NextListing, NextBinding DEF OwnerInv
<1>. QED  BY <1>1 DEF OwnerInv

-----------------------------------------------------------------------------
(* The workers are given what is stored. *)

\* What is published for the speakers that were saved.
LEMMA PublishInstalls ==
    ASSUME TypeOK, NEW selected \in SUBSET Devices, NEW old \in Sessions \cup {None},
           active' \in Sessions \cup {None}, bound' \subseteq Devices, Publish(selected, old)
    PROVE  WorkerInv'
<1>1. /\ state' \in {"devices_ready", "ready"} /\ flag' = Flag(state')
      /\ save'.at = "replacing"
      /\ save'.install = [session |-> active', devices |-> IF active' = None THEN {} ELSE bound']
      /\ save'.offer = Offer(state', bound', avail')
  BY Publishing
<1>2. save'.install = Team'
  BY <1>1 DEF Team, Nobody
<1>3. flag' => state' # "ready"
  BY <1>1 DEF Flag
<1>4. Installing'
  BY <1>1, <1>2, <1>3 DEF Installing
<1>5. Published'
  BY <1>1 DEF Published
<1>. QED  BY <1>4, <1>5 DEF WorkerInv

\* The steps that change nothing of it.
LEMMA WorkersStay ==
    ASSUME WorkerInv, UNCHANGED <<active, bound, avail, state, flag, workers, offered, refusing, save>>,
           running' = "on" => running = "on", crossed \subseteq crossed', hung' = hung
    PROVE  WorkerInv'
<1>1. InStep' => InStep
  BY DEF InStep
<1>2. Team' = Team /\ Offer(state, bound, avail)' = Offer(state, bound, avail)
  BY DEF Team, Offer
<1>3. Published'
  BY <1>1, <1>2 DEF WorkerInv, Published
<1>4. Installing'
  BY <1>1, <1>2 DEF WorkerInv, Installing
<1>. QED  BY <1>3, <1>4 DEF WorkerInv

\* The account of the session in use has to be authorized again, or is known to.
LEMMA PublishedAgain ==
    ASSUME TypeOK, WorkerInv, save.at \in {"idle", "closing"}, active # None,
           UNCHANGED <<active, bound, workers, save>>, running' = running,
           crossed \subseteq crossed', Republish(state')
    PROVE  WorkerInv'
<1>1. InStep' => InStep
  BY DEF InStep
<1>2. InStep => workers = [session |-> active, devices |-> bound] /\ workers = Team
  BY DEF WorkerInv, Published, Team
<1> PICK o : o = Offer(state', bound', avail')
  OBVIOUS
<1>3. o \subseteq bound
  BY Reading
<1>4. /\ flag' = Flag(state') /\ (refusing' <=> state' = "auth_required")
      /\ offered' = o \cap workers.devices
  BY DEF Republish
<1>5. InStep => offered' = o
  BY <1>2, <1>3, <1>4
<1>6. flag' => state' # "ready"
  BY <1>4 DEF Flag
<1>7. InStep' => workers' = Team'
  BY <1>1, <1>2 DEF Team
<1>8. Published'
  BY <1>1, <1>4, <1>5, <1>6, <1>7 DEF Published
<1>9. Installing'
  BY DEF Installing
<1>. QED  BY <1>8, <1>9 DEF WorkerInv

LEMMA NextWorkers ==
    ASSUME TypeOK, AttemptInv, SessionInv, WorkerInv, [Next]_vars  PROVE WorkerInv'
<1> USE DEF manager, requests, attempts, speakers, AttemptStep, storage
<1>0. Saving /\ Published /\ Installing
  BY DEF SessionInv, WorkerInv
<1>1. CASE Start
  <2>1. /\ save' = NoSave /\ flag' = FALSE /\ refusing' = FALSE
        /\ UNCHANGED <<bound, avail>>
        /\ state' \in {"unconfigured", "devices_ready", "ready"}
    BY <1>1 DEF Start, Fresh
  <2>2. workers' = Team'
    BY <1>1, SessionTypes DEF Start, Team
  <2>3. offered' = Offer(state', bound', avail')
    BY <1>1, <2>1 DEF Start, Offer
  <2>. QED  BY <2>1, <2>2, <2>3, SessionTypes DEF WorkerInv, Published, Installing
<1>2. CASE Crash \/ Stop \/ Stopped
  <2>1. running' # "on"
    BY <1>2 DEF Crash, Stop, Stopped, Fresh
  <2>. QED  BY <2>1 DEF WorkerInv, Published, Installing, InStep
<1>3. ASSUME NEW b \in SUBSET Devices, SaveChoice(b)  PROVE WorkerInv'
  <2>1. save'.at = "finishing"
    BY <1>3 DEF SaveChoice
  <2>. QED  BY <2>1 DEF WorkerInv, Published, Installing
<1>4. ASSUME NEW b \in SUBSET Devices, SaveBindings(b)  PROVE WorkerInv'
  <2>1. /\ Publish(b, None) /\ active' \in Sessions \cup {None} /\ bound' \subseteq Devices
    BY <1>4 DEF SaveBindings, Commit, TypeOK
  <2>. QED  BY <2>1, PublishInstalls
<1>5. ASSUME NEW e \in ends, SavePublishes(e)  PROVE WorkerInv'
  <2>1. /\ Publish(save.selected, save.old) /\ active' \in Sessions \cup {None}
        /\ bound' \subseteq Devices
        /\ save.selected \in SUBSET Devices /\ save.old \in Sessions \cup {None}
    BY <1>5 DEF SavePublishes, TypeOK
  <2>. QED  BY <2>1, PublishInstalls
<1>6. CASE Replaced
  <2>1. /\ save.at = "replacing" /\ ~hung
        /\ workers' = save.install /\ offered' = save.offer
        /\ (refusing' <=> state = "auth_required")
        /\ UNCHANGED <<active, bound, avail, state, flag, running, crossed>>
    BY <1>6 DEF Replaced
  <2>2. save'.at \in {"idle", "closing"}
    BY <1>6, SessionTypes DEF Replaced, TypeOK
  <2>3. InStep' => InStep
    BY <2>1 DEF InStep
  <2>4. Team' = Team /\ Offer(state, bound, avail)' = Offer(state, bound, avail)
    BY <2>1 DEF Team, Offer
  <2>5. InStep => /\ workers' = Team /\ offered' = Offer(state, bound, avail)
                  /\ (flag => state # "ready")
    BY <1>0, <2>1 DEF Installing
  <2>6. Published'
    BY <2>1, <2>3, <2>4, <2>5 DEF Published
  <2>7. Installing'
    BY <2>2 DEF Installing
  <2>. QED  BY <2>6, <2>7 DEF WorkerInv
<1>7. CASE CloseOld
  <2>1. /\ save.at = "closing" /\ save'.at = "idle"
        /\ UNCHANGED <<active, bound, avail, state, flag, workers, offered, refusing, running, crossed>>
    BY <1>7, SessionTypes DEF CloseOld
  <2>2. InStep' => InStep
    BY <2>1 DEF InStep
  <2>3. Team' = Team /\ Offer(state, bound, avail)' = Offer(state, bound, avail)
    BY <2>1 DEF Team, Offer
  <2>4. Published'
    BY <1>0, <2>1, <2>2, <2>3 DEF Published
  <2>5. Installing'
    BY <2>1 DEF Installing
  <2>. QED  BY <2>4, <2>5 DEF WorkerInv
<1>8. ASSUME save.at # "replacing" \/ hung', UNCHANGED <<active, bound, avail, workers, save>>,
             running' = running, crossed \subseteq crossed', RequireAuth
      PROVE  WorkerInv'
  <2>1. InStep' => InStep
    BY <1>8 DEF InStep
  <2>2. Team' = Team
    BY <1>8 DEF Team
  <2>3. Installing'
    BY <1>8 DEF Installing
  <2>4. ASSUME InStep', save.at \in {"idle", "closing"}
        PROVE  /\ state' = "auth_required" /\ offered' = Offer(state', bound', avail')
               /\ refusing' = TRUE /\ workers' = Team'
    <3>1. /\ workers = Team /\ offered = Offer(state, bound, avail)
          /\ (refusing <=> state = "auth_required")
      BY <1>0, <2>1, <2>4 DEF Published
    <3>2. CASE refusing
      BY <1>8, <2>2, <3>1, <3>2 DEF RequireAuth
    <3>3. CASE ~refusing
      BY <1>8, <2>2, <3>1, <3>3 DEF RequireAuth, Offer
    <3>. QED  BY <3>2, <3>3
  <2>5. Published'
    BY <1>8, <2>4 DEF Published
  <2>. QED  BY <2>3, <2>5 DEF WorkerInv
<1>9. CASE Speak
  <2>1. /\ save.at # "replacing" /\ UNCHANGED <<active, bound, avail, workers, save, running, crossed, hung>>
    BY <1>9 DEF Speak, Call
  <2>2. CASE RequireAuth
    BY <1>8, <2>1, <2>2
  <2>3. CASE UNCHANGED <<refusing, flag, state, offered>>
    BY <2>1, <2>3, WorkersStay
  <2>. QED  BY <1>9, <2>2, <2>3 DEF Speak
<1>10. CASE SpeechLosesAccount
  <2>1. /\ RequireAuth /\ (hung' <=> save.at = "replacing")
        /\ UNCHANGED <<active, bound, avail, workers, save, running>> /\ crossed \subseteq crossed'
    BY <1>10 DEF SpeechLosesAccount, Crosses
  <2>. QED  BY <1>8, <2>1
<1>11. CASE Spoken
  <2>1. /\ UNCHANGED <<active, bound, avail, state, flag, workers, offered, refusing, save>>
        /\ running' = running /\ crossed \subseteq crossed' /\ hung' = hung
    BY <1>11 DEF Spoken, Crosses
  <2>. QED  BY <2>1, WorkersStay
<1>12. ASSUME NEW k \in {"refresh", "test", "untold"}, k \in crossed'  PROVE WorkerInv'
  <2>1. ~InStep'
    BY <1>12 DEF InStep
  <2>. QED  BY <2>1 DEF WorkerInv, Published, Installing
<1>13. ASSUME NEW r \in refreshes, NEW D \in SUBSET Devices, Refreshed(r, D)
      PROVE  WorkerInv'
  <2>1. /\ UNCHANGED <<active, bound, workers, save, state>> /\ running' = running
        /\ crossed \subseteq crossed' /\ Republish(state')
        /\ Late(r.session) => "refresh" \in crossed'
        /\ r.session # None
    BY <1>13, SessionTypes DEF Refreshed, Crosses, TypeOK
  <2>2. CASE Late(r.session)
    BY <1>12, <2>1, <2>2
  <2>3. CASE ~Late(r.session)
    BY <2>1, <2>3, SessionTypes, PublishedAgain DEF Late
  <2>. QED  BY <2>2, <2>3
<1>14. ASSUME NEW r \in refreshes, RefreshLosesAccount(r)  PROVE WorkerInv'
  <2>1. /\ UNCHANGED <<active, bound, workers, save>> /\ running' = running
        /\ crossed \subseteq crossed' /\ Republish(state')
        /\ Late(r.session) => "refresh" \in crossed'
        /\ r.session # None
    BY <1>14, SessionTypes DEF RefreshLosesAccount, Crosses, TypeOK
  <2>2. CASE Late(r.session)
    BY <1>12, <2>1, <2>2
  <2>3. CASE ~Late(r.session)
    BY <2>1, <2>3, SessionTypes, PublishedAgain DEF Late
  <2>. QED  BY <2>2, <2>3
<1>15. ASSUME NEW r \in refreshes, RefreshFails(r)  PROVE WorkerInv'
  <2>1. /\ UNCHANGED <<active, bound, avail, state, flag, workers, offered, refusing, save>>
        /\ running' = running /\ crossed \subseteq crossed' /\ hung' = hung
    BY <1>15 DEF RefreshFails, Crosses
  <2>. QED  BY <2>1, WorkersStay
<1>16. CASE Tested
  <2>1. /\ UNCHANGED <<active, bound, avail, state, workers, save>>
        /\ running' = running /\ crossed \subseteq crossed' /\ hung' = hung
        /\ TestPublishes(state)
    BY <1>16 DEF Tested, Crosses
  <2>2. CASE UNCHANGED <<flag, refusing, offered>>
    BY <2>1, <2>2, WorkersStay
  <2>3. CASE state = "auth_required" /\ Republish(state)
    <3>1. InStep' => InStep
      BY <2>1 DEF InStep
    <3>2. Team' = Team /\ Offer(state', bound', avail') = {}
      BY <2>1, <2>3 DEF Team, Offer
    <3>3. (refusing' <=> state' = "auth_required") /\ offered' = {} /\ state' # "ready"
      BY <2>1, <2>3, <3>2 DEF Republish
    <3>4. Published'
      BY <1>0, <2>1, <3>1, <3>2, <3>3 DEF Published
    <3>5. Installing'
      BY <1>0, <2>1, <2>3, <3>1 DEF Installing
    <3>. QED  BY <3>4, <3>5 DEF WorkerInv
  <2>. QED  BY <2>1, <2>2, <2>3 DEF TestPublishes
<1>17. CASE TestLosesAccount
  <2>1. /\ UNCHANGED <<active, bound, avail, workers, save, hung>> /\ running' = running
        /\ crossed \subseteq crossed' /\ TestPublishes(state')
        /\ test.session # None
    BY <1>17, SessionTypes DEF TestLosesAccount, TypeOK
  <2>2. CASE test.attempt # 0 /\ (test.candidate \/ state = "auth_required")
    <3>1. state' = state /\ UNCHANGED <<flag, refusing, offered>>
      <4>1. state' = state
        BY <1>17, <2>2 DEF TestLosesAccount
      <4>. QED  BY <2>1, <2>2, <4>1 DEF TestPublishes
    <3>. QED  BY <2>1, <3>1, WorkersStay
  <2>3. CASE test.attempt # 0 /\ ~test.candidate /\ state # "auth_required"
    <3>1. "untold" \in crossed'
      BY <1>17, <2>3 DEF TestLosesAccount, Untold
    <3>. QED  BY <1>12, <3>1
  <2>4. CASE test.attempt = 0 /\ Late(test.session)
    <3>1. "test" \in crossed'
      BY <1>17, <2>4 DEF TestLosesAccount
    <3>. QED  BY <1>12, <3>1
  <2>5. CASE test.attempt = 0 /\ ~Late(test.session)
    <3>1. state' = "auth_required"
      BY <1>17, <2>5 DEF TestLosesAccount
    <3>2. Republish(state')
      BY <2>1, <2>5, <3>1 DEF TestPublishes
    <3>. QED  BY <2>1, <2>5, <3>2, SessionTypes, PublishedAgain DEF Late
  <2>. QED  BY <2>2, <2>3, <2>4, <2>5
<1>18. ASSUME NEW u \in Users, StartAuth(u)  PROVE WorkerInv'
  <2>1. /\ UNCHANGED <<active, bound, avail, state, flag, workers, offered, refusing, save>>
        /\ UNCHANGED <<running, crossed, hung>>
    BY <1>18 DEF StartAuth
  <2>. QED  BY <2>1, WorkersStay
<1>19. CASE CancelAuth \/ SubmitOtp \/ RefreshDevices \/ \E d \in Devices : TestBinding(d)
  <2>1. /\ UNCHANGED <<active, bound, avail, state, flag, workers, offered, refusing, save>>
        /\ UNCHANGED <<running, crossed, hung>>
    BY <1>19 DEF CancelAuth, SubmitOtp, RefreshDevices, TestBinding
  <2>. QED  BY <2>1, WorkersStay
<1>20. CASE \E a \in Attempts : Task(a) \/ Expire(a)
  <2>1. /\ UNCHANGED <<active, bound, avail, state, flag, workers, offered, refusing, save>>
        /\ UNCHANGED <<running, crossed, hung>>
    BY <1>20 DEF Task, RequestOtp, LoggedIn, AuthFails, Fetched, Expire
  <2>. QED  BY <2>1, WorkersStay
<1>21. ASSUME NEW e \in ends, EndCloses(e) \/ EndForgets(e)  PROVE WorkerInv'
  <2>1. /\ UNCHANGED <<active, bound, avail, state, flag, workers, offered, refusing, save>>
        /\ UNCHANGED <<running, crossed, hung>>
    BY <1>21 DEF EndCloses, EndForgets
  <2>. QED  BY <2>1, WorkersStay
<1>22. CASE UNCHANGED vars
  <2>1. /\ UNCHANGED <<active, bound, avail, state, flag, workers, offered, refusing, save>>
        /\ UNCHANGED <<running, crossed, hung>>
    BY <1>22 DEF vars
  <2>. QED  BY <2>1, WorkersStay
<1>23. CASE Request
  BY <1>3, <1>4, <1>9, <1>18, <1>19, <1>23 DEF Request
<1>24. CASE Answer
  BY <1>10, <1>11, <1>13, <1>14, <1>15, <1>16, <1>17, <1>24 DEF Answer
<1>25. CASE Finish
  BY <1>5, <1>21, <1>25 DEF Finish
<1>. QED  BY <1>1, <1>2, <1>6, <1>7, <1>20, <1>22, <1>23, <1>24, <1>25 DEF Next

-----------------------------------------------------------------------------
(* The theorems. *)

\* The invariant is inductive.
LEMMA AccountInvariant == Spec => []AInv
<1>1. Init => AInv
  <2> SUFFICES ASSUME Init PROVE AInv
    OBVIOUS
  <2>1. running = "off"
    BY DEF Init
  <2>2. WorkerInv
    BY <2>1 DEF WorkerInv, Published, Installing, InStep
  <2>. QED  BY <2>2, InitTypes, InitAttemptInv, InitSessionInv, InitOwnerInv DEF AInv
<1>2. AInv /\ [Next]_vars => AInv'
  <2> SUFFICES ASSUME AInv, [Next]_vars  PROVE AInv'
    OBVIOUS
  <2>1. TypeOK /\ AttemptInv /\ SessionInv /\ OwnerInv /\ WorkerInv
    BY DEF AInv
  <2>2. WorkerInv'
    BY <2>1, NextWorkers
  <2>. QED  BY <2>1, <2>2, NextAttemptInv, NextSessionInv, NextOwnerInv DEF AInv
<1>. QED  BY <1>1, <1>2, PTL DEF Spec

\* The variables keep their types, whatever the users, the devices and the number of attempts.
THEOREM TypeCorrect == Spec => []TypeOK
<1>1. AInv => TypeOK
  BY DEF AInv
<1>. QED  BY <1>1, AccountInvariant, PTL

\* Only the current attempt runs, waits for a code or holds a password, however many were
\* started, cancelled, expired and restarted before (start_auth, _finish_attempt).
THEOREM OneAtATime == Spec => []OneAttempt
<1>1. AInv => OneAttempt
  BY DEF AInv, AttemptInv
<1>. QED  BY <1>1, AccountInvariant, PTL

\* An attempt that is over holds no password, code, token, candidates or session but the one
\* handed over, in whatever order its task, its timer, requests and a save ended it
\* (_finish_attempt).
THEOREM ReleasedAtTheEnd == Spec => []ReleasedWhenOver
<1>1. AInv => ReleasedWhenOver
  <2> SUFFICES ASSUME AttemptInv, NEW a \in Attempts, att[a].state \in Over
               PROVE  /\ ~att[a].password /\ ~att[a].otp /\ ~att[a].token /\ ~att[a].account
                      /\ att[a].candidates = {} /\ auth[a] = "done" /\ ~timer[a]
                      /\ a \in open => a \in {active, save.old}
    BY DEF ReleasedWhenOver, AInv
  <2>1. /\ ~att[a].password /\ ~att[a].otp /\ ~att[a].token /\ ~att[a].account
        /\ att[a].candidates = {} /\ auth[a] = "done" /\ ~timer[a]
    BY DEF AttemptInv, Released, Silent
  <2>2. ASSUME a \in open  PROVE a \in {active, save.old}
    BY <2>1, <2>2 DEF AttemptInv, Opened
  <2>. QED  BY <2>1, <2>2
<1>. QED  BY <1>1, AccountInvariant, PTL

\* Sessions, devices and bindings of two accounts do not mix: the session in use is open, what
\* is listed and bound is its user's, and that user is the one stored, unless a save crossed the
\* end of an attempt or an answer came after one (save_bindings, refresh_devices).
THEOREM AccountsApart == Spec => []AccountsDoNotMix
<1>1. AInv => AccountsDoNotMix
  <2> SUFFICES ASSUME SessionInv, OwnerInv  PROVE AccountsDoNotMix
    BY DEF AInv
  <2>1. ASSUME "end" \notin crossed  PROVE {workers.session, active} \subseteq open \cup {None}
    <3>1. workers.session \in {active, save.old, None}
      BY DEF SessionInv, Saving
    <3>. QED  BY <2>1, <3>1 DEF SessionInv, InUse
  <2>2. "refresh" \notin crossed /\ active # None => snapshot \subseteq Owned[owner[active]]
    BY DEF OwnerInv, Listing
  <2>3. crossed \subseteq Harmless /\ stored # None =>
           bound \subseteq Owned[stored] /\ (active # None => stored = owner[active])
    BY DEF OwnerInv, Binding
  <2>. QED  BY <2>1, <2>2, <2>3 DEF AccountsDoNotMix, Harmless
<1>. QED  BY <1>1, AccountInvariant, PTL

\* Between saves the workers have the session and the bindings that are stored, are offered as
\* the account's state says and refuse when it has to be authorized again, unless an answer came
\* after a save (_publish_runtime, replace_speakers, mark_auth_required).
THEOREM WorkersAsStored == Spec => []PublishedAsStored
<1>1. AInv => PublishedAsStored
  BY SessionTypes DEF AInv, WorkerInv, Published, InStep, Team, PublishedAsStored
<1>. QED  BY <1>1, AccountInvariant, PTL

=============================================================================
