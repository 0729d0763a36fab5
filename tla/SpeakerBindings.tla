-------------------------- MODULE SpeakerBindings --------------------------
(***************************************************************************)
(* Which speakers are bound: the rows of speaker_bindings and of cameras   *)
(* (src/src/guduck/storage.py), the lists of devices that give a row its   *)
(* id (src/src/guduck/xiaomi.py) and the confirmations that unbinding a    *)
(* speaker in use takes.                                                   *)
(*                                                                         *)
(* A call of Storage runs without an await, so it is one action; listing   *)
(* the devices awaits the cloud and has two.  How an attempt comes to its  *)
(* list and ends is XiaomiAccount.  A request that is refused changes      *)
(* nothing and has no action, unless it uses up a confirmation.  Names,    *)
(* test results and what else a row shows are left out.                    *)
(***************************************************************************)
EXTENDS Integers, FiniteSets

CONSTANTS
    Users,
    Cameras,
    MaxDevices,
    MaxIds,     \* bound on the binding ids made
    MaxTokens,  \* bound on the confirmations issued
    MaxCalls,   \* bound on the logins, refreshes, lost accounts and restarts
    Ttl,        \* _confirmation_ttl_seconds, in ticks
    None

ASSUME BindingsAssumption ==
    /\ MaxDevices \in Nat /\ MaxIds \in Nat /\ MaxTokens \in Nat /\ MaxCalls \in Nat /\ Ttl \in Nat
    /\ None \notin Users

Devices == 1 .. MaxDevices
Ids     == 1 .. MaxIds
Tokens  == 1 .. MaxTokens

VARIABLES
    row,       \* speaker_bindings by device; id 0: no row
    pairing,   \* cameras.speaker_id, 0 for NULL
    account,   \* user of the xiaomi_account row
    active,    \* user of _active_mina
    snapshot,  \* binding ids of _active_snapshot by device, 0 if not listed
    choice,    \* the attempt that is devices_ready
    refreshes, \* the refreshes in progress: the snapshot each found
    held,      \* keys of _binding_confirmations
    asked,     \* what each confirmation was issued for, and how long ago
    ids,       \* binding ids made so far
    tokens,    \* confirmations issued so far
    found,     \* history: the devices of the last list that took effect
    kept,      \* history: devices kept though the list in force lacked them
    saved,     \* history: the ids of the last choice that was saved
    used,      \* history: the confirmations with which a choice was saved
    restored,  \* history: a failed refresh has put back an older snapshot
    calls

storage == <<row, pairing, account>>
lists   == <<active, snapshot, choice, refreshes, ids>>
tickets == <<held, asked, tokens>>
history == <<found, kept, saved, used, restored, calls>>
vars    == <<storage, lists, tickets, history>>

Nothing  == [d \in Devices |-> 0]
NoRow    == [id |-> 0, bound |-> FALSE, available |-> FALSE]
NoChoice == [user |-> None, list |-> Nothing]
NotAsked == [selected |-> {}, removed |-> {}, cameras |-> {}, age |-> 0]

Bound    == {row[d].id : d \in {e \in Devices : row[e].bound}}
Listed(list) == {d \in Devices : list[d] # 0}

\* A database with no speakers, with or without an account.
Init ==
    /\ row = [d \in Devices |-> NoRow] /\ pairing = [c \in Cameras |-> 0]
    /\ account \in Users \cup {None} /\ active = account
    /\ snapshot = Nothing /\ choice = NoChoice /\ refreshes = {} /\ ids = 0
    /\ held = {} /\ asked = [t \in Tokens |-> NotAsked] /\ tokens = 0
    /\ found = {} /\ kept = {} /\ saved = {} /\ used = {} /\ restored = FALSE
    /\ calls = 0

-----------------------------------------------------------------------------
(* Lists of devices. *)

Named(d)      == IF row[d].id # 0 THEN row[d].id ELSE snapshot[d]
Unnamed(seen) == {d \in seen : Named(d) = 0}

\* Variant: the rows are not consulted.
MergeForgetsRows(seen) ==
    [d \in Devices |-> IF d \notin seen THEN 0
        ELSE IF snapshot[d] # 0 THEN snapshot[d]
        ELSE ids + Cardinality({e \in Unnamed(seen) : e <= d})]

\* _merge_candidates: the id of the row, else that of the snapshot, else a new one.
Merge(seen) ==
    [d \in Devices |-> IF d \notin seen THEN 0
        ELSE IF Named(d) # 0 THEN Named(d)
        ELSE ids + Cardinality({e \in Unnamed(seen) : e <= d})]

Call == calls < MaxCalls /\ calls' = calls + 1

Names(seen) ==
    /\ ids + Cardinality(Unnamed(seen)) <= MaxIds
    /\ ids' = ids + Cardinality(Unnamed(seen))

\* A login has listed the devices of its account.
DevicesReady(u, seen) ==
    /\ Call /\ Names(seen)
    /\ choice' = [user |-> u, list |-> Merge(seen)]
    /\ UNCHANGED <<storage, active, snapshot, refreshes, tickets, found, kept, saved, used, restored>>

\* It is cancelled, expires, is replaced or loses its authorization.
AttemptOver ==
    /\ choice # NoChoice /\ choice' = NoChoice
    /\ UNCHANGED <<storage, active, snapshot, refreshes, ids, tickets, history>>

\* refresh_devices up to its await; nothing keeps a second one from crossing it.
RefreshDevices ==
    /\ active # None /\ Call
    /\ refreshes' = refreshes \cup {[call |-> calls', previous |-> snapshot]}
    /\ UNCHANGED <<storage, active, snapshot, choice, ids, tickets, found, kept, saved, used, restored>>

\* Variant: the rows that are not listed stay available.
MarkOnlyListed(seen) == [d \in Devices |->
    [row[d] EXCEPT !.available = row[d].id # 0 /\ (d \in seen \/ row[d].available)]]

\* refresh_known_speakers
MarkAvailable(seen) == [d \in Devices |->
    [row[d] EXCEPT !.available = row[d].id # 0 /\ d \in seen]]

Refreshed(r, seen) ==
    /\ refreshes' = refreshes \ {r}
    /\ Names(seen)
    /\ row' = MarkAvailable(seen) /\ snapshot' = Merge(seen)
    /\ found' = seen /\ kept' = {} /\ restored' = FALSE
    /\ UNCHANGED <<pairing, account, active, choice, tickets, saved, used, calls>>

\* The snapshot of before the await comes back.
RefreshFails(r) ==
    /\ refreshes' = refreshes \ {r}
    /\ snapshot' = r.previous /\ restored' = (restored \/ r.previous # snapshot)
    /\ UNCHANGED <<storage, active, choice, ids, tickets, found, kept, saved, used, calls>>

RefreshLosesAccount(r) ==
    /\ refreshes' = refreshes \ {r}
    /\ UNCHANGED <<storage, active, snapshot, choice, ids, tickets, history>>

-----------------------------------------------------------------------------
(* Saving a choice. *)

Choosing    == choice # NoChoice
Candidates  == IF Choosing THEN choice.list ELSE snapshot
SameAccount == Choosing /\ account # None /\ account = choice.user

Selectable ==
    ({Candidates[d] : d \in Devices} \ {0}) \cup IF ~Choosing \/ SameAccount THEN Bound ELSE {}

Chosen(selected) == {d \in Devices : Candidates[d] \in selected}

\* Variant: the ids are not compared.
IdentityAssumed(selected) == TRUE

\* No row gives a chosen device another id, or its id to another device.
IdentityHolds(selected) ==
    \A d \in Chosen(selected), e \in Devices :
        row[e].id # 0 => (row[e].id = Candidates[d] <=> e = d)

Removed(selected) == Bound \ selected

AffectedCameras(removed) == {c \in Cameras : pairing[c] \in removed}

\* _discard_expired_confirmations
Unexpired == {t \in held : asked[t].age < Ttl}

Request(selected) ==
    [selected |-> selected, removed |-> Removed(selected),
     cameras |-> AffectedCameras(Removed(selected)), age |-> 0]

\* Variant: the cameras may have changed since the question.
MatchesSelection(t, selected) == asked[t].selected = selected

MatchesRequest(t, selected) == [asked[t] EXCEPT !.age = 0] = Request(selected)

Accepted(selected) ==
    /\ Choosing \/ account # None
    /\ selected \subseteq Selectable /\ IdentityHolds(selected)

\* 409: the cameras that would lose their speaker, and the confirmation to repeat the request with.
AskConfirmation(selected) ==
    /\ Accepted(selected) /\ AffectedCameras(Removed(selected)) # {}
    /\ \/ /\ \E t \in Unexpired : MatchesRequest(t, selected)
          /\ held' = Unexpired /\ UNCHANGED <<asked, tokens>>
       \/ /\ ~\E t \in Unexpired : MatchesRequest(t, selected)
          /\ tokens < MaxTokens /\ tokens' = tokens + 1
          /\ held' = Unexpired \cup {tokens'}
          /\ asked' = [asked EXCEPT ![tokens'] = Request(selected)]
    /\ UNCHANGED <<storage, lists, history>>

\* _consume_confirmation takes it out whether or not it fits.
Consumed(t) == Unexpired \ {t}

\* A request with a confirmation that is not, or no longer, the one for it.
ConfirmationRefused(selected, t) ==
    /\ Accepted(selected) /\ AffectedCameras(Removed(selected)) # {}
    /\ ~(t \in Unexpired /\ MatchesRequest(t, selected))
    /\ held' = Consumed(t)
    /\ UNCHANGED <<storage, lists, asked, tokens, history>>

\* The upsert, the two updates of bound, and the update of available.
SavedRows(selected) == [d \in Devices |->
    LET id == IF row[d].id = 0 /\ d \in Chosen(selected) THEN Candidates[d] ELSE row[d].id
    IN [id |-> id, bound |-> id \in selected,
        available |-> /\ d \in Chosen(selected) \/ row[d].available
                      /\ \A c \in AffectedCameras(Removed(selected)) : pairing[c] # id]]

\* The account of the attempt and its list take the place of those in use.
Install ==
    \/ /\ ~Choosing
       /\ kept' = kept \cup IF restored THEN Chosen(saved') \ found ELSE {}
       /\ UNCHANGED <<account, active, snapshot, choice, found, restored>>
    \/ /\ Choosing
       /\ account' = choice.user /\ active' = choice.user
       /\ snapshot' = choice.list /\ choice' = NoChoice
       /\ found' = Listed(choice.list) /\ restored' = FALSE
       /\ kept' = {d \in Devices : row'[d].bound} \ Listed(choice.list)

Save(selected, t) ==
    /\ Accepted(selected)
    /\ \/ /\ AffectedCameras(Removed(selected)) = {} /\ t = 0 /\ used' = used
       \/ /\ AffectedCameras(Removed(selected)) # {}
          /\ t \in Unexpired /\ MatchesRequest(t, selected) /\ used' = used \cup {t}
    /\ held' = Consumed(t) /\ row' = SavedRows(selected) /\ saved' = selected
    /\ Install
    /\ UNCHANGED <<pairing, refreshes, ids, asked, tokens, calls>>

\* The transaction fails and is rolled back; the confirmation is gone.
SaveFails(selected, t) ==
    /\ Accepted(selected) /\ AffectedCameras(Removed(selected)) # {}
    /\ t \in Unexpired /\ MatchesRequest(t, selected)
    /\ held' = Consumed(t)
    /\ UNCHANGED <<storage, lists, asked, tokens, history>>

-----------------------------------------------------------------------------
(* The rest of the program, and time. *)

SetCameraSpeaker(c, id) ==
    /\ id \in Bound /\ pairing' = [pairing EXCEPT ![c] = id]
    /\ UNCHANGED <<row, account, lists, tickets, history>>

\* The session in use could not renew its token.
ClearAccount ==
    /\ account # None /\ active # None /\ account' = None /\ Call
    /\ UNCHANGED <<row, pairing, lists, tickets, found, kept, saved, used, restored>>

Tick ==
    /\ \E t \in held : asked[t].age < Ttl
    /\ asked' = [t \in Tokens |-> IF t \in held /\ asked[t].age < Ttl
                                  THEN [asked[t] EXCEPT !.age = @ + 1] ELSE asked[t]]
    /\ UNCHANGED <<storage, lists, held, tokens, history>>

Restart ==
    /\ Call
    /\ active' = account /\ snapshot' = Nothing /\ choice' = NoChoice /\ refreshes' = {}
    /\ held' = {} /\ restored' = FALSE
    /\ UNCHANGED <<storage, ids, asked, tokens, found, kept, saved, used>>

Next ==
    \/ \E seen \in SUBSET Devices, u \in Users : DevicesReady(u, seen)
    \/ AttemptOver \/ RefreshDevices
    \/ \E r \in refreshes :
        \/ \E seen \in SUBSET Devices : Refreshed(r, seen)
        \/ RefreshFails(r) \/ RefreshLosesAccount(r)
    \/ \E selected \in SUBSET (1 .. ids) :
        \/ AskConfirmation(selected)
        \/ \E t \in 0 .. tokens : Save(selected, t)
        \/ \E t \in 1 .. tokens : SaveFails(selected, t) \/ ConfirmationRefused(selected, t)
    \/ \E c \in Cameras, id \in 1 .. ids : SetCameraSpeaker(c, id)
    \/ ClearAccount \/ Tick \/ Restart

Spec == Init /\ [][Next]_vars

-----------------------------------------------------------------------------
(* Properties. *)

\* The variables have their types.
TypeOK ==
    /\ row \in [Devices -> [id : 0 .. MaxIds, bound : BOOLEAN, available : BOOLEAN]]
    /\ pairing \in [Cameras -> 0 .. MaxIds] /\ account \in Users \cup {None}
    /\ active \in Users \cup {None} /\ snapshot \in [Devices -> 0 .. MaxIds]
    /\ choice \in [user : Users \cup {None}, list : [Devices -> 0 .. MaxIds]]
    /\ refreshes \subseteq [call : 1 .. MaxCalls, previous : [Devices -> 0 .. MaxIds]]
    /\ ids \in 0 .. MaxIds /\ tokens \in 0 .. MaxTokens
    /\ held \subseteq 1 .. tokens /\ used \subseteq 1 .. tokens
    /\ asked \in [Tokens -> [selected : SUBSET Ids, removed : SUBSET Ids,
                             cameras : SUBSET Cameras, age : 0 .. Ttl]]
    /\ found \subseteq Devices /\ kept \subseteq Devices /\ saved \subseteq Ids
    /\ restored \in BOOLEAN /\ calls \in 0 .. MaxCalls

\* A camera loses its speaker only after the page has shown that this choice takes the speaker
\* from exactly these cameras, within the time of the confirmation, and once for each
\* confirmation (replace_xiaomi_configuration).
Losing == {c \in Cameras : pairing[c] \in Bound /\ pairing[c] \notin Bound'}
UnbindIsConfirmed == [][
    Losing # {} => \E t \in used' \ used :
        asked[t].cameras = Losing /\ asked[t].selected = Bound' /\ asked[t].age < Ttl]_vars

\* The bound speakers are those of the last choice that was answered with saved, also if a row
\* and a list disagree about the id of a device (the checks of identity, and the transaction).
BoundAsSaved == Bound = saved

\* A bound speaker is available exactly if the list in force has it.  Excepted are the speakers
\* kept by a new login that did not list them, which stay as they were, and choices made from
\* an older snapshot (refresh_known_speakers, replace_xiaomi_configuration).
AvailabilityIsCurrent ==
    \A d \in Devices : row[d].bound =>
        /\ d \in found => row[d].available
        /\ row[d].available => d \in found \cup kept

\* The lists a choice is made from agree with the rows about the id of a device, so a camera
\* finds its speaker again, unless a failed refresh has put back an older snapshot
\* (_merge_candidates, refresh_devices).
CandidatesAgreeWithRows ==
    \A d \in Devices :
        Candidates[d] # 0 /\ row[d].id # 0 => Candidates[d] = row[d].id \/ restored
=============================================================================
