------------------------------ MODULE Startup ------------------------------
(***************************************************************************)
(* What the server does to its database before it serves: the rename of    *)
(* the file of an earlier release (src/src/guduck/database.py), a link and *)
(* an unlink for each of the database and its two journals, and            *)
(* Storage.initialize (src/src/guduck/storage.py), which creates or        *)
(* upgrades the tables.  The process may stop between any two steps, and   *)
(* is started again.                                                       *)
(*                                                                         *)
(* A directory entry names a file: "old" is that of the earlier release,   *)
(* "other" any other.  A schema is "vN" if it is exactly that of version   *)
(* N, and "foreign" if it is none of them.  Names that SpeakerBindings,     *)
(* the other module of the storage, has too begin with Start here:         *)
(* StorageProofs extends both.                                             *)
(***************************************************************************)
EXTENDS Naturals

CONSTANT MaxFaults  \* bound on the crashes and errors

ASSUME StartupAssumption == MaxFaults \in Nat

Sidecars == {"wal", "shm"}
Files    == {"db"} \cup Sidecars

VARIABLES
    legacy,   \* the entries daihougou.db, -wal and -shm
    current,  \* the entries guduck.db, -wal and -shm
    schema,   \* of the database to be opened, as committed
    rules,    \* rule_configs and camera_rules have the built-in rules
    work,     \* the schema as the open transaction has it
    lost,     \* history: opened without the journal it was written with
    pc,       \* where the start is
    at,       \* how many of the three files it has moved
    faults

names     == <<legacy, current>>
database  == <<schema, rules>>
startVars == <<names, database, work, lost, pc, at, faults>>

StartInit ==
    /\ legacy \in [Files -> {"none", "old"}] /\ current \in [Files -> {"none", "other"}]
    /\ \A f \in Sidecars : legacy["db"] = "none" => legacy[f] = "none"
    /\ schema \in IF legacy["db"] = "none" /\ current["db"] = "none" THEN {"empty"}
                  ELSE {"v2", "v3", "v4", "foreign"}
    /\ rules = FALSE /\ work = "none" /\ lost = FALSE
    /\ pc = "off" /\ at = 0 /\ faults = 0

-----------------------------------------------------------------------------
(* The rename: application_database_path. *)

\* Variant: the database first.
MoveDatabaseFirst == <<"db", "wal", "shm">>

MoveOrder == <<"wal", "shm", "db">>

Moving == MoveOrder[at + 1]

\* Variant: a name that is taken is taken by another file.
NeverSame(f) == FALSE

\* _same_file
SameFile(f) == legacy[f] = current[f]

InTheWay(f) == legacy[f] # "none" /\ current[f] # "none" /\ ~SameFile(f)

Begin ==
    /\ pc = "off" /\ at' = 0
    /\ pc' = IF current["db"] # "none" \/ legacy["db"] = "none" THEN "open"
             ELSE IF \E f \in Sidecars : InTheWay(f) THEN "refused"
             ELSE "link"
    /\ UNCHANGED <<names, database, work, lost, faults>>

\* The next file is under its new name, and no longer under the old one.
Moved == at' = at + 1 /\ pc' = IF at' = 3 THEN "open" ELSE "link"

NothingToMove ==
    /\ pc = "link" /\ Moving \in Sidecars /\ legacy[Moving] = "none" /\ Moved
    /\ UNCHANGED <<names, database, work, lost, faults>>

Link ==
    /\ pc = "link" /\ legacy[Moving] # "none" /\ current[Moving] = "none"
    /\ current' = [current EXCEPT ![Moving] = legacy[Moving]] /\ pc' = "unlink"
    /\ UNCHANGED <<legacy, database, work, lost, at, faults>>

FileExists ==
    /\ pc = "link" /\ legacy[Moving] # "none" /\ current[Moving] # "none"
    /\ pc' = IF SameFile(Moving) THEN "unlink" ELSE "refused"
    /\ UNCHANGED <<names, database, work, lost, at, faults>>

Unlink ==
    /\ pc = "unlink" /\ legacy' = [legacy EXCEPT ![Moving] = "none"] /\ Moved
    /\ UNCHANGED <<current, database, work, lost, faults>>

-----------------------------------------------------------------------------
(* Storage.initialize. *)

Open ==
    /\ pc = "open" /\ pc' = "init"
    /\ current' = [current EXCEPT !["db"] = IF @ = "none" THEN "other" ELSE @]
    /\ lost' = \/ lost
               \/ /\ current["db"] = "old"
                  /\ legacy["wal"] = "old" /\ current["wal"] # "old"
    /\ UNCHANGED <<legacy, database, work, at, faults>>

\* executescript commits each table by itself, and the version last.
CreateTable ==
    /\ pc = "init" /\ schema = "empty" /\ schema' = "partly" /\ pc' = "create"
    /\ UNCHANGED <<names, rules, work, lost, at, faults>>

CreateRest ==
    /\ pc = "create" /\ schema' = "v4" /\ pc' = "defaults"
    /\ UNCHANGED <<names, rules, work, lost, at, faults>>

AddRegion ==
    /\ pc = "init" /\ schema = "v2" /\ work' = "v3" /\ pc' = "commit"
    /\ UNCHANGED <<names, database, lost, at, faults>>

CommitRegion ==
    /\ pc = "commit" /\ schema' = work /\ work' = "none" /\ pc' = "init"
    /\ UNCHANGED <<names, rules, lost, at, faults>>

\* The transaction stays open until the rules are in.
AddBindings ==
    /\ pc = "init" /\ schema = "v3" /\ work' = "v4" /\ pc' = "defaults"
    /\ UNCHANGED <<names, database, lost, at, faults>>

UpToDate ==
    /\ pc = "init" /\ schema = "v4" /\ pc' = "defaults"
    /\ UNCHANGED <<names, database, work, lost, at, faults>>

Incompatible ==
    /\ pc = "init" /\ schema \in {"partly", "foreign"} /\ pc' = "refused"
    /\ UNCHANGED <<names, database, work, lost, at, faults>>

AddRules ==
    /\ pc = "defaults" /\ schema' = (IF work = "none" THEN schema ELSE work) /\ work' = "none"
    /\ rules' = TRUE /\ pc' = "on"
    /\ UNCHANGED <<names, lost, at, faults>>

-----------------------------------------------------------------------------
(* Errors, crashes and restarts. *)

Fault == faults < MaxFaults /\ faults' = faults + 1

\* A link, an unlink or a statement fails; what the transaction did is rolled back.
Fails ==
    /\ pc \in {"link", "unlink", "open", "create", "commit", "defaults"} /\ Fault
    /\ work' = "none" /\ pc' = "refused"
    /\ UNCHANGED <<names, database, lost, at>>

Crash ==
    /\ pc \notin {"off", "refused"} /\ Fault
    /\ work' = "none" /\ pc' = "off"
    /\ UNCHANGED <<names, database, lost, at>>

\* The container is started again unless it was stopped (compose.yaml).
StartAgain ==
    /\ pc = "refused" /\ pc' = "off"
    /\ UNCHANGED <<names, database, work, lost, at, faults>>

Step ==
    \/ Begin \/ NothingToMove \/ Link \/ FileExists \/ Unlink
    \/ Open \/ CreateTable \/ CreateRest \/ AddRegion \/ CommitRegion \/ AddBindings \/ UpToDate
    \/ Incompatible \/ AddRules \/ StartAgain

StartNext == Step \/ Fails \/ Crash

\* The process runs, and is restarted.
StartSpec == StartInit /\ [][StartNext]_startVars /\ WF_startVars(Step)

-----------------------------------------------------------------------------
(* Properties. *)

\* The variables have their types.
StartTypeOK ==
    /\ legacy \in [Files -> {"none", "old"}] /\ current \in [Files -> {"none", "old", "other"}]
    /\ schema \in {"empty", "partly", "v2", "v3", "v4", "foreign"} /\ rules \in BOOLEAN
    /\ work \in {"none", "v3", "v4"} /\ lost \in BOOLEAN /\ at \in 0 .. 3
    /\ pc \in {"off", "link", "unlink", "open", "init", "create", "commit", "defaults", "on", "refused"}
    /\ faults \in 0 .. MaxFaults

\* The database of an earlier release is opened only with the journal it was written with,
\* wherever the rename was broken off before: what it had committed is not lost, and the
\* server serves a whole schema with its rules (application_database_path, initialize).
NothingIsLost == ~lost /\ (pc = "on" => schema = "v4" /\ work = "none" /\ rules)

\* However often a start is broken off, the server starts in the end.  Excepted are a database
\* that is not this program's, a journal of another file in the way, and a new database whose
\* creation was broken off, which is refused from then on (initialize).
StartsInTheEnd ==
    \/ []<>(pc = "on")
    \/ <>(schema = "foreign")
    \/ <>(\E f \in Sidecars : current["db"] = "none" /\ legacy[f] = "old" /\ current[f] = "other")
    \/ <>[](schema = "partly" /\ current["db"] = "other" /\ legacy["db"] = "none")
=============================================================================
