--------------------------- MODULE StorageProofs ---------------------------
(***************************************************************************)
(* Proofs about the storage.  Startup, for any number of crashes and       *)
(* errors: however often the rename is broken off, the database is never   *)
(* opened without its journal, and what is served is a whole schema.       *)
(* SpeakerBindings, for any accounts, devices, cameras and confirmations:  *)
(* what is bound, available and listed is as the last save and list say,   *)
(* and a camera loses its speaker only as confirmed.                       *)
(***************************************************************************)
EXTENDS Startup, SpeakerBindings, FiniteSetTheorems, TLAPS

(* The file: Startup. *)

\* The journal moves before the database: where the database has its new name, the journal has
\* no other, and once the rename goes on past the journal there is none under the old name.
JournalFirst ==
    /\ current["db"] = "old" /\ legacy["wal"] = "old" => current["wal"] = "old"
    /\ pc \in {"link", "unlink"} => at <= 2
    /\ pc \in {"link", "unlink"} /\ at >= 1 => legacy["wal"] = "none"

\* A transaction is open only in the steps that upgrade the schema, and upgrades it by one.
OneUpgrade ==
    /\ pc \notin {"commit", "defaults"} => work = "none"
    /\ pc = "commit" => schema = "v2" /\ work = "v3"
    /\ pc = "defaults" => \/ schema = "v4" /\ work = "none"
                          \/ schema = "v3" /\ work = "v4"

SInv == StartTypeOK /\ JournalFirst /\ OneUpgrade /\ NothingIsLost

-----------------------------------------------------------------------------
USE StartupAssumption

LEMMA InitSInv == StartInit => SInv
<1> SUFFICES ASSUME StartInit PROVE SInv
  OBVIOUS
<1>1. StartTypeOK
  <2>1. legacy \in [Files -> {"none", "old"}] /\ current \in [Files -> {"none", "old", "other"}]
    BY DEF StartInit
  <2>2. schema \in {"empty", "partly", "v2", "v3", "v4", "foreign"}
    BY DEF StartInit
  <2>3. /\ rules \in BOOLEAN /\ work \in {"none", "v3", "v4"} /\ lost \in BOOLEAN
        /\ pc \in {"off", "link", "unlink", "open", "init", "create", "commit", "defaults", "on",
                  "refused"}
    BY DEF StartInit
  <2>4. at \in 0 .. 3 /\ faults \in 0 .. MaxFaults
    BY DEF StartInit
  <2>. QED  BY <2>1, <2>2, <2>3, <2>4 DEF StartTypeOK
<1>2. JournalFirst
  BY DEF StartInit, JournalFirst, Files, Sidecars
<1>3. OneUpgrade /\ NothingIsLost
  BY DEF StartInit, OneUpgrade, NothingIsLost
<1>. QED  BY <1>1, <1>2, <1>3 DEF SInv

\* Which file is moved next.
LEMMA MovingFile ==
    ASSUME StartTypeOK, at <= 2
    PROVE  /\ Moving \in Files
           /\ Moving = "wal" <=> at = 0
           /\ Moving = "db" <=> at = 2
<1>1. at = 0 \/ at = 1 \/ at = 2
  BY DEF StartTypeOK
<1>. QED  BY <1>1 DEF Moving, MoveOrder, Files, Sidecars

\* The rename goes on with the next file.
LEMMA MovedStep ==
    ASSUME SInv, pc \in {"link", "unlink"}, Moved,
           legacy' = legacy \/ legacy' = [legacy EXCEPT ![Moving] = "none"],
           legacy'[Moving] = "none",
           UNCHANGED <<current, database, work, lost, faults>>
    PROVE  SInv'
<1> USE DEF SInv, database
<1>1. /\ at \in 0 .. 2 /\ at' = at + 1 /\ pc' = IF at' = 3 THEN "open" ELSE "link"
      /\ Moving \in Files /\ (Moving = "wal" <=> at = 0)
  BY MovingFile DEF Moved, JournalFirst, StartTypeOK
<1>2. legacy' \in [Files -> {"none", "old"}]
  BY <1>1 DEF StartTypeOK
<1>3. StartTypeOK'
  BY <1>1, <1>2 DEF StartTypeOK
<1>4. legacy["wal"] = "none" => legacy'["wal"] = "none"
  BY <1>1 DEF StartTypeOK, Files, Sidecars
<1>5. legacy'["wal"] = "none"
  BY <1>1, <1>4 DEF JournalFirst
<1>6. JournalFirst'
  BY <1>1, <1>5 DEF JournalFirst
<1>7. OneUpgrade' /\ NothingIsLost'
  BY <1>1 DEF OneUpgrade, NothingIsLost
<1>. QED  BY <1>3, <1>6, <1>7

LEMMA LinkStep ==
    ASSUME SInv, Link
    PROVE  SInv'
<1> USE DEF SInv, Link, database
<1>1. Moving \in Files /\ (Moving = "wal" <=> at = 0) /\ (Moving = "db" <=> at = 2)
  BY MovingFile DEF JournalFirst
<1>2. legacy[Moving] = "old" /\ current' = [current EXCEPT ![Moving] = "old"]
  BY <1>1 DEF StartTypeOK
<1>3. StartTypeOK'
  BY <1>1, <1>2 DEF StartTypeOK
<1>4. JournalFirst'
  <2>1. CASE at = 2
    BY <2>1, <1>1, <1>2 DEF JournalFirst, StartTypeOK
  <2>2. CASE at # 2
    <3>1. current'["db"] = current["db"] /\ (current["wal"] = "old" => current'["wal"] = "old")
      BY <2>2, <1>1, <1>2 DEF StartTypeOK, Files, Sidecars
    <3>. QED  BY <3>1 DEF JournalFirst
  <2>. QED  BY <2>1, <2>2
<1>5. OneUpgrade' /\ NothingIsLost'
  BY DEF OneUpgrade, NothingIsLost
<1>. QED  BY <1>3, <1>4, <1>5

LEMMA OpenStep ==
    ASSUME SInv, Open
    PROVE  SInv'
<1> USE DEF SInv, Open, database
<1>1. /\ "db" \in Files /\ "wal" \in Files
      /\ current' = [current EXCEPT !["db"] = IF @ = "none" THEN "other" ELSE @]
  BY DEF Files, Sidecars
<1>2. StartTypeOK'
  BY <1>1 DEF StartTypeOK
<1>3. /\ current'["wal"] = current["wal"]
      /\ current'["db"] = "old" => current["db"] = "old"
  BY <1>1 DEF StartTypeOK
<1>4. JournalFirst'
  BY <1>3 DEF JournalFirst
<1>5. lost' = FALSE
  BY DEF JournalFirst, NothingIsLost, StartTypeOK
<1>6. OneUpgrade' /\ NothingIsLost'
  BY <1>5 DEF OneUpgrade, NothingIsLost
<1>. QED  BY <1>2, <1>4, <1>6

\* Steps that leave the directory alone.
LEMMA SchemaStep ==
    ASSUME SInv,
           \/ Begin \/ FileExists
           \/ CreateTable \/ CreateRest \/ AddRegion \/ CommitRegion \/ AddBindings \/ UpToDate
           \/ Incompatible \/ AddRules \/ StartAgain \/ Fails \/ Crash
    PROVE  SInv'
<1> USE DEF SInv, Begin, FileExists, CreateTable, CreateRest, AddRegion, CommitRegion, AddBindings,
            UpToDate, Incompatible, AddRules, StartAgain, Fails, Crash, Fault, names, database
<1>1. StartTypeOK'
  <2>1. /\ legacy' \in [Files -> {"none", "old"}] /\ current' \in [Files -> {"none", "old", "other"}]
        /\ lost' \in BOOLEAN /\ at' \in 0 .. 3 /\ faults' \in 0 .. MaxFaults
    BY DEF StartTypeOK
  <2>2. /\ schema' \in {"empty", "partly", "v2", "v3", "v4", "foreign"} /\ rules' \in BOOLEAN
        /\ work' \in {"none", "v3", "v4"}
    BY DEF StartTypeOK, OneUpgrade
  <2>3. pc' \in {"off", "link", "unlink", "open", "init", "create", "commit", "defaults", "on",
                "refused"}
    BY DEF StartTypeOK
  <2>. QED  BY <2>1, <2>2, <2>3 DEF StartTypeOK
<1>2. JournalFirst'
  BY DEF JournalFirst, StartTypeOK
<1>3. OneUpgrade'
  BY DEF OneUpgrade
<1>4. NothingIsLost'
  BY DEF NothingIsLost, OneUpgrade
<1>. QED  BY <1>1, <1>2, <1>3, <1>4

LEMMA NextSInv == SInv /\ [StartNext]_startVars => SInv'
<1> SUFFICES ASSUME SInv, [StartNext]_startVars PROVE SInv'
  OBVIOUS
<1>1. CASE NothingToMove
  <2>1. legacy'[Moving] = "none" /\ pc = "link" /\ Moved
    BY <1>1 DEF NothingToMove, names
  <2>. QED  BY <1>1, <2>1, MovedStep DEF NothingToMove, names
<1>2. CASE Unlink
  <2>1. Moving \in Files
    BY <1>2, MovingFile DEF SInv, JournalFirst, Unlink
  <2>2. legacy'[Moving] = "none"
    BY <1>2, <2>1 DEF Unlink, SInv, StartTypeOK
  <2>. QED  BY <1>2, <2>2, MovedStep DEF Unlink
<1>3. CASE Link
  BY <1>3, LinkStep
<1>4. CASE Open
  BY <1>4, OpenStep
<1>5. CASE UNCHANGED startVars
  BY <1>5
     DEF startVars, names, database, SInv, StartTypeOK, JournalFirst, OneUpgrade, NothingIsLost
<1>. QED  BY <1>1, <1>2, <1>3, <1>4, <1>5, SchemaStep DEF StartNext, Step

LEMMA SInvHolds == StartSpec => []SInv
<1>. QED  BY InitSInv, NextSInv, PTL DEF StartSpec

-----------------------------------------------------------------------------
\* Every variable of the start keeps its type.
THEOREM StartTypeCorrect == StartSpec => []StartTypeOK
<1>1. SInv => StartTypeOK
  BY DEF SInv
<1>. QED  BY <1>1, SInvHolds, PTL

\* However often and wherever a start is broken off, the database of an earlier release is
\* opened with its journal, and the server serves a whole schema with its rules.
THEOREM NothingLost == StartSpec => []NothingIsLost
<1>1. SInv => NothingIsLost
  BY DEF SInv
<1>. QED  BY <1>1, SInvHolds, PTL

-----------------------------------------------------------------------------
(* The rows: SpeakerBindings. *)

\* A row that is bound has an id.
Rows == \A d \in Devices : row[d].bound => row[d].id # 0

\* An id in a row or a list has been made, and is one device's.
Uses(d, i) ==
    /\ i # 0
    /\ i \in {row[d].id, snapshot[d], choice.list[d]} \/ \E r \in refreshes : i = r.previous[d]

Made  == \A d \in Devices, i \in Ids : Uses(d, i) => i <= ids

Apart == \A d, e \in Devices, i \in Ids : Uses(d, i) /\ Uses(e, i) => d = e

\* A list and the rows agree about the ids of the devices that both have.
Agrees(list) == \A d \in Devices : list[d] # 0 /\ row[d].id # 0 => list[d] = row[d].id

Agreed == Agrees(choice.list) /\ (~restored => Agrees(snapshot))

\* A confirmation is used once.
Spent == held \cap used = {}

\* Unless an older snapshot has come back, the devices of the snapshot have been found.
Seen == ~restored => Listed(snapshot) \subseteq found

BInv ==
    /\ TypeOK /\ Rows /\ Made /\ Apart /\ Agreed /\ Spent /\ Seen
    /\ BoundAsSaved /\ AvailabilityIsCurrent
-----------------------------------------------------------------------------
USE BindingsAssumption

(* Lists of devices. *)

LEMMA SomeUnnamed ==
    ASSUME NEW seen \in SUBSET Devices, NEW S \in SUBSET Unnamed(seen)
    PROVE  /\ IsFiniteSet(S) /\ IsFiniteSet(Unnamed(seen))
           /\ Cardinality(S) \in Nat /\ Cardinality(Unnamed(seen)) \in Nat
           /\ Cardinality(S) <= Cardinality(Unnamed(seen))
<1>1. IsFiniteSet(Devices)
  BY FS_Interval DEF Devices
<1>2. Unnamed(seen) \in SUBSET Devices
  BY DEF Unnamed
<1>3. IsFiniteSet(Unnamed(seen))
  BY <1>1, <1>2, FS_Subset
<1>4. IsFiniteSet(S) /\ Cardinality(S) <= Cardinality(Unnamed(seen))
  BY <1>3, FS_Subset
<1>. QED  BY <1>3, <1>4, FS_CardinalityType

\* What _merge_candidates gives a device that no row and no snapshot names is a new id.
LEMMA NewId ==
    ASSUME TypeOK, NEW seen \in SUBSET Devices, Names(seen), NEW d \in Unnamed(seen)
    PROVE  Merge(seen)[d] \in ids + 1 .. ids'
<1> DEFINE S == {e \in Unnamed(seen) : e <= d}
<1>1. d \in Devices /\ d \in seen /\ Named(d) = 0 /\ d \in Nat
  BY DEF Unnamed, Devices
<1>2. Merge(seen)[d] = ids + Cardinality(S)
  BY <1>1 DEF Merge
<1>3. S \in SUBSET Unnamed(seen) /\ S # {}
  BY <1>1
<1>4. /\ IsFiniteSet(S) /\ Cardinality(S) \in Nat /\ Cardinality(Unnamed(seen)) \in Nat
      /\ Cardinality(S) <= Cardinality(Unnamed(seen))
  BY <1>3, SomeUnnamed
<1>5. Cardinality(S) # 0
  BY <1>3, <1>4, FS_EmptySet
<1>6. ids \in Nat /\ ids' = ids + Cardinality(Unnamed(seen))
  BY DEF TypeOK, Names
<1> HIDE DEF S
<1>. QED  BY <1>2, <1>4, <1>5, <1>6

LEMMA NewIdsDiffer ==
    ASSUME TypeOK, NEW seen \in SUBSET Devices, NEW d \in Unnamed(seen), NEW e \in Unnamed(seen),
           Merge(seen)[d] = Merge(seen)[e]
    PROVE  d = e
<1> DEFINE Upto(x) == {y \in Unnamed(seen) : y <= x}
<1>1. \A x \in Unnamed(seen) :
          /\ x \in Int /\ x \in Upto(x)
          /\ Merge(seen)[x] = ids + Cardinality(Upto(x))
  <2> SUFFICES ASSUME NEW x \in Unnamed(seen)
               PROVE  /\ x \in Int /\ x \in Upto(x)
                      /\ Merge(seen)[x] = ids + Cardinality(Upto(x))
    OBVIOUS
  <2>1. x \in Devices /\ x \in seen /\ Named(x) = 0
    BY DEF Unnamed
  <2>. QED  BY <2>1 DEF Merge, Devices
<1>2. ids \in Int
  BY DEF TypeOK
<1>3. ASSUME NEW x \in Unnamed(seen), NEW y \in Unnamed(seen), x < y,
             Merge(seen)[x] = Merge(seen)[y]
      PROVE  FALSE
  <2>1. Upto(x) \in SUBSET Unnamed(seen) /\ Upto(y) \in SUBSET Unnamed(seen)
    OBVIOUS
  <2>2. /\ IsFiniteSet(Upto(y)) /\ Cardinality(Upto(x)) \in Nat /\ Cardinality(Upto(y)) \in Nat
    BY <2>1, SomeUnnamed
  <2>3. Upto(x) \in SUBSET Upto(y)
    <3>1. \A z \in Unnamed(seen) : z \in Int
      BY <1>1
    <3>. QED  BY <3>1, <1>3
  <2>4. y \in Upto(y) /\ y \notin Upto(x)
    <3>1. x \in Int /\ y \in Int /\ y \in Upto(y)
      BY <1>1
    <3>2. ~(y <= x)
      BY <1>3, <3>1
    <3>. QED  BY <3>1, <3>2
  <2>5. Cardinality(Upto(x)) = Cardinality(Upto(y))
    <3>1. Merge(seen)[x] = ids + Cardinality(Upto(x)) /\ Merge(seen)[y] = ids + Cardinality(Upto(y))
      BY <1>1
    <3> PICK m, n \in Nat : m = Cardinality(Upto(x)) /\ n = Cardinality(Upto(y))
      BY <2>2
    <3>2. ids + m = ids + n
      BY <1>3, <3>1
    <3>3. m = n
      BY <1>2, <3>2
    <3>. QED  BY <3>3
  <2>. QED  BY <2>2, <2>3, <2>4, <2>5, FS_Subset
<1>4. d \in Int /\ e \in Int
  BY <1>1
<1>5. d < e \/ e < d \/ d = e
  BY <1>4
<1>. QED  BY <1>3, <1>5

LEMMA MergeGives ==
    ASSUME NEW seen \in SUBSET Devices, NEW d \in Devices
    PROVE  /\ d \notin seen => Merge(seen)[d] = 0
           /\ d \in seen \ Unnamed(seen) => Merge(seen)[d] = Named(d) /\ Named(d) # 0
BY DEF Merge, Unnamed

LEMMA MergeTypes ==
    ASSUME TypeOK, NEW seen \in SUBSET Devices, Names(seen)
    PROVE  /\ Merge(seen) \in [Devices -> 0 .. MaxIds]
           /\ ids \in Nat /\ ids' \in 0 .. MaxIds /\ ids <= ids'
<1>1. /\ ids \in Nat /\ ids' = ids + Cardinality(Unnamed(seen))
      /\ ids + Cardinality(Unnamed(seen)) <= MaxIds
  BY DEF TypeOK, Names
<1>2. Cardinality(Unnamed(seen)) \in Nat
  BY SomeUnnamed
<1>3. ids' \in 0 .. MaxIds /\ ids <= ids'
  BY <1>1, <1>2
<1>4. ASSUME NEW d \in Devices  PROVE Merge(seen)[d] \in 0 .. MaxIds
  <2>1. CASE d \in Unnamed(seen)
    <3>1. Merge(seen)[d] \in ids + 1 .. ids'
      BY <2>1, NewId
    <3>. QED  BY <1>1, <1>3, <3>1
  <2>2. CASE d \in seen \ Unnamed(seen)
    <3>1. Merge(seen)[d] = Named(d)
      BY <2>2, MergeGives
    <3>2. row[d].id \in 0 .. MaxIds /\ snapshot[d] \in 0 .. MaxIds
      BY DEF TypeOK
    <3>. QED  BY <3>1, <3>2 DEF Named
  <2>3. CASE d \notin seen
    BY <2>3, MergeGives
  <2>. QED  BY <2>1, <2>2, <2>3
<1>. QED  BY <1>1, <1>3, <1>4 DEF Merge

-----------------------------------------------------------------------------
(* Types. *)

Row == [id : 0 .. MaxIds, bound : BOOLEAN, available : BOOLEAN]

StorageTypes ==
    /\ row \in [Devices -> Row]
    /\ pairing \in [Cameras -> 0 .. MaxIds] /\ account \in Users \cup {None}

ListTypes ==
    /\ active \in Users \cup {None} /\ snapshot \in [Devices -> 0 .. MaxIds]
    /\ choice \in [user : Users \cup {None}, list : [Devices -> 0 .. MaxIds]]
    /\ refreshes \subseteq [call : 1 .. MaxCalls, previous : [Devices -> 0 .. MaxIds]]
    /\ ids \in 0 .. MaxIds

TicketTypes ==
    /\ tokens \in 0 .. MaxTokens /\ held \subseteq 1 .. tokens /\ used \subseteq 1 .. tokens
    /\ asked \in [Tokens -> [selected : SUBSET Ids, removed : SUBSET Ids,
                             cameras : SUBSET Cameras, age : 0 .. Ttl]]

HistoryTypes ==
    /\ found \subseteq Devices /\ kept \subseteq Devices /\ saved \subseteq Ids
    /\ restored \in BOOLEAN /\ calls \in 0 .. MaxCalls

LEMMA TypesByGroup == TypeOK <=> StorageTypes /\ ListTypes /\ TicketTypes /\ HistoryTypes
BY DEF TypeOK, StorageTypes, ListTypes, TicketTypes, HistoryTypes, Row

LEMMA RowTypes ==
    ASSUME TypeOK, NEW d \in Devices
    PROVE  /\ row[d] \in Row /\ row[d].id \in 0 .. MaxIds
           /\ row[d].bound \in BOOLEAN /\ row[d].available \in BOOLEAN
BY DEF TypeOK, Row

LEMMA CandidateTypes ==
    ASSUME TypeOK
    PROVE  /\ Candidates \in [Devices -> 0 .. MaxIds]
           /\ choice.list \in [Devices -> 0 .. MaxIds] /\ snapshot \in [Devices -> 0 .. MaxIds]
<1>1. choice.list \in [Devices -> 0 .. MaxIds] /\ snapshot \in [Devices -> 0 .. MaxIds]
  BY DEF TypeOK
<1>. QED  BY <1>1 DEF Candidates

\* Whatever is bound, selected or lost is an id.
LEMMA IdTypes ==
    ASSUME TypeOK, Rows
    PROVE  /\ Bound \subseteq Ids /\ (1 .. ids) \subseteq Ids /\ 0 \notin Bound
           /\ \A S \in SUBSET (1 .. ids) : S \subseteq Ids /\ 0 \notin S
<1>1. \A d \in Devices : row[d].bound => row[d].id \in Ids
  BY RowTypes DEF Rows, Ids
<1>2. ids \in Nat /\ ids <= MaxIds /\ MaxIds \in Nat
  BY DEF TypeOK
<1>. QED  BY <1>1, <1>2 DEF Bound, Ids

\* What a save makes of a row.
LEMMA SavedRow ==
    ASSUME TypeOK, NEW selected \in SUBSET (1 .. ids), row' = SavedRows(selected),
           NEW d \in Devices
    PROVE  /\ row'[d] \in Row
           /\ row'[d].id = IF row[d].id = 0 /\ d \in Chosen(selected)
                           THEN Candidates[d] ELSE row[d].id
           /\ row'[d].bound <=> row'[d].id \in selected
           /\ row'[d].available <=>
                  /\ d \in Chosen(selected) \/ row[d].available
                  /\ \A c \in AffectedCameras(Removed(selected)) : pairing[c] # row'[d].id
<1> DEFINE id == IF row[d].id = 0 /\ d \in Chosen(selected) THEN Candidates[d] ELSE row[d].id
           available == /\ d \in Chosen(selected) \/ row[d].available
                        /\ \A c \in AffectedCameras(Removed(selected)) : pairing[c] # id
<1>1. row'[d] = [id |-> id, bound |-> id \in selected, available |-> available]
  BY DEF SavedRows
<1>2. id \in 0 .. MaxIds
  BY RowTypes, CandidateTypes
<1>3. available \in BOOLEAN
  BY RowTypes
<1> HIDE DEF id, available
<1>4. row'[d] \in Row /\ row'[d].id = id /\ row'[d].bound = (id \in selected)
      /\ row'[d].available = available
  BY <1>1, <1>2, <1>3 DEF Row
<1>5. row'[d].bound <=> row'[d].id \in selected
  BY <1>4
<1>6. row'[d].id = IF row[d].id = 0 /\ d \in Chosen(selected) THEN Candidates[d] ELSE row[d].id
  BY <1>4 DEF id
<1>7. row'[d].available <=>
          /\ d \in Chosen(selected) \/ row[d].available
          /\ \A c \in AffectedCameras(Removed(selected)) : pairing[c] # row'[d].id
  <2>1. row'[d].id = id
    BY <1>4
  <2>. QED  BY <1>4, <2>1 DEF available
<1>. QED  BY <1>4, <1>5, <1>6, <1>7

\* What a refresh makes of it.
LEMMA MarkedRow ==
    ASSUME TypeOK, NEW seen \in SUBSET Devices, row' = MarkAvailable(seen), NEW d \in Devices
    PROVE  /\ row'[d] \in Row /\ row'[d].id = row[d].id /\ row'[d].bound = row[d].bound
           /\ row'[d].available <=> row[d].id # 0 /\ d \in seen
<1>1. row'[d] = [row[d] EXCEPT !.available = row[d].id # 0 /\ d \in seen]
  BY DEF MarkAvailable
<1>. QED  BY <1>1, RowTypes DEF Row

LEMMA RowsFunction ==
    /\ \A selected : SavedRows(selected) = [d \in Devices |-> SavedRows(selected)[d]]
    /\ \A seen : MarkAvailable(seen) = [d \in Devices |-> MarkAvailable(seen)[d]]
BY DEF SavedRows, MarkAvailable

LEMMA StorageStep ==
    ASSUME TypeOK, Rows, [Next]_vars
    PROVE  StorageTypes' /\ Rows'
<1>0. StorageTypes
  BY TypesByGroup
<1>1. ASSUME NEW r \in refreshes, NEW seen \in SUBSET Devices, Refreshed(r, seen)
      PROVE  StorageTypes' /\ Rows'
  <2>1. row' = MarkAvailable(seen) /\ UNCHANGED <<pairing, account>>
    BY <1>1 DEF Refreshed
  <2>2. \A d \in Devices : row'[d] \in Row /\ row'[d].id = row[d].id /\ row'[d].bound = row[d].bound
    BY <2>1, MarkedRow
  <2>3. row' \in [Devices -> Row]
    BY <2>1, <2>2, RowsFunction
  <2>. QED  BY <1>0, <2>1, <2>2, <2>3 DEF StorageTypes, Rows
<1>2. ASSUME NEW selected \in SUBSET (1 .. ids), NEW t \in 0 .. tokens, Save(selected, t)
      PROVE  StorageTypes' /\ Rows'
  <2>1. row' = SavedRows(selected) /\ pairing' = pairing /\ account' \in {account, choice.user}
    BY <1>2 DEF Save, Install
  <2>2. \A d \in Devices : row'[d] \in Row /\ (row'[d].bound <=> row'[d].id \in selected)
    BY <2>1, SavedRow
  <2>3. row' \in [Devices -> Row]
    BY <2>1, <2>2, RowsFunction
  <2>4. choice.user \in Users \cup {None}
    BY DEF TypeOK
  <2>5. Rows'
    BY <2>2, IdTypes DEF Rows
  <2>. QED  BY <1>0, <2>1, <2>3, <2>4, <2>5 DEF StorageTypes
<1>3. ASSUME NEW c \in Cameras, NEW id \in 1 .. ids, SetCameraSpeaker(c, id)
      PROVE  StorageTypes' /\ Rows'
  <2>1. UNCHANGED <<row, account>> /\ pairing' = [pairing EXCEPT ![c] = id]
    BY <1>3 DEF SetCameraSpeaker
  <2>2. id \in 0 .. MaxIds
    BY DEF TypeOK
  <2>. QED  BY <1>0, <2>1, <2>2 DEF StorageTypes, Rows
<1>4. CASE ClearAccount
  BY <1>0, <1>4 DEF ClearAccount, StorageTypes, Rows
<1>5. CASE UNCHANGED storage
  BY <1>0, <1>5 DEF storage, StorageTypes, Rows
<1>. QED
  BY <1>1, <1>2, <1>3, <1>4, <1>5
     DEF Next, vars, DevicesReady, AttemptOver, RefreshDevices, RefreshFails, RefreshLosesAccount,
         AskConfirmation, ConfirmationRefused, SaveFails, Tick, Restart

LEMMA ListStep ==
    ASSUME TypeOK, [Next]_vars
    PROVE  ListTypes'
<1>0. ListTypes /\ HistoryTypes /\ account \in Users \cup {None}
  BY TypesByGroup DEF StorageTypes
<1>1. ASSUME NEW r \in refreshes, NEW seen \in SUBSET Devices, Refreshed(r, seen)
      PROVE  ListTypes'
  BY <1>0, <1>1, MergeTypes DEF Refreshed, ListTypes
<1>2. ASSUME NEW seen \in SUBSET Devices, NEW u \in Users, DevicesReady(u, seen)
      PROVE  ListTypes'
  BY <1>0, <1>2, MergeTypes DEF DevicesReady, ListTypes
<1>3. ASSUME NEW selected \in SUBSET (1 .. ids), NEW t \in 0 .. tokens, Save(selected, t)
      PROVE  ListTypes'
  <2>1. UNCHANGED <<refreshes, ids>>
    BY <1>3 DEF Save
  <2>2. \/ UNCHANGED <<active, snapshot, choice>>
        \/ active' = choice.user /\ snapshot' = choice.list /\ choice' = NoChoice
    BY <1>3 DEF Save, Install
  <2>3. choice.user \in Users \cup {None} /\ choice.list \in [Devices -> 0 .. MaxIds]
    BY <1>0 DEF ListTypes
  <2>. QED  BY <1>0, <2>1, <2>2, <2>3 DEF NoChoice, Nothing, ListTypes
<1>4. CASE RefreshDevices
  <2>1. calls' \in 1 .. MaxCalls
    BY <1>0, <1>4 DEF RefreshDevices, Call, HistoryTypes
  <2>. QED  BY <1>0, <1>4, <2>1 DEF RefreshDevices, ListTypes
<1>8. /\ Nothing \in [Devices -> 0 .. MaxIds]
      /\ NoChoice \in [user : Users \cup {None}, list : [Devices -> 0 .. MaxIds]]
      /\ \A r \in refreshes : r.previous \in [Devices -> 0 .. MaxIds]
  BY <1>0 DEF Nothing, NoChoice, ListTypes
<1>5. ASSUME NEW r \in refreshes, RefreshFails(r) \/ RefreshLosesAccount(r)  PROVE ListTypes'
  BY <1>0, <1>5, <1>8 DEF RefreshFails, RefreshLosesAccount, ListTypes
<1>9. CASE AttemptOver
  BY <1>0, <1>8, <1>9 DEF AttemptOver, ListTypes
<1>6. CASE Restart
  BY <1>0, <1>6, <1>8 DEF Restart, ListTypes
<1>7. CASE UNCHANGED lists
  BY <1>0, <1>7 DEF lists, ListTypes
<1>. QED
  BY <1>1, <1>2, <1>3, <1>4, <1>5, <1>6, <1>7, <1>9
     DEF Next, vars, AskConfirmation, ConfirmationRefused, SaveFails, SetCameraSpeaker,
         ClearAccount, Tick

\* A confirmation that is looked for is an unexpired one, and none is kept that is not.
LEMMA Fewer ==
    ASSUME TypeOK
    PROVE  Unexpired \subseteq held /\ \A t : Consumed(t) \subseteq held
BY DEF Unexpired, Consumed

LEMMA TicketStep ==
    ASSUME TypeOK, Rows, [Next]_vars
    PROVE  TicketTypes'
<1>0. TicketTypes /\ tokens \in Nat /\ MaxTokens \in Nat
  BY TypesByGroup DEF TicketTypes
<1>1. ASSUME NEW selected \in SUBSET (1 .. ids), NEW t \in 0 .. tokens, Save(selected, t)
      PROVE  TicketTypes'
  <2>1. /\ UNCHANGED <<asked, tokens>> /\ held' \subseteq held
        /\ used' = used \/ (t \in held /\ used' = used \cup {t})
    BY <1>1, Fewer DEF Save
  <2>. QED  BY <1>0, <2>1 DEF TicketTypes
<1>2. ASSUME NEW selected \in SUBSET (1 .. ids), NEW t \in 1 .. tokens,
             SaveFails(selected, t) \/ ConfirmationRefused(selected, t)
      PROVE  TicketTypes'
  <2>1. UNCHANGED <<asked, tokens, used>> /\ held' \subseteq held
    BY <1>2, Fewer DEF SaveFails, ConfirmationRefused, history
  <2>. QED  BY <1>0, <2>1 DEF TicketTypes
<1>3. ASSUME NEW selected \in SUBSET (1 .. ids), AskConfirmation(selected)
      PROVE  TicketTypes'
  <2>1. used' = used
    BY <1>3 DEF AskConfirmation, history
  <2>2. CASE held' = Unexpired /\ UNCHANGED <<asked, tokens>>
    BY <1>0, <2>1, <2>2, Fewer DEF TicketTypes
  <2>3. CASE /\ tokens < MaxTokens /\ tokens' = tokens + 1
             /\ held' = Unexpired \cup {tokens'}
             /\ asked' = [asked EXCEPT ![tokens'] = Request(selected)]
    <3>1. selected \subseteq Ids /\ Bound \subseteq Ids
      BY IdTypes
    <3>2. Request(selected) \in [selected : SUBSET Ids, removed : SUBSET Ids,
                                 cameras : SUBSET Cameras, age : 0 .. Ttl]
      BY <3>1 DEF Request, Removed, AffectedCameras
    <3>3. asked' \in [Tokens -> [selected : SUBSET Ids, removed : SUBSET Ids,
                                 cameras : SUBSET Cameras, age : 0 .. Ttl]]
      BY <1>0, <2>3, <3>2 DEF TicketTypes
    <3>4. tokens' \in 0 .. MaxTokens /\ \A n \in 1 .. tokens : n \in 1 .. tokens'
      BY <1>0, <2>3
    <3>5. tokens' \in 1 .. tokens' /\ held' \subseteq held \cup {tokens'}
      BY <1>0, <2>3, Fewer
    <3>. QED  BY <1>0, <2>1, <3>3, <3>4, <3>5 DEF TicketTypes
  <2>. QED  BY <1>3, <2>2, <2>3 DEF AskConfirmation
<1>4. CASE Tick
  <2>1. UNCHANGED <<held, tokens, used>>
    BY <1>4 DEF Tick, history
  <2>2. ASSUME NEW t \in Tokens
        PROVE  asked'[t] \in [selected : SUBSET Ids, removed : SUBSET Ids,
                              cameras : SUBSET Cameras, age : 0 .. Ttl]
    <3>1. /\ asked[t] \in [selected : SUBSET Ids, removed : SUBSET Ids,
                           cameras : SUBSET Cameras, age : 0 .. Ttl]
          /\ asked[t].age \in 0 .. Ttl
      BY <1>0 DEF TicketTypes
    <3>2. asked'[t] = IF t \in held /\ asked[t].age < Ttl
                      THEN [asked[t] EXCEPT !.age = @ + 1] ELSE asked[t]
      BY <1>4 DEF Tick
    <3>3. asked[t].age < Ttl => asked[t].age + 1 \in 0 .. Ttl
      BY <3>1
    <3>. QED  BY <3>1, <3>2, <3>3
  <2>3. asked' = [t \in Tokens |-> asked'[t]]
    BY <1>4 DEF Tick
  <2>4. asked' \in [Tokens -> [selected : SUBSET Ids, removed : SUBSET Ids,
                               cameras : SUBSET Cameras, age : 0 .. Ttl]]
    BY <2>2, <2>3
  <2>. QED  BY <1>0, <2>1, <2>4 DEF TicketTypes
<1>5. CASE UNCHANGED <<asked, tokens, used>> /\ held' \in {held, {}}
  BY <1>0, <1>5 DEF TicketTypes
<1>. QED
  BY <1>1, <1>2, <1>3, <1>4, <1>5
     DEF Next, vars, Refreshed, DevicesReady, AttemptOver, RefreshDevices, RefreshFails,
         RefreshLosesAccount, SetCameraSpeaker, ClearAccount, Restart, tickets, history

LEMMA HistoryStep ==
    ASSUME TypeOK, Rows, [Next]_vars
    PROVE  HistoryTypes'
<1>0. /\ HistoryTypes /\ MaxCalls \in Nat
      /\ \A d \in Devices : snapshot[d] \in 0 .. MaxIds
  BY TypesByGroup DEF ListTypes
<1>1. calls' \in 0 .. MaxCalls
  <2>1. Call \/ calls' = calls
    BY DEF Next, vars, Refreshed, DevicesReady, AttemptOver, RefreshDevices, RefreshFails, Save,
           RefreshLosesAccount, SetCameraSpeaker, ClearAccount, Restart, AskConfirmation,
           SaveFails, ConfirmationRefused, Tick, history
  <2>. QED  BY <1>0, <2>1 DEF HistoryTypes, Call
<1>2. ASSUME NEW r \in refreshes, NEW seen \in SUBSET Devices, Refreshed(r, seen)
      PROVE  HistoryTypes'
  BY <1>0, <1>1, <1>2 DEF Refreshed, HistoryTypes
<1>3. ASSUME NEW selected \in SUBSET (1 .. ids), NEW t \in 0 .. tokens, Save(selected, t)
      PROVE  HistoryTypes'
  <2>1. saved' \subseteq Ids
    BY <1>3, IdTypes DEF Save
  <2>2. found' \subseteq Devices /\ kept' \subseteq Devices /\ restored' \in BOOLEAN
    <3>1. CASE ~Choosing
      BY <1>0, <1>3, <3>1 DEF Save, Install, Chosen, HistoryTypes
    <3>2. CASE Choosing
      BY <1>0, <1>3, <3>2 DEF Save, Install, Listed, HistoryTypes
    <3>. QED  BY <3>1, <3>2
  <2>. QED  BY <1>1, <2>1, <2>2 DEF HistoryTypes
<1>4. ASSUME NEW r \in refreshes, RefreshFails(r)  PROVE HistoryTypes'
  <2>1. restored' \in BOOLEAN
    BY <1>0, <1>4 DEF RefreshFails, HistoryTypes
  <2>. QED  BY <1>0, <1>1, <1>4, <2>1 DEF RefreshFails, HistoryTypes
<1>5. CASE UNCHANGED <<found, kept, saved>> /\ restored' \in {restored, FALSE}
  BY <1>0, <1>1, <1>5 DEF HistoryTypes
<1>. QED
  BY <1>2, <1>3, <1>4, <1>5
     DEF Next, vars, DevicesReady, AttemptOver, RefreshDevices, RefreshLosesAccount,
         AskConfirmation, ConfirmationRefused, SaveFails, SetCameraSpeaker, ClearAccount, Tick,
         Restart, history

LEMMA InitTypes == Init => TypeOK /\ Rows
<1> SUFFICES ASSUME Init PROVE TypeOK /\ Rows
  OBVIOUS
<1>1. StorageTypes /\ Rows
  BY DEF Init, NoRow, StorageTypes, Row, Rows
<1>2. ListTypes
  BY DEF Init, NoChoice, Nothing, ListTypes
<1>3. TicketTypes
  BY DEF Init, NotAsked, TicketTypes
<1>4. HistoryTypes
  <2>1. restored \in BOOLEAN
    BY DEF Init
  <2>2. found = {} /\ kept = {} /\ saved = {} /\ calls \in 0 .. MaxCalls
    BY DEF Init
  <2>. QED  BY <2>1, <2>2 DEF HistoryTypes
<1>. QED  BY <1>1, <1>2, <1>3, <1>4, TypesByGroup

LEMMA NextTypes ==
    ASSUME TypeOK, Rows, [Next]_vars
    PROVE  TypeOK' /\ Rows'
<1>1. StorageTypes' /\ ListTypes' /\ TicketTypes' /\ HistoryTypes' /\ Rows'
  BY StorageStep, ListStep, TicketStep, HistoryStep
<1>. QED  BY <1>1 DEF TypeOK, StorageTypes, ListTypes, TicketTypes, HistoryTypes, Row

-----------------------------------------------------------------------------
(* Whose an id is, and how rows and lists agree. *)

LEMMA MergeAgrees ==
    ASSUME NEW seen \in SUBSET Devices, NEW d \in Devices
    PROVE  /\ Merge(seen)[d] # 0 /\ row[d].id # 0 => Merge(seen)[d] = row[d].id
           /\ Merge(seen)[d] # 0 => d \in seen
<1>1. d \in seen /\ row[d].id # 0 => d \notin Unnamed(seen) /\ Named(d) = row[d].id
  BY DEF Unnamed, Named
<1>. QED  BY <1>1, MergeGives

\* A device that is listed has the id it had, or a new one.
LEMMA MergeUses ==
    ASSUME NEW seen \in SUBSET Devices, NEW d \in Devices
    PROVE  \/ Merge(seen)[d] \in {0, row[d].id, snapshot[d]}
           \/ d \in Unnamed(seen)
<1>1. d \in seen \ Unnamed(seen) => Merge(seen)[d] \in {row[d].id, snapshot[d]}
  BY MergeGives DEF Named
<1>. QED  BY <1>1, MergeGives

\* A save writes the id of the candidate where the device has no row yet.
LEMMA SaveLists ==
    ASSUME TypeOK, NEW selected \in SUBSET (1 .. ids), NEW t \in 0 .. tokens, Save(selected, t)
    PROVE  /\ \A d \in Devices : row'[d].id = IF row[d].id = 0 /\ d \in Chosen(selected)
                                              THEN Candidates[d] ELSE row[d].id
           /\ UNCHANGED <<refreshes, ids>>
           /\ \/ ~Choosing /\ Candidates = snapshot /\ UNCHANGED <<snapshot, choice, restored>>
              \/ /\ Choosing /\ Candidates = choice.list
                 /\ snapshot' = choice.list /\ choice' = NoChoice /\ restored' = FALSE
<1>1. row' = SavedRows(selected) /\ UNCHANGED <<refreshes, ids>> /\ Install
  BY DEF Save
<1>2. \A d \in Devices : row'[d].id = IF row[d].id = 0 /\ d \in Chosen(selected)
                                      THEN Candidates[d] ELSE row[d].id
  BY <1>1, SavedRow
<1>3. CASE ~Choosing
  BY <1>1, <1>2, <1>3 DEF Install, Candidates
<1>4. CASE Choosing
  BY <1>1, <1>2, <1>4 DEF Install, Candidates
<1>. QED  BY <1>3, <1>4

Known(d) ==
    {0, row[d].id, snapshot[d], choice.list[d]} \cup {r.previous[d] : r \in refreshes}

LEMMA UsesKnown == \A d, i : Uses(d, i) <=> i # 0 /\ i \in Known(d)
BY DEF Uses, Known

\* A step gives no device an id of another: it keeps those it knows, or names some anew.
LEMMA KnownForms ==
    ASSUME TypeOK, [Next]_vars
    PROVE  \/ \E seen \in SUBSET Devices :
                /\ Names(seen)
                /\ \A d \in Devices : \/ Known(d)' \subseteq Known(d)
                                      \/ /\ d \in Unnamed(seen)
                                         /\ Known(d)' \subseteq Known(d) \cup {Merge(seen)[d]}
           \/ ids' = ids /\ \A d \in Devices : Known(d)' \subseteq Known(d)
<1> DEFINE Renames(seen) == \A d \in Devices :
               \/ Known(d)' \subseteq Known(d)
               \/ d \in Unnamed(seen) /\ Known(d)' \subseteq Known(d) \cup {Merge(seen)[d]}
<1>0. \A d \in Devices : NoChoice.list[d] = 0 /\ Nothing[d] = 0
  BY DEF NoChoice, Nothing
<1>1. ASSUME NEW r \in refreshes, NEW seen \in SUBSET Devices, Refreshed(r, seen)
      PROVE  Names(seen) /\ Renames(seen)
  <2>1. /\ Names(seen) /\ row' = MarkAvailable(seen) /\ snapshot' = Merge(seen)
        /\ refreshes' \subseteq refreshes /\ choice' = choice
    BY <1>1 DEF Refreshed
  <2>2. ASSUME NEW d \in Devices  PROVE Known(d)' \subseteq Known(d) \cup {Merge(seen)[d]}
    <3>1. row'[d].id = row[d].id
      BY <2>1, MarkedRow
    <3>. QED  BY <1>0, <2>1, <3>1 DEF Known
  <2>3. ASSUME NEW d \in Devices, d \notin Unnamed(seen)  PROVE Merge(seen)[d] \in Known(d)
    BY <2>3, MergeUses DEF Known
  <2>. QED  BY <2>1, <2>2, <2>3
<1>2. ASSUME NEW seen \in SUBSET Devices, NEW u \in Users, DevicesReady(u, seen)
      PROVE  Names(seen) /\ Renames(seen)
  <2>1. /\ Names(seen) /\ choice' = [user |-> u, list |-> Merge(seen)]
        /\ UNCHANGED <<row, snapshot, refreshes>>
    BY <1>2 DEF DevicesReady, storage
  <2>2. ASSUME NEW d \in Devices  PROVE Known(d)' \subseteq Known(d) \cup {Merge(seen)[d]}
    <3>1. choice'.list[d] = Merge(seen)[d]
      BY <2>1
    <3>. QED  BY <2>1, <3>1 DEF Known
  <2>3. ASSUME NEW d \in Devices, d \notin Unnamed(seen)  PROVE Merge(seen)[d] \in Known(d)
    BY <2>3, MergeUses DEF Known
  <2>. QED  BY <2>1, <2>2, <2>3
<1>3. ASSUME NEW selected \in SUBSET (1 .. ids), NEW t \in 0 .. tokens, Save(selected, t)
      PROVE  ids' = ids /\ \A d \in Devices : Known(d)' \subseteq Known(d)
  <2>1. ASSUME NEW d \in Devices  PROVE Known(d)' \subseteq Known(d)
    <3>1. row'[d].id \in {row[d].id, Candidates[d]} /\ refreshes' = refreshes
      BY <1>3, SaveLists
    <3>2. CASE Candidates = snapshot /\ UNCHANGED <<snapshot, choice>>
      BY <3>1, <3>2 DEF Known
    <3>3. CASE Candidates = choice.list /\ snapshot' = choice.list /\ choice' = NoChoice
      BY <1>0, <3>1, <3>3 DEF Known
    <3>. QED  BY <1>3, <3>2, <3>3, SaveLists
  <2>. QED  BY <1>3, <2>1, SaveLists
<1>4. CASE AttemptOver \/ RefreshDevices
  BY <1>0, <1>4 DEF AttemptOver, RefreshDevices, storage, Known
<1>7. ASSUME NEW r \in refreshes, RefreshFails(r) \/ RefreshLosesAccount(r)
      PROVE  ids' = ids /\ \A d \in Devices : Known(d)' \subseteq Known(d)
  BY <1>7 DEF RefreshFails, RefreshLosesAccount, storage, Known
<1>5. CASE Restart
  BY <1>0, <1>5 DEF Restart, storage, Known
<1>6. CASE UNCHANGED <<row, lists>>
  BY <1>6 DEF lists, Known
<1>. QED
  BY <1>1, <1>2, <1>3, <1>4, <1>5, <1>6, <1>7
     DEF Next, vars, storage, AskConfirmation, ConfirmationRefused, SaveFails, SetCameraSpeaker,
         ClearAccount, Tick

LEMMA NextIds ==
    ASSUME TypeOK, Made, Apart, [Next]_vars
    PROVE  Made' /\ Apart'
<1>0. ids \in Nat /\ Ids \subseteq Nat
  BY DEF TypeOK, Ids
<1>1. ASSUME ids' = ids, \A d \in Devices : Known(d)' \subseteq Known(d)
      PROVE  Made' /\ Apart'
  <2>1. \A d \in Devices, i \in Ids : Uses(d, i)' => Uses(d, i)
    BY <1>1 DEF Uses, Known
  <2>. QED  BY <1>1, <2>1 DEF Made, Apart
<1>2. ASSUME NEW seen \in SUBSET Devices, Names(seen),
             \A d \in Devices : \/ Known(d)' \subseteq Known(d)
                                \/ /\ d \in Unnamed(seen)
                                   /\ Known(d)' \subseteq Known(d) \cup {Merge(seen)[d]}
      PROVE  Made' /\ Apart'
  <2>1. \A d \in Devices, i \in Ids :
            Uses(d, i)' => Uses(d, i) \/ (d \in Unnamed(seen) /\ i = Merge(seen)[d])
    <3>1. \A d \in Devices, i \in Ids : Uses(d, i)' => i # 0 /\ i \in Known(d)'
      BY DEF Uses, Known
    <3>. QED  BY <1>2, <3>1, UsesKnown
  <2>2. ids <= ids' /\ ids' \in Nat
    BY <1>2, MergeTypes
  <2>3. \A d \in Unnamed(seen) : Merge(seen)[d] \in ids + 1 .. ids'
    BY <1>2, NewId
  <2>4. Made'
    <3> SUFFICES ASSUME NEW d \in Devices, NEW i \in Ids, Uses(d, i)'  PROVE i <= ids'
      BY DEF Made
    <3>1. CASE Uses(d, i)
      BY <1>0, <2>2, <3>1 DEF Made
    <3>2. CASE d \in Unnamed(seen) /\ i = Merge(seen)[d]
      BY <1>0, <2>2, <2>3, <3>2
    <3>. QED  BY <2>1, <3>1, <3>2
  <2>5. Apart'
    <3> SUFFICES ASSUME NEW d \in Devices, NEW e \in Devices, NEW i \in Ids,
                        Uses(d, i)', Uses(e, i)'
                 PROVE  d = e
      BY DEF Apart
    <3>1. ASSUME NEW x \in Devices, Uses(x, i), NEW y \in Unnamed(seen), i = Merge(seen)[y]
          PROVE  FALSE
      <4>1. i <= ids
        BY <3>1 DEF Made
      <4>2. i \in ids + 1 .. ids'
        BY <2>3, <3>1
      <4>. QED  BY <1>0, <2>2, <4>1, <4>2
    <3>2. CASE Uses(d, i) /\ Uses(e, i)
      BY <3>2 DEF Apart
    <3>3. CASE /\ d \in Unnamed(seen) /\ i = Merge(seen)[d]
               /\ e \in Unnamed(seen) /\ i = Merge(seen)[e]
      BY <3>3, NewIdsDiffer
    <3>. QED  BY <2>1, <3>1, <3>2, <3>3
  <2>. QED  BY <2>4, <2>5
<1>. QED  BY <1>1, <1>2, KnownForms

LEMMA NextAgreed ==
    ASSUME TypeOK, Agreed, [Next]_vars
    PROVE  Agreed'
<1>0. Agrees(NoChoice.list) /\ Agrees(Nothing) /\ \A d \in Devices : NoChoice.list[d] = 0
  BY DEF Agrees, NoChoice, Nothing
<1>1. ASSUME NEW r \in refreshes, NEW seen \in SUBSET Devices, Refreshed(r, seen)
      PROVE  Agreed'
  <2>1. /\ row' = MarkAvailable(seen) /\ snapshot' = Merge(seen) /\ choice' = choice
    BY <1>1 DEF Refreshed
  <2>2. \A d \in Devices : row'[d].id = row[d].id
    BY <2>1, MarkedRow
  <2>. QED  BY <2>1, <2>2, MergeAgrees DEF Agreed, Agrees
<1>2. ASSUME NEW seen \in SUBSET Devices, NEW u \in Users, DevicesReady(u, seen)
      PROVE  Agreed'
  <2>1. choice'.list = Merge(seen) /\ UNCHANGED <<row, snapshot, restored>>
    BY <1>2 DEF DevicesReady, storage
  <2>. QED  BY <2>1, MergeAgrees DEF Agreed, Agrees
<1>3. ASSUME NEW selected \in SUBSET (1 .. ids), NEW t \in 0 .. tokens, Save(selected, t)
      PROVE  Agreed'
  <2>1. \A d \in Devices : row'[d].id \in {row[d].id, Candidates[d]}
                           /\ (row[d].id # 0 => row'[d].id = row[d].id)
    BY <1>3, SaveLists
  <2>2. CASE ~Choosing /\ Candidates = snapshot /\ UNCHANGED <<snapshot, choice, restored>>
    <3>1. Agrees(choice.list)'
      BY <1>0, <2>2 DEF Choosing, Agrees
    <3>2. ~restored => Agrees(snapshot)'
      BY <2>1, <2>2 DEF Agreed, Agrees
    <3>. QED  BY <2>2, <3>1, <3>2 DEF Agreed
  <2>3. CASE Candidates = choice.list /\ snapshot' = choice.list /\ choice' = NoChoice
    <3>1. Agrees(choice.list)'
      BY <1>0, <2>3 DEF Agrees
    <3>2. Agrees(snapshot)'
      BY <2>1, <2>3 DEF Agreed, Agrees
    <3>. QED  BY <3>1, <3>2 DEF Agreed
  <2>. QED  BY <1>3, <2>2, <2>3, SaveLists
<1>4. CASE AttemptOver
  BY <1>0, <1>4 DEF AttemptOver, storage, history, Agreed, Agrees
<1>5. ASSUME NEW r \in refreshes, RefreshFails(r)  PROVE Agreed'
  <2>1. UNCHANGED <<row, choice>> /\ (~restored' => ~restored /\ snapshot' = snapshot)
    BY <1>5 DEF RefreshFails, storage
  <2>. QED  BY <2>1 DEF Agreed, Agrees
<1>6. CASE Restart
  BY <1>0, <1>6 DEF Restart, storage, Agreed, Agrees, Nothing
<1>7. CASE UNCHANGED <<row, snapshot, choice, restored>>
  BY <1>7 DEF Agreed, Agrees
<1>. QED
  BY <1>1, <1>2, <1>3, <1>4, <1>5, <1>6, <1>7
     DEF Next, vars, storage, lists, history, RefreshDevices, RefreshLosesAccount,
         AskConfirmation, ConfirmationRefused, SaveFails, SetCameraSpeaker, ClearAccount, Tick

-----------------------------------------------------------------------------
(* What a save binds. *)

\* Where a row already is, its id is among the chosen ones only if its device is chosen.
LEMMA ChosenIds ==
    ASSUME TypeOK, Rows, Apart,
           NEW selected \in SUBSET (1 .. ids), NEW t \in 0 .. tokens, Save(selected, t),
           NEW d \in Devices, row'[d].id \in selected, ~row[d].bound
    PROVE  d \in Chosen(selected)
<1>1. /\ row'[d].id = IF row[d].id = 0 /\ d \in Chosen(selected) THEN Candidates[d] ELSE row[d].id
      /\ 0 \notin selected /\ selected \subseteq Ids
  BY SaveLists, IdTypes
<1>2. selected \subseteq Selectable /\ IdentityHolds(selected)
  BY DEF Save, Accepted
<1>3. CASE row[d].id = 0
  BY <1>1, <1>3
<1>4. CASE row[d].id # 0
  <2> PICK i : i = row[d].id
    OBVIOUS
  <2>1. i \in selected /\ i # 0 /\ i \in Ids
    BY <1>1, <1>4
  <2>2. CASE \E e \in Devices : Candidates[e] = i
    <3>1. PICK e \in Devices : Candidates[e] = i
      BY <2>2
    <3>2. e \in Chosen(selected)
      BY <2>1, <3>1 DEF Chosen
    <3>3. e = d
      BY <1>2, <1>4, <3>1, <3>2 DEF IdentityHolds
    <3>. QED  BY <3>2, <3>3
  <2>3. CASE i \in Bound
    <3>1. PICK e \in Devices : row[e].bound /\ row[e].id = i
      BY <2>3 DEF Bound
    <3>2. Uses(d, i) /\ Uses(e, i)
      BY <2>1, <3>1 DEF Uses
    <3>. QED  BY <2>1, <3>1, <3>2 DEF Apart
  <2>4. i \in {Candidates[e] : e \in Devices} \/ i \in Bound
    BY <1>2, <2>1 DEF Selectable
  <2>. QED  BY <2>2, <2>3, <2>4
<1>. QED  BY <1>3, <1>4

\* After a save the bound speakers are those selected, whatever was bound before.
LEMMA SaveBinds ==
    ASSUME TypeOK, Rows,
           NEW selected \in SUBSET (1 .. ids), NEW t \in 0 .. tokens, Save(selected, t)
    PROVE  Bound' = selected
<1>1. /\ \A d \in Devices : row'[d].id = IF row[d].id = 0 /\ d \in Chosen(selected)
                                         THEN Candidates[d] ELSE row[d].id
      /\ 0 \notin selected
  BY SaveLists, IdTypes
<1>2. row' = SavedRows(selected) /\ selected \subseteq Selectable /\ IdentityHolds(selected)
  BY DEF Save, Accepted
<1>3. \A d \in Devices : row'[d].bound <=> row'[d].id \in selected
  BY <1>2, SavedRow
<1>4. ASSUME NEW i \in selected  PROVE \E d \in Devices : row'[d].id = i
  <2>1. CASE \E d \in Devices : Candidates[d] = i
    <3>1. PICK d \in Devices : Candidates[d] = i
      BY <2>1
    <3>2. d \in Chosen(selected)
      BY <3>1 DEF Chosen
    <3>3. row[d].id # 0 => row[d].id = i
      BY <1>2, <3>1, <3>2 DEF IdentityHolds
    <3>. QED  BY <1>1, <3>1, <3>2, <3>3
  <2>2. CASE i \in Bound
    <3>1. PICK d \in Devices : row[d].bound /\ row[d].id = i
      BY <2>2 DEF Bound
    <3>2. row[d].id # 0
      BY <3>1 DEF Rows
    <3>. QED  BY <1>1, <3>1, <3>2
  <2>3. i \in {Candidates[d] : d \in Devices} \/ i \in Bound
    BY <1>2 DEF Selectable
  <2>. QED  BY <2>1, <2>2, <2>3
<1>5. Bound' = {row'[d].id : d \in {e \in Devices : row'[e].bound}}
  BY DEF Bound
<1>6. Bound' \subseteq selected
  BY <1>3, <1>5
<1>7. ASSUME NEW i \in selected  PROVE i \in Bound'
  <2>1. PICK d \in Devices : row'[d].id = i
    BY <1>4
  <2>. QED  BY <1>3, <1>5, <2>1
<1>. QED  BY <1>6, <1>7

\* Only a save binds and unbinds.
LEMMA OnlySaveBinds ==
    ASSUME TypeOK, [Next]_vars
    PROVE  \/ \E selected \in SUBSET (1 .. ids), t \in 0 .. tokens : Save(selected, t)
           \/ /\ \A d \in Devices : row'[d].id = row[d].id /\ row'[d].bound = row[d].bound
              /\ Bound' = Bound /\ saved' = saved
<1>1. ASSUME NEW r \in refreshes, NEW seen \in SUBSET Devices, Refreshed(r, seen)
      PROVE  /\ \A d \in Devices : row'[d].id = row[d].id /\ row'[d].bound = row[d].bound
             /\ saved' = saved
  <2>1. row' = MarkAvailable(seen) /\ saved' = saved
    BY <1>1 DEF Refreshed
  <2>. QED  BY <2>1, MarkedRow
<1>2. ASSUME \A d \in Devices : row'[d].id = row[d].id /\ row'[d].bound = row[d].bound
      PROVE  Bound' = Bound
  BY <1>2 DEF Bound
<1>3. CASE UNCHANGED <<row, saved>>
  BY <1>2, <1>3
<1>. QED
  BY <1>1, <1>2, <1>3
     DEF Next, vars, storage, history, DevicesReady, AttemptOver, RefreshDevices, RefreshFails,
         RefreshLosesAccount, AskConfirmation, ConfirmationRefused, SaveFails, SetCameraSpeaker,
         ClearAccount, Tick, Restart

LEMMA NextSpent ==
    ASSUME TypeOK, Spent, [Next]_vars
    PROVE  Spent'
<1>0. used \subseteq 1 .. tokens /\ tokens \in Nat /\ Unexpired \subseteq held
  BY Fewer DEF TypeOK
<1>1. ASSUME NEW selected \in SUBSET (1 .. ids), NEW t \in 0 .. tokens, Save(selected, t)
      PROVE  Spent'
  <2>1. held' = Unexpired \ {t} /\ used' \subseteq used \cup {t}
    BY <1>1 DEF Save, Consumed
  <2>. QED  BY <1>0, <2>1 DEF Spent
<1>2. ASSUME NEW selected \in SUBSET (1 .. ids), AskConfirmation(selected)
      PROVE  Spent'
  <2>1. used' = used /\ (held' = Unexpired \/ held' = Unexpired \cup {tokens + 1})
    BY <1>2 DEF AskConfirmation, history
  <2>2. tokens + 1 \notin used
    BY <1>0
  <2>. QED  BY <1>0, <2>1, <2>2 DEF Spent
<1>3. ASSUME NEW selected \in SUBSET (1 .. ids), NEW t \in 1 .. tokens,
             SaveFails(selected, t) \/ ConfirmationRefused(selected, t)
      PROVE  Spent'
  <2>1. held' \subseteq held /\ used' = used
    BY <1>3, Fewer DEF SaveFails, ConfirmationRefused, history
  <2>. QED  BY <2>1 DEF Spent
<1>4. CASE used' = used /\ held' \in {held, {}}
  BY <1>4 DEF Spent
<1>. QED
  BY <1>1, <1>2, <1>3, <1>4
     DEF Next, vars, tickets, history, Refreshed, DevicesReady, AttemptOver, RefreshDevices,
         RefreshFails, RefreshLosesAccount, SetCameraSpeaker, ClearAccount, Tick, Restart

LEMMA NextSeen ==
    ASSUME TypeOK, Seen, [Next]_vars
    PROVE  Seen'
<1>1. ASSUME NEW r \in refreshes, NEW seen \in SUBSET Devices, Refreshed(r, seen)
      PROVE  Seen'
  <2>1. snapshot' = Merge(seen) /\ found' = seen
    BY <1>1 DEF Refreshed
  <2>. QED  BY <2>1, MergeAgrees DEF Seen, Listed
<1>2. ASSUME NEW selected \in SUBSET (1 .. ids), NEW t \in 0 .. tokens, Save(selected, t)
      PROVE  Seen'
  <2>1. \/ UNCHANGED <<snapshot, found, restored>>
        \/ snapshot' = choice.list /\ found' = Listed(choice.list)
    BY <1>2 DEF Save, Install
  <2>. QED  BY <2>1 DEF Seen, Listed
<1>3. ASSUME NEW r \in refreshes, RefreshFails(r)  PROVE Seen'
  <2>1. found' = found /\ (~restored' => ~restored /\ snapshot' = snapshot)
    BY <1>3 DEF RefreshFails
  <2>. QED  BY <2>1 DEF Seen, Listed
<1>4. CASE Restart
  <2>1. Listed(snapshot)' = {}
    BY <1>4 DEF Restart, Listed, Nothing
  <2>. QED  BY <2>1 DEF Seen
<1>5. CASE UNCHANGED <<snapshot, found, restored>>
  BY <1>5 DEF Seen, Listed
<1>. QED
  BY <1>1, <1>2, <1>3, <1>4, <1>5
     DEF Next, vars, lists, history, DevicesReady, AttemptOver, RefreshDevices,
         RefreshLosesAccount, AskConfirmation, ConfirmationRefused, SaveFails, SetCameraSpeaker,
         ClearAccount, Tick

LEMMA NextBound ==
    ASSUME TypeOK, Rows, BoundAsSaved, [Next]_vars
    PROVE  BoundAsSaved'
<1>1. ASSUME NEW selected \in SUBSET (1 .. ids), NEW t \in 0 .. tokens, Save(selected, t)
      PROVE  BoundAsSaved'
  <2>1. saved' = selected
    BY <1>1 DEF Save
  <2>. QED  BY <1>1, <2>1, SaveBinds DEF BoundAsSaved
<1>. QED  BY <1>1, OnlySaveBinds DEF BoundAsSaved

-----------------------------------------------------------------------------
(* Who is available. *)

\* A save does not touch whether a selected speaker is available, unless it was chosen from the
\* list, which it then is.
LEMMA SaveOffers ==
    ASSUME TypeOK, NEW selected \in SUBSET (1 .. ids), row' = SavedRows(selected),
           NEW d \in Devices, row'[d].bound
    PROVE  /\ row'[d].id \in selected
           /\ row'[d].available <=> d \in Chosen(selected) \/ row[d].available
<1>1. row'[d].id \in selected
  BY SavedRow
<1>2. \A c \in AffectedCameras(Removed(selected)) : pairing[c] # row'[d].id
  BY <1>1 DEF AffectedCameras, Removed
<1>. QED  BY <1>1, <1>2, SavedRow

LEMMA NextAvailability ==
    ASSUME TypeOK, Rows, Rows', Apart, Agreed, Seen, AvailabilityIsCurrent, [Next]_vars
    PROVE  AvailabilityIsCurrent'
<1>1. ASSUME NEW r \in refreshes, NEW seen \in SUBSET Devices, Refreshed(r, seen)
      PROVE  AvailabilityIsCurrent'
  <2>1. row' = MarkAvailable(seen) /\ found' = seen
    BY <1>1 DEF Refreshed
  <2>2. ASSUME NEW d \in Devices, row'[d].bound  PROVE row'[d].available <=> d \in seen
    <3>1. row'[d].id = row[d].id /\ row'[d].id # 0
      BY <2>1, <2>2, MarkedRow DEF Rows
    <3>. QED  BY <2>1, <3>1, MarkedRow
  <2>. QED  BY <2>1, <2>2 DEF AvailabilityIsCurrent
<1>2. ASSUME NEW selected \in SUBSET (1 .. ids), NEW t \in 0 .. tokens, Save(selected, t)
      PROVE  AvailabilityIsCurrent'
  <2>0. row' = SavedRows(selected) /\ saved' = selected /\ Install
    BY <1>2 DEF Save
  <2> SUFFICES ASSUME NEW d \in Devices, row'[d].bound
               PROVE  /\ d \in found' => row'[d].available
                      /\ row'[d].available => d \in found' \cup kept'
    BY DEF AvailabilityIsCurrent
  <2>1. /\ row'[d].id \in selected /\ selected \subseteq Ids /\ 0 \notin selected
        /\ row'[d].available <=> d \in Chosen(selected) \/ row[d].available
        /\ row'[d].id = IF row[d].id = 0 /\ d \in Chosen(selected) THEN Candidates[d] ELSE row[d].id
    BY <1>2, <2>0, SaveOffers, SaveLists, IdTypes
  <2>2. ~row[d].bound => d \in Chosen(selected)
    BY <1>2, <2>1, ChosenIds
  <2>3. d \in Chosen(selected) => Candidates[d] # 0
    BY <2>1 DEF Chosen
  <2>4. CASE ~Choosing
    <3>1. /\ found' = found /\ Candidates = snapshot
          /\ kept' = kept \cup IF restored THEN Chosen(selected) \ found ELSE {}
      BY <2>0, <2>4 DEF Install, Candidates
    <3>2. d \in Chosen(selected) => d \in found' \cup kept'
      BY <2>3, <3>1 DEF Seen, Listed
    <3>. QED  BY <2>1, <2>2, <3>1, <3>2 DEF AvailabilityIsCurrent
  <2>5. CASE Choosing
    <3>1. /\ found' = Listed(choice.list) /\ Candidates = choice.list
          /\ kept' = {e \in Devices : row'[e].bound} \ Listed(choice.list)
      BY <2>0, <2>5 DEF Install, Candidates
    <3>2. ASSUME d \in Listed(choice.list)  PROVE d \in Chosen(selected)
      <4>1. choice.list[d] # 0
        BY <3>2 DEF Listed
      <4>2. row[d].id # 0 => choice.list[d] = row[d].id
        BY <4>1 DEF Agreed, Agrees
      <4>3. CASE row[d].id # 0
        BY <2>1, <3>1, <4>2, <4>3 DEF Chosen
      <4>4. CASE row[d].id = 0
        BY <2>1, <4>4
      <4>. QED  BY <4>3, <4>4
    <3>. QED  BY <2>1, <3>1, <3>2
  <2>. QED  BY <2>4, <2>5
<1>3. CASE UNCHANGED <<row, found, kept>>
  BY <1>3 DEF AvailabilityIsCurrent
<1>. QED
  BY <1>1, <1>2, <1>3
     DEF Next, vars, storage, history, DevicesReady, AttemptOver, RefreshDevices, RefreshFails,
         RefreshLosesAccount, AskConfirmation, ConfirmationRefused, SaveFails, SetCameraSpeaker,
         ClearAccount, Tick, Restart

-----------------------------------------------------------------------------
LEMMA InitBInv == Init => BInv
<1> SUFFICES ASSUME Init PROVE BInv
  OBVIOUS
<1>1. TypeOK /\ Rows
  BY InitTypes
<1>2. /\ \A d \in Devices : /\ row[d].id = 0 /\ ~row[d].bound /\ snapshot[d] = 0
                            /\ choice.list[d] = 0
      /\ refreshes = {} /\ held = {} /\ saved = {}
  BY DEF Init, NoRow, NoChoice, Nothing
<1>3. Made /\ Apart
  BY <1>2 DEF Made, Apart, Uses
<1>4. Agreed /\ Spent /\ Seen
  BY <1>2 DEF Agreed, Agrees, Spent, Seen, Listed
<1>5. BoundAsSaved /\ AvailabilityIsCurrent
  BY <1>2 DEF BoundAsSaved, Bound, AvailabilityIsCurrent
<1>. QED  BY <1>1, <1>3, <1>4, <1>5 DEF BInv

LEMMA NextBInv == BInv /\ [Next]_vars => BInv'
<1> SUFFICES ASSUME BInv, [Next]_vars PROVE BInv'
  OBVIOUS
<1>1. /\ TypeOK /\ Rows /\ Made /\ Apart /\ Agreed /\ Spent /\ Seen
      /\ BoundAsSaved /\ AvailabilityIsCurrent
  BY DEF BInv
<1>2. TypeOK' /\ Rows'
  BY <1>1, NextTypes
<1>3. Made' /\ Apart' /\ Agreed'
  BY <1>1, NextIds, NextAgreed
<1>4. Spent' /\ Seen' /\ BoundAsSaved'
  BY <1>1, NextSpent, NextSeen, NextBound
<1>5. AvailabilityIsCurrent'
  BY <1>1, <1>2, NextAvailability
<1>. QED  BY <1>2, <1>3, <1>4, <1>5 DEF BInv

LEMMA BInvHolds == Spec => []BInv
BY InitBInv, NextBInv, PTL DEF Spec

\* Every variable keeps its type, for any accounts, cameras, devices, ids and confirmations.
THEOREM BindingsTypeCorrect == Spec => []TypeOK
<1>1. BInv => TypeOK
  BY DEF BInv
<1>. QED  BY <1>1, BInvHolds, PTL

\* The bound speakers are those of the last choice that was answered with saved
\* (replace_xiaomi_configuration).
THEOREM BoundIsSaved == Spec => []BoundAsSaved
<1>1. BInv => BoundAsSaved
  BY DEF BInv
<1>. QED  BY <1>1, BInvHolds, PTL

\* A bound speaker is available exactly if the list in force has it, but for those kept by a
\* login that did not list them and choices made from an older snapshot (refresh_known_speakers,
\* replace_xiaomi_configuration).
THEOREM AvailableIfListed == Spec => []AvailabilityIsCurrent
<1>1. BInv => AvailabilityIsCurrent
  BY DEF BInv
<1>. QED  BY <1>1, BInvHolds, PTL

\* A list to choose from gives every device the id of its row, unless a failed refresh has put
\* back an older one (_merge_candidates, refresh_devices).
THEOREM ListsAgree == Spec => []CandidatesAgreeWithRows
<1>1. BInv => CandidatesAgreeWithRows
  BY DEF BInv, Agreed, Agrees, CandidatesAgreeWithRows, Candidates
<1>. QED  BY <1>1, BInvHolds, PTL

\* A camera loses its speaker only by a save whose confirmation was asked for this very
\* selection and these cameras, has not expired and was never used before
\* (replace_xiaomi_configuration, _consume_confirmation).
THEOREM LossIsConfirmed == Spec => UnbindIsConfirmed
<1> DEFINE Confirmed == \E t \in used' \ used :
               asked[t].cameras = Losing /\ asked[t].selected = Bound' /\ asked[t].age < Ttl
<1>1. ASSUME BInv, [Next]_vars, Losing # {}
      PROVE  Confirmed
  <2>1. TypeOK /\ Rows /\ Spent
    BY <1>1 DEF BInv
  <2>2. Bound' # Bound
    BY <1>1 DEF Losing
  <2>3. PICK selected \in SUBSET (1 .. ids), t \in 0 .. tokens : Save(selected, t)
    BY <1>1, <2>1, <2>2, OnlySaveBinds
  <2>4. Bound' = selected
    BY <2>1, <2>3, SaveBinds
  <2>5. Losing = AffectedCameras(Removed(selected))
    BY <2>4 DEF Losing, AffectedCameras, Removed
  <2>6. t \in Unexpired /\ MatchesRequest(t, selected) /\ used' = used \cup {t}
    BY <1>1, <2>3, <2>5 DEF Save
  <2>7. t \in Tokens /\ t \in held /\ asked[t].age < Ttl
    BY <2>1, <2>6 DEF Unexpired, TypeOK, Tokens
  <2>8. asked[t] \in [selected : SUBSET Ids, removed : SUBSET Ids,
                      cameras : SUBSET Cameras, age : 0 .. Ttl]
    BY <2>1, <2>7 DEF TypeOK
  <2>9. asked[t].selected = selected /\ asked[t].cameras = AffectedCameras(Removed(selected))
    BY <2>6, <2>8 DEF MatchesRequest, Request
  <2>10. t \in used' \ used
    BY <2>1, <2>6, <2>7 DEF Spent
  <2>. QED  BY <2>4, <2>5, <2>7, <2>9, <2>10
<1>2. BInv /\ [Next]_vars => [Losing # {} => Confirmed]_vars
  BY <1>1
<1>. QED  BY <1>2, BInvHolds, PTL DEF Spec, UnbindIsConfirmed
=============================================================================
