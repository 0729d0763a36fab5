------------------------- MODULE RegionEditorProofs ------------------------
(***************************************************************************)
(* Proofs about RegionEditor for any picture, least size and number of     *)
(* overlapping saves: what the geometry of an edit keeps, how far a region *)
(* can leave the picture, and that the page shows what the server has.     *)
(***************************************************************************)
EXTENDS RegionEditor, TLAPS

\* The two parts of TypeOK: what is true or false, and regions.
Flags == /\ editable \in BOOLEAN /\ enabled \in BOOLEAN /\ loading \in BOOLEAN
         /\ shows \in BOOLEAN /\ crossed \in BOOLEAN

Drags == [mode : {"none", "draw", "move", "start", "end"}, initial : Regions, drift : Nat,
          from : 0 .. Side]
Saves == [id : SaveIds, region : Regions, stored : BOOLEAN, awaited : BOOLEAN]

Shapes ==
    /\ region \in Regions /\ saved \in Regions /\ draft \in Regions
    /\ drag \in Drags /\ saves \subseteq Saves /\ drift \in Nat

\* k edits can take a region over the end of the picture, leave it too small, or take it over the
\* start; which of the three says what the next edit can make of it.
Near(r, k) ==
    \/ r.at >= 0  /\ r.size >= MinSize     /\ r.at + r.size <= Units + k
    \/ r.at >= 0  /\ r.size >= MinSize - k /\ r.at + r.size <= Units
    \/ r.at >= -k /\ r.size >= MinSize     /\ r.at + r.size <= Units

\* The region is no further out than the edits took it, a drag starts from such a region, and
\* the server stores no region outside.
InPicture ==
    /\ Near(region, drift)
    /\ drag.mode \in {"move", "start", "end"} => Near(drag.initial, drag.drift)
    /\ \A s \in saves : s.stored => Inside(s.region)

\* Saves that do not overlap come one at a time, and the server has what the last one stored;
\* while the page says saved there is none.
OneSave ==
    /\ ~crossed => \A s, t \in saves : s = t
    /\ ~crossed => \A s \in saves : s.stored => s.region = saved
    /\ shows => saves = {} /\ region = saved

EInv == Flags /\ Shapes /\ InPicture /\ OneSave

-----------------------------------------------------------------------------
USE EditorAssumption

(* Geometry. *)

IsEdges(e) == e = [low |-> e.low, high |-> e.high] /\ e.low \in Int /\ e.high \in Int

Ties(e) == IF Halves(e) THEN 1 ELSE 0

\* A region inside is near with no edit at all, and none is further out than it is near.
LEMMA NearInside ==
    ASSUME NEW r \in Regions, NEW k \in Nat
    PROVE  /\ Near(r, 0) <=> Inside(r)
           /\ Near(r, k) => Excess(r) <= k
<1>1. r.at \in Int /\ r.size \in Int /\ Units \in Int /\ MinSize \in Int
  BY DEF Regions
<1>. QED  BY <1>1 DEF Near, Inside, Excess, Greatest

\* What is drawn has edges in the picture, and is out only if two halves are rounded up.
LEMMA BoundedAxisNear ==
    ASSUME NEW start \in 0 .. Side, NEW end \in 0 .. Side
    PROVE  LET e == BoundedAxis(start, end)
           IN  IsEdges(e) /\ Normal(e) \in Regions /\ Near(Normal(e), Ties(e))
<1> DEFINE e == BoundedAxis(start, end)
<1>1. start \in Int /\ end \in Int /\ Units \in Int /\ MinSize \in 1 .. Units
  BY DEF Side
<1>2. IsEdges(e) /\ e.low >= 0 /\ e.high <= Side /\ e.high - e.low >= 2 * MinSize
  BY <1>1 DEF IsEdges, BoundedAxis, Least, Greatest, Side
<1> HIDE DEF e
<1> DEFINE low == e.low  high == e.high
<1>3. low \in Int /\ high \in Int
  BY <1>2 DEF IsEdges
<1>4. /\ RoundSix(low) \in Int /\ RoundSix(high - low) \in Int
      /\ RoundSix(low) >= 0 /\ RoundSix(high - low) >= MinSize
      /\ RoundSix(low) + RoundSix(high - low) <= Units + Ties(e)
  BY <1>1, <1>2, <1>3 DEF RoundSix, Side, Ties, Halves
<1>. QED  BY <1>2, <1>4 DEF Normal, Near, Regions, e

\* What moving makes of a region that is near: it is in the picture or over the start.
LEMMA MovedNear ==
    ASSUME NEW r \in Regions, NEW k \in Nat, Near(r, k), NEW d \in Int
    PROVE  LET e == Moved(r, d)
           IN  IsEdges(e) /\ Normal(e) \in Regions /\ Near(Normal(e), k + Ties(e))
<1> DEFINE e == Moved(r, d)  low == e.low
<1>1. r.at \in Int /\ r.size \in Int /\ Units \in Int /\ MinSize \in 1 .. Units
  BY DEF Regions
<1>2. /\ IsEdges(e) /\ low \in Int /\ e.high = low + 2 * r.size
      /\ r.size <= Units => low >= 0 /\ low <= 2 * (Units - r.size)
      /\ r.size > Units => low = 2 * (Units - r.size)
  BY <1>1 DEF IsEdges, Moved, Clamp, Least, Greatest, Side
<1> HIDE DEF e
<1>3. RoundSix(e.high - low) = r.size
  BY <1>1, <1>2 DEF RoundSix
<1>4. /\ RoundSix(low) \in Int
      /\ r.size <= Units => RoundSix(low) >= 0 /\ RoundSix(low) + r.size <= Units
      /\ r.size > Units => RoundSix(low) = Units - r.size
  BY <1>1, <1>2 DEF RoundSix
<1>5. Ties(e) \in {0, 1}
  BY DEF Ties
<1>6. Normal(e) = [at |-> RoundSix(low), size |-> r.size]
  BY <1>3 DEF Normal
<1> HIDE DEF low
<1>. QED  BY <1>1, <1>2, <1>4, <1>5, <1>6 DEF Near, Regions, e

\* What a handle of the end makes of it: the end comes back into the picture.
LEMMA EndNear ==
    ASSUME NEW r \in Regions, NEW k \in Nat, Near(r, k), NEW d \in Int
    PROVE  LET e == Resized(r, TRUE, d)
           IN  IsEdges(e) /\ Normal(e) \in Regions /\ Near(Normal(e), k + Ties(e))
<1> DEFINE e == Resized(r, TRUE, d)  size == RoundSix(e.high - e.low)
<1>1. r.at \in Int /\ r.size \in Int /\ Units \in Int /\ MinSize \in 1 .. Units
  BY DEF Regions
<1>2. /\ IsEdges(e) /\ e.low = 2 * r.at /\ e.high <= 2 * Units
      /\ r.at + MinSize <= Units => e.high >= 2 * (r.at + MinSize)
      /\ r.at + MinSize > Units => e.high = 2 * Units
  BY <1>1 DEF IsEdges, Resized, Clamp, Least, Greatest, Side
<1> HIDE DEF e
<1>3. e.high \in Int
  BY <1>2 DEF IsEdges
<1>4. /\ size \in Int /\ r.at + size <= Units
      /\ r.at + MinSize <= Units => size >= MinSize
      /\ r.at + MinSize > Units => size = Units - r.at
  BY <1>1, <1>2, <1>3 DEF RoundSix
<1>5. RoundSix(e.low) = r.at
  BY <1>1, <1>2 DEF RoundSix
<1>6. Ties(e) \in {0, 1}
  BY DEF Ties
<1>7. Normal(e) = [at |-> r.at, size |-> size]
  BY <1>5 DEF Normal
<1> HIDE DEF size
<1>8. [at |-> r.at, size |-> size] \in Regions
  BY <1>1, <1>4 DEF Regions
<1>9. Near([at |-> r.at, size |-> size], k + Ties(e))
  <2>1. CASE r.at + MinSize <= Units
    BY <1>1, <1>4, <1>6, <2>1 DEF Near
  <2>2. CASE r.at + MinSize > Units
    BY <1>1, <1>4, <1>6, <2>2 DEF Near
  <2>. QED  BY <1>1, <2>1, <2>2
<1>. QED  BY <1>2, <1>7, <1>8, <1>9 DEF e

\* What a handle of the start makes of it: two halves take the end a unit further out.
LEMMA StartNear ==
    ASSUME NEW r \in Regions, NEW k \in Nat, Near(r, k), NEW d \in Int
    PROVE  LET e == Resized(r, FALSE, d)
           IN  IsEdges(e) /\ Normal(e) \in Regions /\ Near(Normal(e), k + Ties(e))
<1> DEFINE e == Resized(r, FALSE, d)  end == r.at + r.size
           at == RoundSix(e.low)  size == RoundSix(e.high - e.low)
<1>1. r.at \in Int /\ r.size \in Int /\ Units \in Int /\ MinSize \in 1 .. Units
  BY DEF Regions
<1>2. /\ IsEdges(e) /\ e.high = 2 * end
      /\ end >= MinSize => e.low >= 0 /\ e.low <= 2 * (end - MinSize)
      /\ end < MinSize => e.low = 2 * (end - MinSize)
  BY <1>1 DEF IsEdges, Resized, Clamp, Least, Greatest, Side
<1> HIDE DEF e
<1>3. e.low \in Int
  BY <1>2 DEF IsEdges
<1>4. /\ at \in Int /\ size \in Int /\ at + size <= end + Ties(e) /\ size >= MinSize
      /\ end >= MinSize => at >= 0
      /\ end < MinSize => at = end - MinSize /\ size = MinSize
  <2>1. end \in Int /\ e.high = 2 * end
    BY <1>1, <1>2
  <2>2. at = (e.low + 1) \div 2 /\ size = (2 * end - e.low + 1) \div 2
    BY <2>1 DEF RoundSix
  <2>3. e.low <= 2 * (end - MinSize)
    BY <1>1, <1>2, <2>1
  <2>4. at + size = end + IF e.low % 2 = 1 THEN 1 ELSE 0
    BY <1>3, <2>1, <2>2
  <2>5. e.low % 2 = 1 => Ties(e) = 1
    BY <1>3, <2>1 DEF Ties, Halves
  <2>6. Ties(e) \in {0, 1}
    BY DEF Ties
  <2>7. at + size <= end + Ties(e)
    BY <2>1, <2>4, <2>5, <2>6
  <2>. QED  BY <1>1, <1>2, <1>3, <2>1, <2>2, <2>3, <2>7
<1>5. Ties(e) \in {0, 1}
  BY DEF Ties
<1>6. Normal(e) = [at |-> at, size |-> size]
  BY DEF Normal
<1> HIDE DEF at, size
<1>7. [at |-> at, size |-> size] \in Regions
  BY <1>4 DEF Regions
<1>8. Near([at |-> at, size |-> size], k + Ties(e))
  <2>1. CASE end >= MinSize
    BY <1>1, <1>4, <1>5, <2>1 DEF Near
  <2>2. CASE end < MinSize
    BY <1>1, <1>4, <1>5, <2>2 DEF Near
  <2>. QED  BY <1>1, <2>1, <2>2
<1>. QED  BY <1>2, <1>6, <1>7, <1>8 DEF e

\* The whole picture is a region.
LEMMA FullInside == Full \in Regions /\ Inside(Full)
BY DEF Full, Regions, Inside

-----------------------------------------------------------------------------
(* The invariant. *)

LEMMA InitEInv == Init => EInv
<1> SUFFICES ASSUME Init PROVE EInv
  OBVIOUS
<1>1. Flags
  BY DEF Init, Flags
<1>2. region \in Regions /\ Inside(region)
  BY DEF Init, Regions
<1>3. Shapes
  <2>1. drag \in Drags
    BY FullInside DEF Init, NoDrag, Side, Drags
  <2>. QED  BY <1>2, <2>1 DEF Init, Shapes
<1>4. InPicture
  BY <1>2, NearInside DEF Init, InPicture, NoDrag
<1>5. OneSave
  BY DEF Init, OneSave
<1>. QED  BY <1>1, <1>3, <1>4, <1>5 DEF EInv

LEMMA FlagsStep ==
    ASSUME Flags, [Next]_vars
    PROVE  Flags'
<1> USE DEF Flags, page
<1>1. CASE \/ Refresh \/ ImageLoads \/ DiscardPreview \/ FinishInteraction
           \/ \E h \in 0 .. Side : Draw(h)
           \/ \E mode \in {"move", "start", "end"} : Shift(mode)
  BY <1>1 DEF Refresh, ImageLoads, DiscardPreview, SetEditing, Savable, FinishInteraction,
              Draw, Shift, PointerDown
<1>2. CASE \/ \E h \in 0 .. Side : PointerDraws(h)
           \/ \E d \in -Side .. Side : PointerShifts(d)
           \/ \E field \in {"at", "size"}, v \in 0 .. Units : Type(field, v)
           \/ Reset
  BY <1>2 DEF PointerDraws, PointerShifts, Drawn, Edit, SetRegion, Savable, Type, Reset
<1>3. CASE \/ Submit
           \/ \E s \in saves : UpdateCameraRegion(s) \/ SaveLost(s) \/ Saved(s) \/ SaveFails(s)
  BY <1>3 DEF Submit, UpdateCameraRegion, SaveLost, Saved, Done, Becomes, SaveFails, ShowsSaved,
              SetRegion, Savable
<1>4. CASE UNCHANGED vars
  BY <1>4 DEF vars
<1>. QED  BY <1>1, <1>2, <1>3, <1>4 DEF Next

\* An edit to a region that is as near as the new drift says.
LEMMA EditStep ==
    ASSUME Shapes, InPicture, OneSave,
           NEW r \in Regions, Edit(r), drift' \in Nat, Near(r, drift')
    PROVE  Shapes' /\ InPicture' /\ OneSave'
<1>1. /\ region' = r /\ draft' = r /\ shows' = FALSE
      /\ UNCHANGED <<drag, saves, saved, crossed>>
  BY DEF Edit, SetRegion
<1>2. Shapes'
  BY <1>1 DEF Shapes, Drags, Saves, Side, Regions
<1>3. InPicture'
  BY <1>1 DEF InPicture, Inside, Near
<1>4. OneSave'
  BY <1>1 DEF OneSave
<1>. QED  BY <1>2, <1>3, <1>4

LEMMA DrawnStep ==
    ASSUME Shapes, InPicture, OneSave,
           NEW edges, NEW before \in Nat, Drawn(edges, before),
           Normal(edges) \in Regions, Near(Normal(edges), before + Ties(edges))
    PROVE  Shapes' /\ InPicture' /\ OneSave'
<1> DEFINE r == Normal(edges)
<1>1. Edit(r) /\ region' = r
  BY DEF Drawn, Edit, SetRegion
<1>2. drift' = IF Inside(r) THEN 0 ELSE before + Ties(edges)
  BY <1>1 DEF Drawn, Ties, Inside
<1>3. before + Ties(edges) \in Nat
  BY DEF Ties
<1> HIDE DEF r
<1>4. drift' \in Nat
  BY <1>2, <1>3
<1>5. Near(r, drift')
  BY <1>2, NearInside DEF r
<1>. QED  BY <1>1, <1>4, <1>5, EditStep DEF r

LEMMA PointerStep ==
    ASSUME EInv,
           \/ \E h \in 0 .. Side : PointerDraws(h)
           \/ \E d \in -Side .. Side : PointerShifts(d)
    PROVE  Shapes' /\ InPicture' /\ OneSave'
<1> USE DEF EInv
<1>1. ASSUME NEW h \in 0 .. Side, PointerDraws(h)
      PROVE  Shapes' /\ InPicture' /\ OneSave'
  <2> DEFINE e == BoundedAxis(drag.from, h)
  <2>1. drag.from \in 0 .. Side
    BY DEF Shapes, Drags
  <2>2. Normal(e) \in Regions /\ Near(Normal(e), Ties(e))
    BY <2>1, BoundedAxisNear
  <2>3. Drawn(e, 0) /\ 0 + Ties(e) = Ties(e)
    BY <1>1 DEF PointerDraws, Ties
  <2> HIDE DEF e
  <2>. QED  BY <2>2, <2>3, DrawnStep
<1>2. ASSUME NEW d \in -Side .. Side, PointerShifts(d)
      PROVE  Shapes' /\ InPicture' /\ OneSave'
  <2>1. d \in Int
    BY DEF Side
  <2>2. drag.initial \in Regions /\ drag.drift \in Nat /\ Near(drag.initial, drag.drift)
    BY <1>2 DEF Shapes, Drags, InPicture, PointerShifts
  <2>3. CASE Drawn(Moved(drag.initial, d), drag.drift)
    BY <2>1, <2>2, <2>3, MovedNear, DrawnStep
  <2>4. CASE Drawn(Resized(drag.initial, FALSE, d), drag.drift)
    BY <2>1, <2>2, <2>4, StartNear, DrawnStep
  <2>5. CASE Drawn(Resized(drag.initial, TRUE, d), drag.drift)
    BY <2>1, <2>2, <2>5, EndNear, DrawnStep
  <2>. QED  BY <1>2, <2>3, <2>4, <2>5 DEF PointerShifts
<1>. QED  BY <1>1, <1>2

LEMMA TypeStep ==
    ASSUME EInv, NEW field \in {"at", "size"}, NEW v \in 0 .. Units, Type(field, v)
    PROVE  Shapes' /\ InPicture' /\ OneSave'
<1> DEFINE typed == [draft EXCEPT ![field] = v]
<1>1. typed \in Regions
  BY DEF EInv, Shapes, Regions
<1> HIDE DEF typed
<1>2. CASE Inside(typed) /\ Edit(typed) /\ drift' = 0
  BY <1>1, <1>2, NearInside, EditStep DEF EInv
<1>3. CASE draft' = typed /\ UNCHANGED <<region, drag, saves, saved, shows, crossed, drift>>
  <2>1. Shapes'
    BY <1>1, <1>3 DEF EInv, Shapes
  <2>. QED  BY <1>3, <2>1 DEF EInv, InPicture, OneSave
<1>. QED  BY <1>2, <1>3 DEF Type, typed

\* The pointer goes down, or up.
LEMMA PointerDownStep ==
    ASSUME EInv,
           \/ FinishInteraction
           \/ \E h \in 0 .. Side : Draw(h)
           \/ \E mode \in {"move", "start", "end"} : Shift(mode)
    PROVE  Shapes' /\ InPicture' /\ OneSave'
<1>1. NoDrag \in Drags /\ NoDrag.mode = "none"
  BY FullInside DEF NoDrag, Side, Drags
<1>2. region \in Regions /\ drift \in Nat /\ Near(region, drift)
  BY DEF EInv, Shapes, InPicture
<1>3. /\ drag' \in Drags
      /\ drag'.mode \in {"move", "start", "end"} => drag'.initial = region /\ drag'.drift = drift
  BY <1>1, <1>2 DEF FinishInteraction, Draw, Shift, PointerDown, Drags
<1>4. UNCHANGED <<region, draft, saves, saved, shows, crossed, drift>>
  BY DEF FinishInteraction, Draw, Shift, PointerDown
<1>5. Shapes'
  BY <1>3, <1>4 DEF EInv, Shapes
<1>. QED  BY <1>2, <1>3, <1>4, <1>5 DEF EInv, InPicture, OneSave

\* A save is sent, stored, answered, lost or given up.
LEMMA SubmitStep ==
    ASSUME EInv, Submit
    PROVE  Shapes' /\ InPicture' /\ OneSave'
<1> USE DEF EInv, Submit
<1>1. PICK id \in SaveIds :
          saves' = saves \cup {[id |-> id, region |-> region, stored |-> FALSE, awaited |-> TRUE]}
  OBVIOUS
<1> DEFINE new == [id |-> id, region |-> region, stored |-> FALSE, awaited |-> TRUE]
<1>2. new \in Saves /\ new.stored = FALSE
  BY DEF Shapes, Saves
<1>3. saves' = saves \cup {new}
  BY <1>1
<1> HIDE DEF new
<1>4. Shapes'
  BY <1>2, <1>3 DEF Shapes
<1>5. InPicture'
  BY <1>2, <1>3 DEF InPicture
<1>6. OneSave'
  BY <1>2, <1>3 DEF OneSave
<1>. QED  BY <1>4, <1>5, <1>6

\* A save goes away, or another takes its place; while it is under way the page does not say saved.
LEMMA AwayStep ==
    ASSUME EInv, NEW s \in saves, Done(s), shows' = shows
    PROVE  /\ saves' \subseteq Saves /\ (\A t \in saves' : t.stored => Inside(t.region))
           /\ shows' = FALSE /\ (~crossed' => saves' = {})
<1> USE DEF EInv, Done
<1>1. saves' \subseteq saves /\ shows = FALSE
  BY DEF OneSave
<1>2. ~crossed => saves = {s}
  BY DEF OneSave
<1>. QED  BY <1>1, <1>2 DEF Shapes, InPicture

LEMMA BecomesStep ==
    ASSUME EInv, NEW s \in saves, NEW t \in Saves, Becomes(t), t.id = s.id,
           t.stored => Inside(t.region) /\ saved' = t.region,
           saved' # saved => t.stored,
           UNCHANGED <<region, drag, drift, shows>>, draft' = draft
    PROVE  Shapes' /\ InPicture' /\ OneSave'
<1> USE DEF EInv, Becomes
<1>1. /\ saves' \subseteq saves \cup {t} /\ t \in saves' /\ shows = FALSE /\ crossed' = crossed
  BY DEF OneSave
<1>2. ~crossed => saves' = {t}
  BY <1>1 DEF OneSave
<1>3. saved' \in Regions
  BY DEF Shapes, Saves
<1>4. Shapes'
  BY <1>1, <1>3 DEF Shapes
<1>5. InPicture'
  BY <1>1 DEF InPicture
<1>6. OneSave'
  BY <1>1, <1>2 DEF OneSave
<1>. QED  BY <1>4, <1>5, <1>6

LEMMA StoreStep ==
    ASSUME EInv, NEW s \in saves, UpdateCameraRegion(s) \/ SaveLost(s)
    PROVE  Shapes' /\ InPicture' /\ OneSave'
<1> USE DEF EInv
<1>1. s \in Saves
  BY DEF Shapes
<1>2. CASE UpdateCameraRegion(s) /\ s.awaited
  <2> DEFINE t == [s EXCEPT !.stored = TRUE]
  <2>1. t \in Saves /\ t.region = s.region /\ t.stored = TRUE /\ t.id = s.id
    BY <1>1 DEF Saves
  <2>2. /\ Becomes(t) /\ saved' = s.region /\ Inside(s.region)
        /\ UNCHANGED <<region, draft, drag, drift, shows>>
    BY <1>2 DEF UpdateCameraRegion, page
  <2> HIDE DEF t
  <2>. QED  BY <2>1, <2>2, BecomesStep
<1>3. CASE (UpdateCameraRegion(s) /\ ~s.awaited) \/ SaveLost(s)
  <2>1. Done(s) /\ UNCHANGED <<region, draft, drag, drift, shows>>
    BY <1>3 DEF UpdateCameraRegion, SaveLost, page
  <2>2. saved' \in Regions
    BY <1>1, <1>3 DEF UpdateCameraRegion, SaveLost, Saves, Shapes
  <2>3. Shapes'
    BY <2>1, <2>2, AwayStep DEF Shapes
  <2>4. InPicture' /\ OneSave'
    BY <2>1, AwayStep DEF InPicture, OneSave
  <2>. QED  BY <2>3, <2>4
<1>. QED  BY <1>2, <1>3

LEMMA SavedStep ==
    ASSUME EInv, NEW s \in saves, Saved(s)
    PROVE  Shapes' /\ InPicture' /\ OneSave'
<1> USE DEF EInv, Done
<1>1. s \in Saves /\ s.region \in Regions /\ Inside(s.region) /\ Near(s.region, 0)
  <2>1. s \in Saves /\ s.region \in Regions /\ Inside(s.region)
    BY DEF Shapes, Saves, InPicture, Saved
  <2>. QED  BY <2>1, NearInside
<1>2. /\ region' = s.region /\ draft' = s.region /\ drift' = 0 /\ saved' = saved /\ drag' = drag
      /\ saves' = saves \ {s} /\ crossed' = (crossed /\ saves' # {}) /\ shows' = ~crossed
  BY DEF Saved, ShowsSaved, SetRegion
<1>3. Shapes'
  BY <1>1, <1>2 DEF Shapes
<1>4. InPicture'
  BY <1>1, <1>2 DEF InPicture
<1>5. ~crossed => saves = {s} /\ s.region = saved
  BY DEF OneSave, Saved
<1>6. OneSave'
  BY <1>2, <1>5 DEF OneSave
<1>. QED  BY <1>3, <1>4, <1>6

LEMMA SaveFailsStep ==
    ASSUME EInv, NEW s \in saves, SaveFails(s)
    PROVE  Shapes' /\ InPicture' /\ OneSave'
<1> USE DEF EInv
<1>1. UNCHANGED <<region, draft, drag, saved, shows, drift>>
  BY DEF SaveFails
<1>2. CASE Done(s)
  <2>1. Shapes'
    BY <1>1, <1>2, AwayStep DEF Shapes
  <2>2. InPicture' /\ OneSave'
    BY <1>1, <1>2, AwayStep DEF InPicture, OneSave
  <2>. QED  BY <2>1, <2>2
<1>3. CASE ~s.stored /\ Becomes([s EXCEPT !.awaited = FALSE])
  <2> DEFINE t == [s EXCEPT !.awaited = FALSE]
  <2>1. t \in Saves /\ ~t.stored /\ t.id = s.id
    BY <1>3 DEF Saves, Shapes
  <2>2. Becomes(t)
    BY <1>3
  <2> HIDE DEF t
  <2>. QED  BY <1>1, <2>1, <2>2, BecomesStep
<1>. QED  BY <1>2, <1>3 DEF SaveFails

LEMMA NextEInv == EInv /\ [Next]_vars => EInv'
<1> SUFFICES ASSUME EInv, [Next]_vars PROVE Shapes' /\ InPicture' /\ OneSave'
  BY FlagsStep DEF EInv
<1>1. CASE Refresh \/ ImageLoads \/ DiscardPreview \/ UNCHANGED vars
  <2>1. UNCHANGED <<region, draft, drag, saves, saved, shows, crossed, drift>>
    BY <1>1 DEF Refresh, ImageLoads, DiscardPreview, SetEditing, vars, page
  <2>2. Shapes'
    BY <2>1 DEF EInv, Shapes
  <2>. QED  BY <2>1, <2>2 DEF EInv, InPicture, OneSave
<1>2. CASE Reset
  BY <1>2, EditStep, FullInside, NearInside DEF Reset, EInv
<1>. QED
  BY <1>1, <1>2, PointerDownStep, PointerStep, TypeStep, SubmitStep, StoreStep, SavedStep,
     SaveFailsStep DEF Next

LEMMA EInvHolds == Spec => []EInv
<1>. QED  BY InitEInv, NextEInv, PTL DEF Spec

-----------------------------------------------------------------------------
\* The page, the saves under way and the server only ever hold regions.
THEOREM TypeCorrect == Spec => []TypeOK
<1>1. EInv => TypeOK
  BY DEF EInv, Flags, Shapes, Drags, Saves, TypeOK
<1>. QED  BY <1>1, EInvHolds, PTL

\* Whatever is drawn, moved, resized, typed and saved, in a picture of any size, the region is out
\* of the picture or short of its least size by no more units than edits in a row rounded two
\* halves up.
THEOREM InsideOrTied == Spec => []EditsStayInPicture
<1>1. EInv => EditsStayInPicture
  BY NearInside DEF EInv, Shapes, InPicture, EditsStayInPicture
<1>. QED  BY <1>1, EInvHolds, PTL

\* What the page says is saved is what the server has.
THEOREM ShownIsSaved == Spec => []PageShowsSaved
<1>1. EInv => PageShowsSaved
  BY DEF EInv, OneSave, PageShowsSaved
<1>. QED  BY <1>1, EInvHolds, PTL
=============================================================================
