---------------------------- MODULE RegionEditor ----------------------------
(***************************************************************************)
(* The page that edits the detection region of a camera                    *)
(* (src/src/guduck/static/region-editor.js) and the requests it sends      *)
(* (src/src/guduck/web.py): a preview is fetched and loaded, the region is *)
(* drawn, moved, resized or typed, and saved while editing goes on.        *)
(*                                                                         *)
(* One axis stands for both; the other is as in the full frame.  The side  *)
(* of the picture has Units units, which stand for the millions of         *)
(* roundSix.  The pointer is at halves: a position that is no half of a    *)
(* unit is rounded like its neighbour, for what a position loses the       *)
(* length beside it gains.                                                 *)
(***************************************************************************)
EXTENDS Integers

CONSTANTS
    Units,
    MinSize,    \* MIN_SIZE, in units
    SaveIds,    \* bound on the saves under way together, one name each
    MaxDrift    \* bound on drift

ASSUME EditorAssumption ==
    /\ Units \in Nat /\ MinSize \in 1 .. Units /\ MaxDrift \in Nat

VARIABLES
    region,    \* region
    draft,     \* fieldDraft; a text that is no number is a number out of bounds
    editable,  \* editable, with the image shown
    enabled,   \* the save button
    drag,      \* interaction
    loading,   \* the newest snapshot is fetched, or its image loaded
    saves,     \* the saves whose answers have not arrived, or which the server may carry out yet
    saved,     \* the server: the region in the database
    shows,     \* history: the page says saved, nothing was edited since and no saves overlapped
    crossed,   \* history: saves overlapped since there were none
    drift      \* history: the edits by the pointer that rounded two halves up, each from where the
               \* one before had left the region, since it was inside

page == <<region, draft, editable, enabled, drag>>
vars == <<page, loading, saves, saved, shows, crossed, drift>>

Full   == [at |-> 0, size |-> Units]
NoDrag == [mode |-> "none", initial |-> Full, drift |-> 0, from |-> 0]

-----------------------------------------------------------------------------
(* Geometry, in halves. *)

Side == 2 * Units

Least(a, b)    == IF a < b THEN a ELSE b
Greatest(a, b) == IF a > b THEN a ELSE b
Clamp(v, lo, hi) == Least(hi, Greatest(lo, v))

\* roundSix: a half is rounded up.
RoundSix(h) == (h + 1) \div 2

\* boundedAxis
BoundedAxis(start, end) ==
    IF end - start >= 2 * MinSize THEN [low |-> start, high |-> end]
    ELSE IF start - end >= 2 * MinSize THEN [low |-> end, high |-> start]
    ELSE IF end >= start
         THEN LET high == Least(Side, start + 2 * MinSize)
              IN [low |-> Greatest(0, high - 2 * MinSize), high |-> high]
         ELSE LET low == Greatest(0, start - 2 * MinSize)
              IN [low |-> low, high |-> Least(Side, low + 2 * MinSize)]

\* moveRegion
Moved(r, d) ==
    LET low == Clamp(2 * r.at + d, 0, Side - 2 * r.size)
    IN [low |-> low, high |-> low + 2 * r.size]

\* Variant: the moving edge may leave the picture.
ResizedFreely(r, end, d) ==
    IF end THEN [low |-> 2 * r.at, high |-> Greatest(2 * (r.at + r.size) + d, 2 * (r.at + MinSize))]
    ELSE [low |-> Clamp(2 * r.at + d, 0, 2 * (r.at + r.size - MinSize)), high |-> 2 * (r.at + r.size)]

\* resizeRegion: the handle of the end or that of the start.
Resized(r, end, d) ==
    IF end THEN [low |-> 2 * r.at, high |-> Clamp(2 * (r.at + r.size) + d, 2 * (r.at + MinSize), Side)]
    ELSE [low |-> Clamp(2 * r.at + d, 0, 2 * (r.at + r.size - MinSize)), high |-> 2 * (r.at + r.size)]

\* normalizeRegion: position and length are rounded each by itself.
Normal(edges) == [at |-> RoundSix(edges.low), size |-> RoundSix(edges.high - edges.low)]

\* validateRegion, and DetectionRegion on the server
Inside(r) == r.at >= 0 /\ r.size >= MinSize /\ r.at + r.size <= Units

Init ==
    /\ region \in {r \in [at : 0 .. Units, size : 1 .. Units] : Inside(r)} /\ draft = region
    /\ editable = FALSE /\ enabled = (region = Full) /\ drag = NoDrag
    /\ loading = TRUE /\ saves = {} /\ saved = region
    /\ shows = FALSE /\ crossed = FALSE /\ drift = 0

-----------------------------------------------------------------------------
(* The preview.  A newer request makes an older image count for nothing.  *)

Savable(d, e) == Inside(d) /\ (e \/ d = Full)

\* setEditingEnabled, at the end of a request for a snapshot
SetEditing(e) ==
    /\ loading /\ loading' = FALSE
    /\ editable' = e /\ enabled' = Savable(draft, e)
    /\ UNCHANGED <<region, draft, drag, saves, saved, shows, crossed, drift>>

Refresh ==
    /\ ~loading /\ loading' = TRUE
    /\ UNCHANGED <<page, saves, saved, shows, crossed, drift>>

ImageLoads == SetEditing(TRUE)

\* The camera, the request or the image fails.
DiscardPreview == SetEditing(FALSE)

-----------------------------------------------------------------------------
(* Editing. *)

\* setRegion
SetRegion(r) == region' = r /\ draft' = r /\ enabled' = Savable(r, editable)

Edit(r) ==
    /\ SetRegion(r) /\ shows' = FALSE
    /\ UNCHANGED <<editable, drag, loading, saves, saved, crossed>>

Halves(edges) == edges.low % 2 = 1 /\ (edges.high - edges.low) % 2 = 1

\* An edit by the pointer, of a region that had drifted before
Drawn(edges, before) ==
    /\ Edit(Normal(edges))
    /\ drift' = IF Inside(region') THEN 0 ELSE before + (IF Halves(edges) THEN 1 ELSE 0)

\* Another pointer takes over: on the picture, on the region or on one of its handles.
PointerDown(d) ==
    /\ editable /\ drag' = d
    /\ UNCHANGED <<region, draft, editable, enabled, loading, saves, saved, shows, crossed, drift>>

Draw(h) == PointerDown([NoDrag EXCEPT !.mode = "draw", !.from = h])

\* MaxDrift bounds how far a region is taken that has left the picture.
Shift(mode) ==
    /\ mode = "move" => region # Full
    /\ drift < MaxDrift
    /\ PointerDown([NoDrag EXCEPT !.mode = mode, !.initial = region, !.drift = drift])

\* A drag goes on after the preview is gone, and from where it started after an answer.
PointerDraws(h) ==
    drag.mode = "draw" /\ Drawn(BoundedAxis(drag.from, h), 0)

PointerShifts(d) ==
    \/ drag.mode = "move"  /\ Drawn(Moved(drag.initial, d), drag.drift)
    \/ drag.mode = "start" /\ Drawn(Resized(drag.initial, FALSE, d), drag.drift)
    \/ drag.mode = "end"   /\ Drawn(Resized(drag.initial, TRUE, d), drag.drift)

FinishInteraction ==
    /\ drag # NoDrag /\ drag' = NoDrag
    /\ UNCHANGED <<region, draft, editable, enabled, loading, saves, saved, shows, crossed, drift>>

\* A text that is not valid locks the save button and leaves the region.
Type(field, v) ==
    /\ editable
    /\ LET typed == [draft EXCEPT ![field] = v]
       IN \/ Inside(typed) /\ Edit(typed) /\ drift' = 0
          \/ /\ ~Inside(typed) /\ draft' = typed /\ enabled' = FALSE
             /\ UNCHANGED <<region, editable, drag, loading, saves, saved, shows, crossed, drift>>

Reset == Edit(Full) /\ drift' = 0

-----------------------------------------------------------------------------
(* Saving. *)

\* What is sent are the hidden fields, which follow region.
Submit ==
    /\ enabled /\ enabled' = FALSE
    /\ \E id \in SaveIds \ {s.id : s \in saves} :
        saves' = saves \cup {[id |-> id, region |-> region, stored |-> FALSE, awaited |-> TRUE]}
    /\ crossed' = (saves # {}) /\ shows' = FALSE
    /\ UNCHANGED <<region, draft, editable, drag, loading, saved, drift>>

Done(s)    == saves' = saves \ {s} /\ crossed' = (crossed /\ saves' # {})
Becomes(t) == saves' = {s \in saves : s.id # t.id} \cup {t} /\ crossed' = crossed

\* update_camera_region, when it does not refuse, also for a page that waits no more
UpdateCameraRegion(s) ==
    /\ s \in saves /\ ~s.stored /\ Inside(s.region)
    /\ saved' = s.region
    /\ IF s.awaited THEN Becomes([s EXCEPT !.stored = TRUE]) ELSE Done(s)
    /\ UNCHANGED <<page, loading, shows, drift>>

\* A save the page waits for no more is not carried out.
SaveLost(s) ==
    /\ s \in saves /\ ~s.awaited /\ Done(s)
    /\ UNCHANGED <<page, loading, saved, shows, drift>>

\* Variant: what the server has saved is not shown.
ShowsSavedBefore(s) == enabled' = Savable(draft, editable) /\ UNCHANGED <<region, draft>>

\* Edits made since the save was sent are overwritten.
ShowsSaved(s) == SetRegion(s.region)

Saved(s) ==
    /\ s \in saves /\ s.awaited /\ s.stored /\ Done(s)
    /\ ShowsSaved(s)
    /\ shows' = ~crossed /\ drift' = 0
    /\ UNCHANGED <<editable, drag, loading, saved>>

\* Refused, for a region that is not valid or one without a snapshot of the last hour, or the
\* request or its answer is lost; or the browser gives up a save that the server has yet to do.
SaveFails(s) ==
    /\ s \in saves /\ s.awaited
    /\ \/ Done(s)
       \/ ~s.stored /\ Becomes([s EXCEPT !.awaited = FALSE])
    /\ enabled' = Savable(draft, editable)
    /\ UNCHANGED <<region, draft, editable, drag, loading, saved, shows, drift>>

Next ==
    \/ Refresh \/ ImageLoads \/ DiscardPreview
    \/ \E h \in 0 .. Side : Draw(h) \/ PointerDraws(h)
    \/ \E mode \in {"move", "start", "end"} : Shift(mode)
    \/ \E d \in -Side .. Side : PointerShifts(d)
    \/ FinishInteraction
    \/ \E field \in {"at", "size"}, v \in 0 .. Units : Type(field, v)
    \/ Reset \/ Submit
    \/ \E s \in saves : UpdateCameraRegion(s) \/ SaveLost(s) \/ Saved(s) \/ SaveFails(s)

Spec == Init /\ [][Next]_vars

-----------------------------------------------------------------------------
(* Properties. *)

Regions == [at : Int, size : Int]

\* The variables have their types.
TypeOK ==
    /\ region \in Regions /\ saved \in Regions
    /\ draft \in Regions
    /\ editable \in BOOLEAN /\ enabled \in BOOLEAN /\ loading \in BOOLEAN
    /\ drag \in [mode : {"none", "draw", "move", "start", "end"}, initial : Regions,
                 drift : Nat, from : 0 .. Side]
    /\ saves \subseteq [id : SaveIds, region : Regions, stored : BOOLEAN, awaited : BOOLEAN]
    /\ shows \in BOOLEAN /\ crossed \in BOOLEAN /\ drift \in Nat

\* How far a region is outside the picture, or short of the least size.
Excess(r) == Greatest(Greatest(-r.at, r.at + r.size - Units), MinSize - r.size)

\* However a region is drawn, moved, resized, typed, reset and saved, it stays in the picture
\* and keeps its least size, but for the edits by the pointer that round both the position and
\* the length up from a half (normalizeRegion): it is out, or too small, by no more units than
\* there were such edits, each from where the one before had left the region (resizeRegion and
\* moveRegion take any region).
EditsStayInPicture == Excess(region) <= drift

\* When the page says that the region is saved and nothing has been edited since, it shows the
\* region the server has, also after saves that were refused, lost or given up and edits made
\* while a save was under way.  Excepted are saves that overlapped, whose answers may come in
\* another order, a save the page gave up and the server carries out later among them (the
\* submit handler, update_camera_region).
PageShowsSaved == shows => region = saved
=============================================================================
