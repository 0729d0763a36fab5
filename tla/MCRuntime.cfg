\* one camera and what three calls make of it
SPECIFICATION Spec
CONSTANTS
    None = None
    c1 = c1
    c2 = c2
    s1 = s1
    Cameras <- OneCamera
    Speakers <- OneSpeaker
    Regions <- TwoRegions
    StoredRegions <- FirstRegion
    MaxCalls = 3
INVARIANTS
    SettledAsWanted
    DetectorsAreNeeded
    ShownAsItRuns
PROPERTIES
    ChangedRegionStartsWithBaseline
    LockIsReleased
\* it stops when the server has
CHECK_DEADLOCK FALSE
