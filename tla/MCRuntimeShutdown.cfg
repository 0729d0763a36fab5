\* stop() meets a worker that lost the account
SPECIFICATION Spec
CONSTANTS
    None = None
    c1 = c1
    c2 = c2
    s1 = s1
    Cameras <- OneCamera
    Speakers <- OneSpeaker
    Regions <- TwoRegions
    StoredRegions <- FirstRegion
    MaxCalls = 1
PROPERTIES
    ShutdownEnds
\* it stops when the server has
CHECK_DEADLOCK FALSE
