\* two accounts, two speakers, two cameras
SPECIFICATION Spec
CONSTANTS
    None = None
    u1 = u1
    u2 = u2
    c1 = c1
    c2 = c2
    Users <- TwoUsers
    Cameras <- TwoCameras
    MaxDevices = 2
    MaxIds = 2
    MaxCalls = 3
    MaxTokens = 1
    Ttl = 1
SYMMETRY Alike
INVARIANTS
    BoundAsSaved
    AvailabilityIsCurrent
    CandidatesAgreeWithRows
PROPERTIES
    UnbindIsConfirmed
\* it stops when the calls are used up
CHECK_DEADLOCK FALSE
