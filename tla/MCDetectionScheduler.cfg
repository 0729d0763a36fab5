\* both detectors, one camera
SPECIFICATION Spec
CONSTANTS
    None = None
    Pill = Pill
    person = person
    object = object
    c1 = c1
    c2 = c2
    Kinds <- MCKinds
    Replaceable <- MCReplaceable
    Cameras <- OneCamera
    MaxRequests = 3
    MaxCalls = 5
INVARIANTS
    StatusMatchesDetectors
    LoadedIsServed
    RegisteredWillBeServed
PROPERTIES
    FailureIsolated
    AnswersAreCurrent
    RequestsAreAnswered
    CallsEnd
\* it stops when the calls and requests are used up
CHECK_DEADLOCK FALSE
