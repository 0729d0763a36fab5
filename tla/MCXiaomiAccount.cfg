\* two accounts with a speaker each, two attempts
SPECIFICATION Spec
CONSTANTS
    None = None
    u1 = u1
    u2 = u2
    d1 = d1
    d2 = d2
    Users <- TwoUsers
    Devices <- TwoDevices
    Owned <- OneEach
    MaxAttempts = 2
    MaxCalls = 3
    MaxRestarts = 1
INVARIANTS
    ReleasedWhenOver
    OneAttempt
    AccountsDoNotMix
    PublishedAsStored
PROPERTIES
    AttemptsEnd
\* it stops when the calls are used up
CHECK_DEADLOCK FALSE
