\* a refresh beside an attempt
SPECIFICATION Spec
CONSTANTS
    None = None
    u1 = u1
    u2 = u2
    d1 = d1
    d2 = d2
    Users <- TwoUsers
    Devices <- TwoDevices
    Owned <- OneEach
    MaxAttempts = 1
    MaxCalls = 2
    MaxRestarts = 0
INVARIANTS
    TestsUseActiveAccount
\* it stops when the calls are used up
CHECK_DEADLOCK FALSE
