\* one runtime of a camera over three waits
SPECIFICATION Spec
CONSTANTS
    None = None
    LeaveSeconds = 2
    CooldownSeconds = 3
    OutageSeconds = 2
    MaxTime = 3
    MaxRuntimes = 1
INVARIANTS
    OutageIsShown
PROPERTIES
    LeavesAreConfirmed
    EntriesAreConfirmed
    StopEnds
\* it stops when time is up
CHECK_DEADLOCK FALSE
