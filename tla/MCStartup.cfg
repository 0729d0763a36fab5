\* any files of an earlier release, and three faults
SPECIFICATION StartSpec
CONSTANTS
    MaxFaults = 3
INVARIANTS
    NothingIsLost
PROPERTIES
    StartsInTheEnd
\* it stops when the server is on
CHECK_DEADLOCK FALSE
