\* one source, an ffmpeg that may need two signals
SPECIFICATION Spec
CONSTANTS
    Processes <- ThreeProcesses
    MaxSignals = 2
INVARIANTS
    OneFfmpeg
PROPERTIES
    StopLeavesNothing
    SilenceEnds
\* it stops when the source has
CHECK_DEADLOCK FALSE
