SPECIFICATION FairSpec
CONSTANTS
    WordSize = 64
    Grain = 4
    Jobs <- SmallJobs
    CPUs = 4
    MaxSlices = 4
    Memory <- SmallMemory
    Faults = TRUE
INVARIANTS
    SlicesApart
    ConvertsAll
    ThreadsEndFirst
PROPERTIES
    CallsComplete
\* A call ends for good: it has returned, or died.
CHECK_DEADLOCK FALSE
