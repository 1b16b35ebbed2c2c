CONSTANTS
    Jobs <- AllJobs
    Calls <- AllCalls
    Program <- AllProgram
    Lapses = FALSE
    Astray <- MHC2s
SPECIFICATION Spec
INVARIANTS
    NothingLeaks
    ReleasedOnce
    DuplicateIsWhole
    ReadsWhatWasWritten
    WritesToTheEnd
    WellNested
\* A job ends.
CHECK_DEADLOCK FALSE
