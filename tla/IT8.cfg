SPECIFICATION Spec
CONSTANTS
    MAXTABLES = 3
    MaxFields = 3
    MaxCells = 6
    MAXINCLUDE = 3
    Files <- MCFiles
    Numerals <- MCNumerals
    Openings <- MCOpenings
    Calls <- MCCalls
    MaxCalls = 2
    MaxSaves = 2
    Foreign <- MCForeign
INVARIANTS
    Kept
    CellsFit
PROPERTIES
    ReadingEnds
CHECK_DEADLOCK FALSE
