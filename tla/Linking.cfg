SPECIFICATION Spec
CONSTANTS
    Chains <- MCChains
    Intents = {0, 3, 10, 14}
    FlagSets <- MCFlagSets
    Depths <- MCDepths
INVARIANTS
    EncodingsMeet
    EachProfileOnce
    NothingHeld
    SupportedLinks
PROPERTIES
    MeaningKept
CHECK_DEADLOCK FALSE
