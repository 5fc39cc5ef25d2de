SPECIFICATION Spec

CONSTANTS
    Faults = {}
    HasShortcuts = TRUE
    TimeMode = TRUE

INVARIANTS
    StreamsMatchState
    FreezeMatchesState
PROPERTIES
    SessionIsKept
