SPECIFICATION FairSpec

CONSTANTS
    MaxValue = 3
    MaxCalls = 4
    Hazards = {"late", "unasked", "restart", "manual", "range"}

INVARIANTS
    TypeOK
    AsRequested
    InSync
PROPERTIES
    Settles
