SPECIFICATION FairSpec

CONSTANTS
    Factors = {1, 2}
    Normal = 2
    Hazards = {"formation", "loadFlight", "rate", "earlyPause"}
    MaxDuration = 2
    MaxTime = 6

INVARIANTS
    TypeOK
PROPERTIES
    SamplesInOrder
    ReplayEnds
