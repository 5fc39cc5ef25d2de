SPECIFICATION FairSpec

CONSTANTS
    Window = 1
    Threshold = 2
    MaxSamples = 4
    MaxTime = 5

INVARIANTS
    TypeOK
    SearchFindsInterval
    SearchAdvances
    SupportSurrounds
PROPERTIES
    SearchEnds
