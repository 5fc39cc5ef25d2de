SPECIFICATION FairSpec

CONSTANTS
    Releases = 2
    StepsPerRelease = 2
    MaxCopies = 2
    MaxDisturbances = 1

INVARIANTS
    TypeOK
    AppliedAsRegistered
    MigratedInOrder
    UpgradesAreBackedUp
    NewerIsNotOpened
PROPERTIES
    FailuresAreRetried
