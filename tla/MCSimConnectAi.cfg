SPECIFICATION Spec
CONSTANTS
    Ids = {1, 2, 3}
    MaxAircraft = 2
    MaxRequests = 3
INVARIANTS
    TypeOK
    NothingLeaks
    ObjectsMatchFlight
PROPERTY
    DiscardedObjectsAreRemoved
CHECK_DEADLOCK FALSE
