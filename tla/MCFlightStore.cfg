SPECIFICATION Spec

CONSTANTS
    Data = {0, 1}
    Titles = {0,1}
    Hazards = {"storeAircraft", "import", "delete", "edit"}
    MaxFlights = 2
    MaxRows = 3
    MaxAircraft = 3

INVARIANTS
    TypeOK
    LogbookConsistent
    IndicesExist
    StoreAgrees
PROPERTIES
    ImplementsLogbook
    EditsStayInFlight
