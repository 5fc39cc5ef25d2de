SPECIFICATION Spec

CONSTANTS
    Data = {0, 1}
    Titles = {0}
    Hazards = {"editCleared"}
    MaxFlights = 1
    MaxRows = 2
    MaxAircraft = 2

PROPERTY
    EditsStayInFlight
