SPECIFICATION Spec

CONSTANTS
    Factors = {1, 2, 4}
    Normal = 2
    Hazards = {}
    MaxDuration = 3
    MaxTime = 8

PROPERTIES
    ImplementsPlayback
