SPECIFICATION Spec

CONSTANTS
    MaxValue = 4
    MaxCalls = 6
    Hazards = {"unasked"}

PROPERTIES
    UnaskedIsUntouched
