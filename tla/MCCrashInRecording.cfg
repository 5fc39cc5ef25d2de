SPECIFICATION Spec

CONSTANTS
    Faults = {"crash"}
    HasShortcuts = FALSE
    TimeMode = FALSE

PROPERTIES
    RecordingGetsSamples
