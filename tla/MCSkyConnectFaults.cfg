SPECIFICATION FairSpec

CONSTANTS
    Faults = {"crash", "quit", "setup", "reconnect"}
    HasShortcuts = TRUE
    TimeMode = TRUE

INVARIANTS
    TypeOK
    NoForgottenSubscription
PROPERTIES
    SessionEndsSilently
    Reconnects
