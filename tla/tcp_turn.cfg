SPECIFICATION FairSpec
CONSTANTS
    Scripts <- Handshake
    Faults = FALSE
PROPERTY ScriptEnds
CHECK_DEADLOCK FALSE
