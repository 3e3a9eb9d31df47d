SPECIFICATION FairSpec
CONSTANTS
    MaxSessions = 2
    MaxRetries = 3
    Width = 2
    OverflowPanics = FALSE
    NoSession = NoSession
CHECK_DEADLOCK FALSE
INVARIANTS
    ConnectionAnnounced
PROPERTIES
    KeepsTrying
    StopEndsConnection
