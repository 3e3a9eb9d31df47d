SPECIFICATION FairSpec
CONSTANTS
    c1 = c1
    c2 = c2
    m1 = m1
    m2 = m2
    m3 = m3
    MaxSessions = 2
    Channels = {c1, c2}
    Messages = {m1, m2, m3}
    In <- TwoAndOne
    Garbled = {m2}
    NoSession = NoSession
CHECK_DEADLOCK FALSE
INVARIANTS
    HandledOnce
PROPERTIES
    StopTakesEffect
