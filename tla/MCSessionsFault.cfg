CONSTANTS
    s1 = s1
    c1 = c1
    c2 = c2
    Session <- OneSession
    Caller <- MCCallers
    Ops <- TurnsAndCancels
    Stored <- NoSessions
    Faults <- Failing
    MaxTurn = 2
    MaxGen = 2
SPECIFICATION FairSpec
PROPERTIES
    CallEnds
    GuardReleased
CHECK_DEADLOCK FALSE
