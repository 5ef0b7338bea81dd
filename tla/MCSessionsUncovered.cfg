CONSTANTS
    s1 = s1
    c1 = c1
    c2 = c2
    Session <- OneSession
    Caller <- MCCallers
    Ops <- TurnsAndCancel
    Stored <- NoSessions
    Faults <- Quiet
    MaxTurn = 2
    MaxGen = 1
SPECIFICATION Spec
INVARIANTS
    TurnIsGuarded
CHECK_DEADLOCK FALSE
