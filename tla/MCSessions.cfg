CONSTANTS
    s1 = s1
    c1 = c1
    c2 = c2
    Session <- OneSession
    Caller <- MCCallers
    Ops <- Everything
    Stored <- OneSession
    Faults <- OneProcess
    MaxTurn = 2
    MaxGen = 1
SPECIFICATION Spec
INVARIANTS
    TypeOK
    GuardCoversTurn
    ShownState
    BusyMeansTurn
    PendingIsCurrent
CHECK_DEADLOCK FALSE
CONSTRAINT GuardsKept
