CONSTANTS
    a = a
    b = b
    g1 = g1
    Workspace <- MCWorkspace
    Guard <- MCGuard
    ObservedCounts <- MCObserved
    MaxCount = 1
    NoWork = NoWork
    Caller <- MCCaller
    Faults <- ListenerFaults
    CallFaults <- SaveFault
    Deletable <- OnlyB
    BootChoice <- OnlyA
    Reclaims = TRUE
    Free = Free
    Foreign = Foreign
    NoWs = NoWs
SPECIFICATION FairSpec
PROPERTIES
    CallEnds
    GateReopens
