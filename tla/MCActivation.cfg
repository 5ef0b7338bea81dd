CONSTANTS
    a = a
    b = b
    g1 = g1
    Workspace <- MCWorkspace
    Guard <- MCGuard
    ObservedCounts <- MCObserved
    MaxCount = 1
    NoWork = NoWork
    Caller <- MCCaller
    Faults <- ServiceFaults
    CallFaults <- AllCallFaults
    Deletable <- NoFaults
    BootChoice <- NoFaults
    Reclaims = FALSE
    Free = Free
    Foreign = Foreign
    NoWs = NoWs
SPECIFICATION Spec
INVARIANTS
    TypeOK
    RunningOwnsPort
    ServedIsActive
PROPERTIES
    ReportsAreTrue
    ImplementsActivity
