CONSTANTS
    a = a
    b = b
    c1 = c1
    c2 = c2
    Workspace <- MCWorkspace
    Caller <- MCCaller
    Faults <- AllFaults
    Deletable <- OnlyA
    Reclaims = TRUE
    Free = Free
    Foreign = Foreign
    NoWs = NoWs
SPECIFICATION RuntimeSpec
INVARIANTS
    StoppingIsBeingStopped
PROPERTIES
    JobEnds
