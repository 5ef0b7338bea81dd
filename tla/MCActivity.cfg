CONSTANTS
    a = a
    b = b
    g1 = g1
    g2 = g2
    g3 = g3
    Workspace <- MCWorkspace
    Guard <- MCGuard
    ObservedCounts <- MCObserved
    MaxCount = 3
    NoWork = NoWork
SPECIFICATION Spec
INVARIANTS
    CountersMatchGuards
    GrantIsQuiet
    GateFollowsDrainer
    NoIdleEntries
PROPERTIES
    ImplementsWorkGate
SYMMETRY Symmetry
