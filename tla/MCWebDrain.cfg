CONSTANTS
    o1 = o1
    o2 = o2
    Op <- MCOp
SPECIFICATION WebSpec
INVARIANTS
    StaleThreadServed
CHECK_DEADLOCK FALSE
