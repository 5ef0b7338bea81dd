CONSTANTS
    a = a
    b = b
    x = x
    c1 = c1
    c2 = c2
    Workspace <- NoWorkspace
    Port <- MCPort
    DefaultPort = 1
    Subdomain <- MCSubdomain
    NoSubdomain = NoSubdomain
    NoClaim = NoClaim
    MaxToken = 1
    Faults <- NoFaults
    Caller <- OneCaller
SPECIFICATION Spec
INVARIANTS
    ProcessIsKnown
