CONSTANTS
    w1 = w1
    w2 = w2
    c1 = c1
    c2 = c2
    h1 = h1
    h2 = h2
    k1 = k1
    k2 = k2
    l1 = l1
    o1 = o1
    o2 = o2
    r1 = r1
    r2 = r2
    t1 = t1
    u1 = u1
    u2 = u2
    d1 = d1
    f1 = f1
    f2 = f2
    g1 = g1
    g2 = g2
    r3 = r3
    t2 = t2
    x1 = x1
    x2 = x2
    y1 = y1
    y2 = y2
    Workspace <- MCWorkspace
    Port <- MCPort
    DefaultPort = 1
    Subdomain <- MCSubdomain
    NoSubdomain = NoSubdomain
    NoClaim = NoClaim
    MaxToken = 1
    Faults <- MCFaults
    Caller <- MCCaller
    MaxEvents = 2
    PageLimits <- MCPageLimits
    MaxRevision = 5
    MaxRun = 2
    HCaller <- MCHCaller
    NoCaller = NoCaller
    Key <- MCKey
    Turn <- MCTurn
    Text <- MCText
    NoText = NoText
    MaxFile = 2
    MaxRecord = 2
    MaxCall = 3
    MaxFileEdit = 1
    MaxProvider = 1
    PageBytes = 4
    MaxEdit = 2
    Marker <- MCMarker
    Symbol <- MCSymbol
    MaxLen = 3
    MaxTurn = 2
    Hold = 1
    MinAnchor = 1
    MaxAnchor = 2
    MaxQueue = 2
    Op <- MCOp
    Login <- MCLogin
    Client <- MCClient
    BuiltIn = y1
    Address <- MCAddress
    Request <- MCRequest
    MaxSecret = 1
    None = None
    Path <- MCPath
    Protected <- MCProtected
    Critical <- MCCritical
    Line <- MCLine
    NoFile = NoFile
    Mismatch = Mismatch
    Patches <- MCPatches
    Windows = TRUE
    MaxFault = 2
    MaxForeign = 1
    Appender <- MCAppender
    Record <- MCRecord
    TornText = TornText
    PageSizes <- MCPageLimits
    MaxTorn = 1
    MaxRestart = 1
    Tool <- MCTool
    Task <- MCTask
    NoTask = NoTask
    Blank = Blank
    Mangled = Mangled
    MaxTree = 2
    MaxHead = 1
    MaxTool = 4
SPECIFICATION DesktopSpec
CONSTRAINT Explored
INVARIANTS
    TypesOK
    ClaimsDistinct
    SavedIsDurable
    FilesAreTrue
    UserValueKept
    StreamIsAnswer
    EndpointIsRight
    DestroyIsQuiet
PROPERTIES
    FollowersSeeAll
    GrantsAreSound
    RecordsHold
CHECK_DEADLOCK FALSE
