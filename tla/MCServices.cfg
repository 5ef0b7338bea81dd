CONSTANTS
    a = a
    i1 = i1
    j1 = j1
    j2 = j2
    k1 = k1
    k2 = k2
    p1 = p1
    p2 = p2
    p3 = p3
    q1 = q1
    s1 = s1
    s2 = s2
    x = x
    Session <- MCSession
    Client <- MCClient
    NoSession = NoSession
    Instance <- MCInstance
    Pid <- MCPid
    NoPid = NoPid
    Free = Free
    Dead = Dead
    Workspace <- MCWorkspace
    Subdomain <- MCSubdomain
    Invalid = "Invalid"
    Cloudflare = "Cloudflare"
    Off = "Off"
    NoConfig = NoConfig
    Caller <- MCCaller
    NoWs = NoWs
    Choices <- MCChoices
    Installer <- MCInstaller
SPECIFICATION ServicesSpec
INVARIANTS
    TypesOK
    RunningIsCovered
    ReasonIsTrue
    NoneForgotten
    OkMeansWhole
PROPERTIES
    AnswersAreTrue
    EverythingEnds
CHECK_DEADLOCK FALSE
