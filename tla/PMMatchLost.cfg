CONSTANTS
    Instances <- MCInstances
    HasId <- MCInstances
    Procs <- MCProcs
    SelfProc = 1
    NMetrics = 3
    ByCommandline <- MCByCommandline
    Pid <- MCPid
    Match <- MCLateMatch
    Denied <- MCNoneDenied
    None = None

SPECIFICATION Spec

PROPERTY MatchSurvivesExits
