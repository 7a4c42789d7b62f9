CONSTANTS
    Instances <- MCInstances
    HasId <- MCInstances
    Procs <- MCProcs
    SelfProc = 1
    NMetrics = 3
    ByCommandline <- MCByCommandline
    Pid <- MCPid
    Match <- MCMatch
    Denied <- MCDenied
    None = None

SPECIFICATION Spec

INVARIANT TypeOK
INVARIANT EmissionsFormPrefix
