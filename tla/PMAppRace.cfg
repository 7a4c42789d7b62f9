CONSTANTS
    Instances <- MCInstances
    HasId <- MCInstances
    Procs <- MCProcs
    SelfProc = 1
    NMetrics = 3
    ByCommandline <- MCByCommandline
    Pid <- MCRacePid
    Match <- MCMatch
    Denied <- MCDenied
    None = None

SPECIFICATION Spec


INVARIANT AppIsOwnId
