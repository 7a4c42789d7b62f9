CONSTANTS
    Conns <- MCConns
    Columns <- MCColumns
    EmitOrder <- MCEmitOrder
    MaxStat = 2
    ResetStamp = ResetStamp
    None = None


SPECIFICATION Spec

INVARIANT ClosedBetweenCycles
