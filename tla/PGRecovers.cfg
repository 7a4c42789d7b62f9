CONSTANTS
    Conns <- MCConns
    Columns <- MCColumns
    EmitOrder <- MCEmitOrder
    MaxStat = 2
    ResetStamp = ResetStamp
    None = None


SPECIFICATION FairSpec

PROPERTY RecoversAfterOutage
