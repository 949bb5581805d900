CONSTANTS
    e = e
    f = f
    a = a
    b = b
    Processors = {p}
    NoOwner = NoOwner
    Aliases = {a}
    Exps <- MCExps
    Settings <- Restarting
    Poison = Poison
    ChunkSize = 2
    MaxMsgs = 1
    MaxIds = 2
SPECIFICATION FairSpec
INVARIANT ResultsBeforeRequest
PROPERTY EveryReportEnds
