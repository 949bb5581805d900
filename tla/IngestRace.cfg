CONSTANTS
    e = e
    f = f
    a = a
    b = b
    Processors = {p, q}
    NoOwner = NoOwner
    Aliases = {a, b}
    Exps <- MCExps
    Settings <- Disturbed
    Poison = Poison
    ChunkSize = 2
    MaxMsgs = 2
    MaxIds = 2
SPECIFICATION Spec
SYMMETRY Symmetry
INVARIANT TypeOK
INVARIANT OnlyReportInHandLost
PROPERTY FeedSpec
INVARIANT MetricsAccounted
INVARIANT RowsKeepExperiment
