CONSTANTS
    Workloads = {w}
    NamespaceWorkloads = {}
    Containers = {a}
    Namespace = ns
    Times <- AcrossFirst
    HalfOf <- MCHalfOf
    Vals = {v, u}
    RowIds = {1}
    PollInterval = 24
    FirstDays <- FirstDay
    OmitEnd = TRUE
    Null = Null
    Pollers = {p1, p2}
    NoOwner = NoOwner
    Clusters = {k}
    ClusterOf <- OneCluster
    Poison = Poison
    NamespaceOff = {}
    Outlast = TRUE
    Hanging = {}
    Copies = {0, 1, 2}
    MaxMsgs = 2
SPECIFICATION Spec
SYMMETRY Symmetry
INVARIANT TypeOK
INVARIANT CommitSettled
INVARIANT NoSilentSkip
INVARIANT HistoryCoversCurrent
INVARIANT NoOrphanRows
INVARIANT ContainerEndNeverZero
PROPERTY CommittedMonotone
