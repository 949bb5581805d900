CONSTANTS
    Workloads = {w, n}
    NamespaceWorkloads = {n}
    Containers = {a}
    Namespace = ns
    Times <- OneTime
    HalfOf <- MCHalfOf
    Vals = {v}
    RowIds = {1}
    PollInterval = 24
    FirstDays <- FirstDay
    OmitEnd = FALSE
    Null = Null
    Pollers = {p1, p2}
    NoOwner = NoOwner
    Clusters = {k}
    ClusterOf <- OneCluster
    Poison = Poison
    NamespaceOff = {p2}
    Outlast = TRUE
    Hanging = {p1}
    Copies = {1}
    MaxMsgs = 2
SPECIFICATION FairSpec
INVARIANT HistoryCoversCurrent
PROPERTY EveryMessageHandled
