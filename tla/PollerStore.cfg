CONSTANTS
    Workloads = {w}
    NamespaceWorkloads = {}
    Containers = {a, b}
    Namespace = ns
    Times <- AroundFirst
    HalfOf <- MCHalfOf
    Vals = {v}
    RowIds = {1, 2}
    PollInterval = 24
    FirstDays <- FirstDay
    OmitEnd = FALSE
    Null = Null
    Pollers = {p}
    NoOwner = NoOwner
    Clusters = {k}
    ClusterOf <- OneCluster
    Poison = Poison
    NamespaceOff = {}
    Outlast = FALSE
    Hanging = {}
    Copies = {0, 1, 2}
    MaxMsgs = 2
SPECIFICATION Spec
PROPERTY StoreSpec
PROPERTY FirstRowAdvances
