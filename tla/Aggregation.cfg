CONSTANTS
    Files <- MCFiles
    Lower <- MCLower
    Missing = Missing
    BadTime = BadTime
SPECIFICATION Spec
INVARIANT Accounted
INVARIANT RequestsWhole
INVARIANT TimesCost
INVARIANT MetricsFollowResults
