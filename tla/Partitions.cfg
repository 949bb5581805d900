CONSTANTS
    LastMonth = 6
    Start <- CommonYear
    Retention = 15
    FirstNow = 105
    LastNow = 160
    Lags = {0, 1}
    Spans = {0, 13}
    None = None
SPECIFICATION Spec
INVARIANT TypeOK
INVARIANT ReportsFit
PROPERTY YoungKept
PROPERTY OldGone
