CONSTANTS
    Ids = {1, 2, 3}
    Keys = {0, 1}
    Null = Null
    Absent = Absent
    NoLink = NoLink
    Requests <- Asked
    DefaultLimit = 2
    RecordLimitCSV = 3
    MaxWrites = 2
SPECIFICATION Spec
INVARIANT TypeOK
INVARIANT WalkExact
INVARIANT UnmovedSeen
PROPERTY WalkEnds
