CONSTANTS
    u1 = u1
    u2 = u2
    web = web
    webserver = webserver
    Uuids = {u1, u2}
    Names = {web, webserver}
    Like <- Occurs
    TypeNames = {web, webserver}
    Empty = Empty
    Bad = Bad
    MaxCount = 2
    Requests <- AboutClusters
    Now = 9
    FirstOfMonth = 2
    Times = {2, 3, 4, 5, 6, 7, 8, 9}
SPECIFICATION Spec
INVARIANT ExactHolds
