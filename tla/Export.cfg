CONSTANTS
    Records = 5
    MaxTerms = 1
    Broken = Broken
    RowPieces = 2
    BufferSize = 5
    CSVStreamInterval = 2
SPECIFICATION Spec
INVARIANT TypeOK
INVARIANT BodyIsFile
INVARIANT LossBounded
PROPERTY BothReturn
CHECK_DEADLOCK FALSE
