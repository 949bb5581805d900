CONSTANTS
    listed = listed
    other = other
    Null = Null
    Terms = {"short_term", "medium_term", "long_term"}
    Engines = {"cost", "performance"}
    Kruize <- MCKruize
    MiB = 64
    GiB = 4096
    MaxPct = 400000
    MaxNow <- MCMaxNow
    ToShow = {listed}
SPECIFICATION Spec
INVARIANT ColumnsWhole
INVARIANT ChangesShown
INVARIANT StoredAsRecomputed
INVARIANT BlobShown
