SPECIFICATION BothSpec
CONSTANTS
    r1 = r1
    r2 = r2
    k1 = k1
    k2 = k2
    o1 = o1
    o2 = o2
    Scan = {s1}
    Finalizer = {f1, f2}
    Tables <- TwoTables
    Key = {k1, k2}
    Result = {r1, r2}
    Rows <- SameSize
    NoRow = NoRow
    Outcome = {o1, o2}
    Uploaded <- Nothing
    Seeds <- SameDay
    NoScan = NoScan
    MaxFaults = 0
    ChunkRows = 1
    KeepRuns = 1
    Overlap = TRUE
INVARIANT FullIsExact
CHECK_DEADLOCK FALSE
