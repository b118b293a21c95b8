SPECIFICATION BothSpec
CONSTANTS
    r1 = r1
    r2 = r2
    k1 = k1
    k2 = k2
    o1 = o1
    o2 = o2
    Scan = {s1, s2}
    Finalizer = {f1, f2}
    Tables <- TwoTables
    Key = {k1, k2}
    Result = {r1, r2}
    Rows <- TwoResults
    NoRow = NoRow
    Outcome = {o1, o2}
    Uploaded <- AnyJob
    Seeds <- SameDay
    NoScan = NoScan
    MaxFaults = 2
    ChunkRows = 1
    KeepRuns = 1
    Overlap = FALSE
INVARIANTS TypeOK FullIsExact CompletedRadar OutcomesRemembered
PROPERTY CommitSpec
SYMMETRY Symmetric
CHECK_DEADLOCK FALSE
