SPECIFICATION FairSpec
CONSTANTS
    t1 = t1
    t2 = t2
    t3 = t3
    Job = {j1, j2, j3}
    Run = {r1}
    Ticker = {t1, t2, t3}
    Universe <- ThreeTickers
    Shortlists <- AnyShortlist
    DeepStages = {"NEWS_SHORTLIST", "IDX_FUNDAMENTAL_SHORTLIST"}
    OfficialLimit = 1
    ChunkSize = 2
    KeepTerminal = 1
    Beats = 1
INVARIANT NothingLost
PROPERTIES ForwardOnly PruneSparesTheNewest JobEnds
CHECK_DEADLOCK FALSE
