SPECIFICATION Spec
CONSTANTS
    t1 = t1
    t2 = t2
    t3 = t3
    Job = {j1, j2}
    Run = {r1, r2}
    Ticker = {t1, t2}
    Universe <- TwoTickers
    Shortlists <- OneShortlist
    DeepStages = {"NEWS_SHORTLIST", "IDX_FUNDAMENTAL_SHORTLIST"}
    OfficialLimit = 1
    ChunkSize = 1
    KeepTerminal = 1
    Beats = 1
PROPERTIES HeartbeatOnlyReports
CHECK_DEADLOCK FALSE
