SPECIFICATION Spec
CONSTANTS
    t1 = t1
    t2 = t2
    t3 = t3
    Ticker = {t1, t2, t3}
    Worker = {w1}
    Special = {}
    Poison <- PoisonT1
    MaxFile = 1
    RankOf <- Ranking
    Top = 2
    BatchLimit = 2
    MaxAttempts = 3
    MaxDepth = 1
    WallClock = 1
    RetryDelay = 1
    StaleAfter = 1
    SeedStaleAfter = 2
    AnyCrash = FALSE
    LossyReplies = FALSE
INVARIANTS FailedWasTried
