SPECIFICATION Spec
CONSTANTS
    t1 = t1
    t2 = t2
    t3 = t3
    Ticker = {t1, t2}
    Worker = {w1, w2}
    Special = {}
    Poison <- None
    MaxFile = 2
    RankOf <- RankingOfTwo
    Top = 1
    BatchLimit = 2
    MaxAttempts = 2
    MaxDepth = 1
    WallClock = 1
    RetryDelay = 1
    StaleAfter = 1
    SeedStaleAfter = 2
    AnyCrash = TRUE
    LossyReplies = FALSE
INVARIANTS TypeOK WaitingIsClaimable CompleteHasEvidence FinalRankingIsCurrent
PROPERTIES VerdictStands
