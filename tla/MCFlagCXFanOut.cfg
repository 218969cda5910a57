CONSTANTS
    t1 = t1  t2 = t2  p1 = p1  p2 = p2  d1 = d1  d2 = d2
    Transfers = {t1}
    PRanks = {p1}
    DRanks = {d1, d2}
    Pairs <- Pairs12
    NumWorkers = 2
    Kinds = {"blocks", "empty"}
    Faults = {"drop", "expire", "wait_timeout", "write", "recv_timeout"}
    PSize = 2  DSize = 4
    RankOf <- Ranks12
    Cases <- AllCases
SPECIFICATION FairSpec
INVARIANTS WritesFromHeldBlocks SentWhole ReportedOnce
PROPERTY BlocksReleased
CHECK_DEADLOCK FALSE
