CONSTANTS
    t1 = t1  t2 = t2  p1 = p1  p2 = p2  d1 = d1  d2 = d2
    Transfers = {t1}
    PRanks = {p1}
    DRanks = {d1}
    Pairs <- Pairs11
    NumWorkers = 1
    Kinds = {"blocks"}
    Faults = {"expire", "slow"}
    PSize = 2  DSize = 2
    RankOf <- Ranks11
    Cases <- AllCases
SPECIFICATION Spec
PROPERTY NoExpiryWhileSending
CHECK_DEADLOCK FALSE
