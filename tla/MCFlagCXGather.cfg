CONSTANTS
    t1 = t1  t2 = t2  p1 = p1  p2 = p2  d1 = d1  d2 = d2
    Transfers = {t1}
    PRanks = {p1, p2}
    DRanks = {d1}
    Pairs <- Pairs21
    NumWorkers = 1
    Kinds = {"blocks", "empty", "short"}
    Faults = {"drop", "expire", "wait_timeout", "write", "recv_timeout"}
    PSize = 4  DSize = 2
    RankOf <- Ranks21
    Cases <- AllCases
SPECIFICATION Spec
INVARIANT ReceivedWhole
PROPERTY HandOff
CHECK_DEADLOCK FALSE
