CONSTANTS
    t1 = t1  t2 = t2  p1 = p1  p2 = p2  d1 = d1  d2 = d2
    Transfers = {t1, t2}
    PRanks = {p1}
    DRanks = {d1}
    Pairs <- Pairs11
    NumWorkers = 1
    Kinds = {"blocks"}
    Faults = {"drop", "expire", "wait_timeout", "write", "recv_timeout"}
    PSize = 2  DSize = 2
    RankOf <- Ranks11
    Cases <- AllCases
SPECIFICATION FairSpec
INVARIANTS TypeOK OwnerKnown
PROPERTIES EveryPullEnds HandOffCompletes
CHECK_DEADLOCK FALSE
