\* Two servers on two pages, a bad network and a user who asks twice.
SPECIFICATION FairSpec
CONSTANTS
    Servers = {1, 2}
    PageSize = 1
    MaxQueries = 1
    NoList = NoList
    MaxRefreshes = 2
    MaxChanges = 3
    MaxFaults = 1
INVARIANTS
    UndisturbedListIsWhole
    QueriesUnderWay
PROPERTY
    ExchangeEnds
CHECK_DEADLOCK FALSE
