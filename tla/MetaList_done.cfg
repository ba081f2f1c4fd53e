\* Two servers on two pages: the queries of the first page end first.
SPECIFICATION Spec
CONSTANTS
    Servers = {1, 2}
    PageSize = 1
    MaxQueries = 1
    NoList = NoList
    MaxRefreshes = 1
    MaxChanges = 4
    MaxFaults = 0
INVARIANT
    DoneMeansWhole
CHECK_DEADLOCK FALSE
