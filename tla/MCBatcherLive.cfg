SPECIFICATION FairSingleSpec
CONSTANTS
    Goroutine = {g1, g2, g3}
    Param = {p1, p2}
    NoParam = NoParam
    Subscriber = {}
    MaxBatchSize = 2
    MaxParams = 1
    MaxList = 1
    CacheResults = FALSE
    PublishResults = FALSE

PROPERTIES EveryCallReturns
CHECK_DEADLOCK FALSE
