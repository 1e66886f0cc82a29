SPECIFICATION MCSpec
CONSTANTS
    Goroutine = {g1, g2, g3}
    Param = {p1, p2}
    NoParam = NoParam
    Subscriber = {s1}
    MaxBatchSize = 2
    MaxParams = 1
    CacheResults = TRUE
    PublishResults = TRUE
    MaxList = 2
SYMMETRY Symmetry
INVARIANTS
    SubmittedExactlyOnce
    PublishedBeforeDone
    BatchBounded
    AnswerForOwnParam
PROPERTIES
    ClosedIsFrozen
    CacheIsStable
CHECK_DEADLOCK FALSE
