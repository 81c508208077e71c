SPECIFICATION FairSpec
CONSTANTS
    d1 = d1  w1 = w1  w2 = w2  k1 = k1  k2 = k2  none = none
    Docs <- OneDoc
    KBs <- TwoKBs
    Workers <- TwoWorkers
    None = none
    Faults <- Answering
INVARIANTS NoDuplicateChunks IndexedHasChunks CompletedJobIndexed
PROPERTIES RefinesIndex DocumentsSettle
\* Once every document has settled nothing is left to do.
CHECK_DEADLOCK FALSE
