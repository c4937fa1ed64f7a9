SPECIFICATION FairSpec
CONSTANTS
    o1 = o1
    o2 = o2
    Row = {r1, r2}
    Id = {o1, o2}
    Doc <- MCMixed
    Publisher = {w1, w2}
    MAX_ATTEMPTS = 3
    BatchSize = 2
    MaxFaults = 2
CHECK_DEADLOCK FALSE
INVARIANTS
    PublishedIsOnStream
PROPERTIES
    RowsSettle
