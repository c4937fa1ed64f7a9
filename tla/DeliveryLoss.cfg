SPECIFICATION FairSpec
CONSTANTS
    p1 = p1
    p2 = p2
    p3 = p3
    Installation = {i1}
    BatchId = {b1}
    Payload = {p1}
    Malformed = {}
    Handler = {h1}
    FactTypes <- MCFactTypes
    Publisher = {w1}
    MAX_ATTEMPTS = 5
    BatchSize = 10
    MaxFaults = 0
CHECK_DEADLOCK FALSE
PROPERTY
    AcceptedReachesStream
