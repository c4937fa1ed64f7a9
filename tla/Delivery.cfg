SPECIFICATION Spec
CONSTANTS
    p1 = p1
    p2 = p2
    p3 = p3
    Installation = {i1, i2}
    BatchId = {b1}
    Payload = {p1, p2}
    Malformed = {}
    Handler = {h1, h2}
    FactTypes <- MCFactTypes
    Publisher = {w1}
    MAX_ATTEMPTS = 2
    BatchSize = 1
    MaxFaults = 0
SYMMETRY Symmetry
INVARIANTS
    IngestSound
PROPERTIES
    NoLostUpdate
    ImplementsPublisher
