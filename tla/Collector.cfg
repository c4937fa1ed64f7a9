SPECIFICATION FairSpec
CONSTANTS
    lockout = lockout  change = change  late = late
    Obs = {lockout, change, late}
    CapturedAt <- MCCapturedAt
    Window = 1
    Evidence <- MCEvidence
    Organize <- MCOrganize
    Cites <- MCCites
    Collector = {c1, c2}
    Count = 2
    MaxEntries = 3
    MaxFaults = 1
INVARIANTS
    AckedIsPersisted
    EvidenceIsBacked
PROPERTIES
    NothingForgotten
