SPECIFICATION FairSpec
CONSTANTS
    lockout = lockout  change = change  late = late
    Obs = {lockout, change, late}
    CapturedAt <- MCCapturedAt
    Window = 1
    Evidence <- MCEvidence
    Organize <- MCOrganize
    Cites <- MCCites
    Collector = {c1}
    Count = 2
    MaxEntries = 3
    MaxFaults = 2
PROPERTIES FailuresAreRetried
