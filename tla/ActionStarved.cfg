SPECIFICATION FairSpec
CONSTANTS
    Support <- McSupport
    MinCommit = 7500
    MinIrreversible = 9000
    AllowedRisk = {"low", "medium", "high"}
    Bins = 10
    BatchSize = 1
    PageSize = 3
    MaxEvidence = 2
    MaxHypotheses = 2
    MaxReports = 0
    MaxFaults = 0
PROPERTY EventuallyCalibrated
