SPECIFICATION PartsSpec
CONSTANTS
    Support <- McSupport
    MinCommit = 7500
    MinIrreversible = 9000
    AllowedRisk = {"low", "medium", "high"}
    Bins = 10
    BatchSize = 1
    PageSize = 3
    MaxEvidence = 2
    MaxHypotheses = 2
    MaxReports = 2
    MaxFaults = 1
    EvalTags <- McEvalTags
    EvalBatch = 1
    EvalConfPage = 1
    MaxEvalEvidence = 2
    MaxEvalHypotheses = 2
    MaxEvalScores = 1
    MaxEvalFaults = 1
    ReportTypes <- McReportTypes
    RepClients = {"r1"}
    RepPage = 1
    MaxRepDays = 2
    MaxRepDecs = 2
    MaxRepRows = 2
    MaxRepCalls = 1
    MaxRepFaults = 1
    Accounts = {"root", "ann"}
    AccountTenants = {"t1"}
    AccountRoles = {"viewer"}
    FirstAccount = "root"
    SessClients = {"c1", "c2"}
    MaxPairs = 2
    AccessLife = 1
    RefreshLife = 2
    MinRevokeTTL = 1
    BreakerCallers = {"c1", "c2", "c3"}
    FailureThreshold = 2
    ResetTimeout = 2
    MaxCancels = 1
    MaxConcurrent = 2
    TenantBatch = 2
    TenantCount = 3
    MaxProcCalls = 2
INVARIANTS
    ScopeIsolation
    DecisionGrounded
    VerdictsSound
    ReportsSound
    ProcessorSound
PROPERTIES
    EverythingFollowedUp
    ContradictionDecides
    EventuallyReported
    SessionsSound
    LockedOut
    TestCallSettles
    CircuitRecovers
    ProcessAllEnds
