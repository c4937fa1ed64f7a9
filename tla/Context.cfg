SPECIFICATION PartsSpec
CONSTANTS
    Purpose = {health, security}
    Activator = {a1, a2}
    MaxEvidence = 3
    MaxFaults = 2
    NoOne = NoOne
    CtxRows = 3
    InsRows = 3
    PatContext <- McPatContext
    HypPatterns <- McHypPatterns
    RecHypothesis <- McRecHypothesis
    RecInsight <- McRecInsight
    DecRec <- McDecRec
    DecPositive <- McDecPositive
    SigPage = 2
    TraceRows <- McTraceRows
    TraceTypeOf <- McTraceTypeOf
    TraceRefs <- McTraceRefs
    TraceReport = "rep"
    MaxTraceMissing = 3
    WalkedLists = {"observations", "evidence", "contexts", "patterns", "anomalies", "insights", "confidence", "decisions", "reports", "audit"}
    ListLimit = 1
    FacetTTL = 1
    MaxListRows = 3
    MaxListMoves = 1
    GateTenants = {"t1", "t2"}
    GateOwn = "t1"
    GateConfidences = {"c1"}
    GateTargets <- McGateTargets
    RuleScenes <- McScenes
    WindowOf <- McWindowOf
    RateServers = {"s1", "s2"}
    MaxRequests = 2
    RateWindowLen = 3
    KeyBuffer = 1
    MaxDelay = 1
    LifeClients = {"c1", "c2"}
    OutClients = {"o1"}
    ExecTimes = {1, 2}
    ExecKinds = {"executed", "cancelled"}
    MaxLifeFaults = 1
    LedgerCallers = {"l1", "l2"}
    LedgerSignals = {"s1", "s2"}
    MaxPersists = 4
    MaxLedgerFaults = 1
INVARIANTS
    AtMostOneActive
    IndexNeverTripped
    NeverZeroActive
    SignalsSound
    TraceTruthful
    AuthorityConsistent
    RulesCorrect
    LifecycleTrue
    AnswerMeansStored
PROPERTIES
    EventuallyCurrent
    ListsHonest
    LimitKept
