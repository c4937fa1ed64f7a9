SPECIFICATION FairSpec
CONSTANTS
    Model <- McModel
    MinOccurrences <- McMinOccurrences
    MaxActivations <- McMaxActivations
    Templates <- McTemplates
    Clustering = {"service_failure"}
    Window = 48
    PageSize = 500
    MaxContexts = 3
    Step = 24
    MaxTime = 48
    MaxFaults = 1
INVARIANTS
    OneHypothesisPerTemplate
PROPERTIES
    EverythingDerived
