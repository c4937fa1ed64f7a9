---------------------------- MODULE MCActionParts ----------------------------
(***************************************************************************)
(* The action pipeline and the components beside it that have to make      *)
(* progress.  They share no state in these models: a behaviour exercises   *)
(* one of them, named by part, and leaves the others in their first state, *)
(* so that TLC explores the sum of their state spaces, not the product.    *)
(***************************************************************************)
EXTENDS MCActionPipeline, HypothesisEvaluation, ReportGeneration, UserSessions,
        CircuitBreaker, TenantProcessor

VARIABLE part

parts == <<part, vars, evalVars, repVars, sessVars, breakerVars, procVars>>

\* A step of component p: the others stay.
Only(p) ==
    /\ part = p
    /\ UNCHANGED part
    /\ IF p = "action" THEN TRUE ELSE UNCHANGED vars
    /\ IF p = "evaluation" THEN TRUE ELSE UNCHANGED evalVars
    /\ IF p = "reports" THEN TRUE ELSE UNCHANGED repVars
    /\ IF p = "sessions" THEN TRUE ELSE UNCHANGED sessVars
    /\ IF p = "breaker" THEN TRUE ELSE UNCHANGED breakerVars
    /\ IF p = "processor" THEN TRUE ELSE UNCHANGED procVars

\* A component with several first states keeps to one of them while another
\* is exercised.  One report type is broken: the one the cycle visits first,
\* so that it must go on to the next one, or the last one.
PartsInit ==
    /\ part \in {"action", "evaluation", "reports", "sessions", "breaker", "processor"}
    /\ Init /\ SessInit /\ BreakerInit /\ ProcInit
    /\ EvalInit /\ (part # "evaluation" => reliable)
    /\ RepInit /\ Cardinality(repBroken) = 1 /\ (part # "reports" => repBroken = {"json"})

\* Bound: the report cycle meets a request, a fault or a row beyond the page
\* of some paged store, one of them.
ReportBounds ==
    repCalls' + repFaults' + Cardinality({store \in PagedStores : repRows'[store] > RepPage}) <= 1

PartsNext ==
    \/ Only("action") /\ Next
    \/ Only("evaluation") /\ EvalNext
    \/ Only("reports") /\ RepNext /\ ReportBounds
    \/ Only("sessions") /\ SessNext
    \/ Only("breaker") /\ BreakerNext
    \/ Only("processor") /\ ProcNext

\* The fair actions of each component, spread over four names: as a behaviour
\* exercises one component only, weak fairness of their disjunction is weak
\* fairness of each.
Fair(x) ==
    \/ Only("action") /\ \/ x = "c1" /\ ConfidenceService
                         \/ x = "c2" /\ RecommendationService
                         \/ x = "c3" /\ DecisionService
    \/ Only("evaluation") /\ x = "clock" /\ EvaluatorStep
    \/ Only("reports") /\ x = "clock" /\ CycleStep
    \/ Only("sessions") /\ \/ x = "clock" /\ SessTick
                           \/ x \in SessClients /\ RefreshEnds(x)
    \/ Only("breaker") /\ \/ x = "clock" /\ BreakerTick
                          \/ x \in BreakerCallers /\ BreakerCall(x)
    \/ Only("processor") /\ x = "clock" /\ ProcNext

PartsSpec ==
    /\ PartsInit /\ [][PartsNext]_parts
    /\ \A x \in {"c1", "c2", "c3", "clock"} : WF_parts(Fair(x))
-----------------------------------------------------------------------------
McEvalTags == {{"p1", "p2"}, {"crit"}}

McReportTypes == <<"executive", "json">>
=============================================================================
