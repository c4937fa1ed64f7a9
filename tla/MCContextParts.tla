--------------------------- MODULE MCContextParts ---------------------------
(***************************************************************************)
(* The context service and the components beside it that share no state   *)
(* with it or with each other: a behaviour exercises one of them, named by *)
(* part, and leaves the others in their first state.  TLC so explores the  *)
(* sum of their state spaces, not the product.                             *)
(***************************************************************************)
EXTENDS ContextActivation, LearningSignals, CognitiveTrace, GatewayReads,
        AccessRules, EvidenceRules, RateWindow, DecisionLifecycle, MemoryLedger

VARIABLE part

parts == <<part, vars, sigVars, traceVars, listVars, gateVars, ruleVars, rateVars,
           lifeVars, ledgerVars>>

\* A step of component p: the others stay.
Only(p) ==
    /\ part = p
    /\ UNCHANGED part
    /\ IF p = "context" THEN TRUE ELSE UNCHANGED vars
    /\ IF p = "signals" THEN TRUE ELSE UNCHANGED sigVars
    /\ IF p = "trace" THEN TRUE ELSE UNCHANGED traceVars
    /\ IF p = "lists" THEN TRUE ELSE UNCHANGED listVars
    /\ IF p = "gate" THEN TRUE ELSE UNCHANGED gateVars
    /\ IF p = "rules" THEN TRUE ELSE UNCHANGED ruleVars
    /\ IF p = "rate" THEN TRUE ELSE UNCHANGED rateVars
    /\ IF p = "lifecycle" THEN TRUE ELSE UNCHANGED lifeVars
    /\ IF p = "ledger" THEN TRUE ELSE UNCHANGED ledgerVars

\* A component with several first states keeps to one of them while another
\* is exercised.  The two values of a column that nobody updates can be
\* exchanged in every step, so the console asks for one of them.
PartsInit ==
    /\ part \in {"context", "signals", "trace", "lists", "gate", "rules", "rate",
                 "lifecycle", "ledger"}
    /\ Init /\ (part # "context" => \A a \in Activator : act[a] = Fresh("idle"))
    /\ SigInit
    /\ TraceInit /\ (part # "trace" => traceStored = TraceRows \cup {TraceReport})
    /\ ListInit /\ (part # "lists" => listWalk.list = "decisions" /\ listWalk.sort = "desc"
                                           /\ listWalk.col = NoFilter)
    /\ IsLive \/ listWalk.want = "a"
    /\ GateInit /\ (part # "gate" => ~gateRevoked /\ gateAdapter = "store")
    /\ RuleInit /\ (part # "rules" => scene = CHOOSE s \in RuleScenes : TRUE)
    /\ RateInit /\ (part # "rate" => rateBackend = "redis")
    /\ LifeInit /\ (part # "lifecycle" => learning = "h3")
    /\ LedgerInit

PartsNext ==
    \/ Only("context") /\ Next
    \/ Only("signals") /\ SigNext
    \/ Only("trace") /\ TraceNext
    \/ Only("lists") /\ ListNext
    \/ Only("gate") /\ GateNext
    \/ Only("rules") /\ RuleNext
    \/ Only("rate") /\ RateNext
    \/ Only("lifecycle") /\ LifeNext
    \/ Only("ledger") /\ LedgerNext

\* The fairness of the context service, for the behaviours that exercise it.
PartsSpec ==
    /\ PartsInit /\ [][PartsNext]_parts
    /\ \A a \in Activator : WF_parts(Only("context") /\ (Cycle(a) \/ Restart(a)))
-----------------------------------------------------------------------------
\* Tables of two patterns of two contexts, two hypotheses, two decisions, and
\* three recommendations, contexts and insights, one more than a page holds.
McPatContext == <<1, 2>>
McHypPatterns == <<{1}, {1, 2}>>
McRecHypothesis == <<1, 2, 1>>
McRecInsight == <<0, 2, 1>>
McDecRec == <<1, 2>>
McDecPositive == <<TRUE, FALSE>>

\* A report about two decisions on one recommendation; the hypothesis expects
\* one pattern and its anomaly deviates from another.
McTraceRows == {"d1", "d2", "r1", "c1", "h1", "a1", "p1", "p2", "x1", "e1", "o1"}
McTraceTypeOf ==
    [d1 |-> "decision", d2 |-> "decision", r1 |-> "recommendation", c1 |-> "confidence",
     h1 |-> "hypothesis", a1 |-> "anomaly", p1 |-> "pattern", p2 |-> "pattern",
     x1 |-> "context", e1 |-> "evidence", o1 |-> "observation"]
McTraceRefs ==
    [rep |-> [decision_traces |-> {"d1", "d2"}],
     d1 |-> [recommendation_id |-> {"r1"}, confidence_id |-> {"c1"}],
     d2 |-> [recommendation_id |-> {"r1"}, confidence_id |-> {"c1"}],
     r1 |-> [hypothesis_id |-> {"h1"}, confidence_id |-> {"c1"}],
     c1 |-> [target_id |-> {"h1"}],
     h1 |-> [anomaly_ids |-> {"a1"}, pattern_ids |-> {"p1"}],
     a1 |-> [pattern_id |-> {"p2"}, context_id |-> {"x1"}],
     p1 |-> [context_id |-> {"x1"}], p2 |-> [context_id |-> {"x1"}],
     x1 |-> [evidence_ids |-> {"e1"}], e1 |-> [observation_ids |-> {"o1"}], o1 |-> [none |-> {}]]

McGateTargets == {[type |-> "hypothesis", id |-> "x1"], [type |-> "decision", id |-> "x2"]}
-----------------------------------------------------------------------------
Ob(kind, src, key, at, val, q) ==
    [kind |-> kind, src |-> src, tenant |-> IF src = "s3" THEN "t2" ELSE "t1",
     key |-> key, at |-> at, val |-> val, q |-> q]

\* One scene of observations per rule: values out of order and out of the
\* window, a free space of zero, two sources, two tenants, and a source that
\* two tenants have in common.
McScenes == {
    {Ob("cpu", "s1", "", 0, 95, 1), Ob("cpu", "s1", "", 3, 99, 1), Ob("memory", "s1", "", 1, 90, 2),
     Ob("disk_free", "s1", "c", 1, 5, 1), Ob("disk_free", "s1", "c", 2, 0, 1),
     Ob("disk_free", "s1", "c", 2, 40, 1),
     Ob("disk_total", "s1", "c", 1, 100, 1)},
    {Ob("service_stopped", "s1", "a", 0, 1, 1), Ob("event_error", "s1", "b", 1, 1, 1),
     Ob("event_error", "s1", "a", 2, 1, 1), Ob("service_stopped", "s2", "a", 1, 1, 1)},
    {Ob("lockout", "s1", "", 0, 1, 1), Ob("lockout", "s3", "", 2, 1, 1),
     Ob("membership_change", "s2", "", 3, 1, 1), Ob("membership_change", "s2", "", 5, 1, 1),
     Ob("lockout", "s2", "", 4, 1, 1)},
    {Ob("job_failed", "s1", "", 0, 1, 1), Ob("job_failed", "s1", "", 4, 1, 1),
     Ob("repo", "s1", "r", 2, 20, 1), Ob("repo_free", "s1", "q", 3, 5, 1),
     Ob("repo_total", "s1", "q", 3, 100, 1)},
    {Ob("datastore", "s1", "", 0, 10, 1), Ob("datastore_free", "s2", "d", 2, 5, 1),
     Ob("datastore_total", "s2", "d", 2, 100, 1), Ob("snapshot", "s1", "", 1, 9, 1),
     Ob("snapshot", "s2", "", 3, 7, 1)},
    {Ob("interface_errors", "s1", "", 0, 150, 1), Ob("interface_errors", "s1", "", 2, 200, 1),
     Ob("port_change", "s1", "", 1, 1, 1), Ob("port_change", "s1", "", 4, 1, 1),
     [Ob("port_change", "s1", "", 2, 1, 1) EXCEPT !.tenant = "t2"]}}

McWindowOf == [resource |-> 1, service |-> 1, auth |-> 3, backup |-> 3, vmware |-> 2, network |-> 1]
=============================================================================
