------------------------- MODULE ReasoningPipeline -------------------------
(***************************************************************************)
(* The reasoning services of one tenant: the pattern, anomaly, hypothesis  *)
(* and insight services, four processes that poll one database.            *)
(*                                                                         *)
(* In every cycle a service reads several tables, one SELECT after the     *)
(* other, derives candidates with a pure function and inserts them one by  *)
(* one, ON CONFLICT (id) DO NOTHING, each in a transaction of its own.     *)
(* Every table is append-only, so what a SELECT returned is the number of  *)
(* rows the table had; rows are named by their place in the table, which   *)
(* is the order of detected_at and generated_at.  An insert whose row      *)
(* exists has no effect, and each table has one writer, so a candidate is  *)
(* dropped as soon as it is derived when it has its row.  An exception,    *)
(* like the death of the process, drops the rest of the cycle; what was    *)
(* inserted stays, and the next cycle starts from the tables again.        *)
(*                                                                         *)
(* One purpose is modelled: the scope of a context is then its mental      *)
(* model, and the active context is the newest one (ContextActivation).    *)
(* Times are in hours.                                                     *)
(***************************************************************************)
EXTENDS Integers, Sequences, FiniteSets

CONSTANTS
    Model,            \* mental models with a definition in PATTERN_LIBRARY
    MinOccurrences,   \* min_occurrences of the definition of a model
    Clustering,       \* models with a count_exceeding_window tolerance
    MaxActivations,   \* expected_max_activations of that tolerance
    Templates,        \* how many hypothesis templates cover a model
    Window,           \* DETECTION_WINDOW_DAYS
    PageSize,         \* default limit of list_hypotheses
    MaxContexts,      \* bound on the contexts activated
    Step, MaxTime,    \* the clock advances by Step, until MaxTime
    MaxFaults         \* bound on aborted cycles

ASSUME ReasoningConstants ==
    /\ MinOccurrences \in [Model -> Nat \ {0}]
    /\ Clustering \subseteq Model
    /\ MaxActivations \in [Model -> Nat \ {0}]
    /\ Templates \in [Model -> Nat \ {1}]      \* "at least two competing templates"
    /\ Window \in Nat /\ PageSize \in Nat
    /\ MaxContexts \in Nat /\ Step \in Nat /\ MaxTime \in Nat /\ MaxFaults \in Nat

VARIABLES
    now,
    contexts,     \* sequence of [model, at]
    patterns,     \* sequence of [anchor, frequency, at]
    anomalies,    \* sequence of [context, pattern]
    hypotheses,   \* sequence of [anomaly, pattern, template]
    insights,     \* set of [context, hypotheses]
    pat,          \* pattern service: the candidates it has not inserted yet
    ano,          \* anomaly service: [pc, stream, active, found]
    hyp,          \* hypothesis service: [pc, seen, todo]
    ins,          \* insight service: how many hypotheses it read, 0 between cycles
    faults

vars == <<now, contexts, patterns, anomalies, hypotheses, insights, pat, ano, hyp, ins, faults>>
tables == <<contexts, patterns, anomalies, hypotheses, insights>>

PatternCandidate == [anchor : 1..MaxContexts, frequency : {"hourly", "daily", "weekly", "event-driven"}]
AnomalyRow == [context : 1..MaxContexts, pattern : Nat \ {0}]
HypothesisRow == [anomaly : Nat \ {0}, pattern : Nat, template : Nat \ {0}]   \* pattern 0: pattern_ids = []
InsightRow == [context : Nat, hypotheses : SUBSET Nat]

IdleAnomaly == [pc |-> "idle", stream |-> 0, active |-> 0, found |-> {}]
IdleHypothesis == [pc |-> "idle", seen |-> 0, todo |-> {}]

Init ==
    /\ now = 0
    /\ contexts = <<>> /\ patterns = <<>> /\ anomalies = <<>> /\ hypotheses = <<>>
    /\ insights = {}
    /\ pat = {} /\ ano = IdleAnomaly /\ hyp = IdleHypothesis /\ ins = 0
    /\ faults = 0

-----------------------------------------------------------------------------
(* The environment: the context service and the clock                      *)

Activate(m) ==
    /\ Len(contexts) < MaxContexts
    /\ contexts' = Append(contexts, [model |-> m, at |-> now])
    /\ UNCHANGED <<now, patterns, anomalies, hypotheses, insights, pat, ano, hyp, ins, faults>>

Tick ==
    /\ now + Step <= MaxTime
    /\ now' = now + Step
    /\ UNCHANGED <<tables, pat, ano, hyp, ins, faults>>

-----------------------------------------------------------------------------
(* Pattern service                                                         *)

\* The activations of a model inside the detection window.
Acts(m) == {c \in 1..Len(contexts) : contexts[c].model = m /\ contexts[c].at >= now - Window}
Newest(S) == CHOOSE c \in S : \A d \in S : d <= c
Previous(S, c) == Newest({d \in S : d < c})

\* Twice the median of the intervals between consecutive activations: the two
\* middle intervals, or the middle one twice.
MedianTwice(S) ==
    LET I == {c \in S : \E d \in S : d < c}
        gap(c) == contexts[c].at - contexts[Previous(S, c)].at
        kth(k) == CHOOSE g \in {gap(c) : c \in I} :
                    /\ Cardinality({c \in I : gap(c) < g}) < k
                    /\ Cardinality({c \in I : gap(c) <= g}) >= k
        n == Cardinality(I)
    IN  kth((n + 1) \div 2) + kth(n \div 2 + 1)

DeriveFrequency(S) ==
    CASE Cardinality(S) < 2           -> "event-driven"
      [] MedianTwice(S) < 2           -> "hourly"
      [] MedianTwice(S) \in 2..48     -> "daily"
      [] MedianTwice(S) \in 49..336   -> "weekly"
      [] OTHER                        -> "event-driven"

\* strength = min(occurrences / min_occurrences, 1) against strength_threshold = 0.6
Recurrent(m) == Acts(m) # {} /\ 10 * Cardinality(Acts(m)) >= 6 * MinOccurrences[m]

\* detect: one candidate for every recurrent model, anchored to its latest activation.
Regularities ==
    {[anchor |-> Newest(Acts(m)), frequency |-> DeriveFrequency(Acts(m))] : m \in {n \in Model : Recurrent(n)}}

\* Mutant: one pattern per model, whatever its anchor.
PatternExistsForModel(k) ==
    \E p \in 1..Len(patterns) : contexts[patterns[p].anchor].model = contexts[k.anchor].model

\* pattern_id: tenant, anchor context, library pattern (one per model).
PatternExists(k) == \E p \in 1..Len(patterns) : patterns[p].anchor = k.anchor

ReadContexts ==
    /\ pat = {} /\ contexts # <<>>
    /\ pat' = {k \in Regularities : ~PatternExists(k)}
    /\ UNCHANGED <<now, tables, ano, hyp, ins, faults>>

SavePattern(k) ==
    /\ k \in pat
    /\ patterns' = Append(patterns, [anchor |-> k.anchor, frequency |-> k.frequency, at |-> now])
    /\ pat' = pat \ {k}
    /\ UNCHANGED <<now, contexts, anomalies, hypotheses, insights, ano, hyp, ins, faults>>

PatternService == ReadContexts \/ \E k \in pat : SavePattern(k)

-----------------------------------------------------------------------------
(* Anomaly service                                                         *)

ReadStream ==
    /\ ano.pc = "idle" /\ contexts # <<>>
    /\ ano' = [ano EXCEPT !.pc = "stream", !.stream = Len(contexts)]
    /\ UNCHANGED <<now, tables, pat, hyp, ins, faults>>

ReadActive ==
    /\ ano.pc = "stream"
    /\ ano' = [ano EXCEPT !.pc = "active", !.active = Len(contexts)]
    /\ UNCHANGED <<now, tables, pat, hyp, ins, faults>>

\* Patterns of a model among the first n rows, by the scope of an anchor that
\* is in the stream read or is the active context.
Scoped(m, stream, active, n) ==
    {p \in 1..n : /\ patterns[p].anchor \in (1..stream) \cup {active}
                  /\ contexts[patterns[p].anchor].model = m}

Interval == [hourly |-> 1, daily |-> 24, weekly |-> 168]

Abs(n) == IF n < 0 THEN -n ELSE n

\* _deviation_days_off_schedule above 0.5; an event-driven pattern has no cadence.
OffSchedule(c, p) ==
    /\ patterns[p].frequency \in DOMAIN Interval
    /\ LET i == Interval[patterns[p].frequency]
       IN  2 * Abs(contexts[c].at - patterns[p].at - i) > i

\* _deviation_count_exceeding_window above 1.0, counted over the stream read.
Clustered(c, stream) ==
    Cardinality({d \in 1..stream : /\ contexts[d].model = contexts[c].model
                                   /\ contexts[d].at \in (contexts[c].at - 24)..contexts[c].at})
        > MaxActivations[contexts[c].model]

Deviates(c, p, stream) ==
    IF contexts[c].model \in Clustering THEN Clustered(c, stream) ELSE OffSchedule(c, p)

\* detect: the active context against the latest pattern of its scope.
Deviations(stream, active, n) ==
    LET S == Scoped(contexts[active].model, stream, active, n)
    IN  IF S # {} /\ Deviates(active, Newest(S), stream)
        THEN {[context |-> active, pattern |-> Newest(S)]} ELSE {}

\* Mutant: one anomaly per context.
AnomalyExistsForContext(a) == \E i \in 1..Len(anomalies) : anomalies[i].context = a.context

\* anomaly_id: tenant, context, pattern.
AnomalyExists(a) == \E i \in 1..Len(anomalies) : anomalies[i] = a

ReadPatterns ==
    /\ ano.pc = "active"
    /\ LET D == {a \in Deviations(ano.stream, ano.active, Len(patterns)) : ~AnomalyExists(a)}
       IN  ano' = IF D = {} THEN IdleAnomaly
                  ELSE [pc |-> "saving", stream |-> 0, active |-> 0, found |-> D]
    /\ UNCHANGED <<now, tables, pat, hyp, ins, faults>>

SaveAnomaly ==
    /\ ano.pc = "saving"
    /\ \E a \in ano.found : anomalies' = Append(anomalies, a)
    /\ ano' = IdleAnomaly
    /\ UNCHANGED <<now, contexts, patterns, hypotheses, insights, pat, hyp, ins, faults>>

AnomalyService == ReadStream \/ ReadActive \/ ReadPatterns \/ SaveAnomaly

-----------------------------------------------------------------------------
(* Hypothesis service                                                      *)

ModelOf(i) == contexts[anomalies[i].context].model

\* Mutant: an anomaly that has a hypothesis counts as explained.
CreationsUnexplained(n, m) ==
    UNION {{[anomaly |-> i, pattern |-> anomalies[i].pattern, template |-> t] : t \in 1..Templates[ModelOf(i)]} :
            i \in {j \in 1..n : \A h \in 1..Len(hypotheses) : hypotheses[h].anomaly # j}}

\* generate for the first n anomalies and m patterns: one hypothesis for every
\* template of the anomaly's scope, citing the expected pattern if it was read.
Creations(n, m) ==
    UNION {{[anomaly |-> i, pattern |-> IF anomalies[i].pattern <= m THEN anomalies[i].pattern ELSE 0, template |-> t] :
            t \in 1..Templates[ModelOf(i)]} : i \in 1..n}

\* hypothesis_id: tenant, anomalies, patterns, description (of the template).
HypothesisExists(h) == \E i \in 1..Len(hypotheses) : hypotheses[i] = h

Generated(creations) ==
    LET new == {h \in creations : ~HypothesisExists(h)}
    IN  IF new = {} THEN IdleHypothesis ELSE [pc |-> "saving", seen |-> 0, todo |-> new]

\* Mutant: patterns are read before anomalies.
ReadInputsPatternsFirst ==
    /\ \/ /\ hyp.pc = "idle" /\ anomalies # <<>>
          /\ hyp' = [hyp EXCEPT !.pc = "reading", !.seen = Len(patterns)]
       \/ /\ hyp.pc = "reading"
          /\ hyp' = Generated(Creations(Len(anomalies), hyp.seen))
    /\ UNCHANGED <<now, tables, pat, ano, ins, faults>>

\* list_anomalies, then list_patterns.  list_contexts is between them and
\* returns the contexts of all anomalies read, whenever it is executed.
ReadInputs ==
    /\ \/ /\ hyp.pc = "idle" /\ anomalies # <<>>
          /\ hyp' = [hyp EXCEPT !.pc = "reading", !.seen = Len(anomalies)]
       \/ /\ hyp.pc = "reading"
          /\ hyp' = Generated(Creations(hyp.seen, Len(patterns)))
    /\ UNCHANGED <<now, tables, pat, ano, ins, faults>>

\* Anomaly by anomaly, template by template.
Before(g, h) == g.anomaly < h.anomaly \/ (g.anomaly = h.anomaly /\ g.template < h.template)

SaveHypothesis(h) ==
    /\ hyp.pc = "saving" /\ h \in hyp.todo /\ \A g \in hyp.todo \ {h} : Before(h, g)
    /\ hypotheses' = Append(hypotheses, h)
    /\ hyp' = IF hyp.todo = {h} THEN IdleHypothesis ELSE [hyp EXCEPT !.todo = hyp.todo \ {h}]
    /\ UNCHANGED <<now, contexts, patterns, anomalies, insights, pat, ano, ins, faults>>

HypothesisService == ReadInputs \/ \E h \in hyp.todo : SaveHypothesis(h)

-----------------------------------------------------------------------------
(* Insight service                                                         *)

ReadHypotheses ==
    /\ ins = 0 /\ hypotheses # <<>>
    /\ ins' = IF Len(hypotheses) < PageSize THEN Len(hypotheses) ELSE PageSize
    /\ UNCHANGED <<now, tables, pat, ano, hyp, faults>>

\* The hypotheses among the first n about anomalies of context c.
Frame(c, n) == {h \in 1..n : anomalies[hypotheses[h].anomaly].context = c}

\* Mutant: one insight per context.
InsightsOnce(c, F) ==
    IF Cardinality(F) < 2 \/ \E x \in insights : x.context = c THEN insights
    ELSE insights \cup {[context |-> c, hypotheses |-> F]}

\* generate_insights and save_insight: a frame of two or more hypotheses is
\* competitive.  insight_id: tenant, context, hypotheses.
Restructured(c, F) ==
    IF Cardinality(F) < 2 THEN insights ELSE insights \cup {[context |-> c, hypotheses |-> F]}

\* list_anomalies and list_contexts return all anomalies of the hypotheses
\* read, and the context that is active by then.  Nobody else reads or writes
\* insights, so the insert is part of the step.
Restructure ==
    /\ ins > 0
    /\ insights' = Restructured(Len(contexts), Frame(Len(contexts), ins))
    /\ ins' = 0
    /\ UNCHANGED <<now, contexts, patterns, anomalies, hypotheses, pat, ano, hyp, faults>>

InsightService == ReadHypotheses \/ Restructure

-----------------------------------------------------------------------------
\* A statement raises, or the process dies and is started again: the rest of
\* the cycle is dropped.  (An INSERT whose answer is lost is a Save and then this.)
Abort ==
    /\ faults < MaxFaults
    /\ faults' = faults + 1
    /\ \/ pat # {} /\ pat' = {} /\ UNCHANGED <<ano, hyp, ins>>
       \/ ano.pc # "idle" /\ ano' = IdleAnomaly /\ UNCHANGED <<pat, hyp, ins>>
       \/ hyp.pc # "idle" /\ hyp' = IdleHypothesis /\ UNCHANGED <<pat, ano, ins>>
       \/ ins > 0 /\ ins' = 0 /\ UNCHANGED <<pat, ano, hyp>>
    /\ UNCHANGED <<now, tables>>

Next ==
    \/ \E m \in Model : Activate(m)
    \/ Tick
    \/ PatternService \/ AnomalyService \/ HypothesisService \/ InsightService
    \/ Abort

Spec == Init /\ [][Next]_vars

\* Every service polls for ever and is started again when it dies.
FairSpec ==
    Spec /\ WF_vars(PatternService) /\ WF_vars(AnomalyService)
         /\ WF_vars(HypothesisService) /\ WF_vars(InsightService)

-----------------------------------------------------------------------------
(* Properties                                                              *)

TypeOK ==
    /\ now \in Nat /\ faults \in Nat
    /\ contexts \in Seq([model : Model, at : Nat])
    /\ patterns \in Seq([anchor : 1..MaxContexts, at : Nat,
                         frequency : {"hourly", "daily", "weekly", "event-driven"}])
    /\ anomalies \in Seq(AnomalyRow)
    /\ hypotheses \in Seq(HypothesisRow)
    /\ insights \subseteq InsightRow
    /\ pat \subseteq PatternCandidate
    /\ ano \in [pc : {"idle", "stream", "active", "saving"}, stream : Nat, active : Nat,
                found : SUBSET AnomalyRow]
    /\ hyp \in [pc : {"idle", "reading", "saving"}, seen : Nat, todo : SUBSET HypothesisRow]
    /\ ins \in Nat

\* "Re-generating the same explanation yields the same id": an anomaly has at
\* most one hypothesis per template, although the id contains the pattern the
\* service happened to find: patterns are read after the anomalies, so the
\* expected pattern is always among them.
OneHypothesisPerTemplate ==
    \A g, h \in 1..Len(hypotheses) :
        (/\ hypotheses[g].anomaly = hypotheses[h].anomaly
         /\ hypotheses[g].template = hypotheses[h].template) => g = h

\* An anomaly measures a context against a pattern of the same mental model ...
AnomalyOK(a) ==
    /\ a.context \in 1..Len(contexts)
    /\ a.pattern \in 1..Len(patterns)
    /\ contexts[patterns[a.pattern].anchor].model = contexts[a.context].model

\* ... and a hypothesis cites the pattern of its anomaly.
HypothesisOK(h) ==
    h.anomaly \in 1..Len(anomalies) /\ h.pattern = anomalies[h.anomaly].pattern

\* Every row can be followed back to the context it is about.
Traceable ==
    /\ \A p \in 1..Len(patterns) : patterns[p].anchor \in 1..Len(contexts)
    /\ \A i \in 1..Len(anomalies) : AnomalyOK(anomalies[i])
    /\ \A h \in 1..Len(hypotheses) : HypothesisOK(hypotheses[h])

\* In the end every model that recurs has a pattern anchored to its latest
\* activation, whatever patterns it had before.
EventuallyPatterned ==
    <>[](\A m \in Model : Recurrent(m) =>
            \E p \in 1..Len(patterns) : patterns[p].anchor = Newest(Acts(m)))

\* In the end a context that stays active and deviates from the latest pattern
\* of its scope has the anomaly that says so, even when the reads of a cycle
\* were overtaken by its activation.
EventuallyFlagged ==
    <>[](contexts # <<>> =>
            Deviations(Len(contexts), Len(contexts), Len(patterns)) \subseteq
                {anomalies[i] : i \in 1..Len(anomalies)})

\* "Premature convergence is a cognitive failure": every anomaly ends up with
\* all the competing hypotheses of its scope, also when a cycle was cut off
\* between two of them.
ExplainedByAll ==
    <>[](\A i \in 1..Len(anomalies) : \A t \in 1..Templates[ModelOf(i)] :
            \E h \in 1..Len(hypotheses) : hypotheses[h].anomaly = i /\ hypotheses[h].template = t)

\* In the end the frame of the active context has an insight over all its
\* hypotheses, not only over those there were when it was first read; as long
\* as the tenant's hypotheses fit in one page.
InsightCurrent ==
    <>[](LET F == Frame(Len(contexts), Len(hypotheses))
         IN  Cardinality(F) >= 2 /\ Len(hypotheses) <= PageSize =>
                [context |-> Len(contexts), hypotheses |-> F] \in insights)

\* The four services keep up with each other: in the end there is everything
\* that detect, detect, generate and generate_insights derive.
EverythingDerived == EventuallyPatterned /\ EventuallyFlagged /\ ExplainedByAll /\ InsightCurrent
============================================================================
