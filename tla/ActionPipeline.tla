--------------------------- MODULE ActionPipeline ---------------------------
(***************************************************************************)
(* From hypotheses to decisions and back: the confidence, recommendation   *)
(* and decision services of one tenant, three processes that poll one      *)
(* database, and the outcomes reported of the decisions, from which the    *)
(* confidence service measures how far its earlier scores were off.        *)
(*                                                                         *)
(* As in ReasoningPipeline every table is append-only (only the outcomes   *)
(* of a decision change), rows are named by their place in the table, each *)
(* table has one writer, and a row that exists is not inserted again.      *)
(*                                                                         *)
(* Evidence is a number of rows; a context holds the evidence there was    *)
(* when the activator read it, and the newest context is active.  One      *)
(* purpose and one domain are modelled.  Scores are in ten-thousandths, as *)
(* NUMERIC(5,4) stores them.                                               *)
(***************************************************************************)
EXTENDS Integers, Sequences, FiniteSets, FiniteSetsExt

CONSTANTS
    Support,            \* [alpha S + (1 - alpha) C] of a hypothesis whose scope has n rows of evidence
    MinCommit,          \* min_confidence_for_commit
    MinIrreversible,    \* min_confidence_irreversible
    AllowedRisk,        \* allowed_risk_tolerance of the domain's policy
    Bins,               \* M of CalibrationParams
    BatchSize,          \* batch_size of the confidence service
    PageSize,           \* default limit of list_hypotheses and list_confidence
    MaxEvidence, MaxHypotheses,
    MaxReports,         \* bound on the reports of outcomes
    MaxFaults           \* bound on aborted cycles and failed loads

One == 10000

ASSUME ActionConstants ==
    /\ MaxEvidence \in Nat /\ MaxHypotheses \in Nat /\ MaxReports \in Nat /\ MaxFaults \in Nat
    /\ Support \in [1..MaxEvidence -> 0..One]
    /\ MinCommit \in 0..One /\ MinIrreversible \in MinCommit..One
    /\ AllowedRisk \subseteq {"low", "medium", "high"} /\ AllowedRisk # {}
    /\ Bins \in Nat \ {0} /\ BatchSize \in Nat \ {0} /\ PageSize \in Nat

VARIABLES
    evidence,     \* rows of evidence
    contexts,     \* sequence of numbers of evidence
    hypotheses,   \* sequence of contexts
    confs,        \* confidence_scores: sequence of [target, factor, used]
    recs,         \* recommendations: sequence of [hypothesis, conf]
    decs,         \* decisions: sequence of [rec, risk, outcome]
    cal,          \* confidence service: [pc, factor, offset, last, next, evidence]
    rcm,          \* recommendation service: [pc, last, active, next, conf]
    dec,          \* decision service: the recommendations it has not committed yet
    reports, faults

vars == <<evidence, contexts, hypotheses, confs, recs, decs, cal, rcm, dec, reports, faults>>

ConfRow == [target : Nat, factor : 0..One, used : Nat]     \* used: a ghost, no column records it
RecRow == [hypothesis : Nat, conf : Nat]
DecRow == [rec : Nat, risk : {"low", "medium", "high"}, outcome : {"none", "success", "failure", "unclear"}]

IdleCalibrator == [pc |-> "idle", factor |-> One, offset |-> 0, last |-> 0, next |-> 0, evidence |-> 0]
IdleFormulator == [pc |-> "idle", last |-> 0, active |-> 0, next |-> 0, conf |-> 0]

Init ==
    /\ evidence = 0
    /\ contexts = <<>> /\ hypotheses = <<>> /\ confs = <<>> /\ recs = <<>> /\ decs = <<>>
    /\ cal = IdleCalibrator /\ rcm = IdleFormulator /\ dec = {}
    /\ reports = 0 /\ faults = 0

-----------------------------------------------------------------------------
(* The environment: the layers below, and whoever reports outcomes         *)

Organize ==
    /\ evidence < MaxEvidence
    /\ evidence' = evidence + 1
    /\ UNCHANGED <<contexts, hypotheses, confs, recs, decs, cal, rcm, dec, reports, faults>>

Activate(e) ==
    /\ \A k \in 1..Len(contexts) : contexts[k] < e
    /\ contexts' = Append(contexts, e)
    /\ UNCHANGED <<evidence, hypotheses, confs, recs, decs, cal, rcm, dec, reports, faults>>

Hypothesize(k) ==
    /\ Len(hypotheses) < MaxHypotheses
    /\ hypotheses' = Append(hypotheses, k)
    /\ UNCHANGED <<evidence, contexts, confs, recs, decs, cal, rcm, dec, reports, faults>>

\* update_outcomes of a decision, again if a report is corrected.
ReportOutcome(d, o) ==
    /\ reports < MaxReports /\ decs[d].outcome # o
    /\ decs' = [decs EXCEPT ![d].outcome = o]
    /\ reports' = reports + 1
    /\ UNCHANGED <<evidence, contexts, hypotheses, confs, recs, cal, rcm, dec, faults>>

Environment ==
    \/ Organize
    \/ \E e \in 1..evidence : Activate(e)
    \/ \E k \in 1..Len(contexts) : Hypothesize(k)
    \/ \E d \in 1..Len(decs), o \in {"success", "failure", "unclear"} : ReportOutcome(d, o)

-----------------------------------------------------------------------------
(* Confidence service                                                      *)

\* The number of rows of evidence hypothesis h is accountable for.
Scope(h) == contexts[hypotheses[h]]

\* C_final, rounded as it is stored.
Score(c) == (Support[Scope(confs[c].target)] * confs[c].factor + One \div 2) \div One

\* compute_outcome_signal.  The committer's predictions are sentences: float()
\* rejects them and they count as 0.0, the prediction of a failure.
PredictedPositive == FALSE
OutcomeSignal(o) == IF PredictedPositive = (o = "success") THEN 1 ELSE 0

\* build_learning_history: decisions with a conclusive outcome whose confidence
\* is in the first page of list_confidence.
Pairs == {d \in 1..Len(decs) : /\ decs[d].outcome \in {"success", "failure"}
                               /\ recs[decs[d].rec].conf <= PageSize}

Prediction(d) == Score(recs[decs[d].rec].conf)

\* ece_score: the bin of a prediction, the last one with both ends.
BinOf(p) == IF p = One THEN Bins - 1 ELSE (p * Bins) \div One

Distance(m, n) == IF m < n THEN n - m ELSE m - n

Ece(P) ==
    LET inBin(b) == {d \in P : BinOf(Prediction(d)) = b}
        off(b) == Distance(MapThenSumSet(LAMBDA d : One * OutcomeSignal(decs[d].outcome), inBin(b)),
                           MapThenSumSet(Prediction, inBin(b)))
    IN  MapThenSumSet(off, 0..(Bins - 1)) \div Cardinality(P)

\* max(0.0, min(1.0, x))
Clamp(x) == IF x \in 0..One THEN x ELSE IF x < 0 THEN 0 ELSE One

\* historical_calibration, 1 - ECE; no pairs or a single one are no history.
HistoricalCalibration == IF Cardinality(Pairs) < 2 THEN One ELSE Clamp(One - Ece(Pairs))

\* list_decisions and list_confidence; a failure is logged and means no history.
ReadHistory ==
    /\ cal.pc = "idle" /\ hypotheses # <<>>
    /\ \/ /\ cal' = [cal EXCEPT !.pc = "page", !.factor = HistoricalCalibration]
          /\ UNCHANGED faults
       \/ /\ faults < MaxFaults
          /\ faults' = faults + 1
          /\ cal' = [cal EXCEPT !.pc = "page", !.factor = One]
    /\ UNCHANGED <<evidence, contexts, hypotheses, confs, recs, decs, rcm, dec, reports>>

\* list_hypotheses(limit = batch_size, offset); an empty batch ends the cycle.
ReadBatch ==
    /\ cal.pc = "page"
    /\ cal' = IF cal.offset >= Len(hypotheses) THEN IdleCalibrator
              ELSE [cal EXCEPT !.pc = "evidence", !.next = cal.offset + 1,
                    !.last = IF Len(hypotheses) < cal.offset + BatchSize
                             THEN Len(hypotheses) ELSE cal.offset + BatchSize]
    /\ UNCHANGED <<evidence, contexts, hypotheses, confs, recs, decs, rcm, dec, reports, faults>>

\* list_anomalies, list_contexts (all those of the batch) and list_evidence.
ReadEvidence ==
    /\ cal.pc = "evidence"
    /\ cal' = [cal EXCEPT !.pc = "each", !.evidence = evidence]
    /\ UNCHANGED <<evidence, contexts, hypotheses, confs, recs, decs, rcm, dec, reports, faults>>

\* Mutant: evidence outside the scope is not refused.
AnyScope(h) == TRUE

\* validate_confidence_evidence_scope, of all the evidence read.
InScope(h) == cal.evidence <= Scope(h)

\* Mutant: the id covers the target only.
ConfidenceExistsForTarget(h, f) == \E c \in 1..Len(confs) : confs[c].target = h

\* confidence_id: tenant, target, S and C (given by the scope), 1 - ECE, alpha.
ConfidenceExists(h, f) == \E c \in 1..Len(confs) : confs[c].target = h /\ confs[c].factor = f

Advance ==
    IF cal.next < cal.last THEN [cal EXCEPT !.next = cal.next + 1]
    ELSE [cal EXCEPT !.pc = "page", !.offset = cal.offset + BatchSize]

\* calibrate and _persist for the next hypothesis of the batch.  The exception
\* of calibrate leaves _calibrate_tenant.
Calibrate ==
    /\ cal.pc = "each"
    /\ \/ /\ ~InScope(cal.next)
          /\ cal' = IdleCalibrator /\ UNCHANGED confs
       \/ /\ InScope(cal.next)
          /\ cal' = Advance
          /\ confs' = IF ConfidenceExists(cal.next, cal.factor) THEN confs
                      ELSE Append(confs, [target |-> cal.next, factor |-> cal.factor, used |-> cal.evidence])
    /\ UNCHANGED <<evidence, contexts, hypotheses, recs, decs, rcm, dec, reports, faults>>

ConfidenceService == ReadHistory \/ ReadBatch \/ ReadEvidence \/ Calibrate

-----------------------------------------------------------------------------
(* Recommendation service                                                  *)

ReadCandidates ==
    /\ rcm.pc = "idle" /\ hypotheses # <<>>
    /\ rcm' = [rcm EXCEPT !.pc = "contexts", !.last = IF Len(hypotheses) < PageSize THEN Len(hypotheses) ELSE PageSize]
    /\ UNCHANGED <<evidence, contexts, hypotheses, confs, recs, decs, cal, dec, reports, faults>>

ReadContexts ==
    /\ rcm.pc = "contexts"
    /\ rcm' = IF rcm.last = 0 THEN IdleFormulator
              ELSE [rcm EXCEPT !.pc = "each", !.next = 1, !.active = Len(contexts)]
    /\ UNCHANGED <<evidence, contexts, hypotheses, confs, recs, decs, cal, dec, reports, faults>>

Calibrations(h) == {c \in 1..Len(confs) : confs[c].target = h}

\* SELECT_LATEST_BY_TARGET
LatestConfidence(h) == CHOOSE c \in Calibrations(h) : \A d \in Calibrations(h) : d <= c

\* Mutant: a hypothesis that has an offer keeps it.
RecommendationExistsForHypothesis(h, c) == \E r \in 1..Len(recs) : recs[r].hypothesis = h

\* recommendation_id: tenant, hypothesis, confidence, action (one per domain).
RecommendationExists(h, c) == \E r \in 1..Len(recs) : recs[r].hypothesis = h /\ recs[r].conf = c

NextCandidate ==
    IF rcm.next < rcm.last THEN [rcm EXCEPT !.pc = "each", !.next = rcm.next + 1, !.conf = 0] ELSE IdleFormulator

\* get_confidence and resolve_active_context: an offer is formed for a
\* calibrated hypothesis of the context that was active.
FindConfidence ==
    /\ rcm.pc = "each"
    /\ LET h == rcm.next
       IN  rcm' = IF \/ Calibrations(h) = {} \/ hypotheses[h] # rcm.active
                     \/ RecommendationExists(h, LatestConfidence(h))
                  THEN NextCandidate
                  ELSE [rcm EXCEPT !.pc = "save", !.conf = LatestConfidence(h)]
    /\ UNCHANGED <<evidence, contexts, hypotheses, confs, recs, decs, cal, dec, reports, faults>>

SaveRecommendation ==
    /\ rcm.pc = "save"
    /\ recs' = Append(recs, [hypothesis |-> rcm.next, conf |-> rcm.conf])
    /\ rcm' = NextCandidate
    /\ UNCHANGED <<evidence, contexts, hypotheses, confs, decs, cal, dec, reports, faults>>

RecommendationService == ReadCandidates \/ ReadContexts \/ FindConfidence \/ SaveRecommendation

-----------------------------------------------------------------------------
(* Decision service                                                        *)

Level == [low |-> 0, medium |-> 1, high |-> 2]

\* Mutant: the threshold of an irreversible commitment is ignored.
TolerancesAny(s) == IF s < MinCommit THEN {} ELSE AllowedRisk

\* The levels of the policy up to the candidate's; none below the threshold.
Tolerances(s) ==
    IF s < MinCommit THEN {}
    ELSE {l \in AllowedRisk : Level[l] <= IF s >= MinIrreversible THEN Level["high"] ELSE Level["medium"]}

\* resolve_risk_tolerance: the most demanding of them.
RiskTolerance(s) == CHOOSE l \in Tolerances(s) : \A k \in Tolerances(s) : Level[k] <= Level[l]

\* decision_id: tenant, recommendation and its confidence.
DecisionExists(r) == \E d \in 1..Len(decs) : decs[d].rec = r

\* A recommendation whose confidence was read and commits under the policy.
Committable(r) == recs[r].conf <= PageSize /\ Tolerances(Score(recs[r].conf)) # {}

\* list_recommendations, then list_confidence: the confidence of every
\* recommendation read, if it is in the first page.
ReadRecommendations ==
    /\ dec = {} /\ recs # <<>>
    /\ dec' = {r \in 1..Len(recs) : Committable(r) /\ ~DecisionExists(r)}
    /\ UNCHANGED <<evidence, contexts, hypotheses, confs, recs, decs, cal, rcm, reports, faults>>

Commit(r) ==
    /\ \A q \in dec : r <= q
    /\ decs' = Append(decs, [rec |-> r, risk |-> RiskTolerance(Score(recs[r].conf)), outcome |-> "none"])
    /\ dec' = dec \ {r}
    /\ UNCHANGED <<evidence, contexts, hypotheses, confs, recs, cal, rcm, reports, faults>>

DecisionService == ReadRecommendations \/ \E r \in dec : Commit(r)

-----------------------------------------------------------------------------
\* A statement raises, or the process dies and is started again.
Abort ==
    /\ faults < MaxFaults
    /\ faults' = faults + 1
    /\ \/ cal.pc # "idle" /\ cal' = IdleCalibrator /\ UNCHANGED <<rcm, dec>>
       \/ rcm.pc # "idle" /\ rcm' = IdleFormulator /\ UNCHANGED <<cal, dec>>
       \/ dec # {} /\ dec' = {} /\ UNCHANGED <<cal, rcm>>
    /\ UNCHANGED <<evidence, contexts, hypotheses, confs, recs, decs, reports>>

Next == Environment \/ ConfidenceService \/ RecommendationService \/ DecisionService \/ Abort

Spec == Init /\ [][Next]_vars

\* The services poll for ever and are started again when they die.
FairSpec == Spec /\ WF_vars(ConfidenceService) /\ WF_vars(RecommendationService) /\ WF_vars(DecisionService)

-----------------------------------------------------------------------------
(* Properties                                                              *)

TypeOK ==
    /\ evidence \in 0..MaxEvidence /\ reports \in Nat /\ faults \in Nat
    /\ contexts \in Seq(1..MaxEvidence) /\ hypotheses \in Seq(Nat)
    /\ confs \in Seq(ConfRow) /\ recs \in Seq(RecRow) /\ decs \in Seq(DecRow)
    /\ cal \in [pc : {"idle", "page", "evidence", "each"}, factor : 0..One,
                offset : Nat, last : Nat, next : Nat, evidence : Nat]
    /\ rcm \in [pc : {"idle", "contexts", "each", "save"}, last : Nat, active : Nat, next : Nat, conf : Nat]
    /\ dec \subseteq Nat

\* "A Hypothesis's Confidence must be calibratable exclusively from evidence
\* within its cognitive scope": a score was computed from exactly the evidence
\* of its hypothesis's context, although hypotheses, contexts and evidence are
\* read one after the other while evidence arrives.
ScopeIsolation == \A c \in 1..Len(confs) : confs[c].used = Scope(confs[c].target)

\* "Every Decision carries Confidence": a decision rests on a calibration of
\* the hypothesis it is about, above the threshold of the risk it takes.
DecisionGrounded ==
    \A d \in 1..Len(decs) :
        LET r == recs[decs[d].rec]
        IN  /\ confs[r.conf].target = r.hypothesis
            /\ Score(r.conf) >= MinCommit
            /\ decs[d].risk = "high" => Score(r.conf) >= MinIrreversible
            /\ decs[d].risk \in AllowedRisk

\* The learning loop is closed: in the end the hypotheses that come before the
\* first one with too small a scope have a confidence with the calibration
\* error of the outcomes reported.
FeedbackApplied ==
    <>[](\A h \in 1..Len(hypotheses) :
            (\A g \in 1..h : Scope(g) = evidence) =>
                \E c \in Calibrations(h) : confs[c].factor = HistoricalCalibration)

\* "A NEW calibration of the same hypothesis produces a NEW recommendation row
\* instead of silently reusing the old offer": in the end the calibrated
\* hypotheses of the active context have an offer bound to their latest score.
EventuallyRecommended ==
    <>[](\A h \in 1..Len(hypotheses) :
            h <= PageSize /\ hypotheses[h] = Len(contexts) /\ Calibrations(h) # {} =>
                \E r \in 1..Len(recs) : recs[r] = [hypothesis |-> h, conf |-> LatestConfidence(h)])

\* In the end every offer that may be committed is, although a cycle was cut
\* off or another offer on the same hypothesis was committed before.
EventuallyCommitted ==
    <>[](\A r \in 1..Len(recs) : Committable(r) => \E d \in 1..Len(decs) : decs[d].rec = r)

\* The three services keep up with each other: outcomes are fed back into the
\* scores, scores are offered, offers committed.
EverythingFollowedUp == FeedbackApplied /\ EventuallyRecommended /\ EventuallyCommitted

\* "Computes the calibrated Confidence for every candidate Hypothesis": in the
\* end every hypothesis about all the evidence has a confidence.
EventuallyCalibrated ==
    <>[](\A h \in 1..Len(hypotheses) : Scope(h) = evidence => Calibrations(h) # {})
============================================================================
