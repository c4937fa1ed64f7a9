------------------------ MODULE HypothesisEvaluation ------------------------
(***************************************************************************)
(* The Evaluate capability (apps/services/evaluation-service and           *)
(* libs/reasoning/evaluation*.py) on one tenant: a loop that pages through *)
(* the hypotheses, confronts each candidate with the evidence organized    *)
(* since the oldest candidate of its page, appends an evaluation row under *)
(* a content id and, in a second transaction, writes the hypothesis'       *)
(* status.  Evidence, hypotheses and confidence rows arrive while it works *)
(* and any of its database calls may fail.                                 *)
(*                                                                         *)
(* A row's timestamp is its place in its table.  The heuristic match of a  *)
(* text against a prediction or against the falsification criterion is     *)
(* the membership of a tag: an evidence row is the set of the tags that    *)
(* its text matches.                                                       *)
(***************************************************************************)
EXTENDS Integers, Sequences, FiniteSets, FiniteSetsExt

CONSTANTS EvalTags,       \* sets of tags an evidence row may match
          EvalBatch,      \* hypotheses per page
          EvalConfPage,   \* confidence rows list_confidence returns
          MaxEvalEvidence, MaxEvalHypotheses, MaxEvalScores, MaxEvalFaults

ASSUME EvalAssumption ==
  {EvalBatch, EvalConfPage, MaxEvalEvidence, MaxEvalHypotheses, MaxEvalScores,
   MaxEvalFaults} \subseteq Nat

VARIABLES evalEvidence,   \* evidence rows, oldest first
          evalHyps,       \* hypotheses by generated_at: [gen, status]
          evalScores,     \* confidence rows by computed_at: [target, score]
          evaluations,    \* hypothesis_evaluations rows
          evaluator,      \* the service: what its tenant task holds
          reliable,       \* constructor argument evidence_basis_reliable
          evalFaults,     \* failures so far
          evalLost        \* history: status updates that failed after the save

evalVars == <<evalEvidence, evalHyps, evalScores, evaluations, evaluator,
              reliable, evalFaults, evalLost>>

Predictions == {"p1", "p2"}
Criterion == "crit"
MinPredictions == 2
Idle == [at |-> "idle", offset |-> 0, todo |-> {}, basis |-> {},
         scores |-> [h \in 1..MaxEvalHypotheses |-> "none"]]

EvalInit ==
  /\ evalEvidence = <<>> /\ evalHyps = <<>> /\ evalScores = <<>>
  /\ evaluations = {} /\ evaluator = Idle
  /\ reliable \in BOOLEAN
  /\ evalFaults = 0 /\ evalLost = {}

-----------------------------------------------------------------------------
(* The rest of the system, as far as this service reads it.                *)

EvidenceOrganized(tags) ==
  /\ Len(evalEvidence) < MaxEvalEvidence
  /\ evalEvidence' = Append(evalEvidence, tags)
  /\ UNCHANGED <<evalHyps, evalScores, evaluations, evaluator, reliable,
                 evalFaults, evalLost>>

\* gen counts the evidence that is older than the hypothesis.
HypothesisGenerated ==
  /\ Len(evalHyps) < MaxEvalHypotheses
  /\ evalHyps' = Append(evalHyps, [gen |-> Len(evalEvidence),
                                   status |-> "candidate"])
  /\ UNCHANGED <<evalEvidence, evalScores, evaluations, evaluator, reliable,
                 evalFaults, evalLost>>

ConfidenceComputed(h, s) ==
  /\ Len(evalScores) < MaxEvalScores
  /\ evalScores' = Append(evalScores, [target |-> h, score |-> s])
  /\ UNCHANGED <<evalEvidence, evalHyps, evaluations, evaluator, reliable,
                 evalFaults, evalLost>>

-----------------------------------------------------------------------------
(* evaluation_policy.                                                      *)

\* evaluate_evidence_against_hypothesis
SupportCount(basis) ==
  Cardinality({p \in Predictions : \E e \in basis : p \in evalEvidence[e]})

ContradictionCount(basis) ==
  IF \E e \in basis : Criterion \in evalEvidence[e] THEN 1 ELSE 0

\* Mutant: confidence is looked at before the falsification criterion.
FormalDecisionConfidenceFirst(basis, score) ==
  CASE SupportCount(basis) >= MinPredictions /\ score = "high" /\ reliable ->
         "confirmed"
    [] ContradictionCount(basis) >= 1 /\ reliable /\ score # "high" ->
         "falsified"
    [] OTHER -> "insufficient"

\* _formal_decision: contradiction first, whatever the confidence; a
\* heuristic basis never yields a terminal result.
FormalDecision(basis, score) ==
  IF ContradictionCount(basis) >= 1
  THEN IF reliable THEN "falsified" ELSE "insufficient"
  ELSE IF SupportCount(basis) >= MinPredictions /\ score = "high" /\ reliable
       THEN "confirmed" ELSE "insufficient"

-----------------------------------------------------------------------------
(* The service.                                                            *)

CycleBegins ==
  /\ evaluator.at = "idle"
  /\ evalHyps # <<>>
  /\ evaluator' = [Idle EXCEPT !.at = "page"]
  /\ UNCHANGED <<evalEvidence, evalHyps, evalScores, evaluations, reliable,
                 evalFaults, evalLost>>

\* list_hypotheses, in the order of generated_at.
PageOf(offset) ==
  {h \in DOMAIN evalHyps : offset < h /\ h <= offset + EvalBatch}

Candidates(page) == {h \in page : evalHyps[h].status = "candidate"}

\* Mutant: a page without candidates ends the tenant.
PageReadStops ==
  LET page == PageOf(evaluator.offset) todo == Candidates(page) IN
  /\ evaluator.at = "page"
  /\ evaluator' = IF todo = {} THEN Idle
                  ELSE [evaluator EXCEPT !.at = "evidence", !.todo = todo]
  /\ UNCHANGED <<evalEvidence, evalHyps, evalScores, evaluations, reliable,
                 evalFaults, evalLost>>

\* An empty page ends the cycle; a page without candidates is passed over.
PageRead ==
  LET page == PageOf(evaluator.offset) todo == Candidates(page) IN
  /\ evaluator.at = "page"
  /\ evaluator' =
       CASE page = {} -> Idle
         [] page # {} /\ todo = {} ->
              [evaluator EXCEPT !.offset = @ + EvalBatch]
         [] OTHER -> [evaluator EXCEPT !.at = "evidence", !.todo = todo]
  /\ UNCHANGED <<evalEvidence, evalHyps, evalScores, evaluations, reliable,
                 evalFaults, evalLost>>

\* The candidate whose turn it is: the page keeps the order of generated_at.
CurrentCandidate == Min(evaluator.todo)

\* _get_new_evidence: since the oldest candidate, which is the first one.
EvidenceRead ==
  /\ evaluator.at = "evidence"
  /\ evaluator' = [evaluator EXCEPT !.at = "confidence",
                     !.basis = (evalHyps[CurrentCandidate].gen + 1)
                               .. Len(evalEvidence)]
  /\ UNCHANGED <<evalEvidence, evalHyps, evalScores, evaluations, reliable,
                 evalFaults, evalLost>>

\* _get_confidences_for_hypotheses keeps the first row of each target among
\* the first page of the table.
FirstScore(h) ==
  LET mine == {i \in 1..Len(evalScores) : /\ i <= EvalConfPage
                                          /\ evalScores[i].target = h}
  IN  IF mine = {} THEN "none"
      ELSE evalScores[CHOOSE i \in mine : \A j \in mine : i <= j].score

ConfidenceRead ==
  /\ evaluator.at = "confidence"
  /\ evaluator' = [evaluator EXCEPT !.at = "save",
                     !.scores = [h \in 1..MaxEvalHypotheses |->
                                   IF h \in evaluator.todo
                                   THEN FirstScore(h) ELSE "none"]]
  /\ UNCHANGED <<evalEvidence, evalHyps, evalScores, evaluations, reliable,
                 evalFaults, evalLost>>

\* The tenant task after a candidate is done with.
NextEvalCandidate ==
  IF evaluator.todo # {CurrentCandidate}
  THEN [evaluator EXCEPT !.at = "save", !.todo = @ \ {CurrentCandidate}]
  ELSE [Idle EXCEPT !.at = "page", !.offset = evaluator.offset + EvalBatch]

\* create_evaluation
EvaluationRow(h, basis, result) ==
  [hypothesis |-> h, basis |-> basis, result |-> result]

\* evaluation_id: derived from the hypothesis, the evidence and the result.
RowKey(row) == <<row.hypothesis, row.basis, row.result>>

\* save_evaluation, ON CONFLICT (id) DO NOTHING: a row comes back if the id
\* is new.
Inserted(row) == \A other \in evaluations : RowKey(other) # RowKey(row)

Judged(h) == FormalDecision(evaluator.basis, evaluator.scores[h])

\* Mutant: only a confirmation is followed by a status update.
SaveEvaluationConfirmsOnly ==
  LET h   == CurrentCandidate
      row == EvaluationRow(h, evaluator.basis, Judged(h))
  IN  /\ evaluator.at = "save"
      /\ evaluations' = IF Inserted(row) THEN evaluations \cup {row}
                         ELSE evaluations
      /\ evaluator' = IF Inserted(row) /\ row.result = "confirmed"
                      THEN [evaluator EXCEPT !.at = "update"]
                      ELSE NextEvalCandidate
      /\ UNCHANGED <<evalEvidence, evalHyps, evalScores, reliable,
                     evalFaults, evalLost>>

\* _evaluate_hypothesis: only a new terminal row goes on
\* to the status update.
SaveEvaluation ==
  LET h   == CurrentCandidate
      row == EvaluationRow(h, evaluator.basis, Judged(h))
  IN  /\ evaluator.at = "save"
      /\ evaluations' = IF Inserted(row) THEN evaluations \cup {row}
                         ELSE evaluations
      /\ evaluator' = IF Inserted(row) /\ row.result # "insufficient"
                      THEN [evaluator EXCEPT !.at = "update"]
                      ELSE NextEvalCandidate
      /\ UNCHANGED <<evalEvidence, evalHyps, evalScores, reliable,
                     evalFaults, evalLost>>

\* update_hypothesis_status, unconditional on the current status.
UpdateHypothesisStatus ==
  LET h == CurrentCandidate IN
  /\ evaluator.at = "update"
  /\ evalHyps' = [evalHyps EXCEPT ![h].status = Judged(h)]
  /\ evaluator' = NextEvalCandidate
  /\ UNCHANGED <<evalEvidence, evalScores, evaluations, reliable, evalFaults,
                 evalLost>>

\* A database call fails, or the process dies: the tenant's task ends and
\* the next cycle starts from the first page.
EvaluationFails ==
  /\ evaluator.at # "idle" /\ evalFaults < MaxEvalFaults
  /\ evalFaults' = evalFaults + 1
  /\ evalLost' = IF evaluator.at = "update"
                 THEN evalLost \cup {CurrentCandidate} ELSE evalLost
  /\ evaluator' = Idle
  /\ UNCHANGED <<evalEvidence, evalHyps, evalScores, evaluations, reliable>>

EvaluatorStep ==
  \/ CycleBegins \/ PageRead \/ EvidenceRead \/ ConfidenceRead
  \/ SaveEvaluation \/ UpdateHypothesisStatus

EvalNext ==
  \/ \E t \in EvalTags : EvidenceOrganized(t)
  \/ HypothesisGenerated
  \/ \E h \in DOMAIN evalHyps, s \in {"low", "high"} : ConfidenceComputed(h, s)
  \/ CycleBegins \/ PageRead \/ EvidenceRead \/ ConfidenceRead
  \/ SaveEvaluation \/ UpdateHypothesisStatus
  \/ EvaluationFails

EvalSpec == EvalInit /\ [][EvalNext]_evalVars /\ WF_evalVars(EvaluatorStep)

-----------------------------------------------------------------------------
Terminal == {"confirmed", "falsified"}

\* A hypothesis leaves "candidate" only on a reliable basis and with an
\* evaluation row that justifies it: confirmed by every prediction, a high
\* confidence and no contradiction in its basis, falsified by one.
VerdictJustified ==
  \A h \in DOMAIN evalHyps : evalHyps[h].status \in Terminal =>
    /\ reliable
    /\ \E row \in evaluations :
         /\ row.hypothesis = h /\ row.result = evalHyps[h].status
         /\ \/ /\ row.result = "falsified"
               /\ ContradictionCount(row.basis) = 1
            \/ /\ row.result = "confirmed"
               /\ SupportCount(row.basis) = Cardinality(Predictions)
               /\ ContradictionCount(row.basis) = 0
               /\ \E i \in DOMAIN evalScores :
                    evalScores[i] = [target |-> h, score |-> "high"]

\* The evaluation row and the status are two transactions: a terminal row of
\* a hypothesis that stays candidate means that the update is still to come
\* or that a failure fell between the two, and then the row's id keeps every
\* later cycle with the same evidence from repeating it.
VerdictLostOnlyByFailure ==
  \A row \in evaluations :
    (/\ row.result \in Terminal
     /\ evalHyps[row.hypothesis].status = "candidate")
      => \/ row.hypothesis \in evalLost
         \/ evaluator.at = "update" /\ CurrentCandidate = row.hypothesis

\* The status of a hypothesis and the rows of save_evaluation agree, in both
\* directions.
VerdictsSound == VerdictJustified /\ VerdictLostOnlyByFailure

\* In the end, every candidate that evidence younger than itself contradicts
\* is decided, whatever its page, unless its status update was lost.
ContradictionDecides ==
  <>[](\A h \in DOMAIN evalHyps :
         /\ reliable
         /\ \E e \in DOMAIN evalEvidence : /\ e > evalHyps[h].gen
                                           /\ Criterion \in evalEvidence[e]
         => h \in evalLost \/ evalHyps[h].status # "candidate")
=============================================================================
