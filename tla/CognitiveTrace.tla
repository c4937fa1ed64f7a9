--------------------------- MODULE CognitiveTrace ---------------------------
(***************************************************************************)
(* The gateway's provenance view of a report                               *)
(* (apps/gateway/api-gateway/src/cognitive_trace.py): nine bulk reads, one *)
(* per canonical table, each asking for the ids that the rows read before  *)
(* it refer to.  The reads are separate READ COMMITTED statements, so rows *)
(* that other services commit in between are seen by the later ones and    *)
(* not by the earlier ones; array references carry no foreign key, so a    *)
(* row may refer to one that is not there.                                 *)
(*                                                                         *)
(* An artifact is a row of one tenant, a reference the id of one.  The     *)
(* payload of a node (its columns as JSON) is the row itself.              *)
(***************************************************************************)
EXTENDS Integers, Sequences, FiniteSets, Functions

CONSTANTS TraceRows,      \* artifacts other than the report
          TraceTypeOf,    \* row -> its table
          TraceRefs,      \* row -> [reference column -> ids it holds]
          TraceReport,    \* the report, whose column lists decisions
          MaxTraceMissing \* rows that are not there when the trace begins

VARIABLES traceStored,    \* rows in the tables, append only
          traceRead,      \* table -> rows the reads found
          traceStep,      \* position in TraceOrder; 0: no request yet
          traceAnswer,    \* what the request returned
          traceAsked      \* history: traceStored when the report was read

traceVars == <<traceStored, traceRead, traceStep, traceAnswer, traceAsked>>

TraceOrder == <<"decision", "recommendation", "confidence", "hypothesis",
                "anomaly", "pattern", "context", "evidence", "observation">>

\* The reference columns: the table that holds them, the table they name and
\* the relation of the edge.
Column(from, name, to, relation) ==
  [from |-> from, name |-> name, to |-> to, relation |-> relation]

TraceColumns ==
  { Column("report", "decision_traces", "decision", "documents"),
    Column("decision", "recommendation_id", "recommendation", "commits"),
    Column("decision", "confidence_id", "confidence", "calibrated_by"),
    Column("recommendation", "hypothesis_id", "hypothesis", "explains"),
    Column("recommendation", "confidence_id", "confidence", "carries"),
    Column("confidence", "target_id", "hypothesis", "calibrates"),
    Column("hypothesis", "anomaly_ids", "anomaly", "accounts_for"),
    Column("hypothesis", "pattern_ids", "pattern", "refers_to"),
    Column("anomaly", "pattern_id", "pattern", "deviates_from"),
    Column("anomaly", "context_id", "context", "contextualized_by"),
    Column("pattern", "context_id", "context", "contextualized_by"),
    Column("context", "evidence_ids", "evidence", "organizes"),
    Column("evidence", "observation_ids", "observation", "observes") }

TypeOfRow(r) == IF r = TraceReport THEN "report" ELSE TraceTypeOf[r]

AllTraceRows == TraceRows \cup {TraceReport}

\* A reference names a row of the table of its column, stored or not.
ASSUME TraceAssumption ==
  /\ TraceReport \notin TraceRows
  /\ TraceTypeOf \in [TraceRows -> Range(TraceOrder)]
  /\ \A c \in TraceColumns, r \in AllTraceRows : TypeOfRow(r) = c.from =>
       TraceRefs[r][c.name] \subseteq {x \in TraceRows : TraceTypeOf[x] = c.to}

\* A recommendation carries a confidence of its hypothesis, a decision the
\* confidence of its recommendation: the services write them so.
ASSUME TraceConfidences ==
  \A r \in TraceRows :
    /\ TraceTypeOf[r] = "recommendation" =>
         \A c \in TraceRefs[r]["confidence_id"] :
           TraceRefs[c]["target_id"] \subseteq TraceRefs[r]["hypothesis_id"]
    /\ TraceTypeOf[r] = "decision" =>
         \A c \in TraceRefs[r]["confidence_id"] :
           \E rec \in TraceRefs[r]["recommendation_id"] : c \in TraceRefs[rec]["confidence_id"]

NoTrace == [status |-> "none", nodes |-> {}, edges |-> {}, warnings |-> {}]

TraceInit ==
  /\ traceStored \in SUBSET AllTraceRows
  /\ Cardinality(AllTraceRows \ traceStored) <= MaxTraceMissing
  /\ traceRead = [t \in {"report"} \cup Range(TraceOrder) |-> {}]
  /\ traceStep = 0 /\ traceAnswer = NoTrace /\ traceAsked = {}

-----------------------------------------------------------------------------
\* Another service commits a row.
RowCommitted(r) ==
  /\ r \notin traceStored
  /\ traceStored' = traceStored \cup {r}
  /\ UNCHANGED <<traceRead, traceStep, traceAnswer, traceAsked>>

\* _collect, _collect_list_all and _extract_decision_ids: the ids that the
\* rows found so far hold in the columns naming table t.  The target of a
\* confidence is never followed.
\*
\* Mutant: the pattern of an anomaly is not followed.
WantedWithoutDeviations(t) ==
  UNION {UNION {TraceRefs[r][c.name] : r \in traceRead[c.from]} :
           c \in {d \in TraceColumns : /\ d.to = t
                                       /\ d.relation # "calibrates"
                                       /\ d.relation # "deviates_from"}}

Wanted(t) ==
  UNION {UNION {TraceRefs[r][c.name] : r \in traceRead[c.from]} :
           c \in {d \in TraceColumns : d.to = t /\ d.relation # "calibrates"}}

\* get_trace, its first read: no report is 404, a report without decisions
\* is answered at once with the one node and a warning.
TraceBegins ==
  LET found == traceStored \cap {TraceReport}
      bare  == TraceRefs[TraceReport]["decision_traces"] = {}
  IN  /\ traceStep = 0
      /\ traceAsked' = traceStored
      /\ traceRead' = [traceRead EXCEPT !["report"] = found]
      /\ IF found = {} \/ bare
         THEN /\ traceStep' = Len(TraceOrder) + 1
              /\ traceAnswer' =
                   IF found = {} THEN [NoTrace EXCEPT !.status = "404"]
                   ELSE [status |-> "partial", nodes |-> found, edges |-> {},
                         warnings |-> {<<TraceReport, "decision_traces">>}]
         ELSE traceStep' = 1 /\ UNCHANGED traceAnswer
      /\ UNCHANGED traceStored

\* _bulk_by_ids: one tenant-scoped statement, none for no ids.
BulkRead ==
  LET t == TraceOrder[traceStep] IN
  /\ traceStep \in DOMAIN TraceOrder
  /\ traceRead' = [traceRead EXCEPT ![t] = Wanted(t) \cap traceStored]
  /\ traceStep' = traceStep + 1
  /\ IF traceStep < Len(TraceOrder) THEN UNCHANGED traceAnswer
     ELSE traceAnswer' = [NoTrace EXCEPT !.status = "assembling"]
  /\ UNCHANGED <<traceStored, traceAsked>>

\* Every (row, column, id) of the rows that were read.
References ==
  UNION {UNION {{<<r, c, i>> : i \in TraceRefs[r][c.name]} :
                  r \in traceRead[c.from]} : c \in TraceColumns}

\* Mutant: what a context is organized from is not validated.
ValidateProvenanceAboveEvidence ==
  {<<ref[1], ref[2].name>> : ref \in
     {x \in References : /\ x[3] \notin traceRead[x[2].to]
                         /\ x[2].relation # "organizes"}}

\* _validate_provenance: a warning for each reference that was not found.
ValidateProvenance ==
  {<<ref[1], ref[2].name>> : ref \in
     {x \in References : x[3] \notin traceRead[x[2].to]}}

\* The _add_edges_* functions: an edge for each reference that was found.
TraceEdges ==
  {<<ref[1], ref[3], ref[2].relation>> : ref \in
     {x \in References : x[3] \in traceRead[x[2].to]}}

\* _add_node for every row read.
TraceNodes == UNION {traceRead[t] : t \in DOMAIN traceRead}

\* The end of get_trace and _assemble.
Assemble ==
  /\ traceAnswer.status = "assembling"
  /\ traceAnswer' =
       [status   |-> IF ValidateProvenance = {} THEN "complete" ELSE "partial",
        nodes    |-> TraceNodes,
        edges    |-> TraceEdges,
        warnings |-> ValidateProvenance]
  /\ UNCHANGED <<traceStored, traceRead, traceStep, traceAsked>>

\* The client asks again.
TraceAgain ==
  /\ traceAnswer.status \in {"404", "partial", "complete"}
  /\ traceRead' = [t \in DOMAIN traceRead |-> {}]
  /\ traceStep' = 0 /\ traceAnswer' = NoTrace /\ traceAsked' = {}
  /\ UNCHANGED traceStored

TraceNext ==
  \/ \E r \in AllTraceRows : RowCommitted(r)
  \/ TraceBegins \/ BulkRead \/ Assemble \/ TraceAgain

TraceSpec == TraceInit /\ [][TraceNext]_traceVars

-----------------------------------------------------------------------------
RefsOf(r) == UNION {TraceRefs[r][c.name] :
                      c \in {d \in TraceColumns : d.from = TypeOfRow(r)}}

ReferencesClosed(S) == TraceReport \in S /\ \A r \in S : RefsOf(r) \subseteq S

\* What the report rests on: the least set of rows with the report and,
\* with a row, whatever any of its reference columns names.
Provenance ==
  {r \in AllTraceRows :
     \A S \in SUBSET AllTraceRows : ReferencesClosed(S) => r \in S}

\* A trace that calls itself complete shows the report's whole provenance and
\* nothing else, every row of it stored, joined by every reference: the nine
\* staged reads compute the transitive closure although rows are committed
\* between them.
CompleteIsClosure ==
  traceAnswer.status = "complete" =>
    /\ traceAnswer.nodes = Provenance
    /\ Provenance \subseteq traceStored
    /\ \A r \in Provenance : \A i \in RefsOf(r) :
         \E e \in traceAnswer.edges : e[1] = r /\ e[2] = i

\* A warning is never a false alarm: when everything the report rests on was
\* stored before the request, the trace is complete; and a partial trace
\* still shows only artifacts that belong to it, edges between nodes.
NoFalseAlarm ==
  traceAnswer.status \in {"partial", "complete"} =>
    /\ (/\ Provenance \subseteq traceAsked
        /\ TraceRefs[TraceReport]["decision_traces"] # {})
         => traceAnswer.status = "complete"
    /\ traceAnswer.nodes \subseteq Provenance \cap traceStored
    /\ \A e \in traceAnswer.edges : {e[1], e[2]} \subseteq traceAnswer.nodes

\* The status of a trace is right in both directions.
TraceTruthful == CompleteIsClosure /\ NoFalseAlarm
=============================================================================
