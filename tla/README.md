# A verification project for company-os-monitor

TLA+ models of the parts of company-os-monitor that keep state which can go
wrong when processes interleave, crash or lose answers, with TLC runs on small
instances and TLAPS proofs for instances of any size. Paths are relative to the
repository root, `src/`.

## 1. The system

Agents on monitored hosts produce *observations*. They travel through an
ingest endpoint, a transactional outbox and a Redis stream to the collector,
which stores them and groups them into *evidence*. A chain of polling services
derives contexts, patterns, anomalies, hypotheses, confidence, recommendations
and *decisions* from the evidence, each in its own process over one PostgreSQL
database. People report the *outcomes* of decisions to the gateway, and the
learning loop turns every outcome revision into append-only memory signals.

```
 agents --HTTP--> gateway /ingest --tx--> observation_outbox
                                              | publisher (in every gateway)
 agents --XADD--------------------------> Redis stream "observations"
                                              | consumer group
                                          collector --> observations, evidence
                                              | polling
                     context --> pattern, anomaly --> hypothesis --> confidence
                                --> recommendation --> decision --> decisions
 people --HTTP--> gateway outcomes --> outcome_revisions --> learning loop
                                          --> learning_executions, learning_memory
```

### Inventory

| Component | State | Operations | What is hard | What makes it correct |
|---|---|---|---|---|
| Learning executions (`libs/learning/learning_execution_store.py`, `libs/memory/learning_loop.py`) | `outcome_revisions`, `decisions.actual_outcomes`, `learning_executions`, `learning_memory`, advisory locks | submit outcomes (phase 1), run / begin / reconcile an execution, complete, fail, heartbeat, find stale and orphaned ones | concurrent requests for a decision, stale executions retried while alive, failure inside phase 2, lost COMMIT answers | one running execution per revision; signals only from executions that completed; retries form a chain |
| Telemetry ingest (`apps/gateway/api-gateway/src/ingest.py`, `libs/telemetry/ingest_service.py`) | `metric_batches`, `observation_outbox` | accept, repeat, conflict, refuse | repeated and concurrent requests with one batch id, lost answers | what is answered 202 is queued; repetitions agree |
| Outbox publisher (`libs/telemetry/publisher.py`) | outbox rows, claims in memory | claim, XADD, mark published / failed / dead letter | two steps per row, several gateways, crash between them, snapshot of `attempts` | published means on the stream; retries end |
| Observation bus and collector (`libs/cognitive_core/observation_bus.py`, `apps/services/collector-service`) | stream, group position, pending list, `observations`, `evidence`, in-memory buffer | read, check, insert, acknowledge, organize, save evidence | failure between insert and acknowledgement, several collectors, crash loses the buffer | acknowledged means stored; evidence cites stored rows; every entry is delivered |
| Context activation (`apps/services/context-service`, `libs/perception/context.py`) | `contexts`, advisory lock per (tenant, purpose) | read evidence, compete, save (lock, deactivate, insert) | concurrent activators, evidence read long before the save | exactly one active context per purpose, in the end the current one |
| Decision lifecycle (gateway `decisions.py`, `service.py`, `libs/action/execution_record.py`) | `decisions`, `execution_records` | record an execution, submit outcomes (three ways the loop can be configured) | two transactions per report, overlapping reports, one `except` around two phases | the status rests on the records, an answer on what is stored |
| Memory ledger (`libs/memory/memory_ledger.py`) | `learning_memory` | persist, list, get latest | a signal that comes back after another one, an insert that is not acknowledged | an answer names a stored record of the target |
| Memory transformation (`libs/memory/*.py`) | none; reports computed from five lists | refine patterns, revise contexts, transform insights, signal | lists read one after the other, each cut to a page | counts are exact; signals are missing only beyond a page |
| Evidence rules (`collector-service/src/organizer`) | the buffer | organize: six rules over windows | selection before the window test, zero values | evidence where the observations call for it, and nowhere else |
| Reasoning services: pattern, anomaly, hypothesis, insight (`apps/services/*`, `libs/reasoning`) | one append-only table each, content-addressed ids | poll, read several tables, derive, insert one by one | inputs that change between reads, failure between two inserts, ids that decide what counts as known | every input is in the end derived from, once; every row can be traced to its context |
| Confidence service (`apps/services/confidence-service`, `libs/learning`, `libs/cognitive_core/calibration_model.py`) | `confidence_scores` | read outcomes, hypotheses and evidence, calibrate, insert | evidence that arrives between reads, an exception in the middle of a batch, outcomes reported later | a score rests on the evidence of its hypothesis alone; outcomes are fed back |
| Recommendation and decision services (`apps/services/*`, `libs/action`) | `recommendations`, `decisions` | offer for the latest score, commit under the policy | a new score after the offer, thresholds at equality, a crash between two commitments | a decision rests on a sufficient score of its hypothesis; every offer that may be committed is |
| Evaluation service (`apps/services/evaluation-service`, `libs/reasoning`) | `hypothesis_evaluations`, status of hypotheses | page by page: read evidence and scores, judge, save, move the status | two transactions, content-addressed ids that stop a repetition, pages by offset | a verdict has its row and its grounds; a contradicted hypothesis is decided |
| Report service (`apps/services/report-service`, `libs/action/report.py`) | artifacts on disk, `reports` | the cycle and requests: read ten stores, render, overwrite the artifact, insert the row once | a request beside the cycle, reads that others overtake, failing types, restarts | chains are whole; in the end the artifact of the period is current |
| Sessions (`apps/services/user-service`, `libs/access`) | `users`, token pairs, single-use keys in Redis | log in, refresh (read, consume, issue), create, change, deactivate | requests with one token, accounts changed during a refresh, expiry of keys and tokens | a refresh token is exchanged once; a deactivated user ends up without a valid token |
| Access rules (`libs/access/rbac.py`, `tenant_scope.py`, gateway `boundary.py`, `capability_policy.py`, `service.py`) | blacklist, confidence rows | the action endpoint; the deciders of gateway, user service and executor | Redis or the store not answering; the same question decided in several places | what is authorized is what the rank covers; all deciders agree |
| Rate limiter (`user-service/src/ratelimit.py`) | a sorted set in Redis or a list in memory | is_allowed | clocks read before the script runs | no window over the limit, no denial below it |
| Cognitive trace (gateway `cognitive_trace.py`) | none | ten reads, validation, assembly | rows committed between the reads, rows missing for good | "complete" means the whole provenance; no false alarm |
| Paged lists (twelve read stores of the gateway, `libs/shared/facets_cache.py`) | the facets cache | count, page, facets; the console walks the pages | three statements, each with a snapshot of its own; inserts and updates between pages | a walk loses nothing, with named exceptions; choices are real |
| Shared runtime (`libs/shared/circuit_breaker.py`, `concurrency.py`) | circuit state, semaphore | call, reset; process all | late results, a cancelled test call, tasks that gather abandons | the circuit recovers; the bound holds over all calls |
| Agent lifecycle, timeline, catalogues, web console, agents, infrastructure | see section 5 | | | |

`PROJECT.json` lists these components with their status, and under `hazards`
the places where the code is hard to test, with the properties that cover
them. A property is often a conjunction of named parts, one per promise, each
with a comment of its own and a mutation of the code that breaks it.

## 2. Modules

| Module | Models | Extends |
|---|---|---|
| `LearningExecution` | both phases of the learning loop, the execution store, reconciliation | |
| `LearningExecutionProofs` | its theorems | `LearningExecution` |
| `OutboxTable` | rows of `observation_outbox` and the layout of their documents | |
| `TelemetryIngest` | the ingest endpoint | `OutboxTable` |
| `ObservationPublisher` | the publishers | `OutboxTable` |
| `ObservationPublisherProofs` | its theorems | `ObservationPublisher` |
| `TelemetryDelivery` | endpoint and publishers on one outbox, shown to implement `ObservationPublisher` | `TelemetryIngest`, instance of `ObservationPublisher` |
| `TelemetryDeliveryProofs` | theorems about endpoint and delivery | `TelemetryDelivery`, instance of `ObservationPublisherProofs` |
| `ObservationCollector` | the stream with its consumer group, and the collectors | |
| `ObservationCollectorProofs` | its theorems | `ObservationCollector` |
| `ContextActivation` | the context activators of one tenant | |
| `ContextActivationProofs` | its theorems | `ContextActivation` |
| `ReasoningPipeline` | the pattern, anomaly, hypothesis and insight services on one database | |
| `ReasoningPipelineProofs` | its theorems | `ReasoningPipeline` |
| `ActionPipeline` | the confidence, recommendation and decision services on one database, with the outcomes fed back | |
| `ActionPipelineProofs` | its theorems | `ActionPipeline` |
| `DecisionLifecycle` | execution reports and outcome submissions in the gateway | |
| `MemoryLedger` | persisting a signal and finding it again | |
| `LearningSignals` | the transformations that turn outcomes into reports and signals | |
| `EvidenceRules` | the six organization rules and the buffer | |
| `HypothesisEvaluation` | the evaluation service | |
| `ReportGeneration` | the report service | |
| `UserSessions` | login, refresh and user administration | |
| `AccessRules` | the action endpoint and every decider behind it | |
| `RateWindow` | both backends of the rate limiter | |
| `CognitiveTrace` | `get_trace` | |
| `GatewayReads` | the twelve paged lists and a client that walks them | |
| `CircuitBreaker`, `TenantProcessor` | the shared runtime | |
| `ServiceProofs` | theorems about `DecisionLifecycle` and the components after it, one section each, except the rules | those modules |
| `MCContextParts` | context activation, transformations, trace, lists, access rules, evidence rules, rate limiter, decision lifecycle, ledger | those modules |
| `MCActionParts` | action pipeline, evaluation, reports, sessions, circuit breaker, processor | `MCActionPipeline` and those |
| other `MC...` | the values of constants, and symmetry, for TLC | the module of that name |

Operators whose comment starts with *Mutant* are plausible mistakes in the
operator that follows; they are used by nothing but the mutation runs listed in
`PROJECT.json`, which show that each property depends on the code it is about.

The two modules named `...Parts` check several components in one run. These
components share no variable in the models, so a behaviour exercises one of
them, chosen by the variable `part` in its first state, while the others keep
their first state: TLC explores the sum of the state spaces, not the product.
The specifications of the components are used as they stand; fairness is the
conjunction of the components' fairness, written with one formula per kind of
process, which is the same because only one component can take a step.

### LearningExecution

`revisions`, `actual`, `exec` and `ledger` are the committed rows; `lock` is
PostgreSQL's advisory lock table; `pc` and `tx` are a caller's coroutine and
open transaction. READ COMMITTED is modelled by keeping everything an open
transaction wrote in `tx` until `Commit`. Phase 2 is one transaction from
`Begin` to `PersistAndCommit`, with one step per await between them, so that
another request can change `decisions.actual_outcomes` under it. Three calls
share the claim: `run_for_decision` (phase 2), `begin_execution`, and
`reconcile_stale_execution`. Statements that fail are `ClaimError`,
`Phase2ClaimAbandoned`, `Phase2Error`, `FinishError`; a COMMIT whose answer is
lost is `CommitUnacknowledged`. Time is the age of the heartbeat.

A claim can fail in two ways. In `begin_execution` and
`reconcile_stale_execution` the `async with` rolls back, and a statement that
fails with its connection ends the transaction in the server: `ClaimError`.
`begin_phase2` enters its session by hand, without a `try`, and
`run_h3_learning_loop_for_decision` calls it before its own `try`. When it
raises in the client, as the refused status update of a stale execution does,
nobody ends the transaction: `Phase2ClaimAbandoned` leaves it open with the
advisory lock until the garbage collector finds the session
(`SessionCollected`, without fairness). `LockNotStarved` excepts a lock that is
held by such a session and no other. Cancellation of a task is not modelled; a
process that dies is `Crash`.

`_UPDATE_EXECUTION_STATUS` has seven bind parameters and every caller leaves
some out. SQLAlchemy refuses such a statement, and the code reads as if it did
not, so the constant `OmittedBindIsNull` has both: `FALSE` is what the build
does, `TRUE` is what was intended. The properties are proved for both, and the
runs use both, because with `FALSE` no execution can be retired, failed or
retried and a large part of the protocol would not be exercised.

### TelemetryIngest, ObservationPublisher, TelemetryDelivery

A batch is identified by its installation and batch id; a payload is a model
value with the fact types it carries, and the observation id is a function of
batch, installation and fact, as in `observation_id.py`, and not of the values.
`handler` is a request between its awaits. The insert into `metric_batches`
has its two ways to fail (the primary key, which is the client's batch id, and
the unique index), in a savepoint that is rolled back before the existing
batch is read.

In `ObservationPublisher`, `pub[p].todo` are the rows a poll returned with the
`attempts` they had then. The claiming SELECT is one step without lasting
effect, because asyncpg commits each statement. XADD and the UPDATE are two
steps; either can fail with or without effect; `Stop` can fall between them.
The backoff is a flag that time sets.

`TelemetryDelivery` puts the endpoint and the publishers on one outbox, rows
being named by batch key.

### ObservationCollector

The stream is a sequence, the group its position (`lastDelivered`) and its
pending list (`unacked`). A collector's round is `Read`, then for every entry
`ObservationExists`, `SaveObservation` and `Ack`, then `StartOrganize` (prune
the buffer, run the rules) and one `SaveEvidence` per row found. Every await
may raise with or without its effect (`ReadError`, `EntryError`,
`EvidenceError`). The rules are the parameter `Organize`, with the one
assumption that evidence cites observations of the buffer.

### ContextActivation

A context id is a hash over the ids of all evidence of the tenant, and evidence
is append-only: a context is named by the version of the evidence table it
saw. `retired` is what DEACTIVATE_CONTEXT updated in the open transaction.
The score of the competing mental models decides a context's content, not
whether it is active, and is left out. `NeverZeroActive` is stated for one
running activator (`Single`: the others are *off*), which is how the service is
deployed; the other properties for any number.

### ReasoningPipeline

All tables are append-only, so a table is a sequence, a row is named by its
place, and what a SELECT returned is remembered as the length the table had.
Each service is a small state machine over the awaits of its cycle: the pattern
service reads the contexts and inserts; the anomaly service reads the stream,
the active contexts and the patterns, in that order; the hypothesis service
reads anomalies, then contexts and patterns; the insight service hypotheses,
then contexts. Each table has one writer, so a candidate whose row exists is
dropped when it is derived, instead of when ON CONFLICT drops it. The insert of
an insight is one step with the read before it, because nothing can come
between them that its row depends on. `Regularities`, `Deviations`,
`Creations` and `Restructured` are the pure functions `detect`, `detect`,
`generate` and `generate_insights`; which rows are equal follows the ids
(`pattern_id`, `anomaly_id`, `hypothesis_id`), because the ids decide whether a
derivation is repeated or lost. Times are hours; one purpose is modelled, so
the scope of a context is its mental model.

### ActionPipeline

Evidence is a number of rows and a context the number it was activated with,
so that the scope of a hypothesis is a number too and "evidence outside the
scope" is a comparison. Scores are in ten-thousandths, as `NUMERIC(5,4)` stores
them; support and coherence of a scope are the constant `Support`, so the score
of a row is a function of its scope and its history factor. The history factor
is computed from the decisions with a conclusive outcome as
`build_learning_history` and `ece_score` do it: bins, their weights, the last
bin closed. Predictions of the committer are sentences, which
`compute_outcome_signal` turns into 0.0; the model has that. `used` is a ghost:
no column says which evidence a score was computed from. `list_decisions` with
`list_confidence`, and `list_recommendations` with `list_confidence`, are one
read each, because the rows that reach the second table in between are not
referred to by the first. The pages (`batch_size`, the default limit of the
`list_` methods) are constants. `Organize`, `Activate` and `Hypothesize` stand
for the services below and may do whatever those can.

### DecisionLifecycle, MemoryLedger, LearningSignals

`DecisionLifecycle` has `record_execution` in its two transactions and
`submit_outcomes` in the three configurations of the loop (`learning`: none,
the legacy loop, H3). `disturbed` is a ghost that says that reports overlapped,
one failed in the middle, or one named a time that was taken: the property
about the status names these as the only ways in which status and latest
record part. `MemoryLedger` follows one target: `INSERT ... ON CONFLICT DO
NOTHING`, the re-fetch outside the transaction, and an insert whose answer is
lost. In `LearningSignals` the tables grow while the loop reads them list by
list in the order of the code; `SigPage` is the fifty of the lists. The fifteen
reads are those of refinement, revision (which reads the contexts last),
transformation (which reads the insights first) and trace; patterns, contexts
and insights each have their report and their signals. Links between rows are
constants, so the reference definition (`Chain`, `Truth`) is
the join over the tables, and the computation is the code's staged one.

### EvidenceRules

A scene is a set of observations that arrive in any order; after each arrival
the buffer is pruned and the rules run. `Organizations` is the code's way to
find evidence (group, filter, choose, test the window); `Needs` is what a rule
asks for. `RulesCorrect` compares the two: evidence always meets its rule, and
a group that meets a rule within its window always gives evidence. Groups and
what a rule chooses are sets of places in the buffer. What a group says *now*
is `Current`: of the sizes of one device the code pairs the last ones to arrive,
so an older report of little space does not count beside a newer one. A
percentage is rounded down to a whole one; the thresholds are whole, so no test
changes, and two candidates less than one percent apart are taken for equal.

### HypothesisEvaluation, ReportGeneration

Both are services with a cycle over one tenant. An evidence row of the
evaluation is the set of predictions and criteria its text matches; the page being
judged is the set of its candidates, taken in order; `reliable` is the argument `evidence_basis_reliable`, with both values. `evalLost` is a
ghost: hypotheses whose status update failed after their row was inserted. A
document of the report service is the number of decisions it shows and those
among them with a whole chain; days pass between and during generations.
Confidences, hypotheses and observations are read by the first `RepPage` (500)
rows of the tenant, whichever decision they belong to, if any. For each
decision `repPos` has the position of the last row of its chain in each of
these lists; `RowStored` puts a row anywhere in a list (observations are
ordered by the time of their source, the others by a clock that is read before
the commit) and moves those behind it. A chain is whole in a document if every
page that was read held its rows.

### UserSessions, AccessRules, RateWindow

A token pair has an age and the remaining life of the key that marks its
refresh token as used. A refresh is its awaits: read the account, consume the
token in Redis, issue. The setnx call has an expiry, as the protocol class of
the blacklist declares it. In `AccessRules` every request of a small
set (role, action, risk, tenant, confidence, target, header) is decided; the
store of the confidence check is absent, incompatible or present
(`gateAdapter`). The target whose confidence is checked is what the client
says it is: a type, else a hypothesis, and an id, else any. A row of the store
has the target it was computed for. In
`RateWindow` a store is a set of recorded requests, each with the score that
the caller's clock gave it, its age, whether the sorted set still holds it and
whether it was let in; `NewMember` stands for the UUID that makes the members
of the sorted set distinct. Ages are counted from now, so that time is bounded
without a clock, and a request older than every window is forgotten.

### CognitiveTrace, GatewayReads

A row of the trace is its references by column; nine reads collect, validate
and join them while rows are committed. Provenance, the reference definition,
is the least set that contains the report and is closed under every reference.
References go to a table that is read later (`TraceOrder`), and
`TraceConfidences` says of the rows what the services write: a recommendation
carries a confidence of its hypothesis, a decision that of its recommendation.
A listed row of `GatewayReads` is a value of the filtered column; the record of a list says
which filters it has, which of them other services update, which have facets,
and which facets are a fixed list of choices (`is_active` of contexts and
patterns, the quality class of evidence). A page is the set of listed rows with as many listed rows before them
as `LIMIT` and `OFFSET` say. `due`, `left` and `slipped` are ghosts of the walk.

### CircuitBreaker, TenantProcessor

A call is admitted in one state of the circuit and may end in another.
`CallCancelled` is asyncio's cancellation, which no `except Exception` sees.
The processor's tasks belong to a call and outlive it when gather raises.

## 3. Runs

| Run | Shows | Bounds |
|---|---|---|
| `learning_retry` | one active execution per revision, signals only from completed executions, linear retries | 1 decision, 2 revisions, 3 executions: a retry of a retry, and a second revision in parallel; 2 workers; omitted binds are null, so that the retry protocol is alive |
| `learning_shared` | what is counted is stored although two decisions share a pattern; a caller that waits for the advisory lock gets it or returns, unless a failed claim of `begin_phase2` left it to an open session | 2 decisions, 2 revisions, 2 artifacts, 2 workers; omitted binds are refused |
| `learning_rerun` (violated) | a completed revision is learned from again | 2 revisions, 2 executions |
| `delivery` | accepted batches are queued, ids identify facts, answers agree, no update of a single publisher is lost, and endpoint and publisher implement `ObservationPublisher` | 2 installations with one batch id, 2 payloads, 2 requests in flight, 1 publisher, limit 2 |
| `publisher` | two publishers: a published row is on the stream, retries end, rows are delivered | 2 rows, one of each layout, limit 3, 2 faults |
| `delivery_loss` (violated) | a row the endpoint wrote is dead-lettered with nothing failing | the real limits: 5 attempts, batches of 10 |
| `collector` | acknowledged is stored, evidence is backed, every entry is delivered, evidence that failed is tried again | 2 collectors, 3 entries, 1 fault |
| `collector_retry` (violated) | an entry that failed once is never read again | 1 collector, 2 faults |
| `context` | one active context per purpose, the index never trips, one activator leaves no purpose without a context, in the end the current one is active; transformations, trace, lists, access, rules and limiter are right; statuses, answers and ledger records agree with what is stored | 2 activators, 2 purposes, 3 versions, 2 faults; transformations with pages of 2 and tables beyond it, traces with up to 3 missing rows, ten of the twelve lists (hypotheses and recommendations have the record of decisions) with pages of 1 and 3 rows, every request of 2 tenants with the targets it may name, a scene per rule, 2 servers with a limit of 2; lifecycle: 2 reports and a submission at once, 1 fault; ledger: 2 callers |
| `reasoning` | no anomaly is explained twice by a template; patterns, anomalies, competing hypotheses and the insight of the active frame are there in the end | 2 models, 3 contexts, 3 instants, 1 fault |
| `action` | scores from the scope alone, decisions on sufficient scores of their hypothesis; outcomes fed back, new scores offered, offers committed in the end; verdicts, reports, sessions, test calls and tasks are sound, and what must come in the end comes | 2 rows of evidence, 2 hypotheses, batches of 1 (so that a cycle has several), 2 reports, 1 fault; evaluation: pages of 1, 2 hypotheses; reports: 2 days, 2 decisions, pages of 1, and beside the cycle a request, a fault or a second row in one of the paged stores; the first or the last of 2 types broken; 2 sessions of 2 accounts; 3 callers of a breaker; 2 calls of a processor with batches of 2 for 3 tenants |
| `action_starved` (violated) | a hypothesis about all the evidence is never calibrated if an older one has a smaller scope | no fault, no report |

The bounds are the smallest at which the interesting cases meet: two callers
for every race (a third one would wait for the same lock or row as the second),
one more execution, entry or version than a race needs so that a retry can
itself be overtaken, and one or two faults so that a failure can hit the
recovery from a failure. Counters that grow for ever in the code (executions, entries,
versions) are bounded by the size of the sets of ids; faults by `MaxFaults`.
Symmetry is used in `learning_retry` and `delivery` only, on interchangeable
processes, ids and payloads; no run with a liveness property uses it. The
client of a list asks for one of the two values of a column that nobody
updates, because they can be exchanged.

The runs that are violated are disagreements between the code and what a
comment or document of the repository says; `findings` in `PROJECT.json` quotes
both sides. The properties are stated as the document states them.

Deadlock is checked except in `publisher` and `delivery_loss`: when every row
of the model is settled a publisher polls and finds nothing, which is a state
in which nothing happens and not a mistake.

### Fairness

- `LearningExecution`: weak fairness of a running call's own steps (a coroutine
  that can run does) and strong fairness of getting the advisory lock, because
  PostgreSQL queues its waiters. No client is obliged to call, and no failure
  is excluded or required.
- `ObservationPublisher`: the poll loop goes on, a stopped gateway is started
  again (the container's restart policy), time passes. Redis and the database
  fail at most `MaxFaults` times; `RowsDelivered` needs `MaxFaults` below
  `MAX_ATTEMPTS`, because a row that fails that often is given up.
- `ObservationCollector`, `ContextActivation`: the main loop goes on and a dead
  process is restarted. Faults are finitely many (`MaxFaults`), so what is
  shown is recovery after the last one.
- `ReasoningPipeline`, `ActionPipeline`: weak fairness of each service as a
  whole. Their mains poll in `while` loops that catch what a cycle raises, and
  the containers are restarted. Nothing obliges evidence, contexts or outcomes
  to arrive; their number is bounded, so the properties say what holds once
  they stop arriving.
- `HypothesisEvaluation`, `ReportGeneration`: the `while` loop of the main goes
  on, catches what a cycle raises and is restarted; failures are bounded.
- `UserSessions`: time passes, and a refresh that has begun ends. Nobody is
  obliged to log in, refresh or deactivate.
- `CircuitBreaker`: callers keep calling, a call that runs ends in one way or
  another, time passes. Nothing obliges the dependency to recover: the property
  is about states in which it has.
- `TenantProcessor`: tasks that hold the semaphore end, and the event loop
  schedules the ones that wait.

## 4. Proofs

All theorems hold for any size of the constants. What is assumed of the
constants is named in the module that declares them and checked by TLC in the
runs: their types, null values that are no values, and

- of `ObservationCollector`, that rules cite observations of the buffer;
- of `RateWindow`, that a script runs within `MaxDelay` of the reading of its
  caller's clock, and that this is less than the window and no more than what
  the key lives longer than the window. Without such a bound the limiter keeps
  no promise, and the property has the bound in it: what is counted is the
  window less the delay;
- of `CognitiveTrace`, the order of references and the rule about confidences
  quoted in section 2. The second is needed because a trace does not follow the
  reference of a confidence to its target;
- of `LearningSignals`, that links go to numbers of rows. That a row is there
  before one that refers to it is a guard of the insert, not an assumption.

### From observation to outcome

- **LearningExecutionProofs**. `AtMostOneActive` is not inductive: a claim is
  safe because its worker has held the lock of the decision since it looked for
  active executions. The invariant `IInv` adds, per worker, that an open
  transaction holds its lock (`LockOK`), that nothing but what it saw is active
  for its revision (`SeenOK`), that reconciliation was handed a row of its
  revision, and that the execution it created is invisible or without signals
  (`OwnedOK`). Statuses can be changed without the lock, by complete and fail,
  and the proof shows that this direction (active to inactive) is harmless.
  Results: `TypeCorrect`, `OneActiveExecution`, `PhaseTwoAtomic`,
  `CountedStored`, `RetryChain`. Nothing is assumed of `LockKey`: colliding
  hashes only make callers wait. The unique index
  `uq_learning_execution_active` is not in the model, so the theorem says the
  protocol does not need it.
- **ObservationPublisherProofs**. `PublishedOnStream`: the invariant says that
  a publisher in state *sent* has its row's observation on the stream, and that
  a document never changes. `AloneInOrder`: with one publisher, a row whose
  attempt is in progress has the attempts the publisher remembers, and is
  neither published nor dead; that is what its update relies on, and what a
  second publisher breaks.
- **TelemetryDeliveryProofs**. `DeliveryRefinesPublisher`: every step of
  endpoint and publishers on one table is a step of the publisher's
  specification or changes nothing of it. An insert is its `Enqueue` because
  the outbox has a row for a batch only if `metric_batches` has
  (`TableMatches`), so no handler inserts a row twice. The abstract
  specification is the one without fairness. `DeliveryPublishedOnStream` and
  `DeliveryInOrder` carry the theorems about the publisher over to the
  delivery. `IngestHonest` adds to `TableMatches` that two batches have two
  batch ids (`BatchesUnique`) and that an answer is about a stored batch or
  about one whose batch id is taken by another body (`AnswersTrue`), which never
  changes again: hence repetitions agree.
- **ObservationCollectorProofs**. `AckAfterInsert`, `EvidenceBacked`,
  `CollectorTypes`: the invariant says that a collector about to acknowledge
  holds an entry whose observation is stored, and that buffer and evidence to be
  saved refer to stored observations.
- **ContextActivationProofs**. `LockSuffices`, `NoUniqueViolation`: between
  `Deactivate` and the end of the transaction the holder of the lock has
  retired every active row but its own. `SingleNeverZero`: with one activator
  the version it works on is never older than the newest row, and the newest
  row is the active one. The second part fails for two activators.
- **ReasoningPipelineProofs**. `NoDuplicateExplanation` needs that two rows
  that differ only in the pattern they cite cannot exist. That follows from
  `EveryRowTraceable` (a hypothesis cites the pattern of its anomaly), which in
  turn needs that the hypothesis service finds that pattern: patterns are read
  after anomalies, and an anomaly is inserted after the pattern it cites. The
  invariant adds what the services remember between reads and inserts
  (`Remembered`) and that rows are distinct from those about to be inserted
  (`Distinct`). `ReasoningTypes` comes with it.
- **ActionPipelineProofs**. `ScoresFromScope`: the confidence service reads the
  evidence after the hypotheses of its batch, so the evidence read includes
  their scopes (`Calibrating`); the scope check gives the other inclusion, and
  together they give equality. It also needs that scopes never change, which is
  the lemma `Grown`: rows keep what they rest on when tables only grow.
  `DecisionsAreGrounded`: an offer that was found committable stays so until it
  is committed (`Committing`), because the score it is bound to is a row and
  not the latest one. `ActionTypes` contains that the history factor stays
  between 0 and 1. All for every `Support`, policy, page size and number of
  bins.

### The other services: `ServiceProofs`

One section per component: its invariant, one step of proof per action, and the
property that the run checks. What the invariant adds to the property:

- `ProcessorKeepsPromises` (`ProcInv`): a call takes its tenants in the order of
  its batches, so those before the batch in progress have their results; a call
  that has tasks alive is the one in progress or one that failed.
- `BreakerTestsSettle` (`BreakerInv`): whoever ends a call while the circuit is
  half-open moves it on, also a call that was admitted before the circuit
  opened. The property needs no more than types beside it; the proof goes
  through every pair of states a call begins and ends in.
- `LedgerAnswersTrue` (`LedgerInv`): a request whose insert hit a conflict has a
  stored row of its signal, one that inserted is alone with its key, and the
  table has a latest row, which is what the re-fetch answers with.
- `DecisionRowTrue` (`LifeInv`): in the gap between the two transactions of
  `record_execution` the record of the request exists, and unless something
  `disturbed` the decision it is the last record and there is no other request.
- `EvaluationVerdictsSound` (`EvalInv`): between the insert of a verdict and the
  update of the status, the row is stored, its scores were read from rows, and
  its basis is evidence that exists; evidence that arrives later is not in the
  basis, so the verdict stays justified.
- `ReportsRelyOnOrder` (`RepInv`): a reading of the decisions is remembered by
  `Reading`: the decisions not shown were committed on the last day shown or
  later, and chains stay whole while their rows are on the first pages. A row
  that is committed can move another away from a page and never onto it
  (`RowsMoveAway`), so what is on the first pages now was on them when they
  were read. It holds of every generation in progress, every artifact and every
  row.
- `AuthorityOfActions` (`GateInv`): the tables of the code give every role what
  its rank gives it (`RanksOfRoles` and the lemmas after it, one per decider),
  and a request that waits for the confidence store was cleared (`Cleared`).
  Rows are never removed, so the one that proved a request is there when it is
  answered; it is of the tenant and about the target the client named.
- `TraceIsTruthful` (`TraceInv`): what was read belongs to the provenance and
  is stored; every reference followed so far was found or was not asked about.
  Because references go to tables read later, a complete answer is closed under
  references, so it contains the least closed set.
- `SessionsKeepPromises` (`SessInv`): the key that marks a token as used lives
  at least as long as the token (`Marked`); otherwise a token could be exchanged
  again after its key expired. A request remembers the rows the account had
  since it began (`CallsTrue`).
- `LimiterKeepsLimit` (`RateInv`): age and score of a recorded request differ by
  at most the delay (`ClocksTrue`); whatever a window still counts is held,
  neither cut off nor gone with its key (`RecentHeld`, `KeyOutlives`); members
  are distinct (`MembersUnique`), so that the cardinality the script asks for is
  the number of requests.
- `TransformsCountTruly` (`SigInv`): after which reads the pages are closed
  under which references (`SeenClosed`). Refinement and revision read what
  refers before what is referred to, so rows that come in between cannot be
  missing. The journal reads the insights first; it is exact for those it
  lists, and lists the one of the loop's decision because that was there before
  the decision. The rest of the proof is that the staged computation of the code gives the counts of the
  join over the tables.
- `ListsAreHonest` (`ListInv`): a row that is due and not yet seen has at least
  as many listed rows before it as the pages read so far hold (`Behind`). Rows
  that are inserted, wherever they come in the order, only move it back, so the
  walk meets it before it has counted the table through; only a row that leaves
  the list moves others forward into a page the client has passed. A cached
  value has been without a row for no longer than it is cached, and a fixed
  list has every value (`FacetsTrue`).

- `RulesFindEvidence` (`RuleInv`): the buffer spans no more than the longest
  window. The rest is about the operators, rule by rule (`RuleKept`): a finite
  set of candidates has a worst one (`NoneIsBefore`, `WorstCandidate`), so a
  rule chooses something past its threshold if anything is; a percentage that
  is rounded down is below a whole one just if the exact one is
  (`PercentBelow`); and pruning loses no place (`PrunedSpans`: the ranks of the
  kept observations are all the numbers up to their count).

Induction is used in one place, as the well-foundedness of the numbers
(`LeastNumber`), which is about sets and not about operators.

`PublisherTypes` and `ActivationTypes` give the types of two more modules; the
types of the modules with proofs are therefore not repeated as invariants of
the runs.

Only model-checked: the liveness properties. Under fairness, and with ENABLED,
they are out of the reach of this version of the prover.

### Disagreements met while modelling that have no run

The models have the behaviour of the code in each of these; no property is
stated that they violate.

- `begin_phase2` says "The caller MUST eventually commit or rollback the
  returned session" (`libs/learning/learning_execution_store.py:433`), but a
  claim that raises returns none: session, transaction and advisory lock stay
  open, and later calls for the decision wait
  (`libs/memory/learning_loop.py:725`). With the installed SQLAlchemy every
  claim over a stale execution raises.
- The technical report announces a "traza cognitiva completa"
  (`apps/services/report-service/src/service.py:252`). Beyond the first 500
  confidences, hypotheses or observations of the tenant, whatever they belong
  to, `build_decision_traces` leaves the rows it does not find out, also of the
  oldest decision. A late observation with an old `captured_at` moves others
  off the page.
- The check of a confidence "matches target"
  (`apps/gateway/api-gateway/src/boundary.py:115`), but the target is the
  client's word (`health.py:1333`) and the action names no subject to compare
  it with.

- A failed phase 2 leaves no failed execution: the handler updates a row that
  its own rollback removed (`libs/memory/learning_loop.py:887`).
- An execution learns the outcomes current when it runs, not those of its
  revision (`libs/memory/learning_loop.py:776`, against `:126`).
- The client's batch id is the primary key of `metric_batches`, so an
  installation is refused because of another one's batch
  (`libs/telemetry/ingest_service.py:104`, against ADR-0004).
- `FOR UPDATE SKIP LOCKED` runs outside a transaction and holds nothing
  (`libs/telemetry/publisher.py:143`, against ADR-0004).
- The collector's buffer is pruned by timestamps of any tenant
  (`apps/services/collector-service/src/consumer.py:60`).
- `save_context` deactivates before an INSERT that may do nothing: with two
  activators, a save from older evidence leaves a purpose without an active
  context (`libs/perception/context.py:303`).
- A recurrent context is compared with the pattern anchored on itself, and is
  flagged (`libs/procedural_memory/tolerance_library.py:20`).
- The prediction of a commitment is a sentence and counts as 0.0, so an
  outcome that was met is counted as a contradiction
  (`libs/learning/learning_loop.py:62`).
- `calibrate` never fills `evidence_ids` of a confidence
  (`apps/services/confidence-service/src/calibrator/calibrator.py:254`).
- A history factor that comes back to an earlier value inserts nothing, and the
  latest row keeps the value in between (`SELECT_LATEST_BY_TARGET`).
- Decisions and history look confidences up in the oldest 500
  (`apps/services/decision-service/src/service.py:101`).
- As `main.py` configures the gateway, the learning loop has no execution
  store, and the legacy path fails at its first signal: `_persist_learning_signal`
  takes keywords only and is called with positions
  (`libs/memory/learning_loop.py`). Outcomes are stored, signals are not.
- On the H3 path a submission whose outcomes were refused is answered 200 with
  learning "failed" (`apps/gateway/api-gateway/src/service.py:495`).
- `MemoryStore.list` does not select `execution_id`, which `_row_to_record`
  reads (`libs/memory/memory_ledger.py`).
- No code sets the status "completed" of a decision that its filters offer.
- A free space of 0 falls through `or` and the pair is left out
  (`apps/services/collector-service/src/organizer/rules.py:78`);
  `EvidenceComplete` names the exception.
- The rules about a source group by `source_id` alone and give the evidence the
  tenant of one of its observations
  (`apps/services/collector-service/src/organizer/rules.py:150`). The ingest
  endpoint sets `source_id` to the server; an agent that publishes to the bus
  itself takes it from `SOURCE_ID`, which has a default
  (`apps/agents/linux-agent/src/main.py:19`). `EvidenceSound` therefore promises
  one tenant only while no two share a source (`OneTenantPerSource`).
- "Get the latest confidence" takes the oldest one of the first 500
  (`apps/services/evaluation-service/src/service.py:163`), and the report takes
  the newest of the oldest 500.
- The evidence held against a hypothesis is that since the oldest candidate of
  its page, which can be older than the hypothesis.
- A report is "never retroactively modified" (`libs/action/report.py:115`); its
  row is not, the artifact the row points to is overwritten.
- Logout writes a key under the refresh token's id that refresh never reads
  (`apps/services/user-service/src/service.py:148`).
- The adapter the gateway is started with has no `get_confidence_for_boundary`,
  so an authorized propose or commit with a confidence is answered 400
  (`apps/gateway/api-gateway/src/main.py`); `AccessRules` has this adapter
  besides one with the method.
- The facets are "real values, not invented options"
  (`apps/gateway/api-gateway/src/patterns.py:169`), but those of `is_active` of
  contexts and patterns and of the evidence's quality class are fixed lists
  (`patterns.py:180`, `contexts.py:196`, `evidence.py:179`).

## 5. What is left out

Data the properties do not tell apart: payload values, texts, ids as strings,
timestamps except where order or age decides; passwords, signatures and
cookies, which are valid or not; layout of documents; logging and metrics.
Authentication in front of the modelled handlers other than the action
endpoint. Detail and summary reads of the gateway: single statements, or
sequences whose answer claims no more than each statement found.

Components with status `not_modelled` in `PROJECT.json`, with the reason there.
The largest is the lifecycle of agents and their machine tokens: its handlers
call methods that do not exist (`self._db_execute`, `self._db_fetchrow`; the
functions of that name are module level in `service.py`), so that every request
ends in the error answer and the reconciler has no rows to work on.

Logout is left out of `UserSessions`, and the legacy learning loop, which
fails as described above, is in `DecisionLifecycle` only through its answer.

## 6. Plan

1. `DecisionLifecycle` composed with `LearningExecution` as its source of
   revisions, and `HypothesisEvaluation` with `ActionPipeline`.
2. An abstract specification of a polling derivation (inputs arrive, each is in
   the end derived from once) that the services of `ReasoningPipeline` and
   `ActionPipeline` implement.
3. Composition of publisher, stream and collector, with `EvidenceRules` for the
   parameter `Organize`.
