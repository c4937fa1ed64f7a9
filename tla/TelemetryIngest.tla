-------------------------- MODULE TelemetryIngest --------------------------
(***************************************************************************)
(* POST /api/v1/telemetry/ingest: an agent installation submits a batch of *)
(* samples under a batch id of its choice and may submit it again, because *)
(* the answer was lost or by mistake with another content.  The handler    *)
(* validates the body, resolves the installation on one connection, and in *)
(* one transaction of another connection inserts the batch, its samples    *)
(* and an outbox row.                                                      *)
(*                                                                         *)
(* Requests are authenticated: what the token check refuses changes        *)
(* nothing and is left out.  An installation belongs to one tenant, so a   *)
(* (tenant, installation) pair is an installation.  A payload is the body  *)
(* without its batch_id, the part that is hashed; distinct payloads have   *)
(* distinct hashes.                                                        *)
(***************************************************************************)
EXTENDS OutboxTable, Sequences

CONSTANTS
    Installation,
    BatchId,
    Payload,
    Malformed,   \* payloads _validate_body or the sequence check refuses
    FactTypes,   \* Payload -> the fact types of its samples, by sequence number
    Handler      \* requests that can be in progress at once

ASSUME PayloadsOK ==
    /\ Malformed \subseteq Payload
    /\ DOMAIN FactTypes = Payload
    /\ \A p \in Payload : FactTypes[p] \in Seq(STRING)

Key == Installation \X BatchId \X Payload

\* UUIDv5 of "{tenant}:{installation}:{batch}:{sequence}:{fact_type}": the
\* values of the samples are not part of it.
observation_id(i, b, seq, fact) == <<i, b, seq, fact>>

IdsOf(i, b, p) ==
    {observation_id(i, b, s, FactTypes[p][s]) : s \in DOMAIN FactTypes[p]}

ObservationId == UNION {IdsOf(k[1], k[2], k[3]) : k \in Key}

VARIABLES
    status,      \* Installation -> agent_installations.status
    drift,       \* Payload -> captured_at against the clock and its +-5 minutes
    batches,     \* metric_batches with their metric_samples: a set of keys
    outbox,      \* observation_outbox: Key -> row
    handler,     \* Handler -> the request in progress
    answers      \* the 202 and 409 answers given so far

ingestVars == <<status, drift, batches, outbox, handler, answers>>

NoKey == <<>>
Idle == [pc |-> "idle", key |-> NoKey]
Answer == [key : Key, code : {202, 409}, ids : SUBSET ObservationId]

IngestInit ==
    /\ status = [i \in Installation |-> "ACTIVE"]
    /\ drift \in [Payload -> {"early", "inside"}]
    /\ batches = {}
    /\ outbox = [k \in Key |-> NoRow]
    /\ handler = [h \in Handler |-> Idle]
    /\ answers = {}

Finish(h) == handler' = [handler EXCEPT ![h] = Idle]

Reply(h, code, ids) ==
    /\ answers' = answers \cup {[key |-> handler[h].key, code |-> code, ids |-> ids]}
    /\ Finish(h)

\* The body is read and validated.  A malformed one, or a captured_at that is
\* five minutes or more off, is answered 400 before anything is looked up.
Receive(h, k) ==
    /\ handler[h] = Idle
    /\ k[3] \notin Malformed /\ drift[k[3]] = "inside"
    /\ handler' = [handler EXCEPT ![h] = [pc |-> "resolve", key |-> k]]
    /\ UNCHANGED <<status, drift, batches, outbox, answers>>

\* _resolve_installation, on a connection of its own; 400 if not ACTIVE.
ResolveInstallation(h) ==
    /\ handler[h].pc = "resolve"
    /\ IF status[handler[h].key[1]] = "ACTIVE"
         THEN handler' = [handler EXCEPT ![h].pc = "insert"]
         ELSE Finish(h)
    /\ UNCHANGED <<status, drift, batches, outbox, answers>>

\* Mutant: the primary key left to its default, gen_random_uuid(); only the
\* UNIQUE (tenant_id, installation_id, batch_id, payload_hash) is left.
ViolatesUniqueOnly(k) == k \in batches

\* Mutant: ON CONFLICT DO UPDATE.
ViolatesNever(k) == FALSE

\* UniqueViolationError: the primary key of metric_batches is the client's
\* batch_id, whoever the client is.
Violates(k) == \E row \in batches : row[2] = k[2]

\* The transaction: a row of metric_batches, the samples, and ONE outbox row
\* with the document of the whole batch.
Stored(k) ==
    /\ batches' = batches \cup {k}
    /\ outbox' = [outbox EXCEPT ![k] =
                    NewRow([layout |-> "batch", ids |-> IdsOf(k[1], k[2], k[3])])]

\* The insert goes through; a concurrent insert of the same key waits for the
\* end of the transaction, which is therefore one step.
InsertNew(h) ==
    LET k == handler[h].key IN
    /\ handler[h].pc = "insert"
    /\ ~Violates(k)
    /\ Stored(k)
    /\ Reply(h, 202, IdsOf(k[1], k[2], k[3]))
    /\ UNCHANGED <<status, drift>>

\* The batch of this installation and batch id that is read back after the
\* savepoint has been rolled back.
Existing(k) == {row \in batches : row[1] = k[1] /\ row[2] = k[2]}

\* _fetch_existing_observation_ids: by tenant and batch id, which after the
\* comparison of the hashes can only be this installation's row.
ExistingIds(k) ==
    UNION {outbox[x].doc.ids : x \in {y \in Key : y[1] = k[1] /\ y[2] = k[2]}}

\* Mutant: what exists is never taken for a repetition.
SamePayloadNever(k) == FALSE

SamePayload(k) == \E row \in Existing(k) : row[3] = k[3]

\* The repetition of a batch: 202 with the ids stored the first time.
InsertDuplicate(h) ==
    LET k == handler[h].key IN
    /\ handler[h].pc = "insert"
    /\ Violates(k) /\ SamePayload(k)
    /\ Reply(h, 202, ExistingIds(k))
    /\ UNCHANGED <<status, drift, batches, outbox>>

\* PayloadConflictError: 409.
InsertConflict(h) ==
    LET k == handler[h].key IN
    /\ handler[h].pc = "insert"
    /\ Violates(k) /\ ~SamePayload(k)
    /\ Reply(h, 409, {})
    /\ UNCHANGED <<status, drift, batches, outbox>>

\* The database fails, or the gateway dies: 500 or no answer, rolled back.
RequestError(h) ==
    /\ handler[h] # Idle
    /\ Finish(h)
    /\ UNCHANGED <<status, drift, batches, outbox, answers>>

\* Mutant: every INSERT commits by itself, and the last one fails.
InsertUnacknowledgedAutocommit(h) ==
    LET k == handler[h].key IN
    /\ handler[h].pc = "insert"
    /\ ~Violates(k)
    /\ batches' = batches \cup {k}
    /\ Finish(h)
    /\ UNCHANGED <<status, drift, outbox, answers>>

\* The transaction commits and its answer is lost: 500, or no answer.
InsertUnacknowledged(h) ==
    LET k == handler[h].key IN
    /\ handler[h].pc = "insert"
    /\ ~Violates(k)
    /\ Stored(k)
    /\ Finish(h)
    /\ UNCHANGED <<status, drift, answers>>

-----------------------------------------------------------------------------
(* The environment.                                                        *)

\* Time passes: captured_at enters the window, and leaves it for ever.
TimePasses(p) ==
    /\ drift[p] # "late"
    /\ drift' = [drift EXCEPT ![p] = IF @ = "early" THEN "inside" ELSE "late"]
    /\ UNCHANGED <<status, batches, outbox, handler, answers>>

\* An operator disables or enables an installation; no code of the repository
\* writes this column.
SetInstallationStatus(i) ==
    /\ status' = [status EXCEPT ![i] = IF @ = "ACTIVE" THEN "DISABLED" ELSE "ACTIVE"]
    /\ UNCHANGED <<drift, batches, outbox, handler, answers>>

IngestNext ==
    \/ \E h \in Handler :
        \/ \E k \in Key : Receive(h, k)
        \/ ResolveInstallation(h)
        \/ InsertNew(h) \/ InsertDuplicate(h) \/ InsertConflict(h)
        \/ RequestError(h) \/ InsertUnacknowledged(h)
    \/ \E p \in Payload : TimePasses(p)
    \/ \E i \in Installation : SetInstallationStatus(i)

IngestSpec == IngestInit /\ [][IngestNext]_ingestVars

-----------------------------------------------------------------------------
(* Properties                                                              *)

TypeOK ==
    /\ status \in [Installation -> {"ACTIVE", "DISABLED"}]
    /\ drift \in [Payload -> {"early", "inside", "late"}]
    /\ batches \subseteq Key
    /\ outbox \in [Key -> OutboxRow(ObservationId)]
    /\ handler \in [Handler -> {Idle} \cup [pc : {"resolve", "insert"}, key : Key]]
    /\ answers \subseteq Answer

Queued(k) == outbox[k] # NoRow

\* A batch that was answered 202 is in the outbox, and the answer names the
\* observation ids queued there, also when it is the answer to a repetition
\* whose first attempt failed or was never answered.
AcceptedIsQueued ==
    \A a \in answers :
        a.code = 202 => Queued(a.key) /\ a.ids = outbox[a.key].doc.ids

\* An observation id denotes one fact.  The id leaves the sample values out, so
\* two payloads of one batch id would share ids and the collector would drop
\* the second as a repetition; ingest never queues both.
IdIdentifiesFact ==
    \A k1, k2 \in Key :
        /\ Queued(k1) /\ Queued(k2)
        /\ outbox[k1].doc.ids \cap outbox[k2].doc.ids # {}
        => k1 = k2

\* However often and in whatever order a body is submitted, it is not both
\* accepted and refused as a conflict with itself.
AnswersAgree ==
    \A a1, a2 \in answers : a1.key = a2.key => a1.code = a2.code

\* What IngestService.ingest promises about a batch, with the types of its
\* state: accepted is queued, ids identify facts, repetitions agree.
IngestSound == TypeOK /\ AcceptedIsQueued /\ IdIdentifiesFact /\ AnswersAgree

============================================================================
