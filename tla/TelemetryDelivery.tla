------------------------- MODULE TelemetryDelivery -------------------------
(***************************************************************************)
(* The ingest endpoint and the publishers on one outbox: what the gateway  *)
(* runs.  The rows are the keys of the batches, and the documents are the  *)
(* ones the ingest transaction writes.                                     *)
(***************************************************************************)
EXTENDS TelemetryIngest

CONSTANTS Publisher, MAX_ATTEMPTS, BatchSize, MaxFaults

ASSUME DeliveryConstants ==
    /\ MAX_ATTEMPTS \in Nat \ {0}
    /\ BatchSize \in Nat \ {0}
    /\ MaxFaults \in Nat

VARIABLES stream, pub, faults

P == INSTANCE ObservationPublisher WITH
        Row <- Key, Id <- ObservationId, Doc <- Document(ObservationId)

vars == <<ingestVars, stream, pub, faults>>

Init == IngestInit /\ P!PublisherInit

Next ==
    \/ IngestNext /\ UNCHANGED <<stream, pub, faults>>
    \/ P!PublisherNext /\ UNCHANGED <<status, drift, batches, handler, answers>>

Fairness ==
    /\ \A p \in Publisher :
        /\ WF_vars(P!Poll(p) /\ UNCHANGED <<status, drift, batches, handler, answers>>)
        /\ WF_vars(P!Start(p) /\ UNCHANGED <<status, drift, batches, handler, answers>>)
    /\ \A k \in Key :
        WF_vars(P!BackoffElapses(k) /\ UNCHANGED <<status, drift, batches, handler, answers>>)

Spec == Init /\ [][Next]_vars

FairSpec == Spec /\ Fairness

\* Whatever the endpoint does to the outbox, the publishers see a row inserted:
\* no repetition, conflict or failure of a request takes a row back to pending
\* or changes the document under a publisher that holds a snapshot of it.
ImplementsPublisher == P!Spec

\* With a single publisher no update is lost: a settled row stays as it is and
\* the count of attempts, which bounds the retries, never goes back, whatever
\* the requests in progress do to the outbox.
NoLostUpdate ==
    [][\A k \in Key :
        /\ P!Settled(k) => outbox'[k] = outbox[k]
        /\ outbox'[k].attempts >= outbox[k].attempts]_vars

\* ADR-0004, delivery semantics: "No Observation is lost (outbox persists until
\* published)".  Refuted, with Redis up and no process failing: the ingest
\* transaction writes one document per batch and _publish_one reads it as a
\* single observation, so every row ends in dead_letter.
AcceptedReachesStream ==
    \A k \in Key : Queued(k) ~> outbox[k].doc.ids \subseteq stream
============================================================================
