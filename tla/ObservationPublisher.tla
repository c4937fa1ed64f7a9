------------------------ MODULE ObservationPublisher -----------------------
(***************************************************************************)
(* The outbox publishers: every gateway process runs one.  A publisher     *)
(* polls observation_outbox, reads up to BatchSize rows that are pending   *)
(* or whose retry is due, and for each of them adds the observation to the *)
(* Redis stream and then updates the row, in two separate steps.           *)
(*                                                                         *)
(* SELECT ... FOR UPDATE SKIP LOCKED runs outside any transaction (asyncpg *)
(* commits every statement), so its row locks end with the statement: it   *)
(* can make a concurrent SELECT skip rows but claims nothing.  What a      *)
(* publisher keeps of a row, its attempts in particular, is a snapshot.    *)
(***************************************************************************)
EXTENDS OutboxTable, FiniteSets

CONSTANTS
    Row,           \* outbox row ids (bounds the rows of a model)
    Id,            \* observation ids
    Doc,           \* documents that can be in the outbox
    Publisher,
    MAX_ATTEMPTS,
    BatchSize,     \* LIMIT of the claiming SELECT
    MaxFaults      \* bound on crashes and on failures of Redis and the database

ASSUME PublisherConstants ==
    /\ Doc \subseteq Document(Id)
    /\ MAX_ATTEMPTS \in Nat \ {0}
    /\ BatchSize \in Nat \ {0}
    /\ MaxFaults \in Nat

VARIABLES
    outbox,    \* Row -> row of observation_outbox
    stream,    \* the observation ids added to the stream "observations"
    pub,       \* Publisher -> [pc, current, todo]
    faults     \* failures so far

vars == <<outbox, stream, pub, faults>>

Claim == [row : Row, attempts : Nat]     \* what OutboxRow keeps of a row
PublisherState ==
    [pc      : {"polling", "publishing", "sent", "failed", "down"},
     current : SUBSET Claim,             \* the claim in _publish_one
     todo    : SUBSET Claim]             \* the claims still to be published
Polling == [pc |-> "polling", current |-> {}, todo |-> {}]
Down == [pc |-> "down", current |-> {}, todo |-> {}]

PublisherInit ==
    /\ stream = {}
    /\ pub = [p \in Publisher |-> Polling]
    /\ faults = 0

Init == outbox = [r \in Row |-> NoRow] /\ PublisherInit

\* A row is inserted (by the ingest transaction).
Enqueue(r, d) ==
    /\ outbox[r] = NoRow
    /\ outbox' = [outbox EXCEPT ![r] = NewRow(d)]
    /\ UNCHANGED <<stream, pub, faults>>

\* Mutants: rows that failed are never polled again; given up rows are.
ClaimablePendingOnly == {r \in Row : outbox[r].status = "pending"}

ClaimableUnpublished ==
    {r \in Row : outbox[r].status \notin {"absent", "published"} /\ outbox[r].due = "yes"}

Claimable ==
    {r \in Row : \/ outbox[r].status = "pending"
                 \/ outbox[r].status = "failed" /\ outbox[r].due = "yes"}

\* _claim_rows.  Rows beyond the LIMIT, and rows another SELECT holds locked at
\* that moment, are left out.
ClaimRows(p) ==
    /\ pub[p].pc = "polling"
    /\ \E S \in SUBSET Claimable :
        /\ S # {} /\ Cardinality(S) <= BatchSize
        /\ pub' = [pub EXCEPT ![p] =
                    [@ EXCEPT !.pc = "publishing",
                              !.todo = {[row |-> r, attempts |-> outbox[r].attempts] : r \in S}]]
    /\ UNCHANGED <<outbox, stream, faults>>

Take(p, c, pc) ==
    pub' = [pub EXCEPT ![p] = [pc |-> pc, current |-> {c}, todo |-> pub[p].todo \ {c}]]

\* Mutant: the answer of XADD is not awaited.
PublishUnawaited(p) ==
    /\ pub[p].pc = "publishing"
    /\ \E c \in pub[p].todo :
        /\ outbox[c.row].doc.layout = "observation"
        /\ Take(p, c, "sent")
    /\ UNCHANGED <<outbox, stream, faults>>

\* The observation of the next claim is built and added to the stream.
Publish(p) ==
    /\ pub[p].pc = "publishing"
    /\ \E c \in pub[p].todo :
        /\ outbox[c.row].doc.layout = "observation"
        /\ stream' = stream \cup outbox[c.row].doc.ids
        /\ Take(p, c, "sent")
    /\ UNCHANGED <<outbox, faults>>

\* The document has no key "id" (KeyError).
PublishError(p) ==
    /\ pub[p].pc = "publishing"
    /\ \E c \in pub[p].todo :
        /\ outbox[c.row].doc.layout = "batch"
        /\ Take(p, c, "failed")
    /\ UNCHANGED <<outbox, stream, faults>>

\* XADD raises, before or after the entry was added.
RedisError(p) ==
    /\ pub[p].pc = "publishing" /\ faults < MaxFaults
    /\ \E c \in pub[p].todo :
        /\ outbox[c.row].doc.layout = "observation"
        /\ stream' \in {stream, stream \cup outbox[c.row].doc.ids}
        /\ Take(p, c, "failed")
    /\ faults' = faults + 1
    /\ UNCHANGED outbox

\* On to the next claim, or to the next poll.
Proceed(p) ==
    pub' = [pub EXCEPT ![p] =
              IF pub[p].todo = {} THEN Polling
              ELSE [pc |-> "publishing", current |-> {}, todo |-> pub[p].todo]]

\* UPDATE ... SET status = 'published', attempts = attempts + 1.
SetPublished(c) ==
    outbox' = [outbox EXCEPT ![c.row] =
                 [outbox[c.row] EXCEPT !.status = "published",
                                       !.attempts = outbox[c.row].attempts + 1]]

\* Mutant: given up one attempt early.
SetFailedEarly(c) ==
    LET n == c.attempts + 1 IN
    outbox' = [outbox EXCEPT ![c.row] =
                 [outbox[c.row] EXCEPT
                    !.status = IF n + 1 >= MAX_ATTEMPTS THEN "dead_letter" ELSE "failed",
                    !.attempts = n]]

\* UPDATE ... SET attempts = <the snapshot> + 1, whatever the row is by now.
SetFailed(c) ==
    LET n == c.attempts + 1 IN
    outbox' = [outbox EXCEPT ![c.row] =
                 [outbox[c.row] EXCEPT
                    !.status = IF n >= MAX_ATTEMPTS THEN "dead_letter" ELSE "failed",
                    !.attempts = n,
                    !.due = IF n >= MAX_ATTEMPTS THEN "yes" ELSE "no"]]

Updated(p) ==
    \E c \in pub[p].current :
        \/ pub[p].pc = "sent" /\ SetPublished(c)
        \/ pub[p].pc = "failed" /\ SetFailed(c)

UpdateRow(p) ==
    /\ Updated(p)
    /\ Proceed(p)
    /\ UNCHANGED <<stream, faults>>

\* The UPDATE raises, with or without effect: the exception leaves _poll_once
\* and the other claims are dropped.
UpdateError(p) ==
    /\ pub[p].pc \in {"sent", "failed"} /\ faults < MaxFaults
    /\ Updated(p) \/ UNCHANGED outbox
    /\ pub' = [pub EXCEPT ![p] = Polling]
    /\ faults' = faults + 1
    /\ UNCHANGED stream

-----------------------------------------------------------------------------
(* The environment.                                                        *)

\* next_attempt_at passes.
BackoffElapses(r) ==
    /\ outbox[r].status = "failed" /\ outbox[r].due = "no"
    /\ outbox' = [outbox EXCEPT ![r].due = "yes"]
    /\ UNCHANGED <<stream, pub, faults>>

\* The process dies, or stop() cancels the task: CancelledError is no
\* Exception, so nothing is recorded for the row in progress.
Stop(p) ==
    /\ pub[p].pc # "down" /\ faults < MaxFaults
    /\ pub' = [pub EXCEPT ![p] = Down]
    /\ faults' = faults + 1
    /\ UNCHANGED <<outbox, stream>>

Start(p) ==
    /\ pub[p].pc = "down"
    /\ pub' = [pub EXCEPT ![p] = Polling]
    /\ UNCHANGED <<outbox, stream, faults>>

Poll(p) == ClaimRows(p) \/ Publish(p) \/ PublishError(p) \/ UpdateRow(p)

PublisherNext ==
    \/ \E p \in Publisher : Poll(p) \/ RedisError(p) \/ UpdateError(p) \/ Stop(p) \/ Start(p)
    \/ \E r \in Row : BackoffElapses(r)

Next ==
    \/ \E r \in Row, d \in Doc : Enqueue(r, d)
    \/ PublisherNext

Spec == Init /\ [][Next]_vars

\* The poll loop runs for ever, a stopped gateway is started again, time
\* passes.  Nothing is assumed of Redis or of the order rows are read in.
PublisherFairness ==
    /\ \A p \in Publisher : WF_vars(Poll(p)) /\ WF_vars(Start(p))
    /\ \A r \in Row : WF_vars(BackoffElapses(r))

FairSpec == Spec /\ PublisherFairness

-----------------------------------------------------------------------------
(* Properties                                                              *)

TypeOK ==
    /\ outbox \in [Row -> OutboxRow(Id)]
    /\ stream \subseteq Id
    /\ pub \in [Publisher -> PublisherState]
    /\ faults \in Nat

Settled(r) == outbox[r].status \in Terminal

OnStream(r) == outbox[r].doc.ids \subseteq stream

\* A row marked published is on the stream, whatever crashed or was retried
\* and however many publishers share the outbox.
PublishedIsOnStream ==
    \A r \in Row : outbox[r].status = "published" => OnStream(r)

\* Retries end: every row is in the end published or dead-lettered and stays
\* so, even while publishers overwrite each other's count of attempts.
RetriesEnd ==
    \A r \in Row : outbox[r] # NoRow ~> []Settled(r)

\* ADR-0004, "no Observation is lost": as long as Redis fails less often than
\* the attempts allow (MaxFaults < MAX_ATTEMPTS), every row _publish_one can
\* read reaches the stream, whatever crash falls between the XADD and the
\* update and however two publishers mix up the count of attempts.
RowsDelivered ==
    \A r \in Row : outbox[r].doc.layout = "observation" ~> OnStream(r)

\* Every row settles for good, and reaches the stream if _publish_one can read
\* it: at-least-once delivery with bounded retries.
RowsSettle == RetriesEnd /\ RowsDelivered

============================================================================
