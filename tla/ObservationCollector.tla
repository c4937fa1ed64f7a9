------------------------ MODULE ObservationCollector -----------------------
(***************************************************************************)
(* The collector service: ObservationConsumer.process_batch over the Redis *)
(* stream "observations", one consumer group for all collectors.           *)
(*                                                                         *)
(* A round reads up to Count new entries of the group, persists and        *)
(* acknowledges them one by one, adds them to the buffer _pending (memory  *)
(* of the process) and then runs the organization rules over the buffer    *)
(* and stores the evidence they find.  Every await is a step of its own;   *)
(* any statement can fail, with or without effect, and a collector can die *)
(* at any point.                                                           *)
(*                                                                         *)
(* The stream is append-only and a collector handles entries in their      *)
(* order, so the buffer is a set of positions of the stream.  The rules    *)
(* are a parameter: Organize maps a buffer (position -> observation) to    *)
(* the evidence it yields, to none when a rule raises.                     *)
(***************************************************************************)
EXTENDS Integers, Sequences, FiniteSets

CONSTANTS
    Obs,           \* observations: an id with its captured_at
    CapturedAt,    \* Obs -> time
    Window,        \* max_window_minutes
    Evidence,      \* evidence rows, by their content-addressed id
    Organize(_),   \* OrganizerEngine.organize
    Cites,         \* Evidence -> observation_ids
    Collector,
    Count,         \* entries per XREADGROUP
    MaxEntries,    \* bound on the stream
    MaxFaults      \* bound on failures and crashes

ASSUME CollectorConstants ==
    /\ CapturedAt \in [Obs -> Int]
    /\ Window \in Nat
    /\ Cites \in [Evidence -> SUBSET Obs]
    /\ Count \in Nat \ {0}
    /\ MaxEntries \in Nat
    /\ MaxFaults \in Nat

\* A rule groups observations it was given.
ASSUME OrganizeCitesItsInput ==
    \A S \in SUBSET (1..MaxEntries) : \A buffer \in [S -> Obs] :
        Organize(buffer) \subseteq {e \in Evidence : Cites[e] \subseteq {buffer[i] : i \in S}}

VARIABLES
    stream,         \* the entries of the stream
    lastDelivered,  \* the group's position in it
    unacked,        \* delivered and not acknowledged: the group's pending list
    observations,   \* the table observations
    evidence,       \* the table evidence
    col,            \* Collector -> [pc, batch, pending, todo]
    faults

vars == <<stream, lastDelivered, unacked, observations, evidence, col, faults>>

Entry == 1..Len(stream)
CollectorState ==
    [pc      : {"idle", "next", "insert", "ack", "organizing", "down"},
     at      : 0..MaxEntries + 1,        \* the entry in hand ...
     upto    : 0..MaxEntries,            \* ... and the last one of the batch
     pending : SUBSET (1..MaxEntries),   \* _pending
     todo    : SUBSET Evidence]          \* evidence of this round still to be saved
Idle == [pc |-> "idle", at |-> 1, upto |-> 0, pending |-> {}, todo |-> {}]
Down == [pc |-> "down", at |-> 1, upto |-> 0, pending |-> {}, todo |-> {}]

Init ==
    /\ stream = <<>>
    /\ lastDelivered = 0
    /\ unacked = {}
    /\ observations = {}
    /\ evidence = {}
    /\ col = [c \in Collector |-> Idle]
    /\ faults = 0

\* An entry is added.  Publishers retry, so the same observation can be added
\* again.
Add(o) ==
    /\ Len(stream) < MaxEntries
    /\ stream' = Append(stream, o)
    /\ UNCHANGED <<lastDelivered, unacked, observations, evidence, col, faults>>

\* Mutant: the newest entry is left for the next read.
UptoExclusive ==
    IF Len(stream) <= lastDelivered + 1 THEN lastDelivered
    ELSE IF Len(stream) - lastDelivered <= Count THEN Len(stream) - 1 ELSE lastDelivered + Count

\* What ">" asks for: entries that were never delivered to the group, at most
\* Count of them.
Upto == IF Len(stream) - lastDelivered <= Count THEN Len(stream) ELSE lastDelivered + Count

\* XREADGROUP.
Deliver ==
    /\ lastDelivered' = Upto
    /\ unacked' = unacked \cup ((lastDelivered + 1)..Upto)

\* Mutant: a read that times out ends the round, before the rules run.
ReadSkipsEmpty(c) ==
    /\ col[c].pc = "idle"
    /\ Deliver
    /\ col' = [col EXCEPT ![c] =
                [@ EXCEPT !.pc = IF Upto = lastDelivered THEN "idle" ELSE "next",
                          !.at = lastDelivered + 1, !.upto = Upto]]
    /\ UNCHANGED <<stream, observations, evidence, faults>>

\* A round starts; with no new entry it goes on with an empty batch once the
\* read times out.
Read(c) ==
    /\ col[c].pc = "idle"
    /\ Deliver
    /\ col' = [col EXCEPT ![c] =
                [@ EXCEPT !.pc = "next", !.at = lastDelivered + 1, !.upto = Upto]]
    /\ UNCHANGED <<stream, observations, evidence, faults>>

\* The read raises after the server delivered entries, whose reply is lost; the
\* main loop sleeps and starts another round.
ReadError(c) ==
    /\ col[c].pc = "idle" /\ faults < MaxFaults
    /\ Deliver
    /\ faults' = faults + 1
    /\ UNCHANGED <<stream, observations, evidence, col>>

Left(c) == col[c].at <= col[c].upto      \* entries of the batch are left

\* Mutant: every observation is taken for a duplicate.
ObservationExistsAlways(c) ==
    /\ col[c].pc = "next" /\ Left(c)
    /\ col' = [col EXCEPT ![c] = [@ EXCEPT !.pc = "ack"]]
    /\ UNCHANGED <<stream, lastDelivered, unacked, observations, evidence, faults>>

\* observation_exists: a duplicate is acknowledged without an INSERT.
ObservationExists(c) ==
    /\ col[c].pc = "next" /\ Left(c)
    /\ col' = [col EXCEPT ![c] =
                [@ EXCEPT !.pc = IF stream[col[c].at] \in observations
                                 THEN "ack" ELSE "insert"]]
    /\ UNCHANGED <<stream, lastDelivered, unacked, observations, evidence, faults>>

\* On to the next entry of the batch.
Advance(c) ==
    col' = [col EXCEPT ![c] = [@ EXCEPT !.pc = "next", !.at = col[c].at + 1]]

\* save_observation; the primary key (id, captured_at) refuses a row another
\* collector inserted since the check, and the entry stays unacknowledged.
SaveObservation(c) ==
    /\ col[c].pc = "insert"
    /\ \/ /\ stream[col[c].at] \in observations
          /\ Advance(c)
          /\ UNCHANGED observations
       \/ /\ stream[col[c].at] \notin observations
          /\ observations' = observations \cup {stream[col[c].at]}
          /\ col' = [col EXCEPT ![c] = [@ EXCEPT !.pc = "ack"]]
    /\ UNCHANGED <<stream, lastDelivered, unacked, evidence, faults>>

\* On to the next entry, with this one in the buffer.
AdvanceBuffered(c) ==
    col' = [col EXCEPT ![c] = [@ EXCEPT !.pc = "next", !.at = col[c].at + 1,
                                        !.pending = col[c].pending \cup {col[c].at}]]

\* XACK, and the observation joins the buffer.
Ack(c) ==
    /\ col[c].pc = "ack"
    /\ unacked' = unacked \ {col[c].at}
    /\ AdvanceBuffered(c)
    /\ UNCHANGED <<stream, lastDelivered, observations, evidence, faults>>

\* Mutant: the observation joins the buffer although its step failed.
EntryErrorBuffers(c) ==
    /\ col[c].pc \in {"next", "insert", "ack"} /\ Left(c) /\ faults < MaxFaults
    /\ AdvanceBuffered(c)
    /\ faults' = faults + 1
    /\ UNCHANGED <<stream, lastDelivered, unacked, observations, evidence>>

\* One of the three awaits raises, with or without its effect: the error is
\* counted and the loop goes on with the next entry.
EntryError(c) ==
    /\ col[c].pc \in {"next", "insert", "ack"} /\ Left(c) /\ faults < MaxFaults
    /\ \/ UNCHANGED <<unacked, observations>>
       \/ /\ col[c].pc = "insert"
          /\ observations' = observations \cup {stream[col[c].at]}
          /\ UNCHANGED unacked
       \/ /\ col[c].pc = "ack"
          /\ unacked' = unacked \ {col[c].at}
          /\ UNCHANGED observations
    /\ Advance(c)
    /\ faults' = faults + 1
    /\ UNCHANGED <<stream, lastDelivered, evidence>>

\* _prune_pending: what is inside the window of the newest one.
Prune(S) ==
    {i \in S : \A j \in S : CapturedAt[stream[i]] >= CapturedAt[stream[j]] - Window}

\* OrganizerEngine.organize over what is left of the buffer.
Organized(c) == Organize([i \in Prune(col[c].pending) |-> stream[i]])

Saving(pending, todo) ==
    [pc |-> IF todo = {} THEN "idle" ELSE "organizing",
     at |-> 1, upto |-> 0, pending |-> pending, todo |-> todo]

\* _organize up to the first INSERT.
StartOrganize(c) ==
    /\ col[c].pc = "next" /\ ~Left(c)
    /\ col' = [col EXCEPT ![c] = Saving(Prune(col[c].pending), Organized(c))]
    /\ UNCHANGED <<stream, lastDelivered, unacked, observations, evidence, faults>>

\* save_evidence, ON CONFLICT (id) DO NOTHING.
SaveEvidence(c) ==
    /\ col[c].pc = "organizing"
    /\ \E e \in col[c].todo :
        /\ evidence' = evidence \cup {e}
        /\ col' = [col EXCEPT ![c] = Saving(col[c].pending, col[c].todo \ {e})]
    /\ UNCHANGED <<stream, lastDelivered, unacked, observations, faults>>

\* The INSERT raises, with or without effect: the rest of this round is
\* dropped, the buffer stays.
EvidenceError(c) ==
    /\ col[c].pc = "organizing" /\ faults < MaxFaults
    /\ \/ UNCHANGED evidence
       \/ \E e \in col[c].todo : evidence' = evidence \cup {e}
    /\ col' = [col EXCEPT ![c] = Saving(col[c].pending, {})]
    /\ faults' = faults + 1
    /\ UNCHANGED <<stream, lastDelivered, unacked, observations>>

\* The process dies or is shut down: batch and buffer are gone.
Crash(c) ==
    /\ col[c].pc # "down" /\ faults < MaxFaults
    /\ col' = [col EXCEPT ![c] = Down]
    /\ faults' = faults + 1
    /\ UNCHANGED <<stream, lastDelivered, unacked, observations, evidence>>

\* The group exists already (BUSYGROUP is ignored), so its position is kept.
Restart(c) ==
    /\ col[c].pc = "down"
    /\ col' = [col EXCEPT ![c] = Idle]
    /\ UNCHANGED <<stream, lastDelivered, unacked, observations, evidence, faults>>

ProcessBatch(c) ==
    \/ Read(c) \/ ObservationExists(c) \/ SaveObservation(c) \/ Ack(c)
    \/ StartOrganize(c) \/ SaveEvidence(c)

Next ==
    \/ \E o \in Obs : Add(o)
    \/ \E c \in Collector :
        \/ ProcessBatch(c) \/ ReadError(c) \/ EntryError(c) \/ EvidenceError(c)
        \/ Crash(c) \/ Restart(c)

Spec == Init /\ [][Next]_vars

\* The main loop runs for ever, a dead collector is started again; nothing is
\* assumed of the producers.
FairSpec == Spec /\ \A c \in Collector : WF_vars(ProcessBatch(c) \/ Restart(c))

-----------------------------------------------------------------------------
(* Properties                                                              *)

TypeOK ==
    /\ stream \in Seq(Obs) /\ Len(stream) <= MaxEntries
    /\ lastDelivered \in 0..Len(stream)
    /\ unacked \subseteq 1..lastDelivered
    /\ observations \subseteq Obs
    /\ evidence \subseteq Evidence
    /\ col \in [Collector -> CollectorState]
    /\ faults \in Nat

\* "A message is acknowledged on the stream only after the INSERT succeeds":
\* an entry the group has forgotten is in the table, whatever failed.
AckedIsPersisted ==
    \A i \in (1..lastDelivered) \ unacked : stream[i] \in observations

\* Evidence rests on stored observations: no failed or lost INSERT leaves a row
\* of the evidence table with observation ids nobody can look up.
EvidenceIsBacked ==
    \A e \in evidence : Cites[e] \subseteq observations

\* Every entry reaches a collector, across crashes and restarts: the position
\* of the group neither starts behind entries nor skips them.
EntriesDelivered ==
    \A i \in 1..MaxEntries : i \in Entry ~> (i \in Entry /\ (i \in unacked \/ stream[i] \in observations))

\* Evidence whose INSERT failed, or that followed a failed one in its round, is
\* tried again without waiting for another entry: it is stored in the end, unless
\* the process dies or the rules no longer find it in the buffer.
EvidenceRetried ==
    \A c \in Collector, e \in Evidence :
        e \in col[c].todo ~> (e \in evidence \/ col[c].pc = "down" \/ e \notin Organized(c))

\* Nothing is forgotten by consume: neither an entry of the stream nor evidence
\* whose INSERT failed.
NothingForgotten == EntriesDelivered /\ EvidenceRetried

\* Module comment of consumer.py: "failures stay pending for retry".  Refuted:
\* no read asks for entries that were delivered before.
FailuresAreRetried ==
    \A i \in 1..MaxEntries : i \in unacked ~> (i \in Entry /\ stream[i] \in observations)

============================================================================
