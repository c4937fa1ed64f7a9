---------------------- MODULE TelemetryDeliveryProofs -----------------------
(***************************************************************************)
(* The ingest endpoint and the publishers on one outbox, for every number  *)
(* of installations, batches, requests in progress and publishers: what    *)
(* ingest answers is true of the table (IngestSound), the endpoint is an   *)
(* environment the publishers can live with (ImplementsPublisher), and a   *)
(* publisher that is alone loses no update (NoLostUpdate).                 *)
(*                                                                         *)
(* IngestSound is about answers given long ago and about pairs of rows, so *)
(* the invariant ties the outbox to metric_batches: the rows are exactly   *)
(* the batches, each with the document its transaction wrote, and the      *)
(* primary key keeps two batches apart.                                    *)
(***************************************************************************)
EXTENDS TelemetryDelivery, TLAPS

\* The facts proved of the publishers, on the rows and documents of ingest.
PP == INSTANCE ObservationPublisherProofs WITH
        Row <- Key, Id <- ObservationId, Doc <- Document(ObservationId)

BatchDocument(k) == [layout |-> "batch", ids |-> IdsOf(k[1], k[2], k[3])]

\* The primary key of metric_batches is the client's batch_id.
BatchesUnique == \A r1, r2 \in batches : r1[2] = r2[2] => r1 = r2

\* observation_outbox has one row for every batch, with its document.
TableMatches ==
    \A k \in Key :
        /\ k \in batches => outbox[k].status # "absent" /\ outbox[k].doc = BatchDocument(k)
        /\ k \notin batches => outbox[k] = NoRow

\* A 202 is about a batch that is stored, a 409 about one that never will be:
\* another body has taken its batch id.
AnswersTrue ==
    \A a \in answers :
        \/ /\ a.code = 202 /\ a.key \in batches
           /\ a.ids = IdsOf(a.key[1], a.key[2], a.key[3])
        \/ /\ a.code = 409
           /\ \E row \in batches : row[2] = a.key[2] /\ row # a.key

DInv == TypeOK /\ BatchesUnique /\ TableMatches /\ AnswersTrue

-----------------------------------------------------------------------------
(* The publishers of this module and those of the facts above are the same *)
(* ones, under two names.                                                  *)

LEMMA PublisherAssumptions == PP!PublisherConstants
BY DeliveryConstants DEF PP!PublisherConstants, PP!Document, Document

LEMMA SameCardinality == \A S : P!Cardinality(S) = PP!Cardinality(S)
BY DEF P!Cardinality, PP!Cardinality

LEMMA SameInit == PP!PublisherInit <=> P!PublisherInit
BY DEF P!PublisherInit, PP!PublisherInit, P!Polling, PP!Polling

LEMMA SamePublisher ==
    ASSUME NEW p
    PROVE  /\ PP!Poll(p) <=> P!Poll(p)
           /\ PP!RedisError(p) <=> P!RedisError(p)
           /\ PP!UpdateError(p) <=> P!UpdateError(p)
           /\ PP!Stop(p) <=> P!Stop(p)
           /\ PP!Start(p) <=> P!Start(p)
<1>1. PP!ClaimRows(p) <=> P!ClaimRows(p)
  BY SameCardinality, Zenon DEF P!ClaimRows, PP!ClaimRows, P!Claimable, PP!Claimable
<1>2. PP!Publish(p) <=> P!Publish(p)
  BY Zenon DEF P!Publish, PP!Publish, P!Take, PP!Take
<1>3. PP!PublishError(p) <=> P!PublishError(p)
  BY Zenon DEF P!PublishError, PP!PublishError, P!Take, PP!Take
<1>4. PP!Updated(p) <=> P!Updated(p)
  BY Zenon DEF P!Updated, PP!Updated, P!SetPublished, PP!SetPublished, P!SetFailed, PP!SetFailed
<1>5. PP!UpdateRow(p) <=> P!UpdateRow(p)
  BY <1>4, Zenon DEF P!UpdateRow, PP!UpdateRow, P!Proceed, PP!Proceed, P!Polling, PP!Polling
<1>6. PP!Poll(p) <=> P!Poll(p)
  BY <1>1, <1>2, <1>3, <1>5 DEF P!Poll, PP!Poll
<1>7. PP!RedisError(p) <=> P!RedisError(p)
  BY Zenon DEF P!RedisError, PP!RedisError, P!Take, PP!Take
<1>8. PP!UpdateError(p) <=> P!UpdateError(p)
  BY <1>4, Zenon DEF P!UpdateError, PP!UpdateError, P!Polling, PP!Polling
<1>9. PP!Stop(p) <=> P!Stop(p)
  BY Zenon DEF P!Stop, PP!Stop, P!Down, PP!Down
<1>10. PP!Start(p) <=> P!Start(p)
  BY Zenon DEF P!Start, PP!Start, P!Polling, PP!Polling
<1> QED BY <1>6, <1>7, <1>8, <1>9, <1>10

LEMMA SamePublisherNext == PP!PublisherNext <=> P!PublisherNext
<1>1. \A k : PP!BackoffElapses(k) <=> P!BackoffElapses(k)
  BY Zenon DEF P!BackoffElapses, PP!BackoffElapses
<1> QED BY <1>1, SamePublisher, Zenon DEF P!PublisherNext, PP!PublisherNext

LEMMA SameInsert == \A k, d : PP!Enqueue(k, d) <=> P!Enqueue(k, d)
BY Zenon DEF P!Enqueue, PP!Enqueue, P!NoRow, PP!NoRow, P!NoDocument, PP!NoDocument,
   P!NewRow, PP!NewRow

LEMMA SameNext == [PP!Next]_(PP!vars) <=> [P!Next]_(P!vars)
<1>1. PP!Next <=> P!Next
  BY SamePublisherNext, SameInsert, Zenon DEF P!Next, PP!Next
<1>2. PP!vars = P!vars
  BY DEF P!vars, PP!vars
<1> QED BY <1>1, <1>2, Zenon DEF P!vars, PP!vars

-----------------------------------------------------------------------------
(* The batches.                                                            *)

LEMMA KeyParts ==
    ASSUME NEW k \in Key
    PROVE  /\ k = <<k[1], k[2], k[3]>>
           /\ k[1] \in Installation /\ k[2] \in BatchId /\ k[3] \in Payload
BY DEF Key

LEMMA IdsOfKey ==
    ASSUME NEW k \in Key
    PROVE  /\ IdsOf(k[1], k[2], k[3]) \subseteq ObservationId
           /\ BatchDocument(k) \in Document(ObservationId)
<1>1. IdsOf(k[1], k[2], k[3]) \subseteq ObservationId
  BY DEF ObservationId
<1> QED BY <1>1 DEF BatchDocument, Document

\* Ids of two batches that have one in common are ids of one batch id.
LEMMA SharedId ==
    ASSUME NEW j \in Key, NEW k \in Key,
           IdsOf(j[1], j[2], j[3]) \cap IdsOf(k[1], k[2], k[3]) # {}
    PROVE  j[2] = k[2]
BY DEF IdsOf, observation_id

LEMMA RequestKey ==
    ASSUME TypeOK, NEW h \in Handler, handler[h] # Idle
    PROVE  handler[h].key \in Key /\ handler[h].pc \in {"resolve", "insert"}
BY DEF TypeOK

LEMMA Inserting ==
    ASSUME TypeOK, NEW h \in Handler, handler[h].pc = "insert"
    PROVE  handler[h] # Idle /\ handler[h].key \in Key
BY RequestKey DEF Idle

LEMMA FinishTypes ==
    ASSUME TypeOK, NEW h \in Handler, Finish(h)
    PROVE  handler' \in [Handler -> {Idle} \cup [pc : {"resolve", "insert"}, key : Key]]
BY DEF TypeOK, Finish

\* A request that ends without touching the tables.
LEMMA TablesKept ==
    ASSUME DInv, TypeOK', UNCHANGED <<batches, outbox>>, AnswersTrue'
    PROVE  DInv'
BY DEF DInv, BatchesUnique, TableMatches

LEMMA AnswersKept ==
    ASSUME AnswersTrue, UNCHANGED answers, batches \subseteq batches'
    PROVE  AnswersTrue'
BY DEF AnswersTrue

\* The transaction: the batch is new, and so is its outbox row.
LEMMA StoredStep ==
    ASSUME DInv, NEW k \in Key, ~Violates(k), Stored(k)
    PROVE  /\ outbox[k] = NoRow
           /\ batches' \subseteq Key
           /\ outbox' \in [Key -> OutboxRow(ObservationId)]
           /\ BatchesUnique' /\ TableMatches'
<1>1. k \notin batches
  BY DEF Violates
<1>2. outbox[k] = NoRow
  BY <1>1 DEF DInv, TableMatches
<1>3. batches' = batches \cup {k} /\ outbox' = [outbox EXCEPT ![k] = NewRow(BatchDocument(k))]
  BY DEF Stored, BatchDocument
<1>4. /\ NewRow(BatchDocument(k)) \in OutboxRow(ObservationId)
      /\ NewRow(BatchDocument(k)).status # "absent"
      /\ NewRow(BatchDocument(k)).doc = BatchDocument(k)
  BY IdsOfKey DEF NewRow, OutboxRow
<1>5. batches' \subseteq Key /\ outbox' \in [Key -> OutboxRow(ObservationId)]
  BY <1>3, <1>4 DEF DInv, TypeOK
<1>6. BatchesUnique'
  BY <1>3 DEF DInv, BatchesUnique, Violates
<1>7. TableMatches'
  <2>1. ASSUME NEW j \in Key
        PROVE  /\ j \in batches' => outbox'[j].status # "absent" /\ outbox'[j].doc = BatchDocument(j)
               /\ j \notin batches' => outbox'[j] = NoRow
    <3>1. CASE j = k
      BY <3>1, <1>3, <1>4 DEF DInv, TypeOK
    <3>2. CASE j # k
      <4>1. (j \in batches' <=> j \in batches) /\ outbox'[j] = outbox[j]
        BY <3>2, <1>3 DEF DInv, TypeOK
      <4> QED BY <4>1 DEF DInv, TableMatches
    <3> QED BY <3>1, <3>2
  <2> QED BY <2>1 DEF TableMatches
<1> QED BY <1>2, <1>5, <1>6, <1>7

\* The transaction of a new batch, answered or not.
LEMMA InsertStep ==
    ASSUME DInv, NEW h \in Handler, InsertNew(h) \/ InsertUnacknowledged(h)
    PROVE  /\ DInv'
           /\ outbox[handler[h].key] = NoRow
           /\ outbox' = [outbox EXCEPT ![handler[h].key] = NewRow(BatchDocument(handler[h].key))]
<1> DEFINE k == handler[h].key
           a == [key |-> k, code |-> 202, ids |-> IdsOf(k[1], k[2], k[3])]
<1>1. /\ handler[h].pc = "insert" /\ ~Violates(k) /\ Stored(k) /\ Finish(h)
      /\ answers' = answers \/ answers' = answers \cup {a}
      /\ status' = status /\ drift' = drift
  BY DEF InsertNew, InsertUnacknowledged, Reply
<1>2. k \in Key
  BY <1>1, Inserting DEF DInv
<1>3. /\ outbox[k] = NoRow
      /\ batches' \subseteq Key
      /\ outbox' \in [Key -> OutboxRow(ObservationId)]
      /\ BatchesUnique' /\ TableMatches'
  BY <1>1, <1>2, StoredStep
<1>4. a \in Answer
  BY <1>2, IdsOfKey DEF Answer
<1>5. TypeOK'
  BY <1>1, <1>3, <1>4, FinishTypes DEF DInv, TypeOK
<1>6. batches' = batches \cup {k}
  BY <1>1 DEF Stored
<1>7. AnswersTrue'
  <2>1. CASE answers' = answers
    BY <2>1, <1>6, AnswersKept DEF DInv
  <2>2. CASE answers' = answers \cup {a}
    <3>1. a.code = 202 /\ a.key = k /\ a.ids = IdsOf(a.key[1], a.key[2], a.key[3])
      OBVIOUS
    <3> HIDE DEF a, k
    <3> QED BY <2>2, <3>1, <1>6 DEF DInv, AnswersTrue
  <2> QED BY <2>1, <2>2, <1>1
<1>8. outbox' = [outbox EXCEPT ![k] = NewRow(BatchDocument(k))]
  BY <1>1 DEF Stored, BatchDocument
<1> QED BY <1>3, <1>5, <1>7, <1>8 DEF DInv

\* What is read back of a repeated batch is what its transaction wrote.
LEMMA ExistingIdsOfKey ==
    ASSUME DInv, NEW k \in Key, k \in batches
    PROVE  ExistingIds(k) = IdsOf(k[1], k[2], k[3])
<1>1. ASSUME NEW y \in Key, y[1] = k[1], y[2] = k[2]
      PROVE  outbox[y].doc.ids = IF y = k THEN IdsOf(k[1], k[2], k[3]) ELSE {}
  <2>1. CASE y = k
    <3>1. outbox[k].doc = BatchDocument(k) BY DEF DInv, TableMatches
    <3>2. BatchDocument(k).ids = IdsOf(k[1], k[2], k[3]) BY DEF BatchDocument
    <3> QED BY <2>1, <3>1, <3>2
  <2>2. CASE y # k
    <3>1. y \notin batches BY <1>1, <2>2 DEF DInv, BatchesUnique
    <3> QED BY <3>1, <2>2 DEF DInv, TableMatches, NoRow, NoDocument
  <2> QED BY <2>1, <2>2
<1> QED BY <1>1 DEF ExistingIds

\* A repetition and a conflict read the row that violates the key.
LEMMA DuplicateStep ==
    ASSUME DInv, NEW h \in Handler, InsertDuplicate(h)
    PROVE  DInv'
<1> DEFINE k == handler[h].key
           a == [key |-> k, code |-> 202, ids |-> ExistingIds(k)]
<1>1. /\ handler[h].pc = "insert" /\ SamePayload(k) /\ Finish(h)
      /\ answers' = answers \cup {a}
      /\ UNCHANGED <<status, drift, batches, outbox>>
  BY DEF InsertDuplicate, Reply
<1>2. k \in Key
  BY <1>1, Inserting DEF DInv
<1>3. k \in batches
  <2>1. PICK row \in batches : row[1] = k[1] /\ row[2] = k[2] /\ row[3] = k[3]
    BY <1>1 DEF SamePayload, Existing
  <2>2. row \in Key BY <2>1 DEF DInv, TypeOK
  <2>3. row = k BY <2>1, <2>2, <1>2, KeyParts
  <2> QED BY <2>1, <2>3
<1>4. ExistingIds(k) = IdsOf(k[1], k[2], k[3])
  BY <1>2, <1>3, ExistingIdsOfKey
<1>5. a \in Answer
  BY <1>2, <1>4, IdsOfKey DEF Answer
<1>6. TypeOK'
  BY <1>1, <1>5, FinishTypes DEF DInv, TypeOK
<1>7. a.code = 202 /\ a.key \in batches /\ a.ids = IdsOf(a.key[1], a.key[2], a.key[3])
  BY <1>3, <1>4
<1>8. AnswersTrue'
  <2> HIDE DEF a
  <2> QED BY <1>1, <1>7 DEF DInv, AnswersTrue
<1> QED BY <1>1, <1>6, <1>8, TablesKept

LEMMA ConflictStep ==
    ASSUME DInv, NEW h \in Handler, InsertConflict(h)
    PROVE  DInv'
<1> DEFINE k == handler[h].key
           a == [key |-> k, code |-> 409, ids |-> {}]
<1>1. /\ handler[h].pc = "insert" /\ Violates(k) /\ ~SamePayload(k) /\ Finish(h)
      /\ answers' = answers \cup {a}
      /\ UNCHANGED <<status, drift, batches, outbox>>
  BY DEF InsertConflict, Reply
<1>2. k \in Key
  BY <1>1, Inserting DEF DInv
<1>3. PICK row \in batches : row[2] = k[2] /\ row # k
  BY <1>1 DEF Violates, SamePayload, Existing
<1>4. a \in Answer
  BY <1>2 DEF Answer
<1>5. TypeOK'
  BY <1>1, <1>4, FinishTypes DEF DInv, TypeOK
<1>6. a.code = 409 /\ row[2] = a.key[2] /\ row # a.key
  BY <1>3
<1>7. AnswersTrue'
  <2> HIDE DEF a
  <2> QED BY <1>1, <1>3, <1>6 DEF DInv, AnswersTrue
<1> QED BY <1>1, <1>5, <1>7, TablesKept

\* Every other step of a request, and the environment.
LEMMA OtherStep ==
    ASSUME DInv,
           \/ \E h \in Handler : \/ \E k \in Key : Receive(h, k)
                                \/ ResolveInstallation(h) \/ RequestError(h)
           \/ \E p \in Payload : TimePasses(p)
           \/ \E i \in Installation : SetInstallationStatus(i)
    PROVE  DInv' /\ outbox' = outbox
<1>1. UNCHANGED <<batches, outbox, answers>>
  BY DEF Receive, ResolveInstallation, RequestError, TimePasses, SetInstallationStatus
<1>2. CASE \E h \in Handler : \E k \in Key : Receive(h, k)
  <2>1. PICK h \in Handler, k \in Key : Receive(h, k)
    BY <1>2
  <2> DEFINE r == [pc |-> "resolve", key |-> k]
  <2>2. r \in [pc : {"resolve", "insert"}, key : Key]
    OBVIOUS
  <2>3. handler' = [handler EXCEPT ![h] = r] /\ UNCHANGED <<status, drift>>
    BY <2>1 DEF Receive
  <2> HIDE DEF r
  <2>4. TypeOK'
    BY <1>1, <2>2, <2>3 DEF DInv, TypeOK
  <2> QED BY <1>1, <2>4, AnswersKept, TablesKept DEF DInv
<1>3. CASE \E h \in Handler : ResolveInstallation(h) \/ RequestError(h)
  <2>1. PICK h \in Handler : ResolveInstallation(h) \/ RequestError(h)
    BY <1>3
  <2>2. handler[h] # Idle /\ UNCHANGED <<status, drift>>
    BY <2>1 DEF ResolveInstallation, RequestError, Idle
  <2> DEFINE r == [handler[h] EXCEPT !.pc = "insert"]
  <2>3. handler[h] \in [pc : {"resolve", "insert"}, key : Key]
    BY <2>2 DEF DInv, TypeOK
  <2>4. r \in [pc : {"resolve", "insert"}, key : Key]
    BY <2>3
  <2>5. handler' = [handler EXCEPT ![h] = r] \/ Finish(h)
    BY <2>1 DEF ResolveInstallation, RequestError
  <2> HIDE DEF r
  <2>6. TypeOK'
    BY <1>1, <2>2, <2>4, <2>5, FinishTypes DEF DInv, TypeOK
  <2> QED BY <1>1, <2>6, AnswersKept, TablesKept DEF DInv
<1>4. CASE \/ \E p \in Payload : TimePasses(p)
           \/ \E i \in Installation : SetInstallationStatus(i)
  <2>1. TypeOK'
    BY <1>1, <1>4 DEF DInv, TypeOK, TimePasses, SetInstallationStatus
  <2> QED BY <1>1, <2>1, AnswersKept, TablesKept DEF DInv
<1> QED BY <1>1, <1>2, <1>3, <1>4

-----------------------------------------------------------------------------
(* The endpoint and the publishers together.                               *)

\* A step of the endpoint is, for the publishers, an insert or nothing.
LEMMA IngestStep ==
    ASSUME DInv, IngestNext, UNCHANGED <<stream, pub, faults>>
    PROVE  DInv' /\ [P!Next]_(P!vars)
<1>1. ASSUME outbox' = outbox PROVE [P!Next]_(P!vars)
  BY <1>1 DEF P!vars
<1>2. CASE \E h \in Handler : InsertNew(h) \/ InsertUnacknowledged(h)
  <2>1. PICK h \in Handler : InsertNew(h) \/ InsertUnacknowledged(h)
    BY <1>2
  <2> DEFINE k == handler[h].key
  <2>2. /\ DInv' /\ outbox[k] = NoRow
        /\ outbox' = [outbox EXCEPT ![k] = NewRow(BatchDocument(k))]
    BY <2>1, InsertStep
  <2>3. k \in Key
    BY <2>1, Inserting DEF DInv, InsertNew, InsertUnacknowledged
  <2>4. BatchDocument(k) \in Document(ObservationId)
    BY <2>3, IdsOfKey
  <2> HIDE DEF k
  <2>5. P!Enqueue(k, BatchDocument(k))
    BY <2>2 DEF P!Enqueue, P!NoRow, NoRow, P!NoDocument, NoDocument, P!NewRow, NewRow
  <2> QED BY <2>2, <2>3, <2>4, <2>5 DEF P!Next
<1>3. CASE \E h \in Handler : InsertDuplicate(h) \/ InsertConflict(h)
  BY <1>1, <1>3, DuplicateStep, ConflictStep DEF InsertDuplicate, InsertConflict
<1>4. CASE \/ \E h \in Handler : \/ \E k \in Key : Receive(h, k)
                                \/ ResolveInstallation(h) \/ RequestError(h)
           \/ \E p \in Payload : TimePasses(p)
           \/ \E i \in Installation : SetInstallationStatus(i)
  BY <1>1, <1>4, OtherStep
<1> QED BY <1>2, <1>3, <1>4 DEF IngestNext

\* A step of a publisher leaves every row with its document.
LEMMA PublisherStep ==
    ASSUME DInv, PP!IInv, P!PublisherNext, UNCHANGED <<status, drift, batches, handler, answers>>
    PROVE  DInv'
<1>1. [PP!PublisherNext]_(PP!vars)
  BY SamePublisherNext
<1>2. PP!IInv'
  BY <1>1, PP!InvariantKept, PublisherAssumptions DEF PP!Next
<1>3. outbox' \in [Key -> OutboxRow(ObservationId)]
  BY <1>2 DEF PP!IInv, PP!TypeOK, PP!OutboxRow, OutboxRow, PP!Document, Document
<1>4. TypeOK'
  BY <1>3 DEF DInv, TypeOK
<1>5. ASSUME NEW k \in Key
      PROVE  /\ outbox[k].status = "absent" => outbox'[k] = outbox[k]
             /\ outbox[k].status # "absent" =>
                  outbox'[k].status # "absent" /\ outbox'[k].doc = outbox[k].doc
  BY <1>1, PP!RowsKept, PublisherAssumptions
<1>6. TableMatches'
  BY <1>5 DEF DInv, TableMatches, NoRow
<1> QED BY <1>4, <1>6, AnswersKept DEF DInv, BatchesUnique

LEMMA DeliveryStep ==
    ASSUME DInv, PP!IInv, [Next]_vars
    PROVE  DInv' /\ PP!IInv' /\ [P!Next]_(P!vars)
<1>1. DInv' /\ [P!Next]_(P!vars)
  <2>1. CASE IngestNext /\ UNCHANGED <<stream, pub, faults>>
    BY <2>1, IngestStep
  <2>2. CASE P!PublisherNext /\ UNCHANGED <<status, drift, batches, handler, answers>>
    BY <2>2, PublisherStep DEF P!Next
  <2>3. CASE UNCHANGED vars
    BY <2>3, AnswersKept, TablesKept DEF vars, ingestVars, P!vars, DInv, TypeOK
  <2> QED BY <2>1, <2>2, <2>3 DEF Next
<1>2. PP!IInv'
  BY <1>1, SameNext, PP!InvariantKept, PublisherAssumptions
<1> QED BY <1>1, <1>2

\* The table starts empty, as the publishers expect it.
LEMMA DeliveryInit ==
    ASSUME Init
    PROVE  DInv /\ PP!IInv /\ P!Init
<1>1. P!Init
  BY DEF Init, IngestInit, P!Init, P!NoRow, NoRow, P!NoDocument, NoDocument
<1>2. NoRow \in OutboxRow(ObservationId)
  BY DEF NoRow, NoDocument, OutboxRow, Document
<1>3. TypeOK
  BY <1>2 DEF Init, IngestInit, TypeOK
<1>4. DInv
  BY <1>3 DEF DInv, Init, IngestInit, BatchesUnique, TableMatches, AnswersTrue
<1>5. PP!IInv
  <2>1. PP!TypeOK
    BY <1>2, <1>3, <1>1
       DEF TypeOK, P!Init, P!PublisherInit, PP!TypeOK, PP!OutboxRow, OutboxRow, PP!Document,
           Document, P!Polling, PP!PublisherState
  <2> QED BY <2>1, <1>1 DEF P!Init, P!PublisherInit, PP!IInv, PP!ClaimsPresent, PP!Claims,
             PP!SentIsOnStream, PP!PublishedIsOnStream, P!NoRow, P!Polling
<1> QED BY <1>1, <1>4, <1>5

LEMMA DeliveryInvariance == Spec => [](DInv /\ PP!IInv)
BY DeliveryInit, DeliveryStep, PTL DEF Spec

LEMMA DeliverySound ==
    ASSUME DInv
    PROVE  IngestSound
<1>1. AcceptedIsQueued
  <2>1. ASSUME NEW a \in answers, a.code = 202
        PROVE  Queued(a.key) /\ a.ids = outbox[a.key].doc.ids
    <3>1. /\ a.key \in Key /\ a.key \in batches
          /\ a.ids = IdsOf(a.key[1], a.key[2], a.key[3])
      BY <2>1 DEF DInv, AnswersTrue, TypeOK, Answer
    <3>2. outbox[a.key].status # "absent" /\ outbox[a.key].doc = BatchDocument(a.key)
      BY <3>1 DEF DInv, TableMatches
    <3>3. BatchDocument(a.key).ids = IdsOf(a.key[1], a.key[2], a.key[3])
      BY DEF BatchDocument
    <3> QED BY <3>1, <3>2, <3>3 DEF Queued, NoRow
  <2> QED BY <2>1 DEF AcceptedIsQueued
<1>2. IdIdentifiesFact
  <2>1. ASSUME NEW k1 \in Key, NEW k2 \in Key, Queued(k1), Queued(k2),
               outbox[k1].doc.ids \cap outbox[k2].doc.ids # {}
        PROVE  k1 = k2
    <3>1. k1 \in batches /\ k2 \in batches
      BY <2>1 DEF DInv, TableMatches, Queued
    <3>2. outbox[k1].doc = BatchDocument(k1) /\ outbox[k2].doc = BatchDocument(k2)
      BY <3>1 DEF DInv, TableMatches
    <3>3. /\ outbox[k1].doc.ids = IdsOf(k1[1], k1[2], k1[3])
          /\ outbox[k2].doc.ids = IdsOf(k2[1], k2[2], k2[3])
      BY <3>2 DEF BatchDocument
    <3>4. k1[2] = k2[2]
      BY <2>1, <3>3, SharedId
    <3> QED BY <3>1, <3>4 DEF DInv, BatchesUnique
  <2> QED BY <2>1 DEF IdIdentifiesFact
<1>3. AnswersAgree
  BY DEF DInv, BatchesUnique, AnswersTrue, AnswersAgree
<1> QED BY <1>1, <1>2, <1>3 DEF IngestSound, DInv

\* What IngestService.ingest answers is true of the outbox and stays true: a
\* batch that was accepted is queued with the ids the answer names, an id never
\* denotes two facts, and no body is both accepted and refused.
THEOREM IngestHonest == Spec => []IngestSound
BY DeliveryInvariance, DeliverySound, PTL

\* The endpoint and the publishers implement the publishers' specification: to
\* OutboxPublisher._poll_once the ingest transaction only ever inserts rows.
THEOREM DeliveryRefinesPublisher == Spec => ImplementsPublisher
<1>1. Init => P!Init
  BY DeliveryInit
<1>2. DInv /\ PP!IInv /\ [Next]_vars => [P!Next]_(P!vars)
  BY DeliveryStep
<1> QED BY <1>1, <1>2, DeliveryInvariance, PTL DEF Spec, ImplementsPublisher, P!Spec

\* Hence what holds of every row the publishers are given holds here: a row
\* marked published is on the stream.
THEOREM DeliveryPublishedOnStream == Spec => []P!PublishedIsOnStream
<1>1. PP!IInv => P!PublishedIsOnStream
  BY DEF PP!IInv, PP!PublishedIsOnStream, P!PublishedIsOnStream, P!OnStream, PP!OnStream
<1> QED BY <1>1, DeliveryInvariance, PTL

\* One gateway process alone loses no update of the table, whatever requests do
\* in between.
THEOREM DeliveryInOrder ==
    ASSUME \A p, q \in Publisher : p = q
    PROVE  Spec => NoLostUpdate
<1>1. PP!Alone
  BY DEF PP!Alone
<1>2. Init => PP!ClaimsCurrent
  BY DEF Init, P!PublisherInit, PP!ClaimsCurrent, PP!Claims, P!Polling
<1>3. PP!IInv /\ PP!ClaimsCurrent /\ [P!Next]_(P!vars) => PP!ClaimsCurrent' /\ PP!UpdateInOrder
  BY <1>1, SameNext, PP!AloneStep, PublisherAssumptions
<1>4. DInv /\ PP!IInv /\ PP!ClaimsCurrent /\ [Next]_vars => PP!ClaimsCurrent' /\ PP!UpdateInOrder
  BY <1>3, DeliveryStep
<1>5. PP!UpdateInOrder =>
        \A k \in Key : /\ P!Settled(k) => outbox'[k] = outbox[k]
                       /\ outbox'[k].attempts >= outbox[k].attempts
  BY DEF PP!UpdateInOrder, P!Settled, PP!Settled, P!Terminal, PP!Terminal
<1> QED BY <1>2, <1>4, <1>5, DeliveryInvariance, PTL DEF Spec, NoLostUpdate
=============================================================================
