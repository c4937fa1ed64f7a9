--------------------- MODULE ObservationPublisherProofs --------------------
(***************************************************************************)
(* For every number of rows, publishers and attempts: a row marked         *)
(* published is on the stream.  PublishedIsOnStream is not inductive: the  *)
(* update that marks a row comes after the XADD, so the invariant has to   *)
(* say that a row waiting for that update is on the stream already, and    *)
(* that rows held by a publisher exist, so that no insert changes the      *)
(* document they were read with.                                           *)
(***************************************************************************)
EXTENDS ObservationPublisher, TLAPS

Claims(p) == pub[p].current \cup pub[p].todo

\* Every row a publisher holds is in the table.
ClaimsPresent ==
    \A p \in Publisher : \A c \in Claims(p) : outbox[c.row].status # "absent"

\* Between the XADD and the update the row is on the stream.
SentIsOnStream ==
    \A p \in Publisher :
        pub[p].pc = "sent" => \A c \in pub[p].current : OnStream(c.row)

IInv == TypeOK /\ ClaimsPresent /\ SentIsOnStream /\ PublishedIsOnStream

\* What one step may do to the table and the stream for the argument to go
\* through: rows are not removed, existing rows keep their document, the
\* stream only grows.
Kept ==
    /\ stream \subseteq stream'
    /\ \A r \in Row :
        outbox[r].status # "absent" =>
            /\ outbox'[r].status # "absent"
            /\ outbox'[r].doc = outbox[r].doc

\* A row on the stream stays there.
LEMMA OnStreamKept ==
    ASSUME Kept, NEW r \in Row, outbox[r].status # "absent", OnStream(r)
    PROVE  OnStream(r)'
BY DEF Kept, OnStream

\* The state of one publisher changes: its own claims have to be looked at, the
\* claims of the others are kept.
LEMMA ClaimsKept ==
    ASSUME IInv, TypeOK', Kept, NEW p \in Publisher, NEW s \in PublisherState,
           pub' = [pub EXCEPT ![p] = s],
           \A c \in s.current \cup s.todo : outbox'[c.row].status # "absent",
           s.pc = "sent" => \A c \in s.current : OnStream(c.row)'
    PROVE  ClaimsPresent' /\ SentIsOnStream'
<1>1. ASSUME NEW q \in Publisher, NEW c \in Claims(q)'
      PROVE  outbox'[c.row].status # "absent"
  <2>1. CASE q = p
    BY <1>1, <2>1 DEF Claims, IInv, TypeOK
  <2>2. CASE q # p
    <3>1. pub'[q] = pub[q] /\ c \in Claims(q)
      BY <1>1, <2>2 DEF Claims, IInv, TypeOK
    <3>2. c.row \in Row /\ outbox[c.row].status # "absent"
      BY <3>1, <1>1 DEF IInv, TypeOK, ClaimsPresent, Claims, PublisherState, Claim
    <3> QED BY <3>2 DEF Kept
  <2> QED BY <2>1, <2>2
<1>2. ASSUME NEW q \in Publisher, pub'[q].pc = "sent", NEW c \in pub'[q].current
      PROVE  OnStream(c.row)'
  <2>1. CASE q = p
    BY <1>2, <2>1 DEF IInv, TypeOK
  <2>2. CASE q # p
    <3>1. pub'[q] = pub[q]
      BY <1>2, <2>2 DEF IInv, TypeOK
    <3>2. c \in pub[q].current /\ c.row \in Row /\ OnStream(c.row)
      BY <3>1, <1>2 DEF IInv, TypeOK, SentIsOnStream, PublisherState, Claim
    <3>3. outbox[c.row].status # "absent"
      BY <3>2 DEF IInv, ClaimsPresent, Claims
    <3> QED BY <3>2, <3>3, OnStreamKept
  <2> QED BY <2>1, <2>2
<1> QED BY <1>1, <1>2 DEF ClaimsPresent, SentIsOnStream

\* A step that leaves the publishers alone keeps what is said of their claims.
LEMMA OthersKept ==
    ASSUME IInv, TypeOK', Kept, pub' = pub
    PROVE  ClaimsPresent' /\ SentIsOnStream'
<1>1. ASSUME NEW q \in Publisher, NEW c \in Claims(q)
      PROVE  outbox'[c.row].status # "absent"
  BY <1>1 DEF IInv, TypeOK, ClaimsPresent, Claims, PublisherState, Claim, Kept
<1>2. ASSUME NEW q \in Publisher, pub[q].pc = "sent", NEW c \in pub[q].current
      PROVE  OnStream(c.row)'
  <2>1. c.row \in Row /\ OnStream(c.row) /\ outbox[c.row].status # "absent"
    BY <1>2 DEF IInv, TypeOK, ClaimsPresent, Claims, SentIsOnStream, PublisherState, Claim
  <2> QED BY <2>1, OnStreamKept
<1> QED BY <1>1, <1>2 DEF ClaimsPresent, SentIsOnStream, Claims

\* A step that publishes no row keeps PublishedIsOnStream.
LEMMA PublishedKept ==
    ASSUME IInv, Kept,
           \A r \in Row : outbox'[r].status = "published" => outbox[r].status = "published"
    PROVE  PublishedIsOnStream'
<1>1. ASSUME NEW r \in Row, outbox'[r].status = "published" PROVE OnStream(r)'
  <2>1. outbox[r].status # "absent" /\ OnStream(r)
    BY <1>1 DEF IInv, PublishedIsOnStream
  <2> QED BY <2>1, OnStreamKept
<1> QED BY <1>1 DEF PublishedIsOnStream

\* The insert of a row.
LEMMA EnqueueStep ==
    ASSUME IInv, NEW r \in Row, NEW d \in Doc, Enqueue(r, d)
    PROVE  IInv'
<1> USE DEF Enqueue
<1>1. NewRow(d) \in OutboxRow(Id)
  BY PublisherConstants DEF NewRow, OutboxRow
<1>2. TypeOK'
  BY <1>1 DEF IInv, TypeOK
<1>3. Kept
  BY DEF Kept, IInv, TypeOK, NoRow
<1>4. PublishedIsOnStream'
  <2>1. ASSUME NEW q \in Row PROVE outbox'[q].status = "published" => outbox[q].status = "published"
    BY <2>1 DEF IInv, TypeOK, NewRow
  <2> QED BY <2>1, <1>3, PublishedKept
<1> QED BY <1>2, <1>3, <1>4, OthersKept DEF IInv

\* A poll reads rows of the table.
LEMMA ClaimRowsStep ==
    ASSUME IInv, NEW p \in Publisher, ClaimRows(p)
    PROVE  IInv'
<1>1. PICK S \in SUBSET Claimable :
        pub' = [pub EXCEPT ![p] =
                 [@ EXCEPT !.pc = "publishing",
                           !.todo = {[row |-> r, attempts |-> outbox[r].attempts] : r \in S}]]
  BY DEF ClaimRows
<1> DEFINE T == {[row |-> r, attempts |-> outbox[r].attempts] : r \in S}
           s == [pub[p] EXCEPT !.pc = "publishing", !.todo = T]
<1>2. outbox' = outbox /\ stream' = stream /\ faults' = faults
  BY DEF ClaimRows
<1>3. T \subseteq Claim /\ \A c \in T : outbox[c.row].status # "absent"
  <2>1. ASSUME NEW r \in S
        PROVE  /\ [row |-> r, attempts |-> outbox[r].attempts] \in Claim
               /\ outbox[r].status # "absent"
    <3>1. r \in Row /\ outbox[r].status # "absent" BY <2>1 DEF Claimable
    <3>2. outbox[r].attempts \in Nat BY <3>1 DEF IInv, TypeOK, OutboxRow
    <3> QED BY <3>1, <3>2 DEF Claim
  <2> QED BY <2>1
<1>4. pub[p] \in PublisherState
  BY DEF IInv, TypeOK
<1>5. /\ s \in PublisherState
      /\ s.pc = "publishing" /\ s.current = pub[p].current /\ s.todo = T
  <2> HIDE DEF T
  <2> QED BY <1>3, <1>4 DEF PublisherState
<1>6. pub' = [pub EXCEPT ![p] = s]
  BY <1>1, <1>4 DEF IInv, TypeOK
<1> HIDE DEF s, T
<1>7. TypeOK'
  BY <1>2, <1>5, <1>6 DEF IInv, TypeOK
<1>8. Kept
  BY <1>2 DEF Kept
<1>9. ASSUME NEW c \in s.current \cup s.todo PROVE outbox'[c.row].status # "absent"
  BY <1>2, <1>3, <1>5, <1>9 DEF IInv, ClaimsPresent, Claims
<1>10. ClaimsPresent' /\ SentIsOnStream'
  BY <1>5, <1>6, <1>7, <1>8, <1>9, ClaimsKept
<1>11. PublishedIsOnStream'
  BY <1>2 DEF IInv, PublishedIsOnStream, OnStream
<1> QED BY <1>7, <1>10, <1>11 DEF IInv

\* One claim is taken; its XADD has succeeded or raised.
LEMMA PublishStep ==
    ASSUME IInv, NEW p \in Publisher, Publish(p) \/ PublishError(p) \/ RedisError(p)
    PROVE  IInv'
<1>1. PICK c \in pub[p].todo, pc \in {"sent", "failed"} :
        /\ Take(p, c, pc)
        /\ stream' \in {stream, stream \cup outbox[c.row].doc.ids}
        /\ pc = "sent" => stream' = stream \cup outbox[c.row].doc.ids
  BY DEF Publish, PublishError, RedisError
<1> DEFINE s == [pc |-> pc, current |-> {c}, todo |-> pub[p].todo \ {c}]
<1>2. outbox' = outbox /\ faults' \in Nat /\ pub' = [pub EXCEPT ![p] = s]
  BY <1>1 DEF Publish, PublishError, RedisError, Take, IInv, TypeOK
<1>3. c \in Claim /\ c.row \in Row /\ pub[p] \in PublisherState
  BY <1>1 DEF IInv, TypeOK, PublisherState, Claim
<1>4. s \in PublisherState
  BY <1>3 DEF PublisherState
<1>5. outbox[c.row].doc.ids \subseteq Id
  BY <1>3 DEF IInv, TypeOK, OutboxRow, Document
<1>6. TypeOK'
  <2>1. stream' \subseteq Id BY <1>1, <1>5 DEF IInv, TypeOK
  <2> HIDE DEF s
  <2> QED BY <1>2, <1>4, <2>1 DEF IInv, TypeOK
<1>7. Kept
  BY <1>1, <1>2 DEF Kept
<1>8. s.current = {c} /\ s.todo = pub[p].todo \ {c} /\ s.pc = pc
  OBVIOUS
<1>9. ASSUME NEW x \in s.current \cup s.todo PROVE outbox'[x.row].status # "absent"
  BY <1>1, <1>2, <1>8, <1>9 DEF IInv, ClaimsPresent, Claims
<1>10. s.pc = "sent" => \A x \in s.current : OnStream(x.row)'
  BY <1>1, <1>2, <1>8 DEF OnStream
<1> HIDE DEF s
<1>11. ClaimsPresent' /\ SentIsOnStream'
  BY <1>2, <1>4, <1>6, <1>7, <1>9, <1>10, ClaimsKept
<1>12. PublishedIsOnStream'
  BY <1>2, <1>7, PublishedKept
<1> QED BY <1>6, <1>11, <1>12 DEF IInv

\* The effect of the update on the table.
LEMMA UpdatedTable ==
    ASSUME IInv, NEW p \in Publisher, Updated(p), stream' = stream
    PROVE  /\ outbox' \in [Row -> OutboxRow(Id)]
           /\ Kept
           /\ PublishedIsOnStream'
<1>1. PICK c \in pub[p].current :
        \/ pub[p].pc = "sent" /\ SetPublished(c)
        \/ pub[p].pc = "failed" /\ SetFailed(c)
  BY DEF Updated
<1>2. c \in Claim /\ c.row \in Row /\ c.attempts \in Nat
  BY <1>1 DEF IInv, TypeOK, PublisherState, Claim
<1>3. outbox[c.row].status # "absent" /\ outbox[c.row] \in OutboxRow(Id)
  BY <1>1, <1>2 DEF IInv, TypeOK, ClaimsPresent, Claims
<1> DEFINE x == outbox[c.row]
<1>x. x \in OutboxRow(Id)
  BY <1>3
<1> HIDE DEF x
<1>4. CASE pub[p].pc = "sent" /\ SetPublished(c)
  <2> DEFINE row == [x EXCEPT !.status = "published", !.attempts = x.attempts + 1]
  <2>1. outbox' = [outbox EXCEPT ![c.row] = row]
    BY <1>4 DEF SetPublished, x
  <2>2. row \in OutboxRow(Id) /\ row.doc = outbox[c.row].doc /\ row.status = "published"
    <3>1. x.attempts + 1 \in Nat BY <1>x DEF OutboxRow
    <3>2. x.doc = outbox[c.row].doc BY DEF x
    <3>3. /\ row \in OutboxRow(Id)
          /\ row.doc = x.doc /\ row.status = "published"
      BY <3>1, <1>x DEF OutboxRow
    <3> QED BY <3>2, <3>3
  <2> HIDE DEF row
  <2>3. outbox' \in [Row -> OutboxRow(Id)]
    BY <2>1, <2>2, <1>2 DEF IInv, TypeOK
  <2>4. Kept
    BY <2>1, <2>2, <1>2 DEF Kept, IInv, TypeOK
  <2>5. OnStream(c.row)
    BY <1>1, <1>4 DEF IInv, SentIsOnStream
  <2>6. ASSUME NEW r \in Row, outbox'[r].status = "published" PROVE OnStream(r)'
    <3>1. CASE r = c.row
      BY <3>1, <2>4, <2>5, <1>2, <1>3, OnStreamKept
    <3>2. CASE r # c.row
      <4>1. outbox[r].status = "published"
        BY <3>2, <2>1, <2>6 DEF IInv, TypeOK
      <4>2. OnStream(r) /\ outbox[r].status # "absent"
        BY <4>1, <2>6 DEF IInv, PublishedIsOnStream
      <4> QED BY <4>2, <2>4, <2>6, OnStreamKept
    <3> QED BY <3>1, <3>2
  <2> QED BY <2>3, <2>4, <2>6 DEF PublishedIsOnStream
<1>5. CASE pub[p].pc = "failed" /\ SetFailed(c)
  <2> DEFINE n == c.attempts + 1
             row == [x EXCEPT
                       !.status = IF n >= MAX_ATTEMPTS THEN "dead_letter" ELSE "failed",
                       !.attempts = n,
                       !.due = IF n >= MAX_ATTEMPTS THEN "yes" ELSE "no"]
  <2>1. outbox' = [outbox EXCEPT ![c.row] = row]
    BY <1>5 DEF SetFailed, x
  <2>2. /\ row \in OutboxRow(Id) /\ row.doc = outbox[c.row].doc
        /\ row.status \in {"dead_letter", "failed"}
    <3>1. n \in Nat BY <1>2
    <3> HIDE DEF n
    <3>2. x.doc = outbox[c.row].doc BY DEF x
    <3>3. /\ row \in OutboxRow(Id)
          /\ row.doc = x.doc /\ row.status \in {"dead_letter", "failed"}
      BY <3>1, <1>x DEF OutboxRow
    <3> QED BY <3>2, <3>3
  <2> HIDE DEF row
  <2>3. outbox' \in [Row -> OutboxRow(Id)]
    BY <2>1, <2>2, <1>2 DEF IInv, TypeOK
  <2>4. Kept
    BY <2>1, <2>2, <1>2 DEF Kept, IInv, TypeOK
  <2>5. ASSUME NEW r \in Row PROVE outbox'[r].status = "published" => outbox[r].status = "published"
    BY <2>1, <2>2, <2>5 DEF IInv, TypeOK
  <2> QED BY <2>3, <2>4, <2>5, PublishedKept
<1> QED BY <1>1, <1>4, <1>5

\* Steps after which the publisher holds no more than it held before.
LEMMA DropClaims ==
    ASSUME IInv, TypeOK', Kept, NEW p \in Publisher, NEW s \in PublisherState,
           pub' = [pub EXCEPT ![p] = s],
           s.pc # "sent", s.current = {}, s.todo \subseteq pub[p].todo
    PROVE  ClaimsPresent' /\ SentIsOnStream'
<1>1. ASSUME NEW c \in s.current \cup s.todo PROVE outbox'[c.row].status # "absent"
  BY <1>1 DEF IInv, TypeOK, ClaimsPresent, Claims, PublisherState, Claim, Kept
<1> QED BY <1>1, ClaimsKept

\* The row is updated; the publisher goes on or, if the update raised, drops
\* its other claims.
LEMMA UpdateStep ==
    ASSUME IInv, NEW p \in Publisher, UpdateRow(p) \/ UpdateError(p)
    PROVE  IInv'
<1>1. stream' = stream /\ faults' \in Nat
  BY DEF UpdateRow, UpdateError, IInv, TypeOK
<1>2. /\ outbox' \in [Row -> OutboxRow(Id)]
      /\ Kept
      /\ PublishedIsOnStream'
  <2>1. CASE Updated(p)
    BY <2>1, <1>1, UpdatedTable
  <2>2. CASE outbox' = outbox
    BY <2>2, <1>1 DEF IInv, TypeOK, Kept, PublishedIsOnStream, OnStream
  <2> QED BY <2>1, <2>2 DEF UpdateRow, UpdateError
<1>3. PICK s \in PublisherState :
        /\ pub' = [pub EXCEPT ![p] = s]
        /\ s.pc # "sent" /\ s.current = {} /\ s.todo \subseteq pub[p].todo
  <2>1. pub[p] \in PublisherState
    BY DEF IInv, TypeOK
  <2>2. /\ Polling \in PublisherState /\ Polling.pc # "sent"
        /\ Polling.current = {} /\ Polling.todo \subseteq pub[p].todo
    BY DEF Polling, PublisherState
  <2> DEFINE next == [pc |-> "publishing", current |-> {}, todo |-> pub[p].todo]
  <2>3. /\ next \in PublisherState /\ next.pc # "sent"
        /\ next.current = {} /\ next.todo \subseteq pub[p].todo
    BY <2>1 DEF PublisherState
  <2>4. \/ pub' = [pub EXCEPT ![p] = Polling]
        \/ pub' = [pub EXCEPT ![p] = next]
    BY DEF UpdateRow, UpdateError, Proceed
  <2> HIDE DEF next
  <2> QED BY <2>2, <2>3, <2>4
<1>4. TypeOK'
  BY <1>1, <1>2, <1>3 DEF IInv, TypeOK
<1> QED BY <1>2, <1>3, <1>4, DropClaims DEF IInv

\* Time, death and restart of a publisher.
LEMMA EnvironmentStep ==
    ASSUME IInv,
           \/ \E p \in Publisher : Stop(p) \/ Start(p)
           \/ \E r \in Row : BackoffElapses(r)
    PROVE  IInv'
<1>1. CASE \E p \in Publisher : Stop(p) \/ Start(p)
  <2>1. PICK p \in Publisher, s \in {Polling, Down} :
          /\ pub' = [pub EXCEPT ![p] = s]
          /\ outbox' = outbox /\ stream' = stream /\ faults' \in Nat
    BY <1>1 DEF Stop, Start, IInv, TypeOK
  <2>2. s \in PublisherState /\ s.pc # "sent" /\ s.current = {} /\ s.todo = {}
    BY DEF Polling, Down, PublisherState
  <2>3. TypeOK' /\ Kept /\ PublishedIsOnStream'
    BY <2>1, <2>2 DEF IInv, TypeOK, Kept, PublishedIsOnStream, OnStream
  <2> QED BY <2>1, <2>2, <2>3, DropClaims DEF IInv
<1>2. CASE \E r \in Row : BackoffElapses(r)
  <2>1. PICK r \in Row : BackoffElapses(r)
    BY <1>2
  <2> DEFINE row == [outbox[r] EXCEPT !.due = "yes"]
  <2>2. /\ outbox' = [outbox EXCEPT ![r] = row]
        /\ stream' = stream /\ pub' = pub /\ faults' = faults
    BY <2>1 DEF BackoffElapses
  <2>3. /\ row \in OutboxRow(Id)
        /\ row.status = outbox[r].status /\ row.doc = outbox[r].doc
    BY DEF IInv, TypeOK, OutboxRow
  <2> HIDE DEF row
  <2>4. TypeOK' /\ Kept
    BY <2>2, <2>3 DEF IInv, TypeOK, Kept
  <2>5. ASSUME NEW q \in Row PROVE outbox'[q].status = "published" => outbox[q].status = "published"
    BY <2>2, <2>3, <2>5 DEF IInv, TypeOK
  <2> QED BY <2>2, <2>4, <2>5, PublishedKept, OthersKept DEF IInv
<1> QED BY <1>1, <1>2

\* Every step keeps the invariant.
LEMMA InvariantKept ==
    ASSUME IInv, [Next]_vars
    PROVE  IInv'
<1>1. CASE \E r \in Row, d \in Doc : Enqueue(r, d)
  BY <1>1, EnqueueStep
<1>2. CASE \E p \in Publisher : Poll(p) \/ RedisError(p) \/ UpdateError(p)
  BY <1>2, ClaimRowsStep, PublishStep, UpdateStep DEF Poll
<1>3. CASE \/ \E p \in Publisher : Stop(p) \/ Start(p)
           \/ \E r \in Row : BackoffElapses(r)
  BY <1>3, EnvironmentStep
<1>4. CASE UNCHANGED vars
  BY <1>4 DEF vars, IInv, TypeOK, ClaimsPresent, Claims, SentIsOnStream,
              PublishedIsOnStream, OnStream
<1> QED BY <1>1, <1>2, <1>3, <1>4 DEF Next, PublisherNext

\* The invariant of the publishers.
THEOREM PublisherInvariance == Spec => []IInv
<1>1. Init => IInv
  <2> SUFFICES ASSUME Init PROVE IInv
    OBVIOUS
  <2>1. TypeOK
    BY DEF Init, PublisherInit, TypeOK, NoRow, NoDocument, OutboxRow, Document, Polling, PublisherState
  <2> QED BY <2>1 DEF Init, PublisherInit, IInv, ClaimsPresent, Claims, SentIsOnStream,
             PublishedIsOnStream, NoRow, Polling
<1>2. IInv /\ [Next]_vars => IInv'
  BY InvariantKept
<1> QED BY <1>1, <1>2, PTL DEF Spec

\* The variables keep their types: _publish_one moves a row between the
\* statuses of the table only.
THEOREM PublisherTypes == Spec => []TypeOK
<1>1. IInv => TypeOK
  BY DEF IInv
<1> QED BY <1>1, PublisherInvariance, PTL

\* A row marked published is on the stream: _publish_one marks it only after
\* XADD has answered, and no other publisher's update undoes that.
THEOREM PublishedOnStream == Spec => []PublishedIsOnStream
<1>1. IInv => PublishedIsOnStream
  BY DEF IInv
<1> QED BY <1>1, PublisherInvariance, PTL

-----------------------------------------------------------------------------
(* What the publishers do to the table, for whoever composes them with the *)
(* transaction that inserts its rows.                                      *)

\* A step of a publisher changes the table in one of two ways.
LEMMA TableSteps ==
    ASSUME [PublisherNext]_vars
    PROVE  \/ outbox' = outbox
           \/ \E p \in Publisher : Updated(p) /\ (UpdateRow(p) \/ UpdateError(p))
           \/ \E r \in Row : BackoffElapses(r)
BY DEF PublisherNext, Poll, ClaimRows, Publish, PublishError, RedisError, UpdateRow,
       UpdateError, Stop, Start, vars

\* An update is one of a row of the table, which keeps its document.
LEMMA UpdatedRow ==
    ASSUME IInv, NEW p \in Publisher, Updated(p)
    PROVE  \E c \in pub[p].current :
             /\ c \in Claim /\ outbox[c.row].status # "absent"
             /\ \A r \in Row : r # c.row => outbox'[r] = outbox[r]
             /\ \/ outbox'[c.row].attempts = outbox[c.row].attempts + 1
                \/ outbox'[c.row].attempts = c.attempts + 1
             /\ outbox'[c.row].status # "absent"
             /\ outbox'[c.row].doc = outbox[c.row].doc
<1>1. PICK c \in pub[p].current :
        \/ pub[p].pc = "sent" /\ SetPublished(c)
        \/ pub[p].pc = "failed" /\ SetFailed(c)
  BY DEF Updated
<1>2. c \in Claim /\ c.row \in Row
  BY <1>1 DEF IInv, TypeOK, PublisherState, Claim
<1>3. outbox[c.row].status # "absent" /\ outbox[c.row] \in OutboxRow(Id)
  BY <1>1, <1>2 DEF IInv, TypeOK, ClaimsPresent, Claims
<1>4. PICK row :
        /\ outbox' = [outbox EXCEPT ![c.row] = row]
        /\ row.status # "absent" /\ row.doc = outbox[c.row].doc
        /\ row.attempts = outbox[c.row].attempts + 1 \/ row.attempts = c.attempts + 1
  <2> DEFINE x == outbox[c.row]
             n == c.attempts + 1
             sent == [x EXCEPT !.status = "published", !.attempts = x.attempts + 1]
             failed == [x EXCEPT
                          !.status = IF n >= MAX_ATTEMPTS THEN "dead_letter" ELSE "failed",
                          !.attempts = n,
                          !.due = IF n >= MAX_ATTEMPTS THEN "yes" ELSE "no"]
  <2>1. x \in OutboxRow(Id)
    BY <1>3
  <2>2. \/ outbox' = [outbox EXCEPT ![c.row] = sent]
        \/ outbox' = [outbox EXCEPT ![c.row] = failed]
    BY <1>1 DEF SetPublished, SetFailed
  <2> HIDE DEF x, n
  <2>3. sent.status # "absent" /\ sent.doc = x.doc /\ sent.attempts = x.attempts + 1
    BY <2>1 DEF OutboxRow
  <2>4. failed.status # "absent" /\ failed.doc = x.doc /\ failed.attempts = n
    BY <2>1 DEF OutboxRow
  <2> HIDE DEF sent, failed
  <2> QED BY <2>2, <2>3, <2>4 DEF x, n
<1> QED BY <1>1, <1>2, <1>3, <1>4 DEF IInv, TypeOK

\* What the update of a passed deadline leaves alone.
LEMMA DueRow ==
    ASSUME IInv, NEW r \in Row, BackoffElapses(r)
    PROVE  \A q \in Row :
             /\ outbox'[q].status = outbox[q].status
             /\ outbox'[q].attempts = outbox[q].attempts
             /\ outbox'[q].doc = outbox[q].doc
             /\ outbox[q].status # "failed" => outbox'[q] = outbox[q]
<1> DEFINE row == [outbox[r] EXCEPT !.due = "yes"]
<1>1. outbox' = [outbox EXCEPT ![r] = row] /\ outbox[r].status = "failed"
  BY DEF BackoffElapses
<1>2. /\ row.status = outbox[r].status /\ row.doc = outbox[r].doc
      /\ row.attempts = outbox[r].attempts
  BY DEF IInv, TypeOK, OutboxRow
<1> HIDE DEF row
<1> QED BY <1>1, <1>2 DEF IInv, TypeOK

\* A publisher inserts no row, removes none and changes no document.
LEMMA RowsKept ==
    ASSUME IInv, [PublisherNext]_vars, NEW r \in Row
    PROVE  /\ outbox[r].status = "absent" => outbox'[r] = outbox[r]
           /\ outbox[r].status # "absent" =>
                outbox'[r].status # "absent" /\ outbox'[r].doc = outbox[r].doc
<1>1. CASE outbox' = outbox
  BY <1>1
<1>2. CASE \E p \in Publisher : Updated(p)
  BY <1>2, UpdatedRow
<1>3. CASE \E q \in Row : BackoffElapses(q)
  BY <1>3, DueRow
<1> QED BY <1>1, <1>2, <1>3, TableSteps

-----------------------------------------------------------------------------
(* One publisher alone.  Nothing in the code keeps a second gateway from   *)
(* polling the same table; these facts are what a single one relies on.    *)

Alone == \A p, q \in Publisher : p = q

\* What the publisher remembers of a row is what the table says of it: no two
\* claims on one row, none on a settled one, and the attempts are not stale.
ClaimsCurrent ==
    \A p \in Publisher :
        /\ pub[p].pc = "polling" => pub[p].current = {}
        /\ pub[p].current \cap pub[p].todo = {}
        /\ \A c \in Claims(p) :
            ~Settled(c.row) /\ c.attempts = outbox[c.row].attempts
        /\ \A c, d \in Claims(p) : c.row = d.row => c = d

\* No settled row changes and no count of attempts goes back.
UpdateInOrder ==
    \A r \in Row :
        /\ Settled(r) => outbox'[r] = outbox[r]
        /\ outbox'[r].attempts >= outbox[r].attempts

\* A publisher that holds fewer claims, on rows nobody has changed.
LEMMA FewerClaims ==
    ASSUME Alone, IInv, ClaimsCurrent, NEW p \in Publisher, NEW s \in PublisherState,
           pub' = [pub EXCEPT ![p] = s],
           s.current \cup s.todo \subseteq Claims(p),
           s.current \cap s.todo = {},
           s.pc = "polling" => s.current = {},
           \A c \in s.current \cup s.todo :
             /\ outbox'[c.row].status = outbox[c.row].status
             /\ outbox'[c.row].attempts = outbox[c.row].attempts
    PROVE  ClaimsCurrent'
<1>1. \A q \in Publisher : pub'[q] = s
  BY DEF Alone, IInv, TypeOK
<1>2. ASSUME NEW c \in s.current \cup s.todo
      PROVE  ~Settled(c.row)' /\ c.attempts = outbox'[c.row].attempts
  BY <1>2 DEF ClaimsCurrent, Settled
<1>3. ASSUME NEW c \in s.current \cup s.todo, NEW d \in s.current \cup s.todo, c.row = d.row
      PROVE  c = d
  BY <1>3 DEF ClaimsCurrent
<1> QED BY <1>1, <1>2, <1>3 DEF ClaimsCurrent, Claims

\* The claims of a poll are read from the table.
LEMMA FreshClaims ==
    ASSUME Alone, IInv, ClaimsCurrent, NEW p \in Publisher, ClaimRows(p)
    PROVE  ClaimsCurrent'
<1>1. PICK S \in SUBSET Claimable :
        pub' = [pub EXCEPT ![p] =
                 [@ EXCEPT !.pc = "publishing",
                           !.todo = {[row |-> r, attempts |-> outbox[r].attempts] : r \in S}]]
  BY DEF ClaimRows
<1> DEFINE T == {[row |-> r, attempts |-> outbox[r].attempts] : r \in S}
<1>2. outbox' = outbox /\ pub[p].pc = "polling" /\ pub[p].current = {}
  BY DEF ClaimRows, ClaimsCurrent
<1>3. ASSUME NEW c \in T
      PROVE  ~Settled(c.row) /\ c.attempts = outbox[c.row].attempts
  BY DEF Settled, Terminal, Claimable
<1>4. ASSUME NEW c \in T, NEW d \in T, c.row = d.row
      PROVE  c = d
  BY <1>4
<1> HIDE DEF T
<1>5. \A q \in Publisher :
        pub'[q].pc = "publishing" /\ pub'[q].current = {} /\ pub'[q].todo = T
  <2>1. pub[p] \in PublisherState BY DEF IInv, TypeOK
  <2>2. pub'[p] = [pub[p] EXCEPT !.pc = "publishing", !.todo = T]
    BY <1>1 DEF IInv, TypeOK, T
  <2>3. pub'[p].pc = "publishing" /\ pub'[p].current = pub[p].current /\ pub'[p].todo = T
    BY <2>1, <2>2 DEF PublisherState
  <2> QED BY <2>3, <1>2 DEF Alone
<1>6. \A q \in Publisher : Claims(q)' = T
  BY <1>5 DEF Claims
<1> QED BY <1>2, <1>3, <1>4, <1>5, <1>6 DEF ClaimsCurrent, Settled

\* The next claim is taken.
LEMMA NextClaim ==
    ASSUME Alone, IInv, ClaimsCurrent, NEW p \in Publisher,
           Publish(p) \/ PublishError(p) \/ RedisError(p)
    PROVE  ClaimsCurrent'
<1>1. PICK c \in pub[p].todo, pc \in {"sent", "failed"} : Take(p, c, pc) /\ outbox' = outbox
  BY DEF Publish, PublishError, RedisError
<1> DEFINE s == [pc |-> pc, current |-> {c}, todo |-> pub[p].todo \ {c}]
<1>2. pub[p] \in PublisherState
  BY DEF IInv, TypeOK
<1>3. s \in PublisherState
  BY <1>1, <1>2 DEF PublisherState
<1>4. /\ s.current \cup s.todo \subseteq Claims(p)
      /\ s.current \cap s.todo = {} /\ s.pc # "polling"
  BY <1>1 DEF Claims
<1>5. pub' = [pub EXCEPT ![p] = s]
  BY <1>1 DEF Take
<1> HIDE DEF s
<1> QED BY <1>1, <1>3, <1>4, <1>5, FewerClaims

\* After an update, or an UPDATE that raised, the row is given up.
LEMMA ClaimSettled ==
    ASSUME Alone, IInv, ClaimsCurrent, NEW p \in Publisher, UpdateRow(p) \/ UpdateError(p)
    PROVE  ClaimsCurrent' /\ UpdateInOrder
<1>1. pub[p] \in PublisherState
  BY DEF IInv, TypeOK
<1> DEFINE next == [pc |-> "publishing", current |-> {}, todo |-> pub[p].todo]
<1>2. PICK s \in PublisherState :
        /\ pub' = [pub EXCEPT ![p] = s]
        /\ s.current = {}
        /\ s.todo = {} \/ s.todo = pub[p].todo
  <2>1. Polling \in PublisherState /\ Polling.current = {} /\ Polling.todo = {}
    BY DEF Polling, PublisherState
  <2>2. next \in PublisherState /\ next.current = {} /\ next.todo = pub[p].todo
    BY <1>1 DEF PublisherState
  <2>3. \/ pub' = [pub EXCEPT ![p] = Polling]
        \/ pub' = [pub EXCEPT ![p] = next]
    BY DEF UpdateRow, UpdateError, Proceed
  <2> HIDE DEF next
  <2> QED BY <2>1, <2>2, <2>3
<1>3. CASE Updated(p)
  <2>1. PICK c \in pub[p].current :
          /\ c \in Claim /\ outbox[c.row].status # "absent"
          /\ \A r \in Row : r # c.row => outbox'[r] = outbox[r]
          /\ \/ outbox'[c.row].attempts = outbox[c.row].attempts + 1
             \/ outbox'[c.row].attempts = c.attempts + 1
    BY <1>3, UpdatedRow
  <2>2. /\ c.row \in Row /\ ~Settled(c.row)
        /\ outbox'[c.row].attempts = outbox[c.row].attempts + 1
    BY <2>1 DEF ClaimsCurrent, Claims, Claim
  <2>3. \A r \in Row : outbox[r].attempts \in Nat
    BY DEF IInv, TypeOK, OutboxRow
  <2>4. UpdateInOrder
    <3>1. ASSUME NEW r \in Row
          PROVE  /\ Settled(r) => outbox'[r] = outbox[r]
                 /\ outbox'[r].attempts >= outbox[r].attempts
      BY <2>1, <2>2, <2>3
    <3> QED BY <3>1 DEF UpdateInOrder
  <2>5. ASSUME NEW d \in s.todo PROVE d \in pub[p].todo /\ d.row \in Row /\ d.row # c.row
    <3>1. d \in pub[p].todo BY <1>2, <2>5
    <3>2. d # c BY <3>1, <2>1 DEF ClaimsCurrent
    <3>3. d.row # c.row BY <3>1, <3>2, <2>1 DEF ClaimsCurrent, Claims
    <3>4. d.row \in Row BY <3>1, <1>1 DEF PublisherState, Claim
    <3> QED BY <3>1, <3>3, <3>4
  <2>6. /\ s.current \cup s.todo \subseteq Claims(p)
        /\ s.current \cap s.todo = {}
        /\ \A d \in s.current \cup s.todo : outbox'[d.row] = outbox[d.row]
    BY <1>2, <2>1, <2>5 DEF Claims
  <2> QED BY <1>2, <2>4, <2>6, FewerClaims
<1>4. CASE outbox' = outbox /\ UpdateError(p)
  <2>1. UpdateInOrder
    BY <1>4 DEF UpdateInOrder, IInv, TypeOK, OutboxRow
  <2>2. s.current \cup s.todo \subseteq Claims(p) /\ s.current \cap s.todo = {}
    BY <1>2 DEF Claims
  <2> QED BY <1>2, <1>4, <2>1, <2>2, FewerClaims
<1> QED BY <1>3, <1>4 DEF UpdateRow, UpdateError

\* Every step of a publisher that is alone, or of the transaction that inserts.
LEMMA AloneStep ==
    ASSUME Alone, IInv, ClaimsCurrent, [Next]_vars
    PROVE  ClaimsCurrent' /\ UpdateInOrder
<1>1. ASSUME outbox' = outbox PROVE UpdateInOrder
  BY <1>1 DEF UpdateInOrder, IInv, TypeOK, OutboxRow
<1>2. CASE \E r \in Row, d \in Doc : Enqueue(r, d)
  <2>1. PICK r \in Row, d \in Doc : Enqueue(r, d)
    BY <1>2
  <2>2. /\ outbox[r] = NoRow /\ pub' = pub
        /\ outbox'[r] = NewRow(d) /\ \A q \in Row : q # r => outbox'[q] = outbox[q]
    BY <2>1 DEF Enqueue, IInv, TypeOK
  <2>3. \A q \in Row : outbox[q].attempts \in Nat
    BY DEF IInv, TypeOK, OutboxRow
  <2>4. ASSUME NEW q \in Row
        PROVE  /\ Settled(q) => outbox'[q] = outbox[q]
               /\ outbox'[q].attempts >= outbox[q].attempts
    BY <2>2, <2>3 DEF Settled, Terminal, NoRow, NewRow
  <2>5. ASSUME NEW p \in Publisher, NEW c \in Claims(p)
        PROVE  outbox'[c.row] = outbox[c.row]
    <3>1. outbox[c.row].status # "absent" BY <2>5 DEF IInv, ClaimsPresent
    <3>2. c.row \in Row BY <2>5 DEF IInv, TypeOK, PublisherState, Claim, Claims
    <3> QED BY <3>1, <3>2, <2>2 DEF NoRow
  <2>6. ClaimsCurrent'
    BY <2>2, <2>5 DEF ClaimsCurrent, Claims, Settled
  <2> QED BY <2>4, <2>6 DEF UpdateInOrder
<1>3. CASE \E p \in Publisher : ClaimRows(p)
  BY <1>1, <1>3, FreshClaims DEF ClaimRows
<1>4. CASE \E p \in Publisher : Publish(p) \/ PublishError(p) \/ RedisError(p)
  BY <1>1, <1>4, NextClaim DEF Publish, PublishError, RedisError
<1>5. CASE \E p \in Publisher : UpdateRow(p) \/ UpdateError(p)
  BY <1>5, ClaimSettled
<1>6. CASE \E p \in Publisher : Stop(p) \/ Start(p)
  <2>1. PICK p \in Publisher, s \in {Polling, Down} :
          pub' = [pub EXCEPT ![p] = s] /\ outbox' = outbox
    BY <1>6 DEF Stop, Start
  <2>2. s \in PublisherState /\ s.current = {} /\ s.todo = {}
    BY DEF Polling, Down, PublisherState
  <2> QED BY <1>1, <2>1, <2>2, FewerClaims
<1>7. CASE \E r \in Row : BackoffElapses(r)
  <2>1. PICK r \in Row : BackoffElapses(r)
    BY <1>7
  <2>2. ASSUME NEW q \in Row
        PROVE  /\ Settled(q) => outbox'[q] = outbox[q]
               /\ outbox'[q].attempts = outbox[q].attempts
               /\ outbox'[q].status = outbox[q].status
    BY <2>1, DueRow DEF Settled, Terminal
  <2>3. UpdateInOrder
    BY <2>2 DEF UpdateInOrder, IInv, TypeOK, OutboxRow
  <2>4. ASSUME NEW p \in Publisher, NEW c \in Claims(p)
        PROVE  c.row \in Row
    BY <2>4 DEF IInv, TypeOK, PublisherState, Claim, Claims
  <2>5. pub' = pub
    BY <2>1 DEF BackoffElapses
  <2>6. ClaimsCurrent'
    BY <2>2, <2>4, <2>5 DEF ClaimsCurrent, Claims, Settled
  <2> QED BY <2>3, <2>6
<1>8. CASE UNCHANGED vars
  BY <1>1, <1>8 DEF vars, ClaimsCurrent, Claims, Settled
<1> QED BY <1>2, <1>3, <1>4, <1>5, <1>6, <1>7, <1>8 DEF Next, PublisherNext, Poll

\* A publisher that is alone loses no update: _poll_once settles a row once and
\* its count of attempts, the bound of the retries, only grows.
THEOREM AloneInOrder ==
    ASSUME Alone
    PROVE  Spec => [][UpdateInOrder]_vars
<1>1. Init => ClaimsCurrent
  BY DEF Init, PublisherInit, ClaimsCurrent, Claims, Polling
<1>2. IInv /\ ClaimsCurrent /\ [Next]_vars => ClaimsCurrent' /\ [UpdateInOrder]_vars
  BY AloneStep
<1> QED BY <1>1, <1>2, PublisherInvariance, PTL DEF Spec
=============================================================================
