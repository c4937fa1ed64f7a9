--------------------- MODULE ObservationCollectorProofs --------------------
(***************************************************************************)
(* For any number of collectors, observations, entries and failures:       *)
(* acknowledged entries are persisted and evidence rests on persisted      *)
(* observations.  Neither is inductive: an XACK rests on what the          *)
(* collector found or inserted steps earlier (Good, for the entry in       *)
(* hand), and evidence on every buffered observation being stored.         *)
(***************************************************************************)
EXTENDS ObservationCollector, TLAPS

\* What holds of one collector x, with stream s and observations table t.
Good(x, s, t) ==
    /\ x \in CollectorState
    /\ x.at >= 1 /\ x.upto <= Len(s)
    /\ x.pc \in {"insert", "ack"} => x.at <= x.upto
    /\ x.pc = "ack" => s[x.at] \in t
    /\ \A i \in x.pending : i <= Len(s) /\ s[i] \in t
    /\ \A e \in x.todo : Cites[e] \subseteq t

Tables ==
    /\ stream \in Seq(Obs) /\ Len(stream) <= MaxEntries
    /\ lastDelivered \in 0..Len(stream)
    /\ unacked \subseteq 1..lastDelivered
    /\ observations \subseteq Obs
    /\ evidence \subseteq Evidence
    /\ faults \in Nat

IInv ==
    /\ Tables
    /\ col \in [Collector -> CollectorState]
    /\ \A c \in Collector : Good(col[c], stream, observations)
    /\ AckedIsPersisted
    /\ EvidenceIsBacked

-----------------------------------------------------------------------------
(* Lemmas                                                                  *)

\* What holds of a collector survives entries added to the stream and rows
\* added to the observations table by others.
LEMMA GoodMonotone ==
    ASSUME NEW x, NEW s \in Seq(Obs), NEW t, NEW s2 \in Seq(Obs), NEW t2,
           Good(x, s, t), t \subseteq t2,
           Len(s) <= Len(s2), \A i \in 1..Len(s) : s2[i] = s[i]
    PROVE  Good(x, s2, t2)
<1>1. x.at \in Int /\ x.upto \in Int /\ x.pending \subseteq 1..MaxEntries
    BY CollectorConstants DEF Good, CollectorState
<1>2. Len(s) \in Nat /\ Len(s2) \in Nat
    OBVIOUS
<1>3. x.pc = "ack" => s2[x.at] \in t2
    BY <1>1, <1>2 DEF Good
<1>4. \A i \in x.pending : i <= Len(s2) /\ s2[i] \in t2
    BY <1>1, <1>2, CollectorConstants DEF Good
<1>5. \A e \in x.todo : Cites[e] \subseteq t2
    BY DEF Good
<1>. QED BY <1>1, <1>2, <1>3, <1>4, <1>5 DEF Good

\* A step of collector c that leaves the stream alone keeps all collectors
\* good if it keeps c good.
LEMMA OneSteps ==
    ASSUME IInv, NEW c \in Collector, NEW y,
           col' = [col EXCEPT ![c] = y], stream' = stream,
           observations \subseteq observations',
           Good(y, stream, observations')
    PROVE  /\ col' \in [Collector -> CollectorState]
           /\ \A d \in Collector : Good(col'[d], stream', observations')
<1>1. col' \in [Collector -> CollectorState]
    BY DEF Good, IInv
<1>2. ASSUME NEW d \in Collector PROVE Good(col'[d], stream', observations')
    <2>1. CASE d = c
        BY <2>1 DEF IInv
    <2>2. CASE d # c
        <3>1. col'[d] = col[d]
            BY <2>2 DEF IInv
        <3>2. Good(col[d], stream, observations')
            <4>1. Good(col[d], stream, observations) /\ stream \in Seq(Obs)
                BY DEF IInv, Tables
            <4>2. Len(stream) <= Len(stream)
                BY <4>1
            <4>. QED BY <4>1, <4>2, GoodMonotone
        <3>. QED BY <3>1, <3>2
    <2>. QED BY <2>1, <2>2
<1>. QED BY <1>1, <1>2

\* A step that leaves the collectors alone keeps them good.
LEMMA NoneSteps ==
    ASSUME IInv, UNCHANGED <<stream, observations, col>>
    PROVE  /\ col' \in [Collector -> CollectorState]
           /\ \A d \in Collector : Good(col'[d], stream', observations')
BY DEF IInv

\* The buffer a collector may organize cites stored observations only.
LEMMA OrganizeBacked ==
    ASSUME IInv, NEW S \in SUBSET (1..MaxEntries),
           \A i \in S : i <= Len(stream) /\ stream[i] \in observations
    PROVE  /\ Organize([i \in S |-> stream[i]]) \subseteq Evidence
           /\ \A e \in Organize([i \in S |-> stream[i]]) : Cites[e] \subseteq observations
<1>. DEFINE b == [i \in S |-> stream[i]]
<1>1. b \in [S -> Obs]
    BY DEF IInv, Tables
<1>2. Organize(b) \subseteq {e \in Evidence : Cites[e] \subseteq {b[i] : i \in S}}
    BY <1>1, OrganizeCitesItsInput
<1>3. {b[i] : i \in S} \subseteq observations
    OBVIOUS
<1>. QED BY <1>2, <1>3

-----------------------------------------------------------------------------
(* The invariant                                                           *)

LEMMA InitIInv == Init => IInv
<1>. SUFFICES ASSUME Init PROVE IInv
    OBVIOUS
<1>1. Tables
    BY CollectorConstants DEF Init, Tables
<1>2. Idle \in CollectorState
    BY CollectorConstants DEF Idle, CollectorState
<1>3. Good(Idle, stream, observations)
    BY <1>2 DEF Good, Idle, Init
<1>. QED BY <1>1, <1>2, <1>3 DEF Init, IInv, AckedIsPersisted, EvidenceIsBacked

\* What a step does to the tables, and why the two invariants survive it.
LEMMA DeliverKeeps ==
    ASSUME IInv, Deliver, UNCHANGED <<stream, observations, evidence>>, faults' \in Nat
    PROVE  /\ Tables' /\ AckedIsPersisted' /\ EvidenceIsBacked'
           /\ Upto \in lastDelivered..Len(stream)
<1>1. Len(stream) \in Nat /\ lastDelivered \in 0..Len(stream)
    BY DEF IInv, Tables
<1>2. Upto \in lastDelivered..Len(stream)
    BY <1>1, CollectorConstants DEF Upto
<1>3. Tables'
    BY <1>1, <1>2 DEF IInv, Tables, Deliver
<1>4. AckedIsPersisted'
    BY <1>1, <1>2 DEF IInv, AckedIsPersisted, Deliver
<1>. QED BY <1>2, <1>3, <1>4 DEF IInv, EvidenceIsBacked

LEMMA TablesKept ==
    ASSUME IInv, UNCHANGED <<stream, lastDelivered>>,
           unacked' \subseteq unacked,
           \A i \in unacked \ unacked' : stream[i] \in observations',
           observations \subseteq observations', observations' \subseteq Obs,
           evidence' \subseteq Evidence,
           \A e \in evidence' : e \in evidence \/ Cites[e] \subseteq observations',
           faults' \in Nat
    PROVE  Tables' /\ AckedIsPersisted' /\ EvidenceIsBacked'
BY DEF IInv, Tables, AckedIsPersisted, EvidenceIsBacked

LEMMA NextIInv == IInv /\ [Next]_vars => IInv'
<1>. SUFFICES ASSUME IInv, [Next]_vars PROVE IInv'
    OBVIOUS
<1>. USE CollectorConstants
<1>0. ASSUME NEW c \in Collector
      PROVE  /\ Good(col[c], stream, observations)
             /\ stream \in Seq(Obs) /\ Len(stream) \in Nat /\ Len(stream) <= MaxEntries
             /\ observations \subseteq Obs /\ faults \in Nat /\ faults + 1 \in Nat
             /\ evidence \subseteq Evidence
    BY DEF IInv, Tables
<1>1. ASSUME NEW o \in Obs, Add(o) PROVE IInv'
    <2>1. stream \in Seq(Obs) /\ Len(stream) \in Nat /\ stream' = Append(stream, o)
        BY <1>1 DEF IInv, Tables, Add
    <2>2. /\ stream' \in Seq(Obs) /\ Len(stream') = Len(stream) + 1
          /\ \A i \in 1..Len(stream) : stream'[i] = stream[i]
        BY <2>1
    <2>3. Tables'
        BY <1>1, <2>1, <2>2 DEF IInv, Tables, Add
    <2>4. \A c \in Collector : Good(col[c], stream', observations)
        <3>1. observations \subseteq observations /\ Len(stream) <= Len(stream')
            BY <2>1, <2>2
        <3>. SUFFICES ASSUME NEW c \in Collector PROVE Good(col[c], stream', observations)
            OBVIOUS
        <3>2. Good(col[c], stream, observations)
            BY <1>0
        <3>. QED BY <2>1, <2>2, <3>1, <3>2, GoodMonotone
    <2>5. AckedIsPersisted' /\ EvidenceIsBacked'
        <3>1. lastDelivered' = lastDelivered /\ unacked' = unacked
              /\ observations' = observations /\ evidence' = evidence
            BY <1>1 DEF Add
        <3>2. lastDelivered \in 0..Len(stream)
            BY DEF IInv, Tables
        <3>. QED BY <3>1, <3>2, <2>1, <2>2 DEF IInv, AckedIsPersisted, EvidenceIsBacked
    <2>. QED BY <1>1, <2>3, <2>4, <2>5 DEF IInv, Add
<1>2. ASSUME NEW c \in Collector, Read(c) PROVE IInv'
    <2>. DEFINE x == col[c]
                y == [x EXCEPT !.pc = "next", !.at = lastDelivered + 1, !.upto = Upto]
    <2>1. Tables' /\ AckedIsPersisted' /\ EvidenceIsBacked' /\ Upto \in lastDelivered..Len(stream)
        BY <1>0, <1>2, DeliverKeeps DEF Read
    <2>2. lastDelivered \in 0..Len(stream) /\ Len(stream) <= MaxEntries /\ Len(stream) \in Nat
        BY DEF IInv, Tables
    <2>3. Good(x, stream, observations)
        BY <1>0
    <2>4. col' = [col EXCEPT ![c] = y] /\ UNCHANGED <<stream, observations>>
        BY <1>2 DEF Read
    <2>5. Good(y, stream, observations)
        <3>. HIDE DEF x
        <3>0. /\ lastDelivered + 1 \in 0..MaxEntries + 1 /\ Upto \in 0..MaxEntries
              /\ x \in CollectorState
            BY <2>1, <2>2, <2>3 DEF Good
        <3>1. y \in CollectorState
            BY <3>0 DEF CollectorState
        <3>. QED BY <3>1, <2>1, <2>2, <2>3 DEF Good, CollectorState
    <2>6. Good(y, stream, observations')
        BY <2>4, <2>5
    <2>. HIDE DEF y
    <2>. QED BY <2>1, <2>4, <2>6, OneSteps DEF IInv
<1>3. ASSUME NEW c \in Collector, ReadError(c) PROVE IInv'
    BY <1>0, <1>3, DeliverKeeps, NoneSteps DEF ReadError, IInv
<1>4. ASSUME NEW c \in Collector, ObservationExists(c) PROVE IInv'
    <2>. DEFINE x == col[c]
                y == [x EXCEPT !.pc = IF stream[x.at] \in observations THEN "ack" ELSE "insert"]
    <2>1. /\ col' = [col EXCEPT ![c] = y] /\ x.at <= x.upto
          /\ UNCHANGED <<stream, lastDelivered, unacked, observations, evidence, faults>>
        BY <1>4 DEF ObservationExists, Left
    <2>2. Good(x, stream, observations)
        BY <1>0
    <2>3. Good(y, stream, observations')
        <3>. HIDE DEF x
        <3>1. y \in CollectorState
            BY <2>2 DEF Good, CollectorState
        <3>2. observations' = observations
            BY <2>1
        <3>. QED BY <2>1, <2>2, <3>1, <3>2 DEF Good, CollectorState
    <2>4. Tables' /\ AckedIsPersisted' /\ EvidenceIsBacked'
        BY <2>1, <1>0, TablesKept
    <2>. HIDE DEF y
    <2>. QED BY <2>1, <2>3, <2>4, OneSteps DEF IInv
<1>5. ASSUME NEW c \in Collector, NEW t, Good(col[c], stream, t),
             col[c].at <= col[c].upto, Advance(c)
      PROVE  \E y : col' = [col EXCEPT ![c] = y] /\ Good(y, stream, t)
    <2>. DEFINE x == col[c]
                y == [x EXCEPT !.pc = "next", !.at = x.at + 1]
    <2>1. col' = [col EXCEPT ![c] = y]
        BY <1>5 DEF Advance
    <2>2. Good(y, stream, t)
        <3>1. Good(x, stream, t) /\ x.at <= x.upto
            BY <1>5
        <3>. HIDE DEF x
        <3>2. x \in CollectorState /\ x.at \in Int /\ x.upto \in 0..MaxEntries
            BY <3>1 DEF Good, CollectorState
        <3>3. x.at + 1 \in 0..MaxEntries + 1
            BY <3>1, <3>2 DEF Good
        <3>4. y \in CollectorState
            BY <3>2, <3>3 DEF CollectorState
        <3>. QED BY <3>1, <3>2, <3>4 DEF Good, CollectorState
    <2>. QED BY <2>1, <2>2
<1>6. ASSUME NEW c \in Collector, SaveObservation(c) PROVE IInv'
    <2>0. /\ Good(col[c], stream, observations) /\ col[c].at <= col[c].upto
          /\ stream[col[c].at] \in Obs
        <3>1. Good(col[c], stream, observations) /\ col[c].pc = "insert"
            BY <1>0, <1>6 DEF SaveObservation
        <3>2. col[c].at \in 1..Len(stream) /\ col[c].at <= col[c].upto
            BY <3>1, <1>0 DEF Good, CollectorState
        <3>. QED BY <3>1, <3>2, <1>0
    <2>1. UNCHANGED <<stream, lastDelivered, unacked, evidence, faults>>
        BY <1>6 DEF SaveObservation
    <2>2. CASE stream[col[c].at] \in observations
        <3>1. Advance(c) /\ observations' = observations
            BY <1>6, <2>2 DEF SaveObservation
        <3>2. PICK y : col' = [col EXCEPT ![c] = y] /\ Good(y, stream, observations)
            BY <2>0, <3>1, <1>5
        <3>3. Tables' /\ AckedIsPersisted' /\ EvidenceIsBacked'
            BY <2>1, <3>1, <1>0, TablesKept
        <3>. QED BY <2>1, <3>1, <3>2, <3>3, OneSteps DEF IInv
    <2>3. CASE stream[col[c].at] \notin observations
        <3>. DEFINE x == col[c]
                    y == [x EXCEPT !.pc = "ack"]
        <3>1. /\ observations' = observations \cup {stream[x.at]}
              /\ col' = [col EXCEPT ![c] = y]
            BY <1>6, <2>3 DEF SaveObservation
        <3>2. Tables' /\ AckedIsPersisted' /\ EvidenceIsBacked'
            BY <2>0, <2>1, <3>1, <1>0, TablesKept
        <3>3. Good(y, stream, observations')
            <4>1. Good(x, stream, observations) /\ x.at <= x.upto
                BY <2>0
            <4>. HIDE DEF x
            <4>2. y \in CollectorState
                BY <4>1 DEF Good, CollectorState
            <4>. QED BY <3>1, <4>1, <4>2 DEF Good, CollectorState
        <3>. HIDE DEF y
        <3>. QED BY <2>1, <3>1, <3>2, <3>3, OneSteps DEF IInv
    <2>. QED BY <2>2, <2>3
<1>7. ASSUME NEW c \in Collector, Ack(c) PROVE IInv'
    <2>. DEFINE x == col[c]
                y == [x EXCEPT !.pc = "next", !.at = x.at + 1, !.pending = x.pending \cup {x.at}]
    <2>1. /\ unacked' = unacked \ {x.at} /\ x.pc = "ack"
          /\ col' = [col EXCEPT ![c] = y]
          /\ UNCHANGED <<stream, lastDelivered, observations, evidence, faults>>
        BY <1>7 DEF Ack, AdvanceBuffered
    <2>2. Good(x, stream, observations)
        BY <1>0
    <2>3. Good(y, stream, observations')
        <3>. HIDE DEF x
        <3>1. x.at \in 1..MaxEntries /\ x.at <= Len(stream) /\ stream[x.at] \in observations
            BY <2>1, <2>2, <1>0 DEF Good, CollectorState
        <3>0. x \in CollectorState /\ x.at + 1 \in 0..MaxEntries + 1
              /\ x.pending \cup {x.at} \in SUBSET (1..MaxEntries)
            BY <2>2, <3>1 DEF Good, CollectorState
        <3>2. y \in CollectorState
            BY <3>0 DEF CollectorState
        <3>3. observations' = observations
            BY <2>1
        <3>. QED BY <2>2, <3>1, <3>2, <3>3 DEF Good, CollectorState
    <2>4. Tables' /\ AckedIsPersisted' /\ EvidenceIsBacked'
        <3>1. stream[x.at] \in observations
            BY <2>1, <2>2 DEF Good
        <3>. QED BY <2>1, <3>1, <1>0, TablesKept
    <2>. HIDE DEF y
    <2>. QED BY <2>1, <2>3, <2>4, OneSteps DEF IInv
<1>8. ASSUME NEW c \in Collector, EntryError(c) PROVE IInv'
    <2>0. /\ Good(col[c], stream, observations) /\ col[c].at <= col[c].upto
          /\ stream[col[c].at] \in Obs /\ Advance(c)
          /\ UNCHANGED <<stream, lastDelivered, evidence>> /\ faults' = faults + 1
        <3>1. Good(col[c], stream, observations) /\ col[c].at <= col[c].upto
            BY <1>0, <1>8 DEF EntryError, Left
        <3>2. col[c].at \in 1..Len(stream)
            BY <3>1, <1>0 DEF Good, CollectorState
        <3>. QED BY <3>1, <3>2, <1>0, <1>8 DEF EntryError
    <2>1. /\ observations \subseteq observations' /\ observations' \subseteq Obs
          /\ unacked' \subseteq unacked
          /\ \A i \in unacked \ unacked' : stream[i] \in observations
        <3>1. col[c].pc = "ack" => stream[col[c].at] \in observations
            BY <2>0 DEF Good
        <3>. QED BY <1>8, <1>0, <2>0, <3>1 DEF EntryError
    <2>2. Tables' /\ AckedIsPersisted' /\ EvidenceIsBacked'
        BY <2>0, <2>1, <1>0, TablesKept
    <2>3. Good(col[c], stream, observations')
        <3>1. Len(stream) <= Len(stream) /\ stream \in Seq(Obs)
            BY <1>0
        <3>. QED BY <2>0, <2>1, <3>1, GoodMonotone
    <2>4. PICK y : col' = [col EXCEPT ![c] = y] /\ Good(y, stream, observations')
        BY <2>0, <2>3, <1>5
    <2>. QED BY <2>0, <2>1, <2>2, <2>4, OneSteps DEF IInv
<1>9. ASSUME NEW c \in Collector, NEW P, NEW E, P \subseteq col[c].pending, E \subseteq Evidence,
             \A e \in E : Cites[e] \subseteq observations
      PROVE  Good(Saving(P, E), stream, observations)
    <2>1. Good(col[c], stream, observations) /\ Len(stream) \in Nat
        BY <1>0
    <2>2. col[c].pending \subseteq 1..MaxEntries
        BY <2>1 DEF Good, CollectorState
    <2>3. Saving(P, E) \in CollectorState
        BY <1>9, <2>2 DEF Saving, CollectorState
    <2>4. \A i \in P : i <= Len(stream) /\ stream[i] \in observations
        BY <1>9, <2>1 DEF Good
    <2>. QED BY <1>9, <2>1, <2>3, <2>4 DEF Good, Saving
<1>10. ASSUME NEW c \in Collector, StartOrganize(c) PROVE IInv'
    <2>. DEFINE kept == Prune(col[c].pending)
                todo == Organize([i \in kept |-> stream[i]])
    <2>1. /\ col' = [col EXCEPT ![c] = Saving(kept, todo)]
          /\ UNCHANGED <<stream, lastDelivered, unacked, observations, evidence, faults>>
        BY <1>10 DEF StartOrganize, Organized
    <2>2. kept \subseteq col[c].pending
        BY DEF Prune
    <2>3. todo \subseteq Evidence /\ \A e \in todo : Cites[e] \subseteq observations
        <3>1. Good(col[c], stream, observations)
            BY <1>0
        <3>2. kept \in SUBSET (1..MaxEntries)
            BY <2>2, <3>1 DEF Good, CollectorState
        <3>3. \A i \in kept : i <= Len(stream) /\ stream[i] \in observations
            BY <2>2, <3>1 DEF Good
        <3>. HIDE DEF kept
        <3>. QED BY <3>2, <3>3, OrganizeBacked
    <2>. HIDE DEF kept, todo
    <2>4. Good(Saving(kept, todo), stream, observations')
        BY <2>1, <2>2, <2>3, <1>9
    <2>5. Tables' /\ AckedIsPersisted' /\ EvidenceIsBacked'
        BY <2>1, <1>0, TablesKept
    <2>. QED BY <2>1, <2>4, <2>5, OneSteps DEF IInv
<1>11. ASSUME NEW c \in Collector, SaveEvidence(c) PROVE IInv'
    <2>1. PICK e \in col[c].todo :
            /\ evidence' = evidence \cup {e}
            /\ col' = [col EXCEPT ![c] = Saving(col[c].pending, col[c].todo \ {e})]
        BY <1>11 DEF SaveEvidence
    <2>2. UNCHANGED <<stream, lastDelivered, unacked, observations, faults>>
        BY <1>11 DEF SaveEvidence
    <2>3. col[c].todo \subseteq Evidence /\ \A f \in col[c].todo : Cites[f] \subseteq observations
        BY <1>0 DEF Good, CollectorState
    <2>4. Good(Saving(col[c].pending, col[c].todo \ {e}), stream, observations')
        BY <2>2, <2>3, <1>9
    <2>5. Tables' /\ AckedIsPersisted' /\ EvidenceIsBacked'
        BY <2>1, <2>2, <2>3, <1>0, TablesKept
    <2>. QED BY <2>1, <2>2, <2>4, <2>5, OneSteps DEF IInv
<1>12. ASSUME NEW c \in Collector, EvidenceError(c) PROVE IInv'
    <2>1. /\ col' = [col EXCEPT ![c] = Saving(col[c].pending, {})]
          /\ UNCHANGED <<stream, lastDelivered, unacked, observations>> /\ faults' = faults + 1
        BY <1>12 DEF EvidenceError
    <2>2. Good(Saving(col[c].pending, {}), stream, observations')
        BY <2>1, <1>9
    <2>3. col[c].todo \subseteq Evidence /\ \A e \in col[c].todo : Cites[e] \subseteq observations
        BY <1>0 DEF Good, CollectorState
    <2>4. Tables' /\ AckedIsPersisted' /\ EvidenceIsBacked'
        BY <1>12, <2>1, <2>3, <1>0, TablesKept DEF EvidenceError
    <2>. QED BY <2>1, <2>2, <2>4, OneSteps DEF IInv
<1>13. ASSUME NEW c \in Collector, NEW x, x \in {Idle, Down}
       PROVE  Good(x, stream, observations)
    <2>1. Len(stream) \in Nat
        BY <1>0
    <2>2. x \in CollectorState
        BY <1>13 DEF Idle, Down, CollectorState
    <2>. QED BY <1>13, <2>1, <2>2 DEF Good, Idle, Down
<1>14. ASSUME NEW c \in Collector, Crash(c) PROVE IInv'
    <2>1. /\ col' = [col EXCEPT ![c] = Down] /\ faults' = faults + 1
          /\ UNCHANGED <<stream, lastDelivered, unacked, observations, evidence>>
        BY <1>14 DEF Crash
    <2>2. Tables' /\ AckedIsPersisted' /\ EvidenceIsBacked'
        BY <2>1, <1>0, TablesKept
    <2>3. Good(Down, stream, observations')
        BY <2>1, <1>13
    <2>. QED BY <2>1, <2>2, <2>3, OneSteps DEF IInv
<1>15. ASSUME NEW c \in Collector, Restart(c) PROVE IInv'
    <2>1. /\ col' = [col EXCEPT ![c] = Idle]
          /\ UNCHANGED <<stream, lastDelivered, unacked, observations, evidence, faults>>
        BY <1>15 DEF Restart
    <2>2. Tables' /\ AckedIsPersisted' /\ EvidenceIsBacked'
        BY <2>1, <1>0, TablesKept
    <2>3. Good(Idle, stream, observations')
        BY <2>1, <1>13
    <2>. QED BY <2>1, <2>2, <2>3, OneSteps DEF IInv
<1>16. CASE UNCHANGED vars
    BY <1>16 DEF vars, IInv, Tables, AckedIsPersisted, EvidenceIsBacked
<1>. QED
    BY <1>1, <1>2, <1>3, <1>4, <1>6, <1>7, <1>8, <1>10, <1>11, <1>12, <1>14, <1>15, <1>16
    DEF Next, ProcessBatch

-----------------------------------------------------------------------------
(* Theorems                                                                *)

\* The inductive invariant holds of the collectors of consumer.py.
THEOREM CollectorInvariance == Spec => []IInv
BY InitIInv, NextIInv, PTL DEF Spec

\* The tables, the group's position and the collectors stay well formed.
THEOREM CollectorTypes == Spec => []TypeOK
<1>1. IInv => TypeOK
    BY DEF IInv, Tables, TypeOK
<1>. QED BY <1>1, CollectorInvariance, PTL

\* process_batch acknowledges what is persisted and nothing else.
THEOREM AckAfterInsert == Spec => []AckedIsPersisted
<1>1. IInv => AckedIsPersisted
    BY DEF IInv
<1>. QED BY <1>1, CollectorInvariance, PTL

\* Every row of the evidence table cites rows of the observations table.
THEOREM EvidenceBacked == Spec => []EvidenceIsBacked
<1>1. IInv => EvidenceIsBacked
    BY DEF IInv
<1>. QED BY <1>1, CollectorInvariance, PTL
============================================================================
