------------------------ MODULE ActionPipelineProofs ------------------------
(***************************************************************************)
(* Theorems about the action services: the type invariant, that a score    *)
(* rests on exactly the evidence of its hypothesis, and that a decision    *)
(* rests on a sufficient score of its own hypothesis.                      *)
(***************************************************************************)
EXTENDS ActionPipeline, NaturalsInduction, WellFoundedInduction, TLAPS

ConfOK(c) ==
    /\ confs[c].target \in 1..Len(hypotheses)
    /\ confs[c].used = Scope(confs[c].target)

RecOK(r) ==
    /\ recs[r].conf \in 1..Len(confs)
    /\ confs[recs[r].conf].target = recs[r].hypothesis

Covers(r, l) ==
    /\ Score(recs[r].conf) >= MinCommit
    /\ l = "high" => Score(recs[r].conf) >= MinIrreversible
    /\ l \in AllowedRisk

DecOK(d) == decs[d].rec \in 1..Len(recs) /\ Covers(decs[d].rec, decs[d].risk)

\* Every row rests on rows that exist.
Rows ==
    /\ \A k \in 1..Len(contexts) : contexts[k] \in 1..evidence
    /\ \A h \in 1..Len(hypotheses) : hypotheses[h] \in 1..Len(contexts)
    /\ \A c \in 1..Len(confs) : ConfOK(c)
    /\ \A r \in 1..Len(recs) : RecOK(r)
    /\ \A d \in 1..Len(decs) : DecOK(d)

\* The evidence was read after the hypotheses of the batch: it includes their
\* scopes.
Calibrating ==
    /\ cal.pc \in {"evidence", "each"} => cal.next \in 1..cal.last /\ cal.last <= Len(hypotheses)
    /\ cal.pc = "each" => \A h \in 1..cal.last : Scope(h) <= cal.evidence

Formulating ==
    /\ rcm.pc \in {"contexts", "each", "save"} => rcm.last <= Len(hypotheses)
    /\ rcm.pc \in {"each", "save"} => rcm.next \in 1..rcm.last
    /\ rcm.pc = "save" => rcm.conf \in Calibrations(rcm.next)

Committing == \A r \in dec : r \in 1..Len(recs) /\ Committable(r)

IInv == TypeOK /\ Rows /\ Calibrating /\ Formulating /\ Committing

CalState == [pc : {"idle", "page", "evidence", "each"}, factor : 0..One,
             offset : Nat, last : Nat, next : Nat, evidence : Nat]

RcmState == [pc : {"idle", "contexts", "each", "save"}, last : Nat, active : Nat, next : Nat, conf : Nat]

Kept(s, t) == Len(s) <= Len(t) /\ \A i \in 1..Len(s) : t[i] = s[i]

-----------------------------------------------------------------------------

\* A nonempty set of numbers up to n has a largest element.
LEMMA LargestExists ==
    ASSUME NEW n \in Nat, NEW S \in SUBSET (1..n), S # {}
    PROVE  \E c \in S : \A d \in S : d <= c
<1> DEFINE T == {k \in Nat : n - k \in S}
           R == OpToRel(<, Nat)
<1>1. IsWellFoundedOn(R, Nat)
  BY NatLessThanWellFounded
<1>2. T # {} /\ T \subseteq Nat
  <2>1. PICK c \in S : TRUE
    OBVIOUS
  <2>2. n - c \in Nat /\ n - (n - c) = c
    OBVIOUS
  <2> QED  BY <2>1, <2>2
<1>3. PICK x \in T : \A y \in T : ~(<<y, x>> \in R)
  <2> HIDE DEF T, R
  <2> QED  BY <1>1, <1>2, WFMin
<1>4. \A y \in T : ~(y < x)
  BY <1>2, <1>3 DEF OpToRel
<1>5. \A d \in S : d <= n - x
  <2> TAKE d \in S
  <2>1. n - d \in Nat /\ n - (n - d) = d
    OBVIOUS
  <2>2. n - d \in T
    BY <2>1
  <2> QED  BY <2>2, <1>4
<1> QED  BY <1>5

LEMMA LatestIn ==
    ASSUME Len(confs) \in Nat, NEW h, Calibrations(h) # {}
    PROVE  LatestConfidence(h) \in Calibrations(h)
<1>1. Calibrations(h) \in SUBSET (1..Len(confs))
  BY DEF Calibrations
<1> QED  BY <1>1, LargestExists DEF LatestConfidence

\* Appending keeps the rows there are.
LEMMA Appended ==
    ASSUME NEW S, NEW s \in Seq(S), NEW x \in S
    PROVE  /\ Append(s, x) \in Seq(S) /\ Kept(s, Append(s, x))
           /\ Len(Append(s, x)) = Len(s) + 1 /\ Len(s) \in Nat
           /\ Append(s, x)[Len(s) + 1] = x
BY DEF Kept

LEMMA KeptSame == \A s : Len(s) \in Nat => Kept(s, s)
BY DEF Kept

LEMMA Lengths ==
    ASSUME TypeOK
    PROVE  /\ Len(contexts) \in Nat /\ Len(hypotheses) \in Nat /\ Len(confs) \in Nat
           /\ Len(recs) \in Nat /\ Len(decs) \in Nat
BY DEF TypeOK

LEMMA HistoryType == HistoricalCalibration \in 0..One
BY DEF HistoricalCalibration, Clamp, One

LEMMA Counters == ASSUME IInv PROVE reports \in Nat /\ faults \in Nat
BY DEF IInv, TypeOK

\* The score of a row is a number.
LEMMA ScoreType ==
    ASSUME IInv, NEW c \in 1..Len(confs)
    PROVE  Score(c) \in Int
<1>1. confs[c] \in ConfRow
  <2>1. confs \in Seq(ConfRow)
    BY DEF IInv, TypeOK
  <2> HIDE DEF ConfRow
  <2> QED  BY <2>1
<1>2. confs[c].factor \in 0..One
  BY <1>1 DEF ConfRow
<1>3. Scope(confs[c].target) \in 1..MaxEvidence
  <2>1. confs[c].target \in 1..Len(hypotheses)
    BY DEF IInv, Rows, ConfOK
  <2>2. hypotheses[confs[c].target] \in 1..Len(contexts)
    BY <2>1 DEF IInv, Rows
  <2>3. \A S : contexts \in Seq(S) => \A k \in 1..Len(contexts) : contexts[k] \in S
    OBVIOUS
  <2>4. contexts \in Seq(1..MaxEvidence)
    BY DEF IInv, TypeOK
  <2>5. contexts[hypotheses[confs[c].target]] \in 1..MaxEvidence
    BY <2>2, <2>3, <2>4
  <2> QED  BY <2>5 DEF Scope
<1>4. Support[Scope(confs[c].target)] \in 0..One
  BY <1>3, ActionConstants
<1>5. 0..One \subseteq Int
  BY DEF One
<1>6. PICK a \in Int : a = Support[Scope(confs[c].target)]
  BY <1>4, <1>5
<1>7. PICK b \in Int : b = confs[c].factor
  BY <1>2, <1>5
<1>8. PICK p \in Int : p = a * b
  OBVIOUS
<1>9. (p + One \div 2) \div One \in Int
  BY DEF One
<1> QED  BY <1>6, <1>7, <1>8, <1>9 DEF Score

\* Rows keep what they rest on when tables only grow.
LEMMA Grown ==
    ASSUME IInv, Kept(contexts, contexts'), Kept(hypotheses, hypotheses'),
           Kept(confs, confs'), Kept(recs, recs'),
           Len(contexts') \in Nat, Len(hypotheses') \in Nat, Len(confs') \in Nat, Len(recs') \in Nat
    PROVE  /\ \A h \in 1..Len(hypotheses) : Scope(h)' = Scope(h)
           /\ \A c \in 1..Len(confs) : Score(c)' = Score(c) /\ ConfOK(c)'
           /\ \A r \in 1..Len(recs) : /\ RecOK(r)'
                                      /\ Committable(r) => Committable(r)'
                                      /\ \A l : Covers(r, l) => Covers(r, l)'
<1> USE Lengths DEF IInv
<1>1. \A h \in 1..Len(hypotheses) : Scope(h)' = Scope(h)
  BY DEF Scope, Kept, Rows
<1>2. \A c \in 1..Len(confs) : confs'[c] = confs[c]
  BY DEF Kept
<1>3. ASSUME NEW c \in 1..Len(confs) PROVE Score(c)' = Score(c) /\ ConfOK(c)'
  <2>1. confs[c].target \in 1..Len(hypotheses) /\ confs[c].used = Scope(confs[c].target)
    BY DEF Rows, ConfOK
  <2>2. contexts'[hypotheses'[confs'[c].target]] = contexts[hypotheses[confs[c].target]]
    BY <1>1, <1>2, <2>1 DEF Scope
  <2>3. Score(c)' = Score(c)
    BY <1>2, <2>2 DEF Score, Scope
  <2>4. ConfOK(c)'
    BY <1>2, <2>1, <2>2 DEF ConfOK, Scope, Kept
  <2> QED  BY <2>3, <2>4
<1>4. ASSUME NEW r \in 1..Len(recs)
      PROVE  /\ RecOK(r)'
             /\ Committable(r) => Committable(r)'
             /\ \A l : Covers(r, l) => Covers(r, l)'
  <2>1. recs'[r] = recs[r]
    BY DEF Kept
  <2>2. recs[r].conf \in 1..Len(confs) /\ confs[recs[r].conf].target = recs[r].hypothesis
    BY DEF Rows, RecOK
  <2>3. PICK c \in 1..Len(confs) : c = recs[r].conf
    BY <2>2
  <2>4. recs'[r].conf = c /\ Score(c)' = Score(c)
    BY <1>3, <2>1, <2>3
  <2>5. RecOK(r)'
    BY <1>2, <2>1, <2>2 DEF RecOK, Kept
  <2>6. Committable(r) => Committable(r)'
    BY <2>1, <2>3, <2>4 DEF Committable, Tolerances
  <2>7. \A l : Covers(r, l) => Covers(r, l)'
    BY <2>1, <2>3, <2>4 DEF Covers
  <2> QED  BY <2>5, <2>6, <2>7
<1> QED  BY <1>1, <1>3, <1>4

\* What is remembered of the tables stays true when they only grow.
LEMMA Growth ==
    ASSUME IInv, Kept(contexts, contexts'), Kept(hypotheses, hypotheses'),
           Kept(confs, confs'), Kept(recs, recs'),
           Len(contexts') \in Nat, Len(hypotheses') \in Nat, Len(confs') \in Nat, Len(recs') \in Nat,
           evidence' \in Nat, evidence <= evidence'
    PROVE  /\ \A k \in 1..Len(contexts) : contexts'[k] \in 1..evidence'
           /\ \A h \in 1..Len(hypotheses) : hypotheses'[h] \in 1..Len(contexts')
           /\ \A d \in 1..Len(decs) :
                decs'[d].rec = decs[d].rec /\ decs'[d].risk = decs[d].risk => DecOK(d)'
           /\ cal' = cal => Calibrating'
           /\ rcm' = rcm => Formulating'
           /\ dec' \subseteq dec => Committing'
<1>1. evidence \in Nat
  BY ActionConstants DEF IInv, TypeOK
<1>2. \A k \in 1..Len(contexts) : contexts'[k] \in 1..evidence'
  BY <1>1 DEF IInv, Rows, Kept
<1>3. \A h \in 1..Len(hypotheses) : hypotheses'[h] \in 1..Len(contexts')
  BY Lengths DEF IInv, Rows, Kept
<1>4. ASSUME NEW d \in 1..Len(decs), decs'[d].rec = decs[d].rec, decs'[d].risk = decs[d].risk
      PROVE  DecOK(d)'
  <2>1. decs[d].rec \in 1..Len(recs) /\ Covers(decs[d].rec, decs[d].risk)
    BY DEF IInv, Rows, DecOK
  <2>2. PICK r \in 1..Len(recs) : r = decs[d].rec
    BY <2>1
  <2>3. PICK l : l = decs[d].risk
    OBVIOUS
  <2>4. Covers(r, l)'
    BY <2>1, <2>2, <2>3, Grown
  <2>5. r \in 1..Len(recs')
    BY Lengths DEF IInv, Kept
  <2> QED  BY <1>4, <2>2, <2>3, <2>4, <2>5 DEF DecOK, Covers
<1>5. ASSUME cal' = cal PROVE Calibrating'
  <2>1. cal.last \in Nat
    BY DEF IInv, TypeOK
  <2>2. cal.pc \in {"evidence", "each"} => cal.next \in 1..cal.last /\ cal.last <= Len(hypotheses')
    BY <2>1, Lengths DEF IInv, Calibrating, Kept
  <2>3. ASSUME cal.pc = "each", NEW h \in 1..cal.last PROVE Scope(h)' <= cal.evidence
    <3>1. h \in 1..Len(hypotheses)
      BY <2>1, <2>3, Lengths DEF IInv, Calibrating
    <3>2. Scope(h)' = Scope(h)
      BY <3>1, Grown
    <3> QED  BY <2>3, <3>2 DEF IInv, Calibrating
  <2> QED  BY <1>5, <2>2, <2>3 DEF Calibrating
<1>6. ASSUME rcm' = rcm PROVE Formulating'
  <2>1. rcm.last \in Nat
    BY DEF IInv, TypeOK
  <2>2. rcm.pc \in {"contexts", "each", "save"} => rcm.last <= Len(hypotheses')
    BY <2>1, Lengths DEF IInv, Formulating, Kept
  <2>3. rcm.pc = "save" => rcm.conf \in Calibrations(rcm.next)'
    BY <1>6, Lengths DEF IInv, Formulating, Kept, Calibrations
  <2> QED  BY <1>6, <2>2, <2>3 DEF IInv, Formulating
<1>7. ASSUME dec' \subseteq dec PROVE Committing'
  <2>1. \A r \in dec : r \in 1..Len(recs) /\ Committable(r)
    BY DEF IInv, Committing
  <2>2. \A r \in 1..Len(recs) : Committable(r) => Committable(r)'
    BY Grown
  <2>3. 1..Len(recs) \subseteq 1..Len(recs')
    BY Lengths DEF IInv, Kept
  <2> QED  BY <1>7, <2>1, <2>2, <2>3 DEF Committing
<1> QED  BY <1>2, <1>3, <1>4, <1>5, <1>6, <1>7

\* A step that leaves the tables alone keeps what every row rests on.
LEMMA SameTables ==
    ASSUME IInv, UNCHANGED <<evidence, contexts, hypotheses, confs, recs, decs>>
    PROVE  /\ Rows'
           /\ cal' = cal => Calibrating'
           /\ rcm' = rcm => Formulating'
           /\ dec' \subseteq dec => Committing'
<1>1. Rows'
  BY DEF IInv, Rows, ConfOK, RecOK, DecOK, Covers, Score, Scope
<1>2. evidence \in Nat
  BY ActionConstants DEF IInv, TypeOK
<1>3. /\ Kept(contexts, contexts') /\ Kept(hypotheses, hypotheses')
      /\ Kept(confs, confs') /\ Kept(recs, recs')
  BY Lengths, KeptSame DEF IInv
<1> QED  BY <1>1, <1>2, <1>3, Lengths, Growth DEF IInv

-----------------------------------------------------------------------------
(* The environment                                                         *)

LEMMA InitInv == Init => IInv
BY ActionConstants
   DEF Init, IInv, TypeOK, Rows, Calibrating, Formulating, Committing, IdleCalibrator, IdleFormulator, One

LEMMA OrganizeInv == ASSUME IInv, Organize PROVE IInv'
<1>1. evidence \in Nat /\ evidence' = evidence + 1 /\ evidence' \in 0..MaxEvidence
  BY ActionConstants DEF IInv, TypeOK, Organize
<1>2. UNCHANGED <<contexts, hypotheses, confs, recs, decs, cal, rcm, dec, reports, faults>>
  BY DEF Organize
<1>3. /\ Kept(contexts, contexts') /\ Kept(hypotheses, hypotheses')
      /\ Kept(confs, confs') /\ Kept(recs, recs')
  BY <1>2, Lengths, KeptSame DEF IInv
<1>4. evidence' \in Nat /\ evidence <= evidence'
  BY <1>1
<1>5. Calibrating' /\ Formulating' /\ Committing' /\ \A k \in 1..Len(contexts) : contexts'[k] \in 1..evidence'
  BY <1>2, <1>3, <1>4, Lengths, Growth DEF IInv
<1>6. Rows'
  BY <1>2, <1>5 DEF IInv, Rows, ConfOK, RecOK, DecOK, Covers, Score, Scope
<1>7. TypeOK'
  BY <1>1, <1>2 DEF IInv, TypeOK
<1> QED  BY <1>5, <1>6, <1>7 DEF IInv

LEMMA ActivateInv == ASSUME IInv, NEW e \in 1..evidence, Activate(e) PROVE IInv'
<1>1. contexts' = Append(contexts, e)
  BY DEF Activate
<1>2. UNCHANGED <<evidence, hypotheses, confs, recs, decs, cal, rcm, dec, reports, faults>>
  BY DEF Activate
<1>3. e \in 1..MaxEvidence /\ evidence \in Nat /\ contexts \in Seq(1..MaxEvidence)
  BY ActionConstants DEF IInv, TypeOK
<1>4. /\ contexts' \in Seq(1..MaxEvidence) /\ Kept(contexts, contexts')
      /\ Len(contexts') = Len(contexts) + 1 /\ Len(contexts) \in Nat
      /\ contexts'[Len(contexts) + 1] = e
  BY <1>1, <1>3, Appended
<1>5. Kept(hypotheses, hypotheses') /\ Kept(confs, confs') /\ Kept(recs, recs')
  BY <1>2, Lengths, KeptSame DEF IInv
<1>6. Len(contexts') \in Nat /\ evidence <= evidence' /\ evidence' \in Nat
  BY <1>2, <1>3, <1>4
<1>7. /\ Calibrating' /\ Formulating' /\ Committing'
      /\ \A k \in 1..Len(contexts) : contexts'[k] \in 1..evidence
      /\ \A h \in 1..Len(hypotheses) : hypotheses[h] \in 1..Len(contexts')
      /\ \A d \in 1..Len(decs) : DecOK(d)'
  BY <1>2, <1>4, <1>5, <1>6, Lengths, Growth DEF IInv
<1>8. /\ \A c \in 1..Len(confs) : ConfOK(c)'
      /\ \A r \in 1..Len(recs) : RecOK(r)'
  BY <1>2, <1>4, <1>5, <1>6, Lengths, Grown DEF IInv
<1>9. \A k \in 1..Len(contexts') : contexts'[k] \in 1..evidence
  <2> TAKE k \in 1..Len(contexts')
  <2>1. k \in 1..Len(contexts) \/ k = Len(contexts) + 1
    BY <1>4
  <2> QED  BY <1>4, <1>7, <2>1
<1>10. Rows'
  BY <1>2, <1>7, <1>8, <1>9 DEF Rows
<1>11. TypeOK'
  BY <1>2, <1>4 DEF IInv, TypeOK
<1> QED  BY <1>7, <1>10, <1>11 DEF IInv

LEMMA HypothesizeInv == ASSUME IInv, NEW k \in 1..Len(contexts), Hypothesize(k) PROVE IInv'
<1>1. hypotheses' = Append(hypotheses, k)
  BY DEF Hypothesize
<1>2. UNCHANGED <<evidence, contexts, confs, recs, decs, cal, rcm, dec, reports, faults>>
  BY DEF Hypothesize
<1>3. k \in Nat /\ evidence \in Nat /\ hypotheses \in Seq(Nat)
  BY ActionConstants, Lengths DEF IInv, TypeOK
<1>4. /\ hypotheses' \in Seq(Nat) /\ Kept(hypotheses, hypotheses')
      /\ Len(hypotheses') = Len(hypotheses) + 1 /\ Len(hypotheses) \in Nat
      /\ hypotheses'[Len(hypotheses) + 1] = k
  BY <1>1, <1>3, Appended
<1>5. Kept(contexts, contexts') /\ Kept(confs, confs') /\ Kept(recs, recs')
  BY <1>2, Lengths, KeptSame DEF IInv
<1>6. Len(hypotheses') \in Nat /\ evidence <= evidence' /\ evidence' \in Nat
  BY <1>2, <1>3, <1>4
<1>7. /\ Calibrating' /\ Formulating' /\ Committing'
      /\ \A h \in 1..Len(hypotheses) : hypotheses'[h] \in 1..Len(contexts)
      /\ \A d \in 1..Len(decs) : DecOK(d)'
  BY <1>2, <1>4, <1>5, <1>6, Lengths, Growth DEF IInv
<1>8. /\ \A c \in 1..Len(confs) : ConfOK(c)'
      /\ \A r \in 1..Len(recs) : RecOK(r)'
  BY <1>2, <1>4, <1>5, <1>6, Lengths, Grown DEF IInv
<1>9. \A h \in 1..Len(hypotheses') : hypotheses'[h] \in 1..Len(contexts)
  <2> TAKE h \in 1..Len(hypotheses')
  <2>1. h \in 1..Len(hypotheses) \/ h = Len(hypotheses) + 1
    BY <1>4
  <2> QED  BY <1>4, <1>7, <2>1
<1>10. Rows'
  BY <1>2, <1>7, <1>8, <1>9 DEF IInv, Rows
<1>11. TypeOK'
  BY <1>2, <1>4 DEF IInv, TypeOK
<1> QED  BY <1>7, <1>10, <1>11 DEF IInv

LEMMA ReportOutcomeInv ==
    ASSUME IInv, NEW d \in 1..Len(decs), NEW o \in {"success", "failure", "unclear"}, ReportOutcome(d, o)
    PROVE  IInv'
<1>1. decs' = [decs EXCEPT ![d].outcome = o] /\ decs \in Seq(DecRow) /\ reports' = reports + 1
  BY DEF ReportOutcome, IInv, TypeOK
<1>2. UNCHANGED <<evidence, contexts, hypotheses, confs, recs, cal, rcm, dec, faults>>
  BY DEF ReportOutcome
<1>3. \A x \in DecRow : [x EXCEPT !.outcome = o] \in DecRow
  BY DEF DecRow
<1>4. \A i \in 1..Len(decs) : decs[i] \in DecRow
  <2> HIDE DEF DecRow
  <2> QED  BY <1>1
<1>5. decs' \in Seq(DecRow) /\ Len(decs') = Len(decs)
  <2>1. decs' = [decs EXCEPT ![d] = [decs[d] EXCEPT !.outcome = o]]
    BY <1>1
  <2>2. [decs[d] EXCEPT !.outcome = o] \in DecRow
    BY <1>3, <1>4
  <2> HIDE DEF DecRow
  <2> QED  BY <1>1, <2>1, <2>2
<1>6. \A i \in 1..Len(decs) : decs'[i].rec = decs[i].rec /\ decs'[i].risk = decs[i].risk
  <2> TAKE i \in 1..Len(decs)
  <2>1. decs[i] \in DecRow
    BY <1>4
  <2>2. decs'[i] = IF i = d THEN [decs[i] EXCEPT !.outcome = o] ELSE decs[i]
    <3> HIDE DEF DecRow
    <3> QED  BY <1>1
  <2> QED  BY <2>1, <2>2 DEF DecRow
<1>7. evidence \in Nat
  BY ActionConstants DEF IInv, TypeOK
<1>8. /\ Kept(contexts, contexts') /\ Kept(hypotheses, hypotheses')
      /\ Kept(confs, confs') /\ Kept(recs, recs')
  BY <1>2, Lengths, KeptSame DEF IInv
<1>9. Calibrating' /\ Formulating' /\ Committing' /\ \A i \in 1..Len(decs) : DecOK(i)'
  BY <1>2, <1>6, <1>7, <1>8, Lengths, Growth DEF IInv
<1>10. Rows'
  BY <1>2, <1>5, <1>9 DEF IInv, Rows, ConfOK, RecOK, Scope
<1>11. TypeOK'
  <2>1. reports' \in Nat
    <3>1. reports' = reports + 1
      BY <1>1
    <3> QED  BY <3>1, Counters
  <2> HIDE DEF DecRow
  <2> QED  BY <1>2, <1>5, <2>1 DEF IInv, TypeOK
<1> QED  BY <1>9, <1>10, <1>11 DEF IInv

-----------------------------------------------------------------------------
(* The confidence service                                                  *)

\* A step of the confidence service that inserts nothing.
LEMMA CalibratorReads ==
    ASSUME IInv, UNCHANGED <<evidence, contexts, hypotheses, confs, recs, decs, rcm, dec, reports>>,
           faults' \in Nat, cal' \in CalState, Calibrating'
    PROVE  IInv'
<1>1. TypeOK'
  BY DEF IInv, TypeOK, CalState
<1> QED  BY <1>1, SameTables DEF IInv

LEMMA IdleCalibratorOK == IdleCalibrator \in CalState /\ IdleCalibrator.pc = "idle"
BY DEF IdleCalibrator, CalState, One

LEMMA ReadHistoryInv == ASSUME IInv, ReadHistory PROVE IInv'
<1>1. UNCHANGED <<evidence, contexts, hypotheses, confs, recs, decs, rcm, dec, reports>> /\ faults' \in Nat
  BY Counters DEF ReadHistory
<1>2. PICK f \in 0..One : cal' = [cal EXCEPT !.pc = "page", !.factor = f]
  <2>1. One \in 0..One
    BY DEF One
  <2> QED  BY <2>1, HistoryType DEF ReadHistory
<1>3. cal' \in CalState /\ cal'.pc = "page"
  BY <1>2 DEF IInv, TypeOK, CalState
<1>4. Calibrating'
  BY <1>3 DEF Calibrating
<1> QED  BY <1>1, <1>3, <1>4, CalibratorReads

LEMMA ReadBatchInv == ASSUME IInv, ReadBatch PROVE IInv'
<1>1. UNCHANGED <<evidence, contexts, hypotheses, confs, recs, decs, rcm, dec, reports>> /\ faults' \in Nat
  BY Counters DEF ReadBatch
<1>2. CASE cal.offset >= Len(hypotheses)
  <2>1. cal' = IdleCalibrator
    BY <1>2 DEF ReadBatch
  <2>2. Calibrating'
    BY <2>1, IdleCalibratorOK DEF Calibrating
  <2> QED  BY <1>1, <2>1, <2>2, IdleCalibratorOK, CalibratorReads
<1>3. CASE ~(cal.offset >= Len(hypotheses))
  <2>1. cal \in CalState /\ Len(hypotheses) \in Nat /\ BatchSize \in Nat \ {0}
    BY Lengths, ActionConstants DEF IInv, TypeOK, CalState
  <2>2. cal.offset \in Nat
    BY <2>1 DEF CalState
  <2>3. PICK l \in Nat : /\ l = IF Len(hypotheses) < cal.offset + BatchSize
                                THEN Len(hypotheses) ELSE cal.offset + BatchSize
    BY <2>1, <2>2
  <2>4. PICK n \in Nat : n = cal.offset + 1
    BY <2>2
  <2>5. cal' \in CalState /\ cal'.pc = "evidence" /\ cal'.next = n /\ cal'.last = l
    <3>1. cal' = [cal EXCEPT !.pc = "evidence", !.next = n, !.last = l]
      BY <1>3, <2>3, <2>4 DEF ReadBatch
    <3> QED  BY <2>1, <3>1 DEF CalState
  <2>6. n \in 1..l /\ l <= Len(hypotheses)
    BY <1>3, <2>1, <2>2, <2>3, <2>4
  <2>7. Calibrating'
    BY <1>1, <2>5, <2>6 DEF Calibrating
  <2> QED  BY <1>1, <2>5, <2>7, CalibratorReads
<1> QED  BY <1>2, <1>3

\* The scopes of the hypotheses read before are part of the evidence read now.
LEMMA ReadEvidenceInv == ASSUME IInv, ReadEvidence PROVE IInv'
<1>1. UNCHANGED <<evidence, contexts, hypotheses, confs, recs, decs, rcm, dec, reports>> /\ faults' \in Nat
  BY Counters DEF ReadEvidence
<1>2. cal \in CalState /\ evidence \in Nat /\ Len(hypotheses) \in Nat
  BY Lengths, ActionConstants DEF IInv, TypeOK, CalState
<1>3. /\ cal' \in CalState /\ cal'.pc = "each" /\ cal'.evidence = evidence
      /\ cal'.last = cal.last /\ cal'.next = cal.next /\ cal.last \in Nat
  BY <1>2 DEF ReadEvidence, CalState
<1>4. cal.next \in 1..cal.last /\ cal.last <= Len(hypotheses)
  BY DEF ReadEvidence, IInv, Calibrating
<1>5. ASSUME NEW h \in 1..cal.last PROVE Scope(h) <= evidence
  <2>1. h \in 1..Len(hypotheses)
    BY <1>2, <1>3, <1>4
  <2>2. contexts[hypotheses[h]] \in 1..evidence
    BY <2>1 DEF IInv, Rows
  <2> QED  BY <1>2, <2>2 DEF Scope
<1>6. Calibrating'
  BY <1>1, <1>3, <1>4, <1>5 DEF Calibrating, Scope
<1> QED  BY <1>1, <1>3, <1>6, CalibratorReads

LEMMA AdvanceOK ==
    ASSUME IInv, cal.pc = "each"
    PROVE  /\ Advance \in CalState
           /\ Advance.pc \in {"page", "each"}
           /\ Advance.pc = "each" => /\ Advance.next \in 1..Advance.last
                                     /\ Advance.last = cal.last /\ Advance.evidence = cal.evidence
<1>1. cal \in CalState /\ BatchSize \in Nat
  BY ActionConstants DEF IInv, TypeOK, CalState
<1>2. cal.next \in Nat /\ cal.last \in Nat /\ cal.offset \in Nat /\ cal.next \in 1..cal.last
  BY <1>1 DEF CalState, IInv, Calibrating
<1>3. CASE cal.next < cal.last
  <2>1. Advance = [cal EXCEPT !.next = cal.next + 1]
    BY <1>3 DEF Advance
  <2>2. Advance \in CalState /\ Advance.pc = "each" /\ Advance.next = cal.next + 1 /\ Advance.last = cal.last
        /\ Advance.evidence = cal.evidence
    BY <1>1, <1>2, <2>1 DEF CalState
  <2> QED  BY <1>2, <1>3, <2>2
<1>4. CASE ~(cal.next < cal.last)
  <2>1. PICK n \in Nat : n = cal.offset + BatchSize
    BY <1>1, <1>2
  <2>2. Advance = [cal EXCEPT !.pc = "page", !.offset = n]
    BY <1>4, <2>1 DEF Advance
  <2>3. Advance \in CalState /\ Advance.pc = "page"
    BY <1>1, <2>2 DEF CalState
  <2> QED  BY <2>3
<1> QED  BY <1>3, <1>4

LEMMA CalibrateInv == ASSUME IInv, Calibrate PROVE IInv'
<1>1. /\ UNCHANGED <<evidence, contexts, hypotheses, recs, decs, rcm, dec, reports>>
      /\ faults' \in Nat /\ cal.pc = "each"
  BY Counters DEF Calibrate
<1>2. CASE cal' = IdleCalibrator /\ UNCHANGED confs
  <2>1. Calibrating'
    BY <1>2, IdleCalibratorOK DEF Calibrating
  <2> QED  BY <1>1, <1>2, <2>1, IdleCalibratorOK, CalibratorReads
<1>3. CASE InScope(cal.next) /\ cal' = Advance
  <2>1. /\ cal \in CalState /\ cal.next \in 1..cal.last /\ cal.last <= Len(hypotheses)
        /\ Len(hypotheses) \in Nat
    BY <1>1, Lengths DEF IInv, TypeOK, CalState, Calibrating
  <2>2. cal.last \in Nat /\ cal.next \in 1..Len(hypotheses) /\ cal.evidence \in Nat
        /\ cal.factor \in 0..One /\ cal.next \in Nat
    BY <2>1 DEF CalState
  <2>3. Calibrating /\ \A h \in 1..cal.last : Scope(h) <= cal.evidence
    BY <1>1 DEF IInv, Calibrating
  <2>4. CASE UNCHANGED confs
    <3>1. Calibrating'
      BY <1>1, <1>3, <2>1, <2>3, AdvanceOK DEF Calibrating, Scope
    <3> QED  BY <1>1, <1>3, <2>4, <3>1, AdvanceOK, CalibratorReads
  <2>5. CASE confs' = Append(confs, [target |-> cal.next, factor |-> cal.factor, used |-> cal.evidence])
    <3>1. PICK x : x = [target |-> cal.next, factor |-> cal.factor, used |-> cal.evidence]
      OBVIOUS
    <3>2. x \in ConfRow /\ x.target = cal.next /\ x.used = cal.evidence
      BY <2>2, <3>1 DEF ConfRow
    <3>3. confs \in Seq(ConfRow) /\ evidence \in Nat
      BY ActionConstants DEF IInv, TypeOK
    <3>4. /\ confs' \in Seq(ConfRow) /\ Kept(confs, confs')
          /\ Len(confs') = Len(confs) + 1 /\ Len(confs) \in Nat
          /\ confs'[Len(confs) + 1] = x
      <4> HIDE DEF ConfRow
      <4> QED  BY <2>5, <3>1, <3>2, <3>3, Appended
    <3>5. Kept(contexts, contexts') /\ Kept(hypotheses, hypotheses') /\ Kept(recs, recs')
      BY <1>1, Lengths, KeptSame DEF IInv
    <3>6. Len(confs') \in Nat /\ evidence <= evidence' /\ evidence' \in Nat
      BY <1>1, <3>3, <3>4
    <3>7. Formulating' /\ Committing' /\ \A d \in 1..Len(decs) : DecOK(d)'
      BY <1>1, <3>4, <3>5, <3>6, Lengths, Growth DEF IInv
    <3>8. /\ \A c \in 1..Len(confs) : ConfOK(c)'
          /\ \A r \in 1..Len(recs) : RecOK(r)'
      BY <1>1, <3>4, <3>5, <3>6, Lengths, Grown DEF IInv
    <3>9. cal.evidence = Scope(cal.next)
      <4>1. contexts[hypotheses[cal.next]] \in 1..evidence
        BY <2>2 DEF IInv, Rows
      <4>2. Scope(cal.next) \in Int
        BY <3>3, <4>1 DEF Scope
      <4> QED  BY <1>3, <2>1, <2>2, <2>3, <4>2 DEF InScope
    <3>10. PICK n : n = Len(confs) + 1
      OBVIOUS
    <3>11. \A c \in 1..Len(confs') : ConfOK(c)'
      <4>1. \A c \in 1..Len(confs') : c \in 1..Len(confs) \/ c = n
        BY <3>4, <3>10
      <4>2. ConfOK(n)'
        BY <1>1, <2>2, <3>2, <3>4, <3>9, <3>10 DEF ConfOK, Scope
      <4> QED  BY <3>8, <4>1, <4>2
    <3>12. Rows'
      BY <1>1, <3>7, <3>8, <3>11 DEF IInv, Rows
    <3>13. Calibrating'
      BY <1>1, <1>3, <2>1, <2>3, AdvanceOK DEF Calibrating, Scope
    <3>14. TypeOK'
      BY <1>1, <1>3, <3>4, AdvanceOK DEF IInv, TypeOK, CalState
    <3> QED  BY <3>7, <3>12, <3>13, <3>14 DEF IInv
  <2> QED  BY <1>3, <2>4, <2>5 DEF Calibrate
<1> QED  BY <1>2, <1>3 DEF Calibrate

-----------------------------------------------------------------------------
(* The recommendation service                                              *)

\* A step of the recommendation service that inserts nothing.
LEMMA FormulatorReads ==
    ASSUME IInv, UNCHANGED <<evidence, contexts, hypotheses, confs, recs, decs, cal, dec, reports>>,
           faults' \in Nat, rcm' \in RcmState, Formulating'
    PROVE  IInv'
<1>1. TypeOK'
  BY DEF IInv, TypeOK, RcmState
<1> QED  BY <1>1, SameTables DEF IInv

LEMMA IdleFormulatorOK == IdleFormulator \in RcmState /\ IdleFormulator.pc = "idle"
BY DEF IdleFormulator, RcmState

LEMMA ReadCandidatesInv == ASSUME IInv, ReadCandidates PROVE IInv'
<1>1. UNCHANGED <<evidence, contexts, hypotheses, confs, recs, decs, cal, dec, reports>> /\ faults' \in Nat
  BY Counters DEF ReadCandidates
<1>2. rcm \in RcmState /\ Len(hypotheses) \in Nat /\ PageSize \in Nat
  BY Lengths, ActionConstants DEF IInv, TypeOK, RcmState
<1>3. PICK l \in Nat : l = IF Len(hypotheses) < PageSize THEN Len(hypotheses) ELSE PageSize
  BY <1>2
<1>4. rcm' = [rcm EXCEPT !.pc = "contexts", !.last = l]
  BY <1>3 DEF ReadCandidates
<1>5. rcm' \in RcmState /\ rcm'.pc = "contexts" /\ rcm'.last = l
  BY <1>2, <1>4 DEF RcmState
<1>6. l <= Len(hypotheses)
  BY <1>2, <1>3
<1>7. Formulating'
  BY <1>1, <1>5, <1>6 DEF Formulating
<1> QED  BY <1>1, <1>5, <1>7, FormulatorReads

LEMMA ReadContextsInv == ASSUME IInv, ReadContexts PROVE IInv'
<1>1. /\ UNCHANGED <<evidence, contexts, hypotheses, confs, recs, decs, cal, dec, reports>>
      /\ faults' \in Nat /\ rcm.pc = "contexts"
  BY Counters DEF ReadContexts
<1>2. CASE rcm.last = 0
  <2>1. rcm' = IdleFormulator
    BY <1>2 DEF ReadContexts
  <2>2. Formulating'
    BY <2>1, IdleFormulatorOK DEF Formulating
  <2> QED  BY <1>1, <2>1, <2>2, IdleFormulatorOK, FormulatorReads
<1>3. CASE rcm.last # 0
  <2>1. rcm \in RcmState /\ Len(contexts) \in Nat
    BY Lengths DEF IInv, TypeOK, RcmState
  <2>2. rcm' = [rcm EXCEPT !.pc = "each", !.next = 1, !.active = Len(contexts)]
    BY <1>3 DEF ReadContexts
  <2>3. rcm' \in RcmState /\ rcm'.pc = "each" /\ rcm'.next = 1 /\ rcm'.last = rcm.last /\ rcm.last \in Nat
    BY <2>1, <2>2 DEF RcmState
  <2>4. 1 \in 1..rcm.last /\ rcm.last <= Len(hypotheses)
    BY <1>1, <1>3, <2>3 DEF IInv, Formulating
  <2>5. Formulating'
    BY <1>1, <2>3, <2>4 DEF Formulating
  <2> QED  BY <1>1, <2>3, <2>5, FormulatorReads
<1> QED  BY <1>2, <1>3

LEMMA NextCandidateOK ==
    ASSUME IInv, rcm.pc \in {"each", "save"}
    PROVE  /\ NextCandidate \in RcmState
           /\ NextCandidate.pc \in {"idle", "each"}
           /\ NextCandidate.pc = "each" => /\ NextCandidate.next \in 1..NextCandidate.last
                                           /\ NextCandidate.last <= Len(hypotheses)
<1>1. rcm \in RcmState
  BY DEF IInv, TypeOK, RcmState
<1>2. rcm.next \in Nat /\ rcm.last \in Nat /\ rcm.next \in 1..rcm.last /\ rcm.last <= Len(hypotheses)
  BY <1>1 DEF RcmState, IInv, Formulating
<1>3. CASE rcm.next < rcm.last
  <2>1. PICK n \in Nat : n = rcm.next + 1
    BY <1>2
  <2>2. NextCandidate = [rcm EXCEPT !.pc = "each", !.next = n, !.conf = 0]
    BY <1>3, <2>1 DEF NextCandidate
  <2>3. NextCandidate \in RcmState /\ NextCandidate.pc = "each" /\ NextCandidate.next = n
        /\ NextCandidate.last = rcm.last
    BY <1>1, <2>2 DEF RcmState
  <2>4. n \in 1..rcm.last
    BY <1>2, <1>3, <2>1
  <2> QED  BY <1>2, <2>3, <2>4
<1>4. CASE ~(rcm.next < rcm.last)
  BY <1>4, IdleFormulatorOK DEF NextCandidate
<1> QED  BY <1>3, <1>4

LEMMA FindConfidenceInv == ASSUME IInv, FindConfidence PROVE IInv'
<1>1. /\ UNCHANGED <<evidence, contexts, hypotheses, confs, recs, decs, cal, dec, reports>>
      /\ faults' \in Nat /\ rcm.pc = "each"
  BY Counters DEF FindConfidence
<1>2. CASE rcm' = NextCandidate
  <2>1. Formulating'
    BY <1>1, <1>2, NextCandidateOK DEF Formulating
  <2> QED  BY <1>1, <1>2, <2>1, NextCandidateOK, FormulatorReads
<1>3. CASE Calibrations(rcm.next) # {} /\ rcm' = [rcm EXCEPT !.pc = "save", !.conf = LatestConfidence(rcm.next)]
  <2>1. rcm \in RcmState /\ Len(confs) \in Nat
    BY Lengths DEF IInv, TypeOK, RcmState
  <2>2. PICK c : c = LatestConfidence(rcm.next)
    OBVIOUS
  <2>3. c \in Calibrations(rcm.next)
    BY <1>3, <2>1, <2>2, LatestIn
  <2>4. c \in Nat
    BY <2>1, <2>3 DEF Calibrations
  <2>5. rcm' = [rcm EXCEPT !.pc = "save", !.conf = c]
    BY <1>3, <2>2
  <2>6. rcm' \in RcmState /\ rcm'.pc = "save" /\ rcm'.conf = c /\ rcm'.next = rcm.next /\ rcm'.last = rcm.last
    BY <2>1, <2>4, <2>5 DEF RcmState
  <2>7. Formulating'
    BY <1>1, <2>3, <2>6 DEF IInv, Formulating, Calibrations
  <2> QED  BY <1>1, <2>6, <2>7, FormulatorReads
<1> QED  BY <1>2, <1>3 DEF FindConfidence

LEMMA SaveRecommendationInv == ASSUME IInv, SaveRecommendation PROVE IInv'
<1>1. /\ UNCHANGED <<evidence, contexts, hypotheses, confs, decs, cal, dec, reports>>
      /\ faults' \in Nat /\ rcm.pc = "save" /\ rcm' = NextCandidate
  BY Counters DEF SaveRecommendation
<1>2. rcm \in RcmState /\ recs \in Seq(RecRow) /\ evidence \in Nat
  BY ActionConstants DEF IInv, TypeOK, RcmState
<1>3. PICK x : x = [hypothesis |-> rcm.next, conf |-> rcm.conf]
  OBVIOUS
<1>4. x \in RecRow /\ x.hypothesis = rcm.next /\ x.conf = rcm.conf
  BY <1>2, <1>3 DEF RcmState, RecRow
<1>5. rcm.conf \in 1..Len(confs) /\ confs[rcm.conf].target = rcm.next
  BY <1>1 DEF IInv, Formulating, Calibrations
<1>6. recs' = Append(recs, x)
  BY <1>3 DEF SaveRecommendation
<1>7. /\ recs' \in Seq(RecRow) /\ Kept(recs, recs')
      /\ Len(recs') = Len(recs) + 1 /\ Len(recs) \in Nat
      /\ recs'[Len(recs) + 1] = x
  <2> HIDE DEF RecRow
  <2> QED  BY <1>2, <1>4, <1>6, Appended
<1>8. Kept(contexts, contexts') /\ Kept(hypotheses, hypotheses') /\ Kept(confs, confs')
  BY <1>1, Lengths, KeptSame DEF IInv
<1>9. Len(recs') \in Nat /\ evidence <= evidence' /\ evidence' \in Nat
  BY <1>1, <1>2, <1>7
<1>10. Calibrating' /\ Committing' /\ \A d \in 1..Len(decs) : DecOK(d)'
  BY <1>1, <1>7, <1>8, <1>9, Lengths, Growth DEF IInv
<1>11. \A r \in 1..Len(recs) : RecOK(r)'
  BY <1>1, <1>7, <1>8, <1>9, Lengths, Grown DEF IInv
<1>12. \A r \in 1..Len(recs') : RecOK(r)'
  <2>1. PICK n : n = Len(recs) + 1
    OBVIOUS
  <2>2. \A r \in 1..Len(recs') : r \in 1..Len(recs) \/ r = n
    BY <1>7, <2>1
  <2>3. RecOK(n)'
    BY <1>1, <1>4, <1>5, <1>7, <2>1 DEF RecOK
  <2> QED  BY <1>11, <2>2, <2>3
<1>13. Rows'
  BY <1>1, <1>10, <1>12 DEF IInv, Rows, ConfOK, Scope
<1>14. Formulating'
  BY <1>1, NextCandidateOK DEF Formulating
<1>15. TypeOK'
  BY <1>1, <1>7, NextCandidateOK DEF IInv, TypeOK, RcmState
<1> QED  BY <1>10, <1>13, <1>14, <1>15 DEF IInv

-----------------------------------------------------------------------------
(* The decision service                                                    *)

LEMMA ReadRecommendationsInv == ASSUME IInv, ReadRecommendations PROVE IInv'
<1>1. UNCHANGED <<evidence, contexts, hypotheses, confs, recs, decs, cal, rcm, reports, faults>>
  BY DEF ReadRecommendations
<1>2. \A r \in dec' : r \in 1..Len(recs) /\ Committable(r)
  BY DEF ReadRecommendations
<1>3. \A r : Committable(r)' = Committable(r)
  BY <1>1 DEF Committable, Score, Scope, Tolerances
<1>4. Committing'
  BY <1>1, <1>2, <1>3 DEF Committing
<1>5. dec' \subseteq Nat
  BY <1>2, Lengths DEF IInv
<1>6. TypeOK'
  BY <1>1, <1>5 DEF IInv, TypeOK
<1> QED  BY <1>1, <1>4, <1>6, SameTables DEF IInv

\* The most demanding of the tolerances is one of them.
LEMMA RiskIn ==
    ASSUME NEW s \in Int, Tolerances(s) # {}
    PROVE  /\ RiskTolerance(s) \in AllowedRisk
           /\ s >= MinCommit
           /\ RiskTolerance(s) = "high" => s >= MinIrreversible
<1>1. s >= MinCommit
  BY ActionConstants DEF Tolerances, One
<1>2. Tolerances(s) \subseteq {"low", "medium", "high"} /\ Tolerances(s) \subseteq AllowedRisk
  BY ActionConstants DEF Tolerances
<1>3. Level["low"] = 0 /\ Level["medium"] = 1 /\ Level["high"] = 2
  BY DEF Level
<1>4. \E l \in Tolerances(s) : \A k \in Tolerances(s) : Level[k] <= Level[l]
  <2>1. CASE "high" \in Tolerances(s)
    BY <1>2, <1>3, <2>1
  <2>2. CASE "high" \notin Tolerances(s) /\ "medium" \in Tolerances(s)
    BY <1>2, <1>3, <2>2
  <2>3. CASE "high" \notin Tolerances(s) /\ "medium" \notin Tolerances(s)
    BY <1>2, <1>3, <2>3
  <2> QED  BY <2>1, <2>2, <2>3
<1>5. RiskTolerance(s) \in Tolerances(s)
  BY <1>4 DEF RiskTolerance
<1>6. "high" \in Tolerances(s) => s >= MinIrreversible
  BY <1>3 DEF Tolerances
<1> QED  BY <1>1, <1>2, <1>5, <1>6

LEMMA CommitInv == ASSUME IInv, NEW r \in dec, Commit(r) PROVE IInv'
<1>1. UNCHANGED <<evidence, contexts, hypotheses, confs, recs, cal, rcm, reports, faults>> /\ dec' \subseteq dec
  BY DEF Commit
<1>2. r \in 1..Len(recs) /\ Committable(r) /\ Len(recs) \in Nat
  BY Lengths DEF IInv, Committing
<1>3. recs[r].conf \in 1..Len(confs)
  BY <1>2 DEF IInv, Rows, RecOK
<1>4. Score(recs[r].conf) \in Int
  BY <1>3, ScoreType
<1>5. PICK l : l = RiskTolerance(Score(recs[r].conf))
  OBVIOUS
<1>6. Covers(r, l) /\ l \in {"low", "medium", "high"}
  BY <1>2, <1>4, <1>5, RiskIn, ActionConstants DEF Covers, Committable
<1>7. PICK x : x = [rec |-> r, risk |-> l, outcome |-> "none"]
  OBVIOUS
<1>8. x \in DecRow /\ x.rec = r /\ x.risk = l
  BY <1>2, <1>6, <1>7 DEF DecRow
<1>9. decs \in Seq(DecRow) /\ decs' = Append(decs, x) /\ evidence \in Nat
  BY <1>5, <1>7, ActionConstants DEF Commit, IInv, TypeOK
<1>10. /\ decs' \in Seq(DecRow) /\ Kept(decs, decs')
       /\ Len(decs') = Len(decs) + 1 /\ Len(decs) \in Nat
       /\ decs'[Len(decs) + 1] = x
  <2> HIDE DEF DecRow
  <2> QED  BY <1>8, <1>9, Appended
<1>11. /\ Kept(contexts, contexts') /\ Kept(hypotheses, hypotheses')
       /\ Kept(confs, confs') /\ Kept(recs, recs')
  BY <1>1, Lengths, KeptSame DEF IInv
<1>12. \A d \in 1..Len(decs) : decs'[d].rec = decs[d].rec /\ decs'[d].risk = decs[d].risk
  BY <1>10 DEF Kept
<1>13. Calibrating' /\ Formulating' /\ Committing' /\ \A d \in 1..Len(decs) : DecOK(d)'
  <2>1. evidence' \in Nat /\ evidence <= evidence' /\ cal' = cal /\ rcm' = rcm
    BY <1>1, <1>9
  <2>2. /\ Len(contexts') \in Nat /\ Len(hypotheses') \in Nat /\ Len(confs') \in Nat
        /\ Len(recs') \in Nat
    BY <1>1, Lengths DEF IInv
  <2> QED  BY <1>1, <1>11, <1>12, <2>1, <2>2, Growth
<1>14. \A d \in 1..Len(decs') : DecOK(d)'
  <2>1. PICK n : n = Len(decs) + 1
    OBVIOUS
  <2>2. \A d \in 1..Len(decs') : d \in 1..Len(decs) \/ d = n
    BY <1>10, <2>1
  <2>3. decs'[n].rec = r /\ decs'[n].risk = l
    BY <1>8, <1>10, <2>1
  <2>4. DecOK(n)'
    BY <1>1, <1>2, <1>6, <2>3 DEF DecOK, Covers, Score, Scope
  <2> QED  BY <1>13, <2>2, <2>4
<1>15. Rows'
  BY <1>1, <1>14 DEF IInv, Rows, ConfOK, RecOK, Scope
<1>16. TypeOK'
  BY <1>1, <1>10 DEF IInv, TypeOK
<1> QED  BY <1>13, <1>15, <1>16 DEF IInv

LEMMA AbortInv == ASSUME IInv, Abort PROVE IInv'
<1>1. UNCHANGED <<evidence, contexts, hypotheses, confs, recs, decs, reports>> /\ faults' \in Nat
  BY Counters DEF Abort
<1>2. CASE cal' = IdleCalibrator /\ UNCHANGED <<rcm, dec>>
  <2>1. Calibrating'
    BY <1>2, IdleCalibratorOK DEF Calibrating
  <2> QED  BY <1>1, <1>2, <2>1, IdleCalibratorOK, CalibratorReads
<1>3. CASE rcm' = IdleFormulator /\ UNCHANGED <<cal, dec>>
  <2>1. Formulating'
    BY <1>3, IdleFormulatorOK DEF Formulating
  <2> QED  BY <1>1, <1>3, <2>1, IdleFormulatorOK, FormulatorReads
<1>4. CASE dec' = {} /\ UNCHANGED <<cal, rcm>>
  <2>1. TypeOK'
    BY <1>1, <1>4 DEF IInv, TypeOK
  <2> QED  BY <1>1, <1>4, <2>1, SameTables DEF IInv
<1> QED  BY <1>2, <1>3, <1>4 DEF Abort

-----------------------------------------------------------------------------
(* The theorems                                                            *)

LEMMA StutterInv == ASSUME IInv, UNCHANGED vars PROVE IInv'
<1>1. TypeOK'
  BY DEF IInv, TypeOK, vars
<1> QED  BY <1>1, SameTables DEF IInv, vars

\* Every step of the services and of what surrounds them keeps the invariant.
THEOREM ActionInvariant == Spec => []IInv
<1>1. IInv /\ [Next]_vars => IInv'
  <2> SUFFICES ASSUME IInv, [Next]_vars PROVE IInv'
    OBVIOUS
  <2>1. CASE Environment
    BY <2>1, OrganizeInv, ActivateInv, HypothesizeInv, ReportOutcomeInv DEF Environment
  <2>2. CASE ConfidenceService
    BY <2>2, ReadHistoryInv, ReadBatchInv, ReadEvidenceInv, CalibrateInv DEF ConfidenceService
  <2>3. CASE RecommendationService
    BY <2>3, ReadCandidatesInv, ReadContextsInv, FindConfidenceInv, SaveRecommendationInv
       DEF RecommendationService
  <2>4. CASE DecisionService
    BY <2>4, ReadRecommendationsInv, CommitInv DEF DecisionService
  <2>5. CASE Abort
    BY <2>5, AbortInv
  <2>6. CASE UNCHANGED vars
    BY <2>6, StutterInv
  <2> QED  BY <2>1, <2>2, <2>3, <2>4, <2>5, <2>6 DEF Next
<1> QED  BY <1>1, InitInv, PTL DEF Spec

\* The rows and what the three services remember keep their types.
THEOREM ActionTypes == Spec => []TypeOK
<1>1. IInv => TypeOK
  BY DEF IInv
<1> QED  BY <1>1, ActionInvariant, PTL

\* Whatever evidence, contexts and hypotheses arrive while the confidence
\* service reads: a score rests on exactly the evidence of its hypothesis.
THEOREM ScoresFromScope == Spec => []ScopeIsolation
<1>1. IInv => ScopeIsolation
  BY DEF IInv, Rows, ConfOK, ScopeIsolation
<1> QED  BY <1>1, ActionInvariant, PTL

\* A decision rests on a score of its own hypothesis that reaches the
\* threshold of the risk it takes, for every policy and every support.
THEOREM DecisionsAreGrounded == Spec => []DecisionGrounded
<1>1. IInv => DecisionGrounded
  <2> SUFFICES ASSUME IInv, NEW d \in 1..Len(decs)
               PROVE  /\ confs[recs[decs[d].rec].conf].target = recs[decs[d].rec].hypothesis
                      /\ Covers(decs[d].rec, decs[d].risk)
    BY DEF DecisionGrounded, Covers
  <2>1. decs[d].rec \in 1..Len(recs) /\ Covers(decs[d].rec, decs[d].risk)
    BY DEF IInv, Rows, DecOK
  <2> QED  BY <2>1 DEF IInv, Rows, RecOK
<1> QED  BY <1>1, ActionInvariant, PTL
============================================================================
