---------------------- MODULE ReasoningPipelineProofs ----------------------
(***************************************************************************)
(* Theorems about the reasoning services: the type invariant, that every   *)
(* row can be traced to its context, and that an anomaly has at most one   *)
(* hypothesis per template.                                                *)
(***************************************************************************)
EXTENDS ReasoningPipeline, NaturalsInduction, WellFoundedInduction, TLAPS

\* What the services remember between their reads and their inserts.
Remembered ==
    /\ Len(contexts) <= MaxContexts
    /\ \A k \in pat : k.anchor \in 1..Len(contexts)
    /\ ano.stream <= Len(contexts) /\ ano.active <= Len(contexts)
    /\ ano.pc \in {"stream", "active"} => Len(contexts) > 0
    /\ ano.pc = "active" => ano.active > 0
    /\ \A a \in ano.found : AnomalyOK(a)
    /\ hyp.pc = "reading" => hyp.seen <= Len(anomalies)
    /\ \A h \in hyp.todo : HypothesisOK(h)

\* Rows of hypotheses differ, from each other and from those to be inserted.
Distinct ==
    /\ \A g, h \in 1..Len(hypotheses) : hypotheses[g] = hypotheses[h] => g = h
    /\ \A h \in hyp.todo : ~HypothesisExists(h)

IInv == TypeOK /\ Traceable /\ Remembered /\ Distinct

-----------------------------------------------------------------------------

\* A nonempty set of numbers up to n has a largest element.
LEMMA LargestExists ==
    ASSUME NEW n \in Nat, NEW S \in SUBSET (1..n), S # {}
    PROVE  \E c \in S : \A d \in S : d <= c
<1> DEFINE T == {k \in Nat : n - k \in S}
           R == OpToRel(<, Nat)
<1>1. IsWellFoundedOn(R, Nat)
  BY NatLessThanWellFounded
<1>2. T # {} /\ T \subseteq Nat
  <2>1. PICK c \in S : TRUE
    OBVIOUS
  <2>2. n - c \in Nat /\ n - (n - c) = c
    OBVIOUS
  <2> QED  BY <2>1, <2>2
<1>3. \E x \in T : \A y \in T : ~(<<y, x>> \in R)
  <2> HIDE DEF T, R
  <2> QED  BY <1>1, <1>2, WFMin
<1>4. PICK x \in T : \A y \in T : ~(<<y, x>> \in R)
  BY <1>3
<1>5. \A y \in T : ~(y < x)
  <2> TAKE y \in T
  <2>1. x \in Nat /\ y \in Nat
    OBVIOUS
  <2>2. SUFFICES ASSUME y < x PROVE FALSE
    OBVIOUS
  <2>3. <<y, x>> \in R
    BY <2>1, <2>2 DEF OpToRel
  <2> QED  BY <2>3, <1>4
<1>6. \A d \in S : d <= n - x
  <2> TAKE d \in S
  <2>1. n - d \in T
    <3>1. n - d \in Nat /\ n - (n - d) = d
      OBVIOUS
    <3> QED  BY <3>1
  <2> QED  BY <2>1, <1>5
<1> QED  BY <1>6

LEMMA NewestIn ==
    ASSUME NEW n \in Nat, NEW S \in SUBSET (1..n), S # {}
    PROVE  Newest(S) \in S
BY LargestExists DEF Newest

LEMMA Appended ==
    ASSUME NEW S, NEW s \in Seq(S), NEW x \in S
    PROVE  /\ Append(s, x) \in Seq(S)
           /\ Len(Append(s, x)) = Len(s) + 1 /\ Len(s) \in Nat
           /\ \A i \in 1..Len(s) : Append(s, x)[i] = s[i] /\ s[i] \in S
           /\ Append(s, x)[Len(s) + 1] = x
OBVIOUS

-----------------------------------------------------------------------------
(* The steps of the environment                                            *)

LEMMA InitInv == Init => IInv
BY ReasoningConstants
   DEF Init, IInv, TypeOK, Traceable, Remembered, Distinct, HypothesisExists,
       IdleAnomaly, IdleHypothesis

LEMMA ActivateInv ==
    ASSUME IInv, NEW m \in Model, Activate(m)
    PROVE  IInv'
<1> DEFINE x == [model |-> m, at |-> now]
<1> USE DEF IInv
<1>1. x \in [model : Model, at : Nat]
  BY DEF TypeOK
<1>2. /\ contexts' \in Seq([model : Model, at : Nat])
      /\ Len(contexts') = Len(contexts) + 1 /\ Len(contexts) \in Nat
      /\ \A i \in 1..Len(contexts) : contexts'[i] = contexts[i]
  BY <1>1, Appended DEF Activate, TypeOK
<1>3. TypeOK'
  BY <1>2 DEF TypeOK, Activate
<1>4. \A a : AnomalyOK(a) => AnomalyOK(a)'
  BY <1>2 DEF AnomalyOK, Traceable, Activate
<1>5. \A h : HypothesisOK(h) => HypothesisOK(h)'
  BY DEF HypothesisOK, Activate
<1>6. Traceable'
  BY <1>2, <1>4, <1>5 DEF Traceable, Activate
<1>7. Remembered'
  <2>1. ano.stream \in Nat /\ ano.active \in Nat
    BY DEF TypeOK
  <2>2. UNCHANGED <<pat, ano, hyp, anomalies>> /\ Len(contexts) < MaxContexts
    BY DEF Activate
  <2>3. \A k \in pat : k.anchor \in 1..Len(contexts')
    BY <1>2 DEF Remembered
  <2>4. /\ Len(contexts') <= MaxContexts
        /\ ano.stream <= Len(contexts') /\ ano.active <= Len(contexts')
        /\ Len(contexts') > 0
    BY <1>2, <2>1, <2>2, ReasoningConstants DEF Remembered
  <2>5. \A a \in ano.found : AnomalyOK(a)'
    BY <1>4 DEF Remembered
  <2>6. \A h \in hyp.todo : HypothesisOK(h)'
    BY <1>5 DEF Remembered
  <2> QED  BY <2>2, <2>3, <2>4, <2>5, <2>6 DEF Remembered
<1>8. Distinct'
  BY DEF Distinct, HypothesisExists, Activate
<1> QED  BY <1>3, <1>6, <1>7, <1>8

\* A step that leaves tables and services alone, but for ins and the clock.
LEMMA SameRows ==
    ASSUME IInv, UNCHANGED <<tables, pat, ano, hyp>>,
           now' \in Nat, faults' \in Nat, ins' \in Nat
    PROVE  IInv'
BY DEF IInv, TypeOK, Traceable, Remembered, Distinct, HypothesisExists, AnomalyOK, HypothesisOK, tables

LEMMA TickInv == ASSUME IInv, Tick PROVE IInv'
BY SameRows, ReasoningConstants DEF Tick, IInv, TypeOK

-----------------------------------------------------------------------------
(* The pattern service                                                     *)

LEMMA RegularitiesType ==
    ASSUME IInv
    PROVE  Regularities \subseteq PatternCandidate
           /\ \A k \in Regularities : k.anchor \in 1..Len(contexts)
<1>1. \A m \in Model : Recurrent(m) => Newest(Acts(m)) \in 1..Len(contexts)
  <2> TAKE m \in Model
  <2> HAVE Recurrent(m)
  <2>1. Len(contexts) \in Nat
    BY DEF IInv, TypeOK
  <2>2. Acts(m) \in SUBSET (1..Len(contexts)) /\ Acts(m) # {}
    BY DEF Acts, Recurrent
  <2> QED  BY <2>1, <2>2, NewestIn
<1>2. 1..Len(contexts) \subseteq 1..MaxContexts
  BY ReasoningConstants DEF IInv, TypeOK, Remembered
<1>3. \A S : DeriveFrequency(S) \in {"hourly", "daily", "weekly", "event-driven"}
  BY DEF DeriveFrequency
<1> QED  BY <1>1, <1>2, <1>3 DEF Regularities, PatternCandidate

LEMMA ReadContextsInv == ASSUME IInv, ReadContexts PROVE IInv'
<1>1. pat' \subseteq Regularities
  BY DEF ReadContexts
<1>2. pat' \subseteq PatternCandidate /\ \A k \in pat' : k.anchor \in 1..Len(contexts)
  BY <1>1, RegularitiesType
<1>3. UNCHANGED <<now, contexts, patterns, anomalies, hypotheses, insights, ano, hyp, ins, faults>>
  BY DEF ReadContexts, tables
<1>4. TypeOK'
  BY <1>2, <1>3 DEF IInv, TypeOK
<1>5. Traceable' /\ Distinct'
  BY <1>3 DEF IInv, Traceable, Distinct, HypothesisExists, AnomalyOK, HypothesisOK
<1>6. Remembered'
  BY <1>2, <1>3 DEF IInv, Remembered, AnomalyOK, HypothesisOK
<1> QED  BY <1>4, <1>5, <1>6 DEF IInv

LEMMA SavePatternInv == ASSUME IInv, NEW k \in pat, SavePattern(k) PROVE IInv'
<1> DEFINE Row == [anchor : 1..MaxContexts, at : Nat,
                   frequency : {"hourly", "daily", "weekly", "event-driven"}]
           x == [anchor |-> k.anchor, frequency |-> k.frequency, at |-> now]
<1>1. x \in Row
  BY DEF IInv, TypeOK, PatternCandidate
<1>2. patterns \in Seq(Row) /\ patterns' = Append(patterns, x)
  BY DEF IInv, TypeOK, SavePattern
<1>3. /\ patterns' \in Seq(Row)
      /\ Len(patterns') = Len(patterns) + 1 /\ Len(patterns) \in Nat
      /\ \A i \in 1..Len(patterns) : patterns'[i] = patterns[i]
      /\ patterns'[Len(patterns) + 1] = x
  <2> HIDE DEF Row, x
  <2> QED  BY <1>1, <1>2, Appended
<1>4. UNCHANGED <<now, contexts, anomalies, hypotheses, insights, ano, hyp, ins, faults>> /\ pat' \subseteq pat
  BY DEF SavePattern
<1>5. TypeOK'
  BY <1>3, <1>4 DEF IInv, TypeOK
<1>6. \A a : AnomalyOK(a) => AnomalyOK(a)'
  <2> SUFFICES ASSUME NEW a, AnomalyOK(a) PROVE AnomalyOK(a)'
    OBVIOUS
  <2>1. /\ a.context \in 1..Len(contexts) /\ a.pattern \in 1..Len(patterns)
        /\ contexts[patterns[a.pattern].anchor].model = contexts[a.context].model
    BY DEF AnomalyOK
  <2>2. patterns'[a.pattern] = patterns[a.pattern] /\ a.pattern \in 1..Len(patterns')
    <3> HIDE DEF Row, x
    <3> QED  BY <1>3, <2>1
  <2> QED  BY <1>4, <2>1, <2>2 DEF AnomalyOK
<1>7. \A h : HypothesisOK(h) => HypothesisOK(h)'
  BY <1>4 DEF HypothesisOK
<1>8. Traceable'
  <2>1. x.anchor \in 1..Len(contexts)
    BY DEF IInv, Remembered
  <2>2. ASSUME NEW p \in 1..Len(patterns') PROVE patterns'[p].anchor \in 1..Len(contexts)
    <3>1. CASE p = Len(patterns) + 1
      BY <1>3, <2>1, <3>1
    <3>2. CASE p \in 1..Len(patterns)
      BY <1>3, <3>2 DEF IInv, Traceable
    <3> QED  BY <1>3, <3>1, <3>2
  <2> QED  BY <1>4, <1>6, <1>7, <2>2 DEF IInv, Traceable
<1>9. Remembered'
  BY <1>4, <1>6, <1>7 DEF IInv, Remembered
<1>10. Distinct'
  BY <1>4 DEF IInv, Distinct, HypothesisExists
<1> QED  BY <1>5, <1>8, <1>9, <1>10 DEF IInv

-----------------------------------------------------------------------------
(* The anomaly service                                                     *)

\* A step of the anomaly service up to its insert.
LEMMA AnomalyReads ==
    ASSUME IInv, UNCHANGED <<now, contexts, patterns, anomalies, hypotheses, insights, pat, hyp, ins, faults>>,
           ano' \in [pc : {"idle", "stream", "active", "saving"}, stream : Nat, active : Nat,
                     found : SUBSET AnomalyRow],
           ano'.stream <= Len(contexts), ano'.active <= Len(contexts),
           ano'.pc \in {"stream", "active"} => Len(contexts) > 0,
           ano'.pc = "active" => ano'.active > 0,
           \A a \in ano'.found : AnomalyOK(a)
    PROVE  IInv'
<1>1. TypeOK'
  BY DEF IInv, TypeOK
<1>2. Traceable' /\ Distinct'
  BY DEF IInv, Traceable, Distinct, HypothesisExists, AnomalyOK, HypothesisOK
<1>3. Remembered'
  BY DEF IInv, Remembered, AnomalyOK, HypothesisOK
<1> QED  BY <1>1, <1>2, <1>3 DEF IInv

LEMMA IdleAnomalyOK ==
    /\ IdleAnomaly \in [pc : {"idle", "stream", "active", "saving"}, stream : Nat, active : Nat,
                        found : SUBSET AnomalyRow]
    /\ IdleAnomaly.pc = "idle" /\ IdleAnomaly.found = {}
    /\ IdleAnomaly.stream = 0 /\ IdleAnomaly.active = 0
BY DEF IdleAnomaly

LEMMA ReadStreamInv == ASSUME IInv, ReadStream PROVE IInv'
<1>1. Len(contexts) \in Nat /\ Len(contexts) > 0
  BY DEF IInv, TypeOK, ReadStream
<1>2. /\ ano' \in [pc : {"idle", "stream", "active", "saving"}, stream : Nat, active : Nat,
                    found : SUBSET AnomalyRow]
      /\ ano'.pc = "stream" /\ ano'.stream = Len(contexts)
      /\ ano'.active = ano.active /\ ano'.found = ano.found
  BY <1>1 DEF IInv, TypeOK, ReadStream
<1> QED  BY <1>1, <1>2, AnomalyReads DEF IInv, Remembered, ReadStream, tables

LEMMA ReadActiveInv == ASSUME IInv, ReadActive PROVE IInv'
<1>1. Len(contexts) \in Nat /\ Len(contexts) > 0
  BY DEF IInv, TypeOK, Remembered, ReadActive
<1>2. /\ ano' \in [pc : {"idle", "stream", "active", "saving"}, stream : Nat, active : Nat,
                    found : SUBSET AnomalyRow]
      /\ ano'.pc = "active" /\ ano'.active = Len(contexts)
      /\ ano'.stream = ano.stream /\ ano'.found = ano.found
  BY <1>1 DEF IInv, TypeOK, ReadActive
<1> QED  BY <1>1, <1>2, AnomalyReads DEF IInv, Remembered, ReadActive, tables

\* The pattern an active context is compared with belongs to its scope.
LEMMA DeviationsOK ==
    ASSUME IInv, NEW s \in Nat, NEW c \in 1..Len(contexts)
    PROVE  \A a \in Deviations(s, c, Len(patterns)) : a \in AnomalyRow /\ AnomalyOK(a)
<1> DEFINE S == Scoped(contexts[c].model, s, c, Len(patterns))
<1>1. Len(patterns) \in Nat /\ S \in SUBSET (1..Len(patterns))
  BY DEF IInv, TypeOK, Scoped
<1>2. S # {} => Newest(S) \in S
  <2> HIDE DEF S
  <2> QED  BY <1>1, NewestIn
<1>3. \A p \in S : contexts[patterns[p].anchor].model = contexts[c].model
  BY DEF Scoped
<1>4. c \in 1..MaxContexts
  BY ReasoningConstants DEF IInv, TypeOK, Remembered
<1> HIDE DEF S
<1>5. Deviations(s, c, Len(patterns)) \subseteq {[context |-> c, pattern |-> Newest(S)]}
  BY DEF Deviations, S
<1>6. S = {} => Deviations(s, c, Len(patterns)) = {}
  BY DEF Deviations, S
<1> SUFFICES ASSUME NEW a \in Deviations(s, c, Len(patterns))
             PROVE  a \in AnomalyRow /\ AnomalyOK(a)
  OBVIOUS
<1> DEFINE p == Newest(S)
<1>7. p \in 1..Len(patterns) /\ contexts[patterns[p].anchor].model = contexts[c].model
  BY <1>1, <1>2, <1>3, <1>6
<1>8. a = [context |-> c, pattern |-> p]
  BY <1>5
<1> HIDE DEF p
<1> QED  BY <1>1, <1>4, <1>7, <1>8 DEF AnomalyOK, AnomalyRow

LEMMA ReadPatternsInv == ASSUME IInv, ReadPatterns PROVE IInv'
<1> DEFINE D == {a \in Deviations(ano.stream, ano.active, Len(patterns)) : ~AnomalyExists(a)}
<1>1. ano.stream \in Nat /\ ano.active \in 1..Len(contexts) /\ Len(contexts) \in Nat
  BY DEF IInv, TypeOK, Remembered, ReadPatterns
<1>2. \A a \in D : a \in AnomalyRow /\ AnomalyOK(a)
  BY <1>1, DeviationsOK
<1>3. ano' = IdleAnomaly \/ ano' = [pc |-> "saving", stream |-> 0, active |-> 0, found |-> D]
  BY DEF ReadPatterns
<1>4. UNCHANGED <<now, contexts, patterns, anomalies, hypotheses, insights, pat, hyp, ins, faults>>
  BY DEF ReadPatterns, tables
<1> HIDE DEF D
<1>5. CASE ano' = IdleAnomaly
  BY <1>1, <1>4, <1>5, IdleAnomalyOK, AnomalyReads
<1>6. CASE ano' = [pc |-> "saving", stream |-> 0, active |-> 0, found |-> D]
  BY <1>1, <1>2, <1>4, <1>6, AnomalyReads
<1> QED  BY <1>3, <1>5, <1>6

LEMMA SaveAnomalyInv == ASSUME IInv, SaveAnomaly PROVE IInv'
<1>1. PICK a \in ano.found : anomalies' = Append(anomalies, a)
  BY DEF SaveAnomaly
<1>2. a \in AnomalyRow /\ anomalies \in Seq(AnomalyRow) /\ Len(contexts) \in Nat
  BY DEF IInv, TypeOK
<1>3. /\ anomalies' \in Seq(AnomalyRow)
      /\ Len(anomalies') = Len(anomalies) + 1 /\ Len(anomalies) \in Nat
      /\ \A i \in 1..Len(anomalies) : anomalies'[i] = anomalies[i]
      /\ anomalies'[Len(anomalies) + 1] = a
  BY <1>1, <1>2, Appended
<1>4. UNCHANGED <<now, contexts, patterns, hypotheses, insights, pat, hyp, ins, faults>> /\ ano' = IdleAnomaly
  BY DEF SaveAnomaly
<1>5. TypeOK'
  BY <1>3, <1>4, IdleAnomalyOK DEF IInv, TypeOK
<1>6. \A b : AnomalyOK(b) => AnomalyOK(b)'
  BY <1>4 DEF AnomalyOK
<1>7. \A h : HypothesisOK(h) => HypothesisOK(h)'
  BY <1>3 DEF HypothesisOK
<1>8. Traceable'
  <2>1. ASSUME NEW i \in 1..Len(anomalies') PROVE AnomalyOK(anomalies[i])'
    <3>1. CASE i = Len(anomalies) + 1
      BY <1>3, <1>6, <3>1 DEF IInv, Remembered
    <3>2. CASE i \in 1..Len(anomalies)
      BY <1>3, <1>6, <3>2 DEF IInv, Traceable
    <3> QED  BY <1>3, <3>1, <3>2
  <2> QED  BY <1>4, <1>7, <2>1 DEF IInv, Traceable
<1>9. Remembered'
  <2>1. hyp.pc = "reading" => hyp.seen <= Len(anomalies')
    BY <1>3 DEF IInv, TypeOK, Remembered
  <2> QED  BY <1>2, <1>4, <1>7, <2>1, IdleAnomalyOK DEF IInv, Remembered
<1>10. Distinct'
  BY <1>4 DEF IInv, Distinct, HypothesisExists
<1> QED  BY <1>5, <1>8, <1>9, <1>10 DEF IInv

-----------------------------------------------------------------------------
(* The hypothesis service                                                  *)

\* Patterns are read after anomalies: every hypothesis finds the pattern of
\* its anomaly.
LEMMA CreationsOK ==
    ASSUME IInv, NEW n \in 0..Len(anomalies)
    PROVE  \A h \in Creations(n, Len(patterns)) : h \in HypothesisRow /\ HypothesisOK(h)
<1> SUFFICES ASSUME NEW h \in Creations(n, Len(patterns))
             PROVE  h \in HypothesisRow /\ HypothesisOK(h)
  OBVIOUS
<1>1. Len(anomalies) \in Nat /\ Len(patterns) \in Nat
  BY DEF IInv, TypeOK
<1>2. PICK i \in 1..n : \E t \in 1..Templates[ModelOf(i)] :
        h = [anomaly |-> i, pattern |-> IF anomalies[i].pattern <= Len(patterns)
                                        THEN anomalies[i].pattern ELSE 0, template |-> t]
  BY DEF Creations
<1>21. PICK t \in 1..Templates[ModelOf(i)] :
        h = [anomaly |-> i, pattern |-> IF anomalies[i].pattern <= Len(patterns)
                                        THEN anomalies[i].pattern ELSE 0, template |-> t]
  BY <1>2
<1>3. i \in 1..Len(anomalies) /\ i \in Nat \ {0} /\ t \in Nat \ {0}
  <2>1. anomalies[i].context \in 1..Len(contexts)
    BY <1>1 DEF IInv, Traceable, AnomalyOK
  <2>2. ModelOf(i) \in Model
    <3> DEFINE Row == [model : Model, at : Nat]
    <3>1. contexts \in Seq(Row)
      BY DEF IInv, TypeOK
    <3>2. \A r \in Row : r.model \in Model
      OBVIOUS
    <3> HIDE DEF Row
    <3>3. contexts[anomalies[i].context] \in Row
      BY <2>1, <3>1
    <3> QED  BY <3>2, <3>3 DEF ModelOf
  <2>3. Templates[ModelOf(i)] \in Nat
    BY <2>2, ReasoningConstants
  <2> QED  BY <1>1, <2>3
<1>4. anomalies[i].pattern \in 1..Len(patterns)
  BY <1>3 DEF IInv, Traceable, AnomalyOK
<1>5. h = [anomaly |-> i, pattern |-> anomalies[i].pattern, template |-> t]
  BY <1>1, <1>21, <1>4
<1>6. anomalies[i].pattern \in Nat
  BY <1>1, <1>4
<1> QED  BY <1>3, <1>5, <1>6 DEF HypothesisOK, HypothesisRow

LEMMA HypothesisReads ==
    ASSUME IInv, UNCHANGED <<now, contexts, patterns, anomalies, hypotheses, insights, pat, ano, ins, faults>>,
           hyp' \in [pc : {"idle", "reading", "saving"}, seen : Nat, todo : SUBSET HypothesisRow],
           hyp'.pc = "reading" => hyp'.seen <= Len(anomalies),
           \A h \in hyp'.todo : HypothesisOK(h) /\ ~HypothesisExists(h)
    PROVE  IInv'
<1>1. TypeOK'
  BY DEF IInv, TypeOK
<1>2. Traceable' /\ Distinct'
  BY DEF IInv, Traceable, Distinct, HypothesisExists, AnomalyOK, HypothesisOK
<1>3. Remembered'
  BY DEF IInv, Remembered, AnomalyOK, HypothesisOK
<1> QED  BY <1>1, <1>2, <1>3 DEF IInv

LEMMA IdleHypothesisOK ==
    /\ IdleHypothesis \in [pc : {"idle", "reading", "saving"}, seen : Nat, todo : SUBSET HypothesisRow]
    /\ IdleHypothesis.pc = "idle" /\ IdleHypothesis.todo = {}
BY DEF IdleHypothesis

LEMMA ReadInputsInv == ASSUME IInv, ReadInputs PROVE IInv'
<1>1. UNCHANGED <<now, contexts, patterns, anomalies, hypotheses, insights, pat, ano, ins, faults>>
  BY DEF ReadInputs, tables
<1>2. Len(anomalies) \in Nat
  BY DEF IInv, TypeOK
<1>3. CASE hyp.pc = "idle" /\ hyp' = [hyp EXCEPT !.pc = "reading", !.seen = Len(anomalies)]
  <2>1. /\ hyp' \in [pc : {"idle", "reading", "saving"}, seen : Nat, todo : SUBSET HypothesisRow]
        /\ hyp'.seen = Len(anomalies) /\ hyp'.todo = hyp.todo
    BY <1>2, <1>3 DEF IInv, TypeOK
  <2> QED  BY <1>1, <1>2, <2>1, HypothesisReads DEF IInv, Remembered, Distinct
<1>4. CASE hyp.pc = "reading" /\ hyp' = Generated(Creations(hyp.seen, Len(patterns)))
  <2> DEFINE N == {h \in Creations(hyp.seen, Len(patterns)) : ~HypothesisExists(h)}
  <2>1. hyp.seen \in 0..Len(anomalies)
    BY <1>2, <1>4 DEF IInv, TypeOK, Remembered
  <2>2. \A h \in N : h \in HypothesisRow /\ HypothesisOK(h) /\ ~HypothesisExists(h)
    BY <2>1, CreationsOK
  <2>3. hyp' = IdleHypothesis \/ hyp' = [pc |-> "saving", seen |-> 0, todo |-> N]
    BY <1>4 DEF Generated
  <2> HIDE DEF N
  <2>4. CASE hyp' = IdleHypothesis
    BY <1>1, <2>4, IdleHypothesisOK, HypothesisReads
  <2>5. CASE hyp' = [pc |-> "saving", seen |-> 0, todo |-> N]
    BY <1>1, <2>2, <2>5, HypothesisReads
  <2> QED  BY <2>3, <2>4, <2>5
<1> QED  BY <1>3, <1>4 DEF ReadInputs

LEMMA SaveHypothesisInv == ASSUME IInv, NEW h \in hyp.todo, SaveHypothesis(h) PROVE IInv'
<1>1. h \in HypothesisRow /\ hypotheses \in Seq(HypothesisRow) /\ hypotheses' = Append(hypotheses, h)
  BY DEF IInv, TypeOK, SaveHypothesis
<1>2. /\ hypotheses' \in Seq(HypothesisRow)
      /\ Len(hypotheses') = Len(hypotheses) + 1 /\ Len(hypotheses) \in Nat
      /\ \A i \in 1..Len(hypotheses) : hypotheses'[i] = hypotheses[i]
      /\ hypotheses'[Len(hypotheses) + 1] = h
  BY <1>1, Appended
<1>3. UNCHANGED <<now, contexts, patterns, anomalies, insights, pat, ano, ins, faults>>
  BY DEF SaveHypothesis
<1>4. /\ hyp' \in [pc : {"idle", "reading", "saving"}, seen : Nat, todo : SUBSET HypothesisRow]
      /\ hyp'.pc # "reading" /\ hyp'.todo \subseteq hyp.todo \ {h}
  <2>1. CASE hyp' = IdleHypothesis
    BY <2>1, IdleHypothesisOK
  <2>2. CASE hyp' = [hyp EXCEPT !.todo = hyp.todo \ {h}]
    BY <2>2 DEF IInv, TypeOK, SaveHypothesis
  <2> QED  BY <2>1, <2>2 DEF SaveHypothesis
<1>5. TypeOK'
  BY <1>2, <1>3, <1>4 DEF IInv, TypeOK
<1>6. \A g : HypothesisOK(g) => HypothesisOK(g)'
  BY <1>3 DEF HypothesisOK
<1>7. \A a : AnomalyOK(a) => AnomalyOK(a)'
  BY <1>3 DEF AnomalyOK
<1>8. Traceable'
  <2>1. ASSUME NEW i \in 1..Len(hypotheses') PROVE HypothesisOK(hypotheses[i])'
    <3>1. CASE i = Len(hypotheses) + 1
      BY <1>2, <1>6, <3>1 DEF IInv, Remembered
    <3>2. CASE i \in 1..Len(hypotheses)
      BY <1>2, <1>6, <3>2 DEF IInv, Traceable
    <3> QED  BY <1>2, <3>1, <3>2
  <2> QED  BY <1>3, <1>7, <2>1 DEF IInv, Traceable
<1>9. Remembered'
  BY <1>3, <1>4, <1>6, <1>7 DEF IInv, Remembered
<1>10. Distinct'
  <2>1. \A i \in 1..Len(hypotheses) : hypotheses[i] # h
    BY DEF IInv, Distinct, HypothesisExists
  <2>2. ASSUME NEW i \in 1..Len(hypotheses'), NEW j \in 1..Len(hypotheses'), hypotheses'[i] = hypotheses'[j]
        PROVE  i = j
    <3>1. CASE i \in 1..Len(hypotheses) /\ j \in 1..Len(hypotheses)
      BY <1>2, <2>2, <3>1 DEF IInv, Distinct
    <3>2. CASE i = Len(hypotheses) + 1 \/ j = Len(hypotheses) + 1
      BY <1>2, <2>1, <2>2, <3>2
    <3> QED  BY <1>2, <3>1, <3>2
  <2>3. ASSUME NEW g \in hyp'.todo, NEW i \in 1..Len(hypotheses') PROVE hypotheses'[i] # g
    <3>1. g \in hyp.todo /\ g # h
      BY <1>4
    <3>2. CASE i \in 1..Len(hypotheses)
      BY <1>2, <3>1, <3>2 DEF IInv, Distinct, HypothesisExists
    <3>3. CASE i = Len(hypotheses) + 1
      BY <1>2, <3>1, <3>3
    <3> QED  BY <1>2, <3>2, <3>3
  <2> QED  BY <2>2, <2>3 DEF Distinct, HypothesisExists
<1> QED  BY <1>5, <1>8, <1>9, <1>10 DEF IInv

-----------------------------------------------------------------------------
(* The insight service and aborted cycles                                  *)

LEMMA ReadHypothesesInv == ASSUME IInv, ReadHypotheses PROVE IInv'
<1>1. ins' \in Nat
  BY ReasoningConstants DEF IInv, TypeOK, ReadHypotheses
<1> QED  BY <1>1, SameRows DEF ReadHypotheses, IInv, TypeOK

LEMMA RestructureInv == ASSUME IInv, Restructure PROVE IInv'
<1>1. insights' \subseteq InsightRow
  <2>1. Frame(Len(contexts), ins) \in SUBSET Nat /\ Len(contexts) \in Nat
    BY DEF Frame, IInv, TypeOK
  <2> QED  BY <2>1 DEF Restructure, Restructured, IInv, TypeOK, InsightRow
<1>2. UNCHANGED <<now, contexts, patterns, anomalies, hypotheses, pat, ano, hyp, faults>> /\ ins' = 0
  BY DEF Restructure
<1>3. TypeOK'
  BY <1>1, <1>2 DEF IInv, TypeOK
<1> QED  BY <1>2, <1>3
         DEF IInv, Traceable, Remembered, Distinct, HypothesisExists, AnomalyOK, HypothesisOK

LEMMA AbortInv == ASSUME IInv, Abort PROVE IInv'
<1>1. faults' \in Nat /\ UNCHANGED <<now, contexts, patterns, anomalies, hypotheses, insights>>
  BY DEF IInv, TypeOK, Abort, tables
<1>2. /\ pat' = pat \/ pat' = {}
      /\ ano' = ano \/ ano' = IdleAnomaly
      /\ hyp' = hyp \/ hyp' = IdleHypothesis
      /\ ins' = ins \/ ins' = 0
  BY DEF Abort
<1>3. TypeOK'
  BY <1>1, <1>2, IdleAnomalyOK, IdleHypothesisOK DEF IInv, TypeOK
<1>4. Traceable'
  BY <1>1 DEF IInv, Traceable, AnomalyOK, HypothesisOK
<1>5. Distinct'
  BY <1>1, <1>2, IdleHypothesisOK DEF IInv, Distinct, HypothesisExists
<1>6. Remembered'
  BY <1>1, <1>2, IdleAnomalyOK, IdleHypothesisOK DEF IInv, TypeOK, Remembered, AnomalyOK, HypothesisOK
<1> QED  BY <1>3, <1>4, <1>5, <1>6 DEF IInv

-----------------------------------------------------------------------------

LEMMA StepInv == IInv /\ [Next]_vars => IInv'
<1> SUFFICES ASSUME IInv, [Next]_vars PROVE IInv'
  OBVIOUS
<1>1. CASE \E m \in Model : Activate(m)
  BY <1>1, ActivateInv
<1>2. CASE Tick
  BY <1>2, TickInv
<1>3. CASE PatternService
  BY <1>3, ReadContextsInv, SavePatternInv DEF PatternService
<1>4. CASE AnomalyService
  BY <1>4, ReadStreamInv, ReadActiveInv, ReadPatternsInv, SaveAnomalyInv DEF AnomalyService
<1>5. CASE HypothesisService
  BY <1>5, ReadInputsInv, SaveHypothesisInv DEF HypothesisService
<1>6. CASE InsightService
  BY <1>6, ReadHypothesesInv, RestructureInv DEF InsightService
<1>7. CASE Abort
  BY <1>7, AbortInv
<1>8. CASE UNCHANGED vars
  BY <1>8, SameRows DEF vars, tables, IInv, TypeOK
<1> QED  BY <1>1, <1>2, <1>3, <1>4, <1>5, <1>6, <1>7, <1>8 DEF Next

THEOREM ReasoningInvariant == Spec => []IInv
<1> QED  BY InitInv, StepInv, PTL DEF Spec

\* The tables and what the services remember have their types, for any
\* libraries of patterns, tolerances and templates.
THEOREM ReasoningTypes == Spec => []TypeOK
<1>1. IInv => TypeOK
  BY DEF IInv
<1> QED  BY ReasoningInvariant, <1>1, PTL

\* Every anomaly and hypothesis leads back to a context, through a pattern of
\* the same mental model, whatever was inserted between the reads of a cycle.
THEOREM EveryRowTraceable == Spec => []Traceable
<1>1. IInv => Traceable
  BY DEF IInv
<1> QED  BY ReasoningInvariant, <1>1, PTL

\* An anomaly has at most one hypothesis per template: since its pattern is
\* always found, the content-derived id of a repetition is the same.
THEOREM NoDuplicateExplanation == Spec => []OneHypothesisPerTemplate
<1>1. IInv => OneHypothesisPerTemplate
  <2> SUFFICES ASSUME IInv, NEW g \in 1..Len(hypotheses), NEW h \in 1..Len(hypotheses),
                      hypotheses[g].anomaly = hypotheses[h].anomaly,
                      hypotheses[g].template = hypotheses[h].template
               PROVE  g = h
    BY DEF OneHypothesisPerTemplate
  <2>1. hypotheses[g] \in HypothesisRow /\ hypotheses[h] \in HypothesisRow
    BY DEF IInv, TypeOK
  <2>2. hypotheses[g].pattern = hypotheses[h].pattern
    BY DEF IInv, Traceable, HypothesisOK
  <2>3. hypotheses[g] = hypotheses[h]
    BY <2>1, <2>2 DEF HypothesisRow
  <2> QED  BY <2>3 DEF IInv, Distinct
<1> QED  BY ReasoningInvariant, <1>1, PTL
============================================================================
