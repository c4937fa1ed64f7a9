--------------------------- MODULE LearningSignals ---------------------------
(***************************************************************************)
(* What the learning loop computes for one decision with outcomes: pattern *)
(* refinement, context revision, insight transformation and the trace from *)
(* the decision to what it affects.  Each is a handful of separate reads   *)
(* of the gateway's lists, one page of the newest rows each, while the     *)
(* cognitive services keep inserting and outcomes keep coming in; rows     *)
(* that are missing from a page are skipped in silence.                    *)
(*                                                                         *)
(* Rows only refer to rows that exist, so a table is the number of its     *)
(* rows and the constants say what refers to what.                         *)
(***************************************************************************)
EXTENDS Naturals, Sequences, FiniteSets

CONSTANTS CtxRows,       \* contexts, a bound of the model
          InsRows,       \* insights, a bound of the model
          PatContext,    \* context_id of each pattern
          HypPatterns,   \* pattern_ids of each hypothesis
          RecHypothesis, \* hypothesis_id of each recommendation
          RecInsight,    \* insight_id of each recommendation, 0 for none
          DecRec,        \* recommendation_id of each decision
          DecPositive,   \* whether the decision's prediction is >= 0.5
          SigPage        \* limit of the lists

\* Rows are numbered from 1; 0 stands for an insight that a recommendation
\* does not name.
ASSUME SigAssumption ==
    /\ SigPage \in Nat \ {0} /\ CtxRows \in Nat /\ InsRows \in Nat
    /\ PatContext \in Seq(Nat \ {0}) /\ HypPatterns \in Seq(SUBSET (Nat \ {0}))
    /\ RecHypothesis \in Seq(Nat \ {0}) /\ RecInsight \in Seq(Nat)
    /\ DecRec \in Seq(Nat \ {0}) /\ DecPositive \in Seq(BOOLEAN)
    /\ Len(RecHypothesis) = Len(RecInsight) /\ Len(DecRec) = Len(DecPositive)

SigTables == {"ctx", "pat", "hyp", "ins", "rec", "dec"}
SigKinds == {"pat", "ctx", "ins"}    \* what can be learned about
SigPats == 1 .. Len(PatContext)
SigRecs == 1 .. Len(RecHypothesis)
SigDecs == 1 .. Len(DecRec)
SigContexts == 1 .. CtxRows
SigInsights == 1 .. InsRows

VARIABLES rows,     \* table -> number of rows
          sigActual,   \* decision -> actual outcome: "none" before there is one
          loop      \* the learning loop: its decision, reads done, what they saw, what came of it

sigVars == <<rows, sigActual, loop>>

Actuals == {"none", "yes", "no", "garbled"}

NoLoop ==
    [target |-> 0, reads |-> 0,
     seen |-> [t \in SigTables |-> 0], outcomes |-> [d \in SigDecs |-> "none"],
     report |-> <<>>,
     results |-> [k \in SigKinds |-> {}], signalled |-> [k \in SigKinds |-> {}]]

SigInit ==
    /\ rows = [t \in SigTables |-> 0]
    /\ sigActual = [d \in SigDecs |-> "none"]
    /\ loop = NoLoop

-----------------------------------------------------------------------------
(* The services that fill the tables, and the outcomes endpoint             *)

SigInsert(t) ==
    LET n == rows[t] + 1 IN
    /\ n <= CASE t = "ctx" -> CtxRows            [] t = "ins" -> InsRows
              [] t = "pat" -> Len(PatContext)    [] t = "hyp" -> Len(HypPatterns)
              [] t = "rec" -> Len(RecHypothesis) [] t = "dec" -> Len(DecRec)
    /\ t = "pat" => PatContext[n] <= rows.ctx
    /\ t = "hyp" => HypPatterns[n] \subseteq 1 .. rows.pat
    /\ t = "rec" => RecHypothesis[n] <= rows.hyp /\ RecInsight[n] <= rows.ins
    /\ t = "dec" => DecRec[n] <= rows.rec
    /\ rows' = [rows EXCEPT ![t] = n]
    /\ UNCHANGED <<sigActual, loop>>

\* Outcomes may be submitted again, with another result.
SigOutcome(d) ==
    /\ d <= rows.dec
    /\ \E a \in Actuals \ {"none"} : sigActual' = [sigActual EXCEPT ![d] = a]
    /\ UNCHANGED <<rows, loop>>

-----------------------------------------------------------------------------
(* The transforms, on what the reads of the loop l saw                      *)

\* A list returns its newest rows.
InPage(l, t, i) == i <= l.seen[t] /\ i + SigPage > l.seen[t]

\* Mutant: what cannot be read counts as a failure.
ClassifyFabricated(d, a) == IF (a = "yes") = DecPositive[d] THEN "good" ELSE "bad"

\* An expected outcome against the actual one: what cannot be read is
\* inconclusive, never a failure.
Classify(d, a) ==
    CASE a = "garbled" -> "open"
      [] a # "garbled" /\ (a = "yes") = DecPositive[d] -> "good"
      [] OTHER -> "bad"

\* Decisions with outcomes whose recommendation was found.
Attributable(l) ==
    {d \in SigDecs : /\ InPage(l, "dec", d)
                     /\ l.outcomes[d] # "none"
                     /\ InPage(l, "rec", DecRec[d])}

\* The patterns a decision leads to: those of its hypothesis, as far as found.
PatternsOf(l, d) ==
    LET h == RecHypothesis[DecRec[d]] IN
    {p \in SigPats : InPage(l, "hyp", h) /\ p \in HypPatterns[h] /\ InPage(l, "pat", p)}

Tally(l, links) ==
    [v \in {"good", "bad", "open"} |->
        Cardinality({x \in links : Classify(x[1], l.outcomes[x[1]]) = v})]

AttributeToPatterns(l) ==
    [p \in SigPats |->
        Tally(l, {x \in SigDecs \X {p} : x[1] \in Attributable(l) /\ p \in PatternsOf(l, x[1])})]

\* A context counts a decision once for every pattern that leads to it; only
\* the contexts of the page are revised.
AttributeToContexts(l) ==
    [c \in SigContexts |->
        Tally(l, {x \in SigDecs \X SigPats : /\ InPage(l, "ctx", c)
                                             /\ x[1] \in Attributable(l)
                                             /\ x[2] \in PatternsOf(l, x[1])
                                             /\ PatContext[x[2]] = c})]

\* Only the insights of the page have an entry in the journal.
AttributeToInsights(l) ==
    [i \in SigInsights |->
        Tally(l, {x \in SigDecs \X {i} : /\ InPage(l, "ins", i)
                                         /\ x[1] \in Attributable(l)
                                         /\ RecInsight[DecRec[x[1]]] = i})]

SigLinked(c) == c.good + c.bad + c.open

RefineAction(c) ==
    CASE c.good + c.bad >= 2 /\ 2 * c.bad >= c.good + c.bad -> "deactivate"
      [] c.good + c.bad >= 2 /\ c.bad > 0 /\ 2 * c.bad < c.good + c.bad -> "degrade"
      [] OTHER -> "keep"

ReviseAction(c, competing) ==
    CASE c.good + c.bad < 2 \/ c.bad = 0 -> "keep"
      [] c.good + c.bad >= 2 /\ c.bad > 0 /\ 2 * c.bad >= c.good + c.bad /\ competing -> "consider_competitor"
      [] OTHER -> "review"

\* Mutant: the trace keeps one pattern of the hypothesis.
AffectedOne(l, k) ==
    IF InPage(l, "rec", DecRec[l.target])
    THEN {p \in PatternsOf(l, l.target) : \A q \in PatternsOf(l, l.target) : p <= q} ELSE {}

\* The trace: the patterns found, the contexts they name and the insight the
\* recommendation names.  Without the recommendation or the hypothesis it
\* returns early, with nothing, the insight included.
SigAffected(l, k) ==
    LET r == DecRec[l.target] IN
    IF ~(InPage(l, "rec", r) /\ InPage(l, "hyp", RecHypothesis[r])) THEN {}
    ELSE CASE k = "pat" -> PatternsOf(l, l.target)
           [] k = "ctx" -> {PatContext[p] : p \in PatternsOf(l, l.target)}
           [] k = "ins" -> {RecInsight[r]} \ {0}

-----------------------------------------------------------------------------
(* The loop                                                                 *)

LoadDecision(d) ==
    /\ loop.target = 0
    /\ d <= rows.dec /\ sigActual[d] # "none"
    /\ loop' = [loop EXCEPT !.target = d]
    /\ UNCHANGED <<rows, sigActual>>

\* Mutant: the revision reads the contexts first, as the journal does its
\* insights.
ReadOrderContextsFirst ==
    <<"dec", "rec", "hyp", "pat",  "ctx", "dec", "rec", "hyp", "pat",
      "ins", "dec", "rec",  "rec", "hyp", "pat">>

\* Refinement, revision, transformation, trace.  The first two read what refers
\* before what it refers to, the transformation reads the insights first.
ReadOrder ==
    <<"dec", "rec", "hyp", "pat",  "dec", "rec", "hyp", "pat", "ctx",
      "ins", "dec", "rec",  "rec", "hyp", "pat">>

\* The patterns and contexts with decisions to count, and the insights listed.
Refined(l) == {p \in SigPats : SigLinked(AttributeToPatterns(l)[p]) > 0}
Revised(l) == {c \in SigContexts : SigLinked(AttributeToContexts(l)[c]) > 0}
Journalled(l) == {i \in SigInsights : InPage(l, "ins", i)}

\* What follows the n-th read: a report when it is the last one of a transform,
\* and in the end a signal for each result that the trace found affected.
Transformed(l, n) ==
    [l EXCEPT !.reads = n,
              !.report = CASE n = 4  -> AttributeToPatterns(l)
                           [] n = 9  -> AttributeToContexts(l)
                           [] n = 12 -> AttributeToInsights(l)
                           [] OTHER  -> <<>>,
              !.results = [k \in SigKinds |->
                             CASE n = 4 /\ k = "pat"  -> Refined(l)
                               [] n = 9 /\ k = "ctx"  -> Revised(l)
                               [] n = 12 /\ k = "ins" -> Journalled(l)
                               [] OTHER -> l.results[k]],
              !.signalled = [k \in SigKinds |->
                               IF n = 15 THEN SigAffected(l, k) \cap l.results[k]
                               ELSE l.signalled[k]]]

ReadList ==
    /\ loop.target # 0 /\ loop.reads < Len(ReadOrder)
    /\ LET t == ReadOrder[loop.reads + 1]
           l == [loop EXCEPT !.seen[t] = rows[t],
                             !.outcomes = IF t = "dec" THEN sigActual ELSE @]
       IN  loop' = Transformed(l, loop.reads + 1)
    /\ UNCHANGED <<rows, sigActual>>

\* The signals are handed to the ledger (LearningExecution, MemoryLedger).
LoopEnds ==
    /\ loop.reads = Len(ReadOrder)
    /\ loop' = NoLoop
    /\ UNCHANGED <<rows, sigActual>>

SigNext ==
    \/ \E t \in SigTables : SigInsert(t)
    \/ \E d \in SigDecs : SigOutcome(d) \/ LoadDecision(d)
    \/ ReadList \/ LoopEnds

SigSpec == SigInit /\ [][SigNext]_sigVars

-----------------------------------------------------------------------------
(* Properties                                                               *)

\* Every table fits into a page.
Fits == \A t \in SigTables : rows[t] <= SigPage

Conclusive(d) == loop.outcomes[d] \in {"yes", "no"}
Confirmed(d) == Conclusive(d) /\ (loop.outcomes[d] = "yes" <=> DecPositive[d])
Chain(d) == HypPatterns[RecHypothesis[DecRec[d]]]
ChainOf(d, k) ==
    CASE k = "pat" -> Chain(d)
      [] k = "ctx" -> {PatContext[p] : p \in Chain(d)}
      [] k = "ins" -> {RecInsight[DecRec[d]]} \ {0}
WithOutcome == {d \in SigDecs : loop.outcomes[d] # "none"}

\* The counts the decisions with outcomes really have on the pairs "links".
Truth(links) ==
    [good |-> Cardinality({x \in links : Confirmed(x[1])}),
     bad  |-> Cardinality({x \in links : Conclusive(x[1]) /\ ~Confirmed(x[1])}),
     open |-> Cardinality({x \in links : ~Conclusive(x[1])})]

Contradicts(c) == c.good + c.bad >= 2 /\ c.bad >= c.good

\* While the tables fit into a page, each transform counts exactly the
\* decisions whose outcomes were there when it read the decisions, though it
\* reads the other lists later; and it asks for a pattern's deactivation, or
\* for another model of a context, just when at least half of two or more
\* conclusive outcomes contradict.  The journal is exact for the insights it
\* lists: it read them before the decisions, and leaves out one that was
\* recommended, decided and judged in between.
TransformsExact ==
    /\ loop.reads = 4 /\ Fits =>
         \A p \in SigPats :
            LET c == Truth({x \in WithOutcome \X {p} : p \in Chain(x[1])}) IN
            /\ loop.report[p] = c
            /\ RefineAction(loop.report[p]) = "deactivate" <=> Contradicts(c)
    /\ loop.reads = 9 /\ Fits =>
         \A k \in SigContexts :
            LET c == Truth({x \in WithOutcome \X SigPats : x[2] \in Chain(x[1]) /\ PatContext[x[2]] = k}) IN
            /\ loop.report[k] = c
            /\ ReviseAction(loop.report[k], TRUE) = "consider_competitor" <=> Contradicts(c)
    /\ loop.reads = 12 /\ Fits =>
         \A i \in loop.results["ins"] :
            loop.report[i] = Truth({x \in WithOutcome \X {i} : RecInsight[DecRec[x[1]]] = i})

\* The decision the loop runs for gets a signal for each of its patterns, their
\* contexts and its insight, and for nothing else; one is missing only when
\* some table, the contexts and the insights included, outgrew a page.
SignalsMissingOnlyBeyondPage ==
    loop.reads = 15 =>
        \A k \in SigKinds :
            /\ loop.signalled[k] \subseteq ChainOf(loop.target, k)
            /\ Fits => loop.signalled[k] = ChainOf(loop.target, k)

\* The memory transformations, each over lists it read one after the other,
\* count what they claim to count and signal for what they ought to.
SignalsSound == TransformsExact /\ SignalsMissingOnlyBeyondPage

=============================================================================
