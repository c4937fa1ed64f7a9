-------------------------- MODULE ReportGeneration --------------------------
(***************************************************************************)
(* The report service (apps/services/report-service): generate reads the  *)
(* decisions of a tenant, then the stores of everything behind them, one  *)
(* statement each, renders the document, overwrites the artifact of the   *)
(* period and inserts the row of the period unless it exists.  The cycle  *)
(* of main.py and the requests of generate_handler run in one event loop  *)
(* and change turns at every await.                                       *)
(*                                                                         *)
(* Decisions are numbered in the order of their commits.  The rows behind *)
(* a decision exist when it does.  Three of the stores are read by their  *)
(* first page only, which covers every row of the tenant: several of one  *)
(* decision, one of several decisions, and those of none.  Of the rows of *)
(* a chain in such a store the last one in the order of the list decides  *)
(* whether the page holds them all, so its position is kept.  A document  *)
(* is the number of decisions it shows and the set of those shown with    *)
(* their whole chain.  One tenant: nothing of generate is shared by two.  *)
(***************************************************************************)
EXTENDS Integers, Sequences, FiniteSets, FiniteSetsExt

CONSTANTS
    ReportTypes,    \* report_types, in the order of the cycle
    RepClients,     \* requests in flight at once
    RepPage,        \* the default limit of the paged lists (500)
    MaxRepDays,     \* bound: days that pass
    MaxRepDecs,     \* bound: decisions committed
    MaxRepRows,     \* bound: rows of a paged store
    MaxRepCalls,    \* bound: requests
    MaxRepFaults    \* bound: statements that raise, and crashes

ASSUME RepAssumption ==
    /\ Len(ReportTypes) \in Nat \ {0}
    /\ {RepPage, MaxRepDays, MaxRepDecs, MaxRepRows, MaxRepCalls, MaxRepFaults} \subseteq Nat

VARIABLES
    repDay,      \* today
    repDecs,     \* table decisions: the day of each commit, in order
    repPos,      \* per decision: the position of its chain's last row in each paged store
    repRows,     \* the number of rows in each paged store
    repBroken,   \* types whose rendering always raises
    repGen,      \* the generations in progress
    repFiles,    \* the artifacts under output_dir, one per report id
    repSaved,    \* table reports, one row per report id
    repCalls,    \* requests made
    repFaults    \* faults so far

repTables == <<repDecs, repPos, repRows>>

repVars == <<repDay, repTables, repBroken, repGen, repFiles, repSaved, repCalls, repFaults>>

TheCycle == "cycle"
Generators == RepClients \cup {TheCycle}
Types == {ReportTypes[k] : k \in 1..Len(ReportTypes)}

\* What generate reads after the decisions, in its order.
ReportStores ==
    <<"recommendations", "contexts", "confidences", "hypotheses",
      "anomalies", "patterns", "evidence", "observations">>

\* Stores whose list method has a default limit, oldest rows first.
PagedStores == {"confidences", "hypotheses", "observations"}

\* Mutant: the page holds the newest rows.
RowsReadNewest(store) ==
    {i \in 1..Len(repDecs) :
        store \in PagedStores => repPos[i][store] > repRows[store] - RepPage}

\* The decisions whose rows in the store are all in what its list method
\* returns now.
RowsRead(store) ==
    {i \in 1..Len(repDecs) : store \in PagedStores => repPos[i][store] <= RepPage}

\* The window of the commits of the first n decisions, else today.
ReportPeriod(n) ==
    LET days == {repDecs[i] : i \in 1..n} IN
    IF n > 0 THEN <<Min(days), Max(days)>> ELSE <<repDay, repDay>>

Resting == [at |-> "rest", type |-> 1, store |-> 1, shown |-> 0,
            period |-> <<0, 0>>, whole |-> {}]

RepInit ==
    /\ repDay = 1
    /\ repDecs = <<>>
    /\ repPos = <<>>
    /\ repRows = [store \in PagedStores |-> 0]
    /\ repBroken \in SUBSET Types
    /\ repGen = [g \in Generators |-> Resting]
    /\ repFiles = {}
    /\ repSaved = {}
    /\ repCalls = 0
    /\ repFaults = 0
-----------------------------------------------------------------------------
\* Environment: a day passes.
DayPasses ==
    /\ repDay < MaxRepDays
    /\ repDay' = repDay + 1
    /\ UNCHANGED <<repTables, repBroken, repGen, repFiles, repSaved, repCalls, repFaults>>

\* A row is committed to a paged store.  The list is ordered by a time taken
\* before the commit (captured_at by the source of the fact), so the row may
\* come before others and move them away from the first page.
RowStored(store) ==
    /\ repRows[store] < MaxRepRows
    /\ repRows' = [repRows EXCEPT ![store] = @ + 1]
    /\ \E p \in 1..repRows[store] + 1 :
          repPos' = [i \in DOMAIN repPos |->
              [repPos[i] EXCEPT ![store] = IF @ >= p THEN @ + 1 ELSE @]]
    /\ UNCHANGED <<repDay, repDecs, repBroken, repGen, repFiles, repSaved, repCalls, repFaults>>

\* The decision service commits a decision; the rows of its chain are among
\* those stored, anywhere in the lists.
DecisionStored ==
    /\ Len(repDecs) < MaxRepDecs
    /\ repDecs' = Append(repDecs, repDay)
    /\ \E last \in [PagedStores -> 1..MaxRepRows] :
          /\ \A store \in PagedStores : last[store] <= repRows[store]
          /\ repPos' = Append(repPos, last)
    /\ UNCHANGED <<repDay, repRows, repBroken, repGen, repFiles, repSaved, repCalls, repFaults>>
-----------------------------------------------------------------------------
\* The generation ends; the cycle goes on to the next type, or sleeps.
Ended(g) ==
    IF g = TheCycle /\ repGen[g].type < Len(ReportTypes)
    THEN [Resting EXCEPT !.at = "next", !.type = repGen[g].type + 1]
    ELSE Resting

\* generate: the decisions are read and give the period.
BeginGenerate(g, k) ==
    repGen' = [repGen EXCEPT ![g] =
        [at |-> "reading", type |-> k, store |-> 1, shown |-> Len(repDecs),
         period |-> ReportPeriod(Len(repDecs)), whole |-> 1..Len(repDecs)]]

\* run_report_cycle visits the tenants that have decisions.
RunReportCycle ==
    /\ \/ repGen[TheCycle].at = "rest" /\ Len(repDecs) > 0
       \/ repGen[TheCycle].at = "next"
    /\ BeginGenerate(TheCycle, repGen[TheCycle].type)
    /\ UNCHANGED <<repDay, repTables, repBroken, repFiles, repSaved, repCalls, repFaults>>

\* generate_handler, past authentication and the choice of the tenant.
GenerateHandler(c) ==
    /\ repGen[c].at = "rest"
    /\ repCalls < MaxRepCalls
    /\ repCalls' = repCalls + 1
    /\ \E k \in 1..Len(ReportTypes) : BeginGenerate(c, k)
    /\ UNCHANGED <<repDay, repTables, repBroken, repFiles, repSaved, repFaults>>

\* build_decision_traces: a decision keeps its whole chain as long as every
\* store read so far held its row.
StillWhole(g) == repGen[g].whole \cap RowsRead(ReportStores[repGen[g].store])

ReadStore(g) ==
    /\ repGen[g].at = "reading"
    /\ repGen[g].store < Len(ReportStores)
    /\ repGen' = [repGen EXCEPT ![g].whole = StillWhole(g), ![g].store = @ + 1]
    /\ UNCHANGED <<repDay, repTables, repBroken, repFiles, repSaved, repCalls, repFaults>>

\* report_id, which the name of the artifact repeats.
ReportId(g) == [type |-> ReportTypes[repGen[g].type], period |-> repGen[g].period]

\* Mutant: the decisions are listed again for the rendering.
RenderedFresh(g) == [shown |-> Len(repDecs), whole |-> repGen[g].whole]

\* _render: the document shows every decision that was read.
Rendered(g) == [shown |-> repGen[g].shown, whole |-> repGen[g].whole]

\* The last store is read; without another await the document is rendered
\* and the artifact of the period overwritten.
WriteArtifact(g) ==
    LET st == [repGen[g] EXCEPT !.whole = StillWhole(g)]
        doc == [Rendered(g) EXCEPT !.whole = StillWhole(g)]
    IN
    /\ repGen[g].at = "reading"
    /\ repGen[g].store = Len(ReportStores)
    /\ ReportTypes[repGen[g].type] \notin repBroken
    /\ repFiles' = {f \in repFiles : f.id # ReportId(g)} \cup {[id |-> ReportId(g), doc |-> doc]}
    /\ repGen' = [repGen EXCEPT ![g] = [st EXCEPT !.at = "saving", !.shown = doc.shown]]
    /\ UNCHANGED <<repDay, repTables, repBroken, repSaved, repCalls, repFaults>>

\* Mutant: the period is computed again when the row is built.
RowIdRecomputed(g) ==
    [type |-> ReportTypes[repGen[g].type], period |-> ReportPeriod(Len(repDecs))]

\* build_report: the identity of the row is that of the artifact.
RowId(g) == ReportId(g)

\* save_report: ON CONFLICT DO NOTHING, so a row of the period stays.
SaveReport(g) ==
    /\ repGen[g].at = "saving"
    /\ repSaved' = IF \E r \in repSaved : r.id = RowId(g) THEN repSaved
                   ELSE repSaved \cup {[id |-> RowId(g), doc |-> Rendered(g)]}
    /\ repGen' = [repGen EXCEPT ![g] = Ended(g)]
    /\ UNCHANGED <<repDay, repTables, repBroken, repFiles, repCalls, repFaults>>

\* Mutant: the exception of one type ends the cycle.
CaughtByCycleLoop(g) == repGen' = [repGen EXCEPT ![g] = Resting]

\* The cycle catches the exception of a type and goes on; a request is
\* answered 500.
Caught(g) == repGen' = [repGen EXCEPT ![g] = Ended(g)]

\* _render raises: no artifact, no row.
RenderRaises(g) ==
    /\ repGen[g].at = "reading"
    /\ repGen[g].store = Len(ReportStores)
    /\ ReportTypes[repGen[g].type] \in repBroken
    /\ Caught(g)
    /\ UNCHANGED <<repDay, repTables, repBroken, repFiles, repSaved, repCalls, repFaults>>

\* A read or the insert raises.
StatementRaises(g) ==
    /\ repGen[g].at \in {"reading", "saving"}
    /\ repFaults < MaxRepFaults
    /\ repFaults' = repFaults + 1
    /\ Caught(g)
    /\ UNCHANGED <<repDay, repTables, repBroken, repFiles, repSaved, repCalls>>

\* The process ends and starts again.
ReportServiceRestarts ==
    /\ repFaults < MaxRepFaults
    /\ repFaults' = repFaults + 1
    /\ repGen' = [g \in Generators |-> Resting]
    /\ UNCHANGED <<repDay, repTables, repBroken, repFiles, repSaved, repCalls>>
-----------------------------------------------------------------------------
Generation(g) == ReadStore(g) \/ WriteArtifact(g) \/ SaveReport(g) \/ RenderRaises(g)

CycleStep == RunReportCycle \/ Generation(TheCycle)

RepNext ==
    \/ DayPasses \/ DecisionStored \/ RunReportCycle \/ ReportServiceRestarts
    \/ \E store \in PagedStores : RowStored(store)
    \/ \E c \in RepClients : GenerateHandler(c)
    \/ \E g \in Generators : Generation(g) \/ StatementRaises(g)

RepSpec == RepInit /\ [][RepNext]_repVars /\ WF_repVars(CycleStep)
-----------------------------------------------------------------------------
\* The rows of decision i are on the first page of every paged store.
OnFirstPages(i) == \A store \in PagedStores : repPos[i][store] <= RepPage

\* In every artifact and every row, a decision is shown with its whole chain
\* as long as its rows are on the first pages, whatever was committed while
\* the stores were read: generate reads the decisions first, and a row only
\* moves away from the first page.  So nothing is missing for a tenant whose
\* tables fit the page; beyond it build_decision_traces drops the rows it
\* does not find without a word.
TraceWhole ==
    \A d \in repFiles \cup repSaved :
        \A i \in 1..d.doc.shown : OnFirstPages(i) => i \in d.doc.whole

\* A row never changes, so decisions of its period can be missing from it for
\* good.  The missing ones were all committed on the last day of the period:
\* report_id leaves the content out, and the period ends with the last commit
\* that was read.
RowMissesOnlyItsLastDay ==
    \A r \in repSaved : \A i \in 1..Len(repDecs) :
        (i > r.doc.shown /\ repDecs[i] <= r.id.period[2]) => repDecs[i] = r.id.period[2]

\* What generate wrote can be relied on: whole chains, and rows that lack at
\* most decisions of their last day.
ReportsSound == TraceWhole /\ RowMissesOnlyItsLastDay

\* Every type that can be rendered ends up with an artifact of the current
\* period that shows every decision, although an older reading may overwrite
\* a newer one meanwhile, types fail before it in the cycle, and the process
\* may restart: run_report_cycle generates again whatever exists.
EventuallyReported ==
    <>[](\A t \in Types : Len(repDecs) > 0 /\ t \notin repBroken =>
           \E f \in repFiles :
              /\ f.id = [type |-> t, period |-> ReportPeriod(Len(repDecs))]
              /\ f.doc.shown = Len(repDecs))
=============================================================================
