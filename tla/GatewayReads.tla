---------------------------- MODULE GatewayReads ----------------------------
(***************************************************************************)
(* The paged lists of the gateway's read stores and the console that walks *)
(* them.  A list method counts the rows, reads one page and adds the       *)
(* facets, three statements in READ COMMITTED, the facets from a cache of  *)
(* FACETS_CACHE_TTL seconds; the console asks for the page at the next     *)
(* offset until offset + limit reaches the total of the last answer.       *)
(* Meanwhile rows are inserted, and the columns that other services update *)
(* change.                                                                 *)
(*                                                                         *)
(* Rows are kept newest first; a row is its number and its value of the    *)
(* column filtered by, "a" or "b".  A row may be inserted anywhere: its    *)
(* timestamp is taken before its transaction commits, by any service.      *)
(***************************************************************************)
EXTENDS Naturals, Sequences, FiniteSets, SequencesExt

CONSTANTS
    WalkedLists,   \* the lists walked
    ListLimit,     \* limit of a request
    FacetTTL,      \* FACETS_CACHE_TTL
    MaxListRows,   \* bound: rows
    MaxListMoves   \* bound: updates

ASSUME ListAssumption ==
    /\ ListLimit \in Nat \ {0} /\ FacetTTL \in Nat \ {0}

VARIABLES
    listWalk,    \* the list, filter and sort, and the progress of the walk
    listRows,    \* the tenant's rows of the table, newest first
    listCache,   \* FacetsCache: the age of the entry and its values
    listGone,    \* for each value, how long no row has had it
    listMoves    \* updates so far

listVars == <<listWalk, listRows, listCache, listGone, listMoves>>
-----------------------------------------------------------------------------
(* For each list: the filters on columns that never change, those on       *)
(* columns that other services update, the columns with facets, and those *)
(* of them whose facet is a fixed list of choices, whatever rows there are. *)
ObservationsList == [fixed |-> {"fact_type", "source_type", "quality_class"}, live |-> {},
                     facets |-> {"fact_type", "source_type", "quality_class"}, choices |-> {}]

EvidenceList == [fixed |-> {"organization_type", "quality_class"}, live |-> {},
                 facets |-> {"organization_type", "quality_class"}, choices |-> {"quality_class"}]

ContextsList == [fixed |-> {"purpose", "mental_model_id"}, live |-> {"is_active"},
                 facets |-> {"purpose", "mental_model_id", "is_active"}, choices |-> {"is_active"}]

PatternsList == [fixed |-> {"pattern_type"}, live |-> {"is_active"},
                 facets |-> {"pattern_type", "is_active"}, choices |-> {"is_active"}]

AnomaliesList == [fixed |-> {"anomaly_class"}, live |-> {}, facets |-> {"anomaly_class"},
                  choices |-> {}]

HypothesesList == [fixed |-> {}, live |-> {"status"}, facets |-> {"status"},
                   choices |-> {}]

InsightsList == [fixed |-> {}, live |-> {}, facets |-> {"hypothesis_ids", "context_id"},
                 choices |-> {}]

ConfidenceList == [fixed |-> {"target_type"}, live |-> {}, facets |-> {"target_type"},
                   choices |-> {}]

RecommendationsList == [fixed |-> {}, live |-> {"status"}, facets |-> {"status"},
                        choices |-> {}]

DecisionsList == [fixed |-> {}, live |-> {"status"}, facets |-> {"status"},
                  choices |-> {}]

ReportsList == [fixed |-> {"report_type"}, live |-> {}, facets |-> {"report_type"},
                choices |-> {}]

AuditList == [fixed |-> {"user_id", "cognitive_layer", "cognitive_concept", "action", "date"},
              live |-> {}, facets |-> {"cognitive_layer", "cognitive_concept", "action"},
              choices |-> {}]

Listing ==
    [observations |-> ObservationsList, evidence |-> EvidenceList, contexts |-> ContextsList,
     patterns |-> PatternsList, anomalies |-> AnomaliesList, hypotheses |-> HypothesesList,
     insights |-> InsightsList, confidence |-> ConfidenceList,
     recommendations |-> RecommendationsList, decisions |-> DecisionsList,
     reports |-> ReportsList, audit |-> AuditList]

NoFilter == "none"
ListValues == {"a", "b"}
Columns(l) == Listing[l].fixed \cup Listing[l].live
AllColumns == {NoFilter} \cup UNION {Columns(l) : l \in WalkedLists}

\* The values of the filtered column; whether other services update it,
\* whether it has facets, and whether they are fixed.
ValuesOf == IF listWalk.col = NoFilter THEN {"a"} ELSE ListValues
IsLive == listWalk.col \in Listing[listWalk.list].live
HasFacet == listWalk.col \in Listing[listWalk.list].facets
HasChoices == listWalk.col \in Listing[listWalk.list].choices
-----------------------------------------------------------------------------
\* WHERE: every row without a filter, else those with the value asked for.
Listed(row) == listWalk.col = NoFilter \/ row.v = listWalk.want

IdsListed(rows) == {rows[i].id : i \in {j \in 1..Len(rows) : Listed(rows[j])}}

ListedIds == IdsListed(listRows)

\* The chosen of SORT_CLAUSES.
Precedes(x, y) ==
    \E i, j \in 1..Len(listRows) :
        /\ listRows[i].id = x /\ listRows[j].id = y
        /\ IF listWalk.sort = "desc" THEN i < j ELSE j < i

\* LIMIT :limit OFFSET :offset, by the number of rows that come before.
PageAt(offset) == offset .. offset + ListLimit - 1

\* Mutant: the page is cut before the filter is applied.
PageOfRowsUnfiltered(offset) ==
    {x \in ListedIds :
        Cardinality({y \in 1..Len(listRows) : Precedes(y, x)}) \in PageAt(offset)}

\* SELECT_BASE: the listed rows in order, and the page of them.
PageOfRows(offset) ==
    {x \in ListedIds : Cardinality({y \in ListedIds : Precedes(y, x)}) \in PageAt(offset)}

DistinctValues == {listRows[i].v : i \in 1..Len(listRows)}

NoEntry == [age |-> FacetTTL, values |-> {}]

ListInit ==
    /\ listWalk \in [list : WalkedLists, sort : {"desc", "asc"}, want : ListValues,
                     col : AllColumns,
                     at : {"rest"}, offset : {0}, total : {0},
                     seen : {{}}, due : {{}}, left : {FALSE}, slipped : {FALSE}]
    /\ listWalk.col \in Columns(listWalk.list) \cup {NoFilter}
    /\ listWalk.col = NoFilter => listWalk.want = "a"
    /\ listRows = <<>>
    /\ listCache = NoEntry
    /\ listGone = [v \in ListValues |-> FacetTTL]
    /\ listMoves = 0
-----------------------------------------------------------------------------
\* Environment.  due: the rows that were listed when the walk began and still
\* are; left: some row left the list; slipped: a row came between the
\* statements of a request.
Watched(rows) ==
    LET ids == IdsListed(rows) IN
    [listWalk EXCEPT !.due = @ \cap ids,
                     !.left = @ \/ (ListedIds \ ids) # {},
                     !.slipped = @ \/ (listWalk.at = "counted" /\ (ids \ ListedIds) # {})]

\* A value that no row has any more starts to age.
GoneFor(rows) ==
    [v \in ListValues |-> IF \E i \in 1..Len(rows) : rows[i].v = v THEN 0 ELSE listGone[v]]

RowInserted ==
    /\ Len(listRows) < MaxListRows
    /\ \E p \in 1..(Len(listRows) + 1), v \in ValuesOf :
        LET rows == InsertAt(listRows, p, [id |-> Len(listRows) + 1, v |-> v]) IN
        /\ listRows' = rows
        /\ listWalk' = Watched(rows)
        /\ listGone' = GoneFor(rows)
    /\ UNCHANGED <<listCache, listMoves>>

\* A service updates the column: a lifecycle moves one way.
RowUpdated ==
    /\ IsLive
    /\ listMoves < MaxListMoves
    /\ listMoves' = listMoves + 1
    /\ \E i \in 1..Len(listRows) :
        LET rows == [listRows EXCEPT ![i].v = "b"] IN
        /\ listRows[i].v = "a"
        /\ listRows' = rows
        /\ listWalk' = Watched(rows)
        /\ listGone' = GoneFor(rows)
    /\ UNCHANGED listCache

Aging(n) == IF n < FacetTTL THEN n + 1 ELSE FacetTTL

SecondPasses ==
    /\ listCache' = [listCache EXCEPT !.age = Aging(@)]
    /\ listGone' = [v \in ListValues |-> IF v \in DistinctValues THEN 0 ELSE Aging(listGone[v])]
    /\ UNCHANGED <<listWalk, listRows, listMoves>>
-----------------------------------------------------------------------------
\* The console opens the list: offset 0.
OpenList ==
    /\ listWalk.at \in {"rest", "shown"}
    /\ listWalk' = [listWalk EXCEPT !.at = "asked", !.offset = 0, !.total = 0, !.seen = {},
                                    !.due = ListedIds, !.left = FALSE, !.slipped = FALSE]
    /\ UNCHANGED <<listRows, listCache, listGone, listMoves>>

\* COUNT_BASE.
CountRows ==
    /\ listWalk.at = "asked"
    /\ listWalk' = [listWalk EXCEPT !.at = "counted", !.total = Cardinality(ListedIds)]
    /\ UNCHANGED <<listRows, listCache, listGone, listMoves>>

\* SELECT_BASE with LIMIT and OFFSET.
SelectPage ==
    /\ listWalk.at = "counted"
    /\ listWalk' = [listWalk EXCEPT !.at = "selected",
                                    !.seen = @ \cup PageOfRows(listWalk.offset)]
    /\ UNCHANGED <<listRows, listCache, listGone, listMoves>>

\* Mutant: an entry is never too old.
CachedForever == listCache # NoEntry

\* FacetsCache.get: time.monotonic() - ts < ttl.
Cached == listCache.age < FacetTTL

\* Mutant: the choices of a column with a fixed list are taken from the rows.
FacetValuesOfRows == IF HasFacet THEN DistinctValues ELSE {}

\* The distinct values of the rows (FACETS_SQL), or the fixed choices.
FacetValues ==
    CASE HasChoices -> ListValues
      [] HasFacet /\ ~HasChoices -> DistinctValues
      [] OTHER -> {}

\* _facets, from the cache or anew, and the answer.  Next is enabled while
\* offset + limit < total.
AnswerList ==
    LET more == listWalk.offset + ListLimit < listWalk.total IN
    /\ listWalk.at = "selected"
    /\ listCache' = IF Cached THEN listCache ELSE [age |-> 0, values |-> FacetValues]
    /\ listWalk' = [listWalk EXCEPT !.at = IF more THEN "asked" ELSE "shown",
                                    !.offset = IF more THEN @ + ListLimit ELSE @]
    /\ UNCHANGED <<listRows, listGone, listMoves>>

ListNext ==
    \/ RowInserted \/ RowUpdated \/ SecondPasses
    \/ OpenList \/ CountRows \/ SelectPage \/ AnswerList

ListSpec == ListInit /\ [][ListNext]_listVars
-----------------------------------------------------------------------------
\* A row that was listed from the first page to the last is shown to a client
\* that asks for every page, in either order and wherever rows are inserted
\* meanwhile, with two exceptions: a row left the list, which only a filter on
\* an updated column allows, or a row entered it between COUNT_BASE and
\* SELECT_BASE of one request.
WalkLosesNothing ==
    listWalk.at = "shown" =>
        \/ listWalk.due \subseteq listWalk.seen
        \/ listWalk.slipped
        \/ listWalk.left /\ IsLive

\* The filter choices a list offers are values of real rows: of a row now, or
\* within the last FacetTTL seconds if the column is updated (_facets: "real
\* values, not invented options").  Only a column with a fixed list of choices
\* (is_active, the evidence's quality_class) is offered values that no row
\* has, and in return no value of a row is ever missing from it, as one can be
\* from the others for as long as the cache lives.
FacetsReal ==
    AnswerList =>
        IF HasChoices THEN DistinctValues \subseteq listCache'.values
        ELSE \A v \in listCache'.values :
                v \in DistinctValues \/ (IsLive /\ listGone[v] < FacetTTL)

\* A client that walks a list is shown its rows, and choices that are real or
\* fixed.
ListsHonest == [][WalkLosesNothing' /\ FacetsReal]_listVars
=============================================================================
