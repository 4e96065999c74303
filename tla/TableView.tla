------------------------------ MODULE TableView ------------------------------
(***************************************************************************)
(* A paged table in the browser: the hook useTableData with its debounced  *)
(* search, its filters and its fetch effect, the search box, the page      *)
(* buttons and the filter of the page's URL.  One table is followed at a   *)
(* time.  None of them uses the hook's filters, refresh or next and        *)
(* previous page; they are modelled all the same, as the hook offers them. *)
(*                                                                         *)
(* Rows are numbers in the order the backend sorts them.  A state update   *)
(* and the effect it triggers are one step; a request that the effect      *)
(* cancels is still under way and answered at any time.                    *)
(***************************************************************************)
EXTENDS Integers, FiniteSets

CONSTANTS
    Rows,        \* the rows there may be, numbered
    Terms,       \* what may be typed into the search box
    Filters,     \* the values of a filter
    Hits,        \* the rows that match a term or a filter value
    Everything,  \* the empty search box and the empty filter, which match all rows
    PageSize,    \* pageSize
    MaxInputs    \* bound on the inputs: of the user, and removals of rows

ASSUME TableAssumption ==
    /\ Rows \subseteq Nat /\ IsFiniteSet(Rows)
    /\ Everything \in Terms \cap Filters
    /\ Hits \in [Terms \cup Filters -> SUBSET Rows] /\ Hits[Everything] = Rows
    /\ PageSize \in Nat \ {0} /\ MaxInputs \in Nat

(***************************************************************************)
(* What the tables differ in.                                              *)
(*   filtered: the page's URL holds a filter                               *)
(*   shrinks:  rows are deleted, or renamed so that they match no more     *)
(***************************************************************************)
TableOf(filtered, shrinks) == [filtered |-> filtered, shrinks |-> shrinks]

InventoryTable      == TableOf(FALSE, FALSE)
OutboundTable       == TableOf(TRUE, FALSE)
PurchaseOrdersTable == TableOf(TRUE, FALSE)
TenantsTable        == TableOf(FALSE, TRUE)
PlatformAdminsTable == TableOf(FALSE, TRUE)

AllTables ==
    {InventoryTable, OutboundTable, PurchaseOrdersTable, TenantsTable, PlatformAdminsTable}

VARIABLES
    table,      \* the table that is followed
    listed,     \* the rows in the database
    search,     \* the search box
    debounced,  \* the search the table asks for
    timer,      \* a debounce timer runs
    filters,    \* the hook's filters
    page,       \* the page the table asks for
    requests,   \* fetches under way; one that the effect cancelled is not live
    isLoading, failed,
    shown,      \* the last answer, and the query it answers
    url,        \* the filter in the URL, passed to the table as a property
    inputs,     \* number of inputs so far
    lost,       \* history: rows went away since the table was last on page 1
    blind       \* history: a page was chosen since then under totals that do not hold

tableVars == <<table, listed, search, debounced, timer, filters, page, requests, isLoading, failed,
               shown, url, inputs, lost, blind>>

-----------------------------------------------------------------------------
(* The backend: paginate() with the filters of the list endpoints.         *)

Matching(query) == listed \cap Hits[query.search] \cap Hits[query.filter]

Slice(S, p) ==
    {r \in S : LET rank == Cardinality({x \in S : x <= r})
               IN  (p - 1) * PageSize < rank /\ rank <= p * PageSize}

PagesOf(S) == IF S = {} THEN 1 ELSE (Cardinality(S) + PageSize - 1) \div PageSize

Paginate(query) ==
    LET found == Matching(query)
    IN  [query |-> query, rows |-> Slice(found, query.page),
         total |-> Cardinality(found), totalPages |-> PagesOf(found)]

-----------------------------------------------------------------------------
Queries == [page: Nat, search: Terms, filter: Filters]
Query   == [page |-> page, search |-> debounced, filter |-> filters]

NotYet == [query |-> [page |-> 0, search |-> Everything, filter |-> Everything],
           rows |-> {}, total |-> 0, totalPages |-> 1]

TableInit ==
    /\ table \in AllTables /\ listed = Rows
    /\ search = Everything /\ debounced = Everything /\ timer = TRUE
    /\ filters = Everything /\ page = 1 /\ url = Everything
    /\ requests = {[query |-> Query, live |-> TRUE]}
    /\ isLoading = TRUE /\ failed = FALSE
    /\ shown = NotYet
    /\ inputs = 0 /\ lost = FALSE /\ blind = FALSE

Input == inputs < MaxInputs /\ inputs' = inputs + 1

\* The effect runs again: the request under way is cancelled, another starts.
Fetch ==
    /\ requests' = {[r EXCEPT !.live = FALSE] : r \in requests}
                       \cup {[query |-> Query', live |-> TRUE]}
    /\ isLoading' = TRUE
    /\ failed' = FALSE

\* The effect runs again if one of its dependencies changed.
FetchIfChanged ==
    IF Query' = Query THEN UNCHANGED <<requests, isLoading, failed>> ELSE Fetch

FaultyResetPage == UNCHANGED <<page, lost, blind>>

ResetPage == page' = 1 /\ lost' = FALSE /\ blind' = FALSE

-----------------------------------------------------------------------------
(* The hook's operations.                                                  *)

SetSearch(term) ==
    /\ Input
    /\ term # search
    /\ search' = term /\ timer' = TRUE
    /\ UNCHANGED <<table, listed, debounced, filters, page, requests, isLoading, failed, shown, url,
                   lost, blind>>

\* The timer runs once on mount as well.
DebounceFires ==
    /\ timer
    /\ timer' = FALSE
    /\ debounced' = search
    /\ UNCHANGED <<table, listed, search, filters, shown, url, inputs>>
    /\ ResetPage
    /\ FetchIfChanged

SetFilter(value) ==
    /\ Input
    /\ filters' = value
    /\ UNCHANGED <<table, listed, search, debounced, timer, shown, url>>
    /\ ResetPage
    /\ Fetch

\* Emptying the box restarts the timer if there was something in it.
ClearFilters ==
    /\ Input
    /\ filters' = Everything /\ search' = Everything /\ debounced' = Everything
    /\ timer' = (timer \/ search # Everything)
    /\ UNCHANGED <<table, listed, shown, url>>
    /\ ResetPage
    /\ Fetch

Refresh ==
    /\ Input
    /\ UNCHANGED <<table, listed, search, debounced, timer, filters, page, shown, url, lost, blind>>
    /\ Fetch

\* The totals on the screen are those of the search asked for, and still right.
TotalsHold ==
    /\ shown.query.search = debounced /\ shown.query.filter = filters
    /\ shown.totalPages = PagesOf(Matching(Query))

\* Another page, chosen under the totals on the screen.
MoveTo(p) ==
    /\ Input
    /\ page' = p
    /\ blind' = (blind \/ ~TotalsHold)
    /\ UNCHANGED <<table, listed, search, debounced, timer, filters, shown, url, lost>>
    /\ FetchIfChanged

NextPage == MoveTo(IF page + 1 <= shown.totalPages THEN page + 1 ELSE shown.totalPages)

FaultyPrevPage == MoveTo(page - 1)

PrevPage == MoveTo(IF page > 1 THEN page - 1 ELSE 1)

-----------------------------------------------------------------------------
(* The page buttons.                                                       *)

\* The numbers between the arrows: all of a few pages, else the ends and the
\* neighbours of the current one.
PageNumbers(current, pages) ==
    IF pages <= 7 THEN 1..pages
    ELSE {1, pages} \cup {i \in (current - 1)..(current + 1) : 2 <= i /\ i < pages}

\* What the bar offers; it is empty without rows and has no buttons on one page.
Offered ==
    IF shown.total = 0 \/ shown.totalPages <= 1 THEN {}
    ELSE PageNumbers(page, shown.totalPages)
             \cup (IF page = 1 THEN {} ELSE {1, page - 1})
             \cup (IF page = shown.totalPages THEN {} ELSE {page + 1, shown.totalPages})

GoToPage(p) == p \in Offered /\ MoveTo(p)

\* QueryFilterSelect replaces the URL; the page is rendered again with another
\* property, which the table's query does not include.
HandleChange(value) ==
    /\ Input
    /\ table.filtered /\ value # url
    /\ url' = value
    /\ UNCHANGED <<table, listed, search, debounced, timer, filters, page, requests, isLoading,
                   failed,
                   shown, lost, blind>>

-----------------------------------------------------------------------------
(* The network and the other users.                                        *)

FaultyApplies(r) == TRUE

\* The effect that sent the request has not been cleaned up since.
Applies(r) == r.live

Arrives(r) ==
    /\ r \in requests
    /\ requests' = requests \ {r}
    /\ shown' = IF Applies(r) THEN Paginate(r.query) ELSE shown
    /\ isLoading' = (isLoading /\ ~Applies(r))
    /\ UNCHANGED <<table, listed, search, debounced, timer, filters, page, failed, url, inputs,
                   lost,
                   blind>>

FaultyStopsLoading(r) == FALSE

\* The finally block.
StopsLoading(r) == r.live

Fails(r) ==
    /\ r \in requests
    /\ requests' = requests \ {r}
    /\ failed' = (failed \/ Applies(r))
    /\ isLoading' = (isLoading /\ ~StopsLoading(r))
    /\ UNCHANGED <<table, listed, search, debounced, timer, filters, page, shown, url, inputs, lost,
                   blind>>

\* A row is deleted, or changes so that it matches nothing any more.
RowGoes(x) ==
    /\ Input
    /\ table.shrinks /\ x \in listed
    /\ listed' = listed \ {x}
    /\ lost' = TRUE
    /\ UNCHANGED <<table, search, debounced, timer, filters, page, requests, isLoading, failed,
                   shown, url, blind>>

-----------------------------------------------------------------------------
TableNext ==
    \/ \E term \in Terms : SetSearch(term)
    \/ \E value \in Filters : SetFilter(value) \/ HandleChange(value)
    \/ \E p \in 0..(Cardinality(Rows) + MaxInputs + 1) : GoToPage(p)
    \/ NextPage \/ PrevPage \/ ClearFilters \/ Refresh
    \/ DebounceFires
    \/ \E r \in requests : Arrives(r) \/ Fails(r)
    \/ \E x \in Rows : RowGoes(x)

\* The timer fires and a request ends.
TableFairness ==
    /\ WF_tableVars(DebounceFires)
    /\ WF_tableVars(\E r \in requests : Arrives(r) \/ Fails(r))

TableSpec == TableInit /\ [][TableNext]_tableVars /\ TableFairness

-----------------------------------------------------------------------------
TableTypeOK ==
    /\ table \in AllTables /\ listed \subseteq Rows
    /\ {search, debounced} \subseteq Terms /\ {filters, url} \subseteq Filters
    /\ page \in Nat \ {0}
    /\ requests \subseteq [query: Queries, live: BOOLEAN]
    /\ shown \in [query: Queries, rows: SUBSET Rows, total: Nat, totalPages: Nat]
    /\ {timer, isLoading, failed, lost, blind} \subseteq BOOLEAN /\ inputs \in 0..MaxInputs

\* However the answers are reordered, once the table stops loading without an
\* error its rows answer the search, filter and page chosen last; and the user
\* is beyond the last page, where there are no rows and perhaps no buttons, only
\* after rows went away or after a click under totals that no longer held.
ShowsWhatWasAsked ==
    ~isLoading /\ ~failed =>
        /\ shown.query = Query
        /\ page > shown.totalPages => lost \/ blind

\* When the inputs end the table comes to rest: the typed search is the one
\* asked for, and its answer or an error is on the screen.
Settles == <>[](~isLoading /\ debounced = search /\ (failed \/ shown.query = Query))

=============================================================================
