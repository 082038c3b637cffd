----------------------------- MODULE DataTable -----------------------------
(***************************************************************************)
(* The server-backed tables of the administration pages: useDataTable keeps *)
(* the page and the filters in the URL, the toolbar's filter controls write *)
(* the table's own filter state at once and, through a debounced callback,   *)
(* the URL; the server renders the rows of the URL it was asked for.  Sorting *)
(* (no header offers it), row selection, column visibility and drag handles  *)
(* are left out.                                                             *)
(***************************************************************************)
EXTENDS Naturals, Sequences

CONSTANTS DtColumns,    \* the columns with enableColumnFilter
          DtKind,       \* of each, meta.variant
          HasId,        \* the columns whose definition has an explicit id
          Texts,        \* texts a user types
          Joined,       \* of each text, its words with commas between them
          Options,      \* meta.options of a select column
          Highest,      \* a range, or a date, is in 0..Highest
          PageCount, PageSizes,
          MaxDtTurns,   \* bound: what the user does
          NoFilter

VARIABLES dtFilters,    \* columnFilters, what the controls show
          dtDue,        \* the updates the debounce timer will write
          dtUrl,        \* the query string: page, perPage, filters
          dtShown,      \* the query string whose rows the server rendered last
          dtDropped,    \* history: columns whose clearing a later change replaced
          dtPagedUnder, \* history: the filters under which a page was chosen last
          dtTurns

dtVars == <<dtFilters, dtDue, dtUrl, dtShown, dtDropped, dtPagedUnder, dtTurns>>

Ranges == {r \in (0..Highest) \X (0..Highest) : r[1] <= r[2]}
ValuesOf(c) == CASE DtKind[c] \in {"text", "number"} -> Texts
                 [] DtKind[c] \in {"select", "multiSelect"} -> (SUBSET Options) \ {{}}
                 [] DtKind[c] \in {"range", "dateRange"} -> Ranges
                 [] DtKind[c] = "date" -> 0..Highest

\* A text has a letter or a digit in it, so splitting and joining it gives a text, which
\* splits and joins to itself.
ASSUME DtAssumption ==
    /\ HasId \subseteq DtColumns /\ Highest \in Nat /\ PageCount \in Nat /\ PageSizes \subseteq Nat \ {0}
    /\ DtKind \in [DtColumns -> {"text", "number", "select", "multiSelect", "range", "dateRange", "date"}]
    /\ \A text \in Texts : Joined[text] \in Texts /\ Joined[Joined[text]] = Joined[text]
    /\ \A c \in DtColumns : \A v \in ValuesOf(c) :
         v # NoFilter /\ \A b \in BOOLEAN : [value |-> v, typed |-> b] # NoFilter

\* A value of the query string as initialColumnFilters takes it: a text of several
\* words becomes their list, which a text field shows, and later writes, with commas.
Reread(c, value) == IF DtKind[c] \in {"text", "number"} THEN Joined[value] ELSE value
initialColumnFilters == [c \in DtColumns |->
    IF c \notin HasId THEN NoFilter
    ELSE IF dtUrl.filters[c] = NoFilter THEN NoFilter
    ELSE [value |-> Reread(c, dtUrl.filters[c]), typed |-> FALSE]]

DtInit ==
    /\ dtUrl \in [page : {1}, perPage : PageSizes, filters : [HasId -> {NoFilter}]]
    /\ dtFilters = [c \in DtColumns |-> NoFilter]
    /\ dtShown = dtUrl
    /\ dtPagedUnder = dtUrl.filters
    /\ dtDue = <<>> /\ dtDropped = {} /\ dtTurns = 0

\* Mutant: a filter that was taken away is not in the update.
OnlyAdds(prev, next) == [c \in {d \in DtColumns : next[d] # NoFilter /\ d \in HasId} |-> next[c]]

\* The filters there are, of columns isFilterableColumn knows by their id, and the ones just gone.
processColumnFilters(prev, next) ==
    [c \in {d \in DtColumns : \/ next[d] # NoFilter /\ d \in HasId
                              \/ prev[d] # NoFilter /\ next[d] = NoFilter} |-> next[c]]

\* The timer starts again with the newest updates alone: what it held is forgotten.
debouncedSetFilterValues(updates) ==
    /\ dtDue' = <<updates>>
    /\ dtDropped' = dtDropped \cup
         {c \in HasId : /\ dtDue # <<>>
                        /\ c \in DOMAIN dtDue[1] /\ dtDue[1][c] = NoFilter
                        /\ c \notin DOMAIN updates}

onColumnFiltersChange(next) ==
    /\ dtFilters' = next
    /\ debouncedSetFilterValues(processColumnFilters(dtFilters, next))

Turn == dtTurns < MaxDtTurns /\ dtTurns' = dtTurns + 1

\* column.setFilterValue: undefined, and the empty text, take the filter away.
setFilterValue(c, value) ==
    /\ Turn
    /\ onColumnFiltersChange([dtFilters EXCEPT ![c] =
         IF value = NoFilter THEN NoFilter ELSE [value |-> value, typed |-> TRUE]])
    /\ UNCHANGED <<dtUrl, dtShown, dtPagedUnder>>

DataTableToolbarFilter(c) ==
    /\ DtKind[c] \in {"text", "number"}
    /\ \E value \in Texts \cup {NoFilter} : setFilterValue(c, value)

selectedValues(c) == IF dtFilters[c] = NoFilter THEN {} ELSE dtFilters[c].value

onItemSelect(c) ==
    /\ DtKind[c] \in {"select", "multiSelect"}
    /\ \E option \in Options :
         LET picked == CASE option \in selectedValues(c) /\ DtKind[c] = "multiSelect" -> selectedValues(c) \ {option}
                         [] option \notin selectedValues(c) /\ DtKind[c] = "multiSelect" -> selectedValues(c) \cup {option}
                         [] option \in selectedValues(c) /\ DtKind[c] = "select" -> {}
                         [] OTHER -> {option}
         IN setFilterValue(c, IF picked = {} THEN NoFilter ELSE picked)

\* A range read back from the query string is a list of texts: getIsValidRange
\* refuses it, and the slider shows the whole range.
getIsValidRange(c) == dtFilters[c] # NoFilter /\ dtFilters[c].typed
rangeOf(c) == IF getIsValidRange(c) THEN dtFilters[c].value ELSE <<0, Highest>>

onFromInputChange(c) ==
    /\ DtKind[c] = "range"
    /\ \E n \in 0..rangeOf(c)[2] : setFilterValue(c, <<n, rangeOf(c)[2]>>)
onToInputChange(c) ==
    /\ DtKind[c] = "range"
    /\ \E n \in rangeOf(c)[1]..Highest : setFilterValue(c, <<rangeOf(c)[1], n>>)
onSliderValueChange(c) ==
    /\ DtKind[c] = "range"
    /\ \E r \in Ranges : setFilterValue(c, r)

\* The calendar: a day, or two; the day chosen already takes the filter away.
onSelect(c) ==
    /\ DtKind[c] \in {"date", "dateRange"}
    /\ \E value \in ValuesOf(c) \cup {NoFilter} : setFilterValue(c, value)

\* The cross of a control.
onResetColumn(c) ==
    /\ DtKind[c] \notin {"text", "number"} /\ dtFilters[c] # NoFilter
    /\ setFilterValue(c, NoFilter)

\* The toolbar's Reset, there when anything is filtered.
onReset ==
    /\ \E c \in DtColumns : dtFilters[c] # NoFilter
    /\ Turn
    /\ onColumnFiltersChange([c \in DtColumns |-> NoFilter])
    /\ UNCHANGED <<dtUrl, dtShown, dtPagedUnder>>

\* The timer fires: the first page, under the updated filters.
DebounceEnds ==
    /\ dtDue # <<>>
    /\ dtUrl' = [dtUrl EXCEPT !.page = 1,
                              !.filters = [c \in HasId |->
                                 IF c \notin DOMAIN dtDue[1] THEN @[c]
                                 ELSE IF dtDue[1][c] = NoFilter THEN NoFilter ELSE dtDue[1][c].value]]
    /\ dtDropped' = dtDropped \ DOMAIN dtDue[1]
    /\ dtDue' = <<>>
    /\ UNCHANGED <<dtFilters, dtShown, dtPagedUnder, dtTurns>>

\* Mutant: react-table's page index, which counts from 0, goes into the query string as it is.
WritesPageIndex ==
    /\ Turn
    /\ \E size \in PageSizes :
          dtUrl' = [dtUrl EXCEPT !.perPage = size, !.page = ((dtUrl.page - 1) * dtUrl.perPage) \div size]
    /\ dtPagedUnder' = dtUrl.filters
    /\ UNCHANGED <<dtFilters, dtDue, dtShown, dtDropped>>

\* The four buttons and the page size, which keeps the first row in view.
onPaginationChange ==
    /\ Turn
    /\ \/ \E page \in {1, PageCount, dtUrl.page - 1, dtUrl.page + 1} :
            /\ page \in (1..PageCount) \ {dtUrl.page}
            /\ dtUrl' = [dtUrl EXCEPT !.page = page]
       \/ \E size \in PageSizes :
            dtUrl' = [dtUrl EXCEPT !.perPage = size,
                                   !.page = (((dtUrl.page - 1) * dtUrl.perPage) \div size) + 1]
    /\ dtPagedUnder' = dtUrl.filters
    /\ UNCHANGED <<dtFilters, dtDue, dtShown, dtDropped>>

\* shallow: false, the server component reads the query string and renders its rows.
ServerRenders ==
    /\ dtShown # dtUrl
    /\ dtShown' = dtUrl
    /\ UNCHANGED <<dtFilters, dtDue, dtUrl, dtDropped, dtPagedUnder, dtTurns>>

\* A reload mounts the table again over the query string; the timer is cleared.
Mounts ==
    /\ Turn
    /\ dtFilters' = initialColumnFilters
    /\ dtDue' = <<>> /\ dtDropped' = {}
    /\ dtShown' = dtUrl
    /\ UNCHANGED <<dtUrl, dtPagedUnder>>

DtNext ==
    \/ \E c \in DtColumns : \/ DataTableToolbarFilter(c) \/ onItemSelect(c) \/ onFromInputChange(c)
                            \/ onToInputChange(c) \/ onSliderValueChange(c) \/ onSelect(c)
                            \/ onResetColumn(c)
    \/ onReset \/ DebounceEnds \/ onPaginationChange \/ ServerRenders \/ Mounts

DtSpec == DtInit /\ [][DtNext]_dtVars

-----------------------------------------------------------------------------

DtTypeOK ==
    /\ \A c \in DtColumns : dtFilters[c] # NoFilter => dtFilters[c].value \in ValuesOf(c)
    /\ \A c \in HasId : dtUrl.filters[c] \in ValuesOf(c) \cup {NoFilter}
    /\ dtUrl.page \in Nat \ {0}

\* Once the timer has fired, a filter a control shows is the query string's (a
\* re-read text up to its separators), the query string filters by nothing the
\* controls do not show (except where a clearing was replaced within the debounce
\* time by another change), and a page after the first was chosen under the
\* filters that are in force.
UrlFollowsControls ==
    /\ dtDue = <<>> => \A c \in HasId :
         LET shown == dtFilters[c]  asked == dtUrl.filters[c] IN
         IF shown = NoFilter THEN asked = NoFilter \/ c \in dtDropped
         ELSE asked # NoFilter /\ Reread(c, asked) = Reread(c, shown.value)
    /\ dtUrl.page > 1 => dtPagedUnder = dtUrl.filters
=============================================================================
