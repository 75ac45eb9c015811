--------------------------- MODULE ContainersList ---------------------------
(***************************************************************************)
(* The container list of the dashboard: the query that holds it, kept      *)
(* fresh by the event stream, by polling and by the user; and the view of  *)
(* it: filters, sort order, groups and pages, all kept in the URL.         *)
(*                                                                         *)
(* A container is a number, its time of creation; a container recreated    *)
(* under its name keeps the number.                                        *)
(***************************************************************************)
EXTENDS Integers, Sequences, FiniteSets, SequencesExt

CONSTANTS
    Containers,     \* a set of numbers
    HostOf,         \* the host of each container
    ProjectOf,      \* its compose project, or "Standalone"
    Named,          \* the containers the search text fits
    PageSizes,      \* the sizes the page offers
    MaxChanges,     \* bound: lifecycle changes on the hosts
    MaxListActs     \* bound: what the user does

ASSUME ListAssumption ==
    /\ IsFiniteSet(Containers) /\ Containers \subseteq Nat
    /\ PageSizes \subseteq Nat \ {0} /\ PageSizes # {}

VARIABLES
    onHost,         \* the state of each container, "gone" if removed
    stored,         \* removed containers with stored logs, as last read
    stream,         \* the event stream: "hidden", "down" or "open"
    events,         \* events on their way to the page: the changes they tell of
    debounce,       \* is the invalidation timer running
    fetch,          \* the list request in flight
    list,           \* the list shown: what the hosts said, or NoList
    asOf,           \* history: the changes the list shown had seen
    failed,         \* the last request failed
    search, dateRange, stateFilter, hostFilter, sort, groupBy, pageNo, pageSize,    \* the URL
    link,           \* history: the page of the link that was opened
    heard,          \* history: the last change a delivered event told of
    changes, listActs

urlState == <<search, dateRange, stateFilter, hostFilter, sort, groupBy, pageNo, pageSize>>
query == <<debounce, fetch, list, asOf, failed>>
clVars == <<onHost, stored, stream, events, query, urlState, link, heard, changes, listActs>>

NoList == [c \in {} |-> "gone"]
Loaded == list # NoList
Idle == [phase |-> "idle", snap |-> NoList, upto |-> 0]
Sent == [phase |-> "sent", snap |-> NoList, upto |-> 0]
States == {"running", "exited"}
NoRange == [from |-> 0, to |-> 0]

-----------------------------------------------------------------------------
(* The view.                                                               *)
liveContainers == {c \in DOMAIN list : list[c] # "gone"}

\* Stored containers that are gone, unless the list has the name.
synthesizeRemovedContainers == stored \ liveContainers
StateOf(c) == IF c \in liveContainers THEN list[c] ELSE "removed"

\* Removed containers are listed only when asked for.
selectVisibleContainers ==
    IF stateFilter = "removed" THEN synthesizeRemovedContainers ELSE liveContainers
\* A range has a first and a last day, 0 if open; without either it is none.
matchesFilters(c) ==
    /\ search # "" => c \in Named
    /\ hostFilter \in {"all", HostOf[c]}
    /\ c >= dateRange.from /\ (dateRange.to # 0 => c <= dateRange.to)
matchesState(c) == stateFilter \in {"all", StateOf(c)}

\* The rows the filters let through.
Passing == {c \in selectVisibleContainers : matchesFilters(c) /\ matchesState(c)}

\* A list of containers in the order chosen.
Sorted(rows) ==
    \A i, j \in DOMAIN rows :
        i < j => IF sort = "desc" THEN rows[i] > rows[j] ELSE rows[i] < rows[j]
filteredContainers == CHOOSE rows \in [1 .. Cardinality(Passing) -> Passing] : Sorted(rows)

\* Mutant: the last, partly filled page is forgotten.
FullPages ==
    IF Len(filteredContainers) < pageSize THEN 1 ELSE Len(filteredContainers) \div pageSize

totalPages ==
    IF filteredContainers = <<>> THEN 1
    ELSE (Len(filteredContainers) + pageSize - 1) \div pageSize

\* Array.slice counts a negative start from the end.
Slice(s, from, to) ==
    LET at(i) == IF i < 0 THEN (IF Len(s) + i < 0 THEN 0 ELSE Len(s) + i)
                 ELSE IF i > Len(s) THEN Len(s) ELSE i
    IN SubSeq(s, at(from) + 1, at(to))
PageItems(p) == Slice(filteredContainers, (p - 1) * pageSize, p * pageSize)
pageItems == PageItems(pageNo)

\* The rows of each project, by their places on the page.
groupByCompose(items) ==
    [p \in {ProjectOf[items[i]] : i \in DOMAIN items} |->
        {i \in DOMAIN items : ProjectOf[items[i]] = p}]

\* Mutant: removed containers are not counted under their own name.
CountLive(s) ==
    Cardinality({c \in liveContainers : matchesFilters(c) /\ list[c] = s})

\* The chips: filtered by everything but the state.
countContainerStates(s) ==
    Cardinality({c \in IF s = "removed" THEN synthesizeRemovedContainers
                       ELSE {c \in liveContainers : list[c] = s} : matchesFilters(c)})
availableStates ==
    {list[c] : c \in liveContainers}
        \cup (IF synthesizeRemovedContainers = {} THEN {} ELSE {"removed"})

\* The row a request that failed, or is the first, is shown instead of rows.
showsRows == Loaded /\ ~failed

\* What the toolbar's menus and the chips offer.  A chip pressed again takes
\* the filter back.
Toolbar ==
    [hosts |-> {HostOf[c] : c \in Containers} \cup {"all"},
     states |-> availableStates \cup {"all"},
     ranges |-> {[from |-> 2, to |-> 0], [from |-> 2, to |-> 2], NoRange}]
offersChips ==
    {IF s = stateFilter THEN "all" ELSE s :
        s \in {t \in States \cup {"removed"} : countContainerStates(t) > 0}}

\* The page numbers the pagination offers.
offersPage ==
    IF totalPages <= 7 THEN 1 .. totalPages
    ELSE {1, totalPages, pageNo - 1, pageNo, pageNo + 1} \cap 1 .. totalPages

-----------------------------------------------------------------------------
LowestSize == CHOOSE n \in PageSizes : \A m \in PageSizes : n <= m

\* The dashboard as it mounts, with the page of its URL.
DashboardMounts(hosts, page, acts) ==
    /\ onHost = hosts /\ pageNo = page /\ link = page
    /\ stored = {}
    /\ stream = "down" /\ events = <<>>
    /\ debounce = FALSE /\ fetch = Sent /\ list = NoList /\ failed = FALSE
    /\ asOf = 0 /\ search = "" /\ dateRange = NoRange
    /\ stateFilter = "all" /\ hostFilter = "all"
    /\ sort = "desc" /\ groupBy = "none"
    /\ pageSize = LowestSize
    /\ heard = 0 /\ changes = 0 /\ listActs = acts

ContainersListInit ==
    \E page \in {0, 2} : DashboardMounts([c \in Containers |-> "running"], page, 0)

\* A container starts, stops, is removed or recreated.  The page hears of
\* it while the stream is open.
Change ==
    \E c \in Containers : \E s \in States \cup {"gone"} :
        /\ changes < MaxChanges /\ s # onHost[c]
        /\ onHost' = [onHost EXCEPT ![c] = s]
        /\ changes' = changes + 1
        /\ events' = IF stream = "open" THEN Append(events, changes') ELSE events
        /\ UNCHANGED <<stored, stream, query, urlState, link, heard, listActs>>

(* The event stream.                                                       *)

\* subscribe, and its retry after a backoff.
StreamOpens ==
    /\ stream = "down" /\ stream' = "open"
    /\ UNCHANGED <<onHost, stored, events, query, urlState, link, heard, changes, listActs>>

\* What was on its way is lost with the connection.
StreamEnds ==
    /\ stream = "open" /\ stream' = "down" /\ events' = <<>>
    /\ UNCHANGED <<onHost, stored, query, urlState, link, heard, changes, listActs>>

\* The subscription pauses while the document is hidden.
Hide ==
    /\ stream # "hidden" /\ stream' = "hidden" /\ events' = <<>>
    /\ UNCHANGED <<onHost, stored, query, urlState, link, heard, changes, listActs>>

\* A request that is not restarted: the answer may be older than the event.
StartIfIdle == IF fetch = Idle THEN Sent ELSE fetch

\* Invalidating restarts a request in flight, but never the first one.
StartOrRestart == IF fetch = Idle \/ Loaded THEN Sent ELSE fetch

\* The page is shown again: a stale list is read again.
Show ==
    /\ stream = "hidden" /\ stream' = "down"
    /\ fetch' \in {fetch, StartIfIdle}
    /\ UNCHANGED <<onHost, stored, events, debounce, list, asOf, failed, urlState, link, heard,
                   changes, listActs>>

\* handleContainerEvent: a burst of events is one invalidation.
EventDelivered ==
    /\ events # <<>>
    /\ events' = Tail(events)
    /\ debounce' = TRUE
    /\ heard' = IF Loaded THEN Head(events) ELSE heard
    /\ UNCHANGED <<onHost, stored, stream, fetch, list, asOf, failed, urlState, link, changes,
                   listActs>>

InvalidateAfterDebounce ==
    /\ debounce /\ debounce' = FALSE
    /\ fetch' = StartOrRestart
    /\ UNCHANGED <<onHost, stored, stream, events, list, asOf, failed, urlState, link, heard,
                   changes, listActs>>

(* The list request.                                                       *)
Poll ==
    /\ fetch = Idle /\ stream # "hidden" /\ fetch' = Sent
    /\ UNCHANGED <<onHost, stored, stream, events, debounce, list, asOf, failed, urlState, link,
                   heard, changes, listActs>>

ServerReads ==
    /\ fetch.phase = "sent"
    /\ fetch' = [phase |-> "read", snap |-> onHost, upto |-> changes]
    /\ UNCHANGED <<onHost, stored, stream, events, debounce, list, asOf, failed, urlState, link,
                   heard, changes, listActs>>

ListArrives ==
    /\ fetch.phase = "read"
    /\ list' = fetch.snap /\ asOf' = fetch.upto
    /\ fetch' = Idle /\ failed' = FALSE
    /\ UNCHANGED <<onHost, stored, stream, events, debounce, urlState, link, heard,
                   changes, listActs>>

\* After its retries; the list read before stays in the cache.
ListFails ==
    /\ fetch # Idle
    /\ fetch' = Idle /\ failed' = TRUE
    /\ heard' = 0
    /\ UNCHANGED <<onHost, stored, stream, events, debounce, list, asOf, urlState, link,
                   changes, listActs>>

\* The store's list is cached on its own and may be older or newer.
StoredArrives ==
    /\ stored' = {c \in Containers : onHost[c] = "gone"}
    /\ stored' # stored
    /\ UNCHANGED <<onHost, stream, events, query, urlState, link, heard, changes, listActs>>

-----------------------------------------------------------------------------
(* The user.  A change of the filters goes back to the first page.         *)
UserActs == listActs < MaxListActs /\ listActs' = listActs + 1
ViewOnly == UNCHANGED <<onHost, stored, stream, events, query, link, heard, changes>>

Refetch ==
    /\ UserActs /\ fetch' = StartOrRestart
    /\ UNCHANGED <<onHost, stored, stream, events, debounce, list, asOf, failed, urlState, link,
                   heard, changes>>

SetSearchTerm ==
    /\ UserActs /\ pageNo' = 1
    /\ search' = IF search = "" THEN "text" ELSE ""
    /\ ViewOnly /\ UNCHANGED <<dateRange, stateFilter, hostFilter, sort, groupBy, pageSize>>

SetStateFilter ==
    \E s \in Toolbar.states \cup offersChips :
        /\ UserActs /\ stateFilter' = s /\ pageNo' = 1
        /\ ViewOnly /\ UNCHANGED <<search, dateRange, hostFilter, sort, groupBy, pageSize>>

SetHostFilter ==
    \E h \in Toolbar.hosts :
        /\ UserActs /\ hostFilter' = h /\ pageNo' = 1
        /\ ViewOnly /\ UNCHANGED <<search, dateRange, stateFilter, sort, groupBy, pageSize>>

SetDateRange ==
    \E r \in Toolbar.ranges \ {dateRange} :
        /\ UserActs /\ dateRange' = r /\ pageNo' = 1
        /\ ViewOnly /\ UNCHANGED <<search, stateFilter, hostFilter, sort, groupBy, pageSize>>

\* The order keeps the page.
SetSortDirection ==
    /\ UserActs /\ sort' = IF sort = "desc" THEN "asc" ELSE "desc"
    /\ ViewOnly /\ UNCHANGED <<search, dateRange, stateFilter, hostFilter, groupBy, pageNo, pageSize>>

SetGroupBy ==
    /\ UserActs /\ groupBy' = IF groupBy = "none" THEN "compose" ELSE "none"
    /\ pageNo' = 1
    /\ ViewOnly /\ UNCHANGED <<search, dateRange, stateFilter, hostFilter, sort, pageSize>>

HandlePageClick ==
    \E p \in offersPage \cup {pageNo - 1, pageNo + 1} :
        /\ p \in 1 .. totalPages \ {pageNo}
        /\ UserActs /\ pageNo' = p
        /\ ViewOnly /\ UNCHANGED <<search, dateRange, stateFilter, hostFilter, sort, groupBy, pageSize>>

SetPageSize ==
    \E n \in PageSizes \ {pageSize} :
        /\ UserActs /\ pageSize' = n /\ pageNo' = 1
        /\ ViewOnly /\ UNCHANGED <<search, dateRange, stateFilter, hostFilter, sort, groupBy>>

\* The effect that keeps the page within the pages there are.
ClampPage ==
    /\ pageNo > totalPages
    /\ pageNo' = totalPages
    /\ ViewOnly /\ UNCHANGED <<search, dateRange, stateFilter, hostFilter, sort, groupBy, pageSize, listActs>>

-----------------------------------------------------------------------------
ContainersListNext ==
    \/ Change \/ StreamOpens \/ StreamEnds \/ Hide \/ Show \/ EventDelivered
    \/ InvalidateAfterDebounce \/ Poll \/ ServerReads \/ ListArrives \/ ListFails
    \/ StoredArrives \/ Refetch \/ SetSearchTerm \/ SetStateFilter \/ SetHostFilter
    \/ SetDateRange \/ SetSortDirection
    \/ SetGroupBy \/ HandlePageClick \/ SetPageSize \/ ClampPage

ContainersListSpec == ContainersListInit /\ [][ContainersListNext]_clVars
-----------------------------------------------------------------------------
\* What an event told of is never lost between the debounce, the polling
\* and a request in flight: while the list shown is older than an event that
\* was delivered to it, a reading that will see the change is due.  (An
\* event during the very first request, and a reading that failed after its
\* retries, are left to the polling.)
EventReflected ==
    heard > asOf =>
        \/ debounce \/ fetch.phase = "sent"
        \/ fetch.phase = "read" /\ fetch.upto >= heard

\* Every row that passes the filters is on exactly one page the pagination
\* can reach, in the order chosen, and grouping shows each row of the page once.
RowsOnOnePage ==
    LET rows[p \in 0 .. totalPages] == IF p = 0 THEN <<>> ELSE rows[p - 1] \o PageItems(p)
        groups == groupByCompose(pageItems)
    IN  /\ rows[totalPages] = filteredContainers
        /\ {filteredContainers[i] : i \in DOMAIN filteredContainers} = Passing
        /\ pageNo \in 1 .. totalPages /\ filteredContainers # <<>> => pageItems # <<>>
        /\ \A i \in DOMAIN pageItems :
              {p \in DOMAIN groups : i \in groups[p]} = {ProjectOf[pageItems[i]]}

\* The number on a chip is the number of rows its filter lists.
ChipsTellTheRows ==
    stateFilter # "all" => countContainerStates(stateFilter) = Len(filteredContainers)

\* Whatever lists, filters and page sizes arrive in whatever order, the reader
\* can get at every row the chips and the filters promise.
RowsReachable == RowsOnOnePage /\ ChipsTellTheRows

\* The list on show is current, or about to be, and all of it can be reached.
ListIsCurrent == EventReflected /\ RowsReachable

\* "shareable URL state": the page of a link is still there when the list
\* arrives.
LinkSurvivesLoading == ~Loaded /\ listActs = 0 => pageNo = link
=============================================================================
