------------------------------ MODULE LogView ------------------------------
(***************************************************************************)
(* The log viewer: which source it reads (the live container or, on a      *)
(* container's page, the log store), the paged history query, and the      *)
(* bookkeeping by row index over whatever rows are shown: filter, search,  *)
(* selection, pins.  The live rows come from the stream hook, of which     *)
(* this module keeps only what the viewer sees: rows arrive, the ring      *)
(* drops the oldest, a read replaces them (LogStream models the hook).     *)
(*                                                                         *)
(* Lines are numbers in the order they were written; what a line is like   *)
(* (its level, whether the search text occurs in it, whether it continues  *)
(* the line before) is given by constants.  Row indices start at 0, as in  *)
(* the code.                                                               *)
(***************************************************************************)
EXTENDS LogPins

CONSTANTS
    LastLine,       \* bound: lines the container writes, all but one before
    Errors,         \* the lines of level ERROR; the others are INFO
    Hits,           \* the lines the search text occurs in
    Continued,      \* the lines that continue the one before them
    JsonLines,      \* the lines that are JSON texts
    RingLines,      \* the ring buffer's size
    PageSize,       \* HISTORY_PAGE_SIZE
    MaxActs         \* bound: what the user does

ASSUME ViewAssumption == LastLine \in Nat \ {0} /\ PageSize \in Nat \ {0}

VARIABLES
    variant,        \* where the viewer is: "page", "sheet", "stack"
    written,        \* lines written, all of them stored by the server
    found,          \* is the container in the loaded list ("loading" before)
    status,         \* the answer of the history status query
    source, text, levels,               \* the view state (LogViewState)
    settledText,    \* the search after the history debounce
    live,           \* the hook's lines
    hist,           \* the query cache: per key, what was loaded
    anchor,         \* historyScrollAnchorRef is set
    rowPins, cursor, selected, lastClicked, expanded, exclude, match,
    seen,           \* what the effects last ran with
    madeIn,         \* history: the source the pins and selection were made in
    acts            \* how much the user did

view == <<source, text, levels>>
marks == <<rowPins, cursor, selected, lastClicked, expanded, exclude, match>>
world == <<variant, written, found, status>>
lvVars == <<world, view, settledText, live, hist, anchor, marks, seen, madeIn, acts>>

Levels == {"INFO", "ERROR"}
LevelOf(line) == IF line \in Errors THEN "ERROR" ELSE "INFO"
\* An empty search, a text that occurs in some lines, a malformed regex.
Searches == {"", "text", "("}
Null == -1

-----------------------------------------------------------------------------
(* Where the rows come from.                                               *)

\* The container is gone but its logs are stored: history is all there is.
historyOnly == found = "removed"
\* The sheet stays live, and a stack's lines have no store to read.
supportsHistory == variant = "page"
historyEnabled == supportsHistory /\ status = "enabled"
isHistory == supportsHistory /\ (historyOnly \/ (historyEnabled /\ source = "history"))

\* The store filters: levels and search go with the request.  An invalid
\* regex has nothing to send and "exclude" needs the other lines.
historySearch == IF exclude \/ text = "(" THEN "" ELSE text
Keys == [levels : SUBSET Levels, search : {"", "text"}]
Key == [levels |-> levels, search |-> settledText]

Stored(key, upto) ==
    {n \in 1 .. upto : /\ key.levels = {} \/ LevelOf(n) \in key.levels
                       /\ key.search = "" \/ n \in Hits}

Empty == [pages |-> <<>>, more |-> FALSE, fetching |-> "no", failed |-> FALSE]

\* Pages arrive newest first; the list shows the oldest first.
FlattenHistoryPages(pages) ==
    LET rows[n \in 0 .. Len(pages)] == IF n = 0 THEN <<>> ELSE pages[n] \o rows[n - 1]
    IN  rows[Len(pages)]
historyLogs == IF isHistory THEN FlattenHistoryPages(hist[Key].pages) ELSE <<>>
rawLogs == IF isHistory THEN historyLogs ELSE live

\* Continuations are folded into the entry before them.
Group(lines) ==
    FoldLeft(LAMBDA rows, n : IF rows # <<>> /\ n \in Continued
                              THEN [rows EXCEPT ![Len(rows)] = Append(@, n)]
                              ELSE Append(rows, <<n>>),
             <<>>, lines)
logRows == Group(rawLogs)

Lines(row) == {row[i] : i \in DOMAIN row}
RowMatches(row) == text = "text" /\ Lines(row) \cap Hits # {}

\* computeFilteredLogItems: the rows shown, as indices of logRows.
Visible(row) ==
    /\ levels = {} \/ LevelOf(row[1]) \in levels
    /\ ~(exclude /\ RowMatches(row))
filteredToOriginal ==
    SetToSortSeq({i \in 0 .. Len(logRows) - 1 : Visible(logRows[i + 1])}, <)
rowCount == Len(filteredToOriginal)
Filtered(i) == logRows[filteredToOriginal[i + 1] + 1]
Positions == 0 .. rowCount - 1
\* -1 for a row the filters hide.
OriginalToFiltered(o) ==
    LET at == {i \in Positions : filteredToOriginal[i + 1] = o}
    IN IF at = {} THEN -1 ELSE CHOOSE i \in at : TRUE

\* computeSearchMatches, over the rows shown.
searchMatches ==
    SetToSortSeq({i \in Positions : RowMatches(Filtered(i))}, <)

\* The levels the filter offers: in history the rows loaded would only show
\* the levels already chosen.
availableLevels ==
    IF isHistory THEN Levels
    ELSE {LevelOf(logRows[i][1]) : i \in DOMAIN logRows}

-----------------------------------------------------------------------------
(* Which controls are offered.                                             *)

Acting == acts < MaxActs /\ acts' = acts + 1
Now == [isHistory |-> isHistory, text |-> text, levels |-> levels, exclude |-> exclude]
\* The effects that depend on the view have run.
Rendered == seen = Now

\* The page's toolbar, also that of a stack's page.
offersSourceToggle == historyEnabled /\ ~historyOnly
PageMatches == ~isHistory /\ text # "" /\ ~exclude
PagePins == rowPins # {}
PageExclude == ~isHistory /\ text # ""

\* The sheet's.
SheetMatches == text # "" /\ ~exclude
SheetPins == rowPins # {}
SheetExclude == text # ""

InSheet == variant = "sheet"
offersMatches ==
    (IF InSheet THEN SheetMatches ELSE PageMatches) /\ Len(searchMatches) > 0
offersPins == IF InSheet THEN SheetPins ELSE PagePins
offersExclude == IF InSheet THEN SheetExclude ELSE PageExclude

\* The rows, or one of the messages in their place.
offersRows == rawLogs # <<>> /\ rowCount > 0
offersJson(i) == Lines(Filtered(i)) \cap JsonLines # {}
offersSelectionBar == selected # {}
offersOlder == isHistory /\ hist[Key].more /\ hist[Key].fetching # "older"

-----------------------------------------------------------------------------
LogViewInit ==
    /\ variant \in {"page", "sheet", "stack"}
    /\ written = LastLine - 1 /\ found = "loading" /\ status = "loading"
    /\ source \in {"live", "history"} /\ (InSheet => source = "live")
    /\ text = "" /\ levels = {} /\ settledText = ""
    /\ live = <<>> /\ hist = [k \in Keys |-> Empty] /\ anchor = FALSE
    /\ rowPins = {} /\ cursor = 0 /\ selected = {} /\ lastClicked = Null
    /\ expanded = {} /\ exclude = FALSE /\ match = 0
    /\ seen = [isHistory |-> FALSE, text |-> "", levels |-> {}, exclude |-> FALSE]
    /\ madeIn = FALSE /\ acts = 0

(* The server.                                                             *)
WriteLine ==
    /\ written < LastLine
    /\ written' = written + 1
    /\ UNCHANGED <<variant, found, status, view, settledText, live, hist, anchor, marks, seen,
                   madeIn, acts>>

\* The list of containers: the page's container is in it, or only the store
\* knows the name; it may be recreated under the name later.
ContainersLoaded ==
    /\ supportsHistory /\ found # "live"
    /\ found' \in {"live", "removed"} \ {found}
    /\ UNCHANGED <<variant, written, status, view, settledText, live, hist, anchor, marks, seen,
                   madeIn, acts>>

HistoryStatus ==
    /\ supportsHistory /\ status = "loading"
    /\ status' \in {"enabled", "disabled"}
    /\ UNCHANGED <<variant, written, found, view, settledText, live, hist, anchor, marks, seen,
                   madeIn, acts>>

(* The hook, as the viewer sees it.                                        *)

newest == IF live = <<>> THEN 0 ELSE Last(live)

\* A flush: what was written since, the oldest dropped, the pins shifted by
\* the drops.
LiveFlush ==
    LET lines == live \o [i \in 1 .. written - newest |-> newest + i]
        dropped == IF Len(lines) > RingLines THEN Len(lines) - RingLines ELSE 0
    IN /\ Rendered /\ ~isHistory /\ written > newest
       /\ live' = SubSeq(lines, dropped + 1, Len(lines))
       /\ rowPins' = ShiftPins(rowPins, dropped)
       /\ cursor' = ClampCursor(cursor, rowPins')
       /\ UNCHANGED <<world, view, settledText, hist, anchor, selected, lastClicked,
                      expanded, exclude, match, seen, madeIn, acts>>

-----------------------------------------------------------------------------
(* The history query.                                                      *)

\* Reading starts as soon as history is shown with a key not loaded yet.
HistoryLoads ==
    /\ isHistory /\ hist[Key] = Empty
    /\ hist' = [hist EXCEPT ![Key].fetching = "first"]
    /\ UNCHANGED <<world, view, settledText, live, anchor, marks, seen, madeIn, acts>>

\* Lines in the order they were written: the one at i has i - 1 before it.
InTime(set) ==
    [i \in 1 .. Cardinality(set) |->
        CHOOSE n \in set : Cardinality({m \in set : m < n}) = i - 1]
NewestLines(s) == IF Len(s) > PageSize THEN SubSeq(s, Len(s) - PageSize + 1, Len(s)) ELSE s

\* Mutant: the cursor's line is part of the next page.
PageFrom(key, below) == NewestLines(InTime(Stored(key, below)))

\* The newest PageSize lines below a cursor, oldest first.
Page(key, below) == NewestLines(InTime(Stored(key, below - 1)))
More(key, page) == page # <<>> /\ Stored(key, page[1] - 1) # {}

\* A refetch reads as many pages as were loaded, each from the cursor the
\* page before it returned.
Refetched(key) ==
    LET n == Len(hist[key].pages)
        step(pages) == IF ~More(key, Last(pages)) THEN pages
                       ELSE Append(pages, Page(key, Last(pages)[1]))
        read[i \in 1 .. n] ==
            IF i = 1 THEN Append(<<>>, Page(key, written + 1)) ELSE step(read[i - 1])
    IN  read[n]

NextPageOf(key) ==
    LET pages == hist[key].pages
    IN Append(pages, Page(key, IF pages = <<>> THEN written + 1 ELSE Last(pages)[1]))

Landed(key, pages) ==
    [pages |-> pages, more |-> More(key, Last(pages)), fetching |-> "no", failed |-> FALSE]

\* An answer lands in its own key's entry, shown or not.  If it is the one
\* shown, the layout effect uses the scroll anchor.
HistoryAnswered ==
    \E key \in Keys :
        /\ hist[key].fetching # "no"
        /\ hist' = [hist EXCEPT ![key] =
               Landed(key, IF hist[key].fetching = "again" THEN Refetched(key)
                           ELSE NextPageOf(key))]
        /\ anchor' = (anchor /\ key # Key)
        /\ UNCHANGED <<world, view, settledText, live, marks, seen, madeIn, acts>>

\* No retry; a failed "Load older" leaves the pages up, and the anchor goes
\* once the fetch has settled.
HistoryFails ==
    \E key \in Keys :
        /\ hist[key].fetching # "no"
        /\ hist' = [hist EXCEPT ![key].fetching = "no", ![key].failed = TRUE]
        /\ anchor' = (anchor /\ key # Key)
        /\ UNCHANGED <<world, view, settledText, live, marks, seen, madeIn, acts>>

\* The debounce of the history search.
SearchSettles ==
    /\ settledText # historySearch
    /\ settledText' = historySearch
    /\ UNCHANGED <<world, view, live, hist, anchor, marks, seen, madeIn, acts>>

HandleLoadOlder ==
    /\ Rendered /\ Acting /\ offersOlder
    /\ anchor' = TRUE
    /\ hist' = [hist EXCEPT ![Key].fetching = "older"]
    /\ UNCHANGED <<world, view, settledText, live, marks, seen, madeIn>>

HandleRefresh ==
    /\ Rendered /\ Acting /\ isHistory
    /\ hist[Key].fetching = "no" /\ hist[Key] # Empty
    /\ hist' = [hist EXCEPT ![Key].fetching = IF hist[Key].pages = <<>> THEN "first" ELSE "again"]
    /\ UNCHANGED <<world, view, settledText, live, anchor, marks, seen, madeIn>>

-----------------------------------------------------------------------------
(* Effects.                                                                *)

\* Pins and selection are row indices, and live rows and stored rows are
\* different data: a switch of the source drops them.
SourceChanged == seen.isHistory # isHistory
FilterChanged ==
    seen.text # text \/ seen.levels # levels \/ seen.exclude # exclude

\* Mutant: only the user's own switch drops them.
ClearsOnToggle == SourceChanged /\ ~historyOnly

ClearsMarks == SourceChanged

\* useSearchMatches starts at the first match of a new text.
CurrentMatchIndex == IF seen.text # text THEN 0 ELSE match

ViewEffects ==
    /\ ~Rendered
    /\ rowPins' = IF ClearsMarks THEN {} ELSE rowPins
    /\ cursor' = IF ClearsMarks THEN 0 ELSE cursor
    /\ exclude' = IF ClearsMarks THEN FALSE ELSE exclude
    /\ IF ClearsMarks \/ FilterChanged
       THEN selected' = {} /\ lastClicked' = Null
       ELSE UNCHANGED <<selected, lastClicked>>
    /\ expanded' = IF FilterChanged THEN {} ELSE expanded
    /\ match' = CurrentMatchIndex
    /\ seen' = Now
    /\ UNCHANGED <<world, view, settledText, live, hist, anchor, madeIn, acts>>

-----------------------------------------------------------------------------
(* The user: filters and source.                                           *)
quiet == <<world, settledText, live, hist, anchor, seen>>

SetSource ==
    /\ Rendered /\ Acting /\ offersSourceToggle
    /\ source' = IF source = "live" THEN "history" ELSE "live"
    /\ UNCHANGED <<quiet, text, levels, marks, madeIn>>

SetSearchText ==
    /\ Rendered /\ Acting
    /\ text' \in Searches \ {text}
    /\ UNCHANGED <<quiet, source, levels, marks, madeIn>>

ToggleLogLevel ==
    \E l \in availableLevels :
        /\ Rendered /\ Acting
        /\ levels' = IF l \in levels THEN levels \ {l} ELSE levels \cup {l}
        /\ UNCHANGED <<quiet, source, text, marks, madeIn>>

ClearFilters ==
    /\ Rendered /\ Acting /\ levels # {}
    /\ levels' = {}
    /\ UNCHANGED <<quiet, source, text, marks, madeIn>>

SetExcludeMatches ==
    /\ Rendered /\ Acting /\ offersExclude
    /\ exclude' = ~exclude
    /\ UNCHANGED <<quiet, view, rowPins, cursor, selected, lastClicked, expanded, match, madeIn>>

-----------------------------------------------------------------------------
(* The user: rows.                                                         *)
Span(a, b) == IF a < b THEN a .. b ELSE b .. a
Clip(i) == IF i < 0 THEN 0 ELSE IF i > rowCount - 1 THEN rowCount - 1 ELSE i
Select(set, last) ==
    /\ selected' = set /\ lastClicked' = last
    /\ madeIn' = isHistory

HandleLogClick ==
    \E i \in Positions :
        /\ Rendered /\ Acting /\ offersRows
        /\ Select(IF i \in selected THEN selected \ {i} ELSE selected \cup {i}, i)
        /\ UNCHANGED <<quiet, view, rowPins, cursor, expanded, exclude, match>>

HandleShiftClick ==
    \E i \in Positions :
        /\ Rendered /\ Acting /\ lastClicked # Null
        /\ Select(Span(lastClicked, i), lastClicked)
        /\ UNCHANGED <<quiet, view, rowPins, cursor, expanded, exclude, match>>

LowestOf(set) == CHOOSE i \in set : \A j \in set : i <= j
HighestOf(set) == CHOOSE i \in set : \A j \in set : i >= j
\* The end of the selection a step in this direction starts from.
ActiveEnd(direction) == IF direction > 0 THEN HighestOf(selected) ELSE LowestOf(selected)

GoToAdjacentLogLine(direction) ==
    LET base == IF lastClicked # Null THEN lastClicked
                ELSE IF selected # {} THEN ActiveEnd(direction)
                ELSE IF direction > 0 THEN -1 ELSE rowCount
        next == Clip(base + direction)
    IN /\ Rendered /\ Acting /\ rowCount > 0 /\ next # base
       /\ Select({next}, next)
       /\ UNCHANGED <<quiet, view, rowPins, cursor, expanded, exclude, match>>

\* The anchor is the fixed end of the range; the active end moves.
ExtendSelectionByLine(direction) ==
    LET fixed == IF lastClicked # Null THEN lastClicked
                 ELSE IF selected # {} THEN ActiveEnd(-direction)
                 ELSE IF direction > 0 THEN 0 ELSE rowCount - 1
        active == IF selected # {} THEN ActiveEnd(direction) ELSE fixed
        next == Clip(active + direction)
    IN /\ Rendered /\ Acting /\ rowCount > 0
       /\ Select(IF next = active THEN selected ELSE Span(fixed, next), fixed)
       /\ UNCHANGED <<quiet, view, rowPins, cursor, expanded, exclude, match>>

ClearSelection ==
    /\ Rendered /\ Acting /\ selected # {}
    /\ Select({}, Null)
    /\ UNCHANGED <<quiet, view, rowPins, cursor, expanded, exclude, match>>

\* Copying does not change the selection unless nothing of it is shown.
HandleCopySelected ==
    /\ Rendered /\ Acting /\ offersSelectionBar /\ selected \cap Positions = {}
    /\ Select({}, Null)
    /\ UNCHANGED <<quiet, view, rowPins, cursor, expanded, exclude, match>>

ToggleJsonExpanded ==
    \E i \in Positions :
        /\ Rendered /\ Acting /\ offersRows /\ offersJson(i)
        /\ expanded' = IF i \in expanded THEN expanded \ {i} ELSE expanded \cup {i}
        /\ UNCHANGED <<quiet, view, rowPins, cursor, selected, lastClicked, exclude, match,
                       madeIn>>

selectedOriginal == {filteredToOriginal[i + 1] : i \in selected \cap Positions}
allSelectedArePinned == selectedOriginal # {} /\ selectedOriginal \subseteq rowPins

HandleTogglePinSelected ==
    /\ Rendered /\ Acting /\ offersSelectionBar /\ selectedOriginal # {}
    /\ rowPins' = IF allSelectedArePinned THEN rowPins \ selectedOriginal
                  ELSE rowPins \cup selectedOriginal
    /\ cursor' = ClampCursor(cursor, rowPins')
    /\ madeIn' = isHistory
    /\ UNCHANGED <<quiet, view, selected, lastClicked, expanded, exclude, match>>

GoToPinnedByOffset(offset) ==
    /\ Rendered /\ offersPins
    /\ cursor' = NextCursor(cursor, offset, rowPins)
    /\ LET at == OriginalToFiltered(SortedPins(rowPins)[cursor' + 1]) IN
       IF at = -1 THEN UNCHANGED <<selected, lastClicked, madeIn>> ELSE Select({at}, at)
    /\ UNCHANGED <<quiet, view, rowPins, expanded, exclude, match, acts>>

\* The next or the previous match, wrapping around.
GoToMatch(direction) ==
    LET n == Len(searchMatches) IN
    /\ Rendered /\ offersMatches
    /\ match' = IF direction > 0 THEN (IF match < n - 1 THEN match + 1 ELSE 0)
                ELSE (IF match > 0 THEN match - 1 ELSE n - 1)
    /\ UNCHANGED <<quiet, view, rowPins, cursor, selected, lastClicked, expanded, exclude,
                   madeIn, acts>>

-----------------------------------------------------------------------------
\* The keydown handler: each key is one of the actions above.
HandleKeyDown ==
    \E direction \in {1, -1} :
        \/ GoToAdjacentLogLine(direction)
        \/ ExtendSelectionByLine(direction)
        \/ GoToMatch(direction)
        \/ GoToPinnedByOffset(direction)

LogViewNext ==
    \/ WriteLine \/ ContainersLoaded \/ HistoryStatus \/ LiveFlush
    \/ HistoryLoads \/ HistoryAnswered \/ HistoryFails \/ SearchSettles \/ ViewEffects
    \/ HandleLoadOlder \/ HandleRefresh
    \/ SetSource \/ SetSearchText \/ ToggleLogLevel \/ ClearFilters \/ SetExcludeMatches
    \/ HandleLogClick \/ HandleShiftClick \/ ClearSelection \/ HandleCopySelected
    \/ ToggleJsonExpanded \/ HandleTogglePinSelected \/ HandleKeyDown

LogViewSpec == LogViewInit /\ [][LogViewNext]_lvVars
-----------------------------------------------------------------------------
\* What the viewer shows of the store is one stretch of the lines that match
\* the filters, in order, without a gap or a repetition: whatever was
\* appended to the store between the pages, and whichever answers came late.
HistoryIsOneStretch ==
    \A key \in Keys :
        LET shown == FlattenHistoryPages(hist[key].pages) IN
        shown # <<>> =>
            /\ \A i, j \in 1 .. Len(shown) : i < j => shown[i] < shown[j]
            /\ {shown[i] : i \in 1 .. Len(shown)} =
                 {n \in Stored(key, LastLine) : shown[1] <= n /\ n <= Last(shown)}

\* "Pins and selection are row indices, and live rows and stored rows are
\* different data: carrying them across a source switch would highlight
\* arbitrary lines."  The source also switches without the user: when the
\* history status or the container list arrives.
MarksOfThisSource ==
    Rendered /\ (rowPins # {} \/ selected # {}) => madeIn = isHistory

\* Rows and marks of the viewer belong together: a stretch of one source's
\* lines, and marks made in that source.
HistoryViewSound == HistoryIsOneStretch /\ MarksOfThisSource

PinnedRows == {logRows[i + 1] : i \in {j \in rowPins : j < Len(logRows)}}

\* "line selection, pinning, copying, and downloading all work exactly as
\* they do in Live mode": a pin stays on its line when older lines load.
HistoryPinsFollowLines ==
    [][isHistory /\ isHistory' /\ hist' # hist /\ Key' = Key
        => PinnedRows' = PinnedRows]_lvVars
=============================================================================
