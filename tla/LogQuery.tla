------------------------------ MODULE LogQuery ------------------------------
(***************************************************************************)
(* The stored history of one container, read backwards a page at a time    *)
(* (logstore/query.go).  A page is filled by scanning chunks of rows, each *)
(* a statement of its own: between two of them, as between two pages, the  *)
(* writer commits, retention evicts and a purge deletes.                   *)
(*                                                                         *)
(* A row is a physical line.  Continuation lines are folded into the entry *)
(* before them, and only then the entries are filtered and counted.        *)
(***************************************************************************)
EXTENDS Integers, Sequences, FiniteSets, SequencesExt

CONSTANTS
    Generations,   \* engine containers that ever had this name, numbered
    Kinds,         \* of lines: "error", "info", "blank" and the continuations below
    LastTs,        \* timestamps are 1 .. LastTs; several lines may have the same
    FirstLines,    \* the numbers of lines stored before the walk
    Limit,         \* entries on a page
    ScanChunk,     \* rows a filtered query reads per round
    Filters,       \* subset of {"all", "errors", "text"}
    Hits,          \* kinds of lines in which the searched text occurs
    Sinces,        \* lower ends of the time range asked for
    MaxChanges     \* bound: commits, evictions and purges during the walk

ASSUME QueryAssumption ==
    /\ Limit \in Nat \ {0} /\ ScanChunk \in Nat
    /\ LastTs \in Nat /\ FirstLines \subseteq Nat

VARIABLES
    lines,     \* log_lines: [gen, ts, id, kind], id is the rowid
    stored,    \* containers: the generations that have a row
    query,     \* what is asked for: [filter, since]
    phase,     \* "idle" between two pages, "scanning", "end"
    refs,      \* the generations this page reads
    from,      \* position the next scan resumes behind, NoPosition for the newest
    carry,     \* rows of the oldest entry of the previous round, newest first
    found,     \* matched entries of this page, oldest first
    pages,     \* the pages handed out
    start,     \* history: the lines that have been there since the walk began
    changes

storeVars == <<lines, stored, changes>>
lqVars == <<lines, stored, query, phase, refs, from, carry, found, pages, start, changes>>

NoPosition == [ts |-> LastTs + 1, id |-> 0]
Position(row) == [ts |-> row.ts, id |-> row.id]

\* The keyset order: (ts_ns, rowid).
OlderThan(row, p) == row.ts < p.ts \/ (row.ts = p.ts /\ row.id < p.id)

OlderByTime(row, p) == row.ts < p.ts
Older(row, p) == OlderThan(row, p)

\* The row at i has i - 1 newer ones.
NewestFirst(S) ==
    [i \in 1 .. Cardinality(S) |->
        CHOOSE r \in S : Cardinality({s \in S : OlderThan(r, s)}) = i - 1]

-----------------------------------------------------------------------------
\* IsContinuationLogEntry, within one generation: a structured field continues
\* any entry that is not blank, a stack frame only one of a problem level.
Continues(row, entry) ==
    /\ row.gen = entry[1].gen
    /\ entry[1].kind # "blank"
    /\ row.kind = "field" \/ (row.kind = "frame" /\ entry[1].kind = "error")

FoldLine(row, entries) ==
    IF entries # <<>> /\ Continues(row, Last(entries))
    THEN [entries EXCEPT ![Len(entries)] = Append(@, row)]
    ELSE Append(entries, <<row>>)

\* Rows newest first become entries oldest first: the oldest row is read first.
GroupRows(rows) ==
    LET oldest[n \in 0 .. Len(rows)] ==
            IF n = 0 THEN <<>> ELSE FoldLine(rows[Len(rows) + 1 - n], oldest[n - 1])
    IN  oldest[Len(rows)]

Matches(entry) ==
    CASE query.filter = "errors" -> entry[1].kind = "error"
      [] query.filter = "text"   -> \E i \in 1 .. Len(entry) : entry[i].kind \in Hits

Filtered(entries) ==
    LET kept[n \in 0 .. Len(entries)] ==
            IF n = 0 THEN <<>>
            ELSE IF Matches(entries[n]) THEN Append(kept[n - 1], entries[n]) ELSE kept[n - 1]
    IN  IF query.filter = "all" THEN entries ELSE kept[Len(entries)]

\* An unfiltered page needs one entry beyond it, and a row for the entry held back.
Chunk == IF query.filter = "all" \/ ScanChunk < Limit + 2 THEN Limit + 2 ELSE ScanChunk

\* buildSelect and scanRows: one chunk, strictly older than the position.
ScanRows ==
    LET older == NewestFirst({r \in lines : /\ r.gen \in refs
                                            /\ r.ts >= query.since
                                            /\ Older(r, from)})
    IN  SubSeq(older, 1, IF Len(older) < Chunk THEN Len(older) ELSE Chunk)

-----------------------------------------------------------------------------
\* Lines are numbered as they are committed, in any order of time because a
\* backfill commits older ones; a rebuilt container writes after the old one.
Histories(n) ==
    {{[gen |-> gen[i], ts |-> ts[i], id |-> i, kind |-> kind[i]] : i \in 1 .. n} :
        gen \in {g \in [1 .. n -> Generations] : \A i, j \in 1 .. n : i < j => g[i] <= g[j]},
        ts \in [1 .. n -> 1 .. LastTs], kind \in [1 .. n -> Kinds]}

LogQueryInit ==
    /\ lines \in UNION {Histories(n) : n \in FirstLines}
    /\ stored = {r.gen : r \in lines}
    /\ query \in [filter : Filters, since : Sinces]
    /\ phase = "idle" /\ refs = {} /\ from = NoPosition
    /\ carry = <<>> /\ found = <<>> /\ pages = <<>>
    /\ start = lines /\ changes = 0

\* Query is called, with the cursor of the page before: the name is resolved to
\* its generations.
AskForPage ==
    /\ phase = "idle"
    /\ refs' = stored
    /\ IF stored = {}
       THEN phase' = "end" /\ pages' = Append(pages, <<>>)
       ELSE phase' = "scanning" /\ pages' = pages
    /\ carry' = <<>> /\ found' = <<>>
    /\ UNCHANGED <<query, from, start, storeVars>>

\* What is left over of the entries above a full page is not handed out: it
\* proves that there is an older page, whose cursor is the first row of the
\* oldest entry on this one.
CutAtHead(entries, cut) == Position(entries[cut + 1][1])
CutAtTail(entries, cut) == Position(Last(entries[cut + 1]))
CursorAt(entries, cut) == CutAtHead(entries, cut)

NewPage(entries) ==
    LET cut == Len(entries) - Limit
    IN  IF cut <= 0
        THEN pages' = Append(pages, entries) /\ phase' = "end" /\ UNCHANGED from
        ELSE /\ pages' = Append(pages, SubSeq(entries, cut + 1, Len(entries)))
             /\ from' = CursorAt(entries, cut)
             /\ phase' = "idle"

\* The oldest entry of a round may still grow, so its rows are regrouped with
\* the next chunk; once history runs out it is complete.
HeldBack(grouped, exhausted) == IF exhausted THEN <<>> ELSE Head(grouped)
NothingHeldBack(grouped, exhausted) == <<>>
Open(grouped, exhausted) == HeldBack(grouped, exhausted)

\* One round of the loop.
ScanRound ==
    LET rows == ScanRows
        exhausted == Len(rows) < Chunk
        grouped == GroupRows(carry \o rows)
        open == Open(grouped, exhausted)
        settled == IF open = <<>> THEN grouped ELSE Tail(grouped)
        entries == Filtered(settled) \o found
    IN  /\ phase = "scanning"
        /\ IF Len(entries) > Limit \/ exhausted
           THEN /\ NewPage(entries)
                /\ found' = <<>> /\ carry' = <<>>
           ELSE /\ found' = entries
                /\ carry' = Reverse(open)
                /\ from' = Position(Last(rows))
                /\ UNCHANGED <<phase, pages>>
        /\ UNCHANGED <<query, refs, start, storeVars>>

-----------------------------------------------------------------------------
\* Around the reader.  SQLite gives a new row the id after the greatest.
NextId == IF lines = {} THEN 1 ELSE 1 + (CHOOSE i \in {r.id : r \in lines} :
                                            \A r \in lines : r.id <= i)

Changes == changes < MaxChanges /\ phase # "end" /\ changes' = changes + 1
ReaderUnchanged == UNCHANGED <<query, phase, refs, from, carry, found, pages>>

\* The writer commits a live line or, of an older time, a backfilled one.
Commit ==
    /\ Changes
    /\ \E g \in Generations, ts \in 1 .. LastTs, kind \in Kinds :
          /\ lines' = lines \cup {[gen |-> g, ts |-> ts, id |-> NextId, kind |-> kind]}
          /\ stored' = stored \cup {g}
    /\ UNCHANGED start
    /\ ReaderUnchanged

\* Retention evicts the oldest line.
Evict ==
    /\ Changes /\ lines # {}
    /\ lines' = lines \ {Last(NewestFirst(lines))}
    /\ start' = start \cap lines'
    /\ UNCHANGED stored
    /\ ReaderUnchanged

Purge ==
    /\ Changes /\ stored # {}
    /\ lines' = {} /\ stored' = {} /\ start' = {}
    /\ ReaderUnchanged

LogQueryNext == AskForPage \/ ScanRound \/ Commit \/ Evict \/ Purge

LogQuerySpec == LogQueryInit /\ [][LogQueryNext]_lqVars
-----------------------------------------------------------------------------
\* The lines handed out: the line at i of the entry at e of the page at p.
Slots ==
    UNION {UNION {{<<p, e, i>> : i \in DOMAIN pages[p][e]} : e \in DOMAIN pages[p]} :
              p \in DOMAIN pages}
RowAt(slot) == pages[slot[1]][slot[2]][slot[3]]

\* Pages are handed out newest first, their entries and lines are oldest first.
Before(a, b) ==
    \/ a[1] > b[1]
    \/ a[1] = b[1] /\ (a[2] < b[2] \/ (a[2] = b[2] /\ a[3] < b[3]))

Reached(row) == phase = "end" \/ (pages # <<>> /\ phase = "idle" /\ ~OlderThan(row, from))

\* "pages stay stable while new lines are ingested" (query.go:554): whatever
\* is committed or evicted meanwhile, no line is handed out twice or out of
\* order, and none that was there all the time is passed over, at whichever
\* place of an entry, a group of equal timestamps or a chunk a page ends.
EveryLineOnce ==
    query.filter = "all" =>
        /\ \A a, b \in Slots : Before(a, b) => OlderThan(RowAt(a), RowAt(b))
        /\ \A r \in start :
              r.ts >= query.since /\ Reached(r) => \E a \in Slots : RowAt(a) = r

\* All entries handed out so far, oldest first.
HandedOut ==
    LET newest[n \in 0 .. Len(pages)] == IF n = 0 THEN <<>> ELSE pages[n] \o newest[n - 1]
    IN  newest[Len(pages)]

\* What a walk over a resting store should hand out: the whole history grouped
\* and then filtered, cut into full pages from its newest end.
Reference == Filtered(GroupRows(NewestFirst({r \in start : r.ts >= query.since})))
PagesOfReference ==
    /\ HandedOut = SubSeq(Reference, Len(Reference) - Len(HandedOut) + 1, Len(Reference))
    /\ \A p \in 1 .. Len(pages) : Len(pages[p]) = Limit \/ (p = Len(pages) /\ phase = "end")
    /\ phase = "end" => HandedOut = Reference /\ (pages[Len(pages)] = <<>> => Len(pages) = 1)

\* "Rows are read unfiltered and only then grouped and filtered" (query.go:202):
\* paging changes nothing, unless there are stack frames.
PagesAreGroups ==
    changes = 0 /\ (\A r \in start : r.kind # "frame") => PagesOfReference

\* TestLevelFilterKeepsMultiLineEntriesWhole, for traces of any length.
TracesStayWhole == changes = 0 => PagesOfReference
=============================================================================
