------------------------------ MODULE LogStore ------------------------------
(***************************************************************************)
(* The log store's ingestion pipeline, followed for one container          *)
(* generation: the hub sink, the bounded queue, the single writer and its  *)
(* transactions, the sync loop with its backfill tracker, the backfill     *)
(* goroutine, the dropped-line gap mark, the purge, and the start,         *)
(* shutdown and crash of the process around them (internal/logstore:       *)
(* store.go, ingest.go, sync.go, backfill.go, purge.go).                   *)
(*                                                                         *)
(* The engine's log of the container is the sequence log: line i carries   *)
(* the timestamp i and was written to the stream log[i].  A message on the *)
(* queue is a line's number, or Done for the end of a backfill.  Other     *)
(* generations appear only as a queue that may be full and a transaction   *)
(* that may fail.  A critical section of s.mu, a transaction and a channel *)
(* operation are one step each.                                            *)
(***************************************************************************)
EXTENDS Naturals, Sequences, FiniteSets, SequencesExt, FiniteSetsExt

CONSTANTS
    Streams,        \* the container's output streams
    Overlap,        \* backfillOverlap: how far before its mark a backfill starts
    IngestBuffer,   \* capacity of ingestCh
    BatchLines,     \* most messages in one transaction
    MaxAttempts,    \* maxBackfillAttempts
    MaxLines,       \* bound of the model: lines the container writes
    MaxFailures,    \* bound of the model: failed transactions and engine reads
    MaxStarts,      \* bound of the model: process starts
    MaxPurges,      \* bound of the model: purges of the container
    MayStop         \* bound of the model: whether the process is asked to stop

ASSUME SizesAssumption ==
    /\ IngestBuffer \in Nat \ {0} /\ BatchLines \in Nat \ {0} /\ MaxAttempts \in Nat \ {0}
    /\ Overlap \in Nat /\ MaxLines \in Nat /\ MaxFailures \in Nat
    /\ MaxStarts \in Nat /\ MaxPurges \in Nat /\ MayStop \in BOOLEAN

VARIABLES
    (* the engine and the database, which outlive the process *)
    log,            \* the engine's log of the container
    rows,           \* log_lines: how many rows hold each line
    wm,             \* stdout_wm_ns and stderr_wm_ns, 0 when never advanced
    row,            \* the generation has its row in containers
    (* the hub, as seen from the sink *)
    tailing,        \* the hub's live tail is attached
    pending,        \* lines the tail has read and not yet handed to the sink
    (* the process *)
    proc,           \* "down", "up", "stopping" once ctx is cancelled
    subscription,   \* "live", "ended" (the sink is quiet), "released" (and no producer)
    producers,      \* the WaitGroup of goroutines that may send on ingestCh
    queue,          \* ingestCh
    closed,         \* ingestCh is closed
    writer,         \* the writer goroutine: "running", "exited"
    batch,          \* the writer's uncommitted messages
    resume,         \* startup snapshot of wm, NoPoint when there is none
    gap,            \* gaps[key]: earliest dropped timestamp, 0 for none
    (* the sync loop and its backfillTracker *)
    sync,           \* "idle", "listing" or "spawning" inside sync(), "stopped"
    attempts, done, inFlight, healing,
    (* the backfill goroutine *)
    bf,             \* "none", "spawned", "reading", "read", "reporting"
    unread,         \* lines its read of the engine has still to send
    outcome,        \* result to report: "ok" or "err"
    result,         \* the results channel: "none", "ok" or "err"
    (* history and bounds *)
    downtime,       \* lines written while no process was running
    lastDown,       \* length of the log when the process last went away
    known,          \* the generation had its row when the process started
    idleDrops,      \* lines whose last drop met no backfill in flight
    busyDrops,      \* lines whose last drop met a backfill in flight
    freshDrop,      \* a line was dropped since the tracker last looked
    purgedTo,       \* newest stored line a purge has deleted, 0 for none
    failures, starts, purges

engine   == <<log, downtime, lastDown, known>>
database == <<rows, wm, row>>
hub      == <<tailing, pending>>
channel  == <<queue, closed>>
tracker  == <<attempts, done, inFlight, healing>>
backfill == <<bf, unread, outcome>>
drops    == <<idleDrops, busyDrops, freshDrop>>
history  == <<drops, purgedTo>>
bounds   == <<failures, starts, purges>>
vars == <<engine, database, hub, proc, subscription, producers, channel, writer, batch,
          resume, gap, sync, tracker, backfill, result, history, bounds>>

Line == 1 .. MaxLines
Done == 0
Message == Line \union {Done}
Points == [Streams -> 0 .. MaxLines]
NoPoint == << >>
ZeroPoint == [s \in Streams |-> 0]

\* markGap keeps the earliest dropped timestamp.
LatestDrop(lines) == Max(lines \union {gap})
EarliestDrop(lines) ==
    IF lines = {} THEN gap ELSE IF gap = 0 THEN Min(lines) ELSE Min(lines \union {gap})

\* The history of a drop: whether a backfill was in flight.
RecordDrops(lines) ==
    /\ idleDrops' = IF inFlight THEN idleDrops \ lines ELSE idleDrops \union lines
    /\ busyDrops' = IF inFlight THEN busyDrops \union lines ELSE busyDrops \ lines
    /\ freshDrop' = (freshDrop \/ lines # {})

MarkGap(lines) == gap' = EarliestDrop(lines) /\ RecordDrops(lines)

RoomForOneMore == Len(queue) <= IngestBuffer
Room == Len(queue) < IngestBuffer

\* stdout and stderr are demuxed independently, each in its own order.
NextOfItsStream(i, lines) == i \in lines /\ \A j \in lines : j < i => log[j] # log[i]

(***************************************************************************)
(* The engine writes; the hub's tail follows from where it was attached.   *)
(***************************************************************************)
Emit(s) ==
    /\ Len(log) < MaxLines
    /\ log' = Append(log, s)
    /\ pending' = IF tailing THEN pending \union {Len(log) + 1} ELSE pending
    /\ downtime' = IF proc = "down" THEN downtime \union {Len(log) + 1} ELSE downtime
    /\ UNCHANGED <<lastDown, known, database, tailing, proc, subscription, producers, channel, writer, batch,
                   resume, gap, sync, tracker, backfill, result, history, bounds>>

TailAttach ==
    /\ proc = "up"
    /\ ~tailing
    /\ tailing' = TRUE
    /\ UNCHANGED <<engine, database, pending, proc, subscription, producers, channel, writer,
                   batch, resume, gap, sync, tracker, backfill, result, history, bounds>>

\* The tail's connection breaks.  It is reopened with the same options, whose
\* Tail "0" starts at the end of the log: lines written in between are not read.
TailBreaks ==
    /\ tailing
    /\ tailing' = FALSE
    /\ UNCHANGED <<engine, database, pending, proc, subscription, producers, channel, writer,
                   batch, resume, gap, sync, tracker, backfill, result, history, bounds>>

\* sink: a full queue drops the line and marks the gap.
Sink(i) ==
    /\ subscription = "live"
    /\ NextOfItsStream(i, pending)
    /\ pending' = pending \ {i}
    /\ IF Room
         THEN queue' = Append(queue, i) /\ UNCHANGED <<gap, drops>>
         ELSE MarkGap({i}) /\ UNCHANGED queue
    /\ UNCHANGED <<engine, database, tailing, proc, subscription, producers, closed, writer,
                   batch, resume, sync, tracker, backfill, result, purgedTo, bounds>>

(***************************************************************************)
(* The writer.                                                             *)
(***************************************************************************)
Receive ==
    /\ writer = "running"
    /\ queue # << >>
    /\ Len(batch) < BatchLines
    /\ batch' = Append(batch, Head(queue))
    /\ queue' = Tail(queue)
    /\ UNCHANGED <<engine, database, hub, proc, subscription, producers, closed, writer,
                   resume, gap, sync, tracker, backfill, result, history, bounds>>

LinesOf(messages) == ToSet(messages) \ {Done}

\* commit: the generation's row is upserted, each line is inserted unless an
\* identical row is stored, and the marks of the streams that gained a row
\* advance in the same transaction.
InsertedUnchecked(lines) == lines
Inserted(lines) == {i \in lines : rows[i] = 0}
AdvancedBlindly(lines) ==
    [s \in Streams |-> LET new == {i \in Inserted(lines) : log[i] = s}
                       IN  IF new = {} THEN wm[s] ELSE Max(new)]
Advanced(lines) ==
    [s \in Streams |-> Max({wm[s]} \union {i \in Inserted(lines) : log[i] = s})]

Commit ==
    /\ writer = "running"
    /\ batch # << >>
    /\ row' = TRUE
    /\ rows' = [i \in Line |-> IF i \in Inserted(LinesOf(batch)) THEN rows[i] + 1 ELSE rows[i]]
    /\ wm' = Advanced(LinesOf(batch))
    /\ batch' = << >>
    /\ idleDrops' = idleDrops \ LinesOf(batch)
    /\ busyDrops' = busyDrops \ LinesOf(batch)
    /\ UNCHANGED <<engine, hub, proc, subscription, producers, channel, writer, resume, gap,
                   sync, tracker, backfill, result, freshDrop, purgedTo, bounds>>

\* A failed transaction drops the batch and marks a gap for its lines.
CommitFailsMarksKept ==
    /\ writer = "running"
    /\ batch # << >>
    /\ failures < MaxFailures
    /\ failures' = failures + 1
    /\ wm' = Advanced(LinesOf(batch))
    /\ MarkGap(LinesOf(batch))
    /\ batch' = << >>
    /\ UNCHANGED <<engine, rows, row, hub, proc, subscription, producers, channel, writer, resume,
                   sync, tracker, backfill, result, purgedTo, starts, purges>>

CommitFails ==
    /\ writer = "running"
    /\ batch # << >>
    /\ failures < MaxFailures
    /\ failures' = failures + 1
    /\ MarkGap(LinesOf(batch))
    /\ batch' = << >>
    /\ UNCHANGED <<engine, database, hub, proc, subscription, producers, channel, writer, resume,
                   sync, tracker, backfill, result, purgedTo, starts, purges>>

WriterExits ==
    /\ writer = "running"
    /\ closed
    /\ queue = << >> /\ batch = << >>
    /\ writer' = "exited"
    /\ UNCHANGED <<engine, database, hub, proc, subscription, producers, channel, batch, resume,
                   gap, sync, tracker, backfill, result, history, bounds>>

(***************************************************************************)
(* The sync loop.  A tick or a result may win over a cancelled context, and*)
(* the context may be cancelled while a sync is inside its listing.        *)
(***************************************************************************)
SyncBegins ==
    /\ proc = "up"
    /\ sync = "idle"
    /\ sync' = "listing"
    /\ UNCHANGED <<engine, database, hub, proc, subscription, producers, channel, writer, batch,
                   resume, gap, tracker, backfill, result, history, bounds>>

\* A new gap reopens the generation with a fresh budget.
NewGap == gap # 0 /\ gap # healing
Eligible ==
    /\ ~inFlight
    /\ NewGap \/ ~done
    /\ NewGap \/ attempts < MaxAttempts

\* upsertMeta, then schedule, then a look at the context before the backfill
\* is started.
SyncSchedules ==
    /\ sync = "listing"
    /\ sync' = IF Eligible /\ proc = "up" THEN "spawning" ELSE "idle"
    /\ row' = TRUE
    /\ healing' = IF NewGap THEN gap ELSE healing
    /\ done' = (done /\ ~NewGap)
    /\ attempts' = IF NewGap THEN 0 ELSE attempts
    /\ inFlight' = (inFlight \/ Eligible)
    /\ freshDrop' = FALSE
    /\ UNCHANGED <<engine, rows, wm, hub, proc, subscription, producers, channel, writer, batch,
                   resume, gap, backfill, result, idleDrops, busyDrops, purgedTo, bounds>>

\* The context may have been cancelled since; the backfill starts all the same.
SyncSpawnsUncounted ==
    /\ sync = "spawning"
    /\ sync' = "idle"
    /\ bf' = "spawned"
    /\ UNCHANGED <<engine, database, hub, proc, subscription, producers, channel, writer, batch,
                   resume, gap, tracker, unread, outcome, result, history, bounds>>

SyncSpawns ==
    /\ sync = "spawning"
    /\ sync' = "idle"
    /\ producers' = producers + 1
    /\ bf' = "spawned"
    /\ UNCHANGED <<engine, database, hub, proc, subscription, channel, writer, batch, resume, gap,
                   tracker, unread, outcome, result, history, bounds>>

\* The listing or upsertMeta failed: nothing is scheduled.
SyncFails ==
    /\ sync = "listing"
    /\ \/ proc = "up" /\ failures < MaxFailures /\ failures' = failures + 1
       \/ proc = "stopping" /\ UNCHANGED failures
    /\ sync' = "idle"
    /\ UNCHANGED <<engine, database, hub, proc, subscription, producers, channel, writer, batch,
                   resume, gap, tracker, backfill, result, history, starts, purges>>

\* complete: the snapshot and the gap this read healed are retired.
ResultOk ==
    /\ sync = "idle"
    /\ result = "ok"
    /\ result' = "none"
    /\ inFlight' = FALSE
    /\ done' = TRUE
    /\ attempts' = 0
    /\ resume' = NoPoint
    /\ gap' = IF healing # 0 /\ gap = healing THEN 0 ELSE gap
    /\ healing' = 0
    /\ UNCHANGED <<engine, database, hub, proc, subscription, producers, channel, writer, batch,
                   sync, backfill, history, bounds>>

ResultErrStillInFlight ==
    /\ sync = "idle"
    /\ result = "err"
    /\ result' = "none"
    /\ attempts' = attempts + 1
    /\ UNCHANGED <<engine, database, hub, proc, subscription, producers, channel, writer, batch,
                   resume, gap, sync, done, inFlight, healing, backfill, history, bounds>>

ResultErr ==
    /\ sync = "idle"
    /\ result = "err"
    /\ result' = "none"
    /\ inFlight' = FALSE
    /\ attempts' = attempts + 1
    /\ UNCHANGED <<engine, database, hub, proc, subscription, producers, channel, writer, batch,
                   resume, gap, sync, done, healing, backfill, history, bounds>>

SyncStops ==
    /\ proc = "stopping"
    /\ sync = "idle"
    /\ sync' = "stopped"
    /\ UNCHANGED <<engine, database, hub, proc, subscription, producers, channel, writer, batch,
                   resume, gap, tracker, backfill, result, history, bounds>>

(***************************************************************************)
(* The backfill goroutine.                                                 *)
(***************************************************************************)
\* watermark: the lowest mark among the streams that have one.
Watermark(point) ==
    LET marks == {point[s] : s \in Streams} \ {0}
    IN  IF marks = {} THEN 0 ELSE Min(marks)

Before(ts) == IF ts > Overlap THEN ts - Overlap ELSE 1

\* The stored marks, or the snapshot of them taken at startup while it lasts.
StoredPoint == IF row THEN wm ELSE ZeroPoint
ResumePoint == IF resume # NoPoint THEN resume ELSE StoredPoint

\* backfillSince: the startup snapshot while it lasts, else the stored marks;
\* creation when there are none; the gap when it is older.
Since ==
    LET mark == Watermark(ResumePoint)
        from == IF mark = 0 THEN 1 ELSE Before(mark)
    IN  IF gap # 0 /\ Before(gap) < from THEN Before(gap) ELSE from

BackfillOpens ==
    /\ bf = "spawned"
    /\ bf' = "reading"
    /\ unread' = Since .. Len(log)
    /\ UNCHANGED <<engine, database, hub, proc, subscription, producers, channel, writer, batch,
                   resume, gap, sync, tracker, outcome, result, history, bounds>>

\* The engine emits the next line of either stream; send blocks on a full
\* queue and gives the line up only when the context is cancelled.
BackfillReads(i) ==
    /\ bf = "reading"
    /\ NextOfItsStream(i, unread)
    /\ unread' = unread \ {i}
    /\ \/ Room /\ queue' = Append(queue, i)
       \/ proc = "stopping" /\ UNCHANGED queue
    /\ UNCHANGED <<engine, database, hub, proc, subscription, producers, closed, writer, batch,
                   resume, gap, sync, tracker, bf, outcome, result, history, bounds>>

BackfillEnds ==
    /\ bf = "reading"
    /\ unread = {}
    /\ bf' = "read"
    /\ outcome' = "ok"
    /\ UNCHANGED <<engine, database, hub, proc, subscription, producers, channel, writer, batch,
                   resume, gap, sync, tracker, unread, result, history, bounds>>

\* The engine fails the read, or cancels it with the context.
BackfillFails ==
    /\ bf = "reading"
    /\ \/ proc = "up" /\ failures < MaxFailures /\ failures' = failures + 1
       \/ proc = "stopping" /\ UNCHANGED failures
    /\ bf' = "read"
    /\ outcome' = "err"
    /\ UNCHANGED <<engine, database, hub, proc, subscription, producers, channel, writer, batch,
                   resume, gap, sync, tracker, unread, result, history, starts, purges>>

\* A cancelled context while waiting for the semaphore, or a failed watermark
\* query: reported at once, with no message to the writer.
BackfillGivesUp ==
    /\ bf = "spawned"
    /\ \/ proc = "up" /\ failures < MaxFailures /\ failures' = failures + 1
       \/ proc = "stopping" /\ UNCHANGED failures
    /\ bf' = "reporting"
    /\ outcome' = "err"
    /\ UNCHANGED <<engine, database, hub, proc, subscription, producers, channel, writer, batch,
                   resume, gap, sync, tracker, unread, result, history, starts, purges>>

BackfillSendsDone ==
    /\ bf = "read"
    /\ \/ Room /\ queue' = Append(queue, Done)
       \/ proc = "stopping" /\ UNCHANGED queue
    /\ bf' = "reporting"
    /\ UNCHANGED <<engine, database, hub, proc, subscription, producers, closed, writer, batch,
                   resume, gap, sync, tracker, unread, outcome, result, history, bounds>>

\* report, then the deferred producers.Done.
BackfillReports ==
    /\ bf = "reporting"
    /\ \/ result = "none" /\ result' = outcome
       \/ proc = "stopping" /\ UNCHANGED result
    /\ bf' = "none"
    /\ producers' = producers - 1
    /\ UNCHANGED <<engine, database, hub, proc, subscription, channel, writer, batch, resume,
                   gap, sync, tracker, unread, outcome, history, bounds>>

(***************************************************************************)
(* DeleteContainer: one transaction, which also forgets the generation's   *)
(* resume point and gap.  (The rows themselves are in module LogRows.)     *)
(***************************************************************************)
Purge ==
    /\ proc # "down"
    /\ row
    /\ purges < MaxPurges
    /\ purges' = purges + 1
    /\ purgedTo' = Max({purgedTo} \union {i \in Line : rows[i] > 0})
    /\ rows' = [i \in Line |-> 0]
    /\ wm' = ZeroPoint
    /\ row' = FALSE
    /\ resume' = NoPoint
    /\ gap' = 0
    /\ idleDrops' = {}
    /\ busyDrops' = {}
    /\ freshDrop' = FALSE
    /\ downtime' = {}
    /\ UNCHANGED <<log, lastDown, known, hub, proc, subscription, producers, channel, writer, batch,
                   sync, tracker, backfill, result, failures, starts>>

(***************************************************************************)
(* The process.                                                            *)
(***************************************************************************)
\* What a new process starts with.
Fresh ==
    /\ tailing' = FALSE /\ pending' = {}
    /\ queue' = << >> /\ closed' = FALSE
    /\ batch' = << >>
    /\ gap' = 0
    /\ attempts' = 0 /\ done' = FALSE /\ inFlight' = FALSE /\ healing' = 0
    /\ bf' = "none" /\ unread' = {} /\ outcome' = "ok"
    /\ result' = "none"
    /\ idleDrops' = {} /\ busyDrops' = {} /\ freshDrop' = FALSE

\* start: the stored marks are snapshotted before the sink is subscribed.
Start ==
    /\ proc = "down"
    /\ starts < MaxStarts
    /\ starts' = starts + 1
    /\ proc' = "up"
    /\ Fresh
    /\ resume' = IF row THEN wm ELSE NoPoint
    /\ subscription' = "live"
    /\ producers' = 1
    /\ writer' = "running"
    /\ sync' = "idle"
    /\ known' = row
    /\ UNCHANGED <<log, downtime, lastDown, database, purgedTo, failures, purges>>

\* The process is gone, by a crash at any moment or by its orderly end, and
\* with it everything but the engine's log and the database.
Gone ==
    /\ proc' = "down"
    /\ Fresh
    /\ resume' = NoPoint
    /\ subscription' = "released"
    /\ producers' = 0
    /\ writer' = "exited"
    /\ sync' = "stopped"
    /\ lastDown' = Len(log)
    /\ UNCHANGED <<log, downtime, known, database, purgedTo, bounds>>

Crash == proc # "down" /\ Gone

Cancel ==
    /\ MayStop
    /\ proc = "up"
    /\ proc' = "stopping"
    /\ UNCHANGED <<engine, database, hub, subscription, producers, channel, writer, batch,
                   resume, gap, sync, tracker, backfill, result, history, bounds>>

\* unsubscribe discards what the hub still buffers.
Unsubscribe ==
    /\ proc = "stopping"
    /\ subscription = "live"
    /\ subscription' = "ended"
    /\ tailing' = FALSE /\ pending' = {}
    /\ UNCHANGED <<engine, database, proc, producers, channel, writer, batch, resume, gap,
                   sync, tracker, backfill, result, history, bounds>>

\* Once the sync loop has stopped, no new backfill can register: the sink's
\* own producer is released, and when the count is zero the queue is closed.
SinkReleasedEarly ==
    /\ subscription = "ended"
    /\ subscription' = "released"
    /\ producers' = producers - 1
    /\ UNCHANGED <<engine, database, hub, proc, channel, writer, batch, resume, gap, sync,
                   tracker, backfill, result, history, bounds>>

SinkForgotten ==
    /\ subscription = "ended"
    /\ sync = "stopped"
    /\ subscription' = "released"
    /\ UNCHANGED <<engine, database, hub, proc, producers, channel, writer, batch, resume, gap,
                   sync, tracker, backfill, result, history, bounds>>

SinkReleased ==
    /\ subscription = "ended"
    /\ sync = "stopped"
    /\ subscription' = "released"
    /\ producers' = producers - 1
    /\ UNCHANGED <<engine, database, hub, proc, channel, writer, batch, resume, gap, sync,
                   tracker, backfill, result, history, bounds>>

CloseQueue ==
    /\ proc = "stopping"
    /\ subscription = "released"
    /\ ~closed
    /\ producers = 0
    /\ closed' = TRUE
    /\ UNCHANGED <<engine, database, hub, proc, subscription, producers, queue, writer, batch,
                   resume, gap, sync, tracker, backfill, result, history, bounds>>

\* Wait has returned and the database is closed.
Exit == proc = "stopping" /\ closed /\ writer = "exited" /\ Gone

\* A container that may have written before the store ever ran.
Init ==
    /\ log = << >>
    /\ rows = [i \in Line |-> 0] /\ wm = ZeroPoint /\ row = FALSE
    /\ tailing = FALSE /\ pending = {}
    /\ proc = "down" /\ subscription = "released" /\ producers = 0
    /\ queue = << >> /\ closed = FALSE
    /\ writer = "exited" /\ batch = << >>
    /\ resume = NoPoint /\ gap = 0
    /\ sync = "stopped"
    /\ attempts = 0 /\ done = FALSE /\ inFlight = FALSE /\ healing = 0
    /\ bf = "none" /\ unread = {} /\ outcome = "ok"
    /\ result = "none"
    /\ downtime = {} /\ lastDown = 0 /\ known = FALSE
    /\ idleDrops = {} /\ busyDrops = {} /\ freshDrop = FALSE /\ purgedTo = 0
    /\ failures = 0 /\ starts = 0 /\ purges = 0

EngineStep == \E s \in Streams : Emit(s)
HubStep == TailAttach \/ TailBreaks \/ \E i \in Line : Sink(i)
WriterStep == Receive \/ Commit \/ CommitFails \/ WriterExits
SyncStep ==
    SyncBegins \/ SyncSchedules \/ SyncSpawns \/ SyncFails
    \/ ResultOk \/ ResultErr \/ SyncStops
BackfillStep ==
    \/ BackfillOpens \/ (\E i \in Line : BackfillReads(i)) \/ BackfillEnds \/ BackfillFails
    \/ BackfillGivesUp \/ BackfillSendsDone \/ BackfillReports
ShutdownStep == Unsubscribe \/ SinkReleased \/ CloseQueue \/ Exit

Next ==
    \/ EngineStep \/ HubStep \/ WriterStep \/ SyncStep \/ BackfillStep
    \/ Purge
    \/ Start \/ Crash \/ Cancel \/ ShutdownStep

Spec == Init /\ [][Next]_vars

\* The goroutines are scheduled.  The sync loop selects at random among what
\* is ready, so a ready result or a cancelled context is not passed over for
\* ever in favour of the ticker.
Fairness ==
    /\ WF_vars(Receive) /\ WF_vars(Commit \/ CommitFails) /\ WF_vars(WriterExits)
    /\ WF_vars(SyncBegins) /\ WF_vars(SyncSchedules \/ SyncSpawns \/ SyncFails)
    /\ SF_vars(ResultOk \/ ResultErr) /\ SF_vars(SyncStops)
    /\ WF_vars(BackfillOpens \/ BackfillGivesUp)
    /\ WF_vars((\E i \in Line : BackfillReads(i)) \/ BackfillEnds \/ BackfillFails)
    /\ WF_vars(BackfillSendsDone) /\ WF_vars(BackfillReports)
    /\ WF_vars(ShutdownStep)

FairSpec == Spec /\ Fairness

(***************************************************************************)
(* Properties.                                                             *)
(***************************************************************************)
TypeOK ==
    /\ log \in Seq(Streams) /\ Len(log) <= MaxLines
    /\ rows \in [Line -> Nat] /\ wm \in Points /\ row \in BOOLEAN
    /\ tailing \in BOOLEAN /\ pending \subseteq Line
    /\ proc \in {"down", "up", "stopping"}
    /\ subscription \in {"live", "ended", "released"}
    /\ producers \in 0 .. 2
    /\ queue \in Seq(Message) /\ Len(queue) <= IngestBuffer /\ closed \in BOOLEAN
    /\ writer \in {"running", "exited"}
    /\ batch \in Seq(Message) /\ Len(batch) <= BatchLines
    /\ resume \in Points \union {NoPoint} /\ gap \in {0} \union Line
    /\ sync \in {"idle", "listing", "spawning", "stopped"}
    /\ attempts \in 0 .. MaxAttempts /\ done \in BOOLEAN /\ inFlight \in BOOLEAN
    /\ healing \in {0} \union Line
    /\ bf \in {"none", "spawned", "reading", "read", "reporting"}
    /\ unread \subseteq Line
    /\ outcome \in {"ok", "err"} /\ result \in {"none", "ok", "err"}
    /\ downtime \subseteq Line /\ lastDown \in 0 .. MaxLines /\ known \in BOOLEAN
    /\ idleDrops \subseteq Line /\ busyDrops \subseteq Line /\ freshDrop \in BOOLEAN
    /\ purgedTo \in {0} \union Line
    /\ failures \in 0 .. MaxFailures /\ starts \in 0 .. MaxStarts /\ purges \in 0 .. MaxPurges

\* Live delivery and backfills may bring a line to the writer several times
\* and in either order; it is stored once.
StoredOnce == \A i \in Line : rows[i] <= 1

\* A stream's watermark is its newest stored line, whatever failed, crashed or
\* was purged: it is never ahead of the rows it stands for.
WatermarkBacked ==
    \A s \in Streams :
        wm[s] = Max({0} \union {i \in Line : rows[i] > 0 /\ log[i] = s})

\* Rows and watermarks agree in every state a transaction, a crash or a purge
\* can leave: no line twice, and no watermark a restart would resume from
\* beyond what is stored.
RowsAndMarksAgree == TypeOK /\ StoredOnce /\ WatermarkBacked

\* The producer count is exactly the goroutines that may still send, so the
\* queue is closed only when nobody can send on it any more.
ProducersCounted ==
    producers = (IF subscription = "released" THEN 0 ELSE 1) + (IF bf = "none" THEN 0 ELSE 1)

\* No goroutine sends on the closed queue, which would panic the process.
NoSendOnClosed == [][closed /\ closed' => Len(queue') <= Len(queue)]_vars

\* The queue is closed after the last producer has let go and never before,
\* at whatever step of a listing, a backfill or a delivery the shutdown begins.
QueueClosedLast == []ProducersCounted /\ NoSendOnClosed

\* A line is still on its way to the database, or a mark says to read it again.
Covered(i) ==
    \/ rows[i] > 0
    \/ i \in ToSet(queue) \union ToSet(batch)
    \/ gap # 0 /\ Before(gap) <= i
    \/ i \in unread

\* "A dropped line is not lost: the mark makes the next sync re-read this
\* generation from the dropped line's timestamp" (sink): while the process
\* runs, a line dropped by a full queue or a failed transaction is covered.
DroppedLineNotLost == proc = "up" => \A i \in idleDrops \union busyDrops : Covered(i)

\* The same, for a line dropped while no backfill was in flight: its mark
\* survives every retry until a read that began after the drop delivers it.
IdleDropNotLost == proc = "up" => \A i \in idleDrops : Covered(i)

\* The first backfill of a stored generation reads everything written since
\* the process last went away, however far live lines have moved the stored
\* watermark by then.
LastDowntime == {i \in downtime : i > lastDown} \ busyDrops
LastDowntimeRead ==
    proc = "up" /\ done /\ known => \A i \in LastDowntime : Covered(i)

\* What live delivery missed is read again, be it dropped or written while the
\* process was down.
MissedLinesRead == IdleDropNotLost /\ LastDowntimeRead

\* A generation the store had never seen is read from its creation (backfill):
\* what it wrote before the store ran is covered once its backfill succeeded.
NewGenerationRead ==
    proc = "up" /\ done /\ ~known => \A i \in LastDowntime : Covered(i)

\* "lines emitted while it was down are backfilled rather than lost"
\* (docs, log history): of every downtime, once a backfill has succeeded.
DowntimeBackfilled ==
    proc = "up" /\ done /\ known => \A i \in downtime \ busyDrops : Covered(i)

\* "a fresh dropped-line gap makes it eligible again with a fresh retry
\* budget, so a spent budget can never block gap healing" (schedule).
SpentBudgetNeverBlocks == 
    [][SyncSchedules /\ freshDrop /\ attempts = MaxAttempts => inFlight']_vars

\* "a gap or resume point recorded before the purge cannot re-read the deleted
\* window back out of the engine" (invalidate): no backfill that begins after
\* the purge of a generation known at startup reads what the purge deleted.
PurgedNotReread == [][BackfillOpens /\ known => \A i \in unread' : i > purgedTo]_vars

\* A shutdown ends: every producer lets go, the writer drains the queue.
ShutdownCompletes == proc = "stopping" ~> proc = "down"

\* While the process lives and the engine and the database work, a gap does
\* not stay open.
GapHeals == gap # 0 ~> gap = 0 \/ proc # "up"
=============================================================================
