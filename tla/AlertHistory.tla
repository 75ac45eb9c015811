---------------------------- MODULE AlertHistory ----------------------------
(***************************************************************************)
(* What becomes of a fired alert: the dispatcher (alerts/engine.go), the   *)
(* deliveries to the channels (alerts/notify.go), the bounded history and  *)
(* its file (alerts/history.go), and the end of all of them within the     *)
(* shutdown's budget.                                                      *)
(*                                                                         *)
(* Alerts are numbered in the order they are fired.                        *)
(***************************************************************************)
EXTENDS Integers, Sequences, FiniteSets

CONSTANTS
    Channels,      \* notification channels of the configuration
    QueueSize,     \* capacity of dispatchCh
    Cap,           \* entries the history keeps
    MaxAlerts, MaxFailedWrites, MaxClears, MaxCrashes   \* bounds

ASSUME HistoryAssumption == QueueSize \in Nat \ {0} /\ Cap \in Nat \ {0} /\ MaxAlerts \in Nat

VARIABLES
    process,     \* "running", "stopping" (ctx is done), "exited" (Wait has returned)
    fired,       \* alerts the run loop has fired
    queue,       \* dispatchCh
    queueClosed,
    dispatcher,  \* "waiting", "appended", "delivering", "done"
    alert,       \* the alert the dispatcher is at
    delivery,    \* delivery[c]: of this alert to channel c
    budget,      \* of the drain: "full", "spent", "over" (the drain has ended first)
    entries,     \* history.entries, newest first: [id, outcome]
    dirty,
    file,        \* alerts-history.json
    flusher,     \* "looping", "done"
    clearing,    \* ClearHistory has emptied the list and not yet written it
    \* history
    addressed,   \* addressed[a]: the channels alert a was to be delivered to
    received,    \* received[a]: the channels that have got it
    forgotten,   \* alerts cleared and written
    failedWrites, clears, crashes

loop == <<process, fired, queue, queueClosed>>
disk == <<dirty, file, failedWrites>>
facts == <<addressed, received, forgotten>>
environment == <<clears, crashes>>
ahVars == <<loop, environment, dispatcher, alert, delivery, budget, entries, disk, flusher,
            clearing, facts>>

Alerts == 1 .. MaxAlerts
Quiet == [c \in Channels |-> "none"]
Ended == {"none", "ok", "failed"}
Ids(list) == {list[i].id : i \in 1 .. Len(list)}

AlertHistoryInit ==
    /\ process = "running" /\ fired = 0 /\ queue = <<>> /\ queueClosed = FALSE
    /\ dispatcher = "waiting" /\ alert = 0 /\ delivery = Quiet /\ budget = "full"
    /\ entries = <<>> /\ dirty = FALSE /\ file = <<>> /\ flusher = "looping"
    /\ clearing = FALSE
    /\ addressed = [a \in Alerts |-> {}] /\ received = [a \in Alerts |-> {}] /\ forgotten = {}
    /\ failedWrites = 0 /\ clears = 0 /\ crashes = 0

-----------------------------------------------------------------------------
\* The run loop.  A full queue drops the alert.
Emit ==
    /\ process = "running" /\ fired < MaxAlerts
    /\ fired' = fired + 1
    /\ queue' = IF Len(queue) < QueueSize THEN Append(queue, fired') ELSE queue
    /\ UNCHANGED <<process, queueClosed, environment, dispatcher, alert, delivery, budget, entries,
                   disk, flusher, clearing, facts>>

Stop ==
    /\ process = "running" /\ process' = "stopping"
    /\ UNCHANGED <<fired, queue, queueClosed, environment, dispatcher, alert, delivery, budget,
                   entries, disk, flusher, clearing, facts>>

ShutdownRun ==
    /\ process = "stopping" /\ ~queueClosed /\ queueClosed' = TRUE
    /\ UNCHANGED <<process, fired, queue, environment, dispatcher, alert, delivery, budget,
                   entries, disk, flusher, clearing, facts>>

-----------------------------------------------------------------------------
\* The dispatcher: each alert is in the history before it is delivered.
Bounded(list) == SubSeq(list, 1, IF Len(list) < Cap THEN Len(list) ELSE Cap)

TakeAlert ==
    /\ dispatcher = "waiting" /\ queue # <<>>
    /\ alert' = Head(queue) /\ queue' = Tail(queue)
    /\ entries' = Bounded(<<[id |-> alert', outcome |-> "none"]>> \o entries)
    /\ dirty' = TRUE
    /\ dispatcher' = "appended"
    /\ UNCHANGED <<process, fired, queueClosed, environment, delivery, budget, file, failedWrites,
                   flusher, clearing, facts>>

\* The channels are read live: any of them may be enabled by now.  With none
\* enabled the alert is history only.
Deliver ==
    \E enabled \in SUBSET Channels :
        /\ dispatcher = "appended"
        /\ addressed' = [addressed EXCEPT ![alert] = enabled]
        /\ dispatcher' = IF enabled = {} THEN "waiting" ELSE "delivering"
        /\ delivery' = [c \in Channels |-> IF c \notin enabled THEN "none"
                                           ELSE IF budget = "full" THEN "first" ELSE "failed"]
        /\ UNCHANGED <<loop, environment, alert, budget, entries, disk, flusher, clearing,
                       received, forgotten>>

\* One request: it arrives or not, and the answer is good, bad, or an error
\* that is worth a retry, such as no answer at all.
Attempt ==
    \E c \in Channels, arrives \in BOOLEAN, answer \in {"ok", "refused", "retryable"} :
        /\ delivery[c] \in {"first", "second"} /\ (answer = "ok" => arrives)
        /\ received' = IF arrives THEN [received EXCEPT ![alert] = @ \cup {c}] ELSE received
        /\ delivery' = [delivery EXCEPT ![c] = CASE answer = "ok" -> "ok"
                           [] answer = "refused" -> "failed"
                           [] answer = "retryable" -> IF @ = "first" THEN "pausing" ELSE "failed"]
        /\ UNCHANGED <<loop, environment, dispatcher, alert, budget, entries, disk, flusher,
                       clearing, addressed, forgotten>>

RetryNow ==
    \E c \in Channels :
        /\ delivery[c] = "pausing"
        /\ delivery' = [delivery EXCEPT ![c] = "second"]
        /\ UNCHANGED <<loop, environment, dispatcher, alert, budget, entries, disk, flusher,
                       clearing, facts>>

\* The shutdown ends a pause, and the end of its budget a request as well.
GiveUp ==
    \E c \in Channels :
        /\ \/ delivery[c] = "pausing" /\ process = "stopping"
           \/ delivery[c] \in {"first", "second"} /\ budget = "spent"
        /\ delivery' = [delivery EXCEPT ![c] = "failed"]
        /\ UNCHANGED <<loop, environment, dispatcher, alert, budget, entries, disk, flusher,
                       clearing, facts>>

\* Ok if all channels are; setDelivery finds the entry by its id, and leaves one
\* alone that was evicted or cleared.
AllOk == \A c \in Channels : delivery[c] \in {"none", "ok"}
AnyOk == \E c \in Channels : delivery[c] = "ok"
Succeeded == AllOk
Summary == IF Succeeded THEN "ok" ELSE "failed"

SetById == [i \in 1 .. Len(entries) |->
               IF entries[i].id = alert THEN [entries[i] EXCEPT !.outcome = Summary] ELSE entries[i]]
PutBackById == IF alert \in Ids(entries) THEN SetById
               ELSE Bounded(<<[id |-> alert, outcome |-> Summary]>> \o entries)
WithOutcome == SetById

SetDelivery ==
    /\ dispatcher = "delivering" /\ \A c \in Channels : delivery[c] \in Ended
    /\ entries' = WithOutcome
    /\ dirty' = (dirty \/ alert \in Ids(entries))
    /\ dispatcher' = "waiting" /\ delivery' = Quiet
    /\ UNCHANGED <<loop, environment, alert, budget, file, failedWrites, flusher, clearing, facts>>

\* The queue is closed and drained: flushStop is closed.
DispatchEnds ==
    /\ dispatcher = "waiting" /\ queue = <<>> /\ queueClosed
    /\ dispatcher' = "done"
    /\ UNCHANGED <<loop, environment, alert, delivery, budget, entries, disk, flusher, clearing,
                   facts>>

BudgetEnds ==
    /\ process = "stopping" /\ budget = "full"
    /\ budget' = IF dispatcher = "done" THEN "over" ELSE "spent"
    /\ UNCHANGED <<loop, environment, dispatcher, alert, delivery, entries, disk, flusher, clearing,
                   facts>>

-----------------------------------------------------------------------------
\* The history's file.  h.mu is held over the write; a failed write leaves the
\* list dirty for the next one.
FlushIfDirty ==
    \/ ~dirty /\ UNCHANGED disk
    \/ dirty /\ dirty' = FALSE /\ file' = entries /\ UNCHANGED failedWrites
    \/ /\ dirty /\ failedWrites < MaxFailedWrites /\ failedWrites' = failedWrites + 1
       /\ UNCHANGED <<dirty, file>>

Flush ==
    /\ flusher = "looping" /\ dirty /\ FlushIfDirty
    /\ UNCHANGED <<loop, environment, dispatcher, alert, delivery, budget, entries, flusher,
                   clearing, facts>>

\* The last flush comes after everything was dispatched.
DispatcherDone == dispatcher = "done"
AtOnce == process = "stopping"
MayFlushLast == DispatcherDone

FlushLast ==
    /\ flusher = "looping" /\ MayFlushLast /\ flusher' = "done"
    /\ FlushIfDirty
    /\ UNCHANGED <<loop, environment, dispatcher, alert, delivery, budget, entries, clearing, facts>>

\* ClearHistory: two critical sections, between which anything may happen.
Clear ==
    /\ process # "exited" /\ ~clearing /\ clears < MaxClears
    /\ clears' = clears + 1 /\ clearing' = TRUE
    /\ entries' = <<>> /\ dirty' = TRUE
    /\ UNCHANGED <<loop, crashes, dispatcher, alert, delivery, budget, file,
                   failedWrites, flusher, facts>>

ClearWritten ==
    /\ clearing /\ clearing' = FALSE
    /\ FlushIfDirty
    /\ forgotten' = IF dirty' THEN forgotten
                    ELSE forgotten \cup (1 .. alert \ Ids(entries))
    /\ UNCHANGED <<loop, environment, dispatcher, alert, delivery, budget, entries, flusher,
                   addressed, received>>

-----------------------------------------------------------------------------
\* Engine.Wait returns, and main goes on to its end.
Exit ==
    /\ process = "stopping" /\ queueClosed /\ dispatcher = "done" /\ flusher = "done"
    /\ budget # "full" /\ ~clearing
    /\ process' = "exited"
    /\ UNCHANGED <<fired, queue, queueClosed, environment, dispatcher, alert, delivery, budget,
                   entries, disk, flusher, clearing, facts>>

\* The process dies and another loads the file.
Crash ==
    /\ process # "exited" /\ crashes < MaxCrashes /\ crashes' = crashes + 1
    /\ process' = "running" /\ queue' = <<>> /\ queueClosed' = FALSE
    /\ dispatcher' = "waiting" /\ delivery' = Quiet /\ budget' = "full"
    /\ entries' = Bounded(file) /\ dirty' = FALSE
    /\ flusher' = "looping" /\ clearing' = FALSE
    /\ UNCHANGED <<fired, clears, alert, file, failedWrites, facts>>

DispatchStep == TakeAlert \/ Deliver \/ Attempt \/ RetryNow \/ GiveUp \/ SetDelivery \/ DispatchEnds
AlertHistoryNext ==
    \/ Emit \/ Stop \/ ShutdownRun \/ DispatchStep \/ BudgetEnds \/ Flush \/ FlushLast
    \/ Clear \/ ClearWritten \/ Exit \/ Crash

\* The run loop stops when told to; the dispatcher's goroutines go on, each
\* request has a timeout, and timers fire.
AlertHistoryFairness ==
    WF_ahVars(ShutdownRun \/ DispatchStep \/ BudgetEnds \/ FlushLast \/ ClearWritten \/ Exit)

AlertHistorySpec == AlertHistoryInit /\ [][AlertHistoryNext]_ahVars /\ AlertHistoryFairness
-----------------------------------------------------------------------------
\* What the history says of a delivery is true of that alert, over retries,
\* clearings, evictions and restarts: "ok" only if all the channels it was to
\* be delivered to have got it, nothing if there were none (notify.go).
OutcomesTrue ==
    \A i \in 1 .. Len(entries) :
        LET e == entries[i]
        IN  /\ e.outcome = "ok" => addressed[e.id] # {} /\ addressed[e.id] \subseteq received[e.id]
            /\ e.outcome = "failed" => addressed[e.id] # {}

\* What was cleared, and written as cleared, never comes back: not with the
\* outcome of a delivery that was under way, nor from the file after a crash.
ClearedStaysCleared == forgotten \cap (Ids(entries) \cup Ids(file)) = {}

\* The history can be believed in both respects (alerts/history.go).
HistorySound == OutcomesTrue /\ ClearedStaysCleared

\* The shutdown ends, whatever the channels do, and with everything settled:
\* the queue drained, each delivery's outcome recorded, the file up to date
\* unless its last write failed.
Settled ==
    /\ queue = <<>>
    /\ crashes = 0 => \A i \in 1 .. Len(entries) :
                         addressed[entries[i].id] # {} => entries[i].outcome # "none"
    /\ (file = entries) \/ (dirty /\ failedWrites > 0)
ShutdownSettles ==
    (process = "stopping") ~> ((process = "exited" /\ Settled) \/ process = "running")
=============================================================================
