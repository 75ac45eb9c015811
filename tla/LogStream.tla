----------------------------- MODULE LogStream -----------------------------
(***************************************************************************)
(* The live side of the log viewer: the hook useContainerLogStream, the    *)
(* effects of LogViewer that drive it and the pins that follow its ring    *)
(* buffer.  The browser is single threaded, so an action is one task: an   *)
(* event handler, a timer, an answered request or one item of the stream.  *)
(* After a task React commits and runs the effects whose dependencies      *)
(* changed, and the rejections caused by an abort run: both come before    *)
(* the next task (Settled), in either order.                               *)
(*                                                                         *)
(* Lines are the numbers 1, 2, .. in the order the container wrote them;   *)
(* continuation lines, which the viewer folds into one row, are not        *)
(* modelled here, so a row is a line.  Time is counted in units of the     *)
(* server's heartbeat interval.                                            *)
(***************************************************************************)
EXTENDS LogPins

CONSTANTS
    MaxLogLines,    \* the ring buffer's size
    Tails,          \* the sizes the Lines input can ask for
    Delays,         \* the backoff before the n-th reconnect, in units
    IdleTimeout,    \* the watchdog's limit, in units
    Suspends,       \* can the machine sleep through a backoff?
    SlowConnects,   \* can opening a connection take a unit or more?
    MaxEmitted,     \* bound: lines the container writes
    MaxFetches      \* bound: one-shot reads in flight when the user acts

ASSUME StreamAssumption ==
    /\ MaxLogLines \in Nat /\ Tails \subseteq Nat
    /\ Delays \in Seq(Nat) /\ Delays # <<>>
    /\ IdleTimeout \in Nat /\ MaxEmitted \in Nat \ {0} /\ MaxFetches \in Nat
    /\ Suspends \in BOOLEAN /\ SlowConnects \in BOOLEAN

VARIABLES
    mounted,        \* is the viewer on the page
    parked,         \* history mode: the hook has no container to read
    tail,           \* the Lines input
    emitted,        \* lines the container has written
    logs,           \* displayed lines, and logsLengthRef
    pending,        \* received, to be displayed by the next flush
    buffered,       \* received while paused
    droppedCount,   \* displayed lines the ring has dropped
    bufferedDropped,\* lines dropped before they were displayed
    loading, streaming, reconnecting, paused,   \* the flags the page shows
    interval,       \* is the flush timer running
    stopReq,        \* stopRequestedRef
    ctrl,           \* does abortControllerRef hold the session's controller
    restart,        \* the restart after a recreation: "no", "due", "done"
    session,        \* the run of startStreaming's loop
    age,            \* units since lastActivityRef
    fetches,        \* one-shot reads in flight, oldest first
    deps,           \* the dependencies the fetch effect last ran with
    pins,           \* pinned rows
    clobbered       \* history: a one-shot read was answered into this stream

shown == <<logs, droppedCount, bufferedDropped, pins>>
received == <<pending, buffered>>
flags == <<loading, streaming, reconnecting, paused>>
refs == <<interval, stopReq, ctrl, age, restart>>
page == <<mounted, parked, tail>>
vars == <<page, emitted, shown, received, flags, refs, session, fetches, deps,
          clobbered>>

NoSession == [phase |-> "none", attempt |-> 0, pos |-> 0, waited |-> 0,
              aborted |-> FALSE, live |-> FALSE, due |-> FALSE]
Sessions == [phase : {"none", "waiting", "connecting", "reading"},
             attempt : 0 .. Len(Delays), pos : 0 .. MaxEmitted,
             waited : Nat, aborted : BOOLEAN, live : BOOLEAN, due : BOOLEAN]

NotYet == [streaming |-> TRUE, tail |-> 0, parked |-> FALSE]
Deps == [streaming |-> streaming, tail |-> tail, parked |-> parked]
Reading == session.phase = "reading" /\ ~session.aborted
MaxDelay == Delays[Len(Delays)]

\* No effect is outstanding and no aborted session is still unwinding.
Settled == (mounted => deps = Deps) /\ ~session.aborted
\* The page is there for the user.
Ready == mounted /\ Settled

\* The live controls the toolbars enable.  History hides them; the sheet,
\* which has no history, hides Pause instead of disabling it.
offersLines == ~parked /\ ~streaming
offersStream == ~parked /\ (streaming \/ ~loading)
offersPause == ~parked /\ streaming
offersRefresh == ~streaming /\ ~loading

LastOf(s, n) == SubSeq(s, Len(s) - n + 1, Len(s))
\* Mutant: no cap.
Uncapped(s) == s

Capped(s) == IF Len(s) > MaxLogLines THEN LastOf(s, MaxLogLines) ELSE s
OverCap(s) == IF Len(s) > MaxLogLines THEN Len(s) - MaxLogLines ELSE 0
Smaller(m, n) == IF m < n THEN m ELSE n

\* The last n lines of the container's log when it had written upto lines.
TailOf(n, upto) ==
    LET k == Smaller(n, upto) IN [i \in 1 .. k |-> upto - k + i]

ResetPauseAndBuffer == paused' = FALSE /\ buffered' = <<>>
ResetDroppedCount == droppedCount' = 0 /\ bufferedDropped' = 0
ResetPins == pins' = {}

\* The drops come off the front of what was displayed and what arrives, so
\* at most all displayed lines are dropped from the display.
DroppedFromDisplayed(arriving) == Smaller(Len(logs), OverCap(logs \o arriving))
\* Mutant: the pins are not shifted by the drops.
RecordDroppedOnly(n, ahead) ==
    /\ droppedCount' = droppedCount + n
    /\ bufferedDropped' = bufferedDropped + ahead
    /\ UNCHANGED pins

RecordDropped(n, ahead) ==
    /\ droppedCount' = droppedCount + n
    /\ bufferedDropped' = bufferedDropped + ahead
    /\ pins' = ShiftPins(pins, n)

\* Mutant: lines dropped before they were displayed are not counted.
FlushForgets(arriving) ==
    /\ logs' = Capped(logs \o arriving)
    /\ RecordDropped(DroppedFromDisplayed(arriving), 0)
    /\ pending' = <<>>

\* flushPendingLogs: one update of the display for everything that arrived.
Flush(arriving) ==
    /\ logs' = Capped(logs \o arriving)
    /\ RecordDropped(DroppedFromDisplayed(arriving),
                     OverCap(logs \o arriving) - DroppedFromDisplayed(arriving))
    /\ pending' = <<>>

-----------------------------------------------------------------------------
Init ==
    /\ mounted = TRUE /\ parked = FALSE /\ tail \in Tails
    /\ emitted \in {0, 1}
    /\ logs = <<>> /\ droppedCount = 0 /\ bufferedDropped = 0 /\ pins = {}
    /\ pending = <<>> /\ buffered = <<>>
    /\ loading = FALSE /\ streaming = FALSE /\ reconnecting = FALSE /\ paused = FALSE
    /\ interval = FALSE /\ stopReq = FALSE /\ ctrl = FALSE /\ age = 0 /\ restart = "no"
    /\ session = NoSession /\ fetches = <<>> /\ deps = NotYet
    /\ clobbered = FALSE

\* The container writes a line.
Emit ==
    /\ emitted < MaxEmitted
    /\ emitted' = emitted + 1
    /\ UNCHANGED <<page, shown, received, flags, refs, session, fetches, deps, clobbered>>

-----------------------------------------------------------------------------
(* One-shot reads.                                                         *)

\* fetchLogs up to its await.
FetchIssued ==
    /\ loading' = TRUE
    /\ ResetPauseAndBuffer /\ ResetDroppedCount /\ ResetPins
    /\ fetches' = Append(fetches, [tail |-> tail, from |-> emitted])
    /\ UNCHANGED <<logs, pending, streaming, reconnecting>>

Refresh ==
    /\ Ready /\ ~parked /\ offersRefresh /\ Len(fetches) < MaxFetches
    /\ FetchIssued
    /\ UNCHANGED <<page, emitted, refs, session, deps, clobbered>>

Without(s, i) == SubSeq(s, 1, i - 1) \o SubSeq(s, i + 1, Len(s))

\* A read is answered, whichever it is: nothing ties the answer to the
\* options shown by then or to a stream started meanwhile.
FetchAnswered ==
    \E i \in 1 .. Len(fetches) : \E upto \in fetches[i].from .. emitted :
        LET answer == TailOf(fetches[i].tail, upto) IN
        /\ Ready
        /\ logs' = Capped(answer)
        /\ RecordDropped(OverCap(answer), 0)
        /\ loading' = FALSE
        /\ fetches' = Without(fetches, i)
        /\ clobbered' = (clobbered \/ streaming)
        /\ UNCHANGED <<page, emitted, received, streaming, reconnecting, paused,
                       refs, session, deps>>

FetchFails ==
    \E i \in 1 .. Len(fetches) :
        /\ Ready
        /\ logs' = <<>>
        /\ loading' = FALSE
        /\ fetches' = Without(fetches, i)
        /\ clobbered' = (clobbered \/ streaming)
        /\ UNCHANGED <<page, emitted, droppedCount, bufferedDropped, pins, received,
                       streaming, reconnecting, paused, refs, session, deps>>

-----------------------------------------------------------------------------
(* The user.                                                               *)

\* startStreaming up to the first connection attempt.
StartStreaming ==
    /\ streaming' = TRUE /\ loading' = TRUE
    /\ ResetPauseAndBuffer /\ ResetDroppedCount /\ ResetPins
    /\ logs' = <<>> /\ pending' = <<>>
    /\ stopReq' = FALSE /\ interval' = TRUE /\ ctrl' = TRUE /\ age' = 0
    /\ session' = [NoSession EXCEPT !.phase = "connecting"]
    /\ clobbered' = FALSE
    /\ UNCHANGED <<page, emitted, reconnecting, fetches, deps>>

\* Bound: not in the 100 ms of a restart, which would run two loops.
Start ==
    /\ Ready /\ offersStream /\ ~streaming /\ session.phase = "none" /\ restart # "due"
    /\ StartStreaming /\ UNCHANGED restart

\* Mutant: the loop is not told that the user stopped the stream.
StopStreamingLoopOn ==
    /\ stopReq' = FALSE /\ ctrl' = ctrl
    /\ session' = IF ctrl THEN [session EXCEPT !.aborted = TRUE] ELSE session
    /\ ResetPauseAndBuffer
    /\ streaming' = FALSE /\ reconnecting' = FALSE

\* stopStreaming.
StopStreaming ==
    /\ stopReq' = TRUE
    /\ ctrl' = FALSE
    /\ session' = IF ctrl THEN [session EXCEPT !.aborted = TRUE] ELSE session
    /\ ResetPauseAndBuffer
    /\ streaming' = FALSE /\ reconnecting' = FALSE

Stop ==
    /\ Ready /\ offersStream /\ streaming /\ Len(fetches) < MaxFetches
    /\ StopStreaming
    /\ UNCHANGED <<page, emitted, shown, pending, loading, interval, age, restart, fetches,
                   deps, clobbered>>

\* The effects on the viewer's dependencies.  A stream that could no longer
\* be stopped from the toolbar is stopped; with no stream the log is read
\* again, but in history mode the hook has nothing to read.
ViewerEffects ==
    /\ mounted /\ deps # Deps
    /\ deps' = Deps
    /\ \/ /\ parked /\ streaming
          /\ StopStreaming
          /\ UNCHANGED <<shown, pending, loading, fetches, interval, age, restart>>
       \/ /\ ~parked /\ ~streaming
          /\ FetchIssued
          /\ UNCHANGED <<refs, session>>
       \/ /\ parked # streaming
          /\ UNCHANGED <<shown, received, flags, fetches, refs, session>>
    /\ UNCHANGED <<page, emitted, clobbered>>

\* The page's container was recreated (its environment was saved): a running
\* stream is stopped and, 100 ms later, started; otherwise the log is read.
\* Lines keep their numbers.  Bound: once.
RefreshAfterRecreate ==
    /\ Ready /\ ~parked /\ restart = "no"
    /\ \/ /\ streaming
          /\ StopStreaming /\ restart' = "due"
          /\ UNCHANGED <<shown, pending, loading, fetches, interval, age>>
       \/ /\ ~streaming /\ Len(fetches) < MaxFetches
          /\ FetchIssued /\ restart' = "done"
          /\ UNCHANGED <<interval, stopReq, ctrl, age, session>>
    /\ UNCHANGED <<page, emitted, deps, clobbered>>

\* The 100 ms are over; nobody asks whether the viewer is still there.
RestartStreaming ==
    /\ Settled /\ restart = "due"
    /\ StartStreaming /\ restart' = "done"

Pause ==
    /\ Ready /\ offersPause /\ ~paused
    /\ Flush(pending)
    /\ paused' = TRUE
    /\ UNCHANGED <<page, emitted, buffered, loading, streaming, reconnecting, refs,
                   session, fetches, deps, clobbered>>

Resume ==
    /\ Ready /\ offersPause /\ paused
    /\ paused' = FALSE
    /\ buffered' = <<>>
    /\ IF buffered = <<>> THEN UNCHANGED <<shown, pending>> ELSE Flush(pending \o buffered)
    /\ UNCHANGED <<page, emitted, loading, streaming, reconnecting, refs, session,
                   fetches, deps, clobbered>>

ChangeTail ==
    \E n \in Tails \ {tail} :
        /\ Ready /\ offersLines /\ Len(fetches) < MaxFetches
        /\ tail' = n
        /\ UNCHANGED <<mounted, parked, emitted, shown, received, flags, refs, session,
                       fetches, deps, clobbered>>

\* The source toggle, with the effect on isHistory that drops the pins.
SwitchSource ==
    /\ Ready /\ Len(fetches) < MaxFetches
    /\ parked' = ~parked
    /\ ResetPins
    /\ UNCHANGED <<mounted, tail, emitted, logs, droppedCount, bufferedDropped, received,
                   flags, refs, session, fetches, deps, clobbered>>

\* The user pins the rows of the selection (here one row), or unpins them.
TogglePin ==
    \E i \in 0 .. Len(logs) - 1 :
        /\ Ready /\ ~parked
        /\ pins' = IF i \in pins THEN pins \ {i} ELSE pins \cup {i}
        /\ UNCHANGED <<page, emitted, logs, droppedCount, bufferedDropped, received, flags,
                       refs, session, fetches, deps, clobbered>>

\* The viewer goes away: the timer is cleared and the stream stopped.
Unmount ==
    /\ Ready
    /\ mounted' = FALSE
    /\ StopStreaming
    /\ interval' = FALSE
    /\ UNCHANGED <<parked, tail, emitted, shown, pending, loading, age, restart, fetches,
                   deps, clobbered>>

-----------------------------------------------------------------------------
(* The session: startStreaming's loop.                                     *)

\* Mutant: every connection asks for the tail.
TailAlways == Smaller(tail, emitted)

\* Reconnects follow from now.
TailAsked == IF session.attempt = 0 THEN Smaller(tail, emitted) ELSE 0

Connect ==
    /\ Settled /\ session.phase = "connecting"
    /\ session' = [session EXCEPT !.phase = "reading", !.live = TRUE, !.due = FALSE,
                       !.pos = emitted - TailAsked]
    /\ UNCHANGED <<page, emitted, shown, received, flags, refs, fetches, deps, clobbered>>

\* Anything received proves the connection alive and ends the backoff.
Active(s) == [s EXCEPT !.attempt = 0]

Receive ==
    /\ Settled /\ Reading /\ session.live /\ session.pos < emitted
    /\ session' = Active([session EXCEPT !.pos = @ + 1])
    /\ age' = 0 /\ reconnecting' = FALSE /\ loading' = FALSE
    /\ LET line == session.pos + 1 IN
       IF paused
       THEN buffered' = Append(buffered, line) /\ pending' = pending
       ELSE pending' = Append(pending, line) /\ buffered' = buffered
    /\ UNCHANGED <<page, emitted, shown, streaming, paused, interval, stopReq, ctrl,
                   restart, fetches, deps, clobbered>>

\* The server reports that a quiet stream is alive.
ReceiveHeartbeat ==
    /\ Settled /\ Reading /\ session.live /\ session.due
    /\ session' = Active([session EXCEPT !.due = FALSE])
    /\ age' = 0 /\ reconnecting' = FALSE /\ loading' = FALSE
    /\ UNCHANGED <<page, emitted, shown, received, streaming, paused, interval, stopReq,
                   ctrl, restart, fetches, deps, clobbered>>

\* The connection dies without a word.
GoesSilent ==
    /\ Settled /\ Reading /\ session.live
    /\ session' = [session EXCEPT !.live = FALSE, !.due = FALSE]
    /\ UNCHANGED <<page, emitted, shown, received, flags, refs, fetches, deps, clobbered>>

\* One connection is over.  The loop goes round with a new controller and a
\* longer backoff unless the user stopped the stream.
Retry ==
    LET n == Smaller(session.attempt + 1, Len(Delays)) IN
    /\ session' = [NoSession EXCEPT !.phase = "waiting", !.attempt = n]
    /\ age' = 0 /\ reconnecting' = TRUE
    /\ UNCHANGED <<shown, received, loading, streaming, paused, interval, stopReq, ctrl, restart>>

\* The loop's finally block.
Finish ==
    /\ interval' = FALSE
    /\ IF pending = <<>> THEN UNCHANGED <<shown, pending>> ELSE Flush(pending)
    /\ loading' = FALSE /\ streaming' = FALSE /\ reconnecting' = FALSE
    /\ ctrl' = FALSE
    /\ session' = NoSession
    /\ UNCHANGED <<buffered, paused, stopReq, age, restart>>

ConnectionOver ==
    /\ IF stopReq \/ ~ctrl THEN Finish ELSE Retry
    /\ UNCHANGED <<page, emitted, fetches, deps, clobbered>>

\* The server ends the stream, the connection breaks or the request fails.
ConnectionEnds ==
    /\ Settled /\ session.phase \in {"connecting", "reading"}
    /\ ConnectionOver

\* The abort of the user or of the watchdog surfaces in the loop.
Aborts ==
    /\ session.aborted /\ session.phase \in {"connecting", "reading"}
    /\ ConnectionOver

\* The backoff is over, or cut short by an abort, which ends the loop.
WaitEnds ==
    /\ session.phase = "waiting"
    /\ \/ /\ session.aborted \/ stopReq
          /\ Finish
       \/ /\ Settled /\ session.waited >= Delays[session.attempt]
          /\ session' = [session EXCEPT !.phase = "connecting", !.waited = 0]
          /\ UNCHANGED <<shown, received, flags, refs>>
    /\ UNCHANGED <<page, emitted, fetches, deps, clobbered>>

-----------------------------------------------------------------------------
(* Timers.                                                                 *)

\* A heartbeat interval passes.  The server's ticker starts with the
\* connection, so a live connection then has a heartbeat on its way.
Tick ==
    /\ Settled /\ session.phase # "none" /\ age < IdleTimeout /\ ~session.due
    /\ session.phase = "waiting" => Suspends \/ session.waited < Delays[session.attempt]
    /\ session.phase = "connecting" => SlowConnects
    /\ age' = age + 1
    /\ session' = [session EXCEPT !.due = Reading /\ session.live,
                       !.waited = IF session.phase = "waiting" /\ @ < MaxDelay
                                  THEN @ + 1 ELSE @]
    /\ UNCHANGED <<page, emitted, shown, received, flags, interval, stopReq, ctrl, restart,
                   fetches, deps, clobbered>>

\* Mutant: no watchdog.
NeverExpired == FALSE

Expired == ctrl /\ age >= IdleTimeout

\* While paused the backlog is capped; its trims never touch the display.
SyncBuffered ==
    /\ buffered' = Capped(buffered)
    /\ bufferedDropped' = bufferedDropped + OverCap(buffered)
    /\ UNCHANGED <<droppedCount, pins>>

\* handleFlushTick: the idle watchdog, then the display.
FlushTick ==
    /\ Settled /\ interval
    /\ session' = IF Expired THEN [session EXCEPT !.aborted = TRUE] ELSE session
    /\ IF paused
       THEN SyncBuffered /\ UNCHANGED <<logs, pending>>
       ELSE /\ IF pending = <<>> THEN UNCHANGED <<shown, pending>> ELSE Flush(pending)
            /\ buffered' = buffered
    /\ UNCHANGED <<page, emitted, flags, refs, fetches, deps, clobbered>>

-----------------------------------------------------------------------------
Next ==
    \/ Emit \/ ViewerEffects \/ Refresh \/ FetchAnswered \/ FetchFails
    \/ RefreshAfterRecreate \/ RestartStreaming
    \/ Start \/ Stop \/ Pause \/ Resume \/ ChangeTail \/ SwitchSource \/ TogglePin \/ Unmount
    \/ Connect \/ Receive \/ ReceiveHeartbeat \/ GoesSilent \/ ConnectionEnds
    \/ Aborts \/ WaitEnds \/ Tick \/ FlushTick

Spec == Init /\ [][Next]_vars

\* Effects, rejections and timers run; time passes.  Nothing is assumed of
\* the user, the container, the network or the server.
Fairness ==
    /\ WF_vars(ViewerEffects) /\ WF_vars(Aborts) /\ WF_vars(WaitEnds)
    /\ WF_vars(Tick) /\ WF_vars(FlushTick)
FairSpec == Spec /\ Fairness

Rows == 0 .. MaxLogLines - 1
TypeOK ==
    /\ mounted \in BOOLEAN /\ parked \in BOOLEAN /\ tail \in Tails
    /\ emitted \in 0 .. MaxEmitted
    /\ logs \in Seq(1 .. MaxEmitted) /\ Len(logs) <= MaxLogLines
    /\ pending \in Seq(1 .. MaxEmitted) /\ buffered \in Seq(1 .. MaxEmitted)
    /\ droppedCount \in Nat /\ bufferedDropped \in Nat
    /\ loading \in BOOLEAN /\ streaming \in BOOLEAN
    /\ reconnecting \in BOOLEAN /\ paused \in BOOLEAN
    /\ interval \in BOOLEAN /\ stopReq \in BOOLEAN /\ ctrl \in BOOLEAN
    /\ session \in Sessions /\ age \in 0 .. IdleTimeout /\ restart \in {"no", "due", "done"}
    /\ fetches \in Seq([tail : Tails, from : 0 .. MaxEmitted])
    /\ pins \subseteq Rows /\ clobbered \in BOOLEAN

-----------------------------------------------------------------------------
(* What the page may rely on.                                              *)

\* What the page shows of the stream is what runs: the Stop button stands
\* for a running loop with its flush timer, and nothing else does.  Stop,
\* unmount, history mode and the loop's own end all touch these flags.
StreamRunsAsShown ==
    Settled =>
        /\ streaming <=> session.phase # "none"
        /\ interval <=> session.phase # "none"
        /\ paused \/ reconnecting => streaming
        /\ parked /\ mounted => ~streaming

Increasing(s) == \A i, j \in 1 .. Len(s) : i < j => s[i] < s[j]

\* No line is on the page twice or out of order, over pauses, flushes and
\* reconnects ("Reconnects follow from now so lines already on screen are
\* not re-fetched and duplicated"), unless a one-shot read was answered
\* into the running stream.
LinesInOrder == ~clobbered => Increasing(logs \o pending \o buffered)

PinnedLines == {logs[i + 1] : i \in {j \in pins : j < Len(logs)}}

\* When the ring drops lines, a pin stays on the line the user pinned, and
\* goes away only with it: the counter the pins are shifted by counts what
\* was displayed and nothing else.
PinsFollowLines ==
    [][(logs' # logs \/ droppedCount' > droppedCount)
       /\ logs' # <<>> /\ fetches' = fetches /\ ~clobbered
        => PinnedLines' = PinnedLines \cap {logs'[i] : i \in 1 .. Len(logs')}]_vars

Held == Len(logs) + Len(pending) + Len(buffered) + droppedCount + bufferedDropped

\* While a connection is read, each line received is held, or counted by
\* exactly one of the two drop counters.
EveryLineCounted ==
    [][fetches' = fetches /\ streaming' /\ session.phase = "reading"
        /\ session'.phase = "reading"
        => Held' - Held = session'.pos - session.pos]_vars

\* Nothing gets lost on the way into the bounded ring and out of it again
\* without being counted, and no pin slips to another line.
RingAccounted == PinsFollowLines /\ EveryLineCounted

\* A connection that died without a word is left.
SilentStreamLeft == (Reading /\ ~session.live) ~> ~(Reading /\ ~session.live)

\* "The server heartbeats every ~15s, so a healthy-but-quiet stream never
\* trips this": the watchdog does not abort a connection that is alive.
HealthyStreamKept ==
    [][session'.aborted /\ ~session.aborted /\ ctrl' => ~(Reading /\ session.live)]_vars

\* "stops the stream when the viewer unmounts": once the viewer is gone its
\* loop and its timer are gone.
GoneViewerIsQuiet == ~mounted /\ Settled => session.phase = "none" /\ ~interval
=============================================================================
