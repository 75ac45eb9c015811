-------------------------- MODULE LogStream_proofs --------------------------
(***************************************************************************)
(* What the live log view promises, for every size of its ring, every      *)
(* backoff and any number of lines, reads, restarts and reconnects: the    *)
(* flags on show tell what runs, no line is shown twice or out of order,   *)
(* and none is dropped without being counted.                              *)
(***************************************************************************)
EXTENDS LogStream, SequenceTheorems, TLAPS

-----------------------------------------------------------------------------
(* Types *)

Line == 1 .. MaxEmitted
DepsOK == deps \in [streaming : BOOLEAN, tail : Nat, parked : BOOLEAN]
TypeInv == TypeOK /\ DepsOK

\* The fields an update of the session's record leaves and sets.
LEMMA AbortedSession ==
    ASSUME session \in Sessions
    PROVE  LET s == [session EXCEPT !.aborted = TRUE] IN
           /\ s \in Sessions /\ s.aborted = TRUE
           /\ s.phase = session.phase /\ s.attempt = session.attempt /\ s.pos = session.pos
BY DEF Sessions

\* What is kept of a sequence longer than the ring is its end.
LEMMA CappedFacts ==
    ASSUME NEW S, NEW s \in Seq(S)
    PROVE  /\ Capped(s) \in Seq(S) /\ Len(Capped(s)) <= MaxLogLines
           /\ OverCap(s) \in Nat /\ Len(Capped(s)) + OverCap(s) = Len(s)
           /\ \A i \in 1 .. Len(Capped(s)) : Capped(s)[i] = s[i + OverCap(s)]
<1> USE StreamAssumption
<1>1. CASE Len(s) > MaxLogLines
  <2>1. OverCap(s) = Len(s) - MaxLogLines /\ Capped(s) = SubSeq(s, Len(s) - MaxLogLines + 1, Len(s))
    BY <1>1 DEF OverCap, Capped, LastOf
  <2>2. \A i \in Len(s) - MaxLogLines + 1 .. Len(s) : s[i] \in S
    BY <1>1, ElementOfSeq
  <2>3. /\ Capped(s) \in Seq(S) /\ Len(Capped(s)) = MaxLogLines
        /\ \A i \in 1 .. MaxLogLines : Capped(s)[i] = s[Len(s) - MaxLogLines + i]
    BY <1>1, <2>1, <2>2, SubSeqProperties
  <2>4. Len(s) \in Nat /\ OverCap(s) \in Nat
    BY <1>1, <2>1, LenProperties
  <2>5. Len(Capped(s)) + OverCap(s) = Len(s)
    <3>1. PICK l \in Nat : l = Len(s)
      BY <2>4
    <3> QED
      BY <2>1, <2>3, <3>1
  <2>6. \A i \in 1 .. Len(Capped(s)) : Capped(s)[i] = s[i + OverCap(s)]
    <3>1. \A i \in 1 .. MaxLogLines : Len(s) - MaxLogLines + i = i + OverCap(s)
      BY <2>1, <2>4
    <3> QED
      BY <2>3, <3>1
  <2> QED
    BY <2>3, <2>4, <2>5, <2>6
<1>2. CASE ~(Len(s) > MaxLogLines)
  BY <1>2 DEF OverCap, Capped
<1> QED
  BY <1>1, <1>2

\* Pins move by what the display dropped.
LEMMA ShiftedPins ==
    ASSUME pins \subseteq Rows, NEW d \in Nat
    PROVE  ShiftPins(pins, d) \subseteq Rows
BY StreamAssumption DEF ShiftPins, Rows

LEMMA FlushFacts ==
    ASSUME TypeOK, NEW arriving \in Seq(Line), Flush(arriving)
    PROVE  \E x \in Seq(Line), d, n \in Nat :
           /\ x = logs \o arriving /\ Len(x) = Len(logs) + Len(arriving)
           /\ n = OverCap(x) /\ d <= Len(logs) /\ d <= n /\ (d = n \/ d = Len(logs))
           /\ logs' = Capped(x) /\ logs' \in Seq(Line)
           /\ Len(logs') <= MaxLogLines /\ Len(logs') + n = Len(x)
           /\ \A i \in 1 .. Len(logs') : logs'[i] = x[i + n]
           /\ droppedCount' = droppedCount + d /\ bufferedDropped' = bufferedDropped + (n - d)
           /\ pins' = ShiftPins(pins, d) /\ pins' \subseteq Rows
           /\ pending' = <<>>
<1>1. logs \in Seq(Line) /\ pins \subseteq Rows
  BY DEF TypeOK, Line
<1>2. PICK x \in Seq(Line) : x = logs \o arriving
  BY <1>1, ConcatProperties
<1>3. Len(x) = Len(logs) + Len(arriving) /\ Len(logs) \in Nat /\ Len(arriving) \in Nat
  BY <1>1, <1>2, ConcatProperties, LenProperties
<1>4. /\ Capped(x) \in Seq(Line) /\ Len(Capped(x)) <= MaxLogLines
      /\ OverCap(x) \in Nat /\ Len(Capped(x)) + OverCap(x) = Len(x)
      /\ \A i \in 1 .. Len(Capped(x)) : Capped(x)[i] = x[i + OverCap(x)]
  BY CappedFacts
<1>5. PICK n \in Nat : n = OverCap(x)
  BY <1>4
<1>6. PICK d \in Nat : d = DroppedFromDisplayed(arriving)
  BY <1>2, <1>3, <1>5 DEF DroppedFromDisplayed, Smaller
<1>7. d <= Len(logs) /\ d <= n /\ (d = n \/ d = Len(logs))
  BY <1>2, <1>3, <1>5, <1>6 DEF DroppedFromDisplayed, Smaller
<1>8. /\ logs' = Capped(x) /\ pending' = <<>>
      /\ droppedCount' = droppedCount + d /\ bufferedDropped' = bufferedDropped + (n - d)
      /\ pins' = ShiftPins(pins, d)
  BY <1>2, <1>5, <1>6 DEF Flush, RecordDropped
<1>9. pins' \subseteq Rows
  BY <1>1, <1>8, ShiftedPins
<1> QED
  BY <1>2, <1>3, <1>4, <1>5, <1>7, <1>8, <1>9

\* The answer to a one-shot read: lines in the order they were written.
LEMMA TailFacts ==
    ASSUME NEW n \in Nat, NEW upto \in 0 .. MaxEmitted
    PROVE  /\ TailOf(n, upto) \in Seq(Line)
           /\ \A i \in 1 .. Len(TailOf(n, upto)) : TailOf(n, upto)[i] <= upto
           /\ Increasing(TailOf(n, upto))
<1>1. PICK k \in 0 .. upto : k = Smaller(n, upto)
  BY StreamAssumption DEF Smaller
<1>2. TailOf(n, upto) = [i \in 1 .. k |-> upto - k + i]
  BY <1>1 DEF TailOf
<1>3. \A i \in 1 .. k : upto - k + i \in Line /\ upto - k + i <= upto
  BY <1>1, StreamAssumption DEF Line
<1>4. TailOf(n, upto) \in [1 .. k -> Line]
  BY <1>2, <1>3
<1>5. TailOf(n, upto) \in Seq(Line) /\ Len(TailOf(n, upto)) = k
  BY <1>4, IsASeq, LenProperties
<1> QED
  BY <1>2, <1>3, <1>5 DEF Increasing


\* The types, by kind: what is told of flags, and of numbers and sequences.
BooleanTypes ==
    /\ mounted \in BOOLEAN /\ parked \in BOOLEAN
    /\ loading \in BOOLEAN /\ streaming \in BOOLEAN
    /\ reconnecting \in BOOLEAN /\ paused \in BOOLEAN
    /\ interval \in BOOLEAN /\ stopReq \in BOOLEAN /\ ctrl \in BOOLEAN
    /\ clobbered \in BOOLEAN

DataTypes ==
    /\ tail \in Tails /\ emitted \in 0 .. MaxEmitted
    /\ logs \in Seq(Line) /\ Len(logs) <= MaxLogLines
    /\ pending \in Seq(Line) /\ buffered \in Seq(Line)
    /\ droppedCount \in Nat /\ bufferedDropped \in Nat
    /\ session \in Sessions /\ age \in 0 .. IdleTimeout /\ restart \in {"no", "due", "done"}
    /\ fetches \in Seq([tail : Tails, from : 0 .. MaxEmitted])
    /\ pins \subseteq Rows

LEMMA TypeSplit == TypeInv <=> BooleanTypes /\ DataTypes /\ DepsOK
BY DEF TypeInv, TypeOK, BooleanTypes, DataTypes, Line

\* A part of the state that a step leaves alone keeps its type.
LEMMA InitTyped == Init => TypeInv
<1> SUFFICES ASSUME Init PROVE BooleanTypes /\ DataTypes /\ DepsOK
  BY TypeSplit
<1>1. BooleanTypes
  BY DEF Init, BooleanTypes
<1>2. DepsOK
  BY DEF Init, DepsOK, NotYet
<1>3. session \in Sessions
  BY StreamAssumption DEF Init, Sessions, NoSession
<1>4. DataTypes
  BY <1>3, StreamAssumption DEF Init, DataTypes, Rows
<1> QED
  BY <1>1, <1>2, <1>4

\* The booleans a step sets are booleans.
LEMMA BooleansStep ==
    ASSUME TypeInv, Next
    PROVE  BooleanTypes'
<1> BooleanTypes
  BY TypeSplit
<1> USE DEF BooleanTypes
<1>1. CASE Emit
  BY <1>1 DEF Emit, page, flags, refs
<1>2. CASE ViewerEffects
  BY <1>2 DEF ViewerEffects, page, flags, refs, StopStreaming, ResetPauseAndBuffer, FetchIssued
<1>3. CASE Refresh
  BY <1>3 DEF Refresh, page, flags, refs, ResetPauseAndBuffer, FetchIssued
<1>4. CASE FetchAnswered
  BY Zenon, <1>4 DEF FetchAnswered, page, flags, refs
<1>5. CASE FetchFails
  BY Zenon, <1>5 DEF FetchFails, page, flags, refs
<1>6. CASE RefreshAfterRecreate
  BY <1>6 DEF RefreshAfterRecreate, page, flags, refs, StopStreaming, ResetPauseAndBuffer, FetchIssued
<1>7. CASE RestartStreaming
  BY <1>7 DEF RestartStreaming, StartStreaming, page, ResetPauseAndBuffer
<1>8. CASE Start
  BY <1>8 DEF Start, StartStreaming, page, ResetPauseAndBuffer
<1>9. CASE Stop
  BY <1>9 DEF Stop, StopStreaming, page, ResetPauseAndBuffer
<1>10. CASE Pause
  BY <1>10 DEF Pause, page, refs
<1>11. CASE Resume
  BY <1>11 DEF Resume, page, refs
<1>12. CASE ChangeTail
  BY <1>12 DEF ChangeTail, flags, refs
<1>13. CASE SwitchSource
  BY <1>13 DEF SwitchSource, flags, refs
<1>14. CASE TogglePin
  BY <1>14 DEF TogglePin, page, flags, refs
<1>15. CASE Unmount
  BY <1>15 DEF Unmount, StopStreaming, ResetPauseAndBuffer
<1>16. CASE Connect
  BY <1>16 DEF Connect, page, flags, refs
<1>17. CASE Receive
  BY <1>17 DEF Receive, page
<1>18. CASE ReceiveHeartbeat
  BY <1>18 DEF ReceiveHeartbeat, page
<1>19. CASE GoesSilent
  BY <1>19 DEF GoesSilent, page, flags, refs
<1>20. CASE ConnectionEnds
  BY <1>20 DEF ConnectionEnds, ConnectionOver, page, Finish, Retry
<1>21. CASE Aborts
  BY <1>21 DEF Aborts, ConnectionOver, page, Finish, Retry
<1>22. CASE WaitEnds
  BY <1>22 DEF WaitEnds, page, flags, refs, Finish
<1>23. CASE Tick
  BY <1>23 DEF Tick, page, flags
<1>24. CASE FlushTick
  BY <1>24 DEF FlushTick, page, flags, refs
<1> QED
  BY <1>1, <1>2, <1>3, <1>4, <1>5, <1>6, <1>7, <1>8, <1>9, <1>10, <1>11, <1>12, <1>13, <1>14,
     <1>15, <1>16, <1>17, <1>18, <1>19, <1>20, <1>21, <1>22, <1>23, <1>24 DEF Next

-----------------------------------------------------------------------------
(* The flags and the loop. *)

\* Without a loop nothing of one is left.
NothingWithoutLoop ==
    session.phase = "none" => /\ ~streaming /\ ~interval /\ ~ctrl
                              /\ ~session.aborted /\ ~reconnecting

\* A loop is on show and can be stopped, unless it has been and is unwinding.
LoopOnShow ==
    session.phase # "none" =>
        \/ streaming /\ interval /\ ctrl /\ ~stopReq
        \/ session.aborted /\ stopReq /\ ~streaming /\ ~ctrl /\ ~reconnecting

\* A pause outlives its stream by the next effect at most.
PauseSeen == paused => mounted /\ (streaming \/ (deps.streaming /\ ~parked))

\* A stream the watchdog has aborted is not one the effects have yet to stop.
CutShort == session.aborted /\ streaming /\ mounted => deps.streaming /\ ~parked

\* A stream in history mode is one the effects have yet to stop.
HistoryStops == mounted /\ parked /\ streaming => ~(deps.parked /\ deps.streaming)

\* The restart after a recreation finds no stream ...
RestartAlone == restart = "due" => ~streaming
\* ... and is the only one to start a stream for a viewer that is gone.
GoneStops == ~mounted /\ restart # "done" => ~streaming

FlagsInv ==
    /\ NothingWithoutLoop /\ LoopOnShow /\ PauseSeen /\ CutShort
    /\ HistoryStops /\ RestartAlone /\ GoneStops


\* When no effect is outstanding, they have run with what is there now.
LEMMA EffectsRan ==
    ASSUME Settled, mounted
    PROVE  (deps.streaming <=> streaming) /\ (deps.parked <=> parked)
<1>1. deps = [streaming |-> streaming, tail |-> tail, parked |-> parked]
  BY DEF Settled, Deps
<1>2. deps.streaming = streaming
  BY <1>1
<1>3. deps.parked = parked
  BY <1>1
<1> QED
  BY Zenon, <1>2, <1>3

\* What the page shows of the stream follows from the flags.
LEMMA FlagsShow == TypeInv /\ FlagsInv => StreamRunsAsShown
<1> SUFFICES ASSUME BooleanTypes, DepsOK, FlagsInv, Settled PROVE StreamRunsAsShown
  BY TypeSplit DEF StreamRunsAsShown
<1>1. mounted => (deps.streaming <=> streaming) /\ (deps.parked <=> parked)
  BY Zenon, EffectsRan
<1>2. ~session.aborted
  BY DEF Settled
<1> QED
  BY Zenon, <1>1, <1>2 DEF StreamRunsAsShown, FlagsInv, NothingWithoutLoop, LoopOnShow, PauseSeen,
     HistoryStops, BooleanTypes

LEMMA FlagsInit == Init => FlagsInv
BY DEF Init, FlagsInv, NothingWithoutLoop, LoopOnShow, PauseSeen, CutShort, HistoryStops,
       RestartAlone, GoneStops, NoSession

\* The flags that the invariant reads, but for reconnecting and paused.
switches == <<mounted, parked, streaming, interval, stopReq, ctrl, restart, deps>>

\* A step that leaves the loop where it is.
LEMMA LoopAside ==
    ASSUME FlagsInv, BooleanTypes, BooleanTypes', UNCHANGED switches,
           session'.phase = "none" <=> session.phase = "none",
           session'.aborted = session.aborted,
           reconnecting' => reconnecting, paused' => paused \/ (mounted /\ streaming)
    PROVE  FlagsInv'
<1> USE DEF switches, BooleanTypes
<1>1. NothingWithoutLoop'
  BY Zenon DEF FlagsInv, NothingWithoutLoop
<1>2. LoopOnShow'
  BY Zenon DEF FlagsInv, LoopOnShow
<1>3. PauseSeen' /\ CutShort'
  BY Zenon DEF FlagsInv, PauseSeen, CutShort
<1>4. HistoryStops' /\ RestartAlone' /\ GoneStops'
  BY Zenon DEF FlagsInv, HistoryStops, RestartAlone, GoneStops
<1> QED
  BY Zenon, <1>1, <1>2, <1>3, <1>4 DEF FlagsInv

\* A stop, whoever asks for it.
LEMMA StopSound ==
    ASSUME TypeInv, FlagsInv, BooleanTypes', StopStreaming, interval' => interval
    PROVE  FlagsInv'
<1> USE DEF BooleanTypes
<1>1. BooleanTypes /\ session \in Sessions
  BY TypeSplit DEF DataTypes
<1>2. stopReq' /\ ~ctrl' /\ ~streaming' /\ ~reconnecting' /\ ~paused'
  BY DEF StopStreaming, ResetPauseAndBuffer
<1>3. session'.phase = session.phase
  BY <1>1, AbortedSession DEF StopStreaming
<1>4. ctrl => session'.aborted
  BY <1>1, AbortedSession DEF StopStreaming
<1>5. ~ctrl => session'.aborted = session.aborted
  BY DEF StopStreaming
<1>6. NothingWithoutLoop'
  BY Zenon, <1>1, <1>2, <1>3, <1>5 DEF FlagsInv, NothingWithoutLoop
<1>7. LoopOnShow'
  BY Zenon, <1>1, <1>2, <1>3, <1>4, <1>5 DEF FlagsInv, LoopOnShow
<1>8. PauseSeen' /\ CutShort' /\ HistoryStops' /\ RestartAlone' /\ GoneStops'
  BY Zenon, <1>2 DEF PauseSeen, CutShort, HistoryStops, RestartAlone, GoneStops
<1> QED
  BY Zenon, <1>6, <1>7, <1>8 DEF FlagsInv


\* A start, by the user or by the restart: no loop runs yet.
LEMMA StartSound ==
    ASSUME TypeInv, FlagsInv, BooleanTypes', StartStreaming, Settled, ~streaming,
           restart' = restart \/ restart' = "done",
           mounted \/ restart' = "done",
           restart' # "due"
    PROVE  FlagsInv'
<1> USE DEF BooleanTypes
<1>1. BooleanTypes
  BY TypeSplit
<1>2. /\ streaming' /\ ~paused' /\ ~stopReq' /\ interval' /\ ctrl'
      /\ UNCHANGED <<mounted, parked, reconnecting, deps>>
  BY DEF StartStreaming, ResetPauseAndBuffer, page
<1>3. session'.phase # "none" /\ session'.aborted = FALSE
  BY DEF StartStreaming, NoSession
<1>4. NothingWithoutLoop' /\ LoopOnShow' /\ PauseSeen' /\ CutShort' /\ RestartAlone'
  BY Zenon, <1>2, <1>3 DEF NothingWithoutLoop, LoopOnShow, PauseSeen, CutShort, RestartAlone
<1>5. HistoryStops'
  BY Zenon, <1>1, <1>2, EffectsRan DEF HistoryStops
<1>6. GoneStops'
  BY Zenon, <1>2 DEF GoneStops
<1> QED
  BY Zenon, <1>4, <1>5, <1>6 DEF FlagsInv

\* The end of the loop, for which it was stopped or its wait was cut short.
LEMMA FinishSound ==
    ASSUME TypeInv, FlagsInv, BooleanTypes', Finish, UNCHANGED <<mounted, parked, deps>>,
           session.phase # "none", stopReq \/ session.aborted
    PROVE  FlagsInv'
<1> USE DEF BooleanTypes
<1>1. BooleanTypes
  BY TypeSplit
<1>2. /\ ~interval' /\ ~streaming' /\ ~reconnecting' /\ ~ctrl'
      /\ UNCHANGED <<paused, stopReq, restart>>
  BY DEF Finish
<1>3. session'.phase = "none" /\ session'.aborted = FALSE
  BY DEF Finish, NoSession
<1>4. /\ NothingWithoutLoop' /\ LoopOnShow' /\ CutShort'
      /\ RestartAlone' /\ HistoryStops' /\ GoneStops'
  BY Zenon, <1>2, <1>3 DEF NothingWithoutLoop, LoopOnShow, CutShort, RestartAlone, HistoryStops,
     GoneStops
<1>5. stopReq => ~streaming
  BY Zenon, <1>1 DEF FlagsInv, LoopOnShow
<1>6. PauseSeen'
  BY Zenon, <1>1, <1>2, <1>5 DEF FlagsInv, PauseSeen, CutShort
<1> QED
  BY Zenon, <1>4, <1>6 DEF FlagsInv

\* Another connection is tried for a loop on show.
LEMMA RetrySound ==
    ASSUME TypeInv, FlagsInv, BooleanTypes', Retry, UNCHANGED <<mounted, parked, deps>>,
           session.phase # "none", ~stopReq, ctrl
    PROVE  FlagsInv'
<1> USE DEF BooleanTypes
<1>1. BooleanTypes
  BY TypeSplit
<1>2. UNCHANGED <<streaming, paused, interval, stopReq, ctrl, restart>>
  BY DEF Retry
<1>3. session'.phase # "none" /\ session'.aborted = FALSE
  BY DEF Retry, NoSession
<1>4. streaming /\ interval
  BY Zenon, <1>1 DEF FlagsInv, LoopOnShow
<1>5. NothingWithoutLoop' /\ LoopOnShow' /\ CutShort'
  BY Zenon, <1>2, <1>3, <1>4 DEF NothingWithoutLoop, LoopOnShow, CutShort
<1>6. PauseSeen' /\ HistoryStops' /\ RestartAlone' /\ GoneStops'
  BY Zenon, <1>2 DEF FlagsInv, PauseSeen, HistoryStops, RestartAlone, GoneStops
<1> QED
  BY Zenon, <1>5, <1>6 DEF FlagsInv

\* One connection is over.
LEMMA OverSound ==
    ASSUME TypeInv, FlagsInv, BooleanTypes', ConnectionOver,
           session.phase \in {"connecting", "reading"}
    PROVE  FlagsInv'
<1> USE DEF BooleanTypes
<1>1. BooleanTypes
  BY TypeSplit
<1>2. UNCHANGED <<mounted, parked, deps>> /\ session.phase # "none"
  BY DEF ConnectionOver, page
<1>3. CASE stopReq \/ ~ctrl
  <2>1. stopReq \/ session.aborted
    BY Zenon, <1>1, <1>2, <1>3 DEF FlagsInv, LoopOnShow
  <2>2. Finish
    BY <1>3 DEF ConnectionOver
  <2> QED
    BY <1>2, <2>1, <2>2, FinishSound
<1>4. CASE ~(stopReq \/ ~ctrl)
  <2>1. Retry
    BY <1>4 DEF ConnectionOver
  <2> QED
    BY <1>2, <1>4, <2>1, RetrySound
<1> QED
  BY <1>3, <1>4

\* What the effects do, and a read that is asked for, leave the flags right.
LEMMA FlagsEffects ==
    ASSUME TypeInv, FlagsInv, BooleanTypes', ViewerEffects
    PROVE  FlagsInv'
<1> USE DEF BooleanTypes
<1>1. BooleanTypes
  BY TypeSplit
<1>2. UNCHANGED <<mounted, parked>>
  BY DEF ViewerEffects, page
<1>3. CASE StopStreaming /\ UNCHANGED <<interval, age, restart>>
  BY <1>3, StopSound
<1>4. CASE ~StopStreaming \/ ~UNCHANGED <<interval, age, restart>>
  <2>1. /\ UNCHANGED <<streaming, reconnecting, interval, stopReq, ctrl, restart, session>>
        /\ \/ ~parked /\ ~streaming /\ ~paused'
           \/ parked # streaming /\ UNCHANGED paused
    BY <1>4 DEF ViewerEffects, FetchIssued, ResetPauseAndBuffer, flags, refs
  <2>2. (deps'.streaming <=> streaming) /\ (deps'.parked <=> parked)
    <3>1. deps' = [streaming |-> streaming, tail |-> tail, parked |-> parked]
      BY DEF ViewerEffects, Deps
    <3>2. deps'.streaming = streaming
      BY <3>1
    <3>3. deps'.parked = parked
      BY <3>1
    <3> QED
      BY Zenon, <3>2, <3>3
  <2>3. parked # streaming => (parked <=> ~streaming)
    <3>1. parked \in BOOLEAN /\ streaming \in BOOLEAN
      BY <1>1
    <3> QED
      BY <3>1, SMT
  <2>4. NothingWithoutLoop' /\ LoopOnShow' /\ RestartAlone' /\ GoneStops'
    BY Zenon, <1>2, <2>1 DEF FlagsInv, NothingWithoutLoop, LoopOnShow, RestartAlone, GoneStops
  <2>5. HistoryStops' /\ CutShort'
    BY Zenon, <1>1, <1>2, <2>1, <2>2, <2>3 DEF HistoryStops, CutShort
  <2>6. PauseSeen'
    BY Zenon, <1>1, <1>2, <2>1, <2>2, <2>3 DEF FlagsInv, PauseSeen
  <2> QED
    BY Zenon, <2>4, <2>5, <2>6 DEF FlagsInv
<1> QED
  BY <1>3, <1>4

\* History mode is left to the effects to notice.
LEMMA FlagsSwitch ==
    ASSUME TypeInv, FlagsInv, BooleanTypes', SwitchSource
    PROVE  FlagsInv'
<1> USE DEF BooleanTypes
<1>1. BooleanTypes
  BY TypeSplit
<1>2. /\ mounted /\ Settled /\ parked' = ~parked
      /\ UNCHANGED <<mounted, streaming, reconnecting, paused, interval, stopReq, ctrl, restart,
                     session, deps>>
  BY DEF SwitchSource, Ready, flags, refs
<1>3. ~session.aborted
  BY <1>2 DEF Settled
<1>4. NothingWithoutLoop' /\ LoopOnShow' /\ RestartAlone' /\ GoneStops'
  BY Zenon, <1>2 DEF FlagsInv, NothingWithoutLoop, LoopOnShow, RestartAlone, GoneStops
<1>5. HistoryStops' /\ CutShort'
  BY Zenon, <1>1, <1>2, <1>3, EffectsRan DEF HistoryStops, CutShort
<1>6. PauseSeen'
  BY Zenon, <1>1, <1>2, EffectsRan DEF FlagsInv, PauseSeen
<1> QED
  BY Zenon, <1>4, <1>5, <1>6 DEF FlagsInv

\* The watchdog aborts a loop that is on show.
LEMMA FlagsTick ==
    ASSUME TypeInv, FlagsInv, BooleanTypes', FlushTick
    PROVE  FlagsInv'
<1> USE DEF BooleanTypes
<1>1. BooleanTypes /\ session \in Sessions
  BY TypeSplit DEF DataTypes
<1>2. Settled /\ interval /\ UNCHANGED switches /\ UNCHANGED <<reconnecting, paused>>
  BY DEF FlushTick, switches, page, flags, refs
<1>3. session' = session \/ (session' = [session EXCEPT !.aborted = TRUE])
  BY DEF FlushTick
<1>4. CASE session' = session
  BY <1>2, <1>4, LoopAside, <1>1
<1>5. CASE session' = [session EXCEPT !.aborted = TRUE]
  <2>1. session'.phase = session.phase /\ session'.aborted
    BY <1>1, <1>5, AbortedSession
  <2>2. ~session.aborted
    BY <1>2 DEF Settled
  <2>3. session.phase # "none" /\ streaming /\ ctrl /\ ~stopReq
    BY Zenon, <1>1, <1>2, <2>2 DEF FlagsInv, NothingWithoutLoop, LoopOnShow
  <2>4. NothingWithoutLoop' /\ LoopOnShow'
    BY Zenon, <1>2, <2>1, <2>3 DEF NothingWithoutLoop, LoopOnShow, switches
  <2>5. CutShort'
    BY Zenon, <1>1, <1>2, <2>3, EffectsRan DEF FlagsInv, HistoryStops, CutShort, switches
  <2>6. PauseSeen' /\ HistoryStops' /\ RestartAlone' /\ GoneStops'
    BY Zenon, <1>2 DEF FlagsInv, PauseSeen, HistoryStops, RestartAlone, GoneStops, switches
  <2> QED
    BY Zenon, <2>4, <2>5, <2>6 DEF FlagsInv
<1> QED
  BY <1>3, <1>4, <1>5

\* The page reads its log again after a recreation.
LEMMA FlagsReread ==
    ASSUME TypeInv, FlagsInv, BooleanTypes', RefreshAfterRecreate
    PROVE  FlagsInv'
<1> USE DEF BooleanTypes
<1>1. BooleanTypes
  BY TypeSplit
<1>2. CASE StopStreaming /\ UNCHANGED interval
  BY <1>2, StopSound
<1>3. CASE ~StopStreaming \/ ~UNCHANGED interval
  <2>1. /\ mounted /\ ~streaming /\ ~paused' /\ restart' = "done"
        /\ UNCHANGED <<mounted, parked, streaming, reconnecting, interval, stopReq, ctrl, session, deps>>
    BY <1>3 DEF RefreshAfterRecreate, Ready, FetchIssued, ResetPauseAndBuffer, page
  <2>2. RestartAlone'
    BY <2>1 DEF RestartAlone
  <2>3. NothingWithoutLoop' /\ LoopOnShow' /\ PauseSeen' /\ CutShort' /\ HistoryStops' /\ GoneStops'
    BY Zenon, <2>1 DEF FlagsInv, NothingWithoutLoop, LoopOnShow, PauseSeen, CutShort,
       HistoryStops, GoneStops
  <2> QED
    BY Zenon, <2>2, <2>3 DEF FlagsInv
<1> QED
  BY <1>2, <1>3

\* Every step keeps the flags right.
LEMMA FlagsStep ==
    ASSUME TypeInv, FlagsInv, Next
    PROVE  FlagsInv'
<1>0. BooleanTypes' /\ BooleanTypes /\ session \in Sessions
  BY BooleansStep, TypeSplit DEF DataTypes
<1>1. CASE Emit
  BY <1>0, <1>1, LoopAside DEF Emit, switches, page, flags, refs
<1>2. CASE ViewerEffects
  BY <1>0, <1>2, FlagsEffects
<1>3. CASE Refresh
  <2>1. /\ UNCHANGED switches /\ session' = session
        /\ reconnecting' = reconnecting /\ ~paused'
    BY <1>3 DEF Refresh, FetchIssued, ResetPauseAndBuffer, switches, page, refs
  <2> QED
    BY <1>0, <2>1, LoopAside
<1>4. CASE FetchAnswered
  <2>1. UNCHANGED switches /\ UNCHANGED <<session, reconnecting, paused>>
    BY <1>4 DEF FetchAnswered, switches, page, refs
  <2> QED
    BY <1>0, <2>1, LoopAside
<1>5. CASE FetchFails
  <2>1. UNCHANGED switches /\ UNCHANGED <<session, reconnecting, paused>>
    BY <1>5 DEF FetchFails, switches, page, refs
  <2> QED
    BY <1>0, <2>1, LoopAside
<1>6. CASE RefreshAfterRecreate
  BY <1>0, <1>6, FlagsReread
<1>7. CASE RestartStreaming
  <2>1. Settled /\ StartStreaming /\ restart = "due" /\ restart' = "done"
    BY <1>7 DEF RestartStreaming
  <2>2. ~streaming
    BY Zenon, <2>1 DEF FlagsInv, RestartAlone
  <2> QED
    BY <1>0, <2>1, <2>2, StartSound
<1>8. CASE Start
  <2>1. /\ Settled /\ mounted /\ StartStreaming /\ ~streaming
        /\ restart # "due" /\ restart' = restart
    BY <1>8 DEF Start, Ready
  <2> QED
    BY <1>0, <2>1, StartSound
<1>9. CASE Stop
  <2>1. StopStreaming /\ interval' = interval
    BY <1>9 DEF Stop
  <2> QED
    BY <1>0, <2>1, StopSound
<1>10. CASE Pause
  <2>1. /\ UNCHANGED switches /\ UNCHANGED <<session, reconnecting>>
        /\ mounted /\ streaming
    BY <1>10 DEF Pause, Ready, offersPause, switches, page, refs
  <2> QED
    BY <1>0, <2>1, LoopAside
<1>11. CASE Resume
  <2>1. UNCHANGED switches /\ UNCHANGED <<session, reconnecting>> /\ ~paused'
    BY <1>11 DEF Resume, switches, page, refs
  <2> QED
    BY <1>0, <2>1, LoopAside
<1>12. CASE ChangeTail
  <2>1. UNCHANGED switches /\ UNCHANGED <<session, reconnecting, paused>>
    BY <1>12 DEF ChangeTail, switches, flags, refs
  <2> QED
    BY <1>0, <2>1, LoopAside
<1>13. CASE SwitchSource
  BY <1>0, <1>13, FlagsSwitch
<1>14. CASE TogglePin
  <2>1. UNCHANGED switches /\ UNCHANGED <<session, reconnecting, paused>>
    BY <1>14 DEF TogglePin, switches, page, flags, refs
  <2> QED
    BY <1>0, <2>1, LoopAside
<1>15. CASE Unmount
  <2>1. StopStreaming /\ ~interval'
    BY <1>15 DEF Unmount
  <2> QED
    BY <1>0, <2>1, StopSound
<1>16. CASE Connect
  <2>1. /\ UNCHANGED switches /\ UNCHANGED <<reconnecting, paused>>
        /\ session.phase = "connecting" /\ session'.phase = "reading"
        /\ session'.aborted = session.aborted
    BY <1>0, <1>16 DEF Connect, switches, page, flags, refs, Sessions
  <2> QED
    BY <1>0, <2>1, LoopAside
<1>17. CASE Receive
  <2>1. /\ UNCHANGED switches /\ paused' = paused /\ ~reconnecting'
        /\ session'.phase = session.phase /\ session'.aborted = session.aborted
    BY <1>0, <1>17 DEF Receive, Active, switches, page, Sessions
  <2> QED
    BY <1>0, <2>1, LoopAside
<1>18. CASE ReceiveHeartbeat
  <2>1. /\ UNCHANGED switches /\ paused' = paused /\ ~reconnecting'
        /\ session'.phase = session.phase /\ session'.aborted = session.aborted
    BY <1>0, <1>18 DEF ReceiveHeartbeat, Active, switches, page, Sessions
  <2> QED
    BY <1>0, <2>1, LoopAside
<1>19. CASE GoesSilent
  <2>1. /\ UNCHANGED switches /\ UNCHANGED <<reconnecting, paused>>
        /\ session'.phase = session.phase /\ session'.aborted = session.aborted
    BY <1>0, <1>19 DEF GoesSilent, switches, page, flags, refs, Sessions
  <2> QED
    BY <1>0, <2>1, LoopAside
<1>20. CASE ConnectionEnds
  BY <1>0, <1>20, OverSound DEF ConnectionEnds
<1>21. CASE Aborts
  BY <1>0, <1>21, OverSound DEF Aborts
<1>22. CASE WaitEnds
  <2>1. session.phase = "waiting" /\ UNCHANGED <<mounted, parked, deps>>
    BY <1>22 DEF WaitEnds, page
  <2>2. CASE (session.aborted \/ stopReq) /\ Finish
    BY <1>0, <2>1, <2>2, FinishSound
  <2>3. CASE ~((session.aborted \/ stopReq) /\ Finish)
    <3>1. /\ UNCHANGED switches /\ UNCHANGED <<reconnecting, paused>>
          /\ session' = [session EXCEPT !.phase = "connecting", !.waited = 0]
      BY <1>22, <2>3 DEF WaitEnds, switches, page, flags, refs
    <3>2. session'.phase # "none" /\ session'.aborted = session.aborted
      BY <1>0, <3>1 DEF Sessions
    <3> QED
      BY <1>0, <2>1, <3>1, <3>2, LoopAside
  <2> QED
    BY <2>2, <2>3
<1>23. CASE Tick
  <2>1. /\ UNCHANGED switches /\ UNCHANGED <<reconnecting, paused>>
        /\ session'.phase = session.phase /\ session'.aborted = session.aborted
    BY <1>0, <1>23 DEF Tick, switches, page, flags, Sessions
  <2> QED
    BY <1>0, <2>1, LoopAside
<1>24. CASE FlushTick
  BY <1>0, <1>24, FlagsTick
<1> QED
  BY <1>1, <1>2, <1>3, <1>4, <1>5, <1>6, <1>7, <1>8, <1>9, <1>10, <1>11, <1>12, <1>13, <1>14,
     <1>15, <1>16, <1>17, <1>18, <1>19, <1>20, <1>21, <1>22, <1>23, <1>24 DEF Next

-----------------------------------------------------------------------------
(* The types of the data *)

\* One field of a session is set.
LEMMA SessionFields ==
    ASSUME NEW s \in Sessions
    PROVE  /\ [s EXCEPT !.live = FALSE] \in Sessions /\ [s EXCEPT !.due = FALSE] \in Sessions
           /\ \A p \in 0 .. MaxEmitted : [s EXCEPT !.pos = p] \in Sessions
           /\ [s EXCEPT !.attempt = 0] \in Sessions
           /\ \A w \in Nat : [s EXCEPT !.waited = w] \in Sessions
           /\ [s EXCEPT !.phase = "connecting"] \in Sessions
<1>1. [s EXCEPT !.live = FALSE] \in Sessions
  BY DEF Sessions
<1>2. [s EXCEPT !.due = FALSE] \in Sessions
  BY DEF Sessions
<1>3. \A p \in 0 .. MaxEmitted : [s EXCEPT !.pos = p] \in Sessions
  BY DEF Sessions
<1>4. [s EXCEPT !.attempt = 0] \in Sessions
  <2>1. Len(Delays) \in Nat
    BY StreamAssumption, LenProperties
  <2> QED
    BY <2>1 DEF Sessions
<1>5. \A w \in Nat : [s EXCEPT !.waited = w] \in Sessions
  BY DEF Sessions
<1>6. [s EXCEPT !.phase = "connecting"] \in Sessions
  BY DEF Sessions
<1> QED
  BY <1>1, <1>2, <1>3, <1>4, <1>5, <1>6

\* A step of the loop makes a session of its one.
LEMMA SessionTyped ==
    ASSUME TypeInv, Next
    PROVE  session' \in Sessions
<1>0. session \in Sessions /\ emitted \in 0 .. MaxEmitted /\ tail \in Nat
  BY TypeSplit, StreamAssumption DEF DataTypes
<1>1. NoSession \in Sessions
  BY StreamAssumption DEF NoSession, Sessions
<1>2. CASE session' = session
  BY <1>0, <1>2
<1>3. CASE session' = [session EXCEPT !.aborted = TRUE]
  BY <1>0, <1>3, AbortedSession
<1>4. CASE StartStreaming
  BY <1>1, <1>4 DEF StartStreaming, NoSession, Sessions
<1>5. CASE Finish
  BY <1>1, <1>5 DEF Finish
<1>6. CASE Retry
  <2>1. Len(Delays) \in Nat \ {0}
    BY StreamAssumption, EmptySeq
  <2>2. PICK n \in 0 .. Len(Delays) : n = Smaller(session.attempt + 1, Len(Delays))
    BY <1>0, <2>1 DEF Smaller, Sessions
  <2> QED
    BY <1>1, <1>6, <2>2 DEF Retry, NoSession, Sessions
<1>7. CASE Connect
  <2>1. emitted - TailAsked \in 0 .. MaxEmitted
    BY <1>0, StreamAssumption DEF TailAsked, Smaller
  <2> QED
    BY <1>0, <1>7, <2>1 DEF Connect, Sessions
<1>8. CASE Receive
  <2>1. session.pos + 1 \in 0 .. MaxEmitted
    BY <1>0, <1>8, StreamAssumption DEF Receive, Sessions
  <2>2. PICK s \in Sessions : s = [session EXCEPT !.pos = session.pos + 1]
    BY <1>0, <2>1, SessionFields
  <2>3. session' = [s EXCEPT !.attempt = 0]
    BY <1>8, <2>2 DEF Receive, Active
  <2> QED
    BY <2>3, SessionFields
<1>9. CASE ReceiveHeartbeat
  <2>1. PICK s \in Sessions : s = [session EXCEPT !.due = FALSE]
    BY <1>0, SessionFields
  <2>2. session' = [s EXCEPT !.attempt = 0]
    BY <1>9, <2>1 DEF ReceiveHeartbeat, Active
  <2> QED
    BY <2>2, SessionFields
<1>10. CASE GoesSilent
  <2>1. PICK s \in Sessions : s = [session EXCEPT !.live = FALSE]
    BY <1>0, SessionFields
  <2>2. session' = [s EXCEPT !.due = FALSE]
    BY <1>10, <2>1 DEF GoesSilent
  <2> QED
    BY <2>2, SessionFields
<1>11. CASE WaitEnds /\ ~Finish
  <2>1. PICK s \in Sessions : s = [session EXCEPT !.phase = "connecting"]
    BY <1>0, SessionFields
  <2>2. session' = [s EXCEPT !.waited = 0]
    BY <1>11, <2>1 DEF WaitEnds
  <2> QED
    BY <2>2, SessionFields
<1>12. CASE Tick
  <2>1. PICK due \in BOOLEAN, w \in Nat :
            session' = [session EXCEPT !.due = due, !.waited = w]
    <3>1. (Reading /\ session.live) \in BOOLEAN
      BY DEF Reading
    <3>2. session.waited \in Nat /\ session.waited + 1 \in Nat
      BY <1>0 DEF Sessions
    <3>3. CASE session.phase = "waiting" /\ session.waited < MaxDelay
      <4>1. session' = [session EXCEPT !.due = (Reading /\ session.live), !.waited = session.waited + 1]
        BY <1>12, <3>3 DEF Tick
      <4> QED
        BY <3>1, <3>2, <4>1
    <3>4. CASE ~(session.phase = "waiting" /\ session.waited < MaxDelay)
      <4>1. session' = [session EXCEPT !.due = (Reading /\ session.live), !.waited = session.waited]
        BY <1>12, <3>4 DEF Tick
      <4> QED
        BY <3>1, <3>2, <4>1
    <3> QED
      BY <3>3, <3>4
  <2> QED
    BY <1>0, <2>1 DEF Sessions
<1>13. CASE ConnectionOver
  BY <1>5, <1>6, <1>13 DEF ConnectionOver
<1>14. StopStreaming => session' = session \/ session' = [session EXCEPT !.aborted = TRUE]
  BY DEF StopStreaming
<1>15. FlushTick => session' = session \/ session' = [session EXCEPT !.aborted = TRUE]
  BY DEF FlushTick
<1>16. CASE Stop \/ Unmount \/ ViewerEffects \/ RefreshAfterRecreate
  <2>1. StopStreaming \/ session' = session
    BY <1>16 DEF Stop, Unmount, ViewerEffects, RefreshAfterRecreate, refs
  <2> QED
    BY <2>1, <1>2, <1>3, <1>14
<1>17. CASE Start \/ RestartStreaming
  BY <1>4, <1>17 DEF Start, RestartStreaming
<1>18. CASE ConnectionEnds \/ Aborts
  BY <1>13, <1>18 DEF ConnectionEnds, Aborts
<1>19. CASE Emit \/ Refresh \/ FetchAnswered \/ FetchFails \/ Pause \/ Resume \/ ChangeTail
            \/ SwitchSource \/ TogglePin
  <2>1. session' = session
    BY <1>19 DEF Emit, Refresh, FetchAnswered, FetchFails, Pause, Resume, ChangeTail,
       SwitchSource, TogglePin, refs
  <2> QED
    BY <1>2, <2>1
<1> QED
  BY <1>2, <1>3, <1>5, <1>7, <1>8, <1>9, <1>10, <1>11, <1>12, <1>15, <1>16, <1>17, <1>18, <1>19 DEF Next

\* What is shown and received.
shownTypes ==
    /\ logs \in Seq(Line) /\ Len(logs) <= MaxLogLines
    /\ pending \in Seq(Line) /\ buffered \in Seq(Line)
    /\ droppedCount \in Nat /\ bufferedDropped \in Nat
    /\ pins \subseteq Rows

LEMMA FlushTyped ==
    ASSUME TypeInv, NEW arriving \in Seq(Line), Flush(arriving), buffered' \in Seq(Line)
    PROVE  shownTypes'
<1>1. TypeOK /\ droppedCount \in Nat /\ bufferedDropped \in Nat
  BY DEF TypeInv, TypeOK
<1>2. PICK x \in Seq(Line), d, n \in Nat :
           /\ d <= n
           /\ logs' \in Seq(Line) /\ Len(logs') <= MaxLogLines
           /\ droppedCount' = droppedCount + d /\ bufferedDropped' = bufferedDropped + (n - d)
           /\ pins' \subseteq Rows
           /\ pending' = <<>>
  BY <1>1, FlushFacts
<1>3. droppedCount' \in Nat /\ bufferedDropped' \in Nat
  BY <1>1, <1>2
<1> QED
  BY <1>2, <1>3 DEF shownTypes

LEMMA FinishTyped ==
    ASSUME TypeInv, Finish
    PROVE  shownTypes'
<1>1. pending \in Seq(Line) /\ buffered \in Seq(Line) /\ shownTypes /\ buffered' = buffered
  BY TypeSplit DEF DataTypes, shownTypes, Finish
<1>2. CASE pending = <<>>
  BY <1>1, <1>2 DEF Finish, shownTypes, shown
<1>3. CASE pending # <<>>
  <2>1. Flush(pending)
    BY <1>3 DEF Finish
  <2> QED
    BY <1>1, <2>1, FlushTyped
<1> QED
  BY <1>2, <1>3

LEMMA OverTyped ==
    ASSUME TypeInv, ConnectionOver
    PROVE  shownTypes'
<1>1. CASE Finish
  BY <1>1, FinishTyped
<1>2. CASE Retry
  BY <1>2, TypeSplit DEF Retry, shown, received, shownTypes, DataTypes
<1> QED
  BY <1>1, <1>2 DEF ConnectionOver

LEMMA ShownTyped ==
    ASSUME TypeInv, Next
    PROVE  shownTypes'
<1>0. /\ shownTypes /\ emitted \in 0 .. MaxEmitted /\ session \in Sessions
      /\ fetches \in Seq([tail : Tails, from : 0 .. MaxEmitted])
  BY TypeSplit DEF DataTypes, shownTypes
<1>1. <<>> \in Seq(Line) /\ Len(<<>>) <= MaxLogLines
  BY EmptySeq, StreamAssumption
<1>2. CASE FetchAnswered
  <2>0. PICK i \in 1 .. Len(fetches) : \E upto \in fetches[i].from .. emitted :
            /\ logs' = Capped(TailOf(fetches[i].tail, upto))
            /\ RecordDropped(OverCap(TailOf(fetches[i].tail, upto)), 0)
            /\ UNCHANGED received
    BY <1>2 DEF FetchAnswered
  <2>1. PICK upto \in fetches[i].from .. emitted :
            /\ logs' = Capped(TailOf(fetches[i].tail, upto))
            /\ RecordDropped(OverCap(TailOf(fetches[i].tail, upto)), 0)
            /\ UNCHANGED received
    BY <2>0
  <2>2. fetches[i] \in [tail : Tails, from : 0 .. MaxEmitted]
    BY <1>0, <2>1, ElementOfSeq
  <2>3. upto \in 0 .. MaxEmitted /\ fetches[i].tail \in Nat
    <3>1. fetches[i].tail \in Tails /\ fetches[i].from \in 0 .. MaxEmitted
      BY <2>2
    <3>2. PICK f \in 0 .. MaxEmitted : f = fetches[i].from
      BY <3>1
    <3>3. upto \in f .. emitted
      BY <2>1, <3>2
    <3>4. upto \in 0 .. MaxEmitted
      BY <1>0, <3>3, StreamAssumption
    <3>5. fetches[i].tail \in Nat
      BY <3>1, StreamAssumption
    <3> QED
      BY <3>4, <3>5
  <2>4. PICK a : a = TailOf(fetches[i].tail, upto)
    OBVIOUS
  <2>5. a \in Seq(Line)
    BY <2>3, <2>4, TailFacts
  <2>6. Capped(a) \in Seq(Line) /\ Len(Capped(a)) <= MaxLogLines /\ OverCap(a) \in Nat
    BY <2>5, CappedFacts
  <2>7. PICK d \in Nat : d = OverCap(a)
    BY <2>6
  <2>8. ShiftPins(pins, d) \subseteq Rows
    BY <1>0, <2>7, ShiftedPins DEF shownTypes
  <2>9. /\ logs' \in Seq(Line) /\ Len(logs') <= MaxLogLines
        /\ droppedCount' = droppedCount + d /\ bufferedDropped' = bufferedDropped + 0
        /\ pins' = ShiftPins(pins, d) /\ UNCHANGED <<pending, buffered>>
    BY <2>1, <2>4, <2>6, <2>7 DEF RecordDropped, received
  <2> QED
    BY <1>0, <2>8, <2>9 DEF shownTypes
<1>3. CASE FetchFails
  BY <1>0, <1>1, <1>3 DEF FetchFails, shownTypes, received
<1>4. CASE FetchIssued
  BY <1>0, <1>1, <1>4 DEF FetchIssued, ResetPauseAndBuffer, ResetDroppedCount, ResetPins, shownTypes
<1>5. CASE StartStreaming
  BY <1>0, <1>1, <1>5 DEF StartStreaming, ResetPauseAndBuffer, ResetDroppedCount, ResetPins, shownTypes
<1>6. CASE StopStreaming /\ UNCHANGED <<shown, pending>>
  BY <1>0, <1>1, <1>6 DEF StopStreaming, ResetPauseAndBuffer, shownTypes, shown
<1>7. CASE Pause
  BY <1>0, <1>7, FlushTyped DEF Pause, shownTypes
<1>8. CASE Resume
  <2>1. CASE buffered = <<>>
    BY <1>0, <1>1, <1>8, <2>1 DEF Resume, shownTypes, shown
  <2>2. CASE buffered # <<>>
    <3>1. PICK a \in Seq(Line) : a = pending \o buffered
      BY <1>0, ConcatProperties DEF shownTypes
    <3>2. Flush(a) /\ buffered' = <<>>
      BY <1>8, <2>2, <3>1 DEF Resume
    <3> QED
      BY <1>1, <3>2, FlushTyped
  <2> QED
    BY <2>1, <2>2
<1>9. CASE SwitchSource
  BY <1>0, <1>9 DEF SwitchSource, ResetPins, shownTypes, received
<1>10. CASE TogglePin
  <2>1. PICK i \in 0 .. Len(logs) - 1 :
            /\ pins' = IF i \in pins THEN pins \ {i} ELSE pins \cup {i}
            /\ UNCHANGED <<logs, droppedCount, bufferedDropped, received>>
    BY <1>10 DEF TogglePin
  <2>2. Len(logs) \in Nat
    BY <1>0, LenProperties DEF shownTypes
  <2>3. i \in Rows
    BY <1>0, <2>1, <2>2, StreamAssumption DEF shownTypes, Rows
  <2>4. pins' \subseteq Rows
    BY <1>0, <2>1, <2>3 DEF shownTypes
  <2> QED
    BY <1>0, <2>1, <2>4 DEF shownTypes, received
<1>11. CASE Receive
  <2>1. session.pos + 1 \in Line
    BY <1>0, <1>11, StreamAssumption DEF Receive, Sessions, Line
  <2>2. UNCHANGED shown
    BY <1>11 DEF Receive
  <2>3. \/ buffered' = Append(buffered, session.pos + 1) /\ pending' = pending
        \/ pending' = Append(pending, session.pos + 1) /\ buffered' = buffered
    BY <1>11 DEF Receive
  <2>4. pending' \in Seq(Line) /\ buffered' \in Seq(Line)
    <3>1. PICK line \in Line : line = session.pos + 1
      BY <2>1
    <3>2. Append(buffered, line) \in Seq(Line) /\ Append(pending, line) \in Seq(Line)
      BY <1>0, AppendProperties DEF shownTypes
    <3> QED
      BY <1>0, <2>3, <3>1, <3>2 DEF shownTypes
  <2> QED
    BY <1>0, <2>2, <2>4 DEF shownTypes, shown
<1>12. CASE ConnectionEnds \/ Aborts
  BY <1>12, OverTyped DEF ConnectionEnds, Aborts
<1>13. CASE WaitEnds
  BY <1>0, <1>13, FinishTyped DEF WaitEnds, shown, received, shownTypes
<1>14. CASE FlushTick
  <2>1. CASE paused
    <3>1. buffered' = Capped(buffered) /\ bufferedDropped' = bufferedDropped + OverCap(buffered)
          /\ UNCHANGED <<logs, pending, droppedCount, pins>>
      BY <1>14, <2>1 DEF FlushTick, SyncBuffered
    <3>2. Capped(buffered) \in Seq(Line) /\ OverCap(buffered) \in Nat
      BY <1>0, CappedFacts DEF shownTypes
    <3>3. PICK n \in Nat : n = OverCap(buffered)
      BY <3>2
    <3>4. bufferedDropped' \in Nat
      BY <1>0, <3>1, <3>3 DEF shownTypes
    <3> QED
      BY <1>0, <3>1, <3>2, <3>4 DEF shownTypes
  <2>2. CASE ~paused /\ pending = <<>>
    BY <1>0, <1>14, <2>2 DEF FlushTick, shownTypes, shown
  <2>3. CASE ~paused /\ pending # <<>>
    BY <1>0, <1>14, <2>3, FlushTyped DEF FlushTick, shownTypes
  <2> QED
    BY <2>1, <2>2, <2>3
<1>15. CASE Emit \/ ChangeTail \/ Connect \/ ReceiveHeartbeat \/ GoesSilent \/ Tick
  BY <1>0, <1>15 DEF Emit, ChangeTail, Connect, ReceiveHeartbeat, GoesSilent, Tick, shown, received, shownTypes
<1>16. CASE Refresh
  BY <1>4, <1>16 DEF Refresh
<1>17. CASE Start \/ RestartStreaming
  BY <1>5, <1>17 DEF Start, RestartStreaming
<1>18. CASE Stop \/ Unmount
  BY <1>6, <1>18 DEF Stop, Unmount
<1>19. CASE ViewerEffects
  <2>1. \/ StopStreaming /\ UNCHANGED <<shown, pending>>
        \/ FetchIssued
        \/ UNCHANGED <<shown, received>>
    BY <1>19 DEF ViewerEffects
  <2>2. CASE UNCHANGED <<shown, received>>
    BY <1>0, <2>2 DEF shown, received, shownTypes
  <2> QED
    BY <1>4, <1>6, <2>1, <2>2
<1>20. CASE RefreshAfterRecreate
  <2>1. (StopStreaming /\ UNCHANGED <<shown, pending>>) \/ FetchIssued
    BY <1>20 DEF RefreshAfterRecreate
  <2> QED
    BY <1>4, <1>6, <2>1
<1> QED
  BY <1>2, <1>3, <1>7, <1>8, <1>9, <1>10, <1>11, <1>12, <1>13, <1>14, <1>15, <1>16, <1>17, <1>18,
     <1>19, <1>20 DEF Next

\* The reads in flight.
Reads == [tail : Tails, from : 0 .. MaxEmitted]

LEMMA WithoutTyped ==
    ASSUME NEW S, NEW s \in Seq(S), NEW i \in 1 .. Len(s)
    PROVE  Without(s, i) \in Seq(S) /\ Len(Without(s, i)) = Len(s) - 1
<1>1. Len(s) \in Nat /\ \A j \in 1 .. Len(s) : s[j] \in S
  BY LenProperties, ElementOfSeq
<1>2. SubSeq(s, 1, i - 1) \in Seq(S) /\ Len(SubSeq(s, 1, i - 1)) = i - 1
  BY <1>1, SubSeqProperties
<1>3. SubSeq(s, i + 1, Len(s)) \in Seq(S) /\ Len(SubSeq(s, i + 1, Len(s))) = Len(s) - i
  BY <1>1, SubSeqProperties
<1>4. /\ Without(s, i) \in Seq(S)
      /\ Len(Without(s, i)) = Len(SubSeq(s, 1, i - 1)) + Len(SubSeq(s, i + 1, Len(s)))
  BY <1>2, <1>3, ConcatProperties DEF Without
<1>5. PICK n \in Nat : n = Len(s)
  BY <1>1
<1>6. i \in Int /\ (i - 1) + (n - i) = n - 1
  BY <1>5
<1>7. Len(Without(s, i)) = (i - 1) + (n - i)
  BY <1>2, <1>3, <1>4, <1>5
<1> QED
  BY <1>4, <1>5, <1>6, <1>7

LEMMA FetchesTyped ==
    ASSUME TypeInv, Next
    PROVE  fetches' \in Seq(Reads)
<1>0. fetches \in Seq(Reads) /\ [tail |-> tail, from |-> emitted] \in Reads
  BY TypeSplit DEF DataTypes, Reads
<1>1. FetchIssued => fetches' \in Seq(Reads)
  BY <1>0, AppendProperties DEF FetchIssued
<1>2. CASE fetches' = fetches
  BY <1>0, <1>2
<1>3. CASE FetchAnswered \/ FetchFails
  <2>1. PICK i \in 1 .. Len(fetches) : fetches' = Without(fetches, i)
    BY <1>3 DEF FetchAnswered, FetchFails
  <2> QED
    BY <1>0, <2>1, WithoutTyped
<1>4. CASE Refresh \/ ViewerEffects \/ RefreshAfterRecreate
  <2>1. fetches' = fetches \/ FetchIssued
    BY <1>4 DEF Refresh, ViewerEffects, RefreshAfterRecreate
  <2> QED
    BY <1>1, <1>2, <2>1
<1>5. CASE Emit \/ Start \/ RestartStreaming \/ Stop \/ Pause \/ Resume \/ ChangeTail
           \/ SwitchSource \/ TogglePin \/ Unmount
  <2>1. fetches' = fetches
    BY <1>5 DEF Emit, Start, RestartStreaming, StartStreaming, Stop, Pause, Resume, ChangeTail,
       SwitchSource, TogglePin, Unmount
  <2> QED
    BY <1>2, <2>1
<1>6. CASE Connect \/ Receive \/ ReceiveHeartbeat \/ GoesSilent \/ ConnectionEnds \/ Aborts
           \/ WaitEnds \/ Tick \/ FlushTick
  <2>1. fetches' = fetches
    BY <1>6 DEF Connect, Receive, ReceiveHeartbeat, GoesSilent, ConnectionEnds, Aborts,
       ConnectionOver, WaitEnds, Tick, FlushTick
  <2> QED
    BY <1>2, <2>1
<1> QED
  BY <1>3, <1>4, <1>5, <1>6 DEF Next

\* The Lines input, the container and the clock.
LEMMA PageTyped ==
    ASSUME TypeInv, Next
    PROVE  /\ tail' \in Tails /\ emitted' \in 0 .. MaxEmitted
           /\ age' \in 0 .. IdleTimeout /\ restart' \in {"no", "due", "done"}
<1>0. /\ tail \in Tails /\ emitted \in 0 .. MaxEmitted
      /\ age \in 0 .. IdleTimeout /\ restart \in {"no", "due", "done"}
  BY TypeSplit DEF DataTypes
<1>1. emitted' \in 0 .. MaxEmitted
  <2>1. emitted' = emitted \/ Emit
    BY DEF Next, Emit, ViewerEffects, Refresh, FetchAnswered, FetchFails, RefreshAfterRecreate,
       RestartStreaming, StartStreaming, Start, Stop, Pause, Resume, ChangeTail, SwitchSource,
       TogglePin, Unmount, Connect, Receive, ReceiveHeartbeat, GoesSilent, ConnectionEnds, Aborts,
       ConnectionOver, WaitEnds, Tick, FlushTick
  <2> QED
    BY <1>0, <2>1, StreamAssumption DEF Emit
<1>2. tail' \in Tails
  <2>1. tail' = tail \/ ChangeTail
    BY DEF Next, Emit, ViewerEffects, Refresh, FetchAnswered, FetchFails, RefreshAfterRecreate,
       RestartStreaming, StartStreaming, Start, Stop, Pause, Resume, ChangeTail, SwitchSource,
       TogglePin, Unmount, Connect, Receive, ReceiveHeartbeat, GoesSilent, ConnectionEnds, Aborts,
       ConnectionOver, WaitEnds, Tick, FlushTick, page
  <2> QED
    BY <1>0, <2>1 DEF ChangeTail
<1>3. age' \in 0 .. IdleTimeout
  <2>1. age' = age \/ age' = 0 \/ Tick
    BY DEF Next, Emit, ViewerEffects, Refresh, FetchAnswered, FetchFails, RefreshAfterRecreate,
       RestartStreaming, StartStreaming, Start, Stop, Pause, Resume, ChangeTail, SwitchSource,
       TogglePin, Unmount, Connect, Receive, ReceiveHeartbeat, GoesSilent, ConnectionEnds, Aborts,
       ConnectionOver, Finish, Retry, WaitEnds, FlushTick, refs
  <2> QED
    BY <1>0, <2>1, StreamAssumption DEF Tick
<1>4. restart' \in {"no", "due", "done"}
  <2>1. restart' \in {restart, "due", "done"}
    BY DEF Next, Emit, ViewerEffects, Refresh, FetchAnswered, FetchFails, RefreshAfterRecreate,
       RestartStreaming, StartStreaming, Start, Stop, Pause, Resume, ChangeTail, SwitchSource,
       TogglePin, Unmount, Connect, Receive, ReceiveHeartbeat, GoesSilent, ConnectionEnds, Aborts,
       ConnectionOver, Finish, Retry, WaitEnds, Tick, FlushTick, refs
  <2> QED
    BY <1>0, <2>1
<1> QED
  BY <1>1, <1>2, <1>3, <1>4

LEMMA DepsTyped ==
    ASSUME TypeInv, Next
    PROVE  DepsOK'
<1>1. deps' = deps \/ deps' = Deps
  BY DEF Next, Emit, ViewerEffects, Refresh, FetchAnswered, FetchFails, RefreshAfterRecreate,
     RestartStreaming, StartStreaming, Start, Stop, Pause, Resume, ChangeTail, SwitchSource,
     TogglePin, Unmount, Connect, Receive, ReceiveHeartbeat, GoesSilent, ConnectionEnds, Aborts,
     ConnectionOver, WaitEnds, Tick, FlushTick
<1>2. Deps \in [streaming : BOOLEAN, tail : Nat, parked : BOOLEAN]
  <2>1. streaming \in BOOLEAN /\ parked \in BOOLEAN /\ tail \in Nat
    BY TypeSplit, StreamAssumption DEF BooleanTypes, DataTypes
  <2> QED
    BY <2>1 DEF Deps
<1> QED
  BY <1>1, <1>2, TypeSplit DEF DepsOK

LEMMA TypeStep ==
    ASSUME TypeInv, Next
    PROVE  TypeInv'
<1>1. BooleanTypes' /\ DepsOK' /\ session' \in Sessions /\ shownTypes' /\ fetches' \in Seq(Reads)
  BY BooleansStep, DepsTyped, SessionTyped, ShownTyped, FetchesTyped
<1>2. DataTypes'
  BY <1>1, PageTyped DEF DataTypes, shownTypes, Reads
<1> QED
  BY <1>1, <1>2 DEF TypeInv, TypeOK, BooleanTypes, DataTypes, Line

-----------------------------------------------------------------------------
(* The lines *)

\* Every line of s was written up to n, or before every line of t.
Below(s, n) == \A i \in 1 .. Len(s) : s[i] <= n
Before(s, t) == \A i \in 1 .. Len(s), j \in 1 .. Len(t) : s[i] < t[j]

Held3(n) == Below(logs, n) /\ Below(pending, n) /\ Below(buffered, n)

\* LinesInOrder, by the three buffers.
InOrder ==
    ~clobbered =>
        /\ Increasing(logs) /\ Increasing(pending) /\ Increasing(buffered)
        /\ Before(logs, pending) /\ Before(logs, buffered) /\ Before(pending, buffered)

BufferWhilePaused == buffered # <<>> => paused
FlushedAtEnd == session.phase = "none" => pending = <<>>
\* What is held has been written, and read by the connection that is read.
HeldWritten == Held3(emitted)
HeldRead == ~clobbered /\ session.phase = "reading" => Held3(session.pos)
PosWritten == session.pos <= emitted
\* The first connection, which asks for the tail, finds nothing on the page.
NothingBefore ==
    ~clobbered /\ session.phase = "connecting" /\ session.attempt = 0 =>
        logs = <<>> /\ pending = <<>> /\ buffered = <<>>
WaitsAgain == session.phase = "waiting" => session.attempt # 0
\* While the loop runs, every pin is on a line that is shown.
PinsOnLines == ~clobbered /\ session.phase # "none" => \A p \in pins : p < Len(logs)

LinesInv ==
    /\ InOrder /\ BufferWhilePaused /\ FlushedAtEnd /\ HeldWritten /\ HeldRead /\ PosWritten
    /\ NothingBefore /\ WaitsAgain /\ PinsOnLines

\* The end of a sequence inherits its order.
LEMMA EndInOrder ==
    ASSUME NEW s \in Seq(Line), NEW t \in Seq(Line), NEW n \in Nat,
           Len(t) + n = Len(s), \A i \in 1 .. Len(t) : t[i] = s[i + n]
    PROVE  /\ Increasing(s) => Increasing(t)
           /\ \A u \in Seq(Line) : Before(s, u) => Before(t, u)
           /\ \A u \in Seq(Line) : Before(u, s) => Before(u, t)
           /\ \A m \in Nat : Below(s, m) => Below(t, m)
<1>1. PICK l \in Nat : l = Len(t)
  BY LenProperties
<1>2. \A i \in 1 .. Len(t) : i + n \in 1 .. Len(s)
  BY <1>1
<1>3. Increasing(s) => Increasing(t)
  <2> SUFFICES ASSUME Increasing(s), NEW i \in 1 .. Len(t), NEW j \in 1 .. Len(t), i < j
               PROVE  t[i] < t[j]
    BY DEF Increasing
  <2>1. i + n \in 1 .. Len(s) /\ j + n \in 1 .. Len(s) /\ i + n < j + n
    BY <1>1, <1>2
  <2>2. s[i + n] < s[j + n]
    BY <2>1 DEF Increasing
  <2> QED
    BY <2>2
<1>4. \A u \in Seq(Line) : Before(s, u) => Before(t, u)
  BY <1>2 DEF Before
<1>5. \A u \in Seq(Line) : Before(u, s) => Before(u, t)
  BY <1>2 DEF Before
<1>6. \A m \in Nat : Below(s, m) => Below(t, m)
  BY <1>2 DEF Below
<1> QED
  BY <1>3, <1>4, <1>5, <1>6

\* A sequence of two parts is in order when both are and one comes before the other.
LEMMA ConcatInOrder ==
    ASSUME NEW s \in Seq(Line), NEW t \in Seq(Line)
    PROVE  /\ s \o t \in Seq(Line)
           /\ Increasing(s \o t) <=> Increasing(s) /\ Increasing(t) /\ Before(s, t)
           /\ \A u \in Seq(Line) : Before(s \o t, u) <=> Before(s, u) /\ Before(t, u)
           /\ \A u \in Seq(Line) : Before(u, s \o t) <=> Before(u, s) /\ Before(u, t)
           /\ \A m \in Nat : Below(s \o t, m) <=> Below(s, m) /\ Below(t, m)
<1>1. PICK a \in Nat : a = Len(s)
  BY LenProperties
<1>2. PICK b \in Nat : b = Len(t)
  BY LenProperties
<1>3. PICK x \in Seq(Line) : x = s \o t
  BY ConcatProperties
<1>4. /\ Len(x) = a + b
      /\ \A i \in 1 .. a + b : x[i] = IF i <= a THEN s[i] ELSE t[i - a]
  BY <1>1, <1>2, <1>3, ConcatProperties
<1>5. /\ \A i \in 1 .. a : i \in 1 .. a + b /\ x[i] = s[i]
      /\ \A j \in 1 .. b : j + a \in 1 .. a + b /\ x[j + a] = t[j]
      /\ \A i \in 1 .. a + b : i \notin 1 .. a => i - a \in 1 .. b /\ x[i] = t[i - a]
  BY <1>4
<1>6. Increasing(x) => Increasing(s) /\ Increasing(t) /\ Before(s, t)
  <2> SUFFICES ASSUME Increasing(x) PROVE Increasing(s) /\ Increasing(t) /\ Before(s, t)
    OBVIOUS
  <2>0. \A i, j \in 1 .. a + b : i < j => x[i] < x[j]
    BY <1>4 DEF Increasing
  <2>1. Increasing(s)
    BY <1>1, <1>5, <2>0 DEF Increasing
  <2>2. Increasing(t)
    <3> SUFFICES ASSUME NEW i \in 1 .. b, NEW j \in 1 .. b, i < j PROVE t[i] < t[j]
      BY <1>2 DEF Increasing
    <3>1. i + a \in 1 .. a + b /\ j + a \in 1 .. a + b /\ i + a < j + a
      BY <1>5
    <3>2. x[i + a] < x[j + a]
      BY <2>0, <3>1
    <3> QED
      BY <1>5, <3>2
  <2>3. Before(s, t)
    <3> SUFFICES ASSUME NEW i \in 1 .. a, NEW j \in 1 .. b PROVE s[i] < t[j]
      BY <1>1, <1>2 DEF Before
    <3>1. i \in 1 .. a + b /\ j + a \in 1 .. a + b /\ i < j + a
      BY <1>5
    <3>2. x[i] < x[j + a]
      BY <2>0, <3>1
    <3> QED
      BY <1>5, <3>2
  <2> QED
    BY <2>1, <2>2, <2>3
<1>7. Increasing(s) /\ Increasing(t) /\ Before(s, t) => Increasing(x)
  <2> SUFFICES ASSUME Increasing(s), Increasing(t), Before(s, t),
                      NEW i \in 1 .. a + b, NEW j \in 1 .. a + b, i < j
               PROVE  x[i] < x[j]
    BY <1>4 DEF Increasing
  <2>1. CASE j \in 1 .. a
    <3>1. i \in 1 .. a
      BY <2>1
    <3> QED
      BY <1>1, <1>5, <2>1, <3>1 DEF Increasing
  <2>2. CASE j \notin 1 .. a /\ i \in 1 .. a
    <3>1. j - a \in 1 .. b /\ x[j] = t[j - a] /\ x[i] = s[i]
      BY <1>5, <2>2
    <3>2. s[i] < t[j - a]
      BY <1>1, <1>2, <2>2, <3>1 DEF Before
    <3> QED
      BY <3>1, <3>2
  <2>3. CASE j \notin 1 .. a /\ i \notin 1 .. a
    <3>1. j - a \in 1 .. b /\ x[j] = t[j - a] /\ i - a \in 1 .. b /\ x[i] = t[i - a]
      BY <1>5, <2>3
    <3>2. i - a < j - a
      OBVIOUS
    <3>3. t[i - a] < t[j - a]
      BY <1>2, <3>1, <3>2 DEF Increasing
    <3> QED
      BY <3>1, <3>3
  <2> QED
    BY <2>1, <2>2, <2>3
<1>8. \A u \in Seq(Line) : Before(x, u) <=> Before(s, u) /\ Before(t, u)
  <2> SUFFICES ASSUME NEW u \in Seq(Line) PROVE Before(x, u) <=> Before(s, u) /\ Before(t, u)
    OBVIOUS
  <2>1. Before(x, u) => Before(s, u)
    BY <1>1, <1>4, <1>5 DEF Before
  <2>2. Before(x, u) => Before(t, u)
    BY <1>2, <1>4, <1>5 DEF Before
  <2>3. Before(s, u) /\ Before(t, u) => Before(x, u)
    <3> SUFFICES ASSUME Before(s, u), Before(t, u), NEW i \in 1 .. a + b, NEW j \in 1 .. Len(u)
                 PROVE  x[i] < u[j]
      BY <1>4 DEF Before
    <3>1. CASE i \in 1 .. a
      BY <1>1, <1>5, <3>1 DEF Before
    <3>2. CASE i \notin 1 .. a
      <4>1. i - a \in 1 .. b /\ x[i] = t[i - a]
        BY <1>5, <3>2
      <4>2. t[i - a] < u[j]
        BY <1>2, <4>1 DEF Before
      <4> QED
        BY <4>1, <4>2
    <3> QED
      BY <3>1, <3>2
  <2> QED
    BY <2>1, <2>2, <2>3
<1>9. \A u \in Seq(Line) : Before(u, x) <=> Before(u, s) /\ Before(u, t)
  BY ZenonT(30), <1>1, <1>2, <1>4, <1>5 DEF Before
<1>10. \A m \in Nat : Below(x, m) <=> Below(s, m) /\ Below(t, m)
  BY <1>1, <1>2, <1>4, <1>5 DEF Below
<1> QED
  BY <1>3, <1>6, <1>7, <1>8, <1>9, <1>10

\* The property, by the three buffers.
LEMMA OrderOfParts == TypeInv => (InOrder <=> LinesInOrder)
<1> SUFFICES ASSUME TypeInv PROVE InOrder <=> LinesInOrder
  OBVIOUS
<1>1. logs \in Seq(Line) /\ pending \in Seq(Line) /\ buffered \in Seq(Line)
  BY TypeSplit DEF DataTypes
<1>2. PICK x \in Seq(Line) : x = logs \o pending
  BY <1>1, ConcatInOrder
<1>3. /\ Increasing(x) <=> Increasing(logs) /\ Increasing(pending) /\ Before(logs, pending)
      /\ Before(x, buffered) <=> Before(logs, buffered) /\ Before(pending, buffered)
  BY <1>1, <1>2, ConcatInOrder
<1>4. Increasing(x \o buffered) <=> Increasing(x) /\ Increasing(buffered) /\ Before(x, buffered)
  BY <1>1, <1>2, ConcatInOrder
<1> QED
  BY <1>2, <1>3, <1>4 DEF InOrder, LinesInOrder

\* Nothing comes before or after the lines of an empty buffer.
LEMMA EmptyInOrder ==
    /\ <<>> \in Seq(Line) /\ Increasing(<<>>)
    /\ \A t \in Seq(Line) : Before(<<>>, t) /\ Before(t, <<>>)
    /\ \A n \in Nat : Below(<<>>, n)
<1>1. <<>> \in Seq(Line) /\ Len(<<>>) = 0
  BY EmptySeq
<1>2. PICK e \in Seq(Line) : e = <<>> /\ Len(e) = 0
  BY <1>1
<1>3. 1 .. Len(e) = {}
  BY <1>2
<1>4. /\ Increasing(e) /\ \A n \in Nat : Below(e, n)
      /\ \A t \in Seq(Line) : Before(e, t) /\ Before(t, e)
  BY <1>3 DEF Increasing, Below, Before
<1> QED
  BY <1>2, <1>4

LEMMA BelowMore ==
    ASSUME NEW s \in Seq(Line), NEW m \in Nat, NEW n \in Nat, m <= n, Below(s, m)
    PROVE  Below(s, n)
<1>1. \A i \in 1 .. Len(s) : s[i] \in Line
  BY ElementOfSeq
<1>2. Line \subseteq Nat
  BY StreamAssumption DEF Line
<1>3. \A i \in 1 .. Len(s) : s[i] \in Nat
  BY <1>1, <1>2
<1> QED
  BY <1>3 DEF Below

\* The numbers of a session and the lines held are numbers.
LEMMA LineNumbers ==
    ASSUME TypeInv
    PROVE  /\ emitted \in Nat /\ session.pos \in Nat /\ session.attempt \in Nat
           /\ logs \in Seq(Line) /\ pending \in Seq(Line) /\ buffered \in Seq(Line)
           /\ Len(logs) \in Nat
<1>1. session \in Sessions /\ emitted \in 0 .. MaxEmitted
      /\ logs \in Seq(Line) /\ pending \in Seq(Line) /\ buffered \in Seq(Line)
  BY TypeSplit DEF DataTypes
<1>2. Len(Delays) \in Nat /\ Len(logs) \in Nat
  BY <1>1, StreamAssumption, LenProperties
<1> QED
  BY <1>1, <1>2, StreamAssumption DEF Sessions

LEMMA LineNumbersNext ==
    ASSUME TypeInv'
    PROVE  emitted' \in Nat /\ session'.pos \in Nat /\ session'.attempt \in Nat
<1>1. session' \in Sessions /\ emitted' \in 0 .. MaxEmitted
  BY DEF TypeInv, TypeOK
<1>2. Len(Delays) \in Nat
  BY StreamAssumption, LenProperties
<1> QED
  BY <1>1, <1>2, StreamAssumption DEF Sessions

\* A step that takes nothing in and drops at most what is held back.
LEMMA LinesAside ==
    ASSUME TypeInv, TypeInv', LinesInv,
           UNCHANGED <<logs, pending, clobbered>>, emitted <= emitted',
           buffered' = buffered \/ buffered' = <<>>, pins' = pins \/ pins' = {},
           buffered' # <<>> => paused',
           session'.phase = "none" <=> session.phase = "none",
           session'.phase = "reading" =>
               \/ session.phase = "reading" /\ session'.pos = session.pos
               \/ session'.pos = emitted
               \/ session.phase = "connecting" /\ session.attempt = 0,
           session'.phase = "connecting" =>
               \/ session.phase = "connecting" /\ session'.attempt = session.attempt
               \/ session'.attempt # 0,
           session'.phase = "waiting" => session'.attempt # 0,
           session'.pos <= emitted'
    PROVE  LinesInv'
<1>0. /\ emitted \in Nat /\ emitted' \in Nat /\ session.pos \in Nat /\ session'.pos \in Nat
      /\ logs \in Seq(Line) /\ pending \in Seq(Line) /\ buffered \in Seq(Line)
  BY LineNumbers, LineNumbersNext
<1>1. InOrder'
  <2>1. clobbered \/ (/\ Increasing(logs) /\ Increasing(pending) /\ Increasing(buffered')
                      /\ Before(logs, pending) /\ Before(logs, buffered') /\ Before(pending, buffered'))
    BY <1>0, EmptyInOrder DEF LinesInv, InOrder
  <2> QED
    BY <2>1 DEF InOrder
<1>2. \A n \in Nat : Held3(n) => Held3(n)'
  BY <1>0, EmptyInOrder DEF Held3
<1>3. HeldWritten'
  <2>1. Below(logs, emitted') /\ Below(pending, emitted') /\ Below(buffered, emitted')
    BY <1>0, BelowMore DEF LinesInv, HeldWritten, Held3
  <2> QED
    BY <1>0, <2>1, EmptyInOrder DEF HeldWritten, Held3
<1>4. HeldRead'
  <2> SUFFICES ASSUME ~clobbered', session'.phase = "reading" PROVE Held3(session.pos)'
    BY DEF HeldRead
  <2>0. ~clobbered
    OBVIOUS
  <2>1. CASE session.phase = "reading" /\ session'.pos = session.pos
    <3>1. Below(logs, session.pos) /\ Below(pending, session.pos) /\ Below(buffered, session.pos)
      BY <2>0, <2>1 DEF LinesInv, HeldRead, Held3
    <3> QED
      BY <1>0, <2>1, <3>1, EmptyInOrder DEF Held3
  <2>2. CASE session'.pos = emitted
    <3>1. Below(logs, emitted) /\ Below(pending, emitted) /\ Below(buffered, emitted)
      BY DEF LinesInv, HeldWritten, Held3
    <3> QED
      BY <1>0, <2>2, <3>1, EmptyInOrder DEF Held3
  <2>3. CASE session.phase = "connecting" /\ session.attempt = 0
    <3>1. logs = <<>> /\ pending = <<>> /\ buffered = <<>>
      BY <2>0, <2>3 DEF LinesInv, NothingBefore
    <3> QED
      BY <1>0, <3>1, EmptyInOrder DEF Held3
  <2> QED
    BY <2>1, <2>2, <2>3
<1>5. NothingBefore'
  BY DEF LinesInv, NothingBefore
<1>6. PinsOnLines'
  BY DEF LinesInv, PinsOnLines
<1>7. BufferWhilePaused' /\ FlushedAtEnd' /\ PosWritten' /\ WaitsAgain'
  BY DEF LinesInv, BufferWhilePaused, FlushedAtEnd, PosWritten, WaitsAgain
<1> QED
  BY <1>1, <1>3, <1>4, <1>5, <1>6, <1>7 DEF LinesInv

\* A flush keeps the order, takes in nothing that was not held, and moves the pins
\* that it keeps with their lines.
LEMMA FlushOrder ==
    ASSUME TypeInv, LinesInv, NEW arriving \in Seq(Line), Flush(arriving), clobbered' = clobbered,
           \/ arriving = pending /\ buffered' = buffered
           \/ arriving = pending \o buffered /\ buffered' = <<>>
    PROVE  /\ InOrder'
           /\ \A m \in Nat : Held3(m) => Below(logs', m) /\ Below(buffered', m)
           /\ (\A p \in pins : p < Len(logs)) => (\A p \in pins' : p < Len(logs'))
           /\ logs = <<>> /\ arriving = <<>> => logs' = <<>>
           /\ pending' = <<>>
<1>1. TypeOK /\ logs \in Seq(Line) /\ pending \in Seq(Line) /\ buffered \in Seq(Line) /\ pins \subseteq Nat
  BY TypeSplit, StreamAssumption DEF TypeInv, DataTypes, Rows
<1>2. PICK x \in Seq(Line), d \in Nat, n \in Nat :
           /\ x = logs \o arriving /\ Len(x) = Len(logs) + Len(arriving)
           /\ d <= n /\ (d = n \/ d = Len(logs)) /\ d <= Len(logs)
           /\ logs' \in Seq(Line) /\ Len(logs') + n = Len(x)
           /\ \A i \in 1 .. Len(logs') : logs'[i] = x[i + n]
           /\ pins' = ShiftPins(pins, d) /\ pending' = <<>>
  BY <1>1, FlushFacts
<1>3. PICK l \in Seq(Line) : l = logs'
  BY <1>2
<1>4. /\ Increasing(x) => Increasing(l)
      /\ \A u \in Seq(Line) : Before(x, u) => Before(l, u)
      /\ \A m \in Nat : Below(x, m) => Below(l, m)
  <2>1. Len(l) + n = Len(x) /\ \A i \in 1 .. Len(l) : l[i] = x[i + n]
    BY <1>2, <1>3
  <2> QED
    BY <2>1, EndInOrder
<1>5. PICK b \in Seq(Line) : b = buffered'
  BY <1>1, EmptyInOrder
<1>6. clobbered \/ (Increasing(x) /\ Increasing(b) /\ Before(x, b))
  <2> SUFFICES ASSUME ~clobbered PROVE Increasing(x) /\ Increasing(b) /\ Before(x, b)
    OBVIOUS
  <2>1. /\ Increasing(logs) /\ Increasing(pending) /\ Increasing(buffered)
        /\ Before(logs, pending) /\ Before(logs, buffered) /\ Before(pending, buffered)
    BY DEF LinesInv, InOrder
  <2>2. Increasing(arriving) /\ Before(logs, arriving) /\ Increasing(b)
    BY ZenonT(30), <1>1, <1>5, <2>1, ConcatInOrder, EmptyInOrder
  <2>3. Before(logs, b) /\ Before(arriving, b)
    BY <1>1, <1>5, <2>1, ConcatInOrder, EmptyInOrder
  <2>4. /\ Increasing(logs \o arriving) <=> Increasing(logs) /\ Increasing(arriving) /\ Before(logs, arriving)
        /\ Before(logs \o arriving, b) <=> Before(logs, b) /\ Before(arriving, b)
    BY <1>1, ConcatInOrder
  <2> QED
    BY <1>2, <2>1, <2>2, <2>3, <2>4
<1>7. InOrder'
  <2>1. clobbered \/ (Increasing(l) /\ Increasing(b) /\ Before(l, b))
    BY <1>4, <1>5, <1>6
  <2>2. Increasing(<<>>) /\ Before(l, <<>>) /\ Before(<<>>, b)
    BY EmptyInOrder
  <2>3. clobbered' \/ (Increasing(logs') /\ Increasing(buffered') /\ Before(logs', buffered'))
    BY <1>3, <1>5, <2>1
  <2>4. Increasing(pending') /\ Before(logs', pending') /\ Before(pending', buffered')
    BY <1>2, <1>3, <1>5, <2>2
  <2> QED
    BY <2>3, <2>4 DEF InOrder
<1>8. ASSUME NEW m \in Nat, Held3(m) PROVE Below(logs', m) /\ Below(buffered', m)
  <2>1. Below(logs, m) /\ Below(pending, m) /\ Below(buffered, m)
    BY <1>8 DEF Held3
  <2>2. Below(arriving, m) /\ Below(b, m)
    BY <1>1, <1>5, <2>1, ConcatInOrder, EmptyInOrder
  <2>3. Below(x, m)
    BY <1>1, <1>2, <2>1, <2>2, ConcatInOrder
  <2> QED
    BY <1>3, <1>4, <1>5, <2>2, <2>3
<1>9. ASSUME \A p \in pins : p < Len(logs) PROVE \A p \in pins' : p < Len(logs')
  <2>0. Len(logs) \in Nat /\ Len(l) \in Nat /\ Len(arriving) \in Nat
    BY <1>1, LenProperties
  <2> SUFFICES ASSUME NEW j \in pins, j >= d PROVE j - d < Len(logs')
    BY <1>2 DEF ShiftPins
  <2>1. j < Len(logs) /\ j \in Nat
    BY <1>1, <1>9
  <2>2. PICK a \in Nat, c \in Nat, e \in Nat : a = Len(logs) /\ c = Len(arriving) /\ e = Len(l)
    BY <2>0
  <2>3. e + n = a + c /\ d < a /\ d = n /\ j < a
    BY <1>2, <1>3, <2>1, <2>2
  <2>4. j - d < e
    BY <2>1, <2>3
  <2> QED
    BY <1>3, <2>2, <2>4
<1>10. logs = <<>> /\ arriving = <<>> => logs' = <<>>
  <2> SUFFICES ASSUME logs = <<>>, arriving = <<>> PROVE l = <<>>
    BY <1>3
  <2>1. Len(logs) = 0 /\ Len(arriving) = 0
    BY EmptySeq
  <2>2. Len(l) = 0
    BY <1>2, <1>3, <2>1, LenProperties
  <2> QED
    BY <2>2, EmptySeq
<1> QED
  BY <1>2, <1>7, <1>8, <1>9, <1>10

\* A flush while the loop runs, or as its last act.
LEMMA LinesFlushed ==
    ASSUME TypeInv, TypeInv', LinesInv, NEW arriving \in Seq(Line), Flush(arriving),
           UNCHANGED <<clobbered, emitted>>, session.phase # "none",
           \/ arriving = pending /\ buffered' = buffered
           \/ arriving = pending \o buffered /\ buffered' = <<>>,
           buffered' # <<>> => paused',
           \/ session'.phase = "none" /\ session'.pos = 0
           \/ /\ session'.phase = session.phase /\ session'.pos = session.pos
              /\ session'.attempt = session.attempt
    PROVE  LinesInv'
<1>0. /\ emitted \in Nat /\ session.pos \in Nat
      /\ logs \in Seq(Line) /\ pending \in Seq(Line) /\ buffered \in Seq(Line)
  BY LineNumbers
<1>1. /\ InOrder'
      /\ \A m \in Nat : Held3(m) => Below(logs', m) /\ Below(buffered', m)
      /\ (\A p \in pins : p < Len(logs)) => (\A p \in pins' : p < Len(logs'))
      /\ logs = <<>> /\ arriving = <<>> => logs' = <<>>
      /\ pending' = <<>>
  BY FlushOrder
<1>2. \A m \in Nat : Below(pending', m)
  BY <1>1, EmptyInOrder
<1>3. HeldWritten'
  <2>1. Below(logs', emitted) /\ Below(buffered', emitted) /\ Below(pending', emitted)
    BY <1>0, <1>1, <1>2 DEF LinesInv, HeldWritten
  <2> QED
    BY <2>1 DEF HeldWritten, Held3
<1>4. HeldRead'
  <2> SUFFICES ASSUME ~clobbered', session'.phase = "reading" PROVE Held3(session.pos)'
    BY DEF HeldRead
  <2>1. ~clobbered /\ session.phase = "reading" /\ session'.pos = session.pos
    OBVIOUS
  <2>2. Below(logs', session.pos) /\ Below(buffered', session.pos) /\ Below(pending', session.pos)
    BY <1>0, <1>1, <1>2, <2>1 DEF LinesInv, HeldRead
  <2> QED
    BY <2>1, <2>2 DEF Held3
<1>5. NothingBefore'
  <2> SUFFICES ASSUME ~clobbered', session'.phase = "connecting", session'.attempt = 0
               PROVE  logs' = <<>> /\ pending' = <<>> /\ buffered' = <<>>
    BY DEF NothingBefore
  <2>1. logs = <<>> /\ pending = <<>> /\ buffered = <<>>
    BY DEF LinesInv, NothingBefore
  <2>2. arriving = <<>>
    BY <2>1
  <2> QED
    BY <1>1, <2>1, <2>2
<1>6. PinsOnLines'
  BY <1>1 DEF LinesInv, PinsOnLines
<1>7. BufferWhilePaused' /\ FlushedAtEnd' /\ PosWritten' /\ WaitsAgain'
  BY <1>0, <1>1 DEF LinesInv, BufferWhilePaused, FlushedAtEnd, PosWritten, WaitsAgain
<1> QED
  BY <1>1, <1>3, <1>4, <1>5, <1>6, <1>7 DEF LinesInv

\* A step after which the loop is where it was.
LEMMA LinesSame ==
    ASSUME TypeInv, TypeInv', LinesInv,
           UNCHANGED <<logs, pending, clobbered>>, emitted' = emitted \/ emitted' = emitted + 1,
           buffered' = buffered \/ buffered' = <<>>, pins' = pins \/ pins' = {},
           buffered' = <<>> \/ paused' = paused,
           session'.phase = session.phase, session'.pos = session.pos,
           session'.attempt = session.attempt \/ (session'.attempt = 0 /\ session.phase = "reading")
    PROVE  LinesInv'
<1>1. emitted \in Nat /\ session.pos \in Nat
  BY LineNumbers
<1>2. emitted <= emitted' /\ session'.pos <= emitted'
  BY <1>1 DEF LinesInv, PosWritten
<1>3. buffered' # <<>> => paused'
  BY DEF LinesInv, BufferWhilePaused
<1>4. session'.phase = "waiting" => session'.attempt # 0
  BY DEF LinesInv, WaitsAgain
<1> QED
  BY <1>2, <1>3, <1>4, LinesAside

\* The stop of a stream.
LEMMA LinesStopped ==
    ASSUME TypeInv, TypeInv', LinesInv, StopStreaming,
           UNCHANGED <<logs, pending, clobbered, emitted, pins>>
    PROVE  LinesInv'
<1>1. session \in Sessions
  BY TypeSplit DEF DataTypes
<1>2. /\ session'.phase = session.phase /\ session'.pos = session.pos
      /\ session'.attempt = session.attempt
  BY <1>1, AbortedSession DEF StopStreaming
<1>3. buffered' = <<>>
  BY DEF StopStreaming, ResetPauseAndBuffer
<1> QED
  BY <1>2, <1>3, LinesSame

\* A one-shot read is asked for.
LEMMA LinesAsked ==
    ASSUME TypeInv, TypeInv', LinesInv, FetchIssued, UNCHANGED <<clobbered, emitted, session>>
    PROVE  LinesInv'
BY LinesSame DEF FetchIssued, ResetPauseAndBuffer, ResetPins

\* A start finds, or leaves, the page empty.
LEMMA LinesStarted ==
    ASSUME TypeInv, TypeInv', StartStreaming
    PROVE  LinesInv'
<1>1. /\ logs' = <<>> /\ pending' = <<>> /\ buffered' = <<>> /\ pins' = {}
      /\ session'.phase = "connecting" /\ session'.attempt = 0 /\ session'.pos = 0
      /\ emitted' \in Nat
  BY LineNumbersNext DEF StartStreaming, ResetPauseAndBuffer, ResetPins, NoSession
<1>2. InOrder'
  BY <1>1, EmptyInOrder DEF InOrder
<1>3. HeldWritten'
  BY <1>1, EmptyInOrder DEF HeldWritten, Held3
<1>4. HeldRead' /\ NothingBefore' /\ WaitsAgain' /\ PinsOnLines'
  BY <1>1 DEF HeldRead, NothingBefore, WaitsAgain, PinsOnLines
<1>5. BufferWhilePaused' /\ FlushedAtEnd' /\ PosWritten'
  BY <1>1 DEF BufferWhilePaused, FlushedAtEnd, PosWritten
<1> QED
  BY <1>2, <1>3, <1>4, <1>5 DEF LinesInv

\* A flush with nothing to show changes nothing.
LEMMA IdleFlush ==
    ASSUME TypeInv, pending = <<>>, UNCHANGED <<shown, pending>>
    PROVE  Flush(pending)
<1>1. logs \in Seq(Line) /\ Len(logs) \in Nat /\ Len(logs) <= MaxLogLines /\ MaxLogLines \in Nat
  BY TypeSplit, LineNumbers, StreamAssumption DEF DataTypes
<1>2. logs \o pending = logs
  BY <1>1, ConcatEmptySeq
<1>3. OverCap(logs) = 0 /\ Capped(logs) = logs
  BY <1>1 DEF OverCap, Capped
<1>4. DroppedFromDisplayed(pending) = 0
  BY <1>1, <1>2, <1>3 DEF DroppedFromDisplayed, Smaller
<1>5. ShiftPins(pins, 0) = pins
  <2>1. pins \subseteq Nat
    BY TypeSplit, StreamAssumption DEF DataTypes, Rows
  <2> QED
    BY <2>1 DEF ShiftPins
<1>6. droppedCount \in Nat /\ bufferedDropped \in Nat
  BY TypeSplit DEF DataTypes
<1> QED
  BY <1>2, <1>3, <1>4, <1>5, <1>6 DEF Flush, RecordDropped, shown

\* The end of the loop shows what is left.
LEMMA LinesFinished ==
    ASSUME TypeInv, TypeInv', LinesInv, Finish, UNCHANGED <<clobbered, emitted>>,
           session.phase # "none"
    PROVE  LinesInv'
<1>1. Flush(pending)
  BY IdleFlush DEF Finish
<1>2. /\ buffered' = buffered /\ paused' = paused
      /\ session'.phase = "none" /\ session'.pos = 0
  BY DEF Finish, NoSession
<1>3. buffered' # <<>> => paused'
  BY <1>2 DEF LinesInv, BufferWhilePaused
<1>4. pending \in Seq(Line)
  BY LineNumbers
<1> QED
  BY <1>1, <1>2, <1>3, <1>4, LinesFlushed

\* Another connection will follow from what is written by then.
LEMMA LinesRetried ==
    ASSUME TypeInv, TypeInv', LinesInv, Retry, UNCHANGED <<clobbered, emitted>>,
           session.phase # "none"
    PROVE  LinesInv'
<1>1. session.attempt \in Nat /\ emitted \in Nat
  BY LineNumbers
<1>2. Len(Delays) \in Nat /\ Len(Delays) # 0
  BY StreamAssumption, EmptySeq, LenProperties
<1>3. PICK n \in Nat : n = Smaller(session.attempt + 1, Len(Delays)) /\ n # 0
  BY <1>1, <1>2 DEF Smaller
<1>4. session'.phase = "waiting" /\ session'.attempt = n /\ session'.pos = 0
  BY <1>3 DEF Retry, NoSession
<1>5. UNCHANGED <<logs, pending, buffered, pins, paused>>
  BY DEF Retry, shown, received
<1>6. buffered' # <<>> => paused'
  BY <1>5 DEF LinesInv, BufferWhilePaused
<1>7. emitted <= emitted' /\ session'.pos <= emitted'
  BY <1>1, <1>4
<1> QED
  BY <1>3, <1>4, <1>5, <1>6, <1>7, LinesAside

\* The backlog of a paused stream is cut to the ring's size.
LEMMA LinesTrimmed ==
    ASSUME TypeInv, TypeInv', LinesInv, SyncBuffered, paused',
           UNCHANGED <<logs, pending, clobbered, emitted>>,
           session'.phase = session.phase, session'.pos = session.pos,
           session'.attempt = session.attempt
    PROVE  LinesInv'
<1>0. /\ emitted \in Nat /\ session.pos \in Nat
      /\ logs \in Seq(Line) /\ pending \in Seq(Line) /\ buffered \in Seq(Line)
  BY LineNumbers
<1>1. PICK n \in Nat : n = OverCap(buffered)
  BY <1>0, CappedFacts
<1>2. PICK b \in Seq(Line) : b = Capped(buffered)
  BY <1>0, CappedFacts
<1>3. Len(b) + n = Len(buffered) /\ \A i \in 1 .. Len(b) : b[i] = buffered[i + n]
  BY <1>0, <1>1, <1>2, CappedFacts
<1>4. /\ Increasing(buffered) => Increasing(b)
      /\ \A u \in Seq(Line) : Before(u, buffered) => Before(u, b)
      /\ \A m \in Nat : Below(buffered, m) => Below(b, m)
  BY <1>0, <1>3, EndInOrder
<1>5. buffered' = b /\ pins' = pins
  BY <1>2 DEF SyncBuffered
<1>6. InOrder'
  <2>1. clobbered \/ (/\ Increasing(logs) /\ Increasing(pending) /\ Increasing(b)
                      /\ Before(logs, pending) /\ Before(logs, b) /\ Before(pending, b))
    BY <1>0, <1>4 DEF LinesInv, InOrder
  <2> QED
    BY <1>5, <2>1 DEF InOrder
<1>7. HeldWritten'
  <2>1. Below(logs, emitted) /\ Below(pending, emitted) /\ Below(b, emitted)
    BY <1>0, <1>4 DEF LinesInv, HeldWritten, Held3
  <2> QED
    BY <1>5, <2>1 DEF HeldWritten, Held3
<1>8. HeldRead'
  <2> SUFFICES ASSUME ~clobbered', session'.phase = "reading" PROVE Held3(session.pos)'
    BY DEF HeldRead
  <2>1. ~clobbered /\ session.phase = "reading"
    OBVIOUS
  <2>2. Below(logs, session.pos) /\ Below(pending, session.pos) /\ Below(b, session.pos)
    BY <1>0, <1>4, <2>1 DEF LinesInv, HeldRead, Held3
  <2> QED
    BY <1>5, <2>2 DEF Held3
<1>9. NothingBefore'
  <2>1. buffered = <<>> => b = <<>>
    <3> SUFFICES ASSUME buffered = <<>> PROVE b = <<>>
      OBVIOUS
    <3>1. Len(buffered) = 0 /\ Len(b) \in Nat
      BY EmptySeq, LenProperties
    <3>2. Len(b) = 0
      BY <1>3, <3>1
    <3> QED
      BY <3>2, EmptySeq
  <2> QED
    BY <1>5, <2>1 DEF LinesInv, NothingBefore
<1>10. PinsOnLines' /\ BufferWhilePaused' /\ FlushedAtEnd' /\ WaitsAgain' /\ PosWritten'
  BY <1>5 DEF LinesInv, PinsOnLines, BufferWhilePaused, FlushedAtEnd, WaitsAgain, PosWritten
<1> QED
  BY <1>6, <1>7, <1>8, <1>9, <1>10 DEF LinesInv

\* Without a stream the page holds nothing back.
LEMMA NothingHeldBack ==
    ASSUME TypeInv, FlagsInv, LinesInv, Ready, ~streaming
    PROVE  session.phase = "none" /\ pending = <<>> /\ buffered = <<>>
<1>1. StreamRunsAsShown /\ Settled
  BY FlagsShow DEF Ready
<1>2. BooleanTypes
  BY TypeSplit
<1>3. session.phase = "none" /\ ~paused
  BY Zenon, <1>1, <1>2 DEF StreamRunsAsShown, BooleanTypes
<1> QED
  BY <1>3 DEF LinesInv, FlushedAtEnd, BufferWhilePaused

\* With a stream the loop runs.
LEMMA LoopRuns ==
    ASSUME TypeInv, FlagsInv, streaming \/ interval
    PROVE  session.phase # "none"
<1>1. BooleanTypes
  BY TypeSplit
<1> QED
  BY Zenon, <1>1 DEF FlagsInv, NothingWithoutLoop, BooleanTypes

\* A one-shot read replaces what is shown; by lines in their order, or by nothing.
LEMMA LinesReplaced ==
    ASSUME TypeInv, TypeInv', FlagsInv, LinesInv, Ready,
           logs' \in Seq(Line), Increasing(logs'), Below(logs', emitted),
           clobbered' = (clobbered \/ streaming),
           UNCHANGED <<pending, buffered, paused, session, emitted>>
    PROVE  LinesInv'
<1>0. emitted \in Nat /\ session.pos \in Nat /\ emitted' = emitted
  BY LineNumbers
<1>1. clobbered' \/ (session.phase = "none" /\ pending = <<>> /\ buffered = <<>>)
  BY NothingHeldBack
<1>2. PICK l \in Seq(Line) : l = logs' /\ Increasing(l) /\ Below(l, emitted)
  OBVIOUS
<1>3. InOrder'
  <2> SUFFICES ASSUME ~clobbered' PROVE InOrder'
    BY DEF InOrder
  <2>1. pending = <<>> /\ buffered = <<>>
    BY <1>1
  <2>2. Before(l, <<>>) /\ Before(<<>>, <<>>) /\ Increasing(<<>>)
    BY EmptyInOrder
  <2> QED
    BY <1>2, <2>1, <2>2 DEF InOrder
<1>4. HeldWritten'
  BY <1>0, <1>2 DEF LinesInv, HeldWritten, Held3
<1>5. HeldRead' /\ NothingBefore' /\ PinsOnLines'
  BY <1>1 DEF HeldRead, NothingBefore, PinsOnLines
<1>6. BufferWhilePaused' /\ FlushedAtEnd' /\ PosWritten' /\ WaitsAgain'
  BY DEF LinesInv, BufferWhilePaused, FlushedAtEnd, PosWritten, WaitsAgain
<1> QED
  BY <1>3, <1>4, <1>5, <1>6 DEF LinesInv

LEMMA LinesAnswered ==
    ASSUME TypeInv, TypeInv', FlagsInv, LinesInv, FetchAnswered
    PROVE  LinesInv'
<1>0. fetches \in Seq(Reads) /\ emitted \in 0 .. MaxEmitted /\ emitted \in Nat
  BY TypeSplit, StreamAssumption DEF DataTypes, Reads
<1>1. PICK i \in 1 .. Len(fetches) :
        \E upto \in fetches[i].from .. emitted : logs' = Capped(TailOf(fetches[i].tail, upto))
  BY DEF FetchAnswered
<1>2. PICK upto \in fetches[i].from .. emitted : logs' = Capped(TailOf(fetches[i].tail, upto))
  BY <1>1
<1>3. fetches[i] \in Reads
  BY <1>0, ElementOfSeq
<1>4. fetches[i].tail \in Nat /\ fetches[i].from \in 0 .. MaxEmitted
  BY <1>3, StreamAssumption DEF Reads
<1>5. upto \in 0 .. MaxEmitted /\ upto \in Nat /\ upto <= emitted
  <2>1. PICK f \in 0 .. MaxEmitted : f = fetches[i].from
    BY <1>4
  <2>2. upto \in f .. emitted
    BY <2>1
  <2> QED
    BY <1>0, <2>2, StreamAssumption
<1>6. PICK a \in Seq(Line) : a = TailOf(fetches[i].tail, upto) /\ Increasing(a) /\ Below(a, upto)
  BY <1>4, <1>5, TailFacts DEF Below
<1>7. PICK n \in Nat : n = OverCap(a)
  BY CappedFacts
<1>8. PICK c \in Seq(Line) : c = Capped(a)
  BY CappedFacts
<1>9. Len(c) + n = Len(a) /\ \A j \in 1 .. Len(c) : c[j] = a[j + n]
  BY <1>7, <1>8, CappedFacts
<1>10. Increasing(c) /\ Below(c, upto)
  BY <1>5, <1>6, <1>9, EndInOrder
<1>11. Below(c, emitted)
  BY <1>0, <1>5, <1>10, BelowMore
<1>12. logs' = c
  BY <1>2, <1>6, <1>8
<1>13. /\ clobbered' = (clobbered \/ streaming) /\ Ready
       /\ UNCHANGED <<pending, buffered, paused, session, emitted>>
  BY DEF FetchAnswered, received
<1> QED
  BY <1>10, <1>11, <1>12, <1>13, LinesReplaced

LEMMA LinesFailed ==
    ASSUME TypeInv, TypeInv', FlagsInv, LinesInv, FetchFails
    PROVE  LinesInv'
<1>1. /\ clobbered' = (clobbered \/ streaming) /\ Ready /\ logs' = <<>>
      /\ UNCHANGED <<pending, buffered, paused, session, emitted>>
  BY DEF FetchFails, received
<1>2. emitted \in Nat
  BY LineNumbers
<1>3. PICK e \in Seq(Line) : e = <<>> /\ Increasing(e) /\ Below(e, emitted)
  BY <1>2, EmptyInOrder
<1>4. logs' = e
  BY <1>1, <1>3
<1> QED
  BY <1>1, <1>3, <1>4, LinesReplaced

LEMMA OneLine ==
    ASSUME NEW l \in Line
    PROVE  <<l>> \in Seq(Line) /\ Len(<<l>>) = 1 /\ <<l>>[1] = l
OBVIOUS

\* The line that follows what is held.
LEMMA OneMore ==
    ASSUME NEW s \in Seq(Line), NEW n \in Nat, n + 1 \in Line, Below(s, n)
    PROVE  /\ Append(s, n + 1) \in Seq(Line) /\ Below(Append(s, n + 1), n + 1)
           /\ Increasing(s) => Increasing(Append(s, n + 1))
           /\ \A u \in Seq(Line) : Below(u, n) /\ Before(u, s) => Before(u, Append(s, n + 1))
<1>1. PICK l \in Line : l = n + 1
  OBVIOUS
<1>2. PICK one \in Seq(Line) : one = <<l>> /\ Len(one) = 1 /\ one[1] = l
  BY OneLine
<1>3. PICK t \in Seq(Line) : t = Append(s, l) /\ t = s \o one
  BY <1>2, AppendProperties, AppendIsConcat
<1>4. Increasing(one) /\ Below(one, n + 1)
  BY <1>1, <1>2 DEF Increasing, Below
<1>5. \A u \in Seq(Line) : Below(u, n) => Before(u, one)
  <2> SUFFICES ASSUME NEW u \in Seq(Line), Below(u, n), NEW i \in 1 .. Len(u) PROVE u[i] < l
    BY <1>2 DEF Before
  <2>1. u[i] \in Line /\ u[i] <= n
    BY ElementOfSeq DEF Below
  <2>2. PICK k \in Nat : k = u[i]
    BY <2>1, StreamAssumption DEF Line
  <2> QED
    BY <1>1, <2>1, <2>2
<1>6. Below(s, n + 1)
  BY BelowMore
<1>7. n + 1 \in Nat
  OBVIOUS
<1>8. Increasing(s) => Increasing(t)
  BY <1>3, <1>4, <1>5, ConcatInOrder
<1>9. Below(t, n + 1)
  BY <1>3, <1>4, <1>6, <1>7, ConcatInOrder
<1>10. \A u \in Seq(Line) : Below(u, n) /\ Before(u, s) => Before(u, t)
  BY <1>3, <1>5, ConcatInOrder
<1> QED
  BY <1>1, <1>3, <1>8, <1>9, <1>10

LEMMA LinesReceived ==
    ASSUME TypeInv, TypeInv', LinesInv, Receive
    PROVE  LinesInv'
<1>0. /\ emitted \in Nat /\ session.pos \in Nat /\ session \in Sessions /\ emitted \in 0 .. MaxEmitted
      /\ logs \in Seq(Line) /\ pending \in Seq(Line) /\ buffered \in Seq(Line)
  BY LineNumbers, TypeSplit DEF DataTypes
<1>1. PICK p \in Nat : p = session.pos
  BY <1>0
<1>2. session.phase = "reading" /\ p < emitted
  BY <1>1 DEF Receive, Reading
<1>3. p + 1 \in Line /\ p + 1 <= emitted
  BY <1>0, <1>2, StreamAssumption DEF Line
<1>4. session'.phase = "reading" /\ session'.pos = p + 1
  <2>0. PICK q \in 0 .. MaxEmitted : q = p + 1
    BY <1>3, StreamAssumption DEF Line
  <2>1. PICK s \in Sessions : s = [session EXCEPT !.pos = q]
    BY <1>0, SessionFields
  <2>2. session' = [s EXCEPT !.attempt = 0]
    BY <1>1, <2>0, <2>1 DEF Receive, Active
  <2>3. s.pos = p + 1 /\ s.phase = "reading"
    BY <1>0, <1>2, <2>0, <2>1 DEF Sessions
  <2> QED
    BY <2>2, <2>3 DEF Sessions
<1>5. UNCHANGED <<logs, pins, paused, clobbered, emitted>>
  BY DEF Receive, shown
<1>6. clobbered \/ (Below(logs, p) /\ Below(pending, p) /\ Below(buffered, p))
  BY <1>1, <1>2 DEF LinesInv, HeldRead, Held3
<1>7. Below(logs, emitted) /\ Below(pending, emitted) /\ Below(buffered, emitted)
  BY DEF LinesInv, HeldWritten, Held3
<1>8. clobbered \/ (Below(logs, p + 1) /\ Below(pending, p + 1) /\ Below(buffered, p + 1))
  BY <1>0, <1>6, BelowMore
<1>9. clobbered \/ (/\ Increasing(logs) /\ Increasing(pending) /\ Increasing(buffered)
                    /\ Before(logs, pending) /\ Before(logs, buffered) /\ Before(pending, buffered))
  BY DEF LinesInv, InOrder
<1>10. ASSUME NEW s \in Seq(Line), Below(s, emitted) PROVE Below(Append(s, p + 1), emitted)
  <2>1. PICK l \in Line : l = p + 1
    BY <1>3
  <2>2. PICK one \in Seq(Line) : one = <<l>> /\ Len(one) = 1 /\ one[1] = l
    BY OneLine
  <2>3. Below(one, emitted)
    BY <1>3, <2>1, <2>2 DEF Below
  <2>4. Append(s, l) = s \o one
    BY <2>2, AppendIsConcat
  <2> QED
    BY <1>0, <1>10, <2>1, <2>3, <2>4, ConcatInOrder
<1>11. CASE paused
  <2>1. buffered' = Append(buffered, p + 1) /\ pending' = pending
    BY <1>1, <1>11 DEF Receive
  <2>2. InOrder'
    <3>1. clobbered \/ (/\ Increasing(Append(buffered, p + 1))
                        /\ Before(logs, Append(buffered, p + 1))
                        /\ Before(pending, Append(buffered, p + 1)))
      BY <1>0, <1>3, <1>6, <1>9, OneMore
    <3> QED
      BY <1>5, <1>9, <2>1, <3>1 DEF InOrder
  <2>3. HeldWritten'
    BY <1>0, <1>5, <1>7, <1>10, <2>1 DEF HeldWritten, Held3
  <2>4. HeldRead'
    <3>1. clobbered \/ Below(Append(buffered, p + 1), p + 1)
      BY <1>0, <1>3, <1>6, OneMore
    <3> QED
      BY <1>4, <1>5, <1>8, <2>1, <3>1 DEF HeldRead, Held3
  <2>5. BufferWhilePaused'
    BY <1>5, <1>11 DEF BufferWhilePaused
  <2> QED
    BY <1>2, <1>3, <1>4, <1>5, <2>2, <2>3, <2>4, <2>5
       DEF LinesInv, FlushedAtEnd, PosWritten, NothingBefore, WaitsAgain, PinsOnLines
<1>12. CASE ~paused
  <2>1. pending' = Append(pending, p + 1) /\ buffered' = buffered /\ buffered = <<>>
    BY <1>1, <1>12 DEF Receive, LinesInv, BufferWhilePaused
  <2>2. Append(pending, p + 1) \in Seq(Line)
    BY <1>0, <1>3, AppendProperties
  <2>3. InOrder'
    <3>1. clobbered \/ (/\ Increasing(Append(pending, p + 1))
                        /\ Before(logs, Append(pending, p + 1)))
      BY <1>0, <1>3, <1>6, <1>9, OneMore
    <3>2. Before(Append(pending, p + 1), <<>>)
      BY <2>2, EmptyInOrder
    <3> QED
      BY <1>5, <1>9, <2>1, <3>1, <3>2 DEF InOrder
  <2>4. HeldWritten'
    BY <1>0, <1>5, <1>7, <1>10, <2>1 DEF HeldWritten, Held3
  <2>5. HeldRead'
    <3>1. clobbered \/ Below(Append(pending, p + 1), p + 1)
      BY <1>0, <1>3, <1>6, OneMore
    <3> QED
      BY <1>4, <1>5, <1>8, <2>1, <3>1 DEF HeldRead, Held3
  <2>6. BufferWhilePaused'
    BY <2>1 DEF BufferWhilePaused
  <2> QED
    BY <1>2, <1>3, <1>4, <1>5, <2>3, <2>4, <2>5, <2>6
       DEF LinesInv, FlushedAtEnd, PosWritten, NothingBefore, WaitsAgain, PinsOnLines
<1> QED
  BY <1>11, <1>12

LEMMA LinesPinned ==
    ASSUME TypeInv, TypeInv', LinesInv, TogglePin
    PROVE  LinesInv'
<1>1. PICK i \in 0 .. Len(logs) - 1 : pins' \subseteq pins \cup {i}
  BY DEF TogglePin
<1>2. UNCHANGED <<logs, pending, buffered, paused, session, emitted, clobbered>>
  BY DEF TogglePin, received, flags
<1>3. i < Len(logs)
  BY <1>1, LineNumbers
<1>4. PinsOnLines'
  BY <1>1, <1>2, <1>3 DEF LinesInv, PinsOnLines
<1>5. InOrder' /\ HeldWritten' /\ HeldRead'
  BY <1>2 DEF LinesInv, InOrder, HeldWritten, HeldRead, Held3
<1>6. BufferWhilePaused' /\ FlushedAtEnd' /\ PosWritten' /\ NothingBefore' /\ WaitsAgain'
  BY <1>2 DEF LinesInv, BufferWhilePaused, FlushedAtEnd, PosWritten, NothingBefore, WaitsAgain
<1> QED
  BY <1>4, <1>5, <1>6 DEF LinesInv

\* The flush timer.
LEMMA LinesTicked ==
    ASSUME TypeInv, TypeInv', FlagsInv, LinesInv, FlushTick
    PROVE  LinesInv'
<1>1. session \in Sessions /\ pending \in Seq(Line)
  BY TypeSplit DEF DataTypes
<1>2. /\ session'.phase = session.phase /\ session'.pos = session.pos
      /\ session'.attempt = session.attempt
  BY <1>1, AbortedSession DEF FlushTick
<1>3. UNCHANGED <<emitted, clobbered, paused>>
  BY DEF FlushTick, flags
<1>4. CASE paused
  <2>1. SyncBuffered /\ UNCHANGED <<logs, pending>>
    BY <1>4 DEF FlushTick
  <2> QED
    BY <1>2, <1>3, <1>4, <2>1, LinesTrimmed
<1>5. CASE ~paused /\ pending = <<>>
  <2>1. UNCHANGED <<logs, pins, pending, buffered>>
    BY <1>5 DEF FlushTick, shown
  <2> QED
    BY <1>2, <1>3, <2>1, LinesSame
<1>6. CASE ~paused /\ pending # <<>>
  <2>1. Flush(pending) /\ buffered' = buffered
    BY <1>6 DEF FlushTick
  <2>2. session.phase # "none"
    BY LoopRuns DEF FlushTick
  <2>3. buffered' # <<>> => paused'
    BY <1>3, <2>1 DEF LinesInv, BufferWhilePaused
  <2> QED
    BY <1>1, <1>2, <1>3, <2>1, <2>2, <2>3, LinesFlushed
<1> QED
  BY <1>4, <1>5, <1>6

LEMMA LinesPaused ==
    ASSUME TypeInv, TypeInv', FlagsInv, LinesInv, Pause \/ Resume
    PROVE  LinesInv'
<1>1. pending \in Seq(Line) /\ buffered \in Seq(Line)
  BY TypeSplit DEF DataTypes
<1>2. UNCHANGED <<emitted, clobbered, session>>
  BY DEF Pause, Resume
<1>3. session.phase # "none"
  BY LoopRuns DEF Pause, Resume, offersPause
<1>4. CASE Pause
  <2>1. Flush(pending) /\ buffered' = buffered /\ paused'
    BY <1>4 DEF Pause
  <2> QED
    BY <1>1, <1>2, <1>3, <2>1, LinesFlushed
<1>5. CASE Resume /\ buffered = <<>>
  <2>1. UNCHANGED <<logs, pins, pending>> /\ buffered' = <<>>
    BY <1>5 DEF Resume, shown
  <2> QED
    BY <1>2, <2>1, LinesSame
<1>6. CASE Resume /\ buffered # <<>>
  <2>1. Flush(pending \o buffered) /\ buffered' = <<>>
    BY <1>6 DEF Resume
  <2>2. PICK a \in Seq(Line) : a = pending \o buffered
    BY <1>1, ConcatProperties
  <2> QED
    BY <1>2, <1>3, <2>1, <2>2, LinesFlushed
<1> QED
  BY <1>4, <1>5, <1>6

LEMMA LinesOver ==
    ASSUME TypeInv, TypeInv', LinesInv, ConnectionOver, session.phase # "none"
    PROVE  LinesInv'
<1>1. UNCHANGED <<emitted, clobbered>>
  BY DEF ConnectionOver
<1> QED
  BY <1>1, LinesFinished, LinesRetried DEF ConnectionOver

\* A connection that is opened reads from where nothing is held.
LEMMA LinesConnected ==
    ASSUME TypeInv, TypeInv', LinesInv, Connect
    PROVE  LinesInv'
<1>0. /\ emitted \in Nat /\ session.attempt \in Nat /\ session \in Sessions
      /\ emitted \in 0 .. MaxEmitted /\ tail \in Nat /\ MaxEmitted \in Nat
  BY LineNumbers, TypeSplit, StreamAssumption DEF DataTypes
<1>1. PICK n \in Nat : n = TailAsked /\ n <= emitted /\ (session.attempt # 0 => n = 0)
  BY <1>0 DEF TailAsked, Smaller
<1>2. PICK p \in 0 .. MaxEmitted : p = emitted - n /\ p <= emitted
  BY <1>0, <1>1
<1>3. session.phase = "connecting"
  BY DEF Connect
<1>4. session'.phase = "reading" /\ session'.pos = p
  <2>1. session' = [session EXCEPT !.phase = "reading", !.live = TRUE, !.due = FALSE, !.pos = p]
    BY <1>1, <1>2 DEF Connect
  <2> QED
    BY <1>0, <2>1 DEF Sessions
<1>5. UNCHANGED <<logs, pins, pending, buffered, paused, emitted, clobbered>>
  BY DEF Connect, shown, received, flags
<1>6. session.attempt # 0 => session'.pos = emitted
  BY <1>0, <1>1, <1>2, <1>4
<1>7. buffered' # <<>> => paused'
  BY <1>5 DEF LinesInv, BufferWhilePaused
<1>8. emitted <= emitted' /\ session'.pos <= emitted'
  BY <1>0, <1>2, <1>4, <1>5
<1> QED
  BY <1>3, <1>4, <1>5, <1>6, <1>7, <1>8, LinesAside

LEMMA LinesWaited ==
    ASSUME TypeInv, TypeInv', LinesInv, WaitEnds
    PROVE  LinesInv'
<1>1. UNCHANGED <<emitted, clobbered>> /\ session.phase = "waiting" /\ session \in Sessions
  BY TypeSplit DEF WaitEnds, DataTypes
<1>2. CASE Finish
  BY <1>1, <1>2, LinesFinished
<1>3. CASE ~Finish
  <2>1. /\ session' = [session EXCEPT !.phase = "connecting", !.waited = 0]
        /\ UNCHANGED <<logs, pins, pending, buffered, paused>>
    BY <1>3 DEF WaitEnds, shown, received, flags
  <2>2. /\ session'.phase = "connecting" /\ session'.attempt = session.attempt
        /\ session'.pos = session.pos
    BY <1>1, <2>1 DEF Sessions
  <2>3. session.attempt # 0
    BY <1>1 DEF LinesInv, WaitsAgain
  <2>4. buffered' # <<>> => paused'
    BY <2>1 DEF LinesInv, BufferWhilePaused
  <2>5. emitted <= emitted' /\ session'.pos <= emitted'
    BY <1>1, <2>2, LineNumbers DEF LinesInv, PosWritten
  <2> QED
    BY <1>1, <2>1, <2>2, <2>3, <2>4, <2>5, LinesAside
<1> QED
  BY <1>2, <1>3

LEMMA LinesInit == Init => LinesInv
<1> SUFFICES ASSUME Init PROVE LinesInv
  OBVIOUS
<1>1. /\ logs = <<>> /\ pending = <<>> /\ buffered = <<>> /\ pins = {} /\ emitted \in {0, 1}
      /\ session = NoSession
  BY DEF Init
<1>2. session.phase = "none" /\ session.pos = 0
  BY <1>1 DEF NoSession
<1>3. InOrder /\ HeldWritten
  BY <1>1, EmptyInOrder DEF InOrder, HeldWritten, Held3
<1>4. HeldRead /\ NothingBefore /\ WaitsAgain /\ PinsOnLines
  BY <1>2 DEF HeldRead, NothingBefore, WaitsAgain, PinsOnLines
<1>5. BufferWhilePaused /\ FlushedAtEnd /\ PosWritten
  BY <1>1, <1>2 DEF BufferWhilePaused, FlushedAtEnd, PosWritten
<1> QED
  BY <1>3, <1>4, <1>5 DEF LinesInv

LEMMA LinesStep ==
    ASSUME TypeInv, FlagsInv, LinesInv, Next
    PROVE  LinesInv'
<1>0. TypeInv' /\ session \in Sessions
  BY TypeStep, TypeSplit DEF DataTypes
<1>1. CASE Emit
  <2>1. /\ emitted' = emitted + 1
        /\ UNCHANGED <<logs, pending, buffered, pins, paused, session, clobbered>>
    BY <1>1 DEF Emit, shown, received, flags
  <2> QED
    BY <1>0, <2>1, LinesSame
<1>2. CASE ViewerEffects
  <2>1. UNCHANGED <<emitted, clobbered>>
    BY <1>2 DEF ViewerEffects
  <2>2. CASE StopStreaming /\ UNCHANGED <<logs, pending, pins>>
    BY <1>0, <2>1, <2>2, LinesStopped
  <2>3. CASE FetchIssued /\ session' = session
    BY <1>0, <2>1, <2>3, LinesAsked
  <2>4. CASE UNCHANGED <<shown, received, flags, session>>
    <3>1. UNCHANGED <<logs, pending, buffered, pins, paused, session>>
      BY <2>4 DEF shown, received, flags
    <3> QED
      BY <1>0, <2>1, <3>1, LinesSame
  <2> QED
    BY <1>2, <2>2, <2>3, <2>4 DEF ViewerEffects, shown
<1>3. CASE Refresh
  BY <1>0, <1>3, LinesAsked DEF Refresh
<1>4. CASE FetchAnswered
  BY <1>0, <1>4, LinesAnswered
<1>5. CASE FetchFails
  BY <1>0, <1>5, LinesFailed
<1>6. CASE RefreshAfterRecreate
  <2>1. UNCHANGED <<emitted, clobbered>>
    BY <1>6 DEF RefreshAfterRecreate
  <2>2. CASE StopStreaming /\ UNCHANGED <<logs, pending, pins>>
    BY <1>0, <2>1, <2>2, LinesStopped
  <2>3. CASE FetchIssued /\ session' = session
    BY <1>0, <2>1, <2>3, LinesAsked
  <2> QED
    BY <1>6, <2>2, <2>3 DEF RefreshAfterRecreate, shown
<1>7. CASE RestartStreaming
  BY <1>0, <1>7, LinesStarted DEF RestartStreaming
<1>8. CASE Start
  BY <1>0, <1>8, LinesStarted DEF Start
<1>9. CASE Stop
  BY <1>0, <1>9, LinesStopped DEF Stop, shown
<1>10. CASE Pause
  BY <1>0, <1>10, LinesPaused
<1>11. CASE Resume
  BY <1>0, <1>11, LinesPaused
<1>12. CASE ChangeTail
  <2>1. UNCHANGED <<emitted, logs, pending, buffered, pins, paused, session, clobbered>>
    BY <1>12 DEF ChangeTail, shown, received, flags
  <2> QED
    BY <1>0, <2>1, LinesSame
<1>13. CASE SwitchSource
  <2>1. UNCHANGED <<emitted, logs, pending, buffered, paused, session, clobbered>> /\ pins' = {}
    BY <1>13 DEF SwitchSource, ResetPins, received, flags
  <2> QED
    BY <1>0, <2>1, LinesSame
<1>14. CASE TogglePin
  BY <1>0, <1>14, LinesPinned
<1>15. CASE Unmount
  BY <1>0, <1>15, LinesStopped DEF Unmount, shown
<1>16. CASE Connect
  BY <1>0, <1>16, LinesConnected
<1>17. CASE Receive
  BY <1>0, <1>17, LinesReceived
<1>18. CASE ReceiveHeartbeat
  <2>1. /\ UNCHANGED <<emitted, logs, pending, buffered, pins, paused, clobbered>>
        /\ session.phase = "reading"
    BY <1>18 DEF ReceiveHeartbeat, Reading, shown, received
  <2>2. session' = [[session EXCEPT !.due = FALSE] EXCEPT !.attempt = 0]
    BY <1>18 DEF ReceiveHeartbeat, Active
  <2>3. session'.phase = session.phase /\ session'.pos = session.pos /\ session'.attempt = 0
    BY <1>0, <2>2 DEF Sessions
  <2> QED
    BY <1>0, <2>1, <2>3, LinesSame
<1>19. CASE GoesSilent
  <2>1. UNCHANGED <<emitted, logs, pending, buffered, pins, paused, clobbered>>
    BY <1>19 DEF GoesSilent, shown, received, flags
  <2>2. /\ session'.phase = session.phase /\ session'.pos = session.pos
        /\ session'.attempt = session.attempt
    BY <1>0, <1>19 DEF GoesSilent, Sessions
  <2> QED
    BY <1>0, <2>1, <2>2, LinesSame
<1>20. CASE ConnectionEnds
  BY <1>0, <1>20, LinesOver DEF ConnectionEnds
<1>21. CASE Aborts
  BY <1>0, <1>21, LinesOver DEF Aborts
<1>22. CASE WaitEnds
  BY <1>0, <1>22, LinesWaited
<1>23. CASE Tick
  <2>1. UNCHANGED <<emitted, logs, pending, buffered, pins, paused, clobbered>>
    BY <1>23 DEF Tick, shown, received, flags
  <2>2. /\ session'.phase = session.phase /\ session'.pos = session.pos
        /\ session'.attempt = session.attempt
    BY <1>0, <1>23 DEF Tick, Sessions
  <2> QED
    BY <1>0, <2>1, <2>2, LinesSame
<1>24. CASE FlushTick
  BY <1>0, <1>24, LinesTicked
<1> QED
  BY <1>1, <1>2, <1>3, <1>4, <1>5, <1>6, <1>7, <1>8, <1>9, <1>10, <1>11, <1>12, <1>13, <1>14,
     <1>15, <1>16, <1>17, <1>18, <1>19, <1>20, <1>21, <1>22, <1>23, <1>24 DEF Next

-----------------------------------------------------------------------------
(* The ring and the pins *)

\* The two halves of RingAccounted, for one step.
PinsKept ==
    (logs' # logs \/ droppedCount' > droppedCount) /\ logs' # <<>> /\ fetches' = fetches /\ ~clobbered
    => PinnedLines' = PinnedLines \cap {logs'[i] : i \in 1 .. Len(logs')}
LineCounted ==
    fetches' = fetches /\ streaming' /\ session.phase = "reading" /\ session'.phase = "reading"
    => Held' - Held = session'.pos - session.pos

\* A flush carries each pin along with its line.
LEMMA FlushKeepsPins ==
    ASSUME TypeInv, NEW arriving \in Seq(Line), Flush(arriving), Increasing(logs), Increasing(arriving),
           Before(logs, arriving), \A p \in pins : p < Len(logs)
    PROVE  PinnedLines' = PinnedLines \cap {logs'[i] : i \in 1 .. Len(logs')}
<1>1. TypeOK /\ logs \in Seq(Line) /\ pins \subseteq Nat /\ Line \subseteq Nat
  BY TypeSplit, StreamAssumption DEF TypeInv, DataTypes, Rows, Line
<1>2. PICK x \in Seq(Line), d \in Nat, n \in Nat :
           /\ x = logs \o arriving /\ Len(x) = Len(logs) + Len(arriving)
           /\ n = OverCap(x) /\ d <= Len(logs) /\ d <= n /\ (d = n \/ d = Len(logs))
           /\ logs' = Capped(x) /\ logs' \in Seq(Line)
           /\ Len(logs') <= MaxLogLines /\ Len(logs') + n = Len(x)
           /\ \A i \in 1 .. Len(logs') : logs'[i] = x[i + n]
           /\ droppedCount' = droppedCount + d /\ bufferedDropped' = bufferedDropped + (n - d)
           /\ pins' = ShiftPins(pins, d) /\ pins' \subseteq Rows
           /\ pending' = <<>>
  BY <1>1, FlushFacts
<1>3. PICK a \in Nat, c \in Nat, e \in Nat : a = Len(logs) /\ c = Len(arriving) /\ e = Len(logs')
  BY <1>1, <1>2, LenProperties
<1>4. e + n = a + c /\ Len(x) = a + c
  BY <1>2, <1>3
<1>5. /\ \A i \in 1 .. a : x[i] = logs[i]
      /\ \A i \in 1 .. e : logs'[i] = x[i + n] /\ i + n \in 1 .. a + c
  <2>1. \A i \in 1 .. a + c : x[i] = IF i <= a THEN logs[i] ELSE arriving[i - a]
    BY <1>1, <1>2, <1>3, ConcatProperties
  <2>2. \A i \in 1 .. a : i \in 1 .. a + c /\ i <= a
    OBVIOUS
  <2>3. \A i \in 1 .. e : i + n \in 1 .. a + c
    BY <1>4
  <2> QED
    BY <1>2, <1>3, <2>1, <2>2, <2>3
<1>6. \A i, j \in 1 .. a + c : x[i] = x[j] => i = j
  <2>1. Increasing(x)
    BY <1>1, <1>2, ConcatInOrder
  <2>2. \A i, j \in 1 .. a + c : i < j => x[i] < x[j]
    BY <1>4, <2>1 DEF Increasing
  <2>3. \A i \in 1 .. a + c : x[i] \in Nat
    BY <1>1, <1>4, ElementOfSeq
  <2> SUFFICES ASSUME NEW i \in 1 .. a + c, NEW j \in 1 .. a + c, x[i] = x[j], i # j PROVE FALSE
    OBVIOUS
  <2>4. i < j \/ j < i
    OBVIOUS
  <2> QED
    BY <2>2, <2>3, <2>4
<1>7. pins' = {j - d : j \in {k \in pins : k >= d}}
  BY <1>2 DEF ShiftPins
<1>8. ASSUME NEW i \in pins', i < e
      PROVE  i + 1 \in 1 .. e /\ \E j \in pins : j < a /\ logs'[i + 1] = logs[j + 1]
  <2>1. PICK j \in pins : j >= d /\ i = j - d
    BY <1>7
  <2>2. j \in Nat /\ j < a
    BY <1>1, <1>3
  <2>3. d = n
    BY <1>2, <1>3, <2>1, <2>2
  <2>4. i \in Nat /\ i + 1 \in 1 .. e /\ i + 1 + n = j + 1 /\ j + 1 \in 1 .. a
    BY <1>8, <2>1, <2>2, <2>3
  <2>5. logs'[i + 1] = x[j + 1] /\ x[j + 1] = logs[j + 1]
    BY <1>5, <2>4
  <2> QED
    BY <2>2, <2>4, <2>5
<1>9. ASSUME NEW j \in pins, j < a, NEW i \in 1 .. e, logs[j + 1] = logs'[i]
      PROVE  i - 1 \in pins' /\ i - 1 < e /\ (i - 1) + 1 = i
  <2>1. j \in Nat /\ j + 1 \in 1 .. a /\ j + 1 \in 1 .. a + c
    BY <1>1, <1>9
  <2>2. x[j + 1] = x[i + n] /\ i + n \in 1 .. a + c
    BY <1>5, <1>9, <2>1
  <2>3. j + 1 = i + n
    BY <1>6, <2>1, <2>2
  <2>4. j >= d /\ d = n /\ j - d = i - 1
    BY SMTT(30), <1>2, <1>3, <1>9, <2>1, <2>3
  <2> QED
    BY <1>7, <2>4
<1>10. PinnedLines' = {logs'[i + 1] : i \in {k \in pins' : k < e}}
  BY <1>3 DEF PinnedLines
<1>11. PinnedLines = {logs[j + 1] : j \in {k \in pins : k < a}}
  BY <1>3 DEF PinnedLines
<1>12. ASSUME NEW v \in PinnedLines' PROVE v \in PinnedLines /\ \E i \in 1 .. e : v = logs'[i]
  <2>1. PICK i \in pins' : i < e /\ v = logs'[i + 1]
    BY <1>10
  <2> QED
    BY <1>8, <1>11, <2>1
<1>13. ASSUME NEW v \in PinnedLines, NEW i \in 1 .. e, v = logs'[i] PROVE v \in PinnedLines'
  <2>1. PICK j \in pins : j < a /\ v = logs[j + 1]
    BY <1>11
  <2>2. i - 1 \in pins' /\ i - 1 < e /\ (i - 1) + 1 = i
    BY <1>9, <1>13, <2>1
  <2> QED
    BY <1>10, <1>13, <2>2
<1> QED
  BY <1>3, <1>12, <1>13

\* A flush counts what does not fit.
LEMMA FlushCounts ==
    ASSUME TypeInv, NEW arriving \in Seq(Line), Flush(arriving)
    PROVE  /\ Len(logs') \in Nat /\ droppedCount' \in Nat /\ bufferedDropped' \in Nat
           /\ Len(logs') + droppedCount' + bufferedDropped'
                = Len(logs) + Len(arriving) + droppedCount + bufferedDropped
<1>1. TypeOK /\ logs \in Seq(Line) /\ droppedCount \in Nat /\ bufferedDropped \in Nat
  BY TypeSplit DEF TypeInv, DataTypes
<1>2. PICK x \in Seq(Line), d \in Nat, n \in Nat :
           /\ x = logs \o arriving /\ Len(x) = Len(logs) + Len(arriving)
           /\ n = OverCap(x) /\ d <= Len(logs) /\ d <= n /\ (d = n \/ d = Len(logs))
           /\ logs' = Capped(x) /\ logs' \in Seq(Line)
           /\ Len(logs') <= MaxLogLines /\ Len(logs') + n = Len(x)
           /\ \A i \in 1 .. Len(logs') : logs'[i] = x[i + n]
           /\ droppedCount' = droppedCount + d /\ bufferedDropped' = bufferedDropped + (n - d)
           /\ pins' = ShiftPins(pins, d) /\ pins' \subseteq Rows
           /\ pending' = <<>>
  BY <1>1, FlushFacts
<1>3. PICK a \in Nat, c \in Nat, e \in Nat : a = Len(logs) /\ c = Len(arriving) /\ e = Len(logs')
  BY <1>1, <1>2, LenProperties
<1>4. /\ a + c = e + n /\ d <= n
      /\ droppedCount' = droppedCount + d /\ bufferedDropped' = bufferedDropped + (n - d)
  BY <1>2, <1>3
<1>5. PICK f \in Nat : f = n - d
  BY <1>4
<1>6. e + (droppedCount + d) + (bufferedDropped + f) = a + c + droppedCount + bufferedDropped
  BY <1>1, <1>4, <1>5
<1>7. droppedCount' \in Nat /\ bufferedDropped' \in Nat
  BY <1>1, <1>4, <1>5
<1> QED
  BY <1>3, <1>4, <1>5, <1>6, <1>7

\* A step that leaves the display alone.
LEMMA RingAside ==
    ASSUME TypeInv, UNCHANGED <<logs, droppedCount, bufferedDropped, pending, buffered>>,
           session'.pos = session.pos \/ session.phase # "reading" \/ session'.phase # "reading"
    PROVE  PinsKept /\ LineCounted
<1>1. droppedCount \in Nat /\ bufferedDropped \in Nat /\ session.pos \in Nat
  BY LineNumbers, TypeSplit DEF DataTypes
<1>2. /\ Len(logs) \in Nat /\ Len(pending) \in Nat /\ Len(buffered) \in Nat
  BY LineNumbers, LenProperties
<1>3. Held \in Nat /\ Held' = Held
  BY <1>1, <1>2 DEF Held
<1>4. session'.pos = session.pos => Held' - Held = session'.pos - session.pos
  BY <1>1, <1>3
<1> QED
  BY <1>1, <1>4 DEF PinsKept, LineCounted

\* A step that asks for a read, or is the end of one.
LEMMA ReadAside ==
    ASSUME TypeInv, FetchIssued \/ FetchAnswered \/ FetchFails
    PROVE  PinsKept /\ LineCounted
<1>0. fetches \in Seq(Reads) /\ Len(fetches) \in Nat
  BY TypeSplit, LenProperties DEF DataTypes, Reads
<1>1. CASE FetchIssued
  <2>1. tail \in Tails /\ emitted \in 0 .. MaxEmitted
    BY TypeSplit DEF DataTypes
  <2>2. PICK r \in Reads : r = [tail |-> tail, from |-> emitted]
    BY <2>1 DEF Reads
  <2>3. fetches' = Append(fetches, r)
    BY <1>1, <2>2 DEF FetchIssued
  <2>4. Len(fetches') = Len(fetches) + 1
    BY <1>0, <2>3, AppendProperties
  <2> QED
    BY <1>0, <2>4 DEF PinsKept, LineCounted
<1>2. CASE FetchAnswered \/ FetchFails
  <2>1. PICK i \in 1 .. Len(fetches) : fetches' = Without(fetches, i)
    BY <1>2 DEF FetchAnswered, FetchFails
  <2>2. Len(fetches') = Len(fetches) - 1
    BY <1>0, <2>1, WithoutTyped
  <2> QED
    BY <1>0, <2>2 DEF PinsKept, LineCounted
<1> QED
  BY <1>1, <1>2

\* A stream that stops or starts.
LEMMA StopAside ==
    ASSUME TypeInv, StopStreaming, UNCHANGED <<logs, droppedCount>>
    PROVE  PinsKept /\ LineCounted
<1>1. droppedCount \in Nat /\ streaming' = FALSE
  BY TypeSplit DEF DataTypes, StopStreaming
<1> QED
  BY <1>1 DEF PinsKept, LineCounted

LEMMA StartAside ==
    ASSUME StartStreaming
    PROVE  PinsKept /\ LineCounted
<1>1. logs' = <<>> /\ session'.phase = "connecting"
  BY DEF StartStreaming, NoSession
<1> QED
  BY <1>1 DEF PinsKept, LineCounted

\* A flush while the loop runs, or as its last act.
LEMMA RingFlushed ==
    ASSUME TypeInv, LinesInv, NEW arriving \in Seq(Line), Flush(arriving), session.phase # "none",
           \/ arriving = pending /\ buffered' = buffered
           \/ arriving = pending \o buffered /\ buffered' = <<>>,
           session'.pos = session.pos \/ session'.phase = "none"
    PROVE  PinsKept /\ LineCounted
<1>0. /\ logs \in Seq(Line) /\ pending \in Seq(Line) /\ buffered \in Seq(Line)
      /\ droppedCount \in Nat /\ bufferedDropped \in Nat /\ session.pos \in Nat
  BY LineNumbers, TypeSplit DEF DataTypes
<1>1. PinsKept
  <2> SUFFICES ASSUME ~clobbered
               PROVE  PinnedLines' = PinnedLines \cap {logs'[i] : i \in 1 .. Len(logs')}
    BY DEF PinsKept
  <2>1. /\ Increasing(logs) /\ Increasing(pending) /\ Increasing(buffered)
        /\ Before(logs, pending) /\ Before(logs, buffered) /\ Before(pending, buffered)
        /\ \A p \in pins : p < Len(logs)
    BY DEF LinesInv, InOrder, PinsOnLines
  <2>2. Increasing(arriving) /\ Before(logs, arriving)
    <3>1. /\ Increasing(pending \o buffered)
          /\ Before(logs, pending \o buffered)
      BY <1>0, <2>1, ConcatInOrder
    <3> QED
      BY <2>1, <3>1
  <2> QED
    BY <2>1, <2>2, FlushKeepsPins
<1>2. LineCounted
  <2> SUFFICES ASSUME session'.pos = session.pos PROVE Held' - Held = session'.pos - session.pos
    BY DEF LineCounted
  <2>1. PICK p \in Nat, q \in Nat : p = Len(pending) /\ q = Len(buffered)
    BY <1>0, LenProperties
  <2>2. pending' = <<>> /\ Len(pending') = 0
    BY EmptySeq DEF Flush
  <2>3. Len(buffered') \in Nat /\ Len(arriving) + Len(buffered') = p + q
    <3>1. Len(pending \o buffered) = p + q /\ Len(<<>>) = 0
      BY <1>0, <2>1, ConcatProperties, EmptySeq
    <3> QED
      BY <2>1, <3>1
  <2>4. PICK l \in Nat, b \in Nat, c \in Nat : l = Len(logs) /\ b = Len(buffered') /\ c = Len(arriving)
    BY <1>0, <2>3, LenProperties
  <2>5. PICK l1 \in Nat, d1 \in Nat, e1 \in Nat :
            /\ l1 = Len(logs') /\ d1 = droppedCount' /\ e1 = bufferedDropped'
            /\ l1 + d1 + e1 = l + c + droppedCount + bufferedDropped
    BY <2>4, FlushCounts
  <2>6. Held = l + p + q + droppedCount + bufferedDropped
    BY <2>1, <2>4 DEF Held
  <2>7. Held' = l1 + 0 + b + d1 + e1
    BY <2>2, <2>4, <2>5 DEF Held
  <2>8. Held \in Nat /\ Held' = Held
    <3>1. c + b = p + q
      BY <2>3, <2>4
    <3>2. PICK f \in Nat, g \in Nat : f = droppedCount /\ g = bufferedDropped
      BY <1>0
    <3>3. l1 + d1 + e1 = l + c + f + g
      BY <2>5, <3>2
    <3>4. l1 + 0 + b + d1 + e1 = l + p + q + f + g
      BY <3>1, <3>3
    <3>5. l1 + 0 + b + d1 + e1 = l + p + q + droppedCount + bufferedDropped
      BY <3>2, <3>4
    <3> QED
      BY <1>0, <2>6, <2>7, <3>5
  <2> QED
    BY <1>0, <2>8
<1> QED
  BY <1>1, <1>2

\* The backlog is cut.
LEMMA RingTrimmed ==
    ASSUME TypeInv, SyncBuffered, UNCHANGED <<logs, pending>>, session'.pos = session.pos
    PROVE  PinsKept /\ LineCounted
<1>0. /\ logs \in Seq(Line) /\ pending \in Seq(Line) /\ buffered \in Seq(Line)
      /\ droppedCount \in Nat /\ bufferedDropped \in Nat /\ session.pos \in Nat
  BY LineNumbers, TypeSplit DEF DataTypes
<1>1. PICK n \in Nat, b \in Seq(Line) :
        n = OverCap(buffered) /\ b = Capped(buffered) /\ Len(b) + n = Len(buffered)
  BY <1>0, CappedFacts
<1>2. buffered' = b /\ bufferedDropped' = bufferedDropped + n /\ droppedCount' = droppedCount
  BY <1>1 DEF SyncBuffered
<1>3. PICK l \in Nat, p \in Nat, q \in Nat, c \in Nat :
        l = Len(logs) /\ p = Len(pending) /\ q = Len(buffered) /\ c = Len(b)
  BY <1>0, LenProperties
<1>4. Held = l + p + q + droppedCount + bufferedDropped
  BY <1>3 DEF Held
<1>5. Held' = l + p + c + droppedCount + (bufferedDropped + n)
  BY <1>2, <1>3 DEF Held
<1>6. Held \in Nat /\ Held' = Held
  BY SMTT(30), <1>0, <1>1, <1>3, <1>4, <1>5
<1>7. Held' - Held = session'.pos - session.pos
  BY <1>0, <1>6
<1> QED
  BY <1>0, <1>2, <1>7 DEF PinsKept, LineCounted

\* The line that is received is held.
LEMMA RingReceived ==
    ASSUME TypeInv, Receive
    PROVE  PinsKept /\ LineCounted
<1>0. /\ logs \in Seq(Line) /\ pending \in Seq(Line) /\ buffered \in Seq(Line)
      /\ droppedCount \in Nat /\ bufferedDropped \in Nat /\ session.pos \in Nat
      /\ session \in Sessions /\ emitted \in 0 .. MaxEmitted
  BY LineNumbers, TypeSplit DEF DataTypes
<1>1. PICK z \in Nat : z = session.pos /\ z + 1 \in Line
  <2>1. session.pos < emitted
    BY DEF Receive
  <2>2. PICK z \in Nat, e \in Nat : z = session.pos /\ e = emitted /\ z < e /\ e <= MaxEmitted
    BY <1>0, <2>1, LineNumbers, StreamAssumption
  <2>3. z + 1 \in 1 .. MaxEmitted
    BY <2>2, StreamAssumption
  <2> QED
    BY <2>2, <2>3 DEF Line
<1>2. session'.pos = z + 1
  <2>1. session' = [[session EXCEPT !.pos = z + 1] EXCEPT !.attempt = 0]
    BY <1>1 DEF Receive, Active
  <2> QED
    BY <1>0, <2>1 DEF Sessions
<1>3. UNCHANGED <<logs, droppedCount, bufferedDropped>>
  BY DEF Receive, shown
<1>4. Len(pending') + Len(buffered') = Len(pending) + Len(buffered) + 1
      /\ Len(pending') \in Nat /\ Len(buffered') \in Nat
  <2>1. \/ buffered' = Append(buffered, z + 1) /\ pending' = pending
        \/ pending' = Append(pending, z + 1) /\ buffered' = buffered
    BY <1>1 DEF Receive
  <2>2. Len(pending) \in Nat /\ Len(buffered) \in Nat
    BY <1>0, LenProperties
  <2>3. /\ Len(Append(buffered, z + 1)) = Len(buffered) + 1
        /\ Len(Append(pending, z + 1)) = Len(pending) + 1
    BY <1>0, <1>1, AppendProperties
  <2> QED
    BY <2>1, <2>2, <2>3
<1>5. PICK l \in Nat, p \in Nat, q \in Nat, p1 \in Nat, q1 \in Nat :
        /\ l = Len(logs) /\ p = Len(pending) /\ q = Len(buffered)
        /\ p1 = Len(pending') /\ q1 = Len(buffered') /\ p1 + q1 = p + q + 1
  BY <1>0, <1>4, LenProperties
<1>6. Held = l + p + q + droppedCount + bufferedDropped
  BY <1>5 DEF Held
<1>7. Held' = l + p1 + q1 + droppedCount + bufferedDropped
  BY <1>3, <1>5 DEF Held
<1>8. Held \in Nat /\ Held' = Held + 1
  BY <1>0, <1>5, <1>6, <1>7
<1>9. Held' - Held = session'.pos - session.pos
  BY <1>1, <1>2, <1>8
<1> QED
  BY <1>0, <1>3, <1>9 DEF PinsKept, LineCounted

LEMMA RingStep ==
    ASSUME TypeInv, FlagsInv, LinesInv, Next
    PROVE  PinsKept /\ LineCounted
<1>0. session \in Sessions /\ pending \in Seq(Line) /\ buffered \in Seq(Line)
  BY TypeSplit DEF DataTypes
<1>1. CASE Emit \/ ChangeTail \/ SwitchSource \/ TogglePin
  <2>1. UNCHANGED <<logs, droppedCount, bufferedDropped, pending, buffered, session>>
    BY <1>1 DEF Emit, ChangeTail, SwitchSource, TogglePin, shown, received
  <2> QED
    BY <2>1, RingAside
<1>2. CASE ViewerEffects
  <2>1. CASE StopStreaming /\ UNCHANGED shown
    BY <2>1, StopAside DEF shown
  <2>2. CASE UNCHANGED <<shown, received, session>>
    BY <2>2, RingAside DEF shown, received
  <2> QED
    BY <1>2, <2>1, <2>2, ReadAside DEF ViewerEffects
<1>3. CASE Refresh \/ FetchAnswered \/ FetchFails
  BY <1>3, ReadAside DEF Refresh
<1>4. CASE RefreshAfterRecreate
  <2>1. CASE StopStreaming /\ UNCHANGED shown
    BY <2>1, StopAside DEF shown
  <2> QED
    BY <1>4, <2>1, ReadAside DEF RefreshAfterRecreate
<1>5. CASE Start \/ RestartStreaming
  BY <1>5, StartAside DEF Start, RestartStreaming
<1>6. CASE Stop \/ Unmount
  BY <1>6, StopAside DEF Stop, Unmount, shown
<1>7. CASE Pause
  <2>1. session.phase # "none"
    BY <1>7, LoopRuns DEF Pause, offersPause
  <2> QED
    BY <1>0, <1>7, <2>1, RingFlushed DEF Pause
<1>8. CASE Resume
  <2>1. session.phase # "none" /\ session' = session /\ buffered' = <<>>
    BY <1>8, LoopRuns DEF Resume, offersPause
  <2>2. CASE buffered = <<>>
    <3>1. UNCHANGED <<logs, droppedCount, bufferedDropped, pending, buffered>>
      BY <1>8, <2>1, <2>2 DEF Resume, shown
    <3> QED
      BY <2>1, <3>1, RingAside
  <2>3. CASE buffered # <<>>
    <3>1. PICK a \in Seq(Line) : a = pending \o buffered
      BY <1>0, ConcatProperties
    <3>2. Flush(a)
      BY <1>8, <2>3, <3>1 DEF Resume
    <3> QED
      BY <2>1, <3>1, <3>2, RingFlushed
  <2> QED
    BY <2>2, <2>3
<1>9. CASE Connect
  <2>1. session.phase # "reading" /\ UNCHANGED <<shown, received>>
    BY <1>9 DEF Connect
  <2> QED
    BY <2>1, RingAside DEF shown, received
<1>10. CASE Receive
  BY <1>10, RingReceived
<1>11. CASE ReceiveHeartbeat
  <2>1. session' = [[session EXCEPT !.due = FALSE] EXCEPT !.attempt = 0] /\ UNCHANGED <<shown, received>>
    BY <1>11 DEF ReceiveHeartbeat, Active
  <2>2. session'.pos = session.pos
    BY <1>0, <2>1 DEF Sessions
  <2> QED
    BY <2>1, <2>2, RingAside DEF shown, received
<1>12. CASE GoesSilent \/ Tick
  <2>1. session'.pos = session.pos
    BY <1>0, <1>12 DEF GoesSilent, Tick, Sessions
  <2>2. UNCHANGED <<shown, received>>
    BY <1>12 DEF GoesSilent, Tick
  <2> QED
    BY <2>1, <2>2, RingAside DEF shown, received
<1>13. ASSUME Finish, session.phase # "none" PROVE PinsKept /\ LineCounted
  <2>1. session'.phase = "none" /\ buffered' = buffered
    BY <1>13 DEF Finish, NoSession
  <2>2. Flush(pending)
    BY <1>13, IdleFlush DEF Finish
  <2> QED
    BY <1>0, <1>13, <2>1, <2>2, RingFlushed
<1>14. ASSUME Retry PROVE PinsKept /\ LineCounted
  <2>1. session'.phase = "waiting" /\ UNCHANGED <<shown, received>>
    BY <1>14 DEF Retry, NoSession
  <2> QED
    BY <2>1, RingAside DEF shown, received
<1>15. CASE ConnectionEnds \/ Aborts
  <2>1. ConnectionOver /\ session.phase # "none"
    BY <1>15 DEF ConnectionEnds, Aborts
  <2> QED
    BY <1>13, <1>14, <2>1 DEF ConnectionOver
<1>16. CASE WaitEnds
  <2>1. session.phase = "waiting"
    BY <1>16 DEF WaitEnds
  <2>2. CASE UNCHANGED <<shown, received>>
    BY <2>1, <2>2, RingAside DEF shown, received
  <2> QED
    BY <1>13, <1>16, <2>1, <2>2 DEF WaitEnds
<1>17. CASE FlushTick
  <2>1. session'.pos = session.pos
    BY <1>0, <1>17, AbortedSession DEF FlushTick
  <2>2. CASE paused
    BY <1>17, <2>1, <2>2, RingTrimmed DEF FlushTick
  <2>3. CASE ~paused
    <3>1. buffered' = buffered /\ session.phase # "none"
      BY <1>17, <2>3, LoopRuns DEF FlushTick
    <3>2. Flush(pending)
      BY <1>17, <2>3, IdleFlush DEF FlushTick
    <3> QED
      BY <1>0, <2>1, <3>1, <3>2, RingFlushed
  <2> QED
    BY <2>2, <2>3
<1> QED
  BY <1>1, <1>2, <1>3, <1>4, <1>5, <1>6, <1>7, <1>8, <1>9, <1>10, <1>11, <1>12, <1>15, <1>16, <1>17
     DEF Next

-----------------------------------------------------------------------------
(* The theorems *)

IInv == TypeInv /\ FlagsInv /\ LinesInv

LEMMA InitSound == Init => IInv
BY InitTyped, FlagsInit, LinesInit DEF IInv

LEMMA StepSound == IInv /\ [Next]_vars => IInv'
<1>1. ASSUME IInv, Next PROVE IInv'
  BY <1>1, TypeStep, FlagsStep, LinesStep DEF IInv
<1>2. ASSUME IInv, UNCHANGED vars PROVE IInv'
  <2> USE <1>2 DEF IInv, vars, page, shown, received, flags, refs
  <2>1. UNCHANGED <<mounted, parked, tail, emitted, logs, pending, buffered, droppedCount>>
    OBVIOUS
  <2>2. UNCHANGED <<bufferedDropped, loading, streaming, reconnecting, paused, interval>>
    OBVIOUS
  <2>3. UNCHANGED <<stopReq, ctrl, restart, session, age, fetches, deps, pins, clobbered>>
    OBVIOUS
  <2>4. TypeInv'
    BY <2>1, <2>2, <2>3 DEF TypeInv, TypeOK, DepsOK, Sessions, Rows
  <2>5. FlagsInv'
    BY <2>1, <2>2, <2>3 DEF FlagsInv, NothingWithoutLoop, LoopOnShow, PauseSeen, CutShort,
       HistoryStops, RestartAlone, GoneStops
  <2>6. LinesInv'
    BY <2>1, <2>2, <2>3 DEF LinesInv, InOrder, BufferWhilePaused, FlushedAtEnd, HeldWritten, HeldRead,
       PosWritten, NothingBefore, WaitsAgain, PinsOnLines, Held3
  <2> QED
    BY <2>4, <2>5, <2>6
<1> QED
  BY <1>1, <1>2

\* Type correctness of the live view.
THEOREM TypeCorrect == Spec => []TypeOK
<1>1. IInv => TypeOK
  BY DEF IInv, TypeInv
<1> QED
  BY <1>1, InitSound, StepSound, PTL DEF Spec

\* The flags on show tell what runs: a stream is shown exactly while its loop
\* and its flush timer run, whoever stops, restarts, parks or leaves it
\* (useContainerLogStream and the effects of LogViewer).
THEOREM StreamIsAsShown == Spec => []StreamRunsAsShown
<1>1. IInv => StreamRunsAsShown
  BY FlagsShow DEF IInv
<1> QED
  BY <1>1, InitSound, StepSound, PTL DEF Spec

\* No line is on the page twice or out of order, over pauses, flushes, ring
\* drops and reconnects ("Reconnects follow from now").
THEOREM LinesStayInOrder == Spec => []LinesInOrder
<1>1. IInv => LinesInOrder
  BY OrderOfParts DEF IInv, LinesInv
<1> QED
  BY <1>1, InitSound, StepSound, PTL DEF Spec

\* Every line received is held or counted by one of the two drop counters, and
\* a pin follows its line until the ring drops that.
THEOREM RingIsAccounted == Spec => RingAccounted
<1>1. ASSUME IInv, [Next]_vars PROVE [PinsKept /\ LineCounted]_vars
  BY <1>1, RingStep DEF IInv
<1>2. Spec => [][PinsKept]_vars
  BY <1>1, InitSound, StepSound, PTL DEF Spec
<1>3. Spec => [][LineCounted]_vars
  BY <1>1, InitSound, StepSound, PTL DEF Spec
<1>4. Spec => PinsFollowLines
  BY <1>2, PTL DEF PinsFollowLines, PinsKept
<1>5. Spec => EveryLineCounted
  BY <1>3, PTL DEF EveryLineCounted, LineCounted
<1> QED
  BY <1>4, <1>5 DEF RingAccounted

\* "stops the stream when the viewer unmounts" holds but for one case: once the
\* viewer is gone, only the delayed restart of refreshAfterRecreate, which nobody
\* cancels, leaves a loop or a flush timer behind.
THEOREM OnlyARestartOutlives ==
    Spec => [](~mounted /\ Settled /\ restart # "done" => session.phase = "none" /\ ~interval)
<1>1. ASSUME IInv, ~mounted, Settled, restart # "done" PROVE session.phase = "none" /\ ~interval
  <2>1. BooleanTypes /\ StreamRunsAsShown
    BY <1>1, TypeSplit, FlagsShow DEF IInv
  <2>2. ~streaming
    BY Zenon, <1>1 DEF IInv, FlagsInv, GoneStops
  <2> QED
    BY Zenon, <1>1, <2>1, <2>2 DEF StreamRunsAsShown, BooleanTypes
<1>2. IInv => (~mounted /\ Settled /\ restart # "done" => session.phase = "none" /\ ~interval)
  BY Zenon, <1>1
<1> QED
  BY <1>2, InitSound, StepSound, PTL DEF Spec

=============================================================================
