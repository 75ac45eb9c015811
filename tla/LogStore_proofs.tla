--------------------------- MODULE LogStore_proofs ---------------------------
(***************************************************************************)
(* The log store closes its queue last, its rows and watermarks agree, and *)
(* it reads again what live delivery missed, for every queue, batch,       *)
(* number of lines, failures, purges and process lives.                    *)
(***************************************************************************)
EXTENDS LogStore, SequenceTheorems, WellFoundedInduction, TLAPS

\* What the shutdown of the queue depends on.
control == <<proc, subscription, producers, closed, sync, inFlight, bf, result>>

\* One backfill at a time: what the tracker has in flight is about to be
\* started, under way, or has left its result.
OneBackfill ==
    /\ bf # "none" => inFlight /\ result = "none"
    /\ result # "none" => inFlight
    /\ sync = "spawning" => inFlight /\ bf = "none" /\ result = "none"

\* The sink lets go only when nothing can be spawned any more, and the queue is
\* closed only when everybody has let go.
LetGoInOrder ==
    /\ subscription = "released" => sync = "stopped"
    /\ closed => subscription = "released" /\ bf = "none"

ControlInv == ProducersCounted /\ OneBackfill /\ LetGoInOrder
IInv == queue \in Seq(Message) /\ ControlInv

-----------------------------------------------------------------------------
\* The invariant holds at the start, and again whenever the process is gone or
\* a new one starts.
LEMMA InitSound == Init => IInv
BY SMT DEF Init, IInv, ControlInv, ProducersCounted, OneBackfill, LetGoInOrder

LEMMA GoneSound == Gone => IInv'
BY SMT DEF Gone, Fresh, IInv, ControlInv, ProducersCounted, OneBackfill, LetGoInOrder

LEMMA StartSound == Start => IInv'
BY SMT DEF Start, Fresh, IInv, ControlInv, ProducersCounted, OneBackfill, LetGoInOrder

\* A step that touches neither the control state nor the queue's content.
LEMMA QuietSound == IInv /\ UNCHANGED <<control, queue>> => IInv'
BY SMT DEF control, IInv, ControlInv, ProducersCounted, OneBackfill, LetGoInOrder

\* What the queue can be after a step that may put a message on it or take one.
LEMMA QueueTyped ==
    ASSUME queue \in Seq(Message)
    PROVE  /\ \A m \in Message : Append(queue, m) \in Seq(Message)
           /\ queue # << >> => Tail(queue) \in Seq(Message) /\ Len(Tail(queue)) = Len(queue) - 1
BY SMT

-----------------------------------------------------------------------------
\* The steps of the sync loop.
LEMMA SyncSound == IInv /\ SyncStep => IInv'
<1> SUFFICES ASSUME IInv, SyncStep PROVE IInv'
  OBVIOUS
<1> USE DEF IInv, ControlInv, ProducersCounted, OneBackfill, LetGoInOrder, channel, tracker,
            backfill
<1>1. CASE SyncBegins \/ SyncFails \/ SyncStops
  BY <1>1, SMT DEF SyncBegins, SyncFails, SyncStops
<1>2. CASE SyncSchedules
  <2>1. /\ sync = "listing" /\ sync' \in {"idle", "spawning"}
        /\ UNCHANGED <<proc, subscription, producers, closed, queue, bf, result>>
    BY <1>2, SMT DEF SyncSchedules
  <2>2. /\ inFlight => inFlight'
        /\ sync' = "spawning" => ~inFlight /\ inFlight'
    BY <1>2, Zenon DEF SyncSchedules, Eligible
  <2> QED
    BY <2>1, <2>2
<1>3. CASE SyncSpawns
  BY <1>3, SMT DEF SyncSpawns
<1>4. CASE ResultOk \/ ResultErr
  BY <1>4, SMT DEF ResultOk, ResultErr
<1> QED
  BY <1>1, <1>2, <1>3, <1>4 DEF SyncStep

\* The steps of the backfill.
LEMMA BackfillSound == IInv /\ BackfillStep => IInv'
<1> SUFFICES ASSUME IInv, BackfillStep PROVE IInv'
  OBVIOUS
<1>1. CASE BackfillOpens \/ BackfillEnds \/ BackfillFails \/ BackfillGivesUp
  BY <1>1, SMT DEF BackfillOpens, BackfillEnds, BackfillFails, BackfillGivesUp, IInv, ControlInv,
     ProducersCounted, OneBackfill, LetGoInOrder, channel, tracker
<1>2. CASE BackfillSendsDone \/ \E i \in Line : BackfillReads(i)
  <2>1. queue' \in Seq(Message)
    BY <1>2, QueueTyped, Zenon DEF BackfillSendsDone, BackfillReads, IInv, Message, Done
  <2>2. /\ UNCHANGED <<proc, subscription, producers, closed, sync, inFlight, result>>
        /\ (bf = "none") = (bf' = "none")
    BY <1>2, SMT DEF BackfillSendsDone, BackfillReads, tracker
  <2> QED
    BY <2>1, <2>2, SMT DEF IInv, ControlInv, ProducersCounted, OneBackfill, LetGoInOrder
<1>3. CASE BackfillReports
  BY <1>3, SMT DEF BackfillReports, IInv, ControlInv, ProducersCounted, OneBackfill,
     LetGoInOrder, channel, tracker
<1> QED
  BY <1>1, <1>2, <1>3 DEF BackfillStep

\* The steps of the shutdown.
LEMMA ShutdownSound == IInv /\ ShutdownStep => IInv'
<1> SUFFICES ASSUME IInv, ShutdownStep PROVE IInv'
  OBVIOUS
<1>1. CASE Unsubscribe \/ SinkReleased
  BY <1>1, SMT DEF Unsubscribe, SinkReleased, IInv, ControlInv, ProducersCounted, OneBackfill,
     LetGoInOrder, channel, tracker, backfill
<1>2. CASE CloseQueue
  BY <1>2, SMT DEF CloseQueue, IInv, ControlInv, ProducersCounted, OneBackfill, LetGoInOrder,
     tracker, backfill
<1>3. CASE Exit
  BY <1>3, GoneSound DEF Exit
<1> QED
  BY <1>1, <1>2, <1>3 DEF ShutdownStep

\* The other goroutines leave the control state alone, and the queue well
\* formed.
LEMMA OthersSound ==
    IInv /\ (EngineStep \/ HubStep \/ WriterStep \/ Purge \/ Cancel) => IInv'
<1> SUFFICES ASSUME IInv, EngineStep \/ HubStep \/ WriterStep \/ Purge \/ Cancel PROVE IInv'
  OBVIOUS
<1>1. CASE EngineStep \/ TailAttach \/ TailBreaks \/ Commit \/ CommitFails \/ WriterExits \/ Purge
  <2>1. UNCHANGED <<control, queue>>
    BY <1>1, Zenon DEF EngineStep, Emit, TailAttach, TailBreaks, Commit, CommitFails, WriterExits,
       Purge, control, channel, tracker, backfill
  <2> QED
    BY <2>1, QuietSound
<1>2. CASE Receive \/ \E i \in Line : Sink(i)
  <2>1. queue' \in Seq(Message)
    BY <1>2, QueueTyped, Zenon DEF Receive, Sink, IInv, Message
  <2>2. UNCHANGED control
    BY <1>2, Zenon DEF Receive, Sink, control, tracker, backfill
  <2> QED
    BY <2>1, <2>2, SMT DEF IInv, ControlInv, ProducersCounted, OneBackfill, LetGoInOrder, control
<1>3. CASE Cancel
  BY <1>3, SMT DEF Cancel, IInv, ControlInv, ProducersCounted, OneBackfill, LetGoInOrder,
     channel, tracker, backfill
<1> QED
  BY <1>1, <1>2, <1>3 DEF HubStep, WriterStep

\* Every step keeps the invariant.
LEMMA StepSound == IInv /\ [Next]_vars => IInv'
<1>1. IInv /\ UNCHANGED vars => IInv'
  <2>1. UNCHANGED vars => UNCHANGED <<control, queue>>
    BY Zenon DEF vars, control, channel, tracker, backfill
  <2> QED
    BY <2>1, QuietSound
<1> QED
  BY <1>1, SyncSound, BackfillSound, ShutdownSound, OthersSound, StartSound, GoneSound
     DEF Next, Crash

\* On a closed queue nobody sends: whoever could has let go.
LEMMA NobodySends == IInv /\ [Next]_vars => (closed /\ closed' => Len(queue') <= Len(queue))
<1> SUFFICES ASSUME IInv, [Next]_vars, closed, closed' PROVE Len(queue') <= Len(queue)
  OBVIOUS
<1>1. subscription = "released" /\ bf = "none" /\ queue \in Seq(Message)
  BY DEF IInv, ControlInv, LetGoInOrder
<1>2. CASE queue' = queue
  BY <1>1, <1>2
<1>3. CASE Receive
  BY <1>1, <1>3, QueueTyped, SMT DEF Receive
<1>4. CASE Start \/ Crash \/ Exit
  BY <1>4, Zenon DEF Start, Crash, Exit, Gone, Fresh
<1>5. CASE (\E i \in Line : Sink(i) \/ BackfillReads(i)) \/ BackfillSendsDone
  BY <1>1, <1>5, SMT DEF Sink, BackfillReads, BackfillSendsDone
<1>6. ASSUME ~Receive, ~Start, ~Crash, ~Exit, ~BackfillSendsDone,
             \A i \in Line : ~Sink(i) /\ ~BackfillReads(i)
      PROVE  queue' = queue
  <2>1. \/ EngineStep \/ TailAttach \/ TailBreaks \/ Commit \/ CommitFails \/ WriterExits
        \/ SyncStep \/ BackfillOpens \/ BackfillEnds \/ BackfillFails \/ BackfillGivesUp
        \/ BackfillReports \/ Purge \/ Cancel \/ Unsubscribe \/ SinkReleased \/ CloseQueue
        \/ UNCHANGED vars
    BY <1>6, Zenon DEF Next, HubStep, WriterStep, BackfillStep, ShutdownStep
  <2>2. CASE EngineStep \/ TailAttach \/ TailBreaks \/ Commit \/ CommitFails \/ WriterExits
    BY <2>2, Zenon DEF EngineStep, Emit, TailAttach, TailBreaks, Commit, CommitFails,
       WriterExits, channel
  <2>3. CASE SyncStep
    BY <2>3, Zenon DEF SyncStep, SyncBegins, SyncSchedules, SyncSpawns, SyncFails, ResultOk,
       ResultErr, SyncStops, channel
  <2>4. CASE BackfillOpens \/ BackfillEnds \/ BackfillFails \/ BackfillGivesUp \/ BackfillReports
    BY <2>4, Zenon DEF BackfillOpens, BackfillEnds, BackfillFails, BackfillGivesUp,
       BackfillReports, channel
  <2>5. CASE Purge \/ Cancel \/ Unsubscribe \/ SinkReleased \/ CloseQueue \/ UNCHANGED vars
    BY <2>5, Zenon DEF Purge, Cancel, Unsubscribe, SinkReleased, CloseQueue, vars, channel
  <2> QED
    BY <2>1, <2>2, <2>3, <2>4, <2>5, Zenon
<1> QED
  BY <1>2, <1>3, <1>4, <1>5, <1>6, Zenon

-----------------------------------------------------------------------------
\* The producers are counted exactly, and nobody sends on the closed queue, at
\* whatever step of a listing, a backfill or a delivery the shutdown begins.
THEOREM QueueIsClosedLast == Spec => QueueClosedLast
<1>1. IInv => ProducersCounted
  BY DEF IInv, ControlInv
<1>2. IInv /\ [Next]_vars => [closed /\ closed' => Len(queue') <= Len(queue)]_vars
  BY NobodySends
<1> QED
  BY <1>1, <1>2, InitSound, StepSound, PTL DEF Spec, QueueClosedLast, NoSendOnClosed
-----------------------------------------------------------------------------
(* Extremes of sets of numbers, and what is on a queue.                    *)

LEMMA MinOf ==
    ASSUME NEW S \in SUBSET Nat, S # {}
    PROVE  Min(S) \in S /\ \A y \in S : Min(S) <= y
<1>1. PICK x \in S : \A y \in S : ~(<<y, x>> \in OpToRel(<, Nat))
  BY NatLessThanWellFounded, WFMin, Zenon
<1>2. \A y \in S : x <= y
  <2> SUFFICES ASSUME NEW y \in S, y < x PROVE FALSE
    BY SMT
  <2>1. <<y, x>> \in OpToRel(<, Nat)
    BY SMT DEF OpToRel
  <2> QED
    BY <1>1, <2>1
<1> QED
  BY <1>2, Zenon DEF Min

\* The distances from a bound have a minimum.
LEMMA MaxOf ==
    ASSUME NEW n \in Nat, NEW S \in SUBSET (0 .. n), S # {}
    PROVE  Max(S) \in S /\ \A y \in S : y <= Max(S)
<1> DEFINE T == {n - s : s \in S}
<1>1. \A x \in S : x \in Nat /\ n - x \in Nat /\ n - x \in T
  BY SMT
<1>2. T \in SUBSET Nat /\ T # {}
  BY <1>1
<1>3. \A t \in T : \E x \in S : t = n - x
  OBVIOUS
<1> HIDE DEF T
<1>4. PICK m \in S : Min(T) = n - m
  BY <1>2, <1>3, MinOf
<1>5. \A y \in S : m >= y
  <2> SUFFICES ASSUME NEW y \in S PROVE m >= y
    OBVIOUS
  <2>1. n - m <= n - y /\ m \in Nat /\ y \in Nat
    BY <1>1, <1>2, <1>4, MinOf
  <2> QED
    BY <2>1, SMT
<1>6. Max(S) \in S /\ \A y \in S : Max(S) >= y
  BY <1>5, Zenon DEF Max
<1> QED
  BY <1>1, <1>6

LEMMA MaxIs ==
    ASSUME NEW n \in Nat, NEW S \in SUBSET (0 .. n), NEW m \in S, \A y \in S : y <= m
    PROVE  Max(S) = m
<1>1. PICK M : M = Max(S) /\ M \in S /\ m <= M /\ M <= m
  BY MaxOf
<1>2. \A x \in S : x \in Nat
  OBVIOUS
<1> QED
  BY <1>1, <1>2

LEMMA NothingQueued == \A S : << >> \in Seq(S) /\ Len(<< >>) = 0
OBVIOUS
LEMMA QueueSets ==
    /\ ToSet(<< >>) = {}
    /\ \A S : \A q \in Seq(S) : \A m : ToSet(Append(q, m)) = ToSet(q) \union {m}
    /\ \A S : \A q \in Seq(S) : q # << >> => ToSet(q) = {Head(q)} \union ToSet(Tail(q))
<1>1. ToSet(<< >>) = {}
  BY DEF ToSet
<1>2. ASSUME NEW S, NEW q \in Seq(S), NEW m PROVE ToSet(Append(q, m)) = ToSet(q) \union {m}
  <2>1. DOMAIN q = 1 .. Len(q) /\ DOMAIN Append(q, m) = 1 .. Len(q) + 1 /\ Len(q) \in Nat
    BY AppendProperties
  <2>2. \A i \in 1 .. Len(q) + 1 : Append(q, m)[i] = IF i <= Len(q) THEN q[i] ELSE m
    BY <2>1
  <2> QED
    BY <2>1, <2>2 DEF ToSet
<1>3. ASSUME NEW S, NEW q \in Seq(S), q # << >> PROVE ToSet(q) = {Head(q)} \union ToSet(Tail(q))
  <2>1. /\ DOMAIN q = 1 .. Len(q) /\ DOMAIN Tail(q) = 1 .. Len(q) - 1 /\ Len(q) \in Nat \ {0}
        /\ Head(q) = q[1] /\ \A i \in 1 .. Len(q) - 1 : Tail(q)[i] = q[i + 1]
    BY <1>3, HeadTailProperties, EmptySeq
  <2>2. \A i \in 1 .. Len(q) : i = 1 \/ (i - 1 \in 1 .. Len(q) - 1 /\ q[i] = Tail(q)[i - 1])
    BY <2>1
  <2>3. \A i \in 1 .. Len(q) - 1 : i + 1 \in 1 .. Len(q)
    BY <2>1
  <2>4. ToSet(q) \subseteq {Head(q)} \union ToSet(Tail(q))
    <3> SUFFICES ASSUME NEW x \in ToSet(q) PROVE x = Head(q) \/ x \in ToSet(Tail(q))
      OBVIOUS
    <3>1. PICK i \in 1 .. Len(q) : x = q[i]
      BY <2>1 DEF ToSet
    <3>2. CASE i = 1
      BY <2>1, <3>1, <3>2
    <3>3. CASE i # 1
      <4>1. PICK j \in 1 .. Len(q) - 1 : x = Tail(q)[j]
        BY <2>2, <3>1, <3>3
      <4> QED
        BY <2>1, <4>1 DEF ToSet
    <3> QED
      BY <3>2, <3>3
  <2>5. {Head(q)} \union ToSet(Tail(q)) \subseteq ToSet(q)
    <3>1. 1 \in 1 .. Len(q)
      BY <2>1
    <3> QED
      BY <2>1, <2>3, <3>1 DEF ToSet
  <2> QED
    BY <2>4, <2>5
<1> QED
  BY <1>1, <1>2, <1>3

-----------------------------------------------------------------------------
(***************************************************************************)
(* Rows and watermarks.  Every line under way is in the engine's log, so   *)
(* what the log gains later changes no watermark's meaning.                *)
(***************************************************************************)
FlagsTyped ==
    /\ row \in BOOLEAN /\ tailing \in BOOLEAN /\ closed \in BOOLEAN
    /\ known \in BOOLEAN /\ freshDrop \in BOOLEAN /\ done \in BOOLEAN /\ inFlight \in BOOLEAN
PlacesTyped ==
    /\ proc \in {"down", "up", "stopping"} /\ subscription \in {"live", "ended", "released"}
    /\ writer \in {"running", "exited"} /\ (proc = "down" => writer = "exited")
    /\ sync \in {"idle", "listing", "spawning", "stopped"}
    /\ bf \in {"none", "spawned", "reading", "read", "reporting"}
    /\ outcome \in {"ok", "err"} /\ result \in {"none", "ok", "err"}
TrackerTyped ==
    /\ gap \in {0} \union Line /\ healing \in {0} \union Line
    /\ attempts \in 0 .. MaxAttempts /\ (inFlight => attempts < MaxAttempts)
    /\ failures \in 0 .. MaxFailures /\ starts \in 0 .. MaxStarts /\ purges \in 0 .. MaxPurges
StoreTyped ==
    /\ log \in Seq(Streams) /\ Len(log) <= MaxLines
    /\ rows \in [Line -> Nat] /\ wm \in Points
    /\ queue \in Seq(Message) /\ Len(queue) <= IngestBuffer
    /\ batch \in Seq(Message) /\ Len(batch) <= BatchLines
    /\ resume \in Points \union {NoPoint} /\ lastDown \in 0 .. MaxLines
    /\ purgedTo \in {0} \union Line /\ busyDrops \subseteq Line
Written ==
    /\ pending \union unread \union downtime \union idleDrops \subseteq 1 .. Len(log)
    /\ ToSet(queue) \union ToSet(batch) \subseteq 0 .. Len(log)
    /\ \A i \in Line : rows[i] > 0 => i <= Len(log)
MarkBacked(s) ==
    /\ wm[s] # 0 => wm[s] \in Line /\ rows[wm[s]] > 0 /\ log[wm[s]] = s
    /\ \A i \in Line : rows[i] > 0 /\ log[i] = s => i <= wm[s]
StoreInv == StoreTyped /\ Written /\ StoredOnce /\ \A s \in Streams : MarkBacked(s)

LEMMA Sizes ==
    /\ IngestBuffer \in Nat \ {0} /\ BatchLines \in Nat \ {0} /\ MaxAttempts \in Nat \ {0}
    /\ Overlap \in Nat /\ MaxLines \in Nat /\ MaxFailures \in Nat
    /\ MaxStarts \in Nat /\ MaxPurges \in Nat
BY SizesAssumption

\* A gap is the earliest line dropped.
LEMMA GapIsEarliest ==
    ASSUME gap \in {0} \union Line, NEW lines \in SUBSET Line
    PROVE  /\ EarliestDrop(lines) \in {0} \union Line
           /\ \A i \in lines : EarliestDrop(lines) # 0 /\ EarliestDrop(lines) <= i
           /\ gap # 0 => EarliestDrop(lines) # 0 /\ EarliestDrop(lines) <= gap
<1>1. Line \subseteq Nat \ {0}
  BY Sizes DEF Line
<1>2. CASE lines = {}
  BY <1>1, <1>2 DEF EarliestDrop
<1>3. CASE lines # {} /\ gap = 0
  <2>1. EarliestDrop(lines) = Min(lines)
    BY <1>3 DEF EarliestDrop
  <2>2. lines \in SUBSET Nat
    BY <1>1
  <2>3. Min(lines) \in lines /\ \A y \in lines : Min(lines) <= y
    BY <1>3, <2>2, MinOf
  <2> QED
    BY <1>1, <1>3, <2>1, <2>3
<1>4. CASE lines # {} /\ gap # 0
  <2>1. EarliestDrop(lines) = Min(lines \union {gap})
    BY <1>4 DEF EarliestDrop
  <2>2. PICK S : S = lines \union {gap}
    OBVIOUS
  <2>4. S \in SUBSET Nat /\ S # {} /\ S \subseteq Line
    BY <1>1, <1>4, <2>2
  <2>3. Min(S) \in S /\ \A y \in S : Min(S) <= y
    BY <2>4, MinOf
  <2> QED
    BY <1>1, <1>4, <2>1, <2>2, <2>3, <2>4
<1> QED
  BY <1>2, <1>3, <1>4

\* Flags are set, reset or left alone.
LEMMA FlagsStay ==
    ASSUME FlagsTyped, row' \in {row, TRUE, FALSE}, tailing' \in {tailing, TRUE, FALSE},
           closed' \in {closed, TRUE, FALSE}, known' \in {known, row}, done' \in {done, TRUE, FALSE},
           freshDrop' \in BOOLEAN, inFlight' \in {inFlight, FALSE}
    PROVE  FlagsTyped'
BY Zenon DEF FlagsTyped

LEMMA ControlInit == Init => FlagsTyped /\ PlacesTyped /\ TrackerTyped
<1>1. Init => FlagsTyped
  BY Zenon DEF Init, FlagsTyped
<1>2. Init => PlacesTyped
  BY SMT DEF Init, PlacesTyped
<1>3. Init => TrackerTyped
  BY Sizes, SMT DEF Init, TrackerTyped
<1> QED
  BY <1>1, <1>2, <1>3

ControlStays == FlagsTyped' /\ PlacesTyped' /\ TrackerTyped'

LEMMA GoneControl == FlagsTyped /\ PlacesTyped /\ TrackerTyped /\ Gone => ControlStays
<1> SUFFICES ASSUME FlagsTyped, PlacesTyped, TrackerTyped, Gone PROVE ControlStays
  OBVIOUS
<1>1. UNCHANGED <<row, known, failures, starts, purges>>
  BY Zenon DEF Gone, database, bounds
<1>2. FlagsTyped'
  <2>1. /\ tailing' = FALSE /\ closed' = FALSE /\ done' = FALSE /\ freshDrop' = FALSE
        /\ inFlight' = FALSE
    BY Zenon DEF Gone, Fresh
  <2> QED
    BY <1>1, <2>1, Zenon DEF FlagsTyped
<1>3. PlacesTyped'
  BY SMT DEF Gone, Fresh, PlacesTyped
<1>4. TrackerTyped'
  BY <1>1, Sizes, SMT DEF Gone, Fresh, TrackerTyped
<1> QED
  BY <1>2, <1>3, <1>4 DEF ControlStays

LEMMA LinesOfBatch == StoreTyped => LinesOf(batch) \in SUBSET Line
<1> SUFFICES ASSUME StoreTyped PROVE LinesOf(batch) \in SUBSET Line
  OBVIOUS
<1>1. \A m \in ToSet(batch) : m \in Message
  BY DEF StoreTyped, ToSet
<1> QED
  BY <1>1 DEF LinesOf, Message

\* The control state is well formed; a backfill in flight has an attempt left.
LEMMA ControlSound ==
    FlagsTyped /\ PlacesTyped /\ TrackerTyped /\ StoreTyped /\ IInv /\ [Next]_vars => ControlStays
<1> SUFFICES ASSUME FlagsTyped, PlacesTyped, TrackerTyped, StoreTyped, IInv, [Next]_vars
             PROVE  ControlStays
  OBVIOUS
<1> USE Sizes DEF engine, database, hub, channel, tracker, backfill, history, drops, bounds
<1>0. ASSUME FlagsTyped', PlacesTyped', TrackerTyped' PROVE ControlStays
  BY <1>0 DEF ControlStays
<1>1. CASE EngineStep \/ TailAttach \/ TailBreaks \/ Receive \/ Commit \/ WriterExits
  <2>1. /\ UNCHANGED <<known, proc, subscription, closed, sync, attempts, done, inFlight, healing, gap,
                       bf, outcome, result, freshDrop, failures, starts, purges>>
        /\ row' \in {row, TRUE} /\ tailing' \in {tailing, TRUE, FALSE} /\ writer' \in {writer, "exited"}
    BY <1>1, Zenon DEF EngineStep, Emit, TailAttach, TailBreaks, Receive, Commit, WriterExits
  <2>2. FlagsTyped'
    BY <2>1, FlagsStay, Zenon DEF FlagsTyped
  <2>3. PlacesTyped'
    BY <2>1 DEF PlacesTyped
  <2>4. TrackerTyped'
    BY <2>1 DEF TrackerTyped
  <2> QED
    BY <1>0, <2>2, <2>3, <2>4
<1>2. CASE CommitFails \/ \E i \in Line : Sink(i)
  <2>1. PICK lines \in SUBSET Line : MarkGap(lines) \/ UNCHANGED <<gap, freshDrop>>
    <3>1. CASE CommitFails
      BY <3>1, LinesOfBatch DEF CommitFails
    <3>2. ASSUME NEW i \in Line, Sink(i)
          PROVE  \E lines \in SUBSET Line : MarkGap(lines) \/ UNCHANGED <<gap, freshDrop>>
      <4>1. {i} \in SUBSET Line
        OBVIOUS
      <4>2. MarkGap({i}) \/ UNCHANGED <<gap, freshDrop>>
        BY <3>2, Zenon DEF Sink
      <4> QED
        BY <4>1, <4>2
    <3> QED
      BY <1>2, <3>1, <3>2
  <2>2. gap' \in {0} \union Line /\ freshDrop' \in BOOLEAN
    <3>1. CASE MarkGap(lines)
      <4>1. gap' = EarliestDrop(lines) /\ freshDrop' = (freshDrop \/ lines # {})
        BY <3>1, Zenon DEF MarkGap, RecordDrops
      <4>2. freshDrop' \in BOOLEAN
        BY <4>1, Zenon DEF FlagsTyped
      <4>3. EarliestDrop(lines) \in {0} \union Line
        BY GapIsEarliest DEF TrackerTyped
      <4> QED
        BY <4>1, <4>2, <4>3
    <3>2. CASE UNCHANGED <<gap, freshDrop>>
      BY <3>2, Zenon DEF TrackerTyped, FlagsTyped
    <3> QED
      BY <2>1, <3>1, <3>2
  <2>3. UNCHANGED <<known, proc, subscription, closed, sync, attempts, done, inFlight, healing, row,
                    tailing, writer, bf, outcome, result, starts, purges>>
    BY <1>2, Zenon DEF CommitFails, Sink
  <2>4. FlagsTyped'
    BY <2>2, <2>3, FlagsStay, Zenon
  <2>5. PlacesTyped'
    BY <2>3 DEF PlacesTyped
  <2>6. failures' \in 0 .. MaxFailures
    <3>1. failures' = failures \/ (failures < MaxFailures /\ failures' = failures + 1)
      BY <1>2, Zenon DEF CommitFails, Sink
    <3> QED
      BY <3>1 DEF TrackerTyped
  <2>7. TrackerTyped'
    BY <2>2, <2>3, <2>6 DEF TrackerTyped
  <2> QED
    BY <1>0, <2>4, <2>5, <2>7
<1>3. CASE SyncSchedules
  <2>1. /\ UNCHANGED <<known, proc, subscription, closed, gap, tailing, writer, bf, outcome, result,
                       failures, starts, purges>>
        /\ row' = TRUE /\ freshDrop' = FALSE /\ sync' \in {"idle", "spawning"}
        /\ done' = (done /\ ~NewGap) /\ inFlight' = (inFlight \/ Eligible)
        /\ healing' = IF NewGap THEN gap ELSE healing
        /\ attempts' = IF NewGap THEN 0 ELSE attempts
    BY <1>3, Zenon DEF SyncSchedules
  <2>2. FlagsTyped'
    BY <2>1, Zenon DEF FlagsTyped
  <2>3. PlacesTyped'
    BY <2>1 DEF PlacesTyped
  <2>4. inFlight' => attempts' < MaxAttempts
    <3>1. CASE NewGap
      BY <2>1, <3>1
    <3>2. CASE ~NewGap
      <4>1. inFlight' => inFlight \/ attempts < MaxAttempts
        BY <2>1, <3>2, Zenon DEF Eligible
      <4> QED
        BY <2>1, <3>2, <4>1 DEF TrackerTyped
    <3> QED
      BY <3>1, <3>2
  <2>5. attempts' \in 0 .. MaxAttempts /\ healing' \in {0} \union Line
    BY <2>1 DEF TrackerTyped
  <2>6. TrackerTyped'
    BY <2>1, <2>4, <2>5 DEF TrackerTyped
  <2> QED
    BY <1>0, <2>2, <2>3, <2>6
<1>4. CASE SyncBegins \/ SyncSpawns \/ SyncFails \/ SyncStops
  <2>1. /\ UNCHANGED <<known, proc, subscription, closed, attempts, done, inFlight, healing, row, gap,
                       tailing, writer, outcome, result, freshDrop, starts, purges>>
        /\ sync' \in {"idle", "listing", "stopped"} /\ bf' \in {bf, "spawned"}
    BY <1>4, Zenon DEF SyncBegins, SyncSpawns, SyncFails, SyncStops
  <2>2. failures' \in 0 .. MaxFailures
    BY <1>4, SMT DEF SyncBegins, SyncSpawns, SyncFails, SyncStops, TrackerTyped
  <2>3. FlagsTyped'
    BY <2>1, FlagsStay, Zenon DEF FlagsTyped
  <2>4. PlacesTyped'
    BY <2>1 DEF PlacesTyped
  <2>5. TrackerTyped'
    BY <2>1, <2>2 DEF TrackerTyped
  <2> QED
    BY <1>0, <2>3, <2>4, <2>5
<1>5. CASE ResultOk \/ ResultErr
  <2>1. /\ UNCHANGED <<known, proc, subscription, closed, sync, row, tailing, writer, bf, outcome,
                       freshDrop, failures, starts, purges>>
        /\ result' = "none" /\ inFlight' = FALSE /\ done' \in {done, TRUE}
        /\ attempts' \in {0, attempts + 1} /\ (attempts' = attempts + 1 => attempts' = 0 \/ result = "err")
        /\ gap' \in {gap, 0} /\ healing' \in {healing, 0}
    BY <1>5, Zenon DEF ResultOk, ResultErr
  <2>2. attempts' \in 0 .. MaxAttempts
    <3>1. result = "err" => inFlight
      BY DEF IInv, ControlInv, OneBackfill
    <3> QED
      BY <2>1, <3>1 DEF TrackerTyped
  <2>3. FlagsTyped'
    BY <2>1, FlagsStay, Zenon DEF FlagsTyped
  <2>4. PlacesTyped'
    BY <2>1 DEF PlacesTyped
  <2>5. TrackerTyped'
    BY <2>1, <2>2 DEF TrackerTyped
  <2> QED
    BY <1>0, <2>3, <2>4, <2>5
<1>6. CASE BackfillStep
  <2>1. /\ UNCHANGED <<known, proc, subscription, closed, sync, attempts, done, inFlight, healing, row,
                       gap, tailing, writer, freshDrop, starts, purges>>
        /\ bf' \in {"none", "reading", "read", "reporting"}
        /\ outcome' \in {outcome, "ok", "err"} /\ result' \in {result, outcome}
    <3>1. CASE BackfillOpens \/ \E i \in Line : BackfillReads(i)
      BY <3>1, Zenon DEF BackfillOpens, BackfillReads
    <3>2. CASE BackfillEnds \/ BackfillFails \/ BackfillGivesUp
      BY <3>2, Zenon DEF BackfillEnds, BackfillFails, BackfillGivesUp
    <3>3. CASE BackfillSendsDone \/ BackfillReports
      BY <3>3, Zenon DEF BackfillSendsDone, BackfillReports
    <3> QED
      BY <1>6, <3>1, <3>2, <3>3, Zenon DEF BackfillStep
  <2>2. failures' \in 0 .. MaxFailures
    <3>1. failures' = failures \/ (failures < MaxFailures /\ failures' = failures + 1)
      BY <1>6, Zenon DEF BackfillStep, BackfillOpens, BackfillReads, BackfillEnds, BackfillFails,
         BackfillGivesUp, BackfillSendsDone, BackfillReports
    <3> QED
      BY <3>1 DEF TrackerTyped
  <2>3. FlagsTyped'
    BY <2>1, FlagsStay, Zenon DEF FlagsTyped
  <2>4. PlacesTyped'
    BY <2>1 DEF PlacesTyped
  <2>5. TrackerTyped'
    BY <2>1, <2>2 DEF TrackerTyped
  <2> QED
    BY <1>0, <2>3, <2>4, <2>5
<1>7. CASE Purge
  <2>1. /\ UNCHANGED <<known, proc, subscription, closed, sync, attempts, done, inFlight, healing,
                       tailing, writer, bf, outcome, result, failures, starts>>
        /\ row' = FALSE /\ gap' = 0 /\ freshDrop' = FALSE
        /\ purges < MaxPurges /\ purges' = purges + 1
    BY <1>7, Zenon DEF Purge
  <2>2. FlagsTyped'
    BY <2>1, FlagsStay, Zenon
  <2>3. PlacesTyped'
    BY <2>1 DEF PlacesTyped
  <2>4. TrackerTyped'
    BY <2>1 DEF TrackerTyped
  <2> QED
    BY <1>0, <2>2, <2>3, <2>4
<1>8. CASE Start
  <2>1. /\ UNCHANGED <<row, failures, purges>> /\ known' = row
        /\ tailing' = FALSE /\ closed' = FALSE /\ done' = FALSE /\ freshDrop' = FALSE
        /\ inFlight' = FALSE
    BY <1>8, Zenon DEF Start, Fresh
  <2>2. FlagsTyped'
    BY <2>1, FlagsStay, Zenon
  <2>3. PlacesTyped'
    BY <1>8, SMT DEF Start, Fresh, PlacesTyped
  <2>4. TrackerTyped'
    BY <1>8, <2>1, SMT DEF Start, Fresh, TrackerTyped
  <2> QED
    BY <1>0, <2>2, <2>3, <2>4
<1>9. CASE Crash \/ Exit
  BY <1>9, GoneControl DEF Crash, Exit
<1>10. CASE Cancel \/ Unsubscribe \/ SinkReleased \/ CloseQueue \/ UNCHANGED vars
  <2>1. /\ UNCHANGED <<known, sync, attempts, done, inFlight, healing, row, gap, writer, bf, outcome,
                       result, freshDrop, failures, starts, purges>>
        /\ tailing' \in {tailing, FALSE} /\ closed' \in {closed, TRUE}
        /\ subscription' \in {subscription, "ended", "released"}
        /\ proc' = proc \/ (proc' = "stopping" /\ proc = "up")
    BY <1>10, Zenon DEF Cancel, Unsubscribe, SinkReleased, CloseQueue, vars
  <2>2. FlagsTyped'
    BY <2>1, FlagsStay, Zenon DEF FlagsTyped
  <2>3. PlacesTyped'
    BY <2>1 DEF PlacesTyped
  <2>4. TrackerTyped'
    BY <2>1 DEF TrackerTyped
  <2> QED
    BY <1>0, <2>2, <2>3, <2>4
<1> QED
  BY <1>1, <1>2, <1>3, <1>4, <1>5, <1>6, <1>7, <1>8, <1>9, <1>10
     DEF Next, HubStep, WriterStep, SyncStep, ShutdownStep

-----------------------------------------------------------------------------
(* The rows and their marks.                                               *)

LEMMA StoreInit == Init => StoreInv
<1> SUFFICES ASSUME Init PROVE StoreInv
  OBVIOUS
<1>1. wm = ZeroPoint /\ rows = [i \in Line |-> 0] /\ queue = << >> /\ batch = << >> /\ log = << >>
  BY DEF Init
<1>2. StoreTyped
  BY <1>1, Sizes DEF Init, StoreTyped, Points, ZeroPoint
<1>3. Written
  BY <1>1, QueueSets DEF Init, Written
<1>4. StoredOnce /\ \A s \in Streams : MarkBacked(s)
  BY <1>1 DEF StoredOnce, MarkBacked, ZeroPoint
<1> QED
  BY <1>2, <1>3, <1>4 DEF StoreInv

\* A step that leaves the log, the rows and the marks alone.
LEMMA RowsStay ==
    ASSUME StoreInv, StoreTyped', UNCHANGED <<log, rows, wm>>,
           pending' \union unread' \union downtime' \union idleDrops' \subseteq 1 .. Len(log),
           ToSet(queue') \union ToSet(batch') \subseteq 0 .. Len(log)
    PROVE  StoreInv'
<1>1. Written'
  BY DEF StoreInv, Written
<1>2. StoredOnce'
  BY DEF StoreInv, StoredOnce
<1>3. \A s \in Streams : MarkBacked(s)'
  BY DEF StoreInv, MarkBacked
<1> QED
  BY <1>1, <1>2, <1>3 DEF StoreInv

\* What the engine writes next is newer than all there is.
LEMMA EmitRows == StoreInv /\ (\E s \in Streams : Emit(s)) => StoreInv'
<1> SUFFICES ASSUME StoreInv, NEW s \in Streams, Emit(s) PROVE StoreInv'
  OBVIOUS
<1>1. /\ Len(log) < MaxLines /\ log' = Append(log, s)
      /\ pending' \in {pending, pending \union {Len(log) + 1}}
      /\ downtime' \in {downtime, downtime \union {Len(log) + 1}}
      /\ UNCHANGED <<lastDown, rows, wm, queue, batch, resume, unread, idleDrops, busyDrops, purgedTo>>
  BY Zenon DEF Emit, database, channel, backfill, history, drops
<1>2. /\ log' \in Seq(Streams) /\ Len(log') = Len(log) + 1 /\ Len(log) \in Nat
      /\ \A i \in 1 .. Len(log) : log'[i] = log[i]
  BY <1>1, AppendProperties, LenProperties DEF StoreInv, StoreTyped
<1>3. StoreTyped'
  BY <1>1, <1>2, Sizes DEF StoreInv, StoreTyped
<1>4. 1 .. Len(log) \subseteq 1 .. Len(log') /\ 0 .. Len(log) \subseteq 0 .. Len(log')
      /\ Len(log) + 1 \in 1 .. Len(log')
  BY <1>2
<1>5. Written'
  <2>1. \A i \in Line : rows[i] > 0 => i <= Len(log')
    BY <1>2, Sizes DEF StoreInv, Written, Line
  <2> QED
    BY <1>1, <1>4, <2>1 DEF StoreInv, Written
<1>6. \A i \in Line : rows[i] > 0 => log'[i] = log[i]
  BY <1>2, Sizes DEF StoreInv, Written, Line
<1>7. StoredOnce'
  BY <1>1 DEF StoreInv, StoredOnce
<1>8. \A t \in Streams : MarkBacked(t)'
  BY <1>1, <1>6 DEF StoreInv, MarkBacked
<1> QED
  BY <1>3, <1>5, <1>7, <1>8 DEF StoreInv

\* The newest line inserted for a stream is its mark, unless the mark is newer.
LEMMA AdvancedMark ==
    ASSUME StoreInv, NEW lines \in SUBSET Line, NEW s \in Streams
    PROVE  LET m == Advanced(lines)[s]
           IN  /\ m = wm[s] \/ (m \in Inserted(lines) /\ log[m] = s)
               /\ wm[s] <= m /\ m \in 0 .. MaxLines
               /\ \A i \in Inserted(lines) : log[i] = s => i <= m
<1> DEFINE S == {wm[s]} \union {i \in Inserted(lines) : log[i] = s}
<1>1. Advanced(lines)[s] = Max(S)
  BY DEF Advanced
<1>2. wm[s] \in 0 .. MaxLines /\ Inserted(lines) \subseteq 0 .. MaxLines
  <2>1. wm[s] \in 0 .. MaxLines
    BY DEF StoreInv, StoreTyped, Points
  <2>2. Inserted(lines) \subseteq lines /\ Line \subseteq 0 .. MaxLines
    BY Sizes DEF Inserted, Line
  <2> QED
    BY <2>1, <2>2
<1>3. S \in SUBSET (0 .. MaxLines) /\ S # {}
  BY <1>2
<1>4. Max(S) \in S /\ \A y \in S : y <= Max(S)
  <2> HIDE DEF S
  <2> QED
    BY <1>3, Sizes, MaxOf
<1> QED
  BY <1>1, <1>2, <1>4

LEMMA CommitRows == StoreInv /\ Commit => StoreInv'
<1> SUFFICES ASSUME StoreInv, Commit PROVE StoreInv'
  OBVIOUS
<1>1. PICK lines : lines = LinesOf(batch) /\ lines \in SUBSET Line
  BY LinesOfBatch DEF StoreInv
<1>0. PICK ins : ins = Inserted(lines)
  OBVIOUS
<1>2. /\ rows' = [i \in Line |-> IF i \in ins THEN rows[i] + 1 ELSE rows[i]]
      /\ wm' = Advanced(lines) /\ batch' = << >>
      /\ idleDrops' = idleDrops \ lines /\ busyDrops' = busyDrops \ lines
      /\ UNCHANGED <<log, downtime, lastDown, pending, queue, resume, unread, purgedTo>>
  BY <1>0, <1>1, Zenon DEF Commit, engine, hub, channel, backfill
<1>3. \A i \in Line : rows[i] \in Nat /\ rows[i] <= 1
  BY DEF StoreInv, StoreTyped, StoredOnce
<1>4. \A i \in Line :
        /\ i \in ins <=> (i \in lines /\ rows[i] = 0)
        /\ i \in ins => rows'[i] = 1
        /\ i \notin ins => rows'[i] = rows[i]
  BY <1>0, <1>1, <1>2, <1>3 DEF Inserted
<1>5. \A s \in Streams :
        /\ wm'[s] = wm[s] \/ (wm'[s] \in ins /\ log[wm'[s]] = s)
        /\ wm[s] <= wm'[s] /\ wm'[s] \in 0 .. MaxLines /\ wm[s] \in 0 .. MaxLines
        /\ \A i \in ins : log[i] = s => i <= wm'[s]
  BY <1>0, <1>1, <1>2, AdvancedMark DEF StoreInv, StoreTyped, Points
<1>6. StoreTyped'
  <2>1. rows' \in [Line -> Nat]
    BY <1>2, <1>3
  <2>2. wm' \in Points
    BY <1>2, <1>5 DEF Advanced, Points
  <2> QED
    BY <1>2, <2>1, <2>2, NothingQueued, Sizes DEF StoreInv, StoreTyped
<1>7. \A i \in lines : i <= Len(log)
  BY <1>1 DEF StoreInv, Written, LinesOf
<1>8. Written'
  <2>1. ASSUME NEW i \in Line, rows'[i] > 0 PROVE i <= Len(log)
    <3>1. i \in lines \/ rows[i] > 0
      BY <1>4, <2>1
    <3> QED
      BY <1>7, <3>1 DEF StoreInv, Written
  <2> QED
    BY <1>2, <2>1, QueueSets DEF StoreInv, Written
<1>9. StoredOnce'
  <2> SUFFICES ASSUME NEW i \in Line PROVE rows'[i] <= 1
    BY DEF StoredOnce
  <2>1. CASE i \in ins
    BY <1>4, <2>1
  <2>2. CASE i \notin ins
    BY <1>3, <1>4, <2>2
  <2> QED
    BY <2>1, <2>2
<1>10. ASSUME NEW s \in Streams PROVE MarkBacked(s)'
  <2>1. wm'[s] # 0 => wm'[s] \in Line /\ rows'[wm'[s]] > 0 /\ log[wm'[s]] = s
    <3>1. CASE wm'[s] = wm[s] /\ wm[s] # 0
      <4>1. PICK i \in Line : i = wm[s] /\ rows[i] > 0 /\ log[i] = s
        BY <3>1 DEF StoreInv, MarkBacked
      <4>2. i \notin ins
        BY <1>3, <1>4, <4>1
      <4> QED
        BY <1>4, <3>1, <4>1, <4>2
    <3>2. CASE wm'[s] \in ins /\ log[wm'[s]] = s
      BY <1>0, <1>1, <1>4, <3>2 DEF Inserted
    <3> QED
      BY <1>5, <3>1, <3>2
  <2>2. ASSUME NEW i \in Line, rows'[i] > 0, log[i] = s PROVE i <= wm'[s]
    <3>1. CASE i \in ins
      BY <1>5, <2>2, <3>1
    <3>2. CASE rows[i] > 0
      <4>1. i <= wm[s] /\ i \in Nat
        BY <2>2, <3>2, Sizes DEF StoreInv, MarkBacked, Line
      <4> QED
        BY <1>5, <4>1
    <3>3. i \in ins \/ rows[i] > 0
      BY <1>4, <2>2
    <3> QED
      BY <3>1, <3>2, <3>3
  <2> QED
    BY <1>2, <2>1, <2>2 DEF MarkBacked
<1> QED
  BY <1>6, <1>8, <1>9, <1>10 DEF StoreInv

\* A lowest mark is one of the marks.
LEMMA WatermarkIsAMark ==
    ASSUME NEW p \in Points
    PROVE  /\ Watermark(p) \in Nat
           /\ Watermark(p) # 0 => \E s \in Streams : Watermark(p) = p[s]
<1> DEFINE marks == {p[s] : s \in Streams} \ {0}
<1>1. marks \in SUBSET Nat
  BY Sizes DEF Points
<1>2. Watermark(p) = IF marks = {} THEN 0 ELSE Min(marks)
  BY DEF Watermark
<1>3. \A m \in marks : \E s \in Streams : m = p[s]
  OBVIOUS
<1>4. marks # {} => Min(marks) \in marks
  <2> HIDE DEF marks
  <2> QED
    BY <1>1, MinOf
<1> HIDE DEF marks
<1>5. CASE marks = {}
  BY <1>2, <1>5
<1>6. CASE marks # {}
  <2>1. PICK m \in marks : Watermark(p) = m
    BY <1>2, <1>4, <1>6
  <2> QED
    BY <1>1, <1>3, <2>1
<1> QED
  BY <1>5, <1>6

\* A backfill starts no later than the gap and no later than the lowest mark.
LEMMA SinceReaches ==
    ASSUME StoreTyped, gap \in {0} \union Line
    PROVE  /\ Since \in Nat \ {0} /\ ResumePoint \in Points
           /\ gap # 0 => Since <= gap
           /\ Watermark(ResumePoint) = 0 => Since = 1
           /\ Watermark(ResumePoint) # 0 => Since <= Watermark(ResumePoint)
<1>1. ResumePoint \in Points
  <2>1. ZeroPoint \in Points
    BY Sizes DEF ZeroPoint, Points
  <2> QED
    BY <2>1 DEF ResumePoint, StoredPoint, StoreTyped
<1>2. PICK mark \in Nat : mark = Watermark(ResumePoint)
  BY <1>1, WatermarkIsAMark
<1>3. \A t \in Nat \ {0} : Before(t) \in Nat \ {0} /\ Before(t) <= t
  BY Sizes DEF Before
<1>4. PICK from : from = IF mark = 0 THEN 1 ELSE Before(mark)
  OBVIOUS
<1>5. Since = IF gap # 0 /\ Before(gap) < from THEN Before(gap) ELSE from
  BY <1>2, <1>4 DEF Since
<1>6. from \in Nat \ {0} /\ (mark = 0 => from = 1) /\ (mark # 0 => from <= mark)
  BY <1>2, <1>3, <1>4
<1>7. gap # 0 => gap \in Nat \ {0} /\ Before(gap) \in Nat \ {0} /\ Before(gap) <= gap
  BY <1>3, Sizes DEF Line
<1> QED
  BY <1>1, <1>2, <1>5, <1>6, <1>7

LEMMA OpensRows == StoreInv /\ TrackerTyped /\ BackfillOpens => StoreInv'
<1> SUFFICES ASSUME StoreInv, TrackerTyped, BackfillOpens PROVE StoreInv'
  OBVIOUS
<1>1. /\ unread' = Since .. Len(log)
      /\ UNCHANGED <<log, rows, wm, downtime, lastDown, pending, queue, batch, resume, idleDrops,
                     busyDrops, purgedTo>>
  BY Zenon DEF BackfillOpens, engine, database, hub, channel, history, drops
<1>2. Since \in Nat \ {0} /\ Len(log) \in Nat
  BY SinceReaches, LenProperties DEF StoreInv, StoreTyped, TrackerTyped
<1>3. unread' \subseteq 1 .. Len(log)
  BY <1>1, <1>2
<1>4. StoreTyped'
  BY <1>1 DEF StoreInv, StoreTyped
<1> QED
  BY <1>1, <1>3, <1>4, RowsStay DEF StoreInv, Written

\* A message goes on the queue: a line that is in the log, or the end of a backfill.
LEMMA QueueGrows ==
    ASSUME StoreInv, NEW m \in Message, m <= Len(log), queue' = queue \/ (Room /\ queue' = Append(queue, m)),
           UNCHANGED <<log, rows, wm, downtime, lastDown, batch, resume, purgedTo>>,
           pending' \subseteq pending, unread' \subseteq unread,
           idleDrops' \union busyDrops' \subseteq idleDrops \union busyDrops \union {m},
           idleDrops' \subseteq 1 .. Len(log), busyDrops' \subseteq Line
    PROVE  StoreInv'
<1>1. queue \in Seq(Message) /\ Len(queue) \in Nat /\ Len(queue) <= IngestBuffer /\ Len(log) \in Nat
  BY LenProperties DEF StoreInv, StoreTyped
<1>2. queue' \in Seq(Message) /\ Len(queue') <= IngestBuffer
  BY <1>1, AppendProperties, Sizes DEF Room
<1>3. StoreTyped'
  BY <1>2 DEF StoreInv, StoreTyped
<1>4. m \in 0 .. Len(log)
  BY <1>1, Sizes DEF Message, Line, Done
<1>5. ToSet(queue') \subseteq ToSet(queue) \union {m}
  <2>1. ToSet(Append(queue, m)) = ToSet(queue) \union {m}
    BY <1>1, QueueSets
  <2>2. CASE queue' = queue
    BY <2>2
  <2>3. CASE queue' = Append(queue, m)
    BY <2>1, <2>3
  <2> QED
    BY <2>2, <2>3
<1>6. ToSet(queue') \union ToSet(batch') \subseteq 0 .. Len(log)
  BY <1>4, <1>5 DEF StoreInv, Written
<1> QED
  BY <1>3, <1>6, RowsStay DEF StoreInv, Written

\* Drops are of lines under way.
LEMMA DropsRecorded ==
    ASSUME StoreInv, NEW lines \in SUBSET Line, lines \subseteq 1 .. Len(log), RecordDrops(lines)
    PROVE  idleDrops' \subseteq 1 .. Len(log) /\ busyDrops' \subseteq Line
BY DEF RecordDrops, StoreInv, StoreTyped, Written

LEMMA SinkRows == ASSUME StoreInv, NEW i \in Line, Sink(i) PROVE StoreInv'
<1>1. /\ i \in pending /\ pending' = pending \ {i}
      /\ (Room /\ queue' = Append(queue, i) /\ UNCHANGED drops) \/ (MarkGap({i}) /\ queue' = queue)
      /\ UNCHANGED <<log, rows, wm, downtime, lastDown, batch, resume, unread, purgedTo>>
  BY Zenon DEF Sink, NextOfItsStream, engine, database, backfill
<1>2. i \in 1 .. Len(log) /\ i \in Message
  BY <1>1 DEF StoreInv, Written, Message
<1>3. idleDrops' \subseteq 1 .. Len(log) /\ busyDrops' \subseteq Line
  <2>1. CASE MarkGap({i})
    <3>1. RecordDrops({i}) /\ {i} \in SUBSET Line /\ {i} \subseteq 1 .. Len(log)
      BY <1>2, <2>1 DEF MarkGap
    <3> QED
      BY <3>1, DropsRecorded
  <2>2. CASE UNCHANGED drops
    <3>1. UNCHANGED <<idleDrops, busyDrops>>
      BY <2>2, Zenon DEF drops
    <3> QED
      BY <3>1 DEF StoreInv, StoreTyped, Written
  <2> QED
    BY <1>1, <2>1, <2>2
<1>4. idleDrops' \union busyDrops' \subseteq idleDrops \union busyDrops \union {i}
  BY <1>1, Zenon DEF MarkGap, RecordDrops, drops
<1>5. i <= Len(log) /\ pending' \subseteq pending /\ unread' \subseteq unread
  BY <1>1, <1>2
<1> QED
  BY <1>1, <1>2, <1>3, <1>4, <1>5, QueueGrows

LEMMA FailsRows == StoreInv /\ CommitFails => StoreInv'
<1> SUFFICES ASSUME StoreInv, CommitFails PROVE StoreInv'
  OBVIOUS
<1>1. PICK lines : lines = LinesOf(batch) /\ lines \in SUBSET Line
  BY LinesOfBatch DEF StoreInv
<1>2. /\ RecordDrops(lines) /\ batch' = << >>
      /\ UNCHANGED <<log, rows, wm, downtime, lastDown, pending, queue, resume, unread, purgedTo>>
  BY <1>1, Zenon DEF CommitFails, MarkGap, engine, database, hub, channel, backfill
<1>3. lines \subseteq 1 .. Len(log)
  BY <1>1, Sizes DEF StoreInv, Written, LinesOf, Line, Done
<1>4. idleDrops' \subseteq 1 .. Len(log) /\ busyDrops' \subseteq Line
  BY <1>1, <1>2, <1>3, DropsRecorded
<1>5. StoreTyped'
  BY <1>2, <1>4, NothingQueued, Sizes DEF StoreInv, StoreTyped
<1>6. ToSet(queue') \union ToSet(batch') \subseteq 0 .. Len(log)
  BY <1>2, QueueSets DEF StoreInv, Written
<1> QED
  BY <1>2, <1>4, <1>5, <1>6, RowsStay DEF StoreInv, Written

LEMMA ReceiveRows == StoreInv /\ Receive => StoreInv'
<1> SUFFICES ASSUME StoreInv, Receive PROVE StoreInv'
  OBVIOUS
<1>1. /\ queue # << >> /\ Len(batch) < BatchLines
      /\ batch' = Append(batch, Head(queue)) /\ queue' = Tail(queue)
      /\ UNCHANGED <<log, rows, wm, downtime, lastDown, pending, resume, unread, idleDrops,
                     busyDrops, purgedTo>>
  BY Zenon DEF Receive, engine, database, hub, backfill, history, drops
<1>2. queue \in Seq(Message) /\ batch \in Seq(Message) /\ Len(queue) <= IngestBuffer
  BY DEF StoreInv, StoreTyped
<1>3. /\ Head(queue) \in Message /\ queue' \in Seq(Message) /\ Len(queue') <= IngestBuffer
  <2>1. /\ Head(queue) \in Message /\ Tail(queue) \in Seq(Message)
        /\ Len(Tail(queue)) = Len(queue) - 1 /\ Len(queue) \in Nat
    BY <1>1, <1>2, HeadTailProperties, LenProperties
  <2> QED
    BY <1>1, <1>2, <2>1, Sizes
<1>4. batch' \in Seq(Message) /\ Len(batch') <= BatchLines
  <2>1. Len(batch) \in Nat
    BY <1>2, LenProperties
  <2> QED
    BY <1>1, <1>2, <1>3, <2>1, AppendProperties, Sizes
<1>5. StoreTyped'
  BY <1>1, <1>3, <1>4 DEF StoreInv, StoreTyped
<1>6. /\ ToSet(queue) = {Head(queue)} \union ToSet(queue')
      /\ ToSet(batch') = ToSet(batch) \union {Head(queue)}
  BY <1>1, <1>2, QueueSets
<1>7. ToSet(queue') \union ToSet(batch') \subseteq 0 .. Len(log)
  BY <1>6 DEF StoreInv, Written
<1> QED
  BY <1>1, <1>5, <1>7, RowsStay DEF StoreInv, Written

LEMMA PurgeRows == StoreInv /\ Purge => StoreInv'
<1> SUFFICES ASSUME StoreInv, Purge PROVE StoreInv'
  OBVIOUS
<1>1. /\ purgedTo' = Max({purgedTo} \union {i \in Line : rows[i] > 0})
      /\ rows' = [i \in Line |-> 0] /\ wm' = ZeroPoint /\ resume' = NoPoint
      /\ idleDrops' = {} /\ busyDrops' = {} /\ downtime' = {}
      /\ UNCHANGED <<log, lastDown, pending, queue, batch, unread>>
  BY Zenon DEF Purge, hub, channel, backfill
<1>2. purgedTo' \in {0} \union Line
  <2> DEFINE S == {purgedTo} \union {i \in Line : rows[i] > 0}
  <2>1. S \in SUBSET (0 .. MaxLines) /\ S # {} /\ S \subseteq {0} \union Line
    BY Sizes DEF StoreInv, StoreTyped, Line
  <2>2. purgedTo' = Max(S)
    BY <1>1
  <2> HIDE DEF S
  <2> QED
    BY <2>1, <2>2, MaxOf, Sizes
<1>3. StoreTyped'
  BY <1>1, <1>2, Sizes DEF StoreInv, StoreTyped, Points, ZeroPoint
<1>4. Written'
  BY <1>1 DEF StoreInv, Written
<1>5. StoredOnce' /\ \A s \in Streams : MarkBacked(s)'
  BY <1>1 DEF StoredOnce, MarkBacked, ZeroPoint
<1> QED
  BY <1>3, <1>4, <1>5 DEF StoreInv

\* What outlives a process is the engine's log and the database.
LEMMA FreshRows ==
    ASSUME StoreInv, Fresh, resume' \in Points \union {NoPoint}, lastDown' \in {lastDown, Len(log)},
           UNCHANGED <<log, downtime, rows, wm, purgedTo>>
    PROVE  StoreInv'
<1>1. /\ pending' = {} /\ queue' = << >> /\ batch' = << >> /\ unread' = {}
      /\ idleDrops' = {} /\ busyDrops' = {}
  BY DEF Fresh
<1>2. lastDown' \in 0 .. MaxLines
  BY LenProperties, Sizes DEF StoreInv, StoreTyped
<1>3. StoreTyped'
  BY <1>1, <1>2, NothingQueued, Sizes DEF StoreInv, StoreTyped
<1>4. ToSet(queue') \union ToSet(batch') \subseteq 0 .. Len(log)
  BY <1>1, QueueSets
<1> QED
  BY <1>1, <1>3, <1>4, RowsStay DEF StoreInv, Written

LEMMA LivesRows == StoreInv /\ (Gone \/ Start) => StoreInv'
<1> SUFFICES ASSUME StoreInv, Gone \/ Start PROVE StoreInv'
  OBVIOUS
<1>1. CASE Gone
  <2>1. /\ Fresh /\ resume' = NoPoint /\ lastDown' = Len(log)
        /\ UNCHANGED <<log, downtime, rows, wm, purgedTo>>
    BY <1>1, Zenon DEF Gone, database
  <2> QED
    BY <2>1, FreshRows
<1>2. CASE Start
  <2>1. /\ Fresh /\ resume' = IF row THEN wm ELSE NoPoint
        /\ UNCHANGED <<log, downtime, lastDown, rows, wm, purgedTo>>
    BY <1>2, Zenon DEF Start, database
  <2>2. resume' \in Points \union {NoPoint}
    BY <2>1 DEF StoreInv, StoreTyped
  <2> QED
    BY <2>1, <2>2, FreshRows
<1> QED
  BY <1>1, <1>2

\* The other steps leave the lines where they are, or lose some that are under way.
LEMMA QuietRows ==
    ASSUME StoreInv, pending' \subseteq pending, resume' \in {resume, NoPoint},
           UNCHANGED <<log, rows, wm, downtime, lastDown, queue, batch, unread, idleDrops, busyDrops,
                       purgedTo>>
    PROVE  StoreInv'
<1>1. StoreTyped'
  BY DEF StoreInv, StoreTyped
<1> QED
  BY <1>1, RowsStay DEF StoreInv, Written

LEMMA StoreSound == StoreInv /\ TrackerTyped /\ [Next]_vars => StoreInv'
<1> SUFFICES ASSUME StoreInv, TrackerTyped, [Next]_vars PROVE StoreInv'
  OBVIOUS
<1> USE DEF engine, database, hub, channel, tracker, backfill, history, drops, bounds
<1>1. CASE TailAttach \/ TailBreaks \/ WriterExits \/ Cancel \/ Unsubscribe \/ SinkReleased \/ CloseQueue
           \/ UNCHANGED vars
  <2>1. /\ pending' \in {pending, {}}
        /\ UNCHANGED <<log, rows, wm, downtime, lastDown, queue, batch, resume, unread, idleDrops,
                       busyDrops, purgedTo>>
    BY <1>1, Zenon DEF TailAttach, TailBreaks, WriterExits, Cancel, Unsubscribe, SinkReleased,
       CloseQueue, vars
  <2> QED
    BY <2>1, QuietRows
<1>2. CASE SyncStep
  <2>1. /\ resume' \in {resume, NoPoint}
        /\ UNCHANGED <<log, rows, wm, downtime, lastDown, pending, queue, batch, unread, idleDrops,
                       busyDrops, purgedTo>>
    BY <1>2, Zenon DEF SyncStep, SyncBegins, SyncSchedules, SyncSpawns, SyncFails, ResultOk,
       ResultErr, SyncStops
  <2> QED
    BY <2>1, QuietRows
<1>3. CASE BackfillEnds \/ BackfillFails \/ BackfillGivesUp \/ BackfillReports
  <2>1. UNCHANGED <<log, rows, wm, downtime, lastDown, pending, queue, batch, resume, unread,
                    idleDrops, busyDrops, purgedTo>>
    BY <1>3, Zenon DEF BackfillEnds, BackfillFails, BackfillGivesUp, BackfillReports
  <2> QED
    BY <2>1, QuietRows
<1>4. ASSUME NEW m \in Message, m <= Len(log), queue' = queue \/ (Room /\ queue' = Append(queue, m)),
             unread' \subseteq unread,
             UNCHANGED <<log, rows, wm, downtime, lastDown, pending, batch, resume, idleDrops,
                         busyDrops, purgedTo>>
      PROVE  StoreInv'
  <2>1. idleDrops' \subseteq 1 .. Len(log) /\ busyDrops' \subseteq Line
    BY <1>4 DEF StoreInv, StoreTyped, Written
  <2> QED
    BY <1>4, <2>1, QueueGrows
<1>5. ASSUME NEW i \in Line, BackfillReads(i) PROVE StoreInv'
  <2>1. /\ i \in unread /\ unread' = unread \ {i}
        /\ queue' = queue \/ (Room /\ queue' = Append(queue, i))
        /\ UNCHANGED <<log, rows, wm, downtime, lastDown, pending, batch, resume, idleDrops,
                       busyDrops, purgedTo>>
    BY <1>5, Zenon DEF BackfillReads, NextOfItsStream
  <2>2. i \in Message /\ i <= Len(log)
    BY <2>1 DEF StoreInv, Written, Message
  <2> QED
    BY <1>4, <2>1, <2>2
<1>6. CASE BackfillSendsDone
  <2>1. /\ queue' = queue \/ (Room /\ queue' = Append(queue, Done))
        /\ UNCHANGED <<log, rows, wm, downtime, lastDown, pending, batch, resume, unread, idleDrops,
                       busyDrops, purgedTo>>
    BY <1>6, Zenon DEF BackfillSendsDone
  <2>2. Done \in Message /\ Done <= Len(log)
    BY LenProperties DEF StoreInv, StoreTyped, Message, Done
  <2> QED
    BY <1>4, <2>1, <2>2
<1> QED
  BY <1>1, <1>2, <1>3, <1>5, <1>6, EmitRows, SinkRows, ReceiveRows, CommitRows, FailsRows, OpensRows,
     PurgeRows, LivesRows
     DEF Next, EngineStep, HubStep, WriterStep, BackfillStep, ShutdownStep, Crash, Exit

\* A stream's mark is the maximum of what is stored of it.
LEMMA MarksAgree == StoreInv => WatermarkBacked
<1> SUFFICES ASSUME StoreInv, NEW s \in Streams
             PROVE  wm[s] = Max({0} \union {i \in Line : rows[i] > 0 /\ log[i] = s})
  BY DEF WatermarkBacked
<1> DEFINE S == {0} \union {i \in Line : rows[i] > 0 /\ log[i] = s}
<1>1. S \in SUBSET (0 .. MaxLines)
  BY Sizes DEF Line
<1>2. wm[s] \in 0 .. MaxLines
  BY DEF StoreInv, StoreTyped, Points
<1>3. wm[s] \in S
  BY <1>2 DEF StoreInv, MarkBacked
<1>4. \A i \in S : i <= wm[s]
  BY <1>2 DEF StoreInv, MarkBacked
<1> HIDE DEF S
<1>5. Max(S) = wm[s]
  BY <1>1, <1>3, <1>4, Sizes, MaxIs
<1> QED
  BY <1>5 DEF S

StoreSafe == FlagsTyped /\ PlacesTyped /\ TrackerTyped /\ StoreInv /\ IInv

LEMMA RowsAgree == StoreSafe => RowsAndMarksAgree
<1> SUFFICES ASSUME StoreSafe PROVE RowsAndMarksAgree
  OBVIOUS
<1>1. Len(log) \in Nat /\ 1 .. Len(log) \subseteq Line
  BY LenProperties, Sizes DEF StoreSafe, StoreInv, StoreTyped, Line
<1>2. pending \subseteq Line /\ unread \subseteq Line /\ downtime \subseteq Line /\ idleDrops \subseteq Line
  BY <1>1 DEF StoreSafe, StoreInv, Written
<1>3. producers \in 0 .. 2
  BY DEF StoreSafe, IInv, ControlInv, ProducersCounted
<1>4. TypeOK
  BY <1>2, <1>3, Zenon DEF StoreSafe, StoreInv, StoreTyped, FlagsTyped, PlacesTyped, TrackerTyped, TypeOK
<1> QED
  BY <1>4, MarksAgree DEF StoreSafe, StoreInv, RowsAndMarksAgree

LEMMA StoreSafeSound == (Init => StoreSafe) /\ (StoreSafe /\ [Next]_vars => StoreSafe')
<1>1. Init => StoreSafe
  BY ControlInit, StoreInit, InitSound DEF StoreSafe
<1>2. StoreSafe /\ [Next]_vars => StoreSafe'
  BY ControlSound, StoreSound, StepSound DEF StoreSafe, ControlStays, StoreInv
<1> QED
  BY <1>1, <1>2

\* Rows and watermarks agree (internal/logstore: ingest.go, purge.go): however often
\* and in whatever order live delivery and backfills bring a line, whatever transaction
\* fails, is cut short by a crash or purges the container, no line is stored twice and
\* each stream's watermark is its newest stored line.
THEOREM RowsAndMarksAlwaysAgree == Spec => []RowsAndMarksAgree
BY StoreSafeSound, RowsAgree, PTL DEF Spec

-----------------------------------------------------------------------------
(***************************************************************************)
(* What live delivery missed.  A line dropped while no backfill was in     *)
(* flight is on its way again, or at or after the gap; and a read that     *)
(* began since reaches it.  A line of the last downtime is on its way, was *)
(* dropped, or the snapshot taken at the start still lies before it.       *)
(***************************************************************************)
InPipe(i) == rows[i] > 0 \/ i \in ToSet(queue) \union ToSet(batch)
\* The read under way has the line before it, or has sent it.
ReadOn(i) ==
    /\ bf = "reading" => InPipe(i) \/ i \in unread
    /\ (bf \in {"read", "reporting"} /\ outcome = "ok") \/ result = "ok" => InPipe(i)
DropSafe(i) == (InPipe(i) \/ (gap # 0 /\ gap <= i)) /\ ReadOn(i)
Snapshot == resume # NoPoint /\ \A s \in Streams : resume[s] <= lastDown
DownSafe(i) == InPipe(i) \/ i \in idleDrops \/ (Snapshot /\ ReadOn(i))
DropsSafe == \A i \in idleDrops : DropSafe(i)
DowntimeSafe == known => \A i \in LastDowntime : DownSafe(i)
SnapshotUsed == done => resume = NoPoint
MarksBehind == \A s \in Streams : wm[s] <= lastDown
MissInv ==
    /\ proc = "up" => DropsSafe /\ DowntimeSafe /\ SnapshotUsed
    /\ proc = "down" => MarksBehind

LEMMA MissOfUp == ASSUME proc = "up", DropsSafe, DowntimeSafe, SnapshotUsed PROVE MissInv
BY DEF MissInv

\* Outside a set of lines, what is missed stays as safe as it was.
LEMMA UpStays ==
    ASSUME MissInv, proc = "up", proc' = "up", UNCHANGED <<known, lastDown, resume>>, done' => done,
           gap \in {0} \union Line, gap' \in {0} \union Line, gap # 0 => gap' # 0 /\ gap' <= gap,
           idleDrops' \subseteq Line, downtime' \subseteq Line,
           NEW X,
           \A i \in Line \ X : /\ InPipe(i) => InPipe(i)'
                               /\ ReadOn(i) => ReadOn(i)'
                               /\ i \in idleDrops <=> i \in idleDrops'
                               /\ i \in LastDowntime' => i \in LastDowntime,
           \A i \in X : /\ i \in idleDrops' => DropSafe(i)'
                        /\ i \in LastDowntime' => DownSafe(i)'
    PROVE  MissInv'
<1>1. DropsSafe /\ DowntimeSafe /\ SnapshotUsed
  BY DEF MissInv
<1>2. ASSUME NEW i \in idleDrops' PROVE DropSafe(i)'
  <2>1. CASE i \in X
    BY <1>2, <2>1
  <2>2. CASE i \notin X
    <3>1. i \in Line /\ i \in idleDrops
      BY <1>2, <2>2
    <3>2. DropSafe(i)
      BY <1>1, <3>1 DEF DropsSafe
    <3>3. (InPipe(i) => InPipe(i)') /\ (ReadOn(i) => ReadOn(i)')
      BY <2>2, <3>1
    <3>4. gap # 0 /\ gap <= i => gap' # 0 /\ gap' <= i
      BY <3>1, Sizes DEF Line
    <3> QED
      BY <3>2, <3>3, <3>4, Zenon DEF DropSafe
  <2> QED
    BY <2>1, <2>2
<1>3. ASSUME known', NEW i \in LastDowntime' PROVE DownSafe(i)'
  <2>1. CASE i \in X
    BY <1>3, <2>1
  <2>2. CASE i \notin X
    <3>1. i \in Line
      BY <1>3 DEF LastDowntime
    <3>2. i \in LastDowntime /\ (InPipe(i) => InPipe(i)') /\ (ReadOn(i) => ReadOn(i)')
          /\ (i \in idleDrops => i \in idleDrops')
      BY <1>3, <2>2, <3>1
    <3>3. DownSafe(i)
      BY <1>1, <1>3, <3>2, Zenon DEF DowntimeSafe
    <3>4. Snapshot => Snapshot'
      BY DEF Snapshot
    <3> QED
      BY <3>2, <3>3, <3>4, Zenon DEF DownSafe
  <2> QED
    BY <2>1, <2>2
<1>4. DropsSafe'
  BY <1>2, Zenon DEF DropsSafe
<1>5. DowntimeSafe'
  BY <1>3, Zenon DEF DowntimeSafe
<1>6. SnapshotUsed'
  BY <1>1, Zenon DEF SnapshotUsed
<1>7. proc' # "down"
  OBVIOUS
<1> QED
  BY <1>4, <1>5, <1>6, <1>7, Zenon DEF MissInv

\* A step that moves no line and marks no gap, but may move the read along.
LEMMA CalmStays ==
    ASSUME MissInv, StoreInv, TrackerTyped, proc = "up",
           UNCHANGED <<proc, known, lastDown, resume, downtime, idleDrops, busyDrops, gap>>,
           done' => done, \A i \in Line : (InPipe(i) => InPipe(i)') /\ (ReadOn(i) => ReadOn(i)')
    PROVE  MissInv'
<1>1. Len(log) \in Nat /\ idleDrops' \subseteq Line /\ downtime' \subseteq Line
  BY LenProperties, Sizes DEF StoreInv, StoreTyped, Written, Line
<1>2. LastDowntime' = LastDowntime
  BY DEF LastDowntime
<1>3. gap \in {0} \union Line /\ (gap # 0 => gap' # 0 /\ gap' <= gap)
  BY Sizes DEF TrackerTyped, Line
<1>4. proc' = "up" /\ gap' \in {0} \union Line
  BY <1>3
<1>5. PICK X : X = {}
  OBVIOUS
<1>6. \A i \in Line \ X : /\ InPipe(i) => InPipe(i)'
                          /\ ReadOn(i) => ReadOn(i)'
                          /\ i \in idleDrops <=> i \in idleDrops'
                          /\ i \in LastDowntime' => i \in LastDowntime
  BY <1>2
<1>7. \A i \in X : /\ i \in idleDrops' => DropSafe(i)'
                   /\ i \in LastDowntime' => DownSafe(i)'
  BY <1>5
<1> QED
  BY <1>1, <1>3, <1>4, <1>6, <1>7, UpStays, Zenon

LEMMA StoppingIsSafe == proc' = "stopping" => MissInv'
BY DEF MissInv
LEMMA DownStays == MissInv /\ proc = "down" /\ UNCHANGED <<proc, wm, lastDown>> => MissInv'
BY DEF MissInv, MarksBehind

\* Neither the lines nor the read are touched.
LEMMA StillStays ==
    ASSUME MissInv, StoreInv, TrackerTyped, proc = "up",
           UNCHANGED <<proc, known, lastDown, resume, downtime, idleDrops, busyDrops, gap>>,
           done' => done, UNCHANGED <<rows, queue, batch, unread, result>>,
           UNCHANGED <<bf, outcome>> \/ bf' = "spawned"
    PROVE  MissInv'
<1>1. \A i \in Line : InPipe(i) => InPipe(i)'
  BY DEF InPipe
<1>2. \A i \in Line : ReadOn(i) => ReadOn(i)'
  BY <1>1 DEF ReadOn, InPipe
<1> QED
  BY <1>1, <1>2, CalmStays, Zenon

\* What the read sends is in the pipe before the read goes on.
LEMMA ReadsStay ==
    ASSUME MissInv, StoreInv, TrackerTyped, proc = "up", proc' = "up", BackfillStep, ~BackfillOpens
    PROVE  MissInv'
<1>1. /\ UNCHANGED <<proc, known, lastDown, resume, downtime, idleDrops, busyDrops, gap, done, rows, batch>>
  BY Zenon DEF BackfillStep, BackfillReads, BackfillEnds, BackfillFails, BackfillGivesUp,
     BackfillSendsDone, BackfillReports, engine, database, history, drops, tracker
<1>2. queue \in Seq(Message)
  BY DEF StoreInv, StoreTyped
<1>3. ASSUME NEW j \in Line, BackfillReads(j) PROVE MissInv'
  <2>1. /\ bf = "reading" /\ unread' = unread \ {j} /\ queue' = Append(queue, j)
        /\ UNCHANGED <<bf, outcome, result>>
    BY <1>3, Zenon DEF BackfillReads
  <2>2. ToSet(queue') = ToSet(queue) \union {j}
    BY <1>2, <2>1, QueueSets
  <2>3. \A i \in Line : InPipe(i) => InPipe(i)'
    BY <1>1, <2>2 DEF InPipe
  <2>4. InPipe(j)'
    BY <2>2 DEF InPipe
  <2>5. \A i \in Line : ReadOn(i) => ReadOn(i)'
    BY <2>1, <2>3, <2>4 DEF ReadOn
  <2> QED
    BY <1>1, <2>3, <2>5, CalmStays, Zenon
<1>4. CASE BackfillSendsDone
  <2>1. /\ bf = "read" /\ bf' = "reporting" /\ queue' = Append(queue, Done)
        /\ UNCHANGED <<unread, outcome, result>>
    BY <1>4, Zenon DEF BackfillSendsDone
  <2>2. ToSet(queue') = ToSet(queue) \union {Done}
    BY <1>2, <2>1, QueueSets
  <2>3. \A i \in Line : InPipe(i) => InPipe(i)'
    BY <1>1, <2>2 DEF InPipe
  <2>4. \A i \in Line : ReadOn(i) => ReadOn(i)'
    BY <2>1, <2>3 DEF ReadOn
  <2> QED
    BY <1>1, <2>3, <2>4, CalmStays, Zenon
<1>5. CASE BackfillEnds \/ BackfillFails \/ BackfillGivesUp \/ BackfillReports
  <2>1. UNCHANGED <<queue, unread>>
    BY <1>5, Zenon DEF BackfillEnds, BackfillFails, BackfillGivesUp, BackfillReports, channel
  <2>2. \A i \in Line : InPipe(i) => InPipe(i)'
    BY <1>1, <2>1 DEF InPipe
  <2>3. \/ bf = "reading" /\ unread = {} /\ bf' = "read" /\ outcome' = "ok" /\ result' = result
        \/ bf' \in {"read", "reporting"} /\ outcome' = "err" /\ result' = result
        \/ bf = "reporting" /\ bf' = "none" /\ result' = outcome /\ outcome' = outcome
    BY <1>5, Zenon DEF BackfillEnds, BackfillFails, BackfillGivesUp, BackfillReports
  <2>4. \A i \in Line : ReadOn(i) => ReadOn(i)'
    BY <2>1, <2>2, <2>3 DEF ReadOn
  <2> QED
    BY <1>1, <2>2, <2>4, CalmStays, Zenon
<1> QED
  BY <1>3, <1>4, <1>5, Zenon DEF BackfillStep

\* A backfill starts before every line that was missed.
LEMMA OpensReach ==
    ASSUME MissInv, StoreInv, TrackerTyped, IInv, proc = "up", BackfillOpens
    PROVE  MissInv'
<1>1. /\ bf = "spawned" /\ bf' = "reading" /\ unread' = Since .. Len(log)
      /\ UNCHANGED <<proc, known, lastDown, resume, downtime, idleDrops, busyDrops, gap, done, rows,
                     queue, batch, outcome, result>>
  BY Zenon DEF BackfillOpens, engine, database, channel, history, drops, tracker
<1>2. result = "none"
  BY <1>1, Zenon DEF IInv, ControlInv, OneBackfill
<1>3. /\ Since \in Nat \ {0} /\ ResumePoint \in Points /\ Len(log) \in Nat
      /\ gap # 0 => Since <= gap
      /\ Watermark(ResumePoint) = 0 => Since = 1
      /\ Watermark(ResumePoint) # 0 => Since <= Watermark(ResumePoint)
  BY SinceReaches, LenProperties DEF StoreInv, StoreTyped, TrackerTyped
<1>4. \A i \in Line : (InPipe(i) => InPipe(i)') /\ (InPipe(i) \/ i \in unread' => ReadOn(i)')
  BY <1>1, <1>2 DEF InPipe, ReadOn
<1>5. DropsSafe /\ DowntimeSafe /\ SnapshotUsed
  BY DEF MissInv
<1>6. ASSUME NEW i \in idleDrops PROVE DropSafe(i)'
  <2>1. i \in 1 .. Len(log) /\ i \in Line
    BY Sizes, <1>3 DEF StoreInv, StoreTyped, Written, Line
  <2>2. CASE InPipe(i)
    BY <1>4, <2>1, <2>2, Zenon DEF DropSafe
  <2>3. CASE ~InPipe(i)
    <3>1. gap # 0 /\ gap <= i
      BY <1>5, <2>3 DEF DropsSafe, DropSafe
    <3>2. i \in unread'
      <4>1. gap \in Nat
        BY Sizes DEF TrackerTyped, Line
      <4> QED
        BY <1>1, <1>3, <2>1, <3>1, <4>1
    <3>3. ReadOn(i)'
      BY <1>4, <2>1, <3>2
    <3> QED
      BY <1>1, <3>1, <3>3 DEF DropSafe
  <2> QED
    BY <2>2, <2>3
<1>7. ASSUME known, NEW i \in LastDowntime PROVE DownSafe(i)'
  <2>1. i \in 1 .. Len(log) /\ i \in Line /\ i > lastDown /\ lastDown \in Nat
    BY Sizes, <1>3 DEF LastDowntime, StoreInv, StoreTyped, Written, Line
  <2>2. CASE InPipe(i) \/ i \in idleDrops
    BY <1>1, <1>4, <2>1, <2>2, Zenon DEF DownSafe
  <2>3. CASE Snapshot
    <3>1. ResumePoint = resume /\ \A s \in Streams : resume[s] <= lastDown
      BY <2>3 DEF Snapshot, ResumePoint
    <3>2. PICK mark \in Nat : mark = Watermark(ResumePoint) /\ (mark # 0 => \E s \in Streams : mark = ResumePoint[s])
      BY <1>3, WatermarkIsAMark
    <3>3. Since <= i
      <4>1. CASE mark = 0
        BY <1>3, <2>1, <3>2, <4>1
      <4>2. CASE mark # 0
        <5>1. PICK s \in Streams : mark = resume[s]
          BY <3>1, <3>2, <4>2
        <5>2. mark <= lastDown /\ Since <= mark
          BY <1>3, <3>1, <3>2, <4>2, <5>1
        <5> QED
          BY <1>3, <2>1, <3>2, <5>2
      <4> QED
        BY <4>1, <4>2
    <3>4. i \in unread'
      BY <1>1, <1>3, <2>1, <3>3
    <3>5. ReadOn(i)' /\ Snapshot'
      BY <1>1, <1>4, <2>1, <2>3, <3>4 DEF Snapshot
    <3> QED
      BY <3>5, Zenon DEF DownSafe
  <2> QED
    BY <1>5, <1>7, <2>2, <2>3, Zenon DEF DowntimeSafe, DownSafe
<1>8. DropsSafe'
  BY <1>1, <1>6, Zenon DEF DropsSafe
<1>9. DowntimeSafe'
  <2>1. LastDowntime' = LastDowntime
    BY <1>1 DEF LastDowntime
  <2> QED
    BY <1>1, <1>7, <2>1, Zenon DEF DowntimeSafe
<1>10. SnapshotUsed'
  BY <1>1, <1>5, Zenon DEF SnapshotUsed
<1>11. proc' # "down"
  BY <1>1
<1> QED
  BY <1>8, <1>9, <1>10, <1>11, Zenon DEF MissInv

\* A drop that meets no backfill in flight is at or after the gap, and there is
\* no read that should have reached it.
LEMMA DropIsSafe ==
    ASSUME TrackerTyped, OneBackfill, NEW lines \in SUBSET Line, MarkGap(lines), UNCHANGED <<bf, result>>
    PROVE  /\ gap' \in {0} \union Line /\ (gap # 0 => gap' # 0 /\ gap' <= gap)
           /\ \A i \in lines : /\ i \in idleDrops' => DropSafe(i)'
                               /\ i \in LastDowntime' => DownSafe(i)'
<1>1. /\ gap' = EarliestDrop(lines)
      /\ idleDrops' = IF inFlight THEN idleDrops \ lines ELSE idleDrops \union lines
      /\ busyDrops' = IF inFlight THEN busyDrops \union lines ELSE busyDrops \ lines
  BY Zenon DEF MarkGap, RecordDrops
<1>2. /\ gap' \in {0} \union Line /\ (gap # 0 => gap' # 0 /\ gap' <= gap)
      /\ \A i \in lines : gap' # 0 /\ gap' <= i
  BY <1>1, GapIsEarliest DEF TrackerTyped
<1>3. ASSUME NEW i \in lines PROVE (i \in idleDrops' => DropSafe(i)') /\ (i \in LastDowntime' => DownSafe(i)')
  <2>1. CASE inFlight
    <3>1. i \notin idleDrops' /\ i \in busyDrops'
      BY <1>1, <1>3, <2>1, Zenon
    <3> QED
      BY <3>1 DEF LastDowntime
  <2>2. CASE ~inFlight
    <3>1. bf = "none" /\ result = "none"
      BY <2>2, Zenon DEF OneBackfill
    <3>2. ReadOn(i)'
      BY <3>1 DEF ReadOn
    <3>3. i \in idleDrops'
      BY <1>1, <1>3, <2>2, Zenon
    <3>4. DropSafe(i)'
      BY <1>2, <1>3, <3>2, Zenon DEF DropSafe
    <3> QED
      BY <3>3, <3>4, Zenon DEF DownSafe
  <2> QED
    BY <2>1, <2>2
<1> QED
  BY <1>2, <1>3

LEMMA SinkMisses ==
    ASSUME MissInv, StoreInv, StoreInv', TrackerTyped, IInv, proc = "up", NEW j \in Line, Sink(j)
    PROVE  MissInv'
<1>1. UNCHANGED <<proc, known, lastDown, resume, downtime, done, rows, batch, unread, bf, outcome, result>>
  BY Zenon DEF Sink, engine, database, tracker, backfill
<1>2. CASE queue' = Append(queue, j) /\ UNCHANGED <<gap, drops>>
  <2>1. ToSet(queue') = ToSet(queue) \union {j}
    BY <1>2, QueueSets DEF StoreInv, StoreTyped
  <2>2. \A i \in Line : InPipe(i) => InPipe(i)'
    BY <1>1, <2>1 DEF InPipe
  <2>3. \A i \in Line : ReadOn(i) => ReadOn(i)'
    BY <1>1, <2>2 DEF ReadOn
  <2>4. UNCHANGED <<idleDrops, busyDrops>>
    BY <1>2, Zenon DEF drops
  <2> QED
    BY <1>1, <1>2, <2>2, <2>3, <2>4, CalmStays, Zenon
<1>3. CASE MarkGap({j}) /\ queue' = queue
  <2>1. PICK X : X = {j} /\ X \in SUBSET Line
    OBVIOUS
  <2>2. /\ gap' \in {0} \union Line /\ (gap # 0 => gap' # 0 /\ gap' <= gap)
        /\ \A i \in X : /\ i \in idleDrops' => DropSafe(i)'
                        /\ i \in LastDowntime' => DownSafe(i)'
    BY <1>1, <1>3, <2>1, DropIsSafe DEF IInv, ControlInv
  <2>3. idleDrops' \ X = idleDrops \ X /\ busyDrops' \ X = busyDrops \ X
    BY <1>3, <2>1, Zenon DEF MarkGap, RecordDrops
  <2>4. \A i \in Line : (InPipe(i) => InPipe(i)') /\ (ReadOn(i) => ReadOn(i)')
    BY <1>1, <1>3 DEF InPipe, ReadOn
  <2>5. \A i \in Line \ X : /\ InPipe(i) => InPipe(i)'
                            /\ ReadOn(i) => ReadOn(i)'
                            /\ i \in idleDrops <=> i \in idleDrops'
                            /\ i \in LastDowntime' => i \in LastDowntime
    BY <1>1, <2>3, <2>4 DEF LastDowntime
  <2>6. idleDrops' \subseteq Line /\ downtime' \subseteq Line
    BY <1>1, Sizes, LenProperties DEF StoreInv, StoreTyped, Written, Line
  <2>7. gap \in {0} \union Line /\ proc' = "up" /\ (done' => done)
    BY <1>1, Zenon DEF TrackerTyped
  <2> QED
    BY <1>1, <2>2, <2>5, <2>6, <2>7, UpStays, Zenon
<1> QED
  BY <1>2, <1>3, Zenon DEF Sink

\* The writer stores the lines of a batch, or drops them together.
LEMMA BatchMisses ==
    ASSUME MissInv, StoreInv, StoreInv', TrackerTyped, IInv, proc = "up", Commit \/ CommitFails
    PROVE  MissInv'
<1>1. PICK X : X = LinesOf(batch) /\ X \in SUBSET Line
  BY LinesOfBatch DEF StoreInv
<1>2. UNCHANGED <<proc, known, lastDown, resume, downtime, done, queue, unread, bf, outcome, result>>
  BY Zenon DEF Commit, CommitFails, engine, channel, tracker, backfill
<1>3. \A i \in Line : rows[i] \in Nat /\ (rows[i] > 0 => rows'[i] > 0)
  <2>1. \A i \in Line : rows[i] \in Nat
    BY DEF StoreInv, StoreTyped
  <2>2. CASE rows' = rows
    BY <2>1, <2>2
  <2>3. CASE Commit
    <3>1. \A i \in Line : rows'[i] \in {rows[i], rows[i] + 1}
      BY <2>3 DEF Commit
    <3> QED
      BY <2>1, <3>1
  <2> QED
    BY <2>2, <2>3, Zenon DEF CommitFails, database
<1>4. \A i \in Line \ X : InPipe(i) => InPipe(i)'
  <2>1. \A i \in Line \ X : i \notin ToSet(batch)
    BY <1>1, Sizes DEF LinesOf, Line, Done
  <2> QED
    BY <1>2, <1>3, <2>1 DEF InPipe
<1>5. \A i \in Line \ X : ReadOn(i) => ReadOn(i)'
  BY <1>2, <1>4 DEF ReadOn
<1>6. idleDrops' \ X = idleDrops \ X /\ busyDrops' \ X = busyDrops \ X
  BY <1>1, Zenon DEF Commit, CommitFails, MarkGap, RecordDrops
<1>7. \A i \in Line \ X : /\ InPipe(i) => InPipe(i)'
                          /\ ReadOn(i) => ReadOn(i)'
                          /\ i \in idleDrops <=> i \in idleDrops'
                          /\ i \in LastDowntime' => i \in LastDowntime
  BY <1>2, <1>4, <1>5, <1>6 DEF LastDowntime
<1>8. /\ gap' \in {0} \union Line /\ (gap # 0 => gap' # 0 /\ gap' <= gap)
      /\ \A i \in X : /\ i \in idleDrops' => DropSafe(i)'
                      /\ i \in LastDowntime' => DownSafe(i)'
  <2>1. CASE CommitFails
    <3>1. MarkGap(X)
      BY <1>1, <2>1, Zenon DEF CommitFails
    <3> QED
      BY <1>1, <1>2, <3>1, DropIsSafe DEF IInv, ControlInv
  <2>2. CASE Commit
    <3>1. /\ gap' = gap /\ idleDrops' = idleDrops \ X
          /\ rows' = [i \in Line |-> IF i \in Inserted(X) THEN rows[i] + 1 ELSE rows[i]]
      BY <1>1, <2>2, Zenon DEF Commit
    <3>2. \A i \in X : rows'[i] > 0
      BY <1>1, <1>3, <3>1 DEF Inserted
    <3>3. \A i \in X : InPipe(i)'
      BY <3>2 DEF InPipe
    <3>4. \A i \in X : i \notin idleDrops' /\ DownSafe(i)'
      BY <3>1, <3>3, Zenon DEF DownSafe
    <3>5. gap \in {0} \union Line
      BY DEF TrackerTyped
    <3>6. gap' \in {0} \union Line /\ (gap # 0 => gap' # 0 /\ gap' <= gap)
      BY <3>1, <3>5, Sizes DEF Line
    <3> QED
      BY <3>4, <3>6
  <2> QED
    BY <2>1, <2>2
<1>9. idleDrops' \subseteq Line /\ downtime' \subseteq Line
  BY <1>2, Sizes, LenProperties DEF StoreInv, StoreTyped, Written, Line
<1>10. gap \in {0} \union Line /\ proc' = "up" /\ (done' => done)
  BY <1>2, Zenon DEF TrackerTyped
<1> QED
  BY <1>2, <1>7, <1>8, <1>9, <1>10, UpStays, Zenon

LEMMA ReceiveMisses ==
    ASSUME MissInv, StoreInv, TrackerTyped, proc = "up", Receive
    PROVE  MissInv'
<1>1. /\ queue # << >> /\ batch' = Append(batch, Head(queue)) /\ queue' = Tail(queue)
      /\ UNCHANGED <<proc, known, lastDown, resume, downtime, idleDrops, busyDrops, gap, done, rows,
                     unread, bf, outcome, result>>
  BY Zenon DEF Receive, engine, database, history, drops, tracker, backfill
<1>2. /\ ToSet(queue) = {Head(queue)} \union ToSet(queue')
      /\ ToSet(batch') = ToSet(batch) \union {Head(queue)}
  BY <1>1, QueueSets DEF StoreInv, StoreTyped
<1>3. \A i \in Line : InPipe(i) => InPipe(i)'
  BY <1>1, <1>2 DEF InPipe
<1>4. \A i \in Line : ReadOn(i) => ReadOn(i)'
  BY <1>1, <1>3 DEF ReadOn
<1> QED
  BY <1>1, <1>3, <1>4, CalmStays, Zenon

\* A result of a read that succeeded: what was missed is on its way.
LEMMA ResultMisses ==
    ASSUME MissInv, IInv, proc = "up", ResultOk
    PROVE  MissInv'
<1>1. /\ result = "ok" /\ result' = "none" /\ resume' = NoPoint
      /\ UNCHANGED <<proc, known, lastDown, downtime, idleDrops, busyDrops, rows, queue, batch, bf>>
  BY Zenon DEF ResultOk, engine, database, channel, history, drops, backfill
<1>2. bf = "none"
  BY <1>1 DEF IInv, ControlInv, OneBackfill
<1>3. DropsSafe /\ DowntimeSafe
  BY DEF MissInv
<1>4. \A i : (ReadOn(i) => InPipe(i)) /\ (InPipe(i) => InPipe(i)') /\ ReadOn(i)'
  BY <1>1, <1>2 DEF InPipe, ReadOn
<1>5. DropsSafe'
  BY <1>1, <1>3, <1>4, Zenon DEF DropsSafe, DropSafe
<1>6. DowntimeSafe'
  <2>1. LastDowntime' = LastDowntime
    BY <1>1 DEF LastDowntime
  <2> QED
    BY <1>1, <1>3, <1>4, <2>1, Zenon DEF DowntimeSafe, DownSafe
<1>7. SnapshotUsed'
  BY <1>1, Zenon DEF SnapshotUsed
<1>8. proc' # "down"
  BY <1>1
<1> QED
  BY <1>5, <1>6, <1>7, <1>8, Zenon DEF MissInv

LEMMA PurgeMisses == ASSUME proc = "up", Purge PROVE MissInv'
<1>1. resume' = NoPoint /\ idleDrops' = {} /\ downtime' = {} /\ proc' # "down"
  BY Zenon DEF Purge
<1>2. DropsSafe' /\ SnapshotUsed'
  BY <1>1, Zenon DEF DropsSafe, SnapshotUsed
<1>3. LastDowntime' = {}
  BY <1>1 DEF LastDowntime
<1>4. DowntimeSafe'
  BY <1>3, Zenon DEF DowntimeSafe
<1> QED
  BY <1>1, <1>2, <1>4, Zenon DEF MissInv

\* A process starts with the marks its predecessor left, all of them from
\* before the downtime.
LEMMA StartMisses ==
    ASSUME MissInv, StoreInv, StoreInv', Start
    PROVE  MissInv'
<1>1. /\ proc = "down" /\ proc' = "up" /\ resume' = IF row THEN wm ELSE NoPoint
      /\ known' = row /\ idleDrops' = {} /\ bf' = "none" /\ result' = "none"
      /\ UNCHANGED <<log, downtime, lastDown, wm>>
  BY Zenon DEF Start, Fresh, database
<1>2. done' = FALSE
  BY Zenon DEF Start, Fresh
<1>3. DropsSafe' /\ SnapshotUsed'
  BY <1>1, <1>2, Zenon DEF DropsSafe, SnapshotUsed
<1>4. MarksBehind
  BY <1>1 DEF MissInv
<1>5. ASSUME known', NEW i \in LastDowntime' PROVE DownSafe(i)'
  <2>1. resume' = wm
    BY <1>1, <1>5, Zenon
  <2>2. i \in 1 .. Len(log)
    BY <1>1, <1>5 DEF LastDowntime, StoreInv, Written
  <2>3. log[i] \in Streams
    BY <2>2 DEF StoreInv, StoreTyped
  <2>4. wm # NoPoint
    <3>1. DOMAIN wm = Streams /\ DOMAIN NoPoint = {}
      BY DEF StoreInv, StoreTyped, Points, NoPoint
    <3> QED
      BY <2>3, <3>1
  <2>5. Snapshot'
    BY <1>1, <1>4, <2>1, <2>4 DEF Snapshot, MarksBehind, NoPoint
  <2>6. ReadOn(i)'
    BY <1>1 DEF ReadOn
  <2> QED
    BY <2>5, <2>6, Zenon DEF DownSafe
<1>6. DowntimeSafe'
  BY <1>5, Zenon DEF DowntimeSafe
<1>7. proc' # "down"
  BY <1>1
<1> QED
  BY <1>3, <1>6, <1>7, Zenon DEF MissInv

LEMMA GoneMisses == ASSUME StoreInv, Gone PROVE MissInv'
<1>1. proc' = "down" /\ lastDown' = Len(log) /\ wm' = wm
  BY Zenon DEF Gone, database
<1>2. \A s \in Streams : wm[s] <= Len(log)
  <2> SUFFICES ASSUME NEW s \in Streams PROVE wm[s] <= Len(log)
    OBVIOUS
  <2>1. wm[s] \in 0 .. MaxLines /\ Len(log) \in Nat
    BY LenProperties DEF StoreInv, StoreTyped, Points
  <2>2. wm[s] # 0 => wm[s] \in Line /\ rows[wm[s]] > 0
    BY DEF StoreInv, MarkBacked
  <2>3. wm[s] # 0 => wm[s] <= Len(log)
    BY <2>2 DEF StoreInv, Written
  <2> QED
    BY <2>1, <2>3, Sizes
<1>3. MarksBehind'
  BY <1>1, <1>2 DEF MarksBehind
<1> QED
  BY <1>1, <1>3 DEF MissInv

\* The other steps of a running process leave what was missed where it is.
LEMMA OthersMiss ==
    ASSUME MissInv, StoreInv, TrackerTyped, proc = "up", proc' = "up",
           EngineStep \/ TailAttach \/ TailBreaks \/ WriterExits \/ (SyncStep /\ ~ResultOk)
           \/ Unsubscribe \/ SinkReleased \/ CloseQueue \/ UNCHANGED vars
    PROVE  MissInv'
<1> USE DEF engine, database, hub, channel, tracker, backfill, history, drops
<1>1. /\ UNCHANGED <<proc, known, lastDown, resume, downtime, idleDrops, busyDrops, gap, rows, queue,
                     batch, unread, result>> \/ ResultErr \/ EngineStep
      /\ UNCHANGED <<bf, outcome>> \/ bf' = "spawned"
  BY Zenon DEF TailAttach, TailBreaks, WriterExits, SyncStep, SyncBegins, SyncSchedules,
     SyncSpawns, SyncFails, ResultErr, SyncStops, Unsubscribe, SinkReleased, CloseQueue, vars,
     EngineStep, Emit
<1>2. done' => done
  BY Zenon DEF EngineStep, Emit, TailAttach, TailBreaks, WriterExits, SyncStep, SyncBegins,
     SyncSchedules, SyncSpawns, SyncFails, ResultErr, SyncStops, Unsubscribe, SinkReleased,
     CloseQueue, vars
<1>3. CASE EngineStep
  <2>1. UNCHANGED <<proc, known, lastDown, resume, idleDrops, busyDrops, gap, rows, queue, batch,
                    unread, result>>
    BY <1>3, Zenon DEF EngineStep, Emit
  <2>2. downtime' = downtime
    BY <1>3 DEF EngineStep, Emit
  <2> QED
    BY <1>1, <1>2, <2>1, <2>2, StillStays, Zenon
<1>4. CASE ResultErr
  <2>1. /\ result = "err" /\ result' = "none"
        /\ UNCHANGED <<proc, known, lastDown, resume, downtime, idleDrops, busyDrops, gap, rows, queue,
                       batch, unread, bf, outcome>>
    BY <1>4, Zenon DEF ResultErr
  <2>2. \A j \in Line : InPipe(j) => InPipe(j)'
    BY <2>1 DEF InPipe
  <2>3. \A j \in Line : ReadOn(j) => ReadOn(j)'
    BY <2>1, <2>2 DEF ReadOn
  <2> QED
    BY <1>2, <2>1, <2>2, <2>3, CalmStays, Zenon
<1> QED
  BY <1>1, <1>2, <1>3, <1>4, StillStays, Zenon

\* With the process down only the engine writes.
LEMMA DownMisses ==
    ASSUME MissInv, PlacesTyped, proc = "down", [Next]_vars, ~Start, ~Crash, ~Exit
    PROVE  MissInv'
<1> USE DEF engine, database, hub, channel, tracker, backfill, history, drops
<1>1. ~Commit /\ ~Purge /\ ~Cancel
  BY DEF PlacesTyped, Commit, Purge, Cancel
<1>2. UNCHANGED <<proc, wm, lastDown>>
  BY <1>1, Zenon DEF Next, EngineStep, Emit, HubStep, TailAttach, TailBreaks, Sink, WriterStep,
     Receive, CommitFails, WriterExits, SyncStep, SyncBegins, SyncSchedules, SyncSpawns, SyncFails,
     ResultOk, ResultErr, SyncStops, BackfillStep, BackfillOpens, BackfillReads, BackfillEnds,
     BackfillFails, BackfillGivesUp, BackfillSendsDone, BackfillReports, ShutdownStep, Unsubscribe,
     SinkReleased, CloseQueue, vars
<1> QED
  BY <1>2, DownStays

LEMMA MissSound == StoreSafe /\ StoreInv' /\ MissInv /\ [Next]_vars => MissInv'
<1> SUFFICES ASSUME StoreSafe, StoreInv', MissInv, [Next]_vars PROVE MissInv'
  OBVIOUS
<1>0. StoreInv /\ TrackerTyped /\ PlacesTyped /\ IInv
  BY DEF StoreSafe
<1>1. CASE Start
  BY <1>0, <1>1, StartMisses
<1>2. CASE Crash \/ Exit
  BY <1>0, <1>2, GoneMisses DEF Crash, Exit
<1>3. ASSUME ~Start, ~Crash, ~Exit PROVE MissInv'
  <2>1. CASE proc = "down"
    BY <1>0, <1>3, <2>1, DownMisses
  <2>2. CASE proc' = "stopping"
    BY <2>2, StoppingIsSafe
  <2>3. CASE proc # "down" /\ proc' # "stopping"
    <3>1. proc' = proc
      BY <1>3, <2>3, Zenon DEF Next, EngineStep, Emit, HubStep, TailAttach, TailBreaks, Sink, WriterStep,
         Receive, Commit, CommitFails, WriterExits, SyncStep, SyncBegins, SyncSchedules, SyncSpawns,
         SyncFails, ResultOk, ResultErr, SyncStops, BackfillStep, BackfillOpens, BackfillReads,
         BackfillEnds, BackfillFails, BackfillGivesUp, BackfillSendsDone, BackfillReports, Purge, Cancel,
         ShutdownStep, Unsubscribe, SinkReleased, CloseQueue, vars
    <3>2. proc = "up" /\ proc' = "up"
      BY <1>0, <2>3, <3>1 DEF PlacesTyped
    <3>3. ~Cancel
      BY <3>2 DEF Cancel
    <3>4. ASSUME NEW j \in Line, Sink(j) PROVE MissInv'
      BY <1>0, <3>2, <3>4, SinkMisses
    <3>5. CASE Commit \/ CommitFails
      BY <1>0, <3>2, <3>5, BatchMisses
    <3>6. CASE Receive
      BY <1>0, <3>2, <3>6, ReceiveMisses
    <3>7. CASE ResultOk
      BY <1>0, <3>2, <3>7, ResultMisses
    <3>8. CASE Purge
      BY <3>2, <3>8, PurgeMisses
    <3>9. CASE BackfillStep
      BY <1>0, <3>2, <3>9, ReadsStay, OpensReach
    <3>10. CASE EngineStep \/ TailAttach \/ TailBreaks \/ WriterExits \/ (SyncStep /\ ~ResultOk)
                \/ Unsubscribe \/ SinkReleased \/ CloseQueue \/ UNCHANGED vars
      BY <1>0, <3>2, <3>10, OthersMiss
    <3> QED
      BY <1>3, <3>3, <3>4, <3>5, <3>6, <3>7, <3>8, <3>9, <3>10, Zenon
         DEF Next, HubStep, WriterStep, ShutdownStep
  <2> QED
    BY <2>1, <2>2, <2>3
<1> QED
  BY <1>1, <1>2, <1>3

LEMMA MissesAreRead == StoreSafe /\ MissInv => MissedLinesRead
<1> SUFFICES ASSUME StoreSafe, MissInv, proc = "up" PROVE IdleDropNotLost /\ LastDowntimeRead
  BY DEF MissedLinesRead, IdleDropNotLost, LastDowntimeRead
<1>1. DropsSafe /\ DowntimeSafe /\ SnapshotUsed
  BY DEF MissInv
<1>2. ASSUME NEW j \in idleDrops PROVE Covered(j)
  <2>1. InPipe(j) \/ (gap # 0 /\ gap <= j)
    BY <1>1 DEF DropsSafe, DropSafe
  <2>2. j \in Nat /\ gap \in Nat
    BY Sizes, LenProperties DEF StoreSafe, StoreInv, StoreTyped, TrackerTyped, Written, Line
  <2>3. gap # 0 /\ gap <= j => Before(gap) <= j
    BY <2>2, Sizes DEF Before
  <2> QED
    BY <2>1, <2>3 DEF Covered, InPipe
<1>3. ASSUME done, known, NEW j \in LastDowntime PROVE Covered(j)
  <2>1. ~Snapshot
    BY <1>1, <1>3, Zenon DEF SnapshotUsed, Snapshot
  <2>2. InPipe(j) \/ j \in idleDrops
    BY <1>1, <1>3, <2>1, Zenon DEF DowntimeSafe, DownSafe
  <2> QED
    BY <1>2, <2>2 DEF InPipe, Covered
<1> QED
  BY <1>2, <1>3, Zenon DEF IdleDropNotLost, LastDowntimeRead

LEMMA MissInit == Init => MissInv
<1> SUFFICES ASSUME Init PROVE MissInv
  OBVIOUS
<1>1. proc = "down" /\ wm = ZeroPoint /\ lastDown = 0
  BY DEF Init
<1> QED
  BY <1>1 DEF MissInv, MarksBehind, ZeroPoint

\* What live delivery missed is read again (internal/logstore: the sink and the failed
\* commit of ingest.go mark a gap, the tracker of sync.go keeps it until a read that
\* began after the drop succeeds, backfill.go resumes a known generation from the marks
\* its predecessor left).  While the process runs, a line dropped with no backfill in
\* flight is stored, on its way, about to be read, or within the overlap of an open gap;
\* and once a known generation's backfill has succeeded, so is every line written while
\* no process was running.
THEOREM MissedLinesAreRead == Spec => []MissedLinesRead
<1>1. Init => StoreSafe /\ MissInv
  BY StoreSafeSound, MissInit
<1>2. (StoreSafe /\ MissInv) /\ [Next]_vars => (StoreSafe /\ MissInv)'
  <2>1. StoreSafe /\ [Next]_vars => StoreSafe'
    BY StoreSafeSound
  <2>2. StoreSafe' => StoreInv'
    BY DEF StoreSafe
  <2> QED
    BY <2>1, <2>2, MissSound
<1>3. StoreSafe /\ MissInv => MissedLinesRead
  BY MissesAreRead
<1> QED
  BY <1>1, <1>2, <1>3, PTL DEF Spec

=============================================================================
