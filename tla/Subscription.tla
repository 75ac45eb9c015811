---------------------------- MODULE Subscription ----------------------------
(***************************************************************************)
(* One subscription of the log hub: the bounded ring its tail goroutines   *)
(* push into, the delivery goroutine that calls the subscriber's sink, and *)
(* the two ways it ends: the unsubscribe function the subscriber calls and *)
(* the hub's shutdown (logstream/subscription.go, and the parts of         *)
(* logstream.go and tail.go that create, feed and close a subscription).   *)
(*                                                                         *)
(* A record is named by the order in which push accepted it: the n-th      *)
(* accepted record is n.  Each critical section of sub.mu is one action;   *)
(* each closure the run loop executes is one action, the loop being the    *)
(* only goroutine that touches the hub's state.                            *)
(***************************************************************************)
EXTENDS Naturals, Sequences

CONSTANTS
    Tails,      \* tail goroutines that may feed the subscription
    Callers,    \* goroutines that may call its unsubscribe function
    RingSize,   \* slots of the ring (ringSize)
    MaxPush     \* bound of the model: records accepted in one behaviour

ASSUME RingSizeAssumption == RingSize \in Nat \ {0}
ASSUME MaxPushAssumption == MaxPush \in Nat

VARIABLES
    buf,        \* the ring; 0 is the zero Record of a free slot
    head,       \* index of the oldest buffered record
    count,      \* number of buffered records
    closed,
    discard,    \* when closed: drop what is buffered instead of draining it
    drops,      \* records overwritten by overflow
    accepted,   \* history: records accepted by push
    sunk,       \* history: number of sink calls begun
    current,    \* the record of the last sink call, 0 before the first
    deliver,    \* delivery goroutine: "unstarted", "waiting", "sinking", "exited"
    member,     \* "new", "refused", "registered" (in h.subs), "removed"
    tail,       \* per tail goroutine: "none", "open", "cancelled" but still running
    caller,     \* per caller of unsubscribe: "idle", "blocked", "requesting", "awaiting", "returned"
    once,       \* the sync.Once of unsubscribe: "free", "running", "done"
    hub         \* run loop: "running", "stopping", "draining", "finished"

ring == <<buf, head, count, drops, accepted>>
vars == <<buf, head, count, closed, discard, drops, accepted, sunk, current,
          deliver, member, tail, caller, once, hub>>

Slots == 0 .. RingSize - 1

TypeOK ==
    /\ buf \in [Slots -> 0 .. accepted]
    /\ head \in Slots
    /\ count \in 0 .. RingSize
    /\ closed \in BOOLEAN
    /\ discard \in BOOLEAN
    /\ drops \in Nat
    /\ accepted \in 0 .. MaxPush
    /\ sunk \in Nat
    /\ current \in 0 .. accepted
    /\ deliver \in {"unstarted", "waiting", "sinking", "exited"}
    /\ member \in {"new", "refused", "registered", "removed"}
    /\ tail \in [Tails -> {"none", "open", "cancelled"}]
    /\ caller \in [Callers -> {"idle", "blocked", "requesting", "awaiting", "returned"}]
    /\ once \in {"free", "running", "done"}
    /\ hub \in {"running", "stopping", "draining", "finished"}

Init ==
    /\ buf = [i \in Slots |-> 0]
    /\ head = 0
    /\ count = 0
    /\ closed = FALSE
    /\ discard = FALSE
    /\ drops = 0
    /\ accepted = 0
    /\ sunk = 0
    /\ current = 0
    /\ deliver = "unstarted"
    /\ member = "new"
    /\ tail = [t \in Tails |-> "none"]
    /\ caller = [c \in Callers |-> "idle"]
    /\ once = "free"
    /\ hub = "running"

(***************************************************************************)
(* Subscribe: the run loop registers the subscription and starts its       *)
(* delivery goroutine; a hub that has stopped registers nothing.           *)
(***************************************************************************)
Register ==
    /\ member = "new"
    /\ hub = "running"
    /\ member' = "registered"
    /\ deliver' = "waiting"
    /\ UNCHANGED <<ring, closed, discard, sunk, current, tail, caller, once, hub>>

RegisterRefused ==
    /\ member = "new"
    /\ hub # "running"
    /\ member' = "refused"
    /\ UNCHANGED <<ring, closed, discard, sunk, current, deliver, tail, caller, once, hub>>

(***************************************************************************)
(* Tails.  A cancelled tail keeps pushing until its goroutine ends.        *)
(***************************************************************************)
SpawnTail(t) ==
    /\ hub = "running"
    /\ member = "registered"
    /\ tail[t] = "none"
    /\ tail' = [tail EXCEPT ![t] = "open"]
    /\ UNCHANGED <<ring, closed, discard, sunk, current, deliver, member, caller, once, hub>>

CancelTail(t) ==
    /\ hub = "running"
    /\ tail[t] = "open"
    /\ tail' = [tail EXCEPT ![t] = "cancelled"]
    /\ UNCHANGED <<ring, closed, discard, sunk, current, deliver, member, caller, once, hub>>

TailEnd(t) ==
    /\ tail[t] # "none"
    /\ tail' = [tail EXCEPT ![t] = "none"]
    /\ UNCHANGED <<ring, closed, discard, sunk, current, deliver, member, caller, once, hub>>

TailsLeftOpen == tail
CancelledTails == [t \in Tails |-> IF tail[t] = "open" THEN "cancelled" ELSE tail[t]]

\* Where push puts a record behind kept older ones, and what it counts.
SlotFromOldHead(first, kept) == (head + kept) % RingSize
NewSlot(first, kept) == (first + kept) % RingSize
Dropped(full) == IF full THEN drops + 1 ELSE drops

\* push: a full ring forgets its oldest record; the new one goes behind the
\* newest.  A push after close returns without effect.
Push(t) ==
    /\ tail[t] # "none"
    /\ ~closed
    /\ accepted < MaxPush
    /\ LET full  == count = RingSize
           first == IF full THEN (head + 1) % RingSize ELSE head
           kept  == IF full THEN count - 1 ELSE count
           freed == IF full THEN [buf EXCEPT ![head] = 0] ELSE buf
       IN  /\ buf' = [freed EXCEPT ![NewSlot(first, kept)] = accepted + 1]
           /\ head' = first
           /\ count' = kept + 1
           /\ drops' = Dropped(full)
    /\ accepted' = accepted + 1
    /\ UNCHANGED <<closed, discard, sunk, current, deliver, member, tail, caller, once, hub>>

(***************************************************************************)
(* deliverLoop.                                                            *)
(***************************************************************************)
AfterHeadUnwrapped == head + 1
AfterHead == (head + 1) % RingSize
AtHead == buf[head]

Deliver ==
    /\ deliver = "waiting"
    /\ count > 0
    /\ ~(closed /\ discard)
    /\ current' = AtHead
    /\ buf' = [buf EXCEPT ![head] = 0]
    /\ head' = AfterHead
    /\ count' = count - 1
    /\ sunk' = sunk + 1
    /\ deliver' = "sinking"
    /\ UNCHANGED <<closed, discard, drops, accepted, member, tail, caller, once, hub>>

SinkReturns ==
    /\ deliver = "sinking"
    /\ deliver' = "waiting"
    /\ UNCHANGED <<ring, closed, discard, sunk, current, member, tail, caller, once, hub>>

DeliverExitUndrained ==
    /\ deliver = "waiting"
    /\ closed
    /\ deliver' = "exited"
    /\ UNCHANGED <<ring, closed, discard, sunk, current, member, tail, caller, once, hub>>

DeliverExit ==
    /\ deliver = "waiting"
    /\ closed
    /\ discard \/ count = 0
    /\ deliver' = "exited"
    /\ UNCHANGED <<ring, closed, discard, sunk, current, member, tail, caller, once, hub>>

\* close: the first call wins.
CloseDiscards(d) == closed' = TRUE /\ discard' = TRUE
Close(d) ==
    /\ closed' = TRUE
    /\ discard' = IF closed THEN discard ELSE d

(***************************************************************************)
(* The unsubscribe function: a sync.Once around a request to the run loop, *)
(* or a direct close when the hub has stopped, then a wait for the         *)
(* delivery goroutine.                                                     *)
(***************************************************************************)
Unsubscribe(c) ==
    /\ member # "new"
    /\ caller[c] = "idle"
    /\ IF member = "refused"
         THEN /\ caller' = [caller EXCEPT ![c] = "returned"]
              /\ UNCHANGED once
         ELSE /\ caller' = [caller EXCEPT ![c] =
                               IF once = "free" THEN "requesting" ELSE "blocked"]
              /\ once' = IF once = "free" THEN "running" ELSE once
    /\ UNCHANGED <<ring, closed, discard, sunk, current, deliver, member, tail, hub>>

\* The run loop receives the request and runs removeSub.
RemoveSubUnclosed(c) ==
    /\ caller[c] = "requesting"
    /\ hub = "running"
    /\ caller' = [caller EXCEPT ![c] = "awaiting"]
    /\ member' = "removed"
    /\ tail' = CancelledTails
    /\ UNCHANGED <<ring, closed, discard, sunk, current, deliver, once, hub>>

RemoveSub(c) ==
    /\ caller[c] = "requesting"
    /\ hub = "running"
    /\ caller' = [caller EXCEPT ![c] = "awaiting"]
    /\ member' = "removed"
    /\ tail' = CancelledTails
    /\ Close(TRUE)
    /\ UNCHANGED <<ring, sunk, current, deliver, once, hub>>

RequestRefused(c) ==
    /\ caller[c] = "requesting"
    /\ hub # "running"
    /\ caller' = [caller EXCEPT ![c] = "awaiting"]
    /\ Close(TRUE)
    /\ UNCHANGED <<ring, sunk, current, deliver, member, tail, once, hub>>

UnsubscribeReturnsEarly(c) ==
    /\ caller[c] \in {"awaiting", "blocked"}
    /\ once' = "done"
    /\ caller' = [caller EXCEPT ![c] = "returned"]
    /\ UNCHANGED <<ring, closed, discard, sunk, current, deliver, member, tail, hub>>

UnsubscribeReturns(c) ==
    /\ \/ caller[c] = "awaiting" /\ deliver = "exited" /\ once' = "done"
       \/ caller[c] = "blocked" /\ once = "done" /\ UNCHANGED once
    /\ caller' = [caller EXCEPT ![c] = "returned"]
    /\ UNCHANGED <<ring, closed, discard, sunk, current, deliver, member, tail, hub>>

(***************************************************************************)
(* Hub shutdown: refuse requests and cancel the tails; when they have      *)
(* ended, close what is still registered for draining; then wait.          *)
(***************************************************************************)
Shutdown ==
    /\ hub = "running"
    /\ hub' = "stopping"
    /\ tail' = CancelledTails
    /\ UNCHANGED <<ring, closed, discard, sunk, current, deliver, member, caller, once>>

ShutdownDrainEarly ==
    /\ hub = "stopping"
    /\ hub' = "draining"
    /\ IF member = "registered" THEN Close(FALSE) ELSE UNCHANGED <<closed, discard>>
    /\ UNCHANGED <<ring, sunk, current, deliver, member, tail, caller, once>>

ShutdownDrain ==
    /\ hub = "stopping"
    /\ \A t \in Tails : tail[t] = "none"
    /\ hub' = "draining"
    /\ IF member = "registered" THEN Close(FALSE) ELSE UNCHANGED <<closed, discard>>
    /\ UNCHANGED <<ring, sunk, current, deliver, member, tail, caller, once>>

ShutdownDone ==
    /\ hub = "draining"
    /\ member = "registered" => deliver = "exited"
    /\ hub' = "finished"
    /\ UNCHANGED <<ring, closed, discard, sunk, current, deliver, member, tail, caller, once>>

\* Nothing left to do: the hub has finished and every caller has returned.
Finished ==
    /\ hub = "finished"
    /\ \A c \in Callers : caller[c] = "returned"
    /\ UNCHANGED vars

TailStep(t) == SpawnTail(t) \/ CancelTail(t) \/ TailEnd(t) \/ Push(t)
CallerStep(c) ==
    Unsubscribe(c) \/ RemoveSub(c) \/ RequestRefused(c) \/ UnsubscribeReturns(c)
DeliverStep == Deliver \/ SinkReturns \/ DeliverExit
HubStep == Shutdown \/ ShutdownDrain \/ ShutdownDone

Next ==
    \/ Register \/ RegisterRefused
    \/ \E t \in Tails : TailStep(t)
    \/ DeliverStep
    \/ \E c \in Callers : CallerStep(c)
    \/ HubStep
    \/ Finished

Spec == Init /\ [][Next]_vars

\* The delivery goroutine, the sink, a cancelled tail (its reader is closed
\* under it), the steps of an unsubscribe already begun and those of a
\* shutdown already begun are all scheduled eventually.
Fairness ==
    /\ WF_vars(DeliverStep)
    /\ \A t \in Tails : WF_vars(tail[t] = "cancelled" /\ TailEnd(t))
    /\ \A c \in Callers :
         WF_vars(RemoveSub(c) \/ RequestRefused(c) \/ UnsubscribeReturns(c))
    /\ WF_vars(ShutdownDrain \/ ShutdownDone)

FairSpec == Spec /\ Fairness

(***************************************************************************)
(* Properties.                                                             *)
(***************************************************************************)
\* The i-th oldest buffered record sits i slots after head.
Slot(i) == (head + i) % RingSize

\* What is buffered is always the newest run of accepted records, oldest
\* first and without a hole, and the free slots are cleared: push and
\* deliverLoop agree on head and count however often the ring wraps.
RingHoldsNewest ==
    /\ \A i \in 0 .. count - 1 : buf[Slot(i)] = accepted - count + 1 + i
    /\ \A i \in count .. RingSize - 1 : buf[Slot(i)] = 0

\* Every accepted record is accounted for: handed to the sink, counted as a
\* drop, or still in the ring.
AllAccounted == accepted = sunk + drops + count

\* The sink sees each record once and in the order the tails pushed them; a
\* record that overtakes or repeats would show as a step back.
SinkInOrder == [][sunk' # sunk => current < current' /\ sunk' = sunk + 1]_vars

\* "after it returns, sink is never called again" (Subscribe): once any call
\* of unsubscribe has returned the sink is neither running nor called.
QuietAfterUnsubscribe ==
    (\E c \in Callers : caller[c] = "returned") => deliver \in {"unstarted", "exited"}

\* A hub shutdown nobody races with an unsubscribe loses nothing it accepted
\* but the counted overflow drops: tails stop pushing before the drain close.
GracefulDrain == hub = "finished" /\ once = "free" => accepted = sunk + drops

\* Every call of unsubscribe returns, whether the loop serves it, the hub is
\* shutting down, or another caller got there first.
UnsubscribeReturnsEventually ==
    \A c \in Callers : caller[c] # "idle" ~> caller[c] = "returned"

\* A shutdown that has begun finishes.
ShutdownFinishes == hub = "stopping" ~> hub = "finished"

\* The callers of unsubscribe and the hub wait for the delivery goroutine and
\* for each other, and none of them for ever.
NobodyWaitsForEver == UnsubscribeReturnsEventually /\ ShutdownFinishes

\* The doc of Wait: Run has returned "and all container tails and delivery
\* goroutines have stopped".
WaitMeansStopped ==
    hub = "finished" => /\ \A t \in Tails : tail[t] = "none"
                        /\ deliver \in {"unstarted", "exited"}

\* The last record handed over is older than everything still buffered.
HandedBeforeBuffered == current + count <= accepted

\* How registration, the delivery goroutine and the close flags go together.
DeliveryLifecycle ==
    /\ deliver = "unstarted" <=> member \in {"new", "refused"}
    /\ deliver = "exited" => closed /\ (discard \/ count = 0)
    /\ member \in {"new", "refused"} =>
         accepted = 0 /\ ~closed /\ \A t \in Tails : tail[t] = "none"

\* How far the unsubscribe calls can be for each state of the sync.Once.
UnsubscribeLifecycle ==
    /\ once # "free" => member \in {"registered", "removed"}
    /\ once = "done" => deliver = "exited"
    /\ once = "free" => ~discard /\ member # "removed"
    /\ member = "new" => \A c \in Callers : caller[c] = "idle"
    /\ \A c \in Callers :
         /\ caller[c] \in {"blocked", "requesting", "awaiting"} => once # "free"
         /\ caller[c] = "returned" => member = "refused" \/ once = "done"

\* How far the shutdown has brought the tails and the subscription.
ShutdownLifecycle ==
    /\ hub \in {"draining", "finished"} => \A t \in Tails : tail[t] = "none"
    /\ hub = "finished" /\ member = "registered" => deliver = "exited"

\* The inductive invariant behind the safety properties: how the ring, the
\* delivery goroutine, the unsubscribe calls and the shutdown go together.
IInv ==
    /\ TypeOK
    /\ RingHoldsNewest
    /\ AllAccounted
    /\ HandedBeforeBuffered
    /\ DeliveryLifecycle
    /\ UnsubscribeLifecycle
    /\ ShutdownLifecycle

\* The subscription implements the drop-oldest queue.
Abstract == INSTANCE DropOldestQueue WITH
    Capacity <- RingSize,
    queue    <- [i \in 1 .. count |-> buf[Slot(i - 1)]],
    handed   <- current,
    busy     <- deliver = "sinking",
    mode     <- IF deliver = "exited" THEN "done"
                ELSE IF ~closed THEN "open"
                ELSE IF discard THEN "discard" ELSE "drain"
Implements == Abstract!Spec
=============================================================================
