---------------------------- MODULE LogHub_proofs ----------------------------
(* No tail escapes the run loop and none is forgotten, for every number of  *)
(* subscriptions, containers, hosts and clients.                            *)
EXTENDS LogHub, TLAPS

TailInv == NoOrphan /\ EntryHasTail
IInv == TypeOK /\ TailInv /\ NothingPushesAfterWait

\* The first client exists.
LEMMA FirstClient == 1 \in Clients
BY HubAssumption DEF HubAssumption, Clients

\* A pair with a free slot has its FreeSlot among them.
LEMMA FreeSlotIsFree ==
    ASSUME NEW p \in Pairs, FreeSlots(p) # {}
    PROVE  FreeSlot(p) \in Slot /\ goroutine[p][FreeSlot(p)].state = "free"
BY DEF FreeSlot, FreeSlots

\* A slot nobody uses has the fields of a goroutine, as has one just opened.
LEMMA FreeTyped == Free \in Goroutine
BY FirstClient, HubAssumption DEF Free, Goroutine, HubAssumption
LEMMA OpeningTyped == ASSUME source \in Clients PROVE Opening \in Goroutine
BY FreeTyped, HubAssumption DEF Opening, Free, Goroutine, HubAssumption

\* What a handler does to the tails keeps their types.
LEMMA SetTailsTyped ==
    ASSUME TypeOK, NEW cancels, NEW spawns \in SUBSET Pairs, SetTails(cancels, spawns)
    PROVE  tails' \in [Pairs -> 0 .. Slots] /\ goroutine' \in [Pairs -> [Slot -> Goroutine]]
<1> USE DEF TypeOK
<1>1. ASSUME NEW p \in Pairs PROVE tails'[p] \in 0 .. Slots
  <2>1. CASE p \in spawns
    <3>1. FreeSlot(p) \in Slot
      BY <2>1, FreeSlotIsFree DEF SetTails
    <3> QED BY <2>1, <3>1 DEF SetTails, Slot
  <2>2. CASE p \notin spawns
    BY <2>2, HubAssumption DEF SetTails, HubAssumption
  <2> QED BY <2>1, <2>2
<1>2. ASSUME NEW p \in Pairs, NEW i \in Slot PROVE goroutine'[p][i] \in Goroutine
  <2>1. goroutine[p][i] \in Goroutine
    OBVIOUS
  <2>2. [goroutine[p][i] EXCEPT !.stopping = TRUE] \in Goroutine
    BY <2>1 DEF Goroutine
  <2> QED BY <2>1, <2>2, OpeningTyped DEF SetTails
<1> QED BY <1>1, <1>2 DEF SetTails

\* If it opens tails only for registered subscriptions that have none, and
\* what it leaves alone belongs to registered subscriptions, the loop stays in
\* charge of every tail.
LEMMA SetTailsOwned ==
    ASSUME TypeOK, TailInv, cancelled' = cancelled,
           NEW cancels, NEW spawns \in SUBSET Pairs, SetTails(cancels, spawns),
           \A p \in spawns : tails[p] = 0 /\ p[1] \in subs',
           \A p \in Pairs \ cancels : tails[p] # 0 => p[1] \in subs'
    PROVE  TailInv'
<1> USE DEF TypeOK, TailInv
<1>1. NoOrphan'
  <2> SUFFICES ASSUME NEW p \in Pairs, NEW i \in Slot,
                      goroutine'[p][i].state \in {"opening", "streaming", "broken"},
                      ~goroutine'[p][i].stopping, ~cancelled
               PROVE  tails'[p] = i
    BY DEF NoOrphan, Stops
  <2>1. CASE p \in spawns
    <3>1. tails'[p] = FreeSlot(p) /\ tails[p] = 0
      BY <2>1 DEF SetTails
    <3>2. CASE i # FreeSlot(p)
      <4>1. goroutine'[p][i] = goroutine[p][i]
        BY <2>1, <3>1, <3>2 DEF SetTails, Slot
      <4>2. tails[p] = i
        BY <4>1 DEF NoOrphan, Stops
      <4> QED BY <3>1, <4>2 DEF Slot
    <3> QED BY <3>1, <3>2
  <2>2. CASE p \notin spawns /\ p \in cancels /\ i = tails[p]
    <3>1. goroutine'[p][i] = [goroutine[p][i] EXCEPT !.stopping = TRUE]
      BY <2>2 DEF SetTails
    <3>2. goroutine[p][i] \in Goroutine
      OBVIOUS
    <3> QED BY <3>1, <3>2 DEF Goroutine
  <2>3. CASE p \notin spawns /\ ~(p \in cancels /\ i = tails[p])
    <3>1. goroutine'[p][i] = goroutine[p][i]
      BY <2>3 DEF SetTails
    <3>2. tails[p] = i
      BY <3>1 DEF NoOrphan, Stops
    <3> QED BY <2>3, <3>2 DEF SetTails
  <2> QED BY <2>1, <2>2, <2>3
<1>2. EntryHasTail'
  <2> SUFFICES ASSUME NEW p \in Pairs, tails'[p] # 0
               PROVE  /\ p[1] \in subs'
                      /\ cancelled \/ goroutine'[p][tails'[p]].state # "free"
                      /\ ~goroutine'[p][tails'[p]].stopping
    BY DEF EntryHasTail
  <2>1. CASE p \in spawns
    <3>1. tails'[p] = FreeSlot(p) /\ FreeSlot(p) \in Slot
      BY <2>1, FreeSlotIsFree DEF SetTails
    <3>2. goroutine'[p][FreeSlot(p)] = Opening
      BY <2>1, <3>1 DEF SetTails
    <3> QED BY <2>1, <3>1, <3>2 DEF Opening, Free
  <2>2. CASE p \notin spawns
    <3>1. tails'[p] = tails[p] /\ tails[p] \in Slot /\ p \notin cancels
      BY <2>2 DEF SetTails, Slot
    <3>2. goroutine'[p][tails[p]] = goroutine[p][tails[p]]
      BY <2>2, <3>1 DEF SetTails
    <3> QED BY <2>2, <3>1, <3>2 DEF EntryHasTail
  <2> QED BY <2>1, <2>2
<1> QED BY <1>1, <1>2

(***************************************************************************)
(* The steps that do not go through SetTails.                              *)
(***************************************************************************)
\* Steps that leave tails and goroutines alone.
LEMMA TailingUntouched ==
    ASSUME TailInv, NothingPushesAfterWait, UNCHANGED tailing,
           cancelled => cancelled', subs \subseteq subs', loop' = "finished" => loop = "finished"
    PROVE  TailInv' /\ NothingPushesAfterWait'
BY DEF TailInv, NoOrphan, EntryHasTail, NothingPushesAfterWait, Stops, tailing

\* Steps of one goroutine: it moves on from the state it was in, and becomes
\* free only when the loop has taken its exit or no longer listens.
LEMMA OneGoroutine ==
    ASSUME TypeOK, TailInv, NothingPushesAfterWait, UNCHANGED <<subs, cancelled, loop>>,
           NEW p \in Pairs, NEW i \in Slot, NEW g \in Goroutine,
           goroutine' = [goroutine EXCEPT ![p][i] = g],
           g.state \in {"opening", "streaming", "broken"} =>
               /\ goroutine[p][i].state \in {"opening", "streaming", "broken"}
               /\ g.stopping = goroutine[p][i].stopping,
           g.state = "exiting" => g.stopping = goroutine[p][i].stopping,
           goroutine[p][i].state # "free",
           \/ g.state # "free" /\ tails' = tails
           \/ g = Free /\ cancelled /\ tails' = tails
           \/ /\ g = Free /\ goroutine[p][i].state = "exiting"
              /\ tails' = [tails EXCEPT ![p] = IF @ = i THEN 0 ELSE @]
    PROVE  TailInv' /\ NothingPushesAfterWait'
<1> USE DEF TypeOK
<1>1. /\ goroutine'[p][i] = g
      /\ \A q \in Pairs, j \in Slot : <<q, j>> # <<p, i>> => goroutine'[q][j] = goroutine[q][j]
  OBVIOUS
<1>2. NoOrphan'
  <2> SUFFICES ASSUME NEW q \in Pairs, NEW j \in Slot,
                      goroutine'[q][j].state \in {"opening", "streaming", "broken"},
                      ~goroutine'[q][j].stopping, ~cancelled
               PROVE  tails'[q] = j
    BY DEF NoOrphan, Stops
  <2>1. tails[q] = j
    <3>1. CASE q = p /\ j = i
      BY <3>1, <1>1 DEF TailInv, NoOrphan, Stops
    <3>2. CASE ~(q = p /\ j = i)
      BY <3>2, <1>1 DEF TailInv, NoOrphan, Stops
    <3> QED BY <3>1, <3>2
  <2>2. tails' = tails \/ (g = Free /\ tails' = [tails EXCEPT ![p] = IF @ = i THEN 0 ELSE @])
    OBVIOUS
  <2>3. CASE tails' = tails
    BY <2>1, <2>3
  <2>4. CASE g = Free /\ tails' = [tails EXCEPT ![p] = IF @ = i THEN 0 ELSE @]
    <3>1. ~(q = p /\ j = i)
      BY <2>4, <1>1 DEF Free
    <3> QED BY <2>1, <2>4, <3>1
  <2> QED BY <2>2, <2>3, <2>4
<1>3. EntryHasTail'
  <2> SUFFICES ASSUME NEW q \in Pairs, tails'[q] # 0
               PROVE  /\ q[1] \in subs
                      /\ cancelled \/ goroutine'[q][tails'[q]].state # "free"
                      /\ ~goroutine'[q][tails'[q]].stopping
    BY DEF EntryHasTail
  <2>1. tails'[q] = tails[q] /\ tails[q] # 0 /\ tails[q] \in Slot
    BY DEF Slot
  <2>2. /\ q[1] \in subs
        /\ cancelled \/ goroutine[q][tails[q]].state # "free"
        /\ ~goroutine[q][tails[q]].stopping
    BY <2>1 DEF TailInv, EntryHasTail
  <2>3. CASE q = p /\ tails[q] = i
    <3>1. g.state # "free" \/ (g = Free /\ cancelled)
      BY <2>1, <2>3
    <3>2. g.state \in {"opening", "streaming", "broken", "exiting"} \/ g = Free
      BY <3>1 DEF Goroutine
    <3>3. ~g.stopping
      BY <2>2, <2>3, <3>2 DEF Free
    <3> QED BY <1>1, <2>1, <2>2, <2>3, <3>1, <3>3
  <2>4. CASE ~(q = p /\ tails[q] = i)
    <3>1. goroutine'[q][tails[q]] = goroutine[q][tails[q]]
      BY <1>1, <2>1, <2>4
    <3> QED BY <2>1, <2>2, <3>1
  <2> QED BY <2>3, <2>4
<1>4. NothingPushesAfterWait'
  BY DEF NothingPushesAfterWait
<1> QED BY <1>2, <1>3, <1>4 DEF TailInv

\* A container or host that goes away breaks the streams from it.
LEMMA BreakingOwned ==
    ASSUME TypeOK, TailInv, NothingPushesAfterWait, UNCHANGED <<subs, cancelled, loop, tails>>,
           NEW containers, Breaking(containers)
    PROVE  TailInv' /\ NothingPushesAfterWait' /\ goroutine' \in [Pairs -> [Slot -> Goroutine]]
<1> USE DEF TypeOK
<1>1. ASSUME NEW p \in Pairs, NEW i \in Slot
      PROVE  /\ goroutine'[p][i] \in Goroutine
             /\ goroutine'[p][i].stopping = goroutine[p][i].stopping
             /\ \/ goroutine'[p][i].state = goroutine[p][i].state
                \/ goroutine[p][i].state = "streaming" /\ goroutine'[p][i].state = "broken"
  <2>1. goroutine[p][i] \in Goroutine
    OBVIOUS
  <2>2. \/ goroutine'[p][i] = goroutine[p][i]
        \/ /\ goroutine[p][i].state = "streaming"
           /\ goroutine'[p][i] = [goroutine[p][i] EXCEPT !.state = "broken"]
    BY DEF Breaking
  <2> QED BY <2>1, <2>2 DEF Goroutine
<1>2. NoOrphan'
  BY <1>1 DEF TailInv, NoOrphan, Stops
<1>3. EntryHasTail'
  <2>1. \A p \in Pairs : tails[p] # 0 => tails[p] \in Slot
    BY DEF Slot
  <2> QED BY <1>1, <2>1 DEF TailInv, EntryHasTail
<1>4. NothingPushesAfterWait'
  BY <1>1 DEF NothingPushesAfterWait
<1>5. goroutine' \in [Pairs -> [Slot -> Goroutine]]
  BY <1>1 DEF Breaking
<1> QED BY <1>2, <1>3, <1>4, <1>5 DEF TailInv

(***************************************************************************)
(* Types.                                                                  *)
(***************************************************************************)
\* A listing that has nothing to show yet is a listing.
LEMMA NothingTyped == ASSUME TypeOK PROVE Nothing \in Snapshot
BY DEF TypeOK, Nothing, Snapshot

\* A request for a listing keeps the listing variables typed.
LEMMA RequestListTyped ==
    ASSUME TypeOK, RequestList, UNCHANGED name
    PROVE  /\ listing' \in {"none", "reading", "posted"} /\ listQueued' \in BOOLEAN
           /\ listClient' \in Clients /\ snapshot' \in Snapshot
           /\ listQueued' => listing' # "none"
<1> USE DEF TypeOK
<1>1. Nothing \in Snapshot
  BY NothingTyped
<1>2. CASE listing = "none"
  <2>1. listing' = "reading" /\ listClient' = source /\ snapshot' = Nothing /\ listQueued' = listQueued
    BY <1>2 DEF RequestList, StartListing
  <2> QED BY <1>1, <1>2, <2>1
<1>3. CASE listing # "none"
  <2>1. listQueued' = TRUE /\ UNCHANGED <<listing, listClient, snapshot>>
    BY <1>3 DEF RequestList
  <2> QED BY <1>3, <2>1
<1> QED BY <1>2, <1>3

\* The steps of the run loop keep the types.
LEMMA LoopTyped ==
    ASSUME TypeOK, LoopStep PROVE TypeOK'
<1> USE DEF TypeOK
<1>1. CASE \E s \in Subs : Subscribe(s)
  BY <1>1, RequestListTyped DEF Subscribe, engine, tailing, bounds
<1>2. ASSUME NEW s \in Subs, RemoveSub(s) PROVE TypeOK'
  <2>1. tails' \in [Pairs -> 0 .. Slots] /\ goroutine' \in [Pairs -> [Slot -> Goroutine]]
    BY <1>2, SetTailsTyped DEF RemoveSub
  <2> QED BY <1>2, <2>1 DEF RemoveSub, engine, list, bounds
<1>3. CASE HandlePoke \/ Tick
  BY <1>3, RequestListTyped DEF HandlePoke, Tick, engine, tailing, bounds
<1>4. CASE HandleEvent
  <2>1. tails' \in [Pairs -> 0 .. Slots] /\ goroutine' \in [Pairs -> [Slot -> Goroutine]]
    BY <1>4, SetTailsTyped DEF HandleEvent, PairsOf
  <2>2. events' \in Seq(Event)
    BY <1>4 DEF HandleEvent
  <2>3. /\ listing' \in {"none", "reading", "posted"} /\ listQueued' \in BOOLEAN
        /\ listClient' \in Clients /\ snapshot' \in Snapshot
        /\ listQueued' => listing' # "none"
    BY <1>4, RequestListTyped DEF HandleEvent, list, engine
  <2> QED BY <1>4, <2>1, <2>2, <2>3 DEF HandleEvent, engine, bounds
<1>5. CASE HandleList
  <2>1. tails' \in [Pairs -> 0 .. Slots] /\ goroutine' \in [Pairs -> [Slot -> Goroutine]]
    BY <1>5, SetTailsTyped DEF HandleList, Converge, Missing
  <2>2. stream' \in Clients /\ events' \in Seq(Event)
    BY <1>5 DEF HandleList, ReopenStream
  <2>3. /\ listing' \in {"none", "reading", "posted"} /\ listQueued' \in BOOLEAN
        /\ listClient' \in Clients /\ snapshot' \in Snapshot
        /\ listQueued' => listing' # "none"
    <3>1. CASE listQueued
      BY <1>5, <3>1, NothingTyped DEF HandleList, StartListing
    <3>2. CASE ~listQueued
      BY <1>5, <3>2, NothingTyped, FirstClient DEF HandleList
    <3> QED BY <3>1, <3>2
  <2> QED BY <1>5, <2>1, <2>2, <2>3 DEF HandleList, engine, bounds
<1>6. ASSUME NEW p \in Pairs, NEW i \in Slot, HandleTailExit(p, i) PROVE TypeOK'
  <2>1. tails' \in [Pairs -> 0 .. Slots]
    BY <1>6, HubAssumption DEF HandleTailExit, RemoveExited, HubAssumption
  <2>2. goroutine' \in [Pairs -> [Slot -> Goroutine]]
    BY <1>6, FreeTyped DEF HandleTailExit
  <2> QED BY <1>6, <2>1, <2>2 DEF HandleTailExit, engine, list, bounds
<1>7. CASE Drain
  <2>1. tails' \in [Pairs -> 0 .. Slots] /\ goroutine' \in [Pairs -> [Slot -> Goroutine]]
    BY <1>7, SetTailsTyped DEF Drain
  <2> QED BY <1>7, <2>1 DEF Drain, engine, list, bounds
<1>8. CASE Finish
  BY <1>8 DEF Finish, engine, tailing, list, bounds
<1> QED BY <1>1, <1>2, <1>3, <1>4, <1>5, <1>6, <1>7, <1>8 DEF LoopStep

\* Every step of a tail goroutine is one to another state of a goroutine.
LEMMA TailStepsOne ==
    ASSUME TypeOK, NEW p \in Pairs, NEW i \in Slot,
           OpenTail(p, i) \/ BreakTail(p, i) \/ EndAttempt(p, i) \/ Leave(p, i)
    PROVE  \E g \in Goroutine :
             /\ goroutine' = [goroutine EXCEPT ![p][i] = g]
             /\ g.state \in {"opening", "streaming", "broken"} =>
                  /\ goroutine[p][i].state \in {"opening", "streaming", "broken"}
                  /\ g.stopping = goroutine[p][i].stopping
             /\ g.state = "exiting" => g.stopping = goroutine[p][i].stopping
             /\ goroutine[p][i].state # "free"
             /\ g.state # "free" \/ (g = Free /\ cancelled)
<1> USE DEF TypeOK
<1>1. goroutine[p][i] \in Goroutine
  OBVIOUS
<1>2. ASSUME NEW to \in {"streaming", "broken", "exiting"}, SetState(p, i, to),
             goroutine[p][i].state \in {"opening", "streaming", "broken"}
      PROVE  \E g \in Goroutine :
               /\ goroutine' = [goroutine EXCEPT ![p][i] = g]
               /\ g.state = to /\ g.stopping = goroutine[p][i].stopping
  <2> DEFINE g == [goroutine[p][i] EXCEPT !.state = to]
  <2>1. g \in Goroutine /\ g.state = to /\ g.stopping = goroutine[p][i].stopping
    BY <1>1 DEF Goroutine
  <2>2. goroutine' = [goroutine EXCEPT ![p][i] = g]
    BY <1>2 DEF SetState
  <2> QED BY <2>1, <2>2
<1>3. CASE OpenTail(p, i) \/ BreakTail(p, i)
  BY <1>2, <1>3 DEF OpenTail, BreakTail
<1>4. CASE EndAttempt(p, i)
  <2>1. goroutine[p][i].state \in {"opening", "streaming", "broken"}
    BY <1>4 DEF EndAttempt, Returns
  <2>2. CASE SetState(p, i, "exiting")
    BY <1>2, <2>1, <2>2
  <2>3. CASE Retries(goroutine[p][i]) /\
             goroutine' = [goroutine EXCEPT ![p][i].state = "opening",
                                           ![p][i].attempt = goroutine[p][i].attempt + 1]
    <3> DEFINE g == [goroutine[p][i] EXCEPT !.state = "opening", !.attempt = goroutine[p][i].attempt + 1]
    <3>1. goroutine[p][i].attempt \in 1 .. MaxAttempts /\ goroutine[p][i].attempt < MaxAttempts
      BY <1>1, <2>3 DEF Goroutine, Retries
    <3>2. goroutine[p][i].attempt + 1 \in 1 .. MaxAttempts
      BY <3>1, HubAssumption DEF HubAssumption
    <3>3. g \in Goroutine /\ g.state = "opening" /\ g.stopping = goroutine[p][i].stopping
      BY <1>1, <3>2 DEF Goroutine
    <3>4. goroutine' = [goroutine EXCEPT ![p][i] = g]
      BY <2>3
    <3> QED BY <2>1, <3>3, <3>4
  <2> QED BY <1>4, <2>2, <2>3 DEF EndAttempt
<1>5. CASE Leave(p, i)
  BY <1>5, FreeTyped DEF Leave, Unheard, Free
<1> QED BY <1>3, <1>4, <1>5

\* The steps of tail goroutines keep the types.
LEMMA TailTyped ==
    ASSUME TypeOK, TailStep PROVE TypeOK'
<1>1. PICK p \in Pairs, i \in Slot : OpenTail(p, i) \/ BreakTail(p, i) \/ EndAttempt(p, i) \/ Leave(p, i)
  BY DEF TailStep
<1>2. goroutine' \in [Pairs -> [Slot -> Goroutine]]
  <2>1. PICK g \in Goroutine : goroutine' = [goroutine EXCEPT ![p][i] = g]
    BY <1>1, TailStepsOne
  <2> QED BY <2>1 DEF TypeOK
<1>3. OnlyTail /\ failures' \in 0 .. MaxFailures
  BY <1>1, HubAssumption DEF TypeOK, HubAssumption, OpenTail, BreakTail, EndAttempt, Leave
<1> QED BY <1>2, <1>3 DEF TypeOK, OnlyTail, engine, list

\* An event queued by an engine is an event.
LEMMA EmitTyped ==
    ASSUME TypeOK, NEW c \in Containers, NEW action \in {"start", "die", "rename"},
           name' \in [Containers -> Names], Emit(action, c)
    PROVE  events' \in Seq(Event)
<1> DEFINE ev == [action |-> action, of |-> c, name |-> name'[c]]
<1>1. ev \in Event
  BY DEF Event
<1>2. events' = Append(events, ev) \/ events' = events
  BY DEF Emit
<1>3. events \in Seq(Event)
  BY DEF TypeOK
<1> HIDE DEF ev
<1>4. Append(events, ev) \in Seq(Event)
  BY <1>1, <1>3
<1> QED BY <1>2, <1>3, <1>4

\* The steps of the environment and of the listing keep the types.
LEMMA EngineTyped ==
    ASSUME TypeOK, TailInv, NothingPushesAfterWait, EngineStep \/ ListContainers PROVE TypeOK'
<1> USE DEF TypeOK, OnlyEngine, list
<1>0. Change => changes' \in 0 .. MaxChanges
  BY HubAssumption DEF Change, HubAssumption
<1>1. ASSUME NEW c \in Containers, Start(c) PROVE TypeOK'
  BY <1>0, <1>1, EmitTyped DEF Start
<1>2. ASSUME NEW c \in Containers, Die(c) PROVE TypeOK'
  <2>1. goroutine' \in [Pairs -> [Slot -> Goroutine]]
    BY <1>2, BreakingOwned DEF Die
  <2>2. events' \in Seq(Event)
    BY <1>2, EmitTyped DEF Die
  <2> QED BY <1>0, <1>2, <2>1, <2>2 DEF Die
<1>3. ASSUME NEW c \in Containers, NEW n \in Names, Rename(c, n) PROVE TypeOK'
  <2>1. name' \in [Containers -> Names]
    BY <1>3 DEF Rename
  <2>2. events' \in Seq(Event)
    BY <1>3, <2>1, EmitTyped DEF Rename
  <2> QED BY <1>0, <1>3, <2>1, <2>2 DEF Rename
<1>4. ASSUME NEW h \in Hosts, HostFails(h) PROVE TypeOK'
  <2>1. goroutine' \in [Pairs -> [Slot -> Goroutine]]
    BY <1>4, BreakingOwned DEF HostFails
  <2> QED BY <1>0, <1>4, <2>1 DEF HostFails
<1>5. ASSUME NEW h \in Hosts, HostReturns(h) PROVE TypeOK'
  BY <1>0, <1>5 DEF HostReturns
<1>6. CASE SwapDocker
  BY <1>0, <1>6 DEF SwapDocker
<1>7. CASE Reconcile
  BY <1>7 DEF Reconcile, tailing, bounds
<1>9. CASE Cancel
  BY <1>9 DEF Cancel, tailing, bounds
<1>8. CASE ListContainers
  <2>1. HostsOf[listClient] \in SUBSET Hosts
    BY HubAssumption DEF HubAssumption, Clients
  <2>2. failures' \in 0 .. MaxFailures
    BY <1>8, HubAssumption DEF ListContainers, HubAssumption
  <2>3. snapshot' \in Snapshot
    BY <1>8, <2>1 DEF ListContainers, Snapshot
  <2> QED BY <1>8, <2>2, <2>3 DEF ListContainers, engine, tailing
<1> QED BY <1>1, <1>2, <1>3, <1>4, <1>5, <1>6, <1>7, <1>8, <1>9 DEF EngineStep

(***************************************************************************)
(* The invariant.                                                          *)
(***************************************************************************)
\* The run loop stays in charge of the tails.
LEMMA LoopOwned ==
    ASSUME IInv, LoopStep PROVE TailInv' /\ NothingPushesAfterWait'
<1> USE DEF IInv
<1>0. TypeOK /\ TailInv /\ NothingPushesAfterWait
  OBVIOUS
<1>1. ASSUME NEW s \in Subs, Subscribe(s) PROVE TailInv' /\ NothingPushesAfterWait'
  BY <1>1, TailingUntouched DEF Subscribe, engine
<1>2. ASSUME NEW s \in Subs, RemoveSub(s) PROVE TailInv' /\ NothingPushesAfterWait'
  <2> DEFINE cancels == {p \in Pairs : p[1] = s}
  <2>1. SetTails(cancels, {}) /\ cancelled' = cancelled /\ subs' = subs \ {s} /\ loop' = "running"
    BY <1>2 DEF RemoveSub, engine
  <2>2. \A p \in Pairs \ cancels : tails[p] # 0 => p[1] \in subs'
    BY <2>1 DEF TailInv, EntryHasTail
  <2>3. TailInv'
    BY <1>0, <2>1, <2>2, SetTailsOwned
  <2> QED BY <2>1, <2>3 DEF NothingPushesAfterWait
<1>3. CASE HandlePoke \/ Tick
  BY <1>3, TailingUntouched DEF HandlePoke, Tick, engine
<1>4. CASE HandleEvent
  <2>1. PICK cancels \in SUBSET Pairs, spawns \in SUBSET Pairs :
          /\ SetTails(cancels, spawns)
          /\ \A p \in spawns : tails[p] = 0 /\ p[1] \in subs
    <3> DEFINE ev == Head(events)
               opens(p) == p[1] \in subs /\ tails[p] = 0 /\ Matches(p[1], ev.name)
               opened == {p \in PairsOf(ev.of) : opens(p)}
    <3>1. SetTails({}, opened) \/ SetTails(PairsOf(ev.of), {})
      BY <1>4 DEF HandleEvent
    <3>2. PairsOf(ev.of) \in SUBSET Pairs /\ opened \in SUBSET Pairs
      BY DEF PairsOf
    <3>3. \A p \in opened : tails[p] = 0 /\ p[1] \in subs
      OBVIOUS
    <3> HIDE DEF opened
    <3> QED BY <3>1, <3>2, <3>3
  <2>2. cancelled' = cancelled /\ subs' = subs /\ loop' = "running"
    BY <1>4 DEF HandleEvent, engine
  <2>3. \A p \in Pairs : tails[p] # 0 => p[1] \in subs'
    BY <2>2 DEF TailInv, EntryHasTail
  <2>4. TailInv'
    BY <1>0, <2>1, <2>2, <2>3, SetTailsOwned
  <2> QED BY <2>2, <2>4 DEF NothingPushesAfterWait
<1>5. CASE HandleList
  <2> DEFINE cancels == {p \in Pairs : Listed(p) /\ ~Desired(p)}
  <2>1. SetTails(cancels, Missing) /\ cancelled' = cancelled /\ subs' = subs /\ loop' = "running"
    BY <1>5 DEF HandleList, Converge, engine
  <2>2. Missing \in SUBSET Pairs /\ \A p \in Missing : tails[p] = 0 /\ p[1] \in subs'
    BY <2>1 DEF Missing
  <2>3. \A p \in Pairs : tails[p] # 0 => p[1] \in subs'
    BY <2>1 DEF TailInv, EntryHasTail
  <2> HIDE DEF cancels
  <2>4. TailInv'
    BY <1>0, <2>1, <2>2, <2>3, SetTailsOwned
  <2> QED BY <2>1, <2>4 DEF NothingPushesAfterWait
<1>6. ASSUME NEW p \in Pairs, NEW i \in Slot, HandleTailExit(p, i)
      PROVE  TailInv' /\ NothingPushesAfterWait'
  <2>1. /\ goroutine' = [goroutine EXCEPT ![p][i] = Free] /\ goroutine[p][i].state = "exiting"
        /\ tails' = [tails EXCEPT ![p] = IF @ = i THEN 0 ELSE @]
        /\ UNCHANGED <<subs, cancelled, loop>>
    BY <1>6 DEF HandleTailExit, RemoveExited, engine
  <2>2. Free \in Goroutine /\ Free.state = "free"
    BY FreeTyped DEF Free
  <2> QED BY <1>0, <2>1, <2>2, OneGoroutine
<1>7. CASE Drain
  <2>1. SetTails(Pairs, {}) /\ cancelled' = cancelled /\ subs' = subs /\ loop' = "draining"
    BY <1>7 DEF Drain, engine
  <2>2. TailInv'
    BY <1>0, <2>1, SetTailsOwned
  <2> QED BY <2>1, <2>2 DEF NothingPushesAfterWait
<1>8. CASE Finish
  <2>1. UNCHANGED <<subs, cancelled, tailing>> /\ Joined
    BY <1>8 DEF Finish, engine
  <2> QED BY <2>1 DEF TailInv, NoOrphan, EntryHasTail, NothingPushesAfterWait, Stops, tailing, Joined
<1> QED BY <1>1, <1>2, <1>3, <1>4, <1>5, <1>6, <1>7, <1>8 DEF LoopStep

\* The tail goroutines leave it in charge.
LEMMA TailOwned ==
    ASSUME IInv, TailStep PROVE TailInv' /\ NothingPushesAfterWait'
<1>0. TypeOK /\ TailInv /\ NothingPushesAfterWait
  BY DEF IInv
<1>1. PICK p \in Pairs, i \in Slot : OpenTail(p, i) \/ BreakTail(p, i) \/ EndAttempt(p, i) \/ Leave(p, i)
  BY DEF TailStep
<1>2. UNCHANGED <<tails, subs, cancelled, loop>>
  BY <1>1 DEF OpenTail, BreakTail, EndAttempt, Leave, OnlyTail, engine
<1>3. PICK g \in Goroutine :
        /\ goroutine' = [goroutine EXCEPT ![p][i] = g]
        /\ g.state \in {"opening", "streaming", "broken"} =>
             /\ goroutine[p][i].state \in {"opening", "streaming", "broken"}
             /\ g.stopping = goroutine[p][i].stopping
        /\ g.state = "exiting" => g.stopping = goroutine[p][i].stopping
        /\ goroutine[p][i].state # "free"
        /\ g.state # "free" \/ (g = Free /\ cancelled)
  BY <1>0, <1>1, TailStepsOne
<1> QED BY <1>0, <1>2, <1>3, OneGoroutine

\* So do the engines, the configuration and the listing goroutine.
LEMMA EngineOwned ==
    ASSUME IInv, EngineStep \/ ListContainers PROVE TailInv' /\ NothingPushesAfterWait'
<1>0. TypeOK /\ TailInv /\ NothingPushesAfterWait
  BY DEF IInv
<1>1. ASSUME NEW c \in Containers, Die(c) PROVE TailInv' /\ NothingPushesAfterWait'
  BY <1>0, <1>1, BreakingOwned DEF Die, OnlyEngine
<1>2. ASSUME NEW h \in Hosts, HostFails(h) PROVE TailInv' /\ NothingPushesAfterWait'
  BY <1>0, <1>2, BreakingOwned DEF HostFails, OnlyEngine
<1>3. ASSUME UNCHANGED tailing, cancelled => cancelled', subs' = subs, loop' = loop
      PROVE  TailInv' /\ NothingPushesAfterWait'
  BY <1>0, <1>3, TailingUntouched
<1>4. ASSUME NEW c \in Containers, NEW n \in Names, Start(c) \/ Rename(c, n)
      PROVE  TailInv' /\ NothingPushesAfterWait'
  BY <1>3, <1>4 DEF Start, Rename, OnlyEngine, tailing
<1>5. ASSUME NEW c \in Containers, Start(c) PROVE TailInv' /\ NothingPushesAfterWait'
  BY <1>3, <1>5 DEF Start, OnlyEngine, tailing
<1>6. ASSUME NEW h \in Hosts, HostReturns(h) PROVE TailInv' /\ NothingPushesAfterWait'
  BY <1>3, <1>6 DEF HostReturns, OnlyEngine, tailing
<1>7. CASE SwapDocker \/ Reconcile \/ Cancel
  BY <1>3, <1>7 DEF SwapDocker, Reconcile, Cancel, OnlyEngine, tailing
<1>8. CASE ListContainers
  BY <1>3, <1>8 DEF ListContainers, engine, tailing
<1> QED BY <1>1, <1>2, <1>4, <1>5, <1>6, <1>7, <1>8 DEF EngineStep

\* The invariant holds initially.
LEMMA Initially == Init => IInv
<1> SUFFICES ASSUME Init PROVE IInv
  OBVIOUS
<1>1. /\ running \subseteq Containers /\ name \in [Containers -> Names]
      /\ reachable \subseteq Hosts /\ source \in Clients /\ swapped \in BOOLEAN
      /\ cancelled \in BOOLEAN /\ loop \in {"running", "draining", "finished"}
      /\ subs \subseteq Subs /\ gone \subseteq Subs /\ stream \in Clients /\ poke \in BOOLEAN
  BY FirstClient DEF Init
<1>2. tails \in [Pairs -> 0 .. Slots] /\ goroutine \in [Pairs -> [Slot -> Goroutine]]
  BY FreeTyped, HubAssumption DEF Init, HubAssumption
<1>3. /\ listing \in {"none", "reading", "posted"} /\ listQueued \in BOOLEAN
      /\ listClient \in Clients /\ snapshot \in Snapshot
      /\ listQueued => listing # "none"
  BY FirstClient DEF Init, Nothing, Snapshot
<1>4. events \in Seq(Event) /\ changes \in 0 .. MaxChanges /\ failures \in 0 .. MaxFailures
  BY HubAssumption DEF Init, HubAssumption
<1>5. TypeOK
  BY <1>1, <1>2, <1>3, <1>4 DEF TypeOK
<1>6. TailInv /\ NothingPushesAfterWait
  BY DEF Init, TailInv, NoOrphan, EntryHasTail, NothingPushesAfterWait, Free
<1> QED BY <1>5, <1>6 DEF IInv

\* Every step keeps it.
LEMMA Inductive == IInv /\ [Next]_vars => IInv'
<1> SUFFICES ASSUME IInv, [Next]_vars PROVE IInv'
  OBVIOUS
<1>0. TypeOK /\ TailInv /\ NothingPushesAfterWait
  BY DEF IInv
<1>1. CASE LoopStep
  BY <1>0, <1>1, LoopTyped, LoopOwned DEF IInv
<1>2. CASE TailStep
  BY <1>0, <1>2, TailTyped, TailOwned DEF IInv
<1>3. CASE EngineStep \/ ListContainers
  BY <1>0, <1>3, EngineTyped, EngineOwned DEF IInv
<1>4. CASE UNCHANGED vars
  <2>1. TypeOK'
    BY <1>0, <1>4 DEF TypeOK, vars, engine, list, tailing, bounds
  <2>2. TailInv' /\ NothingPushesAfterWait'
    BY <1>0, <1>4, TailingUntouched DEF vars, engine
  <2> QED BY <2>1, <2>2 DEF IInv
<1> QED BY <1>1, <1>2, <1>3, <1>4 DEF Next

-----------------------------------------------------------------------------
\* The hub's variables keep their types.
THEOREM TypeCorrect == Spec => []TypeOK
<1>1. IInv => TypeOK
  BY DEF IInv
<1> QED BY Initially, Inductive, <1>1, PTL DEF Spec

\* However listings, events, exits, unsubscriptions and swaps interleave, a
\* tail that may still push records and was not cancelled is the one the run
\* loop can cancel.
THEOREM NoTailEscapes == Spec => []NoOrphan
<1>1. IInv => NoOrphan
  BY DEF IInv, TailInv
<1> QED BY Initially, Inductive, <1>1, PTL DEF Spec

\* A pair the run loop takes for tailed has a live goroutine that nobody has
\* cancelled, of a registered subscription: its exit is going to clear it.
THEOREM NoTailForgotten == Spec => []EntryHasTail
<1>1. IInv => EntryHasTail
  BY DEF IInv, TailInv
<1> QED BY Initially, Inductive, <1>1, PTL DEF Spec

\* Once Run has returned no tail is left that could push a record.
THEOREM WaitIsFinal == Spec => []NothingPushesAfterWait
<1>1. IInv => NothingPushesAfterWait
  BY DEF IInv
<1> QED BY Initially, Inductive, <1>1, PTL DEF Spec
=============================================================================
