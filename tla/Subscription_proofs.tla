------------------------ MODULE Subscription_proofs ------------------------
(***************************************************************************)
(* Proofs about Subscription, for any number of tails and callers, any     *)
(* ring size and any number of pushes.                                     *)
(***************************************************************************)
EXTENDS Subscription, Integers, SequenceTheorems, TLAPS

USE RingSizeAssumption, MaxPushAssumption DEF RingSizeAssumption, MaxPushAssumption

(***************************************************************************)
(* The ring's index arithmetic.                                            *)
(***************************************************************************)
\* Adding two slots and reducing modulo the ring's size wraps at most once.
LEMMA WrapOnce ==
    ASSUME NEW h \in Slots, NEW i \in Slots
    PROVE  (h + i) % RingSize = IF h + i < RingSize THEN h + i ELSE h + i - RingSize
BY DEF Slots

\* A whole turn ends where it began.
LEMMA FullTurn == RingSize % RingSize = 0
OBVIOUS

\* The slot i places behind head, without the modulo.
LEMMA SlotCases ==
    ASSUME head \in Slots, NEW i \in 0 .. RingSize - 1
    PROVE  Slot(i) = IF head + i < RingSize THEN head + i ELSE head + i - RingSize
BY WrapOnce DEF Slot, Slots

(***************************************************************************)
(* The two operations that move the ring.                                  *)
(***************************************************************************)
RingInv == TypeOK /\ RingHoldsNewest /\ AllAccounted /\ HandedBeforeBuffered

\* push keeps the newest records, in order, in a ring that is full or not.
LEMMA PushKeepsRing ==
    ASSUME RingInv, NEW t \in Tails, Push(t)
    PROVE  RingInv'
<1> USE DEF RingInv
<1>1. head \in Slots /\ count \in 0 .. RingSize /\ accepted \in 0 .. MaxPush
  BY DEF TypeOK
<1>2. CASE count < RingSize
  <2>0. count # RingSize
    BY <1>1, <1>2
  <2>1. /\ head' = head
        /\ count' = count + 1
        /\ buf' = [buf EXCEPT ![Slot(count)] = accepted + 1]
        /\ drops' = drops
    BY <2>0 DEF Push, NewSlot, Dropped, Slot
  <2>2. Slot(count) \in Slots
    BY <1>1, <1>2, SlotCases DEF Slots
  <2>3. TypeOK'
    BY <1>1, <1>2, <2>1, <2>2 DEF TypeOK, Push, NewSlot, Dropped, Slots
  <2>4. \A i \in 0 .. RingSize - 1 : Slot(i)' = Slot(i) /\ (i # count => Slot(i) # Slot(count))
    BY <1>1, <1>2, <2>1, SlotCases DEF Slot, Slots
  <2>5. RingHoldsNewest'
    <3>1. ASSUME NEW i \in 0 .. count' - 1
          PROVE  buf'[Slot(i)'] = accepted' - count' + 1 + i
      <4>1. CASE i = count
        BY <4>1, <1>1, <1>2, <2>1, <2>2, <2>4 DEF Push, NewSlot, Dropped, TypeOK
      <4>2. CASE i # count
        <5>1. i \in 0 .. count - 1
          BY <4>2, <3>1, <1>1, <2>1
        <5>2. Slot(i) \in Slots /\ Slot(i) # Slot(count) /\ Slot(i)' = Slot(i)
          BY <5>1, <1>1, <1>2, <2>4, <4>2, SlotCases DEF Slots
        <5> QED
          BY <5>1, <5>2, <1>1, <2>1 DEF RingHoldsNewest, Push, NewSlot, Dropped, TypeOK
      <4> QED BY <4>1, <4>2
    <3>2. ASSUME NEW i \in count' .. RingSize - 1
          PROVE  buf'[Slot(i)'] = 0
      <4>1. i \in count .. RingSize - 1 /\ i # count /\ i \in 0 .. RingSize - 1
        BY <3>2, <1>1, <2>1
      <4>2. Slot(i) \in Slots /\ Slot(i) # Slot(count) /\ Slot(i)' = Slot(i)
        BY <4>1, <1>1, <1>2, <2>4, SlotCases DEF Slots
      <4> QED
        BY <4>1, <4>2, <1>1, <2>1 DEF RingHoldsNewest, TypeOK
    <3> QED BY <3>1, <3>2 DEF RingHoldsNewest
  <2>6. AllAccounted' /\ HandedBeforeBuffered'
    BY <1>1, <2>1 DEF AllAccounted, HandedBeforeBuffered, Push, NewSlot, Dropped, TypeOK
  <2> QED BY <2>3, <2>5, <2>6
<1>3. CASE count = RingSize
  <2>1. /\ head' = (head + 1) % RingSize
        /\ count' = RingSize
        /\ buf' = [[buf EXCEPT ![head] = 0]
                      EXCEPT ![(head' + (RingSize - 1)) % RingSize] = accepted + 1]
        /\ drops' = drops + 1
    <3>1. /\ head' = (head + 1) % RingSize
          /\ count' = (count - 1) + 1
          /\ drops' = drops + 1
          /\ buf' = [[buf EXCEPT ![head] = 0]
                        EXCEPT ![(((head + 1) % RingSize) + (count - 1)) % RingSize] = accepted + 1]
      BY <1>3 DEF Push, NewSlot, Dropped
    <3>2. count - 1 = RingSize - 1 /\ (count - 1) + 1 = RingSize
      BY <1>3
    <3> QED BY <3>1, <3>2
  <2>2. head' = IF head + 1 < RingSize THEN head + 1 ELSE 0
    <3>1. CASE head + 1 < RingSize
      BY <3>1, <1>1, <2>1 DEF Slots
    <3>2. CASE head = RingSize - 1
      <4>1. head + 1 = RingSize
        BY <3>2
      <4> QED BY <4>1, <2>1, FullTurn
    <3> QED BY <3>1, <3>2, <1>1 DEF Slots
  <2>3. head' \in Slots
    BY <1>1, <2>2 DEF Slots
  <2>4. (head' + (RingSize - 1)) % RingSize = head
    <3>1. RingSize - 1 \in Slots
      BY DEF Slots
    <3>2. (head' + (RingSize - 1)) % RingSize
            = IF head' + (RingSize - 1) < RingSize
                THEN head' + (RingSize - 1) ELSE head' + (RingSize - 1) - RingSize
      BY <2>3, <3>1, WrapOnce
    <3> QED BY <3>2, <1>1, <2>2, <2>3 DEF Slots
  <2>5. buf' = [buf EXCEPT ![head] = accepted + 1]
    BY <1>1, <2>1, <2>4 DEF TypeOK
  <2>6. TypeOK'
    BY <1>1, <1>3, <2>1, <2>3, <2>5 DEF TypeOK, Push, NewSlot, Dropped, Slots
  <2>7. ASSUME NEW i \in 0 .. RingSize - 1
        PROVE  Slot(i)' = IF i = RingSize - 1 THEN head ELSE Slot(i + 1)
    <3>1. Slot(i)' = IF head' + i < RingSize THEN head' + i ELSE head' + i - RingSize
      BY <2>3, WrapOnce DEF Slot, Slots
    <3>2. CASE i = RingSize - 1
      BY <3>1, <3>2, <1>1, <2>2 DEF Slots
    <3>3. CASE i # RingSize - 1
      <4>1. i + 1 \in 0 .. RingSize - 1
        BY <3>3
      <4> QED
        BY <3>1, <3>3, <4>1, <1>1, <2>2, SlotCases DEF Slots
    <3> QED BY <3>2, <3>3
  <2>8. RingHoldsNewest'
    <3>1. ASSUME NEW i \in 0 .. RingSize - 1
          PROVE  buf'[Slot(i)'] = accepted' - RingSize + 1 + i
      <4>1. CASE i = RingSize - 1
        <5>1. Slot(i)' = head
          BY <4>1, <2>7
        <5> QED BY <4>1, <5>1, <1>1, <2>5 DEF Push, NewSlot, Dropped, TypeOK
      <4>2. CASE i # RingSize - 1
        <5>1. i + 1 \in 0 .. RingSize - 1
          BY <4>2
        <5>2. Slot(i + 1) \in Slots /\ Slot(i + 1) # head
          BY <5>1, <1>1, SlotCases DEF Slots
        <5>3. buf[Slot(i + 1)] = accepted - RingSize + 1 + (i + 1)
          BY <5>1, <1>3 DEF RingHoldsNewest
        <5>4. Slot(i)' = Slot(i + 1)
          BY <4>2, <2>7
        <5>5. buf'[Slot(i + 1)] = buf[Slot(i + 1)]
          BY <5>2, <1>1, <2>5 DEF TypeOK
        <5> QED
          BY <5>3, <5>4, <5>5, <1>1 DEF Push, NewSlot, Dropped
      <4> QED BY <4>1, <4>2
    <3>2. count' .. RingSize - 1 = {}
      BY <2>1
    <3>3. \A i \in 0 .. count' - 1 : buf'[Slot(i)'] = accepted' - count' + 1 + i
      BY <3>1, <2>1
    <3> QED BY <3>2, <3>3 DEF RingHoldsNewest
  <2>9. AllAccounted' /\ HandedBeforeBuffered'
    BY <1>1, <1>3, <2>1 DEF AllAccounted, HandedBeforeBuffered, Push, NewSlot, Dropped, TypeOK
  <2> QED BY <2>6, <2>8, <2>9
<1> QED BY <1>1, <1>2, <1>3

\* Taking the oldest record leaves the rest in order and is accounted for.
LEMMA DeliverKeepsRing ==
    ASSUME RingInv, Deliver
    PROVE  /\ RingInv'
           /\ current' = accepted - count + 1
           /\ current < current'
           /\ \A i \in 0 .. count' - 1 : Slot(i)' = Slot(i + 1) /\ Slot(i + 1) # head
<1> USE DEF RingInv
<1>1. /\ head \in Slots /\ count \in 1 .. RingSize /\ accepted \in 0 .. MaxPush
      /\ current \in 0 .. accepted /\ sunk \in Nat /\ drops \in Nat
  BY DEF TypeOK, Deliver, AfterHead, AtHead
<1>2. Slot(0) = head /\ 0 \in 0 .. count - 1
  BY <1>1, SlotCases DEF Slots
<1>3. buf[head] = accepted - count + 1
  BY <1>1, <1>2 DEF RingHoldsNewest
<1>4. current' = accepted - count + 1 /\ current < current' /\ current' \in 0 .. accepted
  BY <1>1, <1>3 DEF Deliver, AfterHead, AtHead, HandedBeforeBuffered
<1>5. /\ head' = (head + 1) % RingSize
      /\ buf' = [buf EXCEPT ![head] = 0]
      /\ count' = count - 1
      /\ accepted' = accepted
  BY DEF Deliver, AfterHead, AtHead
<1>6. head' = IF head + 1 < RingSize THEN head + 1 ELSE 0
  <2>1. CASE head + 1 < RingSize
    BY <2>1, <1>1, <1>5 DEF Slots
  <2>2. CASE head = RingSize - 1
    <3>1. head + 1 = RingSize
      BY <2>2
    <3> QED BY <3>1, <1>5, FullTurn
  <2> QED BY <2>1, <2>2, <1>1 DEF Slots
<1>7. head' \in Slots
  BY <1>1, <1>6 DEF Slots
<1>8. ASSUME NEW i \in 0 .. RingSize - 1
      PROVE  Slot(i)' = IF i = RingSize - 1 THEN head ELSE Slot(i + 1)
  <2>1. Slot(i)' = IF head' + i < RingSize THEN head' + i ELSE head' + i - RingSize
    BY <1>7, WrapOnce DEF Slot, Slots
  <2>2. CASE i = RingSize - 1
    BY <2>1, <2>2, <1>1, <1>6 DEF Slots
  <2>3. CASE i # RingSize - 1
    <3>1. i + 1 \in 0 .. RingSize - 1
      BY <2>3
    <3> QED
      BY <2>1, <2>3, <3>1, <1>1, <1>6, SlotCases DEF Slots
  <2> QED BY <2>2, <2>3
<1>9. ASSUME NEW i \in 0 .. RingSize - 2
      PROVE  Slot(i + 1) \in Slots /\ Slot(i + 1) # head /\ Slot(i)' = Slot(i + 1)
  <2>1. i + 1 \in 0 .. RingSize - 1 /\ i \in 0 .. RingSize - 1 /\ i # RingSize - 1
    OBVIOUS
  <2> QED BY <2>1, <1>1, <1>8, SlotCases DEF Slots
<1>10. ASSUME NEW i \in 0 .. RingSize - 2
       PROVE  buf'[Slot(i)'] = buf[Slot(i + 1)]
  BY <1>9, <1>5 DEF TypeOK
<1>11. TypeOK'
  BY <1>1, <1>4, <1>5, <1>7 DEF TypeOK, Deliver, AfterHead, AtHead, Slots
<1>12. RingHoldsNewest'
  <2>1. ASSUME NEW i \in 0 .. count' - 1
        PROVE  buf'[Slot(i)'] = accepted' - count' + 1 + i
    <3>1. i \in 0 .. RingSize - 2 /\ i + 1 \in 0 .. count - 1
      BY <1>1, <1>5
    <3>2. buf[Slot(i + 1)] = accepted - count + 1 + (i + 1)
      BY <3>1 DEF RingHoldsNewest
    <3> QED BY <3>1, <3>2, <1>1, <1>5, <1>10
  <2>2. ASSUME NEW i \in count' .. RingSize - 1
        PROVE  buf'[Slot(i)'] = 0
    <3>1. CASE i = RingSize - 1
      <4>1. Slot(i)' = head
        BY <3>1, <1>8
      <4> QED BY <4>1, <1>1, <1>5 DEF TypeOK
    <3>2. CASE i # RingSize - 1
      <4>1. i \in 0 .. RingSize - 2 /\ i + 1 \in count .. RingSize - 1
        BY <3>2, <1>1, <1>5
      <4>2. buf[Slot(i + 1)] = 0
        BY <4>1 DEF RingHoldsNewest
      <4> QED BY <4>1, <4>2, <1>10
    <3> QED BY <3>1, <3>2
  <2> QED BY <2>1, <2>2 DEF RingHoldsNewest
<1>13. AllAccounted' /\ HandedBeforeBuffered'
  BY <1>1, <1>4, <1>5 DEF AllAccounted, HandedBeforeBuffered, Deliver, AfterHead, AtHead
<1>14. ASSUME NEW i \in 0 .. count' - 1
       PROVE  Slot(i)' = Slot(i + 1) /\ Slot(i + 1) # head
  <2>1. i \in 0 .. RingSize - 2
    BY <1>1, <1>5
  <2> QED BY <2>1, <1>9
<1> QED BY <1>4, <1>11, <1>12, <1>13, <1>14

\* Every other step leaves the ring and its history alone.
LEMMA OthersKeepRing ==
    ASSUME RingInv, TypeOK',
           UNCHANGED <<buf, head, count, drops, accepted, sunk, current>>
    PROVE  RingInv'
BY DEF RingInv, TypeOK, RingHoldsNewest, AllAccounted, HandedBeforeBuffered, Slot

(***************************************************************************)
(* The inductive invariant.                                                *)
(***************************************************************************)
ControlInv == DeliveryLifecycle /\ UnsubscribeLifecycle /\ ShutdownLifecycle

\* The empty, open subscription of a running hub satisfies the invariant.
LEMMA InitIInv == Init => IInv
<1> SUFFICES ASSUME Init PROVE IInv
  OBVIOUS
<1>1. TypeOK
  <2>1. buf \in [Slots -> 0 .. accepted] /\ head \in Slots
    BY DEF Init, Slots
  <2>2. /\ count \in 0 .. RingSize /\ accepted \in 0 .. MaxPush /\ current \in 0 .. accepted
        /\ drops \in Nat /\ sunk \in Nat
    BY DEF Init
  <2>3. /\ closed \in BOOLEAN /\ discard \in BOOLEAN
        /\ deliver \in {"unstarted", "waiting", "sinking", "exited"}
        /\ member \in {"new", "refused", "registered", "removed"}
        /\ once \in {"free", "running", "done"}
        /\ hub \in {"running", "stopping", "draining", "finished"}
    BY DEF Init
  <2>4. /\ tail \in [Tails -> {"none", "open", "cancelled"}]
        /\ caller \in [Callers -> {"idle", "blocked", "requesting", "awaiting", "returned"}]
    BY DEF Init
  <2> QED BY <2>1, <2>2, <2>3, <2>4 DEF TypeOK
<1>2. RingHoldsNewest
  <2>1. ASSUME NEW i \in 0 .. RingSize - 1
        PROVE  buf[Slot(i)] = 0
    <3>1. Slot(i) \in Slots
      BY <1>1, SlotCases DEF TypeOK, Slots
    <3> QED BY <3>1 DEF Init
  <2>2. count = 0
    BY DEF Init
  <2> QED BY <2>1, <2>2 DEF RingHoldsNewest
<1>3. AllAccounted /\ HandedBeforeBuffered
  BY DEF Init, AllAccounted, HandedBeforeBuffered
<1>4. DeliveryLifecycle /\ UnsubscribeLifecycle /\ ShutdownLifecycle
  BY DEF Init, DeliveryLifecycle, UnsubscribeLifecycle, ShutdownLifecycle
<1> QED BY <1>1, <1>2, <1>3, <1>4 DEF IInv

\* Every step keeps registration, delivery goroutine, unsubscribe calls and
\* shutdown in step with one another.
LEMMA ControlStep ==
    ASSUME IInv, [Next]_vars
    PROVE  ControlInv'
<1> USE DEF IInv, TypeOK, ControlInv, DeliveryLifecycle, UnsubscribeLifecycle, ShutdownLifecycle
<1>1. CASE Register
  BY <1>1 DEF Register, ring
<1>2. CASE RegisterRefused
  BY <1>2 DEF RegisterRefused, ring
<1>3. CASE \E t \in Tails : SpawnTail(t)
  BY <1>3 DEF SpawnTail, ring
<1>4. CASE \E t \in Tails : CancelTail(t)
  BY <1>4 DEF CancelTail, ring
<1>5. CASE \E t \in Tails : TailEnd(t)
  BY <1>5 DEF TailEnd, ring
<1>6. CASE \E t \in Tails : Push(t)
  BY <1>6 DEF Push, NewSlot, Dropped
<1>7. CASE Deliver
  BY <1>7 DEF Deliver, AfterHead, AtHead
<1>8. CASE SinkReturns
  BY <1>8 DEF SinkReturns, ring
<1>9. CASE DeliverExit
  BY <1>9 DEF DeliverExit, ring
<1>10. CASE \E c \in Callers : Unsubscribe(c)
  BY <1>10 DEF Unsubscribe, ring
<1>11. CASE \E c \in Callers : RemoveSub(c)
  BY <1>11 DEF RemoveSub, Close, CancelledTails, ring
<1>12. CASE \E c \in Callers : RequestRefused(c)
  BY <1>12 DEF RequestRefused, Close, ring
<1>13. CASE \E c \in Callers : UnsubscribeReturns(c)
  BY <1>13 DEF UnsubscribeReturns, ring
<1>14. CASE Shutdown
  BY <1>14 DEF Shutdown, CancelledTails, ring
<1>15. CASE ShutdownDrain
  BY <1>15 DEF ShutdownDrain, Close, ring
<1>16. CASE ShutdownDone
  BY <1>16 DEF ShutdownDone, ring
<1>17. CASE UNCHANGED vars
  BY <1>17 DEF vars
<1> QED
  BY <1>1, <1>2, <1>3, <1>4, <1>5, <1>6, <1>7, <1>8, <1>9, <1>10, <1>11, <1>12, <1>13, <1>14, <1>15, <1>16, <1>17
     DEF Next, TailStep, DeliverStep, CallerStep, HubStep, Finished

\* The steps that leave the ring alone keep the types of the rest.
LEMMA TypeStep ==
    ASSUME IInv, [Next]_vars,
           ~(\E t \in Tails : Push(t)), ~Deliver
    PROVE  TypeOK' /\ UNCHANGED <<buf, head, count, drops, accepted, sunk, current>>
<1> USE DEF IInv, TypeOK, ring
<1>1. CASE Register \/ RegisterRefused
  BY <1>1 DEF Register, RegisterRefused
<1>2. CASE \E t \in Tails : SpawnTail(t) \/ CancelTail(t) \/ TailEnd(t)
  BY <1>2 DEF SpawnTail, CancelTail, TailEnd
<1>3. CASE SinkReturns \/ DeliverExit
  BY <1>3 DEF SinkReturns, DeliverExit
<1>4. CASE \E c \in Callers : Unsubscribe(c) \/ UnsubscribeReturns(c)
  BY <1>4 DEF Unsubscribe, UnsubscribeReturns
<1>5. CASE \E c \in Callers : RemoveSub(c) \/ RequestRefused(c)
  BY ZenonT(30), <1>5 DEF RemoveSub, RequestRefused, Close, CancelledTails
<1>6. CASE HubStep
  BY <1>6 DEF HubStep, Shutdown, ShutdownDrain, ShutdownDone, Close, CancelledTails
<1>7. CASE UNCHANGED vars
  BY <1>7 DEF vars
<1> QED
  BY <1>1, <1>2, <1>3, <1>4, <1>5, <1>6, <1>7
     DEF Next, TailStep, DeliverStep, CallerStep, Finished

\* The invariant is inductive.
LEMMA StepIInv == IInv /\ [Next]_vars => IInv'
<1> SUFFICES ASSUME IInv, [Next]_vars PROVE IInv'
  OBVIOUS
<1>1. RingInv
  BY DEF IInv, RingInv
<1>2. RingInv'
  <2>1. CASE \E t \in Tails : Push(t)
    BY <2>1, <1>1, PushKeepsRing
  <2>2. CASE Deliver
    BY <2>2, <1>1, DeliverKeepsRing
  <2>3. CASE ~(\E t \in Tails : Push(t)) /\ ~Deliver
    BY <2>3, <1>1, TypeStep, OthersKeepRing
  <2> QED BY <2>1, <2>2, <2>3
<1> QED
  BY <1>2, ControlStep DEF IInv, RingInv, ControlInv

\* The inductive invariant holds of every reachable state.
THEOREM Invariant == Spec => []IInv
BY InitIInv, StepIInv, PTL DEF Spec

(***************************************************************************)
(* What follows from it.                                                   *)
(***************************************************************************)
\* Type correctness of push, deliverLoop, close, unsubscribe and shutdown.
THEOREM TypeCorrect == Spec => []TypeOK
<1>1. IInv => TypeOK
  BY DEF IInv
<1> QED BY <1>1, Invariant, PTL

\* push and deliverLoop keep the newest records, in order, in a ring of any
\* size, and lose none without counting it.
THEOREM RingCorrect == Spec => [](RingHoldsNewest /\ AllAccounted)
<1>1. IInv => RingHoldsNewest /\ AllAccounted
  BY DEF IInv
<1> QED BY <1>1, Invariant, PTL

\* Once any call of unsubscribe has returned, the sink is not running and the
\* delivery goroutine that calls it has ended or never began.
THEOREM UnsubscribeIsQuiet == Spec => []QuietAfterUnsubscribe
<1>1. IInv => QuietAfterUnsubscribe
  BY DEF IInv, DeliveryLifecycle, UnsubscribeLifecycle, QuietAfterUnsubscribe
<1> QED BY <1>1, Invariant, PTL

\* A shutdown that no unsubscribe races with delivers every record it
\* accepted and did not count as a drop.
THEOREM DrainIsGraceful == Spec => []GracefulDrain
<1>1. IInv => GracefulDrain
  <2> SUFFICES ASSUME IInv, hub = "finished", once = "free"
               PROVE  accepted = sunk + drops
    BY DEF GracefulDrain
  <2>1. accepted = sunk + drops + count /\ sunk \in Nat /\ drops \in Nat /\ count \in Nat
    BY DEF IInv, AllAccounted, TypeOK
  <2>2. CASE member \in {"new", "refused"}
    BY <2>1, <2>2 DEF IInv, DeliveryLifecycle
  <2>3. CASE member = "registered"
    <3>1. count = 0
      BY <2>3 DEF IInv, ShutdownLifecycle, DeliveryLifecycle, UnsubscribeLifecycle
    <3> QED BY <3>1, <2>1
  <2> QED BY <2>2, <2>3 DEF IInv, TypeOK, UnsubscribeLifecycle
<1> QED BY <1>1, Invariant, PTL

\* The sink is called with ever newer records, one per call.
THEOREM SinkSeesOrder == Spec => SinkInOrder
<1>1. IInv /\ [Next]_vars => [sunk' # sunk => current < current' /\ sunk' = sunk + 1]_vars
  <2> SUFFICES ASSUME IInv, Next, sunk' # sunk
               PROVE  current < current' /\ sunk' = sunk + 1
    BY DEF vars
  <2>1. CASE Deliver
    <3>1. RingInv
      BY DEF IInv, RingInv
    <3> QED BY <2>1, <3>1, DeliverKeepsRing DEF Deliver, AfterHead, AtHead
  <2>2. CASE \E t \in Tails : Push(t)
    BY <2>2 DEF Push, NewSlot, Dropped
  <2>3. CASE ~(\E t \in Tails : Push(t)) /\ ~Deliver
    BY <2>3, TypeStep
  <2> QED BY <2>1, <2>2, <2>3
<1> QED BY <1>1, Invariant, PTL DEF Spec, SinkInOrder

(***************************************************************************)
(* The subscription implements the drop-oldest queue.                      *)
(***************************************************************************)
AbsQueue == [i \in 1 .. count |-> buf[Slot(i - 1)]]

\* A step that moves neither ring nor flags nor delivery goroutine is a
\* stuttering step of the queue.
LEMMA Stutter ==
    ASSUME UNCHANGED <<buf, head, count, accepted, current, deliver, closed, discard>>
    PROVE  UNCHANGED Abstract!qvars
BY DEF Abstract!qvars, Slot

\* The queue read off the ring has one element per buffered record, the
\* newest run of accepted records.
LEMMA QueueOfRing ==
    ASSUME RingInv
    PROVE  /\ AbsQueue = [i \in 1 .. count |-> accepted - count + i]
           /\ AbsQueue \in Seq(Nat)
           /\ Len(AbsQueue) = count
           /\ (count > 0 => Head(AbsQueue) = accepted - count + 1)
<1>1. count \in Nat /\ accepted \in Nat /\ count <= accepted
  BY DEF RingInv, TypeOK, HandedBeforeBuffered
<1>2. ASSUME NEW i \in 1 .. count
      PROVE  buf[Slot(i - 1)] = accepted - count + i
  <2>1. i - 1 \in 0 .. count - 1
    BY <1>1
  <2>2. buf[Slot(i - 1)] = accepted - count + 1 + (i - 1)
    BY <2>1 DEF RingInv, RingHoldsNewest
  <2> QED BY <2>2, <1>1
<1>3. AbsQueue = [i \in 1 .. count |-> accepted - count + i]
  BY <1>2 DEF AbsQueue
<1>4. \A i \in 1 .. count : accepted - count + i \in Nat
  BY <1>1
<1>5. AbsQueue \in Seq(Nat) /\ Len(AbsQueue) = count
  BY <1>1, <1>3, <1>4
<1>6. count > 0 => Head(AbsQueue) = accepted - count + 1
  BY <1>1, <1>3, <1>5
<1> QED BY <1>3, <1>5, <1>6

\* The run of n consecutive records that ends with the record a.
Run(a, n) == [i \in 1 .. n |-> a - n + i]

\* Runs are closed under the two queue operations the ring performs.
LEMMA RunTail ==
    ASSUME NEW a \in Nat, NEW n \in 1 .. a
    PROVE  Tail(Run(a, n)) = Run(a, n - 1)
<1>1. Run(a, n) \in Seq(Int) /\ Len(Run(a, n)) = n /\ Run(a, n) # << >>
  BY DEF Run
<1>2. /\ Tail(Run(a, n)) \in Seq(Int)
      /\ Len(Tail(Run(a, n))) = n - 1
      /\ \A i \in 1 .. n - 1 : Tail(Run(a, n))[i] = Run(a, n)[i + 1]
  BY <1>1, HeadTailProperties, Zenon
<1>3. Run(a, n - 1) \in Seq(Int) /\ Len(Run(a, n - 1)) = n - 1
  BY DEF Run
<1>4. \A i \in 1 .. n - 1 : Run(a, n)[i + 1] = Run(a, n - 1)[i]
  BY DEF Run
<1> QED BY <1>2, <1>3, <1>4, SeqEqual, Zenon

\* Appending the next record to a run of the newest ones extends the run.
LEMMA RunAppend ==
    ASSUME NEW a \in Nat, NEW n \in 0 .. a
    PROVE  Append(Run(a, n), a + 1) = Run(a + 1, n + 1)
<1>1. Run(a, n) \in Seq(Int) /\ Len(Run(a, n)) = n
  BY DEF Run
<1>2. Append(Run(a, n), a + 1)
        = [i \in 1 .. n + 1 |-> IF i = n + 1 THEN a + 1 ELSE Run(a, n)[i]]
  BY <1>1
<1>3. \A i \in 1 .. n + 1 :
        (IF i = n + 1 THEN a + 1 ELSE Run(a, n)[i]) = (a + 1) - (n + 1) + i
  BY DEF Run
<1> QED BY <1>2, <1>3 DEF Run

\* The queue read off the ring is the run of the newest accepted records, and
\* so it is after a step that keeps the ring's invariant.
LEMMA QueueIsRun == RingInv => AbsQueue = Run(accepted, count)
BY QueueOfRing DEF Run

\* The same of the next state, for the steps below.
LEMMA NextQueueIsRun == (RingInv => AbsQueue = Run(accepted, count))'
BY QueueIsRun, PTL

\* push is the queue's Offer.
LEMMA PushIsOffer ==
    ASSUME IInv, NEW t \in Tails, Push(t)
    PROVE  Abstract!Offer
<1>1. RingInv /\ RingInv'
  BY PushKeepsRing DEF IInv, RingInv
<1>2. AbsQueue = Run(accepted, count) /\ AbsQueue' = Run(accepted', count')
  BY <1>1, QueueIsRun, NextQueueIsRun
<1>3. Len(AbsQueue) = count
  BY <1>1, QueueOfRing
<1>4. /\ count \in 0 .. RingSize /\ accepted \in Nat /\ count <= accepted
      /\ accepted' = accepted + 1
      /\ count' = IF count = RingSize THEN RingSize ELSE count + 1
  BY <1>1 DEF RingInv, TypeOK, HandedBeforeBuffered, Push, NewSlot, Dropped
<1>5. AbsQueue' = Append(IF Len(AbsQueue) = RingSize THEN Tail(AbsQueue) ELSE AbsQueue,
                         accepted + 1)
  <2>1. CASE count = RingSize
    <3>1. Tail(AbsQueue) = Run(accepted, count - 1)
      BY <2>1, <1>2, <1>4, RunTail
    <3>2. count - 1 \in 0 .. accepted
      BY <2>1, <1>4
    <3>3. Append(Run(accepted, count - 1), accepted + 1) = Run(accepted + 1, (count - 1) + 1)
      BY <3>2, <1>4, RunAppend
    <3>4. (count - 1) + 1 = count'
      BY <2>1, <1>4
    <3> QED BY <2>1, <3>1, <3>3, <3>4, <1>2, <1>3, <1>4
  <2>2. CASE count # RingSize
    <3>1. count \in 0 .. accepted
      BY <1>4
    <3>2. Append(Run(accepted, count), accepted + 1) = Run(accepted + 1, count + 1)
      BY <3>1, <1>4, RunAppend
    <3> QED BY <2>2, <3>2, <1>2, <1>3, <1>4
  <2> QED BY <2>1, <2>2
<1>6. /\ deliver # "exited" /\ ~closed
      /\ UNCHANGED <<closed, discard, deliver, current>>
  BY DEF IInv, DeliveryLifecycle, Push, NewSlot, Dropped
<1> QED
  BY <1>4, <1>5, <1>6 DEF Abstract!Offer, AbsQueue

\* deliverLoop taking a record is the queue's HandOver.
LEMMA DeliverIsHandOver ==
    ASSUME IInv, Deliver
    PROVE  Abstract!HandOver
<1>1. RingInv /\ RingInv' /\ current' = accepted - count + 1
  BY DeliverKeepsRing DEF IInv, RingInv
<1>2. AbsQueue = Run(accepted, count) /\ AbsQueue' = Run(accepted', count')
  BY <1>1, QueueIsRun, NextQueueIsRun
<1>3. Len(AbsQueue) = count /\ (count > 0 => Head(AbsQueue) = accepted - count + 1)
  BY <1>1, QueueOfRing
<1>4. /\ count \in 1 .. accepted /\ accepted \in Nat
      /\ accepted' = accepted /\ count' = count - 1
  BY <1>1 DEF RingInv, TypeOK, HandedBeforeBuffered, Deliver, AfterHead, AtHead
<1>5. AbsQueue' = Tail(AbsQueue) /\ current' = Head(AbsQueue) /\ AbsQueue # << >>
  BY <1>1, <1>2, <1>3, <1>4, RunTail
<1>6. /\ deliver = "waiting" /\ deliver' = "sinking" /\ ~(closed /\ discard)
      /\ UNCHANGED <<closed, discard>>
  BY DEF Deliver, AfterHead, AtHead
<1> QED
  BY <1>4, <1>5, <1>6 DEF Abstract!HandOver, AbsQueue

\* A close, by removeSub, by a refused request or by the shutdown, shuts the
\* queue in the mode the first of them asked for.
LEMMA CloseIsShut ==
    ASSUME IInv, NEW d \in BOOLEAN, Close(d), deliver # "unstarted",
           UNCHANGED <<buf, head, count, accepted, current, deliver>>
    PROVE  Abstract!Shut(IF d THEN "discard" ELSE "drain") \/ UNCHANGED Abstract!qvars
<1>1. closed \in BOOLEAN /\ discard \in BOOLEAN /\ (deliver = "exited" => closed)
  BY DEF IInv, TypeOK, DeliveryLifecycle
<1>2. CASE closed
  BY <1>1, <1>2 DEF Close, Abstract!qvars, Slot
<1>3. CASE ~closed
  BY <1>1, <1>3 DEF Close, Abstract!Shut, Slot
<1> QED BY <1>2, <1>3

\* The delivery goroutine ends as the queue ends.
LEMMA ExitIsEnd ==
    ASSUME IInv, DeliverExit
    PROVE  Abstract!End
<1>1. RingInv
  BY DEF IInv, RingInv
<1>2. Len(AbsQueue) = count /\ AbsQueue \in Seq(Nat)
  BY <1>1, QueueOfRing
<1>3. count = 0 => AbsQueue = << >>
  BY <1>2
<1>4. UNCHANGED <<buf, head, count, accepted, current, closed, discard>>
  BY DEF DeliverExit, ring
<1> QED
  BY <1>3, <1>4 DEF DeliverExit, Abstract!End, AbsQueue, Slot

\* The subscription a hub starts with is an empty open queue.
LEMMA InitIsInit == Init => Abstract!Init
<1> SUFFICES ASSUME Init PROVE Abstract!Init
  OBVIOUS
<1>1. RingInv
  BY InitIInv DEF IInv, RingInv
<1>2. Len(AbsQueue) = 0 /\ AbsQueue \in Seq(Nat)
  BY <1>1, QueueOfRing DEF Init
<1>3. AbsQueue = << >>
  BY <1>2
<1> QED BY <1>3 DEF Init, Abstract!Init, AbsQueue

\* Every step of the subscription is a step of the queue or leaves it alone.
LEMMA StepIsStep == IInv /\ [Next]_vars => [Abstract!Next]_(Abstract!qvars)
<1> SUFFICES ASSUME IInv, [Next]_vars
             PROVE  Abstract!Next \/ UNCHANGED Abstract!qvars
  OBVIOUS
<1>1. CASE \E t \in Tails : Push(t)
  BY <1>1, PushIsOffer DEF Abstract!Next
<1>2. CASE Deliver
  BY <1>2, DeliverIsHandOver DEF Abstract!Next
<1>3. CASE SinkReturns
  <2>1. UNCHANGED <<buf, head, count, accepted, current, closed, discard>>
    BY <1>3 DEF SinkReturns, ring
  <2>2. Abstract!SinkDone
    BY <1>3, <2>1 DEF SinkReturns, Abstract!SinkDone, Slot
  <2> QED BY <2>2 DEF Abstract!Next
<1>4. CASE DeliverExit
  BY <1>4, ExitIsEnd DEF Abstract!Next
<1>5. CASE Register
  <2>1. ~closed /\ deliver = "unstarted" /\ deliver' = "waiting"
    BY <1>5 DEF IInv, Register, DeliveryLifecycle
  <2>2. UNCHANGED <<buf, head, count, accepted, current, closed, discard>>
    BY <1>5 DEF Register, ring
  <2> QED BY <2>1, <2>2 DEF Abstract!qvars, Slot
<1>6. CASE \E c \in Callers : RemoveSub(c) \/ RequestRefused(c)
  <2>1. /\ Close(TRUE) /\ deliver # "unstarted"
        /\ UNCHANGED <<buf, head, count, accepted, current, deliver>>
    BY <1>6 DEF RemoveSub, RequestRefused, ring, IInv, UnsubscribeLifecycle, DeliveryLifecycle
  <2> QED BY <2>1, CloseIsShut DEF Abstract!Next
<1>7. CASE ShutdownDrain
  <2>1. UNCHANGED <<buf, head, count, accepted, current, deliver>>
    BY <1>7 DEF ShutdownDrain, ring
  <2>2. CASE member = "registered"
    <3>1. Close(FALSE) /\ deliver # "unstarted"
      BY <1>7, <2>2 DEF ShutdownDrain, IInv, DeliveryLifecycle
    <3> QED BY <2>1, <3>1, CloseIsShut DEF Abstract!Next
  <2>3. CASE member # "registered"
    <3>1. UNCHANGED <<closed, discard>>
      BY <1>7, <2>3 DEF ShutdownDrain
    <3> QED BY <2>1, <3>1, Stutter
  <2> QED BY <2>2, <2>3
<1>8. CASE \/ RegisterRefused \/ Shutdown \/ ShutdownDone \/ UNCHANGED vars
           \/ \E t \in Tails : SpawnTail(t) \/ CancelTail(t) \/ TailEnd(t)
           \/ \E c \in Callers : Unsubscribe(c) \/ UnsubscribeReturns(c)
  <2>1. UNCHANGED <<buf, head, count, accepted, current, deliver, closed, discard>>
    BY <1>8 DEF RegisterRefused, Shutdown, ShutdownDone, vars, SpawnTail, CancelTail,
                TailEnd, Unsubscribe, UnsubscribeReturns, ring
  <2> QED BY <2>1, Stutter
<1> QED
  BY <1>1, <1>2, <1>3, <1>4, <1>5, <1>6, <1>7, <1>8
     DEF Next, TailStep, DeliverStep, CallerStep, HubStep, Finished

\* The ring, its mutex, the delivery goroutine and the two ways of closing it
\* implement the drop-oldest queue.
THEOREM Refinement == Spec => Implements
BY InitIsInit, StepIsStep, Invariant, PTL DEF Spec, Implements, Abstract!Spec
=============================================================================
