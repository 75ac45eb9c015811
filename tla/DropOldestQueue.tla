-------------------------- MODULE DropOldestQueue --------------------------
(***************************************************************************)
(* What one log subscription promises its tails and its sink, with no ring,*)
(* no lock and no goroutine: a bounded queue that never blocks a producer, *)
(* forgets its oldest record when it is full, hands records over one at a  *)
(* time, and once closed either empties itself (drain) or hands nothing    *)
(* more over (discard).  Records are named by the order in which the queue *)
(* accepted them.                                                          *)
(***************************************************************************)
EXTENDS Naturals, Sequences

CONSTANT Capacity               \* most records held at any time, at least one

VARIABLES
    queue,      \* accepted records not yet handed over, oldest first
    accepted,   \* number of records accepted so far
    handed,     \* last record handed to the sink, 0 before the first
    busy,       \* the sink is running
    mode        \* "open", "drain", "discard", and "done" once it has ended

qvars == <<queue, accepted, handed, busy, mode>>

Init ==
    /\ queue = << >>
    /\ accepted = 0
    /\ handed = 0
    /\ busy = FALSE
    /\ mode = "open"

\* A full queue gives up its oldest record for the new one.
Offer ==
    /\ mode = "open"
    /\ accepted' = accepted + 1
    /\ queue' = Append(IF Len(queue) = Capacity THEN Tail(queue) ELSE queue,
                       accepted + 1)
    /\ UNCHANGED <<handed, busy, mode>>

HandOver ==
    /\ mode \in {"open", "drain"}
    /\ ~busy
    /\ queue # << >>
    /\ handed' = Head(queue)
    /\ queue' = Tail(queue)
    /\ busy' = TRUE
    /\ UNCHANGED <<accepted, mode>>

SinkDone ==
    /\ busy
    /\ busy' = FALSE
    /\ UNCHANGED <<queue, accepted, handed, mode>>

Shut(m) ==
    /\ mode = "open"
    /\ mode' = m
    /\ UNCHANGED <<queue, accepted, handed, busy>>

\* A drain ends only when nothing is left; a discard may end at any moment
\* at which the sink is not running.
End ==
    /\ ~busy
    /\ \/ mode = "discard"
       \/ mode = "drain" /\ queue = << >>
    /\ mode' = "done"
    /\ UNCHANGED <<queue, accepted, handed, busy>>

Next == Offer \/ HandOver \/ SinkDone \/ Shut("drain") \/ Shut("discard") \/ End

Spec == Init /\ [][Next]_qvars
=============================================================================
