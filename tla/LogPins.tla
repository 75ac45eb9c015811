------------------------------ MODULE LogPins ------------------------------
(***************************************************************************)
(* The index bookkeeping of the log viewer's pinned lines                  *)
(* (use-log-pins.ts).  A pin is the index of a row, so it has to move when *)
(* the ring buffer drops rows in front of it.  The operators are shared by *)
(* the stream hook's model (LogStream) and the viewer's (LogView).         *)
(***************************************************************************)
EXTENDS Integers, Sequences, FiniteSets, SequencesExt

\* The pins after the ring dropped the oldest delta rows.
ShiftPins(pins, delta) == {i - delta : i \in {j \in pins : j >= delta}}

\* The pins in row order.
SortedPins(pins) == SetToSortSeq(pins, <)

\* The cursor into the sorted pins is moved back inside when pins go away.
ClampCursor(cursor, pins) ==
    IF pins = {} THEN 0
    ELSE IF cursor >= Cardinality(pins) THEN Cardinality(pins) - 1 ELSE cursor

\* One step along the sorted pins, wrapping around at both ends.
NextCursor(cursor, offset, pins) ==
    (cursor + offset + Cardinality(pins)) % Cardinality(pins)
=============================================================================
