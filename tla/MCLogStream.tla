---------------------------- MODULE MCLogStream ----------------------------
(* A ring of two lines: a flush can drop lines that were displayed, lines   *)
(* that were not, and both.                                                 *)
EXTENDS LogStream

MCDelays == <<0, 1>>
\* 1 s to 30 s in heartbeat intervals of 15 s.
MCFullDelays == <<0, 1, 2>>
=============================================================================
