----------------------------- MODULE MCLogQuery -----------------------------
(* One container's stored log with errors and the frames of their traces,   *)
(* read a page at a time with the level filter on.                          *)
EXTENDS LogQuery

\* The rowids of one container's lines follow its log, as a fresh store has them.
Init == LogQueryInit /\ \A r, s \in lines : r.id < s.id => r.ts <= s.ts
Spec == Init /\ [][LogQueryNext]_lqVars
=============================================================================
