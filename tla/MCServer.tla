------------------------------ MODULE MCServer ------------------------------
(* Three parts of the server that share no state: the reload of the         *)
(* configuration, the history of alerts, the reading of stored logs.  One   *)
(* of them runs, with its own state; `part' is the one that does.           *)
EXTENDS ConfigReload, AlertHistory, LogQuery

VARIABLE part

Parts == {"config", "alerts", "query"}

\* A part that does not run stays in one of its initial states.
Init ==
    /\ part \in Parts
    /\ ConfigReloadInit
    /\ AlertHistoryInit
    /\ IF part = "query" THEN LogQueryInit
       ELSE /\ query \in [filter : {"all"}, since : {1}]
            /\ lines = {} /\ stored = {} /\ phase = "idle" /\ refs = {} /\ from = NoPosition
            /\ carry = <<>> /\ found = <<>> /\ pages = <<>> /\ start = {} /\ changes = 0

Next ==
    \/ part = "config" /\ ConfigReloadNext /\ UNCHANGED <<part, ahVars, lqVars>>
    \/ part = "alerts" /\ AlertHistoryNext /\ UNCHANGED <<part, crVars, lqVars>>
    \/ part = "query" /\ LogQueryNext /\ UNCHANGED <<part, crVars, ahVars>>

Spec == Init /\ [][Next]_<<part, crVars, ahVars, lqVars>> /\ AlertHistoryFairness
=============================================================================
