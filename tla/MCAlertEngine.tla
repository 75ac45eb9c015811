--------------------------- MODULE MCAlertEngine ---------------------------
(* One rule, which is a log rule in two versions or an event rule, and one  *)
(* container.                                                               *)
EXTENDS AlertEngine

MCRule(kind, kinds, threshold, cooldown) ==
    [kind |-> kind, events |-> kinds, targets |-> Names, threshold |-> threshold,
     window |-> 2, cooldown |-> cooldown]
MCOnly(def) == [id \in RuleIds |-> def]
MCConfigs ==
    {MCOnly(Off), MCOnly(MCRule("log", {}, 2, 2)), MCOnly(MCRule("log", {}, 1, 2)),
     MCOnly(MCRule("event", {"die", "oom", "unhealthy"}, 1, 1))}

\* Three matches overflow a ring of two; two events are enough for one incident and
\* what comes before or after it.
MCInputs == ((1 .. 3) \X {0}) \cup ((0 .. 1) \X {1}) \cup {<<0, 2>>}

MCNameOf == [c \in Containers |-> "web"]
=============================================================================
