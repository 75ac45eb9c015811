------------------------------ MODULE MCLogHub ------------------------------
(* One subscription, by container name, to one container on the first of   *)
(* two hosts, which the second client of the configuration has lost and    *)
(* the third has back.                                                     *)
EXTENDS LogHub

MCHostOf == [c \in Containers |-> "h1"]
MCWants == [s \in Subs |-> {"web"}]
MCHostsOf == <<{"h1", "h2"}, {"h2"}, {"h1"}>>
=============================================================================
