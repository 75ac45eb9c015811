----------------------------- MODULE RuleWindow -----------------------------
(***************************************************************************)
(* The rate threshold and the cooldown of one alert rule for one container *)
(* (internal/alerts/window.go): a ring of the last match times, and when   *)
(* the window last fired.  Times are positive; 0 is Go's zero Time.        *)
(***************************************************************************)
EXTENDS Naturals

NewWindow(rule) ==
    [times |-> [i \in 0 .. rule.threshold - 1 |-> 0], head |-> 0, count |-> 0,
     fired |-> FALSE, lastFired |-> 0, suppressed |-> 0, lastSeen |-> 0]

\* A full ring forgets its oldest match.
RoomAtHead(w, rule) ==
    IF w.count < rule.threshold THEN w
    ELSE [w EXCEPT !.times[w.head] = 0, !.count = w.count - 1]
Room(w, rule) ==
    IF w.count < rule.threshold THEN w
    ELSE [w EXCEPT !.times[w.head] = 0, !.head = (w.head + 1) % rule.threshold, !.count = w.count - 1]

Recorded(w, rule, t) ==
    LET r == Room(w, rule)
    IN  [r EXCEPT !.times[(r.head + r.count) % rule.threshold] = t, !.count = r.count + 1, !.lastSeen = t]

\* The threshold is met by matches no further apart than the window.
Trips(w, rule, t) ==
    LET r == Recorded(w, rule, t)
    IN  r.count = rule.threshold /\ t - r.times[r.head] <= rule.window

Cooling(w, rule, t) == w.fired /\ t - w.lastFired < rule.cooldown

Fires(w, rule, t) == Trips(w, rule, t) /\ ~Cooling(w, rule, t)

\* observe: a trip fires and empties the ring, or is counted while cooling.
Observed(w, rule, t) ==
    LET r == Recorded(w, rule, t)
    IN  IF Fires(w, rule, t)
          THEN [r EXCEPT !.head = 0, !.count = 0, !.fired = TRUE, !.lastFired = t, !.suppressed = 0]
          ELSE [r EXCEPT !.suppressed = IF Trips(w, rule, t) THEN r.suppressed + 1 ELSE r.suppressed]
=============================================================================
