------------------------- MODULE AlertEngine_proofs -------------------------
(***************************************************************************)
(* The alerting engine counts each rule's own matches, within its bounds,  *)
(* and alerts exactly when due, for any number of rules, containers, lines,*)
(* events of the engine, changes of the rules and passing of time.         *)
(***************************************************************************)
EXTENDS AlertEngine, FiniteSetTheorems, FunctionTheorems, SequenceTheorems, TLAPS

\* TypeOK, with the bounds that each step relies on.
ClockTyped ==
    /\ now \in 1 .. MaxTime /\ lastOOM \in [Containers -> 0 .. now]
    /\ lines \in Nat /\ number \in Nat
AroundTyped ==
    /\ config \in Configs /\ source \in Clients /\ stream \in Clients
    /\ unpoked \in BOOLEAN /\ cancelled \in BOOLEAN /\ poke \in BOOLEAN
    /\ loop \in {"starting", "running", "finished"}
RulesTyped ==
    /\ subs \in [RuleIds -> [def : Definitions, gen : Nat] \union {None}]
    /\ gen \in Nat /\ eventRules \in [RuleIds -> Definitions \union {Off}]
ChannelsTyped ==
    /\ events \in Seq(Event)
    /\ fired \in Seq(Match) /\ Len(fired) <= FiredBuffer
    /\ inspected \in Seq(Result) /\ Len(inspected) <= InspectBuffer
InspectsTyped ==
    \A x \in inspecting : x.ev \in Event /\ x.since \in 1 .. now /\ now - x.since <= InspectTimeout
DispatchTyped ==
    /\ dispatched \in 0 .. DispatchBuffer /\ dispatcher \in {"running", "closed", "finished"}
    /\ dispatcher # "running" <=> loop = "finished"
WindowsTyped ==
    \A k \in Keys : windows[k] = None \/ \E def \in Definitions : windows[k] \in WindowOf(def)
Typed ==
    /\ ClockTyped /\ AroundTyped /\ RulesTyped /\ ChannelsTyped /\ InspectsTyped
    /\ DispatchTyped /\ WindowsTyped

\* A generation is given out once, so it tells the definition it is of.
GenerationsTell ==
    /\ \A id \in RuleIds : subs[id] # None => subs[id].gen <= gen /\ eventRules[id] = Off
    /\ \A i \in 1 .. Len(fired) :
         /\ fired[i].gen <= gen
         /\ Current(fired[i]) => fired[i].def = subs[fired[i].id].def

(***************************************************************************)
(* The matches h weighed since the rule last changed, at time t, and what  *)
(* the window v holds of them: the ring the last ones, those before it     *)
(* useless for a threshold, and the window's alert the last that counts    *)
(* for the cooldown.                                                       *)
(***************************************************************************)
\* A place behind the last one of a ring of n is at its beginning.
Wrap(a, n) == IF a < n THEN a ELSE a - n
InOrder(h, t) ==
    /\ h \in Seq([at : 1 .. t, alerted : BOOLEAN])
    /\ \A i, j \in 1 .. Len(h) : i <= j => h[i].at <= h[j].at
RingHolds(h, v, n) ==
    /\ v.count <= Len(h)
    /\ \A i \in 1 .. v.count :
         /\ v.times[Wrap(v.head + i - 1, n)] = h[Len(h) - v.count + i].at
         /\ ~h[Len(h) - v.count + i].alerted
Useless(h, p, next) == p = 0 \/ h[p].alerted \/ next - h[p].at > IdleTTL
BeforeRing(h, v, n, t) ==
    v.count < n =>
        Useless(h, Len(h) - v.count, IF v.count = 0 THEN t ELSE h[Len(h) - v.count + 1].at)
LastAlert(h, v, cooldown, t) ==
    IF v.fired
      THEN /\ \E i \in 1 .. Len(h) : h[i].alerted /\ h[i].at = v.lastFired
           /\ \A i \in 1 .. Len(h) : h[i].alerted => h[i].at <= v.lastFired
      ELSE \A i \in 1 .. Len(h) : h[i].alerted => t - h[i].at >= cooldown
HoldsAt(h, v, def, t) ==
    /\ RingHolds(h, v, def.threshold) /\ BeforeRing(h, v, def.threshold, t)
    /\ LastAlert(h, v, def.cooldown, t)
Weighed(h, def, t) ==
    InOrder(h, t) /\ \A i \in 1 .. Len(h) : h[i].alerted <=> Due(h, i, def)

(***************************************************************************)
(* What belongs to one rule and name at time t: its window w, the          *)
(* definitions f its matches were of, and those matches h.  A key without  *)
(* a window has seen no match for longer than IdleTTL.                     *)
(***************************************************************************)
RuleOf(id) == IF subs[id] # None THEN subs[id] ELSE [def |-> eventRules[id], gen |-> 0]
Active(id) == subs[id] # None \/ eventRules[id] # Off
FitsAt(w, def, t) == w \in WindowOf(def) /\ w.lastFired <= w.lastSeen /\ w.lastSeen <= t
HistoryAt(h, w, def, t) ==
    /\ Weighed(h, def, t)
    /\ IF w = None THEN \A i \in 1 .. Len(h) : t - h[i].at > IdleTTL
                   ELSE HoldsAt(h, w, def, t) /\ \A i \in 1 .. Len(h) : h[i].at <= w.lastSeen
KeyAt(w, f, h, r, t) ==
    (w = None \/ FitsAt(w, r.def, t)) /\ f \subseteq {r} /\ HistoryAt(h, w, r.def, t)
KeySound(k) ==
    /\ KeyAt(windows[k], feeds[k], matches[k], RuleOf(k[1]), now)
    /\ ~Active(k[1]) => windows[k] = None /\ feeds[k] = {} /\ matches[k] = << >>
KeysSound == loop # "finished" => \A k \in Keys : KeySound(k)

-----------------------------------------------------------------------------
(* The window of a rule (module RuleWindow).                               *)

\* A window that may not have observed anything yet.
Window(def) ==
    [times : [0 .. def.threshold - 1 -> 0 .. MaxTime], head : 0 .. def.threshold - 1,
     count : 0 .. def.threshold, fired : BOOLEAN, lastFired : 0 .. MaxTime,
     suppressed : Nat, lastSeen : 0 .. MaxTime]

LEMMA NewWindowFits ==
    ASSUME NEW def, def.threshold \in Nat \ {0}, MaxTime \in Nat
    PROVE  NewWindow(def) \in Window(def) /\ ~NewWindow(def).fired
           /\ NewWindow(def).lastFired = 0 /\ NewWindow(def).lastSeen = 0
BY DEF NewWindow, Window
LEMMA FitsIsWindow ==
    ASSUME NEW def, MaxTime \in Nat, NEW w \in WindowOf(def)
    PROVE  w \in Window(def)
BY SMT DEF WindowOf, Window

LEMMA RemainderInRing ==
    ASSUME NEW n \in Nat \ {0}, NEW a \in Nat
    PROVE  a % n \in 0 .. n - 1
OBVIOUS

\* One field at a time.
LEMMA TimesFit ==
    ASSUME NEW def, NEW w \in Window(def), NEW i \in 0 .. def.threshold - 1, NEW t \in 0 .. MaxTime
    PROVE  /\ [w EXCEPT !.times[i] = t] \in Window(def)
           /\ [w EXCEPT !.times[i] = t].count = w.count
           /\ [w EXCEPT !.times[i] = t].fired = w.fired
           /\ [w EXCEPT !.times[i] = t].lastFired = w.lastFired
<1> DEFINE new == [w.times EXCEPT ![i] = t]
<1>1. new \in [0 .. def.threshold - 1 -> 0 .. MaxTime]
  BY SMT DEF Window
<1>2. [w EXCEPT !.times[i] = t] = [w EXCEPT !.times = new]
  OBVIOUS
<1> HIDE DEF new
<1> QED
  BY SMTT(30), <1>1, <1>2 DEF Window
LEMMA HeadFits ==
    ASSUME NEW def, NEW w \in Window(def), NEW i \in 0 .. def.threshold - 1
    PROVE  [w EXCEPT !.head = i] \in Window(def)
BY SMT DEF Window
LEMMA CountFits ==
    ASSUME NEW def, NEW w \in Window(def), NEW i \in 0 .. def.threshold
    PROVE  [w EXCEPT !.count = i] \in Window(def)
BY SMT DEF Window

LEMMA SeenFits ==
    ASSUME NEW def, NEW w \in Window(def), NEW t \in 0 .. MaxTime
    PROVE  [w EXCEPT !.lastSeen = t] \in Window(def)
BY SMT DEF Window

LEMMA RoomFits ==
    ASSUME NEW def, def.threshold \in Nat \ {0}, MaxTime \in Nat, NEW w \in Window(def)
    PROVE  /\ Room(w, def) \in Window(def) /\ Room(w, def).count < def.threshold
           /\ Room(w, def).fired = w.fired /\ Room(w, def).lastFired = w.lastFired
<1>1. CASE w.count < def.threshold
  BY <1>1 DEF Room
<1>2. CASE ~(w.count < def.threshold)
  <2> DEFINE w1 == [w EXCEPT !.times[w.head] = 0]
             w2 == [w1 EXCEPT !.head = (w.head + 1) % def.threshold]
             w3 == [w2 EXCEPT !.count = w.count - 1]
  <2>1. /\ w.head \in 0 .. def.threshold - 1 /\ w.count \in 0 .. def.threshold
        /\ w.head + 1 \in Nat /\ 0 \in 0 .. MaxTime
    BY DEF Window
  <2>2. w.count = def.threshold /\ w.count - 1 \in 0 .. def.threshold
    BY <1>2, <2>1
  <2>3. (w.head + 1) % def.threshold \in 0 .. def.threshold - 1
    BY <2>1, RemainderInRing
  <2>4. Room(w, def) = w3
    BY <1>2 DEF Room
  <2>5. w1 \in Window(def) /\ w1.count = w.count /\ w1.fired = w.fired /\ w1.lastFired = w.lastFired
    BY <2>1, TimesFit
  <2> HIDE DEF w1
  <2>6. w2 \in Window(def) /\ w2.fired = w1.fired /\ w2.lastFired = w1.lastFired
    BY <2>3, <2>5, HeadFits DEF Window
  <2> HIDE DEF w2
  <2>7. w3 \in Window(def) /\ w3.fired = w2.fired /\ w3.lastFired = w2.lastFired
        /\ w3.count = w.count - 1
    BY <2>2, <2>6, CountFits DEF Window
  <2> QED
    BY <2>2, <2>4, <2>5, <2>6, <2>7
<1> QED
  BY <1>1, <1>2

LEMMA RecordedFits ==
    ASSUME NEW def, def.threshold \in Nat \ {0}, MaxTime \in Nat, NEW w \in Window(def),
           NEW t \in 1 .. MaxTime
    PROVE  /\ Recorded(w, def, t) \in Window(def) /\ Recorded(w, def, t).lastSeen = t
           /\ Recorded(w, def, t).fired = w.fired /\ Recorded(w, def, t).lastFired = w.lastFired
<1> DEFINE r == Room(w, def)
           i == (r.head + r.count) % def.threshold
           r1 == [r EXCEPT !.times[i] = t]
           r2 == [r1 EXCEPT !.count = r.count + 1]
           r3 == [r2 EXCEPT !.lastSeen = t]
<1>1. /\ r \in Window(def) /\ r.count < def.threshold
      /\ r.fired = w.fired /\ r.lastFired = w.lastFired
  BY RoomFits
<1>2. Recorded(w, def, t) = r3
  BY DEF Recorded
<1> HIDE DEF r
<1>3. r.head \in 0 .. def.threshold - 1 /\ r.count \in 0 .. def.threshold /\ r.head + r.count \in Nat
  BY <1>1 DEF Window
<1>4. i \in 0 .. def.threshold - 1 /\ t \in 0 .. MaxTime /\ r.count + 1 \in 0 .. def.threshold
  <2>1. i \in 0 .. def.threshold - 1
    BY <1>3, RemainderInRing
  <2>2. t \in 0 .. MaxTime /\ r.count + 1 \in 0 .. def.threshold
    BY <1>1, <1>3
  <2> QED
    BY <2>1, <2>2
<1> HIDE DEF i
<1>5. r1 \in Window(def) /\ r1.fired = r.fired /\ r1.lastFired = r.lastFired
  BY <1>1, <1>4, TimesFit
<1> HIDE DEF r1
<1>6. r2 \in Window(def) /\ r2.fired = r1.fired /\ r2.lastFired = r1.lastFired
  BY <1>4, <1>5, CountFits DEF Window
<1> HIDE DEF r2
<1>7. r3 \in Window(def) /\ r3.fired = r2.fired /\ r3.lastFired = r2.lastFired /\ r3.lastSeen = t
  BY <1>4, <1>6, SeenFits DEF Window
<1> QED
  BY <1>1, <1>2, <1>5, <1>6, <1>7

\* What observing a match makes of a window.
LEMMA ObservedFits ==
    ASSUME NEW def, def.threshold \in Nat \ {0}, MaxTime \in Nat, NEW w \in Window(def),
           w.lastFired <= w.lastSeen, NEW t \in 1 .. MaxTime, w.lastSeen <= t
    PROVE  /\ FitsAt(Observed(w, def, t), def, t) /\ Observed(w, def, t).lastSeen = t
           /\ Fires(w, def, t) => Observed(w, def, t).fired /\ Observed(w, def, t).lastFired = t
           /\ ~Fires(w, def, t) => /\ Observed(w, def, t).fired = w.fired
                                   /\ Observed(w, def, t).lastFired = w.lastFired
<1> DEFINE r == Recorded(w, def, t)
           o == Observed(w, def, t)
<1>1. /\ r \in Window(def) /\ r.lastSeen = t
      /\ r.fired = w.fired /\ r.lastFired = w.lastFired
  BY RecordedFits
<1>2. o = IF Fires(w, def, t)
            THEN [r EXCEPT !.head = 0, !.count = 0, !.fired = TRUE, !.lastFired = t, !.suppressed = 0]
            ELSE [r EXCEPT !.suppressed = IF Trips(w, def, t) THEN r.suppressed + 1 ELSE r.suppressed]
  BY DEF Observed
<1> HIDE DEF r, o
<1>3. r = [times |-> r.times, head |-> r.head, count |-> r.count, fired |-> r.fired,
           lastFired |-> r.lastFired, suppressed |-> r.suppressed, lastSeen |-> r.lastSeen]
  BY <1>1 DEF Window
<1>4. /\ r.times \in [0 .. def.threshold - 1 -> 0 .. MaxTime] /\ r.head \in 0 .. def.threshold - 1
      /\ r.count \in 0 .. def.threshold /\ r.fired \in BOOLEAN /\ r.lastFired \in 0 .. MaxTime
      /\ r.suppressed \in Nat /\ w.lastSeen \in 0 .. MaxTime /\ w.lastFired \in 0 .. MaxTime
  BY <1>1 DEF Window
<1>5. CASE Fires(w, def, t)
  <2>1. o = [times |-> r.times, head |-> 0, count |-> 0, fired |-> TRUE,
             lastFired |-> t, suppressed |-> 0, lastSeen |-> t]
    BY <1>1, <1>2, <1>3, <1>5
  <2>2. o \in WindowOf(def)
    BY <1>4, <2>1 DEF WindowOf
  <2>3. o.fired /\ o.lastFired = t /\ o.lastSeen = t
    BY <2>1
  <2> QED
    BY <1>5, <2>2, <2>3 DEF FitsAt, o
<1>6. CASE ~Fires(w, def, t)
  <2>1. PICK s \in Nat : o = [r EXCEPT !.suppressed = s]
    <3>1. r.suppressed + 1 \in Nat
      BY <1>4
    <3> QED
      BY <1>2, <1>4, <1>6, <3>1
  <2>2. o = [times |-> r.times, head |-> r.head, count |-> r.count, fired |-> r.fired,
             lastFired |-> r.lastFired, suppressed |-> s, lastSeen |-> t]
    BY <1>1, <1>3, <2>1
  <2>3. o \in WindowOf(def)
    BY <1>4, <2>2 DEF WindowOf
  <2>4. o.fired = w.fired /\ o.lastFired = w.lastFired /\ o.lastSeen = t
    BY <1>1, <2>2
  <2>5. w.lastFired <= t
    BY <1>4
  <2> QED
    BY <1>6, <2>3, <2>4, <2>5 DEF FitsAt, o
<1> QED
  BY <1>5, <1>6

-----------------------------------------------------------------------------
(* The matches that the window stands for.                                 *)

LEMMA RemainderWraps ==
    ASSUME NEW n \in Nat \ {0}, NEW a \in Nat, a < 2 * n
    PROVE  a % n = Wrap(a, n)
<1>1. CASE a < n
  BY <1>1, SMT DEF Wrap
<1>2. CASE ~(a < n)
  BY <1>2, SMT DEF Wrap
<1> QED
  BY <1>1, <1>2

\* The ring with a match more: a full one gives up the place of its oldest match.
RingOf(w, r, n, t) ==
    /\ w.count < n => /\ r.head = w.head /\ r.count = w.count + 1
                      /\ r.times = [w.times EXCEPT ![Wrap(w.head + w.count, n)] = t]
    /\ w.count = n => /\ r.head = Wrap(w.head + 1, n) /\ r.count = n
                      /\ r.times = [w.times EXCEPT ![w.head] = t]

LEMMA RecordedRing ==
    ASSUME NEW def, def.threshold \in Nat \ {0}, MaxTime \in Nat, NEW w \in Window(def),
           NEW t \in 1 .. MaxTime
    PROVE  RingOf(w, Recorded(w, def, t), def.threshold, t)
<1> SUFFICES ASSUME NEW n, n = def.threshold, NEW r, r = Recorded(w, def, t)
             PROVE  RingOf(w, r, n, t)
  OBVIOUS
<1>1. /\ w.head \in 0 .. n - 1 /\ w.count \in 0 .. n /\ n \in Nat \ {0}
      /\ w.times \in [0 .. n - 1 -> 0 .. MaxTime]
      /\ w = [times |-> w.times, head |-> w.head, count |-> w.count, fired |-> w.fired,
              lastFired |-> w.lastFired, suppressed |-> w.suppressed, lastSeen |-> w.lastSeen]
  BY SMT DEF Window
<1>2. CASE w.count < n
  <2>1. Room(w, def) = w
    BY <1>2 DEF Room
  <2>2. (w.head + w.count) % n = Wrap(w.head + w.count, n)
    BY <1>1, <1>2, RemainderWraps
  <2>3. r = [w EXCEPT !.times[Wrap(w.head + w.count, n)] = t, !.count = w.count + 1, !.lastSeen = t]
    BY <2>1, <2>2 DEF Recorded
  <2> QED
    BY <1>1, <1>2, <2>3 DEF RingOf
<1>3. CASE w.count = n
  <2> DEFINE m == Room(w, def)
  <2>1. m = [w EXCEPT !.times[w.head] = 0, !.head = (w.head + 1) % n, !.count = w.count - 1]
    BY <1>1, <1>3 DEF Room
  <2>2. (w.head + 1) % n = Wrap(w.head + 1, n)
    BY <1>1, RemainderWraps
  <2>3. /\ m.head = Wrap(w.head + 1, n) /\ m.count = n - 1
        /\ m.times = [w.times EXCEPT ![w.head] = 0]
        /\ m = [times |-> m.times, head |-> m.head, count |-> m.count, fired |-> m.fired,
                lastFired |-> m.lastFired, suppressed |-> m.suppressed, lastSeen |-> m.lastSeen]
    BY <1>1, <1>3, <2>1, <2>2
  <2>4. r = [m EXCEPT !.times[(m.head + m.count) % n] = t, !.count = m.count + 1, !.lastSeen = t]
    BY DEF Recorded
  <2> HIDE DEF m
  <2>5. m.head \in 0 .. n - 1 /\ m.head + m.count \in Nat /\ m.head + m.count < 2 * n
    <3>1. m.head = (IF w.head + 1 < n THEN w.head + 1 ELSE w.head + 1 - n)
      BY <1>1, <2>3 DEF Wrap
    <3>2. m.head \in 0 .. n - 1
      BY <1>1, <3>1
    <3> QED
      BY SMTT(30), <1>1, <2>3, <3>2
  <2>6. (m.head + m.count) % n = Wrap(m.head + m.count, n)
    BY <1>1, <2>5, RemainderWraps
  <2>7. Wrap(m.head + m.count, n) = w.head
    BY <1>1, <2>3 DEF Wrap
  <2>8. r = [m EXCEPT !.times[w.head] = t, !.count = m.count + 1, !.lastSeen = t]
    BY <2>4, <2>6, <2>7
  <2>9. r.head = m.head /\ r.count = m.count + 1 /\ r.times = [m.times EXCEPT ![w.head] = t]
    BY <2>3, <2>8
  <2>10. [m.times EXCEPT ![w.head] = t] = [w.times EXCEPT ![w.head] = t]
    BY <1>1, <2>3
  <2> QED
    BY <1>1, <1>3, <2>3, <2>9, <2>10 DEF RingOf
<1> QED
  BY <1>1, <1>2, <1>3

\* Fields of a match.
LEMMA MatchFields ==
    ASSUME NEW h, NEW t \in Nat, InOrder(h, t)
    PROVE  /\ Len(h) \in Nat
           /\ \A i \in 1 .. Len(h) : h[i].at \in 1 .. t /\ h[i].alerted \in BOOLEAN
<1>1. PICK S : S = [at : 1 .. t, alerted : BOOLEAN]
  OBVIOUS
<1>2. h \in Seq(S)
  BY <1>1 DEF InOrder
<1>3. ASSUME NEW i \in 1 .. Len(h) PROVE h[i].at \in 1 .. t /\ h[i].alerted \in BOOLEAN
  <2>1. h[i] \in S
    BY <1>2, ElementOfSeq
  <2> QED
    BY <1>1, <2>1
<1> QED
  BY <1>2, <1>3, LenProperties

\* g is h with a match more, at time t.
OneMore(g, h, t, raised) ==
    /\ Len(g) = Len(h) + 1 /\ \A i \in 1 .. Len(h) : g[i] = h[i]
    /\ g[Len(h) + 1].at = t /\ g[Len(h) + 1].alerted = raised

LEMMA AppendedMatch ==
    ASSUME NEW h, NEW t \in Nat \ {0}, InOrder(h, t), NEW raised \in BOOLEAN,
           NEW g, g = Append(h, [at |-> t, alerted |-> raised])
    PROVE  InOrder(g, t) /\ OneMore(g, h, t, raised)
<1>1. PICK S : S = [at : 1 .. t, alerted : BOOLEAN]
  OBVIOUS
<1>2. PICK m : m = [at |-> t, alerted |-> raised]
  OBVIOUS
<1>3. h \in Seq(S) /\ m \in S
  BY <1>1, <1>2 DEF InOrder
<1>4. /\ g \in Seq(S) /\ Len(g) = Len(h) + 1
      /\ \A i \in 1 .. Len(h) : g[i] = h[i]
      /\ g[Len(h) + 1] = m
  BY <1>2, <1>3, AppendProperties
<1>5. OneMore(g, h, t, raised)
  BY <1>2, <1>4 DEF OneMore
<1>6. Len(h) \in Nat /\ \A i \in 1 .. Len(h) : h[i].at \in 1 .. t
  BY MatchFields
<1>7. ASSUME NEW i \in 1 .. Len(g), NEW j \in 1 .. Len(g), i <= j
      PROVE  g[i].at <= g[j].at
  <2>1. CASE j \in 1 .. Len(h)
    <3>1. i \in 1 .. Len(h)
      BY <1>6, <1>7, <2>1
    <3> QED
      BY <1>4, <1>7, <2>1, <3>1 DEF InOrder
  <2>2. CASE j = Len(h) + 1 /\ i \in 1 .. Len(h)
    <3>1. g[j].at = t /\ g[i].at \in 1 .. t
      BY <1>4, <1>5, <1>6, <2>2 DEF OneMore
    <3> QED
      BY <3>1
  <2>3. CASE j = Len(h) + 1 /\ i = Len(h) + 1
    <3>1. g[i].at = t /\ g[j].at = t
      BY <1>5, <2>3 DEF OneMore
    <3> QED
      BY <3>1
  <2> QED
    BY <1>4, <1>6, <1>7, <2>1, <2>2, <2>3
<1> QED
  BY <1>1, <1>4, <1>5, <1>7 DEF InOrder

\* The ring with the new match has its threshold when the matches not used yet do, and
\* the oldest it has is then the first of those Due looks at.
LEMMA Places ==
    ASSUME NEW n \in Nat \ {0}, NEW a \in 0 .. n - 1
    PROVE  /\ \A c \in 0 .. n - 1 :
                /\ Wrap(a + c, n) \in 0 .. n - 1 /\ (Wrap(a + c, n) = a <=> c = 0)
                /\ \A b \in 0 .. n - 1 : Wrap(a + b, n) = Wrap(a + c, n) => b = c
           /\ Wrap(a + 1, n) \in 0 .. n - 1 /\ (Wrap(a + 1, n) = a <=> n = 1)
BY DEF Wrap

OldestIs(g, r, n, k, first) ==
    /\ r.count = n /\ first \in 1 .. k + 1 /\ r.times[r.head] = g[first].at
    /\ \A j \in first .. k : ~g[j].alerted
LEMMA OldestInRing ==
    ASSUME NEW def, def.threshold \in Nat \ {0}, MaxTime \in Nat, NEW v \in Window(def),
           NEW t \in 1 .. MaxTime, NEW h, InOrder(h, t), RingHolds(h, v, def.threshold),
           NEW raised, NEW g, OneMore(g, h, t, raised), v.count + 1 >= def.threshold
    PROVE  OldestIs(g, Recorded(v, def, t), def.threshold, Len(h), Len(h) + 2 - def.threshold)
<1>1. PICK n, r, k, first, c, a :
        /\ n = def.threshold /\ r = Recorded(v, def, t) /\ k = Len(h) /\ first = Len(h) + 2 - n
        /\ c = v.count /\ a = v.head
  OBVIOUS
<1>2. k \in Nat /\ c \in 0 .. n /\ a \in 0 .. n - 1 /\ n \in Nat \ {0} /\ c <= k
  BY <1>1, MatchFields DEF Window, RingHolds
<1>3. v.times \in [0 .. n - 1 -> 0 .. MaxTime]
  BY <1>1 DEF Window
<1>4. first = k + 2 - n /\ c + 1 >= n
  BY <1>1
<1>5. (\A i \in 1 .. k : g[i] = h[i]) /\ g[k + 1].at = t
  BY <1>1 DEF OneMore
<1>6. ASSUME NEW i \in 1 .. c
      PROVE  v.times[Wrap(a + i - 1, n)] = h[k - c + i].at /\ ~h[k - c + i].alerted
  BY <1>1, <1>6 DEF RingHolds
<1>7. first \in 1 .. k + 1 /\ first >= k - c + 1
  BY <1>2, <1>4
<1>8. ASSUME NEW j \in first .. k PROVE ~g[j].alerted
  <2>1. j \in 1 .. k /\ j - k + c \in 1 .. c /\ k - c + (j - k + c) = j
    BY <1>2, <1>7
  <2> QED
    BY <1>5, <1>6, <2>1
<1>9. /\ c < n => /\ r.head = a /\ r.count = c + 1
                  /\ r.times = [v.times EXCEPT ![Wrap(a + c, n)] = t]
      /\ c = n => /\ r.head = Wrap(a + 1, n) /\ r.count = n
                  /\ r.times = [v.times EXCEPT ![a] = t]
  <2>1. RingOf(v, Recorded(v, def, t), def.threshold, t)
    BY RecordedRing
  <2>2. RingOf(v, r, n, t)
    BY <1>1, <2>1
  <2> QED
    BY <1>1, <2>2, Zenon DEF RingOf
<1>10. r.count = n /\ r.times[r.head] = g[first].at
  <2>1. CASE c < n /\ c = 0
    <3>1. n = 1 /\ first = k + 1
      BY <1>2, <1>4, <2>1
    <3>2. Wrap(a + c, n) = a
      BY <1>2, <2>1 DEF Wrap
    <3> QED
      BY <1>2, <1>3, <1>5, <1>9, <2>1, <3>1, <3>2
  <2>2. CASE c < n /\ c # 0
    <3>1. c = n - 1 /\ 1 \in 1 .. c /\ first = k - c + 1 /\ first \in 1 .. k
      BY <1>2, <1>4, <2>2
    <3>2. Wrap(a + c, n) # a
      BY <1>2, <2>2 DEF Wrap
    <3>3. Wrap(a + 1 - 1, n) = a
      BY <1>2 DEF Wrap
    <3>4. v.times[a] = h[first].at
      BY <1>6, <3>1, <3>3
    <3>5. r.times[r.head] = v.times[a] /\ r.count = n
      <4>1. a \in 0 .. n - 1 /\ c + 1 = n
        BY <1>2, <3>1
      <4> QED
        BY <1>3, <1>9, <2>2, <3>2, <4>1
    <3> QED
      BY <1>5, <3>1, <3>4, <3>5
  <2>3. CASE c = n /\ n = 1
    <3>1. Wrap(a + 1, n) = a /\ first = k + 1
      BY <1>2, <1>4, <2>3 DEF Wrap
    <3> QED
      BY <1>2, <1>3, <1>5, <1>9, <2>3, <3>1
  <2>4. CASE c = n /\ n # 1
    <3>1. 2 \in 1 .. c /\ first = k - c + 2 /\ first \in 1 .. k /\ a + 2 - 1 = a + 1
      BY <1>2, <1>4, <2>4
    <3>2. Wrap(a + 1, n) # a /\ Wrap(a + 1, n) \in 0 .. n - 1
      BY <1>2, <2>4, Places
    <3>3. v.times[Wrap(a + 1, n)] = h[first].at
      BY <1>6, <3>1
    <3>4. r.times[r.head] = v.times[Wrap(a + 1, n)]
      BY <1>3, <1>9, <2>4, <3>2
    <3> QED
      BY <1>5, <1>9, <2>4, <3>1, <3>3, <3>4
  <2> QED
    BY <1>2, <2>1, <2>2, <2>3, <2>4
<1>11. OldestIs(g, r, n, k, first)
  BY <1>7, <1>8, <1>10 DEF OldestIs
<1> QED
  BY <1>1, <1>11

\* The window cools while an alert lies within the cooldown.
LEMMA CoolingAlert ==
    ASSUME NEW def, def.cooldown \in Nat, NEW v \in Window(def), MaxTime \in Nat,
           NEW t \in 1 .. MaxTime, NEW h, InOrder(h, t), LastAlert(h, v, def.cooldown, t)
    PROVE  Cooling(v, def, t)
             <=> \E i \in 1 .. Len(h) : h[i].alerted /\ t - h[i].at < def.cooldown
<1>1. v.fired \in BOOLEAN /\ v.lastFired \in Int
  BY SMT DEF Window
<1>2. \A i \in 1 .. Len(h) : h[i].at \in Int
  BY MatchFields
<1>3. CASE v.fired
  <2>1. /\ \E i \in 1 .. Len(h) : h[i].alerted /\ h[i].at = v.lastFired
        /\ \A i \in 1 .. Len(h) : h[i].alerted => h[i].at <= v.lastFired
    BY <1>3 DEF LastAlert
  <2> QED
    BY <1>1, <1>2, <1>3, <2>1 DEF Cooling
<1>4. CASE ~v.fired
  BY <1>2, <1>4 DEF LastAlert, Cooling
<1> QED
  BY <1>3, <1>4

LEMMA DueMeans ==
    ASSUME NEW h, NEW def, NEW i, NEW first, first = i - def.threshold + 1, NEW last, last = i - 1
    PROVE  Due(h, i, def) <=>
             /\ first >= 1 /\ h[i].at - h[first].at <= def.window
             /\ \A j \in first .. last : ~h[j].alerted
             /\ \A j \in 1 .. last : h[j].alerted => h[i].at - h[j].at >= def.cooldown
BY DEF Due

\* A match fires if it is due (observe).
LEMMA FiresWhenDue ==
    ASSUME NEW def, def.threshold \in Nat \ {0}, IdleTTL \in Nat, def.window \in 1 .. IdleTTL,
           def.cooldown \in Nat, MaxTime \in Nat, NEW v \in Window(def),
           NEW t \in 1 .. MaxTime, NEW h, InOrder(h, t), HoldsAt(h, v, def, t),
           NEW raised, NEW g, OneMore(g, h, t, raised)
    PROVE  Fires(v, def, t) <=> Due(g, Len(h) + 1, def)
<1>1. PICK n, r, first, k, c :
        /\ n = def.threshold /\ r = Recorded(v, def, t) /\ first = Len(h) + 2 - n
        /\ k = Len(h) /\ c = v.count
  OBVIOUS
<1>2. c \in 0 .. n /\ n \in Nat \ {0} /\ k \in Nat /\ first = k + 2 - n
  BY <1>1, MatchFields DEF Window
<1>3. (\A i \in 1 .. k : h[i].at \in 1 .. t /\ g[i] = h[i]) /\ g[k + 1].at = t
  BY <1>1, MatchFields DEF OneMore
<1>4. Due(g, k + 1, def) <=>
        /\ first >= 1 /\ t - g[first].at <= def.window
        /\ \A j \in first .. k : ~g[j].alerted
        /\ \A j \in 1 .. k : h[j].alerted => t - h[j].at >= def.cooldown
  <2>1. k + 1 - n + 1 = first /\ k + 1 - 1 = k
    BY <1>2
  <2>2. Due(g, k + 1, def) <=>
          /\ first >= 1 /\ g[k + 1].at - g[first].at <= def.window
          /\ \A j \in first .. k : ~g[j].alerted
          /\ \A j \in 1 .. k : g[j].alerted => g[k + 1].at - g[j].at >= def.cooldown
    <3>1. first = (k + 1) - def.threshold + 1 /\ k = (k + 1) - 1
      BY SMTT(30), <1>1, <2>1
    <3> QED
      BY <3>1, DueMeans, Zenon
  <2> QED
    BY <1>3, <2>2
<1>5. Trips(v, def, t) <=> r.count = n /\ t - r.times[r.head] <= def.window
  BY <1>1 DEF Trips
<1>6. ~Cooling(v, def, t) <=> \A j \in 1 .. k : h[j].alerted => t - h[j].at >= def.cooldown
  <2>1. Cooling(v, def, t)
          <=> \E i \in 1 .. k : h[i].alerted /\ t - h[i].at < def.cooldown
    BY <1>1, CoolingAlert DEF HoldsAt
  <2> QED
    BY <1>3, <2>1
<1>7. RingHolds(h, v, n) /\ BeforeRing(h, v, n, t)
  BY <1>1 DEF HoldsAt
<1>8. CASE c + 1 >= n
  <2>1. v.count + 1 >= def.threshold /\ RingHolds(h, v, def.threshold)
    BY <1>1, <1>7, <1>8
  <2>2. /\ r.count = n /\ first \in 1 .. k + 1 /\ r.times[r.head] = g[first].at
        /\ \A j \in first .. k : ~g[j].alerted
    <3>1. OldestIs(g, Recorded(v, def, t), def.threshold, Len(h), Len(h) + 2 - def.threshold)
      BY <2>1, OldestInRing
    <3>2. OldestIs(g, r, n, k, first)
      BY <1>1, <3>1
    <3> QED
      BY <3>2, Zenon DEF OldestIs
  <2>3. first >= 1
    BY <1>2, <2>2
  <2> QED
    BY <1>1, <1>4, <1>5, <1>6, <2>2, <2>3, Zenon DEF Fires
<1>9. CASE ~(c + 1 >= n)
  <2>1. c < n /\ c + 1 # n
    BY <1>2, <1>9
  <2>2. c <= k
    BY <1>1, <1>7 DEF RingHolds
  <2>3. r.count = c + 1
    <3>1. RingOf(v, Recorded(v, def, t), def.threshold, t)
      BY RecordedRing
    <3>2. RingOf(v, r, n, t)
      BY <1>1, <3>1
    <3> QED
      BY <1>1, <2>1, <3>2, Zenon DEF RingOf
  <2>4. ~Fires(v, def, t)
    BY <1>5, <2>1, <2>3 DEF Fires
  <2>5. ASSUME Due(g, k + 1, def) PROVE FALSE
    <3>1. PICK p : p = k - c
      OBVIOUS
    <3>2. first >= 1 /\ t - g[first].at <= def.window /\ \A j \in first .. k : ~g[j].alerted
      BY <1>4, <2>5
    <3>3. first \in 1 .. p /\ p \in first .. k /\ first \in 1 .. k /\ p \in 1 .. k
      <4>1. first >= 1
        BY <3>2
      <4> QED
        BY <1>2, <2>1, <2>2, <3>1, <4>1
    <3>4. ~h[p].alerted
      BY <1>3, <3>2, <3>3
    <3>5. PICK next \in Int : next <= t /\ Useless(h, p, next)
      <4>1. CASE c = 0
        BY <1>1, <1>7, <2>1, <3>1, <4>1 DEF BeforeRing
      <4>2. CASE c # 0
        <5>1. p + 1 \in 1 .. k
          BY <1>2, <2>2, <3>1, <4>2
        <5>2. h[p + 1].at \in 1 .. t
          BY <1>3, <5>1
        <5>3. Useless(h, p, h[p + 1].at)
          BY <1>1, <1>7, <2>1, <3>1, <4>2 DEF BeforeRing
        <5> QED
          BY <5>2, <5>3
      <4> QED
        BY <4>1, <4>2
    <3>6. next - h[p].at > IdleTTL
      BY <3>3, <3>4, <3>5 DEF Useless
    <3>7. h[first].at <= h[p].at
      <4>1. first <= p
        BY <3>3
      <4> QED
        BY <1>1, <3>3, <4>1 DEF InOrder
    <3>8. g[first].at = h[first].at /\ h[first].at \in Int /\ h[p].at \in Int
      BY <1>3, <3>3
    <3>9. t - h[first].at <= def.window
      BY <3>2, <3>8
    <3> QED
      BY <3>5, <3>6, <3>7, <3>8, <3>9
  <2> QED
    BY <1>1, <2>4, <2>5
<1> QED
  BY <1>8, <1>9

\* What observing makes of the ring: an alert empties it.
RingAfter(o, r, fires) ==
    IF fires THEN o.count = 0 ELSE o.times = r.times /\ o.head = r.head /\ o.count = r.count
LEMMA ObservedRing ==
    ASSUME NEW def, def.threshold \in Nat \ {0}, MaxTime \in Nat, NEW w \in Window(def),
           NEW t \in 1 .. MaxTime
    PROVE  RingAfter(Observed(w, def, t), Recorded(w, def, t), Fires(w, def, t))
<1> DEFINE r == Recorded(w, def, t)
           o == Observed(w, def, t)
<1>1. r \in Window(def)
  BY RecordedFits
<1>2. o = IF Fires(w, def, t)
            THEN [r EXCEPT !.head = 0, !.count = 0, !.fired = TRUE, !.lastFired = t, !.suppressed = 0]
            ELSE [r EXCEPT !.suppressed = IF Trips(w, def, t) THEN r.suppressed + 1 ELSE r.suppressed]
  BY DEF Observed
<1> HIDE DEF r, o
<1>3. r = [times |-> r.times, head |-> r.head, count |-> r.count, fired |-> r.fired,
           lastFired |-> r.lastFired, suppressed |-> r.suppressed, lastSeen |-> r.lastSeen]
  BY <1>1 DEF Window
<1>4. CASE Fires(w, def, t)
  <2>1. o.count = 0
    BY <1>2, <1>3, <1>4
  <2> QED
    BY <1>4, <2>1 DEF RingAfter, o
<1>5. CASE ~Fires(w, def, t)
  <2>1. o.times = r.times /\ o.head = r.head /\ o.count = r.count
    BY <1>2, <1>3, <1>5
  <2> QED
    BY <1>5, <2>1 DEF RingAfter, o, r
<1> QED
  BY <1>4, <1>5

\* The ring with the match more holds the last matches, the new one included, and what
\* was useless before it stays so.
LEMMA RingHoldsMore ==
    ASSUME NEW def, def.threshold \in Nat \ {0}, MaxTime \in Nat, NEW v \in Window(def),
           NEW t \in 1 .. MaxTime, NEW h, InOrder(h, t), RingHolds(h, v, def.threshold),
           BeforeRing(h, v, def.threshold, t), NEW g, OneMore(g, h, t, FALSE)
    PROVE  /\ RingHolds(g, Recorded(v, def, t), def.threshold)
           /\ BeforeRing(g, Recorded(v, def, t), def.threshold, t)
<1>1. PICK n, r, k, c, a :
        n = def.threshold /\ r = Recorded(v, def, t) /\ k = Len(h) /\ c = v.count /\ a = v.head
  OBVIOUS
<1>2. k \in Nat /\ c \in 0 .. n /\ a \in 0 .. n - 1 /\ n \in Nat \ {0} /\ c <= k
  BY <1>1, MatchFields DEF Window, RingHolds
<1>3. v.times \in [0 .. n - 1 -> 0 .. MaxTime]
  BY <1>1 DEF Window
<1>4. /\ Len(g) = k + 1 /\ \A i \in 1 .. k : g[i] = h[i]
      /\ g[k + 1].at = t /\ ~g[k + 1].alerted
  BY <1>1 DEF OneMore
<1>5. ASSUME NEW i \in 1 .. c
      PROVE  v.times[Wrap(a + i - 1, n)] = h[k - c + i].at /\ ~h[k - c + i].alerted
  BY <1>1, <1>5 DEF RingHolds
<1>6. /\ c < n => /\ r.head = a /\ r.count = c + 1
                  /\ r.times = [v.times EXCEPT ![Wrap(a + c, n)] = t]
      /\ c = n => /\ r.head = Wrap(a + 1, n) /\ r.count = n
                  /\ r.times = [v.times EXCEPT ![a] = t]
  <2>1. RingOf(v, Recorded(v, def, t), def.threshold, t)
    BY RecordedRing
  <2>2. RingOf(v, r, n, t)
    BY <1>1, <2>1
  <2> QED
    BY <1>1, <2>2, Zenon DEF RingOf
<1>7. CASE c < n
  <2>1. ASSUME NEW i \in 1 .. c + 1
        PROVE  /\ r.times[Wrap(a + i - 1, n)] = g[k + 1 - (c + 1) + i].at
               /\ ~g[k + 1 - (c + 1) + i].alerted
    <3>1. CASE i = c + 1
      <4>1. a + i - 1 = a + c /\ k + 1 - (c + 1) + i = k + 1 /\ Wrap(a + c, n) \in 0 .. n - 1
        BY <1>2, <1>7, <3>1 DEF Wrap
      <4> QED
        BY <1>3, <1>4, <1>6, <1>7, <4>1
    <3>2. CASE i # c + 1
      <4>1. i \in 1 .. c /\ k + 1 - (c + 1) + i = k - c + i /\ k - c + i \in 1 .. k
        BY <1>2, <3>2
      <4>2. Wrap(a + i - 1, n) # Wrap(a + c, n) /\ Wrap(a + i - 1, n) \in 0 .. n - 1
        BY <1>2, <1>7, <4>1 DEF Wrap
      <4>3. r.times[Wrap(a + i - 1, n)] = v.times[Wrap(a + i - 1, n)]
        BY <1>3, <1>6, <1>7, <4>2
      <4> QED
        BY <1>4, <1>5, <4>1, <4>3
    <3> QED
      BY <3>1, <3>2
  <2>2. c + 1 <= k + 1 /\ k + 1 - (c + 1) = k - c
    BY <1>2
  <2>3. RingHolds(g, r, n)
    <3>1. r.count = c + 1 /\ r.head = a /\ Len(g) = k + 1
      BY <1>4, <1>6, <1>7
    <3>2. r.count <= Len(g)
      BY <2>2, <3>1
    <3>3. ASSUME NEW i \in 1 .. r.count
          PROVE  /\ r.times[Wrap(r.head + i - 1, n)] = g[Len(g) - r.count + i].at
                 /\ ~g[Len(g) - r.count + i].alerted
      <4>1. i \in 1 .. c + 1
        BY <3>1
      <4>2. Wrap(r.head + i - 1, n) = Wrap(a + i - 1, n) /\ Len(g) - r.count + i = k + 1 - (c + 1) + i
        BY <1>2, <3>1
      <4> QED
        BY <2>1, <4>1, <4>2
    <3> QED
      BY <3>2, <3>3 DEF RingHolds
  <2>4. Useless(h, k - c, IF c = 0 THEN t ELSE h[k - c + 1].at)
    BY <1>1, <1>7 DEF BeforeRing
  <2>5. Useless(g, k - c, g[k - c + 1].at)
    <3>1. CASE k - c = 0
      BY <3>1 DEF Useless
    <3>2. CASE k - c # 0
      <4>1. k - c \in 1 .. k /\ g[k - c] = h[k - c]
        <5>1. k - c \in 1 .. k
          BY <1>2, <3>2
        <5> QED
          BY <1>4, <5>1
      <4>2. g[k - c + 1].at = IF c = 0 THEN t ELSE h[k - c + 1].at
        <5>1. CASE c = 0
          <6>1. k - c + 1 = k + 1
            BY <1>2, <5>1
          <6> QED
            BY <1>4, <5>1, <6>1
        <5>2. CASE c # 0
          <6>1. k - c + 1 \in 1 .. k
            BY <1>2, <5>2
          <6> QED
            BY <1>4, <5>2, <6>1
        <5> QED
          BY <5>1, <5>2
      <4> QED
        BY <2>4, <4>1, <4>2 DEF Useless
    <3> QED
      BY <3>1, <3>2
  <2>6. BeforeRing(g, r, n, t)
    <3>1. Len(g) - r.count = k - c /\ r.count # 0
      BY <1>2, <1>4, <1>6, <1>7, <2>2
    <3> QED
      BY <2>5, <3>1 DEF BeforeRing
  <2> QED
    BY <1>1, <2>3, <2>6
<1>8. CASE c = n
  <2>1. ASSUME NEW i \in 1 .. n
        PROVE  /\ r.times[Wrap(Wrap(a + 1, n) + i - 1, n)] = g[k + 1 - n + i].at
               /\ ~g[k + 1 - n + i].alerted
    <3>1. CASE i = n
      <4>1. Wrap(Wrap(a + 1, n) + i - 1, n) = a /\ k + 1 - n + i = k + 1
        BY <1>2, <3>1 DEF Wrap
      <4> QED
        BY <1>2, <1>3, <1>4, <1>6, <1>8, <4>1
    <3>2. CASE i # n
      <4>1. i + 1 \in 1 .. c /\ k + 1 - n + i = k - c + (i + 1) /\ k - c + (i + 1) \in 1 .. k
        BY <1>2, <1>8, <3>2
      <4>2. Wrap(Wrap(a + 1, n) + i - 1, n) = Wrap(a + (i + 1) - 1, n)
        BY <1>2, <3>2 DEF Wrap
      <4>3. Wrap(a + (i + 1) - 1, n) # a /\ Wrap(a + (i + 1) - 1, n) \in 0 .. n - 1
        BY <1>2, <3>2 DEF Wrap
      <4>4. r.times[Wrap(a + (i + 1) - 1, n)] = v.times[Wrap(a + (i + 1) - 1, n)]
        BY <1>3, <1>6, <1>8, <4>3
      <4>5. v.times[Wrap(a + (i + 1) - 1, n)] = h[k - c + (i + 1)].at /\ ~h[k - c + (i + 1)].alerted
        BY <1>5, <4>1
      <4> QED
        BY <1>4, <4>1, <4>2, <4>4, <4>5
    <3> QED
      BY <3>1, <3>2
  <2>2. n <= k + 1
    BY <1>2, <1>8
  <2>3. RingHolds(g, r, n)
    <3>1. r.count = n /\ r.head = Wrap(a + 1, n) /\ Len(g) = k + 1
      BY <1>4, <1>6, <1>8
    <3>2. r.count <= Len(g)
      BY <2>2, <3>1
    <3>3. ASSUME NEW i \in 1 .. r.count
          PROVE  /\ r.times[Wrap(r.head + i - 1, n)] = g[Len(g) - r.count + i].at
                 /\ ~g[Len(g) - r.count + i].alerted
      <4>1. i \in 1 .. n
        BY <3>1
      <4>2. Wrap(r.head + i - 1, n) = Wrap(Wrap(a + 1, n) + i - 1, n) /\ Len(g) - r.count + i = k + 1 - n + i
        BY <1>2, <3>1
      <4> QED
        BY <2>1, <4>1, <4>2
    <3> QED
      BY <3>2, <3>3 DEF RingHolds
  <2>4. BeforeRing(g, r, n, t)
    BY <1>2, <1>6, <1>8 DEF BeforeRing
  <2> QED
    BY <1>1, <2>3, <2>4
<1> QED
  BY <1>2, <1>7, <1>8

\* The window remembers the last alert.
LEMMA LastAlertMore ==
    ASSUME NEW h, NEW t \in Nat \ {0}, InOrder(h, t), NEW v, NEW o, NEW cooldown,
           LastAlert(h, v, cooldown, t), NEW raised \in BOOLEAN, NEW g, OneMore(g, h, t, raised),
           IF raised THEN o.fired /\ o.lastFired = t
                     ELSE o.fired = v.fired /\ o.lastFired = v.lastFired
    PROVE  LastAlert(g, o, cooldown, t)
<1>1. PICK k : k = Len(h)
  OBVIOUS
<1>2. k \in Nat /\ k + 1 \in 1 .. k + 1 /\ \A i \in 1 .. k : h[i].at \in 1 .. t
  BY <1>1, MatchFields
<1>3. /\ Len(g) = k + 1 /\ \A i \in 1 .. k : g[i] = h[i]
      /\ g[k + 1].at = t /\ g[k + 1].alerted = raised
  BY <1>1 DEF OneMore
<1>4. \A i \in 1 .. k + 1 : i \in 1 .. k \/ i = k + 1
  BY <1>2
<1>5. 1 .. k \subseteq 1 .. k + 1
  BY <1>2
<1>6. CASE raised
  <2>1. \A i \in 1 .. k + 1 : g[i].at <= t
    BY <1>2, <1>3, <1>4
  <2> QED
    BY <1>2, <1>3, <1>6, <2>1 DEF LastAlert
<1>7. CASE ~raised /\ v.fired
  <2>1. o.fired /\ o.lastFired = v.lastFired
    BY <1>7
  <2>2. PICK i \in 1 .. k : h[i].alerted /\ h[i].at = v.lastFired
    BY <1>1, <1>7 DEF LastAlert
  <2>3. i \in 1 .. k + 1 /\ g[i].alerted /\ g[i].at = o.lastFired
    BY <1>3, <1>5, <2>1, <2>2
  <2>4. \A j \in 1 .. k : h[j].alerted => h[j].at <= v.lastFired
    BY <1>1, <1>7 DEF LastAlert
  <2>5. \A j \in 1 .. k + 1 : g[j].alerted => g[j].at <= o.lastFired
    BY <1>3, <1>4, <1>7, <2>1, <2>4
  <2> QED
    BY <1>3, <2>1, <2>3, <2>5 DEF LastAlert
<1>8. CASE ~raised /\ ~v.fired
  <2>1. \A j \in 1 .. k : h[j].alerted => t - h[j].at >= cooldown
    BY <1>1, <1>8 DEF LastAlert
  <2>2. \A j \in 1 .. k + 1 : g[j].alerted => t - g[j].at >= cooldown
    BY <1>3, <1>4, <1>8, <2>1
  <2> QED
    BY <1>3, <1>8, <2>2 DEF LastAlert
<1> QED
  BY <1>6, <1>7, <1>8

LEMMA HoldsMore ==
    ASSUME NEW def, def.threshold \in Nat \ {0}, MaxTime \in Nat, NEW v \in Window(def),
           v.lastFired <= v.lastSeen, NEW t \in 1 .. MaxTime, v.lastSeen <= t,
           NEW h, InOrder(h, t), HoldsAt(h, v, def, t),
           NEW raised \in BOOLEAN, raised <=> Fires(v, def, t), NEW g, OneMore(g, h, t, raised)
    PROVE  HoldsAt(g, Observed(v, def, t), def, t)
<1> DEFINE o == Observed(v, def, t)
           r == Recorded(v, def, t)
<1>1. RingAfter(o, r, Fires(v, def, t))
  BY ObservedRing
<1>2. /\ Fires(v, def, t) => o.fired /\ o.lastFired = t
      /\ ~Fires(v, def, t) => o.fired = v.fired /\ o.lastFired = v.lastFired
  BY ObservedFits
<1>3. LastAlert(g, o, def.cooldown, t)
  <2> HIDE DEF o
  <2>1. IF raised THEN o.fired /\ o.lastFired = t
                  ELSE o.fired = v.fired /\ o.lastFired = v.lastFired
    BY <1>2
  <2>2. LastAlert(h, v, def.cooldown, t)
    BY DEF HoldsAt
  <2> QED
    BY <2>1, <2>2, LastAlertMore
<1>4. PICK n : n = def.threshold
  OBVIOUS
<1>5. RingHolds(g, o, n) /\ BeforeRing(g, o, n, t)
  <2>1. CASE raised
    <3>1. o.count = 0
      <4>1. Fires(v, def, t)
        BY <2>1
      <4> QED
        BY <1>1, <4>1 DEF RingAfter
    <3> HIDE DEF o
    <3>2. Len(h) \in Nat /\ Len(g) = Len(h) + 1 /\ g[Len(g)].alerted
      BY <2>1, MatchFields DEF OneMore
    <3>3. Len(g) - 0 = Len(g) /\ 0 <= Len(g)
      BY <3>2
    <3>4. RingHolds(g, o, n)
      BY <3>1, <3>3 DEF RingHolds
    <3>5. BeforeRing(g, o, n, t)
      BY <3>1, <3>2, <3>3 DEF BeforeRing, Useless
    <3> QED
      BY <3>4, <3>5
  <2>2. CASE ~raised
    <3>1. o.times = r.times /\ o.head = r.head /\ o.count = r.count
      <4>1. ~Fires(v, def, t)
        BY <2>2
      <4> QED
        BY <1>1, <4>1 DEF RingAfter
    <3>2. RingHolds(g, r, n) /\ BeforeRing(g, r, n, t)
      <4>1. OneMore(g, h, t, FALSE)
        BY <2>2
      <4> QED
        BY <1>4, <4>1, RingHoldsMore DEF HoldsAt
    <3> HIDE DEF o, r
    <3>3. RingHolds(g, o, n)
      BY <3>1, <3>2 DEF RingHolds
    <3>4. BeforeRing(g, o, n, t)
      BY <3>1, <3>2 DEF BeforeRing
    <3> QED
      BY <3>3, <3>4
  <2> QED
    BY <2>1, <2>2
<1> QED
  BY <1>3, <1>4, <1>5 DEF HoldsAt

\* Time passing leaves useless what is useless, and old what is old.
LEMMA HoldsLater ==
    ASSUME NEW def, def.cooldown \in Nat, IdleTTL \in Nat, NEW h, NEW t \in Nat, InOrder(h, t),
           NEW v, v.count \in Nat, HoldsAt(h, v, def, t)
    PROVE  HoldsAt(h, v, def, t + 1)
<1>1. \A i \in 1 .. Len(h) : h[i].at \in 1 .. t
  BY MatchFields
<1>2. Len(h) \in Nat
  BY MatchFields
<1>3. PICK n, p : n = def.threshold /\ p = Len(h) - v.count
  OBVIOUS
<1>4. RingHolds(h, v, n)
  BY <1>3 DEF HoldsAt
<1>5. BeforeRing(h, v, n, t + 1)
  <2>1. BeforeRing(h, v, n, t)
    BY <1>3 DEF HoldsAt
  <2>2. CASE v.count = 0
    <3> SUFFICES ASSUME v.count < n PROVE Useless(h, p, t + 1)
      BY <1>3, <2>2 DEF BeforeRing
    <3>1. Useless(h, p, t)
      BY <1>3, <2>1, <2>2 DEF BeforeRing
    <3>2. p = 0 \/ h[p].at \in 1 .. t
      <4>1. p = 0 \/ p \in 1 .. Len(h)
        BY <1>2, <1>3, <2>2
      <4> QED
        BY <1>1, <4>1
    <3> QED
      BY <3>1, <3>2 DEF Useless
  <2>3. CASE v.count # 0
    BY <2>1, <2>3 DEF BeforeRing
  <2> QED
    BY <2>2, <2>3
<1>6. LastAlert(h, v, def.cooldown, t + 1)
  <2>1. LastAlert(h, v, def.cooldown, t)
    BY DEF HoldsAt
  <2>2. \A i \in 1 .. Len(h) : t - h[i].at >= def.cooldown => (t + 1) - h[i].at >= def.cooldown
    BY <1>1
  <2>3. CASE v.fired
    BY <2>1, <2>3 DEF LastAlert
  <2>4. CASE ~v.fired
    <3>1. \A i \in 1 .. Len(h) : h[i].alerted => t - h[i].at >= def.cooldown
      BY <2>1, <2>4 DEF LastAlert
    <3>2. \A i \in 1 .. Len(h) : h[i].alerted => (t + 1) - h[i].at >= def.cooldown
      BY <2>2, <3>1
    <3> QED
      BY <2>4, <3>2 DEF LastAlert
  <2> QED
    BY <2>3, <2>4
<1> QED
  BY <1>3, <1>4, <1>5, <1>6 DEF HoldsAt

\* A new window holds nothing, which is enough when all matches are old.
LEMMA HoldsNothing ==
    ASSUME NEW def, def.threshold \in Nat \ {0}, IdleTTL \in Nat, def.cooldown \in 0 .. IdleTTL,
           NEW h, NEW t \in Nat, InOrder(h, t), \A i \in 1 .. Len(h) : t - h[i].at > IdleTTL
    PROVE  HoldsAt(h, NewWindow(def), def, t)
<1>1. PICK v : v = NewWindow(def)
  OBVIOUS
<1>2. v.count = 0 /\ ~v.fired
  BY <1>1 DEF NewWindow
<1>3. Len(h) \in Nat /\ \A i \in 1 .. Len(h) : h[i].at \in 1 .. t
  BY MatchFields
<1>4. Len(h) - 0 = Len(h) /\ 0 <= Len(h) /\ (Len(h) = 0 \/ Len(h) \in 1 .. Len(h))
  BY <1>3
<1>5. RingHolds(h, v, def.threshold)
  BY <1>2, <1>4 DEF RingHolds
<1>6. Useless(h, Len(h), t)
  BY <1>4 DEF Useless
<1>7. BeforeRing(h, v, def.threshold, t)
  BY <1>2, <1>4, <1>6 DEF BeforeRing
<1>8. LastAlert(h, v, def.cooldown, t)
  BY <1>2, <1>3 DEF LastAlert
<1> QED
  BY <1>1, <1>5, <1>7, <1>8 DEF HoldsAt

\* Nothing that comes after a match makes it due.
LEMMA DueAsBefore ==
    ASSUME NEW def, def.threshold \in Nat \ {0}, NEW h, NEW t \in Nat, InOrder(h, t),
           NEW raised, NEW g, OneMore(g, h, t, raised), NEW i \in 1 .. Len(h)
    PROVE  Due(g, i, def) <=> Due(h, i, def)
<1>1. PICK first, last : first = i - def.threshold + 1 /\ last = i - 1
  OBVIOUS
<1>2. Len(h) \in Nat /\ \A j \in 1 .. Len(h) : g[j] = h[j]
  BY MatchFields DEF OneMore
<1>3. 1 .. last \subseteq 1 .. Len(h) /\ i \in 1 .. Len(h)
      /\ (first >= 1 => first \in 1 .. Len(h) /\ first .. last \subseteq 1 .. Len(h))
  BY <1>1, <1>2
<1>4. Due(h, i, def) <=>
        /\ first >= 1 /\ h[i].at - h[first].at <= def.window
        /\ \A j \in first .. last : ~h[j].alerted
        /\ \A j \in 1 .. last : h[j].alerted => h[i].at - h[j].at >= def.cooldown
  BY <1>1, DueMeans, ZenonT(30)
<1>5. Due(g, i, def) <=>
        /\ first >= 1 /\ g[i].at - g[first].at <= def.window
        /\ \A j \in first .. last : ~g[j].alerted
        /\ \A j \in 1 .. last : g[j].alerted => g[i].at - g[j].at >= def.cooldown
  BY <1>1, DueMeans, ZenonT(30)
<1>6. CASE first >= 1
  <2>1. g[i] = h[i] /\ g[first] = h[first]
    BY <1>2, <1>3, <1>6
  <2>2. \A j \in first .. last : g[j] = h[j]
    BY <1>2, <1>3, <1>6
  <2>3. \A j \in 1 .. last : g[j] = h[j]
    BY <1>2, <1>3
  <2> QED
    BY <1>4, <1>5, <2>1, <2>2, <2>3
<1>7. CASE ~(first >= 1)
  BY <1>4, <1>5, <1>7
<1> QED
  BY <1>6, <1>7

-----------------------------------------------------------------------------
(* One key: a match, the passing of time, pruning.                         *)

LEMMA ObservedHistory ==
    ASSUME NEW def, def.threshold \in Nat \ {0}, IdleTTL \in Nat, def.window \in 1 .. IdleTTL,
           def.cooldown \in Nat, MaxTime \in Nat, NEW v \in Window(def),
           v.lastFired <= v.lastSeen, NEW t \in 1 .. MaxTime, v.lastSeen <= t,
           NEW h, Weighed(h, def, t), HoldsAt(h, v, def, t),
           NEW raised \in BOOLEAN, raised <=> Fires(v, def, t),
           NEW g, g = Append(h, [at |-> t, alerted |-> raised])
    PROVE  /\ Weighed(g, def, t) /\ HoldsAt(g, Observed(v, def, t), def, t)
           /\ \A i \in 1 .. Len(g) : g[i].at <= t
<1>1. InOrder(h, t) /\ t \in Nat \ {0}
  BY DEF Weighed
<1>2. InOrder(g, t) /\ OneMore(g, h, t, raised)
  BY <1>1, AppendedMatch
<1>3. HoldsAt(g, Observed(v, def, t), def, t)
  BY <1>1, <1>2, HoldsMore
<1>4. Len(h) \in Nat /\ Len(g) = Len(h) + 1 /\ (\A i \in 1 .. Len(h) : g[i] = h[i])
      /\ g[Len(h) + 1].alerted = raised
  BY <1>1, <1>2, MatchFields DEF OneMore
<1>5. ASSUME NEW i \in 1 .. Len(g) PROVE g[i].alerted <=> Due(g, i, def)
  <2>1. CASE i \in 1 .. Len(h)
    <3>1. Due(g, i, def) <=> Due(h, i, def)
      BY <1>1, <1>2, <2>1, DueAsBefore
    <3>2. (h[i].alerted <=> Due(h, i, def)) /\ g[i] = h[i]
      BY <1>4, <2>1 DEF Weighed
    <3> QED
      BY <3>1, <3>2
  <2>2. CASE i = Len(h) + 1
    <3>1. Fires(v, def, t) <=> Due(g, Len(h) + 1, def)
      BY <1>1, <1>2, FiresWhenDue
    <3>2. g[i].alerted = raised
      BY <1>4, <2>2
    <3> QED
      BY <2>2, <3>1, <3>2
  <2> QED
    BY <1>4, <2>1, <2>2
<1>6. \A i \in 1 .. Len(g) : g[i].at <= t
  <2>1. \A i \in 1 .. Len(g) : g[i].at \in 1 .. t
    BY <1>1, <1>2, MatchFields
  <2> QED
    BY <2>1
<1> QED
  BY <1>2, <1>3, <1>5, <1>6 DEF Weighed

LEMMA ObservedKey ==
    ASSUME NEW r, r.def.threshold \in Nat \ {0}, None \notin WindowOf(r.def), MaxTime \in Nat,
           IdleTTL \in Nat, r.def.window \in 1 .. IdleTTL, r.def.cooldown \in 0 .. IdleTTL,
           NEW w, NEW f, NEW h, NEW t \in 1 .. MaxTime, KeyAt(w, f, h, r, t),
           NEW v, v = IF w = None THEN NewWindow(r.def) ELSE w,
           NEW raised \in BOOLEAN, raised <=> Fires(v, r.def, t)
    PROVE  KeyAt(Observed(v, r.def, t), f \cup {r},
                 Append(h, [at |-> t, alerted |-> raised]), r, t)
<1>1. PICK def, o, g :
        /\ def = r.def /\ o = Observed(v, def, t)
        /\ g = Append(h, [at |-> t, alerted |-> raised])
  OBVIOUS
<1>2. def.threshold \in Nat \ {0} /\ def.window \in 1 .. IdleTTL /\ def.cooldown \in Nat
  BY <1>1
<1>3. v \in Window(def) /\ v.lastFired <= v.lastSeen /\ v.lastSeen <= t
  BY <1>1, NewWindowFits, FitsIsWindow DEF KeyAt, FitsAt
<1>4. FitsAt(o, def, t) /\ o.lastSeen = t
  BY <1>1, <1>2, <1>3, ObservedFits
<1>5. o # None
  BY <1>1, <1>4 DEF FitsAt
<1>6. HistoryAt(h, w, def, t)
  BY <1>1 DEF KeyAt
<1>7. Weighed(h, def, t) /\ HoldsAt(h, v, def, t)
  <2>1. CASE w = None
    <3>1. InOrder(h, t) /\ \A i \in 1 .. Len(h) : t - h[i].at > IdleTTL
      BY <1>6, <2>1 DEF HistoryAt, Weighed
    <3>2. def.cooldown \in 0 .. IdleTTL /\ v = NewWindow(def) /\ t \in Nat
      BY <1>1, <2>1
    <3>3. HoldsAt(h, NewWindow(def), def, t)
      BY <1>2, <3>1, <3>2, HoldsNothing
    <3> QED
      BY <1>6, <3>2, <3>3 DEF HistoryAt
  <2>2. CASE w # None
    BY <1>6, <2>2 DEF HistoryAt
  <2> QED
    BY <2>1, <2>2
<1>8. /\ Weighed(g, def, t) /\ HoldsAt(g, Observed(v, def, t), def, t)
      /\ \A i \in 1 .. Len(g) : g[i].at <= t
  BY <1>1, <1>2, <1>3, <1>7, ObservedHistory
<1>9. HistoryAt(g, o, def, t)
  BY <1>1, <1>4, <1>5, <1>8 DEF HistoryAt
<1>10. f \cup {r} \subseteq {r}
  BY DEF KeyAt
<1> QED
  BY <1>1, <1>4, <1>9, <1>10 DEF KeyAt

LEMMA LaterHistory ==
    ASSUME NEW def, NEW h, NEW t \in Nat, Weighed(h, def, t)
    PROVE  Weighed(h, def, t + 1)
<1>1. PICK S, T : S = [at : 1 .. t, alerted : BOOLEAN] /\ T = [at : 1 .. t + 1, alerted : BOOLEAN]
  OBVIOUS
<1>2. S \subseteq T
  BY <1>1
<1>3. h \in Seq(S)
  BY <1>1 DEF Weighed, InOrder
<1>4. h \in Seq(T)
  BY <1>2, <1>3, SeqMonotonic
<1> QED
  BY <1>1, <1>4 DEF Weighed, InOrder

LEMMA LaterKey ==
    ASSUME NEW r, r.def.cooldown \in Nat, IdleTTL \in Nat,
           NEW w, NEW f, NEW h, NEW t \in Nat, KeyAt(w, f, h, r, t)
    PROVE  KeyAt(w, f, h, r, t + 1)
<1>1. FitsAt(w, r.def, t) => FitsAt(w, r.def, t + 1) /\ w.count \in Nat
  <2>1. w \in WindowOf(r.def) => w.lastSeen \in Nat /\ w.count \in Nat
    BY DEF WindowOf
  <2> QED
    BY <2>1 DEF FitsAt
<1>2. Weighed(h, r.def, t) /\ InOrder(h, t)
  BY DEF KeyAt, HistoryAt, Weighed
<1>3. Weighed(h, r.def, t + 1)
  BY <1>2, LaterHistory
<1>4. CASE w = None
  <2>1. \A i \in 1 .. Len(h) : t - h[i].at > IdleTTL
    BY <1>4 DEF KeyAt, HistoryAt
  <2>2. \A i \in 1 .. Len(h) : h[i].at \in 1 .. t
    BY <1>2, MatchFields
  <2>3. \A i \in 1 .. Len(h) : (t + 1) - h[i].at > IdleTTL
    BY <2>1, <2>2
  <2>4. HistoryAt(h, w, r.def, t + 1)
    BY <1>3, <1>4, <2>3 DEF HistoryAt
  <2> QED
    BY <1>1, <2>4 DEF KeyAt
<1>5. CASE w # None
  <2>1. HoldsAt(h, w, r.def, t) /\ \A i \in 1 .. Len(h) : h[i].at <= w.lastSeen
    BY <1>5 DEF KeyAt, HistoryAt
  <2>2. FitsAt(w, r.def, t + 1) /\ w.count \in Nat
    BY <1>1, <1>5 DEF KeyAt
  <2>3. HoldsAt(h, w, r.def, t + 1)
    <3>1. PICK def : def = r.def
      OBVIOUS
    <3>2. HoldsAt(h, w, def, t + 1)
      BY <1>2, <2>1, <2>2, <3>1, HoldsLater
    <3> QED
      BY <3>1, <3>2
  <2>4. HistoryAt(h, w, r.def, t + 1)
    BY <1>3, <1>5, <2>1, <2>3 DEF HistoryAt
  <2> QED
    BY <2>2, <2>4 DEF KeyAt
<1> QED
  BY <1>4, <1>5

\* A pruned window was idle for longer than IdleTTL, and so are its matches.
LEMMA PrunedKey ==
    ASSUME NEW r, IdleTTL \in Nat, MaxTime \in Nat,
           NEW w, NEW f, NEW h, NEW t \in Nat, KeyAt(w, f, h, r, t),
           w # None, t - w.lastSeen > IdleTTL
    PROVE  KeyAt(None, {}, h, r, t)
<1>1. Weighed(h, r.def, t) /\ InOrder(h, t) /\ w \in WindowOf(r.def)
      /\ \A i \in 1 .. Len(h) : h[i].at <= w.lastSeen
  BY DEF KeyAt, FitsAt, HistoryAt, Weighed
<1>2. w.lastSeen \in Nat
  BY <1>1 DEF WindowOf
<1>3. \A i \in 1 .. Len(h) : h[i].at \in 1 .. t
  BY <1>1, MatchFields
<1>4. \A i \in 1 .. Len(h) : t - h[i].at > IdleTTL
  BY <1>1, <1>2, <1>3
<1> QED
  BY <1>1, <1>4 DEF KeyAt, HistoryAt

LEMMA EmptyKey ==
    ASSUME NEW r, NEW t
    PROVE  KeyAt(None, {}, << >>, r, t)
<1>1. PICK S : S = [at : 1 .. t, alerted : BOOLEAN]
  OBVIOUS
<1>2. << >> \in Seq(S) /\ Len(<< >>) = 0 /\ 1 .. 0 = {}
  OBVIOUS
<1>3. InOrder(<< >>, t)
  BY <1>1, <1>2 DEF InOrder
<1> QED
  BY <1>2, <1>3 DEF KeyAt, HistoryAt, Weighed

RulesInv == Typed /\ GenerationsTell /\ KeysSound

\* What the assumption says of a rule's definition.
LEMMA DefinitionFits ==
    ASSUME NEW def \in Definitions
    PROVE  /\ def.threshold \in Nat \ {0} /\ None \notin WindowOf(def)
           /\ def.window \in 1 .. IdleTTL
           /\ def.cooldown \in Nat /\ def.cooldown \in 0 .. IdleTTL
BY EngineAssumption
LEMMA Sizes ==
    /\ FiredBuffer \in Nat \ {0} /\ InspectBuffer \in Nat \ {0} /\ DispatchBuffer \in Nat \ {0}
    /\ OomWindow \in Nat /\ IdleTTL \in Nat /\ InspectTimeout \in Nat /\ MaxTime \in Nat \ {0}
    /\ MaxEvents \in Nat /\ Inputs \subseteq Nat \X (0 .. MaxEvents) /\ InspectTimeout < OomWindow
BY EngineAssumption
LEMMA ActiveDefinition ==
    ASSUME RulesTyped, NEW id \in RuleIds, Active(id)
    PROVE  RuleOf(id).def \in Definitions
<1>1. CASE subs[id] # None
  <2>1. subs[id] \in [def : Definitions, gen : Nat]
    BY <1>1 DEF RulesTyped
  <2> QED
    BY <1>1, <2>1 DEF RuleOf
<1>2. CASE subs[id] = None
  BY <1>2 DEF RulesTyped, RuleOf, Active
<1> QED
  BY <1>1, <1>2
\* A configured rule is Off or has a definition.
LEMMA ConfiguredDefinition ==
    ASSUME AroundTyped, NEW rule \in RuleIds, config[rule] # Off
    PROVE  config[rule] \in Definitions
<1>1. PICK c \in Configs : c = config
  BY DEF AroundTyped
<1>2. c[rule] \in {c[id] : id \in RuleIds}
  OBVIOUS
<1>3. {c[id] : id \in RuleIds} \in {{cfg[id] : id \in RuleIds} : cfg \in Configs}
  OBVIOUS
<1>4. c[rule] \in UNION {{cfg[id] : id \in RuleIds} : cfg \in Configs}
  BY <1>2, <1>3, Zenon
<1>5. c[rule] # Off
  BY <1>1
<1>6. c[rule] \in Definitions
  BY <1>4, <1>5, Zenon DEF Definitions
<1> QED
  BY <1>1, <1>6

-----------------------------------------------------------------------------
(* A match observed by some rules in force.                                *)

LEMMA ObserveHit ==
    ASSUME NEW name, NEW from, Observe(name, from), NEW id \in DOMAIN from, <<id, name>> \in Keys,
           NEW k, k = <<id, name>>,
           NEW v, v = IF windows[k] = None THEN NewWindow(from[id].def) ELSE windows[k]
    PROVE  /\ windows'[k] = Observed(v, from[id].def, now)
           /\ feeds'[k] = feeds[k] \union {from[id]}
           /\ \E raised \in BOOLEAN :
                /\ raised <=> Fires(v, from[id].def, now)
                /\ matches'[k] = Append(matches[k], [at |-> now, alerted |-> raised])
<1> DEFINE hits == {<<i, name>> : i \in DOMAIN from}
           win(i) == IF windows[<<i, name>>] = None THEN NewWindow(from[i].def) ELSE windows[<<i, name>>]
           fires == {j \in hits : Fires(win(j[1]), from[j[1]].def, now)}
<1>1. k \in hits /\ k[1] = id /\ win(k[1]) = v
  OBVIOUS
<1>2. /\ windows'[k] = Observed(v, from[id].def, now)
      /\ feeds'[k] = feeds[k] \union {from[id]}
      /\ matches'[k] = Append(matches[k], [at |-> now, alerted |-> k \in fires])
  BY DEF Observe
<1>3. k \in fires <=> Fires(v, from[id].def, now)
  BY <1>1
<1>4. (k \in fires) \in BOOLEAN
  OBVIOUS
<1> HIDE DEF fires
<1> QED
  BY <1>2, <1>3, <1>4
LEMMA ObserveMiss ==
    ASSUME NEW name, NEW from, Observe(name, from), NEW k \in Keys,
           ~(k[1] \in DOMAIN from /\ k = <<k[1], name>>)
    PROVE  windows'[k] = windows[k] /\ feeds'[k] = feeds[k] /\ matches'[k] = matches[k]
BY DEF Observe

\* The matches are of rules in force, each of its own generation.
InForce(from) ==
    DOMAIN from \subseteq RuleIds /\ \A id \in DOMAIN from : Active(id) /\ from[id] = RuleOf(id)

LEMMA ObserveSound ==
    ASSUME RulesInv, loop # "finished", NEW name \in Names, NEW from, InForce(from),
           Observe(name, from), UNCHANGED <<now, subs, eventRules, loop>>
    PROVE  KeysSound'
<1> SUFFICES ASSUME NEW k \in Keys PROVE KeySound(k)'
  BY DEF KeysSound
<1>1. k = <<k[1], k[2]>> /\ k[1] \in RuleIds
  BY DEF Keys
<1>2. KeySound(k)
  BY DEF RulesInv, KeysSound
<1>3. RuleOf(k[1])' = RuleOf(k[1]) /\ (Active(k[1])' <=> Active(k[1])) /\ now' = now
  BY DEF RuleOf, Active
<1>4. CASE k[1] \in DOMAIN from /\ k = <<k[1], name>>
  <2>1. PICK r : r = RuleOf(k[1])
    OBVIOUS
  <2>2. from[k[1]] = r /\ Active(k[1])
    BY <1>4, <2>1 DEF InForce
  <2>3. r.def \in Definitions
    BY <1>1, <2>1, <2>2, ActiveDefinition DEF RulesInv, Typed
  <2>4. PICK v : v = IF windows[k] = None THEN NewWindow(r.def) ELSE windows[k]
    OBVIOUS
  <2>5. /\ windows'[k] = Observed(v, r.def, now) /\ feeds'[k] = feeds[k] \union {r}
        /\ \E raised \in BOOLEAN :
             /\ raised <=> Fires(v, r.def, now)
             /\ matches'[k] = Append(matches[k], [at |-> now, alerted |-> raised])
    <3>1. PICK id : id = k[1]
      OBVIOUS
    <3>2. id \in DOMAIN from /\ <<id, name>> \in Keys /\ k = <<id, name>> /\ from[id] = r
      BY <1>4, <2>2, <3>1
    <3>3. v = IF windows[k] = None THEN NewWindow(from[id].def) ELSE windows[k]
      BY <2>4, <3>2
    <3>4. /\ windows'[k] = Observed(v, from[id].def, now)
          /\ feeds'[k] = feeds[k] \union {from[id]}
          /\ \E raised \in BOOLEAN :
               /\ raised <=> Fires(v, from[id].def, now)
               /\ matches'[k] = Append(matches[k], [at |-> now, alerted |-> raised])
      BY SMTT(30), <3>2, <3>3, ObserveHit
    <3> QED
      BY <3>2, <3>4
  <2>6. KeyAt(windows[k], feeds[k], matches[k], r, now)
    BY <1>2, <2>1 DEF KeySound
  <2>7. now \in 1 .. MaxTime
    BY DEF RulesInv, Typed, ClockTyped
  <2> PICK raised \in BOOLEAN :
        /\ raised <=> Fires(v, r.def, now)
        /\ matches'[k] = Append(matches[k], [at |-> now, alerted |-> raised])
    BY <2>5
  <2>8. KeyAt(Observed(v, r.def, now), feeds[k] \cup {r},
              Append(matches[k], [at |-> now, alerted |-> raised]), r, now)
    BY <2>3, <2>4, <2>6, <2>7, DefinitionFits, Sizes, ObservedKey
  <2>9. KeyAt(windows'[k], feeds'[k], matches'[k], RuleOf(k[1])', now')
    BY <1>3, <2>1, <2>5, <2>8
  <2> QED
    BY <1>3, <2>2, <2>9 DEF KeySound
<1>5. CASE ~(k[1] \in DOMAIN from /\ k = <<k[1], name>>)
  <2>1. windows'[k] = windows[k] /\ feeds'[k] = feeds[k] /\ matches'[k] = matches[k]
    BY <1>5, ObserveMiss
  <2> QED
    BY <1>2, <1>3, <2>1 DEF KeySound
<1> QED
  BY <1>4, <1>5

\* As many alerts as there are rules at most: the queue's length stays a number.
LEMMA ObserveDispatch ==
    ASSUME DispatchTyped, NEW name, NEW from, DOMAIN from \subseteq RuleIds, Observe(name, from)
    PROVE  dispatched' \in 0 .. DispatchBuffer /\ dispatcher' = dispatcher
<1>1. PICK fires : /\ fires \subseteq {<<id, name>> : id \in DOMAIN from}
                   /\ dispatched' = IF dispatched + Cardinality(fires) <= DispatchBuffer
                                      THEN dispatched + Cardinality(fires) ELSE DispatchBuffer
  BY Zenon DEF Observe
<1>2. IsFiniteSet(DOMAIN from)
  BY EngineAssumption, FS_Subset
<1>3. IsFiniteSet({<<id, name>> : id \in DOMAIN from})
  <2> DEFINE key == [id \in DOMAIN from |-> <<id, name>>]
             keys == {<<id, name>> : id \in DOMAIN from}
  <2>1. key \in [DOMAIN from -> keys] /\ \A k \in keys : \E id \in DOMAIN from : key[id] = k
    OBVIOUS
  <2>2. key \in Surjection(DOMAIN from, keys)
    BY <2>1, Fun_IsSurj
  <2> QED
    BY <1>2, <2>2, FS_Surjection
<1>4. Cardinality(fires) \in Nat
  BY <1>1, <1>3, FS_Subset, FS_CardinalityType
<1>5. dispatcher' = dispatcher
  BY DEF Observe
<1> QED
  BY <1>1, <1>4, <1>5, Sizes DEF DispatchTyped

-----------------------------------------------------------------------------
(* reconcile.                                                              *)

LEMMA NewRulesCounted == Cardinality(NewLogRules) \in Nat
<1>1. NewLogRules \subseteq RuleIds
  BY DEF NewLogRules
<1> QED
  BY <1>1, EngineAssumption, FS_Subset, FS_CardinalityType

\* What reconcile makes of each rule: nothing happens to one that is not stale.
LEMMA ReconcileRulesTyped ==
    ASSUME RulesTyped, AroundTyped, GenerationsTell, ReconcileRules
    PROVE  /\ RulesTyped' /\ gen <= gen'
           /\ \A id \in RuleIds : subs'[id] # None =>
                /\ eventRules'[id] = Off /\ subs'[id].gen <= gen'
                /\ subs'[id] = subs[id] \/ subs'[id].gen > gen
           /\ \A id \in RuleIds : id \notin Stale /\ Active(id) =>
                subs'[id] = subs[id] /\ eventRules'[id] = eventRules[id]
<1>1. PICK g \in [NewLogRules -> gen + 1 .. gen + Cardinality(NewLogRules)] :
      subs' = [id \in RuleIds |-> IF id \in NewLogRules THEN [def |-> config[id], gen |-> g[id]]
                                  ELSE IF Kept(id) THEN subs[id] ELSE None]
  BY Zenon DEF ReconcileRules
<1>2. gen' = gen + Cardinality(NewLogRules) /\ eventRules' = NewEventRules
  BY DEF ReconcileRules
<1>3. gen \in Nat /\ Cardinality(NewLogRules) \in Nat
  BY NewRulesCounted DEF RulesTyped
<1>4. gen' \in Nat /\ gen <= gen'
  BY <1>2, <1>3
<1>5. ASSUME NEW id \in RuleIds
      PROVE  /\ eventRules'[id] = IF config[id] # Off /\ ~LogRule(id) THEN config[id] ELSE Off
             /\ eventRules'[id] \in Definitions \union {Off}
  <2>1. eventRules'[id] = IF config[id] # Off /\ ~LogRule(id) THEN config[id] ELSE Off
    BY <1>2 DEF NewEventRules
  <2> QED
    BY <2>1, ConfiguredDefinition
<1>6. ASSUME NEW id \in RuleIds, id \in NewLogRules
      PROVE  /\ subs'[id] = [def |-> config[id], gen |-> g[id]] /\ LogRule(id) /\ ~Kept(id)
             /\ subs'[id] \in [def : Definitions, gen : Nat]
             /\ subs'[id].gen > gen /\ subs'[id].gen <= gen'
  <2>1. LogRule(id) /\ ~Kept(id) /\ config[id] # Off
    BY <1>6 DEF NewLogRules, LogRule
  <2>2. config[id] \in Definitions
    BY <2>1, ConfiguredDefinition
  <2>3. g[id] \in Nat /\ g[id] > gen /\ g[id] <= gen'
    BY <1>2, <1>3, <1>6
  <2>4. subs'[id] = [def |-> config[id], gen |-> g[id]]
    BY <1>1, <1>6
  <2> QED
    BY <2>1, <2>2, <2>3, <2>4
<1>7. ASSUME NEW id \in RuleIds, id \notin NewLogRules
      PROVE  subs'[id] = IF Kept(id) THEN subs[id] ELSE None
  BY <1>1, <1>7
<1>8. ASSUME NEW id \in RuleIds PROVE subs'[id] \in [def : Definitions, gen : Nat] \union {None}
  <2>1. CASE id \in NewLogRules
    BY <1>6, <2>1
  <2>2. CASE id \notin NewLogRules
    BY <1>7, <2>2 DEF RulesTyped
  <2> QED
    BY <2>1, <2>2
<1>9. RulesTyped'
  <2>1. subs' \in [RuleIds -> [def : Definitions, gen : Nat] \union {None}]
    <3>1. PICK T : T = [def : Definitions, gen : Nat] \union {None}
      OBVIOUS
    <3>2. \A id \in RuleIds : subs'[id] \in T
      BY <1>8, <3>1
    <3>3. subs' = [id \in RuleIds |-> subs'[id]]
      BY <1>1
    <3>4. subs' \in [RuleIds -> T]
      BY <3>2, <3>3
    <3> QED
      BY <3>1, <3>4
  <2>2. eventRules' \in [RuleIds -> Definitions \union {Off}]
    <3>1. eventRules' = [id \in RuleIds |-> eventRules'[id]]
      BY <1>2 DEF NewEventRules
    <3> QED
      BY <1>5, <3>1
  <2> QED
    BY <1>4, <2>1, <2>2 DEF RulesTyped
<1>10. ASSUME NEW id \in RuleIds, subs'[id] # None
       PROVE  /\ eventRules'[id] = Off /\ LogRule(id)
              /\ subs'[id] = subs[id] \/ (subs'[id].gen > gen /\ subs'[id].gen <= gen')
  <2>1. CASE id \in NewLogRules
    BY <1>5, <1>6, <2>1
  <2>2. CASE id \notin NewLogRules
    <3>1. Kept(id) /\ subs'[id] = subs[id]
      BY <1>7, <1>10, <2>2
    <3> QED
      BY <1>5, <3>1 DEF Kept
  <2> QED
    BY <2>1, <2>2
<1>11. ASSUME NEW id \in RuleIds, id \notin Stale, Active(id)
       PROVE  subs'[id] = subs[id] /\ eventRules'[id] = eventRules[id]
  <2>1. (subs[id] # None => Kept(id)) /\ NewEventRules[id] = eventRules[id]
    BY <1>11 DEF Stale
  <2>2. eventRules'[id] = eventRules[id]
    BY <1>2, <2>1
  <2>3. CASE subs[id] # None
    <3>1. Kept(id) /\ id \notin NewLogRules
      BY <2>1, <2>3 DEF NewLogRules
    <3> QED
      BY <1>7, <2>2, <3>1
  <2>4. CASE subs[id] = None
    <3>1. eventRules[id] # Off
      BY <1>11, <2>4 DEF Active
    <3>2. ~LogRule(id)
      BY <1>5, <2>2, <3>1
    <3>3. id \notin NewLogRules /\ ~Kept(id)
      BY <3>2 DEF NewLogRules, Kept
    <3> QED
      BY <1>7, <2>2, <2>4, <3>3
  <2> QED
    BY <2>3, <2>4
<1>12. \A id \in RuleIds : subs'[id] # None => subs'[id].gen <= gen'
  <2> SUFFICES ASSUME NEW id \in RuleIds, subs'[id] # None PROVE subs'[id].gen <= gen'
    OBVIOUS
  <2>1. CASE subs'[id] = subs[id]
    <3>1. subs[id].gen <= gen /\ subs[id].gen \in Nat
      BY <2>1 DEF GenerationsTell, RulesTyped
    <3> QED
      BY <1>3, <1>4, <2>1, <3>1
  <2> QED
    BY <1>10, <2>1
<1> QED
  BY <1>4, <1>9, <1>10, <1>11, <1>12

LEMMA ReconcileKeys ==
    ASSUME RulesInv, ReconcileRules, UNCHANGED now, loop # "finished"
    PROVE  KeysSound'
<1> SUFFICES ASSUME NEW k \in Keys PROVE KeySound(k)'
  BY DEF KeysSound
<1>1. KeySound(k) /\ k[1] \in RuleIds
  BY DEF RulesInv, KeysSound, Keys
<1>2. Forget(Stale)
  BY DEF ReconcileRules
<1>3. k[1] \in Stale => windows'[k] = None /\ feeds'[k] = {} /\ matches'[k] = << >>
  BY <1>2, Zenon DEF Forget
<1>4. k[1] \notin Stale => windows'[k] = windows[k] /\ feeds'[k] = feeds[k] /\ matches'[k] = matches[k]
  BY <1>2 DEF Forget
<1>5. k[1] \notin Stale /\ Active(k[1]) =>
         subs'[k[1]] = subs[k[1]] /\ eventRules'[k[1]] = eventRules[k[1]]
  BY <1>1, ReconcileRulesTyped DEF RulesInv, Typed
<1>6. CASE k[1] \notin Stale /\ Active(k[1])
  <2>1. RuleOf(k[1])' = RuleOf(k[1]) /\ Active(k[1])' /\ now' = now
    BY <1>5, <1>6 DEF RuleOf, Active
  <2> QED
    BY <1>1, <1>4, <1>6, <2>1 DEF KeySound
<1>7. CASE k[1] \in Stale \/ ~Active(k[1])
  <2>1. windows'[k] = None /\ feeds'[k] = {} /\ matches'[k] = << >>
    BY <1>1, <1>3, <1>4, <1>7 DEF KeySound
  <2>2. KeyAt(None, {}, << >>, RuleOf(k[1])', now')
    BY EmptyKey
  <2> QED
    BY <2>1, <2>2 DEF KeySound
<1> QED
  BY <1>6, <1>7

\* A match still on its way is of an older generation than any new one.
LEMMA ReconcileGenerations ==
    ASSUME RulesInv, ReconcileRules, fired' = fired
    PROVE  GenerationsTell'
<1>1. RulesTyped /\ AroundTyped /\ GenerationsTell /\ fired \in Seq(Match)
  BY DEF RulesInv, Typed, ChannelsTyped
<1>2. gen <= gen' /\ RulesTyped'
      /\ \A id \in RuleIds : subs'[id] # None =>
           /\ eventRules'[id] = Off /\ subs'[id].gen <= gen'
           /\ subs'[id] = subs[id] \/ subs'[id].gen > gen
  BY <1>1, ReconcileRulesTyped
<1>3. gen \in Nat /\ gen' \in Nat
  BY <1>1, <1>2 DEF RulesTyped
<1>4. ASSUME NEW i \in 1 .. Len(fired)
      PROVE  /\ fired[i].gen <= gen'
             /\ Current(fired[i])' => fired[i].def = subs'[fired[i].id].def
  <2>1. fired[i].id \in RuleIds /\ fired[i].gen \in Nat
    <3>1. fired[i] \in Match
      BY <1>1, ElementOfSeq
    <3> QED
      BY <3>1 DEF Match
  <2>2. fired[i].gen <= gen /\ (Current(fired[i]) => fired[i].def = subs[fired[i].id].def)
    BY <1>1 DEF GenerationsTell
  <2>3. ASSUME Current(fired[i])' PROVE fired[i].def = subs'[fired[i].id].def
    <3>1. subs'[fired[i].id] # None /\ subs'[fired[i].id].gen = fired[i].gen
      BY <2>3 DEF Current
    <3>2. subs'[fired[i].id] = subs[fired[i].id]
      BY <1>2, <1>3, <2>1, <2>2, <3>1
    <3> QED
      BY <2>2, <3>1, <3>2 DEF Current
  <2> QED
    BY <1>2, <1>3, <2>1, <2>2, <2>3
<1> QED
  BY <1>2, <1>4 DEF GenerationsTell

-----------------------------------------------------------------------------
(* The keys under the other steps.                                         *)

LEMMA PruneKeys ==
    ASSUME RulesInv, Prune, UNCHANGED <<now, rules, loop>>
    PROVE  KeysSound'
<1> SUFFICES ASSUME loop # "finished", NEW k \in Keys PROVE KeySound(k)'
  BY DEF KeysSound
<1>1. KeySound(k) /\ k[1] \in RuleIds
  BY DEF RulesInv, KeysSound, Keys
<1>2. RuleOf(k[1])' = RuleOf(k[1]) /\ (Active(k[1])' <=> Active(k[1])) /\ now' = now
  BY DEF RuleOf, Active, rules
<1>3. matches' = matches
  BY DEF Prune
<1>4. CASE windows[k] # None /\ Idle(windows[k])
  <2>1. windows'[k] = None /\ feeds'[k] = {}
    BY <1>4 DEF Prune
  <2>2. PICK r : r = RuleOf(k[1])
    OBVIOUS
  <2>3. Active(k[1])
    BY <1>1, <1>4 DEF KeySound
  <2>5. KeyAt(windows[k], feeds[k], matches[k], r, now) /\ now - windows[k].lastSeen > IdleTTL
    BY <1>1, <1>4, <2>2 DEF KeySound, Idle
  <2>6. now \in Nat
    BY Sizes DEF RulesInv, Typed, ClockTyped
  <2>7. KeyAt(None, {}, matches[k], r, now)
    BY <1>4, <2>5, <2>6, Sizes, PrunedKey
  <2> QED
    BY <1>2, <1>3, <2>1, <2>2, <2>3, <2>7 DEF KeySound
<1>5. CASE ~(windows[k] # None /\ Idle(windows[k]))
  <2>1. windows'[k] = windows[k] /\ feeds'[k] = feeds[k]
    BY <1>5 DEF Prune
  <2> QED
    BY <1>1, <1>2, <1>3, <2>1 DEF KeySound
<1> QED
  BY <1>4, <1>5

\* Nothing happens to the keys, or time passes, or the engine ends.
LEMMA QuietKeys ==
    ASSUME RulesInv, UNCHANGED <<windows, feeds, matches>>,
           \/ loop' = "finished"
           \/ now' \in {now, now + 1} /\ UNCHANGED <<subs, eventRules, loop>>
    PROVE  KeysSound'
<1> SUFFICES ASSUME loop' # "finished", NEW k \in Keys PROVE KeySound(k)'
  BY DEF KeysSound
<1>1. KeySound(k) /\ k[1] \in RuleIds
  BY DEF RulesInv, KeysSound, Keys
<1>2. RuleOf(k[1])' = RuleOf(k[1]) /\ (Active(k[1])' <=> Active(k[1]))
  BY DEF RuleOf, Active
<1>3. now \in Nat
  BY Sizes DEF RulesInv, Typed, ClockTyped
<1>4. PICK r : r = RuleOf(k[1])
  OBVIOUS
<1>5. KeyAt(windows[k], feeds[k], matches[k], r, now)
  BY <1>1, <1>4 DEF KeySound
<1>6. KeyAt(windows[k], feeds[k], matches[k], r, now')
  <2>1. CASE now' = now
    BY <1>5, <2>1
  <2>2. CASE now' = now + 1
    <3>1. CASE Active(k[1])
      <4>1. r.def.cooldown \in Nat
        BY <1>1, <1>4, <3>1, ActiveDefinition, DefinitionFits DEF RulesInv, Typed
      <4> QED
        BY <1>3, <1>5, <2>2, <4>1, Sizes, LaterKey
    <3>2. CASE ~Active(k[1])
      <4>1. windows[k] = None /\ feeds[k] = {} /\ matches[k] = << >>
        BY <1>1, <3>2 DEF KeySound
      <4> QED
        BY <4>1, EmptyKey
    <3> QED
      BY <3>1, <3>2
  <2> QED
    BY <2>1, <2>2
<1> QED
  BY <1>1, <1>2, <1>4, <1>6 DEF KeySound

\* Every window is of some definition: those in force as the keys say.
LEMMA WindowsFollow ==
    ASSUME loop' # "finished", KeysSound', RulesTyped'
    PROVE  WindowsTyped'
<1> SUFFICES ASSUME NEW k \in Keys, windows'[k] # None
             PROVE  \E def \in Definitions : windows'[k] \in WindowOf(def)
  BY DEF WindowsTyped
<1>1. KeySound(k)' /\ k[1] \in RuleIds
  BY DEF KeysSound, Keys
<1>2. PICK r : r = RuleOf(k[1])'
  OBVIOUS
<1>3. windows'[k] \in WindowOf(r.def) /\ Active(k[1])'
  BY <1>1, <1>2 DEF KeySound, KeyAt, FitsAt
<1>4. r.def \in Definitions
  <2>1. CASE subs'[k[1]] # None
    <3>1. subs'[k[1]] \in [def : Definitions, gen : Nat]
      BY <1>1, <2>1 DEF RulesTyped
    <3> QED
      BY <1>2, <2>1, <3>1 DEF RuleOf
  <2>2. CASE subs'[k[1]] = None
    BY <1>1, <1>2, <1>3, <2>2 DEF RulesTyped, RuleOf, Active
  <2> QED
    BY <2>1, <2>2
<1> QED
  BY <1>3, <1>4

\* Matches leave the channel in turn, or all at once, and enter it as the sink's
\* subscription says.
LEMMA GenerationsStay ==
    ASSUME RulesTyped, GenerationsTell, fired \in Seq(Match), UNCHANGED <<subs, gen, eventRules>>,
           \/ fired' = fired
           \/ fired' = << >>
           \/ fired # << >> /\ fired' = Tail(fired)
           \/ \E id \in RuleIds, name \in Names :
                subs[id] # None /\
                fired' = Append(fired, [id |-> id, def |-> subs[id].def, gen |-> subs[id].gen, name |-> name])
    PROVE  GenerationsTell'
<1> SUFFICES ASSUME NEW i \in 1 .. Len(fired')
             PROVE  /\ fired'[i].gen <= gen
                    /\ Current(fired'[i]) => fired'[i].def = subs[fired'[i].id].def
  BY DEF GenerationsTell, Current
<1>1. \A j \in 1 .. Len(fired) :
        /\ fired[j].gen <= gen
        /\ Current(fired[j]) => fired[j].def = subs[fired[j].id].def
  BY DEF GenerationsTell
<1>2. Len(fired) \in Nat
  BY LenProperties
<1>3. CASE fired' = fired
  BY <1>1, <1>3
<1>4. CASE fired' = << >>
  BY <1>4
<1>5. CASE fired # << >> /\ fired' = Tail(fired)
  <2>1. Len(fired') = Len(fired) - 1 /\ \A j \in 1 .. Len(fired') : fired'[j] = fired[j + 1]
    BY <1>5, HeadTailProperties
  <2>2. fired'[i] = fired[i + 1] /\ i + 1 \in 1 .. Len(fired)
    BY <1>2, <2>1
  <2> QED
    BY <1>1, <2>2
<1>6. ASSUME NEW id \in RuleIds, NEW name \in Names, subs[id] # None,
             fired' = Append(fired, [id |-> id, def |-> subs[id].def, gen |-> subs[id].gen, name |-> name])
      PROVE  /\ fired'[i].gen <= gen
             /\ Current(fired'[i]) => fired'[i].def = subs[fired'[i].id].def
  <2>1. PICK m : m = [id |-> id, def |-> subs[id].def, gen |-> subs[id].gen, name |-> name]
    OBVIOUS
  <2>2. subs[id] \in [def : Definitions, gen : Nat] /\ subs[id].gen <= gen
    BY <1>6 DEF RulesTyped, GenerationsTell
  <2>3. m \in Match /\ m.gen <= gen /\ m.id = id /\ m.def = subs[id].def
    BY <2>1, <2>2 DEF Match
  <2>4. /\ Len(fired') = Len(fired) + 1 /\ fired'[Len(fired) + 1] = m
        /\ \A j \in 1 .. Len(fired) : fired'[j] = fired[j]
    BY <1>6, <2>1, <2>3, AppendProperties
  <2>5. CASE i \in 1 .. Len(fired)
    BY <1>1, <2>4, <2>5
  <2>6. CASE i = Len(fired) + 1
    BY <2>3, <2>4, <2>6
  <2> QED
    BY <1>2, <2>4, <2>5, <2>6
<1> QED
  BY <1>3, <1>4, <1>5, <1>6

\* A match that is current is of the rule in force.
LEMMA MatchObserved ==
    ASSUME RulesInv, HandleMatch
    PROVE  KeysSound' /\ DispatchTyped' /\ fired # << >> /\ fired' = Tail(fired)
<1>1. /\ loop = "running" /\ fired # << >> /\ fired' = Tail(fired)
      /\ UNCHANGED <<now, subs, gen, eventRules, loop>>
  BY Zenon DEF HandleMatch, around, rules
<1>2. PICK m : m = Head(fired)
  OBVIOUS
<1>3. IF Current(m)
        THEN Observe(m.name, [id \in {m.id} |-> [def |-> m.def, gen |-> m.gen]])
        ELSE UNCHANGED <<windows, feeds, matches, dispatch>>
  BY <1>2, Zenon DEF HandleMatch
<1>4. RulesTyped /\ GenerationsTell /\ DispatchTyped /\ fired \in Seq(Match)
  BY DEF RulesInv, Typed, ChannelsTyped
<1>5. m \in Match /\ Len(fired) \in Nat /\ 1 \in 1 .. Len(fired) /\ m = fired[1]
  BY <1>1, <1>2, <1>4, LenProperties, EmptySeq, HeadTailProperties
<1>6. m.id \in RuleIds /\ m.name \in Names /\ (Current(m) => m.def = subs[m.id].def)
  BY <1>4, <1>5 DEF Match, GenerationsTell
<1>7. CASE Current(m)
  <2>1. PICK name, from : name = m.name /\ from = [id \in {m.id} |-> [def |-> m.def, gen |-> m.gen]]
    OBVIOUS
  <2>2. Observe(name, from) /\ name \in Names
    BY <1>3, <1>6, <1>7, <2>1
  <2>3. subs[m.id] # None /\ subs[m.id] \in [def : Definitions, gen : Nat] /\ subs[m.id].gen = m.gen
    BY <1>4, <1>6, <1>7 DEF Current, RulesTyped
  <2>4. subs[m.id] = [def |-> m.def, gen |-> m.gen]
    BY <1>6, <1>7, <2>3
  <2>5. InForce(from) /\ DOMAIN from \subseteq RuleIds
    BY <1>6, <2>1, <2>3, <2>4 DEF InForce, Active, RuleOf
  <2>6. KeysSound'
    BY <1>1, <2>2, <2>5, ObserveSound
  <2>7. DispatchTyped'
    BY <1>1, <1>4, <2>2, <2>5, ObserveDispatch DEF DispatchTyped
  <2> QED
    BY <1>1, <2>6, <2>7
<1>8. CASE ~Current(m)
  <2>1. UNCHANGED <<windows, feeds, matches, dispatched, dispatcher>>
    BY <1>3, <1>8 DEF dispatch
  <2>2. now' = now \/ now' = now + 1
    BY <1>1
  <2>3. KeysSound'
    BY <1>1, <2>1, <2>2, QuietKeys
  <2>4. DispatchTyped'
    BY <1>1, <1>4, <2>1 DEF DispatchTyped
  <2> QED
    BY <1>1, <2>3, <2>4
<1> QED
  BY <1>7, <1>8

\* The event rules that watch an event are in force; they have no subscription.
LEMMA RecordSound ==
    ASSUME RulesInv, loop = "running", NEW ev \in Event, NEW kind, RecordEventMatch(ev, kind),
           UNCHANGED <<now, subs, eventRules, loop>>
    PROVE  KeysSound' /\ DispatchTyped' /\ lastOOM' \in [Containers -> 0 .. now']
<1>1. PICK from : /\ Observe(NameOf[ev.of], from)
                  /\ DOMAIN from \subseteq RuleIds
                  /\ \A id \in DOMAIN from :
                       eventRules[id] # Off /\ from[id] = [def |-> eventRules[id], gen |-> 0]
  <2> DEFINE matched == {id \in RuleIds : /\ Watches(id, kind, NameOf[ev.of])
                                          /\ ~(kind = "die" /\ WatchesBoth(id) /\ JustKilled(ev.of))}
             f == [id \in matched |-> [def |-> eventRules[id], gen |-> 0]]
  <2>1. Observe(NameOf[ev.of], f)
    BY Zenon DEF RecordEventMatch
  <2>2. DOMAIN f = matched /\ \A id \in matched : eventRules[id] # Off
    BY DEF Watches
  <2>3. matched \subseteq RuleIds /\ \A id \in matched : f[id] = [def |-> eventRules[id], gen |-> 0]
    OBVIOUS
  <2> HIDE DEF matched, f
  <2> QED
    BY <2>1, <2>2, <2>3
<1>2. PICK name : name = NameOf[ev.of]
  OBVIOUS
<1>3. name \in Names /\ ev.of \in Containers
  BY <1>2, EngineAssumption DEF Event
<1>4. InForce(from)
  BY <1>1 DEF InForce, Active, RuleOf, RulesInv, GenerationsTell
<1>5. KeysSound'
  BY <1>1, <1>2, <1>3, <1>4, ObserveSound
<1>6. DispatchTyped'
  BY <1>1, <1>2, ObserveDispatch DEF RulesInv, Typed, DispatchTyped
<1>7. lastOOM' = IF kind = "oom" THEN [lastOOM EXCEPT ![ev.of] = now] ELSE lastOOM
  BY Zenon DEF RecordEventMatch
<1>8. lastOOM \in [Containers -> 0 .. now] /\ now \in 0 .. now
  BY Sizes DEF RulesInv, Typed, ClockTyped
<1> QED
  BY <1>3, <1>5, <1>6, <1>7, <1>8

-----------------------------------------------------------------------------
(* One lemma per group of steps.                                           *)

LEMMA QueueTail ==
    ASSUME NEW S, NEW q \in Seq(S), q # << >>
    PROVE  /\ Head(q) \in S /\ Head(q) = q[1] /\ Tail(q) \in Seq(S) /\ Len(Tail(q)) = Len(q) - 1
           /\ Len(q) \in Nat \ {0} /\ \A i \in 1 .. Len(Tail(q)) : Tail(q)[i] = q[i + 1]
BY HeadTailProperties, LenProperties, EmptySeq
LEMMA OneOrTwoQueued ==
    ASSUME NEW S, NEW a \in S, NEW b \in S
    PROVE  <<a>> \in Seq(S) /\ <<a, b>> \in Seq(S)
OBVIOUS
LEMMA NothingQueued == \A S : << >> \in Seq(S) /\ Len(<< >>) = 0
OBVIOUS

LEMMA InitSound == Init => RulesInv
<1> SUFFICES ASSUME Init PROVE RulesInv
  OBVIOUS
<1>1. ClockTyped
  BY Sizes DEF Init, ClockTyped
<1>2. AroundTyped
  BY EngineAssumption DEF Init, AroundTyped
<1>3. RulesTyped
  BY DEF Init, RulesTyped
<1>4. ChannelsTyped
  BY NothingQueued, Sizes DEF Init, ChannelsTyped
<1>5. InspectsTyped
  BY DEF Init, InspectsTyped
<1>6. DispatchTyped
  BY Sizes DEF Init, DispatchTyped
<1>7. WindowsTyped
  BY DEF Init, WindowsTyped
<1>8. GenerationsTell
  BY NothingQueued DEF Init, GenerationsTell
<1>9. KeysSound
  <2> SUFFICES ASSUME NEW k \in Keys PROVE KeySound(k)
    BY DEF KeysSound
  <2>1. windows[k] = None /\ feeds[k] = {} /\ matches[k] = << >>
    BY DEF Init
  <2> QED
    BY <2>1, EmptyKey DEF KeySound
<1> QED
  BY <1>1, <1>2, <1>3, <1>4, <1>5, <1>6, <1>7, <1>8, <1>9 DEF RulesInv, Typed

LEMMA ReconcileSound == RulesInv /\ (Begin \/ HandlePoke) => RulesInv'
<1> SUFFICES ASSUME RulesInv, Begin \/ HandlePoke PROVE RulesInv'
  OBVIOUS
<1>1. /\ loop \in {"starting", "running"} /\ loop' = "running" /\ stream' = source
      /\ events' \in {events, << >>} /\ poke' \in {poke, FALSE} /\ ReconcileRules
      /\ UNCHANGED <<now, config, source, unpoked, cancelled, fired, inspecting, inspected,
                     dispatched, dispatcher, lines, number>>
  <2>1. CASE Begin
    BY <2>1, Zenon DEF Begin, around, dispatch, bounds
  <2>2. CASE HandlePoke
    BY <2>2, Zenon DEF HandlePoke, CheckEventClient, around, dispatch, bounds
  <2> QED
    BY <2>1, <2>2
<1>2. /\ ClockTyped /\ AroundTyped /\ RulesTyped /\ ChannelsTyped /\ InspectsTyped
      /\ DispatchTyped /\ GenerationsTell
  BY DEF RulesInv, Typed
<1>3. lastOOM' = lastOOM
  BY <1>1, Zenon DEF ReconcileRules
<1>4. ClockTyped'
  BY <1>1, <1>2, <1>3 DEF ClockTyped
<1>5. AroundTyped'
  BY <1>1, <1>2 DEF AroundTyped
<1>6. RulesTyped'
  BY <1>1, <1>2, ReconcileRulesTyped
<1>7. ChannelsTyped'
  BY <1>1, <1>2, NothingQueued DEF ChannelsTyped
<1>8. InspectsTyped'
  BY <1>1, <1>2 DEF InspectsTyped
<1>9. DispatchTyped'
  BY <1>1, <1>2 DEF DispatchTyped
<1>10. GenerationsTell'
  BY <1>1, ReconcileGenerations
<1>11. KeysSound'
  BY <1>1, ReconcileKeys
<1>12. WindowsTyped'
  BY <1>1, <1>6, <1>11, WindowsFollow
<1> QED
  BY <1>4, <1>5, <1>6, <1>7, <1>8, <1>9, <1>10, <1>11, <1>12 DEF RulesInv, Typed

LEMMA TickSound == RulesInv /\ HandleTick => RulesInv'
<1> SUFFICES ASSUME RulesInv, HandleTick PROVE RulesInv'
  OBVIOUS
<1>1. /\ loop = "running" /\ Prune /\ stream' = source /\ events' \in {events, << >>}
      /\ UNCHANGED <<now, config, source, unpoked, cancelled, loop, poke, subs, gen, eventRules,
                     fired, inspecting, inspected, dispatched, dispatcher, lines, number>>
  BY Zenon DEF HandleTick, CheckEventClient, around, rules, dispatch, bounds
<1>2. /\ ClockTyped /\ AroundTyped /\ RulesTyped /\ ChannelsTyped /\ InspectsTyped
      /\ DispatchTyped /\ GenerationsTell
  BY DEF RulesInv, Typed
<1>3. ClockTyped'
  BY <1>1, <1>2, Sizes DEF ClockTyped, Prune
<1>4. AroundTyped'
  BY <1>1, <1>2 DEF AroundTyped
<1>5. RulesTyped'
  BY <1>1, <1>2 DEF RulesTyped
<1>6. ChannelsTyped'
  BY <1>1, <1>2, NothingQueued DEF ChannelsTyped
<1>7. InspectsTyped'
  BY <1>1, <1>2 DEF InspectsTyped
<1>8. DispatchTyped'
  BY <1>1, <1>2 DEF DispatchTyped
<1>9. GenerationsTell'
  BY <1>1, <1>2, GenerationsStay DEF ChannelsTyped
<1>10. KeysSound'
  BY <1>1, PruneKeys DEF rules
<1>11. WindowsTyped'
  BY <1>1, <1>5, <1>10, WindowsFollow
<1> QED
  BY <1>3, <1>4, <1>5, <1>6, <1>7, <1>8, <1>9, <1>10, <1>11 DEF RulesInv, Typed

LEMMA MatchSound == RulesInv /\ HandleMatch => RulesInv'
<1> SUFFICES ASSUME RulesInv, HandleMatch PROVE RulesInv'
  OBVIOUS
<1>1. /\ loop = "running"
      /\ UNCHANGED <<now, config, source, unpoked, cancelled, events, loop, poke, stream, subs, gen,
                     eventRules, lastOOM, inspecting, inspected, lines, number>>
  BY Zenon DEF HandleMatch, around, rules, bounds
<1>2. KeysSound' /\ DispatchTyped' /\ fired # << >> /\ fired' = Tail(fired)
  BY MatchObserved
<1>3. /\ ClockTyped /\ AroundTyped /\ RulesTyped /\ ChannelsTyped /\ InspectsTyped
      /\ GenerationsTell
  BY DEF RulesInv, Typed
<1>4. ClockTyped'
  BY <1>1, <1>3 DEF ClockTyped
<1>5. AroundTyped'
  BY <1>1, <1>3 DEF AroundTyped
<1>6. RulesTyped'
  BY <1>1, <1>3 DEF RulesTyped
<1>7. ChannelsTyped'
  <2>1. fired \in Seq(Match) /\ Len(fired) <= FiredBuffer /\ FiredBuffer \in Nat
    BY <1>3, Sizes DEF ChannelsTyped
  <2>2. fired' \in Seq(Match) /\ Len(fired') = Len(fired) - 1 /\ Len(fired) \in Nat
    BY <1>2, <2>1, QueueTail
  <2>3. Len(fired') <= FiredBuffer
    BY <2>1, <2>2
  <2> QED
    BY <1>1, <1>3, <2>2, <2>3 DEF ChannelsTyped
<1>8. InspectsTyped'
  BY <1>1, <1>3 DEF InspectsTyped
<1>9. GenerationsTell'
  BY <1>1, <1>2, <1>3, GenerationsStay DEF ChannelsTyped
<1>10. WindowsTyped'
  BY <1>1, <1>2, <1>6, WindowsFollow
<1> QED
  BY <1>2, <1>4, <1>5, <1>6, <1>7, <1>8, <1>9, <1>10 DEF RulesInv, Typed

\* What the two handlers of events have in common: nothing, a look-up or a record.
LEMMA EventStep ==
    ASSUME RulesInv, loop = "running", NEW ev \in Event,
           \/ \E kind \in {"die", "oom", "unhealthy"} :
                RecordEventMatch(ev, kind) /\ inspecting' = inspecting
           \/ UNCHANGED <<windows, feeds, matches, lastOOM, dispatched, dispatcher>>
              /\ inspecting' \in {inspecting, inspecting \union {[ev |-> ev, since |-> now]}},
           events' \in Seq(Event), inspected' \in Seq(Result), Len(inspected') <= InspectBuffer,
           UNCHANGED <<now, config, source, unpoked, cancelled, loop, poke, stream, subs, gen,
                       eventRules, fired, lines, number>>
    PROVE  RulesInv'
<1>1. /\ ClockTyped /\ AroundTyped /\ RulesTyped /\ ChannelsTyped /\ InspectsTyped
      /\ GenerationsTell /\ DispatchTyped
  BY DEF RulesInv, Typed
<1>2. KeysSound' /\ DispatchTyped' /\ lastOOM' \in [Containers -> 0 .. now']
  <2>1. ASSUME NEW kind, RecordEventMatch(ev, kind)
        PROVE  KeysSound' /\ DispatchTyped' /\ lastOOM' \in [Containers -> 0 .. now']
    BY <2>1, RecordSound
  <2>2. ASSUME UNCHANGED <<windows, feeds, matches, lastOOM, dispatched, dispatcher>>
        PROVE  KeysSound' /\ DispatchTyped' /\ lastOOM' \in [Containers -> 0 .. now']
    <3>1. KeysSound'
      BY <2>2, QuietKeys
    <3>2. DispatchTyped'
      BY <1>1, <2>2 DEF DispatchTyped
    <3> QED
      BY <1>1, <2>2, <3>1, <3>2 DEF ClockTyped
  <2> QED
    BY <2>1, <2>2
<1>3. ClockTyped'
  BY <1>1, <1>2 DEF ClockTyped
<1>4. AroundTyped'
  BY <1>1 DEF AroundTyped
<1>5. RulesTyped'
  BY <1>1 DEF RulesTyped
<1>6. ChannelsTyped'
  BY <1>1 DEF ChannelsTyped
<1>7. InspectsTyped'
  <2> SUFFICES ASSUME NEW x \in inspecting'
               PROVE  x.ev \in Event /\ x.since \in 1 .. now /\ now - x.since <= InspectTimeout
    BY DEF InspectsTyped
  <2>1. CASE x \in inspecting
    BY <1>1, <2>1 DEF InspectsTyped
  <2>2. CASE x \notin inspecting
    <3>1. x = [ev |-> ev, since |-> now]
      BY <2>2
    <3>2. now \in 1 .. now /\ now - now <= InspectTimeout
      BY <1>1, Sizes DEF ClockTyped
    <3> QED
      BY <3>1, <3>2
  <2> QED
    BY <2>1, <2>2
<1>8. GenerationsTell'
  BY <1>1, GenerationsStay DEF ChannelsTyped
<1>9. WindowsTyped'
  BY <1>2, <1>5, WindowsFollow
<1> QED
  BY <1>2, <1>3, <1>4, <1>5, <1>6, <1>7, <1>8, <1>9 DEF RulesInv, Typed

LEMMA EventSound == RulesInv /\ HandleEvent => RulesInv'
<1> SUFFICES ASSUME RulesInv, HandleEvent PROVE RulesInv'
  OBVIOUS
<1>1. /\ loop = "running" /\ events # << >> /\ events' = Tail(events)
      /\ UNCHANGED <<now, config, source, unpoked, cancelled, loop, poke, stream, subs, gen,
                     eventRules, fired, inspected, lines, number>>
  BY Zenon DEF HandleEvent, around, rules, bounds
<1>2. PICK ev : ev = Head(events)
  OBVIOUS
<1>3. ChannelsTyped
  BY DEF RulesInv, Typed
<1>4. ev \in Event /\ events' \in Seq(Event)
  BY <1>1, <1>2, <1>3, QueueTail DEF ChannelsTyped
<1>5. \/ \E kind \in {"die", "oom", "unhealthy"} :
           RecordEventMatch(ev, kind) /\ inspecting' = inspecting
      \/ UNCHANGED <<windows, feeds, matches, lastOOM, dispatched, dispatcher>>
         /\ inspecting' \in {inspecting, inspecting \union {[ev |-> ev, since |-> now]}}
  <2>1. PICK kind : kind = IF ev.action = "health" THEN "unhealthy" ELSE ev.action
    OBVIOUS
  <2>2. kind \in {"die", "oom", "unhealthy"}
    BY <1>4, <2>1 DEF Event
  <2>3. \/ RecordEventMatch(ev, kind) /\ UNCHANGED inspecting
        \/ UNCHANGED <<memory, dispatch, owed, inspecting>>
        \/ /\ inspecting' = inspecting \union {[ev |-> ev, since |-> now]}
           /\ UNCHANGED <<memory, dispatch, owed>>
    BY <1>2, <2>1, Zenon DEF HandleEvent
  <2> QED
    BY <2>2, <2>3, Zenon DEF memory, dispatch
<1>6. inspected' \in Seq(Result) /\ Len(inspected') <= InspectBuffer
  BY <1>1, <1>3 DEF ChannelsTyped
<1> QED
  BY <1>1, <1>4, <1>5, <1>6, EventStep

LEMMA InspectSound == RulesInv /\ HandleInspect => RulesInv'
<1> SUFFICES ASSUME RulesInv, HandleInspect PROVE RulesInv'
  OBVIOUS
<1>1. /\ loop = "running" /\ inspected # << >> /\ inspected' = Tail(inspected)
      /\ UNCHANGED <<now, config, source, unpoked, cancelled, events, loop, poke, stream, subs, gen,
                     eventRules, fired, inspecting, lines, number>>
  BY Zenon DEF HandleInspect, around, rules, bounds
<1>2. PICK r : r = Head(inspected)
  OBVIOUS
<1>3. ChannelsTyped
  BY DEF RulesInv, Typed
<1>4. r \in Result /\ inspected' \in Seq(Result) /\ Len(inspected') <= InspectBuffer
  <2>1. inspected \in Seq(Result) /\ Len(inspected) <= InspectBuffer /\ InspectBuffer \in Nat
    BY <1>3, Sizes DEF ChannelsTyped
  <2>2. /\ r \in Result /\ inspected' \in Seq(Result) /\ Len(inspected') = Len(inspected) - 1
        /\ Len(inspected) \in Nat
    BY <1>1, <1>2, <2>1, QueueTail
  <2> QED
    BY <2>1, <2>2
<1>5. PICK ev : ev = r.ev /\ ev \in Event
  BY <1>4 DEF Result
<1>6. \/ \E kind \in {"die", "oom", "unhealthy"} :
           RecordEventMatch(ev, kind) /\ inspecting' = inspecting
      \/ UNCHANGED <<windows, feeds, matches, lastOOM, dispatched, dispatcher>>
         /\ inspecting' \in {inspecting, inspecting \union {[ev |-> ev, since |-> now]}}
  <2>1. PICK kind : kind = IF ev.action = "health" THEN "unhealthy" ELSE "die"
    OBVIOUS
  <2>2. kind \in {"die", "oom", "unhealthy"}
    BY <2>1
  <2>3. RecordEventMatch(ev, kind) \/ UNCHANGED <<memory, dispatch, owed>>
    BY <1>2, <1>5, <2>1, Zenon DEF HandleInspect
  <2> QED
    BY <1>1, <2>2, <2>3, Zenon DEF memory, dispatch
<1>7. events' \in Seq(Event)
  BY <1>1, <1>3 DEF ChannelsTyped
<1> QED
  BY <1>1, <1>4, <1>5, <1>6, <1>7, EventStep

LEMMA ShutdownSound == RulesInv /\ Shutdown => RulesInv'
<1> SUFFICES ASSUME RulesInv, Shutdown PROVE RulesInv'
  OBVIOUS
<1>1. /\ loop' = "finished" /\ subs' = [id \in RuleIds |-> None] /\ dispatcher' = "closed"
      /\ fired' = << >> /\ inspected' = << >>
      /\ UNCHANGED <<now, config, source, unpoked, cancelled, events, poke, stream, gen, eventRules,
                     windows, lastOOM, feeds, matches, inspecting, dispatched, lines, number>>
  BY Zenon DEF Shutdown, around, memory, bounds
<1>2. /\ ClockTyped /\ AroundTyped /\ RulesTyped /\ ChannelsTyped /\ InspectsTyped
      /\ DispatchTyped /\ WindowsTyped
  BY DEF RulesInv, Typed
<1>3. ClockTyped'
  BY <1>1, <1>2 DEF ClockTyped
<1>4. AroundTyped'
  BY <1>1, <1>2 DEF AroundTyped
<1>5. RulesTyped'
  BY <1>1, <1>2 DEF RulesTyped
<1>6. ChannelsTyped'
  BY <1>1, <1>2, NothingQueued, Sizes DEF ChannelsTyped
<1>7. InspectsTyped'
  BY <1>1, <1>2 DEF InspectsTyped
<1>8. DispatchTyped'
  BY <1>1, <1>2 DEF DispatchTyped
<1>9. WindowsTyped'
  BY <1>1, <1>2 DEF WindowsTyped
<1>10. GenerationsTell'
  BY <1>1, NothingQueued DEF GenerationsTell
<1>11. KeysSound'
  BY <1>1 DEF KeysSound
<1> QED
  BY <1>3, <1>4, <1>5, <1>6, <1>7, <1>8, <1>9, <1>10, <1>11 DEF RulesInv, Typed

\* A step that leaves the rules and what they keep alone.
kept == <<subs, gen, eventRules, windows, feeds, matches, loop>>
LEMMA QuietSound ==
    ASSUME RulesInv, UNCHANGED kept, now' \in {now, now + 1},
           ClockTyped', AroundTyped', ChannelsTyped', InspectsTyped', DispatchTyped',
           GenerationsTell'
    PROVE  RulesInv'
<1>1. UNCHANGED <<subs, gen, eventRules, windows, feeds, matches, loop>>
  BY DEF kept
<1>2. RulesTyped'
  BY <1>1 DEF RulesInv, Typed, RulesTyped
<1>3. WindowsTyped'
  BY <1>1 DEF RulesInv, Typed, WindowsTyped
<1>4. KeysSound'
  BY <1>1, QuietKeys
<1> QED
  BY <1>2, <1>3, <1>4 DEF RulesInv, Typed

LEMMA SinkSound ==
    ASSUME RulesInv, NEW id \in RuleIds, NEW c \in Containers, Sink(id, c)
    PROVE  RulesInv'
<1>1. PICK name : name = NameOf[c] /\ name \in Names
  BY EngineAssumption
<1>2. PICK m : m = [id |-> id, def |-> subs[id].def, gen |-> subs[id].gen, name |-> name]
  OBVIOUS
<1>3. /\ lines' = lines + 1 /\ subs[id] # None
      /\ fired' = IF FiredRoom THEN Append(fired, m) ELSE fired
      /\ UNCHANGED <<now, config, source, unpoked, cancelled, events, loop, poke, stream, subs, gen,
                     eventRules, windows, feeds, matches, lastOOM, inspecting, inspected, dispatched,
                     dispatcher, number>>
  BY <1>1, <1>2, Zenon DEF Sink, around, rules, memory, dispatch
<1>4. /\ ClockTyped /\ AroundTyped /\ RulesTyped /\ ChannelsTyped /\ InspectsTyped
      /\ DispatchTyped /\ GenerationsTell
  BY DEF RulesInv, Typed
<1>5. ClockTyped'
  BY <1>3, <1>4 DEF ClockTyped
<1>6. AroundTyped'
  BY <1>3, <1>4 DEF AroundTyped
<1>7. m \in Match
  <2>1. subs[id] \in [def : Definitions, gen : Nat]
    BY <1>3, <1>4 DEF RulesTyped
  <2> QED
    BY <1>1, <1>2, <2>1 DEF Match
<1>8. ChannelsTyped'
  <2>1. fired \in Seq(Match) /\ Len(fired) <= FiredBuffer /\ FiredBuffer \in Nat /\ Len(fired) \in Nat
    BY <1>4, Sizes, LenProperties DEF ChannelsTyped
  <2>2. Append(fired, m) \in Seq(Match) /\ Len(Append(fired, m)) = Len(fired) + 1
    BY <1>7, <2>1, AppendProperties
  <2>3. fired' \in Seq(Match) /\ Len(fired') <= FiredBuffer
    BY <1>3, <2>1, <2>2 DEF FiredRoom
  <2> QED
    BY <1>3, <1>4, <2>3 DEF ChannelsTyped
<1>9. InspectsTyped'
  BY <1>3, <1>4 DEF InspectsTyped
<1>10. DispatchTyped'
  BY <1>3, <1>4 DEF DispatchTyped
<1>11. GenerationsTell'
  BY <1>1, <1>2, <1>3, <1>4, GenerationsStay DEF ChannelsTyped
<1> QED
  BY <1>3, <1>5, <1>6, <1>8, <1>9, <1>10, <1>11, QuietSound DEF kept

LEMMA GoroutineSound == RulesInv /\ ((\E i \in inspecting : InspectReturns(i)) \/ Dispatch) => RulesInv'
<1> SUFFICES ASSUME RulesInv, (\E i \in inspecting : InspectReturns(i)) \/ Dispatch PROVE RulesInv'
  OBVIOUS
<1>1. /\ ClockTyped /\ AroundTyped /\ RulesTyped /\ ChannelsTyped /\ InspectsTyped
      /\ DispatchTyped /\ GenerationsTell
  BY DEF RulesInv, Typed
<1>2. /\ UNCHANGED <<now, config, source, unpoked, cancelled, events, loop, poke, stream, subs, gen,
                     eventRules, windows, feeds, matches, lastOOM, fired, lines, number>>
      /\ inspecting' \subseteq inspecting
  <2>1. CASE Dispatch
    BY <2>1, Zenon DEF Dispatch, around, rules, memory, bounds
  <2>2. CASE \E i \in inspecting : InspectReturns(i)
    <3>1. PICK i \in inspecting : InspectReturns(i)
      BY <2>2
    <3>2. inspecting' = inspecting \ {i}
      BY <3>1, Zenon DEF InspectReturns
    <3> QED
      BY <3>1, <3>2, Zenon DEF InspectReturns, around, rules, memory, bounds
  <2> QED
    BY <2>1, <2>2
<1>3. ClockTyped'
  BY <1>1, <1>2 DEF ClockTyped
<1>4. AroundTyped'
  BY <1>1, <1>2 DEF AroundTyped
<1>5. InspectsTyped'
  BY <1>1, <1>2 DEF InspectsTyped
<1>6. GenerationsTell'
  BY <1>1, <1>2, GenerationsStay DEF ChannelsTyped
<1>7. CASE Dispatch
  <2>1. inspected' = inspected
    BY <1>7, Zenon DEF Dispatch
  <2>2. ChannelsTyped'
    BY <1>1, <1>2, <2>1 DEF ChannelsTyped
  <2>3. DispatchTyped'
    BY <1>1, <1>2, <1>7, Sizes DEF Dispatch, DispatchTyped
  <2> QED
    BY <1>2, <1>3, <1>4, <1>5, <1>6, <2>2, <2>3, QuietSound DEF kept
<1>8. CASE \E i \in inspecting : InspectReturns(i)
  <2>1. PICK i \in inspecting : InspectReturns(i)
    BY <1>8
  <2>2. UNCHANGED <<dispatched, dispatcher>>
    BY <2>1, Zenon DEF InspectReturns, dispatch
  <2>3. \/ inspected' = inspected
        \/ \E fire : fire \in {i.ev.bad, FiresWhenFailed(i.ev)} /\ Report(i, fire)
    BY <2>1 DEF InspectReturns
  <2>4. i.ev \in Event /\ i.ev.bad \in BOOLEAN /\ FiresWhenFailed(i.ev) \in BOOLEAN
    BY <1>1 DEF InspectsTyped, Event, FiresWhenFailed
  <2>5. ASSUME NEW fire \in BOOLEAN, Report(i, fire)
        PROVE  inspected' \in Seq(Result) /\ Len(inspected') <= InspectBuffer
    <3>1. [ev |-> i.ev, fire |-> fire] \in Result
      BY <2>4 DEF Result
    <3>2. inspected' = Append(inspected, [ev |-> i.ev, fire |-> fire]) /\ Len(inspected) < InspectBuffer
      BY <2>5 DEF Report
    <3>3. inspected \in Seq(Result) /\ Len(inspected) \in Nat /\ InspectBuffer \in Nat
      BY <1>1, Sizes, LenProperties DEF ChannelsTyped
    <3>4. inspected' \in Seq(Result) /\ Len(inspected') = Len(inspected) + 1
      BY <3>1, <3>2, <3>3, AppendProperties
    <3> QED
      BY <3>2, <3>3, <3>4
  <2>6. ChannelsTyped'
    BY <1>1, <1>2, <2>3, <2>4, <2>5 DEF ChannelsTyped
  <2>7. DispatchTyped'
    BY <1>1, <1>2, <2>2 DEF DispatchTyped
  <2> QED
    BY <1>2, <1>3, <1>4, <1>5, <1>6, <2>6, <2>7, QuietSound DEF kept
<1> QED
  BY <1>7, <1>8

\* The steps outside the engine.
Outside ==
    /\ UNCHANGED <<loop, stream, subs, gen, eventRules, windows, lastOOM, feeds, matches, fired,
                   inspecting, inspected, dispatched, dispatcher, lines, counted>>
    /\ now' \in {now, now + 1} /\ poke' \in {poke, TRUE}
LEMMA EventsBounded ==
    ASSUME NEW n \in Nat, NEW m, <<m, n + 1>> \in Inputs
    PROVE  n < MaxEvents
<1>1. <<m, n + 1>> \in Nat \X (0 .. MaxEvents)
  BY Sizes
<1>2. n + 1 \in 0 .. MaxEvents
  BY <1>1
<1> QED
  BY <1>2, Sizes
LEMMA OccurTyped ==
    ASSUME NEW action \in {"die", "oom", "health"}, NEW c \in Containers,
           NEW told \in BOOLEAN, NEW bad \in BOOLEAN,
           lines \in Nat, number \in Nat, number < MaxEvents
    PROVE  Happened(action, c, told, bad) \in Event
<1>1. number + 1 \in 1 .. MaxEvents
  BY Sizes
<1> QED
  BY <1>1 DEF Happened, Event

LEMMA AroundSound == RulesInv /\ AroundStep => RulesInv'
<1> SUFFICES ASSUME RulesInv, AroundStep PROVE RulesInv'
  OBVIOUS
<1>1. /\ ClockTyped /\ AroundTyped /\ RulesTyped /\ ChannelsTyped /\ InspectsTyped
      /\ DispatchTyped /\ GenerationsTell
  BY DEF RulesInv, Typed
<1>2. ASSUME Outside, AroundTyped', events' \in Seq(Event), number' \in Nat,
             now' = now + 1 => now' <= MaxTime /\ InspectsTyped'
      PROVE  RulesInv'
  <2> USE DEF Outside
  <2>1. ClockTyped'
    <3>1. now \in Nat /\ 0 .. now \subseteq 0 .. now' /\ now' \in 1 .. MaxTime
      BY <1>1, <1>2, Sizes DEF ClockTyped
    <3> QED
      BY <1>1, <1>2, <3>1 DEF ClockTyped
  <2>2. ChannelsTyped'
    BY <1>1, <1>2 DEF ChannelsTyped
  <2>3. InspectsTyped'
    BY <1>1, <1>2 DEF InspectsTyped
  <2>4. DispatchTyped'
    BY <1>1, <1>2 DEF DispatchTyped
  <2>5. GenerationsTell'
    BY <1>1, <1>2, GenerationsStay DEF ChannelsTyped
  <2> QED
    BY <1>2, <2>1, <2>2, <2>3, <2>4, <2>5, QuietSound DEF kept
<1>3. events \in Seq(Event) /\ number \in Nat /\ lines \in Nat /\ now \in Nat /\ now # now + 1
  BY <1>1, Sizes DEF ChannelsTyped, ClockTyped
<1>4. ASSUME NEW evs \in Seq(Event), Occur(evs) PROVE RulesInv'
  <2>1. Outside /\ now' = now
    BY <1>4, Zenon DEF Occur, Inside, Outside, around, rules, memory, dispatch
  <2>2. AroundTyped'
    <3>1. UNCHANGED <<config, source, stream, unpoked, cancelled, poke, loop>>
      BY <1>4, Zenon DEF Occur, Inside, around
    <3> QED
      BY <1>1, <3>1 DEF AroundTyped
  <2>3. events' \in Seq(Event)
    <3>1. events' \in {events, events \o evs}
      BY <1>4 DEF Occur
    <3> QED
      BY <1>3, <3>1, ConcatProperties
  <2>4. number' \in Nat
    BY <1>3, <1>4 DEF Occur
  <2> QED
    BY <1>2, <1>3, <2>1, <2>2, <2>3, <2>4
<1>5. ASSUME NEW c \in Containers, NEW told \in BOOLEAN, NEW bad \in BOOLEAN,
             Exit(c, told, bad) \/ Health(c, told, bad) \/ OomKill(c, told)
      PROVE  RulesInv'
  <2>1. number < MaxEvents
    <3>1. <<lines, number + 1>> \in Inputs
      BY <1>5 DEF Exit, Health, OomKill, Occur
    <3> QED
      BY <1>3, <3>1, EventsBounded
  <2>2. /\ Happened("die", c, told, bad) \in Event /\ Happened("health", c, told, bad) \in Event
        /\ Happened("oom", c, TRUE, TRUE) \in Event /\ Happened("die", c, told, TRUE) \in Event
    BY <1>3, <2>1, OccurTyped
  <2>3. /\ <<Happened("die", c, told, bad)>> \in Seq(Event)
        /\ <<Happened("health", c, told, bad)>> \in Seq(Event)
        /\ <<Happened("oom", c, TRUE, TRUE), Happened("die", c, told, TRUE)>> \in Seq(Event)
    BY <2>2, OneOrTwoQueued
  <2> QED
    BY <1>4, <1>5, <2>3 DEF Exit, Health, OomKill
<1>6. ASSUME NEW cfg \in Configs, SetRules(cfg) PROVE RulesInv'
  <2>1. Outside /\ now' = now /\ UNCHANGED <<events, number>>
        /\ config' = cfg /\ unpoked' = TRUE /\ UNCHANGED <<source, cancelled, poke>>
    BY <1>6, Zenon DEF SetRules, Inside, Outside, rules, memory, dispatch
  <2>2. AroundTyped'
    BY <1>1, <2>1 DEF AroundTyped, Outside
  <2> QED
    BY <1>2, <1>3, <2>1, <2>2
<1>7. ASSUME NEW client \in Clients, SwapClient(client) PROVE RulesInv'
  <2>1. Outside /\ now' = now /\ UNCHANGED <<events, number>>
        /\ source' = client /\ unpoked' = TRUE /\ UNCHANGED <<config, cancelled, poke>>
    BY <1>7, Zenon DEF SwapClient, Inside, Outside, rules, memory, dispatch
  <2>2. AroundTyped'
    BY <1>1, <2>1 DEF AroundTyped, Outside
  <2> QED
    BY <1>2, <1>3, <2>1, <2>2
<1>8. CASE Reconcile
  <2>1. Outside /\ now' = now /\ UNCHANGED <<events, number>>
        /\ unpoked' = FALSE /\ poke' = TRUE /\ UNCHANGED <<config, source, cancelled>>
    BY <1>8, Zenon DEF Reconcile, Outside, rules, memory, dispatch, bounds
  <2>2. AroundTyped'
    BY <1>1, <2>1 DEF AroundTyped, Outside
  <2> QED
    BY <1>2, <1>3, <2>1, <2>2
<1>9. CASE Cancel
  <2>1. Outside /\ now' = now /\ UNCHANGED <<events, number>>
        /\ cancelled' = TRUE /\ UNCHANGED <<config, source, unpoked, poke>>
    BY <1>9, Zenon DEF Cancel, Inside, Outside, rules, memory, dispatch
  <2>2. AroundTyped'
    BY <1>1, <2>1 DEF AroundTyped, Outside
  <2> QED
    BY <1>2, <1>3, <2>1, <2>2
<1>10. CASE Pass
  <2>1. Outside /\ now' = now + 1 /\ now < MaxTime /\ UNCHANGED <<events, number>>
        /\ UNCHANGED <<config, source, unpoked, cancelled, poke>>
        /\ \A i \in inspecting : now - i.since < InspectTimeout
    BY <1>10, Zenon DEF Pass, Inside, Outside, rules, memory, dispatch
  <2>2. AroundTyped'
    BY <1>1, <2>1 DEF AroundTyped, Outside
  <2>3. now' <= MaxTime
    BY <1>3, <2>1, Sizes
  <2>4. InspectsTyped'
    BY <1>1, <1>3, <2>1, Sizes DEF InspectsTyped, Outside
  <2> QED
    BY <1>2, <1>3, <2>1, <2>2, <2>3, <2>4
<1> QED
  BY <1>5, <1>6, <1>7, <1>8, <1>9, <1>10 DEF AroundStep

LEMMA StepSound == RulesInv /\ [Next]_vars => RulesInv'
<1> SUFFICES ASSUME RulesInv, [Next]_vars PROVE RulesInv'
  OBVIOUS
<1>1. CASE LoopStep
  BY <1>1, ReconcileSound, TickSound, MatchSound, EventSound, InspectSound, ShutdownSound
     DEF LoopStep
<1>2. CASE GoroutineStep
  BY <1>2, SinkSound, GoroutineSound DEF GoroutineStep
<1>3. CASE AroundStep
  BY <1>3, AroundSound
<1>4. CASE UNCHANGED vars
  <2>1. UNCHANGED <<now, config, source, unpoked, cancelled, events, loop, poke, stream, subs, gen,
                    eventRules, windows, lastOOM, feeds, matches, fired, inspecting, inspected,
                    dispatched, dispatcher, lines, number>>
    BY <1>4, Zenon DEF vars, around, rules, memory, dispatch, bounds
  <2>2. ClockTyped' /\ AroundTyped' /\ ChannelsTyped' /\ InspectsTyped' /\ DispatchTyped'
    <3>1. ClockTyped'
      BY <2>1 DEF RulesInv, Typed, ClockTyped
    <3>2. AroundTyped'
      BY <2>1 DEF RulesInv, Typed, AroundTyped
    <3>3. ChannelsTyped'
      BY <2>1 DEF RulesInv, Typed, ChannelsTyped
    <3>4. InspectsTyped'
      BY <2>1 DEF RulesInv, Typed, InspectsTyped
    <3>5. DispatchTyped'
      BY <2>1 DEF RulesInv, Typed, DispatchTyped
    <3> QED
      BY <3>1, <3>2, <3>3, <3>4, <3>5
  <2>3. GenerationsTell'
    BY <2>1, GenerationsStay DEF RulesInv, Typed, ChannelsTyped
  <2> QED
    BY <2>1, <2>2, <2>3, QuietSound DEF kept
<1> QED
  BY <1>1, <1>2, <1>3, <1>4 DEF Next

LEMMA WindowsSoundFollows == RulesInv => WindowsSound
<1> SUFFICES ASSUME RulesInv PROVE TypeOK /\ MatchesOfOneRule
  BY DEF WindowsSound
<1>1. /\ ClockTyped /\ AroundTyped /\ RulesTyped /\ ChannelsTyped /\ InspectsTyped
      /\ DispatchTyped /\ WindowsTyped
  BY DEF RulesInv, Typed
<1>2. lastOOM \in [Containers -> 0 .. MaxTime]
  <2>1. 0 .. now \subseteq 0 .. MaxTime
    BY <1>1, Sizes DEF ClockTyped
  <2> QED
    BY <1>1, <2>1 DEF ClockTyped
<1>3. TypeOK
  BY <1>1, <1>2 DEF TypeOK, ClockTyped, AroundTyped, RulesTyped, ChannelsTyped, InspectsTyped,
                    DispatchTyped, WindowsTyped
<1>4. ASSUME loop = "running", NEW k \in Keys PROVE feeds[k] \subseteq {RuleOf(k[1])}
  BY <1>4 DEF RulesInv, KeysSound, KeySound, KeyAt
<1>5. MatchesOfOneRule
  BY <1>4 DEF MatchesOfOneRule, RuleOf
<1> QED
  BY <1>3, <1>5

\* The engine's windows and channels are sound (alerts/engine.go, window.go): no
\* channel overflows, no window holds more matches than its rule's threshold, and all
\* it has counted are of the rule as it stands: not of an earlier version of the rule
\* whose match was still on its way when the rule was changed, or removed and added.
THEOREM AlertWindowsSound == Spec => []WindowsSound
<1>1. Init => RulesInv
  BY InitSound
<1>2. RulesInv /\ [Next]_vars => RulesInv'
  BY StepSound
<1>3. RulesInv => WindowsSound
  BY WindowsSoundFollows
<1> QED
  BY <1>1, <1>2, <1>3, PTL DEF Spec

-----------------------------------------------------------------------------
(***************************************************************************)
(* An OOM kill and its death are one incident.  They have one number, the  *)
(* kill is heard first, and the time of the kill is remembered until the   *)
(* death has been weighed: at once if its event says enough, and within    *)
(* the time of a look-up, which is shorter than the window, if not.        *)
(***************************************************************************)
Kinds == {"die", "oom", "unhealthy"}
Numbered ==
    /\ \A i \in 1 .. Len(events) : events[i].n <= number
    /\ \A x \in inspecting : x.ev.n <= number
    /\ \A i \in 1 .. Len(inspected) : inspected[i].ev.n <= number
    /\ counted \subseteq RuleIds \X (1 .. number) \X Kinds
\* Nothing of the death with this number has been weighed or looked up.
Unheard(n) ==
    /\ \A x \in inspecting : x.ev.n # n
    /\ \A i \in 1 .. Len(inspected) : inspected[i].ev.n # n
    /\ \A id \in RuleIds : <<id, n, "die">> \notin counted
KillsComeFirst ==
    /\ \A i, j \in 1 .. Len(events) : i < j /\ events[i].n = events[j].n =>
         events[i].action = "oom" /\ events[j].action = "die" /\ events[i].of = events[j].of
    /\ \A i \in 1 .. Len(events) : events[i].action = "oom" =>
         events[i].told /\ events[i].bad /\ Unheard(events[i].n)
    /\ \A x \in inspecting : x.ev.action # "oom"
    /\ \A i \in 1 .. Len(inspected) : inspected[i].ev.action # "oom"
KillCounted(n) == \E id \in RuleIds : <<id, n, "oom">> \in counted
KillsRemembered ==
    /\ \A i \in 1 .. Len(events) :
         events[i].action = "die" /\ KillCounted(events[i].n) => lastOOM[events[i].of] = now
    /\ \A x \in inspecting :
         x.ev.action = "die" /\ KillCounted(x.ev.n) => x.since <= lastOOM[x.ev.of]
    /\ \A i \in 1 .. Len(inspected) :
         inspected[i].ev.action = "die" /\ KillCounted(inspected[i].ev.n) =>
            lastOOM[inspected[i].ev.of] # 0 /\ now - lastOOM[inspected[i].ev.of] <= InspectTimeout
Incidents == Numbered /\ KillsComeFirst /\ KillsRemembered /\ OneIncidentOnce

\* Of the next state.
UnheardNext(n) ==
    /\ \A x \in inspecting' : x.ev.n # n
    /\ \A i \in 1 .. Len(inspected') : inspected'[i].ev.n # n
    /\ \A id \in RuleIds : <<id, n, "die">> \notin counted'
KillCountedNext(n) == \E id \in RuleIds : <<id, n, "oom">> \in counted'

LEMMA IncidentsInit == Init => Incidents
<1> SUFFICES ASSUME Init PROVE Incidents
  OBVIOUS
<1>1. events = << >> /\ inspecting = {} /\ inspected = << >> /\ counted = {}
  BY DEF Init
<1> QED
  BY <1>1, NothingQueued DEF Incidents, Numbered, KillsComeFirst, KillsRemembered, OneIncidentOnce

\* Types of what the proofs below compare.
LEMMA IncidentTypes ==
    ASSUME RulesInv
    PROVE  /\ now \in Nat \ {0} /\ number \in Nat /\ lastOOM \in [Containers -> 0 .. now]
           /\ Len(events) \in Nat /\ Len(inspected) \in Nat
           /\ \A i \in 1 .. Len(events) : events[i] \in Event
           /\ \A x \in inspecting : x.ev \in Event /\ x.since \in 1 .. now /\ now - x.since <= InspectTimeout
           /\ \A i \in 1 .. Len(inspected) : inspected[i].ev \in Event
<1>1. ClockTyped /\ ChannelsTyped /\ InspectsTyped
  BY DEF RulesInv, Typed
<1>2. \A i \in 1 .. Len(inspected) : inspected[i] \in Result
  BY <1>1, ElementOfSeq DEF ChannelsTyped
<1>3. \A i \in 1 .. Len(events) : events[i] \in Event
  BY <1>1, ElementOfSeq DEF ChannelsTyped
<1>4. Len(events) \in Nat /\ Len(inspected) \in Nat
  BY <1>1, LenProperties DEF ChannelsTyped
<1> QED
  BY <1>1, <1>2, <1>3, <1>4, Sizes DEF ClockTyped, InspectsTyped, Result
LEMMA EventFields ==
    ASSUME NEW ev \in Event
    PROVE  ev.of \in Containers /\ ev.n \in 1 .. MaxEvents /\ ev.action \in {"die", "oom", "health"}
BY DEF Event

\* A prune drops no kill that a death may still have to be compared with.
LEMMA IncidentsStay ==
    ASSUME RulesInv, Incidents, events' \in {events, << >>}, inspected' \in {inspected, << >>},
           UNCHANGED <<inspecting, counted, number, now>>,
           \A c \in Containers : \/ lastOOM'[c] = lastOOM[c]
                                 \/ lastOOM'[c] = 0 /\ now - lastOOM[c] > OomWindow
    PROVE  Incidents'
<1>1. /\ now \in Nat \ {0} /\ number \in Nat /\ lastOOM \in [Containers -> 0 .. now]
      /\ \A i \in 1 .. Len(events) : events[i] \in Event
      /\ \A x \in inspecting : x.ev \in Event /\ x.since \in 1 .. now /\ now - x.since <= InspectTimeout
      /\ \A i \in 1 .. Len(inspected) : inspected[i].ev \in Event
  BY IncidentTypes
<1>2. /\ \A i \in 1 .. Len(events') : i \in 1 .. Len(events) /\ events'[i] = events[i]
      /\ \A i \in 1 .. Len(inspected') : i \in 1 .. Len(inspected) /\ inspected'[i] = inspected[i]
  BY NothingQueued
<1>3. \A n : (Unheard(n) => UnheardNext(n)) /\ (KillCountedNext(n) <=> KillCounted(n))
  BY <1>2 DEF Unheard, KillCounted, UnheardNext, KillCountedNext
<1>4. Numbered'
  BY <1>2 DEF Incidents, Numbered
<1>5. KillsComeFirst'
  <2>1. \A i, j \in 1 .. Len(events') : i < j /\ events'[i].n = events'[j].n =>
          events'[i].action = "oom" /\ events'[j].action = "die" /\ events'[i].of = events'[j].of
    BY <1>2 DEF Incidents, KillsComeFirst
  <2>2. \A i \in 1 .. Len(events') : events'[i].action = "oom" =>
          events'[i].told /\ events'[i].bad /\ UnheardNext(events'[i].n)
    <3> SUFFICES ASSUME NEW i \in 1 .. Len(events'), events'[i].action = "oom"
                 PROVE  events'[i].told /\ events'[i].bad /\ UnheardNext(events'[i].n)
      OBVIOUS
    <3>1. events[i].told /\ events[i].bad /\ Unheard(events[i].n) /\ events'[i] = events[i]
      BY <1>2 DEF Incidents, KillsComeFirst
    <3> QED
      BY <1>3, <3>1
  <2>3. /\ \A x \in inspecting' : x.ev.action # "oom"
        /\ \A i \in 1 .. Len(inspected') : inspected'[i].ev.action # "oom"
    BY <1>2 DEF Incidents, KillsComeFirst
  <2> QED
    BY <2>1, <2>2, <2>3 DEF KillsComeFirst, Unheard, UnheardNext
<1>6. KillsRemembered'
  <2>1. ASSUME NEW ev \in Event, lastOOM[ev.of] # 0, now - lastOOM[ev.of] <= InspectTimeout
        PROVE  lastOOM'[ev.of] = lastOOM[ev.of]
    BY <1>1, <2>1, EventFields, Sizes
  <2>2. \A i \in 1 .. Len(events') :
          events'[i].action = "die" /\ KillCountedNext(events'[i].n) => lastOOM'[events'[i].of] = now
    <3> SUFFICES ASSUME NEW i \in 1 .. Len(events'), events'[i].action = "die",
                        KillCountedNext(events'[i].n)
                 PROVE  lastOOM'[events'[i].of] = now
      OBVIOUS
    <3>1. PICK ev : ev = events[i] /\ ev \in Event /\ events'[i] = ev
      BY <1>1, <1>2
    <3>2. lastOOM[ev.of] = now
      BY <1>2, <1>3, <3>1 DEF Incidents, KillsRemembered
    <3> QED
      BY SMTT(30), <1>1, <2>1, <3>1, <3>2, Sizes
  <2>3. \A x \in inspecting' :
          x.ev.action = "die" /\ KillCountedNext(x.ev.n) => x.since <= lastOOM'[x.ev.of]
    <3> SUFFICES ASSUME NEW x \in inspecting, x.ev.action = "die", KillCountedNext(x.ev.n)
                 PROVE  x.since <= lastOOM'[x.ev.of]
      OBVIOUS
    <3>1. x.since <= lastOOM[x.ev.of]
      BY <1>3 DEF Incidents, KillsRemembered
    <3>2. PICK ev : ev = x.ev /\ ev \in Event /\ lastOOM[ev.of] \in 0 .. now
      BY <1>1, EventFields
    <3>3. lastOOM[ev.of] # 0 /\ now - lastOOM[ev.of] <= InspectTimeout
      BY <1>1, <3>1, <3>2, Sizes
    <3> QED
      BY <2>1, <3>1, <3>2, <3>3
  <2>4. \A i \in 1 .. Len(inspected') :
          inspected'[i].ev.action = "die" /\ KillCountedNext(inspected'[i].ev.n) =>
            lastOOM'[inspected'[i].ev.of] # 0 /\ now - lastOOM'[inspected'[i].ev.of] <= InspectTimeout
    <3> SUFFICES ASSUME NEW i \in 1 .. Len(inspected'), inspected'[i].ev.action = "die",
                        KillCountedNext(inspected'[i].ev.n)
                 PROVE  lastOOM'[inspected'[i].ev.of] # 0
                        /\ now - lastOOM'[inspected'[i].ev.of] <= InspectTimeout
      OBVIOUS
    <3>1. PICK ev : ev = inspected[i].ev /\ ev \in Event /\ inspected'[i].ev = ev
      BY <1>1, <1>2
    <3>2. lastOOM[ev.of] # 0 /\ now - lastOOM[ev.of] <= InspectTimeout
      BY <1>2, <1>3, <3>1 DEF Incidents, KillsRemembered
    <3> QED
      BY <2>1, <3>1, <3>2
  <2> QED
    BY <2>2, <2>3, <2>4 DEF KillsRemembered, KillCounted, KillCountedNext
<1>7. OneIncidentOnce'
  BY DEF Incidents, OneIncidentOnce
<1> QED
  BY <1>4, <1>5, <1>6, <1>7 DEF Incidents

\* A look-up that returns hands its event on; it took no longer than allowed.
LEMMA IncidentsReturn ==
    ASSUME RulesInv, Incidents, NEW i \in inspecting, InspectReturns(i)
    PROVE  Incidents'
<1>1. /\ now \in Nat \ {0} /\ number \in Nat /\ lastOOM \in [Containers -> 0 .. now]
      /\ Len(inspected) \in Nat
      /\ \A x \in inspecting : x.ev \in Event /\ x.since \in 1 .. now /\ now - x.since <= InspectTimeout
  BY IncidentTypes
<1>2. inspecting' \subseteq inspecting /\ UNCHANGED <<events, counted, lastOOM, number, now>>
  <2>1. inspecting' = inspecting \ {i}
    BY Zenon DEF InspectReturns
  <2> QED
    BY <2>1, Zenon DEF InspectReturns, around, memory, bounds
<1>3. \A j \in 1 .. Len(inspected') :
        \/ j \in 1 .. Len(inspected) /\ inspected'[j].ev = inspected[j].ev
        \/ inspected'[j].ev = i.ev
  <2>1. CASE inspected' = inspected
    BY <2>1
  <2>2. ASSUME NEW fire \in BOOLEAN, Report(i, fire)
        PROVE  \A j \in 1 .. Len(inspected') :
                 \/ j \in 1 .. Len(inspected) /\ inspected'[j].ev = inspected[j].ev
                 \/ inspected'[j].ev = i.ev
    <3>1. [ev |-> i.ev, fire |-> fire] \in Result
      BY <1>1 DEF Result
    <3>2. inspected' = Append(inspected, [ev |-> i.ev, fire |-> fire]) /\ inspected \in Seq(Result)
      BY <2>2 DEF Report, RulesInv, Typed, ChannelsTyped
    <3>3. /\ Len(inspected') = Len(inspected) + 1
          /\ inspected'[Len(inspected) + 1] = [ev |-> i.ev, fire |-> fire]
          /\ \A j \in 1 .. Len(inspected) : inspected'[j] = inspected[j]
      BY <3>1, <3>2, AppendProperties
    <3>4. \A j \in 1 .. Len(inspected') : j \in 1 .. Len(inspected) \/ j = Len(inspected) + 1
      BY <1>1, <3>3
    <3> QED
      BY <3>3, <3>4
  <2>3. inspected' = inspected \/ \E fire \in BOOLEAN : Report(i, fire)
    <3>1. i.ev.bad \in BOOLEAN /\ FiresWhenFailed(i.ev) \in BOOLEAN
      BY <1>1 DEF Event, FiresWhenFailed
    <3> QED
      BY <3>1, Zenon DEF InspectReturns
  <2> QED
    BY <2>1, <2>2, <2>3
<1>4. \A n : (Unheard(n) => UnheardNext(n)) /\ (KillCountedNext(n) <=> KillCounted(n))
  BY <1>2, <1>3 DEF Unheard, KillCounted, UnheardNext, KillCountedNext
<1>5. Numbered'
  BY <1>2, <1>3 DEF Incidents, Numbered
<1>6. KillsComeFirst'
  <2>1. \A j \in 1 .. Len(events') : events'[j].action = "oom" =>
          events'[j].told /\ events'[j].bad /\ UnheardNext(events'[j].n)
    BY <1>2, <1>4 DEF Incidents, KillsComeFirst
  <2>2. /\ \A x \in inspecting' : x.ev.action # "oom"
        /\ \A j \in 1 .. Len(inspected') : inspected'[j].ev.action # "oom"
    BY <1>2, <1>3 DEF Incidents, KillsComeFirst
  <2>3. \A k, j \in 1 .. Len(events') : k < j /\ events'[k].n = events'[j].n =>
          events'[k].action = "oom" /\ events'[j].action = "die" /\ events'[k].of = events'[j].of
    BY <1>2 DEF Incidents, KillsComeFirst
  <2> QED
    BY <2>1, <2>2, <2>3 DEF KillsComeFirst, Unheard, UnheardNext
<1>7. KillsRemembered'
  <2>1. \A j \in 1 .. Len(events') :
          events'[j].action = "die" /\ KillCountedNext(events'[j].n) => lastOOM'[events'[j].of] = now'
    BY <1>2, <1>4 DEF Incidents, KillsRemembered
  <2>2. \A x \in inspecting' :
          x.ev.action = "die" /\ KillCountedNext(x.ev.n) => x.since <= lastOOM'[x.ev.of]
    BY <1>2, <1>4 DEF Incidents, KillsRemembered
  <2>3. ASSUME i.ev.action = "die", KillCounted(i.ev.n)
        PROVE  lastOOM[i.ev.of] # 0 /\ now - lastOOM[i.ev.of] <= InspectTimeout
    <3>1. i.since <= lastOOM[i.ev.of]
      BY <2>3 DEF Incidents, KillsRemembered
    <3>2. lastOOM[i.ev.of] \in 0 .. now /\ i.since \in 1 .. now /\ now - i.since <= InspectTimeout
      BY <1>1, EventFields
    <3> QED
      BY <1>1, <3>1, <3>2, Sizes
  <2>4. \A j \in 1 .. Len(inspected') :
          inspected'[j].ev.action = "die" /\ KillCountedNext(inspected'[j].ev.n) =>
            lastOOM'[inspected'[j].ev.of] # 0 /\ now' - lastOOM'[inspected'[j].ev.of] <= InspectTimeout
    <3> SUFFICES ASSUME NEW j \in 1 .. Len(inspected'), inspected'[j].ev.action = "die",
                        KillCountedNext(inspected'[j].ev.n)
                 PROVE  lastOOM[inspected'[j].ev.of] # 0
                        /\ now - lastOOM[inspected'[j].ev.of] <= InspectTimeout
      BY <1>2
    <3>1. CASE j \in 1 .. Len(inspected) /\ inspected'[j].ev = inspected[j].ev
      <4>1. inspected[j].ev.action = "die" /\ KillCounted(inspected[j].ev.n)
        BY <1>4, <3>1
      <4> QED
        BY <3>1, <4>1 DEF Incidents, KillsRemembered
    <3>2. CASE inspected'[j].ev = i.ev
      BY <1>4, <2>3, <3>2
    <3> QED
      BY <1>3, <3>1, <3>2
  <2> QED
    BY <2>1, <2>2, <2>4 DEF KillsRemembered, KillCounted, KillCountedNext
<1>8. OneIncidentOnce'
  BY <1>2 DEF Incidents, OneIncidentOnce
<1> QED
  BY <1>5, <1>6, <1>7, <1>8 DEF Incidents

\* Time passes only when the loop has caught up.
LEMMA IncidentsPass ==
    ASSUME RulesInv, Incidents, Pass
    PROVE  Incidents'
<1>1. /\ events' = << >> /\ inspected' = << >>
      /\ UNCHANGED <<inspecting, counted, lastOOM, number>>
  BY Zenon DEF Pass, Inside, memory
<1>2. Numbered'
  BY <1>1, NothingQueued DEF Incidents, Numbered
<1>3. KillsComeFirst'
  BY <1>1, NothingQueued DEF Incidents, KillsComeFirst
<1>4. KillsRemembered'
  <2>1. \A x \in inspecting' :
          x.ev.action = "die" /\ KillCountedNext(x.ev.n) => x.since <= lastOOM'[x.ev.of]
    BY <1>1 DEF Incidents, KillsRemembered, KillCounted, KillCountedNext
  <2>2. (\A i \in 1 .. Len(events') : FALSE) /\ (\A i \in 1 .. Len(inspected') : FALSE)
    BY <1>1, NothingQueued
  <2> QED
    BY <2>1, <2>2 DEF KillsRemembered, KillCounted, KillCountedNext
<1>5. OneIncidentOnce'
  BY <1>1 DEF Incidents, OneIncidentOnce
<1> QED
  BY <1>2, <1>3, <1>4, <1>5 DEF Incidents

\* What happens next has a number of its own; a kill comes with its death.
LEMMA IncidentsOccur ==
    ASSUME RulesInv, Incidents, NEW evs \in Seq(Event), Occur(evs),
           \A j \in 1 .. Len(evs) :
             evs[j].n = number + 1 /\ (evs[j].action = "oom" => evs[j].told /\ evs[j].bad),
           \A i, j \in 1 .. Len(evs) : i < j =>
             evs[i].action = "oom" /\ evs[j].action = "die" /\ evs[i].of = evs[j].of
    PROVE  Incidents'
<1>1. /\ now \in Nat \ {0} /\ number \in Nat /\ Len(events) \in Nat
      /\ \A i \in 1 .. Len(events) : events[i] \in Event
  BY IncidentTypes
<1>2. /\ number' = number + 1 /\ events' \in {events, events \o evs}
      /\ UNCHANGED <<inspecting, inspected, counted, lastOOM, now>>
  BY Zenon DEF Occur, Inside, memory, around
<1>3. \A i \in 1 .. Len(events') :
        \/ i \in 1 .. Len(events) /\ events'[i] = events[i]
        \/ i - Len(events) \in 1 .. Len(evs) /\ events'[i] = evs[i - Len(events)]
  <2>1. CASE events' = events
    BY <2>1
  <2>2. CASE events' = events \o evs
    <3>1. events \in Seq(Event) /\ Len(evs) \in Nat
      BY LenProperties DEF RulesInv, Typed, ChannelsTyped
    <3>2. /\ Len(events') = Len(events) + Len(evs)
          /\ \A i \in 1 .. Len(events) + Len(evs) :
               events'[i] = IF i <= Len(events) THEN events[i] ELSE evs[i - Len(events)]
      BY <2>2, <3>1, ConcatProperties
    <3> QED
      BY <1>1, <3>1, <3>2
  <2> QED
    BY <1>2, <2>1, <2>2
<1>4. Unheard(number + 1)
  BY <1>1 DEF Incidents, Numbered, Unheard
<1>5. ~KillCounted(number + 1)
  <2> SUFFICES ASSUME NEW id \in RuleIds, <<id, number + 1, "oom">> \in counted PROVE FALSE
    BY DEF KillCounted
  <2>1. <<id, number + 1, "oom">> \in RuleIds \X (1 .. number) \X Kinds
    BY DEF Incidents, Numbered
  <2>2. number + 1 \in 1 .. number
    BY <2>1
  <2> QED
    BY <1>1, <2>2
<1>6. \A n : (Unheard(n) => UnheardNext(n)) /\ (KillCountedNext(n) <=> KillCounted(n))
  BY <1>2 DEF Unheard, KillCounted, UnheardNext, KillCountedNext
<1>7. \A i \in 1 .. Len(events) : events[i].n <= number /\ events[i].n \in Nat
  BY <1>1, EventFields DEF Incidents, Numbered
<1>8. Numbered'
  <2>1. \A i \in 1 .. Len(events') : events'[i].n <= number'
    BY <1>1, <1>2, <1>3, <1>7
  <2>2. \A x \in inspecting : x.ev \in Event /\ x.ev.n \in Nat /\ x.ev.n <= number
    BY IncidentTypes, EventFields DEF Incidents, Numbered
  <2>3. \A i \in 1 .. Len(inspected) :
          inspected[i].ev \in Event /\ inspected[i].ev.n \in Nat /\ inspected[i].ev.n <= number
    BY IncidentTypes, EventFields DEF Incidents, Numbered
  <2>4. counted' \subseteq RuleIds \X (1 .. number') \X Kinds
    <3>1. 1 .. number \subseteq 1 .. number'
      BY <1>1, <1>2
    <3> QED
      BY <1>2, <3>1 DEF Incidents, Numbered
  <2> QED
    BY <1>1, <1>2, <2>1, <2>2, <2>3, <2>4 DEF Numbered
<1>9. KillsComeFirst'
  <2>1. ASSUME NEW i \in 1 .. Len(events'), NEW j \in 1 .. Len(events'), i < j,
               events'[i].n = events'[j].n
        PROVE  events'[i].action = "oom" /\ events'[j].action = "die" /\ events'[i].of = events'[j].of
    <3>1. CASE j \in 1 .. Len(events) /\ events'[j] = events[j]
      <4>1. i \in 1 .. Len(events) /\ events'[i] = events[i]
        BY <1>1, <1>3, <2>1, <3>1
      <4> QED
        BY <2>1, <3>1, <4>1 DEF Incidents, KillsComeFirst
    <3>2. CASE j - Len(events) \in 1 .. Len(evs) /\ events'[j] = evs[j - Len(events)]
      <4>1. events'[j].n = number + 1
        BY <3>2
      <4>2. i - Len(events) \in 1 .. Len(evs) /\ events'[i] = evs[i - Len(events)]
        <5>1. ASSUME i \in 1 .. Len(events), events'[i] = events[i] PROVE FALSE
          <6>1. events[i].n <= number /\ events[i].n \in Nat /\ events[i].n = number + 1
            BY <1>7, <2>1, <4>1, <5>1
          <6> QED
            BY <1>1, <6>1
        <5> QED
          BY <1>3, <5>1
      <4>3. i - Len(events) < j - Len(events)
        BY <1>1, <2>1
      <4> QED
        BY <3>2, <4>2, <4>3
    <3> QED
      BY <1>3, <3>1, <3>2
  <2>2. ASSUME NEW i \in 1 .. Len(events'), events'[i].action = "oom"
        PROVE  events'[i].told /\ events'[i].bad /\ UnheardNext(events'[i].n)
    <3>1. CASE i \in 1 .. Len(events) /\ events'[i] = events[i]
      BY <1>6, <2>2, <3>1 DEF Incidents, KillsComeFirst
    <3>2. CASE i - Len(events) \in 1 .. Len(evs) /\ events'[i] = evs[i - Len(events)]
      BY <1>4, <1>6, <2>2, <3>2
    <3> QED
      BY <1>3, <3>1, <3>2
  <2>3. /\ \A x \in inspecting' : x.ev.action # "oom"
        /\ \A i \in 1 .. Len(inspected') : inspected'[i].ev.action # "oom"
    BY <1>2 DEF Incidents, KillsComeFirst
  <2> QED
    BY <2>1, <2>2, <2>3 DEF KillsComeFirst, Unheard, UnheardNext
<1>10. KillsRemembered'
  <2>1. ASSUME NEW i \in 1 .. Len(events'), events'[i].action = "die", KillCountedNext(events'[i].n)
        PROVE  lastOOM'[events'[i].of] = now'
    <3>1. i \in 1 .. Len(events) /\ events'[i] = events[i]
      BY SMTT(30), <1>3, <1>5, <1>6, <2>1
    <3> QED
      BY <1>2, <1>6, <2>1, <3>1 DEF Incidents, KillsRemembered
  <2>2. \A x \in inspecting' :
          x.ev.action = "die" /\ KillCountedNext(x.ev.n) => x.since <= lastOOM'[x.ev.of]
    BY <1>2, <1>6 DEF Incidents, KillsRemembered
  <2>3. \A i \in 1 .. Len(inspected') :
          inspected'[i].ev.action = "die" /\ KillCountedNext(inspected'[i].ev.n) =>
            lastOOM'[inspected'[i].ev.of] # 0 /\ now' - lastOOM'[inspected'[i].ev.of] <= InspectTimeout
    BY <1>2, <1>6 DEF Incidents, KillsRemembered
  <2> QED
    BY <2>1, <2>2, <2>3 DEF KillsRemembered, KillCounted, KillCountedNext
<1>11. OneIncidentOnce'
  BY <1>2 DEF Incidents, OneIncidentOnce
<1> QED
  BY <1>8, <1>9, <1>10, <1>11 DEF Incidents

\* A record counts a death after its kill for no rule that watches both.
CountingRules(ev, kind) ==
    {id \in RuleIds : /\ Watches(id, kind, NameOf[ev.of]) /\ WatchesBoth(id)
                      /\ ~(kind = "die" /\ JustKilled(ev.of))}
LEMMA RecordCounts ==
    ASSUME NEW ev, NEW kind, NEW n, n = ev.n, RecordEventMatch(ev, kind)
    PROVE  /\ lastOOM' = IF kind = "oom" THEN [lastOOM EXCEPT ![ev.of] = now] ELSE lastOOM
           /\ counted' = counted \union {<<id, n, kind>> : id \in CountingRules(ev, kind)}
           /\ CountingRules(ev, kind) \in SUBSET RuleIds
           /\ kind = "die" /\ JustKilled(ev.of) => CountingRules(ev, kind) = {}
<1>1. lastOOM' = IF kind = "oom" THEN [lastOOM EXCEPT ![ev.of] = now] ELSE lastOOM
  BY Zenon DEF RecordEventMatch
<1>2. counted' = counted \union {<<id, n, kind>> : id \in CountingRules(ev, kind)}
  <2> DEFINE matched == {id \in RuleIds : /\ Watches(id, kind, NameOf[ev.of])
                                          /\ ~(kind = "die" /\ WatchesBoth(id) /\ JustKilled(ev.of))}
             M == {i \in matched : WatchesBoth(i)}
  <2>1. counted' = counted \union {<<id, ev.n, kind>> : id \in M}
    BY Zenon DEF RecordEventMatch
  <2>2. M = CountingRules(ev, kind)
    BY DEF CountingRules
  <2> HIDE DEF M
  <2> QED
    BY <2>1, <2>2
<1>3. CountingRules(ev, kind) \in SUBSET RuleIds
  BY DEF CountingRules
<1>4. kind = "die" /\ JustKilled(ev.of) => CountingRules(ev, kind) = {}
  BY DEF CountingRules
<1> QED
  BY <1>1, <1>2, <1>3, <1>4

LEMMA CountedGrows ==
    ASSUME RulesInv, Incidents, NEW n \in 1 .. number, NEW kind \in Kinds, NEW M \in SUBSET RuleIds,
           counted' = counted \union {<<id, n, kind>> : id \in M},
           kind = "die" /\ KillCounted(n) => M = {},
           kind = "oom" => \A id \in RuleIds : <<id, n, "die">> \notin counted,
           UNCHANGED number
    PROVE  /\ OneIncidentOnce' /\ counted' \subseteq RuleIds \X (1 .. number') \X Kinds
           /\ \A m : m # n \/ kind # "oom" => (KillCountedNext(m) <=> KillCounted(m))
           /\ \A m, id : <<id, m, "die">> \in counted' =>
                <<id, m, "die">> \in counted \/ (kind = "die" /\ m = n)
<1>1. \A id, m, k : <<id, m, k>> \in counted' <=>
        <<id, m, k>> \in counted \/ (id \in M /\ m = n /\ k = kind)
  OBVIOUS
<1>2. OneIncidentOnce'
  <2> SUFFICES ASSUME NEW id \in RuleIds, NEW m \in 1 .. MaxEvents,
                      <<id, m, "oom">> \in counted', <<id, m, "die">> \in counted'
               PROVE  FALSE
    BY DEF OneIncidentOnce
  <2>1. ~(<<id, m, "oom">> \in counted /\ <<id, m, "die">> \in counted)
    BY DEF Incidents, OneIncidentOnce
  <2>2. CASE <<id, m, "oom">> \in counted /\ <<id, m, "die">> \notin counted
    <3>1. id \in M /\ m = n /\ kind = "die"
      BY <1>1, <2>2
    <3> QED
      BY <2>2, <3>1 DEF KillCounted
  <2>3. CASE <<id, m, "oom">> \notin counted
    <3>1. id \in M /\ m = n /\ kind = "oom"
      BY <1>1, <2>3
    <3> QED
      BY <1>1, <3>1
  <2> QED
    BY <2>1, <2>2, <2>3
<1>3. counted' \subseteq RuleIds \X (1 .. number') \X Kinds
  BY DEF Incidents, Numbered
<1>4. \A m : m # n \/ kind # "oom" => (KillCountedNext(m) <=> KillCounted(m))
  BY <1>1 DEF KillCountedNext, KillCounted
<1> QED
  BY <1>1, <1>2, <1>3, <1>4

\* The first event of the stream leaves it.
LEMMA EventLeaves ==
    ASSUME RulesInv, Incidents, events # << >>, events' = Tail(events)
    PROVE  /\ Head(events) = events[1] /\ events[1] \in Event /\ 1 \in 1 .. Len(events)
           /\ \A i \in 1 .. Len(events') :
                i + 1 \in 1 .. Len(events) /\ 1 < i + 1 /\ events'[i] = events[i + 1]
           /\ \A i, j \in 1 .. Len(events') : i < j /\ events'[i].n = events'[j].n =>
                events'[i].action = "oom" /\ events'[j].action = "die" /\ events'[i].of = events'[j].of
<1>1. events \in Seq(Event)
  BY DEF RulesInv, Typed, ChannelsTyped
<1>2. /\ Head(events) \in Event /\ Head(events) = events[1] /\ Len(events') = Len(events) - 1
      /\ Len(events) \in Nat \ {0} /\ \A i \in 1 .. Len(events') : events'[i] = events[i + 1]
  BY <1>1, QueueTail
<1>3. \A i \in 1 .. Len(events') : i + 1 \in 1 .. Len(events) /\ 1 < i + 1
  BY <1>2
<1>4. ASSUME NEW i \in 1 .. Len(events'), NEW j \in 1 .. Len(events'), i < j,
             events'[i].n = events'[j].n
      PROVE  events'[i].action = "oom" /\ events'[j].action = "die" /\ events'[i].of = events'[j].of
  <2>1. i + 1 < j + 1
    BY <1>2, <1>4
  <2> QED
    BY <1>2, <1>3, <1>4, <2>1 DEF Incidents, KillsComeFirst
<1> QED
  BY <1>2, <1>3, <1>4

\* The invariant of the next state, part by part.
LEMMA IncidentsFollow ==
    ASSUME /\ \A i \in 1 .. Len(events') : events'[i].n <= number'
           /\ \A x \in inspecting' : x.ev.n <= number'
           /\ \A i \in 1 .. Len(inspected') : inspected'[i].ev.n <= number',
           counted' \subseteq RuleIds \X (1 .. number') \X Kinds,
           \A i, j \in 1 .. Len(events') : i < j /\ events'[i].n = events'[j].n =>
             events'[i].action = "oom" /\ events'[j].action = "die" /\ events'[i].of = events'[j].of,
           \A i \in 1 .. Len(events') : events'[i].action = "oom" =>
             events'[i].told /\ events'[i].bad /\ UnheardNext(events'[i].n),
           \A x \in inspecting' : x.ev.action # "oom",
           \A i \in 1 .. Len(inspected') : inspected'[i].ev.action # "oom",
           \A i \in 1 .. Len(events') :
             events'[i].action = "die" /\ KillCountedNext(events'[i].n) => lastOOM'[events'[i].of] = now',
           \A x \in inspecting' :
             x.ev.action = "die" /\ KillCountedNext(x.ev.n) => x.since <= lastOOM'[x.ev.of],
           \A i \in 1 .. Len(inspected') :
             inspected'[i].ev.action = "die" /\ KillCountedNext(inspected'[i].ev.n) =>
               /\ lastOOM'[inspected'[i].ev.of] # 0
               /\ now' - lastOOM'[inspected'[i].ev.of] <= InspectTimeout,
           OneIncidentOnce'
    PROVE  Incidents'
<1>1. Numbered'
  BY Zenon DEF Numbered
<1>2. KillsComeFirst'
  BY Zenon DEF KillsComeFirst, Unheard, UnheardNext
<1>3. KillsRemembered'
  BY Zenon DEF KillsRemembered, KillCounted, KillCountedNext
<1> QED
  BY <1>1, <1>2, <1>3 DEF Incidents

LEMMA IncidentsRecord ==
    ASSUME RulesInv, Incidents, events # << >>, events' = Tail(events), NEW ev, ev = Head(events),
           ev.told, ev.bad, NEW kind, kind = IF ev.action = "health" THEN "unhealthy" ELSE ev.action,
           RecordEventMatch(ev, kind), UNCHANGED <<inspecting, inspected, number, now>>
    PROVE  Incidents'
<1>1. /\ now \in Nat \ {0} /\ number \in Nat /\ lastOOM \in [Containers -> 0 .. now]
      /\ Len(events) \in Nat
      /\ \A i \in 1 .. Len(events) : events[i] \in Event
      /\ \A x \in inspecting : x.ev \in Event /\ x.since \in 1 .. now /\ now - x.since <= InspectTimeout
      /\ \A i \in 1 .. Len(inspected) : inspected[i].ev \in Event
  BY IncidentTypes
<1>2. /\ ev = events[1] /\ ev \in Event /\ 1 \in 1 .. Len(events)
      /\ \A i \in 1 .. Len(events') :
           i + 1 \in 1 .. Len(events) /\ 1 < i + 1 /\ events'[i] = events[i + 1]
  BY EventLeaves
<1>3. \A i, j \in 1 .. Len(events') : i < j /\ events'[i].n = events'[j].n =>
        events'[i].action = "oom" /\ events'[j].action = "die" /\ events'[i].of = events'[j].of
  BY EventLeaves
<1>4. PICK n : n = ev.n /\ n \in 1 .. number /\ ev.of \in Containers
  <2>1. ev.n \in 1 .. MaxEvents /\ ev.n <= number /\ ev.of \in Containers
    BY <1>2, EventFields DEF Incidents, Numbered
  <2> QED
    BY <1>1, <2>1
<1>5. /\ kind \in Kinds /\ (kind = "die" <=> ev.action = "die") /\ (kind = "oom" <=> ev.action = "oom")
  BY <1>2, EventFields DEF Kinds
<1>6. PICK M \in SUBSET RuleIds :
        /\ counted' = counted \union {<<id, n, kind>> : id \in M}
        /\ kind = "die" /\ JustKilled(ev.of) => M = {}
  <2>1. PICK M : M = CountingRules(ev, kind)
    OBVIOUS
  <2>2. /\ M \in SUBSET RuleIds /\ counted' = counted \union {<<id, n, kind>> : id \in M}
        /\ kind = "die" /\ JustKilled(ev.of) => M = {}
    BY <1>4, <2>1, RecordCounts
  <2> QED
    BY <2>2
<1>7. lastOOM' = IF kind = "oom" THEN [lastOOM EXCEPT ![ev.of] = now] ELSE lastOOM
  BY RecordCounts
<1>8. kind = "die" /\ KillCounted(n) => M = {}
  <2>1. kind = "die" /\ KillCounted(n) => lastOOM[ev.of] = now
    BY <1>2, <1>4, <1>5 DEF Incidents, KillsRemembered
  <2>2. lastOOM[ev.of] = now => JustKilled(ev.of)
    BY <1>1, Sizes DEF JustKilled
  <2> QED
    BY <1>6, <2>1, <2>2
<1>9. kind = "oom" => Unheard(n)
  BY <1>2, <1>4, <1>5 DEF Incidents, KillsComeFirst
<1>10. /\ OneIncidentOnce' /\ counted' \subseteq RuleIds \X (1 .. number') \X Kinds
       /\ \A m : m # n \/ kind # "oom" => (KillCountedNext(m) <=> KillCounted(m))
       /\ \A m, id : <<id, m, "die">> \in counted' =>
            <<id, m, "die">> \in counted \/ (kind = "die" /\ m = n)
  <2>1. kind = "oom" => \A id \in RuleIds : <<id, n, "die">> \notin counted
    BY <1>9 DEF Unheard
  <2> QED
    BY <1>4, <1>5, <1>6, <1>8, <2>1, CountedGrows
\* A later event with the number of this one is the death of this kill.
<1>11. \A i \in 1 .. Len(events') : events'[i].n = n =>
         ev.action = "oom" /\ events'[i].action = "die" /\ events'[i].of = ev.of
  BY <1>2, <1>4 DEF Incidents, KillsComeFirst
<1>12. ASSUME NEW c \in Containers
       PROVE  lastOOM'[c] \in 0 .. now /\ lastOOM'[c] \in {lastOOM[c], now}
              /\ (kind = "oom" /\ c = ev.of => lastOOM'[c] = now)
  BY <1>1, <1>4, <1>7
<1>13. ASSUME NEW i \in 1 .. Len(events'), events'[i].action = "oom"
       PROVE  events'[i].told /\ events'[i].bad /\ UnheardNext(events'[i].n)
  <2>1. events'[i].told /\ events'[i].bad /\ Unheard(events'[i].n)
    BY <1>2, <1>13 DEF Incidents, KillsComeFirst
  <2>2. kind = "die" => events'[i].n # n
    BY <1>5, <1>11, <1>13
  <2> QED
    BY <1>10, <2>1, <2>2 DEF Unheard, UnheardNext
<1>14. ASSUME NEW i \in 1 .. Len(events'), events'[i].action = "die", KillCountedNext(events'[i].n)
       PROVE  lastOOM'[events'[i].of] = now'
  <2>1. PICK e : e = events'[i] /\ e = events[i + 1] /\ e \in Event /\ e.of \in Containers
    BY <1>1, <1>2, EventFields
  <2>2. CASE KillCounted(e.n)
    <3>1. lastOOM[e.of] = now
      BY <1>2, <1>14, <2>1, <2>2 DEF Incidents, KillsRemembered
    <3> QED
      BY <1>12, <2>1, <3>1
  <2>3. CASE ~KillCounted(e.n)
    <3>1. e.n = n /\ kind = "oom"
      BY <1>10, <1>14, <2>1, <2>3
    <3>2. e.of = ev.of
      BY <1>11, <2>1, <3>1
    <3> QED
      BY <1>12, <2>1, <3>1, <3>2
  <2> QED
    BY <2>2, <2>3
<1>15. \A m : Unheard(m) \/ KillCountedNext(m) => m = n \/ ~KillCountedNext(m) \/ KillCounted(m)
  BY <1>10
<1>16. ASSUME NEW x \in inspecting, x.ev.action = "die", KillCountedNext(x.ev.n)
       PROVE  x.since <= lastOOM'[x.ev.of]
  <2>1. KillCounted(x.ev.n)
    BY <1>9, <1>10, <1>16 DEF Unheard
  <2>2. x.since <= lastOOM[x.ev.of] /\ x.since \in 1 .. now /\ x.ev.of \in Containers
    BY <1>1, <1>16, <2>1, EventFields DEF Incidents, KillsRemembered
  <2> QED
    BY <1>1, <1>12, <2>2
<1>17. ASSUME NEW i \in 1 .. Len(inspected), inspected[i].ev.action = "die",
              KillCountedNext(inspected[i].ev.n)
       PROVE  lastOOM'[inspected[i].ev.of] # 0 /\ now - lastOOM'[inspected[i].ev.of] <= InspectTimeout
  <2>1. KillCounted(inspected[i].ev.n)
    BY <1>9, <1>10, <1>17 DEF Unheard
  <2>2. PICK c : c = inspected[i].ev.of /\ c \in Containers
                 /\ lastOOM[c] # 0 /\ now - lastOOM[c] <= InspectTimeout
    BY <1>1, <1>17, <2>1, EventFields DEF Incidents, KillsRemembered
  <2> QED
    BY <1>1, <1>12, <2>2, Sizes
<1>18. /\ \A i \in 1 .. Len(events') : events'[i].n <= number'
       /\ \A x \in inspecting' : x.ev.n <= number'
       /\ \A i \in 1 .. Len(inspected') : inspected'[i].ev.n <= number'
  BY <1>2 DEF Incidents, Numbered
<1>19. /\ \A x \in inspecting' : x.ev.action # "oom"
       /\ \A i \in 1 .. Len(inspected') : inspected'[i].ev.action # "oom"
  BY DEF Incidents, KillsComeFirst
<1> QED
  BY <1>3, <1>10, <1>13, <1>14, <1>16, <1>17, <1>18, <1>19, IncidentsFollow

\* An event that is no match, or is looked up.
LEMMA IncidentsLookUp ==
    ASSUME RulesInv, Incidents, events # << >>, events' = Tail(events), NEW ev, ev = Head(events),
           \/ inspecting' = inspecting
           \/ ~ev.told /\ inspecting' = inspecting \union {[ev |-> ev, since |-> now]},
           UNCHANGED <<inspected, number, now, counted, lastOOM>>
    PROVE  Incidents'
<1>1. /\ now \in Nat \ {0} /\ number \in Nat /\ lastOOM \in [Containers -> 0 .. now]
      /\ \A i \in 1 .. Len(events) : events[i] \in Event
  BY IncidentTypes
<1>2. /\ ev = events[1] /\ ev \in Event /\ 1 \in 1 .. Len(events)
      /\ \A i \in 1 .. Len(events') :
           i + 1 \in 1 .. Len(events) /\ 1 < i + 1 /\ events'[i] = events[i + 1]
  BY EventLeaves
<1>3. \A i, j \in 1 .. Len(events') : i < j /\ events'[i].n = events'[j].n =>
        events'[i].action = "oom" /\ events'[j].action = "die" /\ events'[i].of = events'[j].of
  BY EventLeaves
<1>4. \A m : KillCountedNext(m) <=> KillCounted(m)
  BY DEF KillCountedNext, KillCounted
<1>5. ASSUME NEW x \in inspecting'
      PROVE  x \in inspecting \/ (~ev.told /\ x.ev = ev /\ x.since = now)
  BY <1>5
<1>6. ev.action = "oom" => ev.told
  BY <1>2 DEF Incidents, KillsComeFirst
<1>7. ASSUME NEW i \in 1 .. Len(events'), events'[i].action = "oom"
      PROVE  events'[i].told /\ events'[i].bad /\ UnheardNext(events'[i].n)
  <2>1. events'[i].told /\ events'[i].bad /\ Unheard(events'[i].n)
    BY <1>2, <1>7 DEF Incidents, KillsComeFirst
  <2>2. ~ev.told => events'[i].n # ev.n
    BY <1>2, <1>6, <1>7 DEF Incidents, KillsComeFirst
  <2> QED
    BY <1>5, <2>1, <2>2 DEF Unheard, UnheardNext
<1>8. ASSUME NEW i \in 1 .. Len(events'), events'[i].action = "die", KillCountedNext(events'[i].n)
      PROVE  lastOOM'[events'[i].of] = now'
  BY <1>2, <1>4, <1>8 DEF Incidents, KillsRemembered
<1>9. ASSUME NEW x \in inspecting', x.ev.action = "die", KillCountedNext(x.ev.n)
      PROVE  x.since <= lastOOM'[x.ev.of]
  <2>1. CASE x \in inspecting
    BY <1>4, <1>9, <2>1 DEF Incidents, KillsRemembered
  <2>2. CASE x.ev = ev /\ x.since = now
    <3>1. lastOOM[ev.of] = now
      BY <1>2, <1>4, <1>9, <2>2 DEF Incidents, KillsRemembered
    <3> QED
      BY <1>1, <2>2, <3>1
  <2> QED
    BY <1>5, <2>1, <2>2
<1>10. ASSUME NEW i \in 1 .. Len(inspected), inspected[i].ev.action = "die",
              KillCountedNext(inspected[i].ev.n)
       PROVE  lastOOM'[inspected[i].ev.of] # 0 /\ now - lastOOM'[inspected[i].ev.of] <= InspectTimeout
  BY <1>4, <1>10 DEF Incidents, KillsRemembered
<1>11. /\ \A i \in 1 .. Len(events') : events'[i].n <= number'
       /\ \A x \in inspecting' : x.ev.n <= number'
       /\ \A i \in 1 .. Len(inspected') : inspected'[i].ev.n <= number'
  BY <1>2, <1>5 DEF Incidents, Numbered
<1>12. /\ \A x \in inspecting' : x.ev.action # "oom"
       /\ \A i \in 1 .. Len(inspected') : inspected'[i].ev.action # "oom"
  BY <1>5, <1>6 DEF Incidents, KillsComeFirst
<1>13. OneIncidentOnce' /\ counted' \subseteq RuleIds \X (1 .. number') \X Kinds
  BY DEF Incidents, OneIncidentOnce, Numbered
<1> QED
  BY <1>3, <1>7, <1>8, <1>9, <1>10, <1>11, <1>12, <1>13, IncidentsFollow

\* The first result of the look-ups leaves the channel.
LEMMA ResultLeaves ==
    ASSUME RulesInv, inspected # << >>, inspected' = Tail(inspected)
    PROVE  /\ Head(inspected) = inspected[1] /\ inspected[1].ev \in Event /\ 1 \in 1 .. Len(inspected)
           /\ \A i \in 1 .. Len(inspected') :
                i + 1 \in 1 .. Len(inspected) /\ inspected'[i] = inspected[i + 1]
<1>1. inspected \in Seq(Result)
  BY DEF RulesInv, Typed, ChannelsTyped
<1>2. /\ Head(inspected) \in Result /\ Head(inspected) = inspected[1]
      /\ Len(inspected') = Len(inspected) - 1 /\ Len(inspected) \in Nat \ {0}
      /\ \A i \in 1 .. Len(inspected') : inspected'[i] = inspected[i + 1]
  BY <1>1, QueueTail
<1>3. \A i \in 1 .. Len(inspected') : i + 1 \in 1 .. Len(inspected)
  BY <1>2
<1> QED
  BY <1>2, <1>3 DEF Result

\* What a look-up found is no match, or is recorded; a death whose kill has been
\* counted comes back within the window.
LEMMA IncidentsResult ==
    ASSUME RulesInv, Incidents, inspected # << >>, inspected' = Tail(inspected),
           NEW ev, ev = inspected[1].ev,
           NEW kind, kind = IF ev.action = "health" THEN "unhealthy" ELSE "die",
           RecordEventMatch(ev, kind) \/ UNCHANGED <<counted, lastOOM>>,
           UNCHANGED <<events, inspecting, number, now>>
    PROVE  Incidents'
<1>1. /\ now \in Nat \ {0} /\ number \in Nat /\ lastOOM \in [Containers -> 0 .. now]
      /\ Len(inspected) \in Nat
  BY IncidentTypes
<1>2. /\ ev \in Event /\ 1 \in 1 .. Len(inspected)
      /\ \A i \in 1 .. Len(inspected') :
           i + 1 \in 1 .. Len(inspected) /\ inspected'[i] = inspected[i + 1]
  BY ResultLeaves
<1>3. PICK n : n = ev.n /\ n \in 1 .. number /\ ev.of \in Containers
  <2>1. ev.n \in 1 .. MaxEvents /\ ev.n <= number /\ ev.of \in Containers
    BY <1>2, EventFields DEF Incidents, Numbered
  <2> QED
    BY <1>1, <2>1
<1>4. kind \in Kinds /\ (kind = "die" <=> ev.action = "die") /\ kind # "oom"
  <2>1. ev.action # "oom"
    BY <1>2 DEF Incidents, KillsComeFirst
  <2> QED
    BY <1>2, <2>1, EventFields DEF Kinds
<1>5. lastOOM' = lastOOM
  BY <1>4, RecordCounts, Zenon
<1>6. PICK M \in SUBSET RuleIds :
        /\ counted' = counted \union {<<id, n, kind>> : id \in M}
        /\ kind = "die" /\ JustKilled(ev.of) => M = {}
  <2>1. CASE RecordEventMatch(ev, kind)
    <3>1. PICK M : M = CountingRules(ev, kind)
      OBVIOUS
    <3>2. /\ M \in SUBSET RuleIds /\ counted' = counted \union {<<id, n, kind>> : id \in M}
          /\ kind = "die" /\ JustKilled(ev.of) => M = {}
      BY <1>3, <2>1, <3>1, RecordCounts
    <3> QED
      BY <3>2
  <2>2. CASE counted' = counted
    <3> WITNESS {} \in SUBSET RuleIds
    <3> QED
      BY <2>2
  <2> QED
    BY <2>1, <2>2
<1>7. kind = "die" /\ KillCounted(n) => M = {}
  <2>1. kind = "die" /\ KillCounted(n) =>
          lastOOM[ev.of] # 0 /\ now - lastOOM[ev.of] <= InspectTimeout
    BY <1>2, <1>3, <1>4 DEF Incidents, KillsRemembered
  <2>2. lastOOM[ev.of] # 0 /\ now - lastOOM[ev.of] <= InspectTimeout => JustKilled(ev.of)
    BY <1>1, <1>3, Sizes, EngineAssumption DEF JustKilled
  <2> QED
    BY <1>6, <2>1, <2>2
<1>8. /\ OneIncidentOnce' /\ counted' \subseteq RuleIds \X (1 .. number') \X Kinds
      /\ \A m : KillCountedNext(m) <=> KillCounted(m)
      /\ \A m, id : <<id, m, "die">> \in counted' =>
           <<id, m, "die">> \in counted \/ (kind = "die" /\ m = n)
  BY <1>3, <1>4, <1>6, <1>7, CountedGrows
<1>9. ASSUME NEW i \in 1 .. Len(events'), events'[i].action = "oom"
      PROVE  events'[i].told /\ events'[i].bad /\ UnheardNext(events'[i].n)
  <2>1. events'[i].told /\ events'[i].bad /\ Unheard(events'[i].n)
    BY <1>9 DEF Incidents, KillsComeFirst
  <2>2. events'[i].n # n
    BY <1>2, <1>3, <2>1 DEF Unheard
  <2> QED
    BY <1>2, <1>8, <2>1, <2>2 DEF Unheard, UnheardNext
<1>10. \A i \in 1 .. Len(events') :
         events'[i].action = "die" /\ KillCountedNext(events'[i].n) => lastOOM'[events'[i].of] = now'
  BY <1>5, <1>8 DEF Incidents, KillsRemembered
<1>11. \A x \in inspecting' :
         x.ev.action = "die" /\ KillCountedNext(x.ev.n) => x.since <= lastOOM'[x.ev.of]
  BY <1>5, <1>8 DEF Incidents, KillsRemembered
<1>12. \A i \in 1 .. Len(inspected') :
         inspected'[i].ev.action = "die" /\ KillCountedNext(inspected'[i].ev.n) =>
           /\ lastOOM'[inspected'[i].ev.of] # 0
           /\ now' - lastOOM'[inspected'[i].ev.of] <= InspectTimeout
  BY <1>2, <1>5, <1>8 DEF Incidents, KillsRemembered
<1>13. /\ \A i \in 1 .. Len(events') : events'[i].n <= number'
       /\ \A x \in inspecting' : x.ev.n <= number'
       /\ \A i \in 1 .. Len(inspected') : inspected'[i].ev.n <= number'
  BY <1>2 DEF Incidents, Numbered
<1>14. /\ \A i, j \in 1 .. Len(events') : i < j /\ events'[i].n = events'[j].n =>
             events'[i].action = "oom" /\ events'[j].action = "die" /\ events'[i].of = events'[j].of
       /\ \A x \in inspecting' : x.ev.action # "oom"
       /\ \A i \in 1 .. Len(inspected') : inspected'[i].ev.action # "oom"
  BY <1>2 DEF Incidents, KillsComeFirst
<1> QED
  BY <1>8, <1>9, <1>10, <1>11, <1>12, <1>13, <1>14, IncidentsFollow

-----------------------------------------------------------------------------
LEMMA EventIncidents == RulesInv /\ Incidents /\ HandleEvent => Incidents'
<1> SUFFICES ASSUME RulesInv, Incidents, HandleEvent PROVE Incidents'
  OBVIOUS
<1>1. /\ events # << >> /\ events' = Tail(events)
      /\ UNCHANGED <<inspected, number, now>>
  BY Zenon DEF HandleEvent, around, bounds
<1>2. PICK ev : ev = Head(events)
  OBVIOUS
<1>3. PICK kind : kind = IF ev.action = "health" THEN "unhealthy" ELSE ev.action
  OBVIOUS
<1>4. \/ /\ ev.told /\ ev.bad /\ RecordEventMatch(ev, kind) /\ UNCHANGED inspecting
      \/ UNCHANGED <<memory, inspecting>>
      \/ ~ev.told /\ inspecting' = inspecting \union {[ev |-> ev, since |-> now]} /\ UNCHANGED memory
  BY <1>2, <1>3, Zenon DEF HandleEvent
<1>5. CASE ev.told /\ ev.bad /\ RecordEventMatch(ev, kind) /\ UNCHANGED inspecting
  BY <1>1, <1>2, <1>3, <1>5, IncidentsRecord
<1>6. CASE UNCHANGED <<memory, inspecting>>
  <2>1. UNCHANGED <<counted, lastOOM, inspecting>>
    BY <1>6, Zenon DEF memory
  <2> QED
    BY <1>1, <1>2, <2>1, IncidentsLookUp
<1>7. CASE ~ev.told /\ inspecting' = inspecting \union {[ev |-> ev, since |-> now]} /\ UNCHANGED memory
  <2>1. UNCHANGED <<counted, lastOOM>>
    BY <1>7, Zenon DEF memory
  <2> QED
    BY <1>1, <1>2, <1>7, <2>1, IncidentsLookUp
<1> QED
  BY <1>4, <1>5, <1>6, <1>7

LEMMA InspectIncidents == RulesInv /\ Incidents /\ HandleInspect => Incidents'
<1> SUFFICES ASSUME RulesInv, Incidents, HandleInspect PROVE Incidents'
  OBVIOUS
<1>1. /\ inspected # << >> /\ inspected' = Tail(inspected)
      /\ UNCHANGED <<events, inspecting, number, now>>
  BY Zenon DEF HandleInspect, around, bounds
<1>2. PICK r : r = Head(inspected) /\ r = inspected[1]
  BY <1>1, ResultLeaves
<1>3. PICK ev : ev = r.ev
  OBVIOUS
<1>4. PICK kind : kind = IF ev.action = "health" THEN "unhealthy" ELSE "die"
  OBVIOUS
<1>5. RecordEventMatch(ev, kind) \/ UNCHANGED memory
  BY <1>2, <1>3, <1>4, Zenon DEF HandleInspect
<1>6. RecordEventMatch(ev, kind) \/ UNCHANGED <<counted, lastOOM>>
  BY <1>5, Zenon DEF memory
<1> QED
  BY <1>1, <1>2, <1>3, <1>4, <1>6, IncidentsResult

LEMMA OccurIncidents ==
    ASSUME RulesInv, Incidents, NEW c \in Containers, NEW told \in BOOLEAN, NEW bad \in BOOLEAN,
           Exit(c, told, bad) \/ Health(c, told, bad) \/ OomKill(c, told)
    PROVE  Incidents'
<1>1. lines \in Nat /\ number \in Nat
  BY DEF RulesInv, Typed, ClockTyped
<1>2. number < MaxEvents
  <2>1. <<lines, number + 1>> \in Inputs
    BY DEF Exit, Health, OomKill, Occur
  <2> QED
    BY <1>1, <2>1, EventsBounded
<1>3. ASSUME NEW action \in {"die", "health"}, NEW e, e = Happened(action, c, told, bad), Occur(<<e>>)
      PROVE  Incidents'
  <2>1. e \in Event /\ e.n = number + 1 /\ e.action # "oom"
    <3>1. e \in Event
      BY <1>1, <1>2, <1>3, OccurTyped
    <3> QED
      BY <1>3, <3>1 DEF Happened
  <2>2. PICK evs : evs = <<e>>
    OBVIOUS
  <2>3. evs \in Seq(Event) /\ Len(evs) = 1 /\ evs[1] = e
    BY <2>1, <2>2, OneOrTwoQueued
  <2>4. \A j \in 1 .. Len(evs) : evs[j] = e
    BY <2>3
  <2>5. \A i, j \in 1 .. Len(evs) : ~(i < j)
    BY <2>3
  <2>6. Occur(evs)
    BY <1>3, <2>2
  <2> QED
    BY <2>1, <2>3, <2>4, <2>5, <2>6, IncidentsOccur
<1>4. ASSUME NEW k, NEW d, k = Happened("oom", c, TRUE, TRUE), d = Happened("die", c, told, TRUE),
             Occur(<<k, d>>)
      PROVE  Incidents'
  <2>1. k \in Event /\ d \in Event
    BY <1>1, <1>2, <1>4, OccurTyped
  <2>2. /\ k.n = number + 1 /\ k.action = "oom" /\ k.of = c /\ k.told /\ k.bad
        /\ d.n = number + 1 /\ d.action = "die" /\ d.of = c
    BY <1>4 DEF Happened
  <2>3. PICK evs : evs = <<k, d>>
    OBVIOUS
  <2>4. evs \in Seq(Event) /\ Len(evs) = 2 /\ evs[1] = k /\ evs[2] = d
    BY <2>1, <2>3, OneOrTwoQueued
  <2>5. \A j \in 1 .. Len(evs) : evs[j] = k \/ evs[j] = d
    BY <2>4
  <2>6. \A i, j \in 1 .. Len(evs) : i < j => evs[i] = k /\ evs[j] = d
    BY <2>4
  <2>7. Occur(evs)
    BY <1>4, <2>3
  <2>8. \A j \in 1 .. Len(evs) :
          evs[j].n = number + 1 /\ (evs[j].action = "oom" => evs[j].told /\ evs[j].bad)
    BY <2>2, <2>5
  <2>9. \A i, j \in 1 .. Len(evs) : i < j =>
          evs[i].action = "oom" /\ evs[j].action = "die" /\ evs[i].of = evs[j].of
    BY <2>2, <2>6
  <2> QED
    BY <2>4, <2>7, <2>8, <2>9, IncidentsOccur
<1> QED
  BY <1>3, <1>4 DEF Exit, Health, OomKill

\* A step that neither hears nor weighs an event.
LEMMA QuietIncidents ==
    ASSUME RulesInv, Incidents,
           \/ Begin \/ HandlePoke \/ HandleTick \/ HandleMatch \/ Shutdown
           \/ \E id \in RuleIds, c \in Containers : Sink(id, c)
           \/ Dispatch \/ Reconcile \/ Cancel
           \/ \E cfg \in Configs : SetRules(cfg)
           \/ \E client \in Clients : SwapClient(client)
           \/ UNCHANGED vars
    PROVE  Incidents'
<1>1. ASSUME UNCHANGED <<lastOOM, counted, inspecting, number, now>>,
             events' \in {events, << >>}, inspected' \in {inspected, << >>}
      PROVE  Incidents'
  BY <1>1, IncidentsStay
<1>2. CASE Begin \/ HandlePoke
  <2>1. UNCHANGED <<inspecting, inspected, number, now>> /\ ReconcileRules /\ events' \in {events, << >>}
    BY <1>2, Zenon DEF Begin, HandlePoke, CheckEventClient, around, bounds
  <2>2. UNCHANGED <<lastOOM, counted>>
    BY <2>1, Zenon DEF ReconcileRules
  <2> QED
    BY <1>1, <2>1, <2>2
<1>3. CASE HandleTick
  <2>1. /\ UNCHANGED <<inspecting, inspected, number, now, counted>> /\ events' \in {events, << >>}
        /\ lastOOM' = [c \in Containers |-> IF OomOld(lastOOM[c]) THEN 0 ELSE lastOOM[c]]
    BY <1>3, Zenon DEF HandleTick, Prune, CheckEventClient, around, bounds
  <2>2. \A c \in Containers : \/ lastOOM'[c] = lastOOM[c]
                              \/ lastOOM'[c] = 0 /\ now - lastOOM[c] > OomWindow
    BY <2>1 DEF OomOld
  <2> QED
    BY <2>1, <2>2, IncidentsStay
<1>4. CASE HandleMatch
  <2>1. UNCHANGED <<lastOOM, counted, inspecting, inspected, events, number, now>>
    BY <1>4, Zenon DEF HandleMatch, around, bounds
  <2> QED
    BY <1>1, <2>1
<1>5. CASE Shutdown
  <2>1. UNCHANGED <<lastOOM, counted, inspecting, events, number, now>> /\ inspected' = << >>
    BY <1>5, Zenon DEF Shutdown, around, memory, bounds
  <2> QED
    BY <1>1, <2>1
<1>6. ASSUME NEW id \in RuleIds, NEW c \in Containers, Sink(id, c) PROVE Incidents'
  <2>1. UNCHANGED <<lastOOM, counted, inspecting, inspected, events, number, now>>
    BY <1>6, Zenon DEF Sink, around, memory
  <2> QED
    BY <1>1, <2>1
<1>7. CASE Dispatch
  <2>1. UNCHANGED <<lastOOM, counted, inspecting, inspected, events, number, now>>
    BY <1>7, Zenon DEF Dispatch, around, memory, bounds
  <2> QED
    BY <1>1, <2>1
<1>8. CASE Reconcile
  <2>1. UNCHANGED <<lastOOM, counted, inspecting, inspected, events, number, now>>
    BY <1>8, Zenon DEF Reconcile, memory, bounds
  <2> QED
    BY <1>1, <2>1
<1>9. CASE Cancel
  <2>1. UNCHANGED <<lastOOM, counted, inspecting, inspected, events, number, now>>
    BY <1>9, Zenon DEF Cancel, Inside, memory
  <2> QED
    BY <1>1, <2>1
<1>10. ASSUME NEW cfg \in Configs, SetRules(cfg) PROVE Incidents'
  <2>1. UNCHANGED <<lastOOM, counted, inspecting, inspected, events, number, now>>
    BY <1>10, Zenon DEF SetRules, Inside, memory
  <2> QED
    BY <1>1, <2>1
<1>11. ASSUME NEW client \in Clients, SwapClient(client) PROVE Incidents'
  <2>1. UNCHANGED <<lastOOM, counted, inspecting, inspected, events, number, now>>
    BY <1>11, Zenon DEF SwapClient, Inside, memory
  <2> QED
    BY <1>1, <2>1
<1>12. CASE UNCHANGED vars
  <2>1. UNCHANGED <<lastOOM, counted, inspecting, inspected, events, number, now>>
    BY <1>12, Zenon DEF vars, around, memory, bounds
  <2> QED
    BY <1>1, <2>1
<1> QED
  BY <1>2, <1>3, <1>4, <1>5, <1>6, <1>7, <1>8, <1>9, <1>10, <1>11, <1>12

LEMMA IncidentsStep == RulesInv /\ Incidents /\ [Next]_vars => Incidents'
<1> SUFFICES ASSUME RulesInv, Incidents, [Next]_vars PROVE Incidents'
  OBVIOUS
<1>1. CASE LoopStep
  BY <1>1, EventIncidents, InspectIncidents, QuietIncidents DEF LoopStep
<1>2. CASE GoroutineStep
  BY <1>2, IncidentsReturn, QuietIncidents DEF GoroutineStep
<1>3. CASE AroundStep
  BY <1>3, OccurIncidents, IncidentsPass, QuietIncidents DEF AroundStep
<1>4. CASE UNCHANGED vars
  BY <1>4, QuietIncidents
<1> QED
  BY <1>1, <1>2, <1>3, <1>4 DEF Next

LEMMA WhenDueFollows == RulesInv /\ Incidents => AlertsWhenDue
<1> SUFFICES ASSUME RulesInv, Incidents PROVE AlertsWhenDue
  OBVIOUS
<1>1. ASSUME loop = "running", NEW k \in Keys, NEW i \in 1 .. Len(matches[k])
      PROVE  matches[k][i].alerted <=> Due(matches[k], i, DefinitionOf(k[1]))
  <2>1. KeySound(k)
    BY <1>1 DEF RulesInv, KeysSound
  <2>2. RuleOf(k[1]).def = DefinitionOf(k[1])
    BY DEF RuleOf, DefinitionOf
  <2>3. Weighed(matches[k], DefinitionOf(k[1]), now)
    BY <2>1, <2>2 DEF KeySound, KeyAt, HistoryAt
  <2> QED
    BY <2>3 DEF Weighed
<1>2. RaisedWhenDue
  BY <1>1 DEF RaisedWhenDue
<1>3. OneIncidentOnce
  BY DEF Incidents
<1> QED
  BY <1>2, <1>3 DEF AlertsWhenDue

\* Alerts are raised when they are due, and only then (alerts/engine.go, rules.go,
\* window.go): of all the matches of a rule and a container since the rule last changed
\* those raise an alert that complete the threshold within the window, with matches no
\* alert has used, outside the cooldown of every alert before, though the engine keeps
\* no more than a ring of the last ones and prunes it when it has been idle; and a rule
\* that watches deaths and OOM kills counts the death of a killed container never in
\* addition to the kill, even when the death has to be looked up and the windows are
\* pruned meanwhile.
THEOREM AlertsAreRaisedWhenDue == Spec => []AlertsWhenDue
<1>1. Init => RulesInv /\ Incidents
  BY InitSound, IncidentsInit
<1>2. RulesInv /\ Incidents /\ [Next]_vars => (RulesInv /\ Incidents)'
  BY StepSound, IncidentsStep
<1>3. RulesInv /\ Incidents => AlertsWhenDue
  BY WhenDueFollows
<1> QED
  BY <1>1, <1>2, <1>3, PTL DEF Spec

=============================================================================
