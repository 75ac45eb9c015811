---------------------------- MODULE AlertEngine ----------------------------
(***************************************************************************)
(* The alerting engine (internal/alerts: engine.go, rules.go): the run     *)
(* loop that owns the compiled rules, their log subscriptions, the match   *)
(* windows and the recent OOM kills, and around it the sinks called by the *)
(* log hub, the goroutines that inspect a container, the configuration and *)
(* the engine's events.                                                    *)
(*                                                                         *)
(* A line stands for one that passes its rule's level and pattern.         *)
(* Subscribing and unsubscribing wait for the hub and are one step here: a *)
(* sink is quiet once unsubscribed (module Subscription).  The stream of   *)
(* events closes only when its context is done, so the branch of the loop  *)
(* for a closed stream is left out.  Time is a clock that passes only when *)
(* the loop has caught up: its handlers never wait for anything that takes *)
(* as long as a unit of it.                                                *)
(***************************************************************************)
EXTENDS Naturals, Sequences, FiniteSets, SequencesExt, RuleWindow

CONSTANTS
    RuleIds, Containers, Names, Clients,
    FirstClient,    \* the client the server starts with
    NameOf,         \* name of each container
    Configs,        \* what the rule list may be: the definition of each rule or Off
    Off,            \* a rule that is disabled or not there
    None,           \* no subscription, no window
    FiredBuffer, InspectBuffer, DispatchBuffer,
    OomWindow,      \* oomDieWindow
    IdleTTL,        \* windowIdleTTL
    InspectTimeout,
    MaxTime,        \* bound of the model: the clock
    MaxChanges,     \* bound of the model: changes of rules and clients
    MaxEvents,      \* bound of the model: events of the engine
    Inputs          \* bound of the model: numbers of matching lines together with events

Definitions == (UNION {{cfg[id] : id \in RuleIds} : cfg \in Configs}) \ {Off}

\* A window of a rule that has observed a match.
WindowOf(def) ==
    [times : [0 .. def.threshold - 1 -> 0 .. MaxTime], head : 0 .. def.threshold - 1,
     count : 0 .. def.threshold, fired : BOOLEAN, lastFired : 0 .. MaxTime,
     suppressed : Nat, lastSeen : 1 .. MaxTime]

\* The API admits no window and no cooldown beyond windowIdleTTL (api/alerts_handlers.go).
ASSUME EngineAssumption ==
    /\ FirstClient \in Clients /\ IsFiniteSet(RuleIds)
    /\ NameOf \in [Containers -> Names]
    /\ \A def \in Definitions :
         /\ def.kind \in {"log", "event"} /\ def.events \subseteq {"die", "oom", "unhealthy"}
         /\ def.targets \subseteq Names /\ def.threshold \in Nat \ {0}
         /\ def.window \in 1 .. IdleTTL /\ def.cooldown \in 1 .. IdleTTL
         /\ None \notin WindowOf(def)
    /\ {FiredBuffer, InspectBuffer, DispatchBuffer} \subseteq Nat \ {0}
    /\ {OomWindow, IdleTTL, InspectTimeout, MaxTime, MaxChanges, MaxEvents} \subseteq Nat
    /\ Inputs \subseteq Nat \X (0 .. MaxEvents)
    /\ InspectTimeout < OomWindow /\ MaxTime # 0

VARIABLES
    (* around the engine *)
    now,
    config,         \* the rules of the configuration
    source,         \* the client the registry holds
    unpoked,        \* a change whose Reconcile has not been called yet
    cancelled,      \* the Start context is done
    events,         \* events not yet received from the open stream
    (* the run loop *)
    loop,           \* "starting", "running", "finished"
    poke,           \* reconcileCh holds a poke
    stream,         \* eventsClient
    subs,           \* definition and generation of each log rule's subscription
    gen,            \* the last generation given out
    eventRules,     \* definition of each event rule
    windows,        \* of each rule and container name
    lastOOM,        \* time of the last OOM kill of each container, 0 for none
    (* channels and goroutines *)
    fired,          \* firedCh
    inspecting,     \* container inspects under way, with the time they began
    inspected,      \* inspectCh
    dispatched,     \* number of alerts in dispatchCh
    dispatcher,     \* "running", "closed" once dispatchCh is, "finished"
    (* history and bounds *)
    feeds,          \* the definitions and generations whose matches a window has counted
    matches,        \* of each rule and name since the rule last changed: when a match was
                    \* weighed, and whether it raised an alert
    counted,        \* what rules watching both kinds have counted: rule, event number, kind
    owed,           \* numbers of the deaths heard and not yet weighed against the rules
    changes, lines, number

around == <<now, config, source, unpoked, cancelled>>
rules == <<subs, gen, eventRules>>
memory == <<windows, lastOOM, feeds, matches, counted>>
dispatch == <<dispatched, dispatcher>>
bounds == <<changes, lines, number>>
vars == <<around, events, loop, poke, stream, rules, memory, fired, inspecting, inspected,
          dispatch, owed, bounds>>

Keys == RuleIds \X Names
\* The death that may follow an OOM kill has the kill's number.
Event == [action : {"die", "oom", "health"}, of : Containers, n : 1 .. MaxEvents,
          told : BOOLEAN,   \* the event says the exit code or the health state
          bad : BOOLEAN]    \* which is not zero, or unhealthy
Match == [id : RuleIds, def : Definitions, gen : Nat, name : Names]
Result == [ev : Event, fire : BOOLEAN]

(***************************************************************************)
(* Windows.                                                                *)
(***************************************************************************)
\* One match of name by each rule in the domain of from: the definition and
\* the generation (0 for an event rule) the match is of.
Observe(name, from) ==
    LET win(id) == IF windows[<<id, name>>] = None THEN NewWindow(from[id].def) ELSE windows[<<id, name>>]
        hits    == {<<id, name>> : id \in DOMAIN from}
        fires   == {k \in hits : Fires(win(k[1]), from[k[1]].def, now)}
        sent    == dispatched + Cardinality(fires)
    IN  /\ windows' = [k \in Keys |-> IF k \in hits THEN Observed(win(k[1]), from[k[1]].def, now)
                                      ELSE windows[k]]
        /\ feeds' = [k \in Keys |-> IF k \in hits THEN feeds[k] \union {from[k[1]]} ELSE feeds[k]]
        /\ matches' = [k \in Keys |-> IF k \in hits
                                        THEN Append(matches[k], [at |-> now, alerted |-> k \in fires])
                                      ELSE matches[k]]
        /\ dispatched' = IF sent <= DispatchBuffer THEN sent ELSE DispatchBuffer
        /\ UNCHANGED dispatcher

\* The keys of the rules ids forget their matches.
Forget(ids) ==
    /\ windows' = [k \in Keys |-> IF k[1] \in ids THEN None ELSE windows[k]]
    /\ feeds' = [k \in Keys |-> IF k[1] \in ids THEN {} ELSE feeds[k]]
    /\ matches' = [k \in Keys |-> IF k[1] \in ids THEN << >> ELSE matches[k]]

IdleWhenEmpty(w) == w.count = 0
Idle(w) == now - w.lastSeen > IdleTTL
PastOomOld(t) == now - t > 0
OomOld(t) == now - t > OomWindow

\* pruneWindows
Prune ==
    LET idle == {k \in Keys : windows[k] # None /\ Idle(windows[k])}
    IN  /\ windows' = [k \in Keys |-> IF k \in idle THEN None ELSE windows[k]]
        /\ feeds' = [k \in Keys |-> IF k \in idle THEN {} ELSE feeds[k]]
        /\ lastOOM' = [c \in Containers |-> IF OomOld(lastOOM[c]) THEN 0 ELSE lastOOM[c]]
        /\ UNCHANGED <<matches, counted>>

(***************************************************************************)
(* reconcile: an unchanged log rule keeps its subscription; the windows of *)
(* removed and changed rules go.                                           *)
(***************************************************************************)
LogRule(id) == config[id] # Off /\ config[id].kind = "log"
KeptById(id) == subs[id] # None /\ LogRule(id)
Kept(id) == subs[id] # None /\ LogRule(id) /\ subs[id].def = config[id]
NewLogRules == {id \in RuleIds : LogRule(id) /\ ~Kept(id)}
NewEventRules == [id \in RuleIds |-> IF config[id] # Off /\ ~LogRule(id) THEN config[id] ELSE Off]

Stale ==
    {id \in RuleIds : (subs[id] # None /\ ~Kept(id)) \/ NewEventRules[id] # eventRules[id]}

\* The generations are given out in the order of a map's iteration.
ReconcileRules ==
    /\ \E g \in [NewLogRules -> gen + 1 .. gen + Cardinality(NewLogRules)] :
         /\ \A i, j \in NewLogRules : g[i] = g[j] => i = j
         /\ subs' = [id \in RuleIds |-> IF id \in NewLogRules THEN [def |-> config[id], gen |-> g[id]]
                                        ELSE IF Kept(id) THEN subs[id] ELSE None]
    /\ gen' = gen + Cardinality(NewLogRules)
    /\ eventRules' = NewEventRules
    /\ Forget(Stale)
    /\ UNCHANGED <<lastOOM, counted>>

\* The deaths that are not clean exits.
DeathsIn(evs) == {e.n : e \in {x \in ToSet(evs) : x.action = "die" /\ x.bad}}

\* checkEventClient: events that nobody received are lost with the stream.
CheckEventClient ==
    /\ stream' = source
    /\ events' = IF stream = source THEN events ELSE << >>
    /\ owed' = IF stream = source THEN owed ELSE owed \ DeathsIn(events)

(***************************************************************************)
(* The run loop.                                                           *)
(***************************************************************************)
Begin ==
    /\ loop = "starting"
    /\ loop' = "running"
    /\ stream' = source
    /\ ReconcileRules
    /\ UNCHANGED <<around, events, poke, fired, inspecting, inspected, dispatch, owed, bounds>>

HandlePoke ==
    /\ loop = "running" /\ poke
    /\ poke' = FALSE
    /\ CheckEventClient
    /\ ReconcileRules
    /\ UNCHANGED <<around, loop, fired, inspecting, inspected, dispatch, bounds>>

HandleTick ==
    /\ loop = "running"
    /\ CheckEventClient
    /\ Prune
    /\ UNCHANGED <<around, loop, poke, rules, fired, inspecting, inspected, dispatch, bounds>>

OfRule(m) == subs[m.id] # None
Current(m) == subs[m.id] # None /\ subs[m.id].gen = m.gen

HandleMatch ==
    /\ loop = "running" /\ fired # << >>
    /\ fired' = Tail(fired)
    /\ LET m == Head(fired)
       IN  IF Current(m)
             THEN Observe(m.name, [id \in {m.id} |-> [def |-> m.def, gen |-> m.gen]])
             ELSE UNCHANGED <<windows, feeds, matches, dispatch>>
    /\ UNCHANGED <<around, events, loop, poke, stream, rules, lastOOM, counted>>
    /\ UNCHANGED <<inspecting, inspected, owed, bounds>>

Watches(id, kind, name) ==
    eventRules[id] # Off /\ kind \in eventRules[id].events /\ name \in eventRules[id].targets
WatchesBoth(id) == eventRules[id] # Off /\ {"die", "oom"} \subseteq eventRules[id].events

\* An OOM kill just before a death is the same incident.
JustKilled(c) == lastOOM[c] # 0 /\ now - lastOOM[c] <= OomWindow

RecordEventMatch(ev, kind) ==
    LET name    == NameOf[ev.of]
        matched == {id \in RuleIds : /\ Watches(id, kind, name)
                                     /\ ~(kind = "die" /\ WatchesBoth(id) /\ JustKilled(ev.of))}
    IN  /\ Observe(name, [id \in matched |-> [def |-> eventRules[id], gen |-> 0]])
        /\ lastOOM' = IF kind = "oom" THEN [lastOOM EXCEPT ![ev.of] = now] ELSE lastOOM
        /\ counted' = counted \union {<<id, ev.n, kind>> : id \in {i \in matched : WatchesBoth(i)}}
        /\ owed' = IF kind = "die" THEN owed \ {ev.n} ELSE owed

\* A clean exit or a recovery is no match; a death that does not say its exit
\* code, or a bare health event, is looked up.
HandleEvent ==
    /\ loop = "running" /\ events # << >>
    /\ events' = Tail(events)
    /\ LET ev == Head(events)
       IN  \/ /\ ev.told /\ ev.bad
              /\ RecordEventMatch(ev, IF ev.action = "health" THEN "unhealthy" ELSE ev.action)
              /\ UNCHANGED inspecting
           \/ /\ ev.told /\ ~ev.bad
              /\ UNCHANGED <<memory, dispatch, owed, inspecting>>
           \/ /\ ~ev.told
              /\ inspecting' = inspecting \union {[ev |-> ev, since |-> now]}
              /\ UNCHANGED <<memory, dispatch, owed>>
    /\ UNCHANGED <<around, loop, poke, stream, rules, fired, inspected, bounds>>

HandleInspect ==
    /\ loop = "running" /\ inspected # << >>
    /\ inspected' = Tail(inspected)
    /\ LET r == Head(inspected)
       IN  IF r.fire
             THEN RecordEventMatch(r.ev, IF r.ev.action = "health" THEN "unhealthy" ELSE "die")
             ELSE UNCHANGED <<memory, dispatch, owed>>
    /\ UNCHANGED <<around, events, loop, poke, stream, rules, fired, inspecting, bounds>>

\* shutdownRun
Shutdown ==
    /\ loop = "running" /\ cancelled
    /\ loop' = "finished"
    /\ subs' = [id \in RuleIds |-> None]
    /\ fired' = << >> /\ inspected' = << >>
    /\ dispatcher' = "closed"
    /\ UNCHANGED <<around, events, poke, stream, gen, eventRules, memory, inspecting, dispatched>>
    /\ UNCHANGED <<owed, bounds>>

(***************************************************************************)
(* The other goroutines.                                                   *)
(***************************************************************************)
RoomForOneMore == Len(fired) <= FiredBuffer
FiredRoom == Len(fired) < FiredBuffer

\* The sink of a log rule; a full channel drops the match.
Sink(id, c) ==
    /\ <<lines + 1, number>> \in Inputs /\ lines' = lines + 1
    /\ subs[id] # None /\ NameOf[c] \in subs[id].def.targets
    /\ fired' = IF FiredRoom
                  THEN Append(fired, [id |-> id, def |-> subs[id].def, gen |-> subs[id].gen, name |-> NameOf[c]])
                  ELSE fired
    /\ UNCHANGED <<around, events, loop, poke, stream, rules, memory, inspecting, inspected, dispatch>>
    /\ UNCHANGED <<owed, changes, number>>

\* An inspect that fails fires for a death and not for a health event.
FailsQuietly(ev) == FALSE
FiresWhenFailed(ev) == ev.action = "die"

Report(i, fire) ==
    /\ Len(inspected) < InspectBuffer
    /\ inspected' = Append(inspected, [ev |-> i.ev, fire |-> fire])

NeverLeaves == FALSE
Leaves == cancelled

InspectReturns(i) ==
    /\ i \in inspecting
    /\ inspecting' = inspecting \ {i}
    /\ \/ Report(i, i.ev.bad)
       \/ Report(i, FiresWhenFailed(i.ev))
       \/ Leaves /\ UNCHANGED inspected
    /\ UNCHANGED <<around, events, loop, poke, stream, rules, memory, fired, dispatch, owed, bounds>>

\* The dispatcher takes an alert; it ends when the channel is closed and empty.
Dispatch ==
    /\ \/ dispatched > 0 /\ dispatched' = dispatched - 1 /\ UNCHANGED dispatcher
       \/ dispatched = 0 /\ dispatcher = "closed" /\ dispatcher' = "finished" /\ UNCHANGED dispatched
    /\ UNCHANGED <<around, events, loop, poke, stream, rules, memory, fired, inspecting, inspected>>
    /\ UNCHANGED <<owed, bounds>>

(***************************************************************************)
(* The engines, the configuration and the clock.                           *)
(***************************************************************************)
Inside == UNCHANGED <<loop, poke, stream, rules, memory, fired, inspecting, inspected, dispatch, lines>>

\* An event happens, and reaches the open stream, unless the stream of its host is
\* being opened again.
Occur(evs) ==
    /\ <<lines, number + 1>> \in Inputs /\ number' = number + 1
    /\ \/ loop = "running" /\ events' = events \o evs /\ owed' = owed \union DeathsIn(evs)
       \/ UNCHANGED <<events, owed>>
    /\ UNCHANGED <<around, changes>> /\ Inside

Happened(action, c, told, bad) ==
    [action |-> action, of |-> c, n |-> number + 1, told |-> told, bad |-> bad]

Exit(c, told, bad) == Occur(<<Happened("die", c, told, bad)>>)
Health(c, told, bad) == Occur(<<Happened("health", c, told, bad)>>)
OomKill(c, told) == Occur(<<Happened("oom", c, TRUE, TRUE), Happened("die", c, told, TRUE)>>)

SetRules(cfg) ==
    /\ changes < MaxChanges /\ changes' = changes + 1
    /\ config' = cfg /\ unpoked' = TRUE
    /\ UNCHANGED <<now, source, cancelled, events, owed, number>> /\ Inside

SwapClient(client) ==
    /\ changes < MaxChanges /\ changes' = changes + 1
    /\ source' = client /\ unpoked' = TRUE
    /\ UNCHANGED <<now, config, cancelled, events, owed, number>> /\ Inside

Reconcile ==
    /\ unpoked /\ unpoked' = FALSE /\ poke' = TRUE
    /\ UNCHANGED <<now, config, source, cancelled, events, loop, stream, rules, memory>>
    /\ UNCHANGED <<fired, inspecting, inspected, dispatch, owed, bounds>>

Cancel ==
    /\ ~cancelled /\ cancelled' = TRUE
    /\ UNCHANGED <<now, config, source, unpoked, events, owed, changes, number>> /\ Inside

Pass ==
    /\ now < MaxTime /\ now' = now + 1
    /\ events = << >> /\ fired = << >> /\ inspected = << >>
    /\ \A i \in inspecting : now - i.since < InspectTimeout
    /\ UNCHANGED <<config, source, unpoked, cancelled, events, owed, changes, number>> /\ Inside

-----------------------------------------------------------------------------
Init ==
    /\ now = 1 /\ config \in Configs /\ source = FirstClient /\ unpoked = FALSE /\ cancelled = FALSE
    /\ events = << >>
    /\ loop = "starting" /\ poke = FALSE /\ stream = source
    /\ subs = [id \in RuleIds |-> None] /\ gen = 0 /\ eventRules = [id \in RuleIds |-> Off]
    /\ windows = [k \in Keys |-> None] /\ lastOOM = [c \in Containers |-> 0]
    /\ fired = << >> /\ inspecting = {} /\ inspected = << >>
    /\ dispatched = 0 /\ dispatcher = "running"
    /\ feeds = [k \in Keys |-> {}] /\ matches = [k \in Keys |-> << >>]
    /\ counted = {} /\ owed = {}
    /\ changes = 0 /\ lines = 0 /\ number = 0

LoopStep ==
    Begin \/ HandlePoke \/ HandleTick \/ HandleMatch \/ HandleEvent \/ HandleInspect \/ Shutdown

GoroutineStep ==
    \/ \E id \in RuleIds, c \in Containers : Sink(id, c)
    \/ \E i \in inspecting : InspectReturns(i)
    \/ Dispatch

AroundStep ==
    \/ \E c \in Containers, told, bad \in BOOLEAN : Exit(c, told, bad) \/ Health(c, told, bad)
    \/ \E c \in Containers, told \in BOOLEAN : OomKill(c, told)
    \/ \E cfg \in Configs : SetRules(cfg)
    \/ \E client \in Clients : SwapClient(client)
    \/ Reconcile \/ Cancel \/ Pass

Next == LoopStep \/ GoroutineStep \/ AroundStep

Spec == Init /\ [][Next]_vars

\* The select of the loop takes every ready branch in time, goroutines run and
\* a delivery is bounded by its budget; time and users owe nothing.
Fairness ==
    /\ WF_vars(Begin) /\ WF_vars(HandlePoke) /\ WF_vars(HandleMatch) /\ WF_vars(HandleEvent)
    /\ WF_vars(HandleInspect) /\ WF_vars(Shutdown) /\ WF_vars(Dispatch) /\ WF_vars(Reconcile)
    /\ WF_vars(\E i \in inspecting : InspectReturns(i))

FairSpec == Spec /\ Fairness

(***************************************************************************)
(* Properties.                                                             *)
(***************************************************************************)
TypeOK ==
    /\ now \in 1 .. MaxTime /\ config \in Configs /\ source \in Clients
    /\ unpoked \in BOOLEAN /\ cancelled \in BOOLEAN
    /\ events \in Seq(Event)
    /\ loop \in {"starting", "running", "finished"} /\ poke \in BOOLEAN /\ stream \in Clients
    /\ subs \in [RuleIds -> [def : Definitions, gen : Nat] \union {None}]
    /\ gen \in Nat /\ eventRules \in [RuleIds -> Definitions \union {Off}]
    /\ \A k \in Keys : windows[k] = None \/ \E def \in Definitions : windows[k] \in WindowOf(def)
    /\ lastOOM \in [Containers -> 0 .. MaxTime]
    /\ fired \in Seq(Match) /\ Len(fired) <= FiredBuffer
    /\ \A i \in inspecting : i.ev \in Event /\ now - i.since <= InspectTimeout
    /\ inspected \in Seq(Result) /\ Len(inspected) <= InspectBuffer
    /\ dispatched \in 0 .. DispatchBuffer /\ dispatcher \in {"running", "closed", "finished"}
    /\ dispatcher # "running" <=> loop = "finished"

\* The matches a window has counted are all of the rule as it stands: neither
\* a match of an older definition still on its way nor what an older
\* definition had counted helps a rule that was changed, or removed and added
\* again, to its threshold.
MatchesOfOneRule ==
    loop = "running" => \A k \in Keys :
        feeds[k] \subseteq {IF subs[k[1]] # None THEN subs[k[1]] ELSE [def |-> eventRules[k[1]], gen |-> 0]}

\* No channel overflows, no window keeps more matches than its threshold, and
\* all it counts are of one definition.
WindowsSound == TypeOK /\ MatchesOfOneRule

\* "For a rule that watches both, LogDeck counts that pair as one incident
\* rather than alerting twice" (docs, alerting), also when the death has to be
\* looked up and the windows are pruned meanwhile.
OneIncidentOnce ==
    \A id \in RuleIds, n \in 1 .. MaxEvents : ~({<<id, n, "oom">>, <<id, n, "die">>} \subseteq counted)

DefinitionOf(id) == IF subs[id] # None THEN subs[id].def ELSE eventRules[id]

\* A match is to raise an alert if it and those before it, up to the threshold, lie
\* within the window and have not been used for an alert, and none has been
\* raised within the cooldown, "the minimum time between deliveries for the same rule
\* and container" (docs, alerting).
Due(h, i, def) ==
    LET first == i - def.threshold + 1
    IN  /\ first >= 1 /\ h[i].at - h[first].at <= def.window
        /\ \A j \in first .. i - 1 : ~h[j].alerted
        /\ \A j \in 1 .. i - 1 : h[j].alerted => h[i].at - h[j].at >= def.cooldown

\* Of all the matches since the rule was last changed those raise an alert that are to:
\* neither the ring, which keeps the last ones only, nor its reset, nor the prune of
\* an idle window makes a difference.
RaisedWhenDue ==
    loop = "running" => \A k \in Keys : \A i \in 1 .. Len(matches[k]) :
        matches[k][i].alerted <=> Due(matches[k], i, DefinitionOf(k[1]))

\* Alerts are raised when they are due, and a memory kill and its death are one match.
AlertsWhenDue == RaisedWhenDue /\ OneIncidentOnce

\* "die events are never silently skipped on lookup failure" (spawnInspect):
\* every death that was not a clean exit is weighed against the rules, unless
\* its event was lost with the stream or the engine is shutting down.
DeathsWeighed == owed = {} \/ cancelled

\* The rules in force end up being those of the configuration, however the
\* pokes of several changes coalesce.
RulesFollowConfig ==
    <>[](loop = "running" => \A id \in RuleIds :
            config[id] = IF subs[id] # None THEN subs[id].def ELSE eventRules[id])

\* A shutdown leaves no goroutine behind: no inspect waits for a loop that has
\* stopped receiving, and the dispatcher empties its queue.
NothingLeft == cancelled => loop = "finished" /\ inspecting = {} /\ dispatcher = "finished"

\* Once the events end every death is weighed, or the engine ends with nothing
\* under way.
EventuallyWeighed == <>[](DeathsWeighed /\ NothingLeft)
=============================================================================
