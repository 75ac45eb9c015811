------------------------------- MODULE LogHub -------------------------------
(***************************************************************************)
(* The run loop of the log hub (internal/logstream: Hub.Run and the        *)
(* handlers it calls, tail.go): which containers each subscription tails,  *)
(* while container listings, engine events, exits of tail goroutines, the  *)
(* resync ticker and swaps of the Docker client interleave.                *)
(*                                                                         *)
(* The loop owns tails, the map from (subscription, container) to the tail *)
(* it wants open.  A tail is a goroutine of its own: one of the slots of   *)
(* its pair, and the slot number stands for the *tail pointer.  What       *)
(* happens inside one subscription is module Subscription's.               *)
(*                                                                         *)
(* The engine is the environment: containers start, stop and are renamed,  *)
(* hosts become unreachable, events are queued on the open stream or lost  *)
(* while a host's subscription to them is re-established.                  *)
(*                                                                         *)
(* Left out: the listing that fails as a whole, which the client's         *)
(* ListContainersAllHosts never reports; the branch for a closed stream,   *)
(* which closes only after its own context; and "destroy", which the loop  *)
(* handles as it does "die".                                               *)
(***************************************************************************)
EXTENDS Naturals, Sequences

CONSTANTS
    Subs, Containers, Hosts, Names,
    HostOf,         \* host of each container
    Wants,          \* names a subscription's spec matches
    HostsOf,        \* hosts of each Docker client the configuration ever builds
    MaxAttempts,    \* maxTailAttempts
    Slots,          \* bound of the model: tails of one pair alive at once
    MaxChanges,     \* bound of the model: changes of engine and configuration
    MaxFailures     \* bound of the model: failed listings and broken streams

Clients == DOMAIN HostsOf
Slot == 1 .. Slots

ASSUME HubAssumption ==
    /\ HostOf \in [Containers -> Hosts]
    /\ Wants \in [Subs -> SUBSET Names]
    /\ HostsOf \in Seq(SUBSET Hosts) /\ HostsOf # << >>
    /\ MaxAttempts \in Nat \ {0} /\ Slots \in Nat
    /\ MaxChanges \in Nat /\ MaxFailures \in Nat

VARIABLES
    (* the engines and the configuration *)
    running,        \* running containers
    name,           \* name of each container
    reachable,      \* hosts that answer
    source,         \* the client the registry holds
    swapped,        \* a swap whose Reconcile has not been called yet
    cancelled,      \* runCtx is done
    (* the run loop *)
    loop,           \* "running", "draining", "finished"
    subs,           \* h.subs
    tails,          \* slot of the tail wanted for each pair, 0 for none
    stream,         \* client of the open event stream
    events,         \* events not yet received from it
    poke,           \* pokeCh holds a poke
    listQueued,
    (* goroutines *)
    listing,        \* listInFlight: "none", "reading", "posted"
    listClient,     \* client the listing uses
    snapshot,       \* what it posted
    goroutine,      \* the tail goroutines
    (* bounds and history *)
    gone,           \* subscriptions removed; none returns
    changes, failures

engine == <<running, name, reachable, source, swapped, cancelled>>
list == <<listing, listClient, snapshot, listQueued>>
tailing == <<tails, goroutine>>
bounds == <<changes, failures>>
vars == <<engine, loop, subs, tailing, stream, events, poke, list, gone, bounds>>

Pairs == Subs \X Containers
Free == [state |-> "free", stopping |-> FALSE, client |-> 1, attempt |-> 1]
Goroutine == [state : {"free", "opening", "streaming", "broken", "exiting"},
              stopping : BOOLEAN, client : Clients, attempt : 1 .. MaxAttempts]
Event == [action : {"start", "die", "rename"}, of : Containers, name : Names]
Snapshot == [hosts : SUBSET Hosts, running : SUBSET Containers, name : [Containers -> Names]]
Nothing == [hosts |-> {}, running |-> {}, name |-> name]

Matches(s, n) == n \in Wants[s]

(***************************************************************************)
(* What every handler does to tails: it cancels those of some pairs and    *)
(* opens one for others, on the current client.                            *)
(***************************************************************************)
FreeSlots(p) == {i \in Slot : goroutine[p][i].state = "free"}
FreeSlot(p) == CHOOSE i \in FreeSlots(p) : TRUE
Opening == [Free EXCEPT !.state = "opening", !.client = source]

SetTails(cancels, spawns) ==
    /\ \A p \in spawns : FreeSlots(p) # {}
    /\ tails' = [p \in Pairs |-> IF p \in spawns THEN FreeSlot(p)
                                ELSE IF p \in cancels THEN 0 ELSE tails[p]]
    /\ goroutine' = [p \in Pairs |-> [i \in Slot |->
           IF p \in spawns /\ i = FreeSlot(p) THEN Opening
           ELSE IF p \in cancels /\ i = tails[p] THEN [goroutine[p][i] EXCEPT !.stopping = TRUE]
           ELSE goroutine[p][i]]]

PairsOf(c) == {p \in Pairs : p[2] = c}

(***************************************************************************)
(* Listings: one in flight, one more queued behind it.                     *)
(***************************************************************************)
StartListing == listing' = "reading" /\ listClient' = source /\ snapshot' = Nothing

RequestList ==
    IF listing = "none"
      THEN StartListing /\ UNCHANGED listQueued
      ELSE listQueued' = TRUE /\ UNCHANGED <<listing, listClient, snapshot>>

\* The listing goroutine; hosts that do not answer are missing from the result.
ListContainers ==
    /\ listing = "reading"
    /\ listing' = "posted"
    /\ \E missed \in SUBSET Hosts :
         /\ missed # {} => failures < MaxFailures
         /\ failures' = failures + (IF missed = {} THEN 0 ELSE 1)
         /\ snapshot' = [hosts |-> (HostsOf[listClient] \intersect reachable) \ missed,
                         running |-> running, name |-> name]
    /\ UNCHANGED <<engine, loop, subs, tailing, stream, events, poke, listClient, listQueued, gone, changes>>

KeepStream == UNCHANGED <<stream, events>>
\* The hot-swap check: a stream opened on a client since replaced is reopened.
ReopenStream ==
    /\ stream' = source
    /\ events' = IF stream = source THEN events ELSE << >>

\* What the snapshot says of a pair whose host was listed.
Listed(p) == HostOf[p[2]] \in snapshot.hosts
Desired(p) == p[2] \in snapshot.running /\ Matches(p[1], snapshot.name[p[2]])

Missing == {p \in Pairs : p[1] \in subs /\ tails[p] = 0 /\ Listed(p) /\ Desired(p)}
ConvergeSpawnsOnly == SetTails({}, Missing)
Converge == SetTails({p \in Pairs : Listed(p) /\ ~Desired(p)}, Missing)

HandleList ==
    /\ loop = "running" /\ listing = "posted"
    /\ ReopenStream
    /\ Converge
    /\ IF listQueued
         THEN StartListing
         ELSE listing' = "none" /\ snapshot' = Nothing /\ listClient' = 1
    /\ listQueued' = FALSE
    /\ UNCHANGED <<engine, loop, subs, poke, gone, bounds>>

(***************************************************************************)
(* The other branches of the loop.                                         *)
(***************************************************************************)
Subscribe(s) ==
    /\ loop = "running" /\ s \notin subs \union gone
    /\ subs' = subs \union {s}
    /\ RequestList
    /\ UNCHANGED <<engine, loop, tailing, stream, events, poke, gone, bounds>>

RemoveSub(s) ==
    /\ loop = "running" /\ s \in subs
    /\ gone' = gone \union {s}
    /\ subs' = subs \ {s}
    /\ SetTails({p \in Pairs : p[1] = s}, {})
    /\ UNCHANGED <<engine, loop, stream, events, poke, list, bounds>>

HandlePoke ==
    /\ loop = "running" /\ poke
    /\ poke' = FALSE
    /\ RequestList
    /\ UNCHANGED <<engine, loop, subs, tailing, stream, events, gone, bounds>>

Tick ==
    /\ loop = "running"
    /\ RequestList
    /\ UNCHANGED <<engine, loop, subs, tailing, stream, events, poke, gone, bounds>>

HandleEvent ==
    /\ loop = "running" /\ events # << >>
    /\ events' = Tail(events)
    /\ LET ev == Head(events)
           opens(p) == p[1] \in subs /\ tails[p] = 0 /\ Matches(p[1], ev.name)
       IN  \/ /\ ev.action = "start"
              /\ SetTails({}, {p \in PairsOf(ev.of) : opens(p)})
              /\ UNCHANGED list
           \/ /\ ev.action = "die"
              /\ SetTails(PairsOf(ev.of), {})
              /\ UNCHANGED list
           \/ /\ ev.action = "rename"
              /\ SetTails(PairsOf(ev.of), {})
              /\ RequestList
    /\ UNCHANGED <<engine, loop, subs, stream, poke, gone, bounds>>

RemoveOfKey(p, i) == tails' = [tails EXCEPT ![p] = 0]
\* The exit may be that of an older tail of the same container.
RemoveExited(p, i) == tails' = [tails EXCEPT ![p] = IF @ = i THEN 0 ELSE @]

HandleTailExit(p, i) ==
    /\ loop = "running" /\ goroutine[p][i].state = "exiting"
    /\ RemoveExited(p, i)
    /\ goroutine' = [goroutine EXCEPT ![p][i] = Free]
    /\ UNCHANGED <<engine, loop, subs, stream, events, poke, list, gone, bounds>>

Drain ==
    /\ loop = "running" /\ cancelled
    /\ loop' = "draining"
    /\ SetTails(Pairs, {})
    /\ UNCHANGED <<engine, subs, stream, events, poke, list, gone, bounds>>

JoinedOfSubs == \A p \in Pairs, i \in Slot : p[1] \in subs => goroutine[p][i].state = "free"
\* tailWg.Wait
Joined == \A p \in Pairs, i \in Slot : goroutine[p][i].state = "free"

Finish ==
    /\ loop = "draining" /\ Joined
    /\ loop' = "finished"
    /\ UNCHANGED <<engine, subs, tailing, stream, events, poke, list, gone, bounds>>

(***************************************************************************)
(* A tail goroutine.                                                       *)
(***************************************************************************)
Stops(g) == g.stopping \/ cancelled
Answers(c, client) == c \in running /\ HostOf[c] \in reachable \intersect HostsOf[client]

SetState(p, i, state) == goroutine' = [goroutine EXCEPT ![p][i].state = state]
OnlyTail == UNCHANGED <<engine, loop, subs, tails, stream, events, poke, list, gone, changes>>

OpenTail(p, i) ==
    /\ goroutine[p][i].state = "opening"
    /\ ~Stops(goroutine[p][i]) /\ Answers(p[2], goroutine[p][i].client)
    /\ SetState(p, i, "streaming")
    /\ OnlyTail /\ UNCHANGED failures

\* The stream fails although its container runs.
BreakTail(p, i) ==
    /\ goroutine[p][i].state \in {"opening", "streaming"}
    /\ failures < MaxFailures
    /\ failures' = failures + 1
    /\ SetState(p, i, "broken")
    /\ OnlyTail

\* openTail returns.  The attempts of a tail are counted over its whole life.
Returns(p, g) ==
    \/ g.state = "broken"
    \/ g.state = "opening" /\ ~Answers(p[2], g.client)
    \/ g.state \in {"opening", "streaming"} /\ Stops(g)

RetriesOnceMore(g) == ~Stops(g) /\ g.attempt <= MaxAttempts
Retries(g) == ~Stops(g) /\ g.attempt < MaxAttempts

EndAttempt(p, i) ==
    LET g == goroutine[p][i]
    IN  /\ Returns(p, g)
        /\ \/ Retries(g) /\ goroutine' = [goroutine EXCEPT ![p][i].state = "opening", ![p][i].attempt = g.attempt + 1]
           \/ ~Retries(g) /\ SetState(p, i, "exiting")
        /\ OnlyTail /\ UNCHANGED failures

AlwaysUnheard(g) == TRUE
NeverUnheard(g) == FALSE
\* The exit is reported to the loop unless the loop is no longer receiving.
Unheard(g) == cancelled

Leave(p, i) ==
    /\ goroutine[p][i].state = "exiting" /\ Unheard(goroutine[p][i])
    /\ goroutine' = [goroutine EXCEPT ![p][i] = Free]
    /\ OnlyTail /\ UNCHANGED failures

(***************************************************************************)
(* The environment.                                                        *)
(***************************************************************************)
Change == changes < MaxChanges /\ changes' = changes + 1
OnlyEngine == UNCHANGED <<loop, subs, tails, stream, poke, list, gone, failures>>

Emit(action, c) ==
    \/ /\ HostOf[c] \in reachable \intersect HostsOf[stream]
       /\ events' = Append(events, [action |-> action, of |-> c, name |-> name'[c]])
    \/ UNCHANGED events

Breaking(containers) ==
    goroutine' = [p \in Pairs |-> [i \in Slot |->
        IF p[2] \in containers /\ goroutine[p][i].state = "streaming"
          THEN [goroutine[p][i] EXCEPT !.state = "broken"] ELSE goroutine[p][i]]]

Start(c) ==
    /\ Change /\ c \notin running
    /\ running' = running \union {c}
    /\ UNCHANGED <<name, reachable, source, swapped, cancelled, goroutine>>
    /\ Emit("start", c) /\ OnlyEngine

Die(c) ==
    /\ Change /\ c \in running
    /\ running' = running \ {c}
    /\ Breaking({c})
    /\ UNCHANGED <<name, reachable, source, swapped, cancelled>>
    /\ Emit("die", c) /\ OnlyEngine

Rename(c, n) ==
    /\ Change /\ n # name[c]
    /\ name' = [name EXCEPT ![c] = n]
    /\ UNCHANGED <<running, reachable, source, swapped, cancelled, goroutine>>
    /\ Emit("rename", c) /\ OnlyEngine

HostFails(h) ==
    /\ Change /\ h \in reachable
    /\ reachable' = reachable \ {h}
    /\ Breaking({c \in Containers : HostOf[c] = h})
    /\ UNCHANGED <<running, name, source, swapped, cancelled, events>> /\ OnlyEngine

HostReturns(h) ==
    /\ Change /\ h \notin reachable
    /\ reachable' = reachable \union {h}
    /\ UNCHANGED <<running, name, source, swapped, cancelled, events, goroutine>> /\ OnlyEngine

\* OnChange: swap the client, then Reconcile, which never blocks.
SwapDocker ==
    /\ Change /\ source + 1 \in Clients /\ ~swapped
    /\ source' = source + 1 /\ swapped' = TRUE
    /\ UNCHANGED <<running, name, reachable, cancelled, events, goroutine>> /\ OnlyEngine

Reconcile ==
    /\ swapped
    /\ swapped' = FALSE /\ poke' = TRUE
    /\ UNCHANGED <<running, name, reachable, source, cancelled>>
    /\ UNCHANGED <<loop, subs, tailing, stream, events, list, gone, bounds>>

Cancel ==
    /\ ~cancelled /\ cancelled' = TRUE
    /\ UNCHANGED <<running, name, reachable, source, swapped>>
    /\ UNCHANGED <<loop, subs, tailing, stream, events, poke, list, gone, bounds>>

-----------------------------------------------------------------------------
Init ==
    /\ running \in SUBSET Containers
    /\ name \in [Containers -> Names]
    /\ reachable = Hosts /\ source = 1 /\ swapped = FALSE /\ cancelled = FALSE
    /\ loop = "running" /\ subs = {} /\ gone = {}
    /\ tails = [p \in Pairs |-> 0]
    /\ goroutine = [p \in Pairs |-> [i \in Slot |-> Free]]
    /\ stream = 1 /\ events = << >> /\ poke = FALSE
    /\ listing = "none" /\ listQueued = FALSE /\ listClient = 1 /\ snapshot = Nothing
    /\ changes = 0 /\ failures = 0

LoopStep ==
    \/ \E s \in Subs : Subscribe(s) \/ RemoveSub(s)
    \/ HandlePoke \/ Tick \/ HandleEvent \/ HandleList
    \/ \E p \in Pairs, i \in Slot : HandleTailExit(p, i)
    \/ Drain \/ Finish

TailStep == \E p \in Pairs, i \in Slot :
    OpenTail(p, i) \/ BreakTail(p, i) \/ EndAttempt(p, i) \/ Leave(p, i)

EngineStep ==
    \/ \E c \in Containers : Start(c) \/ Die(c) \/ \E n \in Names : Rename(c, n)
    \/ \E h \in Hosts : HostFails(h) \/ HostReturns(h)
    \/ SwapDocker \/ Reconcile \/ Cancel

Next == LoopStep \/ ListContainers \/ TailStep \/ EngineStep

Spec == Init /\ [][Next]_vars

\* The loop's select takes every ready branch in time, its ticker fires for
\* ever, and goroutines run; engines and users owe nothing.
Fairness ==
    /\ WF_vars(HandlePoke) /\ WF_vars(Tick) /\ WF_vars(HandleEvent) /\ WF_vars(HandleList)
    /\ WF_vars(Drain) /\ WF_vars(Finish) /\ WF_vars(ListContainers) /\ WF_vars(Reconcile)
    /\ \A p \in Pairs, i \in Slot :
         /\ WF_vars(HandleTailExit(p, i)) /\ WF_vars(OpenTail(p, i))
         /\ WF_vars(EndAttempt(p, i)) /\ WF_vars(Leave(p, i))

FairSpec == Spec /\ Fairness

(***************************************************************************)
(* Properties.                                                             *)
(***************************************************************************)
TypeOK ==
    /\ running \subseteq Containers /\ name \in [Containers -> Names]
    /\ reachable \subseteq Hosts /\ source \in Clients /\ swapped \in BOOLEAN
    /\ cancelled \in BOOLEAN
    /\ loop \in {"running", "draining", "finished"}
    /\ subs \subseteq Subs /\ gone \subseteq Subs
    /\ tails \in [Pairs -> 0 .. Slots]
    /\ goroutine \in [Pairs -> [Slot -> Goroutine]]
    /\ stream \in Clients /\ events \in Seq(Event) /\ poke \in BOOLEAN
    /\ listing \in {"none", "reading", "posted"} /\ listQueued \in BOOLEAN
    /\ listClient \in Clients /\ snapshot \in Snapshot
    /\ listQueued => listing # "none"
    /\ changes \in 0 .. MaxChanges /\ failures \in 0 .. MaxFailures

\* A tail nobody has cancelled is the one the loop knows: no stale exit, stale
\* listing or removed subscription leaves a goroutine that pushes records and
\* can no longer be cancelled, or a second one beside it.
NoOrphan ==
    \A p \in Pairs, i \in Slot :
        goroutine[p][i].state \in {"opening", "streaming", "broken"} /\ ~Stops(goroutine[p][i])
            => tails[p] = i

\* A container the loop believes tailed has a goroutine that will report its
\* exit; otherwise no listing and no start event would ever tail it again.
EntryHasTail ==
    \A p \in Pairs : tails[p] # 0 =>
        /\ p[1] \in subs
        /\ cancelled \/ goroutine[p][tails[p]].state # "free"
        /\ ~goroutine[p][tails[p]].stopping

\* Wait returns only when no tail of any subscription, removed ones included,
\* can push again.
NothingPushesAfterWait ==
    loop = "finished" => \A p \in Pairs, i \in Slot : goroutine[p][i].state = "free"

Streams(p) == tails[p] # 0 /\ goroutine[p][tails[p]].state = "streaming"
ShouldStream(p) == p[1] \in subs /\ p[2] \in running /\ Matches(p[1], name[p[2]])

\* "converges tails": whatever order listings, events and exits arrived in,
\* and whichever events were lost, every subscription ends up streaming
\* exactly the running containers it matches on the hosts that answer.
Converges ==
    <>[](loop = "running" =>
           \A p \in Pairs : HostOf[p[2]] \in reachable \intersect HostsOf[source]
               => (Streams(p) <=> ShouldStream(p)))

\* After a hot swap the events come from the client of the configuration.
EventsFollowSwap == <>[](loop = "running" => stream = source)

\* A shutdown waits for no tail in vain.
ShutdownFinishes == cancelled ~> loop = "finished"

\* Once the changes stop, the loop is where the configuration and the engines
\* say, or has ended.
Settles == Converges /\ EventsFollowSwap /\ ShutdownFinishes

(***************************************************************************)
(* Claims the code does not keep; no run checks them.                      *)
(***************************************************************************)
\* "after a hot swap the old client's close ends the tail and resync respawns
\* it on the new client" (tail.go): closing a client closes its idle
\* connections, and a tail's connection is not idle.
SwapMovesTails == <>[](loop = "running" => \A p \in Pairs : Streams(p) => goroutine[p][tails[p]].client = source)

\* One container's records reach a subscription from one tail at a time.
OneStreamPerPair ==
    \A p \in Pairs, i, j \in Slot :
        goroutine[p][i].state = "streaming" /\ goroutine[p][j].state = "streaming" => i = j
=============================================================================
