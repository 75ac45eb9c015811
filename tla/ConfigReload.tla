---------------------------- MODULE ConfigReload ----------------------------
(***************************************************************************)
(* A change of the configuration, from the request that makes it to the    *)
(* components that run on it: the manager's lock and file                  *)
(* (config/manager.go), the callback of cmd/server/main.go, the registry of *)
(* clients (services/registry.go), and the hub and the engine that are     *)
(* poked to follow.                                                        *)
(*                                                                         *)
(* The value of a section is the number of the update that wrote it, 0 for *)
(* what the server was first started with.                                 *)
(***************************************************************************)
EXTENDS Integers, Sequences, FiniteSets

CONSTANTS
    Requests,      \* handlers of the API that may run at the same time
    EnvPinned,     \* {"auth"} if environment variables set it: updates are refused
    Nobody,        \* holds no lock
    MaxUpdates, MaxConfigFailures, MaxRestarts    \* bounds

\* Docker hosts stand for the Coolify hosts and the read-only mode as well, the
\* alert rules for tokens and storage limits: sections without a callback.
Sections == {"hosts", "auth", "rules"}
Merged == {"hosts", "auth"}

ASSUME ConfigAssumption == EnvPinned \subseteq {"auth"} /\ Nobody \notin Requests

VARIABLES
    configFile,        \* config.json
    fileConfig,  \* the manager's copy of it
    lock,        \* who holds m.mu for writing
    generation,  \* of the merged configuration, which is fileConfig's hosts and auth
    request,     \* request[r]: where the handler is, and what it has in hand
    registry,    \* [config, docker, coolify, auth]
    clientHosts, \* of each Docker client made, the hosts it was made for
    retiring,    \* replaced clients in their grace period
    closed,
    pokes,       \* of {"hub", "engine"} whose channel holds a poke
    follows,     \* [hub, engine: client; rules: those the engine compiled]
    \* history
    writes, failures, restarts,
    answered,    \* answered[s]: the last update of s that was answered with success
    unfit,       \* no client could be made for the last callback's hosts
    overlap      \* the newest callback began while an older one was past its check

manager == <<configFile, fileConfig, lock, generation>>
crHistory == <<writes, failures, restarts, answered>>
crVars == <<manager, request, registry, clientHosts, retiring, closed, pokes,
            follows, crHistory, unfit, overlap>>

Idle == [at |-> "idle", section |-> "hosts", old |-> 0, generation |-> 0, hosts |-> 0,
         client |-> 0, auth |-> 0]
InCallback == {"config", "client", "swap", "pokeEngine", "pokeHub", "coolify", "readAuth", "auth"}

At(r, place) == request[r].at = place
Goes(r, place) == request' = [request EXCEPT ![r].at = place]
Returns(r) == request' = [request EXCEPT ![r] = Idle]
NextClient == Len(clientHosts) + 1

\* What a new process makes of the file.
Boots(onDisk, client) ==
    /\ fileConfig' = onDisk /\ lock' = Nobody /\ generation' = 0
    /\ request' = [r \in Requests |-> Idle]
    /\ registry' = [config |-> 0, docker |-> client, coolify |-> 0, auth |-> onDisk["auth"]]
    /\ clientHosts' = Append(clientHosts, onDisk["hosts"])
    /\ retiring' = {} /\ closed' = 1 .. client - 1
    /\ pokes' = {} /\ follows' = [hub |-> client, engine |-> client, rules |-> onDisk["rules"]]
    /\ unfit' = FALSE /\ overlap' = FALSE

Start == [s \in Sections |-> 0]

ConfigReloadInit ==
    /\ configFile = Start /\ fileConfig = Start /\ lock = Nobody /\ generation = 0
    /\ request = [r \in Requests |-> Idle]
    /\ registry = [config |-> 0, docker |-> 1, coolify |-> 0, auth |-> 0]
    /\ clientHosts = <<0>>
    /\ retiring = {} /\ closed = {}
    /\ pokes = {} /\ follows = [hub |-> 1, engine |-> 1, rules |-> 0]
    /\ writes = 0 /\ failures = 0 /\ restarts = 0 /\ answered = Start
    /\ unfit = FALSE /\ overlap = FALSE

-----------------------------------------------------------------------------
\* The manager.  An update takes the lock, sets the section and writes the file
\* before it lets go.  A list that repeats one of the environment's hosts is
\* refused before anything is set, as is auth that the environment sets.
Update ==
    /\ writes < MaxUpdates /\ lock = Nobody
    /\ \E r \in Requests, s \in Sections \ EnvPinned :
          /\ At(r, "idle")
          /\ request' = [request EXCEPT ![r].at = "persist", ![r].section = s, ![r].old = fileConfig[s]]
          /\ fileConfig' = [fileConfig EXCEPT ![s] = writes + 1]
          /\ lock' = r
    /\ writes' = writes + 1
    /\ UNCHANGED <<configFile, generation, registry, clientHosts, retiring, closed, pokes,
                   follows, failures, restarts, answered, unfit, overlap>>

OthersInCallback(r) == \E o \in Requests \ {r} : request[o].at \in InCallback

\* The temporary file is renamed: a merge follows, and the callbacks, or for
\* alert rules just a poke.
Persisted ==
    \E r \in Requests :
        /\ At(r, "persist")
        /\ configFile' = fileConfig /\ lock' = Nobody
        /\ answered' = [answered EXCEPT ![request[r].section] = fileConfig[request[r].section]]
        /\ \/ /\ request[r].section \in Merged
              /\ generation' = generation + 1
              /\ request' = [request EXCEPT ![r].at = "check", ![r].generation = generation',
                                            ![r].hosts = fileConfig["hosts"]]
              /\ overlap' = OthersInCallback(r)
           \/ /\ request[r].section \notin Merged
              /\ Goes(r, "reconcile")
              /\ UNCHANGED <<generation, overlap>>
        /\ UNCHANGED <<fileConfig, registry, clientHosts, retiring, closed, pokes,
                       follows, writes, failures, restarts, unfit>>

\* The write fails: memory is put back.
PutBack(r) == fileConfig' = [fileConfig EXCEPT ![request[r].section] = request[r].old]
LeaveAsIs(r) == UNCHANGED fileConfig
RollBack(r) == PutBack(r)

PersistFails ==
    /\ failures < MaxConfigFailures
    /\ \E r \in Requests : At(r, "persist") /\ RollBack(r) /\ Returns(r)
    /\ lock' = Nobody /\ failures' = failures + 1
    /\ UNCHANGED <<configFile, generation, registry, clientHosts, retiring, closed, pokes,
                   follows, writes, restarts, answered, unfit, overlap>>

-----------------------------------------------------------------------------
\* The callback.  It is dropped if a newer update has merged by now.
Stale(r) == generation # request[r].generation
NeverStale(r) == FALSE
Dropped(r) == Stale(r)

CheckGeneration ==
    /\ lock = Nobody
    /\ \E r \in Requests :
          /\ At(r, "check")
          /\ \/ Dropped(r) /\ Returns(r)
             \/ ~Dropped(r) /\ Goes(r, "config")
    /\ UNCHANGED <<manager, registry, clientHosts, retiring, closed, pokes, follows,
                   crHistory, unfit, overlap>>

UpdateConfig ==
    \E r \in Requests :
        /\ At(r, "config") /\ Goes(r, "client")
        /\ registry' = [registry EXCEPT !.config = request[r].generation]
        /\ UNCHANGED <<manager, clientHosts, retiring, closed, pokes, follows,
                       crHistory, unfit, overlap>>

NewMultiHostClient ==
    \E r \in Requests :
        /\ At(r, "client")
        /\ clientHosts' = Append(clientHosts, request[r].hosts)
        /\ request' = [request EXCEPT ![r].at = "swap", ![r].client = NextClient]
        /\ unfit' = FALSE
        /\ UNCHANGED <<manager, registry, retiring, closed, pokes, follows, crHistory, overlap>>

\* "failed to recreate Docker clients after config change": the old one stays.
NewMultiHostClientFails ==
    /\ failures < MaxConfigFailures
    /\ \E r \in Requests : At(r, "client") /\ Goes(r, "coolify")
    /\ failures' = failures + 1 /\ unfit' = TRUE
    /\ UNCHANGED <<manager, registry, clientHosts, retiring, closed, pokes, follows,
                   writes, restarts, answered, overlap>>

\* The old client is closed after a grace period, by a goroutine of its own.
SwapDocker ==
    \E r \in Requests :
        /\ At(r, "swap")
        /\ request' = [request EXCEPT ![r].at = "pokeEngine", ![r].client = 0]
        /\ retiring' = retiring \cup {registry.docker}
        /\ registry' = [registry EXCEPT !.docker = request[r].client]
        /\ UNCHANGED <<manager, clientHosts, closed, pokes, follows, crHistory,
                       unfit, overlap>>

CloseRetired ==
    /\ \E c \in retiring : retiring' = retiring \ {c} /\ closed' = closed \cup {c}
    /\ UNCHANGED <<manager, request, registry, clientHosts, pokes, follows, crHistory,
                   unfit, overlap>>

SendPoke(component) == pokes' = pokes \cup {component}
SendNoPoke(component) == UNCHANGED pokes
Poke(component) == SendPoke(component)

ReconcileEngine ==
    \E r \in Requests :
        /\ At(r, "pokeEngine") /\ Goes(r, "pokeHub") /\ Poke("engine")
        /\ UNCHANGED <<manager, registry, clientHosts, retiring, closed, follows,
                       crHistory, unfit, overlap>>

ReconcileHub ==
    \E r \in Requests :
        /\ At(r, "pokeHub") /\ Goes(r, "coolify") /\ Poke("hub")
        /\ UNCHANGED <<manager, registry, clientHosts, retiring, closed, follows,
                       crHistory, unfit, overlap>>

SwapCoolify ==
    \E r \in Requests :
        /\ At(r, "coolify") /\ Goes(r, "readAuth")
        /\ registry' = [registry EXCEPT !.coolify = request[r].generation]
        /\ UNCHANGED <<manager, clientHosts, retiring, closed, pokes, follows,
                       crHistory, unfit, overlap>>

\* The auth settings are read from the manager, not from the callback's
\* configuration; only those of the file are followed.
FileConfigSnapshot ==
    /\ lock = Nobody
    /\ \E r \in Requests :
          /\ At(r, "readAuth")
          /\ request' = [request EXCEPT ![r].at = "auth", ![r].auth = fileConfig["auth"]]
    /\ UNCHANGED <<manager, registry, clientHosts, retiring, closed, pokes, follows,
                   crHistory, unfit, overlap>>

SwapAuth ==
    /\ lock = Nobody
    /\ \E r \in Requests :
          /\ At(r, "auth") /\ Returns(r)
          /\ IF request[r].auth # 0 /\ "auth" \notin EnvPinned
             THEN registry' = [registry EXCEPT !.auth = request[r].auth]
             ELSE UNCHANGED registry
    /\ UNCHANGED <<manager, clientHosts, retiring, closed, pokes, follows, crHistory,
                   unfit, overlap>>

\* The handler of an alert rule pokes the engine when the rule is stored.
ReconcileAlerts ==
    \E r \in Requests :
        /\ At(r, "reconcile") /\ Returns(r) /\ Poke("engine")
        /\ UNCHANGED <<manager, registry, clientHosts, retiring, closed, follows,
                       crHistory, unfit, overlap>>

-----------------------------------------------------------------------------
\* The components.  Each takes its poke and then reads what is current.
EngineReconciles ==
    /\ "engine" \in pokes /\ lock = Nobody
    /\ pokes' = pokes \ {"engine"}
    /\ follows' = [follows EXCEPT !.engine = registry.docker, !.rules = fileConfig["rules"]]
    /\ UNCHANGED <<manager, request, registry, clientHosts, retiring, closed,
                   crHistory, unfit, overlap>>

HubReconciles ==
    /\ "hub" \in pokes
    /\ pokes' = pokes \ {"hub"}
    /\ follows' = [follows EXCEPT !.hub = registry.docker]
    /\ UNCHANGED <<manager, request, registry, clientHosts, retiring, closed,
                   crHistory, unfit, overlap>>

\* The process may die anywhere, in the middle of an update too, and another one
\* starts from the file.
Restart ==
    /\ restarts < MaxRestarts /\ restarts' = restarts + 1
    /\ Boots(configFile, NextClient)
    /\ UNCHANGED <<configFile, writes, failures, answered>>

ConfigReloadNext ==
    \/ Update \/ Persisted \/ PersistFails \/ CheckGeneration \/ UpdateConfig
    \/ NewMultiHostClient \/ NewMultiHostClientFails \/ SwapDocker \/ CloseRetired
    \/ ReconcileEngine \/ ReconcileHub \/ SwapCoolify \/ FileConfigSnapshot \/ SwapAuth
    \/ ReconcileAlerts \/ EngineReconciles \/ HubReconciles \/ Restart

ConfigReloadSpec == ConfigReloadInit /\ [][ConfigReloadNext]_crVars
-----------------------------------------------------------------------------
\* An update is answered with success or leaves no trace: what is on disk, and
\* in memory unless an update is being written, is what was last answered, over
\* failed writes and crashes in the middle of one.
WritesAreWhole ==
    /\ configFile = answered
    /\ lock = Nobody => fileConfig = answered

\* After a swap the hub and the engine use the registry's client, or have been
\* poked since, or will be by the request that swapped it; the same for rules.
\* Whatever requests overlap, the client in use is never being closed, and each
\* of the others is, or is in somebody's hands.
PokedBy(places) == \E r \in Requests : request[r].at \in places
SwapsAreFollowed ==
    /\ follows.hub # registry.docker => "hub" \in pokes \/ PokedBy({"pokeEngine", "pokeHub"})
    /\ follows.engine # registry.docker => "engine" \in pokes \/ PokedBy({"pokeEngine"})
    /\ follows.rules # answered["rules"] => "engine" \in pokes \/ PokedBy({"reconcile"})
    /\ registry.docker \notin retiring \cup closed
    /\ DOMAIN clientHosts = {registry.docker} \cup retiring \cup closed
                      \cup {request[r].client : r \in {q \in Requests : request[q].at = "swap"}}

\* When nothing is under way any more, all run on the newest configuration, if
\* the newest callback has not begun while an older one was past its check.
AllAtRest == lock = Nobody /\ pokes = {} /\ \A r \in Requests : request[r].at = "idle"
NewestInForce ==
    AllAtRest /\ ~overlap =>
        /\ registry.config = generation /\ registry.coolify = generation
        /\ "auth" \notin EnvPinned => registry.auth = fileConfig["auth"]
        /\ clientHosts[registry.docker] = fileConfig["hosts"] \/ unfit
        /\ follows.hub = registry.docker /\ follows.engine = registry.docker

\* Every swap is followed, and in the end the newest configuration is the one in
\* force: main.go pokes the engine and the hub after SwapDocker, and remerge
\* drops the callbacks of older configurations.
ConfigFollowed == SwapsAreFollowed /\ NewestInForce

\* "Uses a generation counter to drop stale callbacks when a newer update has
\* already been applied" (config/manager.go:391).
NeverBackToOlder == [][restarts' = restarts => registry'.config >= registry.config]_crVars
=============================================================================
