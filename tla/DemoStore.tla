----------------------------- MODULE DemoStore -----------------------------
(***************************************************************************)
(* The documentation site's live demo: an in-memory stand-in for the       *)
(* server.  `state' (store.ts) keeps several records per container, some   *)
(* by id and some by host and name; the functions of api/ sleep before     *)
(* they look a container up, so a call can find it stopped, recreated      *)
(* under another id, or gone.  A call resumes as one task.                 *)
(*                                                                         *)
(* A container is a number, as its host and name never change; its id is   *)
(* the number with a suffix.  Lines are the ticks of the line generator.   *)
(***************************************************************************)
EXTENDS Integers, Sequences, FiniteSets, SequencesExt

CONSTANTS
    Seeds,          \* the containers the demo starts with
    SeedGroup,      \* those of its compose project
    Ghost,          \* the container removed before the demo began
    IdEnds,         \* the random ends of ids
    LogCap,         \* the lines kept per container
    MaxTicks,       \* bound: lines generated
    MaxCalls        \* bound: calls of the page

ASSUME DemoAssumption == Ghost \notin Seeds /\ LogCap \in Nat \ {0}

VARIABLES
    stateContainers,    \* the containers there are: suffix and state
    stateLogs, stateEnv, stateResources,    \* by id
    stateStats,         \* the ids that have statistics
    stateStored,        \* by name: removed, and the stored lines
    sameArray,          \* the names whose stored lines are the array of logs
    liveTick,
    asleep,             \* the calls on their way
    emissions,          \* history: events emitted
    demoCalls

stateVars == <<stateContainers, stateLogs, stateEnv, stateResources, stateStats, stateStored,
               sameArray, liveTick>>
dsVars == <<stateVars, asleep, emissions, demoCalls>>

Names == DOMAIN stateContainers
IdOf(n) == <<n, stateContainers[n].suffix>>
LiveIds == {IdOf(n) : n \in Names}
\* Mutant: a delete is forgotten.
Kept(f, id) == f

Deleted(f, id) == [x \in DOMAIN f \ {id} |-> f[x]]
Filed(f, id, v) == [x \in DOMAIN f \cup {id} |-> IF x = id THEN v ELSE f[x]]
Newest(s) == IF Len(s) > LogCap THEN SubSeq(s, Len(s) - LogCap + 1, Len(s)) ELSE s

\* getContainerById, with an id the page was shown some time ago.
Found(id) == {n \in Names : IdOf(n) = id}

-----------------------------------------------------------------------------
\* buildInitialState: the seed lines, tick 0, are one array for both.
DemoStoreInit ==
    /\ stateContainers \in [Seeds -> [suffix : {0}, state : {"running", "exited"}]]
    /\ stateLogs = [id \in LiveIds |-> <<0>>]
    /\ stateEnv = [id \in LiveIds |-> "seed"]
    /\ stateResources = [id \in LiveIds |-> "seed"]
    /\ stateStats = LiveIds
    /\ stateStored = [n \in Seeds \cup {Ghost} |-> [removed |-> n = Ghost, logs |-> <<0>>]]
    /\ sameArray = Seeds
    /\ liveTick = 0 /\ asleep = {} /\ emissions = 0 /\ demoCalls = 0

(* The calls of the page, up to the sleep.                                 *)
Sleep(call) ==
    /\ demoCalls < MaxCalls /\ demoCalls' = demoCalls + 1
    /\ asleep' = asleep \cup {call}
    /\ UNCHANGED <<stateVars, emissions>>

Asleep(ops) == {c \in asleep : c.op \in ops}
Wake(c) == asleep' = asleep \ {c} /\ UNCHANGED demoCalls
Emit(n) == emissions' = emissions + n

ById == {"start", "stop", "restart", "remove", "env", "limits"}

\* "Container not found".
RequireContainerFails ==
    \E c \in Asleep(ById) :
        /\ Found(c.id) = {}
        /\ Wake(c) /\ Emit(0) /\ UNCHANGED stateVars

Set(set, state) ==
    /\ stateContainers' = [n \in Names |-> IF n \in set
                             THEN [stateContainers[n] EXCEPT !.state = state]
                             ELSE stateContainers[n]]
    /\ UNCHANGED <<stateLogs, stateEnv, stateResources, stateStats, stateStored, sameArray, liveTick>>

StartContainer ==
    \E c \in Asleep({"start"}) : \E n \in Found(c.id) :
        Set({n}, "running") /\ Emit(1) /\ Wake(c)

StopContainer ==
    \E c \in Asleep({"stop"}) : \E n \in Found(c.id) :
        Set({n}, "exited") /\ Emit(1) /\ Wake(c)

RestartContainer ==
    \E c \in Asleep({"restart"}) : \E n \in Found(c.id) :
        Set({n}, "running") /\ Emit(1) /\ Wake(c)

\* The stored lines stay, flagged; what is kept by id goes.
RemoveContainer ==
    \E c \in Asleep({"remove"}) : \E n \in Found(c.id) :
        /\ stateStored' = [stateStored EXCEPT ![n].removed = TRUE]
        /\ stateContainers' = Deleted(stateContainers, n)
        /\ stateStats' = stateStats \ {c.id}
        /\ stateLogs' = Deleted(stateLogs, c.id)
        /\ stateEnv' = Deleted(stateEnv, c.id)
        /\ stateResources' = Deleted(stateResources, c.id)
        /\ sameArray' = sameArray \ {n}
        /\ Emit(1) /\ Wake(c) /\ UNCHANGED liveTick

\* Each member gets an event; a project without members is no error.
PerformComposeAction ==
    \E c \in Asleep({"compose"}) :
        LET members == SeedGroup \cap Names IN
        /\ Set(members, IF c.stops THEN "exited" ELSE "running")
        /\ Emit(Cardinality(members)) /\ Wake(c)

\* Moved to the new id, and then deleted under the old: a draw that repeats
\* the old id loses the record.
Moved(f, old, new) ==
    IF old \in DOMAIN f THEN Deleted(Filed(f, new, f[old]), old) ELSE f

UpdateContainerEnvVariables ==
    \E c \in Asleep({"env"}) : \E n \in Found(c.id), s \in IdEnds :
        LET new == <<n, s>> IN
        /\ stateContainers' = [stateContainers EXCEPT ![n] = [suffix |-> s, state |-> "running"]]
        /\ stateEnv' = Deleted(Filed(stateEnv, new, "saved"), c.id)
        /\ stateLogs' =
             Deleted(Filed(stateLogs, new, IF c.id \in DOMAIN stateLogs THEN stateLogs[c.id] ELSE <<>>),
                     c.id)
        /\ stateResources' = Moved(stateResources, c.id, new)
        /\ stateStats' = (stateStats \ {c.id}) \cup {new}
        /\ sameArray' = IF new = c.id THEN sameArray \ {n} ELSE sameArray
        /\ Emit(1) /\ Wake(c) /\ UNCHANGED <<stateStored, liveTick>>

UpdateContainerResources ==
    \E c \in Asleep({"limits"}) : \E n \in Found(c.id) :
        /\ stateResources' = Filed(stateResources, c.id, "saved")
        /\ Emit(1) /\ Wake(c)
        /\ UNCHANGED <<stateContainers, stateLogs, stateEnv, stateStats, stateStored, sameArray, liveTick>>

\* The stored lines of a removed container go with its record.
DeleteHistoryContainer ==
    \E c \in Asleep({"purge"}) :
        /\ stateStored' =
             IF c.of \notin DOMAIN stateStored THEN stateStored
             ELSE IF stateStored[c.of].removed THEN Deleted(stateStored, c.of)
             ELSE [stateStored EXCEPT ![c.of].logs = <<>>]
        /\ sameArray' = sameArray \ {c.of}
        /\ Wake(c) /\ Emit(0)
        /\ UNCHANGED <<stateContainers, stateLogs, stateEnv, stateResources, stateStats, liveTick>>

-----------------------------------------------------------------------------
(* Streams.                                                                *)

\* Mutant: a recreated container's lines are stored under its id.
StoredOfSeedId(n) == IF stateContainers[n].suffix = 0 THEN {n} ELSE {}

\* storedRecordFor: by host and name, which a recreation keeps.
StoredRecordFor(n) == {n} \cap DOMAIN stateStored

\* appendLog pushes onto the array of logs, and then onto the stored one:
\* while they are the same, the stored one gets the line twice.
AppendLog(n, line) ==
    LET had == IF IdOf(n) \in DOMAIN stateLogs THEN stateLogs[IdOf(n)] ELSE <<>>
        twice == IF n \in sameArray THEN <<line, line>> ELSE <<line>>
    IN /\ stateLogs' = Filed(stateLogs, IdOf(n), Newest(Append(had, line)))
       /\ stateStored' = [m \in DOMAIN stateStored |->
              IF m \in StoredRecordFor(n)
              THEN [stateStored[m] EXCEPT !.logs = Newest(@ \o twice)] ELSE stateStored[m]]
       /\ sameArray' = sameArray \ {n}

\* An open stream comes back from its sleep: a line of a running container.
\* (For any other it yields a heartbeat.)
StreamContainerLogs ==
    \E n \in Names :
        /\ stateContainers[n].state = "running" /\ liveTick < MaxTicks
        /\ liveTick' = liveTick + 1
        /\ AppendLog(n, liveTick')
        /\ UNCHANGED <<stateContainers, stateEnv, stateResources, stateStats, asleep, emissions, demoCalls>>

\* What the viewer of a container, or of a removed one by its name, reads.
ResolveLogs(n) ==
    IF n \in Names /\ IdOf(n) \in DOMAIN stateLogs THEN stateLogs[IdOf(n)]
    ELSE IF n \in DOMAIN stateStored THEN stateStored[n].logs ELSE <<>>

-----------------------------------------------------------------------------
DemoStoreNext ==
    \/ RequireContainerFails
    \/ StartContainer \/ StopContainer \/ RestartContainer \/ RemoveContainer
    \/ PerformComposeAction \/ UpdateContainerEnvVariables \/ UpdateContainerResources
    \/ DeleteHistoryContainer
    \/ StreamContainerLogs

DemoStates == [n \in Seeds \cup {Ghost} |-> IF n \in Names THEN stateContainers[n].state ELSE "gone"]
-----------------------------------------------------------------------------
\* However calls, recreations and removals overlap, what the store keeps by
\* id is about containers that exist under that id, and a stored record is
\* flagged removed exactly when its container is gone: a row is live or
\* removed, never both and never neither.
RecordsFollowContainers ==
    /\ DOMAIN stateLogs \cup DOMAIN stateEnv \cup DOMAIN stateResources \subseteq LiveIds
    /\ stateStats = LiveIds
    /\ Names \subseteq DOMAIN stateStored
    /\ \A n \in DOMAIN stateStored : stateStored[n].removed <=> n \notin Names

\* "Keep the stored-log record but flag it removed, so the container shows up
\* ... with browsable history" (removeContainer): the history of a container
\* that is removed now would have every line its viewer reads, but the oldest.
RemovedKeepsItsLines ==
    \A n \in Names : \A i \in 2 .. Len(ResolveLogs(n)) :
        ResolveLogs(n)[i] \in ToSet(stateStored[n].logs)

\* Removing a container, at any point of the calls under way on it, loses
\* neither its row nor its history.
DemoStoreKept == RecordsFollowContainers /\ RemovedKeepsItsLines
=============================================================================
