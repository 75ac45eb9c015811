--------------------------- MODULE Server_proofs ---------------------------
(***************************************************************************)
(* Three parts of the server that are model-checked together (MCServer).   *)
(*                                                                         *)
(* The configuration, for any number of handlers, updates, failed writes   *)
(* and restarts: an update is answered or leaves no trace, every swap of   *)
(* clients is followed, and at rest the newest configuration is the one in *)
(* force.                                                                  *)
(*                                                                         *)
(* The history of alerts, for any number of alerts, channels, clearings,   *)
(* failed writes and restarts: what it tells of a delivery is true.        *)
(*                                                                         *)
(* The reading of stored logs, for any number of lines and any size of     *)
(* pages and chunks: an unfiltered walk hands out every line once, and the *)
(* pages of any walk are what grouping all lines at once gives.            *)
(***************************************************************************)
EXTENDS ConfigReload, AlertHistory, LogQuery, FiniteSetTheorems, SequenceTheorems,
        WellFoundedInduction, TLAPS

-----------------------------------------------------------------------------
(* The configuration *)

Configs == [Sections -> Nat]
Places == InCallback \cup {"idle", "persist", "check", "reconcile"}
Handlers == [at : Places, section : Sections, old : Nat, generation : Nat, hosts : Nat,
             client : Nat, auth : Nat]

Typed ==
    /\ configFile \in Configs /\ fileConfig \in Configs /\ answered \in Configs
    /\ request \in [Requests -> Handlers]
    /\ generation \in Nat /\ writes \in Nat
    /\ clientHosts \in Seq(Nat)

\* Whoever holds the lock is writing, and nobody else is.
WriterHoldsLock ==
    /\ lock \in Requests \cup {Nobody}
    /\ \A r \in Requests : At(r, "persist") <=> lock = r

\* A failed write can be undone: memory without the writer's section is what was
\* last answered.
WriterCanUndo ==
    \A r \in Requests : At(r, "persist") =>
        [fileConfig EXCEPT ![request[r].section] = request[r].old] = answered

ConfigInv == Typed /\ WriterHoldsLock /\ WriterCanUndo /\ WritesAreWhole

-----------------------------------------------------------------------------
\* Putting a value back undoes an assignment.
LEMMA PutBackUndoes ==
    ASSUME NEW f \in Configs, NEW s \in Sections, NEW v \in Nat
    PROVE  /\ [f EXCEPT ![s] = v] \in Configs
           /\ [[f EXCEPT ![s] = v] EXCEPT ![s] = f[s]] = f
<1> DEFINE g == [[f EXCEPT ![s] = v] EXCEPT ![s] = f[s]]
<1>1. [f EXCEPT ![s] = v] \in Configs
  BY SMT DEF Configs
<1>2. f = [x \in Sections |-> f[x]]
  BY SMT DEF Configs
<1>3. g = [x \in Sections |-> g[x]]
  BY <1>2, SMT
<1>4. \A x \in Sections : g[x] = f[x]
  BY <1>1, SMT DEF Configs
<1>5. g = f
  <2> HIDE DEF g
  <2> QED
    BY <1>2, <1>3, <1>4, Zenon
<1> QED
  BY <1>1, <1>5

LEMMA IdleIsHandler == Idle \in Handlers /\ Idle.at = "idle"
<1>1. Idle \in Handlers
  <2>1. "idle" \in Places /\ "hosts" \in Sections /\ 0 \in Nat
    BY SMT DEF Sections, Places
  <2> QED
    BY <2>1, Zenon DEF Idle, Handlers
<1>2. Idle.at = "idle"
  BY SMT DEF Idle
<1> QED
  BY <1>1, <1>2

\* What a step may change of the handler it belongs to.
Replacing(h, s, n) == [h EXCEPT !.at = "persist", !.section = s, !.old = n]
Calling(h, n, m) == [h EXCEPT !.at = "check", !.generation = n, !.hosts = m]

LEMMA HandlerMoves ==
    ASSUME NEW h \in Handlers, NEW place \in Places
    PROVE  [h EXCEPT !.at = place] \in Handlers /\ [h EXCEPT !.at = place].at = place
  BY SMT DEF Handlers
WithClient(h, place, c) == [h EXCEPT !.at = place, !.client = c]
WithAuth(h, place, a) == [h EXCEPT !.at = place, !.auth = a]

LEMMA HandlerReplaces ==
    ASSUME NEW h \in Handlers, NEW s \in Sections, NEW n \in Nat
    PROVE  /\ Replacing(h, s, n) \in Handlers
           /\ Replacing(h, s, n).at = "persist"
           /\ Replacing(h, s, n).section = s /\ Replacing(h, s, n).old = n
<1>1. ASSUME NEW g \in Handlers PROVE [g EXCEPT !.old = n] \in Handlers
  BY SMT DEF Handlers
<1>2. ASSUME NEW g \in Handlers PROVE [g EXCEPT !.section = s] \in Handlers
  BY SMT DEF Handlers
<1>3. "persist" \in Places
  BY SMT DEF Places
<1>4. Replacing(h, s, n) \in Handlers
  BY <1>1, <1>2, <1>3, HandlerMoves, Zenon DEF Replacing
<1> QED
  BY <1>4, SMT DEF Handlers, Replacing

LEMMA HandlerCalls ==
    ASSUME NEW h \in Handlers, NEW n \in Nat, NEW m \in Nat
    PROVE  Calling(h, n, m) \in Handlers /\ Calling(h, n, m).at = "check"
<1>1. ASSUME NEW g \in Handlers PROVE [g EXCEPT !.hosts = m] \in Handlers
  BY SMT DEF Handlers
<1>2. ASSUME NEW g \in Handlers PROVE [g EXCEPT !.generation = n] \in Handlers
  BY SMT DEF Handlers
<1>3. "check" \in Places
  BY SMT DEF Places
<1>4. Calling(h, n, m) \in Handlers
  BY <1>1, <1>2, <1>3, HandlerMoves, Zenon DEF Calling
<1> QED
  BY <1>4, SMT DEF Handlers, Calling

LEMMA HandlerTakes ==
    ASSUME NEW h \in Handlers, NEW place \in Places, NEW n \in Nat
    PROVE  /\ WithClient(h, place, n) \in Handlers /\ WithClient(h, place, n).at = place
           /\ WithAuth(h, place, n) \in Handlers /\ WithAuth(h, place, n).at = place
<1>1. ASSUME NEW g \in Handlers
      PROVE  [g EXCEPT !.client = n] \in Handlers
  BY SMT DEF Handlers
<1>2. ASSUME NEW g \in Handlers
      PROVE  [g EXCEPT !.auth = n] \in Handlers
  BY SMT DEF Handlers
<1>3. WithClient(h, place, n) \in Handlers /\ WithAuth(h, place, n) \in Handlers
  BY <1>1, <1>2, HandlerMoves, Zenon DEF WithClient, WithAuth
<1> QED
  BY <1>3, SMT DEF Handlers, WithClient, WithAuth

LEMMA OneHandlerMoves ==
    ASSUME NEW R \in [Requests -> Handlers], NEW r \in Requests, NEW h \in Handlers
    PROVE  /\ [R EXCEPT ![r] = h] \in [Requests -> Handlers]
           /\ [R EXCEPT ![r] = h][r] = h
           /\ \A q \in Requests \ {r} : [R EXCEPT ![r] = h][q] = R[q]
  BY SMT

\* The server starts with memory and file alike and nobody writing.
LEMMA InitWhole == ConfigReloadInit => ConfigInv
<1> SUFFICES ASSUME ConfigReloadInit PROVE ConfigInv
  OBVIOUS
<1>1. Typed
  <2>1. Start \in Configs
    BY SMT DEF Start, Configs
  <2>3. request \in [Requests -> Handlers]
    BY IdleIsHandler, SMT DEF ConfigReloadInit
  <2> QED
    BY <2>1, <2>3, SMT DEF ConfigReloadInit, Typed
<1>2. WriterHoldsLock
  BY ConfigAssumption, SMT DEF ConfigReloadInit, WriterHoldsLock, At, Idle
<1>3. WriterCanUndo
  BY SMT DEF ConfigReloadInit, WriterCanUndo, At, Idle
<1>4. WritesAreWhole
  BY SMT DEF ConfigReloadInit, WritesAreWhole
<1> QED
  BY <1>1, <1>2, <1>3, <1>4 DEF ConfigInv

\* A step of the callback or of the components changes neither the manager nor
\* whose turn it is to write.
ManagerAside ==
    /\ UNCHANGED <<manager, answered, writes>>
    /\ request' \in [Requests -> Handlers] /\ clientHosts' \in Seq(Nat)
    /\ \A q \in Requests : (request[q].at = "persist" \/ request'[q].at = "persist")
                               => request'[q] = request[q]

LEMMA AsideWhole == ASSUME ConfigInv, ManagerAside PROVE ConfigInv'
<1>1. Typed'
  BY SMT DEF ConfigInv, ManagerAside, Typed, manager
<1>2. WriterHoldsLock'
  BY SMT DEF ConfigInv, ManagerAside, WriterHoldsLock, At, manager
<1>3. WriterCanUndo'
  <2>1. fileConfig' = fileConfig /\ answered' = answered
    BY DEF ManagerAside, manager
  <2> QED
    BY <2>1, Zenon DEF ConfigInv, ManagerAside, WriterCanUndo, At
<1>4. WritesAreWhole'
  BY SMT DEF ConfigInv, ManagerAside, WritesAreWhole, manager
<1> QED
  BY <1>1, <1>2, <1>3, <1>4 DEF ConfigInv

-----------------------------------------------------------------------------
\* An update remembers what it replaces.
LEMMA UpdateWhole == ASSUME ConfigInv, Update PROVE ConfigInv'
<1>1. PICK r \in Requests, s \in Sections \ EnvPinned :
          /\ At(r, "idle")
          /\ request' = [request EXCEPT ![r].at = "persist", ![r].section = s, ![r].old = fileConfig[s]]
          /\ fileConfig' = [fileConfig EXCEPT ![s] = writes + 1]
          /\ lock' = r
  BY Zenon DEF Update
<1>2. /\ lock = Nobody /\ writes' = writes + 1 /\ configFile' = configFile
      /\ generation' = generation /\ clientHosts' = clientHosts /\ answered' = answered
  BY Zenon DEF Update
<1>3. fileConfig = answered /\ configFile = answered
  BY <1>2 DEF ConfigInv, WritesAreWhole
<1>4. fileConfig[s] \in Nat /\ fileConfig \in Configs /\ s \in Sections /\ writes + 1 \in Nat
  BY SMT DEF ConfigInv, Typed, Configs
<1>5. /\ request' \in [Requests -> Handlers]
      /\ request'[r].at = "persist" /\ request'[r].section = s /\ request'[r].old = fileConfig[s]
      /\ \A q \in Requests \ {r} : request'[q] = request[q]
  <2> DEFINE h == Replacing(request[r], s, fileConfig[s])
  <2>1. request[r] \in Handlers
    BY DEF ConfigInv, Typed
  <2>2. h \in Handlers /\ h.at = "persist" /\ h.section = s /\ h.old = fileConfig[s]
    <3>1. s \in Sections /\ fileConfig[s] \in Nat
      BY <1>4
    <3> QED
      BY <2>1, <3>1, HandlerReplaces, SMT
  <2>3. request' = [request EXCEPT ![r] = h]
    BY <1>1, Zenon DEF Replacing
  <2> HIDE DEF h
  <2> QED
    BY <2>2, <2>3, OneHandlerMoves DEF ConfigInv, Typed
<1>7. fileConfig' \in Configs /\ [fileConfig' EXCEPT ![s] = fileConfig[s]] = fileConfig
  BY <1>1, <1>4, PutBackUndoes
<1>8. Typed'
  BY <1>2, <1>4, <1>5, <1>7 DEF ConfigInv, Typed
<1>9. \A q \in Requests : request[q].at # "persist"
  BY <1>2, ConfigAssumption, Zenon DEF ConfigInv, WriterHoldsLock, At
<1>10. WriterHoldsLock'
  BY <1>1, <1>5, <1>9, SMT DEF WriterHoldsLock, At
<1>11. WriterCanUndo'
  BY <1>2, <1>3, <1>5, <1>7, <1>9, Zenon DEF WriterCanUndo, At
<1>12. WritesAreWhole'
  BY <1>1, <1>2, <1>3, ConfigAssumption, SMT DEF WritesAreWhole
<1> QED
  BY <1>8, <1>10, <1>11, <1>12 DEF ConfigInv

\* What is answered is what was written.
LEMMA PersistedWhole == ASSUME ConfigInv, Persisted PROVE ConfigInv'
<1>1. PICK r \in Requests :
        /\ At(r, "persist")
        /\ configFile' = fileConfig /\ lock' = Nobody
        /\ answered' = [answered EXCEPT ![request[r].section] = fileConfig[request[r].section]]
        /\ \/ /\ request[r].section \in Merged
              /\ generation' = generation + 1
              /\ request' = [request EXCEPT ![r].at = "check", ![r].generation = generation',
                                            ![r].hosts = fileConfig["hosts"]]
           \/ /\ request[r].section \notin Merged
              /\ Goes(r, "reconcile")
              /\ UNCHANGED generation
        /\ UNCHANGED <<fileConfig, writes, clientHosts>>
  BY Zenon DEF Persisted
<1> DEFINE s == request[r].section
<1>2. /\ s \in Sections /\ fileConfig \in Configs /\ request[r].old \in Nat
      /\ fileConfig["hosts"] \in Nat /\ answered \in Configs
  BY SMT DEF ConfigInv, Typed, Handlers, Configs, Sections
<1>3. answered' = fileConfig
  <2>1. [fileConfig EXCEPT ![s] = request[r].old] = answered
    BY <1>1, Zenon DEF ConfigInv, WriterCanUndo
  <2> QED
    BY <1>1, <1>2, <2>1, PutBackUndoes
<1>4. /\ request' \in [Requests -> Handlers] /\ generation' \in Nat
      /\ request'[r].at # "persist"
      /\ \A q \in Requests \ {r} : request'[q] = request[q]
  <2>1. request[r] \in Handlers
    BY DEF ConfigInv, Typed
  <2>2. CASE request[r].section \in Merged
    <3> DEFINE h == Calling(request[r], generation', fileConfig["hosts"])
    <3>1. generation' \in Nat
      BY <1>1, <2>2, SMT DEF ConfigInv, Typed
    <3>2. h \in Handlers /\ h.at = "check"
      BY <1>2, <2>1, <3>1, HandlerCalls, Zenon
    <3>3. request' = [request EXCEPT ![r] = h]
      BY <1>1, <2>2, Zenon DEF Calling
    <3> HIDE DEF h
    <3> QED
      BY <3>1, <3>2, <3>3, OneHandlerMoves DEF ConfigInv, Typed
  <2>3. CASE request[r].section \notin Merged
    <3> DEFINE h == [request[r] EXCEPT !.at = "reconcile"]
    <3>1. h \in Handlers /\ h.at = "reconcile"
      <4>1. "reconcile" \in Places
        BY SMT DEF Places
      <4> QED
        BY <2>1, <4>1, HandlerMoves, Zenon
    <3>2. request' = [request EXCEPT ![r] = h] /\ generation' = generation
      BY <1>1, <2>3 DEF Goes
    <3> HIDE DEF h
    <3> QED
      BY <3>1, <3>2, OneHandlerMoves DEF ConfigInv, Typed
  <2> QED
    BY <2>2, <2>3
<1>5. lock = r
  BY <1>1 DEF ConfigInv, WriterHoldsLock
<1>6. \A q \in Requests : request'[q].at # "persist"
  BY <1>4, <1>5, SMT DEF ConfigInv, WriterHoldsLock, At
<1>7. Typed'
  BY <1>1, <1>2, <1>3, <1>4 DEF ConfigInv, Typed
<1>8. WriterHoldsLock'
  BY <1>1, <1>6, ConfigAssumption, SMT DEF WriterHoldsLock, At
<1>9. WriterCanUndo'
  BY <1>6, Zenon DEF WriterCanUndo, At
<1>10. WritesAreWhole'
  BY <1>1, <1>3 DEF WritesAreWhole
<1> QED
  BY <1>7, <1>8, <1>9, <1>10 DEF ConfigInv

\* A failed write puts memory back.
LEMMA FailureWhole == ASSUME ConfigInv, PersistFails PROVE ConfigInv'
<1>1. PICK r \in Requests : At(r, "persist") /\ RollBack(r) /\ Returns(r)
  BY Zenon DEF PersistFails
<1>2. /\ lock' = Nobody /\ configFile' = configFile /\ generation' = generation
      /\ clientHosts' = clientHosts /\ writes' = writes /\ answered' = answered
  BY Zenon DEF PersistFails
<1>3. fileConfig' = answered
  BY <1>1, Zenon DEF ConfigInv, WriterCanUndo, RollBack, PutBack
<1>4. /\ request' \in [Requests -> Handlers] /\ request'[r].at # "persist"
      /\ \A q \in Requests \ {r} : request'[q] = request[q]
  BY <1>1, IdleIsHandler, SMT DEF ConfigInv, Typed, Returns
<1>5. lock = r
  BY <1>1 DEF ConfigInv, WriterHoldsLock
<1>6. \A q \in Requests : request'[q].at # "persist"
  BY <1>4, <1>5, SMT DEF ConfigInv, WriterHoldsLock, At
<1>7. Typed'
  BY <1>2, <1>3, <1>4 DEF ConfigInv, Typed
<1>8. WriterHoldsLock'
  BY <1>2, <1>6, ConfigAssumption, SMT DEF WriterHoldsLock, At
<1>9. WriterCanUndo'
  BY <1>6, Zenon DEF WriterCanUndo, At
<1>10. WritesAreWhole'
  BY <1>2, <1>3 DEF ConfigInv, WritesAreWhole
<1> QED
  BY <1>7, <1>8, <1>9, <1>10 DEF ConfigInv

\* A new process has what the file has, and no handlers.
LEMMA RestartWhole == ASSUME ConfigInv, Restart PROVE ConfigInv'
<1>1. /\ configFile' = configFile /\ writes' = writes /\ answered' = answered
      /\ fileConfig' = configFile /\ lock' = Nobody /\ generation' = 0
      /\ request' = [r \in Requests |-> Idle] /\ clientHosts' = Append(clientHosts, configFile["hosts"])
  BY Zenon DEF Restart, Boots
<1>2. Typed'
  <2>1. request' \in [Requests -> Handlers]
    BY <1>1, IdleIsHandler, Zenon
  <2>2. configFile["hosts"] \in Nat /\ clientHosts \in Seq(Nat)
    BY SMT DEF ConfigInv, Typed, Configs, Sections
  <2>3. clientHosts' \in Seq(Nat)
    BY <1>1, <2>2, SMT
  <2> QED
    BY <1>1, <2>1, <2>3, SMT DEF ConfigInv, Typed
<1>3. \A q \in Requests : request'[q].at # "persist"
  BY <1>1, IdleIsHandler, SMT
<1>4. WriterHoldsLock'
  BY <1>1, <1>3, ConfigAssumption, SMT DEF WriterHoldsLock, At
<1>5. WriterCanUndo'
  BY <1>3, Zenon DEF WriterCanUndo, At
<1>6. WritesAreWhole'
  BY <1>1 DEF ConfigInv, WritesAreWhole
<1> QED
  BY <1>2, <1>4, <1>5, <1>6 DEF ConfigInv

-----------------------------------------------------------------------------
\* The callback's steps.  Each is a step of one handler that is not writing and
\* does not begin to.
LEMMA OneStepAside ==
    ASSUME ConfigInv, NEW r \in Requests, NEW h \in Handlers,
           request[r].at # "persist", h.at # "persist",
           request' = [request EXCEPT ![r] = h],
           UNCHANGED <<manager, answered, writes>>, clientHosts' \in Seq(Nat)
    PROVE  ManagerAside
<1>1. /\ request' \in [Requests -> Handlers]
      /\ request'[r] = h /\ \A q \in Requests \ {r} : request'[q] = request[q]
  BY OneHandlerMoves DEF ConfigInv, Typed
<1>2. ASSUME NEW q \in Requests, request[q].at = "persist" \/ request'[q].at = "persist"
      PROVE  request'[q] = request[q]
  BY <1>1, <1>2
<1> QED
  BY <1>1, <1>2 DEF ManagerAside

LEMMA GoingAside ==
    ASSUME ConfigInv, NEW r \in Requests, NEW place \in Places, place # "persist",
           request[r].at # "persist", Goes(r, place),
           UNCHANGED <<manager, answered, writes>>, clientHosts' \in Seq(Nat)
    PROVE  ManagerAside
<1> DEFINE h == [request[r] EXCEPT !.at = place]
<1>1. request[r] \in Handlers
  BY DEF ConfigInv, Typed
<1>2. h \in Handlers /\ h.at = place
  BY <1>1, HandlerMoves, Zenon
<1>3. request' = [request EXCEPT ![r] = h]
  BY DEF Goes
<1> HIDE DEF h
<1> QED
  BY <1>2, <1>3, OneStepAside

LEMMA ReturningAside ==
    ASSUME ConfigInv, NEW r \in Requests, request[r].at # "persist", Returns(r),
           UNCHANGED <<manager, answered, writes>>, clientHosts' \in Seq(Nat)
    PROVE  ManagerAside
<1>1. Idle.at # "persist"
  BY IdleIsHandler, SMT
<1> QED
  BY <1>1, IdleIsHandler, OneStepAside DEF Returns

LEMMA OthersAside ==
    ASSUME ConfigInv, UNCHANGED <<manager, answered, writes, request, clientHosts>>
    PROVE  ManagerAside
  BY DEF ConfigInv, Typed, ManagerAside

LEMMA UpdateConfigAside == ASSUME ConfigInv, UpdateConfig PROVE ManagerAside
<1>1. PICK r \in Requests : At(r, "config") /\ Goes(r, "client")
  BY Zenon DEF UpdateConfig
<1>2. UNCHANGED <<manager, answered, writes, clientHosts>>
  BY Zenon DEF UpdateConfig, crHistory
<1>3. "client" \in Places /\ "client" # "persist" /\ request[r].at # "persist"
  BY <1>1, Zenon DEF Places, InCallback, At
<1>4. clientHosts' \in Seq(Nat)
  BY <1>2 DEF ConfigInv, Typed
<1> QED
  BY <1>1, <1>2, <1>3, <1>4, GoingAside

LEMMA NewMultiHostClientFailsAside == ASSUME ConfigInv, NewMultiHostClientFails PROVE ManagerAside
<1>1. PICK r \in Requests : At(r, "client") /\ Goes(r, "coolify")
  BY Zenon DEF NewMultiHostClientFails
<1>2. UNCHANGED <<manager, answered, writes, clientHosts>>
  BY Zenon DEF NewMultiHostClientFails, crHistory
<1>3. "coolify" \in Places /\ "coolify" # "persist" /\ request[r].at # "persist"
  BY <1>1, Zenon DEF Places, InCallback, At
<1>4. clientHosts' \in Seq(Nat)
  BY <1>2 DEF ConfigInv, Typed
<1> QED
  BY <1>1, <1>2, <1>3, <1>4, GoingAside

LEMMA ReconcileEngineAside == ASSUME ConfigInv, ReconcileEngine PROVE ManagerAside
<1>1. PICK r \in Requests : At(r, "pokeEngine") /\ Goes(r, "pokeHub")
  BY Zenon DEF ReconcileEngine
<1>2. UNCHANGED <<manager, answered, writes, clientHosts>>
  BY Zenon DEF ReconcileEngine, crHistory
<1>3. "pokeHub" \in Places /\ "pokeHub" # "persist" /\ request[r].at # "persist"
  BY <1>1, Zenon DEF Places, InCallback, At
<1>4. clientHosts' \in Seq(Nat)
  BY <1>2 DEF ConfigInv, Typed
<1> QED
  BY <1>1, <1>2, <1>3, <1>4, GoingAside

LEMMA ReconcileHubAside == ASSUME ConfigInv, ReconcileHub PROVE ManagerAside
<1>1. PICK r \in Requests : At(r, "pokeHub") /\ Goes(r, "coolify")
  BY Zenon DEF ReconcileHub
<1>2. UNCHANGED <<manager, answered, writes, clientHosts>>
  BY Zenon DEF ReconcileHub, crHistory
<1>3. "coolify" \in Places /\ "coolify" # "persist" /\ request[r].at # "persist"
  BY <1>1, Zenon DEF Places, InCallback, At
<1>4. clientHosts' \in Seq(Nat)
  BY <1>2 DEF ConfigInv, Typed
<1> QED
  BY <1>1, <1>2, <1>3, <1>4, GoingAside

LEMMA SwapCoolifyAside == ASSUME ConfigInv, SwapCoolify PROVE ManagerAside
<1>1. PICK r \in Requests : At(r, "coolify") /\ Goes(r, "readAuth")
  BY Zenon DEF SwapCoolify
<1>2. UNCHANGED <<manager, answered, writes, clientHosts>>
  BY Zenon DEF SwapCoolify, crHistory
<1>3. "readAuth" \in Places /\ "readAuth" # "persist" /\ request[r].at # "persist"
  BY <1>1, Zenon DEF Places, InCallback, At
<1>4. clientHosts' \in Seq(Nat)
  BY <1>2 DEF ConfigInv, Typed
<1> QED
  BY <1>1, <1>2, <1>3, <1>4, GoingAside

LEMMA SwapAuthAside == ASSUME ConfigInv, SwapAuth PROVE ManagerAside
<1>1. PICK r \in Requests : At(r, "auth") /\ Returns(r)
  BY Zenon DEF SwapAuth
<1>2. UNCHANGED <<manager, answered, writes, clientHosts>>
  BY Zenon DEF SwapAuth, crHistory
<1>3. request[r].at # "persist" /\ clientHosts' \in Seq(Nat)
  BY <1>1, <1>2, SMT DEF At, ConfigInv, Typed
<1> QED
  BY <1>1, <1>2, <1>3, ReturningAside

LEMMA ReconcileAlertsAside == ASSUME ConfigInv, ReconcileAlerts PROVE ManagerAside
<1>1. PICK r \in Requests : At(r, "reconcile") /\ Returns(r)
  BY Zenon DEF ReconcileAlerts
<1>2. UNCHANGED <<manager, answered, writes, clientHosts>>
  BY Zenon DEF ReconcileAlerts, crHistory
<1>3. request[r].at # "persist" /\ clientHosts' \in Seq(Nat)
  BY <1>1, <1>2, SMT DEF At, ConfigInv, Typed
<1> QED
  BY <1>1, <1>2, <1>3, ReturningAside

LEMMA CloseRetiredAside == ASSUME ConfigInv, CloseRetired PROVE ManagerAside
  BY OthersAside, Zenon DEF CloseRetired, crHistory

LEMMA EngineReconcilesAside == ASSUME ConfigInv, EngineReconciles PROVE ManagerAside
  BY OthersAside, Zenon DEF EngineReconciles, crHistory

LEMMA HubReconcilesAside == ASSUME ConfigInv, HubReconciles PROVE ManagerAside
  BY OthersAside, Zenon DEF HubReconciles, crHistory

LEMMA CheckGenerationAside == ASSUME ConfigInv, CheckGeneration PROVE ManagerAside
<1>1. PICK r \in Requests : At(r, "check") /\ (Returns(r) \/ Goes(r, "config"))
  BY Zenon DEF CheckGeneration
<1>2. UNCHANGED <<manager, answered, writes, clientHosts>>
  BY Zenon DEF CheckGeneration, crHistory
<1>3. "config" \in Places /\ "config" # "persist" /\ request[r].at # "persist"
  BY <1>1, Zenon DEF Places, InCallback, At
<1>4. clientHosts' \in Seq(Nat)
  BY <1>2 DEF ConfigInv, Typed
<1> QED
  BY <1>1, <1>2, <1>3, <1>4, GoingAside, ReturningAside

LEMMA NewMultiHostClientAside == ASSUME ConfigInv, NewMultiHostClient PROVE ManagerAside
<1>1. PICK r \in Requests : At(r, "client") /\ request' = [request EXCEPT ![r].at = "swap", ![r].client = NextClient]
  BY Zenon DEF NewMultiHostClient
<1>2. UNCHANGED <<manager, answered, writes>>
  BY Zenon DEF NewMultiHostClient, crHistory
<1>3. clientHosts' \in Seq(Nat) /\ NextClient \in Nat
  <2>1. PICK q \in Requests : clientHosts' = Append(clientHosts, request[q].hosts)
    BY Zenon DEF NewMultiHostClient
  <2>2. request[q].hosts \in Nat /\ clientHosts \in Seq(Nat)
    BY SMT DEF ConfigInv, Typed, Handlers
  <2> QED
    BY <2>1, <2>2, SMT DEF NextClient
<1>4. request[r] \in Handlers /\ request[r].at # "persist"
  BY <1>1, Zenon DEF ConfigInv, Typed, At
<1>5. "swap" \in Places /\ "swap" # "persist"
  BY Zenon DEF Places, InCallback
<1> DEFINE h == WithClient(request[r], "swap", NextClient)
<1>6. h \in Handlers /\ h.at = "swap"
  BY <1>3, <1>4, <1>5, HandlerTakes, Zenon
<1>7. request' = [request EXCEPT ![r] = h]
  BY <1>1, Zenon DEF WithClient
<1> HIDE DEF h
<1> QED
  BY <1>2, <1>3, <1>4, <1>5, <1>6, <1>7, OneStepAside

LEMMA SwapDockerAside == ASSUME ConfigInv, SwapDocker PROVE ManagerAside
<1>1. PICK r \in Requests : At(r, "swap") /\ request' = [request EXCEPT ![r].at = "pokeEngine", ![r].client = 0]
  BY Zenon DEF SwapDocker
<1>2. UNCHANGED <<manager, answered, writes>>
  BY Zenon DEF SwapDocker, crHistory
<1>3. 0 \in Nat /\ clientHosts' \in Seq(Nat)
  <2>1. clientHosts' = clientHosts
    BY Zenon DEF SwapDocker, crHistory
  <2> QED
    BY <2>1, SMT DEF ConfigInv, Typed
<1>4. request[r] \in Handlers /\ request[r].at # "persist"
  BY <1>1, Zenon DEF ConfigInv, Typed, At
<1>5. "pokeEngine" \in Places /\ "pokeEngine" # "persist"
  BY Zenon DEF Places, InCallback
<1> DEFINE h == WithClient(request[r], "pokeEngine", 0)
<1>6. h \in Handlers /\ h.at = "pokeEngine"
  BY <1>3, <1>4, <1>5, HandlerTakes, Zenon
<1>7. request' = [request EXCEPT ![r] = h]
  BY <1>1, Zenon DEF WithClient
<1> HIDE DEF h
<1> QED
  BY <1>2, <1>3, <1>4, <1>5, <1>6, <1>7, OneStepAside

LEMMA FileConfigSnapshotAside == ASSUME ConfigInv, FileConfigSnapshot PROVE ManagerAside
<1>1. PICK r \in Requests : At(r, "readAuth") /\ request' = [request EXCEPT ![r].at = "auth", ![r].auth = fileConfig["auth"]]
  BY Zenon DEF FileConfigSnapshot
<1>2. UNCHANGED <<manager, answered, writes>>
  BY Zenon DEF FileConfigSnapshot, crHistory
<1>3. fileConfig["auth"] \in Nat /\ clientHosts' \in Seq(Nat)
  <2>1. clientHosts' = clientHosts
    BY Zenon DEF FileConfigSnapshot, crHistory
  <2> QED
    BY <2>1, SMT DEF ConfigInv, Typed, Configs, Sections
<1>4. request[r] \in Handlers /\ request[r].at # "persist"
  BY <1>1, Zenon DEF ConfigInv, Typed, At
<1>5. "auth" \in Places /\ "auth" # "persist"
  BY Zenon DEF Places, InCallback
<1> DEFINE h == WithAuth(request[r], "auth", fileConfig["auth"])
<1>6. h \in Handlers /\ h.at = "auth"
  BY <1>3, <1>4, <1>5, HandlerTakes, Zenon
<1>7. request' = [request EXCEPT ![r] = h]
  BY <1>1, Zenon DEF WithAuth
<1> HIDE DEF h
<1> QED
  BY <1>2, <1>3, <1>4, <1>5, <1>6, <1>7, OneStepAside

-----------------------------------------------------------------------------
LEMMA StepWhole == ConfigInv /\ [ConfigReloadNext]_crVars => ConfigInv'
<1> SUFFICES ASSUME ConfigInv, [ConfigReloadNext]_crVars PROVE ConfigInv'
  OBVIOUS
<1>1. CASE Update
  BY <1>1, UpdateWhole
<1>2. CASE Persisted
  BY <1>2, PersistedWhole
<1>3. CASE PersistFails
  BY <1>3, FailureWhole
<1>4. CASE CheckGeneration
  BY <1>4, CheckGenerationAside, AsideWhole
<1>5. CASE UpdateConfig
  BY <1>5, UpdateConfigAside, AsideWhole
<1>6. CASE NewMultiHostClient
  BY <1>6, NewMultiHostClientAside, AsideWhole
<1>7. CASE NewMultiHostClientFails
  BY <1>7, NewMultiHostClientFailsAside, AsideWhole
<1>8. CASE SwapDocker
  BY <1>8, SwapDockerAside, AsideWhole
<1>9. CASE CloseRetired
  BY <1>9, CloseRetiredAside, AsideWhole
<1>10. CASE ReconcileEngine
  BY <1>10, ReconcileEngineAside, AsideWhole
<1>11. CASE ReconcileHub
  BY <1>11, ReconcileHubAside, AsideWhole
<1>12. CASE SwapCoolify
  BY <1>12, SwapCoolifyAside, AsideWhole
<1>13. CASE FileConfigSnapshot
  BY <1>13, FileConfigSnapshotAside, AsideWhole
<1>14. CASE SwapAuth
  BY <1>14, SwapAuthAside, AsideWhole
<1>15. CASE ReconcileAlerts
  BY <1>15, ReconcileAlertsAside, AsideWhole
<1>16. CASE EngineReconciles
  BY <1>16, EngineReconcilesAside, AsideWhole
<1>17. CASE HubReconciles
  BY <1>17, HubReconcilesAside, AsideWhole
<1>18. CASE Restart
  BY <1>18, RestartWhole
<1>19. CASE UNCHANGED crVars
  <2>1. UNCHANGED <<manager, answered, writes, request, clientHosts>>
    BY <1>19, Zenon DEF crVars, crHistory
  <2> QED
    BY <2>1, OthersAside, AsideWhole
<1> QED
  BY <1>1, <1>2, <1>3, <1>4, <1>5, <1>6, <1>7, <1>8, <1>9,
     <1>10, <1>11, <1>12, <1>13, <1>14, <1>15, <1>16, <1>17, <1>18, <1>19 DEF ConfigReloadNext

\* config/manager.go: whatever updates, failed writes and restarts come in
\* whatever order, the file holds exactly what was answered with success, and so
\* does memory when nobody is writing.  The invariant needs what the writer holds
\* in hand (WriterCanUndo) and that there is one writer (WriterHoldsLock).
THEOREM UpdatesAreWhole == ConfigReloadSpec => []WritesAreWhole
<1>1. ConfigInv => WritesAreWhole
  BY DEF ConfigInv
<1> QED
  BY <1>1, InitWhole, StepWhole, PTL DEF ConfigReloadSpec

-----------------------------------------------------------------------------
\* What a step does to the handler it belongs to, field by field.
Keeps(r, place) ==
    /\ request'[r].at = place /\ request'[r].generation = request[r].generation
    /\ request'[r].hosts = request[r].hosts /\ request'[r].client = request[r].client
    /\ request'[r].auth = request[r].auth
Alone(r) == \A q \in Requests \ {r} : request'[q] = request[q]

LEMMA GoingKeeps ==
    ASSUME Typed, NEW r \in Requests, NEW place \in Places, Goes(r, place)
    PROVE  Keeps(r, place) /\ Alone(r)
<1> DEFINE h == [request[r] EXCEPT !.at = place]
<1>1. request[r] \in Handlers
  BY DEF Typed
<1>2. /\ h \in Handlers /\ h.at = place /\ h.generation = request[r].generation
      /\ h.hosts = request[r].hosts /\ h.client = request[r].client /\ h.auth = request[r].auth
  BY <1>1, SMT DEF Handlers
<1>3. request' = [request EXCEPT ![r] = h]
  BY DEF Goes
<1> HIDE DEF h
<1> QED
  BY <1>2, <1>3, OneHandlerMoves DEF Typed, Keeps, Alone

LEMMA ReturningIdles ==
    ASSUME Typed, NEW r \in Requests, Returns(r)
    PROVE  request'[r].at = "idle" /\ Alone(r)
  BY IdleIsHandler, OneHandlerMoves DEF Typed, Returns, Alone

-----------------------------------------------------------------------------
\* Part 1: the clients.  Those made are one in use, those retiring or closed, and
\* those in the hands of the callbacks that are about to swap them in.
Clients == DOMAIN clientHosts
Swapping(r) == request[r].at = "swap"

ClientsTyped ==
    /\ registry \in [config : Nat, docker : Nat, coolify : Nat, auth : Nat]
    /\ follows \in [hub : Nat, engine : Nat, rules : Nat]
    /\ registry.docker \in Clients /\ retiring \subseteq Clients /\ closed \subseteq Clients

InHand ==
    /\ \A r \in Requests : Swapping(r) =>
          /\ request[r].client \in Clients
          /\ request[r].client \notin {registry.docker} \cup retiring \cup closed
    /\ \A r, q \in Requests :
          Swapping(r) /\ Swapping(q) /\ request[r].client = request[q].client => r = q

SwapInv == ClientsTyped /\ InHand /\ SwapsAreFollowed

LEMMA InitSwaps == ConfigReloadInit => SwapInv
<1> SUFFICES ASSUME ConfigReloadInit PROVE SwapInv
  OBVIOUS
<1>1. \A r \in Requests : request[r].at = "idle"
  BY IdleIsHandler, SMT DEF ConfigReloadInit
<1>2. Clients = {1}
  BY SMT DEF ConfigReloadInit, Clients
<1>3. registry.docker = 1 /\ follows.hub = 1 /\ follows.engine = 1 /\ follows.rules = 0
  BY Zenon DEF ConfigReloadInit
<1>4. answered["rules"] = 0
  BY SMT DEF ConfigReloadInit, Start, Sections
<1>5. ClientsTyped
  BY <1>2, SMT DEF ConfigReloadInit, ClientsTyped
<1>6. InHand
  BY <1>1, SMT DEF InHand, Swapping
<1>7. SwapsAreFollowed
  <2>1. {q \in Requests : request[q].at = "swap"} = {}
    BY <1>1, SMT
  <2>2. {request[r].client : r \in {q \in Requests : request[q].at = "swap"}} = {}
    BY <2>1, SMT
  <2>3. retiring = {} /\ closed = {}
    BY Zenon DEF ConfigReloadInit
  <2> QED
    BY <1>2, <1>3, <1>4, <2>2, <2>3, SMT DEF SwapsAreFollowed, Clients
<1> QED
  BY <1>5, <1>6, <1>7 DEF SwapInv

\* A step that touches none of this.
Concerned == {"swap", "pokeEngine", "pokeHub", "reconcile"}
Hands == {request[r].client : r \in {q \in Requests : Swapping(q)}}
SwapsAside ==
    /\ UNCHANGED <<clientHosts, retiring, closed, follows>> /\ answered'["rules"] = answered["rules"]
    /\ registry' \in [config : Nat, docker : Nat, coolify : Nat, auth : Nat]
    /\ registry'.docker = registry.docker /\ pokes \subseteq pokes'
    /\ \A q \in Requests : request[q].at \in Concerned \/ request'[q].at \in Concerned =>
           request'[q] = request[q]

LEMMA SwapsAsideKept == ASSUME SwapInv, SwapsAside PROVE SwapInv'
<1>1. ClientsTyped'
  BY SMT DEF SwapInv, SwapsAside, ClientsTyped, Clients
<1>2. \A q \in Requests : (Swapping(q) \/ Swapping(q)') => request'[q] = request[q]
  BY SMT DEF SwapsAside, Swapping, Concerned
<1>3. InHand'
  BY <1>2, SMT DEF SwapInv, SwapsAside, InHand, Swapping, Clients
<1>4. SwapsAreFollowed'
  <2>1. Hands' = Hands
    BY <1>2, SMT DEF Hands, Swapping
  <2>2. \A places \in SUBSET Concerned : PokedBy(places) => PokedBy(places)'
    BY SMT DEF SwapsAside, PokedBy
  <2>3. {"pokeEngine", "pokeHub"} \in SUBSET Concerned /\ {"pokeEngine"} \in SUBSET Concerned
        /\ {"reconcile"} \in SUBSET Concerned
    BY Zenon DEF Concerned
  <2>4. /\ PokedBy({"pokeEngine", "pokeHub"}) => PokedBy({"pokeEngine", "pokeHub"})'
        /\ PokedBy({"pokeEngine"}) => PokedBy({"pokeEngine"})'
        /\ PokedBy({"reconcile"}) => PokedBy({"reconcile"})'
    BY <2>2, <2>3, Zenon
  <2> QED
    BY <2>1, <2>4, SMT DEF SwapInv, SwapsAside, SwapsAreFollowed, Hands, Swapping
<1> QED
  BY <1>1, <1>3, <1>4 DEF SwapInv

\* The clauses of SwapsAreFollowed, apart.
HubFollows == follows.hub # registry.docker => "hub" \in pokes \/ PokedBy({"pokeEngine", "pokeHub"})
EngineFollows == follows.engine # registry.docker => "engine" \in pokes \/ PokedBy({"pokeEngine"})
RulesFollow == follows.rules # answered["rules"] => "engine" \in pokes \/ PokedBy({"reconcile"})
InUseIsOpen == registry.docker \notin retiring \cup closed
AllAccounted == Clients = {registry.docker} \cup retiring \cup closed \cup Hands

LEMMA FollowClauses ==
    SwapsAreFollowed <=> HubFollows /\ EngineFollows /\ RulesFollow /\ InUseIsOpen /\ AllAccounted
  BY Zenon DEF SwapsAreFollowed, HubFollows, EngineFollows, RulesFollow, InUseIsOpen, AllAccounted,
     Clients, Hands, Swapping

LEMMA ClausesFollow ==
    ASSUME ClientsTyped', InHand', HubFollows', EngineFollows', RulesFollow', InUseIsOpen', AllAccounted'
    PROVE  SwapInv'
<1>1. SwapsAreFollowed'
  BY Zenon DEF SwapsAreFollowed, HubFollows, EngineFollows, RulesFollow, InUseIsOpen, AllAccounted,
     Clients, Hands, Swapping
<1> QED
  BY <1>1 DEF SwapInv

\* An update of the rules is answered: its handler has the poke still to send.
LEMMA PersistedSwaps == ASSUME ConfigInv, SwapInv, Persisted PROVE SwapInv'
<1>1. PICK r \in Requests :
        /\ At(r, "persist")
        /\ answered' = [answered EXCEPT ![request[r].section] = fileConfig[request[r].section]]
        /\ \/ /\ request[r].section \in Merged
              /\ generation' = generation + 1
              /\ request' = [request EXCEPT ![r].at = "check", ![r].generation = generation',
                                            ![r].hosts = fileConfig["hosts"]]
           \/ /\ request[r].section \notin Merged
              /\ Goes(r, "reconcile")
  BY Zenon DEF Persisted
<1>2. UNCHANGED <<clientHosts, retiring, closed, follows, registry, pokes>>
  BY Zenon DEF Persisted
<1>3. /\ request[r] \in Handlers /\ request[r].section \in Sections /\ answered \in Configs
      /\ fileConfig["hosts"] \in Nat /\ generation \in Nat
  BY SMT DEF ConfigInv, Typed, Handlers, Configs, Sections
<1>4. CASE request[r].section \in Merged
  <2> DEFINE h == Calling(request[r], generation', fileConfig["hosts"])
  <2>1. generation' \in Nat
    BY <1>1, <1>3, <1>4, SMT
  <2>2. h \in Handlers /\ h.at = "check"
    BY <1>3, <2>1, HandlerCalls, Zenon
  <2>3. request' = [request EXCEPT ![r] = h]
    BY <1>1, <1>4, Zenon DEF Calling
  <2> HIDE DEF h
  <2>4. request'[r].at = "check" /\ Alone(r)
    BY <2>2, <2>3, OneHandlerMoves DEF ConfigInv, Typed, Alone
  <2>5. answered'["rules"] = answered["rules"]
    BY <1>1, <1>3, <1>4, SMT DEF Merged, Sections, Configs
  <2>6. \A q \in Requests : request[q].at \in Concerned \/ request'[q].at \in Concerned =>
             request'[q] = request[q]
    BY <1>1, <2>4, SMT DEF Concerned, Alone, At
  <2>7. SwapsAside
    BY <1>2, <2>5, <2>6, SMT DEF SwapsAside, SwapInv, ClientsTyped
  <2> QED
    BY <2>7, SwapsAsideKept
<1>5. CASE request[r].section \notin Merged
  <2>1. "reconcile" \in Places
    BY Zenon DEF Places
  <2>2. Keeps(r, "reconcile") /\ Alone(r)
    BY <1>1, <1>5, <2>1, GoingKeeps, Zenon DEF ConfigInv
  <2>3. ClientsTyped'
    BY <1>2, SMT DEF SwapInv, ClientsTyped, Clients
  <2>4. \A q \in Requests : (Swapping(q) \/ Swapping(q)') => request'[q] = request[q]
    BY <1>1, <2>2, SMT DEF Keeps, Alone, Swapping, At
  <2>5. InHand'
    BY <1>2, <2>4, SMT DEF SwapInv, InHand, Swapping, Clients
  <2>6. AllAccounted' /\ InUseIsOpen'
    <3>1. Hands' = Hands
      BY <2>4, SMT DEF Hands, Swapping
    <3> QED
      BY <1>2, <3>1, FollowClauses, SMT DEF SwapInv, AllAccounted, InUseIsOpen, Clients
  <2>7. PokedBy({"reconcile"})'
    BY <2>2, SMT DEF PokedBy, Keeps
  <2>8. RulesFollow'
    BY <2>7 DEF RulesFollow
  <2>9. HubFollows' /\ EngineFollows'
    <3>1. \A q \in Requests : request[q].at \in {"pokeEngine", "pokeHub"} => request'[q] = request[q]
      BY <1>1, <2>2, SMT DEF Keeps, Alone, At
    <3> QED
      BY <1>2, <3>1, FollowClauses, SMT DEF SwapInv, HubFollows, EngineFollows, PokedBy
  <2> QED
    BY <2>3, <2>5, <2>6, <2>8, <2>9, ClausesFollow
<1> QED
  BY <1>4, <1>5

\* A new client is in the hands of the callback that made it.
LEMMA NewClientSwaps == ASSUME ConfigInv, SwapInv, NewMultiHostClient PROVE SwapInv'
<1>1. PICK r \in Requests :
        /\ At(r, "client")
        /\ clientHosts' = Append(clientHosts, request[r].hosts)
        /\ request' = [request EXCEPT ![r].at = "swap", ![r].client = NextClient]
  BY Zenon DEF NewMultiHostClient
<1>2. UNCHANGED <<registry, retiring, closed, pokes, follows, answered>>
  BY Zenon DEF NewMultiHostClient, crHistory
<1>3. clientHosts \in Seq(Nat) /\ request[r] \in Handlers /\ "swap" \in Places
  BY Zenon DEF ConfigInv, Typed, Places, InCallback
<1>4. request[r].hosts \in Nat /\ NextClient \in Nat
  BY <1>3, SMT DEF Handlers, NextClient
<1>5. Clients' = Clients \cup {NextClient} /\ NextClient \notin Clients
  BY <1>1, <1>3, <1>4, SMT DEF Clients, NextClient
<1>6. request'[r].at = "swap" /\ request'[r].client = NextClient /\ Alone(r)
  <2> DEFINE h == WithClient(request[r], "swap", NextClient)
  <2>1. h \in Handlers /\ h.at = "swap"
    BY <1>3, <1>4, HandlerTakes, Zenon
  <2>2. h.client = NextClient
    BY <1>3, <1>4, SMT DEF WithClient, Handlers
  <2>3. request' = [request EXCEPT ![r] = h]
    BY <1>1, Zenon DEF WithClient
  <2> HIDE DEF h
  <2> QED
    BY <2>1, <2>2, <2>3, OneHandlerMoves DEF ConfigInv, Typed, Alone
<1>11. request[r].at = "client"
  BY <1>1 DEF At
<1>7. ClientsTyped'
  BY <1>2, <1>5, SMT DEF SwapInv, ClientsTyped
<1>8. InHand'
  BY <1>2, <1>5, <1>6, SMT DEF SwapInv, InHand, ClientsTyped, Swapping, Alone
<1>9. AllAccounted'
  <2>1. Hands' = Hands \cup {NextClient}
    BY <1>6, <1>11, SMT DEF Hands, Swapping, Alone
  <2> QED
    BY <1>2, <1>5, <2>1, FollowClauses, SMT DEF SwapInv, AllAccounted
<1>10. HubFollows' /\ EngineFollows' /\ RulesFollow' /\ InUseIsOpen'
  <2>1. \A q \in Requests : request[q].at \in {"pokeEngine", "pokeHub", "reconcile"} =>
             request'[q] = request[q]
    BY <1>6, <1>11, SMT DEF Alone
  <2> QED
    BY <1>2, <2>1, FollowClauses, SMT
       DEF SwapInv, HubFollows, EngineFollows, RulesFollow, InUseIsOpen, PokedBy
<1> QED
  BY <1>7, <1>8, <1>9, <1>10, ClausesFollow

\* The client in hand is put in use, the one in use retires, and both components
\* have a poke coming.
LEMMA SwapDockerSwaps == ASSUME ConfigInv, SwapInv, SwapDocker PROVE SwapInv'
<1>1. PICK r \in Requests :
        /\ At(r, "swap")
        /\ request' = [request EXCEPT ![r].at = "pokeEngine", ![r].client = 0]
        /\ retiring' = retiring \cup {registry.docker}
        /\ registry' = [registry EXCEPT !.docker = request[r].client]
  BY Zenon DEF SwapDocker
<1>2. UNCHANGED <<clientHosts, closed, pokes, follows, answered>>
  BY Zenon DEF SwapDocker, crHistory
<1>3. clientHosts \in Seq(Nat) /\ request[r] \in Handlers /\ "pokeEngine" \in Places /\ 0 \in Nat
  BY SMT DEF ConfigInv, Typed, Places, InCallback
<1>4. request[r].client \in Nat /\ Clients' = Clients
  BY <1>2, <1>3, SMT DEF Handlers, Clients
<1>5. request'[r].at = "pokeEngine" /\ Alone(r)
  <2> DEFINE h == WithClient(request[r], "pokeEngine", 0)
  <2>1. h \in Handlers /\ h.at = "pokeEngine"
    BY <1>3, HandlerTakes, Zenon
  <2>2. request' = [request EXCEPT ![r] = h]
    BY <1>1, Zenon DEF WithClient
  <2> HIDE DEF h
  <2> QED
    BY <2>1, <2>2, OneHandlerMoves DEF ConfigInv, Typed, Alone
<1>6. /\ registry' \in [config : Nat, docker : Nat, coolify : Nat, auth : Nat]
      /\ registry'.docker = request[r].client
  BY <1>1, <1>4, SMT DEF SwapInv, ClientsTyped
<1>7. /\ request[r].client \in Clients
      /\ request[r].client \notin {registry.docker} \cup retiring \cup closed
  BY <1>1, SMT DEF SwapInv, InHand, Swapping, At
<1>13. request[r].at = "swap" /\ retiring' = retiring \cup {registry.docker}
  BY <1>1 DEF At
<1>8. ClientsTyped'
  BY <1>1, <1>2, <1>4, <1>6, <1>7, SMT DEF SwapInv, ClientsTyped
<1>9. InHand'
  BY <1>2, <1>4, <1>5, <1>6, <1>7, <1>13, SMT DEF SwapInv, InHand, Swapping, Alone
<1>10. AllAccounted' /\ InUseIsOpen'
  <2>1. Hands = Hands' \cup {request[r].client}
    BY <1>5, <1>13, SMT DEF Hands, Swapping, Alone
  <2> QED
    BY <1>2, <1>4, <1>6, <1>7, <1>13, <2>1, FollowClauses, SMT DEF SwapInv, AllAccounted, InUseIsOpen
<1>11. HubFollows' /\ EngineFollows'
  BY <1>5, SMT DEF HubFollows, EngineFollows, PokedBy
<1>12. RulesFollow'
  <2>1. \A q \in Requests : request[q].at = "reconcile" => request'[q] = request[q]
    BY <1>5, <1>13, SMT DEF Alone
  <2> QED
    BY <1>2, <2>1, FollowClauses, SMT DEF SwapInv, RulesFollow, PokedBy
<1> QED
  BY <1>8, <1>9, <1>10, <1>11, <1>12, ClausesFollow

LEMMA CloseRetiredSwaps == ASSUME ConfigInv, SwapInv, CloseRetired PROVE SwapInv'
<1>1. PICK c \in retiring : retiring' = retiring \ {c} /\ closed' = closed \cup {c}
  BY Zenon DEF CloseRetired
<1>2. UNCHANGED <<request, registry, clientHosts, pokes, follows, answered>>
  BY Zenon DEF CloseRetired, crHistory
<1>3. retiring' \cup closed' = retiring \cup closed
  BY <1>1, SMT
<1>4. ClientsTyped'
  BY <1>1, <1>2, SMT DEF SwapInv, ClientsTyped, Clients
<1>5. InHand'
  BY <1>2, <1>3, SMT DEF SwapInv, InHand, Swapping, Clients
<1>6. SwapsAreFollowed'
  BY <1>2, <1>3, SMT DEF SwapInv, SwapsAreFollowed, PokedBy
<1> QED
  BY <1>4, <1>5, <1>6 DEF SwapInv

\* The pokes of a callback are sent one after the other; the one still to come
\* is what its place says.
LEMMA PokeSwaps ==
    ASSUME SwapInv, NEW r \in Requests, NEW component \in {"engine", "hub"},
           ~Swapping(r), ~Swapping(r)', Alone(r), pokes' = pokes \cup {component},
           UNCHANGED <<registry, clientHosts, retiring, closed, follows, answered>>,
           request[r].at = "pokeEngine" => request'[r].at = "pokeHub" /\ component = "engine",
           request[r].at = "pokeHub" => component = "hub",
           request[r].at = "reconcile" => component = "engine"
    PROVE  SwapInv'
<1>1. \A q \in Requests : (Swapping(q) \/ Swapping(q)') => request'[q] = request[q]
  BY SMT DEF Alone
<1>2. ClientsTyped'
  BY SMT DEF SwapInv, ClientsTyped, Clients
<1>3. InHand'
  BY <1>1, SMT DEF SwapInv, InHand, Swapping, Clients
<1>4. AllAccounted' /\ InUseIsOpen'
  <2>1. Hands' = Hands
    BY <1>1, SMT DEF Hands, Swapping
  <2> QED
    BY <2>1, FollowClauses, SMT DEF SwapInv, AllAccounted, InUseIsOpen, Clients
<1>5. HubFollows'
  BY FollowClauses, SMT DEF SwapInv, HubFollows, PokedBy, Alone
<1>6. EngineFollows' /\ RulesFollow'
  BY FollowClauses, SMT DEF SwapInv, EngineFollows, RulesFollow, PokedBy, Alone
<1> QED
  BY <1>2, <1>3, <1>4, <1>5, <1>6, ClausesFollow

LEMMA ReconcileEngineSwaps == ASSUME ConfigInv, SwapInv, ReconcileEngine PROVE SwapInv'
<1>1. PICK r \in Requests : At(r, "pokeEngine") /\ Goes(r, "pokeHub") /\ Poke("engine")
  BY Zenon DEF ReconcileEngine
<1>2. UNCHANGED <<registry, clientHosts, retiring, closed, follows, answered>>
  BY Zenon DEF ReconcileEngine, crHistory
<1>3. Keeps(r, "pokeHub") /\ Alone(r)
  BY <1>1, GoingKeeps, Zenon DEF ConfigInv, Places, InCallback
<1> QED
  BY <1>1, <1>2, <1>3, PokeSwaps, SMT DEF At, Poke, SendPoke, Keeps, Swapping

LEMMA ReconcileHubSwaps == ASSUME ConfigInv, SwapInv, ReconcileHub PROVE SwapInv'
<1>1. PICK r \in Requests : At(r, "pokeHub") /\ Goes(r, "coolify") /\ Poke("hub")
  BY Zenon DEF ReconcileHub
<1>2. UNCHANGED <<registry, clientHosts, retiring, closed, follows, answered>>
  BY Zenon DEF ReconcileHub, crHistory
<1>3. Keeps(r, "coolify") /\ Alone(r)
  BY <1>1, GoingKeeps, Zenon DEF ConfigInv, Places, InCallback
<1> QED
  BY <1>1, <1>2, <1>3, PokeSwaps, SMT DEF At, Poke, SendPoke, Keeps, Swapping

LEMMA ReconcileAlertsSwaps == ASSUME ConfigInv, SwapInv, ReconcileAlerts PROVE SwapInv'
<1>1. PICK r \in Requests : At(r, "reconcile") /\ Returns(r) /\ Poke("engine")
  BY Zenon DEF ReconcileAlerts
<1>2. UNCHANGED <<registry, clientHosts, retiring, closed, follows, answered>>
  BY Zenon DEF ReconcileAlerts, crHistory
<1>3. request'[r].at = "idle" /\ Alone(r)
  BY <1>1, ReturningIdles, Zenon DEF ConfigInv
<1> QED
  BY <1>1, <1>2, <1>3, PokeSwaps, SMT DEF At, Poke, SendPoke, Swapping

\* A component that takes its poke reads what is current.
LEMMA EngineReconcilesSwaps == ASSUME ConfigInv, SwapInv, EngineReconciles PROVE SwapInv'
<1>1. /\ pokes' = pokes \ {"engine"} /\ lock = Nobody
      /\ follows' = [follows EXCEPT !.engine = registry.docker, !.rules = fileConfig["rules"]]
      /\ UNCHANGED <<request, registry, clientHosts, retiring, closed, answered>>
  BY Zenon DEF EngineReconciles, crHistory
<1>2. fileConfig = answered /\ fileConfig["rules"] \in Nat
  BY <1>1, SMT DEF ConfigInv, WritesAreWhole, Typed, Configs, Sections
<1>3. registry.docker \in Nat
  BY SMT DEF SwapInv, ClientsTyped
<1> DEFINE Followed == [hub : Nat, engine : Nat, rules : Nat]
           f == [follows EXCEPT !.engine = registry.docker]
<1>4. f \in Followed /\ f.engine = registry.docker /\ f.hub = follows.hub
  BY <1>3, SMT DEF SwapInv, ClientsTyped
<1>5. /\ follows' \in Followed /\ follows'.hub = follows.hub
      /\ follows'.engine = registry.docker /\ follows'.rules = answered["rules"]
  <2>1. follows' = [f EXCEPT !.rules = fileConfig["rules"]]
    BY <1>1, Zenon
  <2> HIDE DEF f
  <2> QED
    BY <1>2, <1>4, <2>1, SMT
<1>6. ClientsTyped' /\ InHand'
  BY <1>1, <1>5, SMT DEF SwapInv, ClientsTyped, InHand, Swapping, Clients
<1>7. HubFollows'
  BY <1>1, <1>5, FollowClauses, SMT DEF SwapInv, HubFollows, PokedBy
<1>8. EngineFollows' /\ RulesFollow'
  BY <1>1, <1>5, SMT DEF EngineFollows, RulesFollow
<1>9. InUseIsOpen' /\ AllAccounted'
  BY <1>1, FollowClauses, SMT DEF SwapInv, InUseIsOpen, AllAccounted, Clients, Hands, Swapping
<1> QED
  BY <1>6, <1>7, <1>8, <1>9, ClausesFollow

LEMMA HubReconcilesSwaps == ASSUME ConfigInv, SwapInv, HubReconciles PROVE SwapInv'
<1>1. /\ pokes' = pokes \ {"hub"} /\ follows' = [follows EXCEPT !.hub = registry.docker]
      /\ UNCHANGED <<request, registry, clientHosts, retiring, closed, answered>>
  BY Zenon DEF HubReconciles, crHistory
<1>2. registry.docker \in Nat
  BY SMT DEF SwapInv, ClientsTyped
<1>3. /\ follows' \in [hub : Nat, engine : Nat, rules : Nat] /\ follows'.hub = registry.docker
      /\ follows'.engine = follows.engine /\ follows'.rules = follows.rules
  BY <1>1, <1>2, SMT DEF SwapInv, ClientsTyped
<1>4. ClientsTyped' /\ InHand'
  BY <1>1, <1>3, SMT DEF SwapInv, ClientsTyped, InHand, Swapping, Clients
<1>5. HubFollows' /\ EngineFollows' /\ RulesFollow'
  BY <1>1, <1>3, FollowClauses, SMT DEF SwapInv, HubFollows, EngineFollows, RulesFollow, PokedBy
<1>6. InUseIsOpen' /\ AllAccounted'
  BY <1>1, FollowClauses, SMT DEF SwapInv, InUseIsOpen, AllAccounted, Clients, Hands, Swapping
<1> QED
  BY <1>4, <1>5, <1>6, ClausesFollow

\* A new process has one client; those of the old one are gone with it.
LEMMA RestartSwaps == ASSUME ConfigInv, SwapInv, Restart PROVE SwapInv'
<1>1. /\ request' = [r \in Requests |-> Idle] /\ answered' = answered
      /\ registry' = [config |-> 0, docker |-> NextClient, coolify |-> 0, auth |-> configFile["auth"]]
      /\ clientHosts' = Append(clientHosts, configFile["hosts"])
      /\ retiring' = {} /\ closed' = 1 .. NextClient - 1
      /\ follows' = [hub |-> NextClient, engine |-> NextClient, rules |-> configFile["rules"]]
  BY Zenon DEF Restart, Boots
<1>2. /\ configFile = answered /\ configFile["auth"] \in Nat /\ configFile["hosts"] \in Nat
      /\ configFile["rules"] \in Nat /\ clientHosts \in Seq(Nat)
  BY SMT DEF ConfigInv, WritesAreWhole, Typed, Configs, Sections
<1>3. \A r \in Requests : request'[r].at = "idle"
  BY <1>1, IdleIsHandler, SMT
<1>4. NextClient \in Nat /\ Clients' = closed' \cup {NextClient} /\ NextClient \notin closed'
  BY <1>1, <1>2, SMT DEF Clients, NextClient
<1>5. registry'.docker = NextClient
  BY <1>1, SMT
<1>6. ClientsTyped'
  BY <1>1, <1>2, <1>4, SMT DEF ClientsTyped
<1>7. InHand'
  BY <1>3, SMT DEF InHand, Swapping
<1>8. AllAccounted' /\ InUseIsOpen'
  <2>1. Hands' = {}
    BY <1>3, SMT DEF Hands, Swapping
  <2> QED
    BY <1>1, <1>4, <1>5, <2>1, SMT DEF AllAccounted, InUseIsOpen
<1>9. HubFollows' /\ EngineFollows' /\ RulesFollow'
  BY <1>1, <1>2, <1>5, SMT DEF HubFollows, EngineFollows, RulesFollow
<1> QED
  BY <1>6, <1>7, <1>8, <1>9, ClausesFollow

LEMMA GoingAsideSwaps ==
    ASSUME ConfigInv, SwapInv, NEW r \in Requests, NEW place \in Places,
           request[r].at \notin Concerned, place \notin Concerned, Goes(r, place),
           UNCHANGED <<clientHosts, retiring, closed, follows, pokes, answered>>,
           registry' \in [config : Nat, docker : Nat, coolify : Nat, auth : Nat],
           registry'.docker = registry.docker
    PROVE  SwapInv'
<1>1. Keeps(r, place) /\ Alone(r)
  BY GoingKeeps DEF ConfigInv
<1>2. \A q \in Requests : request[q].at \in Concerned \/ request'[q].at \in Concerned =>
          request'[q] = request[q]
  BY <1>1, Zenon DEF Keeps, Alone
<1>3. SwapsAside
  BY <1>2, SMT DEF SwapsAside
<1> QED
  BY <1>3, SwapsAsideKept

LEMMA ReturningAsideSwaps ==
    ASSUME ConfigInv, SwapInv, NEW r \in Requests, request[r].at \notin Concerned, Returns(r),
           UNCHANGED <<clientHosts, retiring, closed, follows, pokes, answered>>,
           registry' \in [config : Nat, docker : Nat, coolify : Nat, auth : Nat],
           registry'.docker = registry.docker
    PROVE  SwapInv'
<1>1. request'[r].at = "idle" /\ Alone(r)
  BY ReturningIdles DEF ConfigInv
<1>2. "idle" \notin Concerned
  BY Zenon DEF Concerned
<1>3. \A q \in Requests : request[q].at \in Concerned \/ request'[q].at \in Concerned =>
          request'[q] = request[q]
  BY <1>1, <1>2, Zenon DEF Alone
<1>4. SwapsAside
  BY <1>3, SMT DEF SwapsAside
<1> QED
  BY <1>4, SwapsAsideKept

\* The components of the registry that a callback sets one at a time.
LEMMA RegistrySet ==
    ASSUME ClientsTyped, NEW n \in Nat
    PROVE  /\ [registry EXCEPT !.config = n] \in [config : Nat, docker : Nat, coolify : Nat, auth : Nat]
           /\ [registry EXCEPT !.coolify = n] \in [config : Nat, docker : Nat, coolify : Nat, auth : Nat]
           /\ [registry EXCEPT !.auth = n] \in [config : Nat, docker : Nat, coolify : Nat, auth : Nat]
           /\ [registry EXCEPT !.config = n].docker = registry.docker
           /\ [registry EXCEPT !.coolify = n].docker = registry.docker
           /\ [registry EXCEPT !.auth = n].docker = registry.docker
  BY SMT DEF ClientsTyped

LEMMA UpdateSwaps == ASSUME ConfigInv, SwapInv, Update PROVE SwapInv'
<1>1. PICK r \in Requests, s \in Sections \ EnvPinned :
          /\ At(r, "idle")
          /\ request' = [request EXCEPT ![r].at = "persist", ![r].section = s, ![r].old = fileConfig[s]]
  BY Zenon DEF Update
<1>2. UNCHANGED <<clientHosts, retiring, closed, follows, pokes, answered, registry>>
  BY Zenon DEF Update
<1>3. request'[r].at = "persist" /\ Alone(r)
  <2> DEFINE h == Replacing(request[r], s, fileConfig[s])
  <2>1. request[r] \in Handlers /\ s \in Sections /\ fileConfig[s] \in Nat
    BY SMT DEF ConfigInv, Typed, Configs
  <2>2. h \in Handlers /\ h.at = "persist"
    BY <2>1, HandlerReplaces, Zenon
  <2>3. request' = [request EXCEPT ![r] = h]
    BY <1>1, Zenon DEF Replacing
  <2> HIDE DEF h
  <2> QED
    BY <2>2, <2>3, OneHandlerMoves DEF ConfigInv, Typed, Alone
<1>4. "idle" \notin Concerned /\ "persist" \notin Concerned /\ request[r].at = "idle"
  BY <1>1, Zenon DEF Concerned, At
<1>5. \A q \in Requests : request[q].at \in Concerned \/ request'[q].at \in Concerned =>
          request'[q] = request[q]
  BY <1>3, <1>4, Zenon DEF Alone
<1>6. SwapsAside
  BY <1>2, <1>5, SMT DEF SwapsAside, SwapInv, ClientsTyped
<1> QED
  BY <1>6, SwapsAsideKept

LEMMA PersistFailsSwaps == ASSUME ConfigInv, SwapInv, PersistFails PROVE SwapInv'
<1>1. PICK r \in Requests : At(r, "persist") /\ Returns(r)
  BY Zenon DEF PersistFails
<1>2. UNCHANGED <<clientHosts, retiring, closed, follows, pokes, answered, registry>>
  BY Zenon DEF PersistFails
<1>3. request[r].at \notin Concerned
  BY <1>1, Zenon DEF At, Concerned
<1> QED
  BY <1>1, <1>2, <1>3, ReturningAsideSwaps DEF SwapInv, ClientsTyped

LEMMA CheckGenerationSwaps == ASSUME ConfigInv, SwapInv, CheckGeneration PROVE SwapInv'
<1>1. PICK r \in Requests : At(r, "check") /\ (Returns(r) \/ Goes(r, "config"))
  BY Zenon DEF CheckGeneration
<1>2. UNCHANGED <<clientHosts, retiring, closed, follows, pokes, answered, registry>>
  BY Zenon DEF CheckGeneration, crHistory
<1>3. request[r].at \notin Concerned /\ "config" \in Places /\ "config" \notin Concerned
  BY <1>1, Zenon DEF At, Concerned, Places, InCallback
<1> QED
  BY <1>1, <1>2, <1>3, ReturningAsideSwaps, GoingAsideSwaps DEF SwapInv, ClientsTyped

LEMMA UpdateConfigSwaps == ASSUME ConfigInv, SwapInv, UpdateConfig PROVE SwapInv'
<1>1. PICK r \in Requests : /\ At(r, "config") /\ Goes(r, "client")
                            /\ registry' = [registry EXCEPT !.config = request[r].generation]
  BY Zenon DEF UpdateConfig
<1>2. UNCHANGED <<clientHosts, retiring, closed, follows, pokes, answered>>
  BY Zenon DEF UpdateConfig, crHistory
<1>3. request[r].at \notin Concerned /\ "client" \in Places /\ "client" \notin Concerned
  BY <1>1, Zenon DEF At, Concerned, Places, InCallback
<1>4. request[r].generation \in Nat
  BY SMT DEF ConfigInv, Typed, Handlers
<1> QED
  BY <1>1, <1>2, <1>3, <1>4, GoingAsideSwaps, RegistrySet DEF SwapInv

LEMMA NewMultiHostClientFailsSwaps == ASSUME ConfigInv, SwapInv, NewMultiHostClientFails PROVE SwapInv'
<1>1. PICK r \in Requests : At(r, "client") /\ Goes(r, "coolify")
  BY Zenon DEF NewMultiHostClientFails
<1>2. UNCHANGED <<clientHosts, retiring, closed, follows, pokes, answered, registry>>
  BY Zenon DEF NewMultiHostClientFails
<1>3. request[r].at \notin Concerned /\ "coolify" \in Places /\ "coolify" \notin Concerned
  BY <1>1, Zenon DEF At, Concerned, Places, InCallback
<1> QED
  BY <1>1, <1>2, <1>3, GoingAsideSwaps DEF SwapInv, ClientsTyped

LEMMA SwapCoolifySwaps == ASSUME ConfigInv, SwapInv, SwapCoolify PROVE SwapInv'
<1>1. PICK r \in Requests : /\ At(r, "coolify") /\ Goes(r, "readAuth")
                            /\ registry' = [registry EXCEPT !.coolify = request[r].generation]
  BY Zenon DEF SwapCoolify
<1>2. UNCHANGED <<clientHosts, retiring, closed, follows, pokes, answered>>
  BY Zenon DEF SwapCoolify, crHistory
<1>3. request[r].at \notin Concerned /\ "readAuth" \in Places /\ "readAuth" \notin Concerned
  BY <1>1, Zenon DEF At, Concerned, Places, InCallback
<1>4. request[r].generation \in Nat
  BY SMT DEF ConfigInv, Typed, Handlers
<1> QED
  BY <1>1, <1>2, <1>3, <1>4, GoingAsideSwaps, RegistrySet DEF SwapInv

LEMMA FileConfigSnapshotSwaps == ASSUME ConfigInv, SwapInv, FileConfigSnapshot PROVE SwapInv'
<1>1. PICK r \in Requests :
         At(r, "readAuth") /\ request' = [request EXCEPT ![r].at = "auth", ![r].auth = fileConfig["auth"]]
  BY Zenon DEF FileConfigSnapshot
<1>2. UNCHANGED <<clientHosts, retiring, closed, follows, pokes, answered, registry>>
  BY Zenon DEF FileConfigSnapshot, crHistory
<1>3. request'[r].at = "auth" /\ Alone(r)
  <2> DEFINE h == WithAuth(request[r], "auth", fileConfig["auth"])
  <2>1. request[r] \in Handlers /\ fileConfig["auth"] \in Nat /\ "auth" \in Places
    BY SMT DEF ConfigInv, Typed, Configs, Sections, Places, InCallback
  <2>2. h \in Handlers /\ h.at = "auth"
    BY <2>1, HandlerTakes, Zenon
  <2>3. request' = [request EXCEPT ![r] = h]
    BY <1>1, Zenon DEF WithAuth
  <2> HIDE DEF h
  <2> QED
    BY <2>2, <2>3, OneHandlerMoves DEF ConfigInv, Typed, Alone
<1>4. request[r].at \notin Concerned /\ "auth" \notin Concerned
  BY <1>1, Zenon DEF Concerned, At
<1>5. \A q \in Requests : request[q].at \in Concerned \/ request'[q].at \in Concerned =>
          request'[q] = request[q]
  BY <1>3, <1>4, Zenon DEF Alone
<1>6. SwapsAside
  BY <1>2, <1>5, SMT DEF SwapsAside, SwapInv, ClientsTyped
<1> QED
  BY <1>6, SwapsAsideKept

LEMMA SwapAuthSwaps == ASSUME ConfigInv, SwapInv, SwapAuth PROVE SwapInv'
<1>1. PICK r \in Requests :
         /\ At(r, "auth") /\ Returns(r)
         /\ registry' = [registry EXCEPT !.auth = request[r].auth] \/ registry' = registry
  BY Zenon DEF SwapAuth
<1>2. UNCHANGED <<clientHosts, retiring, closed, follows, pokes, answered>>
  BY Zenon DEF SwapAuth, crHistory
<1>3. request[r].at \notin Concerned
  BY <1>1, Zenon DEF At, Concerned
<1>4. request[r].auth \in Nat
  BY SMT DEF ConfigInv, Typed, Handlers
<1>5. /\ registry' \in [config : Nat, docker : Nat, coolify : Nat, auth : Nat]
      /\ registry'.docker = registry.docker
  BY <1>1, <1>4, RegistrySet DEF SwapInv, ClientsTyped
<1> QED
  BY <1>1, <1>2, <1>3, <1>5, ReturningAsideSwaps

LEMMA StepSwaps == ConfigInv /\ SwapInv /\ [ConfigReloadNext]_crVars => SwapInv'
<1> SUFFICES ASSUME ConfigInv, SwapInv, [ConfigReloadNext]_crVars PROVE SwapInv'
  OBVIOUS
<1>1. CASE UNCHANGED crVars
  <2>1. UNCHANGED <<request, registry, clientHosts, retiring, closed, pokes, follows, answered>>
    BY <1>1, Zenon DEF crVars, crHistory
  <2>2. SwapsAside
    BY <2>1, SMT DEF SwapsAside, SwapInv, ClientsTyped
  <2> QED
    BY <2>2, SwapsAsideKept
<1> QED
  BY <1>1, UpdateSwaps, PersistedSwaps, PersistFailsSwaps, CheckGenerationSwaps, UpdateConfigSwaps,
     NewClientSwaps, NewMultiHostClientFailsSwaps, SwapDockerSwaps, CloseRetiredSwaps,
     ReconcileEngineSwaps, ReconcileHubSwaps, SwapCoolifySwaps, FileConfigSnapshotSwaps,
     SwapAuthSwaps, ReconcileAlertsSwaps, EngineReconcilesSwaps, HubReconcilesSwaps, RestartSwaps
     DEF ConfigReloadNext

-----------------------------------------------------------------------------
\* Part 2: what is in force.  Each merge's callback has a generation of its own,
\* and at most one has the newest; how far that one has come says what it has
\* put in force already.
InRemerge == InCallback \cup {"check"}
Remerging(r) == request[r].at \in InRemerge
Newest(r) == Remerging(r) /\ request[r].generation = generation

OneOfEachGeneration ==
    /\ \A r \in Requests : Remerging(r) => request[r].generation <= generation
    /\ \A r, q \in Requests : Remerging(r) /\ Remerging(q)
           /\ request[r].generation = request[q].generation => r = q

\* Auth settings in the file are never taken out of it.
AuthStaysSet ==
    /\ fileConfig["auth"] = 0 => answered["auth"] = 0
    /\ answered["auth"] = 0 =>
          registry.auth = 0 /\ \A r \in Requests : request[r].at = "auth" => request[r].auth = 0

ConfigInForce == registry.config = generation
ClientInForce == clientHosts[registry.docker] = answered["hosts"] \/ unfit
CoolifyInForce == registry.coolify = generation
AuthInForce == "auth" \notin EnvPinned => registry.auth = answered["auth"]

StillAt(r, places) == request[r].at \in places
CameFar(r) ==
    /\ request[r].hosts = answered["hosts"]
    /\ StillAt(r, {"check", "config"}) \/ ConfigInForce
    /\ StillAt(r, {"swap"}) => clientHosts[request[r].client] = answered["hosts"]
    /\ StillAt(r, {"check", "config", "client", "swap"}) \/ ClientInForce
    /\ \/ StillAt(r, {"check", "config", "client", "swap", "pokeEngine", "pokeHub", "coolify"})
       \/ CoolifyInForce
    /\ StillAt(r, {"auth"}) => request[r].auth = answered["auth"]

\* Callbacks that run together with the newest are what overlap excludes.
OnlyNewest == \A r \in Requests : request[r].at \in InCallback => Newest(r)
NewestCameFar == \A r \in Requests : Newest(r) => CameFar(r)
InForceWhenDone ==
    (\A r \in Requests : ~Newest(r)) => ConfigInForce /\ ClientInForce /\ CoolifyInForce /\ AuthInForce
Progress == ~overlap => OnlyNewest /\ NewestCameFar /\ InForceWhenDone

ForceInv == OneOfEachGeneration /\ AuthStaysSet /\ Progress

LEMMA InitForce == ConfigReloadInit => ForceInv
<1> SUFFICES ASSUME ConfigReloadInit PROVE ForceInv
  OBVIOUS
<1>1. \A r \in Requests : request[r].at = "idle"
  BY IdleIsHandler, SMT DEF ConfigReloadInit
<1>2. /\ registry.config = 0 /\ registry.coolify = 0 /\ registry.auth = 0 /\ registry.docker = 1
      /\ generation = 0 /\ clientHosts = <<0>>
  BY Zenon DEF ConfigReloadInit
<1>3. answered["auth"] = 0 /\ answered["hosts"] = 0 /\ fileConfig["auth"] = 0
  BY SMT DEF ConfigReloadInit, Start, Sections
<1>4. \A r \in Requests : ~Remerging(r)
  BY <1>1, SMT DEF Remerging, InRemerge, InCallback
<1>5. OneOfEachGeneration /\ AuthStaysSet
  BY <1>1, <1>2, <1>3, <1>4, SMT DEF OneOfEachGeneration, AuthStaysSet
<1>6. ConfigInForce /\ ClientInForce /\ CoolifyInForce /\ AuthInForce
  BY <1>2, <1>3, SMT DEF ConfigInForce, ClientInForce, CoolifyInForce, AuthInForce
<1>7. Progress
  BY <1>4, <1>6, SMT DEF Progress, OnlyNewest, NewestCameFar, InForceWhenDone, Newest, Remerging, InRemerge
<1> QED
  BY <1>5, <1>7 DEF ForceInv

\* A step that touches no callback and nothing a callback sets.
ForceAside ==
    /\ UNCHANGED <<generation, clientHosts, registry, unfit, overlap>>
    /\ answered'["auth"] = answered["auth"] /\ answered'["hosts"] = answered["hosts"]
    /\ fileConfig'["auth"] = 0 => answered["auth"] = 0
    /\ \A q \in Requests : Remerging(q) \/ Remerging(q)' => request'[q] = request[q]

LEMMA ForceAsideKept == ASSUME ForceInv, ForceAside PROVE ForceInv'
<1>1. \A q \in Requests : /\ Remerging(q)' <=> Remerging(q)
                          /\ Remerging(q) => request'[q] = request[q]
  BY Zenon DEF ForceAside, Remerging
<1>2. OneOfEachGeneration'
  BY <1>1, SMT DEF ForceInv, ForceAside, OneOfEachGeneration
<1>3. AuthStaysSet'
  <2>1. \A q \in Requests : request'[q].at = "auth" => Remerging(q)'
    BY Zenon DEF Remerging, InRemerge, InCallback
  <2> QED
    BY <1>1, <2>1, SMT DEF ForceInv, ForceAside, AuthStaysSet
<1>4. \A q \in Requests : Newest(q)' <=> Newest(q)
  BY <1>1, SMT DEF Newest, ForceAside
<1>5. ASSUME ~overlap' PROVE OnlyNewest' /\ NewestCameFar' /\ InForceWhenDone'
  <2>1. OnlyNewest /\ NewestCameFar /\ InForceWhenDone
    BY <1>5, SMT DEF ForceAside, ForceInv, Progress
  <2>2. OnlyNewest'
    <3>1. \A q \in Requests : request'[q].at \in InCallback => Remerging(q)'
      BY Zenon DEF Remerging, InRemerge
    <3> QED
      BY <1>1, <1>4, <2>1, <3>1, SMT DEF OnlyNewest
  <2>3. NewestCameFar'
    <3> SUFFICES ASSUME NEW q \in Requests, Newest(q)' PROVE CameFar(q)'
      BY DEF NewestCameFar
    <3>1. Newest(q) /\ CameFar(q) /\ request'[q] = request[q]
      BY <1>1, <1>4, <2>1, Zenon DEF NewestCameFar, Newest
    <3> QED
      BY <3>1, Zenon DEF CameFar, ForceAside, StillAt, ConfigInForce, ClientInForce, CoolifyInForce
  <2>4. InForceWhenDone'
    BY <1>4, <2>1, Zenon DEF InForceWhenDone, ForceAside, ConfigInForce, ClientInForce, CoolifyInForce,
       AuthInForce
  <2> QED
    BY <2>2, <2>3, <2>4
<1> QED
  BY <1>2, <1>3, <1>5 DEF ForceInv, Progress

\* One step of a callback that goes on, or that passes its check: if it is the
\* newest it comes further.
LEMMA CallbackGoesOn ==
    ASSUME ForceInv, NEW r \in Requests, request[r].at \in InCallback \/ Newest(r),
           request'[r].at \in InCallback, Alone(r), request'[r].generation = request[r].generation,
           UNCHANGED <<generation, overlap, fileConfig, answered>>,
           registry'.auth = registry.auth,
           answered["auth"] = 0 /\ request'[r].at = "auth" => request'[r].auth = 0,
           Newest(r) /\ CameFar(r) => CameFar(r)'
    PROVE  ForceInv'
<1>1. Remerging(r) /\ Remerging(r)'
  BY Zenon DEF Remerging, InRemerge, Newest
<1>2. \A q \in Requests : Remerging(q)' <=> Remerging(q)
  BY <1>1, Zenon DEF Remerging, Alone
<1>3. \A q \in Requests : request'[q].generation = request[q].generation
  BY Zenon DEF Alone
<1>4. OneOfEachGeneration'
  BY <1>2, <1>3, SMT DEF ForceInv, OneOfEachGeneration
<1>5. AuthStaysSet'
  BY SMT DEF ForceInv, AuthStaysSet, Alone
<1>6. \A q \in Requests : Newest(q)' <=> Newest(q)
  BY <1>2, <1>3, SMT DEF Newest
<1>7. ASSUME ~overlap' PROVE OnlyNewest' /\ NewestCameFar' /\ InForceWhenDone'
  <2>1. OnlyNewest /\ NewestCameFar
    BY <1>7, SMT DEF ForceInv, Progress
  <2>2. Newest(r) /\ CameFar(r)'
    BY <2>1, Zenon DEF OnlyNewest, NewestCameFar
  <2>3. OnlyNewest'
    <3>1. \A q \in Requests : request'[q].at \in InCallback => q = r \/ request[q].at \in InCallback
      BY Zenon DEF Alone
    <3> QED
      BY <1>6, <2>1, <2>2, <3>1, Zenon DEF OnlyNewest
  <2>4. \A q \in Requests : Newest(q) => q = r
    BY <2>2, SMT DEF ForceInv, OneOfEachGeneration, Newest
  <2>5. NewestCameFar'
    BY <1>6, <2>2, <2>4, Zenon DEF NewestCameFar
  <2>6. InForceWhenDone'
    BY <1>6, <2>2, Zenon DEF InForceWhenDone
  <2> QED
    BY <2>3, <2>5, <2>6
<1> QED
  BY <1>4, <1>5, <1>7 DEF ForceInv, Progress

LEMMA UpdateConfigForce == ASSUME ConfigInv, SwapInv, ForceInv, UpdateConfig PROVE ForceInv'
<1>1. PICK r \in Requests : /\ At(r, "config") /\ Goes(r, "client")
                            /\ registry' = [registry EXCEPT !.config = request[r].generation]
  BY Zenon DEF UpdateConfig
<1>2. UNCHANGED <<manager, clientHosts, answered, unfit, overlap>>
  BY Zenon DEF UpdateConfig, crHistory
<1>3. UNCHANGED <<fileConfig, generation>>
  BY <1>2 DEF manager
<1>4. Keeps(r, "client") /\ Alone(r) /\ request[r].at = "config"
  BY <1>1, GoingKeeps, Zenon DEF ConfigInv, Places, InCallback, At
<1>5. request[r].generation \in Nat
  BY SMT DEF ConfigInv, Typed, Handlers
<1>6. /\ registry'.config = request[r].generation /\ registry'.auth = registry.auth
      /\ registry'.docker = registry.docker /\ registry'.coolify = registry.coolify
  BY <1>1, <1>5, SMT DEF SwapInv, ClientsTyped
<1>7. ASSUME Newest(r), CameFar(r) PROVE CameFar(r)'
  BY <1>2, <1>3, <1>4, <1>6, <1>7, SMT DEF Newest, CameFar, StillAt, Keeps, ConfigInForce
<1>8. request[r].at \in InCallback /\ request'[r].at \in InCallback
  BY <1>4, Zenon DEF InCallback, Keeps
<1> QED
  BY <1>2, <1>3, <1>4, <1>6, <1>7, <1>8, CallbackGoesOn, SMT DEF Keeps

LEMMA NewClientForce == ASSUME ConfigInv, SwapInv, ForceInv, NewMultiHostClient PROVE ForceInv'
<1>1. PICK r \in Requests :
        /\ At(r, "client")
        /\ clientHosts' = Append(clientHosts, request[r].hosts)
        /\ request' = [request EXCEPT ![r].at = "swap", ![r].client = NextClient]
  BY Zenon DEF NewMultiHostClient
<1>2. UNCHANGED <<manager, registry, answered, overlap>>
  BY Zenon DEF NewMultiHostClient, crHistory
<1>3. UNCHANGED <<fileConfig, generation>>
  BY <1>2 DEF manager
<1>4. clientHosts \in Seq(Nat) /\ request[r] \in Handlers /\ "swap" \in Places
  BY Zenon DEF ConfigInv, Typed, Places, InCallback
<1>5. request[r].hosts \in Nat /\ NextClient \in Nat
  BY <1>4, SMT DEF Handlers, NextClient
<1>6. clientHosts'[NextClient] = request[r].hosts
  BY <1>1, <1>4, <1>5, SMT DEF NextClient
<1>7. /\ request'[r].at = "swap" /\ request'[r].client = NextClient /\ Alone(r)
      /\ request'[r].generation = request[r].generation /\ request'[r].hosts = request[r].hosts
  <2> DEFINE h == WithClient(request[r], "swap", NextClient)
  <2>1. h \in Handlers /\ h.at = "swap"
    BY <1>4, <1>5, HandlerTakes, Zenon
  <2>2. h.client = NextClient /\ h.generation = request[r].generation /\ h.hosts = request[r].hosts
    BY <1>4, <1>5, SMT DEF WithClient, Handlers
  <2>3. request' = [request EXCEPT ![r] = h]
    BY <1>1, Zenon DEF WithClient
  <2> HIDE DEF h
  <2> QED
    BY <2>1, <2>2, <2>3, OneHandlerMoves DEF ConfigInv, Typed, Alone
<1>8. request[r].at = "client"
  BY <1>1 DEF At
<1>9. ASSUME Newest(r), CameFar(r) PROVE CameFar(r)'
  BY <1>2, <1>3, <1>6, <1>7, <1>8, <1>9, SMT DEF CameFar, StillAt, ConfigInForce
<1>10. request[r].at \in InCallback /\ request'[r].at \in InCallback
  BY <1>7, <1>8, Zenon DEF InCallback
<1> QED
  BY <1>2, <1>3, <1>7, <1>9, <1>10, CallbackGoesOn, SMT

LEMMA NewClientFailsForce == ASSUME ConfigInv, SwapInv, ForceInv, NewMultiHostClientFails PROVE ForceInv'
<1>1. PICK r \in Requests : At(r, "client") /\ Goes(r, "coolify")
  BY Zenon DEF NewMultiHostClientFails
<1>2. unfit' = TRUE /\ UNCHANGED <<manager, registry, clientHosts, answered, overlap>>
  BY Zenon DEF NewMultiHostClientFails
<1>3. UNCHANGED <<fileConfig, generation>>
  BY <1>2 DEF manager
<1>4. Keeps(r, "coolify") /\ Alone(r) /\ request[r].at = "client"
  BY <1>1, GoingKeeps, Zenon DEF ConfigInv, Places, InCallback, At
<1>5. ASSUME Newest(r), CameFar(r) PROVE CameFar(r)'
  BY <1>2, <1>3, <1>4, <1>5, SMT DEF CameFar, StillAt, Keeps, ConfigInForce, ClientInForce
<1>6. request[r].at \in InCallback /\ request'[r].at \in InCallback
  BY <1>4, Zenon DEF InCallback, Keeps
<1> QED
  BY <1>2, <1>3, <1>4, <1>5, <1>6, CallbackGoesOn, SMT DEF Keeps

LEMMA SwapDockerForce == ASSUME ConfigInv, SwapInv, ForceInv, SwapDocker PROVE ForceInv'
<1>1. PICK r \in Requests :
        /\ At(r, "swap")
        /\ request' = [request EXCEPT ![r].at = "pokeEngine", ![r].client = 0]
        /\ registry' = [registry EXCEPT !.docker = request[r].client]
  BY Zenon DEF SwapDocker
<1>2. UNCHANGED <<manager, clientHosts, answered, unfit, overlap>>
  BY Zenon DEF SwapDocker, crHistory
<1>3. UNCHANGED <<fileConfig, generation>>
  BY <1>2 DEF manager
<1>4. request[r] \in Handlers /\ "pokeEngine" \in Places /\ 0 \in Nat
  BY SMT DEF ConfigInv, Typed, Places, InCallback
<1>5. /\ request'[r].at = "pokeEngine" /\ Alone(r)
      /\ request'[r].generation = request[r].generation /\ request'[r].hosts = request[r].hosts
  <2> DEFINE h == WithClient(request[r], "pokeEngine", 0)
  <2>1. h \in Handlers /\ h.at = "pokeEngine"
    BY <1>4, HandlerTakes, Zenon
  <2>2. h.generation = request[r].generation /\ h.hosts = request[r].hosts
    BY <1>4, SMT DEF WithClient, Handlers
  <2>3. request' = [request EXCEPT ![r] = h]
    BY <1>1, Zenon DEF WithClient
  <2> HIDE DEF h
  <2> QED
    BY <2>1, <2>2, <2>3, OneHandlerMoves DEF ConfigInv, Typed, Alone
<1>6. request[r].at = "swap" /\ request[r].client \in Nat
  BY <1>1, <1>4, SMT DEF At, Handlers
<1>7. /\ registry'.docker = request[r].client /\ registry'.auth = registry.auth
      /\ registry'.config = registry.config /\ registry'.coolify = registry.coolify
  BY <1>1, <1>6, SMT DEF SwapInv, ClientsTyped
<1>8. ASSUME Newest(r), CameFar(r) PROVE CameFar(r)'
  BY <1>2, <1>3, <1>5, <1>6, <1>7, <1>8, SMT DEF CameFar, StillAt, ConfigInForce, ClientInForce
<1>9. request[r].at \in InCallback /\ request'[r].at \in InCallback
  BY <1>5, <1>6, Zenon DEF InCallback
<1> QED
  BY <1>2, <1>3, <1>5, <1>7, <1>8, <1>9, CallbackGoesOn, SMT

LEMMA ReconcileEngineForce == ASSUME ConfigInv, SwapInv, ForceInv, ReconcileEngine PROVE ForceInv'
<1>1. PICK r \in Requests : At(r, "pokeEngine") /\ Goes(r, "pokeHub")
  BY Zenon DEF ReconcileEngine
<1>2. UNCHANGED <<manager, registry, clientHosts, answered, unfit, overlap>>
  BY Zenon DEF ReconcileEngine, crHistory
<1>3. UNCHANGED <<fileConfig, generation>>
  BY <1>2 DEF manager
<1>4. Keeps(r, "pokeHub") /\ Alone(r) /\ request[r].at = "pokeEngine"
  BY <1>1, GoingKeeps, Zenon DEF ConfigInv, Places, InCallback, At
<1>5. ASSUME Newest(r), CameFar(r) PROVE CameFar(r)'
  BY <1>2, <1>3, <1>4, <1>5, SMT DEF CameFar, StillAt, Keeps, ConfigInForce, ClientInForce
<1>6. request[r].at \in InCallback /\ request'[r].at \in InCallback
  BY <1>4, Zenon DEF InCallback, Keeps
<1> QED
  BY <1>2, <1>3, <1>4, <1>5, <1>6, CallbackGoesOn, SMT DEF Keeps

LEMMA ReconcileHubForce == ASSUME ConfigInv, SwapInv, ForceInv, ReconcileHub PROVE ForceInv'
<1>1. PICK r \in Requests : At(r, "pokeHub") /\ Goes(r, "coolify")
  BY Zenon DEF ReconcileHub
<1>2. UNCHANGED <<manager, registry, clientHosts, answered, unfit, overlap>>
  BY Zenon DEF ReconcileHub, crHistory
<1>3. UNCHANGED <<fileConfig, generation>>
  BY <1>2 DEF manager
<1>4. Keeps(r, "coolify") /\ Alone(r) /\ request[r].at = "pokeHub"
  BY <1>1, GoingKeeps, Zenon DEF ConfigInv, Places, InCallback, At
<1>5. ASSUME Newest(r), CameFar(r) PROVE CameFar(r)'
  BY <1>2, <1>3, <1>4, <1>5, SMT DEF CameFar, StillAt, Keeps, ConfigInForce, ClientInForce
<1>6. request[r].at \in InCallback /\ request'[r].at \in InCallback
  BY <1>4, Zenon DEF InCallback, Keeps
<1> QED
  BY <1>2, <1>3, <1>4, <1>5, <1>6, CallbackGoesOn, SMT DEF Keeps

LEMMA SwapCoolifyForce == ASSUME ConfigInv, SwapInv, ForceInv, SwapCoolify PROVE ForceInv'
<1>1. PICK r \in Requests : /\ At(r, "coolify") /\ Goes(r, "readAuth")
                            /\ registry' = [registry EXCEPT !.coolify = request[r].generation]
  BY Zenon DEF SwapCoolify
<1>2. UNCHANGED <<manager, clientHosts, answered, unfit, overlap>>
  BY Zenon DEF SwapCoolify, crHistory
<1>3. UNCHANGED <<fileConfig, generation>>
  BY <1>2 DEF manager
<1>4. Keeps(r, "readAuth") /\ Alone(r) /\ request[r].at = "coolify"
  BY <1>1, GoingKeeps, Zenon DEF ConfigInv, Places, InCallback, At
<1>5. request[r].generation \in Nat
  BY SMT DEF ConfigInv, Typed, Handlers
<1>6. /\ registry'.coolify = request[r].generation /\ registry'.auth = registry.auth
      /\ registry'.docker = registry.docker /\ registry'.config = registry.config
  BY <1>1, <1>5, SMT DEF SwapInv, ClientsTyped
<1>7. ASSUME Newest(r), CameFar(r) PROVE CameFar(r)'
  BY <1>2, <1>3, <1>4, <1>6, <1>7, SMT
     DEF Newest, CameFar, StillAt, Keeps, ConfigInForce, ClientInForce, CoolifyInForce
<1>8. request[r].at \in InCallback /\ request'[r].at \in InCallback
  BY <1>4, Zenon DEF InCallback, Keeps
<1> QED
  BY <1>2, <1>3, <1>4, <1>6, <1>7, <1>8, CallbackGoesOn, SMT DEF Keeps

\* What is read under the lock is what was last answered.
LEMMA FileConfigSnapshotForce == ASSUME ConfigInv, SwapInv, ForceInv, FileConfigSnapshot PROVE ForceInv'
<1>1. PICK r \in Requests :
         At(r, "readAuth") /\ request' = [request EXCEPT ![r].at = "auth", ![r].auth = fileConfig["auth"]]
  BY Zenon DEF FileConfigSnapshot
<1>2. lock = Nobody /\ UNCHANGED <<manager, registry, clientHosts, answered, unfit, overlap>>
  BY Zenon DEF FileConfigSnapshot, crHistory
<1>3. UNCHANGED <<fileConfig, generation>> /\ fileConfig = answered
  BY <1>2, Zenon DEF manager, ConfigInv, WritesAreWhole
<1>4. request[r] \in Handlers /\ fileConfig["auth"] \in Nat /\ "auth" \in Places
  BY SMT DEF ConfigInv, Typed, Configs, Sections, Places, InCallback
<1>5. /\ request'[r].at = "auth" /\ Alone(r) /\ request'[r].auth = answered["auth"]
      /\ request'[r].generation = request[r].generation /\ request'[r].hosts = request[r].hosts
  <2> DEFINE h == WithAuth(request[r], "auth", fileConfig["auth"])
  <2>1. h \in Handlers /\ h.at = "auth"
    BY <1>4, HandlerTakes, Zenon
  <2>2. /\ h.auth = fileConfig["auth"]
        /\ h.generation = request[r].generation /\ h.hosts = request[r].hosts
    BY <1>4, SMT DEF WithAuth, Handlers
  <2>3. request' = [request EXCEPT ![r] = h]
    BY <1>1, Zenon DEF WithAuth
  <2> HIDE DEF h
  <2> QED
    BY <1>3, <2>1, <2>2, <2>3, OneHandlerMoves DEF ConfigInv, Typed, Alone
<1>6. request[r].at = "readAuth"
  BY <1>1 DEF At
<1>7. ASSUME Newest(r), CameFar(r) PROVE CameFar(r)'
  BY <1>2, <1>3, <1>5, <1>6, <1>7, SMT
     DEF CameFar, StillAt, ConfigInForce, ClientInForce, CoolifyInForce
<1>8. request[r].at \in InCallback /\ request'[r].at \in InCallback
  BY <1>5, <1>6, Zenon DEF InCallback
<1> QED
  BY <1>2, <1>3, <1>5, <1>7, <1>8, CallbackGoesOn, SMT

-----------------------------------------------------------------------------
LEMMA OthersForce ==
    ASSUME ForceInv, UNCHANGED <<manager, registry, clientHosts, answered, unfit, overlap>>,
           \A q \in Requests : Remerging(q) \/ Remerging(q)' => request'[q] = request[q]
    PROVE  ForceInv'
<1>1. UNCHANGED <<generation, fileConfig>>
  BY DEF manager
<1>2. fileConfig["auth"] = 0 => answered["auth"] = 0
  BY DEF ForceInv, AuthStaysSet
<1>3. ForceAside
  BY <1>1, <1>2 DEF ForceAside
<1> QED
  BY <1>3, ForceAsideKept

LEMMA CloseRetiredForce == ASSUME ForceInv, CloseRetired PROVE ForceInv'
<1>1. UNCHANGED <<manager, request, registry, clientHosts, answered, unfit, overlap>>
  BY Zenon DEF CloseRetired, crHistory
<1> QED
  BY <1>1, OthersForce

LEMMA EngineReconcilesForce == ASSUME ForceInv, EngineReconciles PROVE ForceInv'
<1>1. UNCHANGED <<manager, request, registry, clientHosts, answered, unfit, overlap>>
  BY Zenon DEF EngineReconciles, crHistory
<1> QED
  BY <1>1, OthersForce

LEMMA HubReconcilesForce == ASSUME ForceInv, HubReconciles PROVE ForceInv'
<1>1. UNCHANGED <<manager, request, registry, clientHosts, answered, unfit, overlap>>
  BY Zenon DEF HubReconciles, crHistory
<1> QED
  BY <1>1, OthersForce

LEMMA ReconcileAlertsForce == ASSUME ConfigInv, ForceInv, ReconcileAlerts PROVE ForceInv'
<1>1. PICK r \in Requests : At(r, "reconcile") /\ Returns(r)
  BY Zenon DEF ReconcileAlerts
<1>2. UNCHANGED <<manager, registry, clientHosts, answered, unfit, overlap>>
  BY Zenon DEF ReconcileAlerts, crHistory
<1>3. request[r].at = "reconcile" /\ request'[r].at = "idle" /\ Alone(r)
  BY <1>1, ReturningIdles, Zenon DEF ConfigInv, At
<1>4. "reconcile" \notin InRemerge /\ "idle" \notin InRemerge
  BY Zenon DEF InRemerge, InCallback
<1>5. \A q \in Requests : Remerging(q) \/ Remerging(q)' => request'[q] = request[q]
  BY <1>3, <1>4, Zenon DEF Remerging, Alone
<1> QED
  BY <1>2, <1>5, OthersForce

\* Nothing but the auth settings themselves sets them, and never to none.
LEMMA UpdateForce == ASSUME ConfigInv, ForceInv, Update PROVE ForceInv'
<1>1. PICK r \in Requests, s \in Sections \ EnvPinned :
          /\ At(r, "idle")
          /\ request' = [request EXCEPT ![r].at = "persist", ![r].section = s, ![r].old = fileConfig[s]]
          /\ fileConfig' = [fileConfig EXCEPT ![s] = writes + 1]
  BY Zenon DEF Update
<1>2. UNCHANGED <<generation, registry, clientHosts, answered, unfit, overlap>>
  BY Zenon DEF Update
<1>3. fileConfig \in Configs /\ writes \in Nat /\ s \in Sections /\ "auth" \in Sections
  BY SMT DEF ConfigInv, Typed, Sections
<1>4. request'[r].at = "persist" /\ Alone(r)
  <2> DEFINE h == Replacing(request[r], s, fileConfig[s])
  <2>1. request[r] \in Handlers /\ s \in Sections /\ fileConfig[s] \in Nat
    BY SMT DEF ConfigInv, Typed, Configs
  <2>2. h \in Handlers /\ h.at = "persist"
    BY <2>1, HandlerReplaces, Zenon
  <2>3. request' = [request EXCEPT ![r] = h]
    BY <1>1, Zenon DEF Replacing
  <2> HIDE DEF h
  <2> QED
    BY <2>2, <2>3, OneHandlerMoves DEF ConfigInv, Typed, Alone
<1>5. fileConfig'["auth"] = 0 => answered["auth"] = 0
  BY <1>1, <1>3, SMT DEF ForceInv, AuthStaysSet, Configs
<1>6. "idle" \notin InRemerge /\ "persist" \notin InRemerge /\ request[r].at = "idle"
  BY <1>1, Zenon DEF InRemerge, InCallback, At
<1>7. \A q \in Requests : Remerging(q) \/ Remerging(q)' => request'[q] = request[q]
  BY <1>4, <1>6, Zenon DEF Remerging, Alone
<1>8. ForceAside
  BY <1>2, <1>5, <1>7 DEF ForceAside
<1> QED
  BY <1>8, ForceAsideKept

LEMMA PersistFailsForce == ASSUME ConfigInv, ForceInv, PersistFails PROVE ForceInv'
<1>1. PICK r \in Requests : At(r, "persist") /\ Returns(r)
  BY Zenon DEF PersistFails
<1>2. UNCHANGED <<generation, registry, clientHosts, answered, unfit, overlap>> /\ lock' = Nobody
  BY Zenon DEF PersistFails
<1>3. request[r].at = "persist" /\ request'[r].at = "idle" /\ Alone(r)
  BY <1>1, ReturningIdles, Zenon DEF ConfigInv, At
<1>4. "persist" \notin InRemerge /\ "idle" \notin InRemerge
  BY Zenon DEF InRemerge, InCallback
<1>5. \A q \in Requests : Remerging(q) \/ Remerging(q)' => request'[q] = request[q]
  BY <1>3, <1>4, Zenon DEF Remerging, Alone
<1>6. fileConfig' = answered
  BY <1>2, FailureWhole, Zenon DEF ConfigInv, WritesAreWhole
<1>7. ForceAside
  BY <1>2, <1>5, <1>6 DEF ForceAside
<1> QED
  BY <1>7, ForceAsideKept

\* The newest callback begins.  It runs alone, or overlap is set.
LEMMA PersistedForce == ASSUME ConfigInv, ForceInv, Persisted PROVE ForceInv'
<1>1. PICK r \in Requests :
        /\ At(r, "persist") /\ lock' = Nobody
        /\ answered' = [answered EXCEPT ![request[r].section] = fileConfig[request[r].section]]
        /\ \/ /\ request[r].section \in Merged
              /\ generation' = generation + 1
              /\ request' = [request EXCEPT ![r].at = "check", ![r].generation = generation',
                                            ![r].hosts = fileConfig["hosts"]]
              /\ overlap' = OthersInCallback(r)
           \/ /\ request[r].section \notin Merged
              /\ Goes(r, "reconcile")
              /\ UNCHANGED <<generation, overlap>>
  BY Zenon DEF Persisted
<1>2. UNCHANGED <<fileConfig, registry, clientHosts, unfit>>
  BY Zenon DEF Persisted
<1>3. /\ request[r] \in Handlers /\ request[r].section \in Sections /\ answered \in Configs
      /\ fileConfig["hosts"] \in Nat /\ generation \in Nat
  BY SMT DEF ConfigInv, Typed, Handlers, Configs, Sections
<1>4. answered' = fileConfig
  BY <1>1, <1>2, PersistedWhole, Zenon DEF ConfigInv, WritesAreWhole
<1>5. request[r].at = "persist" /\ ~Remerging(r)
  <2>1. "persist" \notin InRemerge
    BY Zenon DEF InRemerge, InCallback
  <2> QED
    BY <1>1, <2>1, Zenon DEF At, Remerging
<1>6. CASE request[r].section \in Merged
  <2>1. generation' = generation + 1 /\ overlap' = OthersInCallback(r) /\ generation' \in Nat
    BY <1>1, <1>3, <1>6, SMT
  <2>2. /\ request'[r].at = "check" /\ request'[r].generation = generation'
        /\ request'[r].hosts = fileConfig["hosts"] /\ Alone(r)
    <3> DEFINE h == Calling(request[r], generation', fileConfig["hosts"])
    <3>1. h \in Handlers /\ h.at = "check"
      BY <1>3, <2>1, HandlerCalls, Zenon
    <3>2. h.generation = generation' /\ h.hosts = fileConfig["hosts"]
      BY <1>3, <2>1, SMT DEF Calling, Handlers
    <3>3. request' = [request EXCEPT ![r] = h]
      BY <1>1, <1>6, Zenon DEF Calling
    <3> HIDE DEF h
    <3> QED
      BY <3>1, <3>2, <3>3, OneHandlerMoves DEF ConfigInv, Typed, Alone
  <2>3. ASSUME NEW q \in Requests \ {r}
        PROVE  /\ request'[q] = request[q] /\ (Remerging(q)' <=> Remerging(q))
               /\ Remerging(q) => request[q].generation <= generation /\ request[q].generation \in Nat
    <3>1. request'[q] = request[q]
      BY <2>2 DEF Alone
    <3>2. request[q].generation \in Nat
      BY SMT DEF ConfigInv, Typed, Handlers
    <3> QED
      BY <3>1, <3>2, SMT DEF Remerging, ForceInv, OneOfEachGeneration
  <2>4. OneOfEachGeneration'
    <3>1. ASSUME NEW q \in Requests, Remerging(q)' PROVE request'[q].generation <= generation'
      BY <1>3, <2>1, <2>2, <2>3, <3>1, SMT
    <3>2. ASSUME NEW q \in Requests, NEW o \in Requests, Remerging(q)', Remerging(o)',
                 request'[q].generation = request'[o].generation
          PROVE  q = o
      <4>1. CASE q = r \/ o = r
        BY <1>3, <2>1, <2>2, <2>3, <3>2, <4>1, SMT
      <4>2. CASE q # r /\ o # r
        BY <2>3, <3>2, <4>2, SMT DEF ForceInv, OneOfEachGeneration
      <4> QED
        BY <4>1, <4>2
    <3> QED
      BY <3>1, <3>2, Zenon DEF OneOfEachGeneration
  <2>5. AuthStaysSet'
    <3>1. \A q \in Requests : request'[q].at = "auth" => request'[q] = request[q]
      BY <2>2, SMT DEF Alone
    <3> QED
      BY <1>2, <1>4, <3>1, SMT DEF ForceInv, AuthStaysSet
  <2>6. Newest(r)'
    BY <2>2, SMT DEF Newest, Remerging, InRemerge
  <2>7. \A q \in Requests : Newest(q)' => q = r
    BY <1>3, <2>1, <2>3, SMT DEF Newest
  <2>8. ASSUME ~overlap' PROVE OnlyNewest'
    <3>1. \A q \in Requests \ {r} : request[q].at \notin InCallback
      BY <2>1, <2>8, Zenon DEF OthersInCallback
    <3>2. request'[r].at \notin InCallback
      BY <2>2, Zenon DEF InCallback
    <3> QED
      BY <2>3, <3>1, <3>2, Zenon DEF OnlyNewest
  <2>9. NewestCameFar'
    <3>1. CameFar(r)'
      BY <1>4, <2>2, SMT DEF CameFar, StillAt
    <3> QED
      BY <2>7, <3>1, Zenon DEF NewestCameFar
  <2>10. InForceWhenDone'
    BY <2>6, Zenon DEF InForceWhenDone
  <2> QED
    BY <2>4, <2>5, <2>8, <2>9, <2>10 DEF ForceInv, Progress
<1>7. CASE request[r].section \notin Merged
  <2>1. Keeps(r, "reconcile") /\ Alone(r)
    BY <1>1, <1>7, GoingKeeps, Zenon DEF ConfigInv, Places
  <2>2. "reconcile" \notin InRemerge
    BY Zenon DEF InRemerge, InCallback
  <2>3. \A q \in Requests : Remerging(q) \/ Remerging(q)' => request'[q] = request[q]
    BY <1>5, <2>1, <2>2, Zenon DEF Remerging, Alone, Keeps
  <2>4. answered'["auth"] = answered["auth"] /\ answered'["hosts"] = answered["hosts"]
    BY <1>1, <1>3, <1>7, SMT DEF Merged, Sections, Configs
  <2>5. fileConfig'["auth"] = 0 => answered["auth"] = 0
    BY <1>2 DEF ForceInv, AuthStaysSet
  <2>6. ForceAside
    BY <1>1, <1>2, <1>7, <2>3, <2>4, <2>5 DEF ForceAside
  <2> QED
    BY <2>6, ForceAsideKept
<1> QED
  BY <1>6, <1>7

\* A stale callback is dropped, which is no loss; another one goes on.
LEMMA CheckGenerationForce == ASSUME ConfigInv, ForceInv, CheckGeneration PROVE ForceInv'
<1>1. PICK r \in Requests : /\ At(r, "check")
                            /\ \/ Dropped(r) /\ Returns(r)
                               \/ ~Dropped(r) /\ Goes(r, "config")
  BY Zenon DEF CheckGeneration
<1>2. UNCHANGED <<manager, registry, clientHosts, answered, unfit, overlap>>
  BY Zenon DEF CheckGeneration, crHistory
<1>3. UNCHANGED <<fileConfig, generation>>
  BY <1>2 DEF manager
<1>4. Remerging(r) /\ request[r].at = "check" /\ request[r].at \notin InCallback
  BY <1>1, Zenon DEF Remerging, InRemerge, InCallback, At
<1>5. CASE Dropped(r) /\ Returns(r)
  <2>1. request'[r].at = "idle" /\ Alone(r)
    BY <1>5, ReturningIdles DEF ConfigInv
  <2>2. ~Newest(r) /\ ~Remerging(r)' /\ request'[r].at \notin InCallback
    BY <1>5, <2>1, SMT DEF Dropped, Stale, Newest, Remerging, InRemerge, InCallback
  <2>3. \A q \in Requests : Remerging(q)' => q # r /\ Remerging(q) /\ request'[q] = request[q]
    BY <2>1, <2>2, Zenon DEF Remerging, Alone
  <2>4. \A q \in Requests : Newest(q)' <=> Newest(q)
    <3> SUFFICES ASSUME NEW q \in Requests PROVE Newest(q)' <=> Newest(q)
      OBVIOUS
    <3>1. CASE q = r
      BY <2>2, <3>1, Zenon DEF Newest
    <3>2. CASE q # r
      <4>1. request'[q] = request[q]
        BY <2>1, <3>2 DEF Alone
      <4> QED
        BY <1>3, <4>1, Zenon DEF Newest, Remerging
    <3> QED
      BY <3>1, <3>2
  <2>5. OneOfEachGeneration'
    BY <1>3, <2>3, SMT DEF ForceInv, OneOfEachGeneration
  <2>6. AuthStaysSet'
    BY <1>2, <1>3, <2>1, SMT DEF ForceInv, AuthStaysSet, Alone
  <2>7. ASSUME ~overlap' PROVE OnlyNewest' /\ NewestCameFar' /\ InForceWhenDone'
    <3>1. OnlyNewest /\ NewestCameFar /\ InForceWhenDone
      BY <1>2, <2>7, SMT DEF ForceInv, Progress
    <3>2. OnlyNewest'
      <4>1. \A q \in Requests : request'[q].at \in InCallback => request[q].at \in InCallback
        BY <2>1, <2>2, Zenon DEF Alone
      <4> QED
        BY <2>4, <3>1, <4>1, Zenon DEF OnlyNewest
    <3>3. NewestCameFar'
      <4> SUFFICES ASSUME NEW q \in Requests, Newest(q)' PROVE CameFar(q)'
        BY DEF NewestCameFar
      <4>1. Newest(q) /\ CameFar(q) /\ request'[q] = request[q]
        BY <2>3, <2>4, <3>1, Zenon DEF NewestCameFar, Newest
      <4> QED
        BY <1>2, <1>3, <4>1, Zenon DEF CameFar, StillAt, ConfigInForce, ClientInForce, CoolifyInForce
    <3>4. InForceWhenDone'
      BY <1>2, <1>3, <2>4, <3>1, Zenon
         DEF InForceWhenDone, ConfigInForce, ClientInForce, CoolifyInForce, AuthInForce
    <3> QED
      BY <3>2, <3>3, <3>4
  <2> QED
    BY <2>5, <2>6, <2>7 DEF ForceInv, Progress
<1>6. CASE ~Dropped(r) /\ Goes(r, "config")
  <2>1. Keeps(r, "config") /\ Alone(r)
    BY <1>6, GoingKeeps, Zenon DEF ConfigInv, Places, InCallback
  <2>2. Newest(r)
    BY <1>4, <1>6, SMT DEF Dropped, Stale, Newest
  <2>3. ASSUME Newest(r), CameFar(r) PROVE CameFar(r)'
    BY <1>2, <1>3, <1>4, <2>1, <2>3, SMT DEF CameFar, StillAt, Keeps
  <2>4. request'[r].at \in InCallback
    BY <2>1, Zenon DEF InCallback, Keeps
  <2> QED
    BY <1>2, <1>3, <2>1, <2>2, <2>3, <2>4, CallbackGoesOn, SMT DEF Keeps
<1> QED
  BY <1>1, <1>5, <1>6

\* The newest callback is over, and everything it was for is in force.
LEMMA SwapAuthForce == ASSUME ConfigInv, SwapInv, ForceInv, SwapAuth PROVE ForceInv'
<1>1. PICK r \in Requests :
         /\ At(r, "auth") /\ Returns(r)
         /\ IF request[r].auth # 0 /\ "auth" \notin EnvPinned
            THEN registry' = [registry EXCEPT !.auth = request[r].auth]
            ELSE UNCHANGED registry
  BY Zenon DEF SwapAuth
<1>2. UNCHANGED <<manager, clientHosts, answered, unfit, overlap>>
  BY Zenon DEF SwapAuth, crHistory
<1>3. UNCHANGED <<fileConfig, generation>>
  BY <1>2 DEF manager
<1>4. request[r].auth \in Nat /\ request[r].at = "auth"
  BY <1>1, SMT DEF ConfigInv, Typed, Handlers, At
<1>5. /\ registry'.docker = registry.docker
      /\ registry'.config = registry.config /\ registry'.coolify = registry.coolify
      /\ registry'.auth = IF request[r].auth # 0 /\ "auth" \notin EnvPinned
                          THEN request[r].auth ELSE registry.auth
  BY <1>1, <1>4, SMT DEF SwapInv, ClientsTyped
<1>6. request'[r].at = "idle" /\ Alone(r)
  BY <1>1, ReturningIdles DEF ConfigInv
<1>7. request[r].at \in InCallback /\ ~Remerging(r)' /\ request'[r].at \notin InCallback
  BY <1>4, <1>6, SMT DEF Remerging, InRemerge, InCallback
<1>8. \A q \in Requests : Remerging(q)' => q # r /\ Remerging(q) /\ request'[q] = request[q]
  BY <1>6, <1>7, Zenon DEF Remerging, Alone
<1>9. OneOfEachGeneration'
  BY <1>3, <1>8, SMT DEF ForceInv, OneOfEachGeneration
<1>10. AuthStaysSet'
  BY <1>2, <1>3, <1>4, <1>5, <1>6, SMT DEF ForceInv, AuthStaysSet, Alone
<1>11. ASSUME ~overlap' PROVE OnlyNewest' /\ NewestCameFar' /\ InForceWhenDone'
  <2>1. OnlyNewest /\ NewestCameFar
    BY <1>2, <1>11, SMT DEF ForceInv, Progress
  <2>2. Newest(r) /\ CameFar(r)
    BY <1>7, <2>1, Zenon DEF OnlyNewest, NewestCameFar
  <2>3. \A q \in Requests : ~Newest(q)' /\ request'[q].at \notin InCallback
    <3> SUFFICES ASSUME NEW q \in Requests PROVE ~Newest(q)' /\ request'[q].at \notin InCallback
      OBVIOUS
    <3>1. Newest(q) => q = r
      BY <2>2, SMT DEF ForceInv, OneOfEachGeneration, Newest
    <3>2. ~Newest(q)'
      BY <1>3, <1>8, <3>1, Zenon DEF Newest
    <3>3. request'[q].at \in InCallback => Newest(q) /\ q # r
      BY <1>6, <1>7, <2>1, Zenon DEF OnlyNewest, Alone
    <3> QED
      BY <3>1, <3>2, <3>3
  <2>4. ConfigInForce' /\ ClientInForce' /\ CoolifyInForce'
    BY <1>2, <1>3, <1>4, <1>5, <2>2, SMT DEF CameFar, StillAt, ConfigInForce, ClientInForce, CoolifyInForce
  <2>5. AuthInForce'
    BY <1>2, <1>4, <1>5, <2>2, SMT DEF CameFar, StillAt, AuthInForce, ForceInv, AuthStaysSet
  <2> QED
    BY <2>3, <2>4, <2>5, Zenon DEF OnlyNewest, NewestCameFar, InForceWhenDone
<1> QED
  BY <1>9, <1>10, <1>11 DEF ForceInv, Progress

\* A new process runs on the file, which is what was last answered.
LEMMA RestartForce == ASSUME ConfigInv, Restart PROVE ForceInv'
<1>1. /\ request' = [r \in Requests |-> Idle] /\ answered' = answered /\ generation' = 0
      /\ registry' = [config |-> 0, docker |-> NextClient, coolify |-> 0, auth |-> configFile["auth"]]
      /\ clientHosts' = Append(clientHosts, configFile["hosts"]) /\ fileConfig' = configFile
  BY Zenon DEF Restart, Boots
<1>2. configFile = answered /\ configFile["hosts"] \in Nat /\ clientHosts \in Seq(Nat)
  BY SMT DEF ConfigInv, WritesAreWhole, Typed, Configs, Sections
<1>3. \A r \in Requests : request'[r].at = "idle"
  BY <1>1, IdleIsHandler, SMT
<1>4. \A r \in Requests : ~Remerging(r)' /\ request'[r].at \notin InCallback
  BY <1>3, SMT DEF Remerging, InRemerge, InCallback
<1>5. clientHosts'[NextClient] = answered["hosts"]
  BY <1>1, <1>2, SMT DEF NextClient
<1>6. /\ registry'.config = 0 /\ registry'.coolify = 0 /\ registry'.docker = NextClient
      /\ registry'.auth = answered["auth"]
  BY <1>1, <1>2, SMT
<1>7. OneOfEachGeneration' /\ AuthStaysSet'
  BY <1>1, <1>2, <1>3, <1>4, <1>6, SMT DEF OneOfEachGeneration, AuthStaysSet
<1>8. ConfigInForce' /\ ClientInForce' /\ CoolifyInForce' /\ AuthInForce'
  <2>1. answered' = answered /\ generation' = 0
    BY <1>1
  <2> QED
    BY <1>5, <1>6, <2>1, Zenon DEF ConfigInForce, ClientInForce, CoolifyInForce, AuthInForce
<1>9. Progress'
  BY <1>4, <1>8, Zenon DEF Progress, OnlyNewest, NewestCameFar, InForceWhenDone, Newest
<1> QED
  BY <1>7, <1>9 DEF ForceInv

LEMMA StepForce == ConfigInv /\ SwapInv /\ ForceInv /\ [ConfigReloadNext]_crVars => ForceInv'
<1> SUFFICES ASSUME ConfigInv, SwapInv, ForceInv, [ConfigReloadNext]_crVars PROVE ForceInv'
  OBVIOUS
<1>1. CASE UNCHANGED crVars
  <2>1. UNCHANGED <<manager, request, registry, clientHosts, answered, unfit, overlap>>
    BY <1>1, Zenon DEF crVars, crHistory
  <2> QED
    BY <2>1, OthersForce
<1> QED
  BY <1>1, UpdateForce, PersistedForce, PersistFailsForce, CheckGenerationForce, UpdateConfigForce,
     NewClientForce, NewClientFailsForce, SwapDockerForce, CloseRetiredForce,
     ReconcileEngineForce, ReconcileHubForce, SwapCoolifyForce, FileConfigSnapshotForce,
     SwapAuthForce, ReconcileAlertsForce, EngineReconcilesForce, HubReconcilesForce, RestartForce
     DEF ConfigReloadNext

-----------------------------------------------------------------------------
\* At rest no callback is left, so everything is in force.
LEMMA FollowedAtRest == ConfigInv /\ SwapInv /\ ForceInv => ConfigFollowed
<1> SUFFICES ASSUME ConfigInv, SwapInv, ForceInv PROVE SwapsAreFollowed /\ NewestInForce
  BY DEF ConfigFollowed
<1>1. SwapsAreFollowed
  BY DEF SwapInv
<1>2. ASSUME AllAtRest, ~overlap
      PROVE  /\ registry.config = generation /\ registry.coolify = generation
             /\ "auth" \notin EnvPinned => registry.auth = fileConfig["auth"]
             /\ clientHosts[registry.docker] = fileConfig["hosts"] \/ unfit
             /\ follows.hub = registry.docker /\ follows.engine = registry.docker
  <2>1. \A r \in Requests : ~Newest(r)
    <3>1. "idle" \notin InRemerge
      BY Zenon DEF InRemerge, InCallback
    <3> QED
      BY <1>2, <3>1, Zenon DEF AllAtRest, Newest, Remerging
  <2>2. ConfigInForce /\ ClientInForce /\ CoolifyInForce /\ AuthInForce
    BY <1>2, <2>1, Zenon DEF ForceInv, Progress, InForceWhenDone
  <2>3. fileConfig = answered
    BY <1>2 DEF AllAtRest, ConfigInv, WritesAreWhole
  <2>4. follows.hub = registry.docker /\ follows.engine = registry.docker
    <3>1. \A r \in Requests : request[r].at = "idle"
      BY <1>2 DEF AllAtRest
    <3>2. ~PokedBy({"pokeEngine", "pokeHub"}) /\ ~PokedBy({"pokeEngine"}) /\ pokes = {}
      BY <1>2, <3>1, SMT DEF PokedBy, AllAtRest
    <3> QED
      BY <1>1, <3>2, Zenon DEF SwapsAreFollowed
  <2> QED
    BY <2>2, <2>3, <2>4, Zenon DEF ConfigInForce, ClientInForce, CoolifyInForce, AuthInForce
<1> QED
  BY <1>1, <1>2 DEF NewestInForce

\* cmd/server/main.go: whatever callbacks overlap, fail or die half way, the hub
\* and the engine follow every swap, the client in use is never closed and none
\* is lost; and when all is at rest everything runs on the newest configuration,
\* unless the newest callback began while an older one was past its check.
THEOREM ConfigIsFollowed == ConfigReloadSpec => []ConfigFollowed
<1>1. ConfigReloadInit => ConfigInv /\ SwapInv /\ ForceInv
  BY InitWhole, InitSwaps, InitForce
<1>2. ConfigInv /\ SwapInv /\ ForceInv /\ [ConfigReloadNext]_crVars => (ConfigInv /\ SwapInv /\ ForceInv)'
  BY StepWhole, StepSwaps, StepForce
<1> QED
  BY <1>1, <1>2, FollowedAtRest, PTL DEF ConfigReloadSpec

-----------------------------------------------------------------------------
(* The history of alerts *)

Outcomes == {"none", "ok", "failed"}
Phases == {"none", "first", "pausing", "second", "ok", "failed"}
Entry == [id : Nat, outcome : Outcomes]
Told(list) == {list[i] : i \in 1 .. Len(list)}

\* The alerts are delivered in the order of their numbers: what waits is
\* younger than the one the dispatcher is at, and nothing younger is forgotten.
Numbered ==
    /\ fired \in 0 .. MaxAlerts /\ alert \in 0 .. fired
    /\ queue \in Seq(Nat)
    /\ \A i \in 1 .. Len(queue) : alert < queue[i] /\ queue[i] <= fired
    /\ \A i, j \in 1 .. Len(queue) : i < j => queue[i] < queue[j]
    /\ dispatcher \in {"appended", "delivering"} => alert # 0
    /\ addressed \in [Alerts -> SUBSET Channels] /\ received \in [Alerts -> SUBSET Channels]
    /\ forgotten \subseteq 1 .. alert

\* A delivery is under way to exactly the channels the alert is addressed to.
UnderWay ==
    /\ delivery \in [Channels -> Phases]
    /\ dispatcher # "delivering" => \A c \in Channels : delivery[c] = "none"
    /\ dispatcher = "delivering" =>
         /\ addressed[alert] = {c \in Channels : delivery[c] # "none"}
         /\ addressed[alert] # {}
         /\ \A c \in Channels : delivery[c] = "ok" => c \in received[alert]

\* What an entry may say, in the list and in the file; before its channels are
\* read an alert's own entry says nothing yet.
Credible(e) ==
    /\ e.id \in 1 .. alert /\ e.id \notin forgotten
    /\ e.outcome = "ok" => addressed[e.id] # {} /\ addressed[e.id] \subseteq received[e.id]
    /\ e.outcome = "failed" => addressed[e.id] # {}
    /\ dispatcher = "appended" /\ e.id = alert => e.outcome = "none"

ListsCredible ==
    /\ entries \in Seq(Entry) /\ Len(entries) <= Cap
    /\ file \in Seq(Entry) /\ Len(file) <= Cap
    /\ \A e \in Told(entries) : Credible(e)
    /\ \A e \in Told(file) : Credible(e)
    /\ ~dirty => file = entries

HistoryInv == Numbered /\ UnderWay /\ ListsCredible

-----------------------------------------------------------------------------
\* Lists: cutting to the bound keeps the newest, a list within it stays as it is.
LEMMA BoundedIsPart ==
    ASSUME NEW S, NEW l \in Seq(S)
    PROVE  /\ Bounded(l) \in Seq(S) /\ Len(Bounded(l)) <= Cap
           /\ Told(Bounded(l)) \subseteq Told(l)
           /\ Len(l) <= Cap => Bounded(l) = l
<1> DEFINE n == IF Len(l) < Cap THEN Len(l) ELSE Cap
<1>1. Cap \in Nat /\ Len(l) \in Nat /\ n \in Nat /\ n <= Cap /\ n <= Len(l)
  BY HistoryAssumption, LenProperties
<1>2. \A i \in 1 .. n : l[i] \in S
  BY <1>1, ElementOfSeq
<1>3. /\ SubSeq(l, 1, n) \in Seq(S)
      /\ Len(SubSeq(l, 1, n)) = IF 1 <= n THEN n ELSE 0
      /\ \A i \in 1 .. n : SubSeq(l, 1, n)[i] = l[i]
  <2>1. 1 \in Int /\ n \in Int /\ n - 1 + 1 = n
    BY <1>1
  <2> HIDE DEF n
  <2>2. /\ SubSeq(l, 1, n) \in Seq(S)
        /\ Len(SubSeq(l, 1, n)) = IF 1 <= n THEN n - 1 + 1 ELSE 0
        /\ \A i \in 1 .. n - 1 + 1 : SubSeq(l, 1, n)[i] = l[1 + i - 1]
    BY <1>2, <2>1, SubSeqProperties
  <2>3. \A i \in 1 .. n : 1 + i - 1 = i
    BY <2>1
  <2> QED
    BY <2>1, <2>2, <2>3
<1>4. Bounded(l) = SubSeq(l, 1, n)
  BY DEF Bounded
<1>5. Len(l) <= Cap => Bounded(l) = l
  BY <1>1, <1>4, SubSeqFull
<1> HIDE DEF n
<1>6. Len(SubSeq(l, 1, n)) = n
  BY <1>1, <1>3
<1>7. Told(SubSeq(l, 1, n)) \subseteq Told(l)
  BY <1>1, <1>3, <1>6 DEF Told
<1> QED
  BY <1>1, <1>3, <1>4, <1>5, <1>6, <1>7

\* A new entry at the front is all a list gains.
LEMMA InFront ==
    ASSUME NEW S, NEW l \in Seq(S), NEW e \in S
    PROVE  <<e>> \o l \in Seq(S) /\ Told(<<e>> \o l) = {e} \cup Told(l)
<1>1. <<e>> \in Seq(S) /\ Len(<<e>>) = 1 /\ <<e>>[1] = e
  OBVIOUS
<1>2. /\ <<e>> \o l \in Seq(S)
      /\ Len(<<e>> \o l) = 1 + Len(l)
      /\ \A i \in 1 .. 1 + Len(l) : (<<e>> \o l)[i] = IF i <= 1 THEN <<e>>[i] ELSE l[i - 1]
  BY <1>1, ConcatProperties
<1>3. Len(l) \in Nat
  BY LenProperties
<1>4. (<<e>> \o l)[1] = e
  BY <1>1, <1>2, <1>3
<1>5. \A i \in 1 .. Len(l) : i + 1 \in 1 .. 1 + Len(l) /\ (<<e>> \o l)[i + 1] = l[i]
  BY <1>2, <1>3
<1>6. \A i \in 1 .. 1 + Len(l) : i # 1 => i - 1 \in 1 .. Len(l) /\ (<<e>> \o l)[i] = l[i - 1]
  BY <1>2, <1>3
<1>7. Told(<<e>> \o l) \subseteq {e} \cup Told(l)
  BY <1>2, <1>4, <1>6 DEF Told
<1>8. 1 \in 1 .. Len(<<e>> \o l)
  BY <1>2, <1>3
<1>9. {e} \cup Told(l) \subseteq Told(<<e>> \o l)
  <2>1. \A i \in 1 .. Len(l) : l[i] \in Told(<<e>> \o l)
    BY <1>2, <1>5 DEF Told
  <2>2. e \in Told(<<e>> \o l)
    BY <1>4, <1>8 DEF Told
  <2> QED
    BY <2>1, <2>2 DEF Told
<1> QED
  BY <1>2, <1>7, <1>9
LEMMA NothingTold == <<>> \in Seq(Entry) /\ Len(<<>>) = 0 /\ Told(<<>>) = {}
BY DEF Told

-----------------------------------------------------------------------------
\* The invariant speaks of eleven variables only.
spoken == <<fired, queue, dispatcher, alert, delivery, entries, dirty, file, facts>>
LEMMA QuietSound == HistoryInv /\ UNCHANGED spoken => HistoryInv'
<1> SUFFICES ASSUME HistoryInv, UNCHANGED spoken PROVE HistoryInv'
  OBVIOUS
<1>1. Numbered'
  BY Zenon DEF HistoryInv, Numbered, spoken, facts
<1>2. UnderWay'
  BY Zenon DEF HistoryInv, UnderWay, spoken, facts
<1>3. ListsCredible'
  BY Zenon DEF HistoryInv, ListsCredible, Credible, Told, spoken, facts
<1> QED
  BY <1>1, <1>2, <1>3 DEF HistoryInv

LEMMA InitSound == AlertHistoryInit => HistoryInv
<1> SUFFICES ASSUME AlertHistoryInit PROVE HistoryInv
  OBVIOUS
<1>1. Numbered
  BY HistoryAssumption DEF AlertHistoryInit, Numbered
<1>2. UnderWay
  BY DEF AlertHistoryInit, UnderWay, Quiet, Phases
<1>3. ListsCredible
  BY HistoryAssumption, NothingTold DEF AlertHistoryInit, ListsCredible
<1> QED
  BY <1>1, <1>2, <1>3 DEF HistoryInv

LEMMA EmitSound == HistoryInv /\ Emit => HistoryInv'
<1> SUFFICES ASSUME HistoryInv, Emit PROVE HistoryInv'
  OBVIOUS
<1>1. /\ fired < MaxAlerts /\ fired' = fired + 1
      /\ queue' = IF Len(queue) < QueueSize THEN Append(queue, fired') ELSE queue
      /\ UNCHANGED <<dispatcher, alert, delivery, entries, dirty, file, addressed, received,
                     forgotten>>
  BY Zenon DEF Emit, disk, facts
<1>2. Numbered
  BY DEF HistoryInv
<1>3. queue \in Seq(Nat) /\ fired \in Nat /\ alert \in 0 .. fired /\ Len(queue) \in Nat
  BY <1>2, HistoryAssumption, LenProperties DEF Numbered
<1>8. UnderWay'
  BY <1>1, Zenon DEF HistoryInv, UnderWay
<1>9. ListsCredible'
  <2>1. ListsCredible
    BY DEF HistoryInv
  <2>2. (Told(entries))' = Told(entries) /\ (Told(file))' = Told(file)
    BY <1>1, Zenon DEF Told
  <2>3. \A e : Credible(e) => Credible(e)'
    BY <1>1, Zenon DEF Credible
  <2>4. ListsCredible' <=>
            /\ entries \in Seq(Entry) /\ Len(entries) <= Cap
            /\ file \in Seq(Entry) /\ Len(file) <= Cap
            /\ \A e \in Told(entries) : Credible(e)'
            /\ \A e \in Told(file) : Credible(e)'
            /\ ~dirty => file = entries
    BY <1>1, <2>2, Zenon DEF ListsCredible
  <2> QED
    BY <2>1, <2>3, <2>4, Zenon DEF ListsCredible
<1>4. CASE queue' = queue
  <2>1. Numbered'
    BY <1>1, <1>2, <1>3, <1>4, HistoryAssumption DEF Numbered
  <2> QED
    BY <1>8, <1>9, <2>1 DEF HistoryInv
<1>5. CASE queue' = Append(queue, fired')
  <2>1. fired' \in Nat
    BY <1>1, <1>3
  <2>2. /\ queue' \in Seq(Nat) /\ Len(queue') = Len(queue) + 1
        /\ \A i \in 1 .. Len(queue) : queue'[i] = queue[i]
        /\ queue'[Len(queue) + 1] = fired'
    BY <1>3, <1>5, <2>1, AppendProperties
  <2>3. \A i \in 1 .. Len(queue) : alert < queue[i] /\ queue[i] <= fired /\ queue[i] \in Nat
    BY <1>2, <1>3, ElementOfSeq DEF Numbered
  <2>4. \A i \in 1 .. Len(queue') : alert < queue'[i] /\ queue'[i] <= fired'
    BY <1>1, <1>3, <2>1, <2>2, <2>3
  <2>5. \A i, j \in 1 .. Len(queue') : i < j => queue'[i] < queue'[j]
    BY <1>1, <1>2, <1>3, <2>1, <2>2, <2>3 DEF Numbered
  <2>6. Numbered'
    BY <1>1, <1>2, <1>3, <2>2, <2>4, <2>5, HistoryAssumption DEF Numbered
  <2> QED
    BY <1>8, <1>9, <2>6 DEF HistoryInv
<1> QED
  BY <1>1, <1>4, <1>5

\* The alert taken is new to every list and not forgotten.
LEMMA TakeSound == HistoryInv /\ TakeAlert => HistoryInv'
<1> SUFFICES ASSUME HistoryInv, TakeAlert PROVE HistoryInv'
  OBVIOUS
<1> PICK new : new = [id |-> alert', outcome |-> "none"]
  OBVIOUS
<1>1. /\ dispatcher = "waiting" /\ dispatcher' = "appended" /\ queue # <<>>
      /\ alert' = Head(queue) /\ queue' = Tail(queue)
      /\ entries' = Bounded(<<new>> \o entries) /\ dirty' = TRUE
      /\ UNCHANGED <<fired, delivery, file, addressed, received, forgotten>>
  BY Zenon DEF TakeAlert, facts
<1>2. Numbered /\ UnderWay /\ ListsCredible
  BY DEF HistoryInv
<1>3. /\ queue \in Seq(Nat) /\ fired \in Nat /\ fired <= MaxAlerts /\ alert \in Nat
      /\ Len(queue) \in Nat /\ Len(queue) # 0
  BY <1>1, <1>2, HistoryAssumption, LenProperties, EmptySeq DEF Numbered
<1>4. /\ Head(queue) = queue[1] /\ queue' \in Seq(Nat) /\ Len(queue') = Len(queue) - 1
      /\ \A i \in 1 .. Len(queue') : queue'[i] = queue[i + 1]
  BY <1>1, <1>3, HeadTailProperties
<1>5. \A i \in 1 .. Len(queue) : alert < queue[i] /\ queue[i] <= fired /\ queue[i] \in Nat
  BY <1>2, <1>3, ElementOfSeq DEF Numbered
<1>6. alert' \in Nat /\ alert < alert' /\ alert' <= fired
  BY <1>1, <1>3, <1>4, <1>5
<1>7. Numbered'
  <2>1. \A i \in 1 .. Len(queue') : i + 1 \in 1 .. Len(queue) /\ 1 < i + 1
    BY <1>3, <1>4
  <2>2. \A i \in 1 .. Len(queue') : alert' < queue'[i] /\ queue'[i] <= fired'
    BY <1>1, <1>2, <1>3, <1>4, <1>5, <2>1 DEF Numbered
  <2>3. \A i, j \in 1 .. Len(queue') : i < j => queue'[i] < queue'[j]
    <3> SUFFICES ASSUME NEW i \in 1 .. Len(queue'), NEW j \in 1 .. Len(queue'), i < j
                 PROVE  queue'[i] < queue'[j]
      OBVIOUS
    <3>1. i + 1 < j + 1
      BY <1>3, <1>4
    <3> QED
      BY <1>2, <1>4, <2>1, <3>1 DEF Numbered
  <2>4. forgotten' \subseteq 1 .. alert'
    BY <1>1, <1>2, <1>3, <1>6 DEF Numbered
  <2> QED
    BY <1>1, <1>2, <1>3, <1>4, <1>6, <2>2, <2>3, <2>4 DEF Numbered
<1>8. UnderWay'
  BY <1>1, <1>2, Zenon DEF UnderWay
<1>9. new \in Entry /\ new.id = alert' /\ new.outcome = "none"
  BY <1>6 DEF Entry, Outcomes
<1>10. /\ <<new>> \o entries \in Seq(Entry)
       /\ Told(<<new>> \o entries) = {new} \cup Told(entries)
  BY <1>2, <1>9, InFront DEF ListsCredible
<1>11. /\ entries' \in Seq(Entry) /\ Len(entries') <= Cap
       /\ Told(entries') \subseteq {new} \cup Told(entries)
  BY <1>1, <1>10, BoundedIsPart
<1>12. Credible(new)'
  BY <1>1, <1>2, <1>3, <1>6, <1>9 DEF Credible, Numbered
<1>13. ASSUME NEW e, Credible(e) PROVE Credible(e)'
  <2>1. e.id \in Nat /\ e.id <= alert
    BY <1>3, <1>13 DEF Credible
  <2>2. e.id # alert' /\ e.id \in 1 .. alert'
    BY <1>3, <1>6, <1>13, <2>1 DEF Credible
  <2> QED
    BY <1>1, <1>13, <2>2 DEF Credible
<1>14. ListsCredible'
  <2>1. \A e \in Told(entries') : Credible(e)'
    BY <1>2, <1>11, <1>12, <1>13 DEF ListsCredible
  <2>2. \A e \in Told(file') : Credible(e)'
    BY <1>1, <1>2, <1>13 DEF ListsCredible
  <2>3. file' \in Seq(Entry) /\ Len(file') <= Cap
    BY <1>1, <1>2 DEF ListsCredible
  <2> QED
    BY <1>1, <1>11, <2>1, <2>2, <2>3 DEF ListsCredible, Told
<1> QED
  BY <1>7, <1>8, <1>14 DEF HistoryInv

\* An alert's own entry says nothing when its channels are read.
LEMMA DeliverSound == HistoryInv /\ Deliver => HistoryInv'
<1> SUFFICES ASSUME HistoryInv, Deliver PROVE HistoryInv'
  OBVIOUS
<1>1. PICK enabled \in SUBSET Channels :
      /\ dispatcher = "appended"
      /\ addressed' = [addressed EXCEPT ![alert] = enabled]
      /\ dispatcher' = IF enabled = {} THEN "waiting" ELSE "delivering"
      /\ delivery' = [c \in Channels |-> IF c \notin enabled THEN "none"
                                         ELSE IF budget = "full" THEN "first" ELSE "failed"]
      /\ UNCHANGED <<fired, queue, alert, entries, dirty, file, received, forgotten>>
  BY Zenon DEF Deliver, loop, disk
<1>2. Numbered /\ UnderWay /\ ListsCredible
  BY DEF HistoryInv
<1>3. alert \in Alerts
  BY <1>1, <1>2, HistoryAssumption DEF Numbered, Alerts
<1>4. /\ addressed' \in [Alerts -> SUBSET Channels] /\ addressed'[alert] = enabled
      /\ \A a \in Alerts : a # alert => addressed'[a] = addressed[a]
  BY <1>1, <1>2, <1>3 DEF Numbered
<1>5. Numbered'
  BY <1>1, <1>2, <1>4 DEF Numbered
<1>6. /\ delivery' \in [Channels -> Phases]
      /\ \A c \in Channels : delivery'[c] # "ok" /\ (delivery'[c] # "none" <=> c \in enabled)
  BY <1>1 DEF Phases
<1>7. UnderWay'
  BY <1>1, <1>4, <1>6 DEF UnderWay
<1>8. ASSUME NEW e, Credible(e) PROVE Credible(e)'
  <2>1. e.id \in 1 .. alert /\ e.id \in Alerts
    BY <1>2, <1>8, HistoryAssumption DEF Credible, Numbered, Alerts
  <2>2. dispatcher' # "appended"
    BY <1>1
  <2>3. CASE e.id = alert
    BY <1>1, <1>8, <2>1, <2>2, <2>3 DEF Credible
  <2>4. CASE e.id # alert
    BY <1>1, <1>4, <1>8, <2>1, <2>2, <2>4 DEF Credible
  <2> QED
    BY <2>3, <2>4
<1>9. ListsCredible'
  BY <1>1, <1>2, <1>8 DEF ListsCredible, Told
<1> QED
  BY <1>5, <1>7, <1>9 DEF HistoryInv

\* A delivery in some phase moves on; its channel may have got the alert.
LEMMA DeliveryMoves ==
    ASSUME HistoryInv, NEW c \in Channels, delivery[c] # "none", NEW next \in Phases \ {"none"},
           delivery' = [delivery EXCEPT ![c] = next],
           \/ received' = received
           \/ received' = [received EXCEPT ![alert] = @ \cup {c}],
           next = "ok" => received' = [received EXCEPT ![alert] = @ \cup {c}],
           UNCHANGED <<fired, queue, dispatcher, alert, entries, dirty, file, addressed, forgotten>>
    PROVE  HistoryInv'
<1>1. Numbered /\ UnderWay /\ ListsCredible
  BY DEF HistoryInv
<1>2. dispatcher = "delivering"
  BY <1>1 DEF UnderWay
<1>3. alert \in Alerts
  BY <1>1, <1>2, HistoryAssumption DEF Numbered, Alerts
<1>4. /\ received' \in [Alerts -> SUBSET Channels]
      /\ \A a \in Alerts : received[a] \subseteq received'[a]
      /\ next = "ok" => c \in received'[alert]
  BY <1>1, <1>3 DEF Numbered
<1>5. Numbered'
  BY <1>1, <1>4 DEF Numbered
<1>6. /\ delivery' \in [Channels -> Phases] /\ delivery'[c] = next
      /\ \A d \in Channels : d # c => delivery'[d] = delivery[d]
  BY <1>1 DEF UnderWay
<1>7. {d \in Channels : delivery'[d] # "none"} = {d \in Channels : delivery[d] # "none"}
  BY <1>6
<1>8. \A d \in Channels : delivery'[d] = "ok" => d \in received'[alert]
  BY <1>1, <1>2, <1>3, <1>4, <1>6 DEF UnderWay
<1>9. UnderWay'
  BY <1>1, <1>2, <1>6, <1>7, <1>8 DEF UnderWay
<1>10. ASSUME NEW e, Credible(e) PROVE Credible(e)'
  <2>1. e.id \in Alerts
    BY <1>1, <1>10, HistoryAssumption DEF Credible, Numbered, Alerts
  <2> QED
    BY <1>4, <1>10, <2>1 DEF Credible
<1>11. ListsCredible'
  BY <1>1, <1>10 DEF ListsCredible, Told
<1> QED
  BY <1>5, <1>9, <1>11 DEF HistoryInv

LEMMA AttemptSound == HistoryInv /\ Attempt => HistoryInv'
<1> SUFFICES ASSUME HistoryInv, Attempt PROVE HistoryInv'
  OBVIOUS
<1>1. PICK c \in Channels, arrives \in BOOLEAN, answer \in {"ok", "refused", "retryable"} :
      /\ delivery[c] \in {"first", "second"} /\ (answer = "ok" => arrives)
      /\ received' = IF arrives THEN [received EXCEPT ![alert] = @ \cup {c}] ELSE received
      /\ delivery' = [delivery EXCEPT ![c] = CASE answer = "ok" -> "ok"
                         [] answer = "refused" -> "failed"
                         [] answer = "retryable" -> IF @ = "first" THEN "pausing" ELSE "failed"]
      /\ UNCHANGED <<loop, environment, dispatcher, alert, budget, entries, disk, flusher,
                     clearing, addressed, forgotten>>
  BY Zenon DEF Attempt
<1>2. UNCHANGED <<fired, queue, dispatcher, alert, entries, dirty, file, addressed, forgotten>>
  BY <1>1, Zenon DEF loop, disk
<1>3. PICK next \in Phases \ {"none"} :
      delivery' = [delivery EXCEPT ![c] = next] /\ (next = "ok" => answer = "ok")
  <2>1. CASE answer = "ok"
    <3>1. delivery' = [delivery EXCEPT ![c] = "ok"]
      BY <1>1, <2>1
    <3> QED
      BY <2>1, <3>1 DEF Phases
  <2>2. CASE answer = "refused"
    <3>1. delivery' = [delivery EXCEPT ![c] = "failed"]
      BY <1>1, <2>2
    <3>2. "failed" \in Phases \ {"none"} /\ "failed" # "ok"
      BY DEF Phases
    <3> QED
      BY <3>1, <3>2, Zenon
  <2>3. CASE answer = "retryable"
    <3>1. delivery' = [delivery EXCEPT ![c] = IF @ = "first" THEN "pausing" ELSE "failed"]
      BY <1>1, <2>3
    <3>2. PICK next \in {"pausing", "failed"} :
          next = IF delivery[c] = "first" THEN "pausing" ELSE "failed"
      OBVIOUS
    <3>3. delivery' = [delivery EXCEPT ![c] = next]
      BY <3>1, <3>2
    <3>4. next \in Phases \ {"none"} /\ next # "ok"
      BY <3>2 DEF Phases
    <3> QED
      BY <3>3, <3>4, Zenon
  <2> QED
    BY <2>1, <2>2, <2>3
<1>4. delivery[c] # "none"
  BY <1>1
<1> QED
  BY <1>1, <1>2, <1>3, <1>4, DeliveryMoves

LEMMA RetrySound == HistoryInv /\ (RetryNow \/ GiveUp) => HistoryInv'
<1> SUFFICES ASSUME HistoryInv, RetryNow \/ GiveUp PROVE HistoryInv'
  OBVIOUS
<1>1. PICK c \in Channels, next \in {"second", "failed"} :
      /\ delivery[c] \in {"first", "pausing", "second"}
      /\ delivery' = [delivery EXCEPT ![c] = next]
      /\ UNCHANGED <<fired, queue, dispatcher, alert, entries, dirty, file, facts>>
  <2>1. CASE RetryNow
    BY <2>1, Zenon DEF RetryNow, loop, disk
  <2>2. CASE GiveUp
    BY <2>2, Zenon DEF GiveUp, loop, disk
  <2> QED
    BY <2>1, <2>2
<1>2. next \in Phases \ {"none"} /\ next # "ok" /\ delivery[c] # "none"
  BY <1>1 DEF Phases
<1>3. /\ received' = received
      /\ UNCHANGED <<fired, queue, dispatcher, alert, entries, dirty, file, addressed, forgotten>>
  BY <1>1, Zenon DEF facts
<1> QED
  BY <1>1, <1>2, <1>3, DeliveryMoves

\* The outcome is recorded where the entry still is; the ids stay as they are.
LEMMA SetDeliverySound == HistoryInv /\ SetDelivery => HistoryInv'
<1> SUFFICES ASSUME HistoryInv, SetDelivery PROVE HistoryInv'
  OBVIOUS
<1>1. /\ dispatcher = "delivering" /\ \A c \in Channels : delivery[c] \in Ended
      /\ entries' = SetById
      /\ dirty' = (dirty \/ alert \in Ids(entries))
      /\ dispatcher' = "waiting" /\ delivery' = Quiet
      /\ UNCHANGED <<fired, queue, alert, file, facts>>
  BY Zenon DEF SetDelivery, loop, WithOutcome
<1>2. Numbered /\ UnderWay /\ ListsCredible
  BY DEF HistoryInv
<1>3. Numbered'
  BY <1>1, <1>2 DEF Numbered, facts
<1>4. UnderWay'
  BY <1>1 DEF UnderWay, Quiet, Phases
<1>5. /\ Summary \in Outcomes /\ addressed[alert] # {}
      /\ Summary = "ok" => addressed[alert] \subseteq received[alert]
  <2>1. Summary = "ok" => \A c \in Channels : delivery[c] \in {"none", "ok"}
    BY DEF Summary, Succeeded, AllOk
  <2> QED
    BY <1>1, <1>2, <2>1 DEF UnderWay, Summary, Outcomes
<1>6. Len(entries) \in Nat /\ \A i \in 1 .. Len(entries) : entries[i] \in Entry /\ Credible(entries[i])
  BY <1>2, LenProperties, ElementOfSeq DEF ListsCredible, Told
<1>7. ASSUME NEW e \in Entry, Credible(e)
      PROVE  Credible(e)'
  BY <1>1, <1>7 DEF Credible, facts
<1>8. ASSUME NEW e \in Entry, Credible(e), e.id = alert, NEW d, d = [e EXCEPT !.outcome = Summary]
      PROVE  d \in Entry /\ Credible(d)'
  <2>1. d \in Entry /\ d.id = e.id /\ d.outcome = Summary
    BY <1>5, <1>8 DEF Entry
  <2> QED
    BY <1>1, <1>5, <1>8, <2>1 DEF Credible, facts
<1>9. ASSUME NEW i \in 1 .. Len(entries)
      PROVE  SetById[i] \in Entry /\ \A d : d = SetById[i] => Credible(d)'
  <2>1. entries[i].id = alert => SetById[i] = [entries[i] EXCEPT !.outcome = Summary]
    BY DEF SetById
  <2>2. entries[i].id # alert => SetById[i] = entries[i]
    BY DEF SetById
  <2> HIDE DEF SetById
  <2>3. CASE entries[i].id = alert
    BY <1>6, <1>8, <2>1, <2>3
  <2>4. CASE entries[i].id # alert
    BY <1>6, <1>7, <2>2, <2>4
  <2> QED
    BY <2>3, <2>4
<1>10. SetById \in Seq(Entry) /\ Len(SetById) = Len(entries)
  <2>1. SetById = [i \in 1 .. Len(entries) |-> SetById[i]]
    BY DEF SetById
  <2> HIDE DEF SetById
  <2>2. SetById \in [1 .. Len(entries) -> Entry]
    BY <1>9, <2>1
  <2> QED
    BY <1>6, <2>2
<1>11. ListsCredible'
  <2>1. \A d \in Told(entries') : Credible(d)'
    BY <1>1, <1>9, <1>10, Zenon DEF Told
  <2>2. \A d \in Told(file') : Credible(d)'
    <3>1. \A i \in 1 .. Len(file) : file[i] \in Entry /\ Credible(file[i])
      BY <1>2, ElementOfSeq DEF ListsCredible, Told
    <3> QED
      BY <1>1, <1>7, <3>1 DEF Told
  <2>3. ~dirty' => file' = entries'
    <3>1. ASSUME ~dirty' PROVE file' = entries'
      <4>1. ~dirty /\ \A i \in 1 .. Len(entries) : entries[i].id # alert
        BY <1>1, <3>1 DEF Ids
      <4>2. SetById = [i \in 1 .. Len(entries) |-> entries[i]]
        BY <4>1 DEF SetById
      <4>3. SetById = entries
        BY <1>2, <4>2 DEF ListsCredible
      <4> QED
        BY <1>1, <1>2, <4>1, <4>3 DEF ListsCredible
    <3> QED
      BY <3>1
  <2> QED
    BY <1>1, <1>2, <1>10, <2>1, <2>2, <2>3 DEF ListsCredible
<1> QED
  BY <1>3, <1>4, <1>11 DEF HistoryInv

LEMMA DispatchEndsSound == HistoryInv /\ DispatchEnds => HistoryInv'
<1> SUFFICES ASSUME HistoryInv, DispatchEnds PROVE HistoryInv'
  OBVIOUS
<1>1. /\ dispatcher = "waiting" /\ dispatcher' = "done"
      /\ UNCHANGED <<fired, queue, alert, delivery, entries, dirty, file, addressed, received,
                     forgotten>>
  BY Zenon DEF DispatchEnds, loop, disk, facts
<1>2. Numbered'
  BY <1>1 DEF HistoryInv, Numbered
<1>3. UnderWay'
  BY <1>1 DEF HistoryInv, UnderWay
<1>4. ListsCredible'
  BY <1>1 DEF HistoryInv, ListsCredible, Credible, Told
<1> QED
  BY <1>2, <1>3, <1>4 DEF HistoryInv

\* A write takes the list as it is; what ClearHistory forgets is in neither.
LEMMA WriteSound ==
    ASSUME HistoryInv, FlushIfDirty, entries' = entries,
           \/ forgotten' = forgotten
           \/ ~dirty' /\ forgotten' = forgotten \cup (1 .. alert \ Ids(entries)),
           UNCHANGED <<fired, queue, dispatcher, alert, delivery, addressed, received>>
    PROVE  HistoryInv'
<1>1. Numbered /\ UnderWay /\ ListsCredible
  BY DEF HistoryInv
<1>2. Numbered'
  BY <1>1 DEF Numbered
<1>3. UnderWay'
  BY <1>1 DEF UnderWay
<1>4. (~dirty' => file' = entries) /\ file' \in {file, entries}
  BY <1>1 DEF FlushIfDirty, disk, ListsCredible
<1>5. file' \in Seq(Entry) /\ Len(file') <= Cap
  BY <1>1, <1>4 DEF ListsCredible
<1>6. ASSUME NEW e, Credible(e), forgotten' = forgotten \/ e.id \in Ids(entries) PROVE Credible(e)'
  BY <1>6 DEF Credible
<1>7. \A e \in Told(entries) : e.id \in Ids(entries)
  BY DEF Told, Ids
<1>8. ListsCredible'
  <2>1. \A e \in Told(entries') : Credible(e)'
    BY <1>1, <1>6, <1>7 DEF ListsCredible
  <2>2. \A e \in Told(file') : Credible(e)'
    BY <1>1, <1>4, <1>6, <1>7 DEF ListsCredible
  <2> QED
    BY <1>1, <1>4, <1>5, <2>1, <2>2 DEF ListsCredible
<1> QED
  BY <1>2, <1>3, <1>8 DEF HistoryInv

LEMMA FlushSound == HistoryInv /\ (Flush \/ FlushLast \/ ClearWritten) => HistoryInv'
<1> SUFFICES ASSUME HistoryInv, Flush \/ FlushLast \/ ClearWritten PROVE HistoryInv'
  OBVIOUS
<1>1. /\ FlushIfDirty /\ entries' = entries
      /\ UNCHANGED <<fired, queue, dispatcher, alert, delivery, addressed, received>>
  BY Zenon DEF Flush, FlushLast, ClearWritten, loop, facts
<1>2. \/ forgotten' = forgotten
      \/ ~dirty' /\ forgotten' = forgotten \cup (1 .. alert \ Ids(entries))
  BY DEF Flush, FlushLast, ClearWritten, facts
<1> QED
  BY <1>1, <1>2, WriteSound

LEMMA ClearSound == HistoryInv /\ Clear => HistoryInv'
<1> SUFFICES ASSUME HistoryInv, Clear PROVE HistoryInv'
  OBVIOUS
<1>1. /\ entries' = <<>> /\ dirty' = TRUE
      /\ UNCHANGED <<fired, queue, dispatcher, alert, delivery, file, addressed, received,
                     forgotten>>
  BY Zenon DEF Clear, loop, facts
<1>2. Numbered'
  BY <1>1 DEF HistoryInv, Numbered
<1>3. UnderWay'
  BY <1>1 DEF HistoryInv, UnderWay
<1>4. ListsCredible'
  <2>1. ASSUME NEW e, Credible(e) PROVE Credible(e)'
    BY <1>1, <2>1 DEF Credible
  <2>2. \A e \in Told(file') : Credible(e)'
    BY <1>1, <2>1 DEF HistoryInv, ListsCredible
  <2>3. entries' \in Seq(Entry) /\ Len(entries') <= Cap /\ Told(entries') = {}
    BY <1>1, NothingTold, HistoryAssumption
  <2> QED
    BY <1>1, <2>2, <2>3 DEF HistoryInv, ListsCredible
<1> QED
  BY <1>2, <1>3, <1>4 DEF HistoryInv

\* The file is within the bound, so the list is what the file says.
LEMMA CrashSound == HistoryInv /\ Crash => HistoryInv'
<1> SUFFICES ASSUME HistoryInv, Crash PROVE HistoryInv'
  OBVIOUS
<1>1. /\ queue' = <<>> /\ dispatcher' = "waiting" /\ delivery' = Quiet
      /\ entries' = Bounded(file) /\ dirty' = FALSE
      /\ UNCHANGED <<fired, alert, file, addressed, received, forgotten>>
  BY Zenon DEF Crash, facts
<1>2. Numbered /\ UnderWay /\ ListsCredible
  BY DEF HistoryInv
<1>3. entries' = file
  BY <1>1, <1>2, BoundedIsPart DEF ListsCredible
<1>4. Numbered'
  BY <1>1, <1>2 DEF Numbered
<1>5. UnderWay'
  BY <1>1 DEF UnderWay, Quiet, Phases
<1>6. ListsCredible'
  BY <1>1, <1>2, <1>3 DEF ListsCredible, Credible, Told
<1> QED
  BY <1>4, <1>5, <1>6 DEF HistoryInv

LEMMA StepSound == HistoryInv /\ [AlertHistoryNext]_ahVars => HistoryInv'
<1> SUFFICES ASSUME HistoryInv, [AlertHistoryNext]_ahVars PROVE HistoryInv'
  OBVIOUS
<1>1. CASE Emit
  BY <1>1, EmitSound
<1>2. CASE DispatchStep
  BY <1>2, TakeSound, DeliverSound, AttemptSound, RetrySound, SetDeliverySound, DispatchEndsSound
     DEF DispatchStep
<1>3. CASE Flush \/ FlushLast \/ ClearWritten
  BY <1>3, FlushSound
<1>4. CASE Clear
  BY <1>4, ClearSound
<1>5. CASE Crash
  BY <1>5, CrashSound
<1>6. CASE Stop \/ ShutdownRun \/ BudgetEnds \/ Exit \/ UNCHANGED ahVars
  <2>1. UNCHANGED spoken
    BY <1>6, Zenon DEF Stop, ShutdownRun, BudgetEnds, Exit, ahVars, loop, disk, facts, spoken
  <2> QED
    BY <2>1, QuietSound
<1> QED
  BY <1>1, <1>2, <1>3, <1>4, <1>5, <1>6 DEF AlertHistoryNext

LEMMA HistorySoundFollows == HistoryInv => HistorySound
<1> SUFFICES ASSUME HistoryInv PROVE OutcomesTrue /\ ClearedStaysCleared
  BY DEF HistorySound
<1>1. /\ \A i \in 1 .. Len(entries) : Credible(entries[i])
      /\ \A i \in 1 .. Len(file) : Credible(file[i])
  BY DEF HistoryInv, ListsCredible, Told
<1>2. OutcomesTrue
  BY <1>1 DEF OutcomesTrue, Credible
<1>3. ClearedStaysCleared
  BY <1>1 DEF ClearedStaysCleared, Ids, Credible
<1> QED
  BY <1>2, <1>3

\* The history can be believed (alerts/history.go, engine.go, notify.go): an entry
\* says "ok" only if every channel its alert was to be delivered to has got it, and
\* what was cleared, and written as cleared, is in the list and in the file no more;
\* for every number of alerts and channels, over evictions, failed writes, clearings
\* in the middle of a delivery, and restarts from the file.
THEOREM HistoryIsSound == AlertHistorySpec => []HistorySound
<1>1. AlertHistoryInit => HistoryInv
  BY InitSound
<1>2. HistoryInv /\ [AlertHistoryNext]_ahVars => HistoryInv'
  BY StepSound
<1>3. HistoryInv => HistorySound
  BY HistorySoundFollows
<1> QED
  BY <1>1, <1>2, <1>3, PTL DEF AlertHistorySpec

-----------------------------------------------------------------------------
(* The pages of stored logs *)

Rows == [gen : Generations, ts : 1 .. LastTs, id : Nat, kind : Kinds]
Entries == Seq(Seq(Rows))
Points == [ts : Int, id : Nat]

\* A position or a row has a place in the keyset order.
Ordered(p) == p.ts \in Int /\ p.id \in Int
\* A number belongs to one row.
RowsAreTold(S) == S \in SUBSET Rows /\ \A r, s \in S : r.id = s.id => r = s
Listed(s) == {s[i] : i \in DOMAIN s}
NewestAhead(s) == \A i, j \in DOMAIN s : i < j => OlderThan(s[j], s[i])
AllOlder(S, T) == \A r \in S, t \in T : OlderThan(r, t)
RowsIn(E) == UNION {Listed(E[e]) : e \in DOMAIN E}
\* Entries oldest first, and in each of them the rows oldest first.
InOrder(E) ==
    /\ \A e \in DOMAIN E : E[e] # <<>>
    /\ \A e, f \in DOMAIN E : \A i \in DOMAIN E[e], j \in DOMAIN E[f] :
          e < f \/ (e = f /\ i < j) => OlderThan(E[e][i], E[f][j])

-----------------------------------------------------------------------------
\* A set of numbers has a least one: in place of induction, which takes the least
\* counterexample.
LEMMA LeastNumber ==
    ASSUME NEW T \in SUBSET Nat, T # {}
    PROVE  \E n \in T : \A m \in T : n <= m
<1>1. PICK x \in T : \A y \in T : ~(<<y, x>> \in OpToRel(<, Nat))
  BY NatLessThanWellFounded, WFMin, Zenon
<1>2. \A y \in T : x <= y
  <2> SUFFICES ASSUME NEW y \in T, y < x PROVE FALSE
    BY SMT
  <2>1. <<y, x>> \in OpToRel(<, Nat)
    BY SMT DEF OpToRel
  <2> QED
    BY <1>1, <2>1
<1> QED
  BY <1>2

LEMMA RowsOrdered == \A r \in Rows : Ordered(r)
  BY QueryAssumption, SMT DEF Rows, Ordered

\* (ts_ns, rowid) orders the rows, strictly and totally.
LEMMA OrderLaws ==
    ASSUME NEW a, NEW b, NEW c, Ordered(a), Ordered(b), Ordered(c)
    PROVE  /\ OlderThan(a, b) /\ OlderThan(b, c) => OlderThan(a, c)
           /\ OlderThan(a, b) /\ ~OlderThan(c, b) => OlderThan(a, c)
           /\ ~OlderThan(a, a)
           /\ OlderThan(a, b) => ~OlderThan(b, a)
           /\ a.id # b.id /\ ~OlderThan(a, b) => OlderThan(b, a)
  BY SMT DEF Ordered, OlderThan

\* N rows of different ranks from 1 to N take every rank.
LEMMA EveryRankIsTaken ==
    ASSUME NEW S, NEW N \in Nat, IsFiniteSet(S), Cardinality(S) = N,
           NEW rank \in [S -> 1 .. N], \A r, t \in S : rank[r] = rank[t] => r = t,
           NEW k \in 1 .. N
    PROVE  \E r \in S : rank[r] = k
<1> SUFFICES ASSUME \A r \in S : rank[r] # k PROVE FALSE
  OBVIOUS
<1> DEFINE T == (1 .. N) \ {k}
<1>1. rank \in [S -> T]
  OBVIOUS
<1>2. IsFiniteSet(1 .. N) /\ Cardinality(1 .. N) = N
  <2>1. IsFiniteSet(1 .. N) /\ Cardinality(1 .. N) = IF 1 > N THEN 0 ELSE N - 1 + 1
    BY FS_Interval, 1 \in Int, N \in Int
  <2> QED
    BY <2>1
<1>3. IsFiniteSet(T) /\ Cardinality(T) = N - 1
  BY <1>2, FS_RemoveElement
<1>4. Cardinality(S) > Cardinality(T)
  BY <1>3
<1>5. \E x, y \in S : x # y /\ rank[x] = rank[y]
  <2> HIDE DEF T
  <2> QED
    BY <1>1, <1>3, <1>4, FS_PigeonHole
<1> QED
  BY <1>5

\* The rank of a row is how many are newer, so the list holds every row, newest
\* ahead.
LEMMA NewestFirstSound ==
    ASSUME NEW S, RowsAreTold(S), IsFiniteSet(S)
    PROVE  /\ NewestFirst(S) \in Seq(Rows) /\ Len(NewestFirst(S)) = Cardinality(S)
           /\ Cardinality(S) \in Nat
           /\ Listed(NewestFirst(S)) = S
           /\ NewestAhead(NewestFirst(S))
<1> DEFINE N == Cardinality(S)
           newer(r) == {s \in S : OlderThan(r, s)}
           above == [r \in S |-> Cardinality(newer(r))]
           rank == [r \in S |-> above[r] + 1]
           s == NewestFirst(S)
<1>1. N \in Nat
  BY FS_CardinalityType
<1>2. \A r \in S : Ordered(r)
  BY RowsOrdered DEF RowsAreTold
<1>3. ASSUME NEW r \in S
      PROVE  IsFiniteSet(newer(r)) /\ Cardinality(newer(r)) \in 0 .. N - 1
  <2>1. newer(r) \in SUBSET S /\ r \notin newer(r)
    BY <1>2, OrderLaws
  <2>2. IsFiniteSet(newer(r)) /\ Cardinality(newer(r)) <= N /\ (N = Cardinality(newer(r)) => S = newer(r))
    BY <2>1, FS_Subset, Zenon
  <2>3. Cardinality(newer(r)) \in Nat
    BY <2>2, FS_CardinalityType
  <2>4. N # Cardinality(newer(r))
    BY <2>1, <2>2
  <2> HIDE DEF newer, N
  <2> QED
    BY <2>2, <2>3, <2>4, <1>1
<1>4. ASSUME NEW r \in S, NEW t \in S, OlderThan(r, t)
      PROVE  Cardinality(newer(t)) < Cardinality(newer(r))
  <2>1. newer(t) \in SUBSET newer(r) /\ t \in newer(r) /\ t \notin newer(t)
    BY <1>2, <1>4, OrderLaws
  <2>2. Cardinality(newer(t)) <= Cardinality(newer(r))
        /\ (Cardinality(newer(r)) = Cardinality(newer(t)) => newer(r) = newer(t))
    BY <2>1, <1>3, FS_Subset, Zenon
  <2>3. Cardinality(newer(t)) \in 0 .. N - 1 /\ Cardinality(newer(r)) \in 0 .. N - 1
    BY <1>3
  <2>4. Cardinality(newer(r)) # Cardinality(newer(t))
    BY <2>1, <2>2
  <2> HIDE DEF newer, N
  <2> QED
    BY <2>2, <2>3, <2>4, <1>1
<1>5. \A r, t \in S : r # t => OlderThan(r, t) \/ OlderThan(t, r)
  BY <1>2, OrderLaws DEF RowsAreTold
<1>6. \A r \in S : above[r] = Cardinality(newer(r)) /\ above[r] \in 0 .. N - 1
  BY <1>3
<1>7. \A r, t \in S : OlderThan(r, t) => above[t] < above[r]
  BY <1>4
<1>8. s = [i \in 1 .. N |-> CHOOSE r \in S : Cardinality(newer(r)) = i - 1]
  BY DEF NewestFirst
<1> HIDE DEF s, N, above, newer
<1>9. \A r \in S : rank[r] = above[r] + 1 /\ rank[r] \in 1 .. N
  BY <1>6, <1>1
<1>10. rank \in [S -> 1 .. N]
  BY <1>9
<1> HIDE DEF rank
<1>11. \A r, t \in S : rank[r] = rank[t] => r = t
  BY <1>5, <1>6, <1>7, <1>9, <1>1
<1>12. \A k \in 1 .. N : \E r \in S : rank[r] = k
  BY <1>1, <1>10, <1>11, EveryRankIsTaken DEF N
<1>13. ASSUME NEW i \in 1 .. N PROVE s[i] \in S /\ rank[s[i]] = i
  <2>1. PICK r \in S : rank[r] = i
    BY <1>12
  <2>2. Cardinality(newer(r)) = i - 1
    BY <2>1, <1>6, <1>9, <1>1
  <2>3. s[i] = CHOOSE t \in S : Cardinality(newer(t)) = i - 1
    BY <1>8
  <2>4. s[i] \in S /\ Cardinality(newer(s[i])) = i - 1
    BY <2>2, <2>3
  <2> QED
    BY <2>4, <1>1, <1>6, <1>9
<1>14. s \in [1 .. N -> S]
  BY <1>8, <1>13
<1>15. s \in Seq(S) /\ Len(s) = N /\ DOMAIN s = 1 .. N
  BY <1>14, <1>1
<1>16. Listed(s) = S
  BY <1>15, <1>13, <1>11, <1>9 DEF Listed
<1>17. NewestAhead(s)
  <2> SUFFICES ASSUME NEW i \in 1 .. N, NEW j \in 1 .. N, i < j PROVE OlderThan(s[j], s[i])
    BY <1>15 DEF NewestAhead
  <2>1. /\ s[i] \in S /\ s[j] \in S /\ above[s[i]] + 1 = i /\ above[s[j]] + 1 = j
        /\ above[s[i]] \in 0 .. N - 1 /\ above[s[j]] \in 0 .. N - 1
    BY <1>13, <1>9, <1>6
  <2>2. above[s[i]] < above[s[j]]
    BY <2>1, <1>1
  <2> QED
    BY <2>1, <2>2, <1>1, <1>5, <1>7
<1>18. s \in Seq(Rows)
  BY <1>15 DEF RowsAreTold
<1> QED
  BY <1>1, <1>15, <1>16, <1>17, <1>18 DEF s, N

-----------------------------------------------------------------------------
\* A chunk: the newest rows in the scope of the scan, all of it when it is short.
LEMMA ChunkHoldsRows == Chunk \in Nat /\ Chunk > 1
  BY QueryAssumption, SMT DEF Chunk

InScope == {r \in lines : r.gen \in refs /\ r.ts >= query.since /\ OlderThan(r, from)}

LEMMA ScanRowsSound ==
    ASSUME RowsAreTold(lines), IsFiniteSet(lines)
    PROVE  /\ ScanRows \in Seq(Rows) /\ NewestAhead(ScanRows)
           /\ Listed(ScanRows) \subseteq InScope
           /\ Len(ScanRows) < Chunk => Listed(ScanRows) = InScope
           /\ Len(ScanRows) >= Chunk =>
                 \A r \in InScope \ Listed(ScanRows) : OlderThan(r, Last(ScanRows))
<1> DEFINE s == NewestFirst(InScope)
           n == IF Len(s) < Chunk THEN Len(s) ELSE Chunk
<1>1. RowsAreTold(InScope) /\ IsFiniteSet(InScope)
  <2>1. InScope \in SUBSET lines
    BY DEF InScope
  <2>2. IsFiniteSet(InScope)
    BY <2>1, FS_Subset
  <2> QED
    BY <2>1, <2>2 DEF RowsAreTold
<1>2. s \in Seq(Rows) /\ Listed(s) = InScope /\ NewestAhead(s)
  BY <1>1, NewestFirstSound
<1>3. ScanRows = SubSeq(s, 1, n)
  BY DEF ScanRows, InScope, Older
<1> HIDE DEF s
<1>0. Len(s) \in Nat /\ DOMAIN s = 1 .. Len(s)
  BY <1>2
<1>4. n \in 0 .. Len(s) /\ Len(s) \in Nat /\ DOMAIN s = 1 .. Len(s) /\ n <= Chunk
  BY <1>0, ChunkHoldsRows
<1>5. n < Chunk => n = Len(s)
  <2>1. CASE Len(s) < Chunk
    BY <2>1
  <2>2. CASE ~(Len(s) < Chunk)
    <3>1. n = Chunk
      BY <2>2
    <3> QED
      BY <3>1, ChunkHoldsRows
  <2> QED
    BY <2>1, <2>2
<1> HIDE DEF n
<1> DEFINE t == ScanRows
<1>6. t \in Seq(Rows) /\ Len(t) = n /\ DOMAIN t = 1 .. n /\ \A i \in 1 .. n : t[i] = s[i]
  BY <1>2, <1>3, <1>4
<1> HIDE DEF t
<1>7. NewestAhead(t)
  BY <1>2, <1>4, <1>6 DEF NewestAhead
<1>8. Listed(t) \subseteq InScope
  BY <1>2, <1>4, <1>6 DEF Listed
<1>9. Len(t) < Chunk => Listed(t) = InScope
  BY <1>2, <1>4, <1>5, <1>6 DEF Listed
<1>10. ASSUME Len(t) >= Chunk, NEW r \in InScope \ Listed(t) PROVE OlderThan(r, Last(t))
  <2>1. PICK i \in 1 .. Len(s) : r = s[i]
    BY <1>2, <1>4 DEF Listed
  <2>2. i \notin 1 .. n
    BY <1>6, <1>10, <2>1 DEF Listed
  <2>3. n > 0 /\ n \in 1 .. Len(s) /\ i > n
    BY <1>4, <1>6, <1>10, <2>2, ChunkHoldsRows
  <2>4. OlderThan(s[i], s[n])
    BY <1>2, <1>4, <2>3 DEF NewestAhead
  <2>5. Last(t) = s[n]
    BY <1>6, <2>3 DEF Last
  <2> QED
    BY <2>1, <2>4, <2>5
<1> QED
  BY <1>6, <1>7, <1>8, <1>9, <1>10 DEF t

\* F has the rows of E where they were, and r at the end of its last entry.
OneMore(E, F, r) ==
    LET last == F[Len(F)] IN
    /\ Len(F) \in {Len(E), Len(E) + 1} /\ Len(F) > 0 /\ Len(last) > 0 /\ last[Len(last)] = r
    /\ \A e \in 1 .. Len(F) : \A i \in 1 .. Len(F[e]) :
          \/ e = Len(F) /\ i = Len(last)
          \/ e \in 1 .. Len(E) /\ i \in 1 .. Len(E[e]) /\ F[e][i] = E[e][i]
    /\ \A e \in 1 .. Len(E) : Len(F[e]) >= Len(E[e])
    /\ \A e \in 1 .. Len(E) : \A i \in 1 .. Len(E[e]) : F[e][i] = E[e][i]

LEMMA EntryLengths ==
    ASSUME NEW E \in Entries
    PROVE  /\ DOMAIN E = 1 .. Len(E) /\ Len(E) \in Nat
           /\ \A e \in 1 .. Len(E) : DOMAIN E[e] = 1 .. Len(E[e]) /\ Len(E[e]) \in Nat
<1>1. DOMAIN E = 1 .. Len(E) /\ Len(E) \in Nat /\ \A e \in 1 .. Len(E) : E[e] \in Seq(Rows)
  BY DEF Entries
<1> QED
  BY <1>1

\* The order of the entries by their lengths, as the provers take it.
LEMMA OrderByLength ==
    ASSUME NEW E \in Entries
    PROVE  /\ RowsIn(E) = UNION {{E[e][i] : i \in 1 .. Len(E[e])} : e \in 1 .. Len(E)}
           /\ InOrder(E) <=>
                 /\ \A e \in 1 .. Len(E) : Len(E[e]) > 0
                 /\ \A e, f \in 1 .. Len(E) : \A i \in 1 .. Len(E[e]), j \in 1 .. Len(E[f]) :
                       e < f \/ (e = f /\ i < j) => OlderThan(E[e][i], E[f][j])
<1>1. /\ DOMAIN E = 1 .. Len(E)
      /\ \A e \in 1 .. Len(E) : DOMAIN E[e] = 1 .. Len(E[e])
  BY EntryLengths
<1>2. \A e \in 1 .. Len(E) : E[e] # <<>> <=> Len(E[e]) > 0
  <2> SUFFICES ASSUME NEW e \in 1 .. Len(E) PROVE E[e] # <<>> <=> Len(E[e]) > 0
    OBVIOUS
  <2>1. E[e] \in Seq(Rows)
    BY DEF Entries
  <2> QED
    BY <2>1
<1>3. RowsIn(E) = UNION {{E[e][i] : i \in 1 .. Len(E[e])} : e \in 1 .. Len(E)}
  BY <1>1 DEF RowsIn, Listed
<1> QED
  BY <1>1, <1>2, <1>3 DEF InOrder

\* One more row, newer than all others, at the end of the entries.
LEMMA OneMoreRow ==
    ASSUME NEW E \in Entries, NEW F \in Entries, NEW r, InOrder(E),
           AllOlder(RowsIn(E), {r}), OneMore(E, F, r)
    PROVE  InOrder(F) /\ RowsIn(F) = RowsIn(E) \cup {r}
<1> DEFINE m == Len(E)
           k == Len(F)
           n == Len(F[k])
<1>1. m \in Nat /\ k \in Nat /\ n \in Nat /\ n > 0 /\ k > 0 /\ k \in {m, m + 1} /\ F[k][n] = r
  BY EntryLengths DEF OneMore
<1>2. /\ \A e \in 1 .. m : Len(E[e]) \in Nat /\ Len(E[e]) > 0
      /\ \A e \in 1 .. k : Len(F[e]) \in Nat
  BY EntryLengths, OrderByLength
<1>3. \A e, f \in 1 .. m : \A i \in 1 .. Len(E[e]), j \in 1 .. Len(E[f]) :
          e < f \/ (e = f /\ i < j) => OlderThan(E[e][i], E[f][j])
  BY OrderByLength
<1>4. RowsIn(E) = UNION {{E[e][i] : i \in 1 .. Len(E[e])} : e \in 1 .. m}
  BY OrderByLength
<1>5. RowsIn(F) = UNION {{F[e][i] : i \in 1 .. Len(F[e])} : e \in 1 .. k}
  BY OrderByLength
<1>6. \A e \in 1 .. m : \A i \in 1 .. Len(E[e]) : OlderThan(E[e][i], r)
  BY <1>4 DEF AllOlder
<1>7. \A e \in 1 .. k : \A i \in 1 .. Len(F[e]) :
          \/ e = k /\ i = n
          \/ e \in 1 .. m /\ i \in 1 .. Len(E[e]) /\ F[e][i] = E[e][i]
  BY DEF OneMore
<1>8. \A e \in 1 .. m : Len(F[e]) >= Len(E[e])
  BY DEF OneMore
<1>9. \A e \in 1 .. m : \A i \in 1 .. Len(E[e]) : F[e][i] = E[e][i]
  BY DEF OneMore
<1> HIDE DEF m, k
<1>10. \A x \in RowsIn(F) : x \in RowsIn(E) \cup {r}
  <2> SUFFICES ASSUME NEW e \in 1 .. k, NEW i \in 1 .. Len(F[e]) PROVE F[e][i] \in RowsIn(E) \cup {r}
    BY <1>5
  <2>1. CASE e = k /\ i = n
    BY <2>1, <1>1
  <2>2. CASE e \in 1 .. m /\ i \in 1 .. Len(E[e]) /\ F[e][i] = E[e][i]
    BY <2>2, <1>4
  <2> QED
    BY <2>1, <2>2, <1>7
<1>11. \A e \in 1 .. m : \A i \in 1 .. Len(E[e]) : E[e][i] \in RowsIn(F)
  <2> SUFFICES ASSUME NEW e \in 1 .. m, NEW i \in 1 .. Len(E[e]) PROVE E[e][i] \in RowsIn(F)
    OBVIOUS
  <2>1. e \in 1 .. k /\ i \in 1 .. Len(F[e]) /\ F[e][i] = E[e][i]
    BY <1>1, <1>2, <1>8, <1>9
  <2> QED
    BY <2>1, <1>5
<1>12. r \in RowsIn(F)
  <2>1. k \in 1 .. k /\ n \in 1 .. Len(F[k]) /\ F[k][n] = r
    BY <1>1
  <2> QED
    BY <2>1, <1>5
<1>13. \A e \in 1 .. k : Len(F[e]) > 0
  <2> SUFFICES ASSUME NEW e \in 1 .. k PROVE Len(F[e]) > 0
    OBVIOUS
  <2>1. CASE e = k
    BY <2>1, <1>1
  <2>2. CASE e \in 1 .. m
    BY <2>2, <1>2, <1>8
  <2> QED
    BY <2>1, <2>2, <1>1
<1>14. ASSUME NEW e \in 1 .. k, NEW f \in 1 .. k, NEW i \in 1 .. Len(F[e]), NEW j \in 1 .. Len(F[f]),
              e < f \/ (e = f /\ i < j)
       PROVE  OlderThan(F[e][i], F[f][j])
  <2>1. ~(e = k /\ i = n)
    BY <1>14, <1>1, <1>2
  <2>2. e \in 1 .. m /\ i \in 1 .. Len(E[e]) /\ F[e][i] = E[e][i]
    BY <2>1, <1>7
  <2>3. CASE f = k /\ j = n
    BY <2>2, <2>3, <1>6, <1>1
  <2>4. CASE f \in 1 .. m /\ j \in 1 .. Len(E[f]) /\ F[f][j] = E[f][j]
    BY <2>2, <2>4, <1>3, <1>14
  <2> QED
    BY <2>3, <2>4, <1>7
<1>15. InOrder(F)
  BY <1>13, <1>14, OrderByLength DEF k
<1>16. RowsIn(F) = RowsIn(E) \cup {r}
  BY <1>4, <1>10, <1>11, <1>12
<1> QED
  BY <1>15, <1>16

\* A newer row continues the last entry or begins one; either way it is the last.
LEMMA FoldLineSound ==
    ASSUME NEW E \in Entries, InOrder(E), NEW r \in Rows, AllOlder(RowsIn(E), {r})
    PROVE  /\ FoldLine(r, E) \in Entries /\ InOrder(FoldLine(r, E)) /\ FoldLine(r, E) # <<>>
           /\ RowsIn(FoldLine(r, E)) = RowsIn(E) \cup {r}
<1> DEFINE F == FoldLine(r, E)
           m == Len(E)
<1>1. m \in Nat /\ \A e \in 1 .. m : E[e] \in Seq(Rows) /\ Len(E[e]) \in Nat
  BY EntryLengths DEF Entries
<1>2. F \in Entries /\ OneMore(E, F, r)
  <2>1. CASE E # <<>> /\ Continues(r, Last(E))
    <3>1. m \in 1 .. m /\ m > 0 /\ E[m] \in Seq(Rows) /\ Len(E[m]) \in Nat
      BY <1>1, <2>1 DEF Entries
    <3> DEFINE t == Append(E[m], r)
    <3>2. /\ t \in Seq(Rows) /\ Len(t) = Len(E[m]) + 1 /\ t[Len(E[m]) + 1] = r
          /\ \A i \in 1 .. Len(E[m]) : t[i] = E[m][i]
      BY <3>1
    <3>3. F = [E EXCEPT ![m] = t]
      BY <2>1 DEF FoldLine
    <3> HIDE DEF t, F
    <3>4. F \in Entries /\ Len(F) = m /\ F[m] = t /\ \A e \in 1 .. m : e # m => F[e] = E[e]
      BY <3>1, <3>2, <3>3 DEF Entries
    <3>5. \A e \in 1 .. m : Len(F[e]) >= Len(E[e])
      BY <3>1, <3>2, <3>4, <1>1
    <3>6. \A e \in 1 .. m : \A i \in 1 .. Len(E[e]) : F[e][i] = E[e][i]
      <4> SUFFICES ASSUME NEW e \in 1 .. m, NEW i \in 1 .. Len(E[e]) PROVE F[e][i] = E[e][i]
        OBVIOUS
      <4>1. CASE e = m
        BY <4>1, <3>2, <3>4
      <4>2. CASE e # m
        BY <4>2, <3>4
      <4> QED
        BY <4>1, <4>2
    <3>7. ASSUME NEW e \in 1 .. m, NEW i \in 1 .. Len(F[e])
          PROVE  \/ e = m /\ i = Len(t)
                 \/ e \in 1 .. m /\ i \in 1 .. Len(E[e]) /\ F[e][i] = E[e][i]
      <4>1. CASE e = m
        <5>1. i \in 1 .. Len(t)
          BY <4>1, <3>4, <3>7
        <5>2. i = Len(t) \/ i \in 1 .. Len(E[m])
          BY <5>1, <3>1, <3>2
        <5> QED
          BY <4>1, <5>2, <3>6
      <4>2. CASE e # m
        BY <4>2, <3>4
      <4> QED
        BY <4>1, <4>2
    <3> HIDE DEF m
    <3>8. m = Len(E) /\ Len(F) = m /\ F[Len(F)] = t /\ Len(t) > 0 /\ t[Len(t)] = r /\ m > 0
      BY <3>1, <3>2, <3>4 DEF m
    <3> QED
      BY <3>4, <3>5, <3>6, <3>7, <3>8 DEF OneMore
  <2>2. CASE ~(E # <<>> /\ Continues(r, Last(E)))
    <3>1. F = Append(E, <<r>>)
      BY <2>2 DEF FoldLine
    <3> DEFINE t == <<r>>
    <3>2. t \in Seq(Rows) /\ Len(t) = 1 /\ t[1] = r
      OBVIOUS
    <3> HIDE DEF F, t
    <3>3. F \in Entries /\ Len(F) = m + 1 /\ F[m + 1] = t /\ \A e \in 1 .. m : F[e] = E[e]
      BY <3>1, <3>2, <1>1 DEF Entries, t
    <3>4. \A e \in 1 .. m : Len(F[e]) >= Len(E[e])
      BY <3>3, <1>1
    <3>5. \A e \in 1 .. m : \A i \in 1 .. Len(E[e]) : F[e][i] = E[e][i]
      BY <3>3
    <3>6. ASSUME NEW e \in 1 .. m + 1, NEW i \in 1 .. Len(F[e])
          PROVE  \/ e = m + 1 /\ i = Len(t)
                 \/ e \in 1 .. m /\ i \in 1 .. Len(E[e]) /\ F[e][i] = E[e][i]
      <4>1. CASE e = m + 1
        <5>1. i \in 1 .. 1
          BY <4>1, <3>2, <3>3, <3>6
        <5> QED
          BY <4>1, <5>1, <3>2
      <4>2. CASE e # m + 1
        <5>1. e \in 1 .. m
          BY <4>2, <1>1
        <5> QED
          BY <5>1, <3>3
      <4> QED
        BY <4>1, <4>2
    <3> HIDE DEF m
    <3>7. m = Len(E) /\ Len(F) = m + 1 /\ F[Len(F)] = t /\ Len(t) > 0 /\ t[Len(t)] = r /\ m + 1 > 0
      BY <3>2, <3>3, <1>1 DEF m
    <3> QED
      BY <3>3, <3>4, <3>5, <3>6, <3>7 DEF OneMore
  <2> QED
    BY <2>1, <2>2
<1> HIDE DEF F
<1>3. InOrder(F) /\ RowsIn(F) = RowsIn(E) \cup {r}
  BY <1>2, OneMoreRow
<1>4. F # <<>>
  <2>1. Len(F) > 0
    BY <1>2 DEF OneMore
  <2> QED
    BY <2>1
<1> QED
  BY <1>2, <1>3, <1>4 DEF F

\* The recursion of GroupRows has a solution.
Grouping(rows, n, f) ==
    f = [k \in 0 .. n |->
            IF k = 0 THEN <<>> ELSE FoldLine(rows[Len(rows) + 1 - k], f[k - 1])]

\* The recursion of GroupRows has a solution for every number of steps, and
\* GroupRows is one: by the least number of steps without.
LEMMA GroupingExists ==
    ASSUME NEW rows PROVE \A n \in Nat : \E f : Grouping(rows, n, f)
<1> DEFINE T == {n \in Nat : ~\E f : Grouping(rows, n, f)}
<1> SUFFICES ASSUME T # {} PROVE FALSE
  OBVIOUS
<1>1. PICK n \in T : \A m \in T : n <= m
  BY LeastNumber
<1>2. CASE n = 0
  <2> DEFINE g == [k \in 0 .. 0 |-> <<>>]
  <2>1. Grouping(rows, 0, g)
    BY DEF Grouping
  <2> QED
    BY <1>1, <1>2, <2>1
<1>3. CASE n # 0
  <2>1. n - 1 \in Nat /\ n - 1 \notin T
    BY <1>1, <1>3
  <2>2. PICK f : Grouping(rows, n - 1, f)
    BY <2>1
  <2> DEFINE g == [k \in 0 .. n |->
                      IF k = n THEN FoldLine(rows[Len(rows) + 1 - n], f[n - 1]) ELSE f[k]]
  <2>3. \A k \in 0 .. n - 1 : f[k] = IF k = 0 THEN <<>> ELSE FoldLine(rows[Len(rows) + 1 - k], f[k - 1])
    BY <2>2 DEF Grouping
  <2>4. ASSUME NEW k \in 0 .. n
        PROVE  g[k] = IF k = 0 THEN <<>> ELSE FoldLine(rows[Len(rows) + 1 - k], g[k - 1])
    <3>1. n \in Nat /\ n > 0
      BY <1>1, <1>3
    <3>2. CASE k = n
      <4>1. g[k - 1] = f[n - 1]
        BY <3>1, <3>2
      <4> QED
        BY <3>1, <3>2, <4>1
    <3>3. CASE k # n
      <4>1. g[k] = f[k] /\ k \in 0 .. n - 1
        BY <3>1, <3>3
      <4>2. k # 0 => g[k - 1] = f[k - 1]
        BY <3>1, <3>3, <4>1
      <4> HIDE DEF g
      <4> QED
        BY <4>1, <4>2, <2>3
    <3> QED
      BY <3>2, <3>3
  <2>5. g = [k \in 0 .. n |-> g[k]]
    OBVIOUS
  <2> HIDE DEF g
  <2>6. Grouping(rows, n, g)
    BY <2>4, <2>5 DEF Grouping
  <2> QED
    BY <1>1, <2>6
<1> QED
  BY <1>2, <1>3

LEMMA GroupRowsUnfolds ==
    ASSUME NEW rows \in Seq(Rows)
    PROVE  \E f : Grouping(rows, Len(rows), f) /\ GroupRows(rows) = f[Len(rows)]
<1> DEFINE f == CHOOSE g : Grouping(rows, Len(rows), g)
<1>1. Len(rows) \in Nat
  OBVIOUS
<1>2. Grouping(rows, Len(rows), f)
  BY <1>1, GroupingExists
<1>3. GroupRows(rows) = f[Len(rows)]
  BY DEF GroupRows, Grouping
<1> QED
  BY <1>2, <1>3

\* Grouping keeps every row, in order.
LEMMA GroupRowsSound ==
    ASSUME NEW rows \in Seq(Rows), NewestAhead(rows)
    PROVE  /\ GroupRows(rows) \in Entries /\ InOrder(GroupRows(rows))
           /\ RowsIn(GroupRows(rows)) = Listed(rows)
           /\ rows # <<>> => GroupRows(rows) # <<>>
<1> DEFINE N == Len(rows)
           last(k) == {rows[i] : i \in N + 1 - k .. N}
<1>1. PICK f : Grouping(rows, N, f) /\ GroupRows(rows) = f[N]
  BY GroupRowsUnfolds
<1>2. \A k \in 0 .. N : f[k] = IF k = 0 THEN <<>> ELSE FoldLine(rows[N + 1 - k], f[k - 1])
  BY <1>1 DEF Grouping
<1>3. N \in Nat /\ DOMAIN rows = 1 .. N /\ \A i \in 1 .. N : rows[i] \in Rows
  OBVIOUS
<1> DEFINE P(k) == /\ f[k] \in Entries /\ InOrder(f[k]) /\ RowsIn(f[k]) = last(k)
                   /\ k # 0 => f[k] # <<>>
           T == {k \in 0 .. N : ~P(k)}
<1>4. T = {}
  <2> SUFFICES ASSUME T # {} PROVE FALSE
    OBVIOUS
  <2>1. PICK k \in T : \A m \in T : k <= m
    <3>1. T \in SUBSET Nat
      OBVIOUS
    <3> QED
      BY <3>1, LeastNumber
  <2>2. k \in 0 .. N /\ ~P(k)
    OBVIOUS
  <2>3. CASE k = 0
    <3>1. f[0] = <<>>
      BY <1>2, <1>3
    <3>2. <<>> \in Entries /\ InOrder(<<>>) /\ RowsIn(<<>>) = {}
      BY DEF Entries, InOrder, RowsIn
    <3>3. last(0) = {}
      BY <1>3
    <3> QED
      BY <2>2, <2>3, <3>1, <3>2, <3>3
  <2>4. CASE k # 0
    <3>1. k - 1 \in 0 .. N
      BY <2>2, <2>4, <1>3
    <3>2. k - 1 \notin T
      <4> HIDE DEF T, N
      <4> QED
        BY <2>1, <2>2, <3>1, <1>3
    <3>0. P(k - 1)
      BY <3>1, <3>2, Zenon
    <3> DEFINE r == rows[N + 1 - k]
    <3>3. f[k] = FoldLine(r, f[k - 1]) /\ r \in Rows
      BY <1>2, <1>3, <2>2, <2>4
    <3>4. last(k) = last(k - 1) \cup {r}
      BY <1>3, <2>2, <2>4
    <3>5. AllOlder(last(k - 1), {r})
      BY <1>3, <2>2, <2>4 DEF AllOlder, NewestAhead
    <3> HIDE DEF last, r, N
    <3>6. /\ FoldLine(r, f[k - 1]) \in Entries /\ InOrder(FoldLine(r, f[k - 1]))
          /\ FoldLine(r, f[k - 1]) # <<>>
          /\ RowsIn(FoldLine(r, f[k - 1])) = RowsIn(f[k - 1]) \cup {r}
      BY <3>0, <3>3, <3>5, FoldLineSound
    <3>7. P(k)
      BY <3>0, <3>3, <3>4, <3>6
    <3> QED
      BY <2>2, <3>7
  <2> QED
    BY <2>3, <2>4
<1>5. P(N)
  <2>1. N \in 0 .. N
    BY <1>3
  <2>2. N \notin T
    BY <1>4
  <2> QED
    BY <2>1, <2>2, Zenon
<1>6. last(N) = Listed(rows)
  BY <1>3 DEF Listed
<1>7. rows # <<>> => N # 0
  OBVIOUS
<1> QED
  BY <1>1, <1>5, <1>6, <1>7

-----------------------------------------------------------------------------
LEMMA RowsAreRows ==
    ASSUME NEW E \in Entries PROVE RowsIn(E) \subseteq Rows
<1>1. \A e \in 1 .. Len(E) : E[e] \in Seq(Rows)
  BY DEF Entries
<1>2. \A e \in 1 .. Len(E) : \A i \in 1 .. Len(E[e]) : E[e][i] \in Rows
  BY <1>1
<1> QED
  BY <1>2, OrderByLength

LEMMA ListedAreRows ==
    ASSUME NEW s \in Seq(Rows)
    PROVE  /\ Listed(s) = {s[i] : i \in 1 .. Len(s)} /\ Listed(s) \subseteq Rows
           /\ NewestAhead(s) <=> \A i, j \in 1 .. Len(s) : i < j => OlderThan(s[j], s[i])
  BY DEF Listed, NewestAhead

\* Older entries in front of newer ones.
LEMMA ConcatSound ==
    ASSUME NEW E \in Entries, NEW F \in Entries, InOrder(E), InOrder(F),
           AllOlder(RowsIn(E), RowsIn(F))
    PROVE  /\ E \o F \in Entries /\ InOrder(E \o F)
           /\ RowsIn(E \o F) = RowsIn(E) \cup RowsIn(F)
           /\ Len(E \o F) = Len(E) + Len(F)
<1> DEFINE G == E \o F
           m == Len(E)
           n == Len(F)
<1>1. m \in Nat /\ n \in Nat
  BY EntryLengths
<1>2. /\ G \in Entries /\ Len(G) = m + n
      /\ \A e \in 1 .. m : G[e] = E[e]
      /\ \A e \in 1 .. n : G[m + e] = F[e]
  BY DEF Entries
<1>3. /\ \A e \in 1 .. m : Len(E[e]) > 0
      /\ \A e \in 1 .. n : Len(F[e]) > 0
      /\ \A e, f \in 1 .. m : \A i \in 1 .. Len(E[e]), j \in 1 .. Len(E[f]) :
             e < f \/ (e = f /\ i < j) => OlderThan(E[e][i], E[f][j])
      /\ \A e, f \in 1 .. n : \A i \in 1 .. Len(F[e]), j \in 1 .. Len(F[f]) :
             e < f \/ (e = f /\ i < j) => OlderThan(F[e][i], F[f][j])
  BY OrderByLength
<1>4. /\ RowsIn(E) = UNION {{E[e][i] : i \in 1 .. Len(E[e])} : e \in 1 .. m}
      /\ RowsIn(F) = UNION {{F[e][i] : i \in 1 .. Len(F[e])} : e \in 1 .. n}
  BY OrderByLength
<1>5. \A e \in 1 .. m : \A i \in 1 .. Len(E[e]) : \A f \in 1 .. n : \A j \in 1 .. Len(F[f]) :
          OlderThan(E[e][i], F[f][j])
  BY <1>4 DEF AllOlder
<1> HIDE DEF G, m, n
<1>6. \A e \in 1 .. m + n : e \in 1 .. m \/ (e - m \in 1 .. n /\ G[e] = F[e - m])
  <2> SUFFICES ASSUME NEW e \in 1 .. m + n, e \notin 1 .. m PROVE e - m \in 1 .. n /\ G[e] = F[e - m]
    OBVIOUS
  <2>1. e - m \in 1 .. n /\ m + (e - m) = e
    BY <1>1
  <2> QED
    BY <2>1, <1>2
<1>7. RowsIn(G) = UNION {{G[e][i] : i \in 1 .. Len(G[e])} : e \in 1 .. m + n}
  BY <1>2, OrderByLength
<1>8. RowsIn(G) \subseteq RowsIn(E) \cup RowsIn(F)
  <2> SUFFICES ASSUME NEW e \in 1 .. m + n, NEW i \in 1 .. Len(G[e]) PROVE G[e][i] \in RowsIn(E) \cup RowsIn(F)
    BY <1>7
  <2>1. CASE e \in 1 .. m
    BY <2>1, <1>2, <1>4
  <2>2. CASE e - m \in 1 .. n /\ G[e] = F[e - m]
    BY <2>2, <1>4
  <2> QED
    BY <2>1, <2>2, <1>6
<1>9. RowsIn(E) \cup RowsIn(F) \subseteq RowsIn(G)
  <2>1. ASSUME NEW e \in 1 .. m, NEW i \in 1 .. Len(E[e]) PROVE E[e][i] \in RowsIn(G)
    <3>1. e \in 1 .. m + n /\ G[e] = E[e]
      BY <1>1, <1>2
    <3> QED
      BY <3>1, <1>7
  <2>2. ASSUME NEW e \in 1 .. n, NEW i \in 1 .. Len(F[e]) PROVE F[e][i] \in RowsIn(G)
    <3>1. m + e \in 1 .. m + n /\ G[m + e] = F[e]
      BY <1>1, <1>2
    <3> QED
      BY <3>1, <1>7
  <2> QED
    BY <2>1, <2>2, <1>4
<1>10. \A e \in 1 .. m + n : Len(G[e]) > 0
  <2> SUFFICES ASSUME NEW e \in 1 .. m + n PROVE Len(G[e]) > 0
    OBVIOUS
  <2>1. CASE e \in 1 .. m
    BY <2>1, <1>2, <1>3
  <2>2. CASE e - m \in 1 .. n /\ G[e] = F[e - m]
    BY <2>2, <1>3
  <2> QED
    BY <2>1, <2>2, <1>6
<1>11. ASSUME NEW e \in 1 .. m + n, NEW f \in 1 .. m + n, NEW i \in 1 .. Len(G[e]), NEW j \in 1 .. Len(G[f]),
              e < f \/ (e = f /\ i < j)
       PROVE  OlderThan(G[e][i], G[f][j])
  <2>1. CASE e \in 1 .. m /\ f \in 1 .. m
    BY <2>1, <1>2, <1>3, <1>11
  <2>2. CASE e \in 1 .. m /\ f - m \in 1 .. n /\ G[f] = F[f - m]
    BY <2>2, <1>2, <1>5
  <2>3. CASE e - m \in 1 .. n /\ G[e] = F[e - m] /\ f - m \in 1 .. n /\ G[f] = F[f - m]
    <3>1. e - m < f - m \/ (e - m = f - m /\ i < j)
      BY <1>11, <1>1
    <3> QED
      BY <2>3, <3>1, <1>3
  <2>4. CASE e \notin 1 .. m /\ f \in 1 .. m
    BY <2>4, <1>11, <1>1
  <2> QED
    BY <2>1, <2>2, <2>3, <2>4, <1>6
<1>12. InOrder(G)
  BY <1>2, <1>10, <1>11, OrderByLength
<1>13. RowsIn(G) = RowsIn(E) \cup RowsIn(F)
  BY <1>8, <1>9
<1> QED
  BY <1>2, <1>12, <1>13 DEF G, m, n

\* The entries from the one at n on.
LEMMA SuffixSound ==
    ASSUME NEW E \in Entries, InOrder(E), NEW n \in 1 .. Len(E)
    PROVE  LET G == SubSeq(E, n, Len(E)) IN
           /\ G \in Entries /\ InOrder(G) /\ Len(G) = Len(E) + 1 - n
           /\ E[n][1] \in RowsIn(E) /\ RowsIn(G) \subseteq RowsIn(E)
           /\ \A r \in RowsIn(G) : ~OlderThan(r, E[n][1])
           /\ \A r \in RowsIn(E) \ RowsIn(G) : OlderThan(r, E[n][1])
           /\ RowsIn(E) \ RowsIn(G) \subseteq UNION {Listed(E[e]) : e \in 1 .. n - 1}
           /\ \A e \in 1 .. n - 1 : AllOlder(Listed(E[e]), RowsIn(G))
<1> DEFINE G == SubSeq(E, n, Len(E))
           m == Len(E)
           k == m + 1 - n
<1>1. m \in Nat /\ n \in Nat /\ n > 0 /\ n <= m
  BY EntryLengths
<1>2. /\ G \in Entries /\ Len(G) = k
      /\ \A e \in 1 .. k : G[e] = E[e + n - 1]
  BY <1>1 DEF Entries
<1>3. /\ \A e \in 1 .. m : Len(E[e]) > 0 /\ Len(E[e]) \in Nat
      /\ \A e, f \in 1 .. m : \A i \in 1 .. Len(E[e]), j \in 1 .. Len(E[f]) :
             e < f \/ (e = f /\ i < j) => OlderThan(E[e][i], E[f][j])
  BY OrderByLength, EntryLengths
<1>4. /\ RowsIn(E) = UNION {{E[e][i] : i \in 1 .. Len(E[e])} : e \in 1 .. m}
      /\ RowsIn(G) = UNION {{G[e][i] : i \in 1 .. Len(G[e])} : e \in 1 .. k}
  BY <1>2, OrderByLength
<1>5. \A e \in 1 .. m : Listed(E[e]) = {E[e][i] : i \in 1 .. Len(E[e])}
  BY EntryLengths DEF Listed
<1> HIDE DEF G, m, k
<1>41. \A x : x \in RowsIn(E) <=> \E e \in 1 .. m : \E i \in 1 .. Len(E[e]) : x = E[e][i]
  BY <1>4
<1>42. \A x : x \in RowsIn(G) <=> \E e \in 1 .. k : \E i \in 1 .. Len(G[e]) : x = G[e][i]
  BY <1>4
<1>6. \A e \in 1 .. k : e + n - 1 \in 1 .. m /\ e + n - 1 >= n
  BY <1>1 DEF k
<1>7. \A e \in 1 .. m : e < n \/ (e + 1 - n \in 1 .. k /\ G[e + 1 - n] = E[e])
  <2> SUFFICES ASSUME NEW e \in 1 .. m, ~(e < n) PROVE e + 1 - n \in 1 .. k /\ G[e + 1 - n] = E[e]
    OBVIOUS
  <2>1. e + 1 - n \in 1 .. k /\ (e + 1 - n) + n - 1 = e
    BY <1>1 DEF k
  <2> QED
    BY <2>1, <1>2
<1>8. n \in 1 .. m /\ 1 \in 1 .. Len(E[n])
  BY <1>1, <1>3
<1>9. E[n][1] \in RowsIn(E)
  BY <1>4, <1>8
<1>10. ASSUME NEW e \in 1 .. k, NEW i \in 1 .. Len(G[e])
       PROVE  G[e][i] \in RowsIn(E) /\ ~OlderThan(G[e][i], E[n][1])
  <2>1. e + n - 1 \in 1 .. m /\ e + n - 1 >= n /\ G[e] = E[e + n - 1]
    BY <1>2, <1>6
  <2>2. G[e][i] \in RowsIn(E)
    BY <2>1, <1>4
  <2>3. Ordered(G[e][i]) /\ Ordered(E[n][1])
    BY <2>2, <1>9, RowsAreRows, RowsOrdered
  <2>4. CASE e + n - 1 = n /\ i = 1
    <3>1. G[e][i] = E[n][1]
      BY <2>1, <2>4
    <3> QED
      BY <3>1, <2>2, <2>3, OrderLaws
  <2>5. CASE ~(e + n - 1 = n /\ i = 1)
    <3>1. n < e + n - 1 \/ (n = e + n - 1 /\ 1 < i)
      BY <2>1, <2>5, <1>1
    <3>2. OlderThan(E[n][1], E[e + n - 1][i])
      BY <3>1, <2>1, <1>3, <1>8
    <3> QED
      BY <3>2, <2>1, <2>2, <2>3, OrderLaws
  <2> QED
    BY <2>4, <2>5
<1>11. ASSUME NEW e \in 1 .. m, NEW i \in 1 .. Len(E[e]), E[e][i] \notin RowsIn(G)
       PROVE  e \in 1 .. n - 1 /\ OlderThan(E[e][i], E[n][1])
  <2>1. e < n
    <3> SUFFICES ASSUME e + 1 - n \in 1 .. k, G[e + 1 - n] = E[e] PROVE FALSE
      BY <1>7
    <3>1. E[e][i] \in RowsIn(G)
      BY <1>42
    <3> QED
      BY <3>1, <1>11
  <2> QED
    BY <2>1, <1>1, <1>3, <1>8
<1>12. ASSUME NEW e \in 1 .. n - 1 PROVE AllOlder(Listed(E[e]), RowsIn(G))
  <2>0. Listed(E[e]) = {E[e][i] : i \in 1 .. Len(E[e])}
    <3>1. e \in 1 .. m
      BY <1>1
    <3> QED
      BY <3>1, <1>5
  <2> SUFFICES ASSUME NEW x \in Listed(E[e]), NEW y \in RowsIn(G) PROVE OlderThan(x, y)
    BY DEF AllOlder
  <2>2. PICK i \in 1 .. Len(E[e]) : x = E[e][i]
    BY <2>0
  <2>3. PICK f \in 1 .. k : \E j \in 1 .. Len(G[f]) : y = G[f][j]
    BY <1>42
  <2>4. PICK j \in 1 .. Len(G[f]) : y = G[f][j]
    BY <2>3
  <2>1. e \in 1 .. m /\ f + n - 1 \in 1 .. m /\ e < f + n - 1 /\ G[f] = E[f + n - 1]
    BY <1>1, <1>2, <1>6
  <2>5. OlderThan(E[e][i], E[f + n - 1][j])
    BY <2>1, <1>3
  <2> QED
    BY <2>1, <2>2, <2>4, <2>5
<1>13. InOrder(G)
  <2>1. \A e \in 1 .. k : Len(G[e]) > 0
    BY <1>2, <1>3, <1>6
  <2>2. ASSUME NEW e \in 1 .. k, NEW f \in 1 .. k, NEW i \in 1 .. Len(G[e]), NEW j \in 1 .. Len(G[f]),
               e < f \/ (e = f /\ i < j)
        PROVE  OlderThan(G[e][i], G[f][j])
    <3>1. /\ e + n - 1 \in 1 .. m /\ G[e] = E[e + n - 1]
          /\ f + n - 1 \in 1 .. m /\ G[f] = E[f + n - 1]
      BY <1>2, <1>6
    <3>2. e + n - 1 < f + n - 1 \/ (e + n - 1 = f + n - 1 /\ i < j)
      BY <2>2, <1>1
    <3> QED
      BY <3>1, <3>2, <1>3
  <2> QED
    BY <2>1, <2>2, <1>2, OrderByLength
<1>14. ASSUME NEW r \in RowsIn(G) PROVE r \in RowsIn(E) /\ ~OlderThan(r, E[n][1])
  <2>1. PICK e \in 1 .. k : \E i \in 1 .. Len(G[e]) : r = G[e][i]
    BY <1>42
  <2> QED
    BY <2>1, <1>10
<1>15. ASSUME NEW r \in RowsIn(E) \ RowsIn(G)
       PROVE  OlderThan(r, E[n][1]) /\ r \in UNION {Listed(E[e]) : e \in 1 .. n - 1}
  <2>1. PICK e \in 1 .. m : \E i \in 1 .. Len(E[e]) : r = E[e][i]
    BY <1>41
  <2>2. PICK i \in 1 .. Len(E[e]) : r = E[e][i]
    BY <2>1
  <2>3. e \in 1 .. n - 1 /\ OlderThan(r, E[n][1])
    BY <2>2, <1>11
  <2>4. r \in Listed(E[e])
    BY <2>2, <1>5
  <2> QED
    BY <2>3, <2>4
<1> QED
  BY <1>2, <1>9, <1>12, <1>13, <1>14, <1>15 DEF G, m, k

\* The rows carried over are newer than those scanned behind them.
LEMMA CarriedAheadSound ==
    ASSUME NEW s \in Seq(Rows), NEW t \in Seq(Rows), NewestAhead(s), NewestAhead(t),
           AllOlder(Listed(t), Listed(s))
    PROVE  s \o t \in Seq(Rows) /\ NewestAhead(s \o t) /\ Listed(s \o t) = Listed(s) \cup Listed(t)
<1> DEFINE u == s \o t
           m == Len(s)
           n == Len(t)
<1>1. m \in Nat /\ n \in Nat
  OBVIOUS
<1>2. u \in Seq(Rows) /\ Len(u) = m + n /\ (\A i \in 1 .. m : u[i] = s[i]) /\ \A i \in 1 .. n : u[m + i] = t[i]
  OBVIOUS
<1>3. /\ Listed(s) = {s[i] : i \in 1 .. m} /\ Listed(t) = {t[i] : i \in 1 .. n}
      /\ \A i, j \in 1 .. m : i < j => OlderThan(s[j], s[i])
      /\ \A i, j \in 1 .. n : i < j => OlderThan(t[j], t[i])
  BY ListedAreRows
<1>4. \A i \in 1 .. m, j \in 1 .. n : OlderThan(t[j], s[i])
  BY <1>3 DEF AllOlder
<1> HIDE DEF u, m, n
<1>5. \A i \in 1 .. m + n : i \in 1 .. m \/ (i - m \in 1 .. n /\ u[i] = t[i - m])
  <2> SUFFICES ASSUME NEW i \in 1 .. m + n, i \notin 1 .. m PROVE i - m \in 1 .. n /\ u[i] = t[i - m]
    OBVIOUS
  <2>1. i - m \in 1 .. n /\ m + (i - m) = i
    BY <1>1
  <2> QED
    BY <2>1, <1>2
<1>6. Listed(u) = {u[i] : i \in 1 .. m + n}
  BY <1>2, ListedAreRows
<1>7. Listed(u) = Listed(s) \cup Listed(t)
  <2>1. \A i \in 1 .. m + n : u[i] \in Listed(s) \cup Listed(t)
    BY <1>2, <1>3, <1>5
  <2>2. \A i \in 1 .. m : s[i] \in Listed(u)
    <3>1. \A i \in 1 .. m : i \in 1 .. m + n /\ u[i] = s[i]
      BY <1>1, <1>2
    <3> QED
      BY <3>1, <1>6
  <2>3. \A i \in 1 .. n : t[i] \in Listed(u)
    <3>1. \A i \in 1 .. n : m + i \in 1 .. m + n /\ u[m + i] = t[i]
      BY <1>1, <1>2
    <3> QED
      BY <3>1, <1>6
  <2> QED
    BY <2>1, <2>2, <2>3, <1>3, <1>6
<1>8. ASSUME NEW i \in 1 .. m + n, NEW j \in 1 .. m + n, i < j PROVE OlderThan(u[j], u[i])
  <2>1. CASE i \in 1 .. m /\ j \in 1 .. m
    BY <2>1, <1>2, <1>3, <1>8
  <2>2. CASE i \in 1 .. m /\ j - m \in 1 .. n /\ u[j] = t[j - m]
    BY <2>2, <1>2, <1>4
  <2>3. CASE i - m \in 1 .. n /\ u[i] = t[i - m] /\ j - m \in 1 .. n /\ u[j] = t[j - m]
    <3>1. i - m < j - m
      BY <1>8, <1>1
    <3> QED
      BY <2>3, <3>1, <1>3
  <2>4. CASE i \notin 1 .. m /\ j \in 1 .. m
    BY <2>4, <1>8, <1>1
  <2> QED
    BY <2>1, <2>2, <2>3, <2>4, <1>5
<1>9. NewestAhead(u)
  BY <1>2, <1>8, ListedAreRows
<1> QED
  BY <1>2, <1>7, <1>9 DEF u

LEMMA ReverseSound ==
    ASSUME NEW s \in Seq(Rows), \A i, j \in 1 .. Len(s) : i < j => OlderThan(s[i], s[j])
    PROVE  Reverse(s) \in Seq(Rows) /\ NewestAhead(Reverse(s)) /\ Listed(Reverse(s)) = Listed(s)
<1> DEFINE u == Reverse(s)
           n == Len(s)
<1>1. n \in Nat /\ DOMAIN s = 1 .. n /\ \A i \in 1 .. n : s[i] \in Rows
  OBVIOUS
<1>2. u = [i \in 1 .. n |-> s[n - i + 1]]
  BY DEF Reverse
<1> HIDE DEF u, n
<1>3. \A i \in 1 .. n : n - i + 1 \in 1 .. n /\ u[i] = s[n - i + 1]
  BY <1>1, <1>2
<1>4. u \in [1 .. n -> Rows]
  BY <1>1, <1>2, <1>3
<1>5. u \in Seq(Rows) /\ Len(u) = n /\ DOMAIN u = 1 .. n
  BY <1>1, <1>4
<1>6. NewestAhead(u)
  BY <1>1, <1>3, <1>5 DEF NewestAhead, n
<1>7. ASSUME NEW i \in 1 .. n PROVE s[i] = u[n - i + 1]
  <2>1. n - i + 1 \in 1 .. n /\ n - (n - i + 1) + 1 = i
    BY <1>1
  <2> QED
    BY <1>3, <2>1
<1>8. Listed(u) = Listed(s)
  BY <1>1, <1>3, <1>5, <1>7 DEF Listed
<1> QED
  BY <1>5, <1>6, <1>8 DEF u

\* What is held back of a round is older than what is settled.
LEMMA HeadAndTailSound ==
    ASSUME NEW E \in Entries, InOrder(E), E # <<>>
    PROVE  /\ Head(E) \in Seq(Rows) /\ Head(E) # <<>>
           /\ \A i, j \in 1 .. Len(Head(E)) : i < j => OlderThan(Head(E)[i], Head(E)[j])
           /\ Tail(E) \in Entries /\ InOrder(Tail(E))
           /\ RowsIn(E) = Listed(Head(E)) \cup RowsIn(Tail(E))
           /\ AllOlder(Listed(Head(E)), RowsIn(Tail(E)))
<1> DEFINE T == Tail(E)
           h == Head(E)
           n == Len(E)
<1>1. n \in Nat /\ n > 0 /\ h = E[1] /\ h \in Seq(Rows) /\ T \in Entries /\ DOMAIN E = 1 .. n
  BY DEF Entries
<1>2. /\ Len(h) > 0
      /\ \A i, j \in 1 .. Len(h) : i < j => OlderThan(h[i], h[j])
  <2>1. 1 \in 1 .. n
    BY <1>1
  <2> HIDE DEF h
  <2> QED
    BY <2>1, <1>1, OrderByLength
<1>3. h # <<>>
  <2> HIDE DEF h
  <2> QED
    BY <1>1, <1>2
<1>4. Listed(h) \subseteq RowsIn(E)
  BY <1>1 DEF RowsIn
<1>5. CASE n = 1
  <2>1. T = <<>>
    <3>1. T \in Entries /\ Len(T) = 0
      BY <1>1, <1>5 DEF Entries
    <3> HIDE DEF T
    <3> QED
      BY <3>1 DEF Entries
  <2>2. InOrder(T) /\ RowsIn(T) = {}
    BY <2>1 DEF InOrder, RowsIn
  <2>3. RowsIn(E) = Listed(h)
    BY <1>1, <1>5 DEF RowsIn
  <2> QED
    BY <1>1, <1>2, <1>3, <2>2, <2>3 DEF AllOlder
<1>6. CASE n # 1
  <2>1. 2 \in 1 .. n /\ T = SubSeq(E, 2, n)
    BY <1>1, <1>6 DEF Entries
  <2>2. /\ InOrder(T) /\ RowsIn(T) \subseteq RowsIn(E)
        /\ RowsIn(E) \ RowsIn(T) \subseteq UNION {Listed(E[e]) : e \in 1 .. 2 - 1}
        /\ \A e \in 1 .. 2 - 1 : AllOlder(Listed(E[e]), RowsIn(T))
    <3> HIDE DEF T
    <3> QED
      BY <2>1, SuffixSound
  <2>3. RowsIn(E) \ RowsIn(T) \subseteq Listed(h) /\ AllOlder(Listed(h), RowsIn(T))
    BY <1>1, <2>2
  <2> QED
    BY <1>1, <1>2, <1>3, <1>4, <2>2, <2>3
<1> QED
  BY <1>5, <1>6

-----------------------------------------------------------------------------
\* The walk.  PageRows are handed out, Held besides what this page has so far.
PageRows == UNION {RowsIn(pages[p]) : p \in DOMAIN pages}
Held == PageRows \cup RowsIn(found) \cup Listed(carry)

StoreInv ==
    /\ RowsAreTold(lines) /\ IsFiniteSet(lines)
    /\ start \subseteq lines
    /\ \A r \in lines : r.gen \in stored

\* The pages go back in time, one behind the other.
PagesInv ==
    /\ pages \in Seq(Entries)
    /\ \A p \in 1 .. Len(pages) : InOrder(pages[p])
    /\ \A p, q \in 1 .. Len(pages) : p < q => AllOlder(RowsIn(pages[q]), RowsIn(pages[p]))

\* What this page has so far is older than the pages before it, and the rows
\* carried over are older still.
RoundInv ==
    /\ found \in Entries /\ InOrder(found)
    /\ carry \in Seq(Rows) /\ NewestAhead(carry)
    /\ AllOlder(RowsIn(found), PageRows)
    /\ AllOlder(Listed(carry), PageRows \cup RowsIn(found))
    /\ phase # "scanning" => found = <<>> /\ carry = <<>>

\* The position separates what is held from what is still to be read, and every
\* line that has been there all the time is on one side or the other.
CursorInv ==
    /\ phase \in {"idle", "scanning", "end"}
    /\ from \in Points
    /\ phase # "end" => \A r \in Held : ~OlderThan(r, from)
    /\ \A r \in start : r.ts >= query.since =>
          r \in Held \/ (phase # "end" /\ OlderThan(r, from))
    /\ phase = "scanning" => \A r \in start : r.gen \in refs

WalkInv == StoreInv /\ (query.filter = "all" => PagesInv /\ RoundInv /\ CursorInv)

LEMMA PageRowsAreRows ==
    ASSUME PagesInv PROVE PageRows \subseteq Rows /\ PageRows = UNION {RowsIn(pages[p]) : p \in 1 .. Len(pages)}
<1>1. DOMAIN pages = 1 .. Len(pages) /\ \A p \in 1 .. Len(pages) : pages[p] \in Entries
  BY DEF PagesInv
<1> QED
  BY <1>1, RowsAreRows DEF PageRows

LEMMA PointsOrdered == \A p \in Points : Ordered(p)
  BY DEF Points, Ordered

LEMMA PositionsOrder ==
    ASSUME NEW x \in Rows
    PROVE  /\ Position(x) \in Points
           /\ \A r : OlderThan(r, Position(x)) <=> OlderThan(r, x)
  BY QueryAssumption DEF Position, Points, OlderThan, Rows

\* What a round has before it decides: the carried and the scanned rows, grouped.
LEMMA RoundReads ==
    ASSUME StoreInv, PagesInv, RoundInv, CursorInv, phase = "scanning"
    PROVE  LET rows == ScanRows
               grouped == GroupRows(carry \o rows)
               taken == RowsIn(grouped) \cup RowsIn(found) \cup PageRows
           IN  /\ grouped \in Entries /\ InOrder(grouped)
               /\ AllOlder(RowsIn(grouped), RowsIn(found) \cup PageRows)
               /\ taken \subseteq Rows
               /\ \A r \in start : r.ts >= query.since =>
                     r \in taken \/ (Len(rows) >= Chunk /\ OlderThan(r, Last(rows)))
               /\ Len(rows) >= Chunk =>
                     /\ grouped # <<>> /\ Last(rows) \in Rows
                     /\ \A r \in taken : ~OlderThan(r, Last(rows))
<1> DEFINE rows == ScanRows
           grouped == GroupRows(carry \o rows)
           taken == RowsIn(grouped) \cup RowsIn(found) \cup PageRows
<1>1. /\ rows \in Seq(Rows) /\ NewestAhead(rows)
      /\ Listed(rows) \subseteq InScope
      /\ Len(rows) < Chunk => Listed(rows) = InScope
      /\ Len(rows) >= Chunk => \A r \in InScope \ Listed(rows) : OlderThan(r, Last(rows))
  BY ScanRowsSound DEF StoreInv
<1>2. carry \in Seq(Rows) /\ NewestAhead(carry) /\ found \in Entries
  BY DEF RoundInv
<1>3. Held \subseteq Rows /\ from \in Points /\ \A r \in Held : ~OlderThan(r, from)
  BY <1>2, PageRowsAreRows, RowsAreRows, ListedAreRows DEF Held, CursorInv
<1>4. \A r \in InScope : OlderThan(r, from)
  BY DEF InScope
<1>5. InScope \subseteq Rows
  BY DEF InScope, StoreInv, RowsAreTold
<1> HIDE DEF rows
<1>6. AllOlder(Listed(rows), Held)
  <2> SUFFICES ASSUME NEW r \in Listed(rows), NEW t \in Held PROVE OlderThan(r, t)
    BY DEF AllOlder
  <2>1. Ordered(r) /\ Ordered(t) /\ Ordered(from)
    BY <1>1, <1>3, <1>5, RowsOrdered, PointsOrdered
  <2> QED
    BY <2>1, <1>1, <1>3, <1>4, OrderLaws
<1>7. /\ carry \o rows \in Seq(Rows) /\ NewestAhead(carry \o rows)
      /\ Listed(carry \o rows) = Listed(carry) \cup Listed(rows)
  <2>1. AllOlder(Listed(rows), Listed(carry))
    BY <1>6 DEF AllOlder, Held
  <2> QED
    BY <2>1, <1>1, <1>2, CarriedAheadSound
<1>8. /\ grouped \in Entries /\ InOrder(grouped)
      /\ RowsIn(grouped) = Listed(carry) \cup Listed(rows)
      /\ carry \o rows # <<>> => grouped # <<>>
  BY <1>7, GroupRowsSound
<1> HIDE DEF grouped
<1>9. AllOlder(RowsIn(grouped), RowsIn(found) \cup PageRows)
  BY <1>6, <1>8 DEF AllOlder, Held, RoundInv
<1>10. taken \subseteq Rows /\ taken = Held \cup Listed(rows)
  BY <1>1, <1>3, <1>5, <1>8 DEF Held
<1> HIDE DEF taken
<1>11. ASSUME NEW r \in start, r.ts >= query.since
       PROVE  r \in taken \/ (Len(rows) >= Chunk /\ OlderThan(r, Last(rows)))
  <2>1. r \in Held \/ OlderThan(r, from)
    BY <1>11 DEF CursorInv
  <2>2. r \in lines /\ r.gen \in refs
    BY DEF StoreInv, CursorInv
  <2>3. OlderThan(r, from) => r \in InScope
    BY <1>11, <2>2 DEF InScope
  <2>4. Len(rows) \in Nat
    BY <1>1
  <2> QED
    BY <2>1, <2>3, <2>4, <1>1, <1>10, ChunkHoldsRows
<1>12. ASSUME Len(rows) >= Chunk
       PROVE  /\ grouped # <<>> /\ Last(rows) \in Rows
              /\ \A r \in taken : ~OlderThan(r, Last(rows))
  <2>1. Len(rows) \in Nat /\ Len(rows) > 0 /\ Last(rows) = rows[Len(rows)] /\ rows # <<>>
    BY <1>1, <1>12, ChunkHoldsRows DEF Last
  <2>2. Last(rows) \in Listed(rows) /\ Last(rows) \in Rows
    BY <2>1, <1>1, ListedAreRows
  <2>3. grouped # <<>>
    <3>1. Len(carry \o rows) > 0
      BY <2>1, <1>1, <1>2
    <3>2. carry \o rows # <<>>
      BY <3>1
    <3> QED
      BY <3>2, <1>8
  <2>4. ASSUME NEW r \in Held PROVE ~OlderThan(r, Last(rows))
    <3>1. OlderThan(Last(rows), r)
      BY <2>2, <1>6 DEF AllOlder
    <3>2. Ordered(r) /\ Ordered(Last(rows))
      BY <2>2, <1>3, RowsOrdered
    <3> QED
      BY <3>1, <3>2, OrderLaws
  <2>5. ASSUME NEW r \in Listed(rows) PROVE ~OlderThan(r, Last(rows))
    <3>1. PICK i \in 1 .. Len(rows) : r = rows[i]
      BY <1>1, ListedAreRows
    <3>2. Ordered(r) /\ Ordered(Last(rows))
      BY <2>2, <1>1, <1>5, RowsOrdered
    <3>3. CASE i = Len(rows)
      BY <3>1, <3>2, <3>3, <2>1, OrderLaws
    <3>4. CASE i # Len(rows)
      <4>1. i < Len(rows) /\ Len(rows) \in 1 .. Len(rows)
        BY <3>4, <2>1
      <4>2. OlderThan(Last(rows), r)
        BY <4>1, <3>1, <2>1, <1>1, ListedAreRows
      <4> QED
        BY <4>2, <3>2, OrderLaws
    <3> QED
      BY <3>3, <3>4
  <2> QED
    BY <2>2, <2>3, <2>4, <2>5, <1>10
<1> QED
  BY <1>8, <1>9, <1>10, <1>11, <1>12 DEF rows, grouped, taken

\* The rows of one more page.
LEMMA OnePageMore ==
    ASSUME PagesInv, NEW E \in Entries, InOrder(E), AllOlder(RowsIn(E), PageRows),
           pages' = Append(pages, E)
    PROVE  PagesInv' /\ PageRows' = PageRows \cup RowsIn(E)
<1> DEFINE n == Len(pages)
           more == Append(pages, E)
<1>1. n \in Nat /\ pages \in Seq(Entries)
  BY DEF PagesInv
<1>2. /\ more \in Seq(Entries) /\ Len(more) = n + 1 /\ more[n + 1] = E
      /\ \A p \in 1 .. n : more[p] = pages[p]
  BY <1>1
<1>3. pages' = more
  OBVIOUS
<1> HIDE DEF more
<1>4. DOMAIN pages' = 1 .. n + 1 /\ DOMAIN pages = 1 .. n
  BY <1>1, <1>2, <1>3
<1>5. \A p \in 1 .. n : RowsIn(pages[p]) \subseteq PageRows
  BY <1>4 DEF PageRows
<1>6. \A p \in 1 .. n + 1 : p \in 1 .. n \/ p = n + 1
  BY <1>1
<1>7. /\ \A p \in 1 .. n : InOrder(pages[p])
      /\ \A p, q \in 1 .. n : p < q => AllOlder(RowsIn(pages[q]), RowsIn(pages[p]))
  BY DEF PagesInv
<1> HIDE DEF n
<1>8. \A p \in 1 .. n + 1 : InOrder(pages'[p])
  BY <1>2, <1>3, <1>6, <1>7
<1>9. ASSUME NEW p \in 1 .. n + 1, NEW q \in 1 .. n + 1, p < q
      PROVE  AllOlder(RowsIn(pages'[q]), RowsIn(pages'[p]))
  <2>1. p \in 1 .. n /\ pages'[p] = pages[p]
    BY <1>9, <1>1, <1>2, <1>3
  <2>2. CASE q \in 1 .. n
    BY <2>1, <2>2, <1>2, <1>3, <1>7, <1>9
  <2>3. CASE q = n + 1
    <3>1. pages'[q] = E /\ RowsIn(pages[p]) \subseteq PageRows
      BY <2>1, <2>3, <1>2, <1>3, <1>5
    <3> QED
      BY <2>1, <3>1 DEF AllOlder
  <2> QED
    BY <2>2, <2>3, <1>6
<1>10. pages' \in Seq(Entries) /\ Len(pages') = n + 1
  BY <1>2, <1>3
<1>11. PagesInv'
  BY <1>8, <1>9, <1>10 DEF PagesInv
<1>12. PageRows' = PageRows \cup RowsIn(E)
  <2>1. PageRows' = UNION {RowsIn(pages'[p]) : p \in 1 .. n + 1}
    BY <1>4 DEF PageRows
  <2>2. PageRows = UNION {RowsIn(pages[p]) : p \in 1 .. n}
    BY <1>4 DEF PageRows
  <2>3. n + 1 \in 1 .. n + 1 /\ \A p \in 1 .. n : p \in 1 .. n + 1
    BY <1>1 DEF n
  <2>4. pages'[n + 1] = E /\ \A p \in 1 .. n : pages'[p] = pages[p]
    BY <1>2, <1>3
  <2> QED
    BY <2>1, <2>2, <2>3, <2>4, <1>6
<1> QED
  BY <1>11, <1>12

\* A page that is handed out, with what it leaves behind.
LEMMA PageHandedOut ==
    ASSUME PagesInv, NEW whole, whole \subseteq Rows, NEW E \in Entries, InOrder(E),
           RowsIn(E) \subseteq whole, AllOlder(whole \ RowsIn(E), RowsIn(E)),
           AllOlder(RowsIn(E), PageRows), NewPage(E), found' = <<>>, carry' = <<>>,
           NEW exhausted \in BOOLEAN, exhausted \/ Len(E) > Limit, exhausted => whole = RowsIn(E),
           NEW last, ~exhausted => last \in Rows /\ \A r \in whole : ~OlderThan(r, last),
           \A r \in start : r.ts >= query.since =>
               r \in PageRows \cup whole \/ (~exhausted /\ OlderThan(r, last)),
           start' = start, query' = query, from \in Points, start \subseteq Rows
    PROVE  PagesInv' /\ RoundInv' /\ CursorInv'
<1> DEFINE cut == Len(E) - Limit
           G == SubSeq(E, cut + 1, Len(E))
           x == E[cut + 1][1]
<1>1. Len(E) \in Nat /\ Limit \in Nat /\ Limit > 0
  BY QueryAssumption, EntryLengths
<1>2. InOrder(<<>>) /\ <<>> \in Entries /\ RowsIn(<<>>) = {} /\ Listed(<<>>) = {} /\ NewestAhead(<<>>) /\ <<>> \in Seq(Rows)
  BY DEF InOrder, RowsIn, Listed, NewestAhead, Entries
<1>3. RoundInv'
  BY <1>2 DEF RoundInv, AllOlder
<1>4. Held' = PageRows'
  BY <1>2 DEF Held
<1>5. CASE cut <= 0
  <2>1. pages' = Append(pages, E) /\ phase' = "end" /\ from' = from
    BY <1>5 DEF NewPage
  <2>2. exhausted
    BY <1>5, <1>1
  <2>3. PagesInv' /\ PageRows' = PageRows \cup RowsIn(E)
    BY <2>1, OnePageMore
  <2>4. CursorInv'
    BY <2>1, <2>2, <2>3, <1>4 DEF CursorInv
  <2> QED
    BY <1>3, <2>3, <2>4
<1>6. CASE ~(cut <= 0)
  <2>1. pages' = Append(pages, G) /\ phase' = "idle" /\ from' = Position(x)
    BY <1>6 DEF NewPage, CursorAt, CutAtHead
  <2>2. cut + 1 \in 1 .. Len(E)
    BY <1>1, <1>6
  <2> HIDE DEF cut
  <2>3. /\ G \in Entries /\ InOrder(G)
        /\ x \in RowsIn(E) /\ RowsIn(G) \subseteq RowsIn(E)
        /\ \A r \in RowsIn(G) : ~OlderThan(r, x)
        /\ \A r \in RowsIn(E) \ RowsIn(G) : OlderThan(r, x)
    BY <2>2, SuffixSound
  <2> HIDE DEF G, x
  <2>4. PagesInv' /\ PageRows' = PageRows \cup RowsIn(G)
    <3>1. AllOlder(RowsIn(G), PageRows)
      BY <2>3 DEF AllOlder
    <3> QED
      BY <2>1, <2>3, <3>1, OnePageMore
  <2>5. x \in Rows /\ x \in whole
    BY <2>3
  <2>6. from' \in Points /\ \A r : OlderThan(r, from') <=> OlderThan(r, x)
    BY <2>1, <2>5, PositionsOrder
  <2>7. ASSUME NEW r \in PageRows PROVE ~OlderThan(r, x)
    <3>1. OlderThan(x, r)
      BY <2>3 DEF AllOlder
    <3>2. Ordered(x) /\ Ordered(r)
      BY <2>5, PageRowsAreRows, RowsOrdered
    <3> QED
      BY <3>1, <3>2, OrderLaws
  <2>8. ASSUME NEW r \in start, r.ts >= query.since PROVE r \in PageRows' \/ OlderThan(r, x)
    <3>1. CASE r \in PageRows \/ r \in RowsIn(E)
      BY <3>1, <2>3, <2>4
    <3>2. CASE r \in whole \ RowsIn(E)
      BY <3>2, <2>3 DEF AllOlder
    <3>3. CASE ~exhausted /\ OlderThan(r, last)
      <4>1. last \in Rows /\ ~OlderThan(x, last)
        BY <3>3, <2>5
      <4>2. Ordered(r) /\ Ordered(last) /\ Ordered(x)
        BY <4>1, <2>5, RowsOrdered
      <4> QED
        BY <3>3, <4>1, <4>2, OrderLaws
    <3> QED
      BY <2>8, <3>1, <3>2, <3>3
  <2>9. CursorInv'
    BY <2>1, <2>3, <2>4, <2>6, <2>7, <2>8, <1>4 DEF CursorInv
  <2> QED
    BY <1>3, <2>4, <2>9
<1> QED
  BY <1>5, <1>6

\* A round that fills the page hands it out; the others go on behind their rows.
LEMMA ScanRoundWalks ==
    ASSUME WalkInv, ScanRound, query.filter = "all"
    PROVE  PagesInv' /\ RoundInv' /\ CursorInv'
<1> DEFINE rows == ScanRows
           exhausted == Len(rows) < Chunk
           grouped == GroupRows(carry \o rows)
           open == IF exhausted THEN <<>> ELSE Head(grouped)
           settled == IF open = <<>> THEN grouped ELSE Tail(grouped)
           matched == settled \o found
           taken == RowsIn(grouped) \cup RowsIn(found) \cup PageRows
           last == Last(rows)
<1>1. /\ phase = "scanning" /\ query' = query /\ refs' = refs /\ start' = start
      /\ IF Len(matched) > Limit \/ exhausted
         THEN NewPage(matched) /\ found' = <<>> /\ carry' = <<>>
         ELSE /\ found' = matched
              /\ carry' = Reverse(open)
              /\ from' = Position(last)
              /\ phase' = phase /\ pages' = pages
  BY DEF ScanRound, Open, HeldBack, Filtered
<1>2. StoreInv /\ PagesInv /\ RoundInv /\ CursorInv
  BY DEF WalkInv
<1>3. /\ grouped \in Entries /\ InOrder(grouped)
      /\ AllOlder(RowsIn(grouped), RowsIn(found) \cup PageRows)
      /\ taken \subseteq Rows
      /\ \A r \in start : r.ts >= query.since =>
            r \in taken \/ (Len(rows) >= Chunk /\ OlderThan(r, last))
      /\ Len(rows) >= Chunk =>
            /\ grouped # <<>> /\ last \in Rows
            /\ \A r \in taken : ~OlderThan(r, last)
  BY <1>1, <1>2, RoundReads
<1>4. found \in Entries /\ InOrder(found) /\ AllOlder(RowsIn(found), PageRows)
  BY <1>2 DEF RoundInv
<1>5. Len(rows) \in Nat /\ Chunk \in Nat
  BY <1>2, ScanRowsSound, ChunkHoldsRows DEF StoreInv
<1>6. exhausted \in BOOLEAN /\ (~exhausted <=> Len(rows) >= Chunk)
  BY <1>5
<1> HIDE DEF rows, grouped, last, exhausted
<1>7. /\ open \in Seq(Rows) /\ settled \in Entries /\ InOrder(settled)
      /\ \A i, j \in 1 .. Len(open) : i < j => OlderThan(open[i], open[j])
      /\ RowsIn(grouped) = Listed(open) \cup RowsIn(settled)
      /\ AllOlder(Listed(open), RowsIn(settled))
      /\ exhausted => open = <<>>
  <2>1. CASE exhausted
    <3>1. open = <<>> /\ settled = grouped /\ <<>> \in Seq(Rows) /\ Listed(<<>>) = {} /\ Len(<<>>) = 0
      BY <2>1 DEF Listed
    <3> HIDE DEF open, settled
    <3> QED
      BY <3>1, <1>3 DEF AllOlder
  <2>2. CASE ~exhausted
    <3>1. grouped # <<>>
      BY <2>2, <1>3, <1>6
    <3>2. open = Head(grouped)
      BY <2>2
    <3>3. /\ Head(grouped) \in Seq(Rows) /\ Head(grouped) # <<>>
          /\ \A i, j \in 1 .. Len(Head(grouped)) : i < j => OlderThan(Head(grouped)[i], Head(grouped)[j])
          /\ Tail(grouped) \in Entries /\ InOrder(Tail(grouped))
          /\ RowsIn(grouped) = Listed(Head(grouped)) \cup RowsIn(Tail(grouped))
          /\ AllOlder(Listed(Head(grouped)), RowsIn(Tail(grouped)))
      BY <3>1, <1>3, HeadAndTailSound
    <3>4. settled = Tail(grouped)
      BY <3>2, <3>3
    <3> HIDE DEF open, settled
    <3> QED
      BY <2>2, <3>2, <3>3, <3>4
  <2> QED
    BY <2>1, <2>2
<1> HIDE DEF open, settled
<1>8. /\ matched \in Entries /\ InOrder(matched)
      /\ RowsIn(matched) = RowsIn(settled) \cup RowsIn(found)
  <2>1. AllOlder(RowsIn(settled), RowsIn(found))
    BY <1>3, <1>7 DEF AllOlder
  <2> QED
    BY <2>1, <1>4, <1>7, ConcatSound
<1> HIDE DEF matched
<1>9. AllOlder(RowsIn(matched), PageRows)
  BY <1>3, <1>4, <1>7, <1>8 DEF AllOlder
<1> DEFINE whole == RowsIn(grouped) \cup RowsIn(found)
<1>10. whole = Listed(open) \cup RowsIn(matched) /\ AllOlder(Listed(open), RowsIn(matched) \cup PageRows)
  BY <1>3, <1>7, <1>8 DEF AllOlder
<1>11. /\ whole \subseteq Rows /\ from \in Points /\ start \subseteq Rows
  BY <1>2, <1>3 DEF CursorInv, StoreInv, RowsAreTold
<1>12. CASE Len(matched) > Limit \/ exhausted
  <2>1. NewPage(matched) /\ found' = <<>> /\ carry' = <<>>
    BY <1>1, <1>12
  <2>2. exhausted => whole = RowsIn(matched)
    <3>1. Listed(<<>>) = {}
      BY DEF Listed
    <3> QED
      BY <3>1, <1>7, <1>10
  <2>3. RowsIn(matched) \subseteq whole /\ AllOlder(whole \ RowsIn(matched), RowsIn(matched))
    BY <1>10 DEF AllOlder
  <2>4. ~exhausted => last \in Rows /\ \A r \in whole : ~OlderThan(r, last)
    BY <1>3, <1>6
  <2>5. \A r \in start : r.ts >= query.since =>
            r \in PageRows \cup whole \/ (~exhausted /\ OlderThan(r, last))
    BY <1>3, <1>6
  <2> HIDE DEF whole
  <2> QED
    BY <1>1, <1>2, <1>6, <1>8, <1>9, <1>11, <1>12, <2>1, <2>2, <2>3, <2>4, <2>5, PageHandedOut
<1>13. CASE ~(Len(matched) > Limit \/ exhausted)
  <2>1. /\ found' = matched /\ carry' = Reverse(open) /\ from' = Position(last)
        /\ phase' = phase /\ pages' = pages
    BY <1>1, <1>13
  <2>2. /\ last \in Rows /\ \A r \in taken : ~OlderThan(r, last)
    BY <1>3, <1>6, <1>13
  <2>3. carry' \in Seq(Rows) /\ NewestAhead(carry') /\ Listed(carry') = Listed(open)
    BY <1>7, <2>1, ReverseSound
  <2>4. PagesInv' /\ PageRows' = PageRows
    BY <1>2, <2>1 DEF PagesInv, PageRows
  <2>5. RoundInv'
    BY <1>1, <1>8, <1>9, <1>10, <2>1, <2>3, <2>4 DEF RoundInv, AllOlder
  <2>6. Held' = taken
    BY <1>10, <2>1, <2>3, <2>4 DEF Held
  <2>7. from' \in Points /\ \A r : OlderThan(r, from') <=> OlderThan(r, last)
    BY <2>1, <2>2, PositionsOrder
  <2>8. CursorInv'
    BY <1>1, <1>2, <1>3, <1>6, <2>1, <2>2, <2>6, <2>7 DEF CursorInv
  <2> QED
    BY <2>4, <2>5, <2>8
<1> QED
  BY <1>12, <1>13

\* A page begins at the cursor, over the generations that are stored now.
LEMMA AskForPageWalks ==
    ASSUME WalkInv, AskForPage, query.filter = "all"
    PROVE  PagesInv' /\ RoundInv' /\ CursorInv'
<1>1. /\ phase = "idle" /\ refs' = stored /\ carry' = <<>> /\ found' = <<>>
      /\ query' = query /\ from' = from /\ start' = start /\ stored' = stored
      /\ IF stored = {}
         THEN phase' = "end" /\ pages' = Append(pages, <<>>)
         ELSE phase' = "scanning" /\ pages' = pages
  BY DEF AskForPage, storeVars
<1>2. StoreInv /\ PagesInv /\ RoundInv /\ CursorInv /\ found = <<>> /\ carry = <<>>
  BY <1>1 DEF WalkInv, RoundInv
<1>3. \A r \in start : r.gen \in stored
  BY <1>2 DEF StoreInv
<1>4. InOrder(<<>>) /\ <<>> \in Entries /\ RowsIn(<<>>) = {} /\ Listed(<<>>) = {} /\ NewestAhead(<<>>) /\ <<>> \in Seq(Rows)
  BY DEF InOrder, RowsIn, Listed, NewestAhead, Entries
<1>5. PagesInv' /\ PageRows' = PageRows
  <2>1. CASE stored = {}
    <3>1. AllOlder(RowsIn(<<>>), PageRows)
      BY <1>4 DEF AllOlder
    <3>2. PagesInv' /\ PageRows' = PageRows \cup RowsIn(<<>>)
      BY <1>1, <1>2, <1>4, <2>1, <3>1, OnePageMore
    <3> QED
      BY <3>2, <1>4
  <2>2. CASE stored # {}
    BY <1>1, <1>2, <2>2 DEF PagesInv, PageRows
  <2> QED
    BY <2>1, <2>2
<1>6. RoundInv'
  BY <1>1, <1>4 DEF RoundInv, AllOlder
<1>7. Held' = Held /\ Held = PageRows
  BY <1>1, <1>2, <1>4, <1>5 DEF Held
<1>8. CursorInv'
  BY <1>1, <1>2, <1>3, <1>7 DEF CursorInv
<1> QED
  BY <1>5, <1>6, <1>8

\* A list of numbers has a greatest one.
LEMMA GreatestOfAList ==
    ASSUME NEW n \in Nat, NEW f \in [1 .. n -> Nat]
    PROVE  \E b \in Nat : \A i \in 1 .. n : f[i] <= b
<1> DEFINE Bounds(m) == {b \in Nat : \A i \in 1 .. m : f[i] <= b}
           T == {m \in 0 .. n : Bounds(m) = {}}
<1> SUFFICES ASSUME n \in T PROVE FALSE
  OBVIOUS
<1>1. T \in SUBSET Nat
  OBVIOUS
<1> HIDE DEF T
<1>2. PICK m \in T : \A k \in T : m <= k
  BY <1>1, LeastNumber
<1>3. m \in 0 .. n /\ Bounds(m) = {}
  BY <1>2 DEF T
<1>4. m # 0
  <2>1. Bounds(0) = Nat
    OBVIOUS
  <2> QED
    BY <1>3, <2>1, 0 \in Nat
<1>5. m - 1 \in 0 .. n /\ m - 1 \notin T
  BY <1>2, <1>3, <1>4
<1>6. PICK b \in Nat : \A i \in 1 .. m - 1 : f[i] <= b
  BY <1>5 DEF T
<1>7. f[m] \in Nat
  BY <1>3, <1>4
<1>8. PICK c \in Nat : f[m] <= c /\ b <= c
  <2>1. \A x, y \in Nat : \E z \in Nat : x <= z /\ y <= z
    <3>1. \A x, y \in Nat : x <= y \/ y <= x
      OBVIOUS
    <3> QED
      BY <3>1
  <2> QED
    BY <1>7, <2>1
<1>9. ASSUME NEW i \in 1 .. m PROVE f[i] <= c
  <2>1. CASE i = m
    BY <1>8, <2>1
  <2>2. CASE i # m
    <3>1. i \in 1 .. m - 1 /\ i \in 1 .. n
      BY <1>3, <2>2
    <3>2. f[i] \in Nat /\ f[i] <= b
      BY <1>6, <3>1
    <3> QED
      BY <1>8, <3>2
  <2> QED
    BY <2>1, <2>2
<1> QED
  BY <1>3, <1>9

\* The number of a new line is beyond every number in use.
LEMMA NextIdIsNew ==
    ASSUME StoreInv
    PROVE  NextId \in Nat /\ \A r \in lines : r.id # NextId
<1>1. CASE lines = {}
  BY <1>1 DEF NextId
<1>2. CASE lines # {}
  <2> DEFINE s == NewestFirst(lines)
             n == Cardinality(lines)
             ids == {r.id : r \in lines}
             f == [i \in 1 .. n |-> s[i].id]
             Bounds == {b \in Nat : \A i \in ids : i <= b}
  <2>1. s \in Seq(Rows) /\ Len(s) = n /\ n \in Nat /\ Listed(s) = lines
    BY NewestFirstSound DEF StoreInv
  <2>2. ids \subseteq Nat /\ lines \subseteq Rows
    BY DEF StoreInv, RowsAreTold, Rows
  <2> HIDE DEF s, n
  <2>3. f \in [1 .. n -> Nat]
    <3>1. \A i \in 1 .. n : s[i] \in Rows
      BY <2>1
    <3>2. \A r \in Rows : r.id \in Nat
      BY DEF Rows
    <3> QED
      BY <3>1, <3>2
  <2>4. \A r \in lines : \E i \in 1 .. n : f[i] = r.id
    <3>1. \A r \in lines : \E i \in 1 .. n : s[i] = r
      BY <2>1, ListedAreRows
    <3> QED
      BY <3>1
  <2> HIDE DEF f
  <2>5. PICK b \in Nat : \A i \in 1 .. n : f[i] <= b
    BY <2>1, <2>3, GreatestOfAList
  <2>6. Bounds \in SUBSET Nat /\ Bounds # {}
    BY <2>4, <2>5
  <2>7. PICK g \in Bounds : \A h \in Bounds : g <= h
    BY <2>6, LeastNumber
  <2>8. g \in Nat /\ \A i \in ids : i <= g
    OBVIOUS
  <2>9. g \in ids
    <3> SUFFICES ASSUME g \notin ids PROVE FALSE
      OBVIOUS
    <3>1. \A i \in ids : i \in Nat /\ i < g
      BY <2>2, <2>8
    <3>2. ids # {}
      BY <1>2
    <3> HIDE DEF ids
    <3>3. g - 1 \in Nat /\ \A i \in ids : i <= g - 1
      BY <2>8, <3>1, <3>2
    <3> QED
      BY <2>7, <2>8, <3>3
  <2>10. NextId = 1 + CHOOSE i \in ids : \A r \in lines : r.id <= i
    BY <1>2 DEF NextId
  <2> DEFINE top == CHOOSE i \in ids : \A r \in lines : r.id <= i
  <2>11. top \in ids /\ \A r \in lines : r.id <= top
    BY <2>8, <2>9
  <2> HIDE DEF top
  <2>12. top \in Nat /\ NextId = 1 + top
    BY <2>2, <2>10, <2>11 DEF top
  <2>13. \A r \in lines : r.id \in Nat
    BY <2>2
  <2> QED
    BY <2>11, <2>12, <2>13
<1> QED
  BY <1>1, <1>2

\* The reader, when lines come and go under it.
LEMMA ReaderKept ==
    ASSUME PagesInv, RoundInv, CursorInv, ReaderUnchanged, start' \subseteq start
    PROVE  PagesInv' /\ RoundInv' /\ CursorInv'
<1>1. /\ query' = query /\ phase' = phase /\ refs' = refs /\ from' = from
      /\ carry' = carry /\ found' = found /\ pages' = pages
  BY DEF ReaderUnchanged
<1>2. PageRows' = PageRows /\ Held' = Held
  BY <1>1 DEF Held, PageRows
<1>3. PagesInv'
  BY <1>1 DEF PagesInv
<1>4. RoundInv'
  BY <1>1, <1>2 DEF RoundInv
<1>5. CursorInv'
  BY <1>1, <1>2 DEF CursorInv
<1> QED
  BY <1>3, <1>4, <1>5

-----------------------------------------------------------------------------
\* The lines under the reader: committed with a new number, evicted, purged.
LEMMA StoreKept ==
    ASSUME StoreInv, UNCHANGED <<start, storeVars>>
    PROVE  StoreInv'
  BY DEF StoreInv, storeVars

LEMMA FewerLines ==
    ASSUME StoreInv, NEW S \in SUBSET lines, lines' = S, start' \subseteq S, stored' = stored
    PROVE  StoreInv'
<1>1. IsFiniteSet(S)
  BY FS_Subset DEF StoreInv
<1> QED
  BY <1>1 DEF StoreInv, RowsAreTold

LEMMA CommitStores ==
    ASSUME StoreInv, Commit
    PROVE  StoreInv'
<1>1. PICK g \in Generations, ts \in 1 .. LastTs, kind \in Kinds :
         /\ lines' = lines \cup {[gen |-> g, ts |-> ts, id |-> NextId, kind |-> kind]}
         /\ stored' = stored \cup {g}
  BY DEF Commit
<1> DEFINE row == [gen |-> g, ts |-> ts, id |-> NextId, kind |-> kind]
<1>2. row \in Rows /\ row.id = NextId /\ row.gen = g
  BY NextIdIsNew DEF Rows
<1> HIDE DEF row
<1>3. lines' = lines \cup {row} /\ start' = start
  BY <1>1 DEF Commit, row
<1>4. IsFiniteSet(lines')
  BY <1>3, FS_AddElement DEF StoreInv
<1>5. RowsAreTold(lines')
  BY <1>2, <1>3, NextIdIsNew DEF StoreInv, RowsAreTold
<1>6. start' \subseteq lines' /\ \A r \in lines' : r.gen \in stored'
  BY <1>1, <1>2, <1>3 DEF StoreInv
<1> QED
  BY <1>4, <1>5, <1>6 DEF StoreInv

-----------------------------------------------------------------------------
LEMMA WalkStarts == LogQueryInit => WalkInv
<1> SUFFICES ASSUME LogQueryInit PROVE WalkInv
  OBVIOUS
<1>1. PICK n \in FirstLines : lines \in Histories(n)
  BY DEF LogQueryInit
<1>2. n \in Nat
  BY QueryAssumption
<1>3. PICK gen \in [1 .. n -> Generations], ts \in [1 .. n -> 1 .. LastTs], kind \in [1 .. n -> Kinds] :
         lines = {[gen |-> gen[i], ts |-> ts[i], id |-> i, kind |-> kind[i]] : i \in 1 .. n}
  BY <1>1 DEF Histories
<1> DEFINE row == [i \in 1 .. n |-> [gen |-> gen[i], ts |-> ts[i], id |-> i, kind |-> kind[i]]]
<1>4. \A i \in 1 .. n : row[i] \in Rows /\ row[i].id = i
  BY <1>2 DEF Rows
<1>5. lines = {row[i] : i \in 1 .. n} /\ DOMAIN row = 1 .. n
  BY <1>3
<1>6. row \in Surjection(1 .. n, lines)
  <2>1. row \in [1 .. n -> lines]
    BY <1>5
  <2> HIDE DEF row
  <2> QED
    BY <1>5, <2>1 DEF Surjection
<1> HIDE DEF row
<1>7. IsFiniteSet(lines)
  <2>1. IsFiniteSet(1 .. n)
    BY <1>2, 1 \in Int, n \in Int, FS_Interval
  <2> QED
    BY <1>6, <2>1, FS_Surjection
<1>8. RowsAreTold(lines)
  BY <1>4, <1>5 DEF RowsAreTold
<1>9. /\ start = lines /\ stored = {r.gen : r \in lines}
      /\ phase = "idle" /\ from = NoPosition /\ carry = <<>> /\ found = <<>> /\ pages = <<>>
  BY DEF LogQueryInit
<1>10. StoreInv
  BY <1>7, <1>8, <1>9 DEF StoreInv
<1>11. InOrder(<<>>) /\ <<>> \in Entries /\ RowsIn(<<>>) = {} /\ Listed(<<>>) = {} /\ NewestAhead(<<>>) /\ <<>> \in Seq(Rows)
  BY DEF InOrder, RowsIn, Listed, NewestAhead, Entries
<1>12. PagesInv /\ PageRows = {}
  BY <1>9 DEF PagesInv, PageRows
<1>13. Held = {}
  BY <1>9, <1>11, <1>12 DEF Held
<1>14. RoundInv
  BY <1>9, <1>11 DEF RoundInv, AllOlder
<1>15. from \in Points /\ \A r \in Rows : OlderThan(r, from)
  BY <1>9, QueryAssumption DEF NoPosition, Points, OlderThan, Rows
<1>16. CursorInv
  BY <1>8, <1>9, <1>13, <1>15 DEF CursorInv, RowsAreTold
<1> QED
  BY <1>10, <1>12, <1>14, <1>16 DEF WalkInv

LEMMA WalkGoesOn == WalkInv /\ [LogQueryNext]_lqVars => WalkInv'
<1> SUFFICES ASSUME WalkInv, [LogQueryNext]_lqVars PROVE WalkInv'
  OBVIOUS
<1>0. StoreInv /\ (query.filter = "all" => PagesInv /\ RoundInv /\ CursorInv)
  BY DEF WalkInv
<1>1. CASE AskForPage
  <2>1. StoreInv' /\ query' = query
    BY <1>0, <1>1, StoreKept DEF AskForPage
  <2> QED
    BY <1>1, <2>1, AskForPageWalks DEF WalkInv
<1>2. CASE ScanRound
  <2>1. StoreInv' /\ query' = query
    BY <1>0, <1>2, StoreKept DEF ScanRound
  <2> QED
    BY <1>2, <2>1, ScanRoundWalks DEF WalkInv
<1>3. CASE Commit
  <2>1. ReaderUnchanged /\ start' \subseteq start /\ query' = query
    BY <1>3 DEF Commit, ReaderUnchanged
  <2> QED
    BY <1>0, <1>3, <2>1, CommitStores, ReaderKept DEF WalkInv
<1>4. CASE Evict
  <2>1. ReaderUnchanged /\ start' \subseteq start /\ query' = query
    BY <1>4 DEF Evict, ReaderUnchanged
  <2>2. /\ lines' = lines \ {Last(NewestFirst(lines))}
        /\ start' = start \cap lines' /\ stored' = stored
    BY <1>4 DEF Evict
  <2>3. StoreInv'
    BY <1>0, <2>2, FewerLines
  <2> QED
    BY <1>0, <2>1, <2>3, ReaderKept DEF WalkInv
<1>5. CASE Purge
  <2>1. ReaderUnchanged /\ start' \subseteq start /\ query' = query
    BY <1>5 DEF Purge, ReaderUnchanged
  <2>2. StoreInv'
    BY <1>5, FS_EmptySet DEF Purge, StoreInv, RowsAreTold
  <2> QED
    BY <1>0, <2>1, <2>2, ReaderKept DEF WalkInv
<1>6. CASE UNCHANGED lqVars
  <2>1. ReaderUnchanged /\ UNCHANGED <<start, storeVars>> /\ query' = query
    BY <1>6 DEF lqVars, ReaderUnchanged, storeVars
  <2> QED
    BY <1>0, <2>1, StoreKept, ReaderKept DEF WalkInv
<1> QED
  BY <1>1, <1>2, <1>3, <1>4, <1>5, <1>6 DEF LogQueryNext

LEMMA WalkReadsOnce == WalkInv => EveryLineOnce
<1> SUFFICES ASSUME WalkInv, query.filter = "all" PROVE
        /\ \A a, b \in Slots : Before(a, b) => OlderThan(RowAt(a), RowAt(b))
        /\ \A r \in start :
              r.ts >= query.since /\ Reached(r) => \E a \in Slots : RowAt(a) = r
  BY DEF EveryLineOnce
<1>1. PagesInv /\ RoundInv /\ CursorInv
  BY DEF WalkInv
<1>2. DOMAIN pages = 1 .. Len(pages) /\ \A p \in DOMAIN pages : pages[p] \in Entries
  BY <1>1 DEF PagesInv
<1>3. \A a \in Slots : \E p \in DOMAIN pages : \E e \in DOMAIN pages[p] : \E i \in DOMAIN pages[p][e] :
         a = <<p, e, i>>
  BY DEF Slots
<1>4. \A p \in DOMAIN pages : \A e \in DOMAIN pages[p] : \A i \in DOMAIN pages[p][e] :
         <<p, e, i>> \in Slots
  BY DEF Slots
<1> HIDE DEF Slots
<1>5. ASSUME NEW a \in Slots, NEW b \in Slots, Before(a, b)
      PROVE  OlderThan(RowAt(a), RowAt(b))
  <2>1. PICK p \in DOMAIN pages : \E e \in DOMAIN pages[p] : \E i \in DOMAIN pages[p][e] : a = <<p, e, i>>
    BY <1>3
  <2>2. PICK e \in DOMAIN pages[p] : \E i \in DOMAIN pages[p][e] : a = <<p, e, i>>
    BY <2>1
  <2>3. PICK i \in DOMAIN pages[p][e] : a = <<p, e, i>>
    BY <2>2
  <2>4. PICK q \in DOMAIN pages : \E f \in DOMAIN pages[q] : \E j \in DOMAIN pages[q][f] : b = <<q, f, j>>
    BY <1>3
  <2>5. PICK f \in DOMAIN pages[q] : \E j \in DOMAIN pages[q][f] : b = <<q, f, j>>
    BY <2>4
  <2>6. PICK j \in DOMAIN pages[q][f] : b = <<q, f, j>>
    BY <2>5
  <2>7. RowAt(a) = pages[p][e][i] /\ RowAt(b) = pages[q][f][j]
    BY <2>3, <2>6 DEF RowAt
  <2>8. p > q \/ (p = q /\ (e < f \/ (e = f /\ i < j)))
    BY <1>5, <2>3, <2>6 DEF Before
  <2>9. CASE p > q
    <3>1. AllOlder(RowsIn(pages[p]), RowsIn(pages[q]))
      BY <1>1, <1>2, <2>9 DEF PagesInv
    <3>2. pages[p][e][i] \in RowsIn(pages[p]) /\ pages[q][f][j] \in RowsIn(pages[q])
      BY DEF RowsIn, Listed
    <3> QED
      BY <2>7, <3>1, <3>2 DEF AllOlder
  <2>10. CASE p = q /\ (e < f \/ (e = f /\ i < j))
    <3>1. InOrder(pages[p])
      BY <1>1, <1>2 DEF PagesInv
    <3> QED
      BY <2>7, <2>10, <3>1 DEF InOrder
  <2> QED
    BY <2>8, <2>9, <2>10
<1>6. ASSUME NEW r \in start, r.ts >= query.since, Reached(r)
      PROVE  \E a \in Slots : RowAt(a) = r
  <2>1. phase # "scanning" /\ Held = PageRows
    <3>1. phase # "scanning"
      BY <1>6 DEF Reached
    <3>2. found = <<>> /\ carry = <<>>
      BY <1>1, <3>1 DEF RoundInv
    <3> QED
      BY <3>1, <3>2 DEF Held, RowsIn, Listed
  <2>2. r \in PageRows
    BY <1>1, <1>6, <2>1 DEF CursorInv, Reached
  <2>3. PICK p \in DOMAIN pages : r \in RowsIn(pages[p])
    BY <2>2 DEF PageRows
  <2>4. PICK e \in DOMAIN pages[p] : r \in Listed(pages[p][e])
    BY <2>3 DEF RowsIn
  <2>5. PICK i \in DOMAIN pages[p][e] : r = pages[p][e][i]
    BY <2>4 DEF Listed
  <2>6. RowAt(<<p, e, i>>) = r
    BY <2>5 DEF RowAt
  <2> QED
    BY <1>4, <2>6
<1> QED
  BY <1>5, <1>6

\* logstore/query.go: "pages stay stable while new lines are ingested".  An
\* unfiltered walk hands out no line twice and none out of order, and passes over no
\* line that has been there since it began; for any number of lines, generations
\* and pages, any page and chunk size, and whatever is committed, backfilled,
\* evicted or purged between two statements.
THEOREM LinesAreReadOnce == LogQuerySpec => []EveryLineOnce
<1>1. LogQueryInit => WalkInv
  BY WalkStarts
<1>2. WalkInv /\ [LogQueryNext]_lqVars => WalkInv'
  BY WalkGoesOn
<1>3. WalkInv => EveryLineOnce
  BY WalkReadsOnce
<1> QED
  BY <1>1, <1>2, <1>3, PTL DEF LogQuerySpec

-----------------------------------------------------------------------------
(* The entries of the pages *)

\* Lists grow at the front or at the back: whatever holds of the empty list and of
\* one element more holds of all.  By the shortest list of which it does not.
LEMMA GrowsAtBack ==
    ASSUME NEW V, NEW Good, <<>> \in Good,
           \A X \in Seq(V), v \in V : X \in Good => Append(X, v) \in Good
    PROVE  \A X \in Seq(V) : X \in Good
<1> SUFFICES ASSUME NEW X \in Seq(V), X \notin Good PROVE FALSE
  OBVIOUS
<1> DEFINE T == {n \in Nat : \E Y \in Seq(V) : Len(Y) = n /\ Y \notin Good}
<1>1. T # {} /\ T \in SUBSET Nat
  OBVIOUS
<1>2. PICK n \in T : \A m \in T : n <= m
  BY <1>1, LeastNumber
<1>3. PICK Y \in Seq(V) : Len(Y) = n /\ Y \notin Good
  OBVIOUS
<1>4. n \in Nat
  OBVIOUS
<1>5. CASE n = 0
  <2>1. Y = <<>>
    BY <1>3, <1>5
  <2> QED
    BY <1>3, <2>1
<1>6. CASE n # 0
  <2>1. PICK k \in Nat : n = k + 1
    BY <1>4, <1>6
  <2> DEFINE Z == SubSeq(Y, 1, k)
  <2>2. /\ Z \in Seq(V) /\ Len(Z) = k /\ Y[n] \in V
        /\ \A i \in 1 .. k : Z[i] = Y[i]
    BY <1>3, <2>1
  <2>3. Append(Z, Y[n]) = Y
    BY <1>3, <2>1, <2>2
  <2>4. Z \in Good
    <3>1. ~(n <= k)
      BY <2>1
    <3>2. k \notin T
      <4> HIDE DEF T
      <4> QED
        BY <1>2, <3>1
    <3> QED
      BY <2>2, <3>2
  <2> HIDE DEF Z
  <2> QED
    BY <1>3, <2>2, <2>3, <2>4
<1> QED
  BY <1>5, <1>6

LEMMA GrowsAtFront ==
    ASSUME NEW V, NEW Good, <<>> \in Good,
           \A X \in Seq(V), v \in V : X \in Good => <<v>> \o X \in Good
    PROVE  \A X \in Seq(V) : X \in Good
<1> SUFFICES ASSUME NEW X \in Seq(V), X \notin Good PROVE FALSE
  OBVIOUS
<1> DEFINE T == {n \in Nat : \E Y \in Seq(V) : Len(Y) = n /\ Y \notin Good}
<1>1. T # {} /\ T \in SUBSET Nat
  OBVIOUS
<1>2. PICK n \in T : \A m \in T : n <= m
  BY <1>1, LeastNumber
<1>3. PICK Y \in Seq(V) : Len(Y) = n /\ Y \notin Good
  OBVIOUS
<1>4. n \in Nat
  OBVIOUS
<1>5. CASE n = 0
  <2>1. Y = <<>>
    BY <1>3, <1>5
  <2> QED
    BY <1>3, <2>1
<1>6. CASE n # 0
  <2> DEFINE Z == Tail(Y)
  <2>0. Y # <<>>
    BY <1>3, <1>6
  <2>1. PICK k \in Nat : n = k + 1
    BY <1>4, <1>6
  <2>2. /\ Z \in Seq(V) /\ Len(Z) = k /\ Head(Y) \in V
        /\ <<Head(Y)>> \o Z = Y
    BY <1>3, <2>0, <2>1
  <2>4. Z \in Good
    <3>1. ~(n <= k)
      BY <2>1
    <3>2. k \notin T
      <4> HIDE DEF T
      <4> QED
        BY <1>2, <3>1
    <3> QED
      BY <2>2, <3>2
  <2> HIDE DEF Z
  <2> QED
    BY <1>3, <2>2, <2>4
<1> QED
  BY <1>5, <1>6

LEMMA AppendBehind ==
    ASSUME NEW V, NEW A \in Seq(V), NEW B \in Seq(V), NEW v \in V
    PROVE  /\ Append(B, v) \in Seq(V) /\ Append(B, v) # <<>>
           /\ B # <<>> => Append(B, v)[1] = B[1]
           /\ A \o Append(B, v) = Append(A \o B, v)
  OBVIOUS

-----------------------------------------------------------------------------
\* The recursion of Filtered.
Keeping(E, f) ==
    f = [n \in 0 .. Len(E) |->
            IF n = 0 THEN <<>>
            ELSE IF Matches(E[n]) THEN Append(f[n - 1], E[n]) ELSE f[n - 1]]

LEMMA KeepingExists == \A E \in Entries : \E f : Keeping(E, f)
<1> DEFINE Good == {E \in Entries : \E f : Keeping(E, f)}
<1>1. <<>> \in Good
  <2> DEFINE f == [n \in 0 .. 0 |-> <<>>]
  <2>1. Keeping(<<>>, f)
    BY DEF Keeping
  <2> QED
    BY <2>1 DEF Entries
<1>2. ASSUME NEW E \in Entries, NEW e \in Seq(Rows), E \in Good PROVE Append(E, e) \in Good
  <2> DEFINE F == Append(E, e)
             m == Len(E)
  <2>1. PICK f : Keeping(E, f)
    BY <1>2
  <2> DEFINE g == [n \in 0 .. m + 1 |->
                      IF n = m + 1 THEN (IF Matches(e) THEN Append(f[m], e) ELSE f[m]) ELSE f[n]]
  <2>2. F \in Entries /\ Len(F) = m + 1 /\ F[m + 1] = e /\ m \in Nat /\ \A n \in 1 .. m : F[n] = E[n]
    BY DEF Entries
  <2>3. \A n \in 0 .. m :
           f[n] = IF n = 0 THEN <<>> ELSE IF Matches(E[n]) THEN Append(f[n - 1], E[n]) ELSE f[n - 1]
    BY <2>1 DEF Keeping
  <2> HIDE DEF F, m
  <2>4. ASSUME NEW n \in 0 .. m + 1
        PROVE  g[n] = IF n = 0 THEN <<>> ELSE IF Matches(F[n]) THEN Append(g[n - 1], F[n]) ELSE g[n - 1]
    <3>1. CASE n = m + 1
      <4>1. n - 1 = m /\ g[m] = f[m] /\ n # 0 /\ m \in 0 .. m + 1 /\ m # m + 1
        BY <2>2, <3>1
      <4>2. F[n] = e /\ g[n] = IF Matches(e) THEN Append(f[m], e) ELSE f[m]
        BY <2>2, <3>1
      <4> HIDE DEF g
      <4> QED
        BY <4>1, <4>2
    <3>2. CASE n # m + 1
      <4>1. n \in 0 .. m /\ g[n] = f[n]
        BY <2>2, <3>2
      <4>2. n # 0 => g[n - 1] = f[n - 1] /\ F[n] = E[n]
        BY <2>2, <4>1
      <4> HIDE DEF g
      <4> QED
        BY <2>3, <4>1, <4>2
    <3> QED
      BY <3>1, <3>2
  <2>5. g = [n \in 0 .. m + 1 |-> g[n]]
    OBVIOUS
  <2> HIDE DEF g
  <2>6. Keeping(F, g)
    BY <2>2, <2>4, <2>5 DEF Keeping
  <2> QED
    BY <2>2, <2>6 DEF F
<1> HIDE DEF Good
<1>3. \A E \in Entries : E \in Good
  BY <1>1, <1>2, GrowsAtBack DEF Entries
<1> QED
  BY <1>3 DEF Good

LEMMA FilteredUnfolds ==
    ASSUME NEW E \in Entries, query.filter # "all"
    PROVE  \E f : Keeping(E, f) /\ Filtered(E) = f[Len(E)]
<1> DEFINE f == CHOOSE g : Keeping(E, g)
<1>1. Keeping(E, f)
  BY KeepingExists
<1>2. Filtered(E) = f[Len(E)]
  BY DEF Filtered, Keeping
<1> QED
  BY <1>1, <1>2

\* One more entry, handed out if it matches.
Wanted(e) == query.filter = "all" \/ Matches(e)

LEMMA FilterOneMore ==
    ASSUME NEW E \in Entries, NEW e \in Seq(Rows)
    PROVE  Filtered(Append(E, e)) = IF Wanted(e) THEN Append(Filtered(E), e) ELSE Filtered(E)
<1>1. CASE query.filter = "all"
  BY <1>1 DEF Filtered, Wanted
<1>2. CASE query.filter # "all"
  <2> DEFINE F == Append(E, e)
             m == Len(E)
  <2>1. F \in Entries /\ Len(F) = m + 1 /\ F[m + 1] = e /\ m \in Nat /\ \A n \in 1 .. m : F[n] = E[n]
    BY DEF Entries
  <2>2. PICK f : Keeping(E, f) /\ Filtered(E) = f[m]
    BY <1>2, FilteredUnfolds
  <2>3. PICK g : Keeping(F, g) /\ Filtered(F) = g[m + 1]
    BY <1>2, <2>1, FilteredUnfolds
  <2> HIDE DEF F
  <2>4. \A n \in 0 .. m :
           f[n] = IF n = 0 THEN <<>> ELSE IF Matches(E[n]) THEN Append(f[n - 1], E[n]) ELSE f[n - 1]
    BY <2>2 DEF Keeping
  <2>5. \A n \in 0 .. m + 1 :
           g[n] = IF n = 0 THEN <<>> ELSE IF Matches(F[n]) THEN Append(g[n - 1], F[n]) ELSE g[n - 1]
    BY <2>1, <2>3 DEF Keeping
  <2> HIDE DEF m
  <2> DEFINE T == {n \in 0 .. m : f[n] # g[n]}
  <2>6. m \notin T
    <3> SUFFICES ASSUME m \in T PROVE FALSE
      OBVIOUS
    <3>1. T \in SUBSET Nat
      OBVIOUS
    <3> HIDE DEF T
    <3>2. PICK n \in T : \A k \in T : n <= k
      BY <3>1, LeastNumber
    <3>3. n \in 0 .. m /\ f[n] # g[n]
      BY <3>2 DEF T
    <3>4. n \in 0 .. m + 1 /\ (n # 0 => n - 1 \in 0 .. m /\ n \in 1 .. m /\ n - 1 \notin T)
      BY <2>1, <3>2, <3>3
    <3>5. n # 0 => f[n - 1] = g[n - 1]
      BY <3>4 DEF T
    <3>6. n # 0 => F[n] = E[n]
      BY <2>1, <3>4
    <3> QED
      BY <2>4, <2>5, <3>3, <3>4, <3>5, <3>6
  <2>7. f[m] = g[m]
    BY <2>1, <2>6
  <2>8. g[m + 1] = IF Matches(e) THEN Append(g[m], e) ELSE g[m]
    <3>1. PICK n \in 0 .. m + 1 : n = m + 1 /\ n # 0 /\ n - 1 = m
      BY <2>1
    <3>2. g[n] = IF Matches(F[n]) THEN Append(g[n - 1], F[n]) ELSE g[n - 1]
      BY <2>5, <3>1
    <3> QED
      BY <2>1, <3>1, <3>2
  <2> QED
    BY <1>2, <2>2, <2>3, <2>7, <2>8 DEF F, Wanted
<1> QED
  BY <1>1, <1>2

LEMMA FilterNone == Filtered(<<>>) = <<>>
<1>1. CASE query.filter = "all"
  BY <1>1 DEF Filtered
<1>2. CASE query.filter # "all"
  <2>1. <<>> \in Entries /\ Len(<<>>) = 0
    BY DEF Entries
  <2>2. PICK f : Keeping(<<>>, f) /\ Filtered(<<>>) = f[0]
    BY <1>2, <2>1, FilteredUnfolds
  <2>3. f[0] = <<>>
    BY <2>1, <2>2 DEF Keeping
  <2> QED
    BY <2>2, <2>3
<1> QED
  BY <1>1, <1>2

LEMMA FilterTyped == \A E \in Entries : Filtered(E) \in Entries
<1> DEFINE Good == {E \in Entries : Filtered(E) \in Entries}
<1>1. <<>> \in Good
  <2>1. <<>> \in Entries
    BY DEF Entries
  <2> QED
    BY <2>1, FilterNone
<1>2. ASSUME NEW E \in Entries, NEW e \in Seq(Rows), E \in Good PROVE Append(E, e) \in Good
  <2>1. Append(E, e) \in Entries /\ Append(Filtered(E), e) \in Entries /\ Filtered(E) \in Entries
    BY <1>2 DEF Entries
  <2> QED
    BY <2>1, FilterOneMore
<1> HIDE DEF Good
<1>3. \A E \in Entries : E \in Good
  BY <1>1, <1>2, GrowsAtBack DEF Entries
<1> QED
  BY <1>3 DEF Good

\* Two lists one behind the other are filtered each for itself.
LEMMA FilterConcat ==
    ASSUME NEW E \in Entries
    PROVE  \A F \in Entries : Filtered(E \o F) = Filtered(E) \o Filtered(F)
<1> DEFINE Good == {F \in Entries : Filtered(E \o F) = Filtered(E) \o Filtered(F)}
<1>1. <<>> \in Good
  <2>1. E \o <<>> = E /\ Filtered(E) \o <<>> = Filtered(E) /\ <<>> \in Entries
    BY FilterTyped DEF Entries
  <2> QED
    BY <2>1, FilterNone
<1>2. ASSUME NEW F \in Entries, NEW e \in Seq(Rows), F \in Good PROVE Append(F, e) \in Good
  <2>1. Append(F, e) \in Entries /\ E \o F \in Entries /\ E \o Append(F, e) = Append(E \o F, e)
    BY DEF Entries
  <2>2. Filtered(E) \in Entries /\ Filtered(F) \in Entries
    BY FilterTyped
  <2>3. Filtered(E) \o Append(Filtered(F), e) = Append(Filtered(E) \o Filtered(F), e)
    BY <2>2 DEF Entries
  <2>4. Filtered(E \o F) = Filtered(E) \o Filtered(F)
    BY <1>2
  <2>5. Filtered(Append(E \o F, e)) = IF Wanted(e) THEN Append(Filtered(E \o F), e) ELSE Filtered(E \o F)
    BY <2>1, FilterOneMore
  <2>6. Filtered(Append(F, e)) = IF Wanted(e) THEN Append(Filtered(F), e) ELSE Filtered(F)
    BY FilterOneMore
  <2> QED
    BY <2>1, <2>3, <2>4, <2>5, <2>6
<1> HIDE DEF Good
<1>3. \A F \in Entries : F \in Good
  BY <1>1, <1>2, GrowsAtBack DEF Entries
<1> QED
  BY <1>3 DEF Good

\* Where the entry at k of what is handed out stands in the list.
LEMMA FilterSplits ==
    \A E \in Entries : \A k \in 1 .. Len(Filtered(E)) :
       \E A, B \in Entries :
          /\ E = A \o B /\ B # <<>> /\ B[1] = Filtered(E)[k]
          /\ Len(Filtered(A)) = k - 1
<1> DEFINE Fits(E, k, A, B) ==
               E = A \o B /\ B # <<>> /\ B[1] = Filtered(E)[k] /\ Len(Filtered(A)) = k - 1
           Good == {E \in Entries : \A k \in 1 .. Len(Filtered(E)) : \E A, B \in Entries : Fits(E, k, A, B)}
<1>1. <<>> \in Good
  BY FilterNone DEF Entries
<1>2. ASSUME NEW E \in Entries, NEW e \in Seq(Rows), E \in Good PROVE Append(E, e) \in Good
  <2> DEFINE F == Append(E, e)
  <2>1. F \in Entries /\ Filtered(E) \in Entries
        /\ Filtered(F) = IF Wanted(e) THEN Append(Filtered(E), e) ELSE Filtered(E)
    BY FilterOneMore, FilterTyped DEF Entries
  <2>2. ASSUME NEW k \in 1 .. Len(Filtered(F)) PROVE \E A, B \in Entries : Fits(F, k, A, B)
    <3>1. Len(Filtered(E)) \in Nat /\ k \in Nat /\ k > 0
      BY <2>1 DEF Entries
    <3>2. CASE k \in 1 .. Len(Filtered(E))
      <4>1. PICK A \in Entries, B \in Entries : Fits(E, k, A, B)
        BY <1>2, <3>2
      <4>2. Filtered(F)[k] = Filtered(E)[k]
        BY <2>1, <3>2 DEF Entries
      <4>3. Append(B, e) \in Entries /\ Append(B, e) # <<>> /\ Append(B, e)[1] = B[1] /\ F = A \o Append(B, e)
        <5>1. B # <<>> /\ E = A \o B
          BY <4>1
        <5>2. A \in Seq(Seq(Rows)) /\ B \in Seq(Seq(Rows))
          BY DEF Entries
        <5>3. /\ Append(B, e) \in Seq(Seq(Rows)) /\ Append(B, e) # <<>>
              /\ B # <<>> => Append(B, e)[1] = B[1]
              /\ A \o Append(B, e) = Append(A \o B, e)
          <6>1. PICK V : V = Seq(Rows)
            OBVIOUS
          <6>2. A \in Seq(V) /\ B \in Seq(V) /\ e \in V
            BY <5>2, <6>1
          <6>3. /\ Append(B, e) \in Seq(V) /\ Append(B, e) # <<>>
                /\ B # <<>> => Append(B, e)[1] = B[1]
                /\ A \o Append(B, e) = Append(A \o B, e)
            BY SMTT(30), <6>2, AppendBehind
          <6> QED
            BY <6>1, <6>3
        <5> QED
          BY <5>1, <5>3 DEF Entries
      <4>4. Fits(F, k, A, Append(B, e))
        BY <4>1, <4>2, <4>3
      <4> QED
        BY <4>3, <4>4
    <3>3. CASE k \notin 1 .. Len(Filtered(E))
      <4>1. Wanted(e)
        BY <2>1, <3>3
      <4>2. Filtered(F) = Append(Filtered(E), e) /\ k = Len(Filtered(E)) + 1
        BY <2>1, <3>1, <3>3, <4>1 DEF Entries
      <4>3. Filtered(F)[k] = e
        BY <2>1, <4>2 DEF Entries
      <4>4. <<e>> \in Entries /\ <<e>> # <<>> /\ <<e>>[1] = e /\ F = E \o <<e>>
        BY DEF Entries
      <4>5. Fits(F, k, E, <<e>>)
        BY <3>1, <4>2, <4>3, <4>4
      <4> QED
        BY <4>4, <4>5
    <3> QED
      BY <3>2, <3>3
  <2> QED
    BY <2>1, <2>2
<1> HIDE DEF Good
<1>3. \A E \in Entries : E \in Good
  BY <1>1, <1>2, GrowsAtBack DEF Entries
<1> QED
  BY <1>3 DEF Good

\* Rows that are no stack frames: whether one continues an entry depends on the
\* first line of the entry alone.
Plain == {r \in Rows : r.kind # "frame"}
PlainEntries == Seq(Seq(Plain))

\* An entry is a line and those that continue it.
OneEntry(h) == h # <<>> /\ \A i \in 2 .. Len(h) : Continues(h[i], h)
Groups == {E \in PlainEntries : \A k \in 1 .. Len(E) : OneEntry(E[k])}

LEMMA PlainAreRows ==
    /\ Seq(Plain) \subseteq Seq(Rows) /\ PlainEntries \subseteq Entries
    /\ Groups \subseteq PlainEntries
<1>1. Plain \subseteq Rows
  BY DEF Plain
<1>2. ASSUME NEW s \in Seq(Plain) PROVE s \in Seq(Rows)
  <2>1. Len(s) \in Nat /\ s = [i \in 1 .. Len(s) |-> s[i]] /\ \A i \in 1 .. Len(s) : s[i] \in Rows
    BY <1>1
  <2> QED
    BY <2>1
<1>3. ASSUME NEW E \in PlainEntries PROVE E \in Entries
  <2>1. Len(E) \in Nat /\ E = [i \in 1 .. Len(E) |-> E[i]] /\ \A i \in 1 .. Len(E) : E[i] \in Seq(Plain)
    BY DEF PlainEntries
  <2>2. \A i \in 1 .. Len(E) : E[i] \in Seq(Rows)
    BY <1>2, <2>1
  <2> HIDE DEF Rows
  <2> QED
    BY <2>1, <2>2 DEF Entries
<1> QED
  BY <1>2, <1>3 DEF Groups

\* Continuing: only the first line counts.
LEMMA ContinuesFirst ==
    ASSUME NEW r \in Plain, NEW e, NEW h, e[1].gen = h[1].gen,
           e[1].kind = "blank" <=> h[1].kind = "blank"
    PROVE  Continues(r, e) <=> Continues(r, h)
  BY DEF Continues, Plain

\* Sequence facts the proofs below use on lists whose elements are any values.
LEMMA ConcatFacts ==
    ASSUME NEW V, NEW D \in Seq(V), NEW F \in Seq(V)
    PROVE  /\ D \o F \in Seq(V) /\ Len(D \o F) = Len(D) + Len(F)
           /\ Len(D) \in Nat /\ Len(F) \in Nat
           /\ \A k \in 1 .. Len(D) : (D \o F)[k] = D[k]
           /\ \A k \in 1 .. Len(F) : (D \o F)[Len(D) + k] = F[k]
  OBVIOUS

LEMMA Single ==
    ASSUME NEW V, NEW r \in V
    PROVE  <<r>> \in Seq(V)
  OBVIOUS

LEMMA FrontFacts ==
    ASSUME NEW V, NEW X \in Seq(V), NEW r \in V
    PROVE  /\ <<r>> \in Seq(V) /\ <<r>> \o X \in Seq(V) /\ Len(<<r>> \o X) = Len(X) + 1
           /\ Len(X) \in Nat /\ (<<r>> \o X)[1] = r
           /\ \A i \in 1 .. Len(X) : (<<r>> \o X)[i + 1] = X[i]
           /\ <<r>> # <<>> /\ <<r>> \o X # <<>> /\ Head(<<r>> \o X) = r /\ Tail(<<r>> \o X) = X
  OBVIOUS

\* A row folded in: an entry of its own, or behind the entry it continues.
LEMMA FoldNew ==
    ASSUME NEW E, NEW r, ~(E # <<>> /\ Continues(r, Last(E)))
    PROVE  FoldLine(r, E) = Append(E, <<r>>)
  BY DEF FoldLine

LEMMA FoldGrows ==
    ASSUME NEW E \in PlainEntries, NEW r \in Plain, E # <<>>, Continues(r, Last(E))
    PROVE  LET F == FoldLine(r, E)
               m == Len(E)
           IN  /\ F \in PlainEntries /\ m \in Nat /\ m > 0 /\ Len(F) = m
               /\ F[m] = Append(E[m], r) /\ E[m] \in Seq(Plain) /\ Last(E) = E[m]
               /\ \A k \in 1 .. m - 1 : F[k] = E[k]
<1> DEFINE m == Len(E)
           F == FoldLine(r, E)
           t == Append(E[m], r)
<1>1. m \in Nat /\ m > 0 /\ m \in 1 .. m /\ E[m] \in Seq(Plain) /\ Last(E) = E[m]
  BY DEF PlainEntries, Last
<1>2. t \in Seq(Plain)
  BY <1>1
<1>3. F = [E EXCEPT ![m] = t]
  BY DEF FoldLine
<1> HIDE DEF t, F, m
<1>4. DOMAIN E = 1 .. m /\ \A k \in 1 .. m : E[k] \in Seq(Plain)
  BY DEF PlainEntries, m
<1>5. F \in [1 .. m -> Seq(Plain)] /\ F[m] = t /\ \A k \in 1 .. m - 1 : F[k] = E[k]
  <2>1. \A k \in 1 .. m - 1 : k \in 1 .. m /\ k # m
    BY <1>1
  <2>2. E = [k \in 1 .. m |-> E[k]]
    BY <1>4 DEF PlainEntries
  <2>3. F = [k \in 1 .. m |-> IF k = m THEN t ELSE E[k]]
    BY <1>3, <2>2
  <2> QED
    BY <1>1, <1>2, <1>4, <2>1, <2>3
<1>6. F \in PlainEntries /\ Len(F) = m
  BY <1>1, <1>5 DEF PlainEntries
<1> QED
  BY <1>1, <1>5, <1>6 DEF t, F, m

LEMMA OneEntryGrows ==
    ASSUME NEW h \in Seq(Plain), OneEntry(h), NEW r \in Plain, Continues(r, h)
    PROVE  OneEntry(Append(h, r)) /\ Append(h, r)[1] = h[1]
<1> DEFINE t == Append(h, r)
           n == Len(h)
<1>1. n \in Nat /\ n > 0 /\ Len(t) = n + 1 /\ t # <<>> /\ t[1] = h[1] /\ t[n + 1] = r
      /\ \A i \in 1 .. n : t[i] = h[i]
  BY DEF OneEntry
<1> HIDE DEF t
<1>2. ASSUME NEW i \in 2 .. Len(t) PROVE Continues(t[i], t)
  <2>1. CASE i \in 2 .. n
    <3>1. Continues(h[i], h) /\ t[i] = h[i]
      BY <1>1, <2>1 DEF OneEntry
    <3> QED
      BY <1>1, <3>1 DEF Continues
  <2>2. CASE i = n + 1
    BY <1>1, <2>2 DEF Continues
  <2> QED
    BY <1>1, <2>1, <2>2
<1> QED
  BY <1>1, <1>2 DEF OneEntry, t

LEMMA FoldKeepsGroups ==
    ASSUME NEW E \in Groups, NEW r \in Plain
    PROVE  FoldLine(r, E) \in Groups /\ FoldLine(r, E) # <<>>
<1> DEFINE F == FoldLine(r, E)
           m == Len(E)
<1>1. E \in PlainEntries /\ \A k \in 1 .. m : OneEntry(E[k])
  BY DEF Groups
<1>2. CASE E # <<>> /\ Continues(r, Last(E))
  <2>1. /\ F \in PlainEntries /\ m \in Nat /\ m > 0 /\ Len(F) = m
        /\ F[m] = Append(E[m], r) /\ E[m] \in Seq(Plain) /\ Last(E) = E[m]
        /\ \A k \in 1 .. m - 1 : F[k] = E[k]
    BY <1>1, <1>2, FoldGrows
  <2> HIDE DEF F, m
  <2>2. m \in 1 .. m /\ \A k \in 1 .. m : k = m \/ k \in 1 .. m - 1
    BY <2>1
  <2>3. OneEntry(F[m])
    BY <1>1, <1>2, <2>1, <2>2, OneEntryGrows
  <2>4. \A k \in 1 .. m : OneEntry(F[k])
    BY <1>1, <2>1, <2>2, <2>3
  <2>5. F # <<>>
    BY <2>1
  <2> QED
    BY <2>1, <2>4, <2>5 DEF Groups, F
<1>3. CASE ~(E # <<>> /\ Continues(r, Last(E)))
  <2>1. F = Append(E, <<r>>)
    BY <1>3, FoldNew
  <2>2. OneEntry(<<r>>)
    BY DEF OneEntry
  <2>3. PICK t \in Seq(Plain) : t = <<r>>
    <3>1. <<r>> \in Seq(Plain)
      BY Single
    <3> QED
      BY <3>1
  <2>4. /\ Append(E, t) \in PlainEntries /\ Len(Append(E, t)) = m + 1 /\ m \in Nat
        /\ Append(E, t)[m + 1] = t
        /\ \A k \in 1 .. m : Append(E, t)[k] = E[k]
    BY <1>1 DEF PlainEntries
  <2>5. F \in PlainEntries /\ Len(F) = m + 1 /\ F[m + 1] = t /\ \A k \in 1 .. m : F[k] = E[k]
    BY <2>1, <2>3, <2>4
  <2> HIDE DEF F, m
  <2>6. \A k \in 1 .. m + 1 : k \in 1 .. m \/ k = m + 1
    BY <2>4
  <2>7. \A k \in 1 .. m + 1 : OneEntry(F[k])
    BY <1>1, <2>2, <2>3, <2>5, <2>6
  <2>8. F # <<>>
    BY <2>4, <2>5
  <2> QED
    BY <2>5, <2>7, <2>8 DEF Groups, F
<1> QED
  BY <1>2, <1>3

\* Only the newest entry may grow.
LEMMA FoldBehind ==
    ASSUME NEW D \in PlainEntries, NEW E \in PlainEntries, E # <<>>, NEW r \in Plain
    PROVE  FoldLine(r, D \o E) = D \o FoldLine(r, E)
<1> DEFINE d == Len(D)
           m == Len(E)
           C == D \o E
<1>1. /\ d \in Nat /\ m \in Nat /\ m > 0 /\ C \in PlainEntries /\ C # <<>> /\ Len(C) = d + m
      /\ \A k \in 1 .. d : C[k] = D[k]
      /\ \A k \in 1 .. m : C[d + k] = E[k]
  BY DEF PlainEntries
<1>2. Last(C) = Last(E)
  <2>1. m \in 1 .. m /\ Last(C) = C[d + m] /\ Last(E) = E[m]
    BY <1>1 DEF Last
  <2> QED
    BY <1>1, <2>1
<1>3. CASE ~Continues(r, Last(E))
  <2>1. FoldLine(r, C) = Append(C, <<r>>) /\ FoldLine(r, E) = Append(E, <<r>>)
    BY <1>2, <1>3, FoldNew
  <2>2. PICK t \in Seq(Plain) : t = <<r>>
    <3>1. <<r>> \in Seq(Plain)
      BY Single
    <3> QED
      BY <3>1
  <2>3. D \o Append(E, t) = Append(D \o E, t)
    BY DEF PlainEntries
  <2> QED
    BY <2>1, <2>2, <2>3
<1>4. CASE Continues(r, Last(E))
  <2> DEFINE F == FoldLine(r, E)
             G == FoldLine(r, C)
             H == D \o F
  <2>1. /\ F \in PlainEntries /\ Len(F) = m
        /\ F[m] = Append(E[m], r)
        /\ \A k \in 1 .. m - 1 : F[k] = E[k]
    BY <1>4, FoldGrows
  <2> HIDE DEF F, C
  <2>2. /\ G \in PlainEntries /\ Len(G) = d + m
        /\ G[d + m] = Append(C[d + m], r)
        /\ \A k \in 1 .. d + m - 1 : G[k] = C[k]
    BY <1>1, <1>2, <1>4, FoldGrows
  <2> HIDE DEF G
  <2>3. /\ H \in PlainEntries /\ Len(H) = d + m
        /\ \A k \in 1 .. d : H[k] = D[k]
        /\ \A k \in 1 .. m : H[d + k] = F[k]
    <3>1. PICK V : V = Seq(Plain)
      OBVIOUS
    <3>2. D \in Seq(V) /\ F \in Seq(V)
      BY <2>1, <3>1 DEF PlainEntries
    <3>3. /\ D \o F \in Seq(V) /\ Len(D \o F) = Len(D) + Len(F)
          /\ \A k \in 1 .. Len(D) : (D \o F)[k] = D[k]
          /\ \A k \in 1 .. Len(F) : (D \o F)[Len(D) + k] = F[k]
      BY <3>2, ConcatFacts
    <3> HIDE DEF H
    <3>4. H = D \o F
      BY DEF H
    <3> QED
      BY <2>1, <3>1, <3>3, <3>4 DEF PlainEntries
  <2> HIDE DEF H, d, m
  <2>4. ASSUME NEW k \in 1 .. d + m PROVE G[k] = H[k]
    <3>1. CASE k \in 1 .. d
      <4>1. k \in 1 .. d + m - 1
        BY <1>1, <3>1
      <4> QED
        BY <1>1, <2>2, <2>3, <3>1, <4>1
    <3>2. CASE k \notin 1 .. d
      <4>1. PICK j \in 1 .. m : k = d + j
        <5>1. k - d \in 1 .. m /\ k = d + (k - d)
          BY <1>1, <3>2
        <5> QED
          BY <5>1
      <4>2. CASE j = m
        <5>1. C[d + m] = E[m] /\ H[d + m] = F[m]
          BY <1>1, <2>3, <4>1, <4>2
        <5>2. G[d + m] = Append(C[d + m], r) /\ F[m] = Append(E[m], r) /\ k = d + m
          BY <2>1, <2>2, <4>1, <4>2
        <5> QED
          BY <5>1, <5>2
      <4>3. CASE j # m
        <5>1. j \in 1 .. m - 1 /\ k \in 1 .. d + m - 1
          BY <1>1, <4>1, <4>3
        <5>2. G[k] = C[k]
          BY <2>2, <5>1
        <5>3. C[k] = E[j] /\ H[k] = F[j]
          BY <1>1, <2>3, <4>1
        <5>4. F[j] = E[j]
          BY <2>1, <5>1
        <5> QED
          BY <5>2, <5>3, <5>4
      <4> QED
        BY <4>2, <4>3
    <3> QED
      BY <3>1, <3>2
  <2>5. G = H
    <3>1. G = [k \in 1 .. d + m |-> G[k]] /\ H = [k \in 1 .. d + m |-> H[k]]
      BY <2>2, <2>3 DEF PlainEntries
    <3> QED
      BY <2>4, <3>1
  <2> QED
    BY <2>5 DEF F, G, H, C
<1> QED
  BY <1>3, <1>4

-----------------------------------------------------------------------------
LEMMA GroupNone == GroupRows(<<>>) = <<>>
<1>1. <<>> \in Seq(Rows) /\ Len(<<>>) = 0
  OBVIOUS
<1>2. PICK f : Grouping(<<>>, 0, f) /\ GroupRows(<<>>) = f[0]
  BY <1>1, GroupRowsUnfolds
<1>3. f[0] = <<>>
  BY <1>2 DEF Grouping
<1> QED
  BY <1>2, <1>3

\* One more row, newer than the others.
LEMMA GroupOneMore ==
    ASSUME NEW X \in Seq(Plain), NEW r \in Plain
    PROVE  GroupRows(<<r>> \o X) = FoldLine(r, GroupRows(X))
<1> DEFINE Y == <<r>> \o X
           n == Len(X)
<1>1. /\ n \in Nat /\ X \in Seq(Rows) /\ Y \in Seq(Plain) /\ Y \in Seq(Rows) /\ Len(Y) = n + 1
      /\ Y[1] = r /\ \A i \in 1 .. n : Y[i + 1] = X[i]
  <2>1. /\ n \in Nat /\ Y \in Seq(Plain) /\ Len(Y) = n + 1
        /\ Y[1] = r /\ \A i \in 1 .. n : Y[i + 1] = X[i]
    BY FrontFacts
  <2> QED
    BY <2>1, PlainAreRows
<1> HIDE DEF Y
<1>2. PICK f : Grouping(X, n, f) /\ GroupRows(X) = f[n]
  BY <1>1, GroupRowsUnfolds
<1>3. PICK g : Grouping(Y, n + 1, g) /\ GroupRows(Y) = g[n + 1]
  BY <1>1, GroupRowsUnfolds
<1>4. \A k \in 0 .. n : f[k] = IF k = 0 THEN <<>> ELSE FoldLine(X[n + 1 - k], f[k - 1])
  BY <1>2 DEF Grouping
<1>5. \A k \in 0 .. n + 1 : g[k] = IF k = 0 THEN <<>> ELSE FoldLine(Y[n + 2 - k], g[k - 1])
  <2>1. \A k \in 0 .. n + 1 : g[k] = IF k = 0 THEN <<>> ELSE FoldLine(Y[Len(Y) + 1 - k], g[k - 1])
    BY <1>3 DEF Grouping
  <2>2. \A k \in 0 .. n + 1 : Len(Y) + 1 - k = n + 2 - k
    BY <1>1
  <2> QED
    BY <2>1, <2>2
<1> HIDE DEF n
<1> DEFINE T == {k \in 0 .. n : f[k] # g[k]}
<1>6. n \notin T
  <2> SUFFICES ASSUME n \in T PROVE FALSE
    OBVIOUS
  <2>1. T \in SUBSET Nat
    OBVIOUS
  <2> HIDE DEF T
  <2>2. PICK k \in T : \A m \in T : k <= m
    BY <2>1, LeastNumber
  <2>3. k \in 0 .. n /\ f[k] # g[k]
    BY <2>2 DEF T
  <2>4. k \in 0 .. n + 1 /\ (k # 0 => k - 1 \in 0 .. n /\ k - 1 \notin T)
    BY <1>1, <2>2, <2>3
  <2>5. k # 0 => f[k - 1] = g[k - 1]
    BY <2>4 DEF T
  <2>6. k # 0 => Y[n + 2 - k] = X[n + 1 - k]
    <3>1. k # 0 => n + 1 - k \in 1 .. n /\ n + 2 - k = (n + 1 - k) + 1
      BY <1>1, <2>3
    <3> QED
      BY <1>1, <3>1
  <2> QED
    BY <1>4, <1>5, <2>3, <2>4, <2>5, <2>6
<1>7. f[n] = g[n]
  BY <1>1, <1>6
<1>8. g[n + 1] = FoldLine(r, g[n])
  <2>1. PICK k \in 0 .. n + 1 : k = n + 1 /\ k # 0 /\ k - 1 = n /\ n + 2 - k = 1
    BY <1>1
  <2>2. g[k] = FoldLine(Y[n + 2 - k], g[k - 1])
    BY <1>5, <2>1
  <2> QED
    BY <1>1, <2>1, <2>2
<1> QED
  BY <1>2, <1>3, <1>7, <1>8 DEF Y

LEMMA GroupsSound ==
    \A X \in Seq(Plain) : GroupRows(X) \in Groups /\ (X # <<>> => GroupRows(X) # <<>>)
<1> DEFINE Good == {X \in Seq(Plain) : GroupRows(X) \in Groups /\ (X # <<>> => GroupRows(X) # <<>>)}
<1>1. <<>> \in Good
  <2>1. <<>> \in Groups
    BY DEF Groups, PlainEntries
  <2> QED
    BY <2>1, GroupNone
<1>2. ASSUME NEW X \in Seq(Plain), NEW r \in Plain, X \in Good PROVE <<r>> \o X \in Good
  <2>1. GroupRows(<<r>> \o X) = FoldLine(r, GroupRows(X))
    BY GroupOneMore
  <2>2. FoldLine(r, GroupRows(X)) \in Groups /\ FoldLine(r, GroupRows(X)) # <<>>
    BY <1>2, FoldKeepsGroups
  <2>3. <<r>> \o X \in Seq(Plain)
    OBVIOUS
  <2> QED
    BY <2>1, <2>2, <2>3
<1> HIDE DEF Good
<1>3. \A X \in Seq(Plain) : X \in Good
  BY <1>1, <1>2, GrowsAtFront
<1> QED
  BY <1>3 DEF Good

\* Rows read on top of older ones.
LEMMA AppendEnds ==
    ASSUME NEW V, NEW B \in Seq(V), NEW v \in V
    PROVE  Append(B, v) # <<>> /\ Last(Append(B, v)) = v /\ Append(B, v) \in Seq(V)
  BY DEF Last

LEMMA OnTop ==
    ASSUME NEW V, NEW B \in Seq(V), NEW A \in Seq(V), NEW v \in V
    PROVE  A \o B \in Seq(V) /\ (<<v>> \o A) \o B = <<v>> \o (A \o B)
  OBVIOUS

\* A list turned round.
LEMMA ReverseFacts ==
    ASSUME NEW V, NEW h \in Seq(V), NEW r \in V
    PROVE  /\ Reverse(h) \in Seq(V) /\ Reverse(<<r>>) = <<r>>
           /\ Reverse(Append(h, r)) = <<r>> \o Reverse(h)
<1> DEFINE n == Len(h)
           R == Reverse(h)
           t == Append(h, r)
           S == Reverse(t)
           U == <<r>> \o R
<1>1. n \in Nat /\ DOMAIN h = 1 .. n /\ \A i \in 1 .. n : h[i] \in V
  OBVIOUS
<1>2. R = [i \in 1 .. n |-> h[(n - i) + 1]]
  BY DEF Reverse
<1>3. \A i \in 1 .. n : (n - i) + 1 \in 1 .. n
  BY <1>1
<1> HIDE DEF R
<1>4. R \in Seq(V) /\ Len(R) = n
  BY <1>1, <1>2, <1>3
<1>5. t \in Seq(V) /\ Len(t) = n + 1 /\ t[n + 1] = r /\ \A i \in 1 .. n : t[i] = h[i]
  BY <1>1
<1> HIDE DEF t
<1>6. S = [i \in 1 .. n + 1 |-> t[(n + 1 - i) + 1]]
  BY <1>5 DEF Reverse
<1> HIDE DEF S
<1>7. /\ U \in Seq(V) /\ Len(U) = n + 1 /\ U[1] = r /\ \A i \in 1 .. n : U[i + 1] = R[i]
  BY <1>4, FrontFacts
<1> HIDE DEF U
<1>8. ASSUME NEW i \in 1 .. n + 1 PROVE S[i] = U[i]
  <2>1. CASE i = 1
    BY <2>1, <1>1, <1>5, <1>6, <1>7
  <2>2. CASE i # 1
    <3>1. PICK k \in 1 .. n : i = k + 1
      <4>1. i - 1 \in 1 .. n /\ i = (i - 1) + 1
        BY <2>2, <1>1
      <4> QED
        BY <4>1
    <3>2. (n + 1 - i) + 1 = (n - k) + 1 /\ (n - k) + 1 \in 1 .. n
      BY <3>1, <1>1
    <3>3. S[i] = t[(n - k) + 1] /\ U[i] = R[k]
      BY <3>1, <3>2, <1>6, <1>7
    <3> QED
      BY <3>1, <3>2, <3>3, <1>2, <1>5
  <2> QED
    BY <2>1, <2>2
<1>9. S = U
  <2>1. U = [i \in 1 .. n + 1 |-> U[i]]
    BY <1>7
  <2> QED
    BY <1>6, <1>8, <2>1
<1>10. Reverse(<<r>>) = <<r>>
  BY DEF Reverse
<1> QED
  BY <1>4, <1>9, <1>10 DEF R, S, t, U

\* The rows of an entry read on top of others end up in one entry, whose first line
\* is of the same kind.
SameFirst(e, h) == e[1].gen = h[1].gen /\ (e[1].kind = "blank" <=> h[1].kind = "blank")

LEMMA OneRowOnTop ==
    ASSUME NEW B \in Seq(Plain), NEW r \in Plain
    PROVE  LET E == GroupRows(<<r>> \o B)
           IN  E # <<>> /\ Last(E) \in Seq(Plain) /\ SameFirst(Last(E), <<r>>)
<1> DEFINE E == GroupRows(<<r>> \o B)
           D == GroupRows(B)
<1>1. D \in Groups /\ D \in PlainEntries /\ E = FoldLine(r, D)
  BY GroupsSound, GroupOneMore, PlainAreRows
<1> HIDE DEF D, E
<1>2. CASE D # <<>> /\ Continues(r, Last(D))
  <2> DEFINE m == Len(D)
  <2>1. /\ E \in PlainEntries /\ m \in Nat /\ m > 0 /\ Len(E) = m
        /\ E[m] = Append(D[m], r) /\ D[m] \in Seq(Plain) /\ Last(D) = D[m]
    BY <1>1, <1>2, FoldGrows
  <2>2. OneEntry(D[m])
    BY <1>1, <2>1 DEF Groups
  <2> HIDE DEF m
  <2>3. Last(E) = Append(D[m], r) /\ E # <<>>
    BY <2>1 DEF Last
  <2>4. Append(D[m], r)[1] = D[m][1] /\ Append(D[m], r) \in Seq(Plain)
    BY <2>1, <2>2 DEF OneEntry
  <2>5. r.gen = D[m][1].gen /\ D[m][1].kind # "blank" /\ r.kind # "blank"
    BY <1>2, <2>1 DEF Continues
  <2>6. <<r>>[1] = r
    OBVIOUS
  <2> QED
    BY <2>3, <2>4, <2>5, <2>6 DEF SameFirst, E
<1>3. CASE ~(D # <<>> /\ Continues(r, Last(D)))
  <2>1. E = Append(D, <<r>>)
    BY <1>1, <1>3, FoldNew
  <2>2. PICK t \in Seq(Plain) : t = <<r>>
    <3>1. <<r>> \in Seq(Plain)
      BY Single
    <3> QED
      BY <3>1
  <2>3. Append(D, t) # <<>> /\ Last(Append(D, t)) = t
    <3>1. PICK V : V = Seq(Plain)
      OBVIOUS
    <3>2. D \in Seq(V) /\ t \in V
      BY <1>1, <3>1 DEF PlainEntries
    <3> QED
      BY <3>2, AppendEnds
  <2> QED
    BY <2>1, <2>2, <2>3 DEF SameFirst, E
<1> QED
  BY <1>2, <1>3

LEMMA EntryOnTop ==
    \A h \in Seq(Plain) : OneEntry(h) =>
       \A B \in Seq(Plain) :
          LET E == GroupRows(Reverse(h) \o B)
          IN  E # <<>> /\ SameFirst(Last(E), h)
<1> DEFINE Fits(h, B) == LET E == GroupRows(Reverse(h) \o B) IN E # <<>> /\ SameFirst(Last(E), h)
           Good == {h \in Seq(Plain) : OneEntry(h) => \A B \in Seq(Plain) : Fits(h, B)}
<1>1. <<>> \in Good
  BY DEF OneEntry
<1>2. ASSUME NEW h \in Seq(Plain), NEW r \in Plain, h \in Good PROVE Append(h, r) \in Good
  <2> SUFFICES ASSUME OneEntry(Append(h, r)), NEW B \in Seq(Plain) PROVE Fits(Append(h, r), B)
    OBVIOUS
  <2>1. CASE h = <<>>
    <3>1. Append(h, r) = <<r>>
      BY <2>1
    <3>2. Reverse(<<r>>) = <<r>>
      BY ReverseFacts
    <3> QED
      BY <3>1, <3>2, OneRowOnTop
  <2>2. CASE h # <<>>
    <3> DEFINE t == Append(h, r)
               n == Len(h)
               X == Reverse(h) \o B
               D == GroupRows(X)
    <3>1. n \in Nat /\ n > 0 /\ Len(t) = n + 1 /\ t[1] = h[1] /\ t[n + 1] = r
          /\ \A i \in 1 .. n : t[i] = h[i]
      BY <2>2
    <3>2. /\ Reverse(h) \in Seq(Plain) /\ X \in Seq(Plain) /\ <<r>> \in Seq(Plain)
          /\ Reverse(t) = <<r>> \o Reverse(h) /\ Reverse(t) \o B = <<r>> \o X
      <4>1. Reverse(h) \in Seq(Plain) /\ Reverse(t) = <<r>> \o Reverse(h)
        BY ReverseFacts
      <4>2. X \in Seq(Plain) /\ (<<r>> \o Reverse(h)) \o B = <<r>> \o X
        BY <4>1, OnTop
      <4> QED
        BY <4>1, <4>2, Single
    <3> HIDE DEF t, X
    <3>3. OneEntry(h) /\ Continues(r, h)
      <4>1. \A i \in 2 .. n : Continues(h[i], h)
        <5> SUFFICES ASSUME NEW i \in 2 .. n PROVE Continues(h[i], h)
          OBVIOUS
        <5>1. Continues(t[i], t) /\ t[i] = h[i]
          BY <3>1 DEF OneEntry, t
        <5> QED
          BY <3>1, <5>1 DEF Continues
      <4>2. Continues(t[n + 1], t)
        BY <3>1 DEF OneEntry, t
      <4>3. Continues(r, h)
        BY <3>1, <4>2 DEF Continues
      <4> QED
        BY <2>2, <4>1, <4>3 DEF OneEntry
    <3>4. D # <<>> /\ SameFirst(Last(D), h)
      BY <1>2, <3>3 DEF X
    <3>5. Continues(r, Last(D))
      BY <3>3, <3>4, ContinuesFirst DEF SameFirst
    <3>6. D \in Groups /\ D \in PlainEntries /\ GroupRows(<<r>> \o X) = FoldLine(r, D)
      BY <3>2, GroupsSound, GroupOneMore, PlainAreRows
    <3> HIDE DEF D
    <3> DEFINE m == Len(D)
               F == FoldLine(r, D)
    <3>7. /\ F \in PlainEntries /\ m \in Nat /\ m > 0 /\ Len(F) = m
          /\ F[m] = Append(D[m], r) /\ D[m] \in Seq(Plain) /\ Last(D) = D[m]
      BY <3>4, <3>5, <3>6, FoldGrows
    <3>8. OneEntry(D[m])
      BY SMTT(30), <3>6, <3>7 DEF Groups
    <3> HIDE DEF m, F
    <3>9. F # <<>> /\ Last(F) = Append(D[m], r)
      BY <3>7 DEF Last
    <3>10. Append(D[m], r)[1] = D[m][1]
      BY <3>7, <3>8 DEF OneEntry
    <3>11. SameFirst(Last(F), t)
      BY <3>1, <3>4, <3>7, <3>9, <3>10 DEF SameFirst
    <3> QED
      BY <3>2, <3>6, <3>9, <3>11 DEF F, t
  <2> QED
    BY <2>1, <2>2
<1> HIDE DEF Good
<1>3. \A h \in Seq(Plain) : h \in Good
  BY <1>1, <1>2, GrowsAtBack
<1> QED
  BY <1>3 DEF Good

-----------------------------------------------------------------------------
LEMMA HeadFacts ==
    ASSUME NEW V, NEW E \in Seq(V), E # <<>>
    PROVE  /\ Head(E) \in V /\ Tail(E) \in Seq(V) /\ E = <<Head(E)>> \o Tail(E)
           /\ \A T \in Seq(V), h \in V : Head(<<h>> \o T) = h /\ Tail(<<h>> \o T) = T
  OBVIOUS

LEMMA TailOfTwo ==
    ASSUME NEW V, NEW X \in Seq(V), Len(X) = 2
    PROVE  Tail(X) = <<X[2]>>
<1>1. X # <<>>
  OBVIOUS
<1>2. Tail(X) \in Seq(V) /\ Len(Tail(X)) = 1 
  BY <1>1
<1>3. Tail(X)[1] = X[2]
  BY <1>1, <1>2
<1>4. \A s \in Seq(V) : Len(s) = 1 => s = <<s[1]>>
  OBVIOUS
<1> QED
  BY <1>2, <1>3, <1>4

LEMMA SingleFacts ==
    ASSUME NEW V, NEW v \in V, NEW w \in V
    PROVE  /\ Head(<<v>>) = v /\ Tail(<<v>>) = <<>> /\ Append(<<>>, v) = <<v>>
           /\ Head(Append(<<v>>, w)) = v /\ Tail(Append(<<v>>, w)) = <<w>>
           /\ \A E \in Seq(V) : Len(E) = 1 => Head(E) = E[1] /\ Tail(E) = <<>>
<1>1. Head(<<v>>) = v /\ Tail(<<v>>) = <<>> /\ Append(<<>>, v) = <<v>>
  OBVIOUS
<1>2. Head(Append(<<v>>, w)) = v
  OBVIOUS
<1>3. Tail(Append(<<v>>, w)) = <<w>>
  <2>1. Append(<<v>>, w) \in Seq(V) /\ Len(Append(<<v>>, w)) = 2 /\ Append(<<v>>, w)[2] = w
    OBVIOUS
  <2>2. \A X \in Seq(V) : Len(X) = 2 => Tail(X) = <<X[2]>>
    BY TailOfTwo
  <2> QED
    BY <2>1, <2>2, Zenon
<1>4. ASSUME NEW E \in Seq(V), Len(E) = 1 PROVE Head(E) = E[1] /\ Tail(E) = <<>>
  <2>1. E # <<>>
    BY <1>4
  <2>2. Head(E) = E[1]
    BY <2>1
  <2>3. Tail(E) \in Seq(V) /\ Len(Tail(E)) = 0
    BY <1>4, <2>1
  <2>4. \A s \in Seq(V) : Len(s) = 0 => s = <<>>
    OBVIOUS
  <2> QED
    BY <2>2, <2>3, <2>4
<1> QED
  BY <1>1, <1>2, <1>3, <1>4

LEMMA BehindNone ==
    ASSUME NEW V, NEW P \in Seq(V), NEW t \in V
    PROVE  P \o <<>> = P /\ P \o <<t>> = Append(P, t) /\ <<t>> \o <<>> = <<t>>
  OBVIOUS

\* Regrouping: what is read on top of older rows is what the rows of its oldest
\* entry are read on top of them, and its other entries.
LEMMA Regroup ==
    ASSUME NEW B \in Seq(Plain)
    PROVE  \A A \in Seq(Plain) : A # <<>> =>
              LET E == GroupRows(A)
              IN  GroupRows(A \o B) = GroupRows(Reverse(Head(E)) \o B) \o Tail(E)
<1> DEFINE Fits(A) == LET E == GroupRows(A)
                      IN  GroupRows(A \o B) = GroupRows(Reverse(Head(E)) \o B) \o Tail(E)
           Good == {A \in Seq(Plain) : A # <<>> => Fits(A)}
<1>1. <<>> \in Good
  OBVIOUS
<1>2. ASSUME NEW A \in Seq(Plain), NEW r \in Plain, A \in Good PROVE <<r>> \o A \in Good
  <2> DEFINE X == <<r>> \o A
  <2>0. PICK V : V = Seq(Plain)
    OBVIOUS
  <2>1. X \in Seq(Plain) /\ A \o B \in Seq(Plain) /\ X \o B = <<r>> \o (A \o B)
    BY OnTop, FrontFacts
  <2>2. PICK t \in Seq(Plain) : t = <<r>>
    <3>1. <<r>> \in Seq(Plain)
      BY Single
    <3> QED
      BY <3>1
  <2> SUFFICES Fits(X)
    BY <2>1
  <2>3. CASE A = <<>>
    <3>1. X = <<r>> /\ A \o B = B
      BY <2>3
    <3>2. GroupRows(<<r>>) = <<t>>
      <4>1. GroupRows(<<r>> \o A) = FoldLine(r, GroupRows(A))
        BY GroupOneMore
      <4>2. FoldLine(r, <<>>) = Append(<<>>, <<r>>)
        BY FoldNew
      <4>3. Append(<<>>, t) = <<t>>
        BY SingleFacts
      <4> QED
        BY <2>2, <2>3, <3>1, <4>1, <4>2, <4>3, GroupNone
    <3>3. Head(<<t>>) = t /\ Tail(<<t>>) = <<>> /\ Reverse(t) = t
      <4>1. Head(<<t>>) = t /\ Tail(<<t>>) = <<>>
        BY SingleFacts
      <4>2. <<>> \in Seq(Plain)
        OBVIOUS
      <4>3. Reverse(<<r>>) = <<r>>
        BY <4>2, ReverseFacts
      <4> QED
        BY <2>2, <4>1, <4>3
    <3>4. GroupRows(<<r>> \o B) \in PlainEntries
      <4>1. <<r>> \o B \in Seq(Plain)
        BY FrontFacts
      <4> QED
        BY <4>1, GroupsSound, PlainAreRows
    <3>5. GroupRows(<<r>> \o B) \o <<>> = GroupRows(<<r>> \o B)
      BY <3>4 DEF PlainEntries
    <3> QED
      BY <2>2, <3>1, <3>2, <3>3, <3>5
  <2>4. CASE A # <<>>
    <3> DEFINE E == GroupRows(A)
               h == Head(E)
               T == Tail(E)
               P == GroupRows(Reverse(h) \o B)
               F == FoldLine(r, E)
    <3>1. E \in Groups /\ E \in PlainEntries /\ E # <<>>
      BY <2>4, GroupsSound, PlainAreRows
    <3>2. GroupRows(A \o B) = P \o T
      BY <1>2, <2>4
    <3>3. GroupRows(X) = F /\ GroupRows(X \o B) = FoldLine(r, P \o T)
      BY <2>1, <3>2, GroupOneMore
    <3> HIDE DEF E
    <3>4. /\ h \in Seq(Plain) /\ T \in PlainEntries /\ E = <<h>> \o T /\ <<h>> \in PlainEntries
          /\ OneEntry(h)
      <4>1. h \in V /\ T \in Seq(V) /\ E = <<h>> \o T /\ <<h>> \in Seq(V)
        BY <2>0, <3>1, HeadFacts, Single DEF PlainEntries
      <4>2. 1 \in 1 .. Len(E) /\ h = E[1]
        BY <3>1 DEF PlainEntries
      <4> QED
        BY <2>0, <3>1, <4>1, <4>2 DEF PlainEntries, Groups
    <3>5. Reverse(h) \in Seq(Plain) /\ Reverse(h) \o B \in Seq(Plain)
      <4>1. Reverse(h) \in Seq(Plain)
        BY <3>4, ReverseFacts
      <4> QED
        BY <4>1, OnTop
    <3>6. P \in PlainEntries /\ P # <<>> /\ SameFirst(Last(P), h)
      BY <3>4, <3>5, EntryOnTop, GroupsSound, PlainAreRows
    <3> HIDE DEF h, T, F, X
    <3>7. CASE T # <<>>
      <4>1. F = <<h>> \o FoldLine(r, T) /\ FoldLine(r, P \o T) = P \o FoldLine(r, T)
        BY <3>4, <3>6, <3>7, FoldBehind DEF F
      <4>2. FoldLine(r, T) \in PlainEntries
        <5>1. T \in Groups
          <6>1. Len(E) = Len(T) + 1 /\ Len(T) \in Nat /\ \A k \in 1 .. Len(T) : T[k] = E[k + 1]
            BY <2>0, <3>4, FrontFacts DEF PlainEntries
          <6>2. \A k \in 1 .. Len(T) : k + 1 \in 1 .. Len(E)
            BY <6>1
          <6> QED
            BY <3>1, <3>4, <6>1, <6>2 DEF Groups
        <5> QED
          BY <5>1, FoldKeepsGroups, PlainAreRows
      <4>3. Head(F) = h /\ Tail(F) = FoldLine(r, T)
        <5>1. h \in V /\ FoldLine(r, T) \in Seq(V)
          BY <2>0, <3>4, <4>2 DEF PlainEntries
        <5> QED
          BY <4>1, <5>1, FrontFacts
      <4> QED
        BY <3>3, <4>1, <4>3
    <3>8. CASE T = <<>> /\ Continues(r, h)
      <4>1. E = <<h>> /\ Last(E) = h /\ E[1] = h /\ Len(E) = 1
        BY <3>4, <3>8 DEF Last
      <4>2. Len(F) = 1 /\ F[1] = Append(h, r) /\ F \in PlainEntries
        BY <3>1, <3>8, <4>1, FoldGrows DEF F
      <4>3. Head(F) = Append(h, r) /\ Tail(F) = <<>>
        <5>1. F \in Seq(V)
          BY <2>0, <4>2 DEF PlainEntries
        <5>2. Head(F) = F[1] /\ Tail(F) = <<>>
          BY <2>0, <2>2, <4>2, <5>1, SingleFacts
        <5> QED
          BY <4>2, <5>2
      <4>4. Reverse(Append(h, r)) = <<r>> \o Reverse(h)
        BY <3>4, ReverseFacts
      <4>5. Reverse(Append(h, r)) \o B = <<r>> \o (Reverse(h) \o B)
        BY <3>5, <4>4, OnTop
      <4>6. GroupRows(Reverse(Append(h, r)) \o B) = FoldLine(r, P)
        BY <3>5, <4>5, GroupOneMore
      <4>7. P \o <<>> = P
        BY <3>6 DEF PlainEntries
      <4>8. GroupRows(Reverse(Append(h, r)) \o B) \in PlainEntries
        <5>1. Reverse(Append(h, r)) \o B \in Seq(Plain)
          BY <3>5, <4>5, FrontFacts
        <5> QED
          BY <5>1, GroupsSound, PlainAreRows
      <4>9. GroupRows(Reverse(Append(h, r)) \o B) \o <<>> = GroupRows(Reverse(Append(h, r)) \o B)
        BY <4>8 DEF PlainEntries
      <4> QED
        BY <3>3, <3>8, <4>3, <4>6, <4>7, <4>9
    <3>9. CASE T = <<>> /\ ~Continues(r, h)
      <4>1. E = <<h>> /\ Last(E) = h
        BY <3>4, <3>9 DEF Last
      <4>2. F = Append(<<h>>, t)
        BY <2>2, <3>9, <4>1, FoldNew DEF F
      <4>3. Head(F) = h /\ Tail(F) = <<t>>
        BY <2>2, <3>4, <4>2, SingleFacts
      <4>4. ~Continues(r, Last(P))
        BY <3>6, <3>9, ContinuesFirst DEF SameFirst
      <4>5. FoldLine(r, P) = Append(P, t)
        BY <2>2, <4>4, FoldNew
      <4>6. P \o <<>> = P /\ P \o <<t>> = Append(P, t)
        BY <2>0, <2>2, <3>6, BehindNone DEF PlainEntries
      <4> QED
        BY <3>3, <3>9, <4>3, <4>5, <4>6
    <3> QED
      BY <3>7, <3>8, <3>9
  <2> QED
    BY <2>3, <2>4
<1> HIDE DEF Good
<1>3. \A A \in Seq(Plain) : A \in Good
  BY <1>1, <1>2, GrowsAtFront
<1> QED
  BY <1>3 DEF Good

\* The entry at k begins with a row of the list, and the rows behind that one are
\* grouped into the entries before it.
LEMMA SplitAt ==
    \A X \in Seq(Plain) : \A k \in 1 .. Len(GroupRows(X)) :
       \E A, B \in Seq(Plain) :
          /\ X = A \o B /\ A # <<>> /\ Last(A) = GroupRows(X)[k][1]
          /\ GroupRows(B) = SubSeq(GroupRows(X), 1, k - 1)
<1> DEFINE Fits(X, k, A, B) ==
               /\ X = A \o B /\ A # <<>> /\ Last(A) = GroupRows(X)[k][1]
               /\ GroupRows(B) = SubSeq(GroupRows(X), 1, k - 1)
           Good == {X \in Seq(Plain) : \A k \in 1 .. Len(GroupRows(X)) :
                       \E A, B \in Seq(Plain) : Fits(X, k, A, B)}
<1>1. <<>> \in Good
  <2>1. <<>> \in Seq(Plain) /\ 1 .. Len(<<>>) = {}
    OBVIOUS
  <2> QED
    BY <2>1, GroupNone
<1>2. ASSUME NEW X \in Seq(Plain), NEW r \in Plain, X \in Good PROVE <<r>> \o X \in Good
  <2> DEFINE Y == <<r>> \o X
             E == GroupRows(X)
             F == FoldLine(r, E)
             m == Len(E)
  <2>1. Y \in Seq(Plain) /\ GroupRows(Y) = F
    BY FrontFacts, GroupOneMore
  <2>2. E \in Groups /\ E \in PlainEntries /\ m \in Nat
    BY GroupsSound, PlainAreRows DEF PlainEntries
  <2>3. /\ F \in PlainEntries /\ Len(F) \in {m, m + 1}
        /\ \A k \in 1 .. m : F[k][1] = E[k][1]
        /\ \A k \in 1 .. m - 1 : F[k] = E[k]
        /\ Len(F) = m + 1 => F[m + 1] = <<r>> /\ (m # 0 => F[m] = E[m])
    <3> HIDE DEF E
    <3>1. CASE E # <<>> /\ Continues(r, Last(E))
      <4>1. /\ F \in PlainEntries /\ m \in Nat /\ m > 0 /\ Len(F) = m
            /\ F[m] = Append(E[m], r) /\ E[m] \in Seq(Plain)
            /\ \A k \in 1 .. m - 1 : F[k] = E[k]
        BY <2>2, <3>1, FoldGrows
      <4>2. OneEntry(E[m])
        BY <2>2, <4>1 DEF Groups
      <4>3. Append(E[m], r)[1] = E[m][1]
        BY <4>1, <4>2 DEF OneEntry
      <4> HIDE DEF F, m
      <4>4. \A k \in 1 .. m : k = m \/ k \in 1 .. m - 1
        BY <4>1
      <4>5. Len(F) # m + 1
        BY <4>1
      <4>6. \A k \in 1 .. m : F[k][1] = E[k][1]
        BY <4>1, <4>3, <4>4
      <4> QED
        BY <4>1, <4>5, <4>6
    <3>2. CASE ~(E # <<>> /\ Continues(r, Last(E)))
      <4>1. F = Append(E, <<r>>)
        BY <3>2, FoldNew
      <4>2. PICK t \in Seq(Plain) : t = <<r>>
        <5>1. <<r>> \in Seq(Plain)
          BY Single
        <5> QED
          BY <5>1
      <4>3. /\ Append(E, t) \in PlainEntries /\ Len(Append(E, t)) = m + 1
            /\ Append(E, t)[m + 1] = t /\ \A k \in 1 .. m : Append(E, t)[k] = E[k]
        BY <2>2 DEF PlainEntries
      <4> HIDE DEF F, m
      <4>4. \A k \in 1 .. m - 1 : k \in 1 .. m
        BY <2>2
      <4>5. m # 0 => m \in 1 .. m
        BY <2>2
      <4> QED
        BY <4>1, <4>2, <4>3, <4>4, <4>5
    <3> QED
      BY <3>1, <3>2
  <2>4. ASSUME NEW k \in 1 .. Len(F) PROVE \E A, B \in Seq(Plain) : Fits(Y, k, A, B)
    <3>1. CASE k \in 1 .. m
      <4>1. PICK A \in Seq(Plain), B \in Seq(Plain) : Fits(X, k, A, B)
        BY <1>2, <3>1
      <4>2. GroupRows(B) = SubSeq(E, 1, k - 1) /\ X = A \o B /\ A # <<>> /\ Last(A) = E[k][1]
        BY <4>1
      <4> HIDE DEF E, F
      <4>3. SubSeq(E, 1, k - 1) = SubSeq(F, 1, k - 1)
        <5>1. \A i \in 1 .. k - 1 : F[i] = E[i]
          BY <2>2, <2>3, <3>1
        <5>2. k - 1 \in 0 .. m /\ k - 1 \in 0 .. Len(F)
          BY <2>2, <2>3, <3>1
        <5>3. /\ SubSeq(E, 1, k - 1) = [i \in 1 .. k - 1 |-> E[i]]
              /\ SubSeq(F, 1, k - 1) = [i \in 1 .. k - 1 |-> F[i]]
          BY <2>2, <2>3, <5>2 DEF PlainEntries
        <5> QED
          BY <5>1, <5>3
      <4>4. F[k][1] = E[k][1]
        BY <2>3, <3>1
      <4> DEFINE C == <<r>> \o A
      <4>5. C \in Seq(Plain) /\ C # <<>> /\ Y = C \o B
        BY SMTT(30), <4>2, OnTop, FrontFacts
      <4>6. Last(C) = Last(A)
        <5>1. Len(A) \in Nat /\ Len(A) > 0
          BY <4>2
        <5>2. Len(C) = Len(A) + 1 /\ C[Len(A) + 1] = A[Len(A)]
          BY <5>1, FrontFacts
        <5> QED
          BY <5>2 DEF Last
      <4> HIDE DEF C, Y
      <4>7. Fits(Y, k, C, B)
        BY <2>1, <4>2, <4>3, <4>4, <4>5, <4>6
      <4> QED
        BY <4>5, <4>7
    <3>2. CASE k \notin 1 .. m
      <4>1. Len(F) = m + 1 /\ k = m + 1
        BY <2>2, <2>3, <3>2
      <4>2. F[k] = <<r>> /\ <<r>>[1] = r
        BY <2>3, <4>1
      <4>3. SubSeq(F, 1, m) = E
        <5> HIDE DEF E, F
        <5>1. \A i \in 1 .. m : F[i] = E[i]
          <6>1. \A i \in 1 .. m : i = m \/ i \in 1 .. m - 1
            BY <2>2
          <6> QED
            BY <2>2, <2>3, <4>1, <6>1
        <5>2. /\ E = [i \in 1 .. m |-> E[i]]
              /\ SubSeq(F, 1, m) = [i \in 1 .. m |-> F[i]]
          BY <2>2, <2>3, <4>1 DEF PlainEntries
        <5> QED
          BY <5>1, <5>2
      <4>4. <<r>> \in Seq(Plain) /\ <<r>> # <<>> /\ Last(<<r>>) = r
        BY DEF Last
      <4>5. k - 1 = m
        BY <2>2, <4>1
      <4> HIDE DEF E, F
      <4>6. Fits(Y, k, <<r>>, X)
        BY <2>1, <4>1, <4>2, <4>3, <4>4, <4>5 DEF E
      <4> QED
        BY <4>4, <4>6
    <3> QED
      BY <3>1, <3>2
  <2> HIDE DEF F, Y
  <2>5. \A k \in 1 .. Len(GroupRows(Y)) : \E A, B \in Seq(Plain) : Fits(Y, k, A, B)
    BY <2>1, <2>4
  <2> QED
    BY <2>1, <2>5 DEF Y
<1> HIDE DEF Good
<1>3. \A X \in Seq(Plain) : X \in Good
  BY <1>1, <1>2, GrowsAtFront
<1> QED
  BY <1>3 DEF Good

-----------------------------------------------------------------------------
\* There is one list of a set of rows with the newest ahead.
LEMMA OneOrder ==
    ASSUME NEW X \in Seq(Rows), NEW Y \in Seq(Rows), NewestAhead(X), NewestAhead(Y),
           Listed(X) = Listed(Y)
    PROVE  X = Y
<1> DEFINE m == Len(X)
           n == Len(Y)
<1>1. /\ m \in Nat /\ n \in Nat /\ X = [i \in 1 .. m |-> X[i]] /\ Y = [i \in 1 .. n |-> Y[i]]
      /\ \A i \in 1 .. m : X[i] \in Rows
      /\ \A i \in 1 .. n : Y[i] \in Rows
  OBVIOUS
<1>2. /\ \A i, j \in 1 .. m : i < j => OlderThan(X[j], X[i])
      /\ \A i, j \in 1 .. n : i < j => OlderThan(Y[j], Y[i])
      /\ {X[i] : i \in 1 .. m} = {Y[i] : i \in 1 .. n}
  BY ListedAreRows
<1>3. \A r, s \in Rows : OlderThan(r, s) => ~OlderThan(s, r) /\ r # s
  <2>1. \A r, s \in Rows : Ordered(r) /\ Ordered(s)
    BY RowsOrdered
  <2> QED
    BY <2>1, OrderLaws
<1> HIDE DEF m, n
<1> DEFINE Same(i) == i \in 1 .. m /\ i \in 1 .. n /\ X[i] = Y[i]
           T == {i \in Nat : i # 0 /\ (i \in 1 .. m \/ i \in 1 .. n) /\ ~Same(i)}
<1>4. T = {}
  <2> SUFFICES ASSUME T # {} PROVE FALSE
    OBVIOUS
  <2>1. PICK k \in T : \A i \in T : k <= i
    <3>1. T \in SUBSET Nat
      OBVIOUS
    <3> HIDE DEF T
    <3> QED
      BY <3>1, LeastNumber
  <2>2. k \in Nat /\ k # 0 /\ (k \in 1 .. m \/ k \in 1 .. n) /\ ~Same(k)
    OBVIOUS
  <2>3. \A i \in 1 .. k - 1 : X[i] = Y[i] /\ i \in 1 .. m /\ i \in 1 .. n
    <3> SUFFICES ASSUME NEW i \in 1 .. k - 1 PROVE Same(i)
      OBVIOUS
    <3>1. i \in Nat /\ i # 0 /\ (i \in 1 .. m \/ i \in 1 .. n) /\ ~(k <= i)
      BY <1>1, <2>2
    <3>2. i \notin T
      <4> HIDE DEF T
      <4> QED
        BY <2>1, <3>1
    <3> QED
      BY <3>1, <3>2
  <2> HIDE DEF T
  \* The row at k of either list stands in the other at k or behind.
  <2>4. k \in 1 .. m => \E l \in 1 .. n : l >= k /\ X[k] = Y[l]
    <3> SUFFICES ASSUME k \in 1 .. m PROVE \E l \in 1 .. n : l >= k /\ X[k] = Y[l]
      OBVIOUS
    <3>1. PICK l \in 1 .. n : X[k] = Y[l]
      BY <1>2
    <3>2. CASE l < k
      <4>1. l \in 1 .. k - 1
        BY <1>1, <2>2, <3>2
      <4>2. X[l] = Y[l] /\ l \in 1 .. m
        BY <2>3, <4>1
      <4>3. OlderThan(X[k], X[l])
        BY <1>2, <3>2, <4>2
      <4> QED
        BY <1>1, <1>3, <3>1, <4>2, <4>3
    <3>3. CASE ~(l < k)
      <4>1. l >= k
        BY <1>1, <2>2, <3>3
      <4> QED
        BY <3>1, <4>1
    <3> QED
      BY <3>2, <3>3
  <2>5. k \in 1 .. n => \E l \in 1 .. m : l >= k /\ Y[k] = X[l]
    <3> SUFFICES ASSUME k \in 1 .. n PROVE \E l \in 1 .. m : l >= k /\ Y[k] = X[l]
      OBVIOUS
    <3>1. PICK l \in 1 .. m : Y[k] = X[l]
      BY <1>2
    <3>2. CASE l < k
      <4>1. l \in 1 .. k - 1
        BY <1>1, <2>2, <3>2
      <4>2. X[l] = Y[l] /\ l \in 1 .. n
        BY <2>3, <4>1
      <4>3. OlderThan(Y[k], Y[l])
        BY <1>2, <3>2, <4>2
      <4> QED
        BY <1>1, <1>3, <3>1, <4>2, <4>3
    <3>3. CASE ~(l < k)
      <4>1. l >= k
        BY <1>1, <2>2, <3>3
      <4> QED
        BY <3>1, <4>1
    <3> QED
      BY <3>2, <3>3
  <2>6. k \in 1 .. m /\ k \in 1 .. n /\ X[k] # Y[k]
    <3>1. \A l \in 1 .. n : l >= k => k \in 1 .. n
      BY <1>1, <2>2
    <3>2. \A l \in 1 .. m : l >= k => k \in 1 .. m
      BY <1>1, <2>2
    <3> QED
      BY <2>2, <2>4, <2>5, <3>1, <3>2
  <2>7. PICK l \in 1 .. n : l >= k /\ X[k] = Y[l]
    BY <2>4, <2>6
  <2>8. PICK j \in 1 .. m : j >= k /\ Y[k] = X[j]
    BY <2>5, <2>6
  <2>9. k < l /\ k < j
    BY <1>1, <2>2, <2>6, <2>7, <2>8
  <2>10. OlderThan(X[k], Y[k]) /\ OlderThan(Y[k], X[k])
    BY <1>2, <2>6, <2>7, <2>8, <2>9
  <2> QED
    BY <1>1, <1>3, <2>6, <2>10
<1>5. m = n
  <2>1. m > 0 => m \in 1 .. n
    <3> SUFFICES ASSUME m > 0 PROVE m \in 1 .. n
      OBVIOUS
    <3>1. m \in 1 .. m /\ m \in Nat /\ m # 0
      BY <1>1
    <3> QED
      BY <1>4, <3>1
  <2>2. n > 0 => n \in 1 .. m
    <3> SUFFICES ASSUME n > 0 PROVE n \in 1 .. m
      OBVIOUS
    <3>1. n \in 1 .. n /\ n \in Nat /\ n # 0
      BY <1>1
    <3> QED
      BY <1>4, <3>1
  <2> QED
    BY <1>1, <2>1, <2>2
<1>6. \A i \in 1 .. m : X[i] = Y[i]
  <2> SUFFICES ASSUME NEW i \in 1 .. m PROVE X[i] = Y[i]
    OBVIOUS
  <2>1. i \in Nat /\ i # 0 /\ i \in 1 .. m
    BY <1>1
  <2> QED
    BY <1>4, <2>1
<1> QED
  BY <1>1, <1>5, <1>6

\* Sequence facts on lists whose elements are any values.
LEMMA CutInTwo ==
    ASSUME NEW V, NEW X \in Seq(V), NEW n \in 0 .. Len(X)
    PROVE  /\ SubSeq(X, 1, n) \in Seq(V) /\ SubSeq(X, n + 1, Len(X)) \in Seq(V)
           /\ Len(SubSeq(X, 1, n)) = n /\ Len(SubSeq(X, n + 1, Len(X))) = Len(X) - n
           /\ X = SubSeq(X, 1, n) \o SubSeq(X, n + 1, Len(X))
<1> DEFINE N == Len(X)
           A == SubSeq(X, 1, n)
           B == SubSeq(X, n + 1, N)
           C == A \o B
<1>1. N \in Nat /\ n \in Nat /\ n <= N /\ X = [i \in 1 .. N |-> X[i]]
  OBVIOUS
<1>2. A \in Seq(V) /\ Len(A) = n /\ \A i \in 1 .. n : A[i] = X[i]
  BY <1>1
<1>3. B \in Seq(V) /\ Len(B) = N - n /\ \A i \in 1 .. N - n : B[i] = X[n + i]
  BY <1>1
<1> HIDE DEF A, B
<1>4. C \in Seq(V) /\ Len(C) = n + (N - n)
      /\ (\A k \in 1 .. n : C[k] = A[k]) /\ \A k \in 1 .. N - n : C[n + k] = B[k]
  BY <1>2, <1>3, ConcatFacts
<1> HIDE DEF C
<1>5. Len(C) = N /\ C = [i \in 1 .. N |-> C[i]]
  BY <1>1, <1>4
<1> HIDE DEF N
<1>6. ASSUME NEW i \in 1 .. N PROVE C[i] = X[i]
  <2>1. CASE i \in 1 .. n
    BY <2>1, <1>2, <1>4
  <2>2. CASE i \notin 1 .. n
    <3>1. PICK k \in 1 .. N - n : i = n + k
      <4>1. i - n \in 1 .. N - n /\ i = n + (i - n)
        BY <2>2, <1>1
      <4> QED
        BY <4>1
    <3> QED
      BY <3>1, <1>3, <1>4
  <2> QED
    BY <2>1, <2>2
<1>7. C = X
  BY <1>1, <1>5, <1>6
<1> QED
  BY <1>1, <1>2, <1>3, <1>7 DEF A, B, C, N

LEMMA SameCut ==
    ASSUME NEW V, NEW A \in Seq(V), NEW B \in Seq(V), NEW C \in Seq(V), NEW D \in Seq(V)
    PROVE  A \o B = C \o D /\ Len(A) = Len(C) => A = C /\ B = D
<1> DEFINE X == A \o B
           Y == C \o D
           n == Len(A)
           m == Len(B)
           k == Len(D)
<1>1. /\ n \in Nat /\ m \in Nat /\ Len(X) = n + m
      /\ \A i \in 1 .. n : X[i] = A[i]
      /\ \A i \in 1 .. m : X[n + i] = B[i]
  BY ConcatFacts
<1>2. /\ Len(C) \in Nat /\ k \in Nat /\ Len(Y) = Len(C) + k
      /\ \A i \in 1 .. Len(C) : Y[i] = C[i]
      /\ \A i \in 1 .. k : Y[Len(C) + i] = D[i]
  BY ConcatFacts
<1>3. A = [i \in 1 .. n |-> A[i]] /\ C = [i \in 1 .. Len(C) |-> C[i]]
      /\ B = [i \in 1 .. m |-> B[i]] /\ D = [i \in 1 .. k |-> D[i]]
  OBVIOUS
<1> HIDE DEF X, Y, n, m, k
<1>4. ASSUME X = Y, n = Len(C) PROVE A = C /\ B = D
  <2>1. m = k
    BY <1>1, <1>2, <1>4
  <2>2. \A i \in 1 .. n : A[i] = C[i]
    BY <1>1, <1>2, <1>4
  <2>3. \A i \in 1 .. m : B[i] = D[i]
    BY <1>1, <1>2, <1>4, <2>1
  <2>4. A = C
    BY <1>3, <1>4, <2>2
  <2>5. B = D
    BY <1>3, <2>1, <2>3
  <2> QED
    BY <2>4, <2>5
<1> QED
  BY <1>4 DEF X, Y, n

LEMMA Associates ==
    ASSUME NEW V, NEW A \in Seq(V), NEW B \in Seq(V), NEW C \in Seq(V)
    PROVE  /\ A \o B \in Seq(V) /\ A \o (B \o C) = (A \o B) \o C
           /\ <<>> \in Seq(V) /\ <<>> \o A = A /\ A \o <<>> = A
           /\ Len(A \o B) = Len(A) + Len(B)
<1>1. A \o B \in Seq(V) /\ Len(A \o B) = Len(A) + Len(B)
  OBVIOUS
<1>2. A \o (B \o C) = (A \o B) \o C
  OBVIOUS
<1>3. <<>> \in Seq(V) /\ <<>> \o A = A /\ A \o <<>> = A
  OBVIOUS
<1> QED
  BY <1>1, <1>2, <1>3

\* A list behind another is cut in the first of them.
LEMMA CutInFirst ==
    ASSUME NEW V, NEW A \in Seq(V), NEW B \in Seq(V), NEW C \in Seq(V), NEW H \in Seq(V)
    PROVE  A \o B = C \o H /\ Len(A) <= Len(C) => B = SubSeq(C, Len(A) + 1, Len(C)) \o H
<1> HAVE A \o B = C \o H /\ Len(A) <= Len(C)
<1> DEFINE n == Len(A)
           F == SubSeq(C, 1, n)
           L == SubSeq(C, n + 1, Len(C))
<1>1. n \in 0 .. Len(C)
  OBVIOUS
<1>2. F \in Seq(V) /\ L \in Seq(V) /\ Len(F) = n /\ C = F \o L
  BY <1>1, CutInTwo
<1> HIDE DEF F, L
<1>3. L \o H \in Seq(V) /\ C \o H = F \o (L \o H)
  BY SMTT(30), <1>2, Associates
<1>4. B = L \o H
  BY <1>2, <1>3, SameCut
<1> QED
  BY <1>4 DEF L

LEMMA ConcatBack ==
    ASSUME NEW V, NEW W, NEW A \in Seq(V), NEW B \in Seq(V), A \o B \in Seq(W)
    PROVE  A \in Seq(W) /\ B \in Seq(W)
<1> DEFINE X == A \o B
           n == Len(A)
           m == Len(B)
<1>1. /\ n \in Nat /\ m \in Nat /\ Len(X) = n + m /\ X \in Seq(W)
      /\ \A i \in 1 .. n : X[i] = A[i]
      /\ \A i \in 1 .. m : X[n + i] = B[i]
  BY ConcatFacts
<1>2. A = [i \in 1 .. n |-> A[i]] /\ B = [i \in 1 .. m |-> B[i]]
  OBVIOUS
<1> HIDE DEF X, n, m
<1>3. \A i \in 1 .. n + m : X[i] \in W
  BY <1>1
<1>4. \A i \in 1 .. n : A[i] \in W
  <2>1. \A i \in 1 .. n : i \in 1 .. n + m
    BY <1>1
  <2> QED
    BY <1>1, <1>3, <2>1
<1>5. \A i \in 1 .. m : B[i] \in W
  <2>1. \A i \in 1 .. m : n + i \in 1 .. n + m
    BY <1>1
  <2> QED
    BY <1>1, <1>3, <2>1
<1> QED
  BY <1>1, <1>2, <1>4, <1>5

LEMMA LastPart ==
    ASSUME NEW V, NEW X \in Seq(V), NEW H \in Seq(V)
    PROVE  LET R == X \o H IN H = SubSeq(R, Len(R) - Len(H) + 1, Len(R))
<1> DEFINE R == X \o H
           n == Len(X)
<1>1. R \in Seq(V) /\ Len(R) = n + Len(H) /\ n \in Nat /\ Len(H) \in Nat
  BY ConcatFacts
<1>2. n \in 0 .. Len(R) /\ Len(R) - Len(H) + 1 = n + 1
  BY <1>1
<1> HIDE DEF R
<1>3. /\ SubSeq(R, 1, n) \in Seq(V) /\ SubSeq(R, n + 1, Len(R)) \in Seq(V)
      /\ Len(SubSeq(R, 1, n)) = n
      /\ R = SubSeq(R, 1, n) \o SubSeq(R, n + 1, Len(R))
  BY <1>1, <1>2, CutInTwo
<1>4. H = SubSeq(R, n + 1, Len(R))
  BY <1>3, SameCut DEF R
<1> QED
  BY <1>2, <1>4 DEF R

-----------------------------------------------------------------------------
\* The pages one behind the other, the newest last.
Handing(P, f) ==
    f = [n \in 0 .. Len(P) |-> IF n = 0 THEN <<>> ELSE P[n] \o f[n - 1]]
Handed(P) ==
    LET newest[n \in 0 .. Len(P)] == IF n = 0 THEN <<>> ELSE P[n] \o newest[n - 1]
    IN  newest[Len(P)]

LEMMA HandingExists == \A P \in Seq(Entries) : \E f : Handing(P, f)
<1> DEFINE Good == {P \in Seq(Entries) : \E f : Handing(P, f)}
<1>1. <<>> \in Good
  <2> DEFINE f == [n \in 0 .. 0 |-> <<>>]
  <2>1. Handing(<<>>, f)
    BY DEF Handing
  <2> QED
    BY <2>1
<1>2. ASSUME NEW P \in Seq(Entries), NEW e \in Entries, P \in Good PROVE Append(P, e) \in Good
  <2> DEFINE F == Append(P, e)
             m == Len(P)
  <2>1. PICK f : Handing(P, f)
    BY <1>2
  <2> DEFINE g == [n \in 0 .. m + 1 |-> IF n = m + 1 THEN e \o f[m] ELSE f[n]]
  <2>2. F \in Seq(Entries) /\ Len(F) = m + 1 /\ F[m + 1] = e /\ m \in Nat /\ \A n \in 1 .. m : F[n] = P[n]
    OBVIOUS
  <2>3. \A n \in 0 .. m : f[n] = IF n = 0 THEN <<>> ELSE P[n] \o f[n - 1]
    BY <2>1 DEF Handing
  <2> HIDE DEF F, m
  <2>4. ASSUME NEW n \in 0 .. m + 1
        PROVE  g[n] = IF n = 0 THEN <<>> ELSE F[n] \o g[n - 1]
    <3>1. CASE n = m + 1
      <4>1. n - 1 = m /\ g[m] = f[m] /\ n # 0 /\ m \in 0 .. m + 1 /\ m # m + 1
        BY <2>2, <3>1
      <4>2. F[n] = e /\ g[n] = e \o f[m]
        BY <2>2, <3>1
      <4> HIDE DEF g
      <4> QED
        BY <4>1, <4>2
    <3>2. CASE n # m + 1
      <4>1. n \in 0 .. m /\ g[n] = f[n]
        BY <2>2, <3>2
      <4>2. n # 0 => g[n - 1] = f[n - 1] /\ F[n] = P[n]
        BY <2>2, <4>1
      <4> HIDE DEF g
      <4> QED
        BY <2>3, <4>1, <4>2
    <3> QED
      BY <3>1, <3>2
  <2>5. g = [n \in 0 .. m + 1 |-> g[n]]
    OBVIOUS
  <2> HIDE DEF g
  <2>6. Handing(F, g)
    BY <2>2, <2>4, <2>5 DEF Handing
  <2> QED
    BY <2>2, <2>6 DEF F
<1> HIDE DEF Good
<1>3. \A P \in Seq(Entries) : P \in Good
  BY <1>1, <1>2, GrowsAtBack
<1> QED
  BY <1>3 DEF Good

LEMMA HandedUnfolds ==
    ASSUME NEW P \in Seq(Entries)
    PROVE  \E f : Handing(P, f) /\ Handed(P) = f[Len(P)]
<1> DEFINE f == CHOOSE g : Handing(P, g)
<1>1. Handing(P, f)
  BY HandingExists
<1>2. Handed(P) = f[Len(P)]
  BY DEF Handed, Handing
<1> QED
  BY <1>1, <1>2

LEMMA HandedNone == Handed(<<>>) = <<>>
<1>1. <<>> \in Seq(Entries) /\ Len(<<>>) = 0
  OBVIOUS
<1>2. PICK f : Handing(<<>>, f) /\ Handed(<<>>) = f[0]
  BY <1>1, HandedUnfolds
<1>3. f[0] = <<>>
  BY <1>1, <1>2 DEF Handing
<1> QED
  BY <1>2, <1>3

LEMMA HandedOneMore ==
    ASSUME NEW P \in Seq(Entries), NEW e \in Entries
    PROVE  Handed(Append(P, e)) = e \o Handed(P)
<1> DEFINE F == Append(P, e)
           m == Len(P)
<1>1. F \in Seq(Entries) /\ Len(F) = m + 1 /\ F[m + 1] = e /\ m \in Nat /\ \A n \in 1 .. m : F[n] = P[n]
  OBVIOUS
<1>2. PICK f : Handing(P, f) /\ Handed(P) = f[m]
  BY HandedUnfolds
<1>3. PICK g : Handing(F, g) /\ Handed(F) = g[m + 1]
  BY <1>1, HandedUnfolds
<1> HIDE DEF F
<1>4. \A n \in 0 .. m : f[n] = IF n = 0 THEN <<>> ELSE P[n] \o f[n - 1]
  BY <1>2 DEF Handing
<1>5. \A n \in 0 .. m + 1 : g[n] = IF n = 0 THEN <<>> ELSE F[n] \o g[n - 1]
  BY <1>1, <1>3 DEF Handing
<1> HIDE DEF m
<1> DEFINE T == {n \in 0 .. m : f[n] # g[n]}
<1>6. m \notin T
  <2> SUFFICES ASSUME m \in T PROVE FALSE
    OBVIOUS
  <2>1. T \in SUBSET Nat
    OBVIOUS
  <2> HIDE DEF T
  <2>2. PICK n \in T : \A k \in T : n <= k
    BY <2>1, LeastNumber
  <2>3. n \in 0 .. m /\ f[n] # g[n]
    BY <2>2 DEF T
  <2>4. n \in 0 .. m + 1 /\ (n # 0 => n - 1 \in 0 .. m /\ n \in 1 .. m /\ n - 1 \notin T)
    BY <1>1, <2>2, <2>3
  <2>5. n # 0 => f[n - 1] = g[n - 1]
    BY <2>4 DEF T
  <2>6. n # 0 => F[n] = P[n]
    BY <1>1, <2>4
  <2> QED
    BY <1>4, <1>5, <2>3, <2>4, <2>5, <2>6
<1>7. f[m] = g[m]
  BY <1>1, <1>6
<1>8. g[m + 1] = e \o g[m]
  <2>1. PICK n \in 0 .. m + 1 : n = m + 1 /\ n # 0 /\ n - 1 = m
    BY <1>1
  <2>2. g[n] = F[n] \o g[n - 1]
    BY <1>5, <2>1
  <2> QED
    BY <1>1, <2>1, <2>2
<1> QED
  BY <1>2, <1>3, <1>7, <1>8 DEF F

LEMMA HandedTyped == \A P \in Seq(Entries) : Handed(P) \in Entries
<1> DEFINE Good == {P \in Seq(Entries) : Handed(P) \in Entries}
<1>1. <<>> \in Good
  <2>1. <<>> \in Entries
    BY DEF Entries
  <2> QED
    BY <2>1, HandedNone
<1>2. ASSUME NEW P \in Seq(Entries), NEW e \in Entries, P \in Good PROVE Append(P, e) \in Good
  <2>1. Append(P, e) \in Seq(Entries)
    OBVIOUS
  <2>2. e \o Handed(P) \in Entries
    BY <1>2, Associates DEF Entries
  <2> QED
    BY <2>1, <2>2, HandedOneMore
<1> HIDE DEF Good
<1>3. \A P \in Seq(Entries) : P \in Good
  BY <1>1, <1>2, GrowsAtBack
<1> QED
  BY <1>3 DEF Good

-----------------------------------------------------------------------------
\* What stands behind a row in the list of all is what is older than it.
LEMMA SuffixBehind ==
    ASSUME NEW S, RowsAreTold(S), IsFiniteSet(S), NEW A \in Seq(Rows), NEW B \in Seq(Rows),
           NewestFirst(S) = A \o B, A # <<>>
    PROVE  /\ Last(A) \in S
           /\ NewestFirst({r \in S : OlderThan(r, Last(A))}) = B
<1> DEFINE W == A \o B
           a == Len(A)
           b == Len(B)
           x == Last(A)
           T == {r \in S : OlderThan(r, x)}
<1>1. /\ a \in Nat /\ a > 0 /\ b \in Nat /\ W \in Seq(Rows) /\ Len(W) = a + b
      /\ \A i \in 1 .. a : W[i] = A[i]
      /\ \A i \in 1 .. b : W[a + i] = B[i]
  BY ConcatFacts
<1>2. x = A[a] /\ a \in 1 .. a
  BY <1>1 DEF Last
<1>3. W \in Seq(Rows) /\ Listed(W) = S /\ NewestAhead(W)
  BY NewestFirstSound
<1> HIDE DEF W, a, b, x
<1>4. x = W[a] /\ a \in 1 .. a + b
  BY <1>1, <1>2
<1>5. /\ S = {W[i] : i \in 1 .. a + b}
      /\ \A i, j \in 1 .. a + b : i < j => OlderThan(W[j], W[i])
  BY <1>1, <1>3, ListedAreRows
<1>6. \A i \in 1 .. b : a + i \in 1 .. a + b /\ a < a + i
  BY <1>1
<1>7. T \in SUBSET S /\ IsFiniteSet(T)
  <2>1. T \in SUBSET S
    OBVIOUS
  <2> QED
    BY <2>1, FS_Subset
<1>8. RowsAreTold(T)
  BY <1>7 DEF RowsAreTold
<1>9. NewestAhead(B)
  <2>1. \A i, j \in 1 .. b : i < j => OlderThan(B[j], B[i])
    <3> SUFFICES ASSUME NEW i \in 1 .. b, NEW j \in 1 .. b, i < j PROVE OlderThan(B[j], B[i])
      OBVIOUS
    <3>1. a + i < a + j
      BY <1>1
    <3> QED
      BY <3>1, <1>1, <1>5, <1>6
  <2> QED
    BY <2>1, ListedAreRows DEF b
<1>10. \A r \in S : Ordered(r)
  BY RowsOrdered DEF RowsAreTold
<1>11. Listed(B) = T
  <2>1. Listed(B) = {B[i] : i \in 1 .. b}
    BY ListedAreRows DEF b
  <2>2. ASSUME NEW i \in 1 .. b PROVE B[i] \in T
    BY <1>1, <1>4, <1>5, <1>6
  <2>3. ASSUME NEW r \in T PROVE r \in {B[i] : i \in 1 .. b}
    <3>1. PICK i \in 1 .. a + b : r = W[i]
      BY <1>5
    <3>2. x \in S /\ r \in S /\ OlderThan(r, x)
      BY <1>4, <1>5
    <3>3. ~OlderThan(x, r) /\ r # x
      BY <1>10, <3>2, OrderLaws
    <3>4. i > a
      <4>1. ~(i < a) /\ i # a
        BY <1>4, <1>5, <3>1, <3>3
      <4> QED
        BY <1>1, <4>1
    <3>5. i - a \in 1 .. b /\ a + (i - a) = i
      BY <1>1, <3>4
    <3>6. r = B[i - a]
      BY <1>1, <3>1, <3>5
    <3> QED
      BY <3>5, <3>6
  <2> HIDE DEF T
  <2> QED
    BY <2>1, <2>2, <2>3
<1>12. NewestFirst(T) \in Seq(Rows) /\ NewestAhead(NewestFirst(T)) /\ Listed(NewestFirst(T)) = T
  BY <1>7, <1>8, NewestFirstSound
<1> HIDE DEF T
<1>13. NewestFirst(T) = B
  BY <1>9, <1>11, <1>12, OneOrder
<1>14. x \in S
  BY <1>4, <1>5
<1> QED
  BY <1>13, <1>14 DEF T, x

\* What is asked of: the lines in the time range, and those of them older than a
\* position, newest first.
AllOf(S, q) == {r \in S : r.ts >= q.since}
Behind(S, q, p) == NewestFirst({r \in AllOf(S, q) : OlderThan(r, p)})
All(S, q) == NewestFirst(AllOf(S, q))

MatchesAs(e, q) ==
    CASE q.filter = "errors" -> e[1].kind = "error"
      [] q.filter = "text"   -> \E i \in 1 .. Len(e) : e[i].kind \in Hits
FilteredAs(E, q) ==
    LET kept[n \in 0 .. Len(E)] ==
            IF n = 0 THEN <<>>
            ELSE IF MatchesAs(E[n], q) THEN Append(kept[n - 1], E[n]) ELSE kept[n - 1]
    IN  IF q.filter = "all" THEN E ELSE kept[Len(E)]

LEMMA FilteredNow == \A E : Filtered(E) = FilteredAs(E, query)
  BY DEF Filtered, FilteredAs, Matches, MatchesAs

LEMMA HandedNow == HandedOut = Handed(pages)
  BY DEF HandedOut, Handed

\* The entries not yet handed out, those of the rows carried over and of the rows
\* still to be read, stand before the entries D read so far; and D gives what is
\* found and what the pages have.
Ahead(S, q, c, p) == GroupRows(c \o Behind(S, q, p))
Divided(S, q, c, f, P, p, D) ==
    /\ GroupRows(All(S, q)) = Ahead(S, q, c, p) \o D
    /\ FilteredAs(D, q) = f \o Handed(P)

WalkSound(S, q, c, f, P, p, ph) ==
    /\ c \in Seq(Plain) /\ f \in PlainEntries /\ P \in Seq(PlainEntries) /\ Len(f) <= Limit
    /\ p \in Points /\ ph \in {"idle", "scanning", "end"}
    /\ ph # "scanning" => c = <<>> /\ f = <<>>
    /\ \A i \in 1 .. Len(P) : Len(P[i]) = Limit \/ (i = Len(P) /\ ph = "end")
    /\ ph # "end" => /\ \E D \in PlainEntries : Divided(S, q, c, f, P, p, D)
                     /\ P # <<>> => FilteredAs(Ahead(S, q, c, p), q) \o f # <<>>
    /\ ph = "end" => /\ Handed(P) = FilteredAs(GroupRows(All(S, q)), q)
                     /\ P[Len(P)] = <<>> => Len(P) = 1

\* While the store rests.
RestInv ==
    /\ lines = start /\ stored = {r.gen : r \in lines}
    /\ phase = "scanning" => refs = stored
    /\ WalkSound(lines, query, carry, found, pages, from, phase)

\* The lines, none of them a stack frame.
LEMMA PlainLines ==
    ASSUME StoreInv, lines \subseteq Plain, NEW T \in SUBSET lines
    PROVE  /\ RowsAreTold(T) /\ IsFiniteSet(T)
           /\ NewestFirst(T) \in Seq(Plain) /\ NewestFirst(T) \in Seq(Rows)
<1>1. RowsAreTold(T) /\ IsFiniteSet(T)
  BY FS_Subset DEF StoreInv, RowsAreTold
<1>2. NewestFirst(T) \in Seq(Rows) /\ Listed(NewestFirst(T)) = T
  BY <1>1, NewestFirstSound
<1> DEFINE s == NewestFirst(T)
<1> HIDE DEF s
<1>3. s \in Seq(Rows) /\ {s[i] : i \in 1 .. Len(s)} = T
  BY <1>2, ListedAreRows DEF s
<1>4. \A i \in 1 .. Len(s) : s[i] \in Plain
  BY <1>3
<1>5. s = [i \in 1 .. Len(s) |-> s[i]] /\ Len(s) \in Nat
  BY <1>3
<1>6. s \in Seq(Plain)
  BY <1>4, <1>5
<1> QED
  BY <1>1, <1>2, <1>6 DEF s

LEMMA BehindSound ==
    ASSUME StoreInv, lines \subseteq Plain, NEW p \in Points
    PROVE  /\ Behind(lines, query, p) \in Seq(Plain) /\ All(lines, query) \in Seq(Plain)
           /\ \A A, B \in Seq(Plain) : A # <<>> =>
                 /\ All(lines, query) = A \o B =>
                       /\ Last(A) \in Rows /\ Position(Last(A)) \in Points
                       /\ Behind(lines, query, Position(Last(A))) = B
                 /\ Behind(lines, query, p) = A \o B =>
                       /\ Last(A) \in Rows /\ Position(Last(A)) \in Points
                       /\ Behind(lines, query, Position(Last(A))) = B
<1> DEFINE S == AllOf(lines, query)
           T == {r \in S : OlderThan(r, p)}
<1>1. S \in SUBSET lines /\ T \in SUBSET lines /\ lines \subseteq Rows
  BY DEF AllOf, StoreInv, RowsAreTold
<1>2. Behind(lines, query, p) = NewestFirst(T) /\ All(lines, query) = NewestFirst(S)
  BY DEF Behind, All
<1>3. NewestFirst(T) \in Seq(Plain) /\ NewestFirst(S) \in Seq(Plain)
  <2> HIDE DEF S, T
  <2> QED
    BY <1>1, PlainLines
<1>4. RowsAreTold(S) /\ IsFiniteSet(S) /\ RowsAreTold(T) /\ IsFiniteSet(T)
  <2> HIDE DEF S, T
  <2> QED
    BY <1>1, PlainLines
<1>5. ASSUME NEW A \in Seq(Plain), NEW B \in Seq(Plain), A # <<>>, NewestFirst(S) = A \o B
      PROVE  /\ Last(A) \in Rows /\ Position(Last(A)) \in Points
             /\ Behind(lines, query, Position(Last(A))) = B
  <2>1. A \in Seq(Rows) /\ B \in Seq(Rows)
    BY PlainAreRows
  <2>2. Last(A) \in S /\ NewestFirst({r \in S : OlderThan(r, Last(A))}) = B
    <3> HIDE DEF S
    <3> QED
      BY <1>4, <1>5, <2>1, SuffixBehind
  <2>3. Last(A) \in Rows
    BY <1>1, <2>2
  <2>4. Position(Last(A)) \in Points /\ \A r : OlderThan(r, Position(Last(A))) <=> OlderThan(r, Last(A))
    BY <2>3, PositionsOrder
  <2>5. {r \in S : OlderThan(r, Position(Last(A)))} = {r \in S : OlderThan(r, Last(A))}
    BY <2>4
  <2> QED
    BY <2>2, <2>3, <2>4, <2>5 DEF Behind
<1>6. ASSUME NEW A \in Seq(Plain), NEW B \in Seq(Plain), A # <<>>, NewestFirst(T) = A \o B
      PROVE  /\ Last(A) \in Rows /\ Position(Last(A)) \in Points
             /\ Behind(lines, query, Position(Last(A))) = B
  <2>1. A \in Seq(Rows) /\ B \in Seq(Rows)
    BY PlainAreRows
  <2>2. Last(A) \in T /\ NewestFirst({r \in T : OlderThan(r, Last(A))}) = B
    <3> HIDE DEF T
    <3> QED
      BY <1>4, <1>6, <2>1, SuffixBehind
  <2>3. Last(A) \in Rows /\ OlderThan(Last(A), p)
    BY <1>1, <2>2
  <2>4. Position(Last(A)) \in Points /\ \A r : OlderThan(r, Position(Last(A))) <=> OlderThan(r, Last(A))
    BY <2>3, PositionsOrder
  <2>5. {r \in S : OlderThan(r, Position(Last(A)))} = {r \in T : OlderThan(r, Last(A))}
    <3>1. ASSUME NEW r \in S, OlderThan(r, Last(A)) PROVE OlderThan(r, p)
      <4>1. Ordered(r) /\ Ordered(Last(A)) /\ Ordered(p)
        BY <1>1, <2>3, RowsOrdered, PointsOrdered
      <4> QED
        BY <2>3, <3>1, <4>1, OrderLaws
    <3> QED
      BY <2>4, <3>1
  <2> QED
    BY <2>2, <2>3, <2>4, <2>5 DEF Behind
<1> QED
  BY <1>2, <1>3, <1>5, <1>6

\* A round divides what was not yet read into what it settles and the rest; the rest
\* is what the next round starts from, or nothing.
LEMMA RoundDivides ==
    ASSUME StoreInv, lines \subseteq Plain, RestInv, phase = "scanning"
    PROVE  LET rows == ScanRows
               exhausted == Len(rows) < Chunk
               grouped == GroupRows(carry \o rows)
               open == Open(grouped, exhausted)
               settled == IF open = <<>> THEN grouped ELSE Tail(grouped)
           IN  /\ settled \in PlainEntries
               /\ exhausted => Ahead(lines, query, carry, from) = settled
               /\ ~exhausted =>
                     /\ Reverse(open) \in Seq(Plain) /\ Position(Last(rows)) \in Points
                     /\ Ahead(lines, query, Reverse(open), Position(Last(rows))) \in PlainEntries
                     /\ Ahead(lines, query, carry, from)
                          = Ahead(lines, query, Reverse(open), Position(Last(rows))) \o settled
<1> DEFINE rest == Behind(lines, query, from)
           n == IF Len(rest) < Chunk THEN Len(rest) ELSE Chunk
           rows == ScanRows
           B == SubSeq(rest, n + 1, Len(rest))
           exhausted == Len(rows) < Chunk
           A == carry \o rows
           grouped == GroupRows(A)
           open == Open(grouped, exhausted)
           settled == IF open = <<>> THEN grouped ELSE Tail(grouped)
<1>1. from \in Points /\ carry \in Seq(Plain) /\ refs = {r.gen : r \in lines}
  BY DEF RestInv, WalkSound
<1>2. rest \in Seq(Plain)
  BY <1>1, BehindSound
<1>3. rows = SubSeq(rest, 1, n)
  <2>1. {r \in lines : r.gen \in refs /\ r.ts >= query.since /\ Older(r, from)}
          = {r \in AllOf(lines, query) : OlderThan(r, from)}
    BY <1>1 DEF AllOf, Older
  <2> QED
    BY <2>1 DEF ScanRows, Behind
<1> HIDE DEF rest, rows
<1>4. /\ Len(rest) \in Nat /\ n \in 0 .. Len(rest) /\ Chunk \in Nat /\ Chunk > 1
      /\ n < Chunk => n = Len(rest)
  <2>1. Len(rest) \in Nat
    BY <1>2
  <2> QED
    BY <2>1, ChunkHoldsRows
<1>5. /\ rows \in Seq(Plain) /\ B \in Seq(Plain) /\ Len(rows) = n /\ Len(B) = Len(rest) - n
      /\ rest = rows \o B
  BY <1>2, <1>3, <1>4, CutInTwo
<1>6. A \in Seq(Plain) /\ grouped \in Groups /\ grouped \in PlainEntries
  <2>1. A \in Seq(Plain)
    BY <1>1, <1>5, OnTop
  <2> QED
    BY <2>1, GroupsSound, PlainAreRows
<1> HIDE DEF n
<1>7. CASE exhausted
  <2>1. n = Len(rest)
    BY <1>4, <1>5, <1>7
  <2>2. B = <<>>
    <3>1. Len(B) = 0
      <4> HIDE DEF B
      <4> QED
        BY <1>4, <1>5, <2>1
    <3> HIDE DEF B
    <3> QED
      BY <1>5, <3>1
  <2>3. rest = rows
    <3>1. rows \o <<>> = rows
      BY <1>5, Associates
    <3> QED
      BY <1>5, <2>2, <3>1
  <2>4. open = <<>>
    BY <1>7 DEF Open, HeldBack
  <2> QED
    BY <1>6, <1>7, <2>3, <2>4 DEF Ahead, rest, rows
<1>8. CASE ~exhausted
  <2>1. n > 0 /\ rows # <<>>
    <3>1. n > 0
      BY <1>4, <1>5, <1>8
    <3> QED
      BY <1>5, <3>1
  <2>2. Last(rows) \in Rows /\ Position(Last(rows)) \in Points
        /\ Behind(lines, query, Position(Last(rows))) = B
    <3> HIDE DEF B
    <3> QED
      BY <1>1, <1>5, <2>1, BehindSound DEF rest
  <2>3. A # <<>>
    BY <1>1, <1>5, <2>1
  <2>4. grouped # <<>>
    BY <1>6, <2>3, GroupsSound
  <2>5. open = Head(grouped)
    BY <1>8 DEF Open, HeldBack
  <2> DEFINE h == Head(grouped)
             T == Tail(grouped)
  <2>6. h \in Seq(Plain) /\ T \in PlainEntries /\ h # <<>>
    <3> HIDE DEF grouped
    <3>1. PICK V : V = Seq(Plain)
      OBVIOUS
    <3>2. h \in V /\ T \in Seq(V)
      BY <1>6, <2>4, <3>1, HeadFacts DEF PlainEntries
    <3>3. 1 \in 1 .. Len(grouped) /\ h = grouped[1]
      BY <1>6, <2>4 DEF PlainEntries
    <3>4. OneEntry(h)
      BY <1>6, <3>3 DEF Groups
    <3> QED
      BY <3>1, <3>2, <3>4 DEF OneEntry, PlainEntries
  <2>7. settled = T
    BY <2>5, <2>6
  <2>8. Reverse(h) \in Seq(Plain) /\ Reverse(h) \o B \in Seq(Plain)
    <3> HIDE DEF h, B
    <3>1. Reverse(h) \in Seq(Plain)
      <4>1. PICK r \in Plain : TRUE
        BY <2>6
      <4> QED
        BY <2>6, <4>1, ReverseFacts
    <3> QED
      BY <1>5, <3>1, OnTop
  <2>9. GroupRows(A \o B) = GroupRows(Reverse(h) \o B) \o T
    <3> HIDE DEF A, B
    <3> QED
      BY <1>5, <1>6, <2>3, Regroup
  <2>10. carry \o rest = A \o B
    <3> HIDE DEF B
    <3> QED
      BY <1>1, <1>5, Associates
  <2>11. Ahead(lines, query, carry, from) = GroupRows(A \o B)
    BY <2>10 DEF Ahead, rest
  <2>12. Ahead(lines, query, Reverse(open), Position(Last(rows))) = GroupRows(Reverse(h) \o B)
    BY <2>2, <2>5 DEF Ahead
  <2>13. GroupRows(Reverse(h) \o B) \in PlainEntries
    BY <2>8, GroupsSound, PlainAreRows
  <2> HIDE DEF A, B, T, h
  <2>14. Reverse(open) \in Seq(Plain)
    BY <2>5, <2>8 DEF h
  <2> HIDE DEF grouped, open, settled
  <2> QED
    BY <1>8, <2>2, <2>6, <2>7, <2>9, <2>11, <2>12, <2>13, <2>14 DEF rows, A, grouped, open, settled
<1> QED
  BY <1>7, <1>8

LEMMA PagesAreEntries ==
    ASSUME NEW P \in Seq(PlainEntries)
    PROVE  P \in Seq(Entries) /\ Handed(P) \in Entries
<1>1. PlainEntries \subseteq Entries
  BY PlainAreRows
<1>2. Len(P) \in Nat /\ P = [i \in 1 .. Len(P) |-> P[i]] /\ \A i \in 1 .. Len(P) : P[i] \in PlainEntries
  OBVIOUS
<1>3. \A i \in 1 .. Len(P) : P[i] \in Entries
  BY <1>1, <1>2
<1>4. P \in Seq(Entries)
  BY <1>2, <1>3
<1> QED
  BY <1>4, HandedTyped

LEMMA FilterAs ==
    /\ FilteredAs(<<>>, query) = <<>>
    /\ \A E, F \in Entries :
          /\ FilteredAs(E, query) \in Entries
          /\ FilteredAs(E \o F, query) = FilteredAs(E, query) \o FilteredAs(F, query)
  BY FilterNone, FilterTyped, FilterConcat, FilteredNow

\* Filtering keeps entries as they are.
LEMMA FilterPlain == \A E \in PlainEntries : FilteredAs(E, query) \in PlainEntries
<1> DEFINE Good == {E \in PlainEntries : Filtered(E) \in PlainEntries}
<1>1. <<>> \in Good
  <2>1. <<>> \in PlainEntries
    BY DEF PlainEntries
  <2> QED
    BY <2>1, FilterNone
<1>2. ASSUME NEW E \in PlainEntries, NEW e \in Seq(Plain), E \in Good PROVE Append(E, e) \in Good
  <2>1. Filtered(E) \in PlainEntries
    BY <1>2
  <2>2. Append(E, e) \in PlainEntries /\ Append(Filtered(E), e) \in PlainEntries
    <3>1. \A X \in PlainEntries : Append(X, e) \in PlainEntries
      BY DEF PlainEntries
    <3> QED
      BY <2>1, <3>1
  <2>3. E \in Entries /\ e \in Seq(Rows)
    BY PlainAreRows
  <2>4. Filtered(Append(E, e)) = IF Wanted(e) THEN Append(Filtered(E), e) ELSE Filtered(E)
    BY <2>3, FilterOneMore
  <2> QED
    BY <2>1, <2>2, <2>4
<1> HIDE DEF Good
<1>3. \A E \in PlainEntries : E \in Good
  BY <1>1, <1>2, GrowsAtBack DEF PlainEntries
<1> QED
  BY <1>3, FilteredNow DEF Good

LEMMA JoinsEntries ==
    ASSUME NEW A \in Entries, NEW B \in Entries, NEW C \in Entries
    PROVE  /\ A \o B \in Entries /\ A \o (B \o C) = (A \o B) \o C
           /\ <<>> \in Entries /\ <<>> \o A = A /\ A \o <<>> = A
           /\ Len(A \o B) = Len(A) + Len(B) /\ Len(A) \in Nat /\ Len(B) \in Nat
<1>1. PICK V : V = Seq(Rows)
  OBVIOUS
<1>2. A \in Seq(V) /\ B \in Seq(V) /\ C \in Seq(V)
  BY <1>1 DEF Entries
<1> QED
  BY <1>1, <1>2, Associates, ConcatFacts DEF Entries

JoinAnyway(A, B, C) == A \o (B \o C) = (A \o B) \o C
LEMMA JoinsAnyway == \A A, B, C \in Entries : JoinAnyway(A, B, C)
<1> SUFFICES ASSUME NEW A \in Entries, NEW B \in Entries, NEW C \in Entries
             PROVE  A \o (B \o C) = (A \o B) \o C
  BY DEF JoinAnyway
<1>1. PICK V : V = Seq(Rows)
  OBVIOUS
<1>2. A \in Seq(V) /\ B \in Seq(V) /\ C \in Seq(V)
  BY <1>1 DEF Entries
<1> QED
  BY <1>2, Associates

CutRule(V) ==
    \A A, B, C, H \in Seq(V) :
       A \o B = C \o H /\ Len(A) <= Len(C) => B = SubSeq(C, Len(A) + 1, Len(C)) \o H

LEMMA CutRules == \A V : CutRule(V)
  BY CutInFirst DEF CutRule

LEMMA JoinsPlain ==
    ASSUME NEW A \in PlainEntries, NEW B \in PlainEntries
    PROVE  A \o B \in PlainEntries /\ <<>> \in PlainEntries
<1>1. PICK V : V = Seq(Plain)
  OBVIOUS
<1>2. A \in Seq(V) /\ B \in Seq(V)
  BY <1>1 DEF PlainEntries
<1> QED
  BY <1>1, <1>2, Associates DEF PlainEntries

\* A round that neither fills the page nor reaches the end.
GoesOn(S, c, f, P, p, D, settled, c2, p2) ==
    /\ f \in PlainEntries /\ P \in Seq(PlainEntries) /\ D \in PlainEntries
    /\ settled \in PlainEntries /\ Divided(S, query, c, f, P, p, D)
    /\ Ahead(S, query, c2, p2) \in PlainEntries
    /\ Ahead(S, query, c, p) = Ahead(S, query, c2, p2) \o settled
    =>
    LET f2 == FilteredAs(settled, query) \o f
    IN  /\ f2 \in PlainEntries
        /\ \E D2 \in PlainEntries : Divided(S, query, c2, f2, P, p2, D2)
        /\ FilteredAs(Ahead(S, query, c2, p2), query) \o f2
             = FilteredAs(Ahead(S, query, c, p), query) \o f

LEMMA GoesOnHolds ==
    ASSUME NEW S, NEW c, NEW f, NEW P, NEW p, NEW D, NEW settled, NEW c2, NEW p2
    PROVE  GoesOn(S, c, f, P, p, D, settled, c2, p2)
<1> SUFFICES ASSUME f \in PlainEntries, P \in Seq(PlainEntries), D \in PlainEntries,
                    settled \in PlainEntries, Divided(S, query, c, f, P, p, D),
                    Ahead(S, query, c2, p2) \in PlainEntries,
                    Ahead(S, query, c, p) = Ahead(S, query, c2, p2) \o settled
             PROVE  LET f2 == FilteredAs(settled, query) \o f
                    IN  /\ f2 \in PlainEntries
                        /\ \E D2 \in PlainEntries : Divided(S, query, c2, f2, P, p2, D2)
                        /\ FilteredAs(Ahead(S, query, c2, p2), query) \o f2
                             = FilteredAs(Ahead(S, query, c, p), query) \o f
  BY DEF GoesOn
<1> DEFINE X == Ahead(S, query, c2, p2)
           fs == FilteredAs(settled, query)
           f2 == fs \o f
           D2 == settled \o D
           H == Handed(P)
<1>1. settled \in Entries /\ D \in Entries /\ f \in Entries /\ X \in Entries /\ H \in Entries
  BY PlainAreRows, PagesAreEntries
<1>2. fs \in PlainEntries /\ fs \in Entries /\ FilteredAs(X, query) \in Entries
  BY <1>1, FilterPlain, FilterAs
<1>3. f2 \in PlainEntries /\ D2 \in PlainEntries
  BY <1>2, JoinsPlain
<1>4. GroupRows(All(S, query)) = X \o D2
  <2>1. GroupRows(All(S, query)) = (X \o settled) \o D
    BY DEF Divided
  <2> HIDE DEF X
  <2>2. X \o (settled \o D) = (X \o settled) \o D
    <3>1. JoinAnyway(X, settled, D)
      BY <1>1, JoinsAnyway
    <3> QED
      BY <3>1, Zenon DEF JoinAnyway
  <2> QED
    BY <2>1, <2>2
<1>5. FilteredAs(D2, query) = f2 \o H
  <2>1. FilteredAs(D, query) = f \o H
    BY DEF Divided
  <2>2. FilteredAs(settled \o D, query) = fs \o FilteredAs(D, query)
    BY <1>1, FilterAs
  <2>3. fs \in Entries /\ f \in Entries /\ H \in Entries
    BY <1>1, <1>2
  <2> HIDE DEF fs, H
  <2>4. fs \o (f \o H) = (fs \o f) \o H
    <3>1. JoinAnyway(fs, f, H)
      BY <2>3, JoinsAnyway
    <3> QED
      BY <3>1, Zenon DEF JoinAnyway
  <2> QED
    BY <2>1, <2>2, <2>4
<1>6. FilteredAs(X, query) \o f2 = FilteredAs(Ahead(S, query, c, p), query) \o f
  <2>1. FilteredAs(X \o settled, query) = FilteredAs(X, query) \o fs
    BY <1>1, FilterAs
  <2> HIDE DEF fs, X
  <2>2. FilteredAs(X, query) \o (fs \o f) = (FilteredAs(X, query) \o fs) \o f
    <3>1. JoinAnyway(FilteredAs(X, query), fs, f)
      BY <1>1, <1>2, JoinsAnyway
    <3> QED
      BY <3>1, Zenon DEF JoinAnyway
  <2> QED
    BY <2>1, <2>2 DEF X
<1>7. Divided(S, query, c2, f2, P, p2, D2)
  BY <1>4, <1>5 DEF Divided
<1> QED
  BY <1>3, <1>6, <1>7

\* The last page.
EndsWhole(S, c, f, P, p, D) ==
    /\ f \in PlainEntries /\ P \in Seq(PlainEntries) /\ D \in PlainEntries
    /\ Divided(S, query, c, f, P, p, D)
    /\ P # <<>> => FilteredAs(Ahead(S, query, c, p), query) \o f # <<>>
    /\ Ahead(S, query, c, p) \in PlainEntries
    =>
    LET e == FilteredAs(Ahead(S, query, c, p), query) \o f
        P2 == Append(P, e)
    IN  /\ e \in PlainEntries /\ P2 \in Seq(PlainEntries)
        /\ Handed(P2) = FilteredAs(GroupRows(All(S, query)), query)
        /\ P2[Len(P2)] = <<>> => Len(P2) = 1

LEMMA EndsWholeHolds ==
    ASSUME NEW S, NEW c, NEW f, NEW P, NEW p, NEW D
    PROVE  EndsWhole(S, c, f, P, p, D)
<1> SUFFICES ASSUME f \in PlainEntries, P \in Seq(PlainEntries), D \in PlainEntries,
                    Divided(S, query, c, f, P, p, D),
                    P # <<>> => FilteredAs(Ahead(S, query, c, p), query) \o f # <<>>,
                    Ahead(S, query, c, p) \in PlainEntries
             PROVE  LET e == FilteredAs(Ahead(S, query, c, p), query) \o f
                        P2 == Append(P, e)
                    IN  /\ e \in PlainEntries /\ P2 \in Seq(PlainEntries)
                        /\ Handed(P2) = FilteredAs(GroupRows(All(S, query)), query)
                        /\ P2[Len(P2)] = <<>> => Len(P2) = 1
  BY DEF EndsWhole
<1> DEFINE X == Ahead(S, query, c, p)
           fx == FilteredAs(X, query)
           e == fx \o f
           P2 == Append(P, e)
           H == Handed(P)
<1>1. X \in Entries /\ D \in Entries /\ f \in Entries /\ H \in Entries /\ P \in Seq(Entries)
  BY PlainAreRows, PagesAreEntries
<1>2. fx \in PlainEntries /\ fx \in Entries
  BY <1>1, FilterPlain, FilterAs
<1>3. e \in PlainEntries /\ e \in Entries
  BY <1>2, JoinsPlain, PlainAreRows
<1>4. FilteredAs(GroupRows(All(S, query)), query) = e \o H
  <2>1. GroupRows(All(S, query)) = X \o D /\ FilteredAs(D, query) = f \o H
    BY DEF Divided
  <2>2. FilteredAs(X \o D, query) = fx \o FilteredAs(D, query)
    BY <1>1, FilterAs
  <2> HIDE DEF fx, H, X
  <2>3. fx \o (f \o H) = (fx \o f) \o H
    <3>1. JoinAnyway(fx, f, H)
      BY <1>1, <1>2, JoinsAnyway
    <3> QED
      BY <3>1, Zenon DEF JoinAnyway
  <2> QED
    BY <2>1, <2>2, <2>3
<1>5. e # <<>> \/ P = <<>>
  OBVIOUS
<1> HIDE DEF e
<1>6. Handed(P2) = e \o H
  BY <1>1, <1>3, HandedOneMore
<1>7. P2 \in Seq(PlainEntries) /\ Len(P2) = Len(P) + 1 /\ P2[Len(P) + 1] = e
  BY <1>3
<1>8. P2[Len(P2)] = <<>> => Len(P2) = 1
  <2>1. P = <<>> => Len(P) = 0
    OBVIOUS
  <2> QED
    BY <1>5, <1>7, <2>1
<1> QED
  BY <1>3, <1>4, <1>6, <1>7, <1>8 DEF e

\* A full page: the next one resumes behind the first row of its oldest entry, where
\* nothing is carried over.
Fills(c, f, P, p, D, settled, X, cut) ==
    /\ f \in PlainEntries /\ P \in Seq(PlainEntries) /\ D \in PlainEntries
    /\ settled \in PlainEntries /\ X \in PlainEntries
    /\ Divided(lines, query, c, f, P, p, D)
    /\ Ahead(lines, query, c, p) = X \o settled
    /\ cut \in Nat /\ cut = Len(FilteredAs(settled, query) \o f) - Limit /\ cut > 0
    =>
    LET e == FilteredAs(settled, query) \o f
        page == SubSeq(e, cut + 1, Len(e))
        p2 == Position(e[cut + 1][1])
        P2 == Append(P, page)
    IN  /\ page \in PlainEntries /\ Len(page) = Limit /\ p2 \in Points
        /\ P2 \in Seq(PlainEntries)
        /\ \E D2 \in PlainEntries : Divided(lines, query, <<>>, <<>>, P2, p2, D2)
        /\ FilteredAs(Ahead(lines, query, <<>>, p2), query) # <<>>

LEMMA FillsHolds ==
    ASSUME StoreInv, lines \subseteq Plain,
           NEW c, NEW f, NEW P, NEW p, NEW D, NEW settled, NEW X, NEW cut
    PROVE  Fills(c, f, P, p, D, settled, X, cut)
<1> SUFFICES ASSUME f \in PlainEntries, P \in Seq(PlainEntries), D \in PlainEntries,
                    settled \in PlainEntries, X \in PlainEntries,
                    Divided(lines, query, c, f, P, p, D),
                    Ahead(lines, query, c, p) = X \o settled,
                    cut \in Nat, cut = Len(FilteredAs(settled, query) \o f) - Limit, cut > 0
             PROVE  LET e == FilteredAs(settled, query) \o f
                        page == SubSeq(e, cut + 1, Len(e))
                        p2 == Position(e[cut + 1][1])
                        P2 == Append(P, page)
                    IN  /\ page \in PlainEntries /\ Len(page) = Limit /\ p2 \in Points
                        /\ P2 \in Seq(PlainEntries)
                        /\ \E D2 \in PlainEntries : Divided(lines, query, <<>>, <<>>, P2, p2, D2)
                        /\ FilteredAs(Ahead(lines, query, <<>>, p2), query) # <<>>
  BY DEF Fills
<1> DEFINE fs == FilteredAs(settled, query)
           e == fs \o f
           n == Len(e)
           page == SubSeq(e, cut + 1, n)
           p2 == Position(e[cut + 1][1])
           H == Handed(P)
           E == settled \o D
           W == All(lines, query)
           G == GroupRows(W)
           k == cut + 1
<1>1. settled \in Entries /\ D \in Entries /\ f \in Entries /\ X \in Entries /\ H \in Entries
      /\ P \in Seq(Entries) /\ Limit \in Nat /\ Limit > 0
  BY PlainAreRows, PagesAreEntries, QueryAssumption
<1>2. fs \in PlainEntries /\ fs \in Entries
  BY <1>1, FilterPlain, FilterAs
<1>3. e \in PlainEntries /\ e \in Entries /\ n \in Nat /\ cut = n - Limit
  <2>1. e \in PlainEntries
    BY <1>2, JoinsPlain
  <2>2. e \in Entries
    BY <2>1, PlainAreRows
  <2>3. n \in Nat
    BY <1>1, <1>2, JoinsEntries
  <2> QED
    BY <2>1, <2>2, <2>3
<1>4. FilteredAs(E, query) = e \o H
  <2>1. FilteredAs(D, query) = f \o H
    BY DEF Divided
  <2>2. FilteredAs(settled \o D, query) = fs \o FilteredAs(D, query)
    BY <1>1, FilterAs
  <2> HIDE DEF fs, H
  <2>3. fs \o (f \o H) = (fs \o f) \o H
    <3>1. JoinAnyway(fs, f, H)
      BY <1>1, <1>2, JoinsAnyway
    <3> QED
      BY <3>1, Zenon DEF JoinAnyway
  <2> QED
    BY <2>1, <2>2, <2>3
<1>5. E \in PlainEntries /\ E \in Entries
  BY JoinsPlain, PlainAreRows
<1>6. G = X \o E
  <2>1. G = (X \o settled) \o D
    BY DEF Divided
  <2> HIDE DEF G
  <2>2. X \o (settled \o D) = (X \o settled) \o D
    <3>1. JoinAnyway(X, settled, D)
      BY <1>1, JoinsAnyway
    <3> QED
      BY <3>1, Zenon DEF JoinAnyway
  <2> QED
    BY <2>1, <2>2
<1>7. W \in Seq(Plain) /\ G \in PlainEntries
  <2>1. NoPosition \in Points
    BY QueryAssumption DEF NoPosition, Points
  <2>2. W \in Seq(Plain)
    BY <2>1, BehindSound
  <2> QED
    BY <2>2, GroupsSound, PlainAreRows
<1> HIDE DEF fs, e, H, E, W, G, p2, page
<1>8. k \in 1 .. n /\ k \in 1 .. Len(e \o H) /\ (e \o H)[k] = e[k] /\ k - 1 = cut
  <2>1. k \in 1 .. n /\ k - 1 = cut
    BY <1>1, <1>3
  <2>2. PICK V : V = Seq(Rows)
    OBVIOUS
  <2>3. e \in Seq(V) /\ H \in Seq(V)
    BY <1>1, <1>3, <2>2 DEF Entries
  <2>4. /\ Len(e \o H) = Len(e) + Len(H) /\ Len(H) \in Nat
        /\ \A i \in 1 .. Len(e) : (e \o H)[i] = e[i]
    BY <2>3, ConcatFacts
  <2> QED
    BY <1>3, <2>1, <2>4
<1>9. PICK E1 \in Entries, E2 \in Entries :
         /\ E = E1 \o E2 /\ E2 # <<>> /\ E2[1] = e[k]
         /\ Len(FilteredAs(E1, query)) = cut
  <2>1. Filtered(E) = e \o H
    BY <1>4, FilteredNow
  <2> HIDE DEF k
  <2>2. PICK E1 \in Entries, E2 \in Entries :
           /\ E = E1 \o E2 /\ E2 # <<>> /\ E2[1] = Filtered(E)[k]
           /\ Len(Filtered(E1)) = k - 1
    BY <1>5, <1>8, <2>1, FilterSplits
  <2>3. E2[1] = e[k] /\ Len(FilteredAs(E1, query)) = cut
    BY <1>8, <2>1, <2>2, FilteredNow
  <2> QED
    BY <2>2, <2>3
<1>10. E1 \in PlainEntries /\ E2 \in PlainEntries
  <2>1. PICK V, U : V = Seq(Rows) /\ U = Seq(Plain)
    OBVIOUS
  <2>2. E1 \in Seq(V) /\ E2 \in Seq(V) /\ E1 \o E2 \in Seq(U)
    BY <1>5, <1>9, <2>1 DEF Entries, PlainEntries
  <2>3. E1 \in Seq(U) /\ E2 \in Seq(U)
    BY <2>2, ConcatBack
  <2> QED
    BY <2>1, <2>3 DEF PlainEntries
<1> DEFINE Y == X \o E1
           j == Len(Y) + 1
<1>11. Y \in PlainEntries /\ Y \in Entries /\ G = Y \o E2 /\ Len(Y) \in Nat
  <2>1. Y \in PlainEntries
    BY <1>10, JoinsPlain
  <2>2. Y \in Entries /\ Len(Y) \in Nat
    BY <2>1, PlainAreRows, JoinsEntries
  <2>3. G = Y \o E2
    <3>1. X \o (E1 \o E2) = (X \o E1) \o E2
      <4>1. JoinAnyway(X, E1, E2)
        BY <1>1, JoinsAnyway
      <4> QED
        BY <4>1, Zenon DEF JoinAnyway
    <3> QED
      BY <1>6, <1>9, <3>1
  <2> QED
    BY <2>1, <2>2, <2>3
<1> HIDE DEF Y
<1>12. j \in 1 .. Len(G) /\ G[j] = e[k] /\ SubSeq(G, 1, j - 1) = Y
  <2>1. PICK V : V = Seq(Plain)
    OBVIOUS
  <2>2. Y \in Seq(V) /\ E2 \in Seq(V) /\ G \in Seq(V)
    BY <1>7, <1>10, <1>11, <2>1 DEF PlainEntries
  <2>3. /\ Len(Y \o E2) = Len(Y) + Len(E2) /\ Len(E2) \in Nat
        /\ \A i \in 1 .. Len(E2) : (Y \o E2)[Len(Y) + i] = E2[i]
    BY <2>2, ConcatFacts
  <2>4. Len(E2) > 0
    BY <1>9, <2>2, <2>3
  <2>5. 1 \in 1 .. Len(E2)
    BY <2>3, <2>4
  <2>6. j \in 1 .. Len(G) /\ G[j] = e[k] /\ j - 1 = Len(Y) /\ Len(Y) \in 0 .. Len(G)
    BY <1>9, <1>11, <2>3, <2>4, <2>5
  <2>7. /\ SubSeq(G, 1, Len(Y)) \in Seq(V) /\ SubSeq(G, Len(Y) + 1, Len(G)) \in Seq(V)
        /\ Len(SubSeq(G, 1, Len(Y))) = Len(Y)
        /\ G = SubSeq(G, 1, Len(Y)) \o SubSeq(G, Len(Y) + 1, Len(G))
    BY <2>2, <2>6, CutInTwo
  <2>8. SubSeq(G, 1, Len(Y)) = Y
    BY <1>11, <2>2, <2>7, SameCut
  <2> QED
    BY <2>6, <2>8
<1> HIDE DEF j, k
<1>13. PICK A \in Seq(Plain), B \in Seq(Plain) :
          W = A \o B /\ A # <<>> /\ Last(A) = e[k][1] /\ GroupRows(B) = Y
  <2>1. \A i \in 1 .. Len(G) : \E A, B \in Seq(Plain) :
           /\ W = A \o B /\ A # <<>> /\ Last(A) = G[i][1]
           /\ GroupRows(B) = SubSeq(G, 1, i - 1)
    BY <1>7, SplitAt DEF G
  <2>2. PICK A \in Seq(Plain), B \in Seq(Plain) :
           /\ W = A \o B /\ A # <<>> /\ Last(A) = G[j][1]
           /\ GroupRows(B) = SubSeq(G, 1, j - 1)
    BY <1>12, <2>1
  <2> QED
    BY <1>12, <2>2
<1>14. p2 \in Points /\ Behind(lines, query, p2) = B
  <2>1. NoPosition \in Points
    BY QueryAssumption DEF NoPosition, Points
  <2> QED
    BY <1>13, <2>1, BehindSound DEF W, p2, k
<1>15. Ahead(lines, query, <<>>, p2) = Y
  <2>1. <<>> \o B = B
    BY Associates
  <2> QED
    BY <1>13, <1>14, <2>1 DEF Ahead
<1>16. page \in PlainEntries /\ Len(page) = Limit /\ FilteredAs(E2, query) = page \o H
  <2>1. PICK V : V = Seq(Plain)
    OBVIOUS
  <2>2. e \in Seq(V)
    BY <1>3, <2>1 DEF PlainEntries
  <2>3. cut \in 0 .. n
    BY <1>1, <1>3
  <2>4. page \in Seq(V) /\ Len(page) = n - cut
    <3>1. SubSeq(e, cut + 1, Len(e)) \in Seq(V) /\ Len(SubSeq(e, cut + 1, Len(e))) = Len(e) - cut
      BY <2>2, <2>3, CutInTwo
    <3> QED
      BY <3>1 DEF page
  <2>5. FilteredAs(E1, query) \o FilteredAs(E2, query) = e \o H
    BY <1>4, <1>9, FilterAs
  <2>6. FilteredAs(E1, query) \in Entries /\ FilteredAs(E2, query) \in Entries
    BY FilterAs
  <2>7. FilteredAs(E2, query) = SubSeq(e, cut + 1, Len(e)) \o H
    <3>1. PICK U : U = Seq(Rows)
      OBVIOUS
    <3>2. FilteredAs(E1, query) \in Seq(U) /\ FilteredAs(E2, query) \in Seq(U) /\ e \in Seq(U) /\ H \in Seq(U)
      BY <1>1, <1>3, <2>6, <3>1 DEF Entries
    <3>3. Len(FilteredAs(E1, query)) = cut /\ cut <= Len(e)
      BY <1>9, <2>3
    <3>4. PICK F, F2 \in Seq(U) : F = FilteredAs(E1, query) /\ F2 = FilteredAs(E2, query)
      BY <3>2
    <3>5. F \o F2 = e \o H /\ Len(F) <= Len(e)
      BY <2>5, <3>3, <3>4
    <3>6. F2 = SubSeq(e, Len(F) + 1, Len(e)) \o H
      <4>1. e \in Seq(U) /\ H \in Seq(U)
        BY <3>2
      <4>2. CutRule(U)
        BY CutRules
      <4> QED
        BY <3>5, <4>1, <4>2, Zenon DEF CutRule
    <3> QED
      BY <3>3, <3>4, <3>6
  <2>8. Len(page) = Limit
    BY <1>1, <1>3, <2>4
  <2> QED
    BY <2>1, <2>4, <2>7, <2>8 DEF PlainEntries, page
<1>17. Append(P, page) \in Seq(PlainEntries) /\ Handed(Append(P, page)) = page \o H
  <2>1. page \in Entries
    BY <1>16, PlainAreRows
  <2> QED
    BY <1>1, <1>16, <2>1, HandedOneMore DEF H
<1>18. Divided(lines, query, <<>>, <<>>, Append(P, page), p2, E2)
  <2>1. GroupRows(All(lines, query)) = Y \o E2
    BY <1>11 DEF G, W
  <2>2. <<>> \o (page \o H) = page \o H
    <3>1. page \in Entries
      BY <1>16, PlainAreRows
    <3>2. page \o H \in Entries
      BY <1>1, <3>1, JoinsEntries
    <3> QED
      BY <3>2, JoinsEntries
  <2> QED
    BY <1>15, <1>16, <1>17, <2>1, <2>2 DEF Divided
<1>19. FilteredAs(Y, query) # <<>>
  <2>1. FilteredAs(Y, query) = FilteredAs(X, query) \o FilteredAs(E1, query)
    BY <1>1, FilterAs DEF Y
  <2>2. FilteredAs(X, query) \in Entries /\ FilteredAs(E1, query) \in Entries
    BY <1>1, FilterAs
  <2>3. Len(FilteredAs(Y, query)) = Len(FilteredAs(X, query)) + cut
        /\ Len(FilteredAs(X, query)) \in Nat
    <3>1. PICK F, G1 \in Entries : F = FilteredAs(X, query) /\ G1 = FilteredAs(E1, query)
      BY <2>2
    <3>2. Len(F \o G1) = Len(F) + Len(G1) /\ Len(F) \in Nat
      BY JoinsEntries
    <3> QED
      BY <1>9, <2>1, <3>1, <3>2
  <2>4. Len(<<>>) = 0
    OBVIOUS
  <2> QED
    BY <2>3, <2>4
<1> QED
  BY <1>10, <1>14, <1>15, <1>16, <1>17, <1>18, <1>19 DEF e, page, p2, fs, k

\* The walk, whatever the store does, and its pages while the store rests.
RestingInv ==
    /\ WalkInv /\ changes \in Nat
    /\ changes = 0 /\ (\A r \in start : r.kind # "frame") => RestInv

LEMMA NoLines ==
    ASSUME NEW q, NEW p
    PROVE  All({}, q) = <<>> /\ Behind({}, q, p) = <<>> /\ Ahead({}, q, <<>>, p) = <<>>
<1>1. NewestFirst({}) = <<>>
  <2>1. IsFiniteSet({}) /\ Cardinality({}) = 0
    BY FS_EmptySet
  <2>2. RowsAreTold({})
    BY DEF RowsAreTold
  <2>3. NewestFirst({}) \in Seq(Rows) /\ Len(NewestFirst({})) = 0
    BY <2>1, <2>2, NewestFirstSound
  <2>4. \A s \in Seq(Rows) : Len(s) = 0 => s = <<>>
    OBVIOUS
  <2> QED
    BY <2>3, <2>4
<1>2. AllOf({}, q) = {} /\ {r \in AllOf({}, q) : OlderThan(r, p)} = {}
  BY DEF AllOf
<1>3. <<>> \o <<>> = <<>>
  OBVIOUS
<1> QED
  BY <1>1, <1>2, <1>3, GroupNone DEF All, Behind, Ahead

LEMMA PageLengths ==
    ASSUME NEW P \in Seq(PlainEntries), \A i \in 1 .. Len(P) : Len(P[i]) = Limit,
           NEW e \in PlainEntries
    PROVE  LET P2 == Append(P, e)
           IN  /\ P2 \in Seq(PlainEntries)
               /\ \A i \in 1 .. Len(P2) : Len(P2[i]) = Limit \/ i = Len(P2)
               /\ Len(e) = Limit => \A i \in 1 .. Len(P2) : Len(P2[i]) = Limit
<1> DEFINE P2 == Append(P, e)
           n == Len(P)
<1>1. /\ P2 \in Seq(PlainEntries) /\ Len(P2) = n + 1 /\ n \in Nat /\ P2[n + 1] = e
      /\ \A i \in 1 .. n : P2[i] = P[i]
  OBVIOUS
<1> HIDE DEF P2
<1>2. \A i \in 1 .. n + 1 : i = n + 1 \/ i \in 1 .. n
  BY <1>1
<1> QED
  BY <1>1, <1>2 DEF P2

\* At first everything is still to be read.
LEMMA RestStarts == LogQueryInit => RestingInv
<1> SUFFICES ASSUME LogQueryInit PROVE RestingInv
  OBVIOUS
<1>1. WalkInv /\ StoreInv
  BY WalkStarts DEF WalkInv
<1>2. /\ start = lines /\ stored = {r.gen : r \in lines} /\ phase = "idle" /\ from = NoPosition
      /\ carry = <<>> /\ found = <<>> /\ pages = <<>> /\ changes = 0
  BY DEF LogQueryInit
<1>3. ASSUME \A r \in start : r.kind # "frame" PROVE RestInv
  <2>1. lines \subseteq Plain
    BY <1>1, <1>2, <1>3 DEF StoreInv, RowsAreTold, Plain
  <2>2. from \in Points /\ \A r \in Rows : OlderThan(r, from)
    BY <1>2, QueryAssumption DEF NoPosition, Points, OlderThan, Rows
  <2>3. Behind(lines, query, from) = All(lines, query)
    <3>1. {r \in AllOf(lines, query) : OlderThan(r, from)} = AllOf(lines, query)
      BY <2>1, <2>2 DEF AllOf, Plain
    <3> QED
      BY <3>1 DEF Behind, All
  <2>4. All(lines, query) \in Seq(Plain)
    BY <1>1, <2>1, <2>2, BehindSound
  <2>5. GroupRows(All(lines, query)) \in Entries
    BY <2>4, GroupsSound, PlainAreRows
  <2>6. <<>> \o All(lines, query) = All(lines, query)
    BY <2>4, Associates
  <2>7. Ahead(lines, query, <<>>, from) = GroupRows(All(lines, query))
    BY <2>3, <2>6 DEF Ahead
  <2>8. GroupRows(All(lines, query)) = GroupRows(All(lines, query)) \o <<>>
    BY <2>5, JoinsEntries
  <2>9. Divided(lines, query, <<>>, <<>>, <<>>, from, <<>>)
    <3>1. <<>> \o <<>> = <<>>
      OBVIOUS
    <3> QED
      BY <2>7, <2>8, <3>1, HandedNone, FilterAs DEF Divided
  <2>10. <<>> \in PlainEntries /\ <<>> \in Seq(Plain) /\ <<>> \in Seq(PlainEntries) /\ Len(<<>>) = 0
    BY DEF PlainEntries
  <2>11. 0 <= Limit
    BY QueryAssumption
  <2>12. WalkSound(lines, query, <<>>, <<>>, <<>>, from, "idle")
    BY <2>2, <2>9, <2>10, <2>11 DEF WalkSound
  <2> QED
    BY <1>2, <2>12 DEF RestInv
<1> QED
  BY <1>1, <1>2, <1>3 DEF RestingInv

-----------------------------------------------------------------------------
\* Each step of a walk over a store at rest.
LEMMA AskForPageRests ==
    ASSUME StoreInv, lines \subseteq Plain, RestInv, AskForPage
    PROVE  RestInv'
<1>1. /\ phase = "idle" /\ refs' = stored /\ carry' = <<>> /\ found' = <<>>
      /\ query' = query /\ from' = from /\ start' = start /\ lines' = lines /\ stored' = stored
  BY DEF AskForPage, storeVars
<1>2. WalkSound(lines, query, carry, found, pages, from, phase)
  BY DEF RestInv
<1>3. /\ carry = <<>> /\ found = <<>> /\ pages \in Seq(PlainEntries) /\ from \in Points
      /\ \A i \in 1 .. Len(pages) : Len(pages[i]) = Limit
  BY <1>1, <1>2 DEF WalkSound
<1>4. PICK D \in PlainEntries : Divided(lines, query, carry, found, pages, from, D)
  BY <1>1, <1>2 DEF WalkSound
<1>5. pages # <<>> => FilteredAs(Ahead(lines, query, carry, from), query) \o found # <<>>
  BY <1>1, <1>2 DEF WalkSound
<1>6. <<>> \in PlainEntries /\ <<>> \in Seq(Plain) /\ Len(<<>>) <= Limit
  BY QueryAssumption DEF PlainEntries
<1>7. CASE stored = {}
  <2>1. phase' = "end" /\ pages' = Append(pages, <<>>)
    BY <1>7 DEF AskForPage
  <2>2. lines = {}
    BY <1>7 DEF RestInv
  <2>3. Ahead(lines, query, carry, from) = <<>>
    BY <1>3, <2>2, NoLines
  <2>4. FilteredAs(Ahead(lines, query, carry, from), query) \o found = <<>>
    <3>1. <<>> \o <<>> = <<>>
      OBVIOUS
    <3> QED
      BY <1>3, <2>3, <3>1, FilterAs
  <2>5. /\ Handed(pages') = FilteredAs(GroupRows(All(lines, query)), query)
        /\ pages'[Len(pages')] = <<>> => Len(pages') = 1
    <3>1. found \in PlainEntries /\ Ahead(lines, query, carry, from) \in PlainEntries
      BY <1>3, <1>6, <2>3
    <3>2. LET f == FilteredAs(Ahead(lines, query, carry, from), query) \o found
              P2 == Append(pages, f)
          IN  /\ f \in PlainEntries /\ P2 \in Seq(PlainEntries)
              /\ Handed(P2) = FilteredAs(GroupRows(All(lines, query)), query)
              /\ P2[Len(P2)] = <<>> => Len(P2) = 1
      <4>1. EndsWhole(lines, carry, found, pages, from, D)
        BY EndsWholeHolds
      <4> QED
        BY <1>3, <1>4, <1>5, <3>1, <4>1 DEF EndsWhole
    <3> QED
      BY <2>1, <2>4, <3>2
  <2>6. /\ pages' \in Seq(PlainEntries)
        /\ \A i \in 1 .. Len(pages') : Len(pages'[i]) = Limit \/ i = Len(pages')
    BY <1>3, <1>6, <2>1, PageLengths
  <2>7. WalkSound(lines, query, <<>>, <<>>, pages', from, "end")
    BY <1>3, <1>6, <2>5, <2>6 DEF WalkSound
  <2> QED
    BY <1>1, <2>1, <2>7 DEF RestInv
<1>8. CASE stored # {}
  <2>1. phase' = "scanning" /\ pages' = pages
    BY <1>8 DEF AskForPage
  <2>2. WalkSound(lines, query, <<>>, <<>>, pages, from, "scanning")
    BY <1>3, <1>4, <1>5, <1>6 DEF WalkSound
  <2> QED
    BY <1>1, <2>1, <2>2 DEF RestInv
<1> QED
  BY <1>7, <1>8

LEMMA ScanRoundRests ==
    ASSUME StoreInv, lines \subseteq Plain, RestInv, ScanRound
    PROVE  RestInv'
<1> DEFINE rows == ScanRows
           exhausted == Len(rows) < Chunk
           grouped == GroupRows(carry \o rows)
           open == Open(grouped, exhausted)
           settled == IF open = <<>> THEN grouped ELSE Tail(grouped)
           e == Filtered(settled) \o found
           cut == Len(e) - Limit
           X == Ahead(lines, query, Reverse(open), Position(Last(rows)))
           Now == Ahead(lines, query, carry, from)
<1>1. /\ phase = "scanning"
      /\ query' = query /\ start' = start /\ lines' = lines /\ stored' = stored /\ refs' = refs
  BY DEF ScanRound, storeVars
<1>2. IF Len(e) > Limit \/ exhausted
      THEN NewPage(e) /\ found' = <<>> /\ carry' = <<>>
      ELSE /\ found' = e /\ carry' = Reverse(open) /\ from' = Position(Last(rows))
           /\ phase' = phase /\ pages' = pages
  BY DEF ScanRound
<1>3. WalkSound(lines, query, carry, found, pages, from, phase)
  BY DEF RestInv
<1>4. /\ found \in PlainEntries /\ pages \in Seq(PlainEntries) /\ from \in Points
      /\ \A i \in 1 .. Len(pages) : Len(pages[i]) = Limit
  BY <1>1, <1>3 DEF WalkSound
<1>5. PICK D \in PlainEntries : Divided(lines, query, carry, found, pages, from, D)
  BY <1>1, <1>3 DEF WalkSound
<1>6. pages # <<>> => FilteredAs(Now, query) \o found # <<>>
  BY <1>1, <1>3 DEF WalkSound
<1>7. /\ settled \in PlainEntries
      /\ exhausted => Now = settled
      /\ ~exhausted =>
            /\ Reverse(open) \in Seq(Plain) /\ Position(Last(rows)) \in Points
            /\ X \in PlainEntries /\ Now = X \o settled
  BY <1>1, RoundDivides
<1>8. e = FilteredAs(settled, query) \o found
  BY FilteredNow
<1>9. <<>> \in PlainEntries /\ <<>> \in Seq(Plain) /\ Len(<<>>) <= Limit
      /\ Limit \in Nat /\ Limit > 0
  BY QueryAssumption DEF PlainEntries
<1> HIDE DEF settled, open, grouped, exhausted, rows
<1>10. FilteredAs(settled, query) \in PlainEntries
  BY <1>7, FilterPlain
<1>11. e \in PlainEntries /\ Len(e) \in Nat
  <2>1. e \in PlainEntries
    BY <1>4, <1>8, <1>10, JoinsPlain
  <2>2. e \in Entries
    BY <2>1, PlainAreRows
  <2> QED
    BY <2>1, <2>2, JoinsEntries
<1> HIDE DEF e, X, Now
<1>12. CASE ~(Len(e) > Limit \/ exhausted)
  <2>1. /\ found' = e /\ carry' = Reverse(open) /\ from' = Position(Last(rows))
        /\ phase' = "scanning" /\ pages' = pages
    BY <1>1, <1>2, <1>12
  <2>2. Ahead(lines, query, carry, from) = Ahead(lines, query, Reverse(open), Position(Last(rows))) \o settled
        /\ Ahead(lines, query, Reverse(open), Position(Last(rows))) \in PlainEntries
    BY <1>7, <1>12 DEF X, Now
  <2>3. /\ \E D2 \in PlainEntries :
              Divided(lines, query, Reverse(open), e, pages, Position(Last(rows)), D2)
        /\ FilteredAs(X, query) \o e = FilteredAs(Now, query) \o found
    <3>1. PICK c2, p2 : c2 = Reverse(open) /\ p2 = Position(Last(rows))
      OBVIOUS
    <3>2. /\ found \in PlainEntries /\ pages \in Seq(PlainEntries) /\ settled \in PlainEntries
          /\ Ahead(lines, query, carry, from) = Ahead(lines, query, c2, p2) \o settled
          /\ Ahead(lines, query, c2, p2) \in PlainEntries
      BY <1>4, <1>7, <2>2, <3>1
    <3>3. LET f2 == FilteredAs(settled, query) \o found
          IN  /\ f2 \in PlainEntries
              /\ \E D2 \in PlainEntries : Divided(lines, query, c2, f2, pages, p2, D2)
              /\ FilteredAs(Ahead(lines, query, c2, p2), query) \o f2
                   = FilteredAs(Ahead(lines, query, carry, from), query) \o found
      <4>1. GoesOn(lines, carry, found, pages, from, D, settled, c2, p2)
        BY GoesOnHolds
      <4> QED
        BY <1>5, <3>2, <4>1 DEF GoesOn
    <3> QED
      BY <1>8, <3>1, <3>3 DEF X, Now
  <2>4. pages # <<>> => FilteredAs(X, query) \o e # <<>>
    BY <1>6, <2>3
  <2>5. Len(e) <= Limit
    BY <1>9, <1>11, <1>12
  <2>6. WalkSound(lines, query, Reverse(open), e, pages, Position(Last(rows)), "scanning")
    BY <1>4, <1>7, <1>11, <1>12, <2>3, <2>4, <2>5 DEF WalkSound, X
  <2>7. stored = {r.gen : r \in lines} /\ lines = start /\ refs = stored
    BY <1>1 DEF RestInv
  <2> QED
    BY <1>1, <2>1, <2>6, <2>7 DEF RestInv
<1>13. CASE Len(e) > Limit
  <2>1. cut \in Nat /\ cut > 0 /\ ~(cut <= 0)
    BY <1>9, <1>11, <1>13
  <2> DEFINE page == SubSeq(e, cut + 1, Len(e))
             p2 == Position(e[cut + 1][1])
  <2>2. /\ pages' = Append(pages, page) /\ from' = p2 /\ phase' = "idle"
        /\ found' = <<>> /\ carry' = <<>>
    BY <1>2, <1>13, <2>1 DEF NewPage, CursorAt, CutAtHead
  <2>3. \E Y \in PlainEntries : Now = Y \o settled
    <3>1. CASE exhausted
      <4>1. <<>> \o settled = settled
        BY <1>7, PlainAreRows, JoinsEntries
      <4> QED
        BY <1>7, <1>9, <3>1, <4>1
    <3>2. CASE ~exhausted
      BY <1>7, <3>2
    <3> QED
      BY <3>1, <3>2
  <2>4. PICK Y \in PlainEntries : Now = Y \o settled
    BY <2>3
  <2>5. cut = Len(FilteredAs(settled, query) \o found) - Limit
    BY <1>8
  <2> HIDE DEF cut
  <2>6. LET f == FilteredAs(settled, query) \o found
            g == SubSeq(f, cut + 1, Len(f))
            p == Position(f[cut + 1][1])
            P2 == Append(pages, g)
        IN  /\ g \in PlainEntries /\ Len(g) = Limit /\ p \in Points
            /\ P2 \in Seq(PlainEntries)
            /\ \E D2 \in PlainEntries : Divided(lines, query, <<>>, <<>>, P2, p, D2)
            /\ FilteredAs(Ahead(lines, query, <<>>, p), query) # <<>>
    <3>1. found \in PlainEntries /\ pages \in Seq(PlainEntries) /\ settled \in PlainEntries
      BY <1>4, <1>7
    <3>2. Ahead(lines, query, carry, from) = Y \o settled
      BY <2>4 DEF Now
    <3> QED
      <4>1. Fills(carry, found, pages, from, D, settled, Y, cut)
        BY FillsHolds
      <4> QED
        BY <1>5, <2>1, <2>4, <2>5, <3>1, <3>2, <4>1 DEF Fills
  <2>7. /\ page \in PlainEntries /\ Len(page) = Limit /\ p2 \in Points
        /\ pages' \in Seq(PlainEntries)
        /\ \E D2 \in PlainEntries : Divided(lines, query, <<>>, <<>>, pages', p2, D2)
        /\ FilteredAs(Ahead(lines, query, <<>>, p2), query) # <<>>
    BY <1>8, <2>2, <2>6
  <2> HIDE DEF page, p2
  <2>8. \A i \in 1 .. Len(pages') : Len(pages'[i]) = Limit
    BY <1>4, <2>2, <2>7, PageLengths
  <2>9. FilteredAs(Ahead(lines, query, <<>>, p2), query) \o <<>> # <<>>
    <3>1. Ahead(lines, query, <<>>, p2) \in PlainEntries
      <4>1. Behind(lines, query, p2) \in Seq(Plain)
        BY <2>7, BehindSound
      <4>2. <<>> \o Behind(lines, query, p2) \in Seq(Plain)
        BY <4>1, Associates
      <4> QED
        BY <4>2, GroupsSound, PlainAreRows DEF Ahead
    <3>2. FilteredAs(Ahead(lines, query, <<>>, p2), query) \in Entries
      BY <3>1, PlainAreRows, FilterAs
    <3>3. FilteredAs(Ahead(lines, query, <<>>, p2), query) \o <<>>
            = FilteredAs(Ahead(lines, query, <<>>, p2), query)
      BY <3>2, JoinsEntries
    <3> QED
      BY <2>7, <3>3
  <2>10. WalkSound(lines, query, <<>>, <<>>, pages', p2, "idle")
    BY <1>9, <2>7, <2>8, <2>9 DEF WalkSound
  <2>11. stored = {r.gen : r \in lines} /\ lines = start
    BY DEF RestInv
  <2> QED
    BY <1>1, <2>2, <2>10, <2>11 DEF RestInv
<1>14. CASE exhausted /\ ~(Len(e) > Limit)
  <2>1. cut <= 0
    BY <1>9, <1>11, <1>14
  <2>2. /\ pages' = Append(pages, e) /\ phase' = "end" /\ from' = from
        /\ found' = <<>> /\ carry' = <<>>
    BY <1>2, <1>14, <2>1 DEF NewPage
  <2>3. Now = settled
    BY <1>7, <1>14
  <2>4. Ahead(lines, query, carry, from) \in PlainEntries
    BY <1>7, <2>3 DEF Now
  <2>5. LET f == FilteredAs(Ahead(lines, query, carry, from), query) \o found
            P2 == Append(pages, f)
        IN  /\ f \in PlainEntries /\ P2 \in Seq(PlainEntries)
            /\ Handed(P2) = FilteredAs(GroupRows(All(lines, query)), query)
            /\ P2[Len(P2)] = <<>> => Len(P2) = 1
    <3>1. EndsWhole(lines, carry, found, pages, from, D)
      BY EndsWholeHolds
    <3> QED
      BY <1>4, <1>5, <1>6, <2>4, <3>1 DEF Now, EndsWhole
  <2>6. /\ pages' \in Seq(PlainEntries)
        /\ Handed(pages') = FilteredAs(GroupRows(All(lines, query)), query)
        /\ pages'[Len(pages')] = <<>> => Len(pages') = 1
    BY <1>8, <2>2, <2>3, <2>5 DEF Now
  <2>7. \A i \in 1 .. Len(pages') : Len(pages'[i]) = Limit \/ i = Len(pages')
    BY <1>4, <1>11, <2>2, PageLengths
  <2>8. WalkSound(lines, query, <<>>, <<>>, pages', from, "end")
    BY <1>4, <1>9, <2>6, <2>7 DEF WalkSound
  <2>9. stored = {r.gen : r \in lines} /\ lines = start
    BY DEF RestInv
  <2> QED
    BY <1>1, <2>2, <2>8, <2>9 DEF RestInv
<1> QED
  BY <1>12, <1>13, <1>14

LEMMA RestGoesOn == RestingInv /\ [LogQueryNext]_lqVars => RestingInv'
<1> SUFFICES ASSUME RestingInv, [LogQueryNext]_lqVars PROVE RestingInv'
  OBVIOUS
<1>1. WalkInv /\ WalkInv' /\ StoreInv /\ changes \in Nat
  BY WalkGoesOn DEF RestingInv, WalkInv
<1>2. ASSUME changes = 0, \A r \in start : r.kind # "frame"
      PROVE  StoreInv /\ RestInv /\ lines \subseteq Plain
  BY <1>1, <1>2 DEF RestingInv, RestInv, StoreInv, RowsAreTold, Plain
<1>3. CASE AskForPage
  <2>1. changes' = changes /\ start' = start
    BY <1>3 DEF AskForPage, storeVars
  <2> QED
    BY <1>1, <1>2, <1>3, <2>1, AskForPageRests DEF RestingInv
<1>4. CASE ScanRound
  <2>1. changes' = changes /\ start' = start
    BY <1>4 DEF ScanRound, storeVars
  <2> QED
    BY <1>1, <1>2, <1>4, <2>1, ScanRoundRests DEF RestingInv
<1>5. CASE Commit \/ Evict \/ Purge
  <2>1. changes' = changes + 1
    BY <1>5 DEF Commit, Evict, Purge, Changes
  <2>2. changes' \in Nat /\ changes' # 0
    BY <1>1, <2>1
  <2> QED
    BY <1>1, <2>2 DEF RestingInv
<1>6. CASE UNCHANGED lqVars
  BY <1>1, <1>6 DEF RestingInv, lqVars, RestInv
<1> QED
  BY <1>3, <1>4, <1>5, <1>6 DEF LogQueryNext

LEMMA RestGivesGroups == RestingInv => PagesAreGroups
<1> SUFFICES ASSUME RestingInv, changes = 0, \A r \in start : r.kind # "frame"
             PROVE  PagesOfReference
  BY DEF PagesAreGroups
<1>1. RestInv /\ StoreInv /\ lines \subseteq Plain
  BY DEF RestingInv, RestInv, StoreInv, WalkInv, RowsAreTold, Plain
<1>2. WalkSound(lines, query, carry, found, pages, from, phase) /\ start = lines
  BY <1>1 DEF RestInv
<1>3. HandedOut = Handed(pages)
  BY HandedNow
<1>4. Reference = FilteredAs(GroupRows(All(lines, query)), query)
  <2>1. Reference = Filtered(GroupRows(All(lines, query)))
    BY <1>2 DEF Reference, All, AllOf
  <2> QED
    BY <2>1, FilteredNow
<1>5. pages \in Seq(PlainEntries) /\ Handed(pages) \in Entries
  BY <1>2, PagesAreEntries DEF WalkSound
<1>6. \E X \in Entries : Reference = X \o HandedOut
  <2>1. CASE phase = "end"
    <3>1. Reference = HandedOut
      BY <1>2, <1>3, <1>4, <2>1 DEF WalkSound
    <3>2. HandedOut = <<>> \o HandedOut /\ <<>> \in Entries
      BY <1>3, <1>5, JoinsEntries
    <3> QED
      BY <3>1, <3>2
  <2>2. CASE phase # "end"
    <3>1. PICK D \in PlainEntries : Divided(lines, query, carry, found, pages, from, D)
      BY <1>2, <2>2 DEF WalkSound
    <3> DEFINE Y == Ahead(lines, query, carry, from)
               fy == FilteredAs(Y, query)
    <3>2. found \in Entries /\ D \in Entries /\ carry \in Seq(Plain) /\ from \in Points
      BY <1>2, PlainAreRows DEF WalkSound
    <3>3. Y \in Entries
      <4>1. Behind(lines, query, from) \in Seq(Plain)
        BY <1>1, <3>2, BehindSound
      <4>2. carry \o Behind(lines, query, from) \in Seq(Plain)
        BY <3>2, <4>1, Associates
      <4> QED
        BY <4>2, GroupsSound, PlainAreRows DEF Ahead
    <3>4. GroupRows(All(lines, query)) = Y \o D /\ FilteredAs(D, query) = found \o Handed(pages)
      BY <3>1 DEF Divided
    <3> HIDE DEF Y
    <3>5. FilteredAs(Y \o D, query) = fy \o FilteredAs(D, query) /\ fy \in Entries
      BY <3>2, <3>3, FilterAs
    <3> HIDE DEF fy
    <3>6. fy \o (found \o Handed(pages)) = (fy \o found) \o Handed(pages)
      <4>1. JoinAnyway(fy, found, Handed(pages))
        BY <1>5, <3>2, <3>5, JoinsAnyway
      <4> QED
        BY <4>1, Zenon DEF JoinAnyway
    <3>7. fy \o found \in Entries
      BY <3>2, <3>5, JoinsEntries
    <3>8. Reference = (fy \o found) \o HandedOut
      BY <1>3, <1>4, <3>4, <3>5, <3>6
    <3> QED
      BY <3>7, <3>8
  <2> QED
    BY <2>1, <2>2
<1>7. HandedOut = SubSeq(Reference, Len(Reference) - Len(HandedOut) + 1, Len(Reference))
  <2>1. PICK X \in Entries : Reference = X \o HandedOut
    BY <1>6
  <2>2. PICK V : V = Seq(Rows)
    OBVIOUS
  <2>3. X \in Seq(V) /\ HandedOut \in Seq(V)
    BY <1>3, <1>5, <2>2 DEF Entries
  <2>4. HandedOut = SubSeq(X \o HandedOut, Len(X \o HandedOut) - Len(HandedOut) + 1, Len(X \o HandedOut))
    BY <2>3, LastPart
  <2> QED
    BY <2>1, <2>4
<1>8. \A p \in 1 .. Len(pages) : Len(pages[p]) = Limit \/ (p = Len(pages) /\ phase = "end")
  BY <1>2 DEF WalkSound
<1>9. phase = "end" => HandedOut = Reference /\ (pages[Len(pages)] = <<>> => Len(pages) = 1)
  BY <1>2, <1>3, <1>4 DEF WalkSound
<1> QED
  BY <1>7, <1>8, <1>9 DEF PagesOfReference

\* Store.Query and newPage of logstore/query.go, for any filter: while the store does
\* not change under the reader and no line is a stack frame, the pages are the newest
\* part of what grouping all lines at once and filtering the entries gives, and no
\* entry is cut in two; each has Limit entries, except the last; at the end they are
\* all of it; and the last is empty only when it is the first.  For any
\* number of lines, any times, any limit and any size of a round of the scan.  The
\* invariant divides the entries of all lines into those the pages were taken from,
\* those found but not handed out, and those that the rows carried over and the rows
\* not read yet will be grouped into (Divided).
THEOREM PagesAreWholeGroups == LogQuerySpec => []PagesAreGroups
<1>1. LogQueryInit => RestingInv
  BY RestStarts
<1>2. RestingInv /\ [LogQueryNext]_lqVars => RestingInv'
  BY RestGoesOn
<1>3. RestingInv => PagesAreGroups
  BY RestGivesGroups
<1> QED
  BY <1>1, <1>2, <1>3, PTL DEF LogQuerySpec
=============================================================================
