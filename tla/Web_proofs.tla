----------------------------- MODULE Web_proofs -----------------------------
(***************************************************************************)
(* What the pages of the web frontend promise, for any number of rows,     *)
(* lines, requests, sockets, tokens and page loads: the spinners of the    *)
(* container list, the shells of the terminal tab, the browser session,    *)
(* the editors of the environment and the limits, the forms of the         *)
(* settings page, the store of the live demo, the stored pages of the log  *)
(* viewer, and the rows of the container list.                             *)
(***************************************************************************)
EXTENDS MCWeb, FiniteSetTheorems, SequenceTheorems, WellFoundedInduction, TLAPS

-----------------------------------------------------------------------------
(* The spinners of the container list *)

RowNames == Rows \cup {None}
OpTypes == Types \cup {None}
RowOperations == [type : OpTypes, container : RowNames, phase : {"acting", "refetching"},
               confirms : BOOLEAN]

\* A row whose confirmation is open is not busy, unless with what was confirmed:
\* the dialog is modal.
DialogFresh ==
    confirmAction # NoAction /\ isBusy(confirmAction.container) => isConfirmActionPending

SpinnersInv ==
    /\ ops \subseteq RowOperations
    /\ confirmAction \in [type : OpTypes, container : RowNames]
    /\ SpinnerWhileRunning /\ DialogFresh

-----------------------------------------------------------------------------
\* The invariant speaks of three variables only.
LEMMA OthersSound == SpinnersInv /\ UNCHANGED <<pendingActions, ops, confirmAction>> => SpinnersInv'
BY DEF SpinnersInv, SpinnerWhileRunning, DialogFresh, isBusy, isConfirmActionPending

\* An action begun on a row that is not busy keeps the spinners right.
LEMMA ExecuteSound ==
    ASSUME SpinnersInv, NEW type \in OpTypes, NEW c \in RowNames, executeAction(type, c), ~isBusy(c),
           confirmAction' = confirmAction,
           confirmAction # NoAction => confirmAction = [type |-> type, container |-> c]
    PROVE  SpinnersInv'
<1> DEFINE new == [type |-> type, container |-> c, phase |-> "acting",
                   confirms |-> confirmAction # NoAction]
<1>1. ops' = ops \cup {new} /\ new \in RowOperations /\ new.container = c /\ new.type = type
  BY DEF executeAction, RowOperations
<1>2. /\ DOMAIN pendingActions' = DOMAIN pendingActions \cup {c} /\ pendingActions'[c] = type
      /\ \A d \in DOMAIN pendingActions : d # c => pendingActions'[d] = pendingActions[d]
  BY DEF executeAction, beginPending
<1> HIDE DEF new
<1>3. \A op \in ops : op.container \in DOMAIN pendingActions /\ op.container # c
  BY DEF SpinnersInv, SpinnerWhileRunning, isBusy
<1>4. SpinnerWhileRunning'
  <2>1. DOMAIN pendingActions' = {op.container : op \in ops'}
    BY <1>1, <1>2 DEF SpinnersInv, SpinnerWhileRunning
  <2>2. \A op \in ops' : pendingActions'[op.container] = op.type
    BY <1>1, <1>2, <1>3 DEF SpinnersInv, SpinnerWhileRunning
  <2>3. \A p, q \in ops' : p.container = q.container => p = q
    BY <1>1, <1>3 DEF SpinnersInv, SpinnerWhileRunning
  <2> QED
    BY <2>1, <2>2, <2>3 DEF SpinnerWhileRunning
<1>5. DialogFresh'
  BY <1>2 DEF DialogFresh, isBusy, isConfirmActionPending
<1> QED
  BY <1>1, <1>4, <1>5 DEF SpinnersInv

\* The end of one action takes its own spinner and no other.
LEMMA SettleSound ==
    ASSUME SpinnersInv, ActionSettles
    PROVE  SpinnersInv'
<1>1. PICK op \in ops : /\ ops' = ops \ {op} /\ endPending(op.container)
                        /\ confirmAction' \in {NoAction, confirmAction}
  BY DEF ActionSettles
<1>2. /\ DOMAIN pendingActions' = DOMAIN pendingActions \ {op.container}
      /\ \A d \in DOMAIN pendingActions' : pendingActions'[d] = pendingActions[d]
  BY <1>1 DEF endPending
<1>3. \A p \in ops' : p \in ops /\ p.container # op.container
  BY <1>1 DEF SpinnersInv, SpinnerWhileRunning
<1>4. SpinnerWhileRunning'
  <2>1. DOMAIN pendingActions' = {p.container : p \in ops'}
    BY <1>1, <1>2, <1>3 DEF SpinnersInv, SpinnerWhileRunning
  <2>2. \A p \in ops' : pendingActions'[p.container] = p.type
    BY <1>2, <1>3, <2>1 DEF SpinnersInv, SpinnerWhileRunning
  <2> QED
    BY <1>3, <2>1, <2>2 DEF SpinnersInv, SpinnerWhileRunning
<1>5. DialogFresh'
  BY <1>1, <1>2 DEF SpinnersInv, DialogFresh, isBusy, isConfirmActionPending
<1>6. NoAction \in [type : OpTypes, container : RowNames]
  BY DEF NoAction, OpTypes, RowNames
<1> QED
  BY <1>1, <1>4, <1>5, <1>6 DEF SpinnersInv

\* Reading the list again changes no action but in its phase.
LEMMA DoneSound ==
    ASSUME SpinnersInv, ActionDone
    PROVE  SpinnersInv'
<1>1. PICK op \in ops : /\ ops' = (ops \ {op}) \cup {[op EXCEPT !.phase = "refetching"]}
                        /\ UNCHANGED <<pendingActions, confirmAction>>
  BY DEF ActionDone, dialogs
<1> DEFINE done == [op EXCEPT !.phase = "refetching"]
<1>2. done \in RowOperations /\ done.container = op.container /\ done.type = op.type
  BY DEF SpinnersInv, RowOperations
<1> HIDE DEF done
<1>3. ops' = (ops \ {op}) \cup {done}
  BY <1>1 DEF done
<1>4. {p.container : p \in ops'} = {p.container : p \in ops}
  BY <1>2, <1>3
<1>5. SpinnerWhileRunning'
  <2>1. \A p \in ops' : pendingActions[p.container] = p.type
    BY <1>2, <1>3 DEF SpinnersInv, SpinnerWhileRunning
  <2>2. \A p, q \in ops' : p.container = q.container => p = q
    BY <1>2, <1>3 DEF SpinnersInv, SpinnerWhileRunning
  <2> QED
    BY <1>1, <1>4, <2>1, <2>2 DEF SpinnersInv, SpinnerWhileRunning
<1>6. DialogFresh'
  BY <1>1 DEF SpinnersInv, DialogFresh, isBusy, isConfirmActionPending
<1> QED
  BY <1>1, <1>2, <1>3, <1>5, <1>6 DEF SpinnersInv

-----------------------------------------------------------------------------
\* The invariant holds at the start.
LEMMA SpinnersInitSound == ContainerActionsInit => SpinnersInv
BY DEF ContainerActionsInit, SpinnersInv, SpinnerWhileRunning, DialogFresh, NoAction, OpTypes, RowNames

\* Every step keeps it.
LEMMA SpinnersStepSound == SpinnersInv /\ [ContainerActionsNext]_caVars => SpinnersInv'
<1> SUFFICES ASSUME SpinnersInv, [ContainerActionsNext]_caVars PROVE SpinnersInv'
  OBVIOUS
<1>1. CASE StartOrRestartContainer
  <2>1. PICK c \in Rows, type \in {"start", "restart"} :
            /\ TableReachable /\ ~isBusy(c) /\ executeAction(type, c)
            /\ confirmAction' = confirmAction
    BY <1>1 DEF StartOrRestartContainer, offersAction, dialogs
  <2> QED
    BY <2>1, ExecuteSound DEF TableReachable, RowNames, OpTypes, Types
<1>2. CASE StopOrDeleteContainer
  <2>1. PICK c \in Rows, type \in {"stop", "remove"} :
            /\ ~isBusy(c) /\ confirmAction' = [type |-> type, container |-> c]
            /\ UNCHANGED <<pendingActions, ops>>
    BY <1>2 DEF StopOrDeleteContainer, offersAction
  <2>2. confirmAction' \in [type : OpTypes, container : RowNames] /\ confirmAction'.container = c
    BY <2>1 DEF OpTypes, Types, RowNames
  <2> QED
    BY <2>1, <2>2 DEF SpinnersInv, SpinnerWhileRunning, DialogFresh, isBusy
<1>3. CASE ConfirmPendingAction
  <2>1. /\ ~isBusy(confirmAction.container) /\ confirmAction' = confirmAction
        /\ executeAction(confirmAction.type, confirmAction.container)
    BY <1>3 DEF ConfirmPendingAction, SpinnersInv, DialogFresh, dialogs
  <2>2. /\ confirmAction.type \in OpTypes /\ confirmAction.container \in RowNames
        /\ confirmAction = [type |-> confirmAction.type, container |-> confirmAction.container]
    BY DEF SpinnersInv
  <2> QED
    BY <2>1, <2>2, ExecuteSound
<1>4. CASE HandleConfirmDialogClose
  <2>1. confirmAction' = NoAction /\ UNCHANGED <<pendingActions, ops>>
    BY <1>4 DEF HandleConfirmDialogClose
  <2>2. NoAction \in [type : OpTypes, container : RowNames]
    BY DEF NoAction, OpTypes, RowNames
  <2> QED
    BY <2>1, <2>2 DEF SpinnersInv, SpinnerWhileRunning, DialogFresh
<1>5. CASE ActionDone
  BY <1>5, DoneSound
<1>6. CASE ActionSettles
  BY <1>6, SettleSound
<1>7. CASE \/ ComposeActionStarts \/ HostComposed \/ HostFailsToCompose \/ ComposeActionSettles
           \/ OpenPurge \/ HandleConfirmPurge \/ ClosePurge \/ PurgeSettles
           \/ HandleViewLogs \/ HandleLogsSheetClose \/ EnvUpdated \/ HandleContainerRecreated
  <2>1. UNCHANGED <<pendingActions, ops, confirmAction>>
    BY <1>7, Zenon DEF ComposeActionStarts, HostComposed, HostFailsToCompose,
       ComposeActionSettles, OpenPurge, HandleConfirmPurge, ClosePurge, PurgeSettles,
       HandleViewLogs, HandleLogsSheetClose, EnvUpdated, HandleContainerRecreated, dialogs
  <2> QED
    BY <2>1, OthersSound
<1>8. CASE UNCHANGED caVars
  BY <1>8, OthersSound DEF caVars, dialogs
<1> QED
  BY <1>1, <1>2, <1>3, <1>4, <1>5, <1>6, <1>7, <1>8 DEF ContainerActionsNext

-----------------------------------------------------------------------------
\* A row spins exactly while an action on it runs, and no second action is sent
\* to it meanwhile: for any number of rows, whatever dialogs, group actions and
\* deletions go on beside it, and in whatever order the answers come.
THEOREM SpinnersTellTheTruth == ContainerActionsSpec => []SpinnerWhileRunning
<1>1. SpinnersInv => SpinnerWhileRunning
  BY DEF SpinnersInv
<1> QED
  BY <1>1, SpinnersInitSound, SpinnersStepSound, PTL DEF ContainerActionsSpec

-----------------------------------------------------------------------------
(* The terminal tab's shells *)

TerminalStates == {"connecting", "open", "closing", "closed"}

\* The sockets made are numbered up to the last one, which belongs to the
\* terminal on show.
SocketsNumbered ==
    /\ ws \in Nat /\ mounts \in Nat /\ mounted \in 0 .. mounts
    /\ sockets \in [1 .. ws -> [state : TerminalStates, of : Nat]]
    /\ mounted # Unmounted => ws # 0 /\ sockets[ws].of = mounted

TerminalInv == SocketsNumbered /\ OneShellOpen

-----------------------------------------------------------------------------
\* What a cleanup leaves: no other socket was open, so none is.
LEMMA CleanupCloses ==
    ASSUME TerminalInv
    PROVE  /\ Cleanup(sockets) \in [1 .. ws -> [state : TerminalStates, of : Nat]]
           /\ \A s \in 1 .. ws : Cleanup(sockets)[s].state \in {"closing", "closed"}
<1> USE DEF TerminalInv, SocketsNumbered
<1>1. ASSUME NEW s \in 1 .. ws
      PROVE  /\ Cleanup(sockets)[s] \in [state : TerminalStates, of : Nat]
             /\ Cleanup(sockets)[s].state \in {"closing", "closed"}
  <2>1. sockets[s] \in [state : TerminalStates, of : Nat]
    OBVIOUS
  <2>2. s # ws => sockets[s].state \notin {"connecting", "open"}
    BY <2>1 DEF OneShellOpen, InState, Made
  <2>3. [sockets[s] EXCEPT !.state = "closing"] \in [state : TerminalStates, of : Nat]
        /\ [sockets[s] EXCEPT !.state = "closing"].state = "closing"
    BY <2>1 DEF TerminalStates
  <2>4. CASE s = ws /\ sockets[s].state \in {"connecting", "open"}
    BY <2>3, <2>4 DEF Cleanup
  <2>5. CASE ~(s = ws /\ sockets[s].state \in {"connecting", "open"})
    BY <2>1, <2>2, <2>5 DEF Cleanup, TerminalStates
  <2> QED
    BY <2>4, <2>5
<1> QED
  BY <1>1 DEF Cleanup

\* A new connection takes the old one's place.
LEMMA ConnectSound ==
    ASSUME TerminalInv, NEW component \in Nat \ {0}, Connect(component), mounted' = component,
           mounts' \in Nat, component <= mounts'
    PROVE  TerminalInv'
<1>1. /\ ws \in Nat /\ ws' = ws + 1 /\ listening' = {ws'} /\ Made = 1 .. ws
      /\ sockets' = [t \in Made \cup {ws'} |-> IF t = ws'
                        THEN [state |-> "connecting", of |-> component] ELSE Cleanup(sockets)[t]]
  BY DEF TerminalInv, SocketsNumbered, Connect, Made
<1>2. Made \cup {ws'} = 1 .. ws'
  BY <1>1
<1>3. ASSUME NEW s \in 1 .. ws'
      PROVE  /\ sockets'[s] \in [state : TerminalStates, of : Nat]
             /\ s # ws' => sockets'[s].state \in {"closing", "closed"}
  BY <1>1, <1>2, CleanupCloses DEF TerminalStates
<1>4. sockets'[ws'] = [state |-> "connecting", of |-> component]
  BY <1>1, <1>2
<1>5. sockets' \in [1 .. ws' -> [state : TerminalStates, of : Nat]]
  BY <1>1, <1>2, <1>3
<1>6. SocketsNumbered'
  BY <1>1, <1>4, <1>5 DEF SocketsNumbered
<1>7. InState({"connecting", "open"})' \subseteq {ws'}
  BY <1>3, <1>5 DEF InState, Made
<1>8. OneShellOpen'
  BY <1>1, <1>4, <1>7 DEF OneShellOpen, Unmounted
<1> QED
  BY <1>6, <1>8 DEF TerminalInv

\* A socket's event changes that socket and what its own component shows.
LEMMA EventSound ==
    ASSUME TerminalInv, NEW s \in Made, NEW state \in TerminalStates, NEW connected,
           Become(s, state), Shows(s, connected),
           state \in {"connecting", "open"} => sockets[s].state \in {"connecting", "open"}
    PROVE  TerminalInv'
<1> USE DEF TerminalInv, SocketsNumbered
<1>1. /\ s \in 1 .. ws /\ sockets' = [sockets EXCEPT ![s].state = state]
      /\ UNCHANGED <<mounted, mounts, ws, listening>>
  BY DEF Made, Become, Shows
<1>2. ASSUME NEW t \in 1 .. ws
      PROVE  /\ sockets'[t] \in [state : TerminalStates, of : Nat] /\ sockets'[t].of = sockets[t].of
             /\ sockets'[t].state = IF t = s THEN state ELSE sockets[t].state
  BY <1>1
<1>3. sockets' \in [1 .. ws -> [state : TerminalStates, of : Nat]]
  BY <1>1, <1>2
<1>4. SocketsNumbered'
  BY <1>1, <1>2, <1>3
<1>5. InState({"connecting", "open"})' \subseteq InState({"connecting", "open"})
  BY <1>1, <1>2, <1>3 DEF InState, Made
<1>6. isReconnecting' => mounted' # Unmounted /\ sockets'[ws'].state = "connecting"
  <2> SUFFICES ASSUME isReconnecting' PROVE mounted' # Unmounted /\ sockets'[ws'].state = "connecting"
    OBVIOUS
  <2>1. sockets[s].of # mounted /\ isReconnecting
    BY DEF Shows
  <2>2. mounted # Unmounted /\ sockets[ws].state = "connecting"
    BY <2>1 DEF OneShellOpen
  <2>3. s # ws /\ ws \in 1 .. ws
    BY <2>1, <2>2 DEF Unmounted
  <2> QED
    BY <1>1, <1>2, <2>2, <2>3
<1> QED
  BY <1>1, <1>4, <1>5, <1>6 DEF OneShellOpen

-----------------------------------------------------------------------------
\* The invariant holds at the start.
LEMMA TerminalInitSound == TerminalInit => TerminalInv
BY DEF TerminalInit, TerminalInv, SocketsNumbered, OneShellOpen, InState, Made, Unmounted

\* Every step keeps it.
LEMMA TerminalStepSound == TerminalInv /\ [TerminalNext]_tmVars => TerminalInv'
<1> SUFFICES ASSUME TerminalInv, [TerminalNext]_tmVars PROVE TerminalInv'
  OBVIOUS
<1>a. ws \in Nat /\ mounts \in Nat /\ mounted \in 0 .. mounts
  BY DEF TerminalInv, SocketsNumbered
<1>1. CASE MountTerminal
  <2>1. /\ mounts' = mounts + 1 /\ mounted' = mounts' /\ mounts' \in Nat \ {0}
        /\ Connect(mounts')
    BY <1>a, <1>1 DEF MountTerminal
  <2> QED
    BY <2>1, ConnectSound
<1>2. CASE ContainerChanges \/ HandleReconnect
  <2>1. /\ mounted \in Nat \ {0} /\ mounted' = mounted /\ mounts' = mounts
        /\ mounted <= mounts /\ Connect(mounted)
    BY <1>a, <1>2 DEF ContainerChanges, HandleReconnect, Unmounted
  <2> QED
    BY <1>a, <2>1, ConnectSound
<1>3. CASE UnmountTerminal
  <2>1. /\ mounted' = 0 /\ ws' = ws /\ mounts' = mounts /\ ~isReconnecting'
        /\ sockets' = Cleanup(sockets) /\ listening' = {}
    BY <1>3 DEF UnmountTerminal, Unmounted
  <2>2. SocketsNumbered'
    BY <1>a, <2>1, CleanupCloses DEF SocketsNumbered, Unmounted
  <2>3. InState({"connecting", "open"})' = {}
    BY <2>1, <2>2, CleanupCloses DEF SocketsNumbered, InState, Made
  <2> QED
    BY <2>1, <2>2, <2>3 DEF TerminalInv, OneShellOpen
<1>4. CASE OnOpen
  BY <1>4, EventSound DEF OnOpen, InState, TerminalStates
<1>5. CASE OnClose
  BY <1>5, EventSound DEF OnClose, InState, TerminalStates
<1>6. CASE UNCHANGED tmVars
  BY <1>6 DEF tmVars, TerminalInv, SocketsNumbered, OneShellOpen, InState, Made
<1> QED
  BY <1>1, <1>2, <1>3, <1>4, <1>5, <1>6 DEF TerminalNext

\* Each open or opening socket, and what is typed, belongs to the terminal on
\* show, for any number of sockets, tabs opened and late events.
THEOREM OnlyOneShell == TerminalSpec => []OneShellOpen
<1>1. TerminalInv => OneShellOpen
  BY DEF TerminalInv
<1> QED
  BY <1>1, TerminalInitSound, TerminalStepSound, PTL DEF TerminalSpec

-----------------------------------------------------------------------------
(* The browser session *)

Tokens == 0 .. issued
ProvidersOf(T) == [token : T, user : T, isAuthEnabled : BOOLEAN, checking : BOOLEAN]
Providers == ProvidersOf(Tokens)

\* Every token anyone holds has been issued.
Issued ==
    /\ issued \in Nat
    /\ storedToken \in Tokens
    /\ provider \in Providers
    /\ \A r \in asked : r.token \in Tokens
    /\ loggedOut \subseteq Tokens \ {NoToken}

\* Whatever can let a page show is itself an entitlement: a stored token, an
\* answer that authentication is off, and that it is off.
PassesAreEarned ==
    /\ storedToken # NoToken => entitled
    /\ authConfig = "off" => entitled
    /\ ~authOn => entitled

Closed == PassesAreEarned /\ GuardFailsClosed
SessionInv == Issued /\ Closed /\ LoggedOutStaysOut

-----------------------------------------------------------------------------
\* What an answer and a login change of the provider.
LEMMA FlagTyped ==
    ASSUME NEW T, NEW p \in ProvidersOf(T), NEW flag \in BOOLEAN
    PROVE  [p EXCEPT !.checking = FALSE, !.isAuthEnabled = flag] \in ProvidersOf(T)
<1>1. ASSUME NEW b \in BOOLEAN PROVE [p EXCEPT !.checking = b] \in ProvidersOf(T)
  BY SMT DEF ProvidersOf
<1>2. ASSUME NEW q \in ProvidersOf(T) PROVE [q EXCEPT !.isAuthEnabled = flag] \in ProvidersOf(T)
  BY SMT DEF ProvidersOf
<1> QED
  BY <1>1, <1>2
LEMMA TokenTyped ==
    ASSUME NEW T, NEW S, T \subseteq S, NEW p \in ProvidersOf(T), NEW t \in S
    PROVE  [p EXCEPT !.token = t, !.user = t] \in ProvidersOf(S)
<1>1. p \in ProvidersOf(S)
  BY SMT DEF ProvidersOf
<1>2. [p EXCEPT !.token = t] \in ProvidersOf(S)
  BY <1>1, SMT DEF ProvidersOf
<1>3. ASSUME NEW q \in ProvidersOf(S) PROVE [q EXCEPT !.user = t] \in ProvidersOf(S)
  BY SMT DEF ProvidersOf
<1> QED
  BY <1>2, <1>3

\* The session starts as the invariant says.
LEMMA SessionInitSound == SessionInit => SessionInv
<1> SUFFICES ASSUME SessionInit PROVE SessionInv
  OBVIOUS
<1>1. Issued
  BY SMT DEF SessionInit, Issued, Tokens, Providers, ProvidersOf, NoToken, Verify
<1>2. path = "page" => storedToken # NoToken
  BY SMT DEF SessionInit, NoToken, Guard
<1>3. Closed
  BY <1>2, Zenon DEF SessionInit, Closed, PassesAreEarned, GuardFailsClosed
<1>4. LoggedOutStaysOut
  BY DEF SessionInit, LoggedOutStaysOut
<1> QED
  BY <1>1, <1>3, <1>4 DEF SessionInv

\* A page load keeps the invariant: it restarts the entitlement together with
\* all that could let a page show.
LEMMA LoadSound ==
    ASSUME SessionInv, NEW target, NEW token \in {NoToken, storedToken},
           PageLoads(target, token), UNCHANGED <<authOn, issued>>
    PROVE  SessionInv'
<1>1. /\ storedToken' = token /\ issued' = issued /\ loggedOut' = loggedOut
      /\ provider' = [token |-> token, user |-> NoToken, isAuthEnabled |-> TRUE,
                      checking |-> token = NoToken]
      /\ asked' = IF token = NoToken THEN {} ELSE {Verify(token)}
  BY Zenon DEF PageLoads
<1>2. Issued'
  BY <1>1, SMT DEF SessionInv, Issued, Tokens, Providers, ProvidersOf, NoToken, Verify
<1>3. authConfig' # "off" /\ authOn' = authOn /\ entitled' = (token # NoToken \/ ~authOn)
  BY SMT DEF PageLoads
<1>4. path' = "page" => token # NoToken
  BY SMT DEF PageLoads, Guard, NoToken
<1>a. (token # NoToken => entitled') /\ (~authOn => entitled')
  BY <1>3, Zenon
<1>b. ~authOn' => ~authOn
  BY <1>3, SMT
<1>5. Closed'
  BY <1>1, <1>3, <1>4, <1>a, <1>b, Zenon DEF Closed, PassesAreEarned, GuardFailsClosed
<1>6. LoggedOutStaysOut'
  BY <1>1, Zenon DEF SessionInv, Issued, LoggedOutStaysOut
<1> QED
  BY <1>2, <1>5, <1>6 DEF SessionInv

\* An answer about authentication, or none, keeps it: "off" is only answered
\* while it is off.
LEMMA AnswerSound ==
    ASSUME SessionInv, NEW answer \in {"none", "on", "off"}, Answer(answer),
           answer = "off" => ~authOn,
           UNCHANGED <<storedToken, asked, loggedOut, entitled, authOn, issued>>
    PROVE  SessionInv'
<1>a. /\ issued \in Nat /\ storedToken \in Tokens /\ provider \in Providers
      /\ \A r \in asked : r.token \in Tokens
      /\ loggedOut \subseteq Tokens \ {NoToken}
  BY DEF SessionInv, Issued
<1>p. provider' \in Providers
  BY <1>a, FlagTyped, Zenon DEF Providers, Answer
<1>t. Tokens' = Tokens /\ Providers' = Providers
  BY DEF Tokens, Providers, ProvidersOf
<1>1. Issued'
  BY <1>a, <1>p, <1>t, SMT DEF Issued
<1>2. (path' = "page" => path = "page" \/ answer = "off") /\ authConfig' = answer
  BY SMT DEF Answer
<1>3. (answer = "off" => entitled) /\ (~authOn => entitled) /\ (path = "page" => entitled)
      /\ (storedToken # NoToken => entitled)
  BY Zenon DEF SessionInv, Closed, PassesAreEarned, GuardFailsClosed
<1>4. (entitled => entitled') /\ (~authOn' => ~authOn) /\ storedToken' = storedToken
  BY SMT
<1>5. Closed'
  BY <1>2, <1>3, <1>4, Zenon DEF Closed, PassesAreEarned, GuardFailsClosed
<1>6. LoggedOutStaysOut'
  BY DEF SessionInv, LoggedOutStaysOut
<1> QED
  BY <1>1, <1>5, <1>6 DEF SessionInv

\* A step that gives nobody a token, a page or an entitlement, and takes back
\* no entitlement, keeps it.
LEMMA QuietSound ==
    ASSUME SessionInv, storedToken' \in {NoToken, storedToken},
           UNCHANGED <<issued, authConfig, loggedOut>>,
           provider' \in Providers, \A r \in asked' : r.token \in Tokens,
           path' = "page" => path = "page",
           entitled => entitled', ~authOn' => entitled'
    PROVE  SessionInv'
<1>a. Tokens' = Tokens /\ Providers' = Providers
  BY DEF Tokens, Providers, ProvidersOf
<1>b. NoToken \in Tokens
  BY SMT DEF SessionInv, Issued, Tokens, NoToken
<1>1. Issued'
  BY <1>a, <1>b, SMT DEF SessionInv, Issued
<1>2. (storedToken' # NoToken => storedToken # NoToken) /\ authConfig' = authConfig
  BY SMT
<1>4. Closed'
  BY <1>2, Zenon DEF SessionInv, Closed, PassesAreEarned, GuardFailsClosed
<1>3. LoggedOutStaysOut'
  BY Zenon DEF SessionInv, Issued, LoggedOutStaysOut
<1> QED
  BY <1>1, <1>3, <1>4 DEF SessionInv

\* Every step keeps the invariant.
LEMMA SessionStepSound == SessionInv /\ [SessionNext]_seVars => SessionInv'
<1> SUFFICES ASSUME SessionInv, [SessionNext]_seVars PROVE SessionInv'
  OBVIOUS
<1>a. /\ issued \in Nat /\ storedToken \in Tokens /\ provider \in Providers
      /\ \A r \in asked : r.token \in Tokens
  BY DEF SessionInv, Issued
<1>s. ASSUME NEW t \in Tokens, NEW flag \in BOOLEAN PROVE Signed(t, flag) \in Providers
  BY SMT DEF Signed, Providers, ProvidersOf
<1>n. NoToken \in Tokens
  BY <1>a, SMT DEF Tokens, NoToken
<1>b. ~authOn => entitled
  BY DEF SessionInv, Closed, PassesAreEarned
<1>1. CASE Navigate
  <2>1. UNCHANGED <<storedToken, provider, asked, loggedOut, entitled, authOn, issued>>
    BY <1>1, Zenon DEF Navigate
  <2>2. authConfig' = "off" => authConfig = "off"
    BY <1>1, SMT DEF Navigate
  <2>3. path' = "page" => path = "page" \/ storedToken # NoToken \/ authConfig = "off"
    BY <1>1, SMT DEF Navigate, Guard
  <2>4. Issued' /\ LoggedOutStaysOut'
    BY <2>1, SMT DEF SessionInv, Issued, Tokens, Providers, ProvidersOf, LoggedOutStaysOut
  <2>5. Closed'
    BY <2>1, <2>2, <2>3, Zenon DEF SessionInv, Closed, PassesAreEarned, GuardFailsClosed
  <2> QED
    BY <2>4, <2>5 DEF SessionInv
<1>2. CASE Reload
  BY <1>2, LoadSound, Zenon DEF Reload
<1>3. CASE ConfigAnswered
  <2>1. PICK ok \in BOOLEAN : Answer(AuthEnabled(ok))
    BY <1>3, Zenon DEF ConfigAnswered
  <2>2. AuthEnabled(ok) \in {"none", "on", "off"} /\ (AuthEnabled(ok) = "off" => ~authOn)
    BY SMT DEF AuthEnabled
  <2>3. UNCHANGED <<storedToken, asked, loggedOut, entitled, authOn, issued>>
    BY <1>3, Zenon DEF ConfigAnswered
  <2> QED
    BY <2>1, <2>2, <2>3, AnswerSound, Zenon
<1>4. CASE ConfigFails
  <2>1. /\ Answer("none")
        /\ UNCHANGED <<storedToken, asked, loggedOut, entitled, authOn, issued>>
    BY <1>4, Zenon DEF ConfigFails
  <2> QED
    BY <2>1, AnswerSound, SMT
<1>5. ASSUME NEW r \in asked, VerifyAnswered(r) PROVE SessionInv'
  <2>1. provider' \in Providers
    <3>1. provider.isAuthEnabled \in BOOLEAN /\ r.token \in Tokens
      BY <1>a, SMT DEF Providers, ProvidersOf
    <3> QED
      BY <1>5, <1>n, <1>s, <3>1, Zenon DEF VerifyAnswered
  <2>2. /\ storedToken' \in {NoToken, storedToken} /\ asked' \subseteq asked
        /\ UNCHANGED <<issued, authConfig, loggedOut, path, entitled, authOn>>
    BY <1>5, Zenon DEF VerifyAnswered, Verified
  <2> QED
    BY <1>a, <1>b, <2>1, <2>2, QuietSound, Zenon
<1>6. ASSUME NEW r \in asked, CallAnswered(r) PROVE SessionInv'
  <2>1. CASE PageLoads("login", NoToken) /\ UNCHANGED <<authOn, issued>>
    BY <2>1, LoadSound, SMT
  <2>2. CASE /\ asked' = asked \ {r} /\ storedToken' \in {NoToken, storedToken}
             /\ UNCHANGED <<provider, issued, authConfig, loggedOut, path, entitled, authOn>>
    BY <1>a, <1>b, <2>2, QuietSound, Zenon
  <2> QED
    BY <1>6, <2>1, <2>2, Zenon DEF CallAnswered
<1>7. CASE HandleSubmit \/ LoginFails \/ CallSent
  <2>1. asked' \subseteq asked \cup {Login, Call(storedToken)}
    BY <1>7, Zenon DEF HandleSubmit, LoginFails, CallSent
  <2>2. Login.token \in Tokens /\ Call(storedToken).token \in Tokens
    BY <1>a, SMT DEF Login, Call, NoToken, Tokens
  <2>3. UNCHANGED <<storedToken, provider, issued, authConfig, loggedOut, path, entitled, authOn>>
    BY <1>7, Zenon DEF HandleSubmit, LoginFails, CallSent
  <2> QED
    BY <1>a, <1>b, <2>1, <2>2, <2>3, QuietSound, Zenon
<1>8. CASE LoginAnswered
  <2>1. /\ issued' = issued + 1 /\ storedToken' = issued' /\ entitled' = TRUE
        /\ asked' = asked \ {Login} /\ loggedOut' = loggedOut
        /\ provider' = [provider EXCEPT !.token = issued', !.user = issued']
    BY <1>8, Zenon DEF LoginAnswered
  <2>2. Tokens \subseteq Tokens' /\ issued' \in Tokens'
    BY <1>a, <2>1, SMT DEF Tokens
  <2>p. provider' \in Providers'
    BY <1>a, <2>1, <2>2, TokenTyped, Zenon DEF Providers
  <2>l. loggedOut' \subseteq Tokens' \ {NoToken}
    BY <2>1, <2>2, Zenon DEF SessionInv, Issued
  <2>3. Issued'
    BY <1>a, <2>1, <2>2, <2>p, <2>l, SMT DEF Issued
  <2>4. LoggedOutStaysOut'
    BY <1>a, <2>1, SMT DEF SessionInv, Issued, LoggedOutStaysOut, Tokens
  <2>5. Closed'
    BY <2>1, Zenon DEF Closed, PassesAreEarned, GuardFailsClosed
  <2> QED
    BY <2>3, <2>4, <2>5 DEF SessionInv
<1>9. CASE HandleLogout
  <2>1. /\ storedToken' = NoToken
        /\ loggedOut' = loggedOut \cup ({storedToken, provider.token} \ {NoToken})
        /\ provider' = Signed(NoToken, TRUE) /\ path' = "login"
        /\ UNCHANGED <<authConfig, asked, entitled, authOn, issued>>
    BY <1>9, Zenon DEF HandleLogout
  <2>2. Issued'
    <3>1. Tokens' = Tokens /\ Providers' = Providers
      BY <2>1 DEF Tokens, Providers, ProvidersOf
    <3>2. provider.token \in Tokens
      BY <1>a, SMT DEF Providers, ProvidersOf
    <3> QED
      BY <1>a, <1>n, <1>s, <2>1, <3>1, <3>2, Zenon DEF SessionInv, Issued
  <2>3. LoggedOutStaysOut'
    BY <2>1, Zenon DEF SessionInv, Issued, LoggedOutStaysOut
  <2>4. Closed'
    BY <2>1, SMT DEF SessionInv, Closed, PassesAreEarned, GuardFailsClosed
  <2> QED
    BY <2>2, <2>3, <2>4 DEF SessionInv
<1>10. CASE SwitchAuth
  <2>1. (entitled => entitled') /\ (~authOn' => entitled')
    BY <1>10, Zenon DEF SwitchAuth
  <2>2. UNCHANGED <<storedToken, provider, asked, issued, authConfig, loggedOut, path>>
    BY <1>10, Zenon DEF SwitchAuth
  <2> QED
    BY <1>a, <2>1, <2>2, QuietSound, Zenon
<1>11. CASE UNCHANGED <<browser, authOn, issued>>
  <2>1. UNCHANGED <<storedToken, provider, asked, issued, authConfig, loggedOut, path,
                    entitled, authOn>>
    BY <1>11, Zenon DEF browser
  <2> QED
    BY <1>a, <1>b, <2>1, QuietSound, Zenon
<1>12. CASE (\E t \in valid : Expire(t)) \/ UNCHANGED seVars
  BY <1>11, <1>12, Zenon DEF Expire, seVars
<1> QED
  BY <1>1, <1>2, <1>3, <1>4, <1>5, <1>6, <1>7, <1>8, <1>9, <1>10, <1>12 DEF SessionNext

-----------------------------------------------------------------------------
\* Without a token no page shows unless authentication was off at some time
\* since the page was loaded, and a token the user has logged out of is never
\* stored again: for any number of tokens, page loads and late answers.
THEOREM SessionIsKept == SessionSpec => []SessionKept
<1>1. SessionInv => SessionKept
  BY DEF SessionInv, Closed, SessionKept
<1> QED
  BY <1>1, SessionInitSound, SessionStepSound, PTL DEF SessionSpec

-----------------------------------------------------------------------------
(* The editor of the environment *)

\* Nothing but the edit, what it started from and what was touched in it
\* matters.
LEMMA SameEdit ==
    EditsAreOfThisSession /\ UNCHANGED <<edit, base, touched>> => EditsAreOfThisSession'
BY DEF EditsAreOfThisSession, edit

\* Pairs put over the copy are touched.
LEMMA ImportSound ==
    ASSUME EditsAreOfThisSession, NEW pairs, editedEnv' = Spread(editedEnv, pairs),
           modifiedKeys' = modifiedKeys \cup DOMAIN pairs, touched' = touched \cup DOMAIN pairs,
           UNCHANGED <<isEditing, deletedKeys, base>>
    PROVE  EditsAreOfThisSession'
<1> SUFFICES ASSUME isEditing' PROVE EditsAreOfThisSession'
  BY DEF EditsAreOfThisSession
<1>1. DOMAIN editedEnv' = DOMAIN editedEnv \cup DOMAIN pairs
  BY DEF Spread
<1>2. \A k \in DOMAIN editedEnv \ DOMAIN pairs : editedEnv'[k] = editedEnv[k]
  BY DEF Spread
<1>3. deletedKeys' \cup modifiedKeys' \subseteq touched'
  BY DEF EditsAreOfThisSession
<1>4. ASSUME NEW k \in DOMAIN editedEnv' \cup DOMAIN base', k \notin touched'
      PROVE  k \in DOMAIN base' /\ k \in DOMAIN editedEnv' /\ editedEnv'[k] = base'[k]
  BY <1>1, <1>2, <1>4 DEF EditsAreOfThisSession
<1> QED
  BY <1>3, <1>4 DEF EditsAreOfThisSession

\* Every step keeps the edit its own.
LEMMA EditsStepSound ==
    EditsAreOfThisSession /\ [EnvEditorNext]_evVars => EditsAreOfThisSession'
<1> SUFFICES ASSUME EditsAreOfThisSession, [EnvEditorNext]_evVars PROVE EditsAreOfThisSession'
  OBVIOUS
<1>1. CASE HandleEdit
  BY <1>1 DEF HandleEdit, StartOver, EditsAreOfThisSession
<1>2. CASE HandleCancel \/ UpdateSucceeds
  BY <1>2 DEF HandleCancel, UpdateSucceeds, EditsAreOfThisSession
<1>3. CASE HandleValueChange
  <2>1. PICK k \in envEntries, v \in Values :
            /\ isEditing /\ editedEnv' = [editedEnv EXCEPT ![k] = v]
            /\ touched' = touched \cup {k}
            /\ UNCHANGED <<isEditing, deletedKeys, modifiedKeys, base>>
    BY <1>3 DEF HandleValueChange, offersRow, Editing
  <2>2. /\ DOMAIN editedEnv' = DOMAIN editedEnv
        /\ \A j \in DOMAIN editedEnv : j # k => editedEnv'[j] = editedEnv[j]
    BY <2>1
  <2> QED
    BY <2>1, <2>2 DEF EditsAreOfThisSession
<1>4. CASE HandleDelete
  BY <1>4 DEF HandleDelete, EditsAreOfThisSession
<1>5. CASE HandleAddNew
  <2> DEFINE pair == [k \in {newKey} |-> newValue]
  <2>1. /\ editedEnv' = Spread(editedEnv, pair) /\ DOMAIN pair = {newKey}
        /\ modifiedKeys' = modifiedKeys \cup {newKey} /\ touched' = touched \cup {newKey}
        /\ UNCHANGED <<isEditing, deletedKeys, base>>
    BY <1>5 DEF HandleAddNew
  <2> HIDE DEF pair
  <2> QED
    BY <2>1, ImportSound
<1>6. CASE HandleKeyPaste
  BY <1>6, ImportSound DEF HandleKeyPaste, Import
<1>7. CASE HandleConfirmUpload
  BY <1>7, ImportSound DEF HandleConfirmUpload, Import
<1>8. CASE \/ EnvLoaded \/ HandleNewKeyChange \/ SetNewValue \/ OpenAddRow \/ CloseAddRow
           \/ HandleFileUpload \/ FileRead \/ HandleCancelUpload
  BY <1>8, SameEdit DEF EnvLoaded, HandleNewKeyChange, SetNewValue, OpenAddRow, CloseAddRow,
                        HandleFileUpload, FileRead, HandleCancelUpload
<1>9. CASE HandleSave \/ DismissConfirm \/ HandleConfirmUpdate \/ UpdateFails \/ UNCHANGED evVars
  BY <1>9, SameEdit DEF HandleSave, DismissConfirm, HandleConfirmUpdate, UpdateFails, evVars
<1> QED
  BY <1>1, <1>2, <1>3, <1>4, <1>5, <1>6, <1>7, <1>8, <1>9 DEF EnvEditorNext

\* The environment an edit would send is the one it was opened on, changed only
\* where the user changed it since: nothing of a cancelled or finished edit
\* returns, whatever is imported, read from files or saved meanwhile
\* (environment-variables.tsx).
THEOREM EditsStayOfThisSession == EnvEditorSpec => []EditsAreOfThisSession
<1>1. EnvEditorInit => EditsAreOfThisSession
  BY DEF EnvEditorInit, EditsAreOfThisSession
<1> QED
  BY <1>1, EditsStepSound, PTL DEF EnvEditorSpec

-----------------------------------------------------------------------------
(* The editor of the limits *)

UnitNames == {"g", "m", "k", "b"}
AllLimits == {l \in [memory : Nat, policy : Policies, retries : Nat] :
                 l.retries > 0 => l.policy = "on-failure"}
MemoryTexts == {Blank, <<0, "?">>} \cup Nat \X UnitNames
RetryTexts == {Blank} \cup {<<n>> : n \in Nat}

LimitFieldsInv ==
    /\ limits \in AllLimits
    /\ applying \in AllLimits \cup {NoResources}
    /\ fields \in [memory : MemoryTexts, policy : Policies, retries : RetryTexts]
    /\ resources # NoResources /\ ~typed => loadedFrom \in AllLimits /\ fields = Filled(loadedFrom)

\* The units are four, and the smallest is one byte.
LEMMA UnitSizes ==
    /\ DOMAIN UnitSize = UnitNames
    /\ \A u \in UnitNames : UnitSize[u] \in Nat \ {0}
    /\ UnitSize["b"] = 1
<1>1. PICK k \in Nat \ {0} : k = Kilo
  BY KiloAssumption
<1>2. PICK m \in Nat \ {0} : m = k * k
  OBVIOUS
<1>3. PICK g \in Nat \ {0} : g = m * k
  OBVIOUS
<1>4. UnitSize = [g |-> g, m |-> m, k |-> k, b |-> 1]
  BY <1>1, <1>2, <1>3 DEF UnitSize
<1> QED
  BY <1>4 DEF UnitNames

\* Some unit that divides a number is the largest that does.
LEMMA LargestUnit ==
    ASSUME NEW bytes \in Nat \ {0}
    PROVE  \E u \in DOMAIN UnitSize :
              /\ bytes % UnitSize[u] = 0
              /\ \A v \in DOMAIN UnitSize : bytes % UnitSize[v] = 0 => UnitSize[v] <= UnitSize[u]
<1>1. PICK g \in Nat \ {0}, m \in Nat \ {0}, k \in Nat \ {0} :
          UnitSize["g"] = g /\ UnitSize["m"] = m /\ UnitSize["k"] = k
  BY UnitSizes DEF UnitNames
<1> DEFINE D == {u \in UnitNames : bytes % UnitSize[u] = 0}
<1>2. "b" \in D
  BY UnitSizes DEF UnitNames
<1> DEFINE Best(u) == u \in D /\ \A v \in D : UnitSize[v] <= UnitSize[u]
<1>3. D \subseteq UnitNames /\ \A u \in D : UnitSize[u] \in Nat
  BY UnitSizes
<1> HIDE DEF D
<1>4. \E u : Best(u)
  BY <1>2, <1>3 DEF UnitNames
<1>5. PICK u : Best(u)
  BY <1>4
<1> QED
  BY <1>5, UnitSizes DEF D

\* Formatting and parsing lose nothing.
LEMMA BytesComeBack ==
    ASSUME NEW bytes \in Nat
    PROVE  /\ formatMemoryBytes(bytes) \in MemoryTexts
           /\ parseMemoryInput(formatMemoryBytes(bytes)) = bytes
<1>1. CASE bytes = 0
  BY <1>1 DEF formatMemoryBytes, parseMemoryInput, MemoryTexts
<1>2. CASE bytes # 0
  <2>1. PICK u \in UnitNames : bytes % UnitSize[u] = 0 /\ formatMemoryBytes(bytes) = <<bytes \div UnitSize[u], u>>
    <3> DEFINE P(u) == /\ bytes % UnitSize[u] = 0
                       /\ \A v \in DOMAIN UnitSize :
                             bytes % UnitSize[v] = 0 => UnitSize[v] <= UnitSize[u]
    <3>1. \E u \in DOMAIN UnitSize : P(u)
      BY <1>2, LargestUnit
    <3>2. PICK u : u = CHOOSE x \in DOMAIN UnitSize : P(x)
      OBVIOUS
    <3>3. u \in DOMAIN UnitSize /\ P(u)
      BY <3>1, <3>2
    <3>4. formatMemoryBytes(bytes) = <<bytes \div UnitSize[u], u>>
      <4>1. ~(bytes <= 0)
        BY <1>2
      <4>2. formatMemoryBytes(bytes) =
                LET c == CHOOSE x \in DOMAIN UnitSize : P(x) IN <<bytes \div UnitSize[c], c>>
        BY <4>1, Zenon DEF formatMemoryBytes
      <4> QED
        BY <3>2, <4>2, Zenon
    <3> QED
      BY <3>3, <3>4, UnitSizes
  <2>2. PICK size \in Nat \ {0} : size = UnitSize[u]
    BY UnitSizes
  <2>3. PICK q \in Nat : q = bytes \div size /\ q * size = bytes
    BY <2>1, <2>2
  <2>4. formatMemoryBytes(bytes) = <<q, u>>
    BY <2>1, <2>2, <2>3
  <2>5. <<q, u>> # Blank /\ u # "?"
    BY DEF Blank, UnitNames
  <2>6. parseMemoryInput(<<q, u>>) = q * size
    BY <2>2, <2>5 DEF parseMemoryInput
  <2> QED
    BY <2>3, <2>4, <2>6 DEF MemoryTexts
<1> QED
  BY <1>1, <1>2

\* What is parsed is a number of bytes or refused.
LEMMA ParsedIsNumber ==
    ASSUME NEW input \in MemoryTexts, parseMemoryInput(input) # -1
    PROVE  parseMemoryInput(input) \in Nat
<1>1. CASE input = Blank
  BY <1>1 DEF parseMemoryInput
<1>2. CASE input = <<0, "?">>
  BY <1>2 DEF parseMemoryInput, Blank
<1>3. CASE input \in Nat \X UnitNames
  <2>1. PICK n \in Nat, u \in UnitNames : input = <<n, u>>
    BY <1>3
  <2>2. PICK size \in Nat : size = UnitSize[u]
    BY UnitSizes
  <2>3. u # "?" /\ <<n, u>> # Blank
    BY DEF UnitNames, Blank
  <2>4. parseMemoryInput(input) = n * size
    BY <2>1, <2>2, <2>3 DEF parseMemoryInput
  <2> QED
    BY <2>4
<1> QED
  BY <1>1, <1>2, <1>3 DEF MemoryTexts

LEMMA FilledFields ==
    ASSUME NEW l \in AllLimits
    PROVE  Filled(l) \in [memory : MemoryTexts, policy : Policies, retries : RetryTexts]
BY BytesComeBack DEF Filled, AllLimits, RetryTexts

\* Limits whose form is filled and sent come back as they were.
LEMMA LimitsComeBack ==
    ASSUME NEW l \in AllLimits
    PROVE  [memory |-> parseMemoryInput(Filled(l).memory), policy |-> Filled(l).policy,
            retries |-> IF Filled(l).policy = "on-failure" /\ Filled(l).retries # Blank
                        THEN Filled(l).retries[1] ELSE 0] = l
<1>1. /\ Filled(l).memory = formatMemoryBytes(l.memory) /\ Filled(l).policy = l.policy
      /\ Filled(l).retries = IF l.retries > 0 THEN <<l.retries>> ELSE Blank
  BY DEF Filled
<1>2. l.memory \in Nat /\ l.retries \in Nat /\ (l.retries > 0 => l.policy = "on-failure")
  BY DEF AllLimits
<1>3. parseMemoryInput(Filled(l).memory) = l.memory
  BY <1>1, <1>2, BytesComeBack
<1>4. (IF Filled(l).policy = "on-failure" /\ Filled(l).retries # Blank
       THEN Filled(l).retries[1] ELSE 0) = l.retries
  <2>1. CASE l.retries > 0
    <3>1. Filled(l).retries = <<l.retries>> /\ <<l.retries>> # Blank
      BY <1>1, <2>1 DEF Blank
    <3> QED
      BY <1>1, <1>2, <2>1, <3>1
  <2>2. CASE ~(l.retries > 0)
    <3>1. l.retries = 0 /\ Filled(l).retries = Blank
      BY <1>1, <1>2, <2>2
    <3> QED
      BY <3>1
  <2> QED
    BY <2>1, <2>2
<1> QED
  BY <1>1, <1>3, <1>4 DEF AllLimits

LEMMA LimitsInit == ResourceLimitsInit => LimitFieldsInv
<1> SUFFICES ASSUME ResourceLimitsInit PROVE LimitFieldsInv
  OBVIOUS
<1>1. limits \in AllLimits
  BY DEF ResourceLimitsInit, Limits, AllLimits
<1>2. fields \in [memory : MemoryTexts, policy : Policies, retries : RetryTexts]
  BY DEF ResourceLimitsInit, MemoryTexts, RetryTexts, Policies
<1> QED
  BY <1>1, <1>2 DEF ResourceLimitsInit, LimitFieldsInv

LEMMA LimitsStep == LimitFieldsInv /\ [ResourceLimitsNext]_rlVars => LimitFieldsInv'
<1> SUFFICES ASSUME LimitFieldsInv, [ResourceLimitsNext]_rlVars PROVE LimitFieldsInv'
  OBVIOUS
<1>1. CASE ResourcesLoaded
  BY <1>1, FilledFields DEF ResourcesLoaded, LimitFieldsInv
<1>2. CASE TypeIntoFields
  <2>1. typed' = TRUE /\ UNCHANGED <<limits, resources, applying, loadedFrom>>
    BY <1>2 DEF TypeIntoFields
  <2>2. /\ \A m \in {Blank, <<1, "k">>, <<3, "b">>, <<0, "?">>} : m \in MemoryTexts
        /\ \A t \in {Blank, <<1>>} : t \in RetryTexts
    BY DEF MemoryTexts, RetryTexts, UnitNames
  <2>3. fields' \in [memory : MemoryTexts, policy : Policies, retries : RetryTexts]
    BY <1>2, <2>2 DEF TypeIntoFields, LimitFieldsInv
  <2> QED
    BY <2>1, <2>3 DEF LimitFieldsInv
<1>3. CASE HandleSaveLimits
  <2>1. parseMemoryInput(fields.memory) \in Nat
    BY <1>3, ParsedIsNumber DEF HandleSaveLimits, LimitFieldsInv
  <2>2. fields.retries # Blank => fields.retries[1] \in Nat
    BY DEF LimitFieldsInv, RetryTexts
  <2>3. applying' \in AllLimits
    BY <1>3, <2>1, <2>2 DEF HandleSaveLimits, LimitFieldsInv, AllLimits
  <2> QED
    BY <1>3, <2>3 DEF HandleSaveLimits, LimitFieldsInv
<1>4. CASE LimitsApplied
  BY <1>4 DEF LimitsApplied, LimitFieldsInv
<1>5. CASE UNCHANGED rlVars
  BY <1>5 DEF rlVars, LimitFieldsInv
<1> QED
  BY <1>1, <1>2, <1>3, <1>4, <1>5 DEF ResourceLimitsNext

\* A step that sends untouched fields sends what they were filled from.
LEMMA UntouchedLimitsSent ==
    LimitFieldsInv /\ [ResourceLimitsNext]_rlVars
        => [applying' # applying /\ applying' # NoResources /\ ~typed => applying' = loadedFrom]_rlVars
<1> SUFFICES ASSUME LimitFieldsInv, ResourceLimitsNext, applying' # applying,
                    applying' # NoResources, ~typed
             PROVE  applying' = loadedFrom
  BY DEF rlVars
<1>1. HandleSaveLimits
  BY DEF ResourceLimitsNext, ResourcesLoaded, TypeIntoFields, LimitsApplied
<1>2. loadedFrom \in AllLimits /\ fields = Filled(loadedFrom)
  BY <1>1 DEF HandleSaveLimits, offersForm, LimitFieldsInv
<1>3. applying' = [memory |-> parseMemoryInput(fields.memory), policy |-> fields.policy,
                   retries |-> IF fields.policy = "on-failure" /\ fields.retries # Blank
                               THEN fields.retries[1] ELSE 0]
  BY <1>1 DEF HandleSaveLimits
<1> QED
  BY <1>2, <1>3, LimitsComeBack

\* Saving limits nobody typed into sends the limits the fields were filled
\* from (resource-limits.tsx formatMemoryBytes, parseMemoryInput).
THEOREM UntouchedLimitsAreKept == ResourceLimitsSpec => UntouchedLimitsKept
BY LimitsInit, LimitsStep, UntouchedLimitsSent, PTL DEF ResourceLimitsSpec, UntouchedLimitsKept

-----------------------------------------------------------------------------
(* The settings page: the lists of hosts *)

AllNames == HostNames \cup {Padded[n] : n \in DOMAIN Padded} \cup {"", "a", "b"}
HostRows == [name : AllNames, value : {"", "nothing", "x", "t1", "t2", "new", Mask}]
HostFormFields == {"hosts", "editingIndex", "editingHost", "isAdding", "newHost", "testResults",
               "testingKey"}

\* A form of Coolify hosts, and its masks under the settings it was read with.
IsHostForm(f) ==
    /\ DOMAIN f = HostFormFields
    /\ f.hosts \in Seq(HostRows) /\ f.editingHost \in HostRows /\ f.newHost \in HostRows
    /\ f.newHost.value # Mask
MasksIn(hosts, names) ==
    \A i \in DOMAIN hosts : hosts[i].value = Mask => Trim(hosts[i].name) \in names

HostsInv ==
    /\ DOMAIN form = Sections /\ edited \in [Sections -> BOOLEAN]
    /\ \A s \in Sections : ~edited[s] => form[s].hosts = settings[s]
    /\ DOMAIN config = Sections /\ DOMAIN saving = Sections
    /\ config["coolify"] \in Seq(HostRows) /\ NamesOf(config["coolify"]) \cap DOMAIN Padded = {}
    /\ saving["coolify"] \in Seq(HostRows)
    /\ IsHostForm(form["coolify"])
    /\ MasksIn(form["coolify"].hosts, NamesOf(settings["coolify"]))

LEMMA Singles == ASSUME NEW S, NEW x \in S PROVE <<x>> \in Seq(S)
OBVIOUS

LEMMA Pairs ==
    ASSUME NEW S, NEW x \in S, NEW y \in S
    PROVE  <<x, y>> \in Seq(S) /\ DOMAIN <<x, y>> = {1, 2}
OBVIOUS

LEMMA NothingFits == Nothing \in Seq(HostRows) /\ \A i \in DOMAIN Nothing : Nothing[i].value # Mask
<1>1. PICK x : x = [name |-> "", value |-> "nothing"]
  OBVIOUS
<1>2. x \in HostRows /\ x.value # Mask
  BY <1>1 DEF HostRows, AllNames, Mask
<1>3. Nothing = <<x>>
  BY <1>1 DEF Nothing
<1>4. \A i \in DOMAIN <<x>> : <<x>>[i] = x
  OBVIOUS
<1> QED
  BY <1>2, <1>3, <1>4, Singles

LEMMA TrimmedNames == \A n \in AllNames : Trim(n) \in AllNames
BY DEF AllNames, Trim

\* Editing a form, which keeps its masks resolved, keeps everything.
LEMMA EditSound ==
    ASSUME HostsInv, NEW s \in Sections, NEW f, Edits(s, f),
           s = "coolify" => IsHostForm(f) /\ MasksIn(f.hosts, NamesOf(settings["coolify"]))
    PROVE  HostsInv'
<1>1. /\ form' = [form EXCEPT ![s] = f]
      /\ edited' = [edited EXCEPT ![s] = edited[s] \/ f.hosts # form[s].hosts]
      /\ UNCHANGED <<config, settings, saving>>
  BY DEF Edits
<1>2. /\ DOMAIN form' = Sections /\ form'[s] = f
      /\ \A t \in Sections : t # s => form'[t] = form[t]
  BY <1>1 DEF HostsInv
<1>3. edited' \in [Sections -> BOOLEAN]
  BY <1>1, Zenon DEF HostsInv
<1>4. \A t \in Sections : ~edited'[t] => form'[t].hosts = settings[t]
  BY <1>1, <1>2 DEF HostsInv
<1>5. "coolify" \in Sections
  BY DEF Sections
<1>6. IsHostForm(form'["coolify"]) /\ MasksIn(form'["coolify"].hosts, NamesOf(settings["coolify"]))
  BY <1>2, <1>5 DEF HostsInv
<1> QED
  BY <1>1, <1>2, <1>3, <1>4, <1>6 DEF HostsInv
\* A field set in a form whose masks resolve.
Fits(g, names) == IsHostForm(g) /\ MasksIn(g.hosts, names)

LEMMA FieldFits ==
    ASSUME NEW g, NEW names, Fits(g, names)
    PROVE  /\ \A x \in {"editingIndex", "isAdding", "testResults", "testingKey"} :
                 \A v : Fits([g EXCEPT ![x] = v], names)
           /\ \A v \in HostRows : Fits([g EXCEPT !.editingHost = v], names)
           /\ \A v \in HostRows : v.value # Mask => Fits([g EXCEPT !.newHost = v], names)
           /\ \A v \in Seq(HostRows) : MasksIn(v, names) => Fits([g EXCEPT !.hosts = v], names)
<1>1. ASSUME NEW x \in {"editingIndex", "isAdding", "testResults", "testingKey"}, NEW v
      PROVE  Fits([g EXCEPT ![x] = v], names)
  <2>1. PICK h : h = [g EXCEPT ![x] = v]
    OBVIOUS
  <2>2. /\ DOMAIN h = HostFormFields /\ h.hosts = g.hosts /\ h.editingHost = g.editingHost
        /\ h.newHost = g.newHost
    BY <2>1 DEF Fits, IsHostForm, HostFormFields
  <2>3. Fits(h, names)
    BY <2>2 DEF Fits, IsHostForm
  <2> QED
    BY <2>1, <2>3
<1>2. ASSUME NEW v \in HostRows PROVE Fits([g EXCEPT !.editingHost = v], names)
  <2>1. PICK h : h = [g EXCEPT !.editingHost = v]
    OBVIOUS
  <2>2. /\ DOMAIN h = HostFormFields /\ h.hosts = g.hosts /\ h.editingHost = v
        /\ h.newHost = g.newHost
    BY <2>1 DEF Fits, IsHostForm, HostFormFields
  <2>3. Fits(h, names)
    BY <2>2 DEF Fits, IsHostForm
  <2> QED
    BY <2>1, <2>3
<1>3. ASSUME NEW v \in HostRows, v.value # Mask PROVE Fits([g EXCEPT !.newHost = v], names)
  <2>1. PICK h : h = [g EXCEPT !.newHost = v]
    OBVIOUS
  <2>2. /\ DOMAIN h = HostFormFields /\ h.hosts = g.hosts /\ h.editingHost = g.editingHost
        /\ h.newHost = v
    BY <2>1 DEF Fits, IsHostForm, HostFormFields
  <2>3. Fits(h, names)
    BY <1>3, <2>2 DEF Fits, IsHostForm
  <2> QED
    BY <2>1, <2>3
<1>4. ASSUME NEW v \in Seq(HostRows), MasksIn(v, names) PROVE Fits([g EXCEPT !.hosts = v], names)
  <2>1. PICK h : h = [g EXCEPT !.hosts = v]
    OBVIOUS
  <2>2. /\ DOMAIN h = HostFormFields /\ h.hosts = v /\ h.editingHost = g.editingHost
        /\ h.newHost = g.newHost
    BY <2>1 DEF Fits, IsHostForm, HostFormFields
  <2>3. Fits(h, names)
    BY <1>4, <2>2 DEF Fits, IsHostForm
  <2> QED
    BY <2>1, <2>3
<1> QED
  BY <1>1, <1>2, <1>3, <1>4

LEMMA RowsFit ==
    /\ EMPTY_HOST \in HostRows /\ EMPTY_HOST.value # Mask
    /\ \A n \in HostNames, v \in {"", "nothing", "x", "t1", "t2", "new", Mask} :
          [name |-> n, value |-> v] \in HostRows
BY DEF EMPTY_HOST, HostRows, AllNames, Mask

\* The rows of a list without one of them, with one replaced, and with one more.
LEMMA RemovedRow ==
    ASSUME NEW hosts \in Seq(HostRows), NEW i \in DOMAIN hosts, NEW names, MasksIn(hosts, names)
    PROVE  RemoveAt(hosts, i) \in Seq(HostRows) /\ MasksIn(RemoveAt(hosts, i), names)
<1>1. PICK front \in Seq(HostRows), back \in Seq(HostRows) :
          /\ RemoveAt(hosts, i) = front \o back
          /\ \A j \in DOMAIN front : front[j] = hosts[j] /\ j \in DOMAIN hosts
          /\ \A j \in DOMAIN back : back[j] = hosts[i + j] /\ i + j \in DOMAIN hosts
  <2>1. i \in 1 .. Len(hosts) /\ Len(hosts) \in Nat
    OBVIOUS
  <2>2. SubSeq(hosts, 1, i - 1) \in Seq(HostRows) /\ SubSeq(hosts, i + 1, Len(hosts)) \in Seq(HostRows)
    BY <2>1
  <2>3. \A j \in DOMAIN SubSeq(hosts, 1, i - 1) :
            SubSeq(hosts, 1, i - 1)[j] = hosts[j] /\ j \in DOMAIN hosts
    BY <2>1
  <2>4. \A j \in DOMAIN SubSeq(hosts, i + 1, Len(hosts)) :
            SubSeq(hosts, i + 1, Len(hosts))[j] = hosts[i + j] /\ i + j \in DOMAIN hosts
    BY <2>1
  <2> QED
    BY <2>2, <2>3, <2>4 DEF RemoveAt
<1>2. \A j \in DOMAIN (front \o back) : \E k \in DOMAIN hosts : (front \o back)[j] = hosts[k]
  <2> SUFFICES ASSUME NEW j \in DOMAIN (front \o back)
               PROVE  \E k \in DOMAIN hosts : (front \o back)[j] = hosts[k]
    OBVIOUS
  <2>1. j \in 1 .. Len(front) + Len(back) /\ Len(front) \in Nat /\ Len(back) \in Nat
    OBVIOUS
  <2>2. CASE j <= Len(front)
    BY <1>1, <2>1, <2>2
  <2>3. CASE j > Len(front)
    <3>1. j - Len(front) \in DOMAIN back /\ (front \o back)[j] = back[j - Len(front)]
      BY <2>1, <2>3
    <3> QED
      BY <1>1, <3>1
  <2> QED
    BY <2>1, <2>2, <2>3
<1>3. front \o back \in Seq(HostRows)
  OBVIOUS
<1> QED
  BY <1>1, <1>2, <1>3 DEF MasksIn

LEMMA ReplacedRow ==
    ASSUME NEW hosts \in Seq(HostRows), NEW i, NEW host \in HostRows, NEW names,
           MasksIn(hosts, names), host.value = Mask => Trim(host.name) \in names
    PROVE  [hosts EXCEPT ![i] = host] \in Seq(HostRows) /\ MasksIn([hosts EXCEPT ![i] = host], names)
<1>1. PICK l : l = [hosts EXCEPT ![i] = host]
  OBVIOUS
<1>2. DOMAIN l = DOMAIN hosts /\ \A j \in DOMAIN hosts : l[j] = IF j = i THEN host ELSE hosts[j]
  BY <1>1
<1>3. \A j \in DOMAIN hosts : l[j] \in HostRows
  BY <1>2
<1>4. l \in Seq(HostRows)
  <2>1. CASE i \in DOMAIN hosts
    BY <1>1, <2>1
  <2>2. CASE i \notin DOMAIN hosts
    <3>1. \A j \in DOMAIN hosts : l[j] = hosts[j]
      BY <1>2, <2>2
    <3>2. l \in [1 .. Len(hosts) -> HostRows] /\ hosts \in [1 .. Len(hosts) -> HostRows]
      BY <1>1, <1>2, <1>3, LenProperties
    <3>3. l = hosts
      BY <3>1, <3>2, LenProperties
    <3> QED
      BY <3>3
  <2> QED
    BY <2>1, <2>2
<1> QED
  BY <1>1, <1>2, <1>4 DEF MasksIn

LEMMA AddedRow ==
    ASSUME NEW hosts \in Seq(HostRows), NEW host \in HostRows, NEW names,
           MasksIn(hosts, names), host.value # Mask
    PROVE  Append(hosts, host) \in Seq(HostRows) /\ MasksIn(Append(hosts, host), names)
<1>1. Append(hosts, host) \in Seq(HostRows)
  OBVIOUS
<1>2. \A j \in DOMAIN Append(hosts, host) :
          Append(hosts, host)[j] = host \/ (j \in DOMAIN hosts /\ Append(hosts, host)[j] = hosts[j])
  OBVIOUS
<1> QED
  BY <1>1, <1>2 DEF MasksIn
-----------------------------------------------------------------------------
\* What each handler makes of a form whose masks resolve.
LEMMA RowsEdited ==
    ASSUME HostsInv, NEW s \in Sections,
           \/ HandleStartEdit(s) \/ TypeIntoRow(s) \/ HandleCancelEdit(s) \/ HandleSaveEdit(s)
           \/ HandleRemove(s)
    PROVE  HostsInv'
<1> DEFINE g == form[s]
           names == NamesOf(settings["coolify"])
<1>1. s = "coolify" => Fits(g, names)
  BY DEF HostsInv, Fits
<1>2. CASE HandleStartEdit(s)
  <2>1. PICK i \in DOMAIN g.hosts : Edits(s, [g EXCEPT !.editingIndex = i, !.editingHost = g.hosts[i]])
    BY <1>2 DEF HandleStartEdit
  <2>2. PICK h : h = [g EXCEPT !.editingIndex = i]
    OBVIOUS
  <2>3. PICK k : k = [h EXCEPT !.editingHost = g.hosts[i]]
    OBVIOUS
  <2>4. s = "coolify" => Fits(k, names)
    <3> SUFFICES ASSUME s = "coolify" PROVE Fits(k, names)
      OBVIOUS
    <3>1. Fits(h, names)
      BY <1>1, <2>2, FieldFits
    <3>2. g.hosts[i] \in HostRows
      BY <1>1 DEF Fits, IsHostForm
    <3> QED
      BY <2>3, <3>1, <3>2, FieldFits
  <2>5. Edits(s, k)
    BY <2>1, <2>2, <2>3
  <2> QED
    BY <2>4, <2>5, EditSound DEF Fits
<1>3. CASE TypeIntoRow(s)
  <2>1. PICK n \in HostNames, v \in {g.editingHost.value, "new"} :
            Edits(s, [g EXCEPT !.editingHost = [name |-> n, value |-> v]])
    BY <1>3 DEF TypeIntoRow
  <2>2. PICK h : h = [g EXCEPT !.editingHost = [name |-> n, value |-> v]]
    OBVIOUS
  <2>3. s = "coolify" => Fits(h, names)
    <3> SUFFICES ASSUME s = "coolify" PROVE Fits(h, names)
      OBVIOUS
    <3>1. v \in {"", "nothing", "x", "t1", "t2", "new", Mask}
      BY <1>1 DEF Fits, IsHostForm, HostRows
    <3>2. [name |-> n, value |-> v] \in HostRows
      BY <3>1, RowsFit
    <3> QED
      BY <1>1, <2>2, <3>2, FieldFits
  <2> QED
    BY <2>1, <2>2, <2>3, EditSound DEF Fits
<1>4. CASE HandleCancelEdit(s)
  <2>1. PICK h : h = [g EXCEPT !.editingIndex = 0]
    OBVIOUS
  <2>2. PICK k : k = [h EXCEPT !.editingHost = EMPTY_HOST]
    OBVIOUS
  <2>3. Edits(s, k)
    BY <1>4, <2>1, <2>2 DEF HandleCancelEdit
  <2>4. s = "coolify" => Fits(k, names)
    <3>1. s = "coolify" => Fits(h, names)
      BY <1>1, <2>1, FieldFits
    <3> QED
      BY <2>2, <3>1, FieldFits, RowsFit
  <2> QED
    BY <2>3, <2>4, EditSound DEF Fits
<1>5. CASE HandleSaveEdit(s)
  <2> DEFINE i == g.editingIndex
             host == g.editingHost
  <2>1. PICK h : h = [g EXCEPT !.hosts = [g.hosts EXCEPT ![i] = host]]
    OBVIOUS
  <2>2. PICK k : k = [h EXCEPT !.editingIndex = 0]
    OBVIOUS
  <2>3. PICK l : l = [k EXCEPT !.editingHost = EMPTY_HOST]
    OBVIOUS
  <2>4. PICK m : m = [l EXCEPT !.testResults = {}]
    OBVIOUS
  <2>5. Edits(s, m) /\ MayKeepToken(s, host)
    BY <1>5, <2>1, <2>2, <2>3, <2>4 DEF HandleSaveEdit
  <2>6. s = "coolify" => Fits(m, names)
    <3> SUFFICES ASSUME s = "coolify" PROVE Fits(m, names)
      OBVIOUS
    <3>1. host \in HostRows /\ g.hosts \in Seq(HostRows) /\ MasksIn(g.hosts, names)
      BY <1>1 DEF Fits, IsHostForm
    <3>2. host.value = Mask => Trim(host.name) \in names
      BY <2>5 DEF MayKeepToken, originalFileHosts
    <3>3. Fits(h, names)
      BY <1>1, <2>1, <3>1, <3>2, ReplacedRow, FieldFits
    <3>4. Fits(k, names)
      BY <2>2, <3>3, FieldFits
    <3>5. Fits(l, names)
      BY <2>3, <3>4, FieldFits, RowsFit
    <3> QED
      BY <2>4, <3>5, FieldFits
  <2> QED
    BY <2>5, <2>6, EditSound DEF Fits
<1>6. CASE HandleRemove(s)
  <2>1. PICK i \in DOMAIN g.hosts :
            Edits(s, [g EXCEPT !.hosts = RemoveAt(g.hosts, i), !.testResults = {}])
    BY <1>6 DEF HandleRemove
  <2>2. PICK h : h = [g EXCEPT !.hosts = RemoveAt(g.hosts, i)]
    OBVIOUS
  <2>3. PICK k : k = [h EXCEPT !.testResults = {}]
    OBVIOUS
  <2>4. s = "coolify" => Fits(k, names)
    <3> SUFFICES ASSUME s = "coolify" PROVE Fits(k, names)
      OBVIOUS
    <3>1. g.hosts \in Seq(HostRows) /\ MasksIn(g.hosts, names)
      BY <1>1 DEF Fits, IsHostForm
    <3>2. Fits(h, names)
      BY <1>1, <2>2, <3>1, RemovedRow, FieldFits
    <3> QED
      BY <2>3, <3>2, FieldFits
  <2> QED
    BY <2>1, <2>2, <2>3, <2>4, EditSound DEF Fits
<1> QED
  BY <1>2, <1>3, <1>4, <1>5, <1>6

\* The row for a new host.
LEMMA RowsAdded ==
    ASSUME HostsInv, NEW s \in Sections,
           OpenAddHost(s) \/ TypeNewHost(s) \/ CancelAddHost(s) \/ HandleAddHost(s)
    PROVE  HostsInv'
<1> DEFINE g == form[s]
           names == NamesOf(settings["coolify"])
<1>1. s = "coolify" => Fits(g, names)
  BY DEF HostsInv, Fits
<1>2. CASE OpenAddHost(s)
  <2>1. PICK h : h = [g EXCEPT !.isAdding = TRUE]
    OBVIOUS
  <2>2. Edits(s, h) /\ (s = "coolify" => Fits(h, names))
    BY <1>1, <1>2, <2>1, FieldFits DEF OpenAddHost
  <2> QED
    BY <2>2, EditSound DEF Fits
<1>3. CASE TypeNewHost(s)
  <2>1. PICK n \in HostNames : Edits(s, [g EXCEPT !.newHost = [name |-> n, value |-> "new"]])
    BY <1>3 DEF TypeNewHost
  <2>2. PICK h : h = [g EXCEPT !.newHost = [name |-> n, value |-> "new"]]
    OBVIOUS
  <2>3. [name |-> n, value |-> "new"] \in HostRows /\ "new" # Mask
    BY RowsFit DEF Mask
  <2>4. s = "coolify" => Fits(h, names)
    BY <1>1, <2>2, <2>3, FieldFits
  <2> QED
    BY <2>1, <2>2, <2>4, EditSound DEF Fits
<1>4. CASE CancelAddHost(s)
  <2>1. PICK h : h = [g EXCEPT !.isAdding = FALSE]
    OBVIOUS
  <2>2. PICK k : k = [h EXCEPT !.newHost = EMPTY_HOST]
    OBVIOUS
  <2>3. Edits(s, k)
    BY <1>4, <2>1, <2>2 DEF CancelAddHost
  <2>4. s = "coolify" => Fits(h, names)
    BY <1>1, <2>1, FieldFits
  <2>5. s = "coolify" => Fits(k, names)
    BY <2>2, <2>4, FieldFits, RowsFit
  <2> QED
    BY <2>3, <2>5, EditSound DEF Fits
<1>5. CASE HandleAddHost(s)
  <2>1. PICK host : host = [g.newHost EXCEPT !.name = Trim(g.newHost.name)]
    OBVIOUS
  <2>2. PICK h : h = [g EXCEPT !.hosts = Append(g.hosts, host)]
    OBVIOUS
  <2>3. PICK k : k = [h EXCEPT !.isAdding = FALSE]
    OBVIOUS
  <2>4. PICK l : l = [k EXCEPT !.newHost = EMPTY_HOST]
    OBVIOUS
  <2>5. PICK m : m = [l EXCEPT !.testResults = {}]
    OBVIOUS
  <2>6. Edits(s, m)
    BY <1>5, <2>1, <2>2, <2>3, <2>4, <2>5 DEF HandleAddHost
  <2>7. s = "coolify" => Fits(m, names)
    <3> SUFFICES ASSUME s = "coolify" PROVE Fits(m, names)
      OBVIOUS
    <3>1. /\ g.newHost \in HostRows /\ g.newHost.value # Mask
          /\ g.hosts \in Seq(HostRows) /\ MasksIn(g.hosts, names)
      BY <1>1 DEF Fits, IsHostForm
    <3>2. host \in HostRows /\ host.value # Mask
      BY <2>1, <3>1, TrimmedNames DEF HostRows
    <3>3. Append(g.hosts, host) \in Seq(HostRows) /\ MasksIn(Append(g.hosts, host), names)
      BY <3>1, <3>2, AddedRow
    <3>4. Fits(h, names)
      BY <1>1, <2>2, <3>3, FieldFits
    <3>5. Fits(k, names)
      BY <2>3, <3>4, FieldFits
    <3>6. Fits(l, names)
      BY <2>4, <3>5, FieldFits, RowsFit
    <3> QED
      BY <2>5, <3>6, FieldFits
  <2> QED
    BY <2>6, <2>7, EditSound DEF Fits
<1> QED
  BY <1>2, <1>3, <1>4, <1>5

\* A test and its answer.
LEMMA RowsTested ==
    ASSUME HostsInv, NEW s \in Sections, HandleTest(s) \/ TestAnswers(s)
    PROVE  HostsInv'
<1> DEFINE g == form[s]
           names == NamesOf(settings["coolify"])
<1>1. s = "coolify" => Fits(g, names)
  BY DEF HostsInv, Fits
<1>2. \A key, results : Edits(s, [g EXCEPT !.testingKey = key, !.testResults = results]) => HostsInv'
  <2> SUFFICES ASSUME NEW key, NEW results,
                      Edits(s, [g EXCEPT !.testingKey = key, !.testResults = results])
               PROVE  HostsInv'
    OBVIOUS
  <2>1. PICK h : h = [g EXCEPT !.testingKey = key]
    OBVIOUS
  <2>2. PICK k : k = [h EXCEPT !.testResults = results]
    OBVIOUS
  <2>3. s = "coolify" => Fits(h, names)
    BY <1>1, <2>1, FieldFits
  <2>4. s = "coolify" => Fits(k, names)
    BY <2>2, <2>3, FieldFits
  <2> QED
    BY <2>1, <2>2, <2>4, EditSound DEF Fits
<1>3. CASE HandleTest(s)
  BY <1>2, <1>3, Zenon DEF HandleTest
<1>4. CASE TestAnswers(s)
  <2> DEFINE results == g.testResults \cup {g.testingKey}
  <2>1. PICK h : h = [g EXCEPT !.testResults = results]
    OBVIOUS
  <2>2. PICK k : k = [h EXCEPT !.testingKey = ""]
    OBVIOUS
  <2>3. Edits(s, k)
    BY <1>4, <2>1, <2>2 DEF TestAnswers
  <2>4. s = "coolify" => Fits(h, names)
    BY <1>1, <2>1, FieldFits
  <2>5. s = "coolify" => Fits(k, names)
    BY <2>2, <2>4, FieldFits
  <2> QED
    BY <2>3, <2>5, EditSound DEF Fits
<1> QED
  BY <1>3, <1>4

-----------------------------------------------------------------------------
\* The configuration's names are trimmed, so that its masks are found.
LEMMA ConfigSound ==
    ASSUME HostsInv, UNCHANGED <<settings, form, edited>>,
           DOMAIN config' = Sections, DOMAIN saving' = Sections,
           config'["coolify"] \in Seq(HostRows), NamesOf(config'["coolify"]) \cap DOMAIN Padded = {},
           saving'["coolify"] \in Seq(HostRows)
    PROVE  HostsInv'
BY DEF HostsInv

LEMMA HostsSaved ==
    ASSUME HostsInv, NEW s \in Sections, SaveHosts(s)
    PROVE  HostsInv'
<1>1. /\ saving' = [saving EXCEPT ![s] = form[s].hosts]
      /\ UNCHANGED <<config, settings, form, edited>>
  BY DEF SaveHosts
<1>2. DOMAIN saving' = Sections
  BY <1>1 DEF HostsInv
<1>3. saving'["coolify"] \in Seq(HostRows)
  BY <1>1 DEF HostsInv, IsHostForm, Sections
<1> QED
  BY <1>1, <1>2, <1>3, ConfigSound DEF HostsInv

\* What the server stores of a list has the list's names.
LEMMA ResolvedRows ==
    ASSUME HostsInv, NEW hosts \in Seq(HostRows), Accepted("coolify", hosts)
    PROVE  /\ Resolved("coolify", hosts) \in Seq(HostRows)
           /\ NamesOf(Resolved("coolify", hosts)) \cap DOMAIN Padded = {}
<1> DEFINE old == config["coolify"]
           token(n) == CHOOSE i \in DOMAIN old : old[i].name = n
<1>1. PICK new : new = Resolved("coolify", hosts)
  OBVIOUS
<1>2. /\ DOMAIN new = DOMAIN hosts
      /\ \A i \in DOMAIN hosts :
            new[i] = IF hosts[i].value = Mask THEN old[token(hosts[i].name)] ELSE hosts[i]
  BY <1>1 DEF Resolved
<1>3. new = [i \in 1 .. Len(hosts) |-> new[i]]
  BY <1>1 DEF Resolved
<1>4. \A i \in DOMAIN hosts : hosts[i].value = Mask =>
          /\ token(hosts[i].name) \in DOMAIN old
          /\ old[token(hosts[i].name)].name = hosts[i].name
  <2> SUFFICES ASSUME NEW i \in DOMAIN hosts, hosts[i].value = Mask
               PROVE  /\ token(hosts[i].name) \in DOMAIN old
                      /\ old[token(hosts[i].name)].name = hosts[i].name
    OBVIOUS
  <2>1. \E j \in DOMAIN old : old[j].name = hosts[i].name
    BY DEF Accepted, NamesOf
  <2> QED
    BY <2>1, Zenon
<1> HIDE DEF token
<1>5. \A i \in DOMAIN hosts : new[i] \in HostRows /\ new[i].name = hosts[i].name
  <2> SUFFICES ASSUME NEW i \in DOMAIN hosts PROVE new[i] \in HostRows /\ new[i].name = hosts[i].name
    OBVIOUS
  <2>1. CASE hosts[i].value = Mask
    <3>1. token(hosts[i].name) \in DOMAIN old /\ old \in Seq(HostRows)
      BY <1>4, <2>1 DEF HostsInv
    <3>2. old[token(hosts[i].name)] \in HostRows
      BY <3>1
    <3> QED
      BY <1>2, <1>4, <2>1, <3>2
  <2>2. CASE hosts[i].value # Mask
    BY <1>2, <2>2
  <2> QED
    BY <2>1, <2>2
<1>6. new \in Seq(HostRows)
  BY SMTT(30), <1>3, <1>5
<1>7. NamesOf(new) = NamesOf(hosts)
  BY <1>2, <1>5 DEF NamesOf
<1> QED
  BY <1>1, <1>6, <1>7 DEF Accepted

LEMMA SaveSettled ==
    ASSUME HostsInv, NEW s \in Sections, SaveSettles(s)
    PROVE  HostsInv'
<1>1. /\ saving' = [saving EXCEPT ![s] = Nothing]
      /\ UNCHANGED <<settings, form, edited>>
      /\ \/ config' = config
         \/ Accepted(s, saving[s]) /\ config' = [config EXCEPT ![s] = Resolved(s, saving[s])]
  BY DEF SaveSettles
<1>3. DOMAIN saving' = Sections /\ DOMAIN config' = Sections
  BY <1>1 DEF HostsInv
<1>4. saving'["coolify"] \in Seq(HostRows)
  BY <1>1, NothingFits DEF HostsInv
<1>5. config'["coolify"] \in Seq(HostRows) /\ NamesOf(config'["coolify"]) \cap DOMAIN Padded = {}
  <2>1. CASE config' = config
    BY <2>1 DEF HostsInv
  <2>3. CASE s # "coolify"
    <3>1. config'["coolify"] = config["coolify"]
      BY <1>1, <2>3 DEF HostsInv, Sections
    <3> QED
      BY <3>1 DEF HostsInv
  <2>2. CASE s = "coolify" /\ Accepted(s, saving[s]) /\ config' = [config EXCEPT ![s] = Resolved(s, saving[s])]
    <3>1. config'["coolify"] = Resolved("coolify", saving["coolify"])
      BY <2>2 DEF HostsInv, Sections
    <3> QED
      BY <2>2, <3>1, ResolvedRows DEF HostsInv
  <2> QED
    BY <1>1, <2>1, <2>2, <2>3
<1> QED
  BY <1>1, <1>3, <1>4, <1>5, ConfigSound

LEMMA OthersSaved ==
    ASSUME HostsInv, OtherSessionSaves
    PROVE  HostsInv'
<1>1. PICK s \in Sections : config[s] # <<>> /\ config' = [config EXCEPT ![s] = Tail(config[s])]
  BY DEF OtherSessionSaves
<1>2. UNCHANGED <<settings, form, saving, edited>>
  BY DEF OtherSessionSaves
<1>3. DOMAIN config' = Sections
  BY <1>1 DEF HostsInv
<1>4. config'["coolify"] \in Seq(HostRows) /\ NamesOf(config'["coolify"]) \cap DOMAIN Padded = {}
  <2>1. CASE s # "coolify"
    BY <1>1, <2>1 DEF HostsInv
  <2>2. CASE s = "coolify"
    <3> DEFINE old == config["coolify"]
    <3>1. old \in Seq(HostRows) /\ old # <<>> /\ NamesOf(old) \cap DOMAIN Padded = {}
      BY <1>1, <2>2 DEF HostsInv
    <3>2. config'["coolify"] = Tail(old)
      BY <1>1, <2>2 DEF HostsInv
    <3> HIDE DEF old
    <3>3. Tail(old) \in Seq(HostRows)
      BY <3>1
    <3>4. \A i \in DOMAIN Tail(old) : i + 1 \in DOMAIN old /\ Tail(old)[i] = old[i + 1]
      BY <3>1
    <3>5. NamesOf(Tail(old)) \subseteq NamesOf(old)
      BY <3>4 DEF NamesOf
    <3> QED
      BY <3>1, <3>2, <3>3, <3>5
  <2> QED
    BY <2>1, <2>2
<1> QED
  BY <1>2, <1>3, <1>4, ConfigSound DEF HostsInv

\* The settings a form is mounted with resolve the masks they come with.
LEMMA ShownRows ==
    ASSUME NEW hosts \in Seq(HostRows), NamesOf(hosts) \cap DOMAIN Padded = {}
    PROVE  /\ Shown("coolify", hosts) \in Seq(HostRows)
           /\ MasksIn(Shown("coolify", hosts), NamesOf(Shown("coolify", hosts)))
<1>1. PICK new : new = Shown("coolify", hosts)
  OBVIOUS
<1>2. new = [i \in 1 .. Len(hosts) |-> [hosts[i] EXCEPT !.value = Mask]]
  BY <1>1 DEF Shown
<1>3. \A i \in DOMAIN hosts : new[i] \in HostRows /\ new[i].name = hosts[i].name
  <2> SUFFICES ASSUME NEW i \in DOMAIN hosts PROVE new[i] \in HostRows /\ new[i].name = hosts[i].name
    OBVIOUS
  <2>1. hosts[i] \in HostRows /\ new[i] = [hosts[i] EXCEPT !.value = Mask]
    BY <1>2
  <2> QED
    BY <2>1 DEF HostRows
<1>4. new \in Seq(HostRows) /\ DOMAIN new = DOMAIN hosts
  <2>1. DOMAIN new = DOMAIN hosts /\ new = [i \in 1 .. Len(hosts) |-> new[i]]
    BY <1>2
  <2>2. Len(hosts) \in Nat /\ \A i \in 1 .. Len(hosts) : new[i] \in HostRows
    BY <1>3
  <2> QED
    BY <2>1, <2>2
<1>5. MasksIn(new, NamesOf(new))
  BY <1>3, <1>4 DEF MasksIn, NamesOf, Trim
<1> QED
  BY <1>1, <1>4, <1>5

\* A section whose part of the settings changed is mounted afresh.
LEMMA ArrivedSound ==
    ASSUME HostsInv, SettingsArrive
    PROVE  HostsInv'
<1> DEFINE new == [s \in Sections |-> Shown(s, config[s])]
<1>1. /\ settings' = new /\ UNCHANGED <<config, saving>>
      /\ form' = [s \in Sections |-> IF Remounts(s, new[s]) THEN Mounted(new[s]) ELSE form[s]]
      /\ edited' = [s \in Sections |-> edited[s] /\ ~Remounts(s, new[s])]
  BY DEF SettingsArrive
<1>2. new["coolify"] = Shown("coolify", config["coolify"])
  BY DEF Sections
<1>3. new["coolify"] \in Seq(HostRows) /\ MasksIn(new["coolify"], NamesOf(new["coolify"]))
  BY <1>2, ShownRows DEF HostsInv
<1> HIDE DEF new
<1>4. edited' \in [Sections -> BOOLEAN]
  BY <1>1, Zenon
<1>5. \A s \in Sections : ~edited'[s] => form'[s].hosts = settings'[s]
  <2> SUFFICES ASSUME NEW s \in Sections, ~edited'[s] PROVE form'[s].hosts = new[s]
    BY <1>1
  <2>1. CASE Remounts(s, new[s])
    BY <1>1, <2>1 DEF Mounted
  <2>2. CASE ~Remounts(s, new[s])
    <3>1. ~edited[s]
      BY <1>1, <2>2, Zenon
    <3>2. form'[s] = form[s]
      BY <1>1, <2>2
    <3> QED
      BY <2>2, <3>1, <3>2 DEF Remounts, HostsInv
  <2> QED
    BY <2>1, <2>2
<1>6. IsHostForm(form'["coolify"]) /\ MasksIn(form'["coolify"].hosts, NamesOf(settings'["coolify"]))
  <2>1. CASE Remounts("coolify", new["coolify"])
    <3>1. form'["coolify"] = Mounted(new["coolify"])
      BY <1>1, <2>1 DEF Sections
    <3>2. IsHostForm(Mounted(new["coolify"])) /\ Mounted(new["coolify"]).hosts = new["coolify"]
      BY <1>3, RowsFit DEF IsHostForm, Mounted, HostFormFields
    <3> QED
      BY <1>1, <1>3, <3>1, <3>2
  <2>2. CASE ~Remounts("coolify", new["coolify"])
    <3>1. form'["coolify"] = form["coolify"] /\ new["coolify"] = settings["coolify"]
      BY <1>1, <2>2 DEF Sections, Remounts
    <3> QED
      BY <1>1, <3>1 DEF HostsInv
  <2> QED
    BY <2>1, <2>2
<1> QED
  BY <1>1, <1>4, <1>5, <1>6 DEF HostsInv

LEMMA HostsInit == ConnectionSettingsInit => HostsInv
<1> SUFFICES ASSUME ConnectionSettingsInit PROVE HostsInv
  OBVIOUS
<1>1. /\ [name |-> "a", value |-> "t1"] \in HostRows /\ [name |-> "b", value |-> "t2"] \in HostRows
  BY DEF HostRows, AllNames
<1>3. PICK hosts : hosts = <<[name |-> "a", value |-> "t1"], [name |-> "b", value |-> "t2"]>>
  OBVIOUS
<1>4. config["coolify"] = hosts /\ DOMAIN config = Sections
  BY <1>3 DEF ConnectionSettingsInit, Sections
<1>5. hosts \in Seq(HostRows) /\ DOMAIN hosts = {1, 2} /\ hosts[1].name = "a" /\ hosts[2].name = "b"
  <2>1. hosts[1].name = "a" /\ hosts[2].name = "b"
    BY <1>3
  <2> QED
    BY <1>1, <1>3, <2>1, Pairs
<1>6. NamesOf(hosts) \cap DOMAIN Padded = {}
  BY <1>5, PaddedAssumption DEF NamesOf
<1>7. IsHostForm(Mounted(Nothing))
  BY NothingFits, RowsFit DEF IsHostForm, Mounted, HostFormFields
<1>8. MasksIn(Nothing, NamesOf(settings["coolify"]))
  BY NothingFits DEF MasksIn
<1>9. form["coolify"] = Mounted(Nothing) /\ Mounted(Nothing).hosts = Nothing
  BY DEF ConnectionSettingsInit, Mounted, Sections
<1>10. \A s \in Sections : form[s].hosts = settings[s]
  BY DEF ConnectionSettingsInit, Mounted, NotLoaded
<1>11. edited \in [Sections -> BOOLEAN]
  BY DEF ConnectionSettingsInit
<1>12. DOMAIN form = Sections /\ DOMAIN saving = Sections /\ saving["coolify"] = Nothing
  BY DEF ConnectionSettingsInit, Sections
<1> QED
  BY NothingFits, <1>4, <1>5, <1>6, <1>7, <1>8, <1>9, <1>10, <1>11, <1>12 DEF HostsInv

LEMMA HostsStep == HostsInv /\ [ConnectionSettingsNext]_csVars => HostsInv'
<1> SUFFICES ASSUME HostsInv, [ConnectionSettingsNext]_csVars PROVE HostsInv'
  OBVIOUS
<1>1. ASSUME NEW s \in Sections, EditRows(s) \/ AddRows(s) \/ TestRows(s) \/ SaveRows(s)
      PROVE  HostsInv'
  BY <1>1, RowsEdited, RowsAdded, RowsTested, HostsSaved, SaveSettled
     DEF EditRows, AddRows, TestRows, SaveRows
<1>2. CASE UNCHANGED csVars
  BY <1>2 DEF csVars, HostsInv
<1> QED
  BY <1>1, <1>2, ArrivedSound, OthersSaved
     DEF ConnectionSettingsNext, DockerHostsSection, CoolifyHostsEdited, CoolifyHostsAdded,
         CoolifyHostsTested, CoolifyHostsSaved, Sections

LEMMA HostsInvImplies == HostsInv => UneditedHostsShowConfig /\ MaskResolves
BY DEF HostsInv, UneditedHostsShowConfig, MaskResolves, MasksIn

-----------------------------------------------------------------------------
(* The settings page: the account and the caps *)

ConfFields == {"enabled", "user", "password", "readOnly", "caps"}
IsConf(c) == DOMAIN c = ConfFields /\ c.caps = [n \in CapNames |-> c.caps[n]]

AccessFormsInv ==
    /\ IsConf(conf) /\ IsConf(data)
    /\ tab = "access" /\ "auth" \notin dirty => authForm = AuthFields(data)
    /\ tab = "storage" /\ "caps" \notin dirty => capsForm = data.caps

\* The settings of the server are settings, and nothing else matters.
LEMMA OthersKeepForms ==
    ASSUME AccessFormsInv, IsConf(conf'), UNCHANGED <<tab, data, authForm, capsForm, dirty>>
    PROVE  AccessFormsInv'
BY DEF AccessFormsInv, IsConf

\* The keys tell forms apart that would show something else.
LEMMA CapsOf ==
    ASSUME NEW c, NEW d, IsConf(c), IsConf(d), CapsKey(c) = CapsKey(d)
    PROVE  c.caps = d.caps
<1>1. \A n \in CapNames : c.caps[n] = d.caps[n]
  BY DEF CapsKey, CapNames
<1> QED
  BY <1>1 DEF IsConf

LEMMA AuthOf == ASSUME NEW c, NEW d, AuthKey(c) = AuthKey(d) PROVE AuthFields(c) = AuthFields(d)
BY DEF AuthKey, AuthFields

LEMMA UnsecretConf == ASSUME NEW c, IsConf(c) PROVE IsConf(Unsecret(c))
BY DEF IsConf, Unsecret, ConfFields

LEMMA FieldSet ==
    ASSUME NEW c, IsConf(c), NEW v
    PROVE  /\ IsConf([c EXCEPT !.enabled = v]) /\ IsConf([c EXCEPT !.user = v])
           /\ IsConf([c EXCEPT !.password = v])
<1>1. ASSUME NEW f \in ConfFields, f # "caps" PROVE IsConf([c EXCEPT ![f] = v])
  <2>1. DOMAIN [c EXCEPT ![f] = v] = ConfFields /\ [c EXCEPT ![f] = v].caps = c.caps
    BY <1>1 DEF IsConf, ConfFields
  <2> QED
    BY <2>1 DEF IsConf
<1> QED
  BY <1>1 DEF ConfFields

\* Settings that arrive remount the forms whose key they change.
LEMMA ArrivalSound ==
    ASSUME AccessFormsInv, DataArrives
    PROVE  AccessFormsInv'
<1>1. /\ Remount(AuthKey(data') # AuthKey(data), CapsKey(data') # CapsKey(data), data')
      /\ data' = Unsecret(conf) /\ tab' = tab /\ conf' = conf
  BY DEF DataArrives, server
<1>2. IsConf(conf) /\ IsConf(data) /\ IsConf(data')
  BY <1>1, UnsecretConf DEF AccessFormsInv
<1>3. ASSUME tab' = "access", "auth" \notin dirty' PROVE authForm' = AuthFields(data')
  <2>1. CASE AuthKey(data') = AuthKey(data)
    BY <1>1, <1>3, <2>1, AuthOf DEF Remount, AccessFormsInv
  <2>2. CASE AuthKey(data') # AuthKey(data)
    BY <1>1, <2>2 DEF Remount
  <2> QED
    BY <2>1, <2>2
<1>4. ASSUME tab' = "storage", "caps" \notin dirty' PROVE capsForm' = data'.caps
  <2>1. CASE CapsKey(data') = CapsKey(data)
    BY <1>1, <1>2, <1>4, <2>1, CapsOf DEF Remount, AccessFormsInv
  <2>2. CASE CapsKey(data') # CapsKey(data)
    BY <1>1, <2>2 DEF Remount
  <2> QED
    BY <2>1, <2>2
<1> QED
  BY <1>1, <1>2, <1>3, <1>4 DEF AccessFormsInv, IsConf

LEMMA OtherSessionSound ==
    ASSUME IsConf(conf), OtherSessionChanges
    PROVE  IsConf(conf')
<1>2. CASE conf' = [conf EXCEPT !.enabled = TRUE, !.user = "other", !.password = "other"]
  <2>1. PICK a : a = [conf EXCEPT !.enabled = TRUE] /\ IsConf(a)
    BY FieldSet
  <2>2. PICK b : b = [a EXCEPT !.user = "other"] /\ IsConf(b)
    BY <2>1, FieldSet
  <2>3. PICK c : c = [b EXCEPT !.password = "other"] /\ IsConf(c)
    BY <2>2, FieldSet
  <2> QED
    BY <1>2, <2>1, <2>2, <2>3
<1>3. CASE \E c \in CapNames \ PinnedCaps : conf' = [conf EXCEPT !.caps[c] = 4]
  BY <1>3 DEF IsConf, ConfFields
<1>4. CASE conf' = [conf EXCEPT !.readOnly = ~@]
  BY <1>4 DEF IsConf, ConfFields
<1> QED
  BY <1>2, <1>3, <1>4 DEF OtherSessionChanges

\* A saved account only clears the password field.
LEMMA SavedSound ==
    ASSUME AccessFormsInv, AuthSaved \/ ReadOnlySaved \/ CapsSaved
    PROVE  AccessFormsInv'
<1>1. CASE AuthSaved
  <2> DEFINE f == sent["auth"].form
  <2>1. conf' = [conf EXCEPT !.enabled = f.enabled, !.user = f.username,
                    !.password = IF f.password = "" THEN conf.password ELSE f.password]
    BY <1>1 DEF AuthSaved
  <2>2. IsConf(conf')
    <3>1. PICK a : a = [conf EXCEPT !.enabled = f.enabled] /\ IsConf(a)
      BY FieldSet DEF AccessFormsInv
    <3>2. PICK b : b = [a EXCEPT !.user = f.username] /\ IsConf(b)
      BY <3>1, FieldSet
    <3>3. PICK c : /\ c = [b EXCEPT !.password = IF f.password = "" THEN conf.password ELSE f.password]
                   /\ IsConf(c)
      BY <3>2, FieldSet
    <3> QED
      BY <2>1, <3>1, <3>2, <3>3
  <2>3. /\ UNCHANGED <<tab, data, capsForm, dirty>>
        /\ authForm' = IF tab = "access" THEN [authForm EXCEPT !.password = ""] ELSE authForm
    BY <1>1 DEF AuthSaved
  <2>4. tab = "access" /\ "auth" \notin dirty => authForm' = AuthFields(data)
    <3>1. [AuthFields(data) EXCEPT !.password = ""] = AuthFields(data)
      <4>1. PICK p : p = AuthFields(data)
        OBVIOUS
      <4>2. p = [enabled |-> p.enabled, username |-> p.username, password |-> p.password]
            /\ p.password = ""
        BY <4>1 DEF AuthFields
      <4>3. [p EXCEPT !.password = ""] = p
        BY <4>2
      <4> QED
        BY <4>1, <4>3
    <3> QED
      BY <2>3, <3>1 DEF AccessFormsInv
  <2> QED
    BY <2>2, <2>3, <2>4 DEF AccessFormsInv, IsConf
<1>2. CASE ReadOnlySaved
  <2>1. IsConf(conf')
    BY <1>2 DEF ReadOnlySaved, AccessFormsInv, IsConf, ConfFields
  <2> QED
    BY <1>2, <2>1, OthersKeepForms DEF ReadOnlySaved, forms
<1>3. CASE CapsSaved
  <2>1. IsConf(conf')
    BY <1>3 DEF CapsSaved, AccessFormsInv, IsConf, ConfFields
  <2> QED
    BY <1>3, <2>1, OthersKeepForms DEF CapsSaved, forms
<1> QED
  BY <1>1, <1>2, <1>3

\* Typing marks the form.
LEMMA TypedSound ==
    ASSUME AccessFormsInv, SetEnabled \/ TypeAccount \/ TypeCap
    PROVE  AccessFormsInv'
<1>1. conf' = conf /\ data' = data /\ tab' = tab
  BY DEF SetEnabled, TypeAccount, TypeCap, server
<1>2. CASE SetEnabled \/ TypeAccount
  <2>1. dirty' = dirty \cup {"auth"} /\ capsForm' = capsForm
    BY <1>2 DEF SetEnabled, TypeAccount
  <2> QED
    BY <1>1, <2>1 DEF AccessFormsInv, IsConf
<1>3. CASE TypeCap
  <2>1. dirty' = dirty \cup {"caps"} /\ authForm' = authForm
    BY <1>3 DEF TypeCap
  <2> QED
    BY <1>1, <2>1 DEF AccessFormsInv, IsConf
<1> QED
  BY <1>2, <1>3

LEMMA AccessFormsStep == AccessFormsInv /\ [AccessSettingsNext]_asVars => AccessFormsInv'
<1> SUFFICES ASSUME AccessFormsInv, [AccessSettingsNext]_asVars PROVE AccessFormsInv'
  OBVIOUS
<1>1. CASE SetTab
  <2>1. /\ conf' = conf /\ data' = data /\ Remount(TRUE, TRUE, data)
    BY <1>1 DEF SetTab, server
  <2> QED
    BY <2>1 DEF Remount, AccessFormsInv, IsConf
<1>2. CASE OtherSessionChanges
  BY <1>2, OtherSessionSound, OthersKeepForms DEF OtherSessionChanges, AccessFormsInv, forms
<1>3. CASE \/ HandleSaveAuth \/ HandleToggleReadOnly \/ HandleSaveCaps \/ SettingRefused
           \/ ToggleCreating \/ HandleCreate \/ TokenCreated \/ HandleCopy \/ CopyDone
           \/ DismissToken \/ AskRevoke \/ CancelRevoke \/ HandleRevoke \/ TokenRevoked
           \/ UNCHANGED asVars
  <2>1. UNCHANGED <<conf, tab, data, authForm, capsForm, dirty>>
    BY <1>3 DEF HandleSaveAuth, HandleToggleReadOnly, HandleSaveCaps, SettingRefused,
                ToggleCreating, HandleCreate, TokenCreated, HandleCopy, CopyDone,
                DismissToken, AskRevoke, CancelRevoke, HandleRevoke, TokenRevoked,
                asVars, server, forms
  <2> QED
    BY <2>1, OthersKeepForms DEF AccessFormsInv
<1> QED
  BY <1>1, <1>2, <1>3, ArrivalSound, SavedSound, TypedSound DEF AccessSettingsNext

LEMMA AccessFormsInit == AccessSettingsInit => AccessFormsInv
<1> SUFFICES ASSUME AccessSettingsInit PROVE AccessFormsInv
  OBVIOUS
<1>1. IsConf(conf) /\ IsConf(data)
  BY DEF AccessSettingsInit, IsConf, ConfFields, CapNames, NoConf
<1> QED
  BY <1>1 DEF AccessSettingsInit, AccessFormsInv

\* A form that keeps a copy of the configuration shows the configuration last
\* read until it is edited, whoever saves what meanwhile, so that saving it
\* writes nothing the user has not seen; and a masked token in the list of
\* Coolify hosts always stands for a token the settings have under its name
\* (settings/components: docker-hosts-section, coolify-hosts-section,
\* auth-section, retention-caps-form, remounted by key).
THEOREM FormsShowConfig == ConnectionSettingsSpec /\ AccessSettingsSpec => []FormsMatchConfig
<1>1. AccessFormsInv => UneditedFormsShowConfig
  BY DEF AccessFormsInv, UneditedFormsShowConfig
<1>2. HostsInv /\ AccessFormsInv => FormsMatchConfig
  BY <1>1, HostsInvImplies DEF FormsMatchConfig
<1> QED
  BY <1>2, HostsInit, HostsStep, AccessFormsInit, AccessFormsStep, PTL
     DEF ConnectionSettingsSpec, AccessSettingsSpec

-----------------------------------------------------------------------------
(* The alert rules: what the server is sent *)

LEMMA RulesInitSound == AlertFormsInit => SentRulesAccepted
BY DEF AlertFormsInit, SentRulesAccepted, RuleSaves

\* Only a save puts a rule among the requests that save one, and it puts
\* there what the form's checks let through.
LEMMA RulesStepSound == SentRulesAccepted /\ [AlertFormsNext]_afVars => SentRulesAccepted'
<1> SUFFICES ASSUME SentRulesAccepted, [AlertFormsNext]_afVars PROVE SentRulesAccepted'
  OBVIOUS
<1>1. CASE HandleSaveRule
  <2>1. ServerAccepts(ruleSave'.body)
    BY <1>1 DEF HandleSaveRule, FormError, ServerAccepts, buildPayload
  <2> QED
    BY <1>1, <2>1 DEF HandleSaveRule, SentRulesAccepted, RuleSaves
<1>2. CASE RulesArrive \/ ChannelsArrive
  BY <1>2 DEF RulesArrive, ChannelsArrive, SentRulesAccepted, RuleSaves
<1>3. CASE OpenCreate \/ OpenEdit \/ CloseDialog
  BY <1>3 DEF OpenCreate, OpenEdit, CloseDialog, SentRulesAccepted, RuleSaves
<1>4. CASE ApplyPreset \/ SetField \/ ToggleRate \/ ComboAdd \/ ComboRemove
  <2>1. \A f : TypesRule(f) => alertRequests' = alertRequests
    BY DEF TypesRule
  <2>2. alertRequests' = alertRequests
    BY <1>4, <2>1 DEF ApplyPreset, SetField, ToggleRate, ComboAdd, ComboRemove
  <2> QED
    BY <2>2 DEF SentRulesAccepted, RuleSaves
<1>5. CASE BackToPresets \/ ComboKeys
  BY <1>5 DEF BackToPresets, ComboKeys, SentRulesAccepted, RuleSaves
<1>6. CASE HandleToggleRule \/ AskDeleteRule \/ HandleDeleteRule
  BY <1>6 DEF HandleToggleRule, AskDeleteRule, HandleDeleteRule, SentRulesAccepted, RuleSaves
<1>7. CASE RequestSettles
  BY <1>7 DEF RequestSettles, SentRulesAccepted, RuleSaves
<1>8. CASE EditDraft
  <2>1. alertRequests' = alertRequests
    BY <1>8, Zenon DEF EditDraft
  <2> QED
    BY <2>1 DEF SentRulesAccepted, RuleSaves
<1>11. CASE HandleAddChannel \/ HandleToggleChannel \/ AskDeleteChannel
  BY <1>11 DEF HandleAddChannel, HandleToggleChannel, AskDeleteChannel,
              SentRulesAccepted, RuleSaves
<1>9. CASE HandleDeleteChannel \/ HistoryPoll \/ AskClear \/ HandleClear
  BY <1>9 DEF HandleDeleteChannel, HistoryPoll, AskClear, HandleClear, SentRulesAccepted, RuleSaves
<1>10. CASE UNCHANGED afVars
  BY <1>10 DEF afVars, SentRulesAccepted, RuleSaves
<1> QED
  BY <1>1, <1>2, <1>3, <1>4, <1>5, <1>6, <1>7, <1>8, <1>9, <1>10, <1>11
     DEF AlertFormsNext, RulesBlockNext, ChannelsBlockNext

\* The server's checks refuse no rule the dialog sends for its trigger, whatever
\* presets, types and fields were tried in whatever order: buildPayload clears
\* the other type's fields (alert-rule-dialog.tsx, alerts/validate.go).
THEOREM RulesAreAccepted == AlertFormsSpec => []SentRulesAccepted
BY RulesInitSound, RulesStepSound, PTL DEF AlertFormsSpec

-----------------------------------------------------------------------------
(* The alert rules: from a rule into the form's fields and back *)


RuleFields(r) ==
    r = [name |-> r.name, enabled |-> r.enabled, type |-> r.type, minLevel |-> r.minLevel,
         pattern |-> r.pattern, events |-> r.events, threshold |-> r.threshold,
         windowSeconds |-> r.windowSeconds, cooldownSeconds |-> r.cooldownSeconds,
         targets |-> r.targets]

FormFields(f) ==
    f = [name |-> f.name, type |-> f.type, minLevel |-> f.minLevel, pattern |-> f.pattern,
         events |-> f.events, rateEnabled |-> f.rateEnabled, threshold |-> f.threshold,
         windowSeconds |-> f.windowSeconds, targets |-> f.targets,
         cooldownValue |-> f.cooldownValue, cooldownUnit |-> f.cooldownUnit]

\* A rule with its fields, of which only those of its type hold something.
IsRule(r) ==
    /\ RuleFields(r)
    /\ \/ r.type = "log" /\ r.events = {}
       \/ r.type = "event" /\ r.minLevel = "any" /\ r.pattern = ""
    /\ r.threshold \in Nat \ {0} /\ r.windowSeconds \in Nat /\ r.cooldownSeconds \in Nat

IsForm(f) ==
    /\ FormFields(f)
    /\ f.type \in {"log", "event"}
    /\ f.threshold \in Nat /\ f.windowSeconds \in Nat /\ f.cooldownValue \in Nat

\* Rules are rules wherever they are, and an edit nobody typed into shows the
\* one it was opened on.
RuleFormInv ==
    /\ \A id \in DOMAIN rules : IsRule(rules[id])
    /\ ruleList # NoRules => \A id \in DOMAIN ruleList : IsRule(ruleList[id])
    /\ \A r \in alertRequests : r.kind \in {"save", "toggle"} => IsRule(r.body)
    /\ IsForm(ruleForm)
    /\ editingRule # 0 => /\ IsRule(loadedRule)
                          /\ ~ruleTyped => ruleForm = ruleToForm(loadedRule)

-----------------------------------------------------------------------------
\* Whole minutes come back from their number.
LEMMA MinutesBack == ASSUME NEW n \in Nat, n % Minute = 0 PROVE (n \div Minute) * Minute = n
BY MinuteAssumption

LEMMA ShownIsForm == ASSUME NEW r, IsRule(r) PROVE IsForm(ruleToForm(r))
<1>1. PICK n \in Nat : n = r.cooldownSeconds
  BY DEF IsRule
<1>2. n \div Minute \in Nat
  BY MinuteAssumption
<1>3. FormFields(ruleToForm(r))
  BY DEF FormFields, ruleToForm
<1>4. ruleToForm(r).cooldownValue \in Nat
  BY <1>1, <1>2 DEF ruleToForm
<1> QED
  BY <1>3, <1>4 DEF IsRule, IsForm, ruleToForm

LEMMA EnabledKept ==
    ASSUME NEW r, RuleFields(r), NEW b
    PROVE  /\ RuleFields([r EXCEPT !.enabled = b])
           /\ [r EXCEPT !.enabled = b] =
                  [name |-> r.name, enabled |-> b, type |-> r.type, minLevel |-> r.minLevel,
                   pattern |-> r.pattern, events |-> r.events, threshold |-> r.threshold,
                   windowSeconds |-> r.windowSeconds, cooldownSeconds |-> r.cooldownSeconds,
                   targets |-> r.targets]
<1>1. [r EXCEPT !.enabled = b] =
          [name |-> r.name, enabled |-> b, type |-> r.type, minLevel |-> r.minLevel,
           pattern |-> r.pattern, events |-> r.events, threshold |-> r.threshold,
           windowSeconds |-> r.windowSeconds, cooldownSeconds |-> r.cooldownSeconds,
           targets |-> r.targets]
  BY DEF RuleFields
<1> QED
  BY <1>1 DEF RuleFields

\* What any form sends is a rule.
LEMMA PayloadIsRule ==
    ASSUME NEW f, IsForm(f), NEW b
    PROVE  IsRule(buildPayload(f)) /\ IsRule([buildPayload(f) EXCEPT !.enabled = b])
<1> DEFINE n == f.cooldownValue * (IF f.cooldownUnit = "minutes" THEN Minute ELSE 1)
           p == buildPayload(f)
           q == [buildPayload(f) EXCEPT !.enabled = b]
<1>1. n \in Nat
  <2>1. PICK v \in Nat, m \in Nat : v = f.cooldownValue /\ m = IF f.cooldownUnit = "minutes" THEN Minute ELSE 1
    BY MinuteAssumption DEF IsForm
  <2>2. v * m \in Nat
    OBVIOUS
  <2> QED
    BY <2>1, <2>2
<1>2. RuleFields(p) /\ RuleFields(q)
  <2>1. RuleFields(p)
    BY DEF RuleFields, buildPayload
  <2> QED
    BY <2>1, EnabledKept
<1>3. p.cooldownSeconds = n /\ q.cooldownSeconds = n
  BY DEF buildPayload
<1>4. p.threshold \in Nat \ {0} /\ p.windowSeconds \in Nat /\ q.threshold = p.threshold /\ q.windowSeconds = p.windowSeconds
  BY DEF buildPayload, IsForm
<1>5. \/ p.type = "log" /\ p.events = {}
      \/ p.type = "event" /\ p.minLevel = "any" /\ p.pattern = ""
  BY DEF buildPayload, IsForm
<1>6. q.type = p.type /\ q.events = p.events /\ q.minLevel = p.minLevel /\ q.pattern = p.pattern
  BY DEF buildPayload
<1> HIDE DEF n, p, q
<1>7. IsRule(p) /\ IsRule(q)
  BY <1>1, <1>2, <1>3, <1>4, <1>5, <1>6 DEF IsRule
<1> QED
  BY <1>7 DEF p, q

LEMMA EnabledIsRule == ASSUME NEW r, IsRule(r), NEW b PROVE IsRule([r EXCEPT !.enabled = b])
<1>1. PICK q : q = [r EXCEPT !.enabled = b]
  OBVIOUS
<1>2. /\ RuleFields(q) /\ q.type = r.type /\ q.events = r.events /\ q.minLevel = r.minLevel
      /\ q.pattern = r.pattern /\ q.threshold = r.threshold
      /\ q.windowSeconds = r.windowSeconds /\ q.cooldownSeconds = r.cooldownSeconds
  <2>1. RuleFields(r)
    BY DEF IsRule
  <2>2. RuleFields(q) /\ q = [name |-> r.name, enabled |-> b, type |-> r.type,
                             minLevel |-> r.minLevel, pattern |-> r.pattern,
                             events |-> r.events, threshold |-> r.threshold,
                             windowSeconds |-> r.windowSeconds,
                             cooldownSeconds |-> r.cooldownSeconds, targets |-> r.targets]
    BY <1>1, <2>1, EnabledKept
  <2> QED
    BY <2>2
<1>3. IsRule(q)
  BY <1>2 DEF IsRule
<1> QED
  BY <1>1, <1>3

LEMMA DefaultsAreRules == ASSUME NEW r, IsRule(r) PROVE IsRule(WithDefaults(r))
<1>1. PICK w \in Nat : w = IF r.windowSeconds = 0 THEN 1 ELSE r.windowSeconds
  BY DEF IsRule
<1>2. PICK q : q = [r EXCEPT !.windowSeconds = w]
  OBVIOUS
<1>3. q = [name |-> r.name, enabled |-> r.enabled, type |-> r.type, minLevel |-> r.minLevel,
           pattern |-> r.pattern, events |-> r.events, threshold |-> r.threshold,
           windowSeconds |-> w, cooldownSeconds |-> r.cooldownSeconds,
           targets |-> r.targets]
  BY <1>2 DEF IsRule, RuleFields
<1>4. RuleFields(q)
  BY <1>3 DEF RuleFields
<1>5. IsRule(q)
  BY <1>3, <1>4 DEF IsRule
<1>6. WithDefaults(r) = q
  BY <1>1, <1>2 DEF WithDefaults
<1> QED
  BY <1>5, <1>6

\* A rule's form is saved as the rule.
LEMMA RuleComesBack ==
    ASSUME NEW r, IsRule(r)
    PROVE  [buildPayload(ruleToForm(r)) EXCEPT !.enabled = r.enabled] = r
<1> DEFINE f == ruleToForm(r)
<1>1. f.cooldownValue * (IF f.cooldownUnit = "minutes" THEN Minute ELSE 1) = r.cooldownSeconds
  <2>1. PICK n \in Nat : n = r.cooldownSeconds
    BY DEF IsRule
  <2>2. CASE n % Minute = 0
    <3>1. f.cooldownUnit = "minutes" /\ f.cooldownValue = n \div Minute
      BY <2>1, <2>2 DEF ruleToForm
    <3> HIDE DEF f
    <3> QED
      BY <2>1, <2>2, <3>1, MinutesBack
  <2>3. CASE n % Minute # 0
    <3>1. f.cooldownUnit = "seconds" /\ f.cooldownValue = n
      BY <2>1, <2>3 DEF ruleToForm
    <3> HIDE DEF f
    <3> QED
      BY <2>1, <3>1
  <2> QED
    BY <2>2, <2>3
<1>2. /\ (IF f.rateEnabled /\ f.threshold > 0 THEN f.threshold ELSE 1) = r.threshold
      /\ (IF f.rateEnabled THEN f.windowSeconds ELSE 0) = r.windowSeconds
  <2>1. f.threshold = r.threshold /\ f.windowSeconds = r.windowSeconds
    BY DEF ruleToForm
  <2>2. f.rateEnabled = (r.threshold > 1 \/ r.windowSeconds # 0)
    BY DEF ruleToForm
  <2>3. r.threshold \in Nat \ {0} /\ r.windowSeconds \in Nat
    BY DEF IsRule
  <2> HIDE DEF f
  <2>4. CASE f.rateEnabled
    BY <2>1, <2>3, <2>4
  <2>5. CASE ~f.rateEnabled
    <3>1. ~(r.threshold > 1 \/ r.windowSeconds # 0)
      BY <2>2, <2>5, Zenon
    <3>2. r.threshold = 1 /\ r.windowSeconds = 0
      BY <3>1, <2>3
    <3> QED
      BY <3>2, <2>5
  <2> QED
    BY <2>4, <2>5
<1>3. /\ (IF f.type = "log" THEN f.minLevel ELSE "any") = r.minLevel
      /\ (IF f.type = "log" THEN f.pattern ELSE "") = r.pattern
      /\ (IF f.type = "log" THEN {} ELSE f.events) = r.events
      /\ f.name = r.name /\ f.type = r.type /\ f.targets = r.targets
  BY DEF ruleToForm, IsRule
<1> HIDE DEF f
<1>4. buildPayload(f) = [name |-> r.name, enabled |-> TRUE, type |-> r.type, minLevel |-> r.minLevel,
            pattern |-> r.pattern, events |-> r.events, threshold |-> r.threshold,
            windowSeconds |-> r.windowSeconds, cooldownSeconds |-> r.cooldownSeconds,
            targets |-> r.targets]
  BY <1>1, <1>2, <1>3 DEF buildPayload
<1>5. [buildPayload(f) EXCEPT !.enabled = r.enabled] = r
  <2>1. PICK p : p = buildPayload(f)
    OBVIOUS
  <2>2. RuleFields(p)
    BY <1>4, <2>1 DEF RuleFields
  <2>3. /\ p.name = r.name /\ p.type = r.type /\ p.minLevel = r.minLevel
        /\ p.pattern = r.pattern /\ p.events = r.events /\ p.threshold = r.threshold
        /\ p.windowSeconds = r.windowSeconds /\ p.cooldownSeconds = r.cooldownSeconds
        /\ p.targets = r.targets
    BY <1>4, <2>1
  <2>4. [p EXCEPT !.enabled = r.enabled] =
            [name |-> r.name, enabled |-> r.enabled, type |-> r.type, minLevel |-> r.minLevel,
             pattern |-> r.pattern, events |-> r.events, threshold |-> r.threshold,
             windowSeconds |-> r.windowSeconds, cooldownSeconds |-> r.cooldownSeconds,
             targets |-> r.targets]
    BY <2>2, <2>3, EnabledKept
  <2> QED
    BY <2>1, <2>4 DEF IsRule, RuleFields
<1> QED
  BY <1>5 DEF f

\* A field set keeps a form a form.
LEMMA TypedIsForm ==
    ASSUME NEW f, IsForm(f)
    PROVE  /\ \A v : IsForm([f EXCEPT !.name = v]) /\ IsForm([f EXCEPT !.minLevel = v])
           /\ \A v : IsForm([f EXCEPT !.pattern = v]) /\ IsForm([f EXCEPT !.events = v])
           /\ \A v : IsForm([f EXCEPT !.targets = v]) /\ IsForm([f EXCEPT !.rateEnabled = v])
           /\ \A v \in {"log", "event"} : IsForm([f EXCEPT !.type = v])
           /\ \A v \in Nat : /\ IsForm([f EXCEPT !.threshold = v])
                             /\ IsForm([f EXCEPT !.windowSeconds = v])
                             /\ IsForm([f EXCEPT !.cooldownValue = v])
<1>1. ASSUME NEW v PROVE IsForm([f EXCEPT !.name = v])
  <2>1. FormFields([f EXCEPT !.name = v])
    BY DEF IsForm, FormFields
  <2> QED
    BY <1>1, <2>1 DEF IsForm, FormFields
<1>2. ASSUME NEW v PROVE IsForm([f EXCEPT !.minLevel = v])
  <2>1. FormFields([f EXCEPT !.minLevel = v])
    BY DEF IsForm, FormFields
  <2> QED
    BY <1>2, <2>1 DEF IsForm, FormFields
<1>3. ASSUME NEW v PROVE IsForm([f EXCEPT !.pattern = v])
  <2>1. FormFields([f EXCEPT !.pattern = v])
    BY DEF IsForm, FormFields
  <2> QED
    BY <1>3, <2>1 DEF IsForm, FormFields
<1>4. ASSUME NEW v PROVE IsForm([f EXCEPT !.events = v])
  <2>1. FormFields([f EXCEPT !.events = v])
    BY DEF IsForm, FormFields
  <2> QED
    BY <1>4, <2>1 DEF IsForm, FormFields
<1>5. ASSUME NEW v PROVE IsForm([f EXCEPT !.targets = v])
  <2>1. FormFields([f EXCEPT !.targets = v])
    BY DEF IsForm, FormFields
  <2> QED
    BY <1>5, <2>1 DEF IsForm, FormFields
<1>6. ASSUME NEW v PROVE IsForm([f EXCEPT !.rateEnabled = v])
  <2>1. FormFields([f EXCEPT !.rateEnabled = v])
    BY DEF IsForm, FormFields
  <2> QED
    BY <1>6, <2>1 DEF IsForm, FormFields
<1>7. ASSUME NEW v \in {"log", "event"} PROVE IsForm([f EXCEPT !.type = v])
  <2>1. FormFields([f EXCEPT !.type = v])
    BY DEF IsForm, FormFields
  <2> QED
    BY <1>7, <2>1 DEF IsForm, FormFields
<1>8. ASSUME NEW v \in Nat PROVE IsForm([f EXCEPT !.threshold = v])
  <2>1. FormFields([f EXCEPT !.threshold = v])
    BY DEF IsForm, FormFields
  <2> QED
    BY <1>8, <2>1 DEF IsForm, FormFields
<1>9. ASSUME NEW v \in Nat PROVE IsForm([f EXCEPT !.windowSeconds = v])
  <2>1. FormFields([f EXCEPT !.windowSeconds = v])
    BY DEF IsForm, FormFields
  <2> QED
    BY <1>9, <2>1 DEF IsForm, FormFields
<1>10. ASSUME NEW v \in Nat PROVE IsForm([f EXCEPT !.cooldownValue = v])
  <2>1. FormFields([f EXCEPT !.cooldownValue = v])
    BY DEF IsForm, FormFields
  <2> QED
    BY <1>10, <2>1 DEF IsForm, FormFields
<1> QED
  BY <1>1, <1>2, <1>3, <1>4, <1>5, <1>6, <1>7, <1>8, <1>9, <1>10

LEMMA PresetsAreForms == \A preset \in PRESETS : IsForm(preset)
<1>1. IsForm(EMPTY_FORM)
  BY DEF EMPTY_FORM, IsForm, FormFields, NoNumber
<1>2. IsForm([EMPTY_FORM EXCEPT !.name = "crash", !.type = "event", !.events = {"die"}])
  <2>1. PICK a : IsForm(a) /\ a = [EMPTY_FORM EXCEPT !.name = "crash"]
    BY <1>1, TypedIsForm
  <2>2. PICK b : IsForm(b) /\ b = [a EXCEPT !.type = "event"]
    BY <2>1, TypedIsForm
  <2>3. PICK c : IsForm(c) /\ c = [b EXCEPT !.events = {"die"}]
    BY <2>2, TypedIsForm
  <2> QED
    BY <2>1, <2>2, <2>3
<1>3. IsForm([EMPTY_FORM EXCEPT !.name = "crash", !.type = "event", !.events = {"die"}, !.rateEnabled = TRUE, !.threshold = 3, !.windowSeconds = 2])
  <2>1. PICK a : IsForm(a) /\ a = [EMPTY_FORM EXCEPT !.name = "crash"]
    BY <1>1, TypedIsForm
  <2>2. PICK b : IsForm(b) /\ b = [a EXCEPT !.type = "event"]
    BY <2>1, TypedIsForm
  <2>3. PICK c : IsForm(c) /\ c = [b EXCEPT !.events = {"die"}]
    BY <2>2, TypedIsForm
  <2>4. PICK d : IsForm(d) /\ d = [c EXCEPT !.rateEnabled = TRUE]
    BY <2>3, TypedIsForm
  <2>5. PICK e : IsForm(e) /\ e = [d EXCEPT !.threshold = 3]
    BY <2>4, TypedIsForm
  <2>6. PICK f : IsForm(f) /\ f = [e EXCEPT !.windowSeconds = 2]
    BY <2>5, TypedIsForm
  <2> QED
    BY <2>1, <2>2, <2>3, <2>4, <2>5, <2>6
<1>4. IsForm([EMPTY_FORM EXCEPT !.name = "spike", !.minLevel = "ERROR", !.rateEnabled = TRUE, !.threshold = 5, !.windowSeconds = 1])
  <2>1. PICK a : IsForm(a) /\ a = [EMPTY_FORM EXCEPT !.name = "spike"]
    BY <1>1, TypedIsForm
  <2>2. PICK b : IsForm(b) /\ b = [a EXCEPT !.minLevel = "ERROR"]
    BY <2>1, TypedIsForm
  <2>3. PICK c : IsForm(c) /\ c = [b EXCEPT !.rateEnabled = TRUE]
    BY <2>2, TypedIsForm
  <2>4. PICK d : IsForm(d) /\ d = [c EXCEPT !.threshold = 5]
    BY <2>3, TypedIsForm
  <2>5. PICK e : IsForm(e) /\ e = [d EXCEPT !.windowSeconds = 1]
    BY <2>4, TypedIsForm
  <2> QED
    BY <2>1, <2>2, <2>3, <2>4, <2>5
<1>5. IsForm([EMPTY_FORM EXCEPT !.name = "pattern"])
  BY <1>1, TypedIsForm
<1> QED
  BY <1>1, <1>2, <1>3, <1>4, <1>5 DEF PRESETS

\* Typing keeps the form a form, and marks it as typed into.
LEMMA TypingSound ==
    ASSUME RuleFormInv, ApplyPreset \/ SetField \/ ToggleRate \/ ComboAdd \/ ComboRemove
    PROVE  RuleFormInv'
<1>1. PICK f : TypesRule(f) /\ IsForm(f)
  <2>1. CASE ApplyPreset
    BY <2>1, PresetsAreForms DEF ApplyPreset
  <2>2. CASE SetField
    BY <2>2, TypedIsForm DEF SetField, RuleFormInv, NoNumber
  <2>3. CASE ToggleRate
    BY <2>3, TypedIsForm DEF ToggleRate, RuleFormInv, IsForm, NoNumber
  <2>4. CASE ComboAdd \/ ComboRemove
    BY <2>4, TypedIsForm DEF ComboAdd, ComboRemove, RuleFormInv
  <2> QED
    BY <2>1, <2>2, <2>3, <2>4
<1> QED
  BY <1>1 DEF TypesRule, RuleFormInv, alertStores, alertLists

\* An answer stores a rule, if it stores one.
LEMMA SettlingSound ==
    ASSUME RuleFormInv, RequestSettles
    PROVE  RuleFormInv'
<1>1. PICK r \in alertRequests :
          /\ alertRequests' = alertRequests \ {r}
          /\ \/ rules' = rules
             \/ /\ r.kind \in {"save", "toggle"}
                /\ \/ \E new : rules' = [id \in DOMAIN rules \cup {new} |->
                                  IF id = new THEN WithDefaults(r.body) ELSE rules[id]]
                   \/ rules' = [rules EXCEPT ![r.id] = WithDefaults(r.body)]
             \/ rules' = [id \in DOMAIN rules \ {r.id} |-> rules[id]]
          /\ UNCHANGED <<ruleList, ruleForm, editingRule, loadedRule, ruleTyped>>
  BY ZenonT(30) DEF RequestSettles, alertStores, alertLists
<1>2. r.kind \in {"save", "toggle"} => IsRule(WithDefaults(r.body))
  BY DefaultsAreRules DEF RuleFormInv
<1>3. \A id \in DOMAIN rules' : IsRule(rules'[id])
  <2>1. CASE rules' = rules \/ rules' = [id \in DOMAIN rules \ {r.id} |-> rules[id]]
    BY <2>1 DEF RuleFormInv
  <2>2. CASE /\ r.kind \in {"save", "toggle"}
             /\ \E new : rules' = [id \in DOMAIN rules \cup {new} |->
                                      IF id = new THEN WithDefaults(r.body) ELSE rules[id]]
    BY <1>2, <2>2 DEF RuleFormInv
  <2>3. CASE r.kind \in {"save", "toggle"} /\ rules' = [rules EXCEPT ![r.id] = WithDefaults(r.body)]
    BY <1>2, <2>3 DEF RuleFormInv
  <2> QED
    BY <1>1, <2>1, <2>2, <2>3
<1> QED
  BY <1>1, <1>3 DEF RuleFormInv

\* Saving sends a rule.
LEMMA SaveSound ==
    ASSUME RuleFormInv, HandleSaveRule
    PROVE  RuleFormInv'
<1>1. IsRule(ruleSave'.body)
  BY PayloadIsRule DEF HandleSaveRule, RuleFormInv
<1>2. /\ alertRequests' = alertRequests \cup {ruleSave'}
      /\ UNCHANGED <<rules, ruleList, ruleForm, editingRule, loadedRule, ruleTyped>>
  BY DEF HandleSaveRule, alertStores, alertLists
<1> QED
  BY <1>1, <1>2 DEF RuleFormInv

LEMMA ToggleSound ==
    ASSUME RuleFormInv, HandleToggleRule, ruleList # NoRules
    PROVE  RuleFormInv'
<1>1. PICK id \in DOMAIN ruleList : alertRequests' = alertRequests \cup {[kind |-> "toggle", id |-> id,
               body |-> [ruleList[id] EXCEPT !.enabled = ~@]]}
  BY DEF HandleToggleRule
<1>2. PICK b : b = ~ruleList[id].enabled
  OBVIOUS
<1>3. IsRule([ruleList[id] EXCEPT !.enabled = b])
  BY EnabledIsRule DEF RuleFormInv
<1>4. UNCHANGED <<rules, ruleList, ruleForm, editingRule, loadedRule, ruleTyped>>
  BY DEF HandleToggleRule, alertStores, alertLists, ruleDialog
<1> QED
  BY <1>1, <1>2, <1>3, <1>4 DEF RuleFormInv

\* Opening fills the form with a rule of the list, or with nothing.
LEMMA OpeningSound ==
    ASSUME RuleFormInv, OpenCreate \/ OpenEdit
    PROVE  RuleFormInv'
<1>1. UNCHANGED <<rules, ruleList, alertRequests>>
  BY DEF OpenCreate, OpenEdit, alertStores, alertLists
<1>2. CASE OpenCreate
  <2>1. editingRule' = 0 /\ ruleForm' = EMPTY_FORM
    BY <1>2 DEF OpenCreate, OpenEditor
  <2>2. IsForm(EMPTY_FORM)
    BY DEF EMPTY_FORM, IsForm, FormFields, NoNumber
  <2> QED
    BY <1>1, <2>1, <2>2 DEF RuleFormInv
<1>3. CASE OpenEdit
  <2>1. PICK id \in DOMAIN ruleList : ruleList # NoRules /\ OpenEditor(id)
    BY <1>3 DEF OpenEdit, TabReachable
  <2>2. CASE id = 0
    <3>1. editingRule' = 0 /\ ruleForm' = EMPTY_FORM
      BY <2>1, <2>2 DEF OpenEditor
    <3>2. IsForm(EMPTY_FORM)
      BY DEF EMPTY_FORM, IsForm, FormFields, NoNumber
    <3> QED
      BY <1>1, <3>1, <3>2 DEF RuleFormInv
  <2>3. CASE id # 0
    <3>1. ruleForm' = ruleToForm(ruleList[id]) /\ loadedRule' = ruleList[id]
      BY <2>1, <2>3 DEF OpenEditor
    <3>2. IsRule(ruleList[id])
      BY <2>1 DEF RuleFormInv
    <3> QED
      BY <1>1, <3>1, <3>2, ShownIsForm DEF RuleFormInv
  <2> QED
    BY <2>2, <2>3
<1> QED
  BY <1>2, <1>3

\* The other actions touch neither rules nor the form.
LEMMA OthersKeepRules ==
    ASSUME RuleFormInv,
           \/ RulesArrive \/ ChannelsArrive \/ CloseDialog \/ BackToPresets \/ ComboKeys
           \/ AskDeleteRule \/ HandleDeleteRule \/ EditDraft \/ HandleAddChannel
           \/ HandleToggleChannel \/ AskDeleteChannel \/ HandleDeleteChannel \/ HistoryPoll
           \/ AskClear \/ HandleClear \/ UNCHANGED afVars
    PROVE  RuleFormInv'
<1>1. /\ UNCHANGED <<rules, ruleForm, editingRule, loadedRule, ruleTyped>>
      /\ ruleList' \in {ruleList, rules}
  <2>1. CASE RulesArrive \/ ChannelsArrive \/ CloseDialog \/ BackToPresets \/ ComboKeys
             \/ AskDeleteRule \/ HandleDeleteRule \/ UNCHANGED afVars
    BY <2>1 DEF RulesArrive, ChannelsArrive, CloseDialog, BackToPresets, ComboKeys,
                AskDeleteRule, HandleDeleteRule, afVars, alertStores, alertLists, ruleDialog
  <2>2. CASE EditDraft
    BY <2>2, Zenon DEF EditDraft, alertStores, alertLists, ruleDialog
  <2>3. CASE HandleAddChannel \/ HandleToggleChannel \/ AskDeleteChannel
             \/ HandleDeleteChannel \/ HistoryPoll \/ AskClear \/ HandleClear
    BY <2>3 DEF HandleAddChannel, HandleToggleChannel, AskDeleteChannel, HandleDeleteChannel,
                HistoryPoll, AskClear, HandleClear, alertStores, alertLists, ruleDialog
  <2> QED
    BY <2>1, <2>2, <2>3
<1>2. \A r \in alertRequests' : r \in alertRequests \/ r.kind \notin {"save", "toggle"}
  <2>1. CASE RulesArrive \/ ChannelsArrive \/ CloseDialog \/ BackToPresets \/ ComboKeys
             \/ AskDeleteRule \/ UNCHANGED afVars
    <3>1. alertRequests' = alertRequests
      BY <2>1 DEF RulesArrive, ChannelsArrive, CloseDialog, BackToPresets, ComboKeys,
                  AskDeleteRule, afVars
    <3> QED
      BY <3>1
  <2>5. CASE HandleDeleteRule
    BY <2>5 DEF HandleDeleteRule
  <2>2. CASE EditDraft
    BY <2>2, Zenon DEF EditDraft
  <2>3. CASE HandleAddChannel \/ HandleToggleChannel \/ AskDeleteChannel
    BY <2>3 DEF HandleAddChannel, HandleToggleChannel, AskDeleteChannel
  <2>4. CASE HandleDeleteChannel \/ HistoryPoll \/ AskClear \/ HandleClear
    BY <2>4 DEF HandleDeleteChannel, HistoryPoll, AskClear, HandleClear
  <2> QED
    BY <2>1, <2>2, <2>3, <2>4, <2>5
<1> QED
  BY <1>1, <1>2 DEF RuleFormInv

LEMMA RuleFormInit == AlertFormsInit => RuleFormInv
<1> SUFFICES ASSUME AlertFormsInit PROVE RuleFormInv
  OBVIOUS
<1>1. PICK r \in StoredRules : rules = [id \in {1} |-> r]
  BY DEF AlertFormsInit
<1>2. IsRule(r)
  <2>1. RuleFields(r)
    BY DEF StoredRules, RuleFields
  <2>2. /\ r.type \in {"log", "event"} /\ r.threshold = 3 /\ r.windowSeconds = 1
        /\ r.cooldownSeconds \in 0 .. MaxSeconds
    BY DEF StoredRules
  <2>3. \/ r.type = "log" /\ r.events = {}
        \/ r.type = "event" /\ r.minLevel = "any" /\ r.pattern = ""
    BY <2>2 DEF StoredRules, ServerAccepts
  <2>4. r.cooldownSeconds \in Nat /\ r.threshold \in Nat \ {0} /\ r.windowSeconds \in Nat
    BY <2>2
  <2> QED
    BY <2>1, <2>3, <2>4 DEF IsRule
<1>3. /\ ruleList = NoRules /\ alertRequests = {} /\ ruleForm = EMPTY_FORM /\ editingRule = 0
  BY DEF AlertFormsInit
<1>4. IsForm(EMPTY_FORM)
  BY DEF EMPTY_FORM, IsForm, FormFields, NoNumber
<1> QED
  BY <1>1, <1>2, <1>3, <1>4 DEF RuleFormInv

LEMMA RuleFormStep == RuleFormInv /\ [AlertFormsNext]_afVars => RuleFormInv'
<1>1. HandleToggleRule => ruleList # NoRules
  BY DEF HandleToggleRule, TabReachable
<1> QED
  BY <1>1, OpeningSound, TypingSound, SaveSound, ToggleSound, SettlingSound, OthersKeepRules
     DEF AlertFormsNext, RulesBlockNext, ChannelsBlockNext

\* Only saving the form sends a save.
LEMMA SavesComeFromTheForm ==
    ASSUME [AlertFormsNext]_afVars, NEW r \in alertRequests', r \notin alertRequests, r.kind = "save"
    PROVE  HandleSaveRule
<1> SUFFICES ASSUME ~HandleSaveRule PROVE FALSE
  OBVIOUS
<1>1. CASE \/ RulesArrive \/ ChannelsArrive \/ OpenCreate \/ OpenEdit \/ CloseDialog
           \/ BackToPresets \/ ComboKeys \/ AskDeleteRule
  <2>1. alertRequests' = alertRequests
    BY <1>1 DEF RulesArrive, ChannelsArrive, OpenCreate, OpenEdit, CloseDialog, BackToPresets,
                ComboKeys, AskDeleteRule
  <2> QED
    BY <2>1
<1>7. CASE HandleDeleteRule
  BY <1>7 DEF HandleDeleteRule
<1>8. CASE RequestSettles
  BY <1>8 DEF RequestSettles
<1>2. CASE ApplyPreset \/ SetField \/ ToggleRate \/ ComboAdd \/ ComboRemove
  <2>1. \A f : TypesRule(f) => alertRequests' = alertRequests
    BY DEF TypesRule
  <2> QED
    BY <1>2, <2>1 DEF ApplyPreset, SetField, ToggleRate, ComboAdd, ComboRemove
<1>3. CASE HandleToggleRule
  <2>1. PICK id \in DOMAIN ruleList : alertRequests' = alertRequests \cup
             {[kind |-> "toggle", id |-> id, body |-> [ruleList[id] EXCEPT !.enabled = ~@]]}
    BY <1>3 DEF HandleToggleRule
  <2> QED
    BY <2>1
<1>4. CASE EditDraft
  BY <1>4, Zenon DEF EditDraft
<1>5. CASE HandleAddChannel \/ HandleToggleChannel \/ AskDeleteChannel
  BY <1>5 DEF HandleAddChannel, HandleToggleChannel, AskDeleteChannel
<1>6. CASE HandleDeleteChannel \/ HistoryPoll \/ AskClear \/ HandleClear \/ UNCHANGED afVars
  BY <1>6 DEF HandleDeleteChannel, HistoryPoll, AskClear, HandleClear, afVars
<1> QED
  BY <1>1, <1>2, <1>3, <1>4, <1>5, <1>6, <1>7, <1>8
     DEF AlertFormsNext, RulesBlockNext, ChannelsBlockNext

\* A step that sends a save of an untouched edit sends the rule it shows.
LEMMA UntouchedSaves ==
    RuleFormInv /\ [AlertFormsNext]_afVars
        => \A r \in RuleSaves' \ RuleSaves : r.id # 0 /\ ~ruleTyped => r.body = loadedRule
<1> SUFFICES ASSUME RuleFormInv, [AlertFormsNext]_afVars, NEW r \in RuleSaves' \ RuleSaves,
                    r.id # 0, ~ruleTyped
             PROVE  r.body = loadedRule
  OBVIOUS
<1>1. r \in alertRequests' /\ r \notin alertRequests /\ r.kind = "save"
  BY DEF RuleSaves
<1>2. HandleSaveRule
  BY <1>1, SavesComeFromTheForm
<1>3. r = ruleSave' /\ editingRule # 0
        /\ r.body = [buildPayload(ruleForm) EXCEPT !.enabled = loadedRule.enabled]
  <2>1. r = ruleSave'
    BY <1>1, <1>2 DEF HandleSaveRule
  <2>2. r.id = editingRule
    BY <1>2, <2>1 DEF HandleSaveRule
  <2> QED
    BY <1>2, <2>1, <2>2 DEF HandleSaveRule
<1>4. IsRule(loadedRule) /\ ruleForm = ruleToForm(loadedRule)
  BY <1>3 DEF RuleFormInv
<1> QED
  BY <1>3, <1>4, RuleComesBack

\* Saving an edit nobody typed into sends the rule it was opened on, through
\* its conversion into text and back, whatever arrived meanwhile.
THEOREM UntouchedRulesAreKept == AlertFormsSpec => UntouchedRuleKept
<1>1. RuleFormInv /\ [AlertFormsNext]_afVars
        => [\A r \in RuleSaves' \ RuleSaves : r.id # 0 /\ ~ruleTyped => r.body = loadedRule]_afVars
  BY UntouchedSaves
<1> QED
  BY <1>1, RuleFormInit, RuleFormStep, PTL DEF AlertFormsSpec, UntouchedRuleKept

\* Saving limits, or a rule, that nobody typed into sends what the fields were
\* filled from: their conversion into text and back loses nothing, for every
\* number of bytes and every cooldown, whatever arrived meanwhile
\* (resource-limits.tsx formatMemoryBytes and parseMemoryInput,
\* alert-rule-dialog.tsx ruleToForm and buildPayload).
THEOREM UntouchedFieldsAreKept == ResourceLimitsSpec /\ AlertFormsSpec => UntouchedFieldsKept
BY UntouchedLimitsAreKept, UntouchedRulesAreKept DEF UntouchedFieldsKept
-----------------------------------------------------------------------------
(* The demo's store *)

\* The lines under an id, but for the first, end those stored under the name.
Ends(l, s) ==
    /\ Len(l) <= LogCap /\ Len(l) <= Len(s) + 1
    /\ \A i \in 2 .. Len(l) : l[i] = s[Len(s) - Len(l) + i]

StoredRecord == [removed : BOOLEAN, logs : Seq(Nat)]
IdSuffixes == IdEnds \cup {0}
DemoTyped ==
    /\ liveTick \in Nat
    /\ \A n \in Names : stateContainers[n] \in [suffix : IdSuffixes, state : {"running", "exited"}]
    /\ \A id \in DOMAIN stateLogs : stateLogs[id] \in Seq(Nat)
    /\ \A n \in DOMAIN stateStored : stateStored[n] \in StoredRecord

\* A container that was removed does not come back, so a row shown as removed,
\* and a purge asked for on it, are of none that exists.
PurgesOfRemoved ==
    /\ stored \cap Names = {}
    /\ \A c \in asleep : c.op = "purge" => c.of \notin Names

LogsEndTheStored ==
    \A n \in Names : IdOf(n) \in DOMAIN stateLogs => Ends(stateLogs[IdOf(n)], stateStored[n].logs)

\* The array is shared until the first line, which is stored twice.
SharedIsSeed ==
    \A n \in Names \cap sameArray : IdOf(n) \in DOMAIN stateLogs /\ Len(stateLogs[IdOf(n)]) = 1

DemoInv ==
    DemoTyped /\ RecordsFollowContainers /\ PurgesOfRemoved /\ LogsEndTheStored /\ SharedIsSeed

LEMMA SeedLine == <<0>> \in Seq(Nat) /\ Len(<<0>>) = 1
OBVIOUS

LEMMA InitDemo == DemoDashboardInit => DemoInv
<1> SUFFICES ASSUME DemoDashboardInit PROVE DemoInv
  OBVIOUS
<1>1. /\ stateContainers \in [Seeds -> [suffix : {0}, state : {"running", "exited"}]]
      /\ stateLogs = [id \in LiveIds |-> <<0>>]
      /\ stateStored = [n \in Seeds \cup {Ghost} |-> [removed |-> n = Ghost, logs |-> <<0>>]]
      /\ DOMAIN stateEnv = LiveIds /\ DOMAIN stateResources = LiveIds
      /\ stateStats = LiveIds /\ liveTick = 0 /\ asleep = {}
  BY DEF DemoDashboardInit, DemoStoreInit
<1>2. stored = {}
  BY DEF DemoDashboardInit, DashboardMounts
<1>3. Names = Seeds
  BY <1>1 DEF Names
<1>4. \A n \in Names : IdOf(n) \in LiveIds
  BY DEF LiveIds
<1>5. \A n \in Seeds \cup {Ghost} : stateStored[n] = [removed |-> n = Ghost, logs |-> <<0>>]
  BY <1>1
<1>6. \A n \in Seeds \cup {Ghost} : stateStored[n] \in StoredRecord /\ (stateStored[n].removed <=> n = Ghost)
                                   /\ stateStored[n].logs = <<0>>
  <2> TAKE n \in Seeds \cup {Ghost}
  <2>0. PICK b \in BOOLEAN : b <=> n = Ghost
    OBVIOUS
  <2>1. stateStored[n] = [removed |-> b, logs |-> <<0>>]
    BY <1>5, <2>0
  <2>2. stateStored[n].removed = b /\ stateStored[n].logs = <<0>>
    BY <2>1
  <2>3. stateStored[n] \in StoredRecord
    BY <2>1, SeedLine DEF StoredRecord
  <2> QED
    BY <2>0, <2>2, <2>3, Zenon
<1>7. DOMAIN stateStored = Seeds \cup {Ghost} /\ DOMAIN stateLogs = LiveIds
  BY <1>1
<1>8. \A id \in LiveIds : stateLogs[id] = <<0>>
  BY <1>1
<1>9. DemoTyped
  <2>1. \A n \in Names : stateContainers[n] \in [suffix : IdSuffixes, state : {"running", "exited"}]
    BY <1>1, <1>3 DEF IdSuffixes
  <2> QED
    BY <1>1, <1>6, <1>7, <1>8, <2>1, SeedLine DEF DemoTyped
<1>10. RecordsFollowContainers
  BY <1>1, <1>3, <1>6, <1>7, DemoAssumption, Zenon DEF RecordsFollowContainers
<1>11. PurgesOfRemoved
  BY <1>1, <1>2 DEF PurgesOfRemoved
<1>12. LogsEndTheStored
  <2>1. Ends(<<0>>, <<0>>)
    BY DemoAssumption DEF Ends
  <2> QED
    BY <1>3, <1>4, <1>6, <1>8, <2>1, Zenon DEF LogsEndTheStored
<1>13. SharedIsSeed
  BY <1>4, <1>7, <1>8, SeedLine DEF SharedIsSeed
<1> QED
  BY <1>9, <1>10, <1>11, <1>12, <1>13 DEF DemoInv

-----------------------------------------------------------------------------
(* What leaves the store alone. *)
LEMMA RestingStore ==
    ASSUME DemoInv, UNCHANGED stateVars, PurgesOfRemoved'
    PROVE  DemoInv'
BY DEF DemoInv, DemoTyped, RecordsFollowContainers, LogsEndTheStored, SharedIsSeed, stateVars,
       Names, LiveIds, IdOf, Ends, StoredRecord, IdSuffixes

LEMMA PurgesStay ==
    ASSUME PurgesOfRemoved, asleep' \subseteq asleep, stored' = stored, Names' \subseteq Names
    PROVE  PurgesOfRemoved'
BY DEF PurgesOfRemoved

LEMMA CallSound ==
    ASSUME DemoInv, DemoRowCall \/ DemoComposeCall \/ DemoPurgeCall
    PROVE  DemoInv'
<1>1. PurgesOfRemoved
  BY DEF DemoInv
<1>2. ASSUME NEW call, Sleep(call), UNCHANGED clVars, call.op = "purge" => call.of \notin Names
      PROVE  DemoInv'
  <2>1. asleep' = asleep \cup {call} /\ UNCHANGED stateVars
    BY <1>2 DEF Sleep
  <2>2. Names' = Names /\ stored' = stored
    BY <1>2, <2>1 DEF Names, stateVars, clVars
  <2>3. PurgesOfRemoved'
    BY <1>1, <1>2, <2>1, <2>2 DEF PurgesOfRemoved
  <2> QED
    BY <2>1, <2>3, RestingStore
<1>3. CASE DemoRowCall
  <2>1. PICK id \in shownIds, op \in ById :
           Sleep([at |-> demoCalls, op |-> op, id |-> id]) /\ UNCHANGED clVars
    BY <1>3 DEF DemoRowCall
  <2>2. PICK call : call = [at |-> demoCalls, op |-> op, id |-> id]
    OBVIOUS
  <2>3. call.op # "purge"
    BY <2>2 DEF ById
  <2> QED
    BY <1>2, <2>1, <2>2, <2>3
<1>4. CASE DemoComposeCall
  <2>1. PICK stops \in BOOLEAN :
           Sleep([at |-> demoCalls, op |-> "compose", stops |-> stops]) /\ UNCHANGED clVars
    BY <1>4 DEF DemoComposeCall
  <2>2. PICK call : call = [at |-> demoCalls, op |-> "compose", stops |-> stops]
    OBVIOUS
  <2>3. call.op # "purge"
    BY <2>2
  <2> QED
    BY <1>2, <2>1, <2>2, <2>3
<1>5. CASE DemoPurgeCall
  <2>1. PICK n \in DemoRemovedRows :
           Sleep([at |-> demoCalls, op |-> "purge", of |-> n]) /\ UNCHANGED clVars
    BY <1>5 DEF DemoPurgeCall
  <2>2. PICK call : call = [at |-> demoCalls, op |-> "purge", of |-> n]
    OBVIOUS
  <2>3. call.of \notin Names
    BY <1>1, <2>1, <2>2 DEF DemoRemovedRows, synthesizeRemovedContainers, PurgesOfRemoved
  <2> QED
    BY <1>2, <2>1, <2>2, <2>3
<1> QED
  BY <1>3, <1>4, <1>5

LEMMA HistorySound ==
    ASSUME DemoInv, DemoGetHistory
    PROVE  DemoInv'
<1>1. UNCHANGED <<stateVars, asleep>> /\ stored' = {n \in DOMAIN stateStored : stateStored[n].removed}
  BY DEF DemoGetHistory, dsVars
<1>2. Names' = Names
  BY <1>1 DEF Names, stateVars
<1>3. stored' \cap Names = {}
  BY <1>1 DEF DemoInv, RecordsFollowContainers
<1>4. PurgesOfRemoved'
  BY <1>1, <1>2, <1>3 DEF DemoInv, PurgesOfRemoved
<1> QED
  BY <1>1, <1>4, RestingStore

LEMMA RestOfDashboard ==
    ASSUME DemoInv, UNCHANGED <<stateVars, asleep, stored>>
    PROVE  DemoInv'
<1>1. Names' = Names
  BY DEF Names, stateVars
<1>2. PurgesOfRemoved'
  BY <1>1, PurgesStay DEF DemoInv
<1> QED
  BY <1>2, RestingStore

-----------------------------------------------------------------------------
(* Calls that find their container. *)
LEMMA FoundIs == ASSUME NEW id, NEW n \in Found(id) PROVE n \in Names /\ IdOf(n) = id
BY DEF Found

\* Containers keep their ids.
LEMMA StatesSound ==
    ASSUME DemoInv, NEW set, NEW s \in {"running", "exited"}, Set(set, s),
           asleep' \subseteq asleep, stored' = stored
    PROVE  DemoInv'
<1>1. /\ stateContainers' = [n \in Names |-> IF n \in set
                               THEN [stateContainers[n] EXCEPT !.state = s] ELSE stateContainers[n]]
      /\ UNCHANGED <<stateLogs, stateEnv, stateResources, stateStats, stateStored, sameArray, liveTick>>
  BY DEF Set
<1>2. Names' = Names
  BY <1>1 DEF Names
<1>3. \A n \in Names : /\ stateContainers'[n] \in [suffix : IdSuffixes, state : {"running", "exited"}]
                       /\ stateContainers'[n].suffix = stateContainers[n].suffix
  BY <1>1 DEF DemoInv, DemoTyped
<1>4. \A n \in Names : IdOf(n)' = IdOf(n)
  BY <1>3 DEF IdOf
<1>5. LiveIds' = LiveIds
  BY <1>2, <1>4 DEF LiveIds
<1>6. DemoTyped'
  BY <1>1, <1>2, <1>3 DEF DemoInv, DemoTyped, StoredRecord, IdSuffixes
<1>7. RecordsFollowContainers'
  BY <1>1, <1>2, <1>5 DEF DemoInv, RecordsFollowContainers
<1>8. PurgesOfRemoved'
  BY <1>2, PurgesStay DEF DemoInv
<1>9. LogsEndTheStored' /\ SharedIsSeed'
  <2>1. \A n \in Names : IdOf(n)' \in DOMAIN stateLogs' <=> IdOf(n) \in DOMAIN stateLogs
    BY <1>1, <1>4
  <2> QED
    BY <1>1, <1>2, <1>4, <2>1 DEF DemoInv, LogsEndTheStored, SharedIsSeed, Ends
<1> QED
  BY <1>6, <1>7, <1>8, <1>9 DEF DemoInv

LEMMA IdsDiffer ==
    ASSUME NEW n, NEW m, IdOf(n) = IdOf(m)
    PROVE  n = m
BY DEF IdOf

LEMMA DeletedIs ==
    ASSUME NEW f, NEW x
    PROVE  /\ DOMAIN Deleted(f, x) = DOMAIN f \ {x}
           /\ \A y \in DOMAIN f \ {x} : Deleted(f, x)[y] = f[y]
BY DEF Deleted

LEMMA RemoveSound ==
    ASSUME DemoInv, RemoveContainer, stored' = stored
    PROVE  DemoInv'
<1>1. PICK c \in Asleep({"remove"}) : \E n \in Found(c.id) :
         /\ stateStored' = [stateStored EXCEPT ![n].removed = TRUE]
         /\ stateContainers' = Deleted(stateContainers, n)
         /\ stateStats' = stateStats \ {c.id}
         /\ stateLogs' = Deleted(stateLogs, c.id)
         /\ stateEnv' = Deleted(stateEnv, c.id)
         /\ stateResources' = Deleted(stateResources, c.id)
         /\ sameArray' = sameArray \ {n}
         /\ liveTick' = liveTick /\ asleep' = asleep \ {c}
  BY DEF RemoveContainer, Wake
<1>2. PICK n \in Names :
         /\ stateStored' = [stateStored EXCEPT ![n].removed = TRUE]
         /\ stateContainers' = Deleted(stateContainers, n)
         /\ stateStats' = stateStats \ {IdOf(n)}
         /\ stateLogs' = Deleted(stateLogs, IdOf(n))
         /\ stateEnv' = Deleted(stateEnv, IdOf(n))
         /\ stateResources' = Deleted(stateResources, IdOf(n))
         /\ sameArray' = sameArray \ {n}
  BY <1>1, FoundIs
<1>3. /\ Names' = Names \ {n}
      /\ \A m \in Names' : stateContainers'[m] = stateContainers[m]
  BY <1>2, DeletedIs DEF Names
<1>4. \A m \in Names' : IdOf(m)' = IdOf(m) /\ IdOf(m) # IdOf(n)
  BY <1>3, IdsDiffer DEF IdOf
<1>5. LiveIds' = LiveIds \ {IdOf(n)}
  <2>1. LiveIds' = {IdOf(m) : m \in Names'}
    BY <1>4 DEF LiveIds
  <2> QED
    BY <1>3, <1>4, <2>1 DEF LiveIds
<1>6. /\ DOMAIN stateLogs' = DOMAIN stateLogs \ {IdOf(n)}
      /\ DOMAIN stateEnv' = DOMAIN stateEnv \ {IdOf(n)}
      /\ DOMAIN stateResources' = DOMAIN stateResources \ {IdOf(n)}
      /\ \A id \in DOMAIN stateLogs' : stateLogs'[id] = stateLogs[id]
  BY <1>2, DeletedIs
<1>7. /\ DOMAIN stateStored' = DOMAIN stateStored
      /\ \A m \in DOMAIN stateStored : m # n => stateStored'[m] = stateStored[m]
  BY <1>2
<1>8. n \in DOMAIN stateStored /\ stateStored[n] \in StoredRecord
  BY DEF DemoInv, DemoTyped, RecordsFollowContainers
<1>9. stateStored'[n] = [stateStored[n] EXCEPT !.removed = TRUE]
  BY <1>2, <1>8
<1>10. stateStored'[n] \in StoredRecord /\ stateStored'[n].removed
  BY <1>8, <1>9 DEF StoredRecord
<1>11. DemoTyped'
  <2>1. liveTick' \in Nat
    BY <1>1 DEF DemoInv, DemoTyped
  <2>2. \A m \in Names' : stateContainers'[m] \in [suffix : IdSuffixes, state : {"running", "exited"}]
    BY <1>3 DEF DemoInv, DemoTyped
  <2>3. \A id \in DOMAIN stateLogs' : stateLogs'[id] \in Seq(Nat)
    BY <1>6 DEF DemoInv, DemoTyped
  <2>4. \A m \in DOMAIN stateStored' : stateStored'[m] \in StoredRecord
    BY <1>7, <1>10, Zenon DEF DemoInv, DemoTyped
  <2> QED
    BY <2>1, <2>2, <2>3, <2>4 DEF DemoTyped, StoredRecord, IdSuffixes
<1>12. RecordsFollowContainers'
  <2>1. \A m \in DOMAIN stateStored' : stateStored'[m].removed <=> m \notin Names'
    BY <1>3, <1>7, <1>10, Zenon DEF DemoInv, RecordsFollowContainers
  <2> QED
    BY <1>2, <1>3, <1>5, <1>6, <1>7, <2>1 DEF DemoInv, RecordsFollowContainers
<1>13. PurgesOfRemoved'
  BY <1>1, <1>3, PurgesStay DEF DemoInv
<1>14. \A m \in Names' : /\ IdOf(m)' \in DOMAIN stateLogs' <=> IdOf(m) \in DOMAIN stateLogs
                         /\ IdOf(m) \in DOMAIN stateLogs => stateLogs'[IdOf(m)] = stateLogs[IdOf(m)]
                         /\ stateStored'[m] = stateStored[m]
  BY <1>3, <1>4, <1>6, <1>7 DEF DemoInv, RecordsFollowContainers
<1>15. LogsEndTheStored'
  <2>1. \A m \in Names' : IdOf(m)' \in DOMAIN stateLogs' =>
                             Ends(stateLogs'[IdOf(m)'], stateStored'[m].logs)
    BY <1>3, <1>4, <1>14, Zenon DEF DemoInv, LogsEndTheStored
  <2> QED
    BY <2>1 DEF LogsEndTheStored, Ends
<1>16. SharedIsSeed'
  BY <1>2, <1>3, <1>4, <1>14 DEF DemoInv, SharedIsSeed
<1> QED
  BY <1>11, <1>12, <1>13, <1>15, <1>16 DEF DemoInv

\* The record under the new id, and none under the old.
LEMMA MovedIs ==
    ASSUME NEW f, NEW old, NEW new
    PROVE  /\ DOMAIN Moved(f, old, new) \subseteq (DOMAIN f \cup {new})
           /\ old # new => old \notin DOMAIN Moved(f, old, new)
BY DEF Moved, Deleted, Filed

LEMMA RecreateSound ==
    ASSUME DemoInv, UpdateContainerEnvVariables, stored' = stored
    PROVE  DemoInv'
<1>0. PICK c \in Asleep({"env"}) : \E n \in Found(c.id), s \in IdEnds :
         /\ stateContainers' = [stateContainers EXCEPT ![n] = [suffix |-> s, state |-> "running"]]
         /\ stateEnv' = Deleted(Filed(stateEnv, <<n, s>>, "saved"), c.id)
         /\ stateLogs' = Deleted(Filed(stateLogs, <<n, s>>,
                                   IF c.id \in DOMAIN stateLogs THEN stateLogs[c.id] ELSE <<>>), c.id)
         /\ stateResources' = Moved(stateResources, c.id, <<n, s>>)
         /\ stateStats' = (stateStats \ {c.id}) \cup {<<n, s>>}
         /\ sameArray' = IF <<n, s>> = c.id THEN sameArray \ {n} ELSE sameArray
         /\ UNCHANGED <<stateStored, liveTick>> /\ asleep' = asleep \ {c}
  BY DEF UpdateContainerEnvVariables, Wake
<1>1. PICK n \in Found(c.id), s \in IdEnds :
         /\ stateContainers' = [stateContainers EXCEPT ![n] = [suffix |-> s, state |-> "running"]]
         /\ stateEnv' = Deleted(Filed(stateEnv, <<n, s>>, "saved"), c.id)
         /\ stateLogs' = Deleted(Filed(stateLogs, <<n, s>>,
                                   IF c.id \in DOMAIN stateLogs THEN stateLogs[c.id] ELSE <<>>), c.id)
         /\ stateResources' = Moved(stateResources, c.id, <<n, s>>)
         /\ stateStats' = (stateStats \ {c.id}) \cup {<<n, s>>}
         /\ sameArray' = IF <<n, s>> = c.id THEN sameArray \ {n} ELSE sameArray
         /\ UNCHANGED <<stateStored, liveTick>> /\ asleep' = asleep \ {c}
  BY <1>0
<1> DEFINE old == IdOf(n)
           had == IF old \in DOMAIN stateLogs THEN stateLogs[old] ELSE <<>>
<1>2. n \in Names /\ c.id = old
  BY <1>1, FoundIs
<1>3. PICK new : new = <<n, s>>
  OBVIOUS
<1>4. Names' = Names /\ \A m \in Names \ {n} : stateContainers'[m] = stateContainers[m]
  BY <1>1, <1>2 DEF Names
<1>5. stateContainers'[n] = [suffix |-> s, state |-> "running"]
  BY <1>1, <1>2 DEF Names
<1>6. IdOf(n)' = new /\ \A m \in Names \ {n} : IdOf(m)' = IdOf(m) /\ IdOf(m) # new /\ IdOf(m) # old
  BY <1>3, <1>4, <1>5, IdsDiffer DEF IdOf
<1>7. LiveIds' = (LiveIds \ {old}) \cup {new}
  <2>1. LiveIds' = {IdOf(m)' : m \in Names}
    BY <1>4 DEF LiveIds
  <2>2. \A id \in LiveIds' : id \in (LiveIds \ {old}) \cup {new}
    BY <1>6, <2>1 DEF LiveIds
  <2>3. new \in LiveIds'
    BY <1>2, <1>6, <2>1
  <2>4. \A id \in LiveIds \ {old} : id \in LiveIds'
    BY <1>6, <2>1 DEF LiveIds
  <2> QED
    BY <2>2, <2>3, <2>4
<1>8. PICK kept : kept = had
  OBVIOUS
<1>9. kept \in Seq(Nat)
  BY <1>8 DEF DemoInv, DemoTyped
<1>10. stateLogs' = Deleted(Filed(stateLogs, new, kept), old)
  BY <1>1, <1>2, <1>3, <1>8
<1>11. /\ DOMAIN stateLogs' = (DOMAIN stateLogs \cup {new}) \ {old}
       /\ new # old => stateLogs'[new] = kept
       /\ \A id \in DOMAIN stateLogs \ {new, old} : stateLogs'[id] = stateLogs[id]
  <2>1. PICK g : g = Filed(stateLogs, new, kept)
    OBVIOUS
  <2>2. stateLogs' = Deleted(g, old)
    BY <1>10, <2>1
  <2> QED
    BY <2>1, <2>2 DEF Deleted, Filed
<1>12. DOMAIN stateEnv' = (DOMAIN stateEnv \cup {new}) \ {old}
  <2>1. PICK g : g = Filed(stateEnv, new, "saved")
    OBVIOUS
  <2>2. stateEnv' = Deleted(g, old)
    BY <1>1, <1>2, <1>3, <2>1
  <2> QED
    BY <2>1, <2>2 DEF Deleted, Filed
<1>13. /\ DOMAIN stateResources' \subseteq DOMAIN stateResources \cup {new}
       /\ old # new => old \notin DOMAIN stateResources'
  BY <1>1, <1>2, <1>3, MovedIs
<1>14. stateStats' = (stateStats \ {old}) \cup {new}
  BY <1>1, <1>2, <1>3
<1>15. UNCHANGED <<stateStored, liveTick>> /\ asleep' \subseteq asleep
  BY <1>1
<1>16. sameArray' = IF new = old THEN sameArray \ {n} ELSE sameArray
  BY <1>1, <1>2, <1>3
<1> HIDE DEF old, had
<1>17. DemoTyped'
  <2>1. \A m \in Names' : stateContainers'[m] \in [suffix : IdSuffixes, state : {"running", "exited"}]
    <3>1. stateContainers'[n] \in [suffix : IdSuffixes, state : {"running", "exited"}]
      BY <1>5 DEF IdSuffixes
    <3> QED
      BY <1>4, <3>1 DEF DemoInv, DemoTyped
  <2>2. \A id \in DOMAIN stateLogs' : stateLogs'[id] \in Seq(Nat)
    BY <1>9, <1>11, Zenon DEF DemoInv, DemoTyped
  <2> QED
    BY <1>15, <2>1, <2>2 DEF DemoInv, DemoTyped, StoredRecord, IdSuffixes
<1>18. RecordsFollowContainers'
  BY <1>4, <1>7, <1>11, <1>12, <1>13, <1>14, <1>15 DEF DemoInv, RecordsFollowContainers
<1>19. PurgesOfRemoved'
  BY <1>4, <1>15, PurgesStay DEF DemoInv
<1>20. \A m \in Names \ {n} :
          /\ IdOf(m)' \in DOMAIN stateLogs' <=> IdOf(m) \in DOMAIN stateLogs
          /\ IdOf(m) \in DOMAIN stateLogs => stateLogs'[IdOf(m)'] = stateLogs[IdOf(m)]
  BY <1>6, <1>11
<1>21. LogsEndTheStored'
  <2>1. ASSUME new # old PROVE Ends(kept, stateStored[n].logs)
    <3>1. CASE old \in DOMAIN stateLogs
      BY <1>2, <1>8, <3>1, Zenon DEF DemoInv, LogsEndTheStored, old, had
    <3>2. CASE old \notin DOMAIN stateLogs
      <4>1. kept = <<>>
        BY <1>8, <3>2 DEF had
      <4>2. stateStored[n].logs \in Seq(Nat)
        BY <1>2 DEF DemoInv, DemoTyped, RecordsFollowContainers, StoredRecord
      <4> QED
        BY <4>1, <4>2, DemoAssumption DEF Ends
    <3> QED
      BY <3>1, <3>2
  <2>2. ASSUME IdOf(n)' \in DOMAIN stateLogs'
        PROVE  Ends(stateLogs'[IdOf(n)'], stateStored'[n].logs)
    BY <1>6, <1>11, <1>15, <2>1, <2>2
  <2>3. ASSUME NEW m \in Names \ {n}, IdOf(m)' \in DOMAIN stateLogs'
        PROVE  Ends(stateLogs'[IdOf(m)'], stateStored'[m].logs)
    BY <1>15, <1>20, <2>3, Zenon DEF DemoInv, LogsEndTheStored
  <2>4. \A m \in Names' : IdOf(m)' \in DOMAIN stateLogs' =>
                             Ends(stateLogs'[IdOf(m)'], stateStored'[m].logs)
    BY <1>4, <2>2, <2>3, Zenon
  <2> QED
    BY <2>4 DEF LogsEndTheStored, Ends
<1>22. SharedIsSeed'
  <2>1. ASSUME n \in sameArray' PROVE IdOf(n)' \in DOMAIN stateLogs' /\ Len(stateLogs'[IdOf(n)']) = 1
    <3>1. new # old /\ n \in sameArray
      BY <1>16, <2>1
    <3>2. old \in DOMAIN stateLogs /\ Len(stateLogs[old]) = 1
      BY <1>2, <3>1 DEF DemoInv, SharedIsSeed, old
    <3> QED
      BY <1>6, <1>8, <1>11, <3>1, <3>2 DEF had
  <2>2. ASSUME NEW m \in Names \ {n}, m \in sameArray'
        PROVE  IdOf(m)' \in DOMAIN stateLogs' /\ Len(stateLogs'[IdOf(m)']) = 1
    <3>1. IdOf(m) \in DOMAIN stateLogs /\ Len(stateLogs[IdOf(m)]) = 1
      BY <1>16, <2>2 DEF DemoInv, SharedIsSeed
    <3> QED
      BY <1>20, <3>1
  <2>3. \A m \in Names' \cap sameArray' :
           IdOf(m)' \in DOMAIN stateLogs' /\ Len(stateLogs'[IdOf(m)']) = 1
    BY <1>4, <2>1, <2>2, Zenon
  <2> QED
    BY <2>3 DEF SharedIsSeed
<1> QED
  BY <1>17, <1>18, <1>19, <1>21, <1>22 DEF DemoInv

LEMMA LimitsSound ==
    ASSUME DemoInv, UpdateContainerResources, stored' = stored
    PROVE  DemoInv'
<1>1. PICK c \in Asleep({"limits"}) :
         /\ Found(c.id) # {}
         /\ stateResources' = Filed(stateResources, c.id, "saved")
         /\ UNCHANGED <<stateContainers, stateLogs, stateEnv, stateStats, stateStored, sameArray, liveTick>>
         /\ asleep' \subseteq asleep
  BY DEF UpdateContainerResources, Wake
<1>2. c.id \in LiveIds
  BY <1>1, FoundIs DEF LiveIds
<1>3. DOMAIN stateResources' \subseteq DOMAIN stateResources \cup {c.id}
  BY <1>1 DEF Filed
<1>4. Names' = Names /\ LiveIds' = LiveIds /\ \A m : IdOf(m)' = IdOf(m)
  BY <1>1 DEF Names, LiveIds, IdOf
<1>5. RecordsFollowContainers'
  BY <1>1, <1>2, <1>3, <1>4 DEF DemoInv, RecordsFollowContainers
<1>6. PurgesOfRemoved'
  BY <1>1, <1>4, PurgesStay DEF DemoInv
<1>7. DemoTyped' /\ LogsEndTheStored' /\ SharedIsSeed'
  BY <1>1, <1>4 DEF DemoInv, DemoTyped, LogsEndTheStored, SharedIsSeed, StoredRecord, IdSuffixes, Ends
<1> QED
  BY <1>5, <1>6, <1>7 DEF DemoInv

LEMMA PurgeSound ==
    ASSUME DemoInv, DeleteHistoryContainer, stored' = stored
    PROVE  DemoInv'
<1>1. PICK c \in Asleep({"purge"}) :
         /\ stateStored' =
              IF c.of \notin DOMAIN stateStored THEN stateStored
              ELSE IF stateStored[c.of].removed THEN Deleted(stateStored, c.of)
              ELSE [stateStored EXCEPT ![c.of].logs = <<>>]
         /\ sameArray' = sameArray \ {c.of}
         /\ UNCHANGED <<stateContainers, stateLogs, stateEnv, stateResources, stateStats, liveTick>>
         /\ asleep' \subseteq asleep
  BY DEF DeleteHistoryContainer, Wake
<1>2. c.of \notin Names
  BY <1>1 DEF DemoInv, PurgesOfRemoved, Asleep
<1>3. stateStored' = stateStored \/ stateStored' = Deleted(stateStored, c.of)
  BY <1>1, <1>2 DEF DemoInv, RecordsFollowContainers
<1>4. /\ DOMAIN stateStored \ {c.of} \subseteq DOMAIN stateStored'
      /\ DOMAIN stateStored' \subseteq DOMAIN stateStored
      /\ \A m \in DOMAIN stateStored' : stateStored'[m] = stateStored[m]
  BY <1>3 DEF Deleted
<1>5. Names' = Names /\ LiveIds' = LiveIds /\ \A m : IdOf(m)' = IdOf(m)
  BY <1>1 DEF Names, LiveIds, IdOf
<1>6. Names \subseteq DOMAIN stateStored'
  BY <1>2, <1>4 DEF DemoInv, RecordsFollowContainers
<1>7. RecordsFollowContainers'
  BY <1>1, <1>4, <1>5, <1>6 DEF DemoInv, RecordsFollowContainers
<1>8. PurgesOfRemoved'
  BY <1>1, <1>5, PurgesStay DEF DemoInv
<1>9. DemoTyped'
  BY <1>1, <1>4, <1>5 DEF DemoInv, DemoTyped, StoredRecord, IdSuffixes
<1>10. LogsEndTheStored'
  <2>1. \A m \in Names : IdOf(m) \in DOMAIN stateLogs => Ends(stateLogs[IdOf(m)], stateStored'[m].logs)
    BY <1>4, <1>6, Zenon DEF DemoInv, LogsEndTheStored
  <2>2. stateLogs' = stateLogs
    BY <1>1
  <2>3. \A m \in Names' : IdOf(m)' \in DOMAIN stateLogs' =>
                             Ends(stateLogs'[IdOf(m)'], stateStored'[m].logs)
    BY <1>5, <2>1, <2>2
  <2> QED
    BY <2>3 DEF LogsEndTheStored, Ends
<1>11. SharedIsSeed'
  BY <1>1, <1>5 DEF DemoInv, SharedIsSeed
<1> QED
  BY <1>7, <1>8, <1>9, <1>10, <1>11 DEF DemoInv

-----------------------------------------------------------------------------
(* A line is appended. *)
LEMMA NewestIs ==
    ASSUME NEW s \in Seq(Nat)
    PROVE  /\ Newest(s) \in Seq(Nat)
           /\ Len(Newest(s)) = IF Len(s) > LogCap THEN LogCap ELSE Len(s)
           /\ \A i \in 1 .. Len(Newest(s)) : Newest(s)[i] = s[Len(s) - Len(Newest(s)) + i]
<1>1. PICK n \in Nat : n = Len(s)
  BY LenProperties
<1>2. PICK cap \in Nat \ {0} : cap = LogCap
  BY DemoAssumption
<1>3. CASE n > cap
  <2>1. Newest(s) = SubSeq(s, n - cap + 1, n)
    BY <1>1, <1>2, <1>3 DEF Newest
  <2>2. n - cap + 1 \in 1 .. n + 1 /\ n \in 0 .. n
    BY <1>2, <1>3
  <2>3. /\ SubSeq(s, n - cap + 1, n) \in Seq(Nat) /\ Len(SubSeq(s, n - cap + 1, n)) = cap
        /\ \A i \in 1 .. cap : SubSeq(s, n - cap + 1, n)[i] = s[n - cap + i]
    BY <1>1, <1>2, <1>3, <2>2, SubSeqProperties
  <2> QED
    BY <1>1, <1>2, <1>3, <2>1, <2>3
<1>4. CASE ~(n > cap)
  <2>1. Newest(s) = s
    BY <1>1, <1>2, <1>4 DEF Newest
  <2> QED
    BY <1>1, <1>2, <1>4, <2>1
<1> QED
  BY <1>3, <1>4

LEMMA NewestParts ==
    ASSUME NEW s \in Seq(Nat)
    PROVE  \E x \in Seq(Nat), p \in Nat :
              /\ x = Newest(s) /\ p = Len(x)
              /\ p = (IF Len(s) > LogCap THEN LogCap ELSE Len(s))
              /\ \A i \in 1 .. p : x[i] = s[Len(s) - p + i]
<1>1. PICK x \in Seq(Nat) : x = Newest(s)
  BY NewestIs
<1>2. PICK p \in Nat : p = Len(x)
  BY LenProperties
<1> QED
  BY <1>1, <1>2, NewestIs

\* Both get the line at their end, and forget their oldest.
LEMMA AppendKeepsEnd ==
    ASSUME NEW l \in Seq(Nat), NEW s \in Seq(Nat), NEW t \in Nat, Ends(l, s)
    PROVE  Ends(Newest(Append(l, t)), Newest(s \o <<t>>))
<1>1. PICK n \in Nat, k \in Nat, cap \in Nat \ {0} : n = Len(l) /\ k = Len(s) /\ cap = LogCap
  BY LenProperties, DemoAssumption
<1>2. n <= cap /\ n <= k + 1 /\ \A i \in 2 .. n : l[i] = s[k - n + i]
  BY <1>1 DEF Ends
<1>3. PICK a \in Seq(Nat) : a = Append(l, t)
  BY AppendProperties
<1>4. Len(a) = n + 1 /\ (\A i \in 1 .. n : a[i] = l[i]) /\ a[n + 1] = t
  <2>1. /\ Len(Append(l, t)) = Len(l) + 1 /\ Append(l, t)[Len(l) + 1] = t
        /\ \A i \in 1 .. Len(l) : Append(l, t)[i] = l[i]
    BY AppendProperties
  <2> QED
    BY <1>1, <1>3, <2>1
<1>5. PICK one \in Seq(Nat) : one = <<t>> /\ Len(one) = 1 /\ one[1] = t
  <2>1. <<t>> \in Seq(Nat) /\ Len(<<t>>) = 1 /\ <<t>>[1] = t
    BY Singles
  <2> QED
    BY <2>1, Zenon
<1>6. PICK b \in Seq(Nat) : b = s \o one
  BY ConcatProperties
<1>b. Len(b) = k + 1 /\ (\A i \in 1 .. k : b[i] = s[i]) /\ b[k + 1] = t
  BY <1>1, <1>5, <1>6, ConcatProperties
<1>7. PICK x \in Seq(Nat), p \in Nat :
         /\ x = Newest(a) /\ p = Len(x)
         /\ p = (IF Len(a) > LogCap THEN LogCap ELSE Len(a))
         /\ \A i \in 1 .. p : x[i] = a[Len(a) - p + i]
  BY NewestParts
<1>x. p = (IF n + 1 > cap THEN cap ELSE n + 1)
  BY <1>1, <1>4, <1>7
<1>8. PICK y \in Seq(Nat), q \in Nat :
         /\ y = Newest(b) /\ q = Len(y)
         /\ q = (IF Len(b) > LogCap THEN LogCap ELSE Len(b))
         /\ \A i \in 1 .. q : y[i] = b[Len(b) - q + i]
  BY NewestParts
<1>y. q = (IF k + 1 > cap THEN cap ELSE k + 1)
  BY <1>1, <1>b, <1>8
<1>9. p <= cap /\ p <= q + 1 /\ p <= n + 1
  BY <1>2, <1>x, <1>y
<1>10. ASSUME NEW i \in 2 .. p PROVE x[i] = y[q - p + i]
  <2>0. i \in Int /\ i >= 2
    OBVIOUS
  <2>1. x[i] = a[n + 1 - p + i]
    BY <1>4, <1>7, <1>10
  <2>2. q - p + i \in 1 .. q /\ y[q - p + i] = b[k + 1 - p + i]
    <3>1. q - p + i \in 1 .. q
      BY <1>9
    <3>2. y[q - p + i] = b[k + 1 - q + (q - p + i)]
      <4>1. PICK j \in 1 .. q : j = q - p + i
        BY <3>1
      <4>2. y[j] = b[Len(b) - q + j]
        BY <1>8
      <4> QED
        BY <1>b, <4>1, <4>2
    <3>3. k + 1 - q + (q - p + i) = k + 1 - p + i
      OBVIOUS
    <3> QED
      BY <3>1, <3>2, <3>3
  <2>3. CASE i = p
    <3>1. x[i] = t /\ n + 1 - p + i = n + 1 /\ k + 1 - p + i = k + 1
      BY <1>4, <2>1, <2>3
    <3> QED
      BY <1>b, <2>2, <3>1
  <2>4. CASE i < p
    <3>1. PICK j \in Int : j = n + 1 - p + i
      OBVIOUS
    <3>2. j \in 2 .. n /\ k - n + j = k + 1 - p + i /\ k - n + j \in 1 .. k
      <4>1. i \in Int /\ i >= 2 /\ i < p
        BY <2>0, <2>4
      <4>2. p <= n + 1 /\ n <= k + 1
        BY <1>2, <1>9
      <4> QED
        BY <3>1, <4>1, <4>2
    <3>3. x[i] = l[j] /\ l[j] = s[k - n + j] /\ b[k - n + j] = s[k - n + j]
      BY <1>2, <1>4, <1>b, <2>1, <3>1, <3>2
    <3> QED
      BY <2>2, <3>2, <3>3
  <2> QED
    BY <2>3, <2>4
<1>11. Ends(x, y)
  BY <1>1, <1>7, <1>8, <1>9, <1>10 DEF Ends
<1> QED
  BY <1>3, <1>5, <1>6, <1>7, <1>8, <1>11

\* The shared array gets it twice; of two lines the last is the one that counts.
LEMMA AppendTwice ==
    ASSUME NEW l \in Seq(Nat), NEW s \in Seq(Nat), NEW t \in Nat, Len(l) = 1
    PROVE  Ends(Newest(Append(l, t)), Newest(s \o <<t, t>>))
<1>1. PICK k \in Nat, cap \in Nat \ {0} : k = Len(s) /\ cap = LogCap
  BY LenProperties, DemoAssumption
<1>2. PICK a \in Seq(Nat) : a = Append(l, t)
  BY AppendProperties
<1>3. Len(a) = 2 /\ a[2] = t
  <2>1. Len(Append(l, t)) = Len(l) + 1 /\ Append(l, t)[Len(l) + 1] = t
    BY ZenonT(30), AppendProperties
  <2> QED
    BY <1>2, <2>1
<1>4. <<t, t>> \in Seq(Nat) /\ Len(<<t, t>>) = 2 /\ <<t, t>>[1] = t /\ <<t, t>>[2] = t
  OBVIOUS
<1>5. PICK two \in Seq(Nat) : two = <<t, t>>
  BY <1>4
<1>6. PICK b \in Seq(Nat) : b = s \o two
  BY ConcatProperties
<1>7. Len(b) = k + 2 /\ b[k + 2] = t
  BY <1>1, <1>4, <1>5, <1>6, ConcatProperties
<1>8. PICK x \in Seq(Nat), p \in Nat :
         /\ x = Newest(a) /\ p = Len(x)
         /\ p = (IF Len(a) > LogCap THEN LogCap ELSE Len(a))
         /\ \A i \in 1 .. p : x[i] = a[Len(a) - p + i]
  BY NewestParts
<1>x. p = (IF 2 > cap THEN cap ELSE 2)
  BY <1>1, <1>3, <1>8
<1>9. PICK y \in Seq(Nat), q \in Nat :
         /\ y = Newest(b) /\ q = Len(y)
         /\ q = (IF Len(b) > LogCap THEN LogCap ELSE Len(b))
         /\ \A i \in 1 .. q : y[i] = b[Len(b) - q + i]
  BY NewestParts
<1>y. q = (IF k + 2 > cap THEN cap ELSE k + 2)
  BY <1>1, <1>7, <1>9
<1>10. p <= cap /\ p <= q + 1 /\ p <= 2 /\ q >= 1
  BY <1>x, <1>y
<1>11. ASSUME NEW i \in 2 .. p PROVE x[i] = y[q - p + i]
  <2>1. i = 2 /\ p = 2
    BY <1>10, <1>11
  <2>2. x[2] = t
    BY <1>3, <1>8, <2>1
  <2>3. y[q] = t
    <3>1. q \in 1 .. q /\ k + 2 - q + q = k + 2
      BY <1>10
    <3>2. y[q] = b[k + 2 - q + q]
      <4>1. PICK j \in 1 .. q : j = q
        BY <3>1
      <4>2. y[j] = b[Len(b) - q + j]
        BY <1>9
      <4> QED
        BY <1>7, <4>1, <4>2
    <3> QED
      BY <1>7, <3>1, <3>2
  <2> QED
    BY <2>1, <2>2, <2>3
<1>12. Ends(x, y)
  BY <1>1, <1>8, <1>9, <1>10, <1>11 DEF Ends
<1> QED
  BY <1>2, <1>5, <1>6, <1>8, <1>9, <1>12

LEMMA StreamSound ==
    ASSUME DemoInv, StreamContainerLogs, stored' = stored
    PROVE  DemoInv'
<1> DEFINE had(n) == IF IdOf(n) \in DOMAIN stateLogs THEN stateLogs[IdOf(n)] ELSE <<>>
           lines(n, t) == IF n \in sameArray THEN <<t, t>> ELSE <<t>>
<1>1. PICK n \in Names :
         /\ liveTick' = liveTick + 1
         /\ AppendLog(n, liveTick')
         /\ UNCHANGED <<stateContainers, stateEnv, stateResources, stateStats, asleep>>
  BY DEF StreamContainerLogs
<1>2. PICK t : t = liveTick'
  OBVIOUS
<1>3. t \in Nat /\ liveTick' \in Nat
  BY <1>1, <1>2 DEF DemoInv, DemoTyped
<1>4. PICK id : id = IdOf(n)
  OBVIOUS
<1>5. PICK old : old = had(n)
  OBVIOUS
<1>6. PICK twice : twice = lines(n, t)
  OBVIOUS
<1>7. n \in DOMAIN stateStored /\ stateStored[n] \in StoredRecord
  BY DEF DemoInv, DemoTyped, RecordsFollowContainers
<1>8. PICK s \in Seq(Nat) : s = stateStored[n].logs
  BY <1>7 DEF StoredRecord
<1>9. /\ stateLogs' = Filed(stateLogs, id, Newest(Append(old, t)))
      /\ stateStored' = [m \in DOMAIN stateStored |->
             IF m \in StoredRecordFor(n)
             THEN [stateStored[m] EXCEPT !.logs = Newest(@ \o twice)] ELSE stateStored[m]]
      /\ sameArray' = sameArray \ {n}
  BY <1>1, <1>2, <1>4, <1>5, <1>6 DEF AppendLog
<1>10. old \in Seq(Nat)
  BY <1>5 DEF DemoInv, DemoTyped
<1>11. twice \in Seq(Nat)
  <2>1. <<t>> \in Seq(Nat) /\ <<t, t>> \in Seq(Nat)
    BY <1>3
  <2> QED
    BY <1>6, <2>1, Zenon
<1>12. PICK new : new = Newest(Append(old, t))
  OBVIOUS
<1>13. PICK end : end = Newest(s \o twice)
  OBVIOUS
<1>14. new \in Seq(Nat)
  <2>1. Append(old, t) \in Seq(Nat)
    BY <1>3, <1>10, AppendProperties
  <2> QED
    BY <1>12, <2>1, NewestIs
<1>15. end \in Seq(Nat)
  <2>1. s \o twice \in Seq(Nat)
    BY <1>8, <1>11, ConcatProperties
  <2> QED
    BY <1>13, <2>1, NewestIs
<1> HIDE DEF had, lines
<1>16. /\ DOMAIN stateLogs' = DOMAIN stateLogs \cup {id} /\ stateLogs'[id] = new
       /\ \A x \in DOMAIN stateLogs \ {id} : stateLogs'[x] = stateLogs[x]
  <2>1. stateLogs' = Filed(stateLogs, id, new)
    BY <1>9, <1>12
  <2> QED
    BY <2>1 DEF Filed
<1>17. DOMAIN stateStored' = DOMAIN stateStored
       /\ \A m \in DOMAIN stateStored \ {n} : stateStored'[m] = stateStored[m]
  BY <1>9 DEF StoredRecordFor
<1>18. /\ stateStored'[n] \in StoredRecord /\ stateStored'[n].logs = end
       /\ stateStored'[n].removed = stateStored[n].removed
  <2>1. PICK r \in StoredRecord : r = stateStored[n]
    BY <1>7
  <2>2. stateStored'[n] = [r EXCEPT !.logs = Newest(r.logs \o twice)]
    BY <1>7, <1>9, <2>1 DEF StoredRecordFor
  <2>3. stateStored'[n] = [r EXCEPT !.logs = end]
    BY <1>8, <1>13, <2>1, <2>2
  <2> QED
    BY <1>15, <2>1, <2>3 DEF StoredRecord
<1>19. Names' = Names /\ LiveIds' = LiveIds /\ \A m : IdOf(m)' = IdOf(m)
  BY <1>1 DEF Names, LiveIds, IdOf
<1>20. Ends(new, end)
  <2>1. CASE n \in sameArray
    <3>1. Len(old) = 1
      BY <1>4, <1>5, <2>1 DEF DemoInv, SharedIsSeed, had
    <3>2. twice = <<t, t>>
      BY <1>6, <2>1 DEF lines
    <3> QED
      BY <1>3, <1>8, <1>10, <1>12, <1>13, <3>1, <3>2, AppendTwice, Zenon
  <2>2. CASE n \notin sameArray
    <3>1. twice = <<t>>
      BY <1>6, <2>2 DEF lines
    <3>2. Ends(old, s)
      <4>1. CASE id \in DOMAIN stateLogs
        BY <1>4, <1>5, <1>8, <4>1, Zenon DEF DemoInv, LogsEndTheStored, had
      <4>2. CASE id \notin DOMAIN stateLogs
        <5>1. old = <<>>
          BY <1>4, <1>5, <4>2 DEF had
        <5> QED
          BY <1>8, <5>1, DemoAssumption DEF Ends
      <4> QED
        BY <4>1, <4>2
    <3> QED
      BY <1>3, <1>8, <1>10, <1>12, <1>13, <3>1, <3>2, AppendKeepsEnd, Zenon
  <2> QED
    BY <2>1, <2>2
<1>21. \A m \in Names \ {n} : IdOf(m) # id
  BY <1>4, IdsDiffer
<1>22. DemoTyped'
  <2>1. \A x \in DOMAIN stateLogs' : stateLogs'[x] \in Seq(Nat)
    BY <1>14, <1>16, Zenon DEF DemoInv, DemoTyped
  <2>2. \A m \in DOMAIN stateStored' : stateStored'[m] \in StoredRecord
    BY <1>17, <1>18, Zenon DEF DemoInv, DemoTyped
  <2>3. \A m \in Names' : stateContainers'[m] \in [suffix : IdSuffixes, state : {"running", "exited"}]
    BY <1>1, <1>19 DEF DemoInv, DemoTyped
  <2> QED
    BY <1>3, <2>1, <2>2, <2>3 DEF DemoTyped, StoredRecord, IdSuffixes
<1>23. RecordsFollowContainers'
  <2>1. id \in LiveIds
    BY <1>4 DEF LiveIds
  <2>2. \A m \in DOMAIN stateStored : stateStored'[m].removed = stateStored[m].removed
    BY <1>17, <1>18, Zenon
  <2> QED
    BY <1>1, <1>16, <1>17, <1>19, <2>1, <2>2 DEF DemoInv, RecordsFollowContainers
<1>24. PurgesOfRemoved'
  BY <1>1, <1>19, PurgesStay DEF DemoInv
<1>25. Names \subseteq DOMAIN stateStored
  BY DEF DemoInv, RecordsFollowContainers
<1>26. \A m \in Names \ {n} : /\ IdOf(m) \in DOMAIN stateLogs' <=> IdOf(m) \in DOMAIN stateLogs
                              /\ IdOf(m) \in DOMAIN stateLogs => stateLogs'[IdOf(m)] = stateLogs[IdOf(m)]
                              /\ stateStored'[m] = stateStored[m]
  BY <1>16, <1>17, <1>21, <1>25
<1>27. LogsEndTheStored'
  <2>1. ASSUME NEW m \in Names, IdOf(m) \in DOMAIN stateLogs'
        PROVE  Ends(stateLogs'[IdOf(m)], stateStored'[m].logs)
    <3>1. CASE m = n
      BY <1>4, <1>16, <1>18, <1>20, <3>1, Zenon
    <3>2. CASE m # n
      BY <1>26, <2>1, <3>2, Zenon DEF DemoInv, LogsEndTheStored
    <3> QED
      BY <3>1, <3>2
  <2>2. \A m \in Names' : IdOf(m)' \in DOMAIN stateLogs' =>
                             Ends(stateLogs'[IdOf(m)'], stateStored'[m].logs)
    BY <1>19, <2>1
  <2> QED
    BY <2>2 DEF LogsEndTheStored, Ends
<1>28. SharedIsSeed'
  <2>1. ASSUME NEW m \in Names, m \in sameArray'
        PROVE  IdOf(m) \in DOMAIN stateLogs' /\ Len(stateLogs'[IdOf(m)]) = 1
    <3>1. m # n /\ m \in sameArray
      BY <1>9, <2>1
    <3>2. IdOf(m) \in DOMAIN stateLogs /\ Len(stateLogs[IdOf(m)]) = 1
      BY <3>1 DEF DemoInv, SharedIsSeed
    <3> QED
      BY <1>26, <3>1, <3>2
  <2>2. \A m \in Names' \cap sameArray' :
           IdOf(m)' \in DOMAIN stateLogs' /\ Len(stateLogs'[IdOf(m)']) = 1
    BY <1>19, <2>1
  <2> QED
    BY <2>2 DEF SharedIsSeed
<1> QED
  BY <1>22, <1>23, <1>24, <1>27, <1>28 DEF DemoInv

-----------------------------------------------------------------------------
LEMMA ChangeSound ==
    ASSUME DemoInv, DemoChange
    PROVE  DemoInv'
<1>1. stored' = stored /\ DemoStoreNext
  BY DEF DemoChange
<1>2. ASSUME NEW set, NEW s \in {"running", "exited"}, Set(set, s), asleep' \subseteq asleep
      PROVE  DemoInv'
  BY <1>1, <1>2, StatesSound
<1>3. ASSUME RequireContainerFails PROVE DemoInv'
  <2>1. UNCHANGED stateVars /\ asleep' \subseteq asleep
    BY <1>3 DEF RequireContainerFails, Wake
  <2>2. Names' = Names
    BY <2>1 DEF stateVars, Names
  <2>3. PurgesOfRemoved'
    BY <1>1, <2>1, <2>2, PurgesStay DEF DemoInv
  <2> QED
    BY <2>1, <2>3, RestingStore
<1>4. ASSUME StartContainer PROVE DemoInv'
  BY <1>2, <1>4 DEF StartContainer, Wake
<1>5. ASSUME StopContainer PROVE DemoInv'
  BY <1>2, <1>5 DEF StopContainer, Wake
<1>6. ASSUME RestartContainer PROVE DemoInv'
  BY <1>2, <1>6 DEF RestartContainer, Wake
<1>7. ASSUME PerformComposeAction PROVE DemoInv'
  <2>1. PICK c \in Asleep({"compose"}) :
           Set(SeedGroup \cap Names, IF c.stops THEN "exited" ELSE "running") /\ asleep' \subseteq asleep
    BY <1>7 DEF PerformComposeAction, Wake
  <2>2. PICK s : s = IF c.stops THEN "exited" ELSE "running"
    OBVIOUS
  <2>3. s \in {"running", "exited"}
    BY <2>2
  <2> QED
    BY <1>2, <2>1, <2>2, <2>3
<1> QED
  BY <1>1, <1>3, <1>4, <1>5, <1>6, <1>7, RemoveSound, RecreateSound, LimitsSound, PurgeSound, StreamSound
     DEF DemoStoreNext

LEMMA DemoStep == DemoInv /\ [DemoDashboardNext]_dashboardVars => DemoInv'
<1> SUFFICES ASSUME DemoInv, [DemoDashboardNext]_dashboardVars PROVE DemoInv'
  OBVIOUS
<1>1. CASE DemoGetContainers
  BY <1>1, RestOfDashboard DEF DemoGetContainers, dsVars
<1>2. CASE UNCHANGED dashboardVars
  BY <1>2, RestOfDashboard DEF dashboardVars, dsVars, clVars
<1>3. ASSUME DemoContainerEvents \/ DemoLiveContainers \/ DemoContainersQuery
                \/ DemoFilters \/ DemoPagination,
             UNCHANGED dsVars
      PROVE  DemoInv'
  <2>1. stored' = stored
    BY <1>3 DEF DemoContainerEvents, DemoLiveContainers, DemoContainersQuery, DemoFilters, DemoPagination,
       StreamOpens, Hide, Show, EventDelivered, InvalidateAfterDebounce, Poll, Refetch, DemoToolbar,
       DemoStateSummary, SetSearchTerm, SetHostFilter, SetDateRange, SetSortDirection, SetGroupBy,
       SetStateFilter, SetPageSize, HandlePageClick, ClampPage, ViewOnly
  <2> QED
    BY <1>3, <2>1, RestOfDashboard DEF dsVars
<1> QED
  BY <1>1, <1>2, <1>3, CallSound, HistorySound, ChangeSound DEF DemoDashboardNext

LEMMA DemoInvImplies == DemoInv => DemoStoreKept
<1> SUFFICES ASSUME DemoInv PROVE RemovedKeepsItsLines
  BY DEF DemoInv, DemoStoreKept
<1> SUFFICES ASSUME NEW n \in Names, NEW i \in 2 .. Len(ResolveLogs(n))
             PROVE  ResolveLogs(n)[i] \in ToSet(stateStored[n].logs)
  BY DEF RemovedKeepsItsLines
<1>1. n \in DOMAIN stateStored /\ stateStored[n] \in StoredRecord
  BY DEF DemoInv, DemoTyped, RecordsFollowContainers
<1>2. PICK s \in Seq(Nat) : s = stateStored[n].logs
  BY <1>1 DEF StoredRecord
<1>3. PICK k \in Nat : k = Len(s)
  BY LenProperties
<1>4. \A j \in 1 .. k : s[j] \in ToSet(s)
  BY <1>3 DEF ToSet
<1>5. PICK l : l = ResolveLogs(n)
  OBVIOUS
<1>6. CASE IdOf(n) \in DOMAIN stateLogs
  <2>1. l = stateLogs[IdOf(n)]
    BY <1>5, <1>6 DEF ResolveLogs
  <2>2. l \in Seq(Nat) /\ Ends(l, s)
    BY <1>2, <1>6, <2>1 DEF DemoInv, DemoTyped, LogsEndTheStored
  <2>3. PICK m \in Nat : m = Len(l)
    BY <2>2, LenProperties
  <2>4. m <= k + 1 /\ l[i] = s[k - m + i] /\ i \in 2 .. m
    BY <1>3, <1>5, <2>2, <2>3 DEF Ends
  <2>5. k - m + i \in 1 .. k
    BY <2>4
  <2> QED
    BY <1>2, <1>4, <1>5, <2>4, <2>5
<1>7. CASE IdOf(n) \notin DOMAIN stateLogs
  <2>1. l = s
    BY <1>1, <1>2, <1>5, <1>7 DEF ResolveLogs
  <2> QED
    BY <1>2, <1>3, <1>4, <1>5, <2>1
<1> QED
  BY <1>6, <1>7

\* The demo's records are of its containers, by id and by name, and a removal
\* leaves every line but the oldest: for any containers, recreations, draws of
\* ids and calls asleep at once (lib/logdeck-demo/store.ts, api/).
THEOREM DemoKeepsItsRecords == DemoDashboardSpec => []DemoStoreKept
BY InitDemo, DemoStep, DemoInvImplies, PTL DEF DemoDashboardSpec

-----------------------------------------------------------------------------
(* The stored pages of the log viewer *)

\* A list oldest first, and the lines in it.
Ascending(s) == \A i, j \in 1 .. Len(s) : i < j => s[i] < s[j]
In(s) == {s[i] : i \in 1 .. Len(s)}

\* A set of numbers has a least one: in place of induction, which takes the least
\* counterexample.
LEMMA LeastNumber ==
    ASSUME NEW T \in SUBSET Nat, T # {}
    PROVE  \E n \in T : \A m \in T : n <= m
<1>1. PICK x \in T : \A y \in T : ~(<<y, x>> \in OpToRel(<, Nat))
  BY NatLessThanWellFounded, WFMin, Zenon
<1>2. \A y \in T : x <= y
  <2> SUFFICES ASSUME NEW y \in T, y < x PROVE FALSE
    BY SMT
  <2>1. <<y, x>> \in OpToRel(<, Nat)
    BY SMT DEF OpToRel
  <2> QED
    BY <1>1, <2>1
<1> QED
  BY <1>2

\* A function defined step by step exists.
Stepwise(f, a, n, x, g) == \A i \in a .. n : f[i] = IF i = a THEN x ELSE g[i][f[i - 1]]

LEMMA StepsExist ==
    ASSUME NEW a \in Nat, NEW n \in Nat, NEW V, NEW x \in V, NEW g,
           \A i \in a + 1 .. n : \A v \in V : g[i][v] \in V
    PROVE  \E f \in [a .. n -> V] : Stepwise(f, a, n, x, g)
<1> DEFINE Goes(k, f) == /\ f \in [a .. k -> V]
                         /\ \A i \in a .. k : f[i] = IF i = a THEN x ELSE g[i][f[i - 1]]
           T == {k \in 0 .. n : ~\E f : Goes(k, f)}
<1>1. n \notin T
  <2> SUFFICES ASSUME n \in T PROVE FALSE
    OBVIOUS
  <2>1. T \in SUBSET Nat
    OBVIOUS
  <2> HIDE DEF T
  <2>2. PICK k \in T : \A m \in T : k <= m
    BY <2>1, LeastNumber
  <2>3. k \in 0 .. n /\ ~\E f : Goes(k, f)
    BY <2>2 DEF T
  <2>4. CASE k <= a
    <3> DEFINE f == [i \in a .. k |-> x]
    <3>1. Goes(k, f)
      BY <2>3, <2>4
    <3> QED
      BY <2>3, <3>1
  <2>5. CASE ~(k <= a)
    <3>1. k - 1 \in 0 .. n /\ k - 1 \notin T
      BY <2>2, <2>3, <2>5
    <3>2. PICK f : Goes(k - 1, f)
      BY <3>1 DEF T
    <3> DEFINE h == [i \in a .. k |-> IF i = k THEN g[k][f[k - 1]] ELSE f[i]]
    <3>3. k - 1 \in a .. k - 1 /\ f[k - 1] \in V /\ k \in a + 1 .. n
      BY <2>3, <2>5, <3>2
    <3>4. g[k][f[k - 1]] \in V
      BY <3>3
    <3>5. \A i \in a .. k : i = k \/ i \in a .. k - 1
      BY <2>3
    <3>6. h \in [a .. k -> V]
      BY <3>2, <3>4, <3>5
    <3>7. ASSUME NEW i \in a .. k PROVE h[i] = IF i = a THEN x ELSE g[i][h[i - 1]]
      <4>1. CASE i = k
        <5>1. i - 1 \in a .. k /\ i - 1 # k /\ i # a
          BY <2>3, <2>5, <4>1
        <5>2. h[i - 1] = f[k - 1] /\ h[i] = g[k][f[k - 1]]
          BY <4>1, <5>1
        <5> QED
          BY <4>1, <5>1, <5>2
      <4>2. CASE i # k
        <5>1. h[i] = f[i] /\ i \in a .. k - 1
          BY <3>5, <4>2
        <5>2. i # a => i - 1 \in a .. k /\ i - 1 # k
          BY <2>3, <5>1
        <5>3. i # a => h[i - 1] = f[i - 1]
          BY <5>2
        <5> HIDE DEF h
        <5> QED
          BY <3>2, <5>1, <5>3
      <4> QED
        BY <4>1, <4>2
    <3> HIDE DEF h
    <3>8. Goes(k, h)
      BY <3>6, <3>7
    <3> QED
      BY <2>3, <3>8
  <2> QED
    BY <2>4, <2>5
<1>2. PICK f : Goes(n, f)
  BY <1>1
<1> QED
  BY <1>2 DEF Stepwise

-----------------------------------------------------------------------------
\* N numbers of different ranks from 1 to N take every rank.
LEMMA EveryRankIsTaken ==
    ASSUME NEW S, NEW N \in Nat, IsFiniteSet(S), Cardinality(S) = N,
           NEW rank \in [S -> 1 .. N], \A r, t \in S : rank[r] = rank[t] => r = t,
           NEW k \in 1 .. N
    PROVE  \E r \in S : rank[r] = k
<1> SUFFICES ASSUME \A r \in S : rank[r] # k PROVE FALSE
  OBVIOUS
<1> DEFINE T == (1 .. N) \ {k}
<1>1. rank \in [S -> T]
  OBVIOUS
<1>2. IsFiniteSet(1 .. N) /\ Cardinality(1 .. N) = N
  <2>1. IsFiniteSet(1 .. N) /\ Cardinality(1 .. N) = IF 1 > N THEN 0 ELSE N - 1 + 1
    BY FS_Interval, 1 \in Int, N \in Int
  <2> QED
    BY <2>1
<1>3. IsFiniteSet(T) /\ Cardinality(T) = N - 1
  BY <1>2, FS_RemoveElement
<1>4. Cardinality(S) > Cardinality(T)
  BY <1>3
<1>5. \E x, y \in S : x # y /\ rank[x] = rank[y]
  <2> HIDE DEF T
  <2> QED
    BY <1>1, <1>3, <1>4, FS_PigeonHole
<1> QED
  BY <1>5

\* The rank of a line is how many are older, so InTime lists them all, oldest first.
LEMMA InTimeSound ==
    ASSUME NEW S \in SUBSET Nat, IsFiniteSet(S)
    PROVE  /\ InTime(S) \in Seq(Nat) /\ Len(InTime(S)) = Cardinality(S)
           /\ Cardinality(S) \in Nat
           /\ In(InTime(S)) = S
           /\ Ascending(InTime(S))
<1> DEFINE N == Cardinality(S)
           before(n) == {m \in S : m < n}
           below == [n \in S |-> Cardinality(before(n))]
           rank == [n \in S |-> below[n] + 1]
           s == InTime(S)
<1>1. N \in Nat
  BY FS_CardinalityType
<1>2. ASSUME NEW n \in S
      PROVE  IsFiniteSet(before(n)) /\ Cardinality(before(n)) \in 0 .. N - 1
  <2>1. before(n) \in SUBSET S /\ n \notin before(n)
    BY n \in Nat
  <2>2. IsFiniteSet(before(n)) /\ Cardinality(before(n)) <= N /\ (N = Cardinality(before(n)) => S = before(n))
    BY <2>1, FS_Subset, Zenon
  <2>3. Cardinality(before(n)) \in Nat
    BY <2>2, FS_CardinalityType
  <2>4. N # Cardinality(before(n))
    BY <2>1, <2>2
  <2> HIDE DEF before, N
  <2> QED
    BY <2>2, <2>3, <2>4, <1>1
<1>3. ASSUME NEW m \in S, NEW n \in S, m < n
      PROVE  Cardinality(before(m)) < Cardinality(before(n))
  <2>1. before(m) \in SUBSET before(n) /\ m \in before(n) /\ m \notin before(m)
    <3>1. \A k \in S : k < m => k < n
      <4>1. \A k \in Nat : k < m => k < n
        BY <1>3, m \in Nat, n \in Nat
      <4> QED
        BY <4>1
    <3>2. ~(m < m)
      BY m \in Nat
    <3> QED
      BY <1>3, <3>1, <3>2
  <2>2. Cardinality(before(m)) <= Cardinality(before(n))
        /\ (Cardinality(before(n)) = Cardinality(before(m)) => before(n) = before(m))
    BY <2>1, <1>2, FS_Subset, Zenon
  <2>3. Cardinality(before(m)) \in 0 .. N - 1 /\ Cardinality(before(n)) \in 0 .. N - 1
    BY <1>2
  <2>4. Cardinality(before(n)) # Cardinality(before(m))
    BY <2>1, <2>2
  <2> HIDE DEF before, N
  <2> QED
    BY <2>2, <2>3, <2>4, <1>1
<1>4. \A n \in S : below[n] = Cardinality(before(n)) /\ below[n] \in 0 .. N - 1
  BY <1>2
<1>5. \A m, n \in S : m < n => below[m] < below[n]
  BY <1>3
<1>6. s = [i \in 1 .. N |-> CHOOSE n \in S : Cardinality(before(n)) = i - 1]
  BY DEF InTime
<1> HIDE DEF s, N, below, before
<1>7. \A n \in S : rank[n] = below[n] + 1 /\ rank[n] \in 1 .. N
  BY <1>4, <1>1
<1>8. rank \in [S -> 1 .. N]
  BY <1>7
<1> HIDE DEF rank
<1>9. \A m, n \in S : rank[m] = rank[n] => m = n
  BY <1>4, <1>5, <1>7, <1>1
<1>10. \A k \in 1 .. N : \E n \in S : rank[n] = k
  BY <1>1, <1>8, <1>9, EveryRankIsTaken DEF N
<1>11. ASSUME NEW i \in 1 .. N PROVE s[i] \in S /\ rank[s[i]] = i
  <2>1. PICK n \in S : rank[n] = i
    BY <1>10
  <2>2. Cardinality(before(n)) = i - 1
    BY <2>1, <1>4, <1>7, <1>1
  <2>3. s[i] = CHOOSE m \in S : Cardinality(before(m)) = i - 1
    BY <1>6
  <2>4. s[i] \in S /\ Cardinality(before(s[i])) = i - 1
    BY <2>2, <2>3
  <2>5. PICK t \in S : t = s[i]
    BY <2>4
  <2>6. rank[t] = Cardinality(before(t)) + 1 /\ i \in Nat
    BY <1>4, <1>7, <1>1
  <2>7. Cardinality(before(t)) = i - 1
    BY <2>4, <2>5
  <2> QED
    BY <2>5, <2>6, <2>7
<1>12. s \in [1 .. N -> Nat]
  BY <1>6, <1>11
<1>13. s \in Seq(Nat) /\ Len(s) = N
  BY <1>12, <1>1
<1>14. In(s) = S
  <2>1. ASSUME NEW n \in S PROVE \E i \in 1 .. N : s[i] = n
    <3>1. rank[n] \in 1 .. N
      BY <1>7
    <3> QED
      BY <3>1, <1>9, <1>11
  <2>2. In(s) = {s[i] : i \in 1 .. N} /\ \A i \in 1 .. N : s[i] \in S
    BY <1>11, <1>13 DEF In
  <2> QED
    BY <2>1, <2>2
<1>15. Ascending(s)
  <2> SUFFICES ASSUME NEW i \in 1 .. N, NEW j \in 1 .. N, i < j PROVE s[i] < s[j]
    BY <1>13 DEF Ascending
  <2>1. PICK x \in S : s[i] = x /\ rank[x] = i
    BY <1>11
  <2>2. PICK y \in S : s[j] = y /\ rank[y] = j
    BY <1>11
  <2>3. below[x] + 1 = i /\ below[y] + 1 = j /\ below[x] \in Int /\ below[y] \in Int
    BY <2>1, <2>2, <1>4, <1>7, <1>1
  <2>4. below[x] < below[y]
    BY <2>3, i \in Int, j \in Int
  <2>5. ~(below[y] < below[x]) /\ x # y
    BY <2>3, <2>4
  <2>6. x \in Nat /\ y \in Nat /\ ~(y < x)
    BY <2>5, <1>5
  <2> QED
    BY <2>1, <2>2, <2>5, <2>6
<1> QED
  BY <1>1, <1>13, <1>14, <1>15 DEF s, N

Numbers == Seq(Nat)

\* One stretch of the lines that match.
Stretch(key, s) ==
    /\ s \in Numbers /\ Ascending(s)
    /\ s # <<>> => In(s) = {n \in Stored(key, LastLine) : s[1] <= n /\ n <= Last(s)}

\* What is written later leaves what was stored before.
LEMMA StoredLines ==
    ASSUME NEW key \in Keys, NEW upto \in Nat
    PROVE  /\ Stored(key, upto) \in SUBSET (1 .. upto) /\ IsFiniteSet(Stored(key, upto))
           /\ \A more \in Nat : upto <= more =>
                 Stored(key, upto) = {n \in Stored(key, more) : n <= upto}
<1>1. Stored(key, upto) \in SUBSET (1 .. upto)
  BY DEF Stored
<1>2. IsFiniteSet(1 .. upto)
  BY FS_Interval, 1 \in Int, upto \in Int
<1>3. IsFiniteSet(Stored(key, upto))
  BY <1>1, <1>2, FS_Subset
<1>4. ASSUME NEW more \in Nat, upto <= more
      PROVE  Stored(key, upto) = {n \in Stored(key, more) : n <= upto}
  <2>1. \A n : n \in 1 .. upto <=> n \in 1 .. more /\ n <= upto
    BY <1>4
  <2> QED
    BY <2>1 DEF Stored
<1> QED
  BY <1>1, <1>3, <1>4

\* The newest lines of a list are a stretch of it, up to its end.
LEMMA NewestSound ==
    ASSUME NEW s \in Numbers, Ascending(s)
    PROVE  /\ NewestLines(s) \in Numbers /\ Ascending(NewestLines(s)) /\ In(NewestLines(s)) \subseteq In(s)
           /\ NewestLines(s) # <<>> =>
                 /\ In(NewestLines(s)) = {n \in In(s) : NewestLines(s)[1] <= n}
                 /\ NewestLines(s)[1] \in In(s)
                 /\ \A n \in In(s) : n <= Last(NewestLines(s))
<1> DEFINE m == Len(s)
           k == m - PageSize
           u == SubSeq(s, k + 1, m)
<1>1. m \in Nat /\ PageSize \in Nat /\ PageSize > 0 /\ \A i \in 1 .. m : s[i] \in Nat
  BY ViewAssumption DEF Numbers
<1>2. \A i, j \in 1 .. m : i <= j => s[i] <= s[j]
  <2> SUFFICES ASSUME NEW i \in 1 .. m, NEW j \in 1 .. m, i <= j PROVE s[i] <= s[j]
    OBVIOUS
  <2>1. CASE i = j
    BY <1>1, <2>1
  <2>2. CASE i # j
    BY <1>1, <2>2 DEF Ascending
  <2> QED
    BY <2>1, <2>2
<1>3. CASE m <= PageSize
  <2>1. NewestLines(s) = s
    BY <1>1, <1>3 DEF NewestLines
  <2>2. s # <<>> => 1 \in 1 .. m /\ m \in 1 .. m /\ Last(s) = s[m]
    BY <1>1 DEF Last, Numbers
  <2> HIDE DEF m
  <2>3. In(s) = {s[i] : i \in 1 .. m}
    BY DEF In, m
  <2>4. \A i \in 1 .. m : 1 <= i /\ i <= m
    BY <1>1
  <2>5. s # <<>> => \A n \in In(s) : s[1] <= n /\ n <= Last(s)
    BY <2>2, <2>3, <2>4, <1>2
  <2> QED
    BY <2>1, <2>2, <2>3, <2>5
<1>4. CASE ~(m <= PageSize)
  <2>1. NewestLines(s) = u
    BY <1>1, <1>4 DEF NewestLines
  <2>2. k \in Nat /\ k > 0 /\ k < m
    BY <1>1, <1>4
  <2>3. u \in Numbers /\ Len(u) = m - k /\ \A i \in 1 .. m - k : u[i] = s[k + i]
    BY <1>1, <2>2 DEF Numbers
  <2> HIDE DEF u, k, m
  <2>4. \A i \in 1 .. m - k : k + i \in 1 .. m
    BY <1>1, <2>2
  <2>5. Ascending(u)
    <3> SUFFICES ASSUME NEW i \in 1 .. m - k, NEW j \in 1 .. m - k, i < j PROVE u[i] < u[j]
      BY <2>3 DEF Ascending
    <3>1. k + i \in 1 .. m /\ k + j \in 1 .. m /\ k + i < k + j
      BY <2>2, <2>4
    <3>2. s[k + i] < s[k + j]
      BY <3>1 DEF Ascending, m
    <3> QED
      BY <2>3, <3>2
  <2>6. In(s) = {s[i] : i \in 1 .. m} /\ In(u) = {u[i] : i \in 1 .. m - k}
    BY <2>3 DEF In, m
  <2>7. In(u) \subseteq In(s)
    BY <2>3, <2>4, <2>6
  <2>8. u[1] = s[k + 1] /\ Last(u) = s[m] /\ k + 1 \in 1 .. m /\ m \in 1 .. m
    <3>1. 1 \in 1 .. m - k /\ m - k \in 1 .. m - k /\ k + (m - k) = m
      BY <1>1, <2>2
    <3> QED
      BY <1>1, <2>2, <2>3, <3>1 DEF Last
  <2>9. \A n \in In(s) : n <= Last(u)
    <3>1. \A i \in 1 .. m : i <= m
      BY <1>1
    <3> QED
      BY <1>2, <2>6, <2>8, <3>1
  <2>10. ASSUME NEW n \in In(u) PROVE u[1] <= n
    <3>1. PICK i \in 1 .. m - k : n = u[i]
      BY <2>6
    <3>2. k + i \in 1 .. m /\ k + 1 <= k + i /\ n = s[k + i]
      BY <1>1, <2>2, <2>3, <2>4, <3>1
    <3> QED
      BY <1>2, <2>8, <3>2
  <2>11. ASSUME NEW n \in In(s), u[1] <= n PROVE n \in In(u)
    <3>1. PICK i \in 1 .. m : n = s[i]
      BY <2>6
    <3>2. CASE i <= k
      <4>1. i < k + 1
        BY <1>1, <2>2, <3>2
      <4>2. s[i] < s[k + 1]
        BY <2>8, <4>1 DEF Ascending, m
      <4> QED
        BY <1>1, <2>8, <2>11, <3>1, <4>2
    <3>3. CASE ~(i <= k)
      <4>1. i - k \in 1 .. m - k /\ k + (i - k) = i
        BY <1>1, <2>2, <3>3
      <4>2. u[i - k] = n
        BY <2>3, <3>1, <4>1
      <4> QED
        BY <2>6, <4>1, <4>2
    <3> QED
      BY <3>2, <3>3
  <2>12. u[1] \in In(s)
    BY <2>6, <2>8
  <2> QED
    BY <2>1, <2>3, <2>5, <2>7, <2>9, <2>10, <2>11, <2>12
<1> QED
  BY <1>3, <1>4, <1>1

\* A page ends where the cursor is: nothing that matches lies between.
LEMMA PageSound ==
    ASSUME NEW key \in Keys, NEW below \in 1 .. LastLine + 1
    PROVE  LET p == Page(key, below) IN
           /\ p \in Numbers /\ Ascending(p)
           /\ p # <<>> =>
                 /\ In(p) = {n \in Stored(key, LastLine) : p[1] <= n /\ n < below}
                 /\ p[1] \in 1 .. LastLine /\ p[1] < below
                 /\ Last(p) \in Nat /\ Last(p) < below
<1> DEFINE S == Stored(key, below - 1)
           s == InTime(S)
           p == Page(key, below)
<1>1. below - 1 \in Nat /\ LastLine \in Nat /\ below - 1 <= LastLine
  BY ViewAssumption
<1>2. S \in SUBSET (1 .. below - 1) /\ IsFiniteSet(S)
      /\ S = {n \in Stored(key, LastLine) : n <= below - 1}
      /\ Stored(key, LastLine) \in SUBSET (1 .. LastLine)
  BY <1>1, StoredLines
<1>3. S \in SUBSET Nat /\ \A n \in Stored(key, LastLine) : n \in Nat
  BY <1>1, <1>2
<1> HIDE DEF S
<1>4. s \in Numbers /\ Ascending(s) /\ In(s) = S
  BY <1>2, <1>3, InTimeSound DEF Numbers
<1> HIDE DEF s
<1>5. p = NewestLines(s)
  BY DEF Page, S, s
<1> HIDE DEF p
<1>6. /\ p \in Numbers /\ Ascending(p) /\ In(p) \subseteq S
      /\ p # <<>> =>
            /\ In(p) = {n \in S : p[1] <= n}
            /\ p[1] \in S
            /\ \A n \in S : n <= Last(p)
  BY <1>4, <1>5, NewestSound
<1>7. ASSUME p # <<>>
      PROVE  /\ In(p) = {n \in Stored(key, LastLine) : p[1] <= n /\ n < below}
             /\ p[1] \in 1 .. LastLine /\ p[1] < below
             /\ Last(p) \in Nat /\ Last(p) < below
  <2>1. \A n \in Stored(key, LastLine) : n <= below - 1 <=> n < below
    BY <1>1, <1>3
  <2>2. In(p) = {n \in Stored(key, LastLine) : p[1] <= n /\ n < below}
    BY <1>2, <1>6, <1>7, <2>1
  <2>3. p[1] \in 1 .. below - 1
    BY <1>2, <1>6, <1>7
  <2>4. Last(p) \in In(p)
    <3>1. Len(p) \in 1 .. Len(p) /\ Last(p) = p[Len(p)]
      BY <1>6, <1>7 DEF Last, Numbers
    <3> QED
      BY <3>1 DEF In
  <2>5. Last(p) \in 1 .. below - 1
    BY <1>2, <1>6, <2>4
  <2> QED
    BY <1>1, <2>2, <2>3, <2>5
<1> QED
  BY <1>6, <1>7 DEF p

\* An older page joins the stretch without a gap.
LEMMA PagesJoin ==
    ASSUME NEW key \in Keys, NEW s, Stretch(key, s), s # <<>>
    PROVE  LET p == Page(key, s[1]) IN
           /\ Stretch(key, p \o s) /\ p \o s # <<>>
           /\ p # <<>> => (p \o s)[1] = p[1]
<1> DEFINE p == Page(key, s[1])
           t == p \o s
           S == Stored(key, LastLine)
           m == Len(p)
           n == Len(s)
<1>1. n \in Nat /\ n > 0 /\ (\A i \in 1 .. n : s[i] \in Nat) /\ s[1] \in In(s) /\ Last(s) = s[n]
  BY DEF Stretch, Numbers, In, Last
<1>2. In(s) = {x \in S : s[1] <= x /\ x <= Last(s)} /\ Ascending(s) /\ s \in Numbers
  BY DEF Stretch
<1>3. S \in SUBSET (1 .. LastLine) /\ LastLine \in Nat
  BY StoredLines, ViewAssumption
<1> HIDE DEF S
<1>4. s[1] \in 1 .. LastLine + 1 /\ s[1] \in Nat
  BY <1>1, <1>2, <1>3
<1>5. /\ p \in Numbers /\ Ascending(p)
      /\ p # <<>> =>
            /\ In(p) = {x \in S : p[1] <= x /\ x < s[1]}
            /\ p[1] \in 1 .. LastLine /\ p[1] < s[1]
            /\ Last(p) \in Nat /\ Last(p) < s[1]
  BY <1>4, PageSound DEF S
<1> HIDE DEF p
<1>6. ASSUME p = <<>> PROVE Stretch(key, t) /\ t # <<>>
  <2>1. t = s
    BY <1>2, <1>6 DEF Numbers
  <2> QED
    BY <2>1
<1>7. ASSUME p # <<>> PROVE Stretch(key, t) /\ t # <<>> /\ t[1] = p[1]
  <2>1. m \in Nat /\ m > 0 /\ (\A i \in 1 .. m : p[i] \in Nat)
    BY <1>5, <1>7 DEF Numbers
  <2>2. /\ t \in Numbers /\ Len(t) = m + n
        /\ \A i \in 1 .. m : t[i] = p[i]
        /\ \A i \in 1 .. n : t[m + i] = s[i]
    BY <1>1, <1>2, <1>5, <2>1 DEF Numbers
  <2> HIDE DEF t
  <2>3. \A i \in 1 .. m + n : i \in 1 .. m \/ (i - m \in 1 .. n /\ m + (i - m) = i)
    BY <1>1, <2>1
  <2>4. \A i \in 1 .. m : p[i] \in In(p) /\ p[i] < s[1]
    <3>1. \A x \in In(p) : x < s[1]
      BY <1>5, <1>7
    <3> QED
      BY <3>1 DEF In
  <2>5. \A i \in 1 .. n : s[i] \in In(s) /\ s[1] <= s[i]
    BY <1>2 DEF In
  <2>6. Ascending(t)
    <3> SUFFICES ASSUME NEW i \in 1 .. m + n, NEW j \in 1 .. m + n, i < j PROVE t[i] < t[j]
      BY <2>2 DEF Ascending
    <3>1. CASE i \in 1 .. m /\ j \in 1 .. m
      <4>1. p[i] < p[j]
        BY <1>5, <3>1 DEF Ascending
      <4> QED
        BY <2>2, <3>1, <4>1
    <3>2. CASE i \in 1 .. m /\ j - m \in 1 .. n
      <4>1. t[i] = p[i] /\ t[j] = s[j - m]
        BY <2>1, <2>2, <3>2
      <4>2. p[i] < s[1] /\ s[1] <= s[j - m] /\ p[i] \in Nat /\ s[j - m] \in Nat
        BY <1>1, <2>1, <2>4, <2>5, <3>2
      <4> QED
        BY <1>4, <4>1, <4>2
    <3>3. CASE i - m \in 1 .. n /\ j - m \in 1 .. n
      <4>1. t[i] = s[i - m] /\ t[j] = s[j - m] /\ i - m < j - m
        <5>1. m + (i - m) = i /\ m + (j - m) = j /\ i - m < j - m
          BY <2>1
        <5>2. t[m + (i - m)] = s[i - m] /\ t[m + (j - m)] = s[j - m]
          BY <2>2, <3>3
        <5> QED
          BY <5>1, <5>2
      <4>2. s[i - m] < s[j - m]
        BY <1>2, <3>3, <4>1 DEF Ascending
      <4> QED
        BY <4>1, <4>2
    <3>4. ~(i - m \in 1 .. n /\ j \in 1 .. m)
      BY <2>1, <1>1
    <3> QED
      BY <2>3, <3>1, <3>2, <3>3, <3>4
  <2>7. t[1] = p[1] /\ Last(t) = Last(s) /\ t # <<>>
    <3>1. 1 \in 1 .. m /\ n \in 1 .. n
      BY <1>1, <2>1
    <3> QED
      BY <1>1, <2>1, <2>2, <3>1 DEF Last
  <2>8. In(t) = In(p) \cup In(s)
    <3>1. In(t) = {t[i] : i \in 1 .. m + n} /\ In(p) = {p[i] : i \in 1 .. m} /\ In(s) = {s[i] : i \in 1 .. n}
      BY <2>2 DEF In
    <3>2. (\A i \in 1 .. m : i \in 1 .. m + n) /\ (\A i \in 1 .. n : m + i \in 1 .. m + n)
      BY <1>1, <2>1
    <3> HIDE DEF m, n
    <3>3. \A i \in 1 .. m + n : t[i] \in In(p) \cup In(s)
      <4> TAKE i \in 1 .. m + n
      <4>1. CASE i \in 1 .. m
        BY <2>2, <3>1, <4>1
      <4>2. CASE i - m \in 1 .. n /\ m + (i - m) = i
        <5>1. t[m + (i - m)] = s[i - m]
          BY <2>2, <4>2
        <5> QED
          BY <3>1, <4>2, <5>1
      <4> QED
        BY <2>3, <4>1, <4>2
    <3>4. \A i \in 1 .. m : p[i] \in In(t)
      BY <2>2, <3>1, <3>2
    <3>5. \A i \in 1 .. n : s[i] \in In(t)
      BY <2>2, <3>1, <3>2
    <3> QED
      BY <3>1, <3>3, <3>4, <3>5
  <2>9. In(t) = {x \in S : t[1] <= x /\ x <= Last(t)}
    <3>1. Last(s) \in Nat /\ s[1] <= Last(s) /\ s[1] \in Nat /\ p[1] \in Nat /\ p[1] < s[1]
      <4>1. n \in 1 .. n
        BY <1>1
      <4> QED
        BY <1>1, <1>3, <1>4, <1>5, <1>7, <2>5, <4>1
    <3>2. ASSUME NEW x \in S
          PROVE  p[1] <= x /\ x <= Last(s) <=>
                    (p[1] <= x /\ x < s[1]) \/ (s[1] <= x /\ x <= Last(s))
      <4>1. x \in Nat
        BY <1>3
      <4> QED
        BY <3>1, <4>1
    <3> QED
      BY <1>2, <1>5, <1>7, <2>7, <2>8, <3>2
  <2> QED
    BY <2>2, <2>6, <2>7, <2>9 DEF Stretch, S
<1> QED
  BY <1>6, <1>7 DEF p

\* The recursion of FlattenHistoryPages.
Flattening(pages, f) ==
    f = [n \in 0 .. Len(pages) |-> IF n = 0 THEN <<>> ELSE pages[n] \o f[n - 1]]

LEMMA FlattenUnfolds ==
    ASSUME NEW pages \in Seq(Numbers)
    PROVE  \E f : Flattening(pages, f) /\ FlattenHistoryPages(pages) = f[Len(pages)]
<1> DEFINE n == Len(pages)
           g == [i \in 0 + 1 .. n |-> [v \in Numbers |-> pages[i] \o v]]
<1>1. n \in Nat /\ \A i \in 1 .. n : pages[i] \in Numbers
  OBVIOUS
<1>2. <<>> \in Numbers /\ \A i \in 0 + 1 .. n : \A v \in Numbers : g[i][v] = pages[i] \o v
  BY DEF Numbers
<1>3. \A i \in 0 + 1 .. n : \A v \in Numbers : g[i][v] \in Numbers
  BY <1>1, <1>2 DEF Numbers
<1>4. \A i \in 0 .. n : i # 0 => i \in 0 + 1 .. n /\ i - 1 \in 0 .. n
  BY <1>1
<1> HIDE DEF g, n
<1>5. PICK f \in [0 .. n -> Numbers] : Stepwise(f, 0, n, <<>>, g)
  BY <1>1, <1>2, <1>3, 0 \in Nat, StepsExist
<1>6. \A i \in 0 .. n : f[i] = IF i = 0 THEN <<>> ELSE pages[i] \o f[i - 1]
  BY <1>2, <1>4, <1>5 DEF Stepwise
<1>7. f = [i \in 0 .. n |-> IF i = 0 THEN <<>> ELSE pages[i] \o f[i - 1]]
  BY <1>6
<1>8. Flattening(pages, f)
  BY <1>7 DEF Flattening, n
<1> DEFINE h == CHOOSE h : Flattening(pages, h)
<1>9. Flattening(pages, h)
  BY <1>8
<1>10. FlattenHistoryPages(pages) = h[Len(pages)]
  BY DEF FlattenHistoryPages, Flattening
<1> QED
  BY <1>9, <1>10

\* One more page goes in front.
LEMMA FlattenAppend ==
    ASSUME NEW pages \in Seq(Numbers), NEW p \in Numbers
    PROVE  FlattenHistoryPages(Append(pages, p)) = p \o FlattenHistoryPages(pages)
<1> DEFINE n == Len(pages)
           more == Append(pages, p)
<1>1. n \in Nat /\ more \in Seq(Numbers) /\ Len(more) = n + 1 /\ more[n + 1] = p
      /\ \A i \in 1 .. n : more[i] = pages[i]
  OBVIOUS
<1> HIDE DEF more
<1>2. PICK f : Flattening(pages, f) /\ FlattenHistoryPages(pages) = f[n]
  BY FlattenUnfolds
<1>3. PICK h : Flattening(more, h) /\ FlattenHistoryPages(more) = h[n + 1]
  BY <1>1, FlattenUnfolds
<1> HIDE DEF n
<1>4. \A i \in 0 .. n : f[i] = IF i = 0 THEN <<>> ELSE pages[i] \o f[i - 1]
  BY <1>2 DEF Flattening, n
<1>5. \A i \in 0 .. n + 1 : h[i] = IF i = 0 THEN <<>> ELSE more[i] \o h[i - 1]
  BY <1>1, <1>3 DEF Flattening
<1> DEFINE T == {i \in 0 .. n : f[i] # h[i]}
<1>6. n \notin T
  <2> SUFFICES ASSUME n \in T PROVE FALSE
    OBVIOUS
  <2>1. T \in SUBSET Nat
    OBVIOUS
  <2> HIDE DEF T
  <2>2. PICK k \in T : \A m \in T : k <= m
    BY <2>1, LeastNumber
  <2>3. k \in 0 .. n /\ f[k] # h[k]
    BY <2>2 DEF T
  <2>4. k \in 0 .. n + 1 /\ (k # 0 => k - 1 \in 0 .. n /\ k \in 1 .. n /\ k - 1 \notin T)
    BY <1>1, <2>2, <2>3
  <2>5. k # 0 => f[k - 1] = h[k - 1]
    BY <2>4 DEF T
  <2>6. k # 0 => more[k] = pages[k]
    BY <1>1, <2>4
  <2> QED
    BY <1>4, <1>5, <2>3, <2>4, <2>5, <2>6
<1>7. f[n] = h[n]
  BY <1>1, <1>6
<1>8. h[n + 1] = p \o h[n]
  <2>1. PICK k \in 0 .. n + 1 : k = n + 1 /\ k # 0 /\ k - 1 = n
    BY <1>1
  <2>2. h[k] = more[k] \o h[k - 1]
    BY <1>5, <2>1
  <2> QED
    BY <1>1, <2>1, <2>2
<1> QED
  BY <1>2, <1>3, <1>7, <1>8 DEF more

LEMMA FlattenNone == FlattenHistoryPages(<<>>) = <<>>
<1>1. <<>> \in Seq(Numbers) /\ Len(<<>>) = 0
  OBVIOUS
<1>2. PICK f : Flattening(<<>>, f) /\ FlattenHistoryPages(<<>>) = f[0]
  BY <1>1, FlattenUnfolds
<1>3. f[0] = <<>>
  BY <1>1, <1>2 DEF Flattening
<1> QED
  BY <1>2, <1>3

-----------------------------------------------------------------------------
\* What is loaded for a key is one stretch, which begins where the last page does.
PagesSound(key, pages) ==
    /\ pages \in Seq(Numbers)
    /\ Stretch(key, FlattenHistoryPages(pages))
    /\ pages # <<>> /\ Last(pages) # <<>> =>
          /\ FlattenHistoryPages(pages) # <<>>
          /\ FlattenHistoryPages(pages)[1] = Last(pages)[1]

LEMMA NoPages == ASSUME NEW key PROVE PagesSound(key, <<>>)
<1>1. <<>> \in Seq(Numbers) /\ <<>> \in Numbers /\ Ascending(<<>>)
  BY DEF Numbers, Ascending
<1> QED
  BY <1>1, FlattenNone DEF PagesSound, Stretch

\* The first page ends at the newest line there is.
LEMMA FirstPage ==
    ASSUME NEW key \in Keys, NEW upto \in Nat, upto <= LastLine
    PROVE  /\ PagesSound(key, Append(<<>>, Page(key, upto + 1)))
           /\ Append(<<>>, Page(key, upto + 1)) # <<>>
<1> DEFINE p == Page(key, upto + 1)
           pages == Append(<<>>, p)
<1>1. upto + 1 \in 1 .. LastLine + 1
  BY ViewAssumption
<1>2. /\ p \in Numbers /\ Ascending(p)
      /\ p # <<>> =>
            /\ In(p) = {n \in Stored(key, LastLine) : p[1] <= n /\ n < upto + 1}
            /\ p[1] \in 1 .. LastLine /\ p[1] < upto + 1
            /\ Last(p) \in Nat /\ Last(p) < upto + 1
  BY <1>1, PageSound
<1> HIDE DEF p
<1>3. pages \in Seq(Numbers) /\ pages # <<>> /\ Last(pages) = p /\ <<>> \in Seq(Numbers)
  BY <1>2 DEF Last
<1>4. FlattenHistoryPages(pages) = p
  <2>1. FlattenHistoryPages(pages) = p \o FlattenHistoryPages(<<>>)
    BY <1>2, <1>3, FlattenAppend
  <2>2. p \o <<>> = p
    BY <1>2 DEF Numbers
  <2> QED
    BY <2>1, <2>2, FlattenNone
<1>5. Stretch(key, p)
  <2> SUFFICES ASSUME p # <<>>
               PROVE  In(p) = {n \in Stored(key, LastLine) : p[1] <= n /\ n <= Last(p)}
    BY <1>2 DEF Stretch
  <2>1. \A n \in In(p) : n <= Last(p)
    <3>1. Len(p) \in Nat /\ Last(p) = p[Len(p)] /\ \A i \in 1 .. Len(p) : p[i] \in Nat
      BY <1>2 DEF Last, Numbers
    <3>2. ASSUME NEW i \in 1 .. Len(p) PROVE p[i] <= p[Len(p)]
      <4>1. CASE i = Len(p)
        BY <3>1, <4>1
      <4>2. CASE i # Len(p)
        <5>1. i < Len(p) /\ Len(p) \in 1 .. Len(p)
          BY <3>1, <4>2
        <5> QED
          BY <1>2, <3>1, <5>1 DEF Ascending
      <4> QED
        BY <4>1, <4>2
    <3> QED
      BY <3>1, <3>2 DEF In
  <2>2. Stored(key, LastLine) \in SUBSET (1 .. LastLine) /\ LastLine \in Nat
    BY StoredLines, ViewAssumption
  <2>3. \A n \in Stored(key, LastLine) : n <= Last(p) => n < upto + 1
    BY <1>2, <2>2
  <2> QED
    BY <1>2, <2>1, <2>3
<1> QED
  BY <1>3, <1>4, <1>5 DEF PagesSound, p

\* The next one ends at the cursor, which is where what is loaded begins.
LEMMA OlderPage ==
    ASSUME NEW key \in Keys, NEW pages, PagesSound(key, pages), pages # <<>>, Last(pages) # <<>>
    PROVE  /\ PagesSound(key, Append(pages, Page(key, Last(pages)[1])))
           /\ Append(pages, Page(key, Last(pages)[1])) # <<>>
<1> DEFINE s == FlattenHistoryPages(pages)
           p == Page(key, s[1])
           more == Append(pages, p)
<1>1. Stretch(key, s) /\ s # <<>> /\ s[1] = Last(pages)[1] /\ pages \in Seq(Numbers)
  BY DEF PagesSound
<1> HIDE DEF s
<1>2. Stretch(key, p \o s) /\ p \o s # <<>> /\ (p # <<>> => (p \o s)[1] = p[1])
  BY <1>1, PagesJoin
<1>3. p \in Numbers
  <2>1. s[1] \in 1 .. LastLine + 1
    <3>1. 1 \in 1 .. Len(s)
      BY <1>1 DEF Stretch, Numbers
    <3>2. s[1] \in In(s)
      BY <3>1 DEF In
    <3>3. s[1] \in Stored(key, LastLine)
      BY <1>1, <3>2 DEF Stretch
    <3>4. s[1] \in 1 .. LastLine /\ LastLine \in Nat
      BY <3>3, StoredLines, ViewAssumption
    <3> QED
      BY <3>4
  <2> QED
    BY <2>1, PageSound
<1> HIDE DEF p
<1>4. more \in Seq(Numbers) /\ more # <<>> /\ Last(more) = p
  BY <1>1, <1>3 DEF Last
<1>5. FlattenHistoryPages(more) = p \o s
  BY <1>1, <1>3, FlattenAppend DEF s
<1> HIDE DEF more
<1>6. PagesSound(key, more) /\ more # <<>>
  BY <1>2, <1>4, <1>5 DEF PagesSound
<1> QED
  BY <1>1, <1>6 DEF p, more

\* Reading again gives pages that are as sound as those read before.
LEMMA RefetchedSound ==
    ASSUME NEW key \in Keys, hist[key].pages \in Seq(Numbers), hist[key].pages # <<>>,
           written \in Nat, written <= LastLine
    PROVE  PagesSound(key, Refetched(key)) /\ Refetched(key) # <<>>
<1> DEFINE n == Len(hist[key].pages)
           V == {pages \in Seq(Numbers) : PagesSound(key, pages) /\ pages # <<>>}
           x == Append(<<>>, Page(key, written + 1))
           step(pages) == IF ~More(key, Last(pages)) THEN pages
                          ELSE Append(pages, Page(key, Last(pages)[1]))
           g == [i \in 1 + 1 .. n |-> [pages \in V |-> step(pages)]]
           Reading(f) == f = [i \in 1 .. n |-> IF i = 1 THEN x ELSE step(f[i - 1])]
<1>1. n \in Nat /\ n > 0
  OBVIOUS
<1>2. x \in V
  <2>1. PagesSound(key, x) /\ x # <<>>
    BY FirstPage
  <2> HIDE DEF x
  <2> QED
    BY <2>1 DEF PagesSound
<1>3. ASSUME NEW pages \in V PROVE step(pages) \in V
  <2>1. CASE ~More(key, Last(pages))
    BY <2>1
  <2>2. CASE More(key, Last(pages))
    <3>1. Last(pages) # <<>>
      BY <2>2 DEF More
    <3>2. /\ PagesSound(key, Append(pages, Page(key, Last(pages)[1])))
          /\ Append(pages, Page(key, Last(pages)[1])) # <<>>
      BY <3>1, OlderPage
    <3>3. step(pages) = Append(pages, Page(key, Last(pages)[1]))
      BY <2>2
    <3> HIDE DEF step
    <3> QED
      BY <3>2, <3>3 DEF PagesSound
  <2> QED
    BY <2>1, <2>2
<1> HIDE DEF n, V, x, step
<1>4. \A i \in 1 + 1 .. n : \A pages \in V : g[i][pages] = step(pages) /\ g[i][pages] \in V
  BY <1>3
<1> HIDE DEF g
<1>5. \E f : Reading(f)
  <2>1. PICK f \in [1 .. n -> V] : Stepwise(f, 1, n, x, g)
    BY <1>1, <1>2, <1>4, 1 \in Nat, StepsExist
  <2>2. \A i \in 1 .. n : i # 1 => i \in 1 + 1 .. n /\ i - 1 \in 1 .. n
    BY <1>1
  <2>3. \A i \in 1 .. n : f[i] = IF i = 1 THEN x ELSE step(f[i - 1])
    BY <1>4, <2>1, <2>2 DEF Stepwise
  <2>4. f = [i \in 1 .. n |-> IF i = 1 THEN x ELSE step(f[i - 1])]
    BY <2>3
  <2> QED
    BY <2>4
<1> DEFINE f == CHOOSE h : Reading(h)
<1>6. \A i \in 1 .. n : f[i] = IF i = 1 THEN x ELSE step(f[i - 1])
  <2>1. Reading(f)
    BY <1>5
  <2> HIDE DEF f
  <2> QED
    BY <2>1
<1>7. Refetched(key) = f[n]
  BY DEF Refetched, n, x, step
<1> HIDE DEF f
<1> DEFINE T == {i \in 1 .. n : f[i] \notin V}
<1>8. n \notin T
  <2> SUFFICES ASSUME n \in T PROVE FALSE
    OBVIOUS
  <2>1. T \in SUBSET Nat
    OBVIOUS
  <2> HIDE DEF T
  <2>2. PICK k \in T : \A m \in T : k <= m
    BY <2>1, LeastNumber
  <2>3. k \in 1 .. n /\ f[k] \notin V
    BY <2>2 DEF T
  <2>4. k # 1 => k - 1 \in 1 .. n /\ k - 1 \notin T
    BY <1>1, <2>2, <2>3
  <2>5. k # 1 => f[k - 1] \in V
    BY <2>4 DEF T
  <2> QED
    BY <1>2, <1>3, <1>6, <2>3, <2>5
<1>9. f[n] \in V
  <2>1. n \in 1 .. n
    BY <1>1
  <2> QED
    BY <1>8, <2>1
<1> QED
  BY <1>7, <1>9 DEF V

\* A page is asked for only where there is a cursor, or at the newest end.
Cached(key, entry) ==
    /\ entry.fetching \in {"no", "first", "older", "again"}
    /\ PagesSound(key, entry.pages)
    /\ entry.more => entry.pages # <<>> /\ Last(entry.pages) # <<>>
    /\ entry.fetching = "older" => entry.pages # <<>> /\ Last(entry.pages) # <<>>
    /\ entry.fetching = "again" => entry.pages # <<>>
    /\ entry.fetching = "first" => entry.pages = <<>>

\* The entries of every key, shown or not: an answer may come late.
CacheInv ==
    /\ text \in Searches /\ levels \in SUBSET Levels /\ settledText \in {"", "text"}
    /\ written \in Nat /\ written <= LastLine
    /\ hist \in [Keys -> [pages : Seq(Numbers), more : BOOLEAN,
                          fetching : {"no", "first", "older", "again"}, failed : BOOLEAN]]
    /\ \A key \in Keys : Cached(key, hist[key])

\* Marks belong to the source the effects last ran with.
MarksInv == rowPins # {} \/ selected # {} => madeIn = seen.isHistory

LEMMA KeyIsKey == CacheInv => Key \in Keys
  BY DEF CacheInv, Key, Keys

LEMMA EmptyCached == ASSUME NEW key PROVE Cached(key, Empty)
  BY NoPages DEF Cached, Empty

LEMMA ViewStarts == LogViewInit => CacheInv /\ MarksInv
<1> SUFFICES ASSUME LogViewInit PROVE CacheInv /\ MarksInv
  OBVIOUS
<1>1. hist = [k \in Keys |-> Empty] /\ \A key \in Keys : Cached(key, Empty)
  BY EmptyCached DEF LogViewInit
<1>2. Empty \in [pages : Seq(Numbers), more : BOOLEAN,
                 fetching : {"no", "first", "older", "again"}, failed : BOOLEAN]
  BY DEF Empty
<1>3. written \in Nat /\ written <= LastLine
  <2>1. written = LastLine - 1
    BY DEF LogViewInit
  <2>2. LastLine \in Nat /\ LastLine > 0
    BY ViewAssumption
  <2> QED
    BY <2>1, <2>2
<1>4. text \in Searches /\ levels \in SUBSET Levels /\ settledText \in {"", "text"}
  BY DEF LogViewInit, Searches
<1>5. CacheInv
  BY <1>1, <1>2, <1>3, <1>4 DEF CacheInv
<1>6. MarksInv
  BY DEF LogViewInit, MarksInv
<1> QED
  BY <1>5, <1>6

\* One entry of the cache changes.
LEMMA EntryChanges ==
    ASSUME CacheInv, NEW key \in Keys, NEW entry, Cached(key, entry),
           entry \in [pages : Seq(Numbers), more : BOOLEAN,
                      fetching : {"no", "first", "older", "again"}, failed : BOOLEAN],
           hist' = [hist EXCEPT ![key] = entry],
           UNCHANGED <<text, levels, settledText, written>>
    PROVE  CacheInv'
<1>1. hist' \in [Keys -> [pages : Seq(Numbers), more : BOOLEAN,
                          fetching : {"no", "first", "older", "again"}, failed : BOOLEAN]]
  BY DEF CacheInv
<1>2. hist'[key] = entry /\ \A k \in Keys : k # key => hist'[k] = hist[k]
  BY DEF CacheInv
<1>3. \A k \in Keys : Cached(k, hist'[k])
  BY <1>2 DEF CacheInv
<1> QED
  BY <1>1, <1>3 DEF CacheInv

\* An answer lands where it belongs: the first page, an older one or all again.
LEMMA AnsweredCache == CacheInv /\ HistoryAnswered => CacheInv'
<1> SUFFICES ASSUME CacheInv, HistoryAnswered PROVE CacheInv'
  OBVIOUS
<1>1. PICK key \in Keys :
         /\ hist[key].fetching # "no"
         /\ hist' = [hist EXCEPT ![key] =
                        Landed(key, IF hist[key].fetching = "again" THEN Refetched(key)
                                    ELSE NextPageOf(key))]
  BY DEF HistoryAnswered
<1>2. UNCHANGED <<text, levels, settledText, written>>
  BY DEF HistoryAnswered, world, view
<1>3. Cached(key, hist[key]) /\ hist[key].pages \in Seq(Numbers) /\ written \in Nat /\ written <= LastLine
  BY DEF CacheInv
<1> DEFINE pages == IF hist[key].fetching = "again" THEN Refetched(key) ELSE NextPageOf(key)
<1>4. PagesSound(key, pages) /\ pages # <<>>
  <2>1. CASE hist[key].fetching = "again"
    <3>1. hist[key].pages # <<>>
      BY <1>3, <2>1 DEF Cached
    <3> QED
      BY <1>3, <2>1, <3>1, RefetchedSound
  <2>2. CASE hist[key].fetching = "older"
    <3>1. hist[key].pages # <<>> /\ Last(hist[key].pages) # <<>> /\ PagesSound(key, hist[key].pages)
      BY <1>3, <2>2 DEF Cached
    <3>2. pages = Append(hist[key].pages, Page(key, Last(hist[key].pages)[1]))
      BY <2>2, <3>1 DEF NextPageOf
    <3> QED
      BY <3>1, <3>2, OlderPage
  <2>3. CASE hist[key].fetching = "first"
    <3>1. hist[key].pages = <<>>
      BY <1>3, <2>3 DEF Cached
    <3>2. pages = Append(<<>>, Page(key, written + 1))
      BY <2>3, <3>1 DEF NextPageOf
    <3> QED
      BY <1>3, <3>2, FirstPage
  <2> QED
    BY <1>1, <1>3, <2>1, <2>2, <2>3 DEF Cached
<1> HIDE DEF pages
<1>5. Cached(key, Landed(key, pages))
  BY <1>4 DEF Cached, Landed, More
<1>6. Landed(key, pages) \in [pages : Seq(Numbers), more : BOOLEAN,
                              fetching : {"no", "first", "older", "again"}, failed : BOOLEAN]
  BY <1>4 DEF Landed, More, PagesSound
<1> QED
  BY <1>1, <1>2, <1>5, <1>6, EntryChanges DEF pages

\* A request that begins or fails leaves the pages as they are.
LEMMA FetchesCache ==
    ASSUME CacheInv, HistoryLoads \/ HistoryFails \/ HandleLoadOlder \/ HandleRefresh
    PROVE  CacheInv'
<1> DEFINE Entries == [pages : Seq(Numbers), more : BOOLEAN,
                       fetching : {"no", "first", "older", "again"}, failed : BOOLEAN]
<1>1. Key \in Keys /\ (\A key \in Keys : Cached(key, hist[key]) /\ hist[key] \in Entries)
  BY KeyIsKey DEF CacheInv
<1>2. UNCHANGED <<text, levels, settledText, written>>
  BY DEF HistoryLoads, HistoryFails, HandleLoadOlder, HandleRefresh, world, view
<1>3. CASE HistoryLoads
  <2> DEFINE entry == [hist[Key] EXCEPT !.fetching = "first"]
  <2>1. hist' = [hist EXCEPT ![Key] = entry] /\ hist[Key] = Empty
    BY <1>3 DEF HistoryLoads
  <2>2. entry \in Entries /\ entry.pages = <<>> /\ entry.fetching = "first" /\ ~entry.more
    BY <1>1, <2>1 DEF Empty
  <2> HIDE DEF entry
  <2>3. Cached(Key, entry)
    BY <2>2, NoPages DEF Cached
  <2> QED
    BY <1>1, <1>2, <2>1, <2>2, <2>3, EntryChanges
<1>4. CASE HistoryFails
  <2>1. PICK key \in Keys : hist' = [hist EXCEPT ![key].fetching = "no", ![key].failed = TRUE]
    BY <1>4 DEF HistoryFails
  <2> DEFINE entry == [hist[key] EXCEPT !.fetching = "no", !.failed = TRUE]
  <2>2. hist' = [hist EXCEPT ![key] = entry]
    BY <1>1, <2>1 DEF CacheInv
  <2>3. /\ entry \in Entries /\ entry.pages = hist[key].pages /\ entry.fetching = "no"
        /\ entry.more = hist[key].more
    BY <1>1
  <2> HIDE DEF entry
  <2>4. Cached(key, entry)
    BY <1>1, <2>3 DEF Cached
  <2> QED
    BY <1>2, <2>2, <2>3, <2>4, EntryChanges
<1>5. CASE HandleLoadOlder
  <2> DEFINE entry == [hist[Key] EXCEPT !.fetching = "older"]
  <2>1. hist' = [hist EXCEPT ![Key] = entry] /\ hist[Key].more
    BY <1>5 DEF HandleLoadOlder, offersOlder
  <2>2. entry \in Entries /\ entry.pages = hist[Key].pages /\ entry.fetching = "older"
        /\ entry.more = hist[Key].more
    BY <1>1
  <2> HIDE DEF entry
  <2>3. Cached(Key, entry)
    BY <1>1, <2>1, <2>2 DEF Cached
  <2> QED
    BY <1>1, <1>2, <2>1, <2>2, <2>3, EntryChanges
<1>6. CASE HandleRefresh
  <2> DEFINE kind == IF hist[Key].pages = <<>> THEN "first" ELSE "again"
             entry == [hist[Key] EXCEPT !.fetching = kind]
  <2>1. hist' = [hist EXCEPT ![Key] = entry]
    BY <1>6 DEF HandleRefresh
  <2>2. entry \in Entries /\ entry.pages = hist[Key].pages /\ entry.fetching = kind
        /\ entry.more = hist[Key].more
    BY <1>1
  <2> HIDE DEF entry
  <2>3. Cached(Key, entry)
    BY <1>1, <2>1, <2>2 DEF Cached
  <2> QED
    BY <1>1, <1>2, <2>1, <2>2, <2>3, EntryChanges
<1> QED
  BY <1>3, <1>4, <1>5, <1>6

\* What leaves the cache alone.
LEMMA CacheAside ==
    ASSUME CacheInv, hist' = hist, written' = written, text' \in Searches,
           levels' \in SUBSET Levels, settledText' \in {"", "text"}
    PROVE  CacheInv'
  BY DEF CacheInv

LEMMA CacheGoesOn == CacheInv /\ [LogViewNext]_lvVars => CacheInv'
<1> SUFFICES ASSUME CacheInv, [LogViewNext]_lvVars PROVE CacheInv'
  OBVIOUS
<1>0. text \in Searches /\ levels \in SUBSET Levels /\ settledText \in {"", "text"}
  BY DEF CacheInv
<1>1. CASE WriteLine
  <2>1. /\ hist' = hist /\ written' = written + 1 /\ written < LastLine
        /\ text' = text /\ levels' = levels /\ settledText' = settledText
    BY <1>1 DEF WriteLine, view
  <2>2. written \in Nat /\ LastLine \in Nat
    BY ViewAssumption DEF CacheInv
  <2>3. written + 1 \in Nat /\ written + 1 <= LastLine
    BY <2>1, <2>2
  <2>4. written' \in Nat /\ written' <= LastLine
    BY <2>1, <2>3
  <2> QED
    BY <2>1, <2>4 DEF CacheInv
<1>2. CASE HistoryAnswered
  BY <1>2, AnsweredCache
<1>3. CASE HistoryLoads \/ HistoryFails \/ HandleLoadOlder \/ HandleRefresh
  BY <1>3, FetchesCache
<1>4. CASE ContainersLoaded \/ HistoryStatus \/ LiveFlush \/ ViewEffects
  <2>1. UNCHANGED <<hist, written, text, levels, settledText>>
    BY <1>4 DEF ContainersLoaded, HistoryStatus, LiveFlush, ViewEffects, world, view
  <2> QED
    BY <1>0, <2>1, CacheAside
<1>5. CASE SearchSettles
  <2>1. UNCHANGED <<hist, written, text, levels>> /\ settledText' = historySearch
    BY <1>5 DEF SearchSettles, world, view
  <2>2. historySearch \in {"", "text"}
    BY <1>0 DEF historySearch, Searches
  <2> QED
    BY <1>0, <2>1, <2>2, CacheAside
<1>6. CASE SetSource
  <2>1. UNCHANGED <<hist, written, text, levels, settledText>>
    BY <1>6 DEF SetSource, quiet, world
  <2> QED
    BY <1>0, <2>1, CacheAside
<1>7. CASE SetSearchText
  <2>1. UNCHANGED <<hist, written, levels, settledText>> /\ text' \in Searches
    BY <1>7 DEF SetSearchText, quiet, world
  <2> QED
    BY <1>0, <2>1, CacheAside
<1>8. CASE ToggleLogLevel
  <2>1. PICK l \in availableLevels :
           levels' = IF l \in levels THEN levels \ {l} ELSE levels \cup {l}
    BY <1>8 DEF ToggleLogLevel
  <2>2. UNCHANGED <<hist, written, text, settledText>>
    BY <1>8 DEF ToggleLogLevel, quiet, world
  <2>3. l \in Levels
    BY <2>1 DEF availableLevels, Levels, LevelOf
  <2>4. levels' \in SUBSET Levels
    BY <1>0, <2>1, <2>3
  <2> QED
    BY <1>0, <2>2, <2>4, CacheAside
<1>9. CASE ClearFilters
  <2>1. UNCHANGED <<hist, written, text, settledText>> /\ levels' = {}
    BY <1>9 DEF ClearFilters, quiet, world
  <2> QED
    BY <1>0, <2>1, CacheAside
<1>10. CASE \/ SetExcludeMatches \/ HandleLogClick \/ HandleShiftClick \/ ClearSelection
            \/ HandleCopySelected \/ ToggleJsonExpanded \/ HandleTogglePinSelected
  <2>1. UNCHANGED <<hist, written, text, levels, settledText>>
    BY <1>10 DEF SetExcludeMatches, HandleLogClick, HandleShiftClick, ClearSelection,
                 HandleCopySelected, ToggleJsonExpanded, HandleTogglePinSelected,
                 quiet, world, view
  <2> QED
    BY <1>0, <2>1, CacheAside
<1>11. CASE HandleKeyDown
  <2>1. PICK direction \in {1, -1} :
           \/ GoToAdjacentLogLine(direction) \/ ExtendSelectionByLine(direction)
           \/ GoToMatch(direction) \/ GoToPinnedByOffset(direction)
    BY <1>11 DEF HandleKeyDown
  <2>2. UNCHANGED <<hist, written, text, levels, settledText>>
    BY <2>1 DEF GoToAdjacentLogLine, ExtendSelectionByLine, GoToMatch, GoToPinnedByOffset,
                quiet, world, view
  <2> QED
    BY <1>0, <2>2, CacheAside
<1>12. CASE UNCHANGED lvVars
  <2>1. UNCHANGED <<hist, written, text, levels, settledText>>
    BY <1>12 DEF lvVars, world, view
  <2> QED
    BY <1>0, <2>1, CacheAside
<1> QED
  BY <1>1, <1>2, <1>3, <1>4, <1>5, <1>6, <1>7, <1>8, <1>9, <1>10, <1>11, <1>12
     DEF LogViewNext

\* Marks are set in rendered rows, and gone when the effects see another source.
LEMMA MarksGoOn == MarksInv /\ [LogViewNext]_lvVars => MarksInv'
<1> SUFFICES ASSUME MarksInv, [LogViewNext]_lvVars PROVE MarksInv'
  OBVIOUS
<1>1. ASSUME UNCHANGED <<rowPins, selected, madeIn, seen>> PROVE MarksInv'
  BY <1>1 DEF MarksInv
<1>2. ASSUME Rendered, madeIn' = isHistory, seen' = seen PROVE MarksInv'
  BY <1>2 DEF MarksInv, Rendered, Now
<1>3. CASE \/ WriteLine \/ ContainersLoaded \/ HistoryStatus \/ HistoryLoads \/ HistoryAnswered
           \/ HistoryFails \/ SearchSettles \/ HandleLoadOlder \/ HandleRefresh
  <2>1. UNCHANGED <<rowPins, selected, madeIn, seen>>
    BY <1>3 DEF WriteLine, ContainersLoaded, HistoryStatus, HistoryLoads, HistoryAnswered,
                HistoryFails, SearchSettles, HandleLoadOlder, HandleRefresh, marks
  <2> QED
    BY <1>1, <2>1
<1>4. CASE LiveFlush
  <2>1. UNCHANGED <<selected, madeIn, seen>> /\ \E dropped : rowPins' = ShiftPins(rowPins, dropped)
    BY <1>4 DEF LiveFlush
  <2> QED
    BY <2>1 DEF MarksInv, ShiftPins
<1>5. CASE ViewEffects
  <2>1. seen'.isHistory = isHistory /\ madeIn' = madeIn
    BY <1>5 DEF ViewEffects, Now
  <2>2. CASE SourceChanged
    <3>1. rowPins' = {} /\ selected' = {}
      BY <1>5, <2>2 DEF ViewEffects, ClearsMarks
    <3> QED
      BY <3>1 DEF MarksInv
  <2>3. CASE ~SourceChanged
    <3>1. rowPins' = rowPins /\ (selected' = {} \/ selected' = selected) /\ isHistory = seen.isHistory
      BY <1>5, <2>3 DEF ViewEffects, ClearsMarks, SourceChanged
    <3> QED
      BY <2>1, <3>1 DEF MarksInv
  <2> QED
    BY <2>2, <2>3
<1>6. CASE SetSource \/ SetSearchText \/ ToggleLogLevel \/ ClearFilters \/ SetExcludeMatches
           \/ ToggleJsonExpanded
  <2>1. UNCHANGED <<rowPins, selected, madeIn, seen>>
    BY <1>6 DEF SetSource, SetSearchText, ToggleLogLevel, ClearFilters, SetExcludeMatches,
                ToggleJsonExpanded, marks, quiet
  <2> QED
    BY <1>1, <2>1
<1>7. CASE \/ HandleLogClick \/ HandleShiftClick \/ ClearSelection \/ HandleCopySelected
           \/ HandleTogglePinSelected
  <2>1. Rendered /\ madeIn' = isHistory /\ seen' = seen
    BY <1>7 DEF HandleLogClick, HandleShiftClick, ClearSelection, HandleCopySelected,
                HandleTogglePinSelected, Select, quiet
  <2> QED
    BY <1>2, <2>1
<1>8. CASE HandleKeyDown
  <2>1. PICK direction \in {1, -1} :
           \/ GoToAdjacentLogLine(direction) \/ ExtendSelectionByLine(direction)
           \/ GoToMatch(direction) \/ GoToPinnedByOffset(direction)
    BY <1>8 DEF HandleKeyDown
  <2>2. CASE GoToAdjacentLogLine(direction) \/ ExtendSelectionByLine(direction)
    <3>1. Rendered /\ madeIn' = isHistory /\ seen' = seen
      BY <2>2 DEF GoToAdjacentLogLine, ExtendSelectionByLine, Select, quiet
    <3> QED
      BY <1>2, <3>1
  <2>3. CASE GoToMatch(direction)
    <3>1. UNCHANGED <<rowPins, selected, madeIn, seen>>
      BY <2>3 DEF GoToMatch, quiet
    <3> QED
      BY <1>1, <3>1
  <2>4. CASE GoToPinnedByOffset(direction)
    <3>1. Rendered /\ seen' = seen /\ rowPins' = rowPins
          /\ (madeIn' = isHistory \/ (selected' = selected /\ madeIn' = madeIn))
      BY <2>4 DEF GoToPinnedByOffset, Select, quiet
    <3> QED
      BY <1>1, <1>2, <3>1
  <2> QED
    BY <2>1, <2>2, <2>3, <2>4
<1>9. CASE UNCHANGED lvVars
  <2>1. UNCHANGED <<rowPins, selected, madeIn, seen>>
    BY <1>9 DEF lvVars, marks
  <2> QED
    BY <1>1, <2>1
<1> QED
  BY <1>3, <1>4, <1>5, <1>6, <1>7, <1>8, <1>9 DEF LogViewNext

LEMMA ViewIsSound == CacheInv /\ MarksInv => HistoryViewSound
<1> SUFFICES ASSUME CacheInv, MarksInv PROVE HistoryIsOneStretch /\ MarksOfThisSource
  BY DEF HistoryViewSound
<1>1. HistoryIsOneStretch
  <2> SUFFICES ASSUME NEW key \in Keys, NEW shown, shown = FlattenHistoryPages(hist[key].pages),
                      shown # <<>>
               PROVE  /\ \A i, j \in 1 .. Len(shown) : i < j => shown[i] < shown[j]
                      /\ {shown[i] : i \in 1 .. Len(shown)} =
                           {n \in Stored(key, LastLine) : shown[1] <= n /\ n <= Last(shown)}
    BY DEF HistoryIsOneStretch
  <2>1. Stretch(key, shown)
    BY DEF CacheInv, Cached, PagesSound
  <2> QED
    BY <2>1 DEF Stretch, Ascending, In
<1>2. MarksOfThisSource
  BY DEF MarksInv, MarksOfThisSource, Rendered, Now
<1> QED
  BY <1>1, <1>2

\* log-viewer.tsx: "Pins and selection are row indices, and live rows and stored
\* rows are different data".  What the viewer shows of the store is one stretch of
\* the lines that match, without a gap or a repetition, and marks stay in the
\* source they were made in; for any lines, page size and filters, and whatever is
\* written, refetched, answered late or switched meanwhile.
THEOREM HistoryIsShownWhole == LogViewSpec => []HistoryViewSound
<1>1. LogViewInit => CacheInv /\ MarksInv
  BY ViewStarts
<1>2. CacheInv /\ MarksInv /\ [LogViewNext]_lvVars => (CacheInv /\ MarksInv)'
  BY CacheGoesOn, MarksGoOn
<1>3. CacheInv /\ MarksInv => HistoryViewSound
  BY ViewIsSound
<1> QED
  BY <1>1, <1>2, <1>3, PTL DEF LogViewSpec

-----------------------------------------------------------------------------
(* The container list *)

\* The list can be put in the order chosen: oldest first, or the other way round.
LEMMA SortedExists ==
    ASSUME NEW S \in SUBSET Nat, IsFiniteSet(S)
    PROVE  \E rows \in [1 .. Cardinality(S) -> S] : Sorted(rows)
<1> DEFINE N == Cardinality(S)
           s == InTime(S)
           up == [i \in 1 .. N |-> s[i]]
           down == [i \in 1 .. N |-> s[N + 1 - i]]
<1>1. s \in Seq(Nat) /\ Len(s) = N /\ N \in Nat /\ In(s) = S /\ Ascending(s)
  BY InTimeSound
<1> HIDE DEF s, N
<1>2. \A i \in 1 .. N : s[i] \in S
  BY <1>1 DEF In
<1>3. \A i, j \in 1 .. N : i < j => s[i] < s[j]
  BY <1>1 DEF Ascending
<1>4. CASE sort # "desc"
  <2>1. up \in [1 .. N -> S]
    BY <1>2
  <2>2. Sorted(up)
    BY <1>3, <1>4 DEF Sorted
  <2> QED
    BY <2>1, <2>2 DEF N
<1>5. CASE sort = "desc"
  <2>1. \A i \in 1 .. N : N + 1 - i \in 1 .. N
    BY <1>1
  <2>2. down \in [1 .. N -> S]
    BY <1>2, <2>1
  <2>3. ASSUME NEW i \in 1 .. N, NEW j \in 1 .. N, i < j PROVE down[i] > down[j]
    <3>1. PICK a \in 1 .. N : a = N + 1 - i
      BY <2>1
    <3>2. PICK b \in 1 .. N : b = N + 1 - j
      BY <2>1
    <3>3. b < a
      BY <1>1, <2>3, <3>1, <3>2
    <3>4. s[b] < s[a] /\ down[i] = s[a] /\ down[j] = s[b] /\ s[a] \in Nat /\ s[b] \in Nat
      BY <1>1, <1>3, <3>1, <3>2, <3>3
    <3> HIDE DEF down
    <3> QED
      BY <3>4
  <2> HIDE DEF down
  <2>4. DOMAIN down = 1 .. N
    BY <2>2
  <2>5. Sorted(down)
    BY <1>5, <2>3, <2>4 DEF Sorted
  <2> QED
    BY <2>2, <2>5 DEF N
<1> QED
  BY <1>4, <1>5

\* What the list is read from.
ListTyped ==
    /\ list = NoList \/ list \in [Containers -> States \cup {"gone"}]
    /\ stored \in SUBSET Containers /\ pageSize \in PageSizes

LEMMA PassingSound ==
    ASSUME ListTyped
    PROVE  /\ Passing \in SUBSET Nat /\ IsFiniteSet(Passing) /\ Cardinality(Passing) \in Nat
           /\ liveContainers \subseteq Containers
<1>1. liveContainers \subseteq Containers
  BY DEF liveContainers, ListTyped, NoList
<1>2. Passing \subseteq Containers
  BY <1>1 DEF Passing, selectVisibleContainers, synthesizeRemovedContainers, ListTyped
<1>3. IsFiniteSet(Passing)
  BY <1>2, ListAssumption, FS_Subset
<1>4. Cardinality(Passing) \in Nat
  BY <1>3, FS_CardinalityType
<1> QED
  BY <1>1, <1>2, <1>3, <1>4, ListAssumption

\* A list in order has no container twice, so it has them all.
LEMMA FilteredSound ==
    ASSUME ListTyped
    PROVE  /\ filteredContainers \in Seq(Passing)
           /\ Len(filteredContainers) = Cardinality(Passing)
           /\ {filteredContainers[i] : i \in DOMAIN filteredContainers} = Passing
<1> DEFINE N == Cardinality(Passing)
           f == filteredContainers
<1>1. Passing \in SUBSET Nat /\ IsFiniteSet(Passing) /\ N \in Nat
  BY PassingSound
<1>2. \E rows \in [1 .. N -> Passing] : Sorted(rows)
  BY <1>1, SortedExists
<1>3. f \in [1 .. N -> Passing] /\ Sorted(f)
  BY <1>2 DEF filteredContainers
<1> HIDE DEF f
<1>4. \A i, j \in 1 .. N : i < j => f[i] # f[j]
  <2> SUFFICES ASSUME NEW i \in 1 .. N, NEW j \in 1 .. N, i < j PROVE f[i] # f[j]
    OBVIOUS
  <2>1. f[i] \in Nat /\ f[j] \in Nat
    BY <1>1, <1>3
  <2>2. IF sort = "desc" THEN f[i] > f[j] ELSE f[i] < f[j]
    BY <1>3 DEF Sorted
  <2> QED
    BY <2>1, <2>2
<1> HIDE DEF N
<1>5. \A i, j \in 1 .. N : f[i] = f[j] => i = j
  <2>1. \A i, j \in 1 .. N : i < j \/ j < i \/ i = j
    BY <1>1
  <2> QED
    BY <1>4, <2>1
<1>6. IsFiniteSet(1 .. N) /\ Cardinality(1 .. N) = N
  <2>1. IsFiniteSet(1 .. N) /\ Cardinality(1 .. N) = IF 1 > N THEN 0 ELSE N - 1 + 1
    BY <1>1, FS_Interval, 1 \in Int, N \in Int
  <2> QED
    BY <1>1, <2>1
<1>7. ASSUME NEW c \in Passing PROVE \E i \in 1 .. N : f[i] = c
  <2> SUFFICES ASSUME \A i \in 1 .. N : f[i] # c PROVE FALSE
    OBVIOUS
  <2> DEFINE T == Passing \ {c}
  <2>1. f \in [1 .. N -> T]
    BY <1>3
  <2>2. IsFiniteSet(T) /\ Cardinality(T) = N - 1
    BY <1>1, FS_RemoveElement DEF N
  <2>3. Cardinality(1 .. N) > Cardinality(T)
    BY <1>1, <1>6, <2>2
  <2> HIDE DEF T
  <2>4. \E x, y \in 1 .. N : x # y /\ f[x] = f[y]
    BY <1>6, <2>1, <2>2, <2>3, FS_PigeonHole
  <2> QED
    BY <1>5, <2>4
<1>8. DOMAIN f = 1 .. N /\ {f[i] : i \in 1 .. N} = Passing
  BY <1>3, <1>7
<1>9. f \in Seq(Passing) /\ Len(f) = N
  BY <1>1, <1>3
<1> QED
  BY <1>8, <1>9 DEF f, N

\* How many rows the first p pages have.
RowsUpTo(p) == IF p * pageSize > Len(filteredContainers) THEN Len(filteredContainers)
               ELSE p * pageSize

-----------------------------------------------------------------------------
LEMMA Quotient ==
    ASSUME NEW n \in Nat, NEW k \in Nat \ {0}
    PROVE  /\ n \div k \in Nat /\ (n \div k) * k <= n /\ n < (n \div k) * k + k
  BY SMTT(30)

\* Each page begins where the one before ends, and the last has the last row.
LEMMA PageEnds ==
    ASSUME ListTyped
    PROVE  /\ totalPages \in Nat /\ totalPages > 0
           /\ \A p \in 0 .. totalPages : RowsUpTo(p) \in 0 .. Len(filteredContainers)
           /\ RowsUpTo(0) = 0 /\ RowsUpTo(totalPages) = Len(filteredContainers)
           /\ \A p \in 1 .. totalPages :
                 /\ RowsUpTo(p - 1) <= RowsUpTo(p)
                 /\ filteredContainers # <<>> => RowsUpTo(p - 1) < RowsUpTo(p)
                 /\ PageItems(p) =
                      SubSeq(filteredContainers, RowsUpTo(p - 1) + 1, RowsUpTo(p))
<1> DEFINE s == filteredContainers
           n == Len(s)
           k == pageSize
           t == totalPages
<1>1. n \in Nat /\ s \in Seq(Passing) /\ k \in Nat /\ k > 0 /\ (s = <<>> <=> n = 0)
  <2>1. s \in Seq(Passing) /\ n = Cardinality(Passing) /\ n \in Nat
    BY FilteredSound, PassingSound
  <2>2. k \in Nat /\ k > 0
    BY ListAssumption DEF ListTyped
  <2> QED
    BY <2>1, <2>2
<1>2. RowsUpTo(0) = 0 /\ \A p : RowsUpTo(p) = IF p * k > n THEN n ELSE p * k
  BY <1>1 DEF RowsUpTo
<1>3. /\ t \in Nat /\ t > 0 /\ t * k >= n
      /\ s # <<>> => (t - 1) * k < n
  <2>1. CASE s = <<>>
    <3>1. t = 1
      BY <2>1 DEF totalPages
    <3> QED
      BY <1>1, <2>1, <3>1
  <2>2. CASE s # <<>>
    <3>1. t = (n + k - 1) \div k
      BY <2>2 DEF totalPages
    <3>2. n + k - 1 \in Nat
      BY <1>1
    <3>3. t \in Nat /\ t * k <= n + k - 1 /\ n + k - 1 < t * k + k
      <4> HIDE DEF n, k, t
      <4>1. PICK m \in Nat : m = n + k - 1
        BY <3>2
      <4>2. t = m \div k /\ k \in Nat \ {0}
        BY <1>1, <3>1, <4>1
      <4>3. m \div k \in Nat /\ (m \div k) * k <= m /\ m < (m \div k) * k + k
        BY <4>2, Quotient
      <4> QED
        BY <4>1, <4>2, <4>3
    <3>4. t > 0
      <4>1. t = 0 => t * k = 0
        BY <1>1
      <4> QED
        BY <1>1, <2>2, <3>3, <4>1
    <3>5. (t - 1) * k = t * k - k
      BY <1>1, <3>3
    <3> QED
      BY <1>1, <3>3, <3>4, <3>5
  <2> QED
    BY <2>1, <2>2
<1> HIDE DEF s, n, k, t
<1>4. ASSUME NEW p \in Nat PROVE p * k \in Nat /\ RowsUpTo(p) \in 0 .. n
  <2>1. p * k \in Nat
    BY <1>1
  <2> QED
    BY <1>1, <1>2, <2>1
<1>5. RowsUpTo(t) = n
  <2>1. t * k \in Nat /\ t * k >= n
    BY <1>3, <1>4
  <2> QED
    BY <1>1, <1>2, <2>1
<1>6. ASSUME NEW p \in 1 .. t
      PROVE  /\ RowsUpTo(p - 1) <= RowsUpTo(p)
             /\ s # <<>> => RowsUpTo(p - 1) < RowsUpTo(p)
             /\ PageItems(p) = SubSeq(s, RowsUpTo(p - 1) + 1, RowsUpTo(p))
  <2>1. p \in Nat /\ p - 1 \in Nat /\ p - 1 <= t - 1
    BY <1>3
  <2>2. (p - 1) * k \in Nat /\ p * k \in Nat /\ p * k = (p - 1) * k + k
    BY <1>1, <2>1
  <2>3. s # <<>> => (p - 1) * k < n
    <3>1. (p - 1) * k <= (t - 1) * k
      BY <1>1, <1>3, <2>1
    <3>2. (t - 1) * k \in Nat
      BY <1>1, <1>3
    <3> QED
      BY <1>1, <1>3, <2>2, <3>1, <3>2
  <2>4. PICK a \in Nat : a = (p - 1) * k
    BY <2>2
  <2>5. PICK b \in Nat : b = p * k
    BY <2>2
  <2>6. RowsUpTo(p - 1) = (IF a > n THEN n ELSE a) /\ RowsUpTo(p) = IF b > n THEN n ELSE b
    BY <1>2, <2>4, <2>5
  <2>7. PageItems(p) = SubSeq(s, RowsUpTo(p - 1) + 1, RowsUpTo(p))
    <3>1. PageItems(p) = Slice(s, a, b)
      BY <2>4, <2>5 DEF PageItems, s, k
    <3>2. ~(a < 0) /\ ~(b < 0)
      BY <2>4
    <3> QED
      BY <2>6, <3>1, <3>2 DEF Slice, n
  <2>8. b = a + k /\ (s # <<>> => a < n)
    BY <2>2, <2>3, <2>4, <2>5
  <2>9. IF a > n THEN TRUE ELSE (a < n => a < IF b > n THEN n ELSE b)
    BY <1>1, <2>4, <2>5, <2>8
  <2>10. RowsUpTo(p - 1) <= RowsUpTo(p)
    BY <1>1, <2>4, <2>5, <2>6, <2>8
  <2>11. s # <<>> => RowsUpTo(p - 1) < RowsUpTo(p)
    BY <1>1, <2>4, <2>5, <2>6, <2>8
  <2> QED
    BY <2>7, <2>10, <2>11
<1>7. \A p \in 0 .. t : p \in Nat
  BY <1>3
<1> QED
  BY <1>2, <1>3, <1>4, <1>5, <1>6, <1>7 DEF s, n, t

\* The pages one behind the other.
Joined(f) == f = [p \in 0 .. totalPages |-> IF p = 0 THEN <<>> ELSE f[p - 1] \o PageItems(p)]

\* Every list of pages so joined is the list of rows: by the least page whose end
\* is not.
LEMMA PagesCoverRows ==
    ASSUME ListTyped
    PROVE  \E f : Joined(f) /\ \A h : Joined(h) => h[totalPages] = filteredContainers
<1> DEFINE s == filteredContainers
           n == Len(s)
           t == totalPages
           f == [p \in 0 .. t |-> SubSeq(s, 1, RowsUpTo(p))]
<1>1. n \in Nat /\ s \in Seq(Passing)
  BY FilteredSound, PassingSound
<1>2. /\ t \in Nat /\ t > 0
      /\ \A p \in 0 .. t : RowsUpTo(p) \in 0 .. n
      /\ RowsUpTo(0) = 0 /\ RowsUpTo(t) = n
      /\ \A p \in 1 .. t :
            /\ RowsUpTo(p - 1) <= RowsUpTo(p)
            /\ PageItems(p) = SubSeq(s, RowsUpTo(p - 1) + 1, RowsUpTo(p))
  BY PageEnds
<1> HIDE DEF s, n, t
<1>3. SubSeq(s, 1, 0) = <<>> /\ SubSeq(s, 1, n) = s
  BY <1>1, SubSeqEmpty, SubSeqFull DEF n
<1>4. ASSUME NEW p \in 1 .. t
      PROVE  SubSeq(s, 1, RowsUpTo(p)) = SubSeq(s, 1, RowsUpTo(p - 1)) \o PageItems(p)
  <2>1. p \in 0 .. t /\ p - 1 \in 0 .. t
    BY <1>2
  <2>2. PICK a \in 0 .. n : a = RowsUpTo(p - 1)
    BY <1>2, <2>1
  <2>3. PICK b \in 0 .. n : b = RowsUpTo(p)
    BY <1>2, <2>1
  <2>4. a <= b /\ PageItems(p) = SubSeq(s, a + 1, b)
    BY <1>2, <2>2, <2>3
  <2>5. 1 \in 1 .. Len(s) + 1 /\ a \in 1 - 1 .. Len(s) /\ b \in a .. Len(s)
    BY <1>1, <2>4 DEF n
  <2>6. SubSeq(s, 1, a) \o SubSeq(s, a + 1, b) = SubSeq(s, 1, b)
    BY <1>1, <2>5, ConcatAdjacentSubSeq
  <2> QED
    BY <2>2, <2>3, <2>4, <2>6
<1>5. \A p \in 0 .. t : p # 0 => p \in 1 .. t /\ p - 1 \in 0 .. t
  BY <1>2
<1>6. Joined(f)
  <2>1. ASSUME NEW p \in 0 .. t PROVE f[p] = IF p = 0 THEN <<>> ELSE f[p - 1] \o PageItems(p)
    <3>1. CASE p = 0
      BY <1>2, <1>3, <3>1
    <3>2. CASE p # 0
      BY <1>4, <1>5, <3>2
    <3> QED
      BY <3>1, <3>2
  <2> HIDE DEF f
  <2>2. f = [p \in 0 .. t |-> f[p]]
    BY DEF f
  <2> QED
    BY <2>1, <2>2 DEF Joined, t
<1>7. ASSUME NEW h, Joined(h) PROVE h[t] = s
  <2>1. \A p \in 0 .. t : h[p] = IF p = 0 THEN <<>> ELSE h[p - 1] \o PageItems(p)
    BY <1>7 DEF Joined, t
  <2> DEFINE T == {p \in 0 .. t : h[p] # SubSeq(s, 1, RowsUpTo(p))}
  <2>2. t \notin T
    <3> SUFFICES ASSUME t \in T PROVE FALSE
      OBVIOUS
    <3>1. T \in SUBSET Nat
      OBVIOUS
    <3> HIDE DEF T
    <3>2. PICK p \in T : \A m \in T : p <= m
      BY <3>1, LeastNumber
    <3>3. p \in 0 .. t /\ h[p] # SubSeq(s, 1, RowsUpTo(p))
      BY <3>2 DEF T
    <3>4. p # 0 => p \in 1 .. t /\ p - 1 \in 0 .. t /\ p - 1 \notin T
      BY <1>2, <3>2, <3>3
    <3>5. p # 0 => h[p - 1] = SubSeq(s, 1, RowsUpTo(p - 1))
      BY <3>4 DEF T
    <3> QED
      BY <1>2, <1>3, <1>4, <2>1, <3>3, <3>4, <3>5
  <2>3. h[t] = SubSeq(s, 1, RowsUpTo(t))
    BY <1>2, <2>2
  <2> QED
    BY <1>2, <1>3, <2>3
<1> QED
  BY <1>6, <1>7 DEF s, t

LEMMA RowsAreOnOnePage == ASSUME ListTyped PROVE RowsOnOnePage
<1> DEFINE join == CHOOSE f : Joined(f)
           items == pageItems
           groups == groupByCompose(items)
<1>1. join[totalPages] = filteredContainers
  <2>1. Joined(join)
    BY PagesCoverRows
  <2> HIDE DEF join
  <2> QED
    BY <2>1, PagesCoverRows
<1>2. {filteredContainers[i] : i \in DOMAIN filteredContainers} = Passing
  BY FilteredSound
<1>3. ASSUME pageNo \in 1 .. totalPages, filteredContainers # <<>> PROVE pageItems # <<>>
  <2> DEFINE a == RowsUpTo(pageNo - 1)
             b == RowsUpTo(pageNo)
             s == filteredContainers
  <2>1. /\ totalPages \in Nat /\ pageNo \in 0 .. totalPages /\ pageNo - 1 \in 0 .. totalPages
    BY <1>3, PageEnds
  <2>2. /\ a \in 0 .. Len(s) /\ b \in 0 .. Len(s) /\ a < b
        /\ pageItems = SubSeq(s, a + 1, b) /\ s \in Seq(Passing)
    BY <1>3, <2>1, PageEnds, FilteredSound DEF pageItems
  <2> HIDE DEF a, b, s
  <2>3. Len(s) \in Nat
    BY <2>2
  <2>4. \A i \in a + 1 .. b : s[i] \in Passing
    BY <2>2, <2>3
  <2>5. Len(SubSeq(s, a + 1, b)) = b - (a + 1) + 1
    BY <2>2, <2>3, <2>4, SubSeqProperties
  <2> QED
    BY <2>2, <2>3, <2>5
<1> HIDE DEF items
<1>4. ASSUME NEW i \in DOMAIN items
      PROVE  {p \in DOMAIN groups : i \in groups[p]} = {ProjectOf[items[i]]}
  BY DEF groupByCompose
<1>5. join = CHOOSE rows :
        rows = [p \in 0 .. totalPages |-> IF p = 0 THEN <<>> ELSE rows[p - 1] \o PageItems(p)]
  BY DEF Joined
<1> HIDE DEF join
<1> QED
  BY <1>1, <1>2, <1>3, <1>4, <1>5 DEF RowsOnOnePage, items

LEMMA ChipsAreRight == ASSUME ListTyped PROVE ChipsTellTheRows
<1> SUFFICES ASSUME stateFilter # "all"
             PROVE  countContainerStates(stateFilter) = Len(filteredContainers)
  BY DEF ChipsTellTheRows
<1>1. Len(filteredContainers) = Cardinality(Passing)
  BY FilteredSound
<1>2. ASSUME stateFilter = "removed"
      PROVE  Passing = {c \in synthesizeRemovedContainers : matchesFilters(c)}
  BY <1>2 DEF Passing, selectVisibleContainers, matchesState, StateOf, synthesizeRemovedContainers
<1>3. ASSUME stateFilter # "removed"
      PROVE  Passing = {c \in {d \in liveContainers : list[d] = stateFilter} : matchesFilters(c)}
  BY <1>3 DEF Passing, selectVisibleContainers, matchesState, StateOf
<1> QED
  BY <1>1, <1>2, <1>3 DEF countContainerStates

-----------------------------------------------------------------------------
HostStates == [Containers -> States \cup {"gone"}]

\* What is in the list is as old as it says, and a reading on its way is no older.
ListInv ==
    /\ ListTyped
    /\ onHost \in HostStates
    /\ changes \in Nat /\ asOf \in 0 .. changes /\ heard \in 0 .. changes
    /\ events \in Seq(Nat) /\ \A i \in 1 .. Len(events) : events[i] <= changes
    /\ heard # 0 => Loaded
    /\ \/ fetch = Idle
       \/ fetch = Sent
       \/ fetch.phase = "read" /\ fetch.snap \in HostStates /\ fetch.upto \in asOf .. changes
    /\ EventReflected

LEMMA ListStarts == ContainersListInit => ListInv
<1> SUFFICES ASSUME ContainersListInit PROVE ListInv
  OBVIOUS
<1>1. PICK page : DashboardMounts([c \in Containers |-> "running"], page, 0)
  BY DEF ContainersListInit
<1>2. pageSize \in PageSizes
  <2>1. PageSizes \in SUBSET Nat /\ PageSizes # {}
    BY ListAssumption
  <2>2. \E n \in PageSizes : \A m \in PageSizes : n <= m
    BY <2>1, LeastNumber
  <2> QED
    BY <1>1, <2>2 DEF DashboardMounts, LowestSize
<1>3. list = NoList /\ stored = {} /\ onHost \in HostStates
  BY <1>1 DEF DashboardMounts, HostStates, States
<1>4. changes = 0 /\ asOf = 0 /\ heard = 0 /\ fetch = Sent /\ events = <<>>
  BY <1>1 DEF DashboardMounts
<1> QED
  BY <1>2, <1>3, <1>4 DEF ListInv, ListTyped, EventReflected

\* A list that is there stays different from none.
LEMMA ListStaysLoaded ==
    ASSUME ListInv, list' \in HostStates, Loaded
    PROVE  Loaded'
<1>1. list \in HostStates /\ list # NoList
  BY DEF ListInv, ListTyped, Loaded, HostStates
<1>2. Containers # {}
  BY <1>1 DEF HostStates, NoList
<1> QED
  BY <1>2 DEF HostStates, NoList, Loaded

\* Only the view changes.
LEMMA ListAside ==
    ASSUME ListInv, UNCHANGED <<onHost, stored, events, debounce, fetch, list, asOf, heard, changes>>,
           pageSize' \in PageSizes
    PROVE  ListInv'
  BY DEF ListInv, ListTyped, EventReflected, Loaded, HostStates

\* A request begins, is begun again, or none does.
LEMMA RequestBegins ==
    ASSUME ListInv, UNCHANGED <<onHost, stored, events, list, asOf, heard, changes, pageSize>>,
           \/ fetch' = fetch /\ debounce' = debounce
           \/ fetch' = Sent
           \/ fetch' = fetch /\ fetch = Sent
           \/ fetch' = fetch /\ ~Loaded
    PROVE  ListInv'
<1>1. EventReflected'
  <2>1. CASE fetch' = fetch /\ debounce' = debounce
    BY <2>1 DEF ListInv, EventReflected
  <2>2. CASE fetch' = Sent
    BY <2>2 DEF EventReflected, Sent
  <2>3. CASE fetch' = fetch /\ fetch = Sent
    BY <2>3 DEF EventReflected, Sent
  <2>4. CASE fetch' = fetch /\ ~Loaded
    <3>1. heard = 0 /\ asOf \in Nat
      BY <2>4 DEF ListInv
    <3> QED
      BY <3>1 DEF EventReflected
  <2> QED
    BY <2>1, <2>2, <2>3, <2>4
<1>2. fetch' = fetch \/ fetch' = Sent
  OBVIOUS
<1> QED
  BY <1>1, <1>2 DEF ListInv, ListTyped, Loaded, HostStates

LEMMA ListGoesOn == ListInv /\ [ContainersListNext]_clVars => ListInv'
<1> SUFFICES ASSUME ListInv, [ContainersListNext]_clVars PROVE ListInv'
  OBVIOUS
<1> DEFINE read == fetch.phase = "read" /\ fetch.snap \in HostStates /\ fetch.upto \in asOf .. changes
<1>0. /\ onHost \in HostStates /\ changes \in Nat /\ asOf \in 0 .. changes /\ heard \in 0 .. changes
      /\ pageSize \in PageSizes /\ (fetch = Idle \/ fetch = Sent \/ read)
      /\ events \in Seq(Nat) /\ \A i \in 1 .. Len(events) : events[i] <= changes
  BY DEF ListInv, ListTyped
<1>1. CASE Change
  <2>1. /\ changes' = changes + 1
        /\ \E c \in Containers : \E s \in States \cup {"gone"} : onHost' = [onHost EXCEPT ![c] = s]
        /\ UNCHANGED <<stored, debounce, fetch, list, asOf, heard, pageSize>>
    BY <1>1 DEF Change, query, urlState
  <2>2. events' = events \/ events' = Append(events, changes')
    BY <1>1 DEF Change
  <2>3. onHost' \in HostStates
    BY <1>0, <2>1 DEF HostStates
  <2>4. changes' \in Nat /\ changes <= changes'
    BY <1>0, <2>1
  <2>5. events' \in Seq(Nat) /\ \A i \in 1 .. Len(events') : events'[i] <= changes'
    <3>1. CASE events' = events
      <4>1. \A i \in 1 .. Len(events) : events[i] \in Nat
        BY <1>0
      <4> QED
        BY <1>0, <2>4, <3>1, <4>1
    <3>2. CASE events' = Append(events, changes')
      <4>1. /\ Append(events, changes') \in Seq(Nat)
            /\ Len(Append(events, changes')) = Len(events) + 1
            /\ Append(events, changes')[Len(events) + 1] = changes'
            /\ \A i \in 1 .. Len(events) : Append(events, changes')[i] = events[i]
        BY <1>0, <2>4, AppendProperties
      <4>2. Len(events) \in Nat /\ \A i \in 1 .. Len(events) : events[i] \in Nat
        BY <1>0
      <4>3. \A i \in 1 .. Len(events) + 1 : i \in 1 .. Len(events) \/ i = Len(events) + 1
        BY <4>2
      <4>4. \A i \in 1 .. Len(events) : events[i] <= changes'
        BY <1>0, <2>4, <4>2
      <4> QED
        BY <2>4, <3>2, <4>1, <4>3, <4>4
    <3> QED
      BY <2>2, <3>1, <3>2
  <2>6. asOf' \in 0 .. changes' /\ heard' \in 0 .. changes'
    BY <1>0, <2>1, <2>4
  <2>7. fetch' = Idle \/ fetch' = Sent
        \/ (fetch'.phase = "read" /\ fetch'.snap \in HostStates /\ fetch'.upto \in asOf' .. changes')
    BY <1>0, <2>1, <2>4
  <2>8. EventReflected' /\ ListTyped' /\ (heard' # 0 => Loaded')
    BY <2>1 DEF ListInv, ListTyped, EventReflected, Loaded
  <2> QED
    BY <2>3, <2>4, <2>5, <2>6, <2>7, <2>8 DEF ListInv, HostStates
<1>2. CASE StreamOpens
  BY <1>0, <1>2, ListAside DEF StreamOpens, query, urlState
<1>3. CASE StreamEnds \/ Hide
  <2>1. events' = <<>>
        /\ UNCHANGED <<onHost, stored, debounce, fetch, list, asOf, heard, changes, pageSize>>
    BY <1>3 DEF StreamEnds, Hide, query, urlState
  <2>2. events' \in Seq(Nat) /\ \A i \in 1 .. Len(events') : events'[i] <= changes'
    BY <2>1
  <2> QED
    BY <2>1, <2>2 DEF ListInv, ListTyped, EventReflected, Loaded, HostStates
<1>4. CASE Show
  <2>1. UNCHANGED <<onHost, stored, events, debounce, list, asOf, heard, changes, pageSize>>
        /\ (fetch' = fetch \/ fetch' = StartIfIdle)
    BY <1>4 DEF Show, urlState
  <2> QED
    BY <2>1, RequestBegins DEF StartIfIdle
<1>5. CASE EventDelivered
  <2>1. /\ events # <<>> /\ events' = Tail(events) /\ debounce' = TRUE
        /\ heard' = IF Loaded THEN Head(events) ELSE heard
        /\ UNCHANGED <<onHost, stored, fetch, list, asOf, changes, pageSize>>
    BY <1>5 DEF EventDelivered, urlState
  <2>2. Len(events) \in Nat /\ Len(events) > 0 /\ \A i \in 1 .. Len(events) : events[i] \in Nat
    BY <1>0, <2>1
  <2>3. heard' \in 0 .. changes
    <3>1. 1 \in 1 .. Len(events) /\ Head(events) = events[1]
      BY <1>0, <2>1, <2>2
    <3>2. Head(events) \in 0 .. changes
      BY <1>0, <2>2, <3>1
    <3> QED
      BY <1>0, <2>1, <3>2
  <2>4. events' \in Seq(Nat) /\ \A i \in 1 .. Len(events') : events'[i] <= changes
    <3>1. /\ Tail(events) \in Seq(Nat) /\ Len(Tail(events)) = Len(events) - 1
          /\ \A i \in 1 .. Len(Tail(events)) : Tail(events)[i] = events[i + 1]
      BY <1>0, <2>1, HeadTailProperties
    <3>2. \A i \in 1 .. Len(events) - 1 : i + 1 \in 1 .. Len(events)
      BY <2>2
    <3> QED
      BY <1>0, <2>1, <3>1, <3>2
  <2>5. heard' # 0 => Loaded'
    BY <2>1 DEF ListInv, Loaded
  <2>6. EventReflected'
    BY <2>1 DEF EventReflected
  <2> QED
    BY <2>1, <2>3, <2>4, <2>5, <2>6 DEF ListInv, ListTyped, HostStates
<1>6. CASE InvalidateAfterDebounce \/ Refetch
  <2>1. UNCHANGED <<onHost, stored, events, list, asOf, heard, changes, pageSize>>
        /\ fetch' = StartOrRestart
    BY <1>6 DEF InvalidateAfterDebounce, Refetch, urlState
  <2> QED
    BY <2>1, RequestBegins DEF StartOrRestart
<1>7. CASE Poll
  <2>1. UNCHANGED <<onHost, stored, events, list, asOf, heard, changes, pageSize>> /\ fetch' = Sent
    BY <1>7 DEF Poll, urlState
  <2> QED
    BY <2>1, RequestBegins
<1>8. CASE ServerReads
  <2>1. /\ fetch' = [phase |-> "read", snap |-> onHost, upto |-> changes]
        /\ UNCHANGED <<onHost, stored, events, debounce, list, asOf, heard, changes, pageSize>>
    BY <1>8 DEF ServerReads, urlState
  <2>2. fetch'.phase = "read" /\ fetch'.snap \in HostStates /\ fetch'.upto \in asOf .. changes
        /\ fetch'.upto >= heard
    BY <1>0, <2>1
  <2> QED
    BY <2>1, <2>2 DEF ListInv, ListTyped, EventReflected, Loaded, HostStates
<1>9. CASE ListArrives
  <2>1. /\ fetch.phase = "read" /\ list' = fetch.snap /\ asOf' = fetch.upto /\ fetch' = Idle
        /\ UNCHANGED <<onHost, stored, events, debounce, heard, changes, pageSize>>
    BY <1>9 DEF ListArrives, urlState
  <2>2. fetch.snap \in HostStates /\ fetch.upto \in asOf .. changes
    BY <1>0, <2>1 DEF Idle, Sent
  <2>3. heard' # 0 => Loaded'
    BY <2>1, <2>2, ListStaysLoaded DEF ListInv
  <2>4. asOf' \in 0 .. changes
    BY <1>0, <2>1, <2>2
  <2>5. EventReflected'
    <3> SUFFICES ASSUME heard > asOf' PROVE debounce
      BY <2>1 DEF EventReflected
    <3>1. heard > asOf /\ ~(fetch.upto >= heard)
      BY <1>0, <2>1, <2>2
    <3> QED
      BY <2>1, <3>1 DEF ListInv, EventReflected
  <2> QED
    BY <2>1, <2>2, <2>3, <2>4, <2>5 DEF ListInv, ListTyped, HostStates
<1>10. CASE ListFails
  <2>1. /\ fetch' = Idle /\ heard' = 0
        /\ UNCHANGED <<onHost, stored, events, debounce, list, asOf, changes, pageSize>>
    BY <1>10 DEF ListFails, urlState
  <2>2. ~(heard' > asOf') /\ heard' \in 0 .. changes
    BY <1>0, <2>1
  <2> QED
    BY <2>1, <2>2 DEF ListInv, ListTyped, EventReflected, Loaded, HostStates
<1>11. CASE StoredArrives
  <2>1. /\ stored' \in SUBSET Containers
        /\ UNCHANGED <<onHost, events, debounce, fetch, list, asOf, heard, changes, pageSize>>
    BY <1>11 DEF StoredArrives, query, urlState
  <2> QED
    BY <2>1 DEF ListInv, ListTyped, EventReflected, Loaded, HostStates
<1>12. CASE \/ SetSearchTerm \/ SetStateFilter \/ SetHostFilter \/ SetDateRange
            \/ SetSortDirection \/ SetGroupBy \/ HandlePageClick \/ SetPageSize \/ ClampPage
  <2>1. UNCHANGED <<onHost, stored, events, debounce, fetch, list, asOf, heard, changes>>
    BY <1>12 DEF SetSearchTerm, SetStateFilter, SetHostFilter, SetDateRange, SetSortDirection,
                 SetGroupBy, HandlePageClick, SetPageSize, ClampPage, ViewOnly, query
  <2>2. pageSize' = pageSize \/ pageSize' \in PageSizes
    BY <1>12 DEF SetSearchTerm, SetStateFilter, SetHostFilter, SetDateRange, SetSortDirection,
                 SetGroupBy, HandlePageClick, SetPageSize, ClampPage
  <2>3. pageSize' \in PageSizes
    BY <1>0, <2>2
  <2> QED
    BY <2>1, <2>3, ListAside
<1>13. CASE UNCHANGED clVars
  BY <1>0, <1>13, ListAside DEF clVars, query, urlState
<1> QED
  BY <1>1, <1>2, <1>3, <1>4, <1>5, <1>6, <1>7, <1>8, <1>9, <1>10, <1>11, <1>12, <1>13
     DEF ContainersListNext

\* use-containers-query.ts, use-live-containers.ts and the dashboard: while the list
\* is older than an event it heard, a reading that will see it is due; every row
\* that passes the filters is on one page that can be reached; and the chips count
\* the rows they list.  For any containers, page sizes and filters, whatever
\* events, polls, answers and failures come in whichever order.
THEOREM ListStaysCurrent == ContainersListSpec => []ListIsCurrent
<1>1. ContainersListInit => ListInv
  BY ListStarts
<1>2. ListInv /\ [ContainersListNext]_clVars => ListInv'
  BY ListGoesOn
<1>3. ListInv => ListIsCurrent
  BY RowsAreOnOnePage, ChipsAreRight DEF ListInv, ListIsCurrent, RowsReachable
<1> QED
  BY <1>1, <1>2, <1>3, PTL DEF ContainersListSpec
=============================================================================
