-------------------------- MODULE ContainerActions --------------------------
(***************************************************************************)
(* What the dashboard does to containers: the row buttons with their       *)
(* confirmation, the compose group buttons, deleting a removed container's *)
(* stored logs, and the logs sheet, whose container can be recreated under *)
(* it.  The handlers are asynchronous: the list and the dialogs go on      *)
(* changing while a request is on its way.                                 *)
(***************************************************************************)
EXTENDS Integers, FiniteSets

CONSTANTS
    Rows,           \* containers in the list
    StackHosts,     \* the hosts a compose group on the page spans
    Removed,        \* removed containers with stored logs
    MaxOps          \* bound: requests the user makes

VARIABLES
    isReadOnly,
    rowState,       \* the state of each row's container, as listed
    pendingActions, \* the spinner of each row, by container id
    ops,            \* history: the actions on their way
    confirmAction,  \* the action to be confirmed, or NoAction
    pendingCompose, \* the group action whose spinner turns, or 0
    calls,          \* history: the calls to the group's hosts on their way
    purgeTarget, purges,    \* the dialog's target; the deletions on their way
    isLogsSheetOpen, selectedContainer,
    env,            \* an environment update of the sheet's container
    made            \* how many requests the user made

dialogs == <<confirmAction, purgeTarget>>
sheet == <<isLogsSheetOpen, selectedContainer, env>>
compose == <<pendingCompose, calls>>
caVars == <<isReadOnly, rowState, pendingActions, ops, dialogs, compose, purges, sheet, made>>

None == "none"
NoAction == [type |-> None, container |-> None]
Types == {"start", "stop", "restart", "remove"}
Listed == {c \in Rows : rowState[c] # "gone"}

\* Dialogs and the sheet are modal.
TableReachable == confirmAction = NoAction /\ purgeTarget = None /\ ~isLogsSheetOpen
Requests == made < MaxOps /\ made' = made + 1

\* Mutant: the buttons do not look at the spinner.
NeverBusy(c) == FALSE

isBusy(c) == c \in DOMAIN pendingActions

\* ActionButton, and the buttons a row has.
offersAction(type, c) ==
    /\ ~isBusy(c) /\ ~isReadOnly /\ c \in Listed
    /\ type = "start" => rowState[c] = "exited"
    /\ type = "stop" => rowState[c] = "running"
offersLogs(c) == ~isBusy(c) /\ c \in Listed
offersCompose == pendingCompose = 0 /\ ~isReadOnly

beginPending(c, type) ==
    pendingActions' = [d \in DOMAIN pendingActions \cup {c} |->
                          IF d = c THEN type ELSE pendingActions[d]]

\* Mutant: one spinner for the whole table.
ClearPending(c) == pendingActions' = [d \in {} |-> None]

endPending(c) ==
    pendingActions' = [d \in DOMAIN pendingActions \ {c} |-> pendingActions[d]]

isConfirmActionPending ==
    /\ confirmAction # NoAction
    /\ isBusy(confirmAction.container)
    /\ pendingActions[confirmAction.container] = confirmAction.type

-----------------------------------------------------------------------------
ContainerActionsInit ==
    /\ isReadOnly \in BOOLEAN
    /\ rowState \in [Rows -> {"running", "exited"}]
    /\ pendingActions = [c \in {} |-> None] /\ ops = {}
    /\ confirmAction = NoAction
    /\ pendingCompose = 0 /\ calls = {}
    /\ purgeTarget = None /\ purges = {}
    /\ isLogsSheetOpen = FALSE /\ selectedContainer = None /\ env = None
    /\ made = 0

-----------------------------------------------------------------------------
(* Row actions.                                                            *)

\* executeAction up to its first await.
executeAction(type, c) ==
    /\ Requests
    /\ beginPending(c, type)
    /\ ops' = ops \cup {[type |-> type, container |-> c, phase |-> "acting",
                         confirms |-> confirmAction # NoAction]}

\* Start and restart run at once.
StartOrRestartContainer ==
    \E c \in Rows, type \in {"start", "restart"} :
        /\ TableReachable /\ offersAction(type, c)
        /\ executeAction(type, c)
        /\ UNCHANGED <<isReadOnly, rowState, dialogs, compose, purges, sheet>>

\* Stop and remove ask first.
StopOrDeleteContainer ==
    \E c \in Rows, type \in {"stop", "remove"} :
        /\ TableReachable /\ offersAction(type, c)
        /\ confirmAction' = [type |-> type, container |-> c]
        /\ UNCHANGED <<isReadOnly, rowState, pendingActions, ops, purgeTarget, compose,
                       purges, sheet, made>>

\* confirmPendingAction: the button is disabled while it runs.
ConfirmPendingAction ==
    /\ confirmAction # NoAction /\ ~isConfirmActionPending
    /\ executeAction(confirmAction.type, confirmAction.container)
    /\ UNCHANGED <<isReadOnly, rowState, dialogs, compose, purges, sheet>>

\* Escape closes the dialog also while the action runs.
HandleConfirmDialogClose ==
    /\ confirmAction # NoAction
    /\ confirmAction' = NoAction
    /\ UNCHANGED <<isReadOnly, rowState, pendingActions, ops, purgeTarget, compose, purges,
                   sheet, made>>

After(type, state) ==
    CASE type = "stop" -> "exited" [] type = "remove" -> "gone" [] OTHER -> "running"

\* The action is done; the list is read again before the spinner goes.
ActionDone ==
    \E op \in ops :
        /\ op.phase = "acting"
        /\ ops' = (ops \ {op}) \cup {[op EXCEPT !.phase = "refetching"]}
        /\ UNCHANGED <<isReadOnly, rowState, pendingActions, dialogs, compose, purges, sheet,
                       made>>

\* The list arrives, or the action has failed: the spinner goes.  What a
\* confirmed action awaited last closes the confirmation dialog.
ActionSettles ==
    \E op \in ops :
        /\ ops' = ops \ {op}
        /\ rowState' = IF op.phase = "acting" THEN rowState
                       ELSE [rowState EXCEPT ![op.container] = After(op.type, @)]
        /\ endPending(op.container)
        /\ confirmAction' = IF op.confirms THEN NoAction ELSE confirmAction
        /\ UNCHANGED <<isReadOnly, purgeTarget, compose, purges, sheet, made>>

-----------------------------------------------------------------------------
(* Compose actions: one call per host of the group.                        *)
ComposeActionStarts ==
    /\ TableReachable /\ offersCompose /\ Requests
    /\ pendingCompose' = made'
    /\ calls' = calls \cup [host : StackHosts, of : {made'}]
    /\ UNCHANGED <<isReadOnly, rowState, pendingActions, ops, dialogs, purges, sheet>>

HostComposed ==
    \E call \in calls :
        /\ calls' = calls \ {call}
        /\ UNCHANGED <<isReadOnly, rowState, pendingActions, ops, dialogs, pendingCompose,
                       purges, sheet, made>>

\* Promise.all rejects with the first failure; it does not wait for the
\* calls to the other hosts.
HostFailsToCompose ==
    \E call \in calls :
        /\ calls' = calls \ {call}
        /\ pendingCompose' = IF pendingCompose = call.of THEN 0 ELSE pendingCompose
        /\ UNCHANGED <<isReadOnly, rowState, pendingActions, ops, dialogs, purges, sheet,
                       made>>

\* All succeeded and the list was read again.
ComposeActionSettles ==
    /\ pendingCompose # 0 /\ \A call \in calls : call.of # pendingCompose
    /\ pendingCompose' = 0
    /\ UNCHANGED <<isReadOnly, rowState, pendingActions, ops, dialogs, calls, purges, sheet,
                   made>>

-----------------------------------------------------------------------------
(* Deleting stored logs.                                                   *)
OpenPurge ==
    \E r \in Removed :
        /\ TableReachable /\ ~isReadOnly
        /\ purgeTarget' = r
        /\ UNCHANGED <<isReadOnly, rowState, pendingActions, ops, confirmAction, compose,
                       purges, sheet, made>>

\* The confirm button is disabled while a deletion runs.
HandleConfirmPurge ==
    /\ purgeTarget # None /\ purges = {} /\ Requests
    /\ purges' = {purgeTarget}
    /\ UNCHANGED <<isReadOnly, rowState, pendingActions, ops, dialogs, compose, sheet>>

ClosePurge ==
    /\ purgeTarget # None /\ purgeTarget' = None
    /\ UNCHANGED <<isReadOnly, rowState, pendingActions, ops, confirmAction, compose, purges,
                   sheet, made>>

\* However it ends, the dialog that is open then is closed.
PurgeSettles ==
    /\ purges # {} /\ purges' = {} /\ purgeTarget' = None
    /\ UNCHANGED <<isReadOnly, rowState, pendingActions, ops, confirmAction, compose, sheet,
                   made>>

-----------------------------------------------------------------------------
(* The logs sheet.                                                         *)
HandleViewLogs ==
    \E c \in Rows :
        /\ TableReachable /\ offersLogs(c)
        /\ selectedContainer' = c /\ isLogsSheetOpen' = TRUE
        /\ UNCHANGED <<isReadOnly, rowState, pendingActions, ops, dialogs, compose, purges,
                       env, made>>

HandleLogsSheetClose ==
    /\ isLogsSheetOpen
    /\ isLogsSheetOpen' = FALSE /\ selectedContainer' = None
    /\ UNCHANGED <<isReadOnly, rowState, pendingActions, ops, dialogs, compose, purges, env,
                   made>>

\* An environment update from the sheet recreates its container.
EnvUpdated ==
    /\ isLogsSheetOpen /\ ~isReadOnly /\ selectedContainer # None /\ env = None /\ Requests
    /\ env' = selectedContainer
    /\ UNCHANGED <<isReadOnly, rowState, pendingActions, ops, dialogs, compose, purges,
                   isLogsSheetOpen, selectedContainer>>

\* The list was read again; if it has the new container, that is selected.
HandleContainerRecreated ==
    /\ env # None
    /\ selectedContainer' \in {selectedContainer} \cup ({env} \cap Listed)
    /\ env' = None
    /\ UNCHANGED <<isReadOnly, rowState, pendingActions, ops, dialogs, compose, purges,
                   isLogsSheetOpen, made>>

-----------------------------------------------------------------------------
ContainerActionsNext ==
    \/ StartOrRestartContainer \/ StopOrDeleteContainer \/ ConfirmPendingAction
    \/ HandleConfirmDialogClose \/ ActionDone \/ ActionSettles
    \/ ComposeActionStarts \/ HostComposed \/ HostFailsToCompose \/ ComposeActionSettles
    \/ OpenPurge \/ HandleConfirmPurge \/ ClosePurge \/ PurgeSettles
    \/ HandleViewLogs \/ HandleLogsSheetClose \/ EnvUpdated \/ HandleContainerRecreated

ContainerActionsSpec == ContainerActionsInit /\ [][ContainerActionsNext]_caVars
-----------------------------------------------------------------------------
\* "an action settling on row B must not clear row A's spinner while A is
\* still running": a row spins exactly while an action on it runs, and no
\* second action is sent to a container before the first has settled.
SpinnerWhileRunning ==
    /\ DOMAIN pendingActions = {op.container : op \in ops}
    /\ \A op \in ops : pendingActions[op.container] = op.type
    /\ \A p, q \in ops : p.container = q.container => p = q
=============================================================================
