------------------------------ MODULE Terminal ------------------------------
(***************************************************************************)
(* The terminal tab of a container's page: one component that opens a      *)
(* WebSocket when it mounts, when the container or its host changes, and   *)
(* when the user reconnects.  A socket's events go to the component that   *)
(* made it, also after it was replaced.                                    *)
(***************************************************************************)
EXTENDS Integers

CONSTANT
    MaxSockets      \* bound: sockets made

VARIABLES
    mounted,        \* the number of the component mounted, 0 if none
    mounts,         \* the components mounted so far
    sockets,        \* by number: its state, and the component that made it
    ws,             \* wsRef: the last socket made
    listening,      \* the sockets what is typed goes to
    isConnected, isReconnecting

tmVars == <<mounted, mounts, sockets, ws, listening, isConnected, isReconnecting>>

Unmounted == 0
Made == DOMAIN sockets
InState(states) == {s \in Made : sockets[s].state \in states}

TerminalInit ==
    /\ mounted = Unmounted /\ mounts = 0
    /\ sockets = [s \in {} |-> [state |-> "closed", of |-> 0]]
    /\ ws = 0 /\ listening = {}
    /\ isConnected = FALSE /\ isReconnecting = FALSE

-----------------------------------------------------------------------------
\* Mutant: a socket that is not open yet is not closed.
CleanupOfOpen(all) ==
    [s \in DOMAIN all |-> IF s = ws /\ all[s].state = "open"
                          THEN [all[s] EXCEPT !.state = "closing"] ELSE all[s]]

\* The cleanup of the last connection: an open socket, and one that is
\* connecting, is closed; its event follows.
Cleanup(all) ==
    [s \in DOMAIN all |-> IF s = ws /\ all[s].state \in {"connecting", "open"}
                          THEN [all[s] EXCEPT !.state = "closing"] ELSE all[s]]

Connect(component) ==
    LET s == ws + 1 IN
    /\ s <= MaxSockets
    /\ ws' = s /\ listening' = {s} /\ isReconnecting' = TRUE
    /\ sockets' = [t \in Made \cup {s} |-> IF t = s THEN [state |-> "connecting", of |-> component]
                                           ELSE Cleanup(sockets)[t]]

\* The tab is opened.
MountTerminal ==
    /\ mounted = Unmounted
    /\ mounts' = mounts + 1 /\ mounted' = mounts'
    /\ Connect(mounts') /\ isConnected' = FALSE

\* The page's container was recreated, or its host renamed.
ContainerChanges ==
    /\ mounted # Unmounted
    /\ Connect(mounted) /\ UNCHANGED <<mounted, mounts, isConnected>>

HandleReconnect ==
    /\ mounted # Unmounted /\ ~isReconnecting /\ ~isConnected
    /\ Connect(mounted) /\ UNCHANGED <<mounted, mounts, isConnected>>

\* Another tab is opened, or the page is left.
UnmountTerminal ==
    /\ mounted # Unmounted /\ mounted' = Unmounted
    /\ sockets' = Cleanup(sockets) /\ listening' = {}
    /\ isConnected' = FALSE /\ isReconnecting' = FALSE
    /\ UNCHANGED <<mounts, ws>>

-----------------------------------------------------------------------------
(* The socket's events.                                                    *)
Become(s, state) == sockets' = [sockets EXCEPT ![s].state = state]
Shows(s, connected) ==
    /\ isConnected' = IF sockets[s].of = mounted THEN connected ELSE isConnected
    /\ isReconnecting' = IF sockets[s].of = mounted THEN FALSE ELSE isReconnecting
    /\ UNCHANGED <<mounted, mounts, ws, listening>>

OnOpen == \E s \in InState({"connecting"}) : Become(s, "open") /\ Shows(s, TRUE)

\* onclose, after an error or not: the server, the network or the cleanup.
OnClose ==
    \E s \in InState({"connecting", "open", "closing"}) : Become(s, "closed") /\ Shows(s, FALSE)

-----------------------------------------------------------------------------
TerminalNext ==
    MountTerminal \/ ContainerChanges \/ HandleReconnect \/ UnmountTerminal \/ OnOpen \/ OnClose

TerminalSpec == TerminalInit /\ [][TerminalNext]_tmVars
-----------------------------------------------------------------------------
\* Each socket holds a shell in the container.  However containers change,
\* tabs are switched and the user reconnects, the only shell left open is
\* that of the terminal on show, what is typed goes to no other, and the
\* reconnect button is never disabled for good: a reconnection that shows
\* is one that will end.
OneShellOpen ==
    /\ InState({"connecting", "open"}) \subseteq (IF mounted = Unmounted THEN {} ELSE {ws})
    /\ listening \subseteq (IF mounted = Unmounted THEN {} ELSE {ws})
    /\ isReconnecting => mounted # Unmounted /\ sockets[ws].state = "connecting"
=============================================================================
