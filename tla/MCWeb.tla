------------------------------- MODULE MCWeb -------------------------------
(* The web frontend's pages and the documentation site's demo.  One is open *)
(* at a time, with its own state; `route' is the one that is open.          *)
EXTENDS DemoPages, ResourceLimits, Terminal, ConnectionSettings, AccessSettings,
        AlertForms, Session

VARIABLE route

Hosts == 1 :> "a" @@ 2 :> "b" @@ 3 :> "a"
Projects == 1 :> "shop" @@ 2 :> "Standalone" @@ 3 :> "shop"
EnvFiles == {"A" :> "y" @@ "B" :> "y"}
Spaced == "b " :> "b"

webVars == <<lvVars, clVars, caVars, evVars, rlVars, tmVars>>
settingsVars == <<csVars, asVars, afVars, seVars>>
demoVars == <<dsVars, shownIds>>

Routes == {"logs", "containers", "actions", "environment", "limits", "terminal",
           "connections", "access", "alert rules", "alert channels", "session",
           "demo", "demo sheet", "demo actions", "demo environment"}

\* A page that is not open stays in one of its initial states.
Init ==
    /\ route \in Routes
    /\ IF route = "demo sheet" THEN DemoViewerInit ELSE LogViewInit
    /\ route \notin {"logs", "demo sheet"} => source = "live" /\ variant = "page"
    /\ IF route = "demo" THEN DemoDashboardInit
       ELSE DemoStoreInit /\ shownIds = {} /\ ContainersListInit
            /\ stateContainers = [n \in Seeds |-> [suffix |-> 0, state |-> "running"]]
    /\ route \notin {"containers", "demo"} => pageNo = 2
    /\ IF route = "demo actions" THEN DemoActionsInit ELSE ContainerActionsInit
    /\ route \notin {"actions", "demo actions"} => isReadOnly /\ rowState = [c \in Rows |-> "running"]
    /\ EnvEditorInit
    /\ ResourceLimitsInit /\ TerminalInit
    /\ route # "limits" => limits = [memory |-> 0, policy |-> "no", retries |-> 0]
    /\ ConnectionSettingsInit /\ AccessSettingsInit /\ AlertFormsInit
    /\ route # "alert rules" => rules[1].cooldownSeconds = 0 /\ rules[1].enabled /\ rules[1].type = "log"
    /\ SessionInit
    /\ route # "session" => authOn /\ valid = {1} /\ storedToken = 1

Next ==
    \/ /\ \/ route = "logs" /\ LogViewNext
          \/ route = "demo sheet" /\ DemoViewerNext
       /\ UNCHANGED <<route, clVars, caVars, evVars, rlVars, tmVars, settingsVars, demoVars>>
    \/ /\ route = "containers" /\ ContainersListNext
       /\ UNCHANGED <<route, lvVars, caVars, evVars, rlVars, tmVars, settingsVars, demoVars>>
    \/ /\ route = "demo" /\ DemoDashboardNext
       /\ UNCHANGED <<route, lvVars, caVars, evVars, rlVars, tmVars, settingsVars>>
    \/ /\ \/ route = "actions" /\ ContainerActionsNext
          \/ route = "demo actions" /\ DemoActionsNext
       /\ UNCHANGED <<route, lvVars, clVars, evVars, rlVars, tmVars, settingsVars, demoVars>>
    \/ /\ \/ route = "environment" /\ EnvEditorNext
          \/ route = "demo environment" /\ DemoEnvironmentNext
       /\ UNCHANGED <<route, lvVars, clVars, caVars, rlVars, tmVars, settingsVars, demoVars>>
    \/ /\ route = "limits" /\ ResourceLimitsNext
       /\ UNCHANGED <<route, lvVars, clVars, caVars, evVars, tmVars, settingsVars, demoVars>>
    \/ /\ route = "terminal" /\ TerminalNext
       /\ UNCHANGED <<route, lvVars, clVars, caVars, evVars, rlVars, settingsVars, demoVars>>
    \/ /\ route = "connections" /\ ConnectionSettingsNext
       /\ UNCHANGED <<route, webVars, asVars, afVars, seVars, demoVars>>
    \/ /\ route = "access" /\ AccessSettingsNext
       /\ UNCHANGED <<route, webVars, csVars, afVars, seVars, demoVars>>
    \/ /\ \/ route = "alert rules" /\ RulesBlockNext
          \/ route = "alert channels" /\ ChannelsBlockNext
       /\ UNCHANGED <<route, webVars, csVars, asVars, seVars, demoVars>>
    \/ /\ route = "session" /\ SessionNext
       /\ UNCHANGED <<route, webVars, csVars, asVars, afVars, demoVars>>

Spec == Init /\ [][Next]_<<route, webVars, settingsVars, demoVars>>

\* The forms that keep a copy of the configuration show the configuration
\* until they are edited, and a masked token in one of them always stands for
\* a token the configuration has.
FormsMatchConfig == UneditedHostsShowConfig /\ UneditedFormsShowConfig /\ MaskResolves

\* Saving a form in which a field was not touched leaves the field as it was,
\* through its conversion into text and back.
UntouchedFieldsKept == UntouchedLimitsKept /\ UntouchedRuleKept
=============================================================================
