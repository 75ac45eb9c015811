----------------------------- MODULE DemoPages -----------------------------
(***************************************************************************)
(* The live demo's pages: copies of the web frontend's dashboard, logs     *)
(* sheet and environment editor (src/docs/components/logdeck-demo) on      *)
(* DemoStore instead of a server.  A copied handler is the frontend's      *)
(* action, named here for its copy; what is written out is what the demo   *)
(* does differently: who answers the dashboard, that nothing is kept in    *)
(* the URL, and that the viewer only ever opens in the sheet.              *)
(***************************************************************************)
EXTENDS DemoStore, LogView, ContainersList, ContainerActions, EnvEditor

VARIABLE
    shownIds        \* the ids the dashboard was shown

-----------------------------------------------------------------------------
(* The dashboard, its list and its row buttons, on the store.              *)
dashboardVars == <<dsVars, clVars, shownIds>>

DemoDashboardInit ==
    /\ DemoStoreInit /\ DashboardMounts(DemoStates, 1, MaxListActs - 1)
    /\ shownIds = {}

\* getContainers clones the store in one task, and never fails.
DemoGetContainers ==
    /\ fetch.phase = "sent"
    /\ list' = onHost /\ asOf' = changes
    /\ fetch' = Idle /\ failed' = FALSE
    /\ shownIds' = shownIds \cup LiveIds
    /\ UNCHANGED <<dsVars, onHost, stored, stream, events, debounce, urlState, link, heard, changes, listActs>>

\* getHistoryContainers.
DemoGetHistory ==
    /\ stored' = {n \in DOMAIN stateStored : stateStored[n].removed}
    /\ stored' # stored
    /\ UNCHANGED <<dsVars, shownIds, onHost, stream, events, query, urlState, link, heard, changes, listActs>>

\* streamContainerEvents: an open stream queues every event emitted.
StreamContainerEvents ==
    events' = IF stream = "open"
              THEN events \o [i \in 1 .. emissions' - emissions |-> emissions + i]
              ELSE events

\* The store goes on.
DemoChange ==
    /\ DemoStoreNext
    /\ onHost' = DemoStates' /\ changes' = emissions'
    /\ StreamContainerEvents
    /\ UNCHANGED <<shownIds, stored, stream, query, urlState, link, heard, listActs>>

\* The rows of the page, live and removed.
DemoRows == ToSet(pageItems)
DemoRemovedRows == DemoRows \cap synthesizeRemovedContainers
DemoLiveRows == DemoRows \ DemoRemovedRows

\* renderContainerRow: the buttons of the rows shown, and those of the sheet.
DemoRowCall ==
    \E id \in shownIds, op \in ById :
        /\ id[1] \in DemoLiveRows /\ showsRows
        /\ op = "start" => list[id[1]] = "exited"
        /\ op = "stop" => list[id[1]] = "running"
        /\ Sleep([at |-> demoCalls, op |-> op, id |-> id])
        /\ UNCHANGED <<clVars, shownIds>>

DemoComposeCall ==
    \E stops \in BOOLEAN :
        /\ groupBy = "compose" /\ SeedGroup \cap DemoLiveRows # {}
        /\ Sleep([at |-> demoCalls, op |-> "compose", stops |-> stops])
        /\ UNCHANGED <<clVars, shownIds>>

DemoPurgeCall ==
    \E n \in DemoRemovedRows :
        /\ Sleep([at |-> demoCalls, op |-> "purge", of |-> n])
        /\ UNCHANGED <<clVars, shownIds>>

\* useContainerEvents; the demo's stream does not end by itself.
DemoContainerEvents == StreamOpens \/ Hide \/ Show
DemoLiveContainers == EventDelivered \/ InvalidateAfterDebounce
DemoContainersQuery == Poll \/ Refetch
\* The filters, in component state: a page opens on the first page.
DemoToolbar ==
    SetSearchTerm \/ SetHostFilter \/ SetDateRange \/ SetSortDirection \/ SetGroupBy
DemoStateSummary == SetStateFilter
DemoFilters == DemoToolbar \/ DemoStateSummary \/ SetPageSize
DemoPagination == HandlePageClick \/ ClampPage

DemoDashboardNext ==
    \/ DemoGetContainers \/ DemoGetHistory \/ DemoChange
    \/ DemoRowCall \/ DemoComposeCall \/ DemoPurgeCall
    \/ /\ \/ DemoContainerEvents \/ DemoLiveContainers \/ DemoContainersQuery
          \/ DemoFilters \/ DemoPagination
       /\ UNCHANGED <<dsVars, shownIds>>

DemoDashboardSpec == DemoDashboardInit /\ [][DemoDashboardNext]_dashboardVars

-----------------------------------------------------------------------------
(* The actions' spinners and dialogs; the demo is never read-only and its  *)
(* hosts never fail a group's call.                                        *)
DemoActionsInit == ContainerActionsInit /\ ~isReadOnly

DemoExecuteAction == ActionDone \/ ActionSettles
DemoComposeAction == ComposeActionStarts \/ HostComposed \/ ComposeActionSettles
DemoRowButtons == StartOrRestartContainer \/ StopOrDeleteContainer
DemoConfirmDialog == ConfirmPendingAction \/ HandleConfirmDialogClose
DemoPurgeDialog == OpenPurge \/ ClosePurge
DemoDeleteHistory == HandleConfirmPurge \/ PurgeSettles
DemoLogsSheet == HandleViewLogs \/ HandleLogsSheetClose
DemoRecreated == EnvUpdated \/ HandleContainerRecreated

DemoActionsNext ==
    \/ DemoExecuteAction \/ DemoComposeAction \/ DemoRowButtons \/ DemoConfirmDialog
    \/ DemoPurgeDialog \/ DemoDeleteHistory \/ DemoLogsSheet \/ DemoRecreated

-----------------------------------------------------------------------------
(* The environment editor.                                                 *)
DemoEditing == HandleEdit \/ HandleCancel \/ HandleValueChange \/ HandleDelete
DemoNewVariable ==
    HandleNewKeyChange \/ SetNewValue \/ OpenAddRow \/ CloseAddRow \/ HandleAddNew
DemoPaste == HandleKeyPaste
DemoFileUpload == HandleFileUpload \/ FileRead \/ HandleConfirmUpload
DemoUploadPreview == HandleCancelUpload
DemoSave == HandleSave \/ HandleConfirmUpdate
DemoUpdateSettles == UpdateSucceeds \/ UpdateFails
DemoEnvLoaded == EnvLoaded
DemoUpdateConfirm == DismissConfirm

DemoEnvironmentNext ==
    \/ DemoEnvLoaded \/ DemoEditing \/ DemoNewVariable \/ DemoPaste \/ DemoFileUpload
    \/ DemoUploadPreview \/ DemoSave \/ DemoUpdateSettles \/ DemoUpdateConfirm

-----------------------------------------------------------------------------
(* The log viewer, always in the sheet: live lines only.                   *)
DemoViewerInit == LogViewInit /\ InSheet

\* The rows under the filters, those the text matches, the pinned ones.
DemoLogRows == filteredToOriginal
DemoLogSearch == searchMatches
DemoPinned == SortedPins(rowPins)
\* The list, or a message in its place; the bar over a selection.
DemoLogList == DemoLogRows # <<>>
DemoSelectionBar == selected # {}

DemoLines == WriteLine \/ LiveFlush
DemoViewerEffects == ViewEffects
DemoSheetToolbar == SetSearchText \/ SetExcludeMatches
DemoLevelFilter == ToggleLogLevel \/ ClearFilters
DemoRowClicks == DemoLogList /\ (HandleLogClick \/ HandleShiftClick)
DemoJson == DemoLogList /\ ToggleJsonExpanded
DemoClear == DemoSelectionBar /\ ClearSelection
DemoCopy == DemoSelectionBar /\ HandleCopySelected
DemoTogglePins == DemoSelectionBar /\ HandleTogglePinSelected
DemoPins == DemoPinned # <<>> /\ \E d \in {1, -1} : GoToPinnedByOffset(d)
DemoMatches == DemoLogSearch # <<>> /\ \E d \in {1, -1} : GoToMatch(d)
DemoLineKeys == DemoLogList /\ \E d \in {1, -1} : GoToAdjacentLogLine(d)
DemoExtendKeys == DemoLogList /\ \E d \in {1, -1} : ExtendSelectionByLine(d)

DemoViewerNext ==
    \/ DemoLines \/ DemoViewerEffects \/ DemoSheetToolbar \/ DemoLevelFilter
    \/ DemoRowClicks \/ DemoJson \/ DemoClear \/ DemoCopy \/ DemoTogglePins
    \/ DemoPins \/ DemoMatches
    \/ DemoLineKeys \/ DemoExtendKeys
=============================================================================
