----------------------------- MODULE EnvEditor -----------------------------
(***************************************************************************)
(* The editor of a container's environment variables, edited as a copy     *)
(* that is sent as a whole and recreates the container.  Requests, file    *)
(* reads and the query cache answer while the user goes on typing.         *)
(***************************************************************************)
EXTENDS Integers, Sequences, FiniteSets

CONSTANTS
    VarNames,          \* variable names
    Values,         \* the values typed or imported; "" is one of them
    Imports,        \* the pairs pasted texts and files hold, as functions
    MaxEnvActs      \* bound: what the user does

VARIABLES
    saved,          \* the container's environment
    envVariables,   \* the query's copy of it, or NotRead
    isEditing, editedEnv, deletedKeys, modifiedKeys,
    showAddNew, newKey, newValue,
    reading,        \* files being read
    parsedEnvFile,  \* the pairs of the preview, or NotRead when it is closed
    showConfirmDialog,
    updating,       \* the environment on its way to the server, or NotRead
    base, touched,  \* history: what this edit started from and has changed
    envActs

addRow == <<showAddNew, newKey, newValue>>
edit == <<isEditing, editedEnv, deletedKeys, modifiedKeys>>
pop == <<reading, parsedEnvFile, showConfirmDialog>>
evVars == <<saved, envVariables, edit, addRow, pop, updating, base, touched, envActs>>

NoVars == [k \in {} |-> ""]
\* No environment: the query has not answered, the dialog is closed.
NotRead == [k \in {"?"} |-> "?"]
\* { ...env, ...pairs }
Spread(env, pairs) ==
    [k \in DOMAIN env \cup DOMAIN pairs |-> IF k \in DOMAIN pairs THEN pairs[k] ELSE env[k]]
EnvActs == envActs < MaxEnvActs /\ envActs' = envActs + 1

\* The rows shown.
displayEnv == IF isEditing THEN editedEnv ELSE envVariables
envEntries == DOMAIN displayEnv \ deletedKeys

\* The controls; the two dialogs are modal.
offersPreview == parsedEnvFile # NotRead
offersConfirm == showConfirmDialog
EditorReachable == envVariables # NotRead /\ ~offersPreview /\ ~offersConfirm
offersEdit == EditorReachable /\ ~isEditing /\ envEntries # {}
Editing == EditorReachable /\ isEditing
offersAddRow == Editing /\ showAddNew
offersRow(k) == Editing /\ k \in envEntries

Fresh ==
    /\ editedEnv' = NoVars /\ deletedKeys' = {} /\ modifiedKeys' = {}
ClearAddRow == showAddNew' = FALSE /\ newKey' = "" /\ newValue' = ""

-----------------------------------------------------------------------------
EnvEditorInit ==
    /\ saved = [k \in {"A"} |-> "x"] /\ envVariables = NotRead
    /\ isEditing = FALSE /\ editedEnv = NoVars /\ deletedKeys = {} /\ modifiedKeys = {}
    /\ showAddNew = FALSE /\ newKey = "" /\ newValue = ""
    /\ reading = 0 /\ parsedEnvFile = NotRead /\ showConfirmDialog = FALSE
    /\ updating = NotRead /\ base = NoVars /\ touched = {}
    /\ envActs = 0

\* The query answers, first or again.
EnvLoaded ==
    /\ envVariables # saved /\ envVariables' = saved
    /\ UNCHANGED <<saved, edit, addRow, pop, updating, base, touched, envActs>>

\* Mutant: the copy is made over what an import put there meanwhile.
StartOverImports ==
    editedEnv' = Spread(envVariables, editedEnv) /\ deletedKeys' = {} /\ modifiedKeys' = {}

StartOver == editedEnv' = envVariables /\ deletedKeys' = {} /\ modifiedKeys' = {}

HandleEdit ==
    /\ offersEdit /\ EnvActs
    /\ StartOver
    /\ isEditing' = TRUE
    /\ base' = envVariables /\ touched' = {}
    /\ UNCHANGED <<saved, envVariables, addRow, pop, updating>>

HandleCancel ==
    /\ Editing /\ EnvActs
    /\ isEditing' = FALSE /\ editedEnv' = NoVars /\ modifiedKeys' = {} /\ deletedKeys' = {}
    /\ ClearAddRow
    /\ UNCHANGED <<saved, envVariables, pop, updating, base, touched>>

HandleValueChange ==
    \E k \in envEntries, v \in Values :
        /\ offersRow(k) /\ EnvActs
        /\ editedEnv' = [editedEnv EXCEPT ![k] = v]
        /\ touched' = touched \cup {k}
        /\ UNCHANGED <<saved, envVariables, isEditing, deletedKeys, modifiedKeys, addRow, pop,
                       updating, base>>

\* Deleting marks the key; the copy keeps it.
HandleDelete ==
    \E k \in envEntries :
        /\ offersRow(k) /\ EnvActs
        /\ deletedKeys' = deletedKeys \cup {k}
        /\ touched' = touched \cup {k}
        /\ UNCHANGED <<saved, envVariables, isEditing, editedEnv, modifiedKeys, addRow, pop,
                       updating, base>>

(* The row for a new variable.                                             *)

\* handleNewKeyChange: KEY=value typed into the key field fills the value
\* field too, but only if something follows the sign.
HandleNewKeyChange ==
    \E k \in VarNames \cup {""}, v \in Values \cup {"none"} :
        /\ offersAddRow /\ EnvActs
        /\ newKey' = k
        /\ newValue' = IF v \in {"none", ""} THEN newValue ELSE v
        /\ UNCHANGED <<saved, envVariables, edit, showAddNew, pop, updating, base, touched>>

SetNewValue ==
    \E v \in Values :
        /\ offersAddRow /\ newValue' = v
        /\ UNCHANGED <<saved, envVariables, edit, showAddNew, newKey, pop, updating, base,
                       touched, envActs>>

OpenAddRow ==
    /\ Editing /\ ~showAddNew /\ EnvActs
    /\ showAddNew' = TRUE
    /\ UNCHANGED <<saved, envVariables, edit, newKey, newValue, pop, updating, base, touched>>

CloseAddRow ==
    /\ offersAddRow /\ EnvActs
    /\ ClearAddRow
    /\ UNCHANGED <<saved, envVariables, edit, pop, updating, base, touched>>

\* A key that has a value in the copy is taken, deleted or not.
HandleAddNew ==
    /\ offersAddRow /\ EnvActs
    /\ newKey # "" /\ (newKey \in DOMAIN editedEnv => editedEnv[newKey] = "")
    /\ editedEnv' = Spread(editedEnv, [k \in {newKey} |-> newValue])
    /\ modifiedKeys' = modifiedKeys \cup {newKey}
    /\ touched' = touched \cup {newKey}
    /\ ClearAddRow
    /\ UNCHANGED <<saved, envVariables, isEditing, deletedKeys, pop, updating, base>>

(* Importing pairs.                                                        *)
Import(pairs) ==
    /\ editedEnv' = Spread(editedEnv, pairs)
    /\ modifiedKeys' = modifiedKeys \cup DOMAIN pairs
    /\ touched' = touched \cup DOMAIN pairs

\* Pasting several lines into the key field.
HandleKeyPaste ==
    \E pairs \in Imports :
        /\ offersAddRow /\ EnvActs
        /\ Import(pairs)
        /\ ClearAddRow
        /\ UNCHANGED <<saved, envVariables, isEditing, deletedKeys, pop, updating, base>>

\* A file is read in the background ...
HandleFileUpload ==
    /\ Editing /\ EnvActs /\ reading' = reading + 1
    /\ UNCHANGED <<saved, envVariables, edit, addRow, parsedEnvFile, showConfirmDialog,
                   updating, base, touched>>

\* ... and shown for preview when it has been, whatever is on screen.
FileRead ==
    \E pairs \in Imports :
        /\ reading > 0 /\ reading' = reading - 1
        /\ parsedEnvFile' = pairs
        /\ UNCHANGED <<saved, envVariables, edit, addRow, showConfirmDialog, updating, base,
                       touched, envActs>>

HandleConfirmUpload ==
    /\ offersPreview /\ Import(parsedEnvFile)
    /\ parsedEnvFile' = NotRead
    /\ UNCHANGED <<saved, envVariables, isEditing, deletedKeys, addRow, reading,
                   showConfirmDialog, updating, base, envActs>>

HandleCancelUpload ==
    /\ offersPreview /\ parsedEnvFile' = NotRead
    /\ UNCHANGED <<saved, envVariables, edit, addRow, reading, showConfirmDialog, updating,
                   base, touched, envActs>>

(* Saving.                                                                 *)
HandleSave ==
    /\ Editing /\ updating = NotRead
    /\ showConfirmDialog' = TRUE
    /\ UNCHANGED <<saved, envVariables, edit, addRow, reading, parsedEnvFile, updating, base,
                   touched, envActs>>

DismissConfirm ==
    /\ offersConfirm /\ showConfirmDialog' = FALSE
    /\ UNCHANGED <<saved, envVariables, edit, addRow, reading, parsedEnvFile, updating, base,
                   touched, envActs>>

HandleConfirmUpdate ==
    /\ offersConfirm /\ showConfirmDialog' = FALSE /\ EnvActs
    /\ updating' = [k \in DOMAIN editedEnv \ deletedKeys |-> editedEnv[k]]
    /\ UNCHANGED <<saved, envVariables, edit, addRow, reading, parsedEnvFile, base, touched>>

\* The container is recreated with the new environment.  Whatever is being
\* edited by then is over.
UpdateSucceeds ==
    /\ updating # NotRead /\ saved' = updating /\ updating' = NotRead
    /\ isEditing' = FALSE /\ Fresh
    /\ UNCHANGED <<envVariables, addRow, pop, base, touched, envActs>>

UpdateFails ==
    /\ updating # NotRead /\ updating' = NotRead
    /\ UNCHANGED <<saved, envVariables, edit, addRow, pop, base, touched, envActs>>

-----------------------------------------------------------------------------
EnvEditorNext ==
    \/ EnvLoaded \/ HandleEdit \/ HandleCancel \/ HandleValueChange \/ HandleDelete
    \/ HandleNewKeyChange \/ SetNewValue \/ OpenAddRow \/ CloseAddRow \/ HandleAddNew \/ HandleKeyPaste
    \/ HandleFileUpload \/ FileRead \/ HandleConfirmUpload \/ HandleCancelUpload
    \/ HandleSave \/ DismissConfirm \/ HandleConfirmUpdate \/ UpdateSucceeds \/ UpdateFails

EnvEditorSpec == EnvEditorInit /\ [][EnvEditorNext]_evVars
-----------------------------------------------------------------------------
\* What is sent is what this edit was opened on, changed where the user
\* changed it: nothing of an edit that was cancelled, or that a save ended
\* while another was open, comes back in a later one.
EditsAreOfThisSession ==
    isEditing =>
        /\ deletedKeys \cup modifiedKeys \subseteq touched
        /\ \A k \in DOMAIN editedEnv \cup DOMAIN base :
              k \in touched \/ (k \in DOMAIN base /\ k \in DOMAIN editedEnv
                                /\ editedEnv[k] = base[k])

\* "Pasting a whole .env (multiple KEY=value lines) into the key field
\* imports every pair at once": each pair is a row afterwards.
PasteImportsEveryPair ==
    [][\A pairs \in Imports :
          isEditing /\ editedEnv' = Spread(editedEnv, pairs) /\ editedEnv' # editedEnv
              => DOMAIN pairs \subseteq envEntries']_evVars
=============================================================================
