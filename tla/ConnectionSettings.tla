------------------------- MODULE ConnectionSettings -------------------------
(***************************************************************************)
(* The "Connections" tab of the settings page: the lists of Docker hosts   *)
(* and of Coolify hosts, each edited as a copy of the configuration and    *)
(* saved as a whole.  Coolify tokens come masked, and go back masked when  *)
(* they are to be kept.                                                    *)
(*                                                                         *)
(* A host is its name and the rest of its row: an address, and for Coolify *)
(* a token.                                                                *)
(***************************************************************************)
EXTENDS Integers, Sequences, SequencesExt, FiniteSets, TLC

CONSTANTS
    HostNames,      \* names typed into the name fields
    Padded,         \* those with spaces around them, and what trimming gives
    EnvHost,        \* the name of a host set by the environment
    MaxHostActs     \* bound: what the user does

\* The names of the configuration the server starts with are trimmed.
ASSUME PaddedAssumption == {"a", "b"} \cap DOMAIN Padded = {}

VARIABLES
    config,         \* the server's file configuration, per section
    settings,       \* the settings query's copy, or NotLoaded
    form,           \* the mounted forms
    saving,         \* the lists on their way to the server, or Nothing
    elsewhere,      \* history: another session has saved hosts
    edited,         \* history: has the user edited the form since it mounted
    hostActs

csVars == <<config, settings, form, saving, elsewhere, edited, hostActs>>

Sections == {"docker", "coolify"}
Mask == "masked"
Nothing == <<[name |-> "", value |-> "nothing"]>>
NotLoaded == [s \in Sections |-> Nothing]
Trim(n) == IF n \in DOMAIN Padded THEN Padded[n] ELSE n
NamesOf(hosts) == {hosts[i].name : i \in DOMAIN hosts}
EMPTY_HOST == [name |-> "", value |-> ""]

\* GET /settings: tokens are masked.
Shown(s, hosts) ==
    IF s = "docker" THEN hosts ELSE [i \in DOMAIN hosts |-> [hosts[i] EXCEPT !.value = Mask]]

\* The state of a section's component when it mounts.
Mounted(hosts) ==
    [hosts |-> hosts, editingIndex |-> 0, editingHost |-> EMPTY_HOST,
     isAdding |-> FALSE, newHost |-> EMPTY_HOST, testResults |-> {}, testingKey |-> ""]

originalFileHosts(s) == settings[s]
hasChanges(s) == form[s].hosts # originalFileHosts(s)

\* The tabs are there once the settings are.
SectionShown == settings # NotLoaded
HostActs == SectionShown /\ hostActs < MaxHostActs /\ hostActs' = hostActs + 1
Edits(s, f) ==
    /\ form' = [form EXCEPT ![s] = f]
    /\ edited' = [edited EXCEPT ![s] = @ \/ f.hosts # form[s].hosts]
    /\ UNCHANGED <<config, settings, saving, elsewhere>>

-----------------------------------------------------------------------------
ConnectionSettingsInit ==
    /\ config = [docker |-> <<[name |-> "a", value |-> "x"]>>,
                 coolify |-> <<[name |-> "a", value |-> "t1"], [name |-> "b", value |-> "t2"]>>]
    /\ settings = NotLoaded
    /\ form = [s \in Sections |-> Mounted(Nothing)]
    /\ saving = [s \in Sections |-> Nothing]
    /\ elsewhere = FALSE /\ edited = [s \in Sections |-> FALSE] /\ hostActs = 0

\* Mutant: the component is not keyed by its part of the settings.
MountedOnce(s, new) == settings = NotLoaded

\* SettingsPage keys each section by its part of the settings.
Remounts(s, new) == new # settings[s]

SettingsArrive ==
    LET new == [s \in Sections |-> Shown(s, config[s])] IN
    /\ settings # new /\ settings' = new
    /\ form' = [s \in Sections |-> IF Remounts(s, new[s]) THEN Mounted(new[s]) ELSE form[s]]
    /\ edited' = [s \in Sections |-> edited[s] /\ ~Remounts(s, new[s])]
    /\ UNCHANGED <<config, saving, elsewhere, hostActs>>

\* Another session saves hosts.
OtherSessionSaves ==
    /\ ~elsewhere /\ elsewhere' = TRUE
    /\ \E s \in Sections : /\ config[s] # <<>>
                          /\ config' = [config EXCEPT ![s] = Tail(@)]
    /\ UNCHANGED <<settings, form, saving, edited, hostActs>>

-----------------------------------------------------------------------------
(* Editing.                                                                *)
offersRowEdits(s) == form[s].editingIndex = 0

HandleStartEdit(s) ==
    \E i \in DOMAIN form[s].hosts :
        /\ HostActs /\ offersRowEdits(s)
        /\ Edits(s, [form[s] EXCEPT !.editingIndex = i, !.editingHost = form[s].hosts[i]])

TypeIntoRow(s) ==
    \E n \in HostNames, v \in {form[s].editingHost.value, "new"} :
        /\ SectionShown /\ form[s].editingIndex # 0
        /\ Edits(s, [form[s] EXCEPT !.editingHost = [name |-> n, value |-> v]])
        /\ UNCHANGED hostActs

HandleCancelEdit(s) ==
    /\ HostActs /\ form[s].editingIndex # 0
    /\ Edits(s, [form[s] EXCEPT !.editingIndex = 0, !.editingHost = EMPTY_HOST])

NameTaken(s, n, others) == n = EnvHost \/ n \in NamesOf(others)

\* Mutant: the mask is not looked at.
AnyToken(s, host) == TRUE

\* A masked token can only be kept for a name the configuration has.
MayKeepToken(s, host) ==
    s = "coolify" /\ host.value = Mask => Trim(host.name) \in NamesOf(originalFileHosts(s))

\* The row is stored as it was typed; only the checks trim the name.
HandleSaveEdit(s) ==
    LET i == form[s].editingIndex
        host == form[s].editingHost
    IN /\ HostActs /\ i # 0
       /\ ~NameTaken(s, Trim(host.name), RemoveAt(form[s].hosts, i))
       /\ MayKeepToken(s, host)
       /\ Edits(s, [form[s] EXCEPT !.hosts[i] = host, !.editingIndex = 0,
                                   !.editingHost = EMPTY_HOST, !.testResults = {}])

HandleRemove(s) ==
    \E i \in DOMAIN form[s].hosts :
        /\ HostActs /\ offersRowEdits(s)
        /\ Edits(s, [form[s] EXCEPT !.hosts = RemoveAt(@, i), !.testResults = {}])

(* Adding: also while a row is being edited.                               *)
OpenAddHost(s) ==
    /\ HostActs /\ ~form[s].isAdding
    /\ Edits(s, [form[s] EXCEPT !.isAdding = TRUE])

TypeNewHost(s) ==
    \E n \in HostNames :
        /\ SectionShown /\ form[s].isAdding
        /\ Edits(s, [form[s] EXCEPT !.newHost = [name |-> n, value |-> "new"]])
        /\ UNCHANGED hostActs

CancelAddHost(s) ==
    /\ HostActs /\ form[s].isAdding
    /\ Edits(s, [form[s] EXCEPT !.isAdding = FALSE, !.newHost = EMPTY_HOST])

HandleAddHost(s) ==
    LET host == [form[s].newHost EXCEPT !.name = Trim(@)] IN
    /\ HostActs /\ form[s].isAdding /\ host # EMPTY_HOST
    /\ ~NameTaken(s, host.name, form[s].hosts)
    /\ Edits(s, [form[s] EXCEPT !.hosts = Append(@, host), !.isAdding = FALSE,
                                !.newHost = EMPTY_HOST, !.testResults = {}])

-----------------------------------------------------------------------------
(* Testing a row.  Only the last test's answer is heard; it is filed under *)
(* the name the row had, whatever the row holds by then.                   *)
HandleTest(s) ==
    \E i \in DOMAIN form[s].hosts :
        LET key == form[s].hosts[i].name IN
        /\ HostActs /\ form[s].editingIndex # i /\ form[s].testingKey # key
        /\ Edits(s, [form[s] EXCEPT !.testingKey = key,
                         !.testResults = IF s = "docker" THEN @ \ {key} ELSE @])

TestAnswers(s) ==
    /\ form[s].testingKey # ""
    /\ Edits(s, [form[s] EXCEPT !.testResults = @ \cup {form[s].testingKey},
                                !.testingKey = ""])
    /\ UNCHANGED hostActs

(* Saving.                                                                 *)
SaveHosts(s) ==
    /\ HostActs /\ hasChanges(s) /\ saving[s] = Nothing
    /\ saving' = [saving EXCEPT ![s] = form[s].hosts]
    /\ UNCHANGED <<config, settings, form, elsewhere, edited>>

\* The server refuses malformed and repeated names and masks it cannot
\* resolve.
Accepted(s, hosts) ==
    /\ NamesOf(hosts) \cap DOMAIN Padded = {}
    /\ Cardinality(NamesOf(hosts)) = Len(hosts)
    /\ \A i \in DOMAIN hosts :
          s = "coolify" /\ hosts[i].value = Mask => hosts[i].name \in NamesOf(config[s])
Resolved(s, hosts) ==
    LET token(n) == (CHOOSE i \in DOMAIN config[s] : config[s][i].name = n)
    IN [i \in DOMAIN hosts |->
           IF hosts[i].value = Mask THEN config[s][token(hosts[i].name)] ELSE hosts[i]]

SaveSettles(s) ==
    /\ saving[s] # Nothing
    /\ saving' = [saving EXCEPT ![s] = Nothing]
    /\ \/ UNCHANGED config
       \/ /\ Accepted(s, saving[s])
          /\ config' = [config EXCEPT ![s] = Resolved(s, saving[s])]
    /\ UNCHANGED <<settings, form, elsewhere, edited, hostActs>>

-----------------------------------------------------------------------------
EditRows(s) ==
    \/ HandleStartEdit(s) \/ TypeIntoRow(s) \/ HandleCancelEdit(s) \/ HandleSaveEdit(s)
    \/ HandleRemove(s)
AddRows(s) == OpenAddHost(s) \/ TypeNewHost(s) \/ CancelAddHost(s) \/ HandleAddHost(s)
TestRows(s) == HandleTest(s) \/ TestAnswers(s)
SaveRows(s) == SaveHosts(s) \/ SaveSettles(s)

DockerHostsSection ==
    EditRows("docker") \/ AddRows("docker") \/ TestRows("docker") \/ SaveRows("docker")

\* CoolifyHostsSection has the same handlers over rows with a token.
CoolifyHostsEdited == EditRows("coolify")
CoolifyHostsAdded == AddRows("coolify")
CoolifyHostsTested == TestRows("coolify")
CoolifyHostsSaved == SaveRows("coolify")

ConnectionSettingsNext ==
    \/ SettingsArrive \/ OtherSessionSaves \/ DockerHostsSection
    \/ CoolifyHostsEdited \/ CoolifyHostsAdded \/ CoolifyHostsTested \/ CoolifyHostsSaved

ConnectionSettingsSpec == ConnectionSettingsInit /\ [][ConnectionSettingsNext]_csVars
-----------------------------------------------------------------------------
\* "A masked token can only be kept for an existing host name": whatever was
\* renamed, removed and added in the form, each mask still in the list
\* stands for a token the settings have under the row's name.
MaskResolves ==
    \A i \in DOMAIN form["coolify"].hosts :
        LET host == form["coolify"].hosts[i] IN
        host.value = Mask => Trim(host.name) \in NamesOf(settings["coolify"])

\* A list nobody has edited shows the configuration last read, also when
\* another session, or a save of the other list, changed it.
UneditedHostsShowConfig ==
    \A s \in Sections : SectionShown /\ ~edited[s] => form[s].hosts = settings[s]
=============================================================================
