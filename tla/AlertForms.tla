----------------------------- MODULE AlertForms -----------------------------
(***************************************************************************)
(* The "Alerts" tab of the settings page: the rules with the dialog that   *)
(* creates and edits them, the delivery channels and the history.  Numbers *)
(* are typed as text: NoNumber is an empty field or one that holds no number. *)
(***************************************************************************)
EXTENDS Integers, Sequences, FiniteSets, FiniteSetsExt, TLC

CONSTANTS
    Minute,         \* seconds in a minute, scaled down
    MaxSeconds,     \* bound: cooldowns
    Targets,        \* container names the page knows
    MaxAlertActs    \* bound: what the user does

ASSUME MinuteAssumption == Minute \in Nat \ {0}

VARIABLES
    rules, channels,        \* on the server, by id
    ruleList, channelList,  \* the queries' copies, or NoRules
    isDialogOpen, editingRule, screen, ruleForm,    \* the rule dialog
    combo,                  \* its target combobox
    ruleSave,                 \* its own request, or NoSave
    ruleToDelete,
    alertRequests,               \* on their way to the server
    channelDraft,                  \* the new channel's fields; "closed" if none
    channelToDelete,
    fired, alertHistory, isClearOpen,   \* the alerts fired, the page's copy, its dialog
    loadedRule, ruleTyped,  \* history: what the form was filled from; typed since
    alertActs

ruleDialog == <<isDialogOpen, editingRule, screen, ruleForm, combo, ruleSave, loadedRule, ruleTyped>>
alertLists == <<ruleList, channelList>>
alertStores == <<rules, channels>>
channelPanel == <<channelDraft, channelToDelete>>
historyBlock == <<fired, alertHistory, isClearOpen>>
afVars == <<alertStores, alertLists, ruleDialog, ruleToDelete, alertRequests,
            channelPanel, historyBlock, alertActs>>

NoRules == [i \in {0} |-> "unread"]
NoNumber == 0
RuleIds == 1 .. 2
EventKinds == {"die", "oom"}
NoRequestFor(kinds) == \A r \in alertRequests : r.kind \notin kinds

-----------------------------------------------------------------------------
(* A rule and the form's fields.                                           *)
EMPTY_FORM ==
    [name |-> "", type |-> "log", minLevel |-> "any", pattern |-> "", events |-> {},
     rateEnabled |-> FALSE, threshold |-> 1, windowSeconds |-> NoNumber, targets |-> {},
     cooldownValue |-> NoNumber, cooldownUnit |-> "minutes"]

\* Mutant: whole minutes only.
RuleToFormInMinutes(rule) ==
    [name |-> rule.name, type |-> rule.type, minLevel |-> rule.minLevel,
     pattern |-> rule.pattern, events |-> rule.events,
     rateEnabled |-> rule.threshold > 1 \/ rule.windowSeconds # 0,
     threshold |-> rule.threshold, windowSeconds |-> rule.windowSeconds,
     targets |-> rule.targets, cooldownValue |-> rule.cooldownSeconds \div Minute,
     cooldownUnit |-> "minutes"]

\* A cooldown is shown in minutes if it is a whole number of them.
ruleToForm(rule) ==
    LET minutes == rule.cooldownSeconds % Minute = 0 IN
    [name |-> rule.name, type |-> rule.type, minLevel |-> rule.minLevel,
     pattern |-> rule.pattern, events |-> rule.events,
     rateEnabled |-> rule.threshold > 1 \/ rule.windowSeconds # 0,
     threshold |-> rule.threshold, windowSeconds |-> rule.windowSeconds,
     targets |-> rule.targets,
     cooldownValue |-> IF minutes THEN rule.cooldownSeconds \div Minute
                       ELSE rule.cooldownSeconds,
     cooldownUnit |-> IF minutes THEN "minutes" ELSE "seconds"]

\* A form buildPayload refuses.
FormError(form) ==
    \/ form.name = ""
    \/ form.type = "log" /\ form.minLevel = "any" /\ form.pattern = ""
    \/ form.type = "event" /\ form.events = {}

\* Mutant: what the other type's fields hold is sent too.
PayloadWithLeftovers(form) ==
    [name |-> form.name, enabled |-> TRUE, type |-> form.type,
     minLevel |-> form.minLevel, pattern |-> form.pattern, events |-> form.events,
     threshold |-> IF form.rateEnabled /\ form.threshold > 0 THEN form.threshold ELSE 1,
     windowSeconds |-> IF form.rateEnabled THEN form.windowSeconds ELSE 0,
     cooldownSeconds |-> form.cooldownValue * (IF form.cooldownUnit = "minutes" THEN Minute ELSE 1),
     targets |-> form.targets]

\* Only the fields of the chosen type are sent; a rate field that holds no
\* number falls back to the default.
buildPayload(form) ==
    LET isLog == form.type = "log" IN
    [name |-> form.name, enabled |-> TRUE, type |-> form.type,
     minLevel |-> IF isLog THEN form.minLevel ELSE "any",
     pattern |-> IF isLog THEN form.pattern ELSE "",
     events |-> IF isLog THEN {} ELSE form.events,
     threshold |-> IF form.rateEnabled /\ form.threshold > 0 THEN form.threshold ELSE 1,
     windowSeconds |-> IF form.rateEnabled THEN form.windowSeconds ELSE 0,
     cooldownSeconds |-> form.cooldownValue * (IF form.cooldownUnit = "minutes" THEN Minute ELSE 1),
     targets |-> form.targets]

PRESETS ==
    {[EMPTY_FORM EXCEPT !.name = "crash", !.type = "event", !.events = {"die"}],
     [EMPTY_FORM EXCEPT !.name = "crash", !.type = "event", !.events = {"die"},
                        !.rateEnabled = TRUE, !.threshold = 3, !.windowSeconds = 2],
     [EMPTY_FORM EXCEPT !.name = "spike", !.minLevel = "ERROR",
                        !.rateEnabled = TRUE, !.threshold = 5, !.windowSeconds = 1],
     [EMPTY_FORM EXCEPT !.name = "pattern"],
     EMPTY_FORM}

-----------------------------------------------------------------------------
(* What the server makes of them.                                          *)
ServerAccepts(rule) ==
    /\ rule.name # ""
    /\ rule.type = "event" => /\ rule.events # {}
                              /\ rule.minLevel = "any" /\ rule.pattern = ""
    /\ rule.type = "log" => /\ rule.events = {}
                            /\ rule.minLevel # "any" \/ rule.pattern # ""

\* A rule without a window gets the default one.
WithDefaults(rule) ==
    [rule EXCEPT !.windowSeconds = IF @ = 0 THEN 1 ELSE @]

StoredRules ==
    {r \in [name : {"old"}, enabled : BOOLEAN, type : {"log", "event"},
            minLevel : {"any", "ERROR"}, pattern : {""}, events : {{}, {"oom"}},
            threshold : {3}, windowSeconds : {1}, cooldownSeconds : 0 .. MaxSeconds,
            targets : {Targets}] : ServerAccepts(r)}

ChannelTypes == {"webhook", "gotify", "telegram"}
NoChannelDraft == [type |-> "closed", sent |-> FALSE, url |-> FALSE, token |-> FALSE, target |-> FALSE]

\* Which fields a channel of a type has.
Needs(type) ==
    CASE type = "webhook" -> {"url"} [] type = "gotify" -> {"url", "token"}
      [] type = "telegram" -> {"token", "target"}
buildChannelPayload(d) == [f \in Needs(d.type) |-> d[f]]
ChannelError(d) == \E f \in Needs(d.type) : ~d[f]

-----------------------------------------------------------------------------
NoSave == [kind |-> "none"]
NoQuery == [query |-> "", open |-> FALSE, highlight |-> 0]

AlertFormsInit ==
    /\ \E r \in StoredRules : rules = [id \in {1} |-> r]
    /\ channels = (1 :> TRUE)
    /\ ruleList = NoRules /\ channelList = NoRules
    /\ isDialogOpen = FALSE /\ editingRule = 0 /\ screen = "presets"
    /\ ruleForm = EMPTY_FORM /\ combo = NoQuery /\ ruleSave = NoSave /\ ruleToDelete = 0
    /\ alertRequests = {} /\ channelDraft = NoChannelDraft /\ channelToDelete = 0
    /\ fired = TRUE /\ alertHistory = FALSE /\ isClearOpen = FALSE
    /\ loadedRule = EMPTY_FORM /\ ruleTyped = FALSE /\ alertActs = 0

AlertActs == alertActs < MaxAlertActs /\ alertActs' = alertActs + 1
\* The dialogs are modal.
TabReachable ==
    /\ ~isDialogOpen /\ ruleToDelete = 0 /\ channelToDelete = 0 /\ ~isClearOpen
    /\ ruleList # NoRules

RulesArrive ==
    /\ ruleList # rules /\ ruleList' = rules
    /\ UNCHANGED <<historyBlock, alertStores, channelList, ruleDialog, ruleToDelete,
                   alertRequests, channelPanel, alertActs>>

ChannelsArrive ==
    /\ channelList # channels /\ channelList' = channels
    /\ UNCHANGED <<historyBlock, alertStores, ruleList, ruleDialog, ruleToDelete,
                   alertRequests, channelPanel, alertActs>>

-----------------------------------------------------------------------------
(* The rule dialog.  The editor is mounted while the dialog is open.       *)
OpenEditor(id) ==
    /\ isDialogOpen' = TRUE /\ editingRule' = id /\ combo' = NoQuery /\ ruleSave' = NoSave
    /\ ruleTyped' = FALSE
    /\ IF id = 0
       THEN /\ screen' = "presets" /\ ruleForm' = EMPTY_FORM /\ loadedRule' = EMPTY_FORM
       ELSE /\ screen' = "form" /\ ruleForm' = ruleToForm(ruleList[id])
            /\ loadedRule' = ruleList[id]

OpenCreate ==
    /\ TabReachable /\ OpenEditor(0) /\ UNCHANGED alertActs
    /\ UNCHANGED <<historyBlock, alertStores, alertLists, ruleToDelete, alertRequests,
                   channelPanel>>

OpenEdit ==
    \E id \in DOMAIN ruleList :
        /\ TabReachable /\ OpenEditor(id) /\ UNCHANGED alertActs
        /\ UNCHANGED <<historyBlock, alertStores, alertLists, ruleToDelete,
                       alertRequests, channelPanel>>

\* Cancel, Escape, or a click outside; what is being saved goes on.
CloseDialog ==
    /\ isDialogOpen /\ isDialogOpen' = FALSE
    /\ UNCHANGED <<historyBlock, alertStores, alertLists, editingRule, screen,
                   ruleForm, combo, ruleSave, loadedRule, ruleTyped, ruleToDelete,
                   alertRequests, channelPanel, alertActs>>

TypesRule(form) ==
    /\ ruleForm' = form /\ ruleTyped' = TRUE
    /\ UNCHANGED <<historyBlock, alertStores, alertLists, isDialogOpen, editingRule,
                   ruleSave, loadedRule, ruleToDelete, alertRequests, channelPanel>>
FormShown == isDialogOpen /\ screen = "form"

ApplyPreset ==
    \E preset \in PRESETS :
        /\ isDialogOpen /\ screen = "presets" /\ AlertActs
        /\ TypesRule(preset) /\ screen' = "form"
        /\ UNCHANGED combo

BackToPresets ==
    /\ FormShown /\ editingRule = 0 /\ AlertActs
    /\ screen' = "presets"
    /\ UNCHANGED <<historyBlock, alertStores, alertLists, isDialogOpen, editingRule,
                   ruleForm, combo, ruleSave, loadedRule, ruleTyped, ruleToDelete,
                   alertRequests, channelPanel>>

\* Switching the type keeps the fields of the other one.
SetField ==
    /\ FormShown /\ AlertActs /\ UNCHANGED <<screen, combo>>
    /\ \/ \E n \in {"", "new"} : TypesRule([ruleForm EXCEPT !.name = n])
       \/ \E t \in {"log", "event"} : TypesRule([ruleForm EXCEPT !.type = t])
       \/ ruleForm.type = "log" /\ \E l \in {"any", "ERROR"} : TypesRule([ruleForm EXCEPT !.minLevel = l])
       \/ ruleForm.type = "log" /\ \E x \in {"", "x"} : TypesRule([ruleForm EXCEPT !.pattern = x])
       \/ /\ ruleForm.type = "event"
          /\ \E e \in EventKinds :
                TypesRule([ruleForm EXCEPT !.events = IF e \in @ THEN @ \ {e} ELSE @ \cup {e}])
       \/ ruleForm.rateEnabled /\ \E n \in {NoNumber, 2} : TypesRule([ruleForm EXCEPT !.threshold = n])
       \/ ruleForm.rateEnabled /\ \E n \in {NoNumber, 2} : TypesRule([ruleForm EXCEPT !.windowSeconds = n])
       \/ \E n \in {NoNumber, 1} : TypesRule([ruleForm EXCEPT !.cooldownValue = n])

ToggleRate ==
    /\ FormShown /\ AlertActs /\ UNCHANGED <<screen, combo>>
    /\ IF ruleForm.rateEnabled
       THEN TypesRule([ruleForm EXCEPT !.rateEnabled = FALSE, !.threshold = 1,
                                   !.windowSeconds = NoNumber])
       ELSE TypesRule([ruleForm EXCEPT !.rateEnabled = TRUE,
                                   !.threshold = IF @ > 1 THEN @ ELSE 3,
                                   !.windowSeconds = IF @ # NoNumber THEN @ ELSE 1])

(* The target combobox: suggestions to pick from, or free text.            *)
comboItems ==
    {t \in Targets \ ruleForm.targets : combo.query \in {"", t}}
        \cup (IF combo.query \in Targets \cup ruleForm.targets \cup {""} THEN {} ELSE {combo.query})
showList == combo.open /\ comboItems # {}

ComboKeys ==
    /\ FormShown /\ AlertActs
    /\ UNCHANGED <<historyBlock, alertStores, alertLists, isDialogOpen, editingRule,
                   screen, ruleForm, ruleSave, loadedRule, ruleTyped, ruleToDelete,
                   alertRequests, channelPanel>>
    /\ \/ \E q \in {"", "free"} \cup Targets :
              combo' = [query |-> q, open |-> TRUE, highlight |-> 0]
       \/ combo' = [combo EXCEPT !.open = ~@]
       \/ combo' = [combo EXCEPT !.open = TRUE,
                        !.highlight = Min({@ + 1, Cardinality(comboItems) - 1})]
       \/ combo' = [combo EXCEPT !.highlight = Max({@ - 1, 0})]

\* Enter, or a click on a suggestion.
ComboAdd ==
    \E t \in comboItems \cup ({combo.query} \ {""}) :
        /\ FormShown /\ AlertActs
        /\ showList \/ t = combo.query
        /\ TypesRule([ruleForm EXCEPT !.targets = @ \cup {t}])
        /\ combo' = [combo EXCEPT !.query = "", !.highlight = 0]
        /\ UNCHANGED screen

ComboRemove ==
    \E t \in ruleForm.targets :
        /\ FormShown /\ AlertActs
        /\ TypesRule([ruleForm EXCEPT !.targets = @ \ {t}])
        /\ UNCHANGED <<screen, combo>>

\* A saved edit leaves the rule as enabled as it was when the dialog opened.
HandleSaveRule ==
    /\ FormShown /\ AlertActs /\ ruleSave \notin alertRequests /\ ~FormError(ruleForm)
    /\ ruleSave' = [kind |-> "save", id |-> editingRule,
                  body |-> IF editingRule = 0 THEN buildPayload(ruleForm)
                           ELSE [buildPayload(ruleForm) EXCEPT !.enabled = loadedRule.enabled]]
    /\ alertRequests' = alertRequests \cup {ruleSave'}
    /\ UNCHANGED <<historyBlock, alertStores, alertLists, isDialogOpen, editingRule,
                   screen, ruleForm, combo, loadedRule, ruleTyped, ruleToDelete,
                   channelPanel>>

-----------------------------------------------------------------------------
(* The list of rules.                                                      *)
\* The switch sends the whole rule as listed; all switches are disabled
\* meanwhile.
HandleToggleRule ==
    \E id \in DOMAIN ruleList :
        /\ TabReachable /\ AlertActs /\ NoRequestFor({"toggle"})
        /\ alertRequests' = alertRequests \cup {[kind |-> "toggle", id |-> id,
               body |-> [ruleList[id] EXCEPT !.enabled = ~@]]}
        /\ UNCHANGED <<historyBlock, alertStores, alertLists, ruleDialog, ruleToDelete,
                       channelPanel>>

AskDeleteRule ==
    \E id \in DOMAIN ruleList :
        /\ TabReachable /\ AlertActs /\ NoRequestFor({"delete"})
        /\ ruleToDelete' = id
        /\ UNCHANGED <<historyBlock, alertStores, alertLists, ruleDialog,
                       alertRequests, channelPanel>>

HandleDeleteRule ==
    /\ ruleToDelete # 0 /\ ruleToDelete' = 0
    /\ alertRequests' \in
           {alertRequests, alertRequests \cup {[kind |-> "delete", id |-> ruleToDelete]}}
    /\ UNCHANGED <<historyBlock, alertStores, alertLists, ruleDialog, channelPanel,
                   alertActs>>

\* An answer.  A dialog, or a new channel's fields, close if the request is
\* theirs and not of an earlier one closed meanwhile.
RequestSettles ==
    \E r \in alertRequests :
        /\ alertRequests' = alertRequests \ {r}
        /\ fired' \in IF r.kind = "clear" THEN {FALSE, fired} ELSE {fired}
        /\ \/ /\ UNCHANGED <<alertStores, isDialogOpen>>
              /\ channelDraft' = [channelDraft EXCEPT !.sent = @ /\ r.kind # "addChannel"]
           \/ /\ r.kind \in {"save", "toggle"} /\ ServerAccepts(r.body)
              /\ r.id = 0 \/ r.id \in DOMAIN rules
              /\ \/ /\ r.id = 0 /\ RuleIds \ DOMAIN rules # {}
                    /\ LET new == Max(RuleIds \ DOMAIN rules) IN
                          rules' = [id \in DOMAIN rules \cup {new} |->
                                       IF id = new THEN WithDefaults(r.body) ELSE rules[id]]
                 \/ r.id # 0 /\ rules' = [rules EXCEPT ![r.id] = WithDefaults(r.body)]
              /\ isDialogOpen' = (isDialogOpen /\ r # ruleSave)
              /\ UNCHANGED <<channels, channelDraft>>
           \/ /\ r.kind = "delete"
              /\ rules' = [id \in DOMAIN rules \ {r.id} |-> rules[id]]
              /\ UNCHANGED <<channels, isDialogOpen, channelDraft>>
           \/ /\ r.kind = "toggleChannel" /\ r.id \in DOMAIN channels
              /\ channels' = [channels EXCEPT ![r.id] = r.enabled]
              /\ UNCHANGED <<rules, isDialogOpen, channelDraft>>
           \/ /\ r.kind = "addChannel"
              /\ channels' = (2 :> TRUE) @@ channels
              /\ channelDraft' = IF channelDraft.sent THEN NoChannelDraft ELSE channelDraft
              /\ UNCHANGED <<rules, isDialogOpen>>
           \/ /\ r.kind = "deleteChannel"
              /\ channels' = [id \in DOMAIN channels \ {r.id} |-> channels[id]]
              /\ UNCHANGED <<rules, isDialogOpen, channelDraft>>
        /\ UNCHANGED <<alertHistory, isClearOpen, alertLists, editingRule, screen,
                       ruleForm, combo, ruleSave, loadedRule, ruleTyped, ruleToDelete,
                       channelToDelete, alertActs>>

-----------------------------------------------------------------------------
(* The channels.                                                           *)
\* Changing the type empties the fields; here they are filled in one act.
EditDraft ==
    /\ TabReachable /\ AlertActs
    /\ \/ \E t \in ChannelTypes : \E typed \in SUBSET Needs(t) :
             channelDraft' = [f \in typed |-> TRUE]
                             @@ [NoChannelDraft EXCEPT !.type = t, !.sent = channelDraft.sent]
       \/ channelDraft # NoChannelDraft /\ channelDraft' = NoChannelDraft
    /\ UNCHANGED <<historyBlock, alertStores, alertLists, ruleDialog, ruleToDelete,
                   alertRequests, channelToDelete>>

HandleAddChannel ==
    /\ TabReachable /\ AlertActs /\ channelDraft # NoChannelDraft /\ ~ChannelError(channelDraft)
    /\ NoRequestFor({"addChannel"})
    /\ alertRequests' = alertRequests \cup {[kind |-> "addChannel", type |-> channelDraft.type,
                                   fields |-> buildChannelPayload(channelDraft)]}
    /\ channelDraft' = [channelDraft EXCEPT !.sent = TRUE]
    /\ UNCHANGED <<historyBlock, alertStores, alertLists, ruleDialog, ruleToDelete,
                   channelToDelete>>

HandleToggleChannel ==
    \E id \in DOMAIN channelList \ {0} :
        /\ TabReachable /\ AlertActs /\ NoRequestFor({"toggleChannel"})
        /\ alertRequests' = alertRequests \cup {[kind |-> "toggleChannel", id |-> id,
                                       enabled |-> ~channelList[id]]}
        /\ UNCHANGED <<historyBlock, alertStores, alertLists, ruleDialog, ruleToDelete,
                       channelPanel>>

AskDeleteChannel ==
    \E id \in DOMAIN channelList \ {0} :
        /\ TabReachable /\ AlertActs /\ NoRequestFor({"deleteChannel"})
        /\ channelToDelete' = id
        /\ UNCHANGED <<historyBlock, alertStores, alertLists, ruleDialog, ruleToDelete,
                       alertRequests, channelDraft>>

HandleDeleteChannel ==
    /\ channelToDelete # 0 /\ channelToDelete' = 0
    /\ alertRequests' \in
           {alertRequests,
            alertRequests \cup {[kind |-> "deleteChannel", id |-> channelToDelete]}}
    /\ UNCHANGED <<historyBlock, alertStores, alertLists, ruleDialog, ruleToDelete,
                   channelDraft, alertActs>>

-----------------------------------------------------------------------------
(* The history, polled.                                                    *)
HistoryPoll ==
    /\ alertHistory # fired /\ alertHistory' = fired
    /\ UNCHANGED <<fired, isClearOpen, alertStores, alertLists, ruleDialog,
                   ruleToDelete, alertRequests, channelPanel, alertActs>>

AskClear ==
    /\ TabReachable /\ alertHistory /\ NoRequestFor({"clear"}) /\ AlertActs
    /\ isClearOpen' = TRUE
    /\ UNCHANGED <<fired, alertHistory, alertStores, alertLists, ruleDialog,
                   ruleToDelete, alertRequests, channelPanel>>

HandleClear ==
    /\ isClearOpen /\ isClearOpen' = FALSE
    /\ alertRequests' \in {alertRequests, alertRequests \cup {[kind |-> "clear"]}}
    /\ UNCHANGED <<fired, alertHistory, alertStores, alertLists, ruleDialog,
                   ruleToDelete, channelPanel, alertActs>>

-----------------------------------------------------------------------------
RulesBlockNext ==
    \/ RulesArrive \/ OpenCreate \/ OpenEdit \/ CloseDialog
    \/ ApplyPreset \/ BackToPresets \/ SetField \/ ToggleRate
    \/ ComboKeys \/ ComboAdd \/ ComboRemove \/ HandleSaveRule
    \/ HandleToggleRule \/ AskDeleteRule \/ HandleDeleteRule \/ RequestSettles

ChannelsBlockNext ==
    \/ RulesArrive \/ ChannelsArrive \/ EditDraft \/ HandleAddChannel \/ HandleToggleChannel
    \/ AskDeleteChannel \/ HandleDeleteChannel \/ HistoryPoll \/ AskClear \/ HandleClear
    \/ RequestSettles

AlertFormsNext == RulesBlockNext \/ ChannelsBlockNext

AlertFormsSpec == AlertFormsInit /\ [][AlertFormsNext]_afVars
-----------------------------------------------------------------------------
RuleSaves == {r \in alertRequests : r.kind = "save"}

\* Saving an edit nobody typed into sends the rule it was opened on.
UntouchedRuleKept ==
    [][\A r \in RuleSaves' \ RuleSaves : r.id # 0 /\ ~ruleTyped => r.body = loadedRule]_afVars

\* A rule the dialog sends is never refused for its trigger, whatever
\* presets, types and fields were tried before: "event rules need at least
\* one event", log rules a level or a pattern, and neither the other's.
SentRulesAccepted == \A r \in RuleSaves : ServerAccepts(r.body)
=============================================================================
