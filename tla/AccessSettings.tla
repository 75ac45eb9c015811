--------------------------- MODULE AccessSettings ---------------------------
(***************************************************************************)
(* The "Access" and "Log storage" tabs of the settings page: the           *)
(* administrator's account, read-only mode, the retention caps and the API *)
(* tokens.  The forms are copies of the settings; a tab's components are   *)
(* mounted while it is open, and an answer to a component that is gone is  *)
(* not heard.                                                              *)
(***************************************************************************)
EXTENDS Integers, FiniteSets

CONSTANTS
    Users,          \* user names typed
    Caps,           \* caps typed, in MB; 0 stands for what is no number
    PinnedCaps,     \* the caps the environment sets
    MaxTokens,      \* bound: API tokens created
    MaxAccessActs   \* bound: what the user does

VARIABLES
    tab,            \* the tab that is open
    conf,           \* the server's settings
    data,           \* the settings query's copy, or NoData
    authForm,       \* AuthSection's fields
    capsForm,       \* RetentionCapsForm's fields
    sent,           \* the requests on their way, per mutation
    isCreating,     \* the form for a new token is open
    tokens,         \* the tokens there are, by number of creation
    createdToken,   \* the token shown, 0 if none
    copied, copying,    \* the copy button; the tokens being copied
    clipboard,
    tokenToRevoke,
    created,        \* how many tokens were created
    dirty,          \* history: the forms the user has typed into
    accessActs

tokenPanel == <<isCreating, createdToken, copied, copying, tokenToRevoke>>
forms == <<authForm, capsForm, dirty>>
server == <<conf, tokens, created>>
asVars == <<tab, server, data, forms, sent, tokenPanel, clipboard, accessActs>>

Tabs == {"access", "storage", "other"}
CapNames == {"perContainer", "total"}
Mutations == {"auth", "readOnly", "caps", "create", "revoke"}
NoRequest == [kind |-> "none"]
NoConf == [enabled |-> FALSE, user |-> "?", password |-> "", readOnly |-> FALSE,
           caps |-> [c \in CapNames |-> 0]]
Known == data # NoConf
Isolated(m) == sent[m] = NoRequest
Counted == accessActs < MaxAccessActs /\ accessActs' = accessActs + 1
\* The confirmation of a revocation is modal.
Acts(t) == Known /\ tab = t /\ tokenToRevoke = 0 /\ Counted

-----------------------------------------------------------------------------
(* The components, as they mount.                                          *)
AuthFields(c) == [enabled |-> c.enabled, username |-> c.user, password |-> ""]

\* A password is never sent to the browser.
Unsecret(c) == [c EXCEPT !.password = ""]

AuthKey(c) == <<c.enabled, c.user>>

\* Mutant: a key that forgets the total cap.
PerContainerKey(c) == c.caps["perContainer"]

CapsKey(c) == <<c.caps["perContainer"], c.caps["total"]>>

AccessSettingsInit ==
    /\ tab = "access"
    /\ conf = [enabled |-> FALSE, user |-> "", password |-> "", readOnly |-> FALSE,
               caps |-> [perContainer |-> 1, total |-> 2]]
    /\ data = NoConf
    /\ authForm = AuthFields(NoConf) /\ capsForm = NoConf.caps /\ dirty = {}
    /\ sent = [m \in Mutations |-> NoRequest]
    /\ isCreating = FALSE /\ tokens = {} /\ createdToken = 0
    /\ copied = FALSE /\ copying = {} /\ clipboard = 0 /\ tokenToRevoke = 0
    /\ created = 0 /\ accessActs = 0

Remount(auth, caps, from) ==
    /\ authForm' = IF auth THEN AuthFields(from) ELSE authForm
    /\ capsForm' = IF caps THEN from.caps ELSE capsForm
    /\ dirty' = dirty \ ((IF auth THEN {"auth"} ELSE {}) \cup (IF caps THEN {"caps"} ELSE {}))

\* The settings are read, first or again.
DataArrives ==
    /\ data # Unsecret(conf) /\ data' = Unsecret(conf)
    /\ Remount(AuthKey(data') # AuthKey(data), CapsKey(data') # CapsKey(data), data')
    /\ UNCHANGED <<tab, server, sent, tokenPanel, clipboard, accessActs>>

\* Opening a tab mounts its sections afresh.
SetTab ==
    \E t \in Tabs \ {tab} :
        /\ Acts(tab) /\ tab' = t
        /\ Remount(TRUE, TRUE, data)
        /\ isCreating' = FALSE /\ createdToken' = 0 /\ copied' = FALSE
        /\ copying' = {} /\ tokenToRevoke' = 0
        /\ UNCHANGED <<server, data, sent, clipboard>>

\* Another session changes the settings.
OtherSessionChanges ==
    /\ Counted
    /\ \/ conf' = [conf EXCEPT !.enabled = TRUE, !.user = "other", !.password = "other"]
       \/ \E c \in CapNames \ PinnedCaps : conf' = [conf EXCEPT !.caps[c] = 4]
       \/ conf' = [conf EXCEPT !.readOnly = ~@]
    /\ UNCHANGED <<tab, tokens, created, data, forms, sent, tokenPanel, clipboard>>

-----------------------------------------------------------------------------
(* The administrator's account.                                            *)
authHasChanges ==
    authForm # AuthFields(data)

SetEnabled ==
    /\ Acts("access")
    /\ authForm' = [authForm EXCEPT !.enabled = ~@,
                       !.password = IF authForm.enabled THEN "" ELSE @]
    /\ dirty' = dirty \cup {"auth"}
    /\ UNCHANGED <<tab, server, data, capsForm, sent, tokenPanel, clipboard>>

TypeAccount ==
    /\ Acts("access") /\ authForm.enabled
    /\ \/ \E u \in Users : authForm' = [authForm EXCEPT !.username = u]
       \/ authForm' = [authForm EXCEPT !.password = "new"]
    /\ dirty' = dirty \cup {"auth"}
    /\ UNCHANGED <<tab, server, data, capsForm, sent, tokenPanel, clipboard>>

HandleSaveAuth ==
    /\ Acts("access") /\ authHasChanges /\ Isolated("auth")
    /\ authForm.enabled => authForm.username # ""
    /\ authForm.enabled /\ ~data.enabled => authForm.password # ""
    /\ sent' = [sent EXCEPT !["auth"] = [kind |-> "put", form |-> authForm]]
    /\ UNCHANGED <<tab, server, data, forms, tokenPanel, clipboard>>

\* The password field is cleared if the section is still there.
AuthSaved ==
    LET f == sent["auth"].form IN
    /\ ~Isolated("auth") /\ sent' = [sent EXCEPT !["auth"] = NoRequest]
    /\ conf' = [conf EXCEPT !.enabled = f.enabled, !.user = f.username,
                   !.password = IF f.password = "" THEN @ ELSE f.password]
    /\ authForm' = IF tab = "access" THEN [authForm EXCEPT !.password = ""] ELSE authForm
    /\ UNCHANGED <<tab, tokens, created, data, capsForm, dirty, tokenPanel, clipboard,
                   accessActs>>

(* Read-only mode: the switch shows the settings, and is disabled while a  *)
(* change is on its way.                                                   *)
HandleToggleReadOnly ==
    /\ Acts("access") /\ Isolated("readOnly")
    /\ sent' = [sent EXCEPT !["readOnly"] = [kind |-> "put", value |-> ~data.readOnly]]
    /\ UNCHANGED <<tab, server, data, forms, tokenPanel, clipboard>>

ReadOnlySaved ==
    /\ ~Isolated("readOnly") /\ sent' = [sent EXCEPT !["readOnly"] = NoRequest]
    /\ conf' = [conf EXCEPT !.readOnly = sent["readOnly"].value]
    /\ UNCHANGED <<tab, tokens, created, data, forms, tokenPanel, clipboard, accessActs>>

(* The retention caps.                                                     *)
capsHasChanges == \E c \in CapNames \ PinnedCaps : capsForm[c] # data.caps[c]

validateRetentionCaps(caps) ==
    caps["perContainer"] # 0 /\ caps["total"] # 0 /\ caps["perContainer"] <= caps["total"]

TypeCap ==
    \E c \in CapNames \ PinnedCaps, n \in Caps :
        /\ Acts("storage")
        /\ capsForm' = [capsForm EXCEPT ![c] = n]
        /\ dirty' = dirty \cup {"caps"}
        /\ UNCHANGED <<tab, server, data, authForm, sent, tokenPanel, clipboard>>

\* Only the caps the environment leaves open are sent.
HandleSaveCaps ==
    /\ Acts("storage") /\ capsHasChanges /\ Isolated("caps") /\ validateRetentionCaps(capsForm)
    /\ sent' = [sent EXCEPT !["caps"] =
           [kind |-> "put", caps |-> [c \in CapNames \ PinnedCaps |-> capsForm[c]]]]
    /\ UNCHANGED <<tab, server, data, forms, tokenPanel, clipboard>>

CapsSaved ==
    /\ ~Isolated("caps") /\ sent' = [sent EXCEPT !["caps"] = NoRequest]
    /\ conf' = [conf EXCEPT !.caps =
           [c \in CapNames |-> IF c \in PinnedCaps THEN conf.caps[c] ELSE sent["caps"].caps[c]]]
    /\ UNCHANGED <<tab, tokens, created, data, forms, tokenPanel, clipboard, accessActs>>

\* Any of the changes may be refused.
SettingRefused ==
    \E m \in {"auth", "readOnly", "caps", "create", "revoke"} :
        /\ ~Isolated(m) /\ sent' = [sent EXCEPT ![m] = NoRequest]
        /\ UNCHANGED <<tab, server, data, forms, tokenPanel, clipboard, accessActs>>

-----------------------------------------------------------------------------
(* API tokens.                                                             *)
\* Opening or cancelling the form; a creation on its way goes on.
ToggleCreating ==
    /\ Acts("access") /\ isCreating' = ~isCreating
    /\ UNCHANGED <<tab, server, data, forms, sent, createdToken, copied, copying,
                   tokenToRevoke, clipboard>>

HandleCreate ==
    /\ Acts("access") /\ isCreating /\ Isolated("create") /\ created < MaxTokens
    /\ sent' = [sent EXCEPT !["create"] = [kind |-> "post", mounted |-> TRUE]]
    /\ UNCHANGED <<tab, server, data, forms, tokenPanel, clipboard>>

\* The token comes once, and is shown if the section is still mounted.
TokenCreated ==
    /\ ~Isolated("create") /\ sent' = [sent EXCEPT !["create"] = NoRequest]
    /\ created' = created + 1 /\ tokens' = tokens \cup {created'}
    /\ IF tab = "access"
       THEN createdToken' = created' /\ copied' = FALSE /\ isCreating' = FALSE
       ELSE UNCHANGED <<createdToken, copied, isCreating>>
    /\ UNCHANGED <<tab, conf, data, forms, copying, tokenToRevoke, clipboard, accessActs>>

HandleCopy ==
    /\ Acts("access") /\ createdToken # 0
    /\ copying' = copying \cup {createdToken}
    /\ UNCHANGED <<tab, server, data, forms, sent, isCreating, createdToken, copied,
                   tokenToRevoke, clipboard>>

\* The clipboard answers.
CopyDone ==
    \E t \in copying :
        /\ copying' = copying \ {t} /\ copied' = TRUE /\ clipboard' = t
        /\ UNCHANGED <<tab, server, data, forms, sent, isCreating, createdToken,
                       tokenToRevoke, accessActs>>

\* "Done": the token is gone from the page.
DismissToken ==
    /\ Acts("access") /\ createdToken # 0 /\ createdToken' = 0
    /\ UNCHANGED <<tab, server, data, forms, sent, isCreating, copied, copying,
                   tokenToRevoke, clipboard>>

AskRevoke ==
    \E t \in tokens :
        /\ Acts("access") /\ Isolated("revoke") /\ tokenToRevoke' = t
        /\ UNCHANGED <<tab, server, data, forms, sent, isCreating, createdToken, copied,
                       copying, clipboard>>

CancelRevoke ==
    /\ tokenToRevoke # 0 /\ tokenToRevoke' = 0
    /\ UNCHANGED <<tab, server, data, forms, sent, isCreating, createdToken, copied, copying,
                   clipboard, accessActs>>

HandleRevoke ==
    /\ tokenToRevoke # 0
    /\ sent' = [sent EXCEPT !["revoke"] = [kind |-> "delete", token |-> tokenToRevoke]]
    /\ tokenToRevoke' = 0
    /\ UNCHANGED <<tab, server, data, forms, isCreating, createdToken, copied, copying,
                   clipboard, accessActs>>

TokenRevoked ==
    /\ ~Isolated("revoke") /\ sent' = [sent EXCEPT !["revoke"] = NoRequest]
    /\ tokens' = tokens \ {sent["revoke"].token}
    /\ UNCHANGED <<tab, conf, created, data, forms, tokenPanel, clipboard, accessActs>>

-----------------------------------------------------------------------------
AccessSettingsNext ==
    \/ DataArrives \/ SetTab \/ OtherSessionChanges \/ SetEnabled \/ TypeAccount
    \/ HandleSaveAuth \/ AuthSaved \/ HandleToggleReadOnly \/ ReadOnlySaved \/ TypeCap
    \/ HandleSaveCaps \/ CapsSaved \/ SettingRefused
    \/ ToggleCreating \/ HandleCreate \/ TokenCreated \/ HandleCopy
    \/ CopyDone \/ DismissToken \/ AskRevoke \/ CancelRevoke \/ HandleRevoke \/ TokenRevoked

AccessSettingsSpec == AccessSettingsInit /\ [][AccessSettingsNext]_asVars
-----------------------------------------------------------------------------
\* A form nobody has typed into shows the settings last read, whatever was
\* saved meanwhile: a later save would write what it shows.
UneditedFormsShowConfig ==
    /\ Known /\ tab = "access" /\ "auth" \notin dirty => authForm = AuthFields(data)
    /\ Known /\ tab = "storage" /\ "caps" \notin dirty => capsForm = data.caps
=============================================================================
