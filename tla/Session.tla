------------------------------ MODULE Session ------------------------------
(***************************************************************************)
(* The browser session: the token in localStorage (lib/api-client.ts), the *)
(* provider's copy of it (contexts/auth-context.tsx), the cached answer of *)
(* /auth/config (lib/auth-config.ts), the route guard that waits for it    *)
(* (lib/auth-guard.ts), the login page and the logout button.              *)
(*                                                                         *)
(* Tokens are numbered as the server hands them out; 0 is no token.  While *)
(* authentication is off /auth/me has no user to tell and answers 401, as  *)
(* for a token that has expired, so the provider's branch for a 404, which *)
(* only an older server gives, is left out.                                *)
(***************************************************************************)
EXTENDS Naturals

CONSTANTS
    MaxIssued,      \* bound: tokens
    MaxSessionActs  \* bound: acts of the user and changes of the server

VARIABLES
    storedToken,    \* localStorage
    provider,       \* the provider's token, the token of the user it shows, and its flags
    authConfig,     \* authEnabledPromise: "none", "pending", "on", "off"
    path,           \* what is shown: "blank", "login", "page", "error"
    guarding,       \* requireAuthIfEnabled is waiting for authConfig
    asked,          \* requests sent: to verify a token, to log in, any other call
    authOn,         \* the server's authentication
    valid,          \* the tokens it accepts
    issued,
    loggedOut,      \* history: tokens the user has logged out of
    entitled,       \* history: since the page load a token was stored or authentication was off
    sessionActs

browser == <<storedToken, provider, authConfig, path, guarding, asked, loggedOut, entitled>>
seVars == <<browser, authOn, valid, issued, sessionActs>>

NoToken == 0
Signed(t, flag) == [token |-> t, user |-> t, isAuthEnabled |-> flag, checking |-> FALSE]
Verify(t) == [kind |-> "verify", token |-> t]
Login == [kind |-> "login", token |-> NoToken]
Call(t) == [kind |-> "call", token |-> t]

Act == sessionActs < MaxSessionActs /\ sessionActs' = sessionActs + 1

-----------------------------------------------------------------------------
(* Loading a page, and the guard of every page but the login page.         *)

\* requireAuthIfEnabled: a stored token is enough; without one the cached
\* answer decides, which is asked for if it has not been.
Guard(token, config) ==
    IF token # NoToken THEN [path |-> "page", waits |-> FALSE]
    ELSE IF config = "off" THEN [path |-> "page", waits |-> FALSE]
    ELSE IF config = "on" THEN [path |-> "login", waits |-> FALSE]
    ELSE [path |-> "blank", waits |-> TRUE]

\* A page load: nothing but localStorage survives it.  The provider verifies
\* a stored token, or asks whether authentication is on.
PageLoads(target, token) ==
    LET admission == Guard(token, "pending")
    IN  /\ storedToken' = token
        /\ provider' = [token |-> token, user |-> NoToken, isAuthEnabled |-> TRUE,
                        checking |-> token = NoToken]
        /\ authConfig' = IF token = NoToken THEN "pending" ELSE "none"
        /\ asked' = IF token = NoToken THEN {} ELSE {Verify(token)}
        /\ path' = IF target = "login" THEN "login" ELSE admission.path
        /\ guarding' = (target # "login" /\ admission.waits)
        /\ entitled' = (token # NoToken \/ ~authOn)
        /\ UNCHANGED loggedOut

\* A link to another page, the browser's back button, or the retry of the
\* error page.
Navigate ==
    /\ Act
    /\ path # "blank" /\ ~guarding
    /\ LET admission == Guard(storedToken, authConfig)
       IN  /\ path' = IF admission.waits THEN path ELSE admission.path
           /\ guarding' = admission.waits
           /\ authConfig' = IF admission.waits THEN "pending" ELSE authConfig
    /\ UNCHANGED <<storedToken, provider, asked, loggedOut, entitled, authOn, valid, issued>>

Reload ==
    /\ Act
    /\ \E target \in {"login", "page"} : PageLoads(target, storedToken)
    /\ UNCHANGED <<authOn, valid, issued>>

\* fetchAuthEnabled, whose failures are not cached.  Whoever waits goes on:
\* the provider takes the answer, the guard redirects or lets the page show,
\* without another look at the token.
Answer(config) ==
    /\ authConfig' = config
    /\ provider' = IF provider.checking
                     THEN [provider EXCEPT !.checking = FALSE, !.isAuthEnabled = config # "off"]
                     ELSE provider
    /\ path' = IF guarding THEN [on |-> "login", off |-> "page", none |-> "error"][config] ELSE path
    /\ guarding' = FALSE

\* Mutant: an answer that is not ok counts as no authentication.
OffUnlessOn(ok) == IF ok /\ authOn THEN "on" ELSE "off"
AuthEnabled(ok) == IF ok /\ ~authOn THEN "off" ELSE "on"

ConfigAnswered ==
    /\ authConfig = "pending"
    /\ \E ok \in BOOLEAN : Answer(AuthEnabled(ok))
    /\ UNCHANGED <<storedToken, asked, loggedOut, entitled, authOn, valid, issued, sessionActs>>

ConfigFails ==
    /\ authConfig = "pending"
    /\ Answer("none")
    /\ UNCHANGED <<storedToken, asked, loggedOut, entitled, authOn, valid, issued, sessionActs>>

-----------------------------------------------------------------------------
(* The provider.                                                           *)

\* Mutant: a verified token is stored again.
StoredAndVerified(t) == storedToken' = t
Verified(t) == UNCHANGED storedToken

\* verifyToken: any answer but a success, and no answer, signs the user out.
VerifyAnswered(r) ==
    /\ r \in asked /\ r.kind = "verify" /\ asked' = asked \ {r}
    /\ \/ /\ authOn /\ r.token \in valid
          /\ Verified(r.token)
          /\ provider' = Signed(r.token, TRUE)
       \/ /\ storedToken' = NoToken
          /\ provider' = Signed(NoToken, provider.isAuthEnabled)
    /\ UNCHANGED <<authConfig, path, guarding, loggedOut, entitled, authOn, valid, issued, sessionActs>>

\* The login page: one attempt at a time.
HandleSubmit ==
    /\ Act
    /\ path = "login" /\ Login \notin asked
    /\ asked' = asked \cup {Login}
    /\ UNCHANGED <<storedToken, provider, authConfig, path, guarding, loggedOut, entitled>>
    /\ UNCHANGED <<authOn, valid, issued>>

\* login and the navigation that follows it; the token just stored admits.
LoginAnswered ==
    /\ Login \in asked /\ authOn /\ issued < MaxIssued
    /\ issued' = issued + 1 /\ valid' = valid \cup {issued'}
    /\ asked' = asked \ {Login}
    /\ storedToken' = issued'
    /\ provider' = [provider EXCEPT !.token = issued', !.user = issued']
    /\ entitled' = TRUE
    /\ path' = "page" /\ guarding' = FALSE
    /\ UNCHANGED <<authConfig, loggedOut, authOn, sessionActs>>

LoginFails ==
    /\ Login \in asked
    /\ asked' = asked \ {Login}
    /\ UNCHANGED <<storedToken, provider, authConfig, path, guarding, loggedOut, entitled>>
    /\ UNCHANGED <<authOn, valid, issued, sessionActs>>

\* handleLogout; calls and a verification under way go on.
offersLogout == path = "page" /\ provider.isAuthEnabled
HandleLogout ==
    /\ Act
    /\ offersLogout
    /\ storedToken' = NoToken
    /\ loggedOut' = loggedOut \cup ({storedToken, provider.token} \ {NoToken})
    /\ provider' = Signed(NoToken, TRUE)
    /\ path' = "login" /\ guarding' = FALSE
    /\ UNCHANGED <<authConfig, asked, entitled, authOn, valid, issued>>

-----------------------------------------------------------------------------
(* authenticatedFetch.                                                     *)
CallSent ==
    /\ Act
    /\ path = "page" /\ Call(storedToken) \notin asked
    /\ asked' = asked \cup {Call(storedToken)}
    /\ UNCHANGED <<storedToken, provider, authConfig, path, guarding, loggedOut, entitled>>
    /\ UNCHANGED <<authOn, valid, issued>>

\* A 401 removes whatever token is stored by now, and loads the login page
\* unless it is shown already.
CallAnswered(r) ==
    /\ r \in asked /\ r.kind = "call"
    /\ IF ~authOn \/ r.token \in valid
         THEN asked' = asked \ {r}
              /\ UNCHANGED <<storedToken, provider, authConfig, path, guarding, loggedOut, entitled>>
       ELSE IF path # "login" \/ guarding THEN PageLoads("login", NoToken)
       ELSE asked' = asked \ {r} /\ storedToken' = NoToken
            /\ UNCHANGED <<provider, authConfig, path, guarding, loggedOut, entitled>>
    /\ UNCHANGED <<authOn, valid, issued, sessionActs>>

-----------------------------------------------------------------------------
(* The server: tokens expire, and authentication is switched on or off.    *)
Expire(t) ==
    /\ Act
    /\ valid' = valid \ {t}
    /\ UNCHANGED <<browser, authOn, issued>>

SwitchAuth ==
    /\ Act
    /\ authOn' = ~authOn
    /\ entitled' = (entitled \/ authOn)
    /\ UNCHANGED <<storedToken, provider, authConfig, path, guarding, asked, loggedOut, valid, issued>>

\* The first page load, with no token, one the server accepts or an old one.
SessionInit ==
    /\ authOn \in BOOLEAN /\ issued = 1 /\ valid \in SUBSET {1} /\ loggedOut = {}
    /\ storedToken \in {NoToken, 1}
    /\ provider = [token |-> storedToken, user |-> NoToken, isAuthEnabled |-> TRUE,
                   checking |-> storedToken = NoToken]
    /\ authConfig = (IF storedToken = NoToken THEN "pending" ELSE "none")
    /\ asked = (IF storedToken = NoToken THEN {} ELSE {Verify(storedToken)})
    /\ path = Guard(storedToken, "pending").path
    /\ guarding = Guard(storedToken, "pending").waits
    /\ entitled = (storedToken # NoToken \/ ~authOn)
    /\ sessionActs = 0

SessionNext ==
    \/ Navigate \/ Reload \/ ConfigAnswered \/ ConfigFails
    \/ \E r \in asked : VerifyAnswered(r) \/ CallAnswered(r)
    \/ HandleSubmit \/ LoginAnswered \/ LoginFails \/ HandleLogout \/ CallSent
    \/ SwitchAuth \/ \E t \in valid : Expire(t)

SessionSpec == SessionInit /\ [][SessionNext]_seVars
-----------------------------------------------------------------------------
\* "Fails closed" (requireAuthIfEnabled): no page is shown in a page load in
\* which no token was stored and authentication was never off, however its
\* lookups fail, are shared, cached and retried.
GuardFailsClosed == path = "page" => entitled

\* A token the user has logged out of is never sent again: no verification,
\* call or login that was under way brings it back.
LoggedOutStaysOut == storedToken \notin loggedOut

SessionKept == GuardFailsClosed /\ LoggedOutStaysOut
=============================================================================
