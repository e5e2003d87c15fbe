---- MODULE Workbench ----
(***************************************************************************)
(* The Workbench page of one browser tab (workbench-context.tsx and the    *)
(* scenarios of workbench-screen.tsx) with the service it talks to: the    *)
(* requests in flight, the one AbortController, the identity vault and its *)
(* copy in session storage, the browser's cookies, and what the service    *)
(* remembers of sessions, tickets and states.                              *)
(*                                                                         *)
(* A step of the page is one task of its event loop: an event handler, or  *)
(* the continuation of `await runRequest` up to the next await.  A request *)
(* is begun, served, received (headers and cookies) and delivered (body)   *)
(* in separate steps, and everything else may happen in between.           *)
(***************************************************************************)
EXTENDS WorkbenchDomain, FiniteSets

CONSTANTS
  MaxCalls,        \* bound: requests begun in one run
  PanelEndpoints,  \* the entries the user sends from the request panel
  Edited,          \* the vault fields the user edits by hand
  Selected,        \* the modes the user selects by hand
  Scenarios,       \* the demo scenarios the user starts
  OtherTabs,       \* whether another tab of this origin signs in
  Storage,         \* whether session storage may work, or be denied
  Enrolled         \* whether the demo user may have a second factor, or none

Flows == {"panel", "demo", "csrf", "prepare1", "prepare2", "social1", "social2"}

\* What the identity panel offers: its vault fields and its scenario buttons.
VaultFields == {"accessToken", "refreshToken", "apiKey", "csrfToken"}
ScenarioButtons == {"demoLogin", "prepareSessions", "useDemoApiKey", "runSocial"}

ASSUME WorkbenchAssumption ==
  /\ MaxCalls \in Nat \ {0}
  /\ PanelEndpoints \subseteq EndpointIds
  /\ Edited \subseteq VaultFields
  /\ Selected \subseteq AuthModes
  /\ Scenarios \subseteq ScenarioButtons
  /\ OtherTabs \in BOOLEAN
  /\ Storage \subseteq BOOLEAN
  /\ Enrolled \subseteq BOOLEAN

VARIABLES
  authMode, variables,            \* React state: the mode and the vault
  stored, storedMode,             \* session storage
  storageWorks,                   \* FALSE where the browser denies it
  calls, latest,                  \* the requests begun, and how many
  abortRef, isRunning,            \* the controller in use (0: null) and the spinner
  response,                       \* the displayed response
  toast,                          \* the toast the last step pushed, if any
  panel,                          \* the mounted endpoint and its draft
  jar,                            \* the browser's cookies
  server,                         \* what the service remembers
  past                            \* history: secrets cleared, sessions kept in cookies

vault == <<variables, stored>>
page == <<authMode, storedMode, panel>>
run == <<calls, latest, abortRef, isRunning>>
vars == <<authMode, variables, stored, storedMode, storageWorks, calls, latest,
          abortRef, isRunning, response, toast, panel, jar, server, past>>

Calls == 1..MaxCalls
OtherTab == MaxCalls + 1
Sessions == 1..OtherTab

(***************************************************************************)
(* Requests.                                                               *)
(***************************************************************************)
NoReply == [status |-> 0, data |-> << >>, cookies |-> << >>]
Unbegun == [flow |-> "panel", endpoint |-> "health-live", mode |-> "bearer",
            closure |-> "bearer", wire |-> "unsent", waiting |-> FALSE,
            aborted |-> FALSE, request |-> << >>, reply |-> NoReply]

NoResponse == [call |-> 0, status |-> 0, notice |-> "undefined"]
NoToast == [name |-> "none", call |-> 0]
Toast(name, c) == [name |-> name, call |-> c]

\* A step that shows nothing new.
Quiet == toast' = NoToast /\ UNCHANGED response

ok(status) == status \in 200..299

\* The options a flow leaves at their defaults: display and reportError.
Displayed(flow) == flow \in {"panel", "demo", "social2"}
Reported(flow) == Displayed(flow)

\* Variant: the former request is not aborted.
runRequestNoAbort(cs, ref, flow, e, mode, closure, path, fields) ==
  /\ latest' = latest + 1
  /\ abortRef' = latest + 1
  /\ isRunning' = TRUE
  /\ calls' = [cs EXCEPT ![latest + 1] =
       [flow |-> flow, endpoint |-> e.id, mode |-> mode, closure |-> closure,
        wire |-> "sent", waiting |-> TRUE, aborted |-> FALSE, reply |-> NoReply,
        request |-> requestEndpoint(e, mode, path,
                      buildHeaders(e, mode, variables, jar), fields, jar)]]

\* runRequest up to its await, over the calls cs and the controller ref in use:
\* the former request is aborted and the new one goes out with the cookies of this
\* moment.  closure is the mode of the render whose runRequest it is: for the second
\* request of a scenario, the render in which the scenario began.  That render's
\* vault too, but what the second requests send takes nothing from the vault.
runRequest(cs, ref, flow, e, mode, closure, path, fields) ==
  LET c == latest + 1
      begun == [flow |-> flow, endpoint |-> e.id, mode |-> mode, closure |-> closure,
                wire |-> "sent", waiting |-> TRUE, aborted |-> FALSE, reply |-> NoReply,
                request |-> requestEndpoint(e, mode, path,
                              buildHeaders(e, mode, variables, jar), fields, jar)]
  IN /\ latest' = c
     /\ abortRef' = c
     /\ isRunning' = TRUE
     /\ calls' = [i \in Calls |->
          IF i = c THEN begun
          ELSE IF i = ref THEN [cs[i] EXCEPT !.aborted = TRUE] ELSE cs[i]]

\* The promise settles: of the request only what the service may still do with it
\* and the status displayed matter from here on.
Ended(call) == [call EXCEPT !.waiting = FALSE, !.aborted = FALSE, !.flow = "panel",
  !.mode = "bearer", !.closure = "bearer",
  !.wire = IF call.wire = "sent" THEN "sent" ELSE "served", !.reply = [NoReply EXCEPT !.status = call.reply.status]]

\* Room for the n requests of a flow.
Room(n) == latest + n <= MaxCalls

(***************************************************************************)
(* The user.                                                               *)
(***************************************************************************)
setMode(mode) ==
  /\ authMode' = mode
  /\ storedMode' = IF storageWorks THEN mode ELSE storedMode

\* In memory and, where the browser allows it, in session storage.
setVariable(updates) ==
  /\ variables' = Spread(updates, variables)
  /\ stored' = writeVaultValues(stored, updates, storageWorks)

\* The light of the identity panel: "ready" or waiting for a session.
ready ==
  CASE authMode = "cookie" -> variables["csrfToken"] # Empty
    [] authMode = "apiKey" -> variables["apiKey"] # Empty
    [] OTHER -> variables["accessToken"] # Empty

Mounted(id, values) == [endpoint |-> id, draft |-> createDraft(endpointById(id), values)]

\* Navigating to another entry mounts a new panel; to the same, nothing.
Navigate(id, values) ==
  panel' = IF panel.endpoint = id THEN panel ELSE Mounted(id, values)

OpenPanel ==
  \E id \in PanelEndpoints :
    /\ id # panel.endpoint
    /\ Navigate(id, variables)
    /\ Quiet
    /\ UNCHANGED <<authMode, storedMode, vault, storageWorks, run, jar, server, past>>

\* The user deletes a field of the body.
EditBody ==
  \E v \in DOMAIN panel.draft :
    /\ endpointById(panel.endpoint).body
    /\ panel.draft[v] # Empty
    /\ panel' = [panel EXCEPT !.draft[v] = Empty]
    /\ Quiet
    /\ UNCHANGED <<authMode, storedMode, vault, storageWorks, run, jar, server, past>>

\* The request panel: body and path from the draft, templates resolved once more.
Send ==
  LET e == endpointById(panel.endpoint)
  IN /\ panel.endpoint \in PanelEndpoints
     /\ Room(1)
     /\ runRequest(calls, abortRef, "panel", e, authMode, authMode,
          buildPath(e, panel.draft, variables),
          parseRequestBody(e, TRUE, panel.draft, variables).fields)
     /\ Quiet
     /\ UNCHANGED <<page, vault, storageWorks, jar, server, past>>

demoLogin ==
  LET mode == IF authMode = "apiKey" THEN "bearer" ELSE authMode
      login == endpointById("auth-login")
  IN /\ "demoLogin" \in Scenarios
     /\ Room(IF mode = "cookie" THEN 2 ELSE 1)
     /\ setMode(mode)
     /\ Navigate("auth-login", variables)
     /\ runRequest(calls, abortRef, "demo", login, mode, authMode,
          buildPathFromDefinition(login, variables), << >>)
     /\ Quiet
     /\ UNCHANGED <<vault, storageWorks, jar, server, past>>

prepareSessions ==
  LET login == endpointById("auth-login")
  IN /\ "prepareSessions" \in Scenarios
     /\ Room(2)
     /\ setMode("bearer")
     /\ runRequest(calls, abortRef, "prepare1", login, "bearer", authMode,
          buildPathFromDefinition(login, variables), << >>)
     /\ Quiet
     /\ UNCHANGED <<panel, vault, storageWorks, jar, server, past>>

useDemoApiKey ==
  /\ "useDemoApiKey" \in Scenarios
  /\ authMode # "apiKey" \/ variables["apiKey"] # DemoKey
  /\ setVariable([apiKey |-> DemoKey])
  /\ setMode("apiKey")
  /\ toast' = Toast("demo_key_ready", 0)
  /\ UNCHANGED <<panel, storageWorks, run, response, jar, server, past>>

runSocial ==
  LET authorize == endpointById("social-authorize")
  IN /\ "runSocial" \in Scenarios
     /\ Room(2)
     /\ setMode("bearer")
     /\ toast' = Toast("oauth_started", 0)
     /\ runRequest(calls, abortRef, "social1", authorize, "bearer", authMode,
          buildPathFromDefinition(authorize, variables), << >>)
     /\ UNCHANGED <<panel, vault, storageWorks, response, jar, server, past>>

\* Typing into a vault field, or emptying it.
EditField ==
  \E v \in Edited : \E x \in {Typed, Empty} \ {variables[v]} :
    /\ setVariable([k \in {v} |-> x])
    /\ Quiet
    /\ UNCHANGED <<page, storageWorks, run, jar, server, past>>

setAuthMode ==
  \E mode \in Selected \ {authMode} :
    /\ setMode(mode)
    /\ Quiet
    /\ UNCHANGED <<panel, vault, storageWorks, run, jar, server, past>>

\* The secrets a clear removes for good.  The CSRF token is readable in the
\* cookie jar, which outlives the vault, and may be captured from there again.
Secrets(values) == {x \in {values[v] : v \in Variables \ {"csrfToken"}} : x.by # 0}

clearVault ==
  /\ variables # EMPTY_VARIABLES
  /\ past' = [past EXCEPT !.cleared = @ \union Secrets(variables)]
  /\ variables' = EMPTY_VARIABLES
  /\ stored' = clearVaultStorage(stored, storageWorks)
  /\ toast' = Toast("vault_cleared", 0)
  /\ UNCHANGED <<page, storageWorks, run, response, jar, server>>

\* The page is loaded again: requests in flight are aborted with it, the panel is
\* mounted before the vault is read back.
Reload ==
  /\ calls' = [c \in Calls |-> IF calls[c].waiting THEN Ended(calls[c]) ELSE calls[c]]
  /\ abortRef' = 0
  /\ isRunning' = FALSE
  /\ response' = NoResponse
  /\ toast' = NoToast
  /\ panel' = Mounted(panel.endpoint, EMPTY_VARIABLES)
  /\ authMode' = IF storageWorks THEN readMode(storedMode) ELSE "bearer"
  /\ variables' = IF storageWorks THEN readVault(stored, EMPTY_VARIABLES) ELSE EMPTY_VARIABLES
  /\ UNCHANGED <<latest, stored, storedMode, storageWorks, jar, server, past>>

(***************************************************************************)
(* The service.  Tokens speak for the session in them and access tokens    *)
(* are believed until they expire; what is stored is which sessions are    *)
(* open, the one live refresh token of each, and unspent tickets and       *)
(* states.  A secret minted for call c carries by = c.                     *)
(***************************************************************************)
Request(c) == calls[c].request

\* The caller a request authenticates as: the token of its header, else the access
\* cookie.  0: nobody; an API key has a user and no session.
ByHeader(r) == r.headers.authorization.by # 0 /\ r.headers.scheme = "Bearer"
ByApiKey(r) == r.headers.scheme = "ApiKey" /\
  (r.headers.authorization = DemoKey \/ r.headers.authorization.by # 0)
ByCookie(r) == r.headers.authorization = Empty /\ r.cookies.access # Empty
CurrentSessionId(r) ==
  IF ByHeader(r) THEN r.headers.authorization.session
  ELSE IF ByCookie(r) THEN r.cookies.access.session ELSE 0
Authenticated(r) == ByHeader(r) \/ ByApiKey(r) \/ ByCookie(r)

\* The global filter: an unsafe request authenticated by cookie must carry, in the
\* cookie and in the header, one token bound to the caller's session.
CsrfRejected(r) ==
  /\ isUnsafe(r.method)
  /\ ByCookie(r)
  /\ \/ r.cookies.csrf = Empty
     \/ r.cookies.csrf # r.headers.csrf
     \/ r.headers.csrf.kind # "csrfToken"
     \/ r.headers.csrf.session # CurrentSessionId(r)

\* The reply to request c; nobody will read the one of an aborted request.
Reply(c, status, data, cookies) ==
  /\ calls' = [calls EXCEPT ![c].wire = "served", ![c].request = << >>,
       ![c].reply = IF calls[c].waiting /\ ~calls[c].aborted
         THEN [status |-> status, data |-> data, cookies |-> cookies]
         ELSE [NoReply EXCEPT !.status = status]]
  /\ Quiet
  /\ UNCHANGED <<page, vault, storageWorks, latest, abortRef, isRunning, jar>>

\* A request the filters let through to the handler of endpoint id.
Asked(c, id) ==
  /\ calls[c].wire = "sent"
  /\ calls[c].endpoint = id
  /\ ~CsrfRejected(Request(c))

CookieNames == {"access", "refresh", "csrf"}
ClearedCookies == [k \in CookieNames |-> Empty]

\* The pair minted for session s by call c, as JSON fields or as cookies.
TokenPair(s, c) ==
  [accessToken |-> Value("accessToken", s, c), refreshToken |-> Value("refreshToken", s, c)]
AuthCookies(s, c) ==
  [access |-> Value("accessToken", s, c), refresh |-> Value("refreshToken", s, c),
   csrf |-> Value("csrfToken", s, c)]
Delivered(c, s, byCookie) ==
  /\ IF byCookie THEN Reply(c, 200, << >>, AuthCookies(s, c))
     ELSE Reply(c, 200, TokenPair(s, c), << >>)
  /\ past' = IF byCookie THEN [past EXCEPT !.inCookies = @ \union {s}] ELSE past

DeliverLogin(c) == Delivered(c, c, Request(c).headers.transport)
RefreshUsesCookies(r) == r.headers.transport \/ r.cookies.refresh # Empty
\* Variant: only the transport header asks for cookies.
DeliverRefreshByHeader(c, s) == Delivered(c, s, Request(c).headers.transport)
DeliverRefresh(c, s) == Delivered(c, s, RefreshUsesCookies(Request(c)))

\* Session c, opened by call c, with its first refresh token.
Opened(c) == [server EXCEPT !.open = @ \union {c}, !.live[c] = c]

ServeLogin(c) ==
  /\ Asked(c, "auth-login")
  /\ IF server.mfa
     THEN /\ server' = [server EXCEPT !.tickets = @ \union {c}]
          /\ Reply(c, 202, [mfaTicket |-> Value("mfaTicket", 0, c)], << >>)
          /\ UNCHANGED past
     ELSE server' = Opened(c) /\ DeliverLogin(c)

\* The ticket is spent before the code is looked at, right or wrong.
ServeMfaLogin(c) ==
  LET ticket == Request(c).body["mfaTicket"]
      known == ticket.kind = "mfaTicket" /\ ticket.by \in server.tickets
  IN /\ Asked(c, "auth-login-mfa")
     /\ \/ /\ known
           /\ server' = [Opened(c) EXCEPT !.tickets = @ \ {ticket.by}]
           /\ DeliverLogin(c)
        \/ /\ server' = [server EXCEPT !.tickets = @ \ {ticket.by}]
           /\ Reply(c, 401, << >>, << >>)
           /\ UNCHANGED past

\* Cookie and body may both carry a token; two different ones count as none.
ReadRefreshToken(r) ==
  LET cookie == r.cookies.refresh  body == r.body["refreshToken"]
  IN IF cookie # Empty /\ body # Empty /\ cookie # body THEN Empty
     ELSE FirstGiven(cookie, body)

ServeRefresh(c) ==
  LET token == ReadRefreshToken(Request(c))
      s == token.session
      issued == token.kind = "refreshToken" /\ token.by # 0
  IN /\ Asked(c, "auth-refresh")
     /\ IF issued /\ s \in server.open /\ token.by = server.live[s]
        THEN server' = [server EXCEPT !.live[s] = c] /\ DeliverRefresh(c, s)
        ELSE /\ server' = IF issued /\ token.by # server.live[s]
                          THEN [server EXCEPT !.open = @ \ {s}] ELSE server
             /\ Reply(c, 401, << >>, << >>)
             /\ UNCHANGED past

\* The session of an API key is none: reading it throws.
ServeLogout(c) ==
  LET s == CurrentSessionId(Request(c))
  IN /\ Asked(c, "auth-logout")
     /\ s # 0
     /\ server' = [server EXCEPT !.open = @ \ {s}]
     /\ Reply(c, 204, << >>, ClearedCookies)
     /\ UNCHANGED past

ServeCsrf(c) ==
  LET s == CurrentSessionId(Request(c))
      token == Value("csrfToken", s, c)
  IN /\ Asked(c, "auth-csrf")
     /\ s # 0
     /\ Reply(c, 200, [csrfToken |-> token], [csrf |-> token])
     /\ UNCHANGED <<server, past>>

ServeAuthorize(c) ==
  /\ Asked(c, "social-authorize")
  /\ server' = [server EXCEPT !.states = @ \union {c}]
  /\ Reply(c, 200, [socialCode |-> Value("socialCode", 0, c),
                    socialState |-> Value("socialState", 0, c)], << >>)
  /\ UNCHANGED past

ServeCallback(c) ==
  LET query == Request(c).path.query
      state == IF "socialState" \in DOMAIN query THEN query["socialState"] ELSE Empty
      code == IF "socialCode" \in DOMAIN query THEN query["socialCode"] ELSE Empty
      known == state.kind = "socialState" /\ state.by \in server.states
  IN /\ Asked(c, "social-callback")
     /\ \/ /\ known /\ code.by = state.by
           /\ server' = [Opened(c) EXCEPT !.states = @ \ {state.by}]
           /\ DeliverLogin(c)
        \/ /\ ~known \/ code.by # state.by
           /\ server' = [server EXCEPT !.states = @ \ {state.by}]
           /\ Reply(c, 401, << >>, << >>)
           /\ UNCHANGED past

\* Any other operation: it may name a new secret once.
ShownOnce(id, c) ==
  CASE id = "api-key-create" -> [apiKey |-> Value("apiKey", 0, c)]
    [] id = "mfa-enroll" -> [totpSecret |-> Value("totpSecret", 0, c)]
    [] OTHER -> << >>

Handled == {"auth-login", "auth-login-mfa", "auth-refresh", "auth-logout",
            "auth-csrf", "social-authorize", "social-callback"}
ServeOther(c) ==
  /\ calls[c].endpoint \notin Handled
  /\ Asked(c, calls[c].endpoint)
  /\ "user" \in RouteOf(endpointById(calls[c].endpoint)).demands => Authenticated(Request(c))
  /\ Reply(c, 200, ShownOnce(calls[c].endpoint, c), << >>)
  /\ UNCHANGED <<server, past>>

\* Refused without a trace: the CSRF filter, no credential, a wrong password,
\* a limit or a fault.
ServeRefused(c) ==
  /\ calls[c].wire = "sent"
  /\ Reply(c, IF CsrfRejected(Request(c)) THEN 403 ELSE 401, << >>, << >>)
  /\ UNCHANGED <<server, past>>

Serve(c) ==
  \/ ServeLogin(c) \/ ServeMfaLogin(c) \/ ServeRefresh(c) \/ ServeLogout(c)
  \/ ServeCsrf(c) \/ ServeAuthorize(c) \/ ServeCallback(c) \/ ServeOther(c)
  \/ ServeRefused(c)

\* Another tab of the same browser signs in through cookies.
OtherTabLogin ==
  /\ OtherTabs
  /\ OtherTab \notin server.open
  /\ server' = [server EXCEPT !.open = @ \union {OtherTab}, !.live[OtherTab] = OtherTab]
  /\ jar' = AuthCookies(OtherTab, OtherTab)
  /\ past' = [past EXCEPT !.inCookies = @ \union {OtherTab}]
  /\ Quiet
  /\ UNCHANGED <<page, vault, storageWorks, run>>

\* The access cookie carries the token's expiry; the others do not.
AccessCookieExpires ==
  /\ jar.access # Empty
  /\ jar' = [jar EXCEPT !.access = Empty]
  /\ Quiet
  /\ UNCHANGED <<page, vault, storageWorks, run, server, past>>

(***************************************************************************)
(* What comes back.                                                        *)
(***************************************************************************)
Pending(c, wires) == calls[c].waiting /\ ~calls[c].aborted /\ calls[c].wire \in wires

\* fetch resolves: the cookies of a credentialed reply are stored.
Receive(c) ==
  /\ Pending(c, {"served"})
  /\ calls' = [calls EXCEPT ![c].wire = "received"]
  /\ jar' = IF calls[c].mode = "cookie" THEN Spread(calls[c].reply.cookies, jar) ELSE jar
  /\ Quiet
  /\ UNCHANGED <<page, vault, storageWorks, latest, abortRef, isRunning, server, past>>

\* Variant: the refresh endpoint's new refresh token is overlooked.
CapturedFromLogin(id) ==
  {"accessToken", "apiKey", "mfaTicket", "totpSecret"}
  \union (IF id = "auth-refresh" THEN {} ELSE {"refreshToken"})

\* The fields of a reply that are looked for, whichever endpoint or only its own.
CapturedFrom(id) ==
  {"accessToken", "refreshToken", "apiKey", "mfaTicket", "totpSecret"}
  \union (IF id = "auth-csrf" THEN {"csrfToken"} ELSE {})
  \union (IF id = "social-authorize" THEN {"socialCode", "socialState"} ELSE {})
  \union (IF id = "passkeys-list" THEN {"credentialId"} ELSE {})

\* The closure's mode, not the request's, decides; 204 has no data at all.
CookieSession(call) ==
  /\ call.endpoint \in SESSION_ISSUING_ENDPOINTS
  /\ call.reply.status = 200
  /\ call.closure = "cookie"

captureResponseData(call) ==
  LET fields == DOMAIN call.reply.data \cap CapturedFrom(call.endpoint)
      captured == [v \in fields |-> call.reply.data[v]]
  IN IF CookieSession(call) /\ readCookie(jar) # Empty
     THEN Spread([k \in {"csrfToken"} |-> readCookie(jar)], captured) ELSE captured

\* An empty body has no data, and an empty body is what 204 comes with.
NoData(reply) == reply.status = 204

noticeOf(call) ==
  LET given == DOMAIN call.reply.data
  IN CASE NoData(call.reply) -> "undefined"
       [] call.endpoint = "auth-login" /\ call.reply.status = 202 -> "mfa"
       [] CookieSession(call) -> "cookie"
       [] ~CookieSession(call) /\ "accessToken" \in given -> "tokens"
       [] ~CookieSession(call) /\ "apiKey" \in given -> "key"
       [] ~CookieSession(call) /\ "totpSecret" \in given -> "totp"
       [] OTHER -> "undefined"

Settled(c) == [calls EXCEPT ![c] = Ended(calls[c])]

\* The spinner stops if the controller is still in use.
RefAfter(c) == IF abortRef = c THEN 0 ELSE abortRef

\* Variant: every settled request stops the spinner.
FinishAlways(c) ==
  /\ calls' = Settled(c)
  /\ abortRef' = RefAfter(c)
  /\ isRunning' = FALSE
  /\ UNCHANGED latest

Finish(c) ==
  /\ calls' = Settled(c)
  /\ abortRef' = RefAfter(c)
  /\ isRunning' = IF abortRef = c THEN FALSE ELSE isRunning
  /\ UNCHANGED latest

\* What the flow does with the result, up to its next request or its end.
ContinuePanel(c) ==
  /\ calls[c].flow \in {"panel", "csrf"}
  /\ Finish(c)
  /\ toast' = NoToast
  /\ UNCHANGED panel

\* Variant: any result counts as a login.
ContinueDemoAnyResult(c) ==
  /\ calls[c].flow = "demo"
  /\ toast' = Toast("login_ready", c)
  /\ Finish(c)
  /\ UNCHANGED panel

ContinueDemo(c) ==
  LET status == calls[c].reply.status  mode == calls[c].mode
  IN /\ calls[c].flow = "demo"
     /\ toast' = IF ok(status) /\ status # 202 THEN Toast("login_ready", c)
                 ELSE IF status = 202 THEN Toast("mfa_required", c) ELSE NoToast
     /\ IF ok(status) /\ status # 202 /\ mode = "cookie"
        THEN runRequest(Settled(c), RefAfter(c), "csrf", endpointById("auth-csrf"), "cookie",
               calls[c].closure, buildPathFromDefinition(endpointById("auth-csrf"), variables), << >>)
        ELSE Finish(c)
     /\ UNCHANGED panel

ContinueSessions(c) ==
  \/ /\ calls[c].flow = "prepare1"
     /\ IF ok(calls[c].reply.status)
        THEN /\ runRequest(Settled(c), RefAfter(c), "prepare2", endpointById("auth-login"), "bearer",
                  calls[c].closure, buildPathFromDefinition(endpointById("auth-login"), variables), << >>)
             /\ toast' = NoToast
        ELSE Finish(c) /\ toast' = Toast("scenario_failed", c)
     /\ UNCHANGED panel
  \/ /\ calls[c].flow = "prepare2"
     /\ Finish(c)
     /\ IF ok(calls[c].reply.status)
        THEN toast' = Toast("scenario_ready", c) /\ Navigate("sessions-list", variables')
        ELSE toast' = Toast("scenario_failed", c) /\ UNCHANGED panel

\* The callback's path is the authorization URL itself.
CallbackPath(data) ==
  [route |-> endpointById("social-callback").path, path |-> << >>, query |-> data]
ContinueSocial(c) ==
  \/ /\ calls[c].flow = "social1"
     /\ IF ok(calls[c].reply.status)
        THEN /\ runRequest(Settled(c), RefAfter(c), "social2", endpointById("social-callback"),
                  "bearer", calls[c].closure, CallbackPath(calls[c].reply.data), << >>)
             /\ Navigate("social-callback", variables')
             /\ toast' = NoToast
        ELSE Finish(c) /\ toast' = Toast("oauth_failed", c) /\ UNCHANGED panel
  \/ /\ calls[c].flow = "social2"
     /\ Finish(c)
     /\ toast' = IF ok(calls[c].reply.status) THEN Toast("oauth_ready", c) ELSE NoToast
     /\ UNCHANGED panel

\* The body is read: capture, display, continue.
Deliver(c) ==
  LET call == calls[c]
      updates == captureResponseData(call)
  IN /\ Pending(c, {"received"})
     /\ setVariable(updates)
     /\ response' = IF Displayed(call.flow)
          THEN [call |-> c, status |-> call.reply.status, notice |-> noticeOf(call)]
          ELSE response
     /\ \/ ContinuePanel(c) \/ ContinueDemo(c)
        \/ ContinueSessions(c) \/ ContinueSocial(c)
     /\ UNCHANGED <<authMode, storedMode, storageWorks, jar, server, past>>

\* runRequest returns null: the scenarios of two requests say so.
NullToast(flow) ==
  CASE flow \in {"prepare1", "prepare2"} -> "scenario_failed"
    [] flow = "social1" -> "oauth_failed"
    [] OTHER -> "none"

\* fetch rejects, or the body breaks off.
Fails(c) ==
  LET flow == calls[c].flow
  IN /\ Pending(c, {"sent", "served", "received"})
     /\ Finish(c)
     /\ toast' = IF Reported(flow) THEN Toast("request_failed", c)
                 ELSE IF NullToast(flow) # "none" THEN Toast(NullToast(flow), c) ELSE NoToast
     /\ UNCHANGED <<page, vault, storageWorks, response, jar, server, past>>

\* Variant: the signal is not passed on, so an aborted request waits for its reply.
InterruptedByReply(c) ==
  /\ calls[c].waiting /\ calls[c].aborted /\ calls[c].wire # "sent"
  /\ Finish(c)
  /\ Quiet
  /\ UNCHANGED <<page, vault, storageWorks, jar, server, past>>

\* An aborted request settles as interrupted, which is not reported.
Interrupted(c) ==
  LET flow == calls[c].flow
  IN /\ calls[c].waiting /\ calls[c].aborted
     /\ Finish(c)
     /\ toast' = IF NullToast(flow) # "none" THEN Toast(NullToast(flow), c) ELSE NoToast
     /\ UNCHANGED <<page, vault, storageWorks, response, jar, server, past>>

(***************************************************************************)
(* The specification.                                                      *)
(***************************************************************************)
Init ==
  /\ authMode = "bearer" /\ storedMode = "none"
  /\ variables = EMPTY_VARIABLES
  /\ stored = [k \in STORAGE_KEYS |-> Empty]
  /\ storageWorks \in Storage
  /\ calls = [c \in Calls |-> Unbegun] /\ latest = 0
  /\ abortRef = 0 /\ isRunning = FALSE
  /\ response = NoResponse /\ toast = NoToast
  /\ panel \in {Mounted(id, EMPTY_VARIABLES) : id \in PanelEndpoints}
  /\ jar = ClearedCookies
  /\ server \in [open : {{}}, live : {[s \in Sessions |-> 0]}, tickets : {{}},
                 states : {{}}, mfa : Enrolled]
  /\ past = [cleared |-> {}, inCookies |-> {}]

User == OpenPanel \/ EditBody \/ Send \/ demoLogin \/ prepareSessions \/ useDemoApiKey
        \/ runSocial \/ EditField \/ setAuthMode \/ clearVault \/ Reload
Settle(c) == Deliver(c) \/ Fails(c) \/ Interrupted(c)

Next ==
  \/ User
  \/ \E c \in Calls : Serve(c) \/ Receive(c) \/ Settle(c)
  \/ OtherTabLogin
  \/ AccessCookieExpires

\* The browser ends every fetch: with its reply, with an error or interrupted.
Spec == Init /\ [][Next]_vars /\ \A c \in Calls : WF_vars(Receive(c) \/ Settle(c))

(***************************************************************************)
(* Properties.                                                             *)
(***************************************************************************)
\* The types of the page's variables.
TypeOK ==
  /\ authMode \in AuthModes
  /\ storedMode \in AuthModes \union {"none"}
  /\ DOMAIN variables = Variables /\ DOMAIN stored = STORAGE_KEYS
  /\ latest \in 0..MaxCalls /\ abortRef \in 0..MaxCalls
  /\ isRunning \in BOOLEAN /\ storageWorks \in BOOLEAN
  /\ \A c \in Calls :
       /\ calls[c].flow \in Flows /\ calls[c].endpoint \in EndpointIds
       /\ calls[c].mode \in AuthModes /\ calls[c].closure \in AuthModes
       /\ calls[c].wire \in {"unsent", "sent", "served", "received"}
       /\ calls[c].waiting \in BOOLEAN /\ calls[c].aborted \in BOOLEAN
  /\ response.call \in 0..MaxCalls
  /\ panel.endpoint \in EndpointIds
  /\ DOMAIN jar = CookieNames
  /\ server.open \subseteq Sessions /\ past.inCookies \subseteq Sessions

\* The spinner of the Workbench (isRunning) tells the truth about its one
\* controller: it runs exactly while a request that nothing aborted is awaited,
\* and there is never a second such request.
SpinnerTracksRequest ==
  /\ isRunning <=> abortRef # 0
  /\ \A c \in Calls : (calls[c].waiting /\ ~calls[c].aborted) <=> c = abortRef
  /\ abortRef \in {0, latest}

\* Session storage holds what the page holds: a reload restores the same vault
\* and the same mode, unless the browser denies storage.
VaultMirrorsStorage ==
  storageWorks => /\ \A k \in STORAGE_KEYS : stored[k] = variables[k]
                  /\ readMode(storedMode) = authMode

\* A secret the user cleared from the vault is never seen there or in storage
\* again, whatever was in flight when it was cleared.
ClearedStaysCleared ==
  \A v \in Variables \ {"csrfToken"} :
    /\ variables[v] \notin past.cleared
    /\ v \in STORAGE_KEYS => stored[v] \notin past.cleared

\* README.md:288-289: the tokens of a session kept in cookies never reach the
\* page, its storage, or any request header.
CookieTokensStayOut ==
  \A v \in {"accessToken", "refreshToken"} :
    /\ variables[v].by # 0 => variables[v].session \notin past.inCookies
    /\ stored[v].by # 0 => stored[v].session \notin past.inCookies

\* Access and refresh token in the vault were minted together, so the session the
\* page speaks for is the one it renews: replies that arrive out of order or for
\* another mode never mix two sessions.
VaultHoldsOnePair ==
  (variables["accessToken"].by # 0 /\ variables["refreshToken"].by # 0) =>
    /\ variables["accessToken"].by = variables["refreshToken"].by
    /\ variables["accessToken"].session = variables["refreshToken"].session

\* Until another tab signs in, no request of the Workbench ever fails the CSRF filter:
\* cookie, header and session agree after every login, refresh, logout and abort.
MutationsPassCsrf ==
  OtherTab \notin past.inCookies => \A c \in Calls : calls[c].reply.status # 403

\* What is displayed only ever moves to the newest request: a reply that arrives
\* after a later request was begun is never shown.
LatestWins == [][response' # response => response'.call \in {0, latest}]_vars

\* "login_ready" is shown only when the session exists and this page can use it:
\* its access token is in the vault, or its refresh token in the cookies (the
\* access cookie may have expired by then), unless another tab's session has
\* taken the cookies over.
LoginReadyTruthful ==
  [][toast'.name = "login_ready" =>
       LET c == toast'.call
       IN \/ variables'["accessToken"].by = c
          \/ jar.refresh.by \in {c, OtherTab}]_vars

\* Every request ends, one way or another: with its reply, an error or as interrupted.
EveryCallSettles == \A c \in Calls : calls[c].waiting ~> ~calls[c].waiting

\* messages/en.json:21-26: while the panel's light is on, a mutation carries what
\* the mode needs, "CSRF is added automatically to mutations" or the token shown.
ReadyCarriesCredential ==
  ready => LET headers == buildHeaders(endpointById("auth-logout"), authMode, variables, jar)
           IN (IF authMode = "cookie" THEN headers.csrf ELSE headers.authorization) # Empty

\* README.md:733-735: a request refused by the CSRF filter is retried once with a
\* fresh token, "The Workbench performs this automatically".
CsrfFailureRetried ==
  response.status = 403 =>
    \E first, fetched \in Calls :
      /\ first < fetched /\ fetched < response.call
      /\ calls[first].endpoint = calls[response.call].endpoint
      /\ calls[first].reply.status = 403
      /\ calls[fetched].endpoint = "auth-csrf"
====
