---- MODULE WorkbenchProofs ----
(***************************************************************************)
(* What the Workbench keeps for any catalog selection, any scenarios and   *)
(* any number of requests: its one controller, its displayed response, and *)
(* the vault with its copy in session storage.                             *)
(***************************************************************************)
EXTENDS Workbench, TLAPS

\* A text of the vault, of a draft or of a cookie.
Kinds == Variables \union {"empty", "typed", "demo"}
Text == [kind : Kinds, session : 0..OtherTab, by : 0..OtherTab]
Jars == [access : Text, refresh : Text, csrf : Text]
Wires == {"unsent", "sent", "served", "received"}

\* A record that names some of the given names, each with a text.
Partial(f, names) == DOMAIN f \subseteq names /\ \A v \in DOMAIN f : f[v] \in Text

IsReply(p) ==
  /\ p \in [status : Nat, data : {p.data}, cookies : {p.cookies}]
  /\ Partial(p.data, Variables)
  /\ Partial(p.cookies, CookieNames)

IsRequest(q) ==
  /\ q.headers.authorization \in Text
  /\ q.headers.csrf \in Text
  /\ q.cookies \in Jars

\* A request has its content while the service has not answered it.
IsCall(r) ==
  /\ r \in [flow : Flows, endpoint : EndpointIds, mode : AuthModes, closure : AuthModes,
            wire : Wires, waiting : BOOLEAN, aborted : BOOLEAN,
            request : {r.request}, reply : {r.reply}]
  /\ IsReply(r.reply)
  /\ r.wire = "sent" => IsRequest(r.request)

IsPanel(p) ==
  /\ p \in [endpoint : EndpointIds, draft : {p.draft}]
  /\ p.draft \in [endpointById(p.endpoint).templates -> Text]

(***************************************************************************)
(* The catalog.                                                            *)
(***************************************************************************)
\* An entry found by its name has that name.
LEMMA EntryFound ==
  ASSUME NEW id \in EndpointIds
  PROVE endpointById(id) \in ENDPOINTS /\ endpointById(id).id = id
<1>1. PICK e \in ENDPOINTS : e.id = id
  BY DEF EndpointIds
<1> QED
  BY <1>1 DEF endpointById

\* What the proofs use of an entry.
Plain(e) ==
  /\ e.templates \subseteq Variables
  /\ e.id = "auth-refresh" => e.body /\ e.templates = {"refreshToken"}
  /\ e.id = "auth-logout" => e.method = "POST" /\ e.auth = "auth"

\* The entries for health and the keys are as the proofs use them.
LEMMA OperationsPlain == \A e \in OperationsEntries : Plain(e)
<1>1. Plain(endpoint("health-live", "GET", "/health/live", "operations", "public"))
  BY DEF Plain, endpoint
<1>2. Plain(endpoint("health-ready", "GET", "/health/ready", "operations", "public"))
  BY DEF Plain, endpoint
<1>3. Plain(endpoint("jwks", "GET", "/.well-known/jwks.json", "operations", "public"))
  BY DEF Plain, endpoint
<1> QED
  BY <1>1, <1>2, <1>3 DEF OperationsEntries

\* The entries for registration, login, refresh and logout are as the proofs use them.
LEMMA AccountsPlain == \A e \in AccountsEntries : Plain(e)
<1>1. Plain(WithBody(endpoint("auth-register", "POST", "/api/v1/auth/register", "authentication", "public"), {}))
  BY DEF Plain, endpoint, WithBody
<1>2. Plain(WithBody(endpoint("auth-login", "POST", "/api/v1/auth/login", "authentication", "public"), {}))
  BY DEF Plain, endpoint, WithBody
<1>3. Plain(WithBody(endpoint("auth-login-mfa", "POST", "/api/v1/auth/login/mfa", "authentication", "public"), {"mfaTicket", "totpCode"}))
  BY DEF Plain, endpoint, WithBody, Variables
<1>4. Plain(WithBody(endpoint("auth-refresh", "POST", "/api/v1/auth/refresh", "authentication", "public"), {"refreshToken"}))
  BY DEF Plain, endpoint, WithBody, Variables
<1>5. Plain(Confirmed(endpoint("auth-logout", "POST", "/api/v1/auth/logout", "authentication", "auth")))
  BY DEF Plain, endpoint, Confirmed
<1>6. Plain(endpoint("auth-csrf", "GET", "/api/v1/auth/csrf", "authentication", "auth"))
  BY DEF Plain, endpoint
<1> QED
  BY <1>1, <1>2, <1>3, <1>4, <1>5, <1>6 DEF AccountsEntries

\* The entries for social sign-in, verification and reset are as the proofs use them.
LEMMA VerificationPlain == \A e \in VerificationEntries : Plain(e)
<1>1. Plain(Guided(WithPath(endpoint("social-authorize", "GET", "/api/v1/auth/social/{provider}/authorize", "authentication", "public"), {"provider"}), "social"))
  BY DEF Plain, endpoint, WithPath, Guided
<1>2. Plain(WithPath([endpoint("social-callback", "GET", "/api/v1/auth/social/{provider}/callback", "authentication", "public") EXCEPT !.templates = {"socialCode", "socialState"}], {"provider"}))
  BY DEF Plain, endpoint, WithPath, Variables
<1>3. Plain(endpoint("email-send", "POST", "/api/v1/email-verification/send", "authentication", "auth"))
  BY DEF Plain, endpoint
<1>4. Plain(WithBody(endpoint("email-confirm", "POST", "/api/v1/email-verification/confirm", "authentication", "public"), {"verificationToken"}))
  BY DEF Plain, endpoint, WithBody, Variables
<1>5. Plain(WithBody(endpoint("password-request", "POST", "/api/v1/password-reset/request", "authentication", "public"), {}))
  BY DEF Plain, endpoint, WithBody
<1>6. Plain(Confirmed(WithBody(endpoint("password-confirm", "POST", "/api/v1/password-reset/confirm", "authentication", "public"), {"passwordResetToken"})))
  BY DEF Plain, endpoint, WithBody, Confirmed, Variables
<1> QED
  BY <1>1, <1>2, <1>3, <1>4, <1>5, <1>6 DEF VerificationEntries

\* The entries for the account are as the proofs use them.
LEMMA ProfilePlain == \A e \in ProfileEntries : Plain(e)
<1>1. Plain(endpoint("users-me", "GET", "/api/v1/users/me", "account", "auth"))
  BY DEF Plain, endpoint
<1>2. Plain(WithBody(endpoint("users-update", "PATCH", "/api/v1/users/me", "account", "auth"), {}))
  BY DEF Plain, endpoint, WithBody
<1>3. Plain(Confirmed(endpoint("users-delete", "DELETE", "/api/v1/users/me", "account", "recent")))
  BY DEF Plain, endpoint, Confirmed
<1>4. Plain(Confirmed(WithBody(endpoint("users-password", "PUT", "/api/v1/users/me/password", "account", "auth"), {})))
  BY DEF Plain, endpoint, WithBody, Confirmed
<1>5. Plain(endpoint("users-accounts", "GET", "/api/v1/users/me/accounts", "account", "auth"))
  BY DEF Plain, endpoint
<1>6. Plain(Confirmed(WithPath(endpoint("users-unlink", "DELETE", "/api/v1/users/me/accounts/{accountId}", "account", "auth"), {"accountId"})))
  BY DEF Plain, endpoint, WithPath, Confirmed
<1> QED
  BY <1>1, <1>2, <1>3, <1>4, <1>5, <1>6 DEF ProfileEntries

\* The entries for the sessions are as the proofs use them.
LEMMA SessionsPlain == \A e \in SessionsEntries : Plain(e)
<1>1. Plain(endpoint("sessions-list", "GET", "/api/v1/sessions", "sessions", "auth"))
  BY DEF Plain, endpoint
<1>2. Plain(Confirmed(WithPath(endpoint("sessions-revoke", "DELETE", "/api/v1/sessions/{sessionId}", "sessions", "auth"), {"sessionId"})))
  BY DEF Plain, endpoint, WithPath, Confirmed
<1>3. Plain(Confirmed(endpoint("sessions-revoke-others", "DELETE", "/api/v1/sessions", "sessions", "auth")))
  BY DEF Plain, endpoint, Confirmed
<1> QED
  BY <1>1, <1>2, <1>3 DEF SessionsEntries

\* The entries for the second factor are as the proofs use them.
LEMMA TotpPlain == \A e \in TotpEntries : Plain(e)
<1>1. Plain(Guided(endpoint("mfa-enroll", "POST", "/api/v1/mfa/totp/enroll", "security", "auth"), "totp"))
  BY DEF Plain, endpoint, Guided
<1>2. Plain(Guided(WithBody(endpoint("mfa-confirm", "POST", "/api/v1/mfa/totp/confirm", "security", "auth"), {"totpCode"}), "totp"))
  BY DEF Plain, endpoint, WithBody, Guided, Variables
<1>3. Plain(Confirmed(endpoint("mfa-disable", "DELETE", "/api/v1/mfa/totp", "security", "recent")))
  BY DEF Plain, endpoint, Confirmed
<1>4. Plain(Confirmed(endpoint("mfa-recovery", "POST", "/api/v1/mfa/recovery-codes/regenerate", "security", "recent")))
  BY DEF Plain, endpoint, Confirmed
<1> QED
  BY <1>1, <1>2, <1>3, <1>4 DEF TotpEntries

\* The entries for the passkeys are as the proofs use them.
LEMMA PasskeysPlain == \A e \in PasskeysEntries : Plain(e)
<1>1. Plain(Guided(WithBody(endpoint("passkey-registration-options", "POST", "/api/v1/passkeys/registration/options", "security", "auth"), {}), "passkey-register"))
  BY DEF Plain, endpoint, WithBody, Guided
<1>2. Plain(WithBody(endpoint("passkey-registration-complete", "POST", "/api/v1/passkeys/registration/complete", "security", "auth"), {}))
  BY DEF Plain, endpoint, WithBody
<1>3. Plain(Guided(WithBody(endpoint("passkey-auth-options", "POST", "/api/v1/passkeys/authentication/options", "security", "public"), {}), "passkey-auth"))
  BY DEF Plain, endpoint, WithBody, Guided
<1>4. Plain(WithBody(endpoint("passkey-auth-complete", "POST", "/api/v1/passkeys/authentication/complete", "security", "public"), {}))
  BY DEF Plain, endpoint, WithBody
<1>5. Plain(endpoint("passkeys-list", "GET", "/api/v1/passkeys", "security", "auth"))
  BY DEF Plain, endpoint
<1>6. Plain(Confirmed(WithPath([endpoint("passkey-delete", "DELETE", "/api/v1/passkeys/{credentialId}", "security", "auth") EXCEPT !.templates = {"credentialId"}], {"credentialId"})))
  BY DEF Plain, endpoint, WithPath, Confirmed, Variables
<1> QED
  BY <1>1, <1>2, <1>3, <1>4, <1>5, <1>6 DEF PasskeysEntries

\* The entries for the API keys are as the proofs use them.
LEMMA ApiKeysPlain == \A e \in ApiKeysEntries : Plain(e)
<1>1. Plain(WithBody(endpoint("api-key-create", "POST", "/api/v1/api-keys", "security", "auth"), {}))
  BY DEF Plain, endpoint, WithBody
<1>2. Plain(endpoint("api-keys-list", "GET", "/api/v1/api-keys", "security", "auth"))
  BY DEF Plain, endpoint
<1>3. Plain(Confirmed(WithPath(endpoint("api-key-revoke", "DELETE", "/api/v1/api-keys/{keyId}", "security", "auth"), {"keyId"})))
  BY DEF Plain, endpoint, WithPath, Confirmed
<1> QED
  BY <1>1, <1>2, <1>3 DEF ApiKeysEntries

\* The entries for the administration of users are as the proofs use them.
LEMMA AdminUsersPlain == \A e \in AdminUsersEntries : Plain(e)
<1>1. Plain(endpoint("admin-users-list", "GET", "/api/v1/admin/users", "admin", "admin"))
  BY DEF Plain, endpoint
<1>2. Plain(WithPath(endpoint("admin-user-get", "GET", "/api/v1/admin/users/{userId}", "admin", "admin"), {"userId"}))
  BY DEF Plain, endpoint, WithPath
<1>3. Plain(WithPath(WithBody(endpoint("admin-user-update", "PATCH", "/api/v1/admin/users/{userId}", "admin", "admin"), {}), {"userId"}))
  BY DEF Plain, endpoint, WithBody, WithPath
<1>4. Plain(Confirmed(WithPath(endpoint("admin-user-delete", "DELETE", "/api/v1/admin/users/{userId}", "admin", "admin"), {"userId"})))
  BY DEF Plain, endpoint, WithPath, Confirmed
<1> QED
  BY <1>1, <1>2, <1>3, <1>4 DEF AdminUsersEntries

\* The entries for the administration of roles and sessions are as the proofs use them.
LEMMA AdminGrantsPlain == \A e \in AdminGrantsEntries : Plain(e)
<1>1. Plain(Confirmed(WithPath(WithBody(endpoint("admin-role-grant", "POST", "/api/v1/admin/users/{userId}/roles", "admin", "admin"), {}), {"userId"})))
  BY DEF Plain, endpoint, WithBody, WithPath, Confirmed
<1>2. Plain(Confirmed(WithPath(endpoint("admin-role-revoke", "DELETE", "/api/v1/admin/users/{userId}/roles/{roleId}", "admin", "admin"), {"userId", "roleId"})))
  BY DEF Plain, endpoint, WithPath, Confirmed
<1>3. Plain(Confirmed(WithPath(endpoint("admin-sessions-revoke", "DELETE", "/api/v1/admin/users/{userId}/sessions", "admin", "admin"), {"userId"})))
  BY DEF Plain, endpoint, WithPath, Confirmed
<1>4. Plain(endpoint("admin-audit", "GET", "/api/v1/admin/audit-logs", "admin", "admin"))
  BY DEF Plain, endpoint
<1> QED
  BY <1>1, <1>2, <1>3, <1>4 DEF AdminGrantsEntries

\* Every entry of the catalog is as the proofs use it.
LEMMA EntryPlain ==
  ASSUME NEW id \in EndpointIds
  PROVE Plain(endpointById(id)) /\ endpointById(id).id = id
<1>1. endpointById(id) \in ENDPOINTS
  BY EntryFound
<1>2. \A e \in ENDPOINTS : Plain(e)
  BY OperationsPlain, AccountsPlain, VerificationPlain, ProfilePlain, SessionsPlain, TotpPlain,
     PasskeysPlain, ApiKeysPlain, AdminUsersPlain, AdminGrantsPlain DEF ENDPOINTS
<1> QED
  BY <1>1, <1>2, EntryFound

\* The entries the scenarios and the navigation name are entries.
LEMMA NamedEntries ==
  {"auth-login", "auth-refresh", "auth-logout", "auth-csrf", "social-authorize",
   "social-callback", "sessions-list"} \subseteq EndpointIds
<1>1. ASSUME NEW e \in AccountsEntries \union VerificationEntries \union SessionsEntries
      PROVE e.id \in EndpointIds
  BY <1>1 DEF EndpointIds, ENDPOINTS
<1>2. \E e \in AccountsEntries : e.id = "auth-login"
  BY DEF AccountsEntries, endpoint, WithBody
<1>3. \E e \in AccountsEntries : e.id = "auth-refresh"
  BY DEF AccountsEntries, endpoint, WithBody
<1>4. \E e \in AccountsEntries : e.id = "auth-logout"
  BY DEF AccountsEntries, endpoint, Confirmed
<1>5. \E e \in AccountsEntries : e.id = "auth-csrf"
  BY DEF AccountsEntries, endpoint
<1>6. \E e \in VerificationEntries : e.id = "social-authorize"
  BY DEF VerificationEntries, endpoint, WithPath, Guided
<1>7. \E e \in VerificationEntries : e.id = "social-callback"
  BY DEF VerificationEntries, endpoint, WithPath
<1>8. \E e \in SessionsEntries : e.id = "sessions-list"
  BY DEF SessionsEntries, endpoint
<1> QED
  BY <1>1, <1>2, <1>3, <1>4, <1>5, <1>6, <1>7, <1>8

(***************************************************************************)
(* The functions of domain.ts on texts.                                    *)
(***************************************************************************)
\* The numbers a text may carry.
LEMMA Numbers ==
  /\ MaxCalls \in Nat \ {0} /\ OtherTab \in Nat
  /\ Calls \subseteq Sessions /\ OtherTab \in Sessions /\ OtherTab \notin Calls
  /\ Sessions \subseteq 0..OtherTab /\ 0 \in 0..OtherTab /\ 0 \notin Sessions
BY WorkbenchAssumption DEF OtherTab, Calls, Sessions

\* A minted secret is a text and carries what it was minted with.
LEMMA Minted ==
  ASSUME NEW kind \in Kinds, NEW s \in 0..OtherTab, NEW c \in 0..OtherTab
  PROVE /\ Value(kind, s, c) \in Text
        /\ Value(kind, s, c).kind = kind
        /\ Value(kind, s, c).session = s
        /\ Value(kind, s, c).by = c
BY DEF Value, Text

\* The texts that are no secret.
LEMMA NoSecrets ==
  /\ Empty \in Text /\ Empty.by = 0 /\ Empty.kind = "empty" /\ Empty.session = 0
  /\ Typed \in Text /\ Typed.by = 0
  /\ DemoKey \in Text /\ DemoKey.by = 0 /\ DemoKey # Empty
  /\ \A v \in Variables : Placeholder(v) \in Text /\ Placeholder(v).by = 0
<1> 0 \in 0..OtherTab
  BY Numbers
<1>1. /\ Empty \in Text /\ Empty.by = 0 /\ Empty.kind = "empty" /\ Empty.session = 0
  BY DEF Empty, Value, Text, Kinds
<1>2. Typed \in Text /\ Typed.by = 0
  BY DEF Typed, Value, Text, Kinds
<1>3. DemoKey \in Text /\ DemoKey.by = 0 /\ DemoKey.kind = "demo"
  BY DEF DemoKey, Value, Text, Kinds
<1>4. ASSUME NEW v \in Variables
      PROVE Placeholder(v) \in Text /\ Placeholder(v).by = 0
  BY DEF Placeholder, Value, Text, Kinds
<1> QED
  BY <1>1, <1>2, <1>3, <1>4

\* A resolved template is a text: the variable's, or the template itself.
LEMMA Resolved ==
  ASSUME NEW values \in [Variables -> Text], NEW x \in Text
  PROVE /\ resolveTemplateString(x, values) \in Text
        /\ \/ resolveTemplateString(x, values) = x
           \/ \E v \in Variables : resolveTemplateString(x, values) = values[v]
BY DEF resolveTemplateString, IsPlaceholder

\* A spread names what either side names, and the updates win.
LEMMA SpreadFacts ==
  ASSUME NEW updates, NEW base
  PROVE /\ DOMAIN Spread(updates, base) = DOMAIN updates \union DOMAIN base
        /\ \A k \in DOMAIN updates : Spread(updates, base)[k] = updates[k]
        /\ \A k \in DOMAIN base \ DOMAIN updates : Spread(updates, base)[k] = base[k]
BY DEF Spread

\* Updates of vault variables keep the vault's type.
LEMMA SpreadVault ==
  ASSUME NEW values \in [Variables -> Text], NEW updates, Partial(updates, Variables)
  PROVE Spread(updates, values) \in [Variables -> Text]
<1>1. /\ DOMAIN updates \union DOMAIN values = Variables
      /\ \A k \in Variables : Spread(updates, values)[k] \in Text
  <2>1. DOMAIN values = Variables /\ \A k \in Variables : values[k] \in Text
    OBVIOUS
  <2>2. ASSUME NEW k \in Variables
        PROVE Spread(updates, values)[k] \in Text
    <3>1. CASE k \in DOMAIN updates
      <4>1. Spread(updates, values)[k] = updates[k]
        BY <3>1 DEF Spread
      <4> QED
        BY <3>1, <4>1 DEF Partial
    <3>2. CASE k \notin DOMAIN updates
      <4>1. Spread(updates, values)[k] = values[k]
        BY <2>1, <3>2 DEF Spread
      <4> QED
        BY <2>1, <4>1
    <3> QED
      BY <3>1, <3>2
  <2> QED
    BY <2>1, <2>2 DEF Partial
<1> QED
  BY <1>1 DEF Spread

\* A freshly mounted panel has its entry's templates, each resolved.
LEMMA MountedPanel ==
  ASSUME NEW id \in EndpointIds, NEW values \in [Variables -> Text]
  PROVE /\ IsPanel(Mounted(id, values))
        /\ Mounted(id, values).endpoint = id
        /\ \A v \in DOMAIN Mounted(id, values).draft :
             \/ Mounted(id, values).draft[v].by = 0
             \/ \E w \in Variables : Mounted(id, values).draft[v] = values[w]
<1> DEFINE ts == endpointById(id).templates
           d == createDraft(endpointById(id), values)
<1>1. ts \subseteq Variables
  BY EntryPlain DEF Plain
<1>2. DOMAIN d = ts /\ \A v \in ts : d[v] = resolveTemplateString(Placeholder(v), values)
  BY DEF createDraft, materialize
<1>3. d = [v \in ts |-> d[v]]
  BY DEF createDraft, materialize
<1>4. \A v \in ts : /\ d[v] \in Text
                    /\ d[v].by = 0 \/ \E w \in Variables : d[v] = values[w]
  <2> TAKE v \in ts
  <2>1. Placeholder(v) \in Text /\ Placeholder(v).by = 0
    BY <1>1, NoSecrets
  <2>2. d[v] = resolveTemplateString(Placeholder(v), values)
    BY <1>2
  <2> HIDE DEF ts, d
  <2> QED
    BY <2>1, <2>2, Resolved
<1>5. /\ Mounted(id, values).endpoint = id /\ Mounted(id, values).draft = d
      /\ Mounted(id, values) \in [endpoint : EndpointIds, draft : {d}]
  BY DEF Mounted
<1> HIDE DEF d, ts
<1>6. d \in [ts -> Text]
  BY <1>3, <1>4
<1>7. endpointById(Mounted(id, values).endpoint).templates = ts
  BY <1>5 DEF ts
<1> QED
  BY <1>2, <1>4, <1>5, <1>6, <1>7 DEF IsPanel

\* The headers of a request are texts; a request in cookie mode has no
\* authorization, and its CSRF header is the cookie's unless there is none.
LEMMA HeaderFacts ==
  ASSUME NEW e, NEW mode \in AuthModes, NEW values \in [Variables -> Text], NEW j \in Jars
  PROVE LET h == buildHeaders(e, mode, values, j)
        IN /\ h.authorization \in Text /\ h.csrf \in Text
           /\ mode = "cookie" => h.authorization = Empty
           /\ mode = "cookie" /\ isUnsafe(e.method) =>
                h.csrf = IF j.csrf # Empty THEN j.csrf ELSE values["csrfToken"]
           /\ h.transport = (mode = "cookie" /\ e.id \in SESSION_ISSUING_ENDPOINTS)
<1>1. /\ values["accessToken"] \in Text /\ values["apiKey"] \in Text /\ values["csrfToken"] \in Text
      /\ j.csrf \in Text /\ Empty \in Text
  BY NoSecrets DEF Variables, Jars
<1> DEFINE a == IF e.auth = "public" THEN Empty
                ELSE CASE mode = "bearer" -> values["accessToken"]
                       [] mode = "apiKey" -> values["apiKey"]
                       [] OTHER -> Empty
<1>2. a \in Text /\ (mode = "cookie" => a = Empty)
  BY <1>1 DEF AuthModes
<1>3. buildHeaders(e, mode, values, j).authorization = a
  BY DEF buildHeaders
<1>4. buildHeaders(e, mode, values, j).csrf = IF mode = "cookie" /\ isUnsafe(e.method)
                     THEN FirstGiven(j.csrf, values["csrfToken"]) ELSE Empty
  BY DEF buildHeaders, readCookie
<1>5. buildHeaders(e, mode, values, j).transport
        = (mode = "cookie" /\ e.id \in SESSION_ISSUING_ENDPOINTS)
  BY DEF buildHeaders
<1> HIDE DEF a
<1> QED
  BY <1>1, <1>2, <1>3, <1>4, <1>5 DEF FirstGiven

(***************************************************************************)
(* The shape of the state.                                                 *)
(***************************************************************************)
Modes ==
  authMode \in AuthModes /\ storedMode \in AuthModes \union {"none"} /\ storageWorks \in BOOLEAN
Vault == variables \in [Variables -> Text] /\ stored \in [STORAGE_KEYS -> Text]
Runs ==
  /\ latest \in 0..MaxCalls /\ abortRef \in 0..MaxCalls /\ isRunning \in BOOLEAN
  /\ calls = [c \in Calls |-> calls[c]]
  /\ \A c \in Calls : IsCall(calls[c])
  /\ \A c \in Calls : c > latest => ~calls[c].waiting /\ calls[c].wire = "unsent"
ServerType == [open : SUBSET Sessions, live : [Sessions -> 0..OtherTab],
               tickets : SUBSET Calls, states : SUBSET Calls, mfa : BOOLEAN]
PastType == [cleared : SUBSET Text, inCookies : SUBSET Sessions]
World ==
  /\ jar \in Jars
  /\ server \in ServerType
  /\ past \in PastType
Shown == response.call \in 0..MaxCalls /\ IsPanel(panel)
Shape == Modes /\ Vault /\ Runs /\ World /\ Shown

(***************************************************************************)
(* What a step does to each part of the state.                             *)
(***************************************************************************)
\* A text the page may put into a request: no secret, or one it holds.
FromPage(x) ==
  \/ x.by = 0
  \/ \E v \in Variables : x = variables[v]
  \/ \E v \in DOMAIN panel.draft : x = panel.draft[v]

\* The flows that go on with a second request.
TwoRequests(flow, mode) ==
  flow \in {"prepare1", "social1"} \/ (flow = "demo" /\ mode = "cookie")

\* A request just begun by flow, over what the page and the browser hold.
BegunCall(r) ==
  /\ IsCall(r)
  /\ r.wire = "sent" /\ r.waiting /\ ~r.aborted /\ r.reply = NoReply
  /\ r.flow = "demo" => r.endpoint = "auth-login"
  /\ TwoRequests(r.flow, r.mode) => latest + 2 \in Calls
  /\ r.request.method = endpointById(r.endpoint).method
  /\ r.request.headers = buildHeaders(endpointById(r.endpoint), r.mode, variables, jar)
  /\ r.request.cookies = IF r.mode = "cookie" THEN jar ELSE NoCookies
  /\ \A v \in DOMAIN r.request.body : FromPage(r.request.body[v])
  /\ r.endpoint = "auth-refresh" => "refreshToken" \in DOMAIN r.request.body

\* Request r is the next of the requests cs, and the one the controller ref holds
\* is aborted.
Enters(cs, ref, r) ==
  /\ latest + 1 \in Calls
  /\ latest' = latest + 1 /\ abortRef' = latest + 1 /\ isRunning' = TRUE
  /\ calls' = [i \in Calls |->
       IF i = latest + 1 THEN r
       ELSE IF i = ref THEN [cs[i] EXCEPT !.aborted = TRUE] ELSE cs[i]]
Begins(cs, ref) == \E r : BegunCall(r) /\ Enters(cs, ref, r)

Serves(c) ==
  /\ calls[c].wire = "sent"
  /\ \E p : /\ IsReply(p)
            /\ calls' = [calls EXCEPT ![c].wire = "served", ![c].request = << >>, ![c].reply = p]
  /\ UNCHANGED <<latest, abortRef, isRunning>>
Receives(c) ==
  /\ Pending(c, {"served"})
  /\ calls' = [calls EXCEPT ![c].wire = "received"]
  /\ UNCHANGED <<latest, abortRef, isRunning>>
Settles(c) == calls[c].waiting /\ Finish(c)
SettlesAndBegins(c) == Pending(c, {"received"}) /\ Begins(Settled(c), RefAfter(c))
Reloads ==
  /\ calls' = [c \in Calls |-> IF calls[c].waiting THEN Ended(calls[c]) ELSE calls[c]]
  /\ abortRef' = 0 /\ isRunning' = FALSE /\ latest' = latest

RunStep ==
  \/ UNCHANGED run
  \/ Begins(calls, abortRef)
  \/ \E c \in Calls : \/ Serve(c) /\ Serves(c)
                      \/ Receive(c) /\ Receives(c)
                      \/ Settles(c) \/ SettlesAndBegins(c)
  \/ Reloads

ModeStep ==
  \/ UNCHANGED <<authMode, storedMode>>
  \/ \E mode \in AuthModes : setMode(mode)
  \/ /\ authMode' = IF storageWorks THEN readMode(storedMode) ELSE "bearer"
     /\ storedMode' = storedMode

\* Values of no secret put into the vault by the user.
Enters0(updates) == Partial(updates, Variables) /\ \A v \in DOMAIN updates : updates[v].by = 0
Captures(c) ==
  /\ Pending(c, {"received"})
  /\ setVariable(captureResponseData(calls[c]))
  /\ Settles(c) \/ SettlesAndBegins(c)
  /\ UNCHANGED past
Clears ==
  /\ variables' = EMPTY_VARIABLES
  /\ stored' = clearVaultStorage(stored, storageWorks)
  /\ past' = [past EXCEPT !.cleared = @ \union Secrets(variables)]
VaultStep ==
  \/ UNCHANGED vault /\ past'.cleared = past.cleared
  \/ \E updates : Enters0(updates) /\ setVariable(updates) /\ UNCHANGED past
  \/ \E c \in Calls : Captures(c)
  \/ Clears
  \/ /\ variables' = IF storageWorks THEN readVault(stored, EMPTY_VARIABLES) ELSE EMPTY_VARIABLES
     /\ UNCHANGED <<stored, past>>

\* The service answers: nothing of the page changes.
ServeStep(c) ==
  /\ Serves(c)
  /\ server' \in ServerType /\ past' \in PastType /\ past'.cleared = past.cleared
  /\ UNCHANGED <<page, vault, storageWorks, response, jar>>

PanelStep ==
  \/ UNCHANGED panel
  \/ \E id \in EndpointIds : Navigate(id, variables) \/ Navigate(id, variables')
  \/ \E v \in DOMAIN panel.draft : panel' = [panel EXCEPT !.draft[v] = Empty]
  \/ panel' = Mounted(panel.endpoint, EMPTY_VARIABLES)

\* No reply is a reply, and no request was a request yet.
LEMMA Blank == IsReply(NoReply) /\ IsCall(Unbegun) /\ DOMAIN NoReply.data = {} /\ DOMAIN NoReply.cookies = {}
<1>1. DOMAIN << >> = {}
  OBVIOUS
<1>2. NoReply.data = << >> /\ NoReply.cookies = << >> /\ NoReply.status = 0
  BY DEF NoReply
<1>3. NoReply \in [status : Nat, data : {NoReply.data}, cookies : {NoReply.cookies}]
  BY DEF NoReply
<1>4. IsReply(NoReply)
  BY <1>1, <1>2, <1>3 DEF IsReply, Partial
<1>5. /\ Unbegun.reply = NoReply /\ Unbegun.wire = "unsent"
      /\ Unbegun \in [flow : {"panel"}, endpoint : {"health-live"}, mode : {"bearer"},
                      closure : {"bearer"}, wire : {"unsent"}, waiting : {FALSE},
                      aborted : {FALSE}, request : {Unbegun.request}, reply : {Unbegun.reply}]
  BY DEF Unbegun
<1>6. "health-live" \in EndpointIds
  <2>1. \E e \in OperationsEntries : e.id = "health-live"
    BY DEF OperationsEntries, endpoint
  <2> QED
    BY <2>1 DEF EndpointIds, ENDPOINTS
<1> QED
  BY <1>1, <1>2, <1>4, <1>5, <1>6 DEF IsCall, Flows, AuthModes, Wires

\* What runRequest enters is a request begun over this page.
LEMMA RequestBegins ==
  ASSUME Modes, Vault, World, NEW cs, NEW ref,
         NEW flow \in Flows, NEW id \in EndpointIds, NEW mode \in AuthModes,
         NEW closure \in AuthModes, NEW path, NEW fields, latest + 1 \in Calls,
         runRequest(cs, ref, flow, endpointById(id), mode, closure, path, fields),
         \A v \in DOMAIN fields : FromPage(fields[v]),
         id = "auth-refresh" => "refreshToken" \in DOMAIN fields,
         flow = "demo" => id = "auth-login",
         TwoRequests(flow, mode) => latest + 2 \in Calls
  PROVE Begins(cs, ref)
<1> DEFINE e == endpointById(id)
           h == buildHeaders(e, mode, variables, jar)
           q == requestEndpoint(e, mode, path, h, fields, jar)
           r == [flow |-> flow, endpoint |-> e.id, mode |-> mode, closure |-> closure,
                 wire |-> "sent", waiting |-> TRUE, aborted |-> FALSE, reply |-> NoReply,
                 request |-> q]
<1>1. e.id = id
  BY EntryPlain
<1>2. /\ r.flow = flow /\ r.endpoint = id /\ r.mode = mode /\ r.wire = "sent"
      /\ r.waiting /\ ~r.aborted /\ r.reply = NoReply /\ r.request = q
      /\ r \in [flow : {flow}, endpoint : {id}, mode : {mode}, closure : {closure},
                wire : {"sent"}, waiting : {TRUE}, aborted : {FALSE},
                request : {r.request}, reply : {r.reply}]
  BY <1>1
<1>3. /\ q.method = e.method /\ q.headers = h /\ q.body = fields
      /\ q.cookies = IF mode = "cookie" THEN jar ELSE NoCookies
  BY DEF requestEndpoint
<1>4. Enters(cs, ref, r)
  BY DEF runRequest, Enters
<1>5. NoCookies \in Jars /\ jar \in Jars
  BY NoSecrets DEF NoCookies, Jars, World
<1>6. h.authorization \in Text /\ h.csrf \in Text
  BY HeaderFacts DEF World, Vault
<1>7. IsRequest(q)
  BY <1>3, <1>5, <1>6 DEF IsRequest
<1> HIDE DEF r, q, h
<1>8. IsCall(r)
  BY <1>2, <1>7, Blank DEF IsCall, Modes, Wires
<1>9. BegunCall(r)
  BY <1>2, <1>3, <1>8 DEF BegunCall, h
<1> QED
  BY <1>4, <1>9 DEF Begins

\* The body of the request panel: what the draft holds, resolved once more.
LEMMA SendFields ==
  ASSUME Vault, Shown
  PROVE LET fields == parseRequestBody(endpointById(panel.endpoint), TRUE, panel.draft, variables).fields
        IN /\ \A v \in DOMAIN fields : FromPage(fields[v])
           /\ panel.endpoint = "auth-refresh" => "refreshToken" \in DOMAIN fields
<1> DEFINE e == endpointById(panel.endpoint)
           fields == parseRequestBody(e, TRUE, panel.draft, variables).fields
<1>1. panel.endpoint \in EndpointIds /\ panel.draft \in [e.templates -> Text]
  BY DEF Shown, IsPanel
<1>2. Plain(e) /\ e.id = panel.endpoint
  BY <1>1, EntryPlain
<1>3. CASE ~e.body
  <2>1. fields = << >>
    BY <1>3 DEF parseRequestBody
  <2>2. DOMAIN << >> = {}
    OBVIOUS
  <2> QED
    BY <1>2, <1>3, <2>1, <2>2 DEF Plain
<1>4. CASE e.body
  <2>1. fields = materialize(panel.draft, variables)
    BY <1>4 DEF parseRequestBody
  <2>2. /\ DOMAIN fields = e.templates /\ DOMAIN panel.draft = e.templates
        /\ \A v \in e.templates : fields[v] = resolveTemplateString(panel.draft[v], variables)
    BY <1>1, <2>1 DEF materialize
  <2>3. ASSUME NEW v \in DOMAIN fields
        PROVE FromPage(fields[v])
    <3>1. panel.draft[v] \in Text
      BY <1>1, <2>2
    <3> QED
      BY <2>2, <3>1, Resolved DEF FromPage, Vault
  <2> QED
    BY <1>2, <2>2, <2>3 DEF Plain
<1> QED
  BY <1>3, <1>4

\* A reply the service gives is one the page may read.
LEMMA ReplyServes ==
  ASSUME NEW c \in Calls, calls[c].wire = "sent",
         NEW status \in Nat, NEW data, NEW cookies,
         Partial(data, Variables), Partial(cookies, CookieNames),
         Reply(c, status, data, cookies)
  PROVE Serves(c)
<1> DEFINE p == IF calls[c].waiting /\ ~calls[c].aborted
                THEN [status |-> status, data |-> data, cookies |-> cookies]
                ELSE [NoReply EXCEPT !.status = status]
<1>1. CASE calls[c].waiting /\ ~calls[c].aborted
  <2>1. p = [status |-> status, data |-> data, cookies |-> cookies]
    BY <1>1
  <2>2. p \in [status : Nat, data : {p.data}, cookies : {p.cookies}] /\ p.data = data /\ p.cookies = cookies
    BY <2>1
  <2>3. IsReply(p)
    BY <2>2 DEF IsReply
  <2> QED
    BY <2>3 DEF Serves, Reply
<1>2. CASE ~(calls[c].waiting /\ ~calls[c].aborted)
  <2>1. p = [NoReply EXCEPT !.status = status]
    BY <1>2
  <2>2. /\ p \in [status : Nat, data : {NoReply.data}, cookies : {NoReply.cookies}]
        /\ p.data = NoReply.data /\ p.cookies = NoReply.cookies
    BY <2>1 DEF NoReply
  <2>3. IsReply(p)
    BY <2>2, Blank DEF IsReply
  <2> QED
    BY <2>3 DEF Serves, Reply
<1> QED
  BY <1>1, <1>2

\* No fields and no cookies.
LEMMA Nothing == /\ Partial(<< >>, Variables) /\ Partial(<< >>, CookieNames)
                 /\ DOMAIN << >> = {}
<1>1. DOMAIN << >> = {}
  OBVIOUS
<1> QED
  BY <1>1 DEF Partial

\* The pair and the cookies minted for session s by call c.
LEMMA MintedPair ==
  ASSUME NEW s \in Sessions, NEW c \in Sessions
  PROVE /\ Partial(TokenPair(s, c), Variables)
        /\ DOMAIN TokenPair(s, c) = {"accessToken", "refreshToken"}
        /\ Partial(AuthCookies(s, c), CookieNames) /\ AuthCookies(s, c) \in Jars
        /\ DOMAIN AuthCookies(s, c) = CookieNames
<1>1. /\ Value("accessToken", s, c) \in Text /\ Value("refreshToken", s, c) \in Text
      /\ Value("csrfToken", s, c) \in Text
  BY Numbers, Minted DEF Kinds, Variables
<1>2. /\ DOMAIN TokenPair(s, c) = {"accessToken", "refreshToken"}
      /\ TokenPair(s, c)["accessToken"] = Value("accessToken", s, c)
      /\ TokenPair(s, c)["refreshToken"] = Value("refreshToken", s, c)
  BY DEF TokenPair
<1>3. /\ DOMAIN AuthCookies(s, c) = CookieNames
      /\ AuthCookies(s, c)["access"] = Value("accessToken", s, c)
      /\ AuthCookies(s, c)["refresh"] = Value("refreshToken", s, c)
      /\ AuthCookies(s, c)["csrf"] = Value("csrfToken", s, c)
  BY DEF AuthCookies, CookieNames
<1>4. AuthCookies(s, c) \in Jars
  BY <1>1 DEF AuthCookies, Jars
<1> QED
  BY <1>1, <1>2, <1>3, <1>4 DEF Partial, Variables, CookieNames

\* Tokens delivered one way or the other are a reply, of the session they are for.
LEMMA DeliveredServes ==
  ASSUME NEW c \in Calls, calls[c].wire = "sent", NEW s \in Sessions,
         NEW byCookie, Delivered(c, s, byCookie)
  PROVE Serves(c)
<1>0. c \in Sessions /\ 200 \in Nat
  BY Numbers
<1>1. CASE byCookie
  <2>1. Reply(c, 200, << >>, AuthCookies(s, c))
    BY <1>1 DEF Delivered
  <2> QED
    BY <1>0, <2>1, MintedPair, Nothing, ReplyServes
<1>2. CASE ~byCookie
  <2>1. Reply(c, 200, TokenPair(s, c), << >>)
    BY <1>2 DEF Delivered
  <2> QED
    BY <1>0, <2>1, MintedPair, Nothing, ReplyServes
<1> QED
  BY <1>1, <1>2

\* Opening a session keeps the service's memory typed.
LEMMA OpenedTyped ==
  ASSUME World, NEW c \in Calls
  PROVE Opened(c) \in ServerType
<1>1. c \in Sessions /\ c \in 0..OtherTab
  BY Numbers
<1> QED
  BY <1>1 DEF World, ServerType, Opened

\* What a delivery changes besides the reply.
LEMMA DeliveredStep ==
  ASSUME World, NEW c \in Calls, calls[c].wire = "sent", NEW s \in Sessions,
         NEW byCookie, Delivered(c, s, byCookie), server' \in ServerType
  PROVE ServeStep(c)
<1>1. Serves(c)
  BY DeliveredServes
<1>2. past' \in PastType /\ past'.cleared = past.cleared
  <2>1. past \in PastType
    BY DEF World
  <2>2. CASE byCookie
    <3>1. past' = [past EXCEPT !.inCookies = @ \union {s}]
      BY <2>2 DEF Delivered
    <3> QED
      BY <2>1, <3>1 DEF PastType
  <2>3. CASE ~byCookie
    <3>1. past' = past
      BY <2>3 DEF Delivered
    <3> QED
      BY <2>1, <3>1
  <2> QED
    BY <2>2, <2>3
<1>3. UNCHANGED <<page, vault, storageWorks, response, jar>>
  BY DEF Delivered, Reply, Quiet
<1> QED
  BY <1>1, <1>2, <1>3 DEF ServeStep

\* What a reply without tokens changes besides itself.
LEMMA ReplyStep ==
  ASSUME World, NEW c \in Calls, calls[c].wire = "sent", NEW status \in Nat, NEW data, NEW cookies,
         Partial(data, Variables), Partial(cookies, CookieNames),
         Reply(c, status, data, cookies), server' \in ServerType, past' = past
  PROVE ServeStep(c)
<1>1. Serves(c)
  BY ReplyServes
<1>2. past' \in PastType /\ past'.cleared = past.cleared
  BY DEF World
<1>3. UNCHANGED <<page, vault, storageWorks, response, jar>>
  BY DEF Reply, Quiet
<1> QED
  BY <1>1, <1>2, <1>3 DEF ServeStep

\* The session a request speaks for is one, or none.
LEMMA CallerTyped ==
  ASSUME NEW q, IsRequest(q)
  PROVE CurrentSessionId(q) \in 0..OtherTab
<1>1. q.headers.authorization.session \in 0..OtherTab
  BY DEF IsRequest, Text
<1>2. q.cookies.access.session \in 0..OtherTab
  BY DEF IsRequest, Jars, Text
<1> QED
  BY <1>1, <1>2, Numbers DEF CurrentSessionId

\* Sign-in: a session opened, or a ticket for the second factor.
LEMMA ServeLoginStep ==
  ASSUME World, NEW c \in Calls, ServeLogin(c)
  PROVE ServeStep(c)
<1>0. calls[c].wire = "sent" /\ c \in Sessions /\ 202 \in Nat /\ server \in ServerType
  BY Numbers DEF ServeLogin, Asked, World
<1>1. CASE server.mfa
  <2>1. /\ server' = [server EXCEPT !.tickets = @ \union {c}] /\ past' = past
        /\ Reply(c, 202, [mfaTicket |-> Value("mfaTicket", 0, c)], << >>)
    BY <1>1 DEF ServeLogin
  <2>2. server.tickets \union {c} \in SUBSET Calls
    BY <1>0 DEF ServerType
  <2>3. server' \in ServerType
    BY <1>0, <2>1, <2>2 DEF ServerType
  <2>4. Value("mfaTicket", 0, c) \in Text
    BY Numbers, Minted DEF Kinds, Variables
  <2>5. Partial([mfaTicket |-> Value("mfaTicket", 0, c)], Variables)
    BY <2>4 DEF Partial, Variables
  <2> QED
    BY <1>0, <2>1, <2>3, <2>5, Nothing, ReplyStep
<1>2. CASE ~server.mfa
  <2>1. server' = Opened(c) /\ Delivered(c, c, Request(c).headers.transport)
    BY <1>2 DEF ServeLogin, DeliverLogin
  <2> QED
    BY <1>0, <2>1, OpenedTyped, DeliveredStep
<1> QED
  BY <1>1, <1>2

\* The second factor: the ticket is spent, and a session opened or not.
LEMMA ServeMfaLoginStep ==
  ASSUME World, NEW c \in Calls, ServeMfaLogin(c)
  PROVE ServeStep(c)
<1> DEFINE ticket == Request(c).body["mfaTicket"]
<1>0. calls[c].wire = "sent" /\ c \in Sessions /\ 401 \in Nat /\ server \in ServerType
  BY Numbers DEF ServeMfaLogin, Asked, World
<1>1. CASE /\ server' = [Opened(c) EXCEPT !.tickets = @ \ {ticket.by}]
           /\ DeliverLogin(c)
  <2>1. Opened(c) \in ServerType
    BY OpenedTyped
  <2>2. Opened(c).tickets \ {ticket.by} \in SUBSET Calls
    BY <2>1 DEF ServerType
  <2>3. server' \in ServerType
    BY <1>1, <2>1, <2>2 DEF ServerType
  <2> QED
    BY <1>0, <1>1, <2>3, DeliveredStep DEF DeliverLogin
<1>2. CASE /\ server' = [server EXCEPT !.tickets = @ \ {ticket.by}]
           /\ Reply(c, 401, << >>, << >>) /\ past' = past
  <2>1. server.tickets \ {ticket.by} \in SUBSET Calls
    BY <1>0 DEF ServerType
  <2>2. server' \in ServerType
    BY <1>0, <1>2, <2>1 DEF ServerType
  <2> QED
    BY <1>0, <1>2, <2>2, Nothing, ReplyStep
<1> QED
  BY <1>1, <1>2 DEF ServeMfaLogin

\* A refresh: the next pair of an open session, or a refusal that may close it.
LEMMA ServeRefreshStep ==
  ASSUME World, NEW c \in Calls, ServeRefresh(c)
  PROVE ServeStep(c)
<1> DEFINE token == ReadRefreshToken(Request(c))
           s == token.session
           issued == token.kind = "refreshToken" /\ token.by # 0
           renewed == issued /\ s \in server.open /\ token.by = server.live[s]
<1>0. calls[c].wire = "sent" /\ c \in 0..OtherTab /\ 401 \in Nat /\ server \in ServerType
  BY Numbers DEF ServeRefresh, Asked, World
<1>1. CASE renewed
  <2>1. server' = [server EXCEPT !.live[s] = c] /\ DeliverRefresh(c, s)
    BY <1>1 DEF ServeRefresh
  <2>2. s \in Sessions
    BY <1>0, <1>1 DEF ServerType
  <2>3. server' \in ServerType
    BY <1>0, <2>1 DEF ServerType
  <2> QED
    BY <1>0, <2>1, <2>2, <2>3, DeliveredStep DEF DeliverRefresh
<1>2. CASE ~renewed
  <2>1. /\ server' = IF issued /\ token.by # server.live[s]
                     THEN [server EXCEPT !.open = @ \ {s}] ELSE server
        /\ Reply(c, 401, << >>, << >>) /\ past' = past
    BY <1>2 DEF ServeRefresh
  <2>2. server.open \ {s} \in SUBSET Sessions
    BY <1>0 DEF ServerType
  <2>3. server' \in ServerType
    BY <1>0, <2>1, <2>2 DEF ServerType
  <2> QED
    BY <1>0, <2>1, <2>3, Nothing, ReplyStep
<1> QED
  BY <1>1, <1>2

\* Logout closes the caller's session and clears the cookies.
LEMMA ServeLogoutStep ==
  ASSUME World, NEW c \in Calls, ServeLogout(c)
  PROVE ServeStep(c)
<1> DEFINE s == CurrentSessionId(Request(c))
<1>0. calls[c].wire = "sent" /\ 204 \in Nat /\ server \in ServerType
  BY DEF ServeLogout, Asked, World
<1>1. /\ server' = [server EXCEPT !.open = @ \ {s}] /\ past' = past
      /\ Reply(c, 204, << >>, ClearedCookies)
  BY DEF ServeLogout
<1>2. server.open \ {s} \in SUBSET Sessions
  BY <1>0 DEF ServerType
<1>3. server' \in ServerType
  BY <1>0, <1>1, <1>2 DEF ServerType
<1>4. Partial(ClearedCookies, CookieNames)
  BY NoSecrets DEF ClearedCookies, Partial
<1> QED
  BY <1>0, <1>1, <1>3, <1>4, Nothing, ReplyStep

\* A CSRF token for the caller's session, in the reply and as its cookie.
LEMMA ServeCsrfStep ==
  ASSUME World, NEW c \in Calls, IsCall(calls[c]), ServeCsrf(c)
  PROVE ServeStep(c)
<1> DEFINE s == CurrentSessionId(Request(c))
           token == Value("csrfToken", s, c)
<1>0. calls[c].wire = "sent" /\ c \in 0..OtherTab /\ 200 \in Nat /\ server' = server /\ past' = past
  BY Numbers DEF ServeCsrf, Asked
<1>1. s \in 0..OtherTab
  BY <1>0, CallerTyped DEF IsCall, Request
<1>2. token \in Text
  BY <1>0, <1>1, Minted DEF Kinds, Variables
<1>3. Reply(c, 200, [csrfToken |-> token], [csrf |-> token])
  BY DEF ServeCsrf
<1> HIDE DEF token
<1>4. Partial([csrfToken |-> token], Variables) /\ Partial([csrf |-> token], CookieNames)
  BY <1>2 DEF Partial, Variables, CookieNames
<1> QED
  BY <1>0, <1>3, <1>4, ReplyStep DEF World

\* Authorization hands out a code and a state.
LEMMA ServeAuthorizeStep ==
  ASSUME World, NEW c \in Calls, ServeAuthorize(c)
  PROVE ServeStep(c)
<1> DEFINE code == Value("socialCode", 0, c)
           state == Value("socialState", 0, c)
<1>0. calls[c].wire = "sent" /\ c \in 0..OtherTab /\ 200 \in Nat /\ server \in ServerType
  BY Numbers DEF ServeAuthorize, Asked, World
<1>1. /\ server' = [server EXCEPT !.states = @ \union {c}] /\ past' = past
      /\ Reply(c, 200, [socialCode |-> code, socialState |-> state], << >>)
  BY DEF ServeAuthorize
<1>2. server.states \union {c} \in SUBSET Calls
  BY <1>0 DEF ServerType
<1>3. server' \in ServerType
  BY <1>0, <1>1, <1>2 DEF ServerType
<1>4. code \in Text /\ state \in Text
  BY Numbers, Minted DEF Kinds, Variables
<1> HIDE DEF code, state
<1>5. Partial([socialCode |-> code, socialState |-> state], Variables)
  BY <1>4 DEF Partial, Variables
<1> QED
  BY <1>0, <1>1, <1>3, <1>5, Nothing, ReplyStep

\* The callback spends the state, and opens a session or not.
LEMMA ServeCallbackStep ==
  ASSUME World, NEW c \in Calls, ServeCallback(c)
  PROVE ServeStep(c)
<1> DEFINE query == Request(c).path.query
           state == IF "socialState" \in DOMAIN query THEN query["socialState"] ELSE Empty
<1>0. calls[c].wire = "sent" /\ c \in Sessions /\ 401 \in Nat /\ server \in ServerType
  BY Numbers DEF ServeCallback, Asked, World
<1>1. CASE /\ server' = [Opened(c) EXCEPT !.states = @ \ {state.by}]
           /\ DeliverLogin(c)
  <2>1. Opened(c) \in ServerType
    BY OpenedTyped
  <2>2. Opened(c).states \ {state.by} \in SUBSET Calls
    BY <2>1 DEF ServerType
  <2>3. server' \in ServerType
    BY <1>1, <2>1, <2>2 DEF ServerType
  <2> QED
    BY <1>0, <1>1, <2>3, DeliveredStep DEF DeliverLogin
<1>2. CASE /\ server' = [server EXCEPT !.states = @ \ {state.by}]
           /\ Reply(c, 401, << >>, << >>) /\ past' = past
  <2>1. server.states \ {state.by} \in SUBSET Calls
    BY <1>0 DEF ServerType
  <2>2. server' \in ServerType
    BY <1>0, <1>2, <2>1 DEF ServerType
  <2> QED
    BY <1>0, <1>2, <2>2, Nothing, ReplyStep
<1> QED
  BY <1>1, <1>2 DEF ServeCallback

\* A secret shown once is a text of its call.
LEMMA ShownOnceTyped ==
  ASSUME NEW id, NEW c \in Calls
  PROVE /\ Partial(ShownOnce(id, c), Variables)
        /\ DOMAIN ShownOnce(id, c) \subseteq {"apiKey", "totpSecret"}
        /\ \A v \in DOMAIN ShownOnce(id, c) :
             ShownOnce(id, c)[v].by = c /\ ShownOnce(id, c)[v].kind = v
<1> DEFINE key == [apiKey |-> Value("apiKey", 0, c)]
           totp == [totpSecret |-> Value("totpSecret", 0, c)]
<1>1. /\ Value("apiKey", 0, c) \in Text /\ Value("apiKey", 0, c).by = c
      /\ Value("apiKey", 0, c).kind = "apiKey"
      /\ Value("totpSecret", 0, c) \in Text /\ Value("totpSecret", 0, c).by = c
      /\ Value("totpSecret", 0, c).kind = "totpSecret"
  BY Numbers, Minted DEF Kinds, Variables
<1>2. /\ DOMAIN key = {"apiKey"} /\ key["apiKey"] = Value("apiKey", 0, c)
      /\ DOMAIN totp = {"totpSecret"} /\ totp["totpSecret"] = Value("totpSecret", 0, c)
  OBVIOUS
<1>3. ShownOnce(id, c) \in {key, totp, << >>}
  BY DEF ShownOnce
<1> HIDE DEF key, totp
<1> QED
  BY <1>1, <1>2, <1>3, Nothing DEF Partial, Variables

\* Any other operation, and any refusal.
LEMMA ServeOtherStep ==
  ASSUME World, NEW c \in Calls, ServeOther(c) \/ ServeRefused(c)
  PROVE ServeStep(c)
<1>0. /\ calls[c].wire = "sent" /\ server \in ServerType /\ server' = server /\ past' = past
      /\ 200 \in Nat /\ 401 \in Nat /\ 403 \in Nat
  BY DEF ServeOther, ServeRefused, Asked, World
<1>1. CASE ServeOther(c)
  <2>1. Reply(c, 200, ShownOnce(calls[c].endpoint, c), << >>)
    BY <1>1 DEF ServeOther
  <2> QED
    BY <1>0, <2>1, ShownOnceTyped, Nothing, ReplyStep
<1>2. CASE ServeRefused(c)
  <2>1. Reply(c, 401, << >>, << >>) \/ Reply(c, 403, << >>, << >>)
    BY <1>2 DEF ServeRefused
  <2> QED
    BY <1>0, <2>1, Nothing, ReplyStep
<1> QED
  BY <1>1, <1>2

\* Whatever the service does with a request, it answers it and leaves the page alone.
LEMMA ServeSteps ==
  ASSUME World, Runs, NEW c \in Calls, Serve(c)
  PROVE ServeStep(c)
BY ServeLoginStep, ServeMfaLoginStep, ServeRefreshStep, ServeLogoutStep, ServeCsrfStep,
   ServeAuthorizeStep, ServeCallbackStep, ServeOtherStep DEF Serve, Runs

\* The requests of the scenarios go out without a body.
LEMMA FlowBegins ==
  ASSUME Shape, NEW cs, NEW ref, NEW flow \in Flows, NEW mode \in AuthModes,
         NEW closure \in AuthModes, NEW path,
         NEW id \in {"auth-login", "auth-csrf", "social-authorize", "social-callback"},
         latest + 1 \in Calls, flow = "demo" => id = "auth-login",
         TwoRequests(flow, mode) => latest + 2 \in Calls,
         runRequest(cs, ref, flow, endpointById(id), mode, closure, path, << >>)
  PROVE Begins(cs, ref)
<1>1. id \in EndpointIds /\ id # "auth-refresh"
  BY NamedEntries
<1>2. \A v \in DOMAIN << >> : FromPage(<< >>[v])
  BY Nothing
<1> QED
  BY <1>1, <1>2, RequestBegins DEF Shape

\* There is room for the requests a flow asks for.
LEMMA RoomFor ==
  ASSUME Shape, NEW n \in {1, 2}, Room(n)
  PROVE latest + 1 \in Calls /\ latest + n \in Calls
BY Numbers DEF Shape, Runs, Room, Calls

\* What each step does to the requests, to the mode, to the vault and to the panel.
AllSteps == RunStep /\ ModeStep /\ VaultStep /\ PanelStep /\ storageWorks' = storageWorks

\* A request sent from the panel.
LEMMA SendSteps ==
  ASSUME Shape, Send
  PROVE Begins(calls, abortRef) /\ AllSteps
<1> DEFINE e == endpointById(panel.endpoint)
           fields == parseRequestBody(e, TRUE, panel.draft, variables).fields
           path == buildPath(e, panel.draft, variables)
<1>1. latest + 1 \in Calls
  BY RoomFor DEF Send
<1>2. panel.endpoint \in EndpointIds /\ authMode \in AuthModes /\ "panel" \in Flows
  BY DEF Shape, Shown, IsPanel, Modes, Flows
<1>3. runRequest(calls, abortRef, "panel", e, authMode, authMode, path, fields)
  BY DEF Send
<1>4. /\ \A v \in DOMAIN fields : FromPage(fields[v])
      /\ panel.endpoint = "auth-refresh" => "refreshToken" \in DOMAIN fields
  BY SendFields DEF Shape
<1> HIDE DEF fields, path, e
<1>5. Begins(calls, abortRef)
  BY <1>1, <1>2, <1>3, <1>4, RequestBegins DEF Shape, e, TwoRequests
<1>6. UNCHANGED <<page, vault, storageWorks, past>>
  BY DEF Send
<1> QED
  BY <1>5, <1>6 DEF AllSteps, RunStep, ModeStep, VaultStep, PanelStep, page, vault

\* The first request of a scenario.
LEMMA ScenarioSteps ==
  ASSUME Shape, demoLogin \/ prepareSessions \/ runSocial
  PROVE Begins(calls, abortRef) /\ AllSteps
<1>0. authMode \in AuthModes
  BY DEF Shape, Modes
<1>1. CASE demoLogin
  <2> DEFINE mode == IF authMode = "apiKey" THEN "bearer" ELSE authMode
             path == buildPathFromDefinition(endpointById("auth-login"), variables)
  <2>1. mode \in AuthModes /\ "demo" \in Flows /\ "auth-login" \in EndpointIds
    BY NamedEntries DEF Shape, Modes, AuthModes, Flows
  <2>2. latest + 1 \in Calls /\ (TwoRequests("demo", mode) => latest + 2 \in Calls)
    <3>1. Room(IF mode = "cookie" THEN 2 ELSE 1)
      BY <1>1 DEF demoLogin
    <3> HIDE DEF mode
    <3>2. CASE mode = "cookie"
      BY <3>1, <3>2, RoomFor
    <3>3. CASE mode # "cookie"
      BY <3>1, <3>3, RoomFor DEF TwoRequests
    <3> QED
      BY <3>2, <3>3
  <2>3. /\ setMode(mode) /\ Navigate("auth-login", variables)
        /\ runRequest(calls, abortRef, "demo", endpointById("auth-login"), mode, authMode, path, << >>)
        /\ UNCHANGED <<vault, storageWorks, past>>
    BY <1>1 DEF demoLogin
  <2> HIDE DEF mode, path
  <2>4. Begins(calls, abortRef)
    BY <1>0, <2>1, <2>2, <2>3, FlowBegins
  <2> QED
    BY <2>1, <2>3, <2>4 DEF AllSteps, RunStep, ModeStep, VaultStep, PanelStep
<1>2. CASE prepareSessions
  <2> DEFINE path == buildPathFromDefinition(endpointById("auth-login"), variables)
  <2>1. "bearer" \in AuthModes /\ "prepare1" \in Flows
    BY DEF AuthModes, Flows
  <2>2. latest + 1 \in Calls /\ latest + 2 \in Calls
    BY <1>2, RoomFor DEF prepareSessions
  <2>3. /\ setMode("bearer") /\ UNCHANGED <<panel, vault, storageWorks, past>>
        /\ runRequest(calls, abortRef, "prepare1", endpointById("auth-login"), "bearer",
             authMode, path, << >>)
    BY <1>2 DEF prepareSessions
  <2> HIDE DEF path
  <2>4. Begins(calls, abortRef)
    BY <1>0, <2>1, <2>2, <2>3, FlowBegins
  <2> QED
    BY <2>1, <2>3, <2>4 DEF AllSteps, RunStep, ModeStep, VaultStep, PanelStep
<1>3. CASE runSocial
  <2> DEFINE path == buildPathFromDefinition(endpointById("social-authorize"), variables)
  <2>1. "bearer" \in AuthModes /\ "social1" \in Flows
    BY DEF AuthModes, Flows
  <2>2. latest + 1 \in Calls /\ latest + 2 \in Calls
    BY <1>3, RoomFor DEF runSocial
  <2>3. /\ setMode("bearer") /\ UNCHANGED <<panel, vault, storageWorks, past>>
        /\ runRequest(calls, abortRef, "social1", endpointById("social-authorize"), "bearer",
             authMode, path, << >>)
    BY <1>3 DEF runSocial
  <2> HIDE DEF path
  <2>4. Begins(calls, abortRef)
    BY <1>0, <2>1, <2>2, <2>3, FlowBegins
  <2> QED
    BY <2>1, <2>3, <2>4 DEF AllSteps, RunStep, ModeStep, VaultStep, PanelStep
<1> QED
  BY <1>1, <1>2, <1>3

\* The user edits the panel, the vault or the mode; no request is touched.
LEMMA EditSteps ==
  ASSUME Shape, OpenPanel \/ EditBody \/ useDemoApiKey \/ EditField \/ setAuthMode \/ clearVault
  PROVE AllSteps /\ UNCHANGED <<run, response, jar, server>>
<1>1. CASE OpenPanel
  <2>1. PICK id \in PanelEndpoints : Navigate(id, variables)
    BY <1>1 DEF OpenPanel
  <2>2. id \in EndpointIds
    BY WorkbenchAssumption
  <2>3. UNCHANGED <<authMode, storedMode, vault, storageWorks, run, jar, server, past, response>>
    BY <1>1 DEF OpenPanel, Quiet
  <2> QED
    BY <2>1, <2>2, <2>3 DEF AllSteps, RunStep, ModeStep, VaultStep, PanelStep
<1>2. CASE EditBody
  <2>1. /\ \E v \in DOMAIN panel.draft : panel' = [panel EXCEPT !.draft[v] = Empty]
        /\ UNCHANGED <<authMode, storedMode, vault, storageWorks, run, jar, server, past, response>>
    BY <1>2 DEF EditBody, Quiet
  <2> QED
    BY <2>1 DEF AllSteps, RunStep, ModeStep, VaultStep, PanelStep
<1>3. CASE useDemoApiKey
  <2> DEFINE updates == [apiKey |-> DemoKey]
  <2>1. /\ setVariable(updates) /\ setMode("apiKey")
        /\ UNCHANGED <<panel, storageWorks, run, response, jar, server, past>>
    BY <1>3 DEF useDemoApiKey
  <2>2. DOMAIN updates = {"apiKey"} /\ updates["apiKey"] = DemoKey
    OBVIOUS
  <2> HIDE DEF updates
  <2>3. Enters0(updates)
    BY <2>2, NoSecrets DEF Enters0, Partial, Variables
  <2> QED
    BY <2>1, <2>3 DEF AllSteps, RunStep, ModeStep, VaultStep, PanelStep, AuthModes
<1>4. CASE EditField
  <2>1. PICK v \in Edited, x \in {Typed, Empty} : setVariable([k \in {v} |-> x])
    BY <1>4 DEF EditField
  <2>2. UNCHANGED <<page, storageWorks, run, jar, server, past, response>>
    BY <1>4 DEF EditField, Quiet
  <2>3. v \in Variables
    BY WorkbenchAssumption DEF VaultFields, Variables
  <2>4. Enters0([k \in {v} |-> x])
    BY <2>3, NoSecrets DEF Enters0, Partial
  <2> QED
    BY <2>1, <2>2, <2>4 DEF AllSteps, RunStep, ModeStep, VaultStep, PanelStep, page
<1>5. CASE setAuthMode
  <2>1. PICK mode \in Selected : setMode(mode)
    BY <1>5 DEF setAuthMode
  <2>2. mode \in AuthModes
    BY WorkbenchAssumption
  <2>3. UNCHANGED <<panel, vault, storageWorks, run, jar, server, past, response>>
    BY <1>5 DEF setAuthMode, Quiet
  <2> QED
    BY <2>1, <2>2, <2>3 DEF AllSteps, RunStep, ModeStep, VaultStep, PanelStep
<1>6. CASE clearVault
  <2>1. Clears /\ UNCHANGED <<page, storageWorks, run, response, jar, server>>
    BY <1>6 DEF clearVault, Clears
  <2> QED
    BY <2>1 DEF AllSteps, RunStep, ModeStep, VaultStep, PanelStep, page
<1> QED
  BY <1>1, <1>2, <1>3, <1>4, <1>5, <1>6

\* A reload of the page.
LEMMA ReloadSteps ==
  ASSUME Reload
  PROVE AllSteps
BY DEF Reload, AllSteps, RunStep, Reloads, ModeStep, VaultStep, PanelStep

(***************************************************************************)
(* Requests that settle.                                                   *)
(***************************************************************************)
\* A flow in its first request has room for its second.
RoomLeft ==
  \A c \in Calls :
    (calls[c].waiting /\ ~calls[c].aborted /\ TwoRequests(calls[c].flow, calls[c].mode)) =>
      latest + 1 \in Calls

Steady == Shape /\ SpinnerTracksRequest /\ RoomLeft

\* A settled request stays one.
LEMMA EndedTyped ==
  ASSUME NEW r, IsCall(r), NEW d, d = Ended(r)
  PROVE /\ IsCall(d)
        /\ ~d.waiting /\ ~d.aborted
        /\ d.flow = "panel" /\ d.mode = "bearer"
        /\ d.wire = IF r.wire = "sent" THEN "sent" ELSE "served"
        /\ d.endpoint = r.endpoint /\ d.request = r.request
        /\ d.reply.status = r.reply.status
        /\ DOMAIN d.reply.data = {} /\ DOMAIN d.reply.cookies = {}
<1> DEFINE p == [NoReply EXCEPT !.status = r.reply.status]
<1>1. r.reply.status \in Nat
  BY DEF IsCall, IsReply
<1>2. /\ p.status = r.reply.status /\ p.data = NoReply.data /\ p.cookies = NoReply.cookies
      /\ p \in [status : Nat, data : {p.data}, cookies : {p.cookies}]
  BY <1>1 DEF NoReply
<1>3. IsReply(p)
  BY <1>2, Blank DEF IsReply, Partial
<1> HIDE DEF p
<1>4. d = [r EXCEPT !.waiting = FALSE, !.aborted = FALSE, !.flow = "panel",
         !.mode = "bearer", !.closure = "bearer",
         !.wire = IF r.wire = "sent" THEN "sent" ELSE "served", !.reply = p]
  BY DEF Ended, p
<1>5. /\ ~d.waiting /\ ~d.aborted
      /\ d.flow = "panel" /\ d.mode = "bearer"
      /\ d.wire = IF r.wire = "sent" THEN "sent" ELSE "served"
      /\ d.endpoint = r.endpoint /\ d.request = r.request
      /\ d.reply = p
      /\ d \in [flow : {"panel"}, endpoint : EndpointIds, mode : {"bearer"},
                       closure : {"bearer"}, wire : {"sent", "served"}, waiting : {FALSE},
                       aborted : {FALSE}, request : {r.request}, reply : {p}]
  BY <1>4 DEF IsCall
<1>6. IsCall(d)
  <2>1. r.wire = "sent" => IsRequest(r.request)
    BY DEF IsCall
  <2> QED
    BY <1>3, <1>5, <2>1 DEF IsCall, Flows, AuthModes, Wires
<1> QED
  BY <1>2, <1>5, <1>6, Blank

\* What is captured from a reply is a text for a variable of the vault.
LEMMA CapturedTyped ==
  ASSUME NEW r, IsCall(r), jar \in Jars
  PROVE /\ Partial(captureResponseData(r), Variables)
        /\ \A v \in DOMAIN captureResponseData(r) :
             \/ v = "csrfToken"
             \/ v \in DOMAIN r.reply.data /\ captureResponseData(r)[v] = r.reply.data[v]
        /\ \A v \in {"accessToken", "refreshToken"} :
             v \in DOMAIN captureResponseData(r) <=> v \in DOMAIN r.reply.data
<1> DEFINE fields == DOMAIN r.reply.data \cap CapturedFrom(r.endpoint)
           captured == [v \in fields |-> r.reply.data[v]]
           cookie == [k \in {"csrfToken"} |-> readCookie(jar)]
<1>1. Partial(r.reply.data, Variables)
  BY DEF IsCall, IsReply
<1>2. /\ DOMAIN captured = fields /\ \A v \in fields : captured[v] = r.reply.data[v]
      /\ DOMAIN cookie = {"csrfToken"} /\ cookie["csrfToken"] = readCookie(jar)
  OBVIOUS
<1>3. readCookie(jar) \in Text
  BY DEF readCookie, Jars
<1>4. "accessToken" \in CapturedFrom(r.endpoint) /\ "refreshToken" \in CapturedFrom(r.endpoint)
  BY DEF CapturedFrom
<1>5. fields \subseteq DOMAIN r.reply.data /\ \A v \in {"accessToken", "refreshToken"} :
         v \in fields <=> v \in DOMAIN r.reply.data
  BY <1>4
<1>6. \/ captureResponseData(r) = captured
      \/ captureResponseData(r) = Spread(cookie, captured)
  BY DEF captureResponseData
<1> HIDE DEF fields, captured, cookie
<1>7. CASE captureResponseData(r) = captured
  BY <1>1, <1>2, <1>5, <1>7 DEF Partial
<1>8. CASE captureResponseData(r) = Spread(cookie, captured)
  <2>1. /\ DOMAIN captureResponseData(r) = {"csrfToken"} \union fields
        /\ captureResponseData(r)["csrfToken"] = readCookie(jar)
        /\ \A v \in fields \ {"csrfToken"} : captureResponseData(r)[v] = r.reply.data[v]
    BY <1>2, <1>8 DEF Spread
  <2> QED
    BY <1>1, <1>3, <1>5, <2>1 DEF Partial, Variables
<1> QED
  BY <1>6, <1>7, <1>8

\* A flow of two requests goes on to its second when the first is delivered.
LEMMA GoesOn ==
  ASSUME Steady, NEW c \in Calls, Pending(c, {"received"}),
         TwoRequests(calls[c].flow, calls[c].mode),
         NEW flow \in {"csrf", "prepare2", "social2"}, NEW mode \in AuthModes,
         NEW path, NEW id \in {"auth-login", "auth-csrf", "social-callback"},
         runRequest(Settled(c), RefAfter(c), flow, endpointById(id), mode, calls[c].closure,
           path, << >>)
  PROVE SettlesAndBegins(c)
<1>1. latest + 1 \in Calls
  BY DEF Steady, RoomLeft, Pending
<1>2. flow \in Flows /\ flow # "demo" /\ ~TwoRequests(flow, mode)
  BY DEF Flows, TwoRequests
<1>3. calls[c].closure \in AuthModes
  <2>1. IsCall(calls[c])
    BY DEF Steady, Shape, Runs
  <2> QED
    BY <2>1 DEF IsCall
<1> QED
  BY <1>1, <1>2, <1>3, FlowBegins DEF Steady, SettlesAndBegins

\* What the flow does with a delivered result ends its request, and may begin the next.
LEMMA ContinueSteps ==
  ASSUME Steady, NEW c \in Calls, Pending(c, {"received"}),
         ContinuePanel(c) \/ ContinueDemo(c) \/ ContinueSessions(c) \/ ContinueSocial(c)
  PROVE (Settles(c) \/ SettlesAndBegins(c)) /\ PanelStep
<1>0. calls[c].waiting /\ "bearer" \in AuthModes /\ "cookie" \in AuthModes
  BY DEF Pending, AuthModes
<1>1. CASE ContinuePanel(c)
  BY <1>0, <1>1 DEF ContinuePanel, Settles, PanelStep
<1>2. CASE ContinueDemo(c)
  <2> DEFINE path == buildPathFromDefinition(endpointById("auth-csrf"), variables)
  <2>1. UNCHANGED panel
    BY <1>2 DEF ContinueDemo
  <2>2. \/ Finish(c)
        \/ /\ calls[c].flow = "demo" /\ calls[c].mode = "cookie"
           /\ runRequest(Settled(c), RefAfter(c), "csrf", endpointById("auth-csrf"), "cookie",
                calls[c].closure, path, << >>)
    BY <1>2 DEF ContinueDemo
  <2> HIDE DEF path
  <2>3. CASE Finish(c)
    BY <1>0, <2>1, <2>3 DEF Settles, PanelStep
  <2>4. CASE /\ calls[c].flow = "demo" /\ calls[c].mode = "cookie"
             /\ runRequest(Settled(c), RefAfter(c), "csrf", endpointById("auth-csrf"), "cookie",
                  calls[c].closure, path, << >>)
    <3>1. TwoRequests(calls[c].flow, calls[c].mode)
      BY <2>4 DEF TwoRequests
    <3> QED
      BY <1>0, <2>1, <2>4, <3>1, GoesOn DEF PanelStep
  <2> QED
    BY <2>2, <2>3, <2>4
<1>3. CASE ContinueSessions(c)
  <2> DEFINE path == buildPathFromDefinition(endpointById("auth-login"), variables)
  <2>1. \/ Finish(c)
        \/ /\ calls[c].flow = "prepare1"
           /\ runRequest(Settled(c), RefAfter(c), "prepare2", endpointById("auth-login"), "bearer",
                calls[c].closure, path, << >>)
    BY <1>3 DEF ContinueSessions
  <2>2. UNCHANGED panel \/ Navigate("sessions-list", variables')
    BY <1>3 DEF ContinueSessions
  <2>3. PanelStep
    BY <2>2, NamedEntries DEF PanelStep
  <2> HIDE DEF path
  <2>4. CASE Finish(c)
    BY <1>0, <2>3, <2>4 DEF Settles
  <2>5. CASE /\ calls[c].flow = "prepare1"
             /\ runRequest(Settled(c), RefAfter(c), "prepare2", endpointById("auth-login"), "bearer",
                  calls[c].closure, path, << >>)
    <3>1. TwoRequests(calls[c].flow, calls[c].mode)
      BY <2>5 DEF TwoRequests
    <3> QED
      BY <1>0, <2>3, <2>5, <3>1, GoesOn
  <2> QED
    BY <2>1, <2>4, <2>5
<1>4. CASE ContinueSocial(c)
  <2> DEFINE path == CallbackPath(calls[c].reply.data)
  <2>1. \/ Finish(c)
        \/ /\ calls[c].flow = "social1"
           /\ runRequest(Settled(c), RefAfter(c), "social2", endpointById("social-callback"), "bearer",
                calls[c].closure, path, << >>)
    BY <1>4 DEF ContinueSocial
  <2>2. UNCHANGED panel \/ Navigate("social-callback", variables')
    BY <1>4 DEF ContinueSocial
  <2>3. PanelStep
    BY <2>2, NamedEntries DEF PanelStep
  <2> HIDE DEF path
  <2>4. CASE Finish(c)
    BY <1>0, <2>3, <2>4 DEF Settles
  <2>5. CASE /\ calls[c].flow = "social1"
             /\ runRequest(Settled(c), RefAfter(c), "social2", endpointById("social-callback"), "bearer",
                  calls[c].closure, path, << >>)
    <3>1. TwoRequests(calls[c].flow, calls[c].mode)
      BY <2>5 DEF TwoRequests
    <3> QED
      BY <1>0, <2>3, <2>5, <3>1, GoesOn
  <2> QED
    BY <2>1, <2>4, <2>5
<1> QED
  BY <1>1, <1>2, <1>3, <1>4

\* A request that settles, with its result, an error or as interrupted.
LEMMA SettleSteps ==
  ASSUME Steady, NEW c \in Calls, Settle(c)
  PROVE /\ AllSteps /\ UNCHANGED <<jar, server, past>>
        /\ Settles(c) \/ SettlesAndBegins(c)
        /\ response' = response \/ (Deliver(c) /\ response'.call = c)
<1>1. CASE Deliver(c)
  <2>1. /\ Pending(c, {"received"}) /\ setVariable(captureResponseData(calls[c]))
        /\ response' = IF Displayed(calls[c].flow)
             THEN [call |-> c, status |-> calls[c].reply.status, notice |-> noticeOf(calls[c])]
             ELSE response
        /\ ContinuePanel(c) \/ ContinueDemo(c) \/ ContinueSessions(c) \/ ContinueSocial(c)
        /\ UNCHANGED <<authMode, storedMode, storageWorks, jar, server, past>>
    BY <1>1 DEF Deliver
  <2>2. (Settles(c) \/ SettlesAndBegins(c)) /\ PanelStep
    BY <2>1, ContinueSteps
  <2>3. Captures(c)
    BY <2>1, <2>2 DEF Captures
  <2>4. response' = response \/ response'.call = c
    BY <2>1
  <2> QED
    BY <1>1, <2>1, <2>2, <2>3, <2>4 DEF AllSteps, RunStep, ModeStep, VaultStep
<1>2. CASE Fails(c) \/ Interrupted(c)
  <2>1. calls[c].waiting /\ Finish(c)
        /\ UNCHANGED <<page, vault, storageWorks, response, jar, server, past>>
    BY <1>2 DEF Fails, Interrupted, Pending
  <2> QED
    BY <2>1 DEF Settles, AllSteps, RunStep, ModeStep, VaultStep, PanelStep, page
<1> QED
  BY <1>1, <1>2 DEF Settle

\* Cookies laid over a jar make a jar.
LEMMA SpreadJar ==
  ASSUME NEW j \in Jars, NEW cookies, Partial(cookies, CookieNames)
  PROVE /\ Spread(cookies, j) \in Jars
        /\ \A k \in CookieNames :
             Spread(cookies, j)[k] = IF k \in DOMAIN cookies THEN cookies[k] ELSE j[k]
<1>1. DOMAIN j = CookieNames /\ \A k \in CookieNames : j[k] \in Text
  BY DEF Jars, CookieNames
<1>2. DOMAIN cookies \union DOMAIN j = CookieNames
  BY <1>1 DEF Partial
<1>3. /\ Spread(cookies, j) = [k \in CookieNames |-> IF k \in DOMAIN cookies THEN cookies[k] ELSE j[k]]
      /\ \A k \in CookieNames : (IF k \in DOMAIN cookies THEN cookies[k] ELSE j[k]) \in Text
  BY <1>1, <1>2 DEF Spread, Partial
<1>4. Spread(cookies, j) \in [CookieNames -> Text]
  BY <1>3
<1>5. ASSUME NEW f \in [CookieNames -> Text]
      PROVE f \in Jars
  BY DEF CookieNames, Jars
<1> QED
  BY <1>3, <1>4, <1>5

\* The cookies of a reply arrive.
LEMMA ReceiveSteps ==
  ASSUME Shape, NEW c \in Calls, Receive(c)
  PROVE AllSteps /\ Receives(c) /\ UNCHANGED <<server, past, response>> /\ jar' \in Jars
<1>1. /\ Receives(c) /\ UNCHANGED <<server, past, response>>
      /\ UNCHANGED <<page, vault, storageWorks>>
  BY DEF Receive, Receives, Quiet
<1>2. RunStep
  BY <1>1 DEF RunStep
<1>3. AllSteps
  BY <1>1, <1>2 DEF AllSteps, ModeStep, VaultStep, PanelStep, page
<1>4. jar \in Jars /\ Partial(calls[c].reply.cookies, CookieNames)
  BY DEF Shape, World, Runs, IsCall, IsReply
<1>5. jar' = jar \/ jar' = Spread(calls[c].reply.cookies, jar)
  BY DEF Receive
<1> QED
  BY <1>1, <1>3, <1>4, <1>5, SpreadJar

\* The service answers.
LEMMA AnswerSteps ==
  ASSUME Shape, NEW c \in Calls, Serve(c)
  PROVE AllSteps /\ ServeStep(c)
<1>1. ServeStep(c)
  BY ServeSteps DEF Shape
<1>2. Serve(c) /\ Serves(c)
  BY <1>1 DEF ServeStep
<1>3. RunStep
  BY <1>2 DEF RunStep
<1> QED
  BY <1>1, <1>3 DEF ServeStep, AllSteps, ModeStep, VaultStep, PanelStep, page

\* The browser's cookies change without the page.
LEMMA CookieSteps ==
  ASSUME Shape, OtherTabLogin \/ AccessCookieExpires
  PROVE /\ AllSteps /\ UNCHANGED <<run, response>>
        /\ jar' \in Jars /\ server' \in ServerType /\ past' \in PastType
<1>0. jar \in Jars /\ server \in ServerType /\ past \in PastType
  BY DEF Shape, World
<1>1. CASE OtherTabLogin
  <2>1. /\ server' = [server EXCEPT !.open = @ \union {OtherTab}, !.live[OtherTab] = OtherTab]
        /\ jar' = AuthCookies(OtherTab, OtherTab)
        /\ past' = [past EXCEPT !.inCookies = @ \union {OtherTab}]
        /\ UNCHANGED <<page, vault, storageWorks, run, response>>
    BY <1>1 DEF OtherTabLogin, Quiet
  <2>2. OtherTab \in Sessions /\ OtherTab \in 0..OtherTab
    BY Numbers
  <2>3. past' \in PastType /\ past'.cleared = past.cleared
    BY <1>0, <2>1, <2>2 DEF PastType
  <2>4. server' \in ServerType
    BY <1>0, <2>1, <2>2 DEF ServerType
  <2>5. jar' \in Jars
    BY <2>1, <2>2, MintedPair
  <2> QED
    BY <2>1, <2>3, <2>4, <2>5 DEF AllSteps, RunStep, ModeStep, VaultStep, PanelStep, page
<1>2. CASE AccessCookieExpires
  <2>1. /\ jar' = [jar EXCEPT !.access = Empty]
        /\ UNCHANGED <<page, vault, storageWorks, run, server, past, response>>
    BY <1>2 DEF AccessCookieExpires, Quiet
  <2>2. jar' \in Jars
    BY <1>0, <2>1, NoSecrets DEF Jars
  <2> QED
    BY <1>0, <2>1, <2>2 DEF AllSteps, RunStep, ModeStep, VaultStep, PanelStep, page
<1> QED
  BY <1>1, <1>2

\* Every step is one of these for the requests, the mode, the vault and the panel.
LEMMA EveryStep ==
  ASSUME Steady, [Next]_vars
  PROVE AllSteps
<1> Shape
  BY DEF Steady
<1>1. CASE UNCHANGED vars
  BY <1>1 DEF vars, AllSteps, RunStep, ModeStep, VaultStep, PanelStep, run, vault
<1>2. CASE User
  BY <1>2, SendSteps, ScenarioSteps, EditSteps, ReloadSteps DEF User
<1>3. ASSUME NEW c \in Calls, Serve(c) \/ Receive(c) \/ Settle(c)
      PROVE AllSteps
  BY <1>3, AnswerSteps, ReceiveSteps, SettleSteps
<1>4. CASE OtherTabLogin \/ AccessCookieExpires
  BY <1>4, CookieSteps
<1> QED
  BY <1>1, <1>2, <1>3, <1>4 DEF Next

(***************************************************************************)
(* Types, and the one controller.                                          *)
(***************************************************************************)
\* Aborting a request changes nothing else of it.
LEMMA AbortedTyped ==
  ASSUME NEW r, IsCall(r), NEW d, d = [r EXCEPT !.aborted = TRUE]
  PROVE /\ IsCall(d) /\ d.aborted
        /\ d.waiting = r.waiting /\ d.wire = r.wire /\ d.flow = r.flow
        /\ d.mode = r.mode /\ d.endpoint = r.endpoint /\ d.request = r.request /\ d.reply = r.reply
<1>1. /\ d.aborted
      /\ d.waiting = r.waiting /\ d.wire = r.wire /\ d.flow = r.flow
      /\ d.mode = r.mode /\ d.endpoint = r.endpoint /\ d.request = r.request /\ d.reply = r.reply
      /\ d \in [flow : Flows, endpoint : EndpointIds, mode : AuthModes, closure : AuthModes,
                wire : Wires, waiting : BOOLEAN, aborted : BOOLEAN,
                request : {d.request}, reply : {d.reply}]
  BY DEF IsCall, Wires
<1>2. IsReply(r.reply) /\ (r.wire = "sent" => IsRequest(r.request))
  BY DEF IsCall
<1> QED
  BY <1>1, <1>2 DEF IsCall

\* Receiving its reply changes nothing else either.
LEMMA ReceivedTyped ==
  ASSUME NEW r, IsCall(r), NEW d, d = [r EXCEPT !.wire = "received"]
  PROVE /\ IsCall(d) /\ d.wire = "received"
        /\ d.waiting = r.waiting /\ d.aborted = r.aborted /\ d.flow = r.flow
        /\ d.mode = r.mode /\ d.endpoint = r.endpoint /\ d.request = r.request /\ d.reply = r.reply
<1>1. /\ d.wire = "received"
      /\ d.waiting = r.waiting /\ d.aborted = r.aborted /\ d.flow = r.flow
      /\ d.mode = r.mode /\ d.endpoint = r.endpoint /\ d.request = r.request /\ d.reply = r.reply
      /\ d \in [flow : Flows, endpoint : EndpointIds, mode : AuthModes, closure : AuthModes,
                wire : Wires, waiting : BOOLEAN, aborted : BOOLEAN,
                request : {d.request}, reply : {d.reply}]
  BY DEF IsCall, Wires
<1>2. IsReply(r.reply) /\ (r.wire = "sent" => IsRequest(r.request))
  BY DEF IsCall
<1> QED
  BY <1>1, <1>2 DEF IsCall

\* What the service makes of a request.
AnsweredAs(r, p) == [r EXCEPT !.wire = "served", !.request = << >>, !.reply = p]
LEMMA AnsweredTyped ==
  ASSUME NEW r, IsCall(r), NEW p, IsReply(p)
  PROVE LET a == AnsweredAs(r, p)
        IN /\ IsCall(a) /\ a.wire = "served" /\ a.waiting = r.waiting /\ a.aborted = r.aborted
           /\ a.flow = r.flow /\ a.mode = r.mode /\ a.endpoint = r.endpoint /\ a.reply = p
<1> DEFINE a == AnsweredAs(r, p)
<1>1. /\ a.wire = "served" /\ a.waiting = r.waiting /\ a.aborted = r.aborted
      /\ a.flow = r.flow /\ a.mode = r.mode /\ a.endpoint = r.endpoint /\ a.reply = p
      /\ a \in [flow : Flows, endpoint : EndpointIds, mode : AuthModes, closure : AuthModes,
                wire : Wires, waiting : BOOLEAN, aborted : BOOLEAN,
                request : {a.request}, reply : {a.reply}]
  BY DEF IsCall, Wires, AnsweredAs
<1> HIDE DEF a
<1>2. IsCall(a)
  BY <1>1 DEF IsCall
<1> QED
  BY <1>1, <1>2 DEF a

\* The steps a request may take.
Answered(i) ==
  /\ Serve(i)
  /\ calls[i].wire = "sent"
  /\ \E p : IsReply(p) /\ calls'[i] = AnsweredAs(calls[i], p)
CallStep(i) ==
  \/ calls'[i] = calls[i]
  \/ i = latest + 1 /\ latest' = i /\ BegunCall(calls'[i])
  \/ calls'[i] = [calls[i] EXCEPT !.aborted = TRUE] /\ i = abortRef
  \/ Answered(i)
  \/ /\ Receive(i) /\ Pending(i, {"served"})
     /\ calls'[i] = [calls[i] EXCEPT !.wire = "received"]
  \/ calls[i].waiting /\ calls'[i] = Ended(calls[i])

\* A delivered request is the one the controller holds, and the newest.
LEMMA PendingIsLatest ==
  ASSUME Steady, NEW c \in Calls, NEW wires, Pending(c, wires)
  PROVE c = abortRef /\ c = latest /\ RefAfter(c) = 0
BY Numbers DEF Steady, SpinnerTracksRequest, Pending, RefAfter, Calls

\* Each step of the run is a step of each request; the requests stay a function.
LEMMA CallSteps ==
  ASSUME Steady, RunStep
  PROVE (\A i \in Calls : CallStep(i)) /\ calls' = [i \in Calls |-> calls'[i]]
<1>0. calls = [i \in Calls |-> calls[i]]
  BY DEF Steady, Shape, Runs
<1>1. CASE UNCHANGED run
  BY <1>0, <1>1 DEF run, CallStep
<1>2. CASE Begins(calls, abortRef)
  <2>1. PICK r : BegunCall(r) /\ Enters(calls, abortRef, r)
    BY <1>2 DEF Begins
  <2>2. calls' = [i \in Calls |-> IF i = latest + 1 THEN r
          ELSE IF i = abortRef THEN [calls[i] EXCEPT !.aborted = TRUE] ELSE calls[i]]
    BY <2>1 DEF Enters
  <2>3. \A i \in Calls : calls'[i] = IF i = latest + 1 THEN r
          ELSE IF i = abortRef THEN [calls[i] EXCEPT !.aborted = TRUE] ELSE calls[i]
    BY <2>2
  <2>4. calls' = [i \in Calls |-> calls'[i]]
    BY <2>2, <2>3
  <2> QED
    BY <2>1, <2>3, <2>4 DEF CallStep, Enters
<1>3. ASSUME NEW c \in Calls, Serve(c), Serves(c)
      PROVE (\A i \in Calls : CallStep(i)) /\ calls' = [i \in Calls |-> calls'[i]]
  <2>1. PICK p : IsReply(p) /\
          calls' = [calls EXCEPT ![c].wire = "served", ![c].request = << >>, ![c].reply = p]
    BY <1>3 DEF Serves
  <2>2. calls' = [calls EXCEPT ![c] = AnsweredAs(calls[c], p)]
    BY <1>0, <2>1 DEF AnsweredAs
  <2>3. \A i \in Calls : calls'[i] = IF i = c THEN AnsweredAs(calls[c], p) ELSE calls[i]
    BY <1>0, <2>2
  <2>4. calls' = [i \in Calls |-> calls'[i]]
    BY <1>0, <2>2
  <2>5. Answered(c)
    BY <1>3, <2>1, <2>3 DEF Serves, Answered
  <2> QED
    BY <2>3, <2>4, <2>5 DEF CallStep
<1>4. ASSUME NEW c \in Calls, Receive(c), Receives(c)
      PROVE (\A i \in Calls : CallStep(i)) /\ calls' = [i \in Calls |-> calls'[i]]
  <2>1. calls' = [calls EXCEPT ![c] = [calls[c] EXCEPT !.wire = "received"]]
    BY <1>0, <1>4 DEF Receives
  <2>2. \A i \in Calls : calls'[i] = IF i = c THEN [calls[c] EXCEPT !.wire = "received"] ELSE calls[i]
    BY <1>0, <2>1
  <2>3. calls' = [i \in Calls |-> calls'[i]]
    BY <1>0, <2>1
  <2> QED
    BY <1>4, <2>2, <2>3 DEF Receives, CallStep
<1>5. ASSUME NEW c \in Calls, Settles(c)
      PROVE (\A i \in Calls : CallStep(i)) /\ calls' = [i \in Calls |-> calls'[i]]
  <2>1. calls' = [calls EXCEPT ![c] = Ended(calls[c])] /\ calls[c].waiting
    BY <1>5 DEF Settles, Finish, Settled
  <2>2. \A i \in Calls : calls'[i] = IF i = c THEN Ended(calls[c]) ELSE calls[i]
    BY <1>0, <2>1
  <2>3. calls' = [i \in Calls |-> calls'[i]]
    BY <1>0, <2>1
  <2> QED
    BY <2>1, <2>2, <2>3 DEF CallStep
<1>6. ASSUME NEW c \in Calls, SettlesAndBegins(c)
      PROVE (\A i \in Calls : CallStep(i)) /\ calls' = [i \in Calls |-> calls'[i]]
  <2>1. Pending(c, {"received"}) /\ calls[c].waiting
    BY <1>6 DEF SettlesAndBegins, Pending
  <2>2. RefAfter(c) = 0 /\ 0 \notin Calls
    BY <2>1, PendingIsLatest DEF Calls
  <2>3. PICK r : BegunCall(r) /\ Enters(Settled(c), RefAfter(c), r)
    BY <1>6 DEF SettlesAndBegins, Begins
  <2>4. calls' = [i \in Calls |-> IF i = latest + 1 THEN r
          ELSE IF i = RefAfter(c) THEN [Settled(c)[i] EXCEPT !.aborted = TRUE] ELSE Settled(c)[i]]
    BY <2>3 DEF Enters
  <2>5. \A i \in Calls : calls'[i] = IF i = latest + 1 THEN r ELSE Settled(c)[i]
    BY <2>2, <2>4
  <2>6. \A i \in Calls : Settled(c)[i] = IF i = c THEN Ended(calls[c]) ELSE calls[i]
    BY <1>0 DEF Settled
  <2>7. calls' = [i \in Calls |-> calls'[i]]
    BY <2>4, <2>5
  <2> QED
    BY <2>1, <2>3, <2>5, <2>6, <2>7 DEF CallStep, Enters
<1>7. CASE Reloads
  <2>1. calls' = [i \in Calls |-> IF calls[i].waiting THEN Ended(calls[i]) ELSE calls[i]]
    BY <1>7 DEF Reloads
  <2>2. \A i \in Calls : calls'[i] = IF calls[i].waiting THEN Ended(calls[i]) ELSE calls[i]
    BY <2>1
  <2>3. calls' = [i \in Calls |-> calls'[i]]
    BY <2>1, <2>2
  <2> QED
    BY <2>2, <2>3 DEF CallStep
<1> QED
  BY <1>1, <1>2, <1>3, <1>4, <1>5, <1>6, <1>7 DEF RunStep

\* What a step may make of a request that is not begun by it.
LEMMA CallStays ==
  ASSUME Shape, NEW i \in Calls, CallStep(i)
  PROVE /\ IsCall(calls'[i])
        /\ \/ i = latest + 1 /\ latest' = i /\ BegunCall(calls'[i])
           \/ /\ calls'[i].waiting => calls[i].waiting
              /\ (calls'[i].waiting /\ ~calls'[i].aborted) =>
                   /\ ~calls[i].aborted
                   /\ calls'[i].flow = calls[i].flow /\ calls'[i].mode = calls[i].mode
                   /\ calls'[i].endpoint = calls[i].endpoint
              /\ calls'[i].wire = "sent" =>
                   calls[i].wire = "sent" /\ calls'[i].request = calls[i].request
              /\ calls'[i].wire = "sent" => calls'[i].endpoint = calls[i].endpoint
              /\ i > latest => ~calls'[i].waiting /\ calls'[i].wire = "unsent"
<1>0. IsCall(calls[i]) /\ abortRef \in 0..MaxCalls /\ latest \in 0..MaxCalls
      /\ (i > latest => ~calls[i].waiting /\ calls[i].wire = "unsent")
  BY DEF Shape, Runs
<1>1. CASE calls'[i] = calls[i]
  BY <1>0, <1>1
<1>2. CASE i = latest + 1 /\ latest' = i /\ BegunCall(calls'[i])
  BY <1>2 DEF BegunCall
<1>3. CASE calls'[i] = [calls[i] EXCEPT !.aborted = TRUE] /\ i = abortRef
  <2>1. /\ IsCall(calls'[i]) /\ calls'[i].aborted /\ calls'[i].waiting = calls[i].waiting
        /\ calls'[i].wire = calls[i].wire /\ calls'[i].endpoint = calls[i].endpoint
        /\ calls'[i].request = calls[i].request
    <3> PICK r, d : r = calls[i] /\ d = calls'[i]
      OBVIOUS
    <3>1. IsCall(r) /\ d = [r EXCEPT !.aborted = TRUE]
      BY <1>0, <1>3
    <3> QED
      BY <3>1, AbortedTyped
  <2> QED
    BY <1>0, <2>1
<1>4. CASE Answered(i)
  <2>1. /\ IsCall(calls'[i]) /\ calls'[i].wire = "served" /\ calls'[i].waiting = calls[i].waiting
        /\ calls'[i].aborted = calls[i].aborted /\ calls'[i].flow = calls[i].flow
        /\ calls'[i].mode = calls[i].mode /\ calls'[i].endpoint = calls[i].endpoint
    BY <1>0, <1>4, AnsweredTyped DEF Answered
  <2> QED
    BY <1>0, <1>4, <2>1 DEF Answered
<1>5. CASE Pending(i, {"served"}) /\ calls'[i] = [calls[i] EXCEPT !.wire = "received"]
  <2>1. /\ IsCall(calls'[i]) /\ calls'[i].wire = "received" /\ calls'[i].waiting = calls[i].waiting
        /\ calls'[i].aborted = calls[i].aborted /\ calls'[i].flow = calls[i].flow
        /\ calls'[i].mode = calls[i].mode /\ calls'[i].endpoint = calls[i].endpoint
    <3> PICK r, d : r = calls[i] /\ d = calls'[i]
      OBVIOUS
    <3>1. IsCall(r) /\ d = [r EXCEPT !.wire = "received"]
      BY <1>0, <1>5
    <3> QED
      BY <3>1, ReceivedTyped
  <2> QED
    BY <1>0, <1>5, <2>1 DEF Pending
<1>6. CASE calls[i].waiting /\ calls'[i] = Ended(calls[i])
  <2>1. /\ IsCall(calls'[i]) /\ ~calls'[i].waiting /\ calls'[i].endpoint = calls[i].endpoint
        /\ calls'[i].request = calls[i].request
        /\ calls'[i].wire = IF calls[i].wire = "sent" THEN "sent" ELSE "served"
    <3> PICK r, d : r = calls[i] /\ d = calls'[i]
      OBVIOUS
    <3>1. IsCall(r) /\ d = Ended(r)
      BY <1>0, <1>6
    <3> QED
      BY <3>1, EndedTyped
  <2> QED
    BY <1>0, <1>6, <2>1
<1> QED
  BY <1>1, <1>2, <1>3, <1>4, <1>5, <1>6 DEF CallStep

\* The requests stay typed.
LEMMA RunsStay ==
  ASSUME Steady, RunStep
  PROVE Runs'
<1>0. Shape /\ latest \in 0..MaxCalls /\ abortRef \in 0..MaxCalls /\ isRunning \in BOOLEAN
  BY DEF Steady, Shape, Runs
<1>1. (\A i \in Calls : CallStep(i)) /\ calls' = [i \in Calls |-> calls'[i]]
  BY CallSteps
<1>2. \A i \in Calls : IsCall(calls'[i])
  BY <1>0, <1>1, CallStays
<1>3. \/ latest' = latest /\ abortRef' \in {0, abortRef}
      \/ latest' = latest + 1 /\ latest + 1 \in Calls /\ abortRef' = latest + 1
  BY DEF RunStep, run, Begins, Enters, Serves, Receives, Settles, SettlesAndBegins, Reloads, Finish, RefAfter
<1>4. latest' \in 0..MaxCalls /\ abortRef' \in 0..MaxCalls /\ latest <= latest'
  BY <1>0, <1>3, Numbers DEF Calls
<1>5. isRunning' \in BOOLEAN
  BY <1>0 DEF RunStep, run, Begins, Enters, Serves, Receives, Settles, SettlesAndBegins, Reloads, Finish
<1>6. \A i \in Calls : i > latest' => ~calls'[i].waiting /\ calls'[i].wire = "unsent"
  <2> TAKE i \in Calls
  <2>1. CallStep(i) /\ i \in Nat
    BY <1>1, Numbers DEF Calls
  <2> QED
    BY <1>0, <1>4, <2>1, CallStays
<1> QED
  BY <1>1, <1>2, <1>4, <1>5, <1>6 DEF Runs

\* A request that the page waits for and has not aborted.
Awaited(i) == calls[i].waiting /\ ~calls[i].aborted

\* The spinner and the room of a flow, whatever happens to the requests.
LEMMA SpinnerStays ==
  ASSUME Steady, RunStep
  PROVE SpinnerTracksRequest' /\ RoomLeft'
<1>0. /\ isRunning <=> abortRef # 0
      /\ \A i \in Calls : Awaited(i) <=> i = abortRef
      /\ abortRef \in {0, latest} /\ latest \in Nat /\ 0 \notin Calls /\ Calls \subseteq Nat
      /\ \A i \in Calls : IsCall(calls[i])
      /\ calls = [i \in Calls |-> calls[i]]
      /\ \A i \in Calls : i > latest => ~calls[i].waiting
      /\ \A i \in Calls :
           Awaited(i) /\ TwoRequests(calls[i].flow, calls[i].mode) => latest + 1 \in Calls
  BY Numbers DEF Steady, SpinnerTracksRequest, RoomLeft, Shape, Runs, Calls, Awaited
<1> SUFFICES /\ isRunning' <=> abortRef' # 0
             /\ \A i \in Calls : (calls'[i].waiting /\ ~calls'[i].aborted) <=> i = abortRef'
             /\ abortRef' \in {0, latest'}
             /\ \A i \in Calls :
                  calls'[i].waiting /\ ~calls'[i].aborted
                    /\ TwoRequests(calls'[i].flow, calls'[i].mode) => latest' + 1 \in Calls
  BY DEF SpinnerTracksRequest, RoomLeft
<1>1. CASE UNCHANGED run
  BY <1>0, <1>1 DEF run, Awaited
<1>2. ASSUME NEW r, BegunCall(r), latest + 1 \in Calls,
             latest' = latest + 1, abortRef' = latest + 1, isRunning' = TRUE,
             calls'[latest + 1] = r,
             \A i \in Calls \ {latest + 1} : ~(calls'[i].waiting /\ ~calls'[i].aborted)
      PROVE /\ isRunning' <=> abortRef' # 0
            /\ \A i \in Calls : (calls'[i].waiting /\ ~calls'[i].aborted) <=> i = abortRef'
            /\ abortRef' \in {0, latest'}
            /\ \A i \in Calls :
                 calls'[i].waiting /\ ~calls'[i].aborted
                   /\ TwoRequests(calls'[i].flow, calls'[i].mode) => latest' + 1 \in Calls
  <2>1. r.waiting /\ ~r.aborted /\ (TwoRequests(r.flow, r.mode) => latest + 2 \in Calls)
    BY <1>2 DEF BegunCall
  <2>2. latest + 1 # 0 /\ (latest + 1) + 1 = latest + 2
    BY <1>0
  <2> QED
    BY <1>2, <2>1, <2>2
<1>3. CASE Begins(calls, abortRef)
  <2>1. PICK r : BegunCall(r) /\ Enters(calls, abortRef, r)
    BY <1>3 DEF Begins
  <2>2. /\ latest + 1 \in Calls
        /\ latest' = latest + 1 /\ abortRef' = latest + 1 /\ isRunning' = TRUE
        /\ calls' = [i \in Calls |-> IF i = latest + 1 THEN r
             ELSE IF i = abortRef THEN [calls[i] EXCEPT !.aborted = TRUE] ELSE calls[i]]
    BY <2>1 DEF Enters
  <2>3. calls'[latest + 1] = r
    BY <2>2
  <2>4. ASSUME NEW i \in Calls \ {latest + 1}
        PROVE ~(calls'[i].waiting /\ ~calls'[i].aborted)
    <3>1. CASE i = abortRef
      <4>1. calls'[i] = [calls[i] EXCEPT !.aborted = TRUE]
        BY <2>2, <2>4, <3>1
      <4>2. IsCall(calls[i])
        BY <1>0
      <4> QED
        BY <4>1, <4>2, AbortedTyped
    <3>2. CASE i # abortRef
      BY <1>0, <2>2, <2>4, <3>2 DEF Awaited
    <3> QED
      BY <3>1, <3>2
  <2> QED
    BY <1>2, <2>1, <2>2, <2>3, <2>4
<1>4. ASSUME NEW c \in Calls, SettlesAndBegins(c)
      PROVE /\ isRunning' <=> abortRef' # 0
            /\ \A i \in Calls : (calls'[i].waiting /\ ~calls'[i].aborted) <=> i = abortRef'
            /\ abortRef' \in {0, latest'}
            /\ \A i \in Calls :
                 calls'[i].waiting /\ ~calls'[i].aborted
                   /\ TwoRequests(calls'[i].flow, calls'[i].mode) => latest' + 1 \in Calls
  <2>1. c = abortRef /\ RefAfter(c) = 0
    BY <1>4, PendingIsLatest DEF SettlesAndBegins
  <2>2. PICK r : BegunCall(r) /\ Enters(Settled(c), RefAfter(c), r)
    BY <1>4 DEF SettlesAndBegins, Begins
  <2>3. /\ latest + 1 \in Calls
        /\ latest' = latest + 1 /\ abortRef' = latest + 1 /\ isRunning' = TRUE
        /\ calls' = [i \in Calls |-> IF i = latest + 1 THEN r
             ELSE IF i = RefAfter(c) THEN [Settled(c)[i] EXCEPT !.aborted = TRUE] ELSE Settled(c)[i]]
    BY <2>2 DEF Enters
  <2>4. calls'[latest + 1] = r
    BY <2>3
  <2>5. ASSUME NEW i \in Calls \ {latest + 1}
        PROVE ~(calls'[i].waiting /\ ~calls'[i].aborted)
    <3>1. calls'[i] = Settled(c)[i] /\ IsCall(calls[i])
      BY <1>0, <2>1, <2>3
    <3>2. CASE i = c
      <4>1. calls'[i] = Ended(calls[i])
        BY <1>0, <3>1, <3>2 DEF Settled
      <4> QED
        BY <3>1, <4>1, EndedTyped
    <3>3. CASE i # c
      <4>1. calls'[i] = calls[i]
        BY <1>0, <3>1, <3>3 DEF Settled
      <4> QED
        BY <1>0, <2>1, <3>3, <4>1 DEF Awaited
    <3> QED
      BY <3>2, <3>3
  <2> QED
    BY <1>2, <2>2, <2>3, <2>4, <2>5
<1>5. ASSUME latest' = latest, abortRef' = abortRef, isRunning' = isRunning,
             \A i \in Calls : /\ calls'[i].waiting = calls[i].waiting
                              /\ calls'[i].aborted = calls[i].aborted
                              /\ calls'[i].flow = calls[i].flow /\ calls'[i].mode = calls[i].mode
      PROVE /\ isRunning' <=> abortRef' # 0
            /\ \A i \in Calls : (calls'[i].waiting /\ ~calls'[i].aborted) <=> i = abortRef'
            /\ abortRef' \in {0, latest'}
            /\ \A i \in Calls :
                 calls'[i].waiting /\ ~calls'[i].aborted
                   /\ TwoRequests(calls'[i].flow, calls'[i].mode) => latest' + 1 \in Calls
  BY <1>0, <1>5 DEF Awaited
<1>6. ASSUME NEW c \in Calls, Serves(c)
      PROVE \A i \in Calls : /\ calls'[i].waiting = calls[i].waiting
                             /\ calls'[i].aborted = calls[i].aborted
                             /\ calls'[i].flow = calls[i].flow /\ calls'[i].mode = calls[i].mode
  <2>1. PICK p : IsReply(p) /\
          calls' = [calls EXCEPT ![c].wire = "served", ![c].request = << >>, ![c].reply = p]
    BY <1>6 DEF Serves
  <2>2. calls' = [calls EXCEPT ![c] = AnsweredAs(calls[c], p)]
    BY <1>0, <2>1 DEF AnsweredAs
  <2>3. \A i \in Calls : calls'[i] = IF i = c THEN AnsweredAs(calls[c], p) ELSE calls[i]
    BY <1>0, <2>2
  <2> QED
    BY <1>0, <2>1, <2>3, AnsweredTyped
<1>7. ASSUME NEW c \in Calls, Receives(c)
      PROVE \A i \in Calls : /\ calls'[i].waiting = calls[i].waiting
                             /\ calls'[i].aborted = calls[i].aborted
                             /\ calls'[i].flow = calls[i].flow /\ calls'[i].mode = calls[i].mode
  <2>1. calls' = [calls EXCEPT ![c] = [calls[c] EXCEPT !.wire = "received"]]
    BY <1>0, <1>7 DEF Receives
  <2>2. \A i \in Calls : calls'[i] = IF i = c THEN [calls[c] EXCEPT !.wire = "received"] ELSE calls[i]
    BY <1>0, <2>1
  <2> QED
    BY <1>0, <2>2, ReceivedTyped
<1>8. ASSUME NEW c \in Calls, Settles(c)
      PROVE /\ isRunning' <=> abortRef' # 0
            /\ \A i \in Calls : (calls'[i].waiting /\ ~calls'[i].aborted) <=> i = abortRef'
            /\ abortRef' \in {0, latest'}
            /\ \A i \in Calls :
                 calls'[i].waiting /\ ~calls'[i].aborted
                   /\ TwoRequests(calls'[i].flow, calls'[i].mode) => latest' + 1 \in Calls
  <2>1. /\ calls' = [calls EXCEPT ![c] = Ended(calls[c])] /\ latest' = latest
        /\ abortRef' = IF abortRef = c THEN 0 ELSE abortRef
        /\ isRunning' = IF abortRef = c THEN FALSE ELSE isRunning
    BY <1>8 DEF Settles, Finish, Settled, RefAfter
  <2>2. \A i \in Calls : calls'[i] = IF i = c THEN Ended(calls[c]) ELSE calls[i]
    BY <1>0, <2>1
  <2>3. ~calls'[c].waiting
    BY <1>0, <2>2, EndedTyped
  <2>4. \A i \in Calls \ {c} : calls'[i] = calls[i]
    BY <2>2
  <2>5. CASE abortRef = c
    BY <1>0, <2>1, <2>3, <2>4, <2>5 DEF Awaited
  <2>6. CASE abortRef # c
    BY <1>0, <2>1, <2>3, <2>4, <2>6 DEF Awaited
  <2> QED
    BY <2>5, <2>6
<1>9. CASE Reloads
  <2>1. /\ abortRef' = 0 /\ isRunning' = FALSE
        /\ calls' = [i \in Calls |-> IF calls[i].waiting THEN Ended(calls[i]) ELSE calls[i]]
    BY <1>9 DEF Reloads
  <2>2. \A i \in Calls : calls'[i] = IF calls[i].waiting THEN Ended(calls[i]) ELSE calls[i]
    BY <2>1
  <2>3. \A i \in Calls : ~calls'[i].waiting
    BY <1>0, <2>2, EndedTyped
  <2> QED
    BY <1>0, <2>1, <2>3
<1>10. ASSUME NEW c \in Calls, Serves(c) \/ Receives(c)
       PROVE latest' = latest /\ abortRef' = abortRef /\ isRunning' = isRunning
  BY <1>10 DEF Serves, Receives
<1> QED
  BY <1>1, <1>3, <1>4, <1>5, <1>6, <1>7, <1>8, <1>9, <1>10 DEF RunStep

\* What session storage gives back is a mode.
LEMMA ReadModeTyped ==
  ASSUME NEW mode
  PROVE readMode(mode) \in AuthModes
BY DEF readMode, AuthModes

\* The mode stays a mode.
LEMMA ModesStay ==
  ASSUME Modes, ModeStep, storageWorks' = storageWorks
  PROVE Modes'
<1>1. CASE UNCHANGED <<authMode, storedMode>>
  BY <1>1 DEF Modes
<1>2. ASSUME NEW mode \in AuthModes, setMode(mode)
      PROVE Modes'
  BY <1>2 DEF Modes, setMode
<1>3. CASE /\ authMode' = IF storageWorks THEN readMode(storedMode) ELSE "bearer"
           /\ storedMode' = storedMode
  <2>1. authMode' \in AuthModes
    BY <1>3, ReadModeTyped DEF AuthModes
  <2> QED
    BY <1>3, <2>1 DEF Modes
<1> QED
  BY <1>1, <1>2, <1>3 DEF ModeStep

\* Writing to session storage stores texts.
LEMMA WrittenTyped ==
  ASSUME NEW kept \in [STORAGE_KEYS -> Text], NEW updates, Partial(updates, Variables), NEW works
  PROVE writeVaultValues(kept, updates, works) \in [STORAGE_KEYS -> Text]
<1>1. CASE works
  <2>1. writeVaultValues(kept, updates, works)
          = [k \in STORAGE_KEYS |-> IF k \in DOMAIN updates THEN updates[k] ELSE kept[k]]
    BY <1>1 DEF writeVaultValues
  <2>2. \A k \in STORAGE_KEYS : (IF k \in DOMAIN updates THEN updates[k] ELSE kept[k]) \in Text
    BY DEF Partial
  <2> QED
    BY <2>1, <2>2
<1>2. CASE ~works
  BY <1>2 DEF writeVaultValues
<1> QED
  BY <1>1, <1>2

\* The vault stays a vault, and so does its copy.
LEMMA VaultStays ==
  ASSUME Shape, VaultStep
  PROVE Vault'
<1>0. variables \in [Variables -> Text] /\ stored \in [STORAGE_KEYS -> Text] /\ Empty \in Text
  BY NoSecrets DEF Shape, Vault
<1>1. CASE UNCHANGED vault
  BY <1>0, <1>1 DEF Vault, vault
<1>2. ASSUME NEW updates, Partial(updates, Variables), setVariable(updates)
      PROVE Vault'
  <2>1. /\ variables' = Spread(updates, variables)
        /\ stored' = writeVaultValues(stored, updates, storageWorks)
    BY <1>2 DEF setVariable
  <2> QED
    BY <1>0, <1>2, <2>1, SpreadVault, WrittenTyped DEF Vault
<1>3. ASSUME NEW c \in Calls, Captures(c)
      PROVE Vault'
  <2>1. IsCall(calls[c]) /\ jar \in Jars
    BY DEF Shape, Runs, World
  <2> PICK updates : updates = captureResponseData(calls[c])
    OBVIOUS
  <2>2. Partial(updates, Variables)
    BY <2>1, CapturedTyped
  <2>3. setVariable(updates)
    BY <1>3 DEF Captures
  <2> QED
    BY <1>2, <2>2, <2>3
<1>4. CASE Clears
  <2>1. variables' \in [Variables -> Text]
    BY <1>0, <1>4 DEF Clears, EMPTY_VARIABLES
  <2>2. stored' \in [STORAGE_KEYS -> Text]
    BY <1>0, <1>4 DEF Clears, clearVaultStorage
  <2> QED
    BY <2>1, <2>2 DEF Vault
<1>5. CASE /\ variables' = IF storageWorks THEN readVault(stored, EMPTY_VARIABLES) ELSE EMPTY_VARIABLES
           /\ UNCHANGED <<stored, past>>
  <2>1. EMPTY_VARIABLES \in [Variables -> Text]
    BY <1>0 DEF EMPTY_VARIABLES
  <2>2. \A v \in Variables : (IF v \in STORAGE_KEYS THEN stored[v] ELSE EMPTY_VARIABLES[v]) \in Text
    BY <1>0, <2>1
  <2>3. readVault(stored, EMPTY_VARIABLES) \in [Variables -> Text]
    BY <2>2 DEF readVault
  <2> QED
    BY <1>0, <1>5, <2>1, <2>3 DEF Vault
<1> QED
  BY <1>1, <1>2, <1>3, <1>4, <1>5 DEF VaultStep, Enters0

\* The panel stays a panel of its entry.
LEMMA PanelStays ==
  ASSUME Shape, Vault', PanelStep
  PROVE IsPanel(panel')
<1>0. /\ IsPanel(panel) /\ variables \in [Variables -> Text] /\ variables' \in [Variables -> Text]
      /\ EMPTY_VARIABLES \in [Variables -> Text]
  BY NoSecrets DEF Shape, Shown, Vault, EMPTY_VARIABLES
<1>1. CASE UNCHANGED panel
  BY <1>0, <1>1
<1>2. ASSUME NEW id \in EndpointIds, Navigate(id, variables) \/ Navigate(id, variables')
      PROVE IsPanel(panel')
  <2> PICK now, next : now = variables /\ next = variables'
    OBVIOUS
  <2>1. panel' \in {panel, Mounted(id, now), Mounted(id, next)}
    BY <1>2 DEF Navigate
  <2> QED
    BY <1>0, <2>1, MountedPanel
<1>3. ASSUME NEW v \in DOMAIN panel.draft, panel' = [panel EXCEPT !.draft[v] = Empty]
      PROVE IsPanel(panel')
  <2>1. panel'.endpoint = panel.endpoint /\ panel'.draft = [panel.draft EXCEPT ![v] = Empty]
        /\ panel' \in [endpoint : EndpointIds, draft : {panel'.draft}]
    BY <1>0, <1>3 DEF IsPanel
  <2>2. panel'.draft \in [endpointById(panel.endpoint).templates -> Text]
    BY <1>0, <2>1, NoSecrets DEF IsPanel
  <2> QED
    BY <2>1, <2>2 DEF IsPanel
<1>4. CASE panel' = Mounted(panel.endpoint, EMPTY_VARIABLES)
  BY <1>0, <1>4, MountedPanel DEF IsPanel
<1> QED
  BY <1>1, <1>2, <1>3, <1>4 DEF PanelStep

\* The service's memory, the cookies and the history stay typed.
LEMMA WorldStays ==
  ASSUME Steady, [Next]_vars
  PROVE World'
<1>0. Shape /\ jar \in Jars /\ server \in ServerType /\ past \in PastType
  BY DEF Steady, Shape, World
<1>1. CASE UNCHANGED <<jar, server, past>>
  BY <1>0, <1>1 DEF World
<1>2. CASE clearVault
  <2>1. /\ past' = [past EXCEPT !.cleared = @ \union Secrets(variables)] /\ UNCHANGED <<jar, server>>
    BY <1>2 DEF clearVault
  <2>2. Secrets(variables) \subseteq Text
    BY <1>0 DEF Secrets, Shape, Vault
  <2>3. past' \in PastType
    BY <1>0, <2>1, <2>2 DEF PastType
  <2> QED
    BY <1>0, <2>1, <2>3 DEF World
<1>3. ASSUME NEW c \in Calls, Serve(c)
      PROVE World'
  BY <1>0, <1>3, AnswerSteps DEF ServeStep, World
<1>4. ASSUME NEW c \in Calls, Receive(c)
      PROVE World'
  BY <1>0, <1>4, ReceiveSteps DEF World
<1>5. CASE OtherTabLogin \/ AccessCookieExpires
  BY <1>0, <1>5, CookieSteps DEF World
<1>6. CASE UNCHANGED vars
  BY <1>1, <1>6 DEF vars
<1>7. CASE User
  BY <1>1, <1>2, <1>7 DEF User, OpenPanel, EditBody, Send, demoLogin, prepareSessions, useDemoApiKey,
     runSocial, EditField, setAuthMode, Reload
<1>8. ASSUME NEW c \in Calls, Settle(c)
      PROVE World'
  BY <1>1, <1>8, SettleSteps
<1> QED
  BY <1>3, <1>4, <1>5, <1>6, <1>7, <1>8 DEF Next

\* The displayed response is of a request, or none.
LEMMA ShownStays ==
  ASSUME Steady, [Next]_vars
  PROVE response' = response \/ response'.call = 0
          \/ \E c \in Calls : Deliver(c) /\ response'.call = c
<1>0. Shape
  BY DEF Steady
<1>1. CASE Send \/ demoLogin \/ prepareSessions \/ runSocial
  BY <1>1 DEF Send, demoLogin, prepareSessions, runSocial, Quiet
<1>2. CASE Reload
  BY <1>2 DEF Reload, NoResponse
<1>3. CASE OpenPanel \/ EditBody \/ useDemoApiKey \/ EditField \/ setAuthMode \/ clearVault
  BY <1>0, <1>3, EditSteps
<1>4. ASSUME NEW c \in Calls, Serve(c) \/ Receive(c) \/ Settle(c)
      PROVE response' = response \/ (Deliver(c) /\ response'.call = c)
  <2>1. CASE Serve(c)
    BY <1>0, <2>1, AnswerSteps DEF ServeStep
  <2>2. CASE Receive(c)
    BY <1>0, <2>2, ReceiveSteps
  <2>3. CASE Settle(c)
    BY <2>3, SettleSteps
  <2> QED
    BY <1>4, <2>1, <2>2, <2>3
<1>5. CASE OtherTabLogin \/ AccessCookieExpires
  BY <1>0, <1>5, CookieSteps
<1>6. CASE UNCHANGED vars
  BY <1>6 DEF vars
<1> QED
  BY <1>1, <1>2, <1>3, <1>4, <1>5, <1>6 DEF Next, User

\* The initial page is steady.
LEMMA SteadyInit == Init => Steady
<1> SUFFICES ASSUME Init
             PROVE Steady
  OBVIOUS
<1>1. Modes
  BY WorkbenchAssumption DEF Init, Modes, AuthModes
<1>2. Vault
  BY NoSecrets DEF Init, Vault, EMPTY_VARIABLES
<1>3. /\ latest = 0 /\ abortRef = 0 /\ isRunning = FALSE /\ calls = [c \in Calls |-> Unbegun]
      /\ ~Unbegun.waiting /\ Unbegun.wire = "unsent"
  BY DEF Init, Unbegun
<1>4. Runs
  <2>1. \A c \in Calls : calls[c] = Unbegun
    BY <1>3
  <2>2. calls = [c \in Calls |-> calls[c]]
    BY <1>3
  <2>3. 0 \in 0..MaxCalls
    BY Numbers
  <2> QED
    BY <1>3, <2>1, <2>2, <2>3, Blank DEF Runs
<1>5. SpinnerTracksRequest /\ RoomLeft
  BY <1>3, Numbers DEF SpinnerTracksRequest, RoomLeft, Calls
<1>6. World
  <2>1. jar \in Jars
    BY NoSecrets DEF Init, ClearedCookies, CookieNames, Jars
  <2>2. server \in ServerType
    BY WorkbenchAssumption, Numbers DEF Init, ServerType
  <2>3. past \in PastType
    BY DEF Init, PastType
  <2> QED
    BY <2>1, <2>2, <2>3 DEF World
<1>7. Shown
  <2>1. response.call = 0 /\ \E id \in PanelEndpoints : panel = Mounted(id, EMPTY_VARIABLES)
    BY DEF Init, NoResponse
  <2>2. EMPTY_VARIABLES \in [Variables -> Text] /\ PanelEndpoints \subseteq EndpointIds
    BY NoSecrets, WorkbenchAssumption DEF EMPTY_VARIABLES
  <2>3. IsPanel(panel)
    BY <2>1, <2>2, MountedPanel
  <2> QED
    BY <2>1, <2>3, Numbers DEF Shown
<1> QED
  BY <1>1, <1>2, <1>4, <1>5, <1>6, <1>7 DEF Steady, Shape

\* And every step keeps it so.
LEMMA SteadyStep == Steady /\ [Next]_vars => Steady'
<1> SUFFICES ASSUME Steady, [Next]_vars
             PROVE Steady'
  OBVIOUS
<1>0. Shape /\ AllSteps
  BY EveryStep DEF Steady
<1>1. Modes'
  BY <1>0, ModesStay DEF Shape, AllSteps
<1>2. Vault'
  BY <1>0, VaultStays DEF AllSteps
<1>3. Runs' /\ SpinnerTracksRequest' /\ RoomLeft'
  BY <1>0, RunsStay, SpinnerStays DEF AllSteps
<1>4. World'
  BY WorldStays
<1>5. Shown'
  <2>1. IsPanel(panel')
    BY <1>0, <1>2, PanelStays DEF AllSteps
  <2>2. response'.call \in 0..MaxCalls
    BY <1>0, ShownStays, Numbers DEF Shape, Shown, Calls
  <2> QED
    BY <2>1, <2>2 DEF Shown
<1> QED
  BY <1>1, <1>2, <1>3, <1>4, <1>5 DEF Steady, Shape

\* Whatever the user, the service and the browser do, the page is typed and steady.
THEOREM SteadyAlways == Spec => []Steady
<1> QED
  BY SteadyInit, SteadyStep, PTL DEF Spec

\* The page's variables have their types, whatever the catalog selection.
THEOREM PageTyped == Spec => []TypeOK
<1>1. Steady => TypeOK
  <2> SUFFICES ASSUME Steady
               PROVE TypeOK
    OBVIOUS
  <2>1. /\ authMode \in AuthModes /\ storedMode \in AuthModes \union {"none"}
        /\ DOMAIN variables = Variables /\ DOMAIN stored = STORAGE_KEYS
        /\ latest \in 0..MaxCalls /\ abortRef \in 0..MaxCalls
        /\ isRunning \in BOOLEAN /\ storageWorks \in BOOLEAN
    BY DEF Steady, Shape, Modes, Vault, Runs
  <2>2. \A c \in Calls :
          /\ calls[c].flow \in Flows /\ calls[c].endpoint \in EndpointIds
          /\ calls[c].mode \in AuthModes /\ calls[c].closure \in AuthModes
          /\ calls[c].wire \in Wires
          /\ calls[c].waiting \in BOOLEAN /\ calls[c].aborted \in BOOLEAN
    BY DEF Steady, Shape, Runs, IsCall
  <2>3. response.call \in 0..MaxCalls /\ panel.endpoint \in EndpointIds
    BY DEF Steady, Shape, Shown, IsPanel
  <2>4. DOMAIN jar = CookieNames
    BY DEF Steady, Shape, World, Jars, CookieNames
  <2>5. server.open \subseteq Sessions /\ past.inCookies \subseteq Sessions
    BY DEF Steady, Shape, World, ServerType, PastType
  <2> QED
    BY <2>1, <2>2, <2>3, <2>4, <2>5 DEF TypeOK, Wires
<1> QED
  BY <1>1, SteadyAlways, PTL

\* The spinner runs exactly while the one request that nothing aborted is awaited.
THEOREM SpinnerAlways == Spec => []SpinnerTracksRequest
<1>1. Steady => SpinnerTracksRequest
  BY DEF Steady
<1> QED
  BY <1>1, SteadyAlways, PTL

\* A reply that arrives after a later request was begun is never displayed.
THEOREM LatestAlwaysWins == Spec => LatestWins
<1>1. Steady /\ [Next]_vars => [response' # response => response'.call \in {0, latest}]_vars
  <2> SUFFICES ASSUME Steady, [Next]_vars, response' # response
               PROVE response'.call \in {0, latest}
    OBVIOUS
  <2>1. response'.call = 0 \/ \E c \in Calls : Deliver(c) /\ response'.call = c
    BY ShownStays
  <2>2. ASSUME NEW c \in Calls, Deliver(c)
        PROVE c = latest
    BY <2>2, PendingIsLatest DEF Deliver
  <2> QED
    BY <2>1, <2>2
<1> QED
  BY <1>1, SteadyAlways, PTL DEF Spec, LatestWins

(***************************************************************************)
(* The vault and its copy.                                                 *)
(***************************************************************************)
\* Storage that is denied holds nothing.
Mirrored == VaultMirrorsStorage /\ (~storageWorks => \A k \in STORAGE_KEYS : stored[k] = Empty)

\* Every step keeps the copy equal to the vault.
LEMMA MirrorStep ==
  ASSUME Shape, Mirrored, ModeStep, VaultStep, storageWorks' = storageWorks
  PROVE Mirrored'
<1>0. /\ variables \in [Variables -> Text] /\ stored \in [STORAGE_KEYS -> Text]
      /\ storageWorks \in BOOLEAN /\ STORAGE_KEYS \subseteq Variables
      /\ storageWorks => (\A k \in STORAGE_KEYS : stored[k] = variables[k])
      /\ storageWorks => readMode(storedMode) = authMode
      /\ ~storageWorks => \A k \in STORAGE_KEYS : stored[k] = Empty
  BY DEF Shape, Vault, Modes, Mirrored, VaultMirrorsStorage, STORAGE_KEYS
<1> SUFFICES /\ storageWorks => (\A k \in STORAGE_KEYS : stored'[k] = variables'[k])
             /\ storageWorks => readMode(storedMode') = authMode'
             /\ ~storageWorks => \A k \in STORAGE_KEYS : stored'[k] = Empty
  BY DEF Mirrored, VaultMirrorsStorage
<1>1. storageWorks => readMode(storedMode') = authMode'
  <2>1. CASE UNCHANGED <<authMode, storedMode>>
    BY <1>0, <2>1
  <2>2. ASSUME NEW mode \in AuthModes, setMode(mode), storageWorks
        PROVE readMode(storedMode') = authMode'
    BY <2>2 DEF setMode, readMode, AuthModes
  <2>3. CASE /\ authMode' = IF storageWorks THEN readMode(storedMode) ELSE "bearer"
             /\ storedMode' = storedMode
    BY <2>3
  <2> QED
    BY <2>1, <2>2, <2>3 DEF ModeStep
<1>2. ASSUME NEW updates, Partial(updates, Variables), setVariable(updates)
      PROVE /\ storageWorks => (\A k \in STORAGE_KEYS : stored'[k] = variables'[k])
            /\ ~storageWorks => \A k \in STORAGE_KEYS : stored'[k] = Empty
  <2>1. /\ variables' = Spread(updates, variables)
        /\ stored' = writeVaultValues(stored, updates, storageWorks)
    BY <1>2 DEF setVariable
  <2>2. CASE storageWorks
    <3>1. stored' = [k \in STORAGE_KEYS |-> IF k \in DOMAIN updates THEN updates[k] ELSE stored[k]]
      BY <2>1, <2>2 DEF writeVaultValues
    <3>2. ASSUME NEW k \in STORAGE_KEYS
          PROVE variables'[k] = IF k \in DOMAIN updates THEN updates[k] ELSE variables[k]
      BY <1>0, <2>1 DEF Spread
    <3> QED
      BY <1>0, <2>2, <3>1, <3>2
  <2>3. CASE ~storageWorks
    BY <1>0, <2>1, <2>3 DEF writeVaultValues
  <2> QED
    BY <2>2, <2>3
<1>3. CASE UNCHANGED vault
  BY <1>0, <1>1, <1>3 DEF vault
<1>4. ASSUME NEW c \in Calls, Captures(c)
      PROVE /\ storageWorks => (\A k \in STORAGE_KEYS : stored'[k] = variables'[k])
            /\ ~storageWorks => \A k \in STORAGE_KEYS : stored'[k] = Empty
  <2>1. IsCall(calls[c]) /\ jar \in Jars
    BY DEF Shape, Runs, World
  <2> PICK updates : updates = captureResponseData(calls[c])
    OBVIOUS
  <2>2. Partial(updates, Variables)
    BY <2>1, CapturedTyped
  <2>3. setVariable(updates)
    BY <1>4 DEF Captures
  <2> QED
    BY <1>2, <2>2, <2>3
<1>5. CASE Clears
  <2>1. variables' = EMPTY_VARIABLES /\ stored' = clearVaultStorage(stored, storageWorks)
    BY <1>5 DEF Clears
  <2> QED
    BY <1>0, <1>1, <2>1 DEF EMPTY_VARIABLES, clearVaultStorage
<1>6. CASE /\ variables' = IF storageWorks THEN readVault(stored, EMPTY_VARIABLES) ELSE EMPTY_VARIABLES
           /\ UNCHANGED <<stored, past>>
  BY <1>0, <1>1, <1>6 DEF readVault
<1> QED
  BY <1>1, <1>2, <1>3, <1>4, <1>5, <1>6 DEF VaultStep, Enters0

\* A reload restores the vault and the mode the page had, unless storage is denied.
THEOREM VaultMirrored == Spec => []Mirrored
<1>1. Init => Mirrored
  BY DEF Init, Mirrored, VaultMirrorsStorage, EMPTY_VARIABLES, readMode, STORAGE_KEYS
<1>2. Steady /\ Mirrored /\ [Next]_vars => Mirrored'
  BY EveryStep, MirrorStep DEF Steady, AllSteps
<1> QED
  BY <1>1, <1>2, SteadyAlways, PTL DEF Spec

\* So the property the runs check holds for every choice of the constants.
THEOREM VaultMirrorsAlways == Spec => []VaultMirrorsStorage
<1>1. Mirrored => VaultMirrorsStorage
  BY DEF Mirrored
<1> QED
  BY <1>1, VaultMirrored, PTL

\* While the panel's light is on, a mutation carries what the mode needs.
THEOREM ReadyAlwaysCarries == Spec => []ReadyCarriesCredential
<1>1. Steady => ReadyCarriesCredential
  <2> SUFFICES ASSUME Steady, ready
               PROVE LET h == buildHeaders(endpointById("auth-logout"), authMode, variables, jar)
                     IN (IF authMode = "cookie" THEN h.csrf ELSE h.authorization) # Empty
    BY DEF ReadyCarriesCredential
  <2> DEFINE e == endpointById("auth-logout")
             h == buildHeaders(e, authMode, variables, jar)
  <2>1. e.method = "POST" /\ e.auth = "auth"
    BY EntryPlain, NamedEntries DEF Plain
  <2>2. authMode \in AuthModes /\ variables \in [Variables -> Text] /\ jar \in Jars
    BY DEF Steady, Shape, Modes, Vault, World
  <2>3. isUnsafe(e.method)
    BY <2>1 DEF isUnsafe
  <2>4. CASE authMode = "cookie"
    <3>1. h.csrf = IF jar.csrf # Empty THEN jar.csrf ELSE variables["csrfToken"]
      BY <2>2, <2>3, <2>4, HeaderFacts
    <3>2. variables["csrfToken"] # Empty
      BY <2>4 DEF ready
    <3> QED
      BY <2>4, <3>1, <3>2
  <2>5. CASE authMode = "apiKey"
    <3>1. h.authorization = variables["apiKey"]
      BY <2>1, <2>5 DEF buildHeaders
    <3>2. variables["apiKey"] # Empty
      BY <2>5 DEF ready
    <3> QED
      BY <2>5, <3>1, <3>2
  <2>6. CASE authMode = "bearer"
    <3>1. h.authorization = variables["accessToken"]
      BY <2>1, <2>6 DEF buildHeaders
    <3>2. variables["accessToken"] # Empty
      BY <2>6 DEF ready
    <3> QED
      BY <2>6, <3>1, <3>2
  <2> QED
    BY <2>2, <2>4, <2>5, <2>6 DEF AuthModes
<1> QED
  BY <1>1, SteadyAlways, PTL

====
