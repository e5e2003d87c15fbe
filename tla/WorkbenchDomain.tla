---- MODULE WorkbenchDomain ----
(***************************************************************************)
(* The pure functions of domain.ts: templates, drafts, paths, headers and  *)
(* the vault's storage.  A secret is a record: the variable it belongs to, *)
(* the session it speaks for and the call that obtained it; `by = 0` marks *)
(* the texts that are no secret: the empty string, an unresolved template  *)
(* and what the user typed.                                                *)
(***************************************************************************)
EXTENDS WorkbenchCatalog

Value(kind, session, by) == [kind |-> kind, session |-> session, by |-> by]
Empty == Value("empty", 0, 0)
Typed == Value("typed", 0, 0)
DemoKey == Value("demo", 0, 0)

\* The text "{{v}}" an entry of the catalog carries for variable v.
Placeholder(v) == Value(v, 0, 0)
IsPlaceholder(x) == x.by = 0 /\ x.kind \in Variables

EMPTY_VARIABLES == [v \in Variables |-> Empty]

\* The spread `{ ...base, ...updates }`: what updates names replaces what base holds.
Spread(updates, base) ==
  [k \in DOMAIN updates \union DOMAIN base |->
     IF k \in DOMAIN updates THEN updates[k] ELSE base[k]]

\* The variables kept in session storage; the mode has a key of its own.
STORAGE_KEYS == Variables \ {"totpCode", "verificationToken", "passwordResetToken"}

SESSION_ISSUING_ENDPOINTS ==
  {"auth-login", "auth-login-mfa", "social-callback", "passkey-auth-complete"}

\* A template whose variable is empty stays in the text.
resolveTemplateString(x, variables) ==
  IF IsPlaceholder(x) /\ variables[x.kind] # Empty THEN variables[x.kind] ELSE x

materialize(body, variables) ==
  [field \in DOMAIN body |-> resolveTemplateString(body[field], variables)]

\* What the request panel holds when it is mounted: every template resolved.
createDraft(e, variables) ==
  materialize([v \in e.templates |-> Placeholder(v)], variables)

QueryTemplates(e) == IF e.body THEN {} ELSE e.templates \ e.pathParams

\* Values are resolved again when the path is built; query parameters that are
\* empty or still a template are left out, path parameters never are.
buildPath(e, draft, variables) ==
  LET values == materialize(draft, variables)
      given == {v \in QueryTemplates(e) : values[v] # Empty /\ ~IsPlaceholder(values[v])}
  IN [route |-> e.path,
      path  |-> [v \in e.templates \cap e.pathParams |-> values[v]],
      query |-> [v \in given |-> values[v]]]

buildPathFromDefinition(e, variables) == buildPath(e, createDraft(e, variables), variables)

\* The body sent: no body at all, text that is not JSON, or the parsed text with
\* the templates it still has resolved.
NoBody == "undefined"
InvalidJson == "InvalidJsonError"
parseRequestBody(e, valid, fields, variables) ==
  IF ~e.body THEN [status |-> NoBody, fields |-> << >>]
  ELSE IF ~valid THEN [status |-> InvalidJson, fields |-> << >>]
  ELSE [status |-> "parsed", fields |-> materialize(fields, variables)]

isUnsafe(method) == method \notin {"GET", "HEAD", "OPTIONS", "TRACE"}

\* The readable cookie of the jar; the tokens are HttpOnly.
readCookie(jar) == jar.csrf

FirstGiven(x, y) == IF x # Empty THEN x ELSE y

\* Variant: the vault's copy of the CSRF token is preferred to the cookie.
buildHeadersVaultFirst(e, authMode, variables, jar) ==
  [contentType   |-> e.body,
   scheme        |-> IF authMode = "apiKey" THEN "ApiKey" ELSE "Bearer",
   authorization |-> IF e.auth # "public" /\ authMode = "bearer" THEN variables["accessToken"] ELSE Empty,
   csrf          |-> IF authMode = "cookie" /\ isUnsafe(e.method)
                     THEN FirstGiven(variables["csrfToken"], readCookie(jar)) ELSE Empty,
   transport     |-> authMode = "cookie" /\ e.id \in SESSION_ISSUING_ENDPOINTS]

\* Variant: the vault's copy of the CSRF token is not looked at.
buildHeadersCookieOnly(e, authMode, variables, jar) ==
  [contentType   |-> e.body,
   scheme        |-> IF authMode = "apiKey" THEN "ApiKey" ELSE "Bearer",
   authorization |-> IF e.auth = "public" THEN Empty
                     ELSE CASE authMode = "bearer" -> variables["accessToken"]
                            [] authMode = "apiKey" -> variables["apiKey"]
                            [] OTHER -> Empty,
   csrf          |-> IF authMode = "cookie" /\ isUnsafe(e.method) THEN readCookie(jar) ELSE Empty,
   transport     |-> authMode = "cookie" /\ e.id \in SESSION_ISSUING_ENDPOINTS]

buildHeaders(e, authMode, variables, jar) ==
  [contentType   |-> e.body,
   scheme        |-> IF authMode = "apiKey" THEN "ApiKey" ELSE "Bearer",
   authorization |-> IF e.auth = "public" THEN Empty
                     ELSE CASE authMode = "bearer" -> variables["accessToken"]
                            [] authMode = "apiKey" -> variables["apiKey"]
                            [] OTHER -> Empty,
   csrf          |-> IF authMode = "cookie" /\ isUnsafe(e.method)
                     THEN FirstGiven(readCookie(jar), variables["csrfToken"]) ELSE Empty,
   transport     |-> authMode = "cookie" /\ e.id \in SESSION_ISSUING_ENDPOINTS]

\* What fetch puts on the wire: the cookies only in cookie mode.
NoCookies == [access |-> Empty, refresh |-> Empty, csrf |-> Empty]
requestEndpoint(e, authMode, path, headers, body, jar) ==
  [endpoint |-> e.id, method |-> e.method, path |-> path, headers |-> headers,
   body |-> body, cookies |-> IF authMode = "cookie" THEN jar ELSE NoCookies]

\* The command names method, path, headers and body; it cannot name the cookies.
createCurl(e, path, headers, body) ==
  [method |-> e.method, path |-> path, headers |-> headers, body |-> body]

\* Writing a value removes the key when the value is empty.  Where session
\* storage is denied every access fails, and the failure is swallowed.
writeVaultValues(stored, updates, works) ==
  IF works THEN [k \in STORAGE_KEYS |-> IF k \in DOMAIN updates THEN updates[k] ELSE stored[k]]
  ELSE stored

\* Variant: the items are removed under the variables' names, which are no keys.
clearVaultStorageByName(stored, works) == stored

clearVaultStorage(stored, works) ==
  IF works THEN [k \in STORAGE_KEYS |-> Empty] ELSE stored

\* Variant: whatever is stored is taken for a mode.
readModeUnchecked(storedMode) == storedMode

\* Only the two other modes are recognised; anything else is bearer.
readMode(storedMode) == IF storedMode \in {"cookie", "apiKey"} THEN storedMode ELSE "bearer"

\* Loading lays the stored values over the current ones.
readVault(stored, variables) ==
  [v \in Variables |-> IF v \in STORAGE_KEYS THEN stored[v] ELSE variables[v]]
====
