---- MODULE WorkbenchPanel ----
(***************************************************************************)
(* The endpoint panel: endpoint-detail.tsx with the request, response and  *)
(* guided-action panels it renders, over what the provider gives it (mode, *)
(* vault, spinner, response).  Controls lists what the panel offers in a   *)
(* state, as the components' conditions and `disabled` attributes have it; *)
(* the keyboard reaches the handlers without them.                         *)
(*                                                                         *)
(* Every handler runs in the closure of the last render.  The panel is     *)
(* remounted for each entry (key={endpoint.id}); requestHeaders is         *)
(* memoised on the mode, the entry and the vault.                          *)
(***************************************************************************)
EXTENDS WorkbenchDomain, FiniteSets

CONSTANTS
  PanelIds,      \* the entries the user opens
  MaxRequests,   \* bound: requests begun
  MaxSecrets     \* bound: TOTP secrets enrolled

ASSUME PanelAssumption ==
  /\ PanelIds \subseteq EndpointIds
  /\ MaxRequests \in Nat \ {0} /\ MaxSecrets \in Nat

VARIABLES
  open,                  \* the mounted entry, or Index
  draft, override,       \* the parameters and the body; the path typed over them
  confirming,            \* the destructive entry asks for a second press
  tabChoice,             \* the tab chosen and the response seen by then
  requestHeaders,        \* the memoised headers
  panelMode, vaultNow,   \* the provider's mode and vault
  csrfCookie,            \* the readable cookie
  running,               \* the entry of the request awaited, or Index
  begun, shownResponse,  \* requests begun; the displayed response
  effectSecret,          \* the secret whose TOTP effect runs, or Empty
  computing,             \* TOTP computations: their secret, their effect alive or not
  copied, said,          \* what the last step copied, and the toast it pushed
  crashed,               \* a render threw: the route shows its error component
  granted                \* history: a confirmation was shown since the last request

screen == <<draft, override, confirming, tabChoice>>
provider == <<panelMode, vaultNow, csrfCookie, running, begun, shownResponse,
              effectSecret, computing>>
panelVars == <<open, screen, requestHeaders, provider, crashed, granted, copied, said>>

Index == "/"
Silent == "none"
Nothing == [response |-> 0]
NoResult == [endpoint |-> Index, n |-> 0]
E == endpointById(open)
result == IF shownResponse.endpoint = open THEN shownResponse ELSE NoResult

\* The bodies told apart: an object (with the value of its code field), JSON that
\* is no object, and text that is no JSON.
Body(json, code) == [json |-> json, code |-> code]
FilledBody(e, values) ==
  Body("object", createDraft(e, values)["totpCode"])
DraftOf(e, values) ==
  [params |-> [p \in e.pathParams |->
                 IF p \in e.templates THEN createDraft(e, values)[p] ELSE Typed],
   body |-> IF e.body /\ "totpCode" \in e.templates THEN FilledBody(e, values)
            ELSE Body("object", Empty)]

\* What typing may leave in a parameter and in the body.
Typings == {Typed, Empty}
Bodies == {Body("object", Typed), Body("scalar", Empty), Body("broken", Empty)}

requestPath ==
  IF override # Empty THEN [route |-> "typed", values |-> {}]
  ELSE [route |-> E.path,
        values |-> {<<p, resolveTemplateString(draft.params[p], vaultNow)>> : p \in E.pathParams}]

Headers(id, mode, values, cookie) ==
  buildHeaders(endpointById(id), mode, values, [csrf |-> cookie])

parseBody ==
  parseRequestBody(E, draft.body.json # "broken", [code |-> draft.body.code], vaultNow)

\* Variant: any response of this entry counts as seen once a tab was chosen.
activeTabByEntry ==
  IF result # NoResult /\ tabChoice.acknowledged.endpoint # open THEN "response" ELSE tabChoice.tab

\* A response not seen yet takes the reader to its tab.
activeTab ==
  IF result # NoResult /\ tabChoice.acknowledged # result THEN "response" ELSE tabChoice.tab

(***************************************************************************)
(* What the components offer.                                              *)
(***************************************************************************)
\* The guided action of the entry, if any.
GuidedAction ==
  IF E.special = "totp" \/ (open = "auth-login-mfa" /\ vaultNow["totpSecret"] # Empty)
  THEN {"fill_totp"} ELSE IF E.special # NoSpecial THEN {E.special} ELSE {}

\* Send rests while a request runs or a confirmation is asked.
RequestPanel ==
  UNION {GuidedAction, {"path", "copy_curl"},
    IF E.pathParams # {} THEN {"parameters"} ELSE {},
    IF E.body THEN {"body", "format_json"} ELSE {},
    IF E.destructive /\ confirming THEN {"cancel"} ELSE {},
    IF E.destructive /\ confirming /\ running = Index THEN {"confirm_operation"} ELSE {},
    IF running = Index /\ ~confirming THEN {"send_request"} ELSE {}}

ResponsePanel == IF result # NoResult THEN {"copy_response"} ELSE {}

Controls ==
  IF crashed \/ open = Index THEN {}
  ELSE {"back", "tab"} \union (IF activeTab = "request" THEN RequestPanel ELSE ResponsePanel)

(***************************************************************************)
(* Rendering and mounting.                                                 *)
(***************************************************************************)
NoHeaders == Headers("health-live", "bearer", EMPTY_VARIABLES, Empty)

\* Variant: the memo forgets the vault among its dependencies.
MemoisedOnMode ==
  requestHeaders' =
    IF open' = Index THEN NoHeaders
    ELSE IF <<open', panelMode'>> = <<open, panelMode>> THEN requestHeaders
    ELSE Headers(open', panelMode', vaultNow', csrfCookie')

\* The headers are built again when the mode, the entry or the vault changed; a new
\* cookie alone changes nothing.
Memoised ==
  requestHeaders' =
    IF open' = Index THEN NoHeaders
    ELSE IF <<open', panelMode', vaultNow'>> = <<open, panelMode, vaultNow>> THEN requestHeaders
    ELSE Headers(open', panelMode', vaultNow', csrfCookie')

NoDraft == [params |-> << >>, body |-> Body("object", Empty)]
Mount(id) ==
  /\ open' = id
  /\ draft' = IF id = Index THEN NoDraft ELSE DraftOf(endpointById(id), vaultNow)
  /\ override' = Empty
  /\ confirming' = FALSE
  /\ tabChoice' = [tab |-> "request", acknowledged |-> NoResult]
  /\ crashed' = FALSE
  /\ granted' = FALSE

\* A link of the catalog, or the browser's history, which a crashed route has too.
OpenEntry ==
  \E id \in PanelIds \ {open} :
    /\ Mount(id)
    /\ UNCHANGED provider

\* The back button, or Escape.
onBack ==
  /\ Controls # {}
  /\ Mount(Index)
  /\ UNCHANGED provider

chooseTab ==
  \E tab \in {"request", "response"} :
    /\ "tab" \in Controls
    /\ tabChoice' = [tab |-> tab, acknowledged |-> result]
    /\ UNCHANGED <<open, draft, override, confirming, provider, crashed, granted>>

(***************************************************************************)
(* Editing.                                                                *)
(***************************************************************************)
setPathValue ==
  \E p \in E.pathParams : \E x \in Typings :
    /\ "parameters" \in Controls
    /\ override' = Empty
    /\ draft' = [draft EXCEPT !.params[p] = x]
    /\ UNCHANGED <<open, confirming, tabChoice, provider, crashed, granted>>

onPathOverride ==
  /\ "path" \in Controls
  /\ override' = Typed
  /\ UNCHANGED <<open, draft, confirming, tabChoice, provider, crashed, granted>>

onBodyChange ==
  \E body \in Bodies :
    /\ "body" \in Controls
    /\ draft' = [draft EXCEPT !.body = body]
    /\ UNCHANGED <<open, override, confirming, tabChoice, provider, crashed, granted>>

\* JSON.parse runs inside the updater of setDraft, which React calls while it
\* renders: the try around setDraft never sees it throw.
formatJson ==
  /\ "format_json" \in Controls
  /\ crashed' = (draft.body.json = "broken")
  /\ UNCHANGED <<open, screen, provider, granted>>

\* Assigning to a field of what is no object throws as well.
fillTotp ==
  /\ "fill_totp" \in Controls
  /\ IF vaultNow["totpCode"] = Empty
     THEN said' = "totp_missing" /\ UNCHANGED draft
     ELSE IF draft.body.json # "object"
     THEN said' = "invalid_json" /\ UNCHANGED draft
     ELSE /\ draft' = [draft EXCEPT !.body.code = vaultNow["totpCode"]]
          /\ said' = "totp_filled"
  /\ UNCHANGED <<open, override, confirming, tabChoice, provider, crashed, granted>>

(***************************************************************************)
(* Sending and copying.                                                    *)
(***************************************************************************)
\* readBody: the toast is pushed where the text is no JSON.
BodyReadable == parseBody.status # InvalidJson

\* Variant: the confirmation stays on screen while the request runs.
executeKeepsAsking ==
  /\ UNCHANGED confirming
  /\ IF ~BodyReadable
     THEN said' = "invalid_json" /\ UNCHANGED <<running, begun, granted>>
     ELSE /\ begun < MaxRequests
          /\ begun' = begun + 1
          /\ running' = open
          /\ granted' = FALSE
          /\ said' = Silent

execute ==
  /\ confirming' = FALSE
  /\ IF ~BodyReadable
     THEN said' = "invalid_json" /\ UNCHANGED <<running, begun, granted>>
     ELSE /\ begun < MaxRequests
          /\ begun' = begun + 1
          /\ running' = open
          /\ granted' = FALSE
          /\ said' = Silent

\* The first press of a destructive entry only asks.
attemptSend ==
  /\ IF E.destructive /\ ~confirming
     THEN /\ confirming' = TRUE
          /\ granted' = TRUE
          /\ said' = Silent /\ UNCHANGED <<running, begun>>
     ELSE execute
  /\ UNCHANGED <<open, draft, override, tabChoice, panelMode, vaultNow, csrfCookie,
                 shownResponse, effectSecret, computing, crashed>>

onSend == "send_request" \in Controls /\ attemptSend

\* Ctrl+Enter or Cmd+Enter: on either tab, running or not.
handleKeyDown == Controls # {} /\ attemptSend

onExecute ==
  /\ "confirm_operation" \in Controls
  /\ execute
  /\ UNCHANGED <<open, draft, override, tabChoice, panelMode, vaultNow, csrfCookie,
                 shownResponse, effectSecret, computing, crashed>>

onCancelConfirmation ==
  /\ "cancel" \in Controls
  /\ confirming' = FALSE
  /\ granted' = FALSE
  /\ UNCHANGED <<open, draft, override, tabChoice, provider, crashed>>

\* runCopy: the clipboard may refuse.
runCopy(value) ==
  \/ copied' = value /\ said' = "copied"
  \/ copied' = Nothing /\ said' = "clipboard_denied"

copyCurl ==
  /\ "copy_curl" \in Controls
  /\ IF BodyReadable THEN runCopy(createCurl(E, requestPath, requestHeaders, parseBody))
     ELSE said' = "invalid_json" /\ copied' = Nothing
  /\ UNCHANGED <<open, screen, provider, crashed, granted>>

copyResponse ==
  /\ "copy_response" \in Controls
  /\ runCopy([response |-> result.n])
  /\ UNCHANGED <<open, screen, provider, crashed, granted>>

(***************************************************************************)
(* The provider.                                                           *)
(***************************************************************************)
\* A displayed response, or the end of the request without one.
Answered ==
  /\ running # Index
  /\ \/ shownResponse' = [endpoint |-> running, n |-> begun]
     \/ UNCHANGED shownResponse
  /\ running' = Index
  /\ UNCHANGED <<open, screen, panelMode, vaultNow, csrfCookie, begun, effectSecret, computing,
                 crashed, granted>>

Provided == UNCHANGED <<open, screen, running, begun, shownResponse, crashed, granted>>

SelectMode ==
  /\ \E mode \in AuthModes \ {panelMode} : panelMode' = mode
  /\ UNCHANGED <<vaultNow, csrfCookie, effectSecret, computing>>
  /\ Provided

\* A login by bearer: its access token is captured.
CaptureLogin ==
  /\ panelMode = "bearer"
  /\ vaultNow' = [vaultNow EXCEPT !["accessToken"] = Value("accessToken", 1, 1)]
  /\ UNCHANGED <<panelMode, csrfCookie, effectSecret, computing>>
  /\ Provided

\* A login by cookie in another tab, which nothing tells this page of.
OtherTabCookie ==
  /\ csrfCookie' = Value("csrfToken", 2, 2)
  /\ UNCHANGED <<panelMode, vaultNow, effectSecret, computing>>
  /\ Provided

(***************************************************************************)
(* The live TOTP code.  The effect depends on the secret, and React runs   *)
(* it some time after the commit that changed the secret: until then the   *)
(* interval of the old one goes on.                                        *)
(***************************************************************************)
Secret(n) == Value("totpSecret", n, n)
CodeOf(secret) == Value("totpCode", secret.session, secret.by)
Started(secret) ==
  IF secret = Empty THEN {} ELSE {[secret |-> secret, active |-> TRUE]}
Disowned == {[c EXCEPT !.active = FALSE] : c \in computing}

\* The cleanup of the running effect, then the effect of the secret given, which
\* computes at once.
TotpEffect(secret) ==
  /\ effectSecret' = secret
  /\ computing' = Disowned \union Started(secret)

\* Enrolling captures a secret.
CaptureSecret ==
  /\ \E n \in 1..MaxSecrets :
       /\ n = vaultNow["totpSecret"].session + 1
       /\ vaultNow' = [vaultNow EXCEPT !["totpSecret"] = Secret(n)]
  /\ UNCHANGED <<panelMode, csrfCookie, effectSecret, computing>>
  /\ Provided

EffectFollows ==
  /\ effectSecret # vaultNow["totpSecret"]
  /\ TotpEffect(vaultNow["totpSecret"])
  /\ UNCHANGED <<panelMode, vaultNow, csrfCookie>>
  /\ Provided

\* Each second.
updateTotp ==
  /\ effectSecret # Empty
  /\ computing' = computing \union Started(effectSecret)
  /\ UNCHANGED <<panelMode, vaultNow, csrfCookie, effectSecret>>
  /\ Provided

\* Variant: the result of a disowned computation is taken.
TotpComputedAnyway ==
  /\ \E c \in computing :
       /\ computing' = computing \ {c}
       /\ vaultNow' = [vaultNow EXCEPT !["totpCode"] = CodeOf(c.secret)]
  /\ UNCHANGED <<panelMode, csrfCookie, effectSecret>>
  /\ Provided

TotpComputed ==
  /\ \E c \in computing :
       /\ computing' = computing \ {c}
       /\ vaultNow' = IF c.active THEN [vaultNow EXCEPT !["totpCode"] = CodeOf(c.secret)]
                      ELSE vaultNow
  /\ UNCHANGED <<panelMode, csrfCookie, effectSecret>>
  /\ Provided

\* After a click React does not wait: the commit and its effects belong to the event.
EmptyVault ==
  /\ vaultNow' = EMPTY_VARIABLES
  /\ TotpEffect(Empty)
  /\ UNCHANGED <<panelMode, csrfCookie>>
  /\ Provided

(***************************************************************************)
(* The specification.                                                      *)
(***************************************************************************)
PanelInit ==
  /\ open = Index /\ draft = NoDraft /\ override = Empty /\ confirming = FALSE
  /\ tabChoice = [tab |-> "request", acknowledged |-> NoResult]
  /\ requestHeaders = NoHeaders
  /\ panelMode = "bearer" /\ vaultNow = EMPTY_VARIABLES /\ csrfCookie = Empty
  /\ running = Index /\ begun = 0 /\ shownResponse = NoResult
  /\ effectSecret = Empty /\ computing = {}
  /\ copied = Nothing /\ said = Silent /\ crashed = FALSE
  /\ granted = FALSE

Edit == open # Index /\
  (chooseTab \/ setPathValue \/ onPathOverride \/ onBodyChange \/ formatJson \/ onCancelConfirmation)
Submit == onSend \/ handleKeyDown \/ onExecute

PanelNext ==
  /\ \/ /\ \/ OpenEntry \/ onBack \/ Edit
           \/ Answered \/ SelectMode \/ CaptureLogin \/ OtherTabCookie
           \/ CaptureSecret \/ EffectFollows \/ updateTotp \/ TotpComputed \/ EmptyVault
        /\ copied' = Nothing /\ said' = Silent
     \/ (fillTotp \/ Submit) /\ copied' = Nothing
     \/ copyCurl \/ copyResponse
  /\ Memoised

PanelSpec == PanelInit /\ [][PanelNext]_panelVars

(***************************************************************************)
(* Properties.                                                             *)
(***************************************************************************)
\* destructive_description, "Review the request before continuing": every request
\* of a destructive entry uses up a confirmation of its own; a double press, the
\* keyboard, a remount or a failed parse never makes one confirmation serve twice.
ConfirmedOnceEach ==
  [][(begun' # begun /\ endpointById(running').destructive) => granted /\ running' = open]_panelVars

\* A response of the open entry is never overlooked: whatever tab was chosen, and
\* whatever response was seen before, a new one takes the reader to it.
ResponseTakesTheTab ==
  [][(shownResponse' # shownResponse /\ shownResponse'.endpoint = open) =>
       (activeTab = "response")']_panelVars

\* README.md:294 and domain.test.ts:70, "creates a reproducible cURL command": what
\* is copied is the request that sending would make, memoised headers included.  In
\* cookie mode it is not: the cookies are not named and the header may be stale.
CurlIsTheRequest ==
  [][(said' = "copied" /\ activeTab = "request" /\ panelMode # "cookie") =>
       copied' = createCurl(E, requestPath,
                      Headers(open, panelMode, vaultNow, csrfCookie), parseBody)]_panelVars

\* README.md:291, live codes after enrollment: a code written is one of the secret in
\* the vault, or of the one it replaced as long as the effect has not followed; a
\* computation that outlives its effect writes nothing, and a cleared vault stays
\* without a code.
LiveCodeFollowsSecret ==
  [][/\ vaultNow'["totpCode"] # vaultNow["totpCode"] =>
          \/ vaultNow'["totpCode"] \in {Empty, CodeOf(vaultNow'["totpSecret"])}
          \/ /\ effectSecret # vaultNow["totpSecret"]
             /\ vaultNow'["totpCode"] = CodeOf(effectSecret)
     /\ vaultNow'["totpSecret"] = Empty => vaultNow'["totpCode"] = Empty]_panelVars

\* endpoint-detail.tsx:147-150 and messages/en.json:112-113, "The JSON body is
\* invalid", "Fix the syntax and try again": formatting a body that is no JSON
\* leaves the panel in place.
PanelSurvivesInvalidJson == ~crashed
====
