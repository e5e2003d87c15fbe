---- MODULE MCParts ----
(***************************************************************************)
(* The parts that share no state, each explored by itself: a behaviour is  *)
(* one of the part it begins with.                                         *)
(***************************************************************************)
EXTENDS WorkbenchPanel, CatalogPage, ServiceBadges, Toasts, StaticBundle, LoadScenarios,
        Passkeys

VARIABLE part

partVars == <<panelVars, catalogVars, badgeVars, toastVars, bundleVars, loadVars,
              passkeyVars, part>>

SearchHits ==
  [q \in {"", "mfa", "zz"} |->
     CASE q = "" -> EndpointIds
       [] q = "mfa" -> {"auth-login-mfa", "mfa-enroll", "mfa-confirm", "mfa-disable", "mfa-recovery"}
       [] OTHER -> {}]

\* README.md:285 and catalog.test.ts:5: 43 operations and two health probes, each
\* under an id of its own; every entry names a route the service has, each once, and
\* is marked public, also on its card, exactly where the service asks for nobody.
ASSUME CatalogMatchesService ==
  /\ Cardinality(ENDPOINTS) = 45 /\ Cardinality(EndpointIds) = 45
  /\ Cardinality(Routes) = 45
  /\ countOpenApiOperations(OpenApiDocument) = 43
  /\ \A e \in ENDPOINTS : \E r \in Routes : r.method = e.method /\ r.path = e.path
  /\ \A r \in Routes : \E e \in ENDPOINTS : r.method = e.method /\ r.path = e.path
  /\ \A e \in ENDPOINTS : authLabel(e.auth) = "public" <=> "user" \notin RouteOf(e).demands

\* The buttons of the groups add up to the button of all of them.
ASSUME GroupCounts ==
  GroupCount("all") = GroupCount("operations") + GroupCount("authentication")
    + GroupCount("account") + GroupCount("sessions") + GroupCount("security") + GroupCount("admin")

\* The heading of a list without a search names its group and counts as its button does.
ASSUME HeadingCounts ==
  \A group \in GroupFilters, view \in Views :
    LET list == EndpointCatalog(Search(NoText, group, view))
    IN /\ list.count = GroupCount(group)
       /\ list.heading = "all_operations" <=> group = "all"

\* browser-effects.ts: what the browser encodes it decodes, in the letters a URL may
\* hold; every code has six digits.
ByteStrings == UNION {[1..n -> {0, 62, 127, 251, 255}] : n \in 0..4}
ASSUME Base64UrlRoundTrip ==
  \A b \in ByteStrings :
    LET text == bytesToBase64Url(b)
    IN /\ base64UrlToBytes(text) = b
       /\ \A i \in DOMAIN text : text[i] \notin {Plus, Slash, Equals}
\* "MY" and its padding is the letter f, also without its padding or with a space in it, but not
\* with a space after the padding.
ASSUME Base32Examples ==
  /\ \A text \in {<<12, 24>>, <<12, Space32, 24>>, <<12, 24, Padding32, Padding32>>} :
       decodeBase32(text) = <<102>>
  /\ decodeBase32(<<12, 24, Padding32, Space32>>) = Thrown
  /\ decodeBase32(<<12, Other32>>) = Thrown
ASSUME TotpArithmetic ==
  /\ CounterBytes(59) = <<0, 0, 0, 0, 0, 0, 0, 1>>
  /\ CounterBytes(2000000000) = <<0, 0, 0, 0, 3, 249, 64, 170>>
  /\ \A last \in {0, 15, 255}, byte \in {0, 127, 128, 255} :
       CodeOfDigest([i \in 1..20 |-> IF i = 20 THEN last ELSE byte]) \in 0..999999

\* The page of an endpoint under one enrolled secret at a time, the same one again
\* after the vault was cleared; and with no page open the live codes of several.
Panel ==
  \/ part = "panel" /\ PanelNext /\ vaultNow'["totpSecret"] \in {Empty, Secret(1)}
  \/ part = "codes" /\ PanelNext /\ open' = Index

\* Two of the four pairs of mode and authenticator: counting keys under cookies, others
\* without; each branch on either switch is taken in one of them.
Init ==
  /\ PanelInit /\ CatalogPageInit /\ ServiceBadgesInit
  /\ ToastsInit /\ BundleInit /\ LoadInit /\ PasskeysInit
  /\ part \in {"panel", "codes", "catalog", "badges", "toasts", "bundle", "load", "passkeys"}
  /\ part # "catalog" => locale = "en"
  /\ part # "badges" => \A o \in Origins : up[o] = {}
  /\ part # "bundle" => target = NoTree
  /\ part # "passkeys" => ~byCookie /\ signedIn = 1
  /\ byCookie = counts

Next ==
  /\ UNCHANGED part
  /\ \/ /\ Panel
        /\ UNCHANGED <<catalogVars, badgeVars, toastVars, bundleVars, loadVars, passkeyVars>>
     \/ /\ part = "catalog" /\ CatalogPageNext
        /\ UNCHANGED <<panelVars, badgeVars, toastVars, bundleVars, loadVars, passkeyVars>>
     \/ /\ part = "badges" /\ ServiceBadgesNext
        /\ UNCHANGED <<panelVars, catalogVars, toastVars, bundleVars, loadVars, passkeyVars>>
     \/ /\ part = "toasts" /\ ToastsNext
        /\ UNCHANGED <<panelVars, catalogVars, badgeVars, bundleVars, loadVars, passkeyVars>>
     \/ /\ part = "bundle" /\ BundleNext
        /\ UNCHANGED <<panelVars, catalogVars, badgeVars, toastVars, loadVars, passkeyVars>>
     \/ /\ part = "load" /\ LoadNext
        /\ UNCHANGED <<panelVars, catalogVars, badgeVars, toastVars, bundleVars, passkeyVars>>
     \/ /\ part = "passkeys" /\ PasskeysNext
        /\ UNCHANGED <<panelVars, catalogVars, badgeVars, toastVars, bundleVars, loadVars>>

Spec == Init /\ [][Next]_partVars
====
