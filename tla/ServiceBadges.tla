---- MODULE ServiceBadges ----
(***************************************************************************)
(* The API origin and the three service badges: setApiBase, checkServices  *)
(* and its effects (workbench-context.tsx), probeService (domain.ts), the  *)
(* header's field and the badges of identity-panel.tsx.  Nothing cancels a *)
(* probe when the origin is edited, and badges do not say whose answer     *)
(* they show.                                                              *)
(***************************************************************************)
EXTENDS WorkbenchCatalog, FiniteSets

CONSTANTS
  Origins,      \* the origins the user types
  PageOrigin,   \* window.location.origin
  MaxChecks     \* bound: rounds of probes

NoOrigin == ""
ASSUME ServiceAssumption ==
  /\ PageOrigin \in Origins /\ NoOrigin \notin Origins
  /\ MaxChecks \in Nat \ {0}

VARIABLES
  apiBase, services,   \* the origin and the badges
  probes, checks,      \* probes in flight, rounds begun
  up,                  \* what each origin serves
  overtaken            \* history: the origin changed while probes were in flight

badgeVars == <<apiBase, services, probes, checks, up, overtaken>>

Services == {"live", "ready", "openapi"}

\* The document of the service lists, for each path, its operations.
OpenApiDocument ==
  [p \in {r.path : r \in Routes \ HealthRoutes} |->
     {r.method : r \in {q \in Routes : q.path = p}} \union {"parameters"}]

\* Keys of a path that are no methods are not counted; no document counts nothing.
countOpenApiOperations(document) ==
  Cardinality({operation \in (DOMAIN document) \X HttpMethods :
                 operation[2] \in document[operation[1]]})

Status(state, count) == [state |-> state, operationCount |-> count]
NoCount == 1000
\* The mark of no count is no count of the document; TLC evaluates this.
ASSUME DocumentIsCounted == countOpenApiOperations(OpenApiDocument) # NoCount

INITIAL_SERVICES == [n \in Services |-> Status("checking", NoCount)]

\* An error status, no answer, and a document that is no JSON all fail.
probeService(p) ==
  IF p.name \notin up[p.base] THEN Status("unhealthy", NoCount)
  ELSE Status("healthy", IF p.name = "openapi" THEN countOpenApiOperations(OpenApiDocument) ELSE NoCount)

\* What a badge says.
serviceLabel(status) ==
  CASE status.state = "checking" -> "checking"
    [] status.state = "unhealthy" -> "unreachable"
    [] OTHER -> IF status.operationCount = NoCount THEN "healthy" ELSE "operations_ready"

\* The header: the field, and the link to the document of the origin in it.
AppHeader == [field |-> apiBase, document |-> apiBase]

\* Each badge of the panel with what its button opens: two entries of the catalogue,
\* and the same document as the header's link.
ServicesSection ==
  [n \in Services |->
     [says |-> serviceLabel(services[n]),
      opens |-> IF n = "openapi" THEN AppHeader.document
                ELSE [live |-> "health-live", ready |-> "health-ready"][n]]]

Round(base, r) == {[name |-> n, base |-> base, round |-> r] : n \in Services}

\* The effect of a changed origin: the badges are reset and three probes go out.
checkServices(base) ==
  IF base = NoOrigin THEN UNCHANGED <<services, probes, checks>>
  ELSE /\ checks < MaxChecks
       /\ checks' = checks + 1
       /\ services' = INITIAL_SERVICES
       /\ probes' = probes \union Round(base, checks + 1)

\* Trailing slashes are stripped as they are typed, so typing one changes nothing.
Texts == [base : Origins \union {NoOrigin}, slash : BOOLEAN]
setApiBase ==
  \E text \in Texts :
    /\ apiBase' = text.base
    /\ IF apiBase' = apiBase THEN UNCHANGED <<services, probes, checks, overtaken>>
       ELSE checkServices(apiBase') /\ overtaken' = (overtaken \/ probes # {})
    /\ UNCHANGED up

\* Variant: the badge is written over the initial badges.
BadgeOverInitial(p) == [INITIAL_SERVICES EXCEPT ![p.name] = probeService(p)]

Badge(p) == [services EXCEPT ![p.name] = probeService(p)]

ProbeAnswered ==
  \E p \in probes :
    /\ services' = Badge(p)
    /\ probes' = probes \ {p}
    /\ UNCHANGED <<apiBase, checks, up, overtaken>>

\* A page is loaded: the origin typed is forgotten, probes of the old page are lost.
LoadPage ==
  /\ checks < MaxChecks
  /\ checks' = checks + 1
  /\ apiBase' = PageOrigin
  /\ services' = INITIAL_SERVICES
  /\ probes' = Round(PageOrigin, checks + 1)
  /\ overtaken' = FALSE
  /\ UNCHANGED up

ServiceBadgesInit ==
  /\ apiBase = PageOrigin /\ services = INITIAL_SERVICES
  /\ checks = 1 /\ probes = Round(PageOrigin, 1)
  /\ overtaken = FALSE
  /\ up \in [Origins -> {{}, {"live", "ready"}, Services}]

ServiceBadgesNext == setApiBase \/ ProbeAnswered \/ LoadPage

ServiceBadgesSpec == ServiceBadgesInit /\ [][ServiceBadgesNext]_badgeVars

(***************************************************************************)
(* Properties.                                                             *)
(***************************************************************************)
\* Once every probe has answered, each badge tells what the origin in the field
\* serves, unless the origin was edited while probes were in flight: then a late
\* answer of the former origin may have the last word, and nothing corrects it: the
\* badge of the document may then say of one origin what its link opens at another.
BadgesTellOrigin ==
  (probes = {} /\ AppHeader.field # NoOrigin /\ ~overtaken) =>
    \A n \in Services :
      ServicesSection[n].says =
        IF n \notin up[AppHeader.field] THEN "unreachable"
        ELSE IF n = "openapi" THEN "operations_ready" ELSE "healthy"
====
