---- MODULE CatalogPage ----
(***************************************************************************)
(* The list of operations: the route and the filters in the URL (routes/,  *)
(* search-schema.ts), the cards they leave (endpoint-catalog.tsx) and the  *)
(* language (LocaleSwitcher.tsx).  A scenario keeps the navigate function  *)
(* of the render it was started in, and with it that render's filters.     *)
(***************************************************************************)
EXTENDS WorkbenchCatalog, FiniteSets

CONSTANTS
  Hits,   \* for each search text, the entries whose text contains it
  Cards   \* the entries the user opens

NoText == ""
ASSUME CatalogPageAssumption ==
  /\ Cards \subseteq EndpointIds
  /\ NoText \in DOMAIN Hits /\ Hits[NoText] = EndpointIds
  /\ \A q \in DOMAIN Hits : Hits[q] \subseteq EndpointIds

VARIABLES
  matched, search,   \* the matched route and its search parameters
  kept,            \* the filters kept by a scenario that will navigate
  locale           \* the language of the page

catalogVars == <<matched, search, kept, locale>>

IndexRoute == "index"
NotFound == "notFound"
GroupFilters == Groups \union {"all"}
Views == {"comfortable", "compact"}
Locales == {"en", "de", "tr"}

Search(q, group, view) == [q |-> q, group |-> group, view |-> view]
DefaultSearch == Search(NoText, "all", "comfortable")

\* What the URL says is kept where it is valid; anything else is the default.
workbenchSearchSchema(raw) ==
  Search(raw.q, IF raw.group \in GroupFilters THEN raw.group ELSE "all",
         IF raw.view \in Views THEN raw.view ELSE "comfortable")

\* Any language without a translation falls back to English.
normalizeLocale(l) == IF l \in {"de", "tr"} THEN l ELSE "en"

visible(s) ==
  {e \in ENDPOINTS : (s.group = "all" \/ e.group = s.group) /\ e.id \in Hits[s.q]}

\* The number on a group's button does not depend on the text searched.
GroupCount(group) == Cardinality(visible(Search(NoText, group, "compact")))

\* The labels: what is no group is headed as all of them, and what is none of the
\* three demands is shown as public.
groupLabel(group) == IF group \in Groups THEN group ELSE "all_operations"
authLabel(auth) == IF auth \in {"auth", "recent", "admin"} THEN auth ELSE "public"

\* The heading with its count, and the cards or the message that nothing matches with
\* its button.
EndpointCatalog(s) ==
  [heading |-> groupLabel(s.group), count |-> Cardinality(visible(s)),
   cards |-> visible(s), described |-> s.view = "comfortable",
   clear |-> visible(s) = {}]

Screen == matched # NotFound
NoneKept == Search("none", "all", "compact")

\* A direct link, a bookmark or the browser's history; the loader knows the entries.
loader(id) == IF id \in EndpointIds \union {IndexRoute} THEN id ELSE NotFound

OpenUrl ==
  \E id \in {IndexRoute, "no-such-entry"} \union Cards :
    \E raw \in [q : DOMAIN Hits, group : {"sessions", "no-such-group"}, view : {"no-such-view"}] :
      /\ matched' = loader(id)
      /\ search' = workbenchSearchSchema(raw)
      /\ kept' = NoneKept
      /\ UNCHANGED locale

\* The links of the cards, and of the badges of liveness and readiness.
ServiceLinks == {"health-live", "health-ready"}
FollowLink ==
  \E id \in {e.id : e \in EndpointCatalog(search).cards} \union ServiceLinks :
    /\ Screen /\ id \in Cards
    /\ matched' = id
    /\ UNCHANGED <<search, kept, locale>>

\* From an entry to the list; on the index route there is nowhere to go.
Back ==
  /\ Screen /\ matched # IndexRoute
  /\ matched' = IndexRoute
  /\ UNCHANGED <<search, kept, locale>>

\* Variant: the change replaces the filters, and the schema fills in its defaults.
ReplacedBy(field, value) == [DefaultSearch EXCEPT ![field] = value]

\* {...current, ...next}
Merged(field, value) == [search EXCEPT ![field] = value]

onSearchChange(field, values) ==
  \E value \in values \ {search[field]} :
    /\ Screen
    /\ search' = Merged(field, value)
    /\ UNCHANGED <<matched, kept, locale>>

TypeQuery == onSearchChange("q", DOMAIN Hits)
PressGroup == onSearchChange("group", GroupFilters)
PressView == onSearchChange("view", Views)

ClearFilters ==
  /\ Screen /\ EndpointCatalog(search).clear
  /\ search' = [search EXCEPT !.q = NoText, !.group = "all"]
  /\ UNCHANGED <<matched, kept, locale>>

\* A scenario starts; after its requests it navigates with the filters it kept.
StartScenario ==
  /\ Screen /\ kept = NoneKept
  /\ kept' = search
  /\ UNCHANGED <<matched, search, locale>>

onNavigateEndpoint ==
  \E id \in Cards :
    /\ kept # NoneKept
    /\ matched' = id
    /\ search' = kept
    /\ kept' = NoneKept
    /\ UNCHANGED locale

\* The language is stored and the page loaded again, at the same URL.
setLocale ==
  \E l \in Locales \ {locale} :
    /\ Screen
    /\ locale' = normalizeLocale(l)
    /\ kept' = NoneKept
    /\ UNCHANGED <<matched, search>>

CatalogPageInit ==
  /\ matched = IndexRoute /\ search = DefaultSearch /\ kept = NoneKept
  /\ locale \in Locales

CatalogPageNext ==
  OpenUrl \/ FollowLink \/ Back \/ TypeQuery \/ PressGroup \/ PressView
  \/ ClearFilters \/ StartScenario \/ onNavigateEndpoint \/ setLocale

CatalogPageSpec == CatalogPageInit /\ [][CatalogPageNext]_catalogVars

(***************************************************************************)
(* Properties.                                                             *)
(***************************************************************************)
\* Filters are what the user left them at: a step changes one of them, clears both
\* where nothing matched, follows another URL, or is the late navigation of a
\* scenario, which brings back all three of the moment it was started.
FiltersChangeOneByOne ==
  [][search' # search =>
       \/ \E field \in DOMAIN search : search' = [search EXCEPT ![field] = search'[field]]
       \/ visible(search) = {} /\ search'.view = search.view
       \/ search' = kept /\ kept' = NoneKept
       \/ OpenUrl]_catalogVars
====
