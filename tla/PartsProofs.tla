---- MODULE PartsProofs ----
(***************************************************************************)
(* What holds, for every value of the constants, of six parts that share   *)
(* no state: the toasts, the service badges, the endpoint panel and the    *)
(* filters of the Workbench, the script that copies its bundle and the     *)
(* load scenarios.                                                         *)
(***************************************************************************)
EXTENDS WorkbenchPanel, CatalogPage, Toasts, ServiceBadges, StaticBundle, LoadScenarios, TLAPS

(***************************************************************************)
(* The toasts: ids are given once, so a timer belongs to at most one toast *)
(* and never to an error.                                                  *)
(***************************************************************************)

ToastsTyped ==
  /\ toastId \in Nat
  /\ toasts \subseteq [id : Nat, tone : {"neutral", "error"}]
  /\ timers \subseteq Nat

\* No toast and no timer has an id that is yet to be given.
IdsAreOld ==
  /\ \A t \in toasts : t.id <= toastId
  /\ \A i \in timers : i <= toastId

TimersAreNeutral == \A t \in toasts : t.id \in timers => t.tone = "neutral"

OneToastPerId == \A t, u \in toasts : t.id = u.id => t = u

ToastInv == ToastsTyped /\ IdsAreOld /\ TimersAreNeutral /\ OneToastPerId

\* No toast is on screen when the provider mounts.
LEMMA ToastInvInit == ToastsInit => ToastInv
  BY DEF ToastsInit, ToastInv, ToastsTyped, IdsAreOld, TimersAreNeutral, OneToastPerId

\* A toast pushed has an id nothing on screen and no timer has.
LEMMA PushKeepsInv ==
  ASSUME NEW tone \in {"neutral", "error"}, ToastInv, pushToast(tone)
  PROVE  ToastInv'
<1> DEFINE new == [id |-> toastId + 1, tone |-> tone]
<1>1. /\ toastId' = toastId + 1
      /\ toasts' = toasts \union {new}
      /\ timers' = IF tone = "neutral" THEN timers \union {toastId + 1} ELSE timers
  BY DEF pushToast, NextId
<1>2. ToastsTyped'
  BY <1>1 DEF ToastInv, ToastsTyped
<1>3. IdsAreOld'
  BY <1>1 DEF ToastInv, ToastsTyped, IdsAreOld
<1>4. toastId + 1 \notin timers /\ \A t \in toasts : t.id # toastId + 1
  BY DEF ToastInv, ToastsTyped, IdsAreOld
<1>5. TimersAreNeutral'
  <2> SUFFICES ASSUME NEW t \in toasts', t.id \in timers'
               PROVE  t.tone = "neutral"
    BY DEF TimersAreNeutral
  <2>1. CASE t = new
    BY <1>1, <1>4, <2>1
  <2>2. CASE t \in toasts
    BY <1>1, <1>4, <2>2 DEF ToastInv, TimersAreNeutral
  <2>3. QED
    BY <1>1, <2>1, <2>2
<1>6. OneToastPerId'
  BY <1>1, <1>4 DEF ToastInv, OneToastPerId
<1>7. QED
  BY <1>2, <1>3, <1>5, <1>6 DEF ToastInv

\* Closing, by hand or by timer, takes away one toast at most.
LEMMA WithoutKeepsInv ==
  ASSUME NEW id, ToastInv, toasts' = Without(id), timers' \subseteq timers, toastId' = toastId
  PROVE  ToastInv'
  BY DEF Without, ToastInv, ToastsTyped, IdsAreOld, TimersAreNeutral, OneToastPerId

\* Each step of the region keeps the invariant.
LEMMA ToastInvStep == ToastInv /\ [ToastsNext]_toastVars => ToastInv'
<1> SUFFICES ASSUME ToastInv, [ToastsNext]_toastVars PROVE ToastInv'
  OBVIOUS
<1>1. CASE copyValue
  BY <1>1, PushKeepsInv DEF copyValue
<1>2. CASE Close
  BY <1>2, WithoutKeepsInv DEF Close
<1>3. CASE TimerFires
  <2>1. PICK id \in timers : toasts' = Without(id) /\ timers' = timers \ {id} /\ toastId' = toastId
    BY <1>3 DEF TimerFires
  <2>2. timers' \subseteq timers
    BY <2>1
  <2>3. QED
    BY <2>1, <2>2, WithoutKeepsInv
<1>4. CASE UNCHANGED toastVars
  BY <1>4 DEF toastVars, ToastInv, ToastsTyped, IdsAreOld, TimersAreNeutral, OneToastPerId
<1>5. QED
  BY <1>1, <1>2, <1>3, <1>4 DEF ToastsNext

\* Ids of workbench-context.tsx:102 are given once, for any number of toasts.
THEOREM ToastIdsUnique == ToastsSpec => []ToastInv
  BY ToastInvInit, ToastInvStep, PTL DEF ToastsSpec

\* What a step from a state of the invariant does to errors.
LEMMA ErrorsStayStep ==
  ASSUME ToastInv, [ToastsNext]_toastVars, NEW t \in toasts \ toasts', t.tone = "error"
  PROVE  toasts' = toasts \ {t} /\ timers' = timers
<1>1. CASE copyValue
  BY <1>1 DEF copyValue, pushToast
<1>2. CASE Close
  <2>1. PICK u \in toasts : toasts' = Without(u.id) /\ timers' = timers
    BY <1>2 DEF Close
  <2>2. t = u
    BY <2>1 DEF Without, ToastInv, OneToastPerId
  <2>3. QED
    BY <2>1, <2>2 DEF Without, ToastInv, OneToastPerId
<1>3. CASE TimerFires
  <2>1. PICK id \in timers : toasts' = Without(id)
    BY <1>3 DEF TimerFires
  <2>2. t.id = id
    BY <2>1 DEF Without
  <2>3. QED
    BY <2>1, <2>2 DEF ToastInv, TimersAreNeutral
<1>4. CASE UNCHANGED toastVars
  BY <1>4 DEF toastVars
<1>5. QED
  BY <1>1, <1>2, <1>3, <1>4 DEF ToastsNext

\* An error toast leaves the screen when the user closes it and never with another
\* toast's timer (workbench-context.tsx:104-106).
THEOREM ErrorsStayAlways == ToastsSpec => ErrorsStay
<1>1. ToastInv /\ [ToastsNext]_toastVars =>
        [\A t \in toasts \ toasts' : t.tone = "error" =>
           toasts' = toasts \ {t} /\ timers' = timers]_toastVars
  BY ErrorsStayStep
<1>2. QED
  BY ToastIdsUnique, <1>1, PTL DEF ToastsSpec, ErrorsStay

----------------------------------------------------------------------------
(***************************************************************************)
(* The service badges: while no edit has overtaken a probe, every badge    *)
(* either awaits an answer of the origin in the field or shows it.         *)
(***************************************************************************)

ProbeOf(n, base) == [name |-> n, base |-> base]
Same(p, n, base) == p.name = n /\ p.base = base

\* There is a badge for each service; probes name one.
Shaped ==
  /\ services = [n \in Services |-> services[n]]
  /\ \A p \in probes : p.name \in Services

\* Probes in flight are of the origin in the field, unless it was edited meanwhile.
ProbesOfOrigin == ~overtaken => \A p \in probes : p.base = apiBase

\* A badge without a probe shows what the origin in the field serves.
BadgeKnown(n) ==
  \/ \E p \in probes : p.name = n
  \/ services[n] = probeService(ProbeOf(n, apiBase))

BadgesInv ==
  /\ Shaped /\ ProbesOfOrigin
  /\ (~overtaken /\ apiBase # NoOrigin) => \A n \in Services : BadgeKnown(n)

\* What a probe tells depends on its service and its origin alone.
LEMMA ProbeTells ==
  ASSUME NEW p, NEW n, NEW base, Same(p, n, base)
  PROVE  probeService(p) = probeService(ProbeOf(n, base))
  BY DEF Same, ProbeOf, probeService

\* A round probes each service at one origin.
LEMMA RoundFacts ==
  ASSUME NEW base, NEW r
  PROVE  /\ \A p \in Round(base, r) : p.name \in Services /\ p.base = base
         /\ \A n \in Services : \E p \in Round(base, r) : p.name = n
<1>1. ASSUME NEW n \in Services
      PROVE  \E p \in Round(base, r) : p.name = n
  <2>1. [name |-> n, base |-> base, round |-> r] \in Round(base, r)
    BY DEF Round
  <2>2. QED
    BY <2>1
<1>2. \A p \in Round(base, r) : p.name \in Services /\ p.base = base
  BY DEF Round
<1>3. QED
  BY <1>1, <1>2

\* The badges of the beginning await their answers.
LEMMA InitialShape == INITIAL_SERVICES = [n \in Services |-> INITIAL_SERVICES[n]]
  BY DEF INITIAL_SERVICES

\* The first round is of the page's origin.
LEMMA BadgesInvInit == ServiceBadgesInit => BadgesInv
<1> SUFFICES ASSUME ServiceBadgesInit PROVE BadgesInv
  OBVIOUS
<1>1. probes = Round(PageOrigin, 1) /\ apiBase = PageOrigin /\ services = INITIAL_SERVICES
  BY DEF ServiceBadgesInit
<1>2. Shaped /\ ProbesOfOrigin
  BY <1>1, RoundFacts, InitialShape DEF Shaped, ProbesOfOrigin
<1>3. \A n \in Services : BadgeKnown(n)
  BY <1>1, RoundFacts DEF BadgeKnown
<1>4. QED
  BY <1>2, <1>3 DEF BadgesInv

\* A loaded page begins anew.
LEMMA LoadPageStep ==
  ASSUME BadgesInv, LoadPage
  PROVE  BadgesInv'
<1>1. PICK r : probes' = Round(PageOrigin, r)
  BY DEF LoadPage
<1>2. apiBase' = PageOrigin /\ services' = INITIAL_SERVICES
  BY DEF LoadPage
<1>3. Shaped' /\ ProbesOfOrigin'
  BY <1>1, <1>2, RoundFacts, InitialShape DEF Shaped, ProbesOfOrigin
<1>4. ASSUME NEW n \in Services PROVE BadgeKnown(n)'
  BY <1>1, RoundFacts DEF BadgeKnown
<1>5. QED
  BY <1>3, <1>4 DEF BadgesInv

\* An edit that overtakes nothing sends a round to the new origin.
LEMMA SetApiBaseStep ==
  ASSUME BadgesInv, setApiBase
  PROVE  BadgesInv'
<1>1. CASE apiBase' = apiBase
  <2>1. UNCHANGED <<services, probes, overtaken, apiBase, up>>
    BY <1>1 DEF setApiBase
  <2>2. Shaped' /\ ProbesOfOrigin'
    BY <2>1 DEF BadgesInv, Shaped, ProbesOfOrigin
  <2>3. ASSUME NEW n \in Services, BadgeKnown(n) PROVE BadgeKnown(n)'
    BY <2>1, <2>3 DEF BadgeKnown, probeService
  <2>4. QED
    BY <2>1, <2>2, <2>3 DEF BadgesInv
<1>2. CASE apiBase' # apiBase
  <2>1. checkServices(apiBase') /\ overtaken' = (overtaken \/ probes # {})
    BY <1>2 DEF setApiBase
  <2>2. CASE apiBase' = NoOrigin
    <3>1. UNCHANGED <<services, probes>>
      BY <2>1, <2>2 DEF checkServices
    <3>2. Shaped' /\ ProbesOfOrigin'
      BY <2>1, <3>1 DEF BadgesInv, Shaped, ProbesOfOrigin
    <3>3. QED
      BY <2>2, <3>2 DEF BadgesInv
  <2>3. CASE apiBase' # NoOrigin
    <3>1. PICK base, r : /\ base = apiBase' /\ services' = INITIAL_SERVICES
                         /\ probes' = probes \union Round(base, r)
      BY <2>1, <2>3 DEF checkServices
    <3>2. Shaped'
      BY <3>1, RoundFacts, InitialShape DEF BadgesInv, Shaped
    <3>3. ProbesOfOrigin'
      BY <2>1, <3>1, RoundFacts DEF ProbesOfOrigin
    <3>4. ASSUME NEW n \in Services PROVE BadgeKnown(n)'
      BY <3>1, RoundFacts DEF BadgeKnown
    <3>5. QED
      BY <3>2, <3>3, <3>4 DEF BadgesInv
  <2>4. QED
    BY <2>2, <2>3
<1>3. QED
  BY <1>1, <1>2

\* An answer is shown in its own badge and in no other.
LEMMA ProbeAnsweredStep ==
  ASSUME BadgesInv, ProbeAnswered
  PROVE  BadgesInv'
<1>1. PICK p \in probes : services' = Badge(p) /\ probes' = probes \ {p}
  BY DEF ProbeAnswered
<1>2. UNCHANGED <<apiBase, overtaken, up>>
  BY DEF ProbeAnswered
<1>3. p.name \in Services /\ services = [n \in Services |-> services[n]]
  BY DEF BadgesInv, Shaped
<1>4. /\ services' = [n \in Services |-> services'[n]]
      /\ services'[p.name] = probeService(p)
      /\ \A n \in Services : n # p.name => services'[n] = services[n]
  BY <1>1, <1>3 DEF Badge
<1>5. Shaped' /\ ProbesOfOrigin'
  BY <1>1, <1>2, <1>4 DEF BadgesInv, Shaped, ProbesOfOrigin
<1>6. ASSUME ~overtaken, NEW n \in Services, BadgeKnown(n) PROVE BadgeKnown(n)'
  <2>1. probeService(ProbeOf(n, apiBase))' = probeService(ProbeOf(n, apiBase))
    BY <1>2 DEF probeService, ProbeOf
  <2>2. CASE n = p.name
    <3>1. Same(p, n, apiBase)
      BY <1>6, <2>2 DEF BadgesInv, ProbesOfOrigin, Same
    <3>2. QED
      BY <1>4, <2>1, <2>2, <3>1, ProbeTells DEF BadgeKnown
  <2>3. CASE n # p.name
    BY <1>1, <1>4, <1>6, <2>1, <2>3 DEF BadgeKnown
  <2>4. QED
    BY <2>2, <2>3
<1>7. QED
  BY <1>2, <1>5, <1>6 DEF BadgesInv

\* Every step keeps the invariant.
LEMMA BadgesInvNext == BadgesInv /\ [ServiceBadgesNext]_badgeVars => BadgesInv'
<1> SUFFICES ASSUME BadgesInv, [ServiceBadgesNext]_badgeVars PROVE BadgesInv'
  OBVIOUS
<1>1. CASE UNCHANGED badgeVars
  <2>1. UNCHANGED <<services, probes, overtaken, apiBase, up>>
    BY <1>1 DEF badgeVars
  <2>2. Shaped' /\ ProbesOfOrigin'
    BY <2>1 DEF BadgesInv, Shaped, ProbesOfOrigin
  <2>3. ASSUME NEW n \in Services, BadgeKnown(n) PROVE BadgeKnown(n)'
    BY <2>1, <2>3 DEF BadgeKnown, probeService
  <2>4. QED
    BY <2>1, <2>2, <2>3 DEF BadgesInv
<1>2. QED
  BY <1>1, LoadPageStep, SetApiBaseStep, ProbeAnsweredStep DEF ServiceBadgesNext

\* What a badge says of an answer.
LEMMA LabelOfAnswer ==
  ASSUME NEW n \in Services
  PROVE  serviceLabel(probeService(ProbeOf(n, apiBase))) =
           IF n \notin up[apiBase] THEN "unreachable"
           ELSE IF n = "openapi" THEN "operations_ready" ELSE "healthy"
<1> DEFINE count == countOpenApiOperations(OpenApiDocument)
<1>1. count # NoCount
  BY DocumentIsCounted
<1> HIDE DEF count
<1>2. probeService(ProbeOf(n, apiBase)) =
        IF n \notin up[apiBase] THEN [state |-> "unhealthy", operationCount |-> NoCount]
        ELSE [state |-> "healthy", operationCount |-> IF n = "openapi" THEN count ELSE NoCount]
  BY DEF probeService, ProbeOf, Status, count
<1>3. QED
  BY <1>1, <1>2 DEF serviceLabel

\* A badge awaits or shows an answer of the origin in the field, for any origins and
\* any number of rounds (workbench-context.tsx:269-297).
THEOREM BadgesAlways == ServiceBadgesSpec => []BadgesInv
<1>1. ServiceBadgesInit => BadgesInv
  BY BadgesInvInit
<1>2. BadgesInv /\ [ServiceBadgesNext]_badgeVars => BadgesInv'
  BY BadgesInvNext
<1>3. QED
  BY <1>1, <1>2, PTL DEF ServiceBadgesSpec

\* Once all probes have answered, the badges of checkServices tell what the origin in
\* the field serves, unless an edit overtook a probe.
THEOREM BadgesTellAlways == ServiceBadgesSpec => []BadgesTellOrigin
<1>1. BadgesInv => BadgesTellOrigin
  BY LabelOfAnswer DEF BadgesInv, BadgeKnown, BadgesTellOrigin, ServicesSection, AppHeader
<1>2. QED
  BY <1>1, BadgesAlways, PTL

----------------------------------------------------------------------------
(***************************************************************************)
(* The bundle script: what its statements know about the two trees.        *)
(***************************************************************************)

\* Past the look at index.html there is a build to copy; it is copied into an empty
\* directory, so that the target is then that build.
BuildAtHand ==
  /\ at \in {"rm", "mkdir", "cp", "read", "write"} => dist # NoTree
  /\ at \in {"mkdir", "cp"} => target = NoTree
  /\ at \in {"read", "write"} => target = dist

\* A tree is a set of builds, the one of its index.html and a timestamp.
TreeType == [files : SUBSET Builds, index : Builds \union {"none", "torn"}, stamp : Nat]
Trees == dist \in TreeType /\ target \in TreeType

BundleInv == Trees /\ BuildAtHand

\* Nothing and what a build leaves are trees.
LEMMA BuiltTyped ==
  ASSUME NEW stamps \in SUBSET Nat
  PROVE  NoTree \in TreeType /\ BuiltTrees(stamps) \subseteq TreeType
  BY DEF NoTree, BuiltTrees, Tree, TreeType

\* Copying keeps trees, and into nothing it makes the build.
LEMMA CopyFacts ==
  ASSUME Trees
  PROVE  /\ CopiedOver(dist.index, dist.stamp) \in TreeType
         /\ CopiedOver(target.index, target.stamp) \in TreeType
         /\ CopiedOver("torn", 0) \in TreeType
         /\ target = NoTree => CopiedOver(dist.index, dist.stamp) = dist
<1>1. /\ target.files \in SUBSET Builds /\ dist.files \in SUBSET Builds
      /\ target.index \in Builds \union {"none", "torn"} /\ target.stamp \in Nat
      /\ dist.index \in Builds \union {"none", "torn"} /\ dist.stamp \in Nat
      /\ dist = Tree(dist.files, dist.index, dist.stamp)
  BY DEF Trees, TreeType, Tree
<1>2. ASSUME NEW index \in Builds \union {"none", "torn"}, NEW stamp \in Nat
      PROVE  CopiedOver(index, stamp) \in TreeType
  BY <1>1 DEF CopiedOver, Tree, TreeType
<1>3. target = NoTree => target.files \union dist.files = dist.files
  BY DEF NoTree, Tree
<1>4. QED
  BY <1>1, <1>2, <1>3 DEF CopiedOver

\* Nothing has run yet.
LEMMA BundleInvInit == BundleInit => BundleInv
<1> SUFFICES ASSUME BundleInit PROVE BundleInv
  OBVIOUS
<1>1. dist \in TreeType /\ target \in TreeType
  BY BuiltTyped DEF BundleInit
<1>2. QED
  BY <1>1 DEF BundleInit, BundleInv, Trees, BuildAtHand

\* What a statement that was not completed leaves is a tree.
LEMMA PartlyTyped ==
  ASSUME Trees
  PROVE  Partly \subseteq TreeType
<1>1. Tree(target.files, "none", 0) \in TreeType /\ Tree(target.files, "torn", 0) \in TreeType
  BY DEF Trees, TreeType, Tree
<1>2. QED
  BY <1>1, CopyFacts, BuiltTyped DEF Partly

\* Each statement keeps the invariant.
LEMMA BundleInvStep == BundleInv /\ [BundleNext]_bundleVars => BundleInv'
<1> SUFFICES ASSUME BundleInv, [BundleNext]_bundleVars PROVE BundleInv'
  OBVIOUS
<1>1. CASE Build
  <2>1. dist' \in TreeType
    BY <1>1, BuiltTyped, BundleAssumption DEF Build
  <2>2. QED
    BY <1>1, <2>1 DEF Build, BundleInv, Trees, BuildAtHand
<1>2. CASE Stat
  BY <1>2 DEF Stat, BundleInv, Trees, BuildAtHand
<1>3. CASE Remove
  BY <1>3, BuiltTyped DEF Remove, BundleInv, Trees, BuildAtHand
<1>4. CASE MakeDirectory
  BY <1>4 DEF MakeDirectory, BundleInv, Trees, BuildAtHand
<1>5. CASE Copy
  <2>1. target' = dist
    BY <1>5, CopyFacts DEF Copy, BundleInv, BuildAtHand
  <2>2. QED
    BY <1>5, <2>1 DEF Copy, BundleInv, Trees, BuildAtHand
<1>6. CASE Read
  BY <1>6 DEF Read, BundleInv, Trees, BuildAtHand
<1>7. CASE Write
  BY <1>7 DEF Write, BundleInv, Trees, TreeType, BuildAtHand
<1>8. CASE Stopped
  <2>1. target' \in TreeType
    BY <1>8, PartlyTyped DEF Stopped, BundleInv, Trees
  <2>2. QED
    BY <1>8, <2>1 DEF Stopped, BundleInv, Trees, BuildAtHand
<1>9. CASE UNCHANGED bundleVars
  BY <1>9 DEF bundleVars, BundleInv, Trees, BuildAtHand
<1>10. QED
  BY <1>1, <1>2, <1>3, <1>4, <1>5, <1>6, <1>7, <1>8, <1>9 DEF BundleNext

\* sync-static.mjs never runs past its first line without a build, and copies it into a
\* directory that holds nothing of another.
THEOREM BundleAlways == BundleSpec => []BundleInv
  BY BundleInvInit, BundleInvStep, PTL DEF BundleSpec

\* What one statement may do to the target.
LEMMA ReproducibleStep ==
  ASSUME BundleInv, BundleNext
  PROVE  /\ at' = "done" /\ at # "done" => target' = [dist EXCEPT !.stamp = 0]
         /\ target' # target => dist # NoTree
<1>1. CASE Build \/ Stat \/ MakeDirectory \/ Read
  BY <1>1 DEF Build, Stat, MakeDirectory, Read
<1>2. CASE Remove \/ Copy
  BY <1>2 DEF Remove, Copy, BundleInv, BuildAtHand
<1>3. CASE Write
  BY <1>3 DEF Write, BundleInv, BuildAtHand
<1>4. CASE Stopped
  <2>1. at \in {"rm", "cp", "write"} \/ Partly = {}
    BY DEF Partly
  <2>2. QED
    BY <1>4, <2>1 DEF Stopped, BundleInv, BuildAtHand
<1>5. QED
  BY <1>1, <1>2, <1>3, <1>4 DEF BundleNext

\* A run that ends well leaves a tree its source determines, and the served files are
\* only given up with a build at hand, for any builds and instants.
THEOREM BundleAlwaysReproducible == BundleSpec => BundleReproducible
<1>1. BundleInv /\ [BundleNext]_bundleVars =>
        [/\ at' = "done" /\ at # "done" => target' = [dist EXCEPT !.stamp = 0]
         /\ target' # target => dist # NoTree]_bundleVars
  BY ReproducibleStep
<1>2. QED
  BY BundleAlways, <1>1, PTL DEF BundleSpec, BundleReproducible

----------------------------------------------------------------------------
(***************************************************************************)
(* The load scenarios: a VU holds the newest token of its own session or   *)
(* the empty object of a request that failed.                              *)
(***************************************************************************)

\* Pool, tokens and the sets of VUs are of their types.
LoadTyped ==
  /\ phase \in {"profile", "pool", "run", "stopped"}
  /\ pool \in 0..TotalMaxVus
  /\ held \in [VuIds -> 0..EmptyObject]
  /\ minted \in [VuIds -> 0..MaxRotations]
  /\ replayed = {}
  /\ threw \subseteq failed

\* Only a prepared session is rotated, and the run begins with all of them prepared.
PoolPrepared ==
  /\ phase = "run" => pool = TotalMaxVus
  /\ phase # "run" => held = [v \in VuIds |-> Undefined]
  /\ \A v \in VuIds : held[v] = Undefined => minted[v] = IF v <= pool THEN 1 ELSE 0

\* What a VU holds is the newest token, nothing yet, or the mark of a failure.
HeldNewest ==
  \A v \in VuIds :
    /\ held[v] \in {Undefined, EmptyObject, minted[v]}
    /\ held[v] = EmptyObject => v \in failed

LoadInv == LoadTyped /\ PoolPrepared /\ HeldNewest

\* The maxima are positive, so there is a VU and a pool to prepare.
LEMMA Constants ==
  /\ TotalMaxVus \in Nat /\ TotalMaxVus > 0 /\ EmptyObject \in Nat /\ EmptyObject > MaxRotations
  /\ MaxRotations \in Nat /\ MaxRotations > 0 /\ BatchSize \in Nat /\ BatchSize > 0
  BY LoadAssumption DEF TotalMaxVus, EmptyObject

\* Before setup nothing is held and nothing is minted.
LEMMA LoadInvInit == LoadInit => LoadInv
  BY Constants DEF LoadInit, LoadInv, LoadTyped, PoolPrepared, HeldNewest, Undefined, VuIds

\* createTokenPool fills the pool by batches and stops at its size.
LEMMA PoolKeepsInv ==
  ASSUME LoadInv, createTokenPool
  PROVE  LoadInv'
<1> USE Constants DEF LoadInv, LoadTyped
<1>1. CASE pool < PoolSize
  <2>1. pool' = pool + SmallerOf(BatchSize, PoolSize - pool) /\ phase' = phase
        /\ minted' = [v \in VuIds |-> IF v <= pool' THEN 1 ELSE 0]
        /\ UNCHANGED <<held, replayed, failed, threw>>
    BY <1>1 DEF createTokenPool
  <2>2. pool' \in 0..TotalMaxVus
    BY <1>1, <2>1 DEF SmallerOf, PoolSize
  <2>3. held = [v \in VuIds |-> Undefined] /\ phase # "run"
    BY DEF createTokenPool, PoolPrepared
  <2>4. minted' \in [VuIds -> 0..MaxRotations]
    BY <2>1
  <2>5. LoadTyped'
    BY <2>1, <2>2, <2>4
  <2>6. PoolPrepared'
    BY <2>1, <2>3 DEF PoolPrepared
  <2>7. HeldNewest'
    BY <2>1, <2>3 DEF HeldNewest, Undefined
  <2>8. QED
    BY <2>5, <2>6, <2>7
<1>2. CASE ~(pool < PoolSize)
  <2>1. pool = TotalMaxVus
    BY <1>2 DEF PoolSize
  <2>2. QED
    BY <1>2, <2>1 DEF createTokenPool, PoolPrepared, HeldNewest
<1>3. QED
  BY <1>1, <1>2

\* A step that leaves the tokens alone and throws nowhere.
LEMMA CheckKeepsInv ==
  ASSUME LoadInv, UNCHANGED <<phase, pool, held, minted, replayed, threw>>, failed \subseteq failed'
  PROVE  LoadInv'
  BY DEF LoadInv, LoadTyped, PoolPrepared, HeldNewest

\* One check adds a VU to the failed ones at most.
LEMMA CheckedGrows ==
  ASSUME NEW v, NEW status, Checked(v, status)
  PROVE  failed \subseteq failed' /\ (status # 200 => v \in failed')
  BY DEF Checked

\* A VU's own tokens, in the run.
LEMMA OwnTokensNewest ==
  ASSUME LoadInv, phase = "run", NEW v \in VuIds
  PROVE  /\ OwnTokens(v) \in {EmptyObject, minted[v]}
         /\ OwnTokens(v) # Undefined
         /\ OwnTokens(v) = EmptyObject => held[v] = EmptyObject /\ v \in failed
<1> USE Constants DEF LoadInv, LoadTyped, PoolPrepared, HeldNewest, Undefined
<1>1. v <= pool
  BY DEF VuIds
<1>2. CASE held[v] = Undefined
  <2>1. minted[v] = 1 /\ OwnTokens(v) = 1
    BY <1>1, <1>2 DEF OwnTokens, Prepared
  <2>2. EmptyObject # 1
    OBVIOUS
  <2>3. QED
    BY <2>1, <2>2
<1>3. CASE held[v] # Undefined
  BY <1>3 DEF OwnTokens
<1>4. QED
  BY <1>2, <1>3

\* A VU that throws holds the empty object already.
LEMMA ThrowsKeepsInv ==
  ASSUME LoadInv, phase = "run", NEW v \in VuIds, Throws(v), UNCHANGED <<phase, pool>>
  PROVE  LoadInv'
<1>1. OwnTokens(v) = EmptyObject /\ held[v] = EmptyObject /\ v \in failed
  BY OwnTokensNewest DEF Throws
<1>2. held' = held
  BY <1>1 DEF Throws, LoadInv, LoadTyped
<1>3. QED
  BY <1>1, <1>2 DEF Throws, LoadInv, LoadTyped, PoolPrepared, HeldNewest

\* A VU that gets an answer holds its token, or the empty object and a failed check.
LEMMA AnswerKeepsInv ==
  ASSUME LoadInv, phase = "run", NEW v \in VuIds, NEW status \in Nat, NEW token \in 1..MaxRotations,
         UNCHANGED <<phase, pool, replayed, threw>>, Checked(v, status),
         held' = [held EXCEPT ![v] = parseTokens(status, token)],
         minted' = [minted EXCEPT ![v] = token]
  PROVE  LoadInv'
<1> USE Constants DEF LoadInv, LoadTyped
<1>1. parseTokens(status, token) \in {token, EmptyObject}
      /\ (parseTokens(status, token) = EmptyObject => status # 200)
  BY DEF parseTokens
<1>2. parseTokens(status, token) \in 0..EmptyObject /\ parseTokens(status, token) # Undefined
  BY <1>1 DEF Undefined
<1>3. failed \subseteq failed' /\ (status # 200 => v \in failed')
  BY CheckedGrows
<1>4. LoadTyped'
  BY <1>2, <1>3
<1>5. \A u \in VuIds : /\ held'[u] = IF u = v THEN parseTokens(status, token) ELSE held[u]
                       /\ minted'[u] = IF u = v THEN token ELSE minted[u]
  OBVIOUS
<1>6. PoolPrepared'
  BY <1>2, <1>5 DEF PoolPrepared
<1>7. HeldNewest'
  BY <1>1, <1>3, <1>5 DEF HeldNewest
<1>8. QED
  BY <1>4, <1>6, <1>7

\* The service rotates the newest token.
LEMMA RotatesKeepsInv ==
  ASSUME LoadInv, phase = "run", NEW v \in VuIds, Rotates(v), UNCHANGED <<phase, pool>>
  PROVE  LoadInv'
<1>1. minted[v] + 1 \in 1..MaxRotations
  BY Constants DEF Rotates, LoadInv, LoadTyped
<1>2. PICK status \in {200, 0} :
        /\ held' = [held EXCEPT ![v] = parseTokens(status, minted[v] + 1)]
        /\ Checked(v, status)
  BY DEF Rotates
<1>3. status \in Nat /\ minted' = [minted EXCEPT ![v] = minted[v] + 1]
      /\ UNCHANGED <<replayed, threw>>
  BY DEF Rotates
<1>4. QED
  BY <1>1, <1>2, <1>3, AnswerKeepsInv

\* A refusal is no replay: what was presented is the newest token.
LEMMA RefusedKeepsInv ==
  ASSUME LoadInv, phase = "run", NEW v \in VuIds, Refused(v), UNCHANGED <<phase, pool>>
  PROVE  LoadInv'
<1>1. OwnTokens(v) = minted[v] /\ minted[v] # Undefined
  BY OwnTokensNewest DEF Refused
<1>2. PICK status \in Refusals :
        /\ held' = [held EXCEPT ![v] = parseTokens(status, Undefined)]
        /\ Checked(v, status)
  BY DEF Refused
<1>3. minted[v] \in 1..MaxRotations /\ status \in Nat /\ status # 200
  BY <1>1, Constants DEF LoadInv, LoadTyped, Refusals, Undefined
<1>4. held' = [held EXCEPT ![v] = parseTokens(status, minted[v])]
  BY <1>2, <1>3 DEF parseTokens
<1>5. minted' = [minted EXCEPT ![v] = minted[v]] /\ UNCHANGED <<replayed, threw>>
  BY <1>1 DEF Refused, LoadInv, LoadTyped
<1>6. QED
  BY <1>2, <1>3, <1>4, <1>5, AnswerKeepsInv

\* Every step of the setup and of the run keeps the invariant.
LEMMA LoadInvStep == LoadInv /\ [LoadNext]_loadVars => LoadInv'
<1> SUFFICES ASSUME LoadInv, [LoadNext]_loadVars PROVE LoadInv'
  OBVIOUS
<1>1. CASE SetupFails
  BY <1>1 DEF SetupFails, LoadInv, LoadTyped, PoolPrepared, HeldNewest
<1>2. CASE ProfileLogin
  BY <1>2 DEF ProfileLogin, LoadInv, LoadTyped, PoolPrepared, HeldNewest
<1>3. CASE createTokenPool
  BY <1>3, PoolKeepsInv
<1>4. CASE Iteration
  <2>1. PICK v \in VuIds : login(v) \/ refresh(v) \/ me(v)
    BY <1>4 DEF Iteration
  <2>2. phase = "run" /\ UNCHANGED <<phase, pool>>
    BY <2>1 DEF login, refresh, me, Works
  <2>3. CASE login(v)
    BY <2>2, <2>3, CheckedGrows, CheckKeepsInv DEF login
  <2>4. CASE me(v)
    BY <2>2, <2>4, CheckedGrows, CheckKeepsInv DEF me
  <2>5. CASE refresh(v)
    BY <2>2, <2>5, ThrowsKeepsInv, RotatesKeepsInv, RefusedKeepsInv DEF refresh
  <2>6. QED
    BY <2>1, <2>3, <2>4, <2>5
<1>5. CASE UNCHANGED loadVars
  BY <1>5 DEF loadVars, LoadInv, LoadTyped, PoolPrepared, HeldNewest
<1>6. QED
  BY <1>1, <1>2, <1>3, <1>4, <1>5 DEF LoadNext

\* A VU of refresh.js and mixed.js holds the newest token of its session or nothing.
THEOREM LoadAlways == LoadSpec => []LoadInv
  BY LoadInvInit, LoadInvStep, PTL DEF LoadSpec

\* No VU replays a token, for any number of VUs and rotations (refresh.js:51-52).
THEOREM NoReplays == LoadSpec => []NoVuReplays
<1>1. LoadInv => NoVuReplays
  BY DEF LoadInv, LoadTyped, NoVuReplays
<1>2. QED
  BY LoadAlways, <1>1, PTL

\* A VU that throws has failed a check before, whichever scenario its number ends up
\* in (mixed.js:63-64).
THEOREM SilentFailed == LoadSpec => []SilentVuFailedACheck
<1>1. LoadInv => SilentVuFailedACheck
  BY DEF LoadInv, LoadTyped, SilentVuFailedACheck
<1>2. QED
  BY LoadAlways, <1>1, PTL

(***************************************************************************)
(* The endpoint panel.  Its handlers run against what the last render saw; *)
(* four facts about them are enough for its properties: a question is on   *)
(* screen only while it is unanswered, a response on its way is newer than *)
(* any seen, the memoised headers are those of mode, entry and vault, and  *)
(* a live computation is one of the secret in the vault.                   *)
(***************************************************************************)
ActionNames == SpecialActions \union {NoSpecial}
NamesAction(e) == e.special \in {"social", "totp", "passkey-register", "passkey-auth", NoSpecial}

\* The guided actions of the entries for health and the keys.
LEMMA OperationsActions == \A e \in OperationsEntries : NamesAction(e)
<1>1. NamesAction(endpoint("health-live", "GET", "/health/live", "operations", "public"))
  BY DEF NamesAction, endpoint
<1>2. NamesAction(endpoint("health-ready", "GET", "/health/ready", "operations", "public"))
  BY DEF NamesAction, endpoint
<1>3. NamesAction(endpoint("jwks", "GET", "/.well-known/jwks.json", "operations", "public"))
  BY DEF NamesAction, endpoint
<1> QED
  BY <1>1, <1>2, <1>3 DEF OperationsEntries

\* The guided actions of the entries for signing in and out.
LEMMA AccountsActions == \A e \in AccountsEntries : NamesAction(e)
<1>1. NamesAction(WithBody(endpoint("auth-register", "POST", "/api/v1/auth/register", "authentication", "public"), {}))
  BY DEF NamesAction, endpoint, WithBody
<1>2. NamesAction(WithBody(endpoint("auth-login", "POST", "/api/v1/auth/login", "authentication", "public"), {}))
  BY DEF NamesAction, endpoint, WithBody
<1>3. NamesAction(WithBody(endpoint("auth-login-mfa", "POST", "/api/v1/auth/login/mfa", "authentication", "public"), {"mfaTicket", "totpCode"}))
  BY DEF NamesAction, endpoint, WithBody
<1>4. NamesAction(WithBody(endpoint("auth-refresh", "POST", "/api/v1/auth/refresh", "authentication", "public"), {"refreshToken"}))
  BY DEF NamesAction, endpoint, WithBody
<1>5. NamesAction(Confirmed(endpoint("auth-logout", "POST", "/api/v1/auth/logout", "authentication", "auth")))
  BY DEF NamesAction, endpoint, Confirmed
<1>6. NamesAction(endpoint("auth-csrf", "GET", "/api/v1/auth/csrf", "authentication", "auth"))
  BY DEF NamesAction, endpoint
<1> QED
  BY <1>1, <1>2, <1>3, <1>4, <1>5, <1>6 DEF AccountsEntries

\* The guided actions of the entries for social sign-in, mail and passwords.
LEMMA VerificationActions == \A e \in VerificationEntries : NamesAction(e)
<1>1. NamesAction(Guided(WithPath(endpoint("social-authorize", "GET", "/api/v1/auth/social/{provider}/authorize", "authentication", "public"), {"provider"}), "social"))
  BY DEF NamesAction, endpoint, WithPath, Guided
<1>2. NamesAction(WithPath([endpoint("social-callback", "GET", "/api/v1/auth/social/{provider}/callback", "authentication", "public") EXCEPT !.templates = {"socialCode", "socialState"}], {"provider"}))
  BY DEF NamesAction, endpoint, WithPath
<1>3. NamesAction(endpoint("email-send", "POST", "/api/v1/email-verification/send", "authentication", "auth"))
  BY DEF NamesAction, endpoint
<1>4. NamesAction(WithBody(endpoint("email-confirm", "POST", "/api/v1/email-verification/confirm", "authentication", "public"), {"verificationToken"}))
  BY DEF NamesAction, endpoint, WithBody
<1>5. NamesAction(WithBody(endpoint("password-request", "POST", "/api/v1/password-reset/request", "authentication", "public"), {}))
  BY DEF NamesAction, endpoint, WithBody
<1>6. NamesAction(Confirmed(WithBody(endpoint("password-confirm", "POST", "/api/v1/password-reset/confirm", "authentication", "public"), {"passwordResetToken"})))
  BY DEF NamesAction, endpoint, WithBody, Confirmed
<1> QED
  BY <1>1, <1>2, <1>3, <1>4, <1>5, <1>6 DEF VerificationEntries

\* The guided actions of the entries for the profile.
LEMMA ProfileActions == \A e \in ProfileEntries : NamesAction(e)
<1>1. NamesAction(endpoint("users-me", "GET", "/api/v1/users/me", "account", "auth"))
  BY DEF NamesAction, endpoint
<1>2. NamesAction(WithBody(endpoint("users-update", "PATCH", "/api/v1/users/me", "account", "auth"), {}))
  BY DEF NamesAction, endpoint, WithBody
<1>3. NamesAction(Confirmed(endpoint("users-delete", "DELETE", "/api/v1/users/me", "account", "recent")))
  BY DEF NamesAction, endpoint, Confirmed
<1>4. NamesAction(Confirmed(WithBody(endpoint("users-password", "PUT", "/api/v1/users/me/password", "account", "auth"), {})))
  BY DEF NamesAction, endpoint, WithBody, Confirmed
<1>5. NamesAction(endpoint("users-accounts", "GET", "/api/v1/users/me/accounts", "account", "auth"))
  BY DEF NamesAction, endpoint
<1>6. NamesAction(Confirmed(WithPath(endpoint("users-unlink", "DELETE", "/api/v1/users/me/accounts/{accountId}", "account", "auth"), {"accountId"})))
  BY DEF NamesAction, endpoint, WithPath, Confirmed
<1> QED
  BY <1>1, <1>2, <1>3, <1>4, <1>5, <1>6 DEF ProfileEntries

\* The guided actions of the entries for the sessions.
LEMMA SessionsActions == \A e \in SessionsEntries : NamesAction(e)
<1>1. NamesAction(endpoint("sessions-list", "GET", "/api/v1/sessions", "sessions", "auth"))
  BY DEF NamesAction, endpoint
<1>2. NamesAction(Confirmed(WithPath(endpoint("sessions-revoke", "DELETE", "/api/v1/sessions/{sessionId}", "sessions", "auth"), {"sessionId"})))
  BY DEF NamesAction, endpoint, WithPath, Confirmed
<1>3. NamesAction(Confirmed(endpoint("sessions-revoke-others", "DELETE", "/api/v1/sessions", "sessions", "auth")))
  BY DEF NamesAction, endpoint, Confirmed
<1> QED
  BY <1>1, <1>2, <1>3 DEF SessionsEntries

\* The guided actions of the entries for the second factor.
LEMMA TotpActions == \A e \in TotpEntries : NamesAction(e)
<1>1. NamesAction(Guided(endpoint("mfa-enroll", "POST", "/api/v1/mfa/totp/enroll", "security", "auth"), "totp"))
  BY DEF NamesAction, endpoint, Guided
<1>2. NamesAction(Guided(WithBody(endpoint("mfa-confirm", "POST", "/api/v1/mfa/totp/confirm", "security", "auth"), {"totpCode"}), "totp"))
  BY DEF NamesAction, endpoint, WithBody, Guided
<1>3. NamesAction(Confirmed(endpoint("mfa-disable", "DELETE", "/api/v1/mfa/totp", "security", "recent")))
  BY DEF NamesAction, endpoint, Confirmed
<1>4. NamesAction(Confirmed(endpoint("mfa-recovery", "POST", "/api/v1/mfa/recovery-codes/regenerate", "security", "recent")))
  BY DEF NamesAction, endpoint, Confirmed
<1> QED
  BY <1>1, <1>2, <1>3, <1>4 DEF TotpEntries

\* The guided actions of the entries for the passkeys.
LEMMA PasskeysActions == \A e \in PasskeysEntries : NamesAction(e)
<1>1. NamesAction(Guided(WithBody(endpoint("passkey-registration-options", "POST", "/api/v1/passkeys/registration/options", "security", "auth"), {}), "passkey-register"))
  BY DEF NamesAction, endpoint, WithBody, Guided
<1>2. NamesAction(WithBody(endpoint("passkey-registration-complete", "POST", "/api/v1/passkeys/registration/complete", "security", "auth"), {}))
  BY DEF NamesAction, endpoint, WithBody
<1>3. NamesAction(Guided(WithBody(endpoint("passkey-auth-options", "POST", "/api/v1/passkeys/authentication/options", "security", "public"), {}), "passkey-auth"))
  BY DEF NamesAction, endpoint, WithBody, Guided
<1>4. NamesAction(WithBody(endpoint("passkey-auth-complete", "POST", "/api/v1/passkeys/authentication/complete", "security", "public"), {}))
  BY DEF NamesAction, endpoint, WithBody
<1>5. NamesAction(endpoint("passkeys-list", "GET", "/api/v1/passkeys", "security", "auth"))
  BY DEF NamesAction, endpoint
<1>6. NamesAction(Confirmed(WithPath([endpoint("passkey-delete", "DELETE", "/api/v1/passkeys/{credentialId}", "security", "auth") EXCEPT !.templates = {"credentialId"}], {"credentialId"})))
  BY DEF NamesAction, endpoint, WithPath, Confirmed
<1> QED
  BY <1>1, <1>2, <1>3, <1>4, <1>5, <1>6 DEF PasskeysEntries

\* The guided actions of the entries for the API keys.
LEMMA ApiKeysActions == \A e \in ApiKeysEntries : NamesAction(e)
<1>1. NamesAction(WithBody(endpoint("api-key-create", "POST", "/api/v1/api-keys", "security", "auth"), {}))
  BY DEF NamesAction, endpoint, WithBody
<1>2. NamesAction(endpoint("api-keys-list", "GET", "/api/v1/api-keys", "security", "auth"))
  BY DEF NamesAction, endpoint
<1>3. NamesAction(Confirmed(WithPath(endpoint("api-key-revoke", "DELETE", "/api/v1/api-keys/{keyId}", "security", "auth"), {"keyId"})))
  BY DEF NamesAction, endpoint, WithPath, Confirmed
<1> QED
  BY <1>1, <1>2, <1>3 DEF ApiKeysEntries

\* The guided actions of the entries for the administration of users.
LEMMA AdminUsersActions == \A e \in AdminUsersEntries : NamesAction(e)
<1>1. NamesAction(endpoint("admin-users-list", "GET", "/api/v1/admin/users", "admin", "admin"))
  BY DEF NamesAction, endpoint
<1>2. NamesAction(WithPath(endpoint("admin-user-get", "GET", "/api/v1/admin/users/{userId}", "admin", "admin"), {"userId"}))
  BY DEF NamesAction, endpoint, WithPath
<1>3. NamesAction(WithPath(WithBody(endpoint("admin-user-update", "PATCH", "/api/v1/admin/users/{userId}", "admin", "admin"), {}), {"userId"}))
  BY DEF NamesAction, endpoint, WithBody, WithPath
<1>4. NamesAction(Confirmed(WithPath(endpoint("admin-user-delete", "DELETE", "/api/v1/admin/users/{userId}", "admin", "admin"), {"userId"})))
  BY DEF NamesAction, endpoint, WithPath, Confirmed
<1> QED
  BY <1>1, <1>2, <1>3, <1>4 DEF AdminUsersEntries

\* The guided actions of the entries for the administration of roles and sessions.
LEMMA AdminGrantsActions == \A e \in AdminGrantsEntries : NamesAction(e)
<1>1. NamesAction(Confirmed(WithPath(WithBody(endpoint("admin-role-grant", "POST", "/api/v1/admin/users/{userId}/roles", "admin", "admin"), {}), {"userId"})))
  BY DEF NamesAction, endpoint, WithBody, WithPath, Confirmed
<1>2. NamesAction(Confirmed(WithPath(endpoint("admin-role-revoke", "DELETE", "/api/v1/admin/users/{userId}/roles/{roleId}", "admin", "admin"), {"userId", "roleId"})))
  BY DEF NamesAction, endpoint, WithPath, Confirmed
<1>3. NamesAction(Confirmed(WithPath(endpoint("admin-sessions-revoke", "DELETE", "/api/v1/admin/users/{userId}/sessions", "admin", "admin"), {"userId"})))
  BY DEF NamesAction, endpoint, WithPath, Confirmed
<1>4. NamesAction(endpoint("admin-audit", "GET", "/api/v1/admin/audit-logs", "admin", "admin"))
  BY DEF NamesAction, endpoint
<1> QED
  BY <1>1, <1>2, <1>3, <1>4 DEF AdminGrantsEntries

\* An entry's guided action is one of the four, or none.
LEMMA EntrySpecial ==
  ASSUME NEW id \in EndpointIds
  PROVE  endpointById(id).special \in ActionNames
<1>1. PICK e \in ENDPOINTS : e.id = id
  BY DEF EndpointIds
<1>2. endpointById(id) \in ENDPOINTS
  BY <1>1 DEF endpointById
<1>3. QED
  BY <1>2, OperationsActions, AccountsActions, VerificationActions, ProfileActions,
     SessionsActions, TotpActions, PasskeysActions, ApiKeysActions, AdminUsersActions,
     AdminGrantsActions DEF ENDPOINTS, NamesAction, ActionNames, SpecialActions

\* The panel offers to confirm only what was asked, and to copy a response only on
\* the tab that shows one.
LEMMA ControlsOffered ==
  ASSUME open \in EndpointIds \union {Index}
  PROVE  /\ "confirm_operation" \in Controls => confirming /\ open # Index
         /\ "copy_response" \in Controls => activeTab # "request"
<1>1. CASE Controls = {}
  BY <1>1
<1>2. CASE Controls # {}
  <2>1. open \in EndpointIds /\ open # Index
    BY <1>2 DEF Controls
  <2>2. E.special \in ActionNames
    BY <2>1, EntrySpecial DEF E
  <2>3. "confirm_operation" \notin GuidedAction /\ "copy_response" \notin GuidedAction
    BY <2>2 DEF GuidedAction, ActionNames, SpecialActions, NoSpecial
  <2>4. "confirm_operation" \in RequestPanel => confirming
    BY <2>3 DEF RequestPanel
  <2>5. "copy_response" \notin RequestPanel
    BY <2>3 DEF RequestPanel
  <2>6. "confirm_operation" \notin ResponsePanel
    BY DEF ResponsePanel
  <2>7. QED
    BY <2>1, <2>4, <2>5, <2>6 DEF Controls
<1>3. QED
  BY <1>1, <1>2

(***************************************************************************)
(* What the steps of the panel do to each group of its variables.          *)
(***************************************************************************)
\* A request begins.
Begins ==
  /\ begun' = begun + 1 /\ running' = open
  /\ UNCHANGED <<open, tabChoice, shownResponse>>

\* A response arrives, or none; nobody waits any longer.
Arrives ==
  /\ running # Index /\ running' = Index
  /\ shownResponse' \in {shownResponse, [endpoint |-> running, n |-> begun]}
  /\ UNCHANGED <<open, tabChoice, begun>>

\* Another entry is mounted, or the tab chosen: what was on screen counts as seen.
Acknowledges ==
  /\ tabChoice'.acknowledged \in {NoResult, result}
  /\ UNCHANGED <<begun, running, shownResponse>>

\* A request begins, answers or is left alone, and the panel is remounted, turned or
\* left alone.
ResponseStep ==
  \/ Begins
  \/ Arrives
  \/ Acknowledges
  \/ UNCHANGED <<open, tabChoice, begun, running, shownResponse>>

\* The question is withdrawn, asked, or left as it is.
QuestionStep ==
  \/ confirming' = FALSE
  \/ confirming' = TRUE /\ granted' = TRUE
  \/ UNCHANGED <<confirming, granted>>

\* A request of a destructive entry answers a question on screen.
BeginStep == begun' = begun \/ (running' = open /\ (E.destructive => confirming))

\* Sending begins a request, asks, or fails to read the body.
LEMMA ExecuteSteps ==
  ASSUME execute, UNCHANGED <<open, tabChoice, shownResponse>>, E.destructive => confirming
  PROVE  ResponseStep /\ QuestionStep /\ BeginStep /\ said' \in {"invalid_json", Silent}
<1>1. CASE BodyReadable
  BY <1>1 DEF execute, ResponseStep, Begins, QuestionStep, BeginStep
<1>2. CASE ~BodyReadable
  BY <1>2 DEF execute, ResponseStep, QuestionStep, BeginStep
<1>3. QED
  BY <1>1, <1>2

\* The button and the keyboard.
LEMMA AttemptSteps ==
  ASSUME attemptSend
  PROVE  /\ ResponseStep /\ QuestionStep /\ BeginStep /\ said' \in {"invalid_json", Silent}
         /\ UNCHANGED <<open, panelMode, vaultNow, csrfCookie, effectSecret, computing>>
<1>1. UNCHANGED <<open, tabChoice, shownResponse, panelMode, vaultNow, csrfCookie, effectSecret, computing>>
  BY DEF attemptSend
<1>2. CASE E.destructive /\ ~confirming
  BY <1>1, <1>2 DEF attemptSend, ResponseStep, QuestionStep, BeginStep
<1>3. CASE ~(E.destructive /\ ~confirming)
  <2>1. execute
    BY <1>3 DEF attemptSend
  <2>2. QED
    BY <1>1, <1>3, <2>1, ExecuteSteps
<1>4. QED
  BY <1>2, <1>3

\* Every way to send.
LEMMA SubmitSteps ==
  ASSUME open \in EndpointIds \union {Index}, Submit
  PROVE  /\ ResponseStep /\ QuestionStep /\ BeginStep /\ said' \in {"invalid_json", Silent}
         /\ UNCHANGED <<open, panelMode, vaultNow, csrfCookie, effectSecret, computing>>
<1>1. CASE onSend \/ handleKeyDown
  BY <1>1, AttemptSteps DEF onSend, handleKeyDown
<1>2. CASE onExecute
  <2>1. confirming
    BY <1>2, ControlsOffered DEF onExecute
  <2>2. /\ execute
        /\ UNCHANGED <<open, tabChoice, shownResponse, panelMode, vaultNow, csrfCookie, effectSecret, computing>>
    BY <1>2 DEF onExecute
  <2>3. QED
    BY <2>1, <2>2, ExecuteSteps
<1>3. QED
  BY <1>1, <1>2 DEF Submit

\* Mounting withdraws the question and forgets what was seen.
LEMMA MountSteps ==
  ASSUME NEW id, Mount(id), UNCHANGED provider
  PROVE  ResponseStep /\ QuestionStep /\ BeginStep /\ UNCHANGED <<vaultNow, effectSecret, computing>>
<1>1. UNCHANGED <<begun, running, shownResponse, vaultNow, effectSecret, computing>>
  BY DEF provider
<1>2. tabChoice' = [tab |-> "request", acknowledged |-> NoResult] /\ confirming' = FALSE
  BY DEF Mount
<1>3. Acknowledges
  BY <1>1, <1>2 DEF Acknowledges
<1>4. QED
  BY <1>1, <1>2, <1>3 DEF ResponseStep, QuestionStep, BeginStep

\* Editing and copying leave requests alone.
LEMMA EditSteps ==
  ASSUME Edit \/ fillTotp \/ copyCurl \/ copyResponse
  PROVE  ResponseStep /\ QuestionStep /\ BeginStep /\ UNCHANGED <<vaultNow, effectSecret, computing>>
<1>1. CASE chooseTab
  <2>1. PICK tab \in {"request", "response"} :
          tabChoice' = [tab |-> tab, acknowledged |-> result]
    BY <1>1 DEF chooseTab
  <2>2. UNCHANGED <<confirming, provider, granted>>
    BY <1>1 DEF chooseTab
  <2>3. UNCHANGED <<confirming, granted, begun, running, shownResponse, vaultNow, effectSecret, computing>>
    BY <2>2 DEF provider
  <2>4. Acknowledges
    BY <2>1, <2>3 DEF Acknowledges
  <2>5. QED
    BY <2>3, <2>4 DEF ResponseStep, QuestionStep, BeginStep
<1>2. CASE onCancelConfirmation
  BY <1>2 DEF onCancelConfirmation, provider, ResponseStep, QuestionStep, BeginStep
<1>3. CASE setPathValue
  <2>1. UNCHANGED <<open, confirming, tabChoice, provider, granted>>
    BY <1>3 DEF setPathValue
  <2>2. QED
    BY <2>1 DEF provider, ResponseStep, QuestionStep, BeginStep
<1>4. CASE onPathOverride
  BY <1>4 DEF onPathOverride, provider, ResponseStep, QuestionStep, BeginStep
<1>5. CASE onBodyChange
  <2>1. UNCHANGED <<open, confirming, tabChoice, provider, granted>>
    BY <1>5 DEF onBodyChange
  <2>2. QED
    BY <2>1 DEF provider, ResponseStep, QuestionStep, BeginStep
<1>6. CASE formatJson
  BY <1>6 DEF formatJson, screen, provider, ResponseStep, QuestionStep, BeginStep
<1>7. CASE fillTotp
  <2>1. UNCHANGED <<open, confirming, tabChoice, provider, granted>>
    BY <1>7 DEF fillTotp
  <2>2. QED
    BY <2>1 DEF provider, ResponseStep, QuestionStep, BeginStep
<1>8. CASE copyCurl \/ copyResponse
  <2>1. UNCHANGED <<open, screen, provider, granted>>
    BY <1>8 DEF copyCurl, copyResponse
  <2>2. QED
    BY <2>1 DEF screen, provider, ResponseStep, QuestionStep, BeginStep
<1>9. QED
  BY <1>1, <1>2, <1>3, <1>4, <1>5, <1>6, <1>7, <1>8 DEF Edit

\* The provider's own steps touch neither the question nor what begins.
LEMMA ProviderSteps ==
  ASSUME \/ Answered \/ SelectMode \/ CaptureLogin \/ OtherTabCookie
         \/ CaptureSecret \/ EffectFollows \/ updateTotp \/ TotpComputed \/ EmptyVault
  PROVE  ResponseStep /\ QuestionStep /\ BeginStep
<1>1. CASE Answered
  <2>1. Arrives /\ UNCHANGED <<confirming, granted, begun>>
    BY <1>1 DEF Answered, Arrives, screen
  <2>2. QED
    BY <2>1 DEF ResponseStep, QuestionStep, BeginStep
<1>2. CASE ~Answered
  <2>1. Provided
    BY <1>2 DEF SelectMode, CaptureLogin, OtherTabCookie, CaptureSecret, EffectFollows, updateTotp,
                TotpComputed, EmptyVault
  <2>2. QED
    BY <2>1 DEF Provided, screen, ResponseStep, QuestionStep, BeginStep
<1>3. QED
  BY <1>1, <1>2

\* The steps that change the vault or the computations.
VaultStep ==
  \/ CaptureLogin \/ CaptureSecret \/ EffectFollows \/ updateTotp \/ TotpComputed \/ EmptyVault
  \/ UNCHANGED <<vaultNow, effectSecret, computing>>

\* Every step, seen from each group of variables.
LEMMA PanelSteps ==
  ASSUME open \in EndpointIds \union {Index}, [PanelNext]_panelVars
  PROVE  ResponseStep /\ QuestionStep /\ BeginStep /\ VaultStep
<1>1. CASE OpenEntry \/ onBack
  <2>1. \E id \in PanelIds \union {Index} : Mount(id) /\ UNCHANGED provider
    BY <1>1 DEF OpenEntry, onBack
  <2>2. QED
    BY <2>1, MountSteps DEF VaultStep
<1>2. CASE Edit \/ fillTotp \/ copyCurl \/ copyResponse
  BY <1>2, EditSteps DEF VaultStep
<1>3. CASE Submit
  BY <1>3, SubmitSteps DEF VaultStep
<1>4. CASE \/ Answered \/ SelectMode \/ CaptureLogin \/ OtherTabCookie
           \/ CaptureSecret \/ EffectFollows \/ updateTotp \/ TotpComputed \/ EmptyVault
  <2>1. ResponseStep /\ QuestionStep /\ BeginStep
    BY <1>4, ProviderSteps
  <2>2. Answered \/ SelectMode \/ OtherTabCookie => UNCHANGED <<vaultNow, effectSecret, computing>>
    BY DEF Answered, SelectMode, OtherTabCookie
  <2>3. QED
    BY <1>4, <2>1, <2>2 DEF VaultStep
<1>5. CASE UNCHANGED panelVars
  BY <1>5 DEF panelVars, screen, provider, ResponseStep, QuestionStep, BeginStep, VaultStep
<1>6. QED
  BY <1>1, <1>2, <1>3, <1>4, <1>5 DEF PanelNext

(***************************************************************************)
(* The four invariants, each kept by every step.                           *)
(***************************************************************************)
Entries == EndpointIds \union {Index}
ResponseType == [endpoint : Entries, n : Nat]

\* A question stands only while its answer was not used.
Asked == confirming => granted

\* A response seen, or on screen, is older than a request on its way.
Older(n) == n <= begun /\ (running # Index => n < begun)
Seen ==
  /\ open \in Entries /\ running \in Entries /\ begun \in Nat
  /\ shownResponse \in ResponseType /\ Older(shownResponse.n)
  /\ tabChoice.acknowledged \in ResponseType /\ Older(tabChoice.acknowledged.n)

\* The memoised headers are those the provider would give now.
Memo ==
  (open # Index /\ panelMode # "cookie") =>
    requestHeaders = Headers(open, panelMode, vaultNow, csrfCookie)

\* A computation that is alive is one of the secret whose effect runs; an effect and a
\* code need a secret in the vault.
SecretType == {Secret(n) : n \in Nat}
Computation == [secret : SecretType, active : BOOLEAN]
Live ==
  /\ vaultNow = [v \in Variables |-> vaultNow[v]]
  /\ vaultNow["totpSecret"] \in SecretType \union {Empty}
  /\ computing \subseteq Computation
  /\ effectSecret \in SecretType \union {Empty}
  /\ \A c \in computing : c.active => c.secret = effectSecret
  /\ vaultNow["totpSecret"] = Empty => effectSecret = Empty /\ vaultNow["totpCode"] = Empty

PanelInv == Asked /\ Seen /\ Memo /\ Live

\* It holds before anything is opened.
LEMMA PanelInvInit == PanelInit => PanelInv
<1> SUFFICES ASSUME PanelInit PROVE PanelInv
  OBVIOUS
<1>1. Asked
  BY DEF PanelInit, Asked
<1>2. Seen
  BY DEF PanelInit, Seen, Older, NoResult, Entries, ResponseType
<1>3. Memo
  BY DEF PanelInit, Memo
<1>4. vaultNow = EMPTY_VARIABLES /\ computing = {} /\ effectSecret = Empty
  BY DEF PanelInit
<1>5. EMPTY_VARIABLES["totpSecret"] = Empty /\ EMPTY_VARIABLES["totpCode"] = Empty
  BY DEF EMPTY_VARIABLES, Variables
<1>6. EMPTY_VARIABLES = [v \in Variables |-> EMPTY_VARIABLES[v]]
  BY DEF EMPTY_VARIABLES
<1>7. Live
  BY <1>4, <1>5, <1>6 DEF Live
<1>8. QED
  BY <1>1, <1>2, <1>3, <1>7 DEF PanelInv

\* The open entry stays one of the catalog.
LEMMA OpenSteps ==
  ASSUME open \in Entries, [PanelNext]_panelVars
  PROVE  open' \in Entries
<1>1. CASE OpenEntry \/ onBack
  BY <1>1, PanelAssumption DEF OpenEntry, onBack, Mount, Entries
<1>2. CASE Edit
  BY <1>2 DEF Edit, chooseTab, setPathValue, onPathOverride, onBodyChange, formatJson,
              onCancelConfirmation
<1>3. CASE fillTotp \/ copyCurl \/ copyResponse
  BY <1>3 DEF fillTotp, copyCurl, copyResponse
<1>4. CASE Submit
  BY <1>4, SubmitSteps DEF Entries
<1>5. CASE \/ Answered \/ SelectMode \/ CaptureLogin \/ OtherTabCookie
           \/ CaptureSecret \/ EffectFollows \/ updateTotp \/ TotpComputed \/ EmptyVault
  BY <1>5 DEF Answered, SelectMode, CaptureLogin, OtherTabCookie, CaptureSecret, EffectFollows, updateTotp,
              TotpComputed, EmptyVault, Provided
<1>6. CASE UNCHANGED panelVars
  BY <1>6 DEF panelVars
<1>7. QED
  BY <1>1, <1>2, <1>3, <1>4, <1>5, <1>6 DEF PanelNext

\* A response is at most as new as the newest request.
LEMMA SeenStep ==
  ASSUME Seen, [PanelNext]_panelVars
  PROVE  Seen'
<1>1. ResponseStep /\ open' \in Entries
  BY PanelSteps, OpenSteps DEF Seen, Entries
<1>2. NoResult \in ResponseType /\ NoResult.n = 0
  BY DEF NoResult, ResponseType, Entries
<1>3. result \in ResponseType /\ Older(result.n)
  <2>1. shownResponse.n \in Nat /\ begun \in Nat
    BY DEF Seen, ResponseType
  <2>2. Older(0)
    BY <2>1 DEF Seen, Older
  <2>3. QED
    BY <1>2, <2>2 DEF Seen, result
<1>4. CASE Begins
  BY <1>1, <1>4 DEF Begins, Seen, Older, ResponseType
<1>5. CASE Arrives
  <2>1. [endpoint |-> running, n |-> begun] \in ResponseType
    BY DEF Seen, ResponseType
  <2>2. shownResponse' \in ResponseType /\ shownResponse'.n <= begun
    BY <1>5, <2>1 DEF Arrives, Seen, Older
  <2>3. QED
    BY <1>1, <1>5, <2>2 DEF Arrives, Seen, Older, Entries, ResponseType
<1>6. CASE Acknowledges
  <2>1. PICK a : a \in {NoResult, result} /\ tabChoice'.acknowledged = a
    BY <1>6 DEF Acknowledges
  <2>2. Older(0)
    BY DEF Seen, Older, ResponseType
  <2>3. a \in ResponseType /\ Older(a.n)
    BY <1>2, <1>3, <2>1, <2>2
  <2>4. UNCHANGED <<begun, running, shownResponse>>
    BY <1>6 DEF Acknowledges
  <2>5. QED
    BY <1>1, <2>1, <2>3, <2>4 DEF Seen, Older
<1>7. CASE UNCHANGED <<open, tabChoice, begun, running, shownResponse>>
  BY <1>7 DEF Seen, Older
<1>8. QED
  BY <1>1, <1>4, <1>5, <1>6, <1>7 DEF ResponseStep

\* Outside cookie mode the cookie enters no header.
LEMMA HeadersWithoutCookie ==
  ASSUME NEW id, NEW mode, mode # "cookie", NEW values, NEW one, NEW other
  PROVE  Headers(id, mode, values, one) = Headers(id, mode, values, other)
  BY DEF Headers, buildHeaders

\* The memo is as good as new.
LEMMA MemoStep ==
  ASSUME Memo, [PanelNext]_panelVars
  PROVE  Memo'
<1>1. CASE UNCHANGED panelVars
  BY <1>1 DEF panelVars, provider, Memo
<1>2. CASE Memoised
  <2>1. CASE <<open', panelMode', vaultNow'>> = <<open, panelMode, vaultNow>>
    <3>1. open' = open /\ panelMode' = panelMode /\ vaultNow' = vaultNow
      BY <2>1
    <3>2. open # Index => requestHeaders' = requestHeaders
      BY <1>2, <2>1, <3>1 DEF Memoised
    <3>3. panelMode # "cookie" =>
            Headers(open, panelMode, vaultNow, csrfCookie)
              = Headers(open, panelMode, vaultNow, csrfCookie')
      BY HeadersWithoutCookie
    <3>4. QED
      BY <3>1, <3>2, <3>3 DEF Memo
  <2>2. CASE <<open', panelMode', vaultNow'>> # <<open, panelMode, vaultNow>>
    BY <1>2, <2>2 DEF Memoised, Memo
  <2>3. QED
    BY <2>1, <2>2
<1>3. QED
  BY <1>1, <1>2 DEF PanelNext

\* A secret is not the empty string.
LEMMA SecretFacts ==
  /\ \A s \in SecretType : s # Empty
  /\ {"totpSecret", "totpCode", "accessToken"} \subseteq Variables
<1>1. ASSUME NEW n \in Nat PROVE Secret(n) # Empty
  BY DEF Secret, Value, Empty
<1>2. QED
  BY <1>1 DEF SecretType, Variables

\* The computations of an effect that was cleaned up are disowned.
LEMMA DisownedFacts ==
  ASSUME Live
  PROVE  Disowned \subseteq Computation /\ \A c \in Disowned : ~c.active
<1>1. \A c \in Computation : /\ [c EXCEPT !.active = FALSE] \in Computation
                             /\ ~[c EXCEPT !.active = FALSE].active
  BY DEF Computation
<1>2. QED
  BY <1>1 DEF Live, Disowned

\* One value of the vault is replaced.
LEMMA VaultExcept ==
  ASSUME Live, NEW v \in Variables, NEW x, vaultNow' = [vaultNow EXCEPT ![v] = x]
  PROVE  /\ vaultNow' = [w \in Variables |-> vaultNow'[w]]
         /\ vaultNow'[v] = x
         /\ \A w \in Variables : w # v => vaultNow'[w] = vaultNow[w]
  BY DEF Live

\* The effect of a secret starts a computation of that secret.
LEMMA StartedFacts ==
  ASSUME NEW secret \in SecretType \union {Empty}
  PROVE  Started(secret) \subseteq Computation /\ \A c \in Started(secret) : c.secret = secret
<1>1. CASE secret = Empty
  BY <1>1 DEF Started
<1>2. CASE secret # Empty
  <2>1. secret \in SecretType
    BY <1>2
  <2>2. [secret |-> secret, active |-> TRUE] \in Computation
    BY <2>1 DEF Computation
  <2>3. Started(secret) = {[secret |-> secret, active |-> TRUE]}
    BY <1>2 DEF Started
  <2>4. QED
    BY <2>2, <2>3
<1>3. QED
  BY <1>1, <1>2

\* The cleanup of one effect and the start of the next leave alive what the next started.
LEMMA EffectFacts ==
  ASSUME Live, NEW secret \in SecretType \union {Empty}, TotpEffect(secret)
  PROVE  /\ computing' \subseteq Computation
         /\ effectSecret' = secret
         /\ \A c \in computing' : c.active => c.secret = secret
<1>1. computing' = Disowned \union Started(secret) /\ effectSecret' = secret
  BY DEF TotpEffect
<1>2. computing' \subseteq Computation
  BY <1>1, DisownedFacts, StartedFacts
<1>3. ASSUME NEW c \in computing', c.active PROVE c.secret = secret
  <2>1. c \notin Disowned
    BY <1>3, DisownedFacts
  <2>2. c \in Started(secret)
    BY <1>1, <2>1
  <2>3. QED
    BY <2>2, StartedFacts
<1>4. QED
  BY <1>1, <1>2, <1>3

\* The code changes to nothing, to one of the secret in the vault, or to one of the
\* secret whose effect still runs.
CodeStep ==
  vaultNow'["totpCode"] # vaultNow["totpCode"] =>
    \/ vaultNow'["totpCode"] \in {Empty, CodeOf(vaultNow'["totpSecret"])}
    \/ effectSecret # vaultNow["totpSecret"] /\ vaultNow'["totpCode"] = CodeOf(effectSecret)

\* A login captured.
LEMMA LoginLive ==
  ASSUME Live, CaptureLogin
  PROVE  Live' /\ CodeStep
<1>1. /\ vaultNow' = [vaultNow EXCEPT !["accessToken"] = Value("accessToken", 1, 1)]
      /\ computing' = computing /\ effectSecret' = effectSecret
  BY DEF CaptureLogin
<1>2. /\ vaultNow' = [w \in Variables |-> vaultNow'[w]]
      /\ vaultNow'["totpSecret"] = vaultNow["totpSecret"]
      /\ vaultNow'["totpCode"] = vaultNow["totpCode"]
  BY <1>1, VaultExcept, SecretFacts
<1>3. QED
  BY <1>1, <1>2 DEF Live, CodeStep

\* A secret captured: the effect has not followed yet.
LEMMA SecretLive ==
  ASSUME Live, CaptureSecret
  PROVE  Live' /\ CodeStep
<1>1. PICK n \in 1..MaxSecrets : vaultNow' = [vaultNow EXCEPT !["totpSecret"] = Secret(n)]
  BY DEF CaptureSecret
<1>2. n \in Nat
  BY PanelAssumption
<1>3. Secret(n) \in SecretType
  BY <1>2 DEF SecretType
<1>4. /\ vaultNow' = [w \in Variables |-> vaultNow'[w]]
      /\ vaultNow'["totpSecret"] = Secret(n)
      /\ vaultNow'["totpCode"] = vaultNow["totpCode"]
  BY <1>1, VaultExcept, SecretFacts
<1>5. Secret(n) # Empty
  BY <1>3, SecretFacts
<1>6. computing' = computing /\ effectSecret' = effectSecret
  BY DEF CaptureSecret
<1>7. QED
  BY <1>3, <1>4, <1>5, <1>6 DEF Live, CodeStep

\* The effect follows the secret.
LEMMA FollowsLive ==
  ASSUME Live, EffectFollows
  PROVE  Live' /\ CodeStep
<1>1. vaultNow' = vaultNow /\ TotpEffect(vaultNow["totpSecret"])
  BY DEF EffectFollows
<1>2. vaultNow["totpSecret"] \in SecretType \union {Empty}
  BY DEF Live
<1>3. /\ computing' \subseteq Computation
      /\ effectSecret' = vaultNow["totpSecret"]
      /\ \A c \in computing' : c.active => c.secret = vaultNow["totpSecret"]
  BY <1>1, <1>2, EffectFacts
<1>4. QED
  BY <1>1, <1>2, <1>3 DEF Live, CodeStep

\* The second's tick.
LEMMA TickLive ==
  ASSUME Live, updateTotp
  PROVE  Live' /\ CodeStep
<1>1. /\ vaultNow' = vaultNow /\ effectSecret' = effectSecret
      /\ computing' = computing \union Started(effectSecret)
  BY DEF updateTotp
<1>2. /\ Started(effectSecret) \subseteq Computation
      /\ \A c \in Started(effectSecret) : c.secret = effectSecret
  BY StartedFacts DEF Live
<1>3. QED
  BY <1>1, <1>2 DEF Live, CodeStep

\* A computation ends; its code is taken only while its effect runs.
LEMMA ComputedLive ==
  ASSUME Live, TotpComputed
  PROVE  Live' /\ CodeStep
<1>1. PICK c \in computing :
        /\ computing' = computing \ {c} /\ effectSecret' = effectSecret
        /\ vaultNow' = IF c.active THEN [vaultNow EXCEPT !["totpCode"] = CodeOf(c.secret)]
                       ELSE vaultNow
  BY DEF TotpComputed
<1>2. CASE ~c.active
  BY <1>1, <1>2 DEF Live, CodeStep
<1>3. CASE c.active
  <2>1. c.secret = effectSecret /\ vaultNow["totpSecret"] # Empty
    BY <1>3, SecretFacts DEF Live, Computation
  <2>2. /\ vaultNow' = [w \in Variables |-> vaultNow'[w]]
        /\ vaultNow'["totpCode"] = CodeOf(effectSecret)
        /\ vaultNow'["totpSecret"] = vaultNow["totpSecret"]
    <3>1. vaultNow' = [vaultNow EXCEPT !["totpCode"] = CodeOf(effectSecret)]
      BY <1>1, <1>3, <2>1
    <3>2. QED
      BY <3>1, VaultExcept, SecretFacts
  <2>3. CodeStep
    BY <2>2 DEF CodeStep
  <2>4. QED
    BY <1>1, <2>1, <2>2, <2>3 DEF Live
<1>4. QED
  BY <1>2, <1>3

\* The vault is cleared, and with it the secret and its effect.
LEMMA EmptiedLive ==
  ASSUME Live, EmptyVault
  PROVE  Live' /\ CodeStep
<1>1. vaultNow' = EMPTY_VARIABLES /\ TotpEffect(Empty)
  BY DEF EmptyVault
<1>2. /\ vaultNow' = [w \in Variables |-> vaultNow'[w]]
      /\ vaultNow'["totpSecret"] = Empty /\ vaultNow'["totpCode"] = Empty
  BY <1>1 DEF EMPTY_VARIABLES, Variables
<1>3. /\ computing' \subseteq Computation /\ effectSecret' = Empty
      /\ \A c \in computing' : c.active => c.secret = Empty
  BY <1>1, EffectFacts
<1>4. QED
  BY <1>2, <1>3 DEF Live, CodeStep

\* Every step keeps the computations those of the effect that runs.
LEMMA LiveStep ==
  ASSUME Live, open \in Entries, [PanelNext]_panelVars
  PROVE  Live' /\ CodeStep
<1>1. VaultStep
  BY PanelSteps DEF Entries
<1>2. CASE UNCHANGED <<vaultNow, effectSecret, computing>>
  BY <1>2 DEF Live, CodeStep
<1>3. QED
  BY <1>1, <1>2, LoginLive, SecretLive, FollowsLive, TickLive, ComputedLive, EmptiedLive
     DEF VaultStep

\* Every step keeps all four.
LEMMA PanelInvStep == PanelInv /\ [PanelNext]_panelVars => PanelInv'
<1> SUFFICES ASSUME PanelInv, [PanelNext]_panelVars PROVE PanelInv'
  OBVIOUS
<1>1. open \in Entries
  BY DEF PanelInv, Seen
<1>2. Asked'
  BY <1>1, PanelSteps DEF PanelInv, Asked, QuestionStep, Entries
<1>3. QED
  BY <1>1, <1>2, SeenStep, MemoStep, LiveStep DEF PanelInv

(***************************************************************************)
(* The theorems about the panel.                                           *)
(***************************************************************************)
\* endpoint-detail.tsx: the four facts hold whatever is opened, typed, sent, captured
\* and computed, for any entries and any number of requests and secrets.
THEOREM PanelAlways == PanelSpec => []PanelInv
  BY PanelInvInit, PanelInvStep, PTL DEF PanelSpec

\* attemptSend, execute, handleKeyDown: a request of a destructive entry begins only
\* with a confirmation shown since the last one.
THEOREM ConfirmedAlwaysOnceEach == PanelSpec => ConfirmedOnceEach
<1>1. PanelInv /\ [PanelNext]_panelVars =>
        [(begun' # begun /\ endpointById(running').destructive) =>
           granted /\ running' = open]_panelVars
  <2> SUFFICES ASSUME PanelInv, [PanelNext]_panelVars, begun' # begun,
                      endpointById(running').destructive
               PROVE  granted /\ running' = open
    OBVIOUS
  <2>1. BeginStep
    BY PanelSteps DEF PanelInv, Seen, Entries
  <2>2. running' = open /\ (E.destructive => confirming)
    BY <2>1 DEF BeginStep
  <2>3. confirming
    BY <2>2 DEF E
  <2>4. QED
    BY <2>2, <2>3 DEF PanelInv, Asked
<1>2. QED
  BY PanelAlways, <1>1, PTL DEF PanelSpec, ConfirmedOnceEach

\* endpoint-detail.tsx, acknowledged: a new response of the open entry was never seen,
\* so the panel turns to it.
THEOREM ResponseAlwaysTakesTheTab == PanelSpec => ResponseTakesTheTab
<1>1. PanelInv /\ [PanelNext]_panelVars =>
        [(shownResponse' # shownResponse /\ shownResponse'.endpoint = open) =>
           (activeTab = "response")']_panelVars
  <2> SUFFICES ASSUME PanelInv, [PanelNext]_panelVars, shownResponse' # shownResponse,
                      shownResponse'.endpoint = open
               PROVE  (activeTab = "response")'
    OBVIOUS
  <2>1. ResponseStep
    BY PanelSteps DEF PanelInv, Seen, Entries
  <2>2. Arrives
    BY <2>1 DEF ResponseStep, Begins, Acknowledges
  <2>3. /\ shownResponse' = [endpoint |-> running, n |-> begun]
        /\ open' = open /\ tabChoice' = tabChoice /\ running # Index
    BY <2>2 DEF Arrives
  <2>4. result' = [endpoint |-> running, n |-> begun]
    BY <2>3 DEF result
  <2>5. result' # NoResult
    BY <2>3, <2>4 DEF NoResult
  <2>6. tabChoice.acknowledged.n < begun /\ tabChoice.acknowledged.n \in Nat /\ begun \in Nat
    BY <2>3 DEF PanelInv, Seen, Older, ResponseType
  <2>7. tabChoice'.acknowledged # result'
    BY <2>3, <2>4, <2>6
  <2>8. QED
    BY <2>5, <2>7 DEF activeTab
<1>2. QED
  BY PanelAlways, <1>1, PTL DEF PanelSpec, ResponseTakesTheTab

\* What says "copied" on the request tab is the command.
LEMMA CopiedIsCommand ==
  ASSUME open \in Entries, PanelNext, said' = "copied", activeTab = "request"
  PROVE  copied' = createCurl(E, requestPath, requestHeaders, parseBody) /\ open # Index
<1>1. ~copyResponse
  BY ControlsOffered DEF copyResponse, Entries
<1>2. said' # Silent /\ said' \notin {"invalid_json", "totp_missing", "totp_filled"}
  BY DEF Silent
<1>3. ~Submit
  BY <1>2, SubmitSteps DEF Entries
<1>4. ~fillTotp
  BY <1>2 DEF fillTotp
<1>5. copyCurl
  BY <1>1, <1>2, <1>3, <1>4 DEF PanelNext
<1>6. BodyReadable
  BY <1>2, <1>5 DEF copyCurl
<1>7. open # Index
  BY <1>5 DEF copyCurl, Controls
<1>8. QED
  BY <1>5, <1>6, <1>7 DEF copyCurl, runCopy

\* createCurl, useMemo: outside cookie mode the command copied is the request that
\* sending would make now, memoised headers included.
THEOREM CurlAlwaysTheRequest == PanelSpec => CurlIsTheRequest
<1>1. PanelInv /\ [PanelNext]_panelVars =>
        [(said' = "copied" /\ activeTab = "request" /\ panelMode # "cookie") =>
           copied' = createCurl(E, requestPath,
                          Headers(open, panelMode, vaultNow, csrfCookie), parseBody)]_panelVars
  <2> SUFFICES ASSUME PanelInv, PanelNext, said' = "copied", activeTab = "request",
                      panelMode # "cookie"
               PROVE  copied' = createCurl(E, requestPath,
                          Headers(open, panelMode, vaultNow, csrfCookie), parseBody)
    OBVIOUS
  <2>1. copied' = createCurl(E, requestPath, requestHeaders, parseBody) /\ open # Index
    BY CopiedIsCommand DEF PanelInv, Seen
  <2>2. QED
    BY <2>1 DEF PanelInv, Memo
<1>2. QED
  BY PanelAlways, <1>1, PTL DEF PanelSpec, CurlIsTheRequest

\* workbench-context.tsx, the TOTP effect: a code written is one of the secret in the
\* vault, or of the one it replaced until the effect follows, and there is no code
\* without a secret.
THEOREM LiveCodeAlwaysFollows == PanelSpec => LiveCodeFollowsSecret
<1>1. PanelInv /\ [PanelNext]_panelVars =>
        [/\ vaultNow'["totpCode"] # vaultNow["totpCode"] =>
              \/ vaultNow'["totpCode"] \in {Empty, CodeOf(vaultNow'["totpSecret"])}
              \/ /\ effectSecret # vaultNow["totpSecret"]
                 /\ vaultNow'["totpCode"] = CodeOf(effectSecret)
         /\ vaultNow'["totpSecret"] = Empty => vaultNow'["totpCode"] = Empty]_panelVars
  <2> SUFFICES ASSUME PanelInv, [PanelNext]_panelVars
               PROVE  CodeStep /\ (vaultNow'["totpSecret"] = Empty => vaultNow'["totpCode"] = Empty)
    BY DEF CodeStep
  <2>1. open \in Entries /\ Live
    BY DEF PanelInv, Seen
  <2>2. Live' /\ CodeStep
    BY <2>1, LiveStep
  <2>3. QED
    BY <2>2 DEF Live
<1>2. QED
  BY PanelAlways, <1>1, PTL DEF PanelSpec, LiveCodeFollowsSecret

(***************************************************************************)
(* The catalogue's filters.                                                *)
(***************************************************************************)
SearchType == [q : DOMAIN Hits, group : GroupFilters, view : Views]

\* The filters in the URL are valid, and those a scenario keeps were.
FiltersTyped ==
  /\ search \in SearchType
  /\ kept \in SearchType \union {NoneKept}

\* One filter changed among the three.
OneChanged(new) ==
  \E field \in DOMAIN search : new = [search EXCEPT ![field] = new[field]]

\* What a change of one filter leaves.
LEMMA MergedFilters ==
  ASSUME NEW field \in {"q", "group", "view"}, NEW value, search \in SearchType,
         value \in (IF field = "q" THEN DOMAIN Hits ELSE IF field = "group" THEN GroupFilters ELSE Views)
  PROVE  /\ Merged(field, value) \in SearchType
         /\ OneChanged(Merged(field, value))
<1>1. DOMAIN search = {"q", "group", "view"}
  BY DEF SearchType
<1>2. Merged(field, value)[field] = value
  BY DEF Merged, SearchType
<1>3. OneChanged(Merged(field, value))
  BY <1>1, <1>2 DEF OneChanged, Merged
<1>4. CASE field = "q"
  <2>1. \A r \in SearchType, x \in DOMAIN Hits : [r EXCEPT !["q"] = x] \in SearchType
    BY DEF SearchType
  <2>2. value \in DOMAIN Hits /\ Merged(field, value) = [search EXCEPT !["q"] = value]
    BY <1>4 DEF Merged
  <2>3. QED
    BY <1>3, <2>1, <2>2
<1>5. CASE field = "group"
  <2>1. \A r \in SearchType, x \in GroupFilters : [r EXCEPT !["group"] = x] \in SearchType
    BY DEF SearchType
  <2>2. value \in GroupFilters /\ Merged(field, value) = [search EXCEPT !["group"] = value]
    BY <1>5 DEF Merged
  <2>3. QED
    BY <1>3, <2>1, <2>2
<1>6. CASE field = "view"
  <2>1. \A r \in SearchType, x \in Views : [r EXCEPT !["view"] = x] \in SearchType
    BY DEF SearchType
  <2>2. value \in Views /\ Merged(field, value) = [search EXCEPT !["view"] = value]
    BY <1>6 DEF Merged
  <2>3. QED
    BY <1>3, <2>1, <2>2
<1>7. QED
  BY <1>3, <1>4, <1>5, <1>6

\* The schema leaves only filters there are.
LEMMA SchemaValid ==
  ASSUME NEW raw \in [q : DOMAIN Hits, group : {"sessions", "no-such-group"}, view : {"no-such-view"}]
  PROVE  workbenchSearchSchema(raw) \in SearchType
  BY DEF workbenchSearchSchema, Search, SearchType, GroupFilters, Views

\* The filters before anything is pressed.
LEMMA FiltersInit == CatalogPageInit => FiltersTyped
<1>1. NoText \in DOMAIN Hits
  BY CatalogPageAssumption
<1>2. DefaultSearch \in SearchType
  BY <1>1 DEF DefaultSearch, Search, SearchType, GroupFilters, Views
<1>3. QED
  BY <1>2 DEF CatalogPageInit, FiltersTyped

\* What a step may do to the filters.
FilterStep ==
  search' # search =>
    \/ OneChanged(search')
    \/ visible(search) = {} /\ search'.view = search.view
    \/ search' = kept /\ kept' = NoneKept
    \/ OpenUrl

\* A press of one of the buttons, or typing.
LEMMA PressStep ==
  ASSUME FiltersTyped, TypeQuery \/ PressGroup \/ PressView
  PROVE  FiltersTyped' /\ FilterStep
<1>1. PICK field \in {"q", "group", "view"} :
        \E value \in (IF field = "q" THEN DOMAIN Hits
                      ELSE IF field = "group" THEN GroupFilters ELSE Views) :
          search' = Merged(field, value) /\ UNCHANGED kept
  BY DEF TypeQuery, PressGroup, PressView, onSearchChange
<1>2. PICK value \in (IF field = "q" THEN DOMAIN Hits
                      ELSE IF field = "group" THEN GroupFilters ELSE Views) :
          search' = Merged(field, value) /\ UNCHANGED kept
  BY <1>1
<1>3. Merged(field, value) \in SearchType /\ OneChanged(Merged(field, value))
  BY <1>2, MergedFilters DEF FiltersTyped
<1>4. QED
  BY <1>2, <1>3 DEF FiltersTyped, FilterStep

\* The button offered where nothing matched.
LEMMA ClearStep ==
  ASSUME FiltersTyped, ClearFilters
  PROVE  FiltersTyped' /\ FilterStep
<1>1. search' = [search EXCEPT !.q = NoText, !.group = "all"] /\ UNCHANGED kept
  BY DEF ClearFilters
<1>2. visible(search) = {}
  BY DEF ClearFilters, EndpointCatalog
<1>3. NoText \in DOMAIN Hits /\ "all" \in GroupFilters
  BY CatalogPageAssumption DEF GroupFilters
<1>4. search' \in SearchType /\ search'.view = search.view
  BY <1>1, <1>3 DEF FiltersTyped, SearchType
<1>5. QED
  BY <1>1, <1>2, <1>4 DEF FiltersTyped, FilterStep

\* Every step.
LEMMA FiltersStep ==
  ASSUME FiltersTyped, [CatalogPageNext]_catalogVars
  PROVE  FiltersTyped' /\ FilterStep
<1>1. CASE OpenUrl
  BY <1>1, SchemaValid DEF OpenUrl, FiltersTyped, FilterStep
<1>2. CASE FollowLink \/ Back \/ setLocale
  BY <1>2 DEF FollowLink, Back, setLocale, FiltersTyped, FilterStep
<1>3. CASE TypeQuery \/ PressGroup \/ PressView
  BY <1>3, PressStep
<1>4. CASE ClearFilters
  BY <1>4, ClearStep
<1>5. CASE StartScenario
  BY <1>5 DEF StartScenario, FiltersTyped, FilterStep
<1>6. CASE onNavigateEndpoint
  BY <1>6 DEF onNavigateEndpoint, FiltersTyped, FilterStep
<1>7. CASE UNCHANGED catalogVars
  BY <1>7 DEF catalogVars, FiltersTyped, FilterStep
<1>8. QED
  BY <1>1, <1>2, <1>3, <1>4, <1>5, <1>6, <1>7 DEF CatalogPageNext

\* search-schema.ts: whatever URL is opened, the filters in use are filters there are.
THEOREM FiltersAlwaysTyped == CatalogPageSpec => []FiltersTyped
<1>1. FiltersTyped /\ [CatalogPageNext]_catalogVars => FiltersTyped'
  BY FiltersStep
<1>2. QED
  BY FiltersInit, <1>1, PTL DEF CatalogPageSpec

\* onSearchChange, onNavigateEndpoint: filters change one by one, for any entries,
\* texts and order of navigation and scenarios.
THEOREM FiltersAlwaysOneByOne == CatalogPageSpec => FiltersChangeOneByOne
<1>1. FiltersTyped /\ [CatalogPageNext]_catalogVars =>
        [search' # search =>
           \/ \E field \in DOMAIN search : search' = [search EXCEPT ![field] = search'[field]]
           \/ visible(search) = {} /\ search'.view = search.view
           \/ search' = kept /\ kept' = NoneKept
           \/ OpenUrl]_catalogVars
  BY FiltersStep DEF FilterStep, OneChanged
<1>2. QED
  BY FiltersAlwaysTyped, <1>1, PTL DEF CatalogPageSpec, FiltersChangeOneByOne
====
