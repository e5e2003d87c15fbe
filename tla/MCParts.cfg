SPECIFICATION Spec
CONSTANTS
  PanelIds = {"passkey-delete", "mfa-confirm"}
  MaxRequests = 2
  MaxSecrets = 2
  Hits <- SearchHits
  Cards = {"health-live", "mfa-enroll"}
  Origins = {"https://page", "https://other"}
  PageOrigin = "https://page"
  MaxChecks = 3
  MaxToasts = 4
  Builds = {"a", "b"}
  MaxInstants = 2
  LoginMaxVus = 1
  RefreshMaxVus = 2
  MeMaxVus = 1
  BatchSize = 3
  MaxRotations = 3
  MaxCeremonies = 2
  Owners = {1, 2}
  OldOwner = 1
  CookieMode = {TRUE, FALSE}
  Counts = {TRUE, FALSE}
CHECK_DEADLOCK FALSE
INVARIANTS BadgesTellOrigin NoVuReplays SilentVuFailedACheck ChallengeOpensOneSession PasskeyKeepsItsUser
PROPERTIES ConfirmedOnceEach ResponseTakesTheTab CurlIsTheRequest LiveCodeFollowsSecret FiltersChangeOneByOne ErrorsStay BundleReproducible CounterBackOnlyByRace
