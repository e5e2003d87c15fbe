SPECIFICATION Spec
CONSTANTS
  MaxCalls = 3
  PanelEndpoints = {"auth-refresh", "auth-logout"}
  Edited = {}
  Selected = {"bearer", "cookie"}
  Scenarios = {"demoLogin"}
  OtherTabs = FALSE
  Storage = {TRUE, FALSE}
  Enrolled = {FALSE}
CHECK_DEADLOCK FALSE
INVARIANTS SpinnerTracksRequest VaultMirrorsStorage ReadyCarriesCredential CookieTokensStayOut VaultHoldsOnePair MutationsPassCsrf
PROPERTIES LatestWins LoginReadyTruthful
