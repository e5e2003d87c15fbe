SPECIFICATION Spec
CONSTANTS
  MaxCalls = 2
  PanelEndpoints = {"auth-login-mfa", "api-key-create"}
  Edited = {"accessToken"}
  Selected = {"cookie"}
  Scenarios = {"demoLogin", "prepareSessions", "useDemoApiKey", "runSocial"}
  OtherTabs = TRUE
  Storage = {TRUE}
  Enrolled = {TRUE}
CHECK_DEADLOCK FALSE
INVARIANTS TypeOK ClearedStaysCleared
