SPECIFICATION Spec
CONSTANTS
  MaxCalls = 2
  PanelEndpoints = {"auth-refresh"}
  Edited = {}
  Selected = {"cookie"}
  Scenarios = {"demoLogin", "prepareSessions", "useDemoApiKey", "runSocial"}
  OtherTabs = FALSE
  Storage = {TRUE}
  Enrolled = {TRUE, FALSE}
CHECK_DEADLOCK FALSE
PROPERTY EveryCallSettles
