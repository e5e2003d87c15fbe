SPECIFICATION Spec
CONSTANTS
  MaxCalls = 3
  PanelEndpoints = {"auth-logout"}
  Edited = {}
  Selected = {"cookie"}
  Scenarios = {"demoLogin"}
  OtherTabs = TRUE
  Storage = {TRUE}
  Enrolled = {FALSE}
CHECK_DEADLOCK FALSE
INVARIANT CsrfFailureRetried
