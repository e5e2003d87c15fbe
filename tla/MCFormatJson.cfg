SPECIFICATION PanelSpec
CONSTANTS
  PanelIds = {"passkey-delete", "mfa-confirm"}
  MaxRequests = 2
  MaxSecrets = 1
CHECK_DEADLOCK FALSE
INVARIANT PanelSurvivesInvalidJson
