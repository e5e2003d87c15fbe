SPECIFICATION Spec
CONSTANTS
  Sessions = {s1}
  Tokens = {t1, t2, t3, t4}
  Calls = {c1, c2}
  Ops <- RefreshOps
  AbsoluteLifetime = 2
  InactivityWindow = 1
  BatchSize = 1
  MaxRetries = 0
  MaxTime = 2
  MaxStamp = 0
  None = None
INVARIANT SingleLiveToken
