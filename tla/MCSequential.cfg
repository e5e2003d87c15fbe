SPECIFICATION FairSpec
CONSTANTS
  Sessions = {s1, s2}
  Tokens = {t1, t2, t3}
  Calls = {c1}
  Ops <- SequentialOps
  AbsoluteLifetime = 2
  InactivityWindow = 1
  BatchSize = 1
  MaxRetries = 1
  MaxTime = 3
  MaxStamp = 0
  None = None
PROPERTY SessionsPurged
INVARIANT SingleLiveToken
