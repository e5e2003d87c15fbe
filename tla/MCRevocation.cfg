SPECIFICATION Spec
CONSTANTS
  Sessions = {s1, s2}
  Tokens = {t1, t2, t3}
  Calls = {c1, c2}
  Ops <- RevocationOps
  AbsoluteLifetime = 2
  InactivityWindow = 1
  BatchSize = 2
  MaxRetries = 0
  MaxTime = 3
  MaxStamp = 1
  None = None
SYMMETRY Symmetry
INVARIANTS TypeOK ReplayAlwaysDetected
PROPERTY NoMintAfterEnd
