SPECIFICATION Spec
CONSTANTS
  Sessions = {s1}
  Tokens = {t1, t2, t3, t4}
  Calls = {c1, c2}
  Ops <- RotationOps
  AbsoluteLifetime = 3
  InactivityWindow = 2
  BatchSize = 1
  MaxRetries = 1
  MaxTime = 3
  MaxStamp = 0
  None = None
SYMMETRY Symmetry
INVARIANTS BoundedByLogin ReplayAlwaysDetected ChainLinked
PROPERTIES NoMintAfterEnd KeepsLifecycle
