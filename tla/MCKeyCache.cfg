SPECIFICATION FairSpec
CONSTANTS
  Keys = {k1, k2}
  Tasks = {p1}
  Ops <- CacheOps
  Instances = {i1, i2}
  AccessLifetime = 1
  ClockSkew = 0
  Grace = 1
  Development = FALSE
  Distributed = TRUE
  RotationTime = 0
  MaxTime = 1
  None = None
PROPERTY ElapsedKeysRejected
