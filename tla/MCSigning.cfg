SPECIFICATION Spec
CONSTANTS
  Keys = {k1, k2, k3}
  Tasks = {p1, p2}
  Ops <- RingOps
  Instances = {i1}
  AccessLifetime = 1
  ClockSkew = 0
  Grace = 3
  Development = TRUE
  Distributed = FALSE
  RotationTime = 1
  MaxTime = 4
  None = None
SYMMETRY Symmetry
INVARIANTS TypeOK RingHasOneActive KidNamesSigner LiveTokensResolve
PROPERTY KeysMoveForward
