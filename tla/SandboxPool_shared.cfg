CONSTANTS
  Clients = {c1, c2}
  Sandboxes = {s1, s2, s3}
  WarmPoolSize = 1
  MaxPoolSize = 2
  MaxLapses = 0
SPECIFICATION Spec
INVARIANTS ExclusiveUse
