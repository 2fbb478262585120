SPECIFICATION MCSpec
CONSTANTS
  Clients = {c1, c2}
  Sandboxes = {s1, s2, s3, s4}
  WarmPoolSize = 1
  MaxPoolSize = 3
  MaxLapses = 1
SYMMETRY Symmetry
INVARIANTS TypeOK NoLeak RefilledAtRest
  
