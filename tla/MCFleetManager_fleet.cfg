CONSTANTS
  a = a
  b = b
  c = c
  Task <- Three
  Graphs <- Shapes
  MaxParallel = 2
  Caller = {"p", "q"}
  RedisFails = TRUE
SPECIFICATION FairSpec
INVARIANTS TypeOK EndsWithAll ControlAgrees
PROPERTIES RespectsGraph StopIsHeeded FleetSettles
CONSTRAINT SmallCrowds
