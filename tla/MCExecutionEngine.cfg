CONSTANTS
  Path = {"f", "g"}
  MaxIterations = 4
  Answers <- SmallAnswers
  BlockerThreshold = 3
SPECIFICATION FairSpec
INVARIANTS TypeOK SafeOrder AnsweredOnce Quiet
PROPERTIES KeepsContract StreamEnds
CHECK_DEADLOCK FALSE
