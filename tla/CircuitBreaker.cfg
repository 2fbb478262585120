SPECIFICATION FairSpec
CONSTANTS
  Callers = {c1, c2, c3}
  FailureThreshold = 2
  FailureWindow = 2
  RecoveryWindow = 1
  SuccessThreshold = 2
INVARIANTS TypeOK KnowsItsFailure
PROPERTIES TripsExactly NeverWorsens Recovers
