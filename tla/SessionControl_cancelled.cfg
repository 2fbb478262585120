SPECIFICATION Spec
CONSTANTS
  Tasks = {1}
  Requests = {2}
  MaxAttempts = 1
  MaxPhases = 2
  MaxRestarts = 0
PROPERTIES CancelStops
CHECK_DEADLOCK FALSE
