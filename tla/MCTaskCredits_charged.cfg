SPECIFICATION MCSpec
CONSTANTS
  Tasks = {t1}
  Cancels = {}
  Cost = 2
  Charges = {1}
  InitialBalance = 5
  UserStatuses = {}
  MaxAttempts = 2
  MaxStalls = 1
  Timeouts = FALSE
  MaxCrashes = 0
  MaxFaults = 1
INVARIANT ChargedOnce
CHECK_DEADLOCK FALSE
