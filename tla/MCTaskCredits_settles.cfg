SPECIFICATION MCFairSpec
CONSTANTS
  Tasks = {t1}
  Cancels = {c1}
  Cost = 2
  Charges = {1}
  InitialBalance = 5
  UserStatuses = {}
  MaxAttempts = 2
  MaxStalls = 1
  Timeouts = TRUE
  MaxCrashes = 0
  MaxFaults = 0
INVARIANTS FiledOnce SettlerRemains RunnerRemains
PROPERTIES TaskEnds ReservationSettles
CHECK_DEADLOCK FALSE
