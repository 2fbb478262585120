SPECIFICATION MCSpec
CONSTANTS
  Tasks = {t1, t2}
  Cancels = {c1, c2}
  Cost = 2
  Charges = {0, 3}
  InitialBalance = 5
  UserStatuses = {"paused"}
  MaxAttempts = 2
  MaxStalls = 1
  Timeouts = FALSE
  MaxCrashes = 1
  MaxFaults = 1
CONSTRAINT AloneOrCalm
SYMMETRY Symmetry
INVARIANTS TypeOK ReservedWithinHeld EachPaysItsOwn LedgerExplainsBalance
CHECK_DEADLOCK FALSE
