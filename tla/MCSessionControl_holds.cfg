SPECIFICATION MCSpec
CONSTANTS
  Tasks = {1, 2}
  Requests = {3, 4}
  Casts = {{1, 2}, {1, 3, 4}, {1, 2, 3}}
  Brief = {{1, 2, 3}}
  MaxAttempts = 2
  MaxPhases = 2
  MaxRestarts = 1
INVARIANTS TypeOK HoldCanBeLifted 
PROPERTIES Settles
CHECK_DEADLOCK FALSE
