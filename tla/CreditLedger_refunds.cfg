CONSTANTS
  Events = {e1}
  Unclear = {}
  Handlers = {h1}
  Tasks = {t1}
  Jobs = {"cron"}
  Default = 2
  Amount = 3
  Cost = 3
  Charges = {1}
  MaxFaults = 0
  MaxDuplicates = 0
SPECIFICATION Spec
INVARIANTS EarnedOnly
