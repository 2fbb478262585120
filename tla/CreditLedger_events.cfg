CONSTANTS
  Events = {e1}
  Unclear = {e1}
  Handlers = {h1, h2}
  Tasks = {t1}
  Jobs = {"cron", "manual"}
  Default = 2
  Amount = 2
  Cost = 1
  Charges = {1}
  MaxFaults = 1
  MaxDuplicates = 1
SPECIFICATION FairSpec
INVARIANTS TypeOK AcknowledgedIsGranted GrantedOnce
PROPERTIES PaidArrives Converges
