SPECIFICATION FairSpec
CONSTANTS
  Task = {t1}
  t1 = t1
  NoTask = NoTask
  Lease = 2
  RenewAfter = 1
  Budget = 3
  MaxCrashes = 2
INVARIANTS
  NoEarlyExpiry
  ClaimsHeld
PROPERTIES
  KeepsTaskContract
  TasksSettle
