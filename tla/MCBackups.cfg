SPECIFICATION Spec
CONSTANTS
  Hour = 1
  Policy <- MCPolicy
  Interval = 1
  Patience = 1
  Requests = {r1, r2}
  MaxTime = 4
  MaxFaults = 2
INVARIANT WholeBackupRemains
CHECK_DEADLOCK FALSE
PROPERTY ManualIsSpared
