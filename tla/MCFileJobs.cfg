SPECIFICATION FairSpec
CONSTANTS
  NJobs = 1
  Users = {u1}
  Unreachable = {}
  Refused = {}
  PumpLimit = 1
  MaxCancels = 1
  MaxRestarts = 1
INVARIANT EndsForACause
INVARIANT NoWorkBehindFinishedRow
 
PROPERTY ReachableJobsSettle
CHECK_DEADLOCK FALSE
