SPECIFICATION ConsoleFairSpec
CONSTANTS
  Clients = {c1}
  Cap = 1
  IdleTicks = 1
  MaxUnits = 2
  MaxGen = 2
  MaxConnects = 1
  MaxCrash = 1
INVARIANT BroadcastOnce
INVARIANT DropsAreCounted
INVARIANT HistoryMeetsLive
PROPERTY WrittenIsSaid
CHECK_DEADLOCK FALSE
