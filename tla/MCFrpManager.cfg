CONSTANTS
  Tunnels = {t1, t2, d1}
  DirectTunnels = {d1}
  Callers = {c1}
  Procs <- MCProcs
  Objects <- MCObjects
  MaxCalls = 4
  MaxCrashes = 1
  Overlap = FALSE
SPECIFICATION FrpSpec
INVARIANTS FrpcCarriesAnswers 
 
CHECK_DEADLOCK FALSE
