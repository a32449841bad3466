SPECIFICATION SchedFairSpec
CONSTANTS
  Insts = {i1}
  Tasks = {t1}
  TaskInst <- MCTaskInst
  Crons <- MCCrons
  Requests = {r1}
  Expiries = {2}
  Notice = 1
  Grace = 0
  MaxTime = 3
  Actions = {"start", "stop", "restart"}
  TaskActions = {"start"}
  MaxFaults = 1
 
CHECK_DEADLOCK FALSE
 
PROPERTY ExpiredIsStopped
 
