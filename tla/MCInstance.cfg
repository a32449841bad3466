\* Two calls, three launches, one end of the Daemon; safety and liveness.
SPECIFICATION FairSpec
CONSTANTS
  Clients = {c1, c2}
  Boot = boot
  Ops = {"start", "stop", "kill", "restart", "delete"}
  MaxProcs = 3
  MaxCalls = 2
  MaxCrash = 1
INVARIANT OneManagedServer
INVARIANT HookBeforeRestart
INVARIANT CountedUnlessReplaced
INVARIANT PidRecordNamesServer
PROPERTY HookCutsOwnTunnel
PROPERTY DeadServerIsNoticed
PROPERTY RestartReturns
CHECK_DEADLOCK FALSE
