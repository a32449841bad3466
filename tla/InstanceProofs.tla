--------------------------- MODULE InstanceProofs ---------------------------
(***************************************************************************)
(* Theorems about Instance, for any clients and any bounds.  The inductive *)
(* invariant is IInv of Instance: TypeOK and Facts.                        *)
(***************************************************************************)
EXTENDS Instance, TLAPS

\* The variables Facts speaks of.
factVars == <<proc, started, up, status, cmd, adopted, gen, recorded, counted,
              registered, wpc, xpc, wa, was>>

LEMMA FactsStutter == Facts /\ UNCHANGED factVars => Facts'
  BY DEF Facts, factVars, LaunchOrder, OneServer, WaiterFacts, AdoptionFacts,
         WatcherFacts, DownFacts, RecordFacts, HookBeforeRestart, NoUnmanagedServer,
         CountedUnlessReplaced, Runs, Current

\* What Next does, one disjunct per action, for the case splits below.
LEMMA NextCases ==
  ASSUME Next
  PROVE  \/ \E c \in Clients, op \in Ops : Call(c, op)
         \/ \E c \in Actors, p \in Procs : StartProcess(c, p)
         \/ \E c \in Actors : StartFails(c)
         \/ \E c \in Actors : StopManaged(c)
         \/ \E c \in Actors : StopAdopted(c)
         \/ \E c \in Actors : KillAdopted(c)
         \/ \E c \in Actors : KillManaged(c)
         \/ \E c \in Actors : Forget(c)
         \/ \E c \in Actors :
              \/ StopRefused(c) \/ WaitEnds(c) \/ WaitTimesOut(c) \/ KillRefused(c)
              \/ Unregister(c) \/ BootCheck(c)
         \/ \E c \in Actors : Untunnel(c) \/ Resume(c) \/ Launch(c) \/ Detunnel(c)
         \/ \E p \in Procs : Die(p)
         \/ \E p \in Procs : WaitReturns(p)
         \/ \E p \in Procs : FireExit(p)
         \/ \E p \in Procs : Finish(p)
         \/ \E p \in Procs : ExitCheckCmd(p) \/ ExitLook(p)
         \/ \E p \in Procs : ExitCount(p)
         \/ AdoptedLook \/ AdoptedFireExit \/ AdoptedLock \/ AdoptedRemove
         \/ \E w \in was : AdoptedStopSees(w)
         \/ \E w \in was : AdoptedStopGivesUp(w)
         \/ DaemonEnds
         \/ Load
  BY DEF Next, Handler, Waiter, WatchExit, WatchAdopted

-----------------------------------------------------------------------------
(* Type correctness.                                                       *)

LEMMA TypeInit == Init => TypeOK
<1> SUFFICES ASSUME Init PROVE TypeOK
  OBVIOUS
<1>1. cl \in [Actors -> [op : Ops \cup {"none", "boot"}, pc : HandlerPCs]]
  BY DEF Init, Idle, HandlerPCs
<1>2. wa \in [pid : 0..MaxProcs, gen : Nat, count : BOOLEAN,
              pc : {"none", "poll", "hook", "lock", "remove", "done"}]
  BY ConstantsAssumption DEF Init, NoWatch
<1>3. started \in 0..MaxProcs /\ 0 \in 0..MaxProcs
  BY ConstantsAssumption DEF Init
<1> QED BY <1>1, <1>2, <1>3 DEF Init, TypeOK, ProcStates

\* The call of one actor moves to another place, or returns.
LEMMA MoveType ==
  ASSUME NEW c \in Actors, NEW pc \in HandlerPCs,
         cl \in [Actors -> [op : Ops \cup {"none", "boot"}, pc : HandlerPCs]],
         Goto(c, pc) \/ Return(c)
  PROVE  cl' \in [Actors -> [op : Ops \cup {"none", "boot"}, pc : HandlerPCs]]
<1>1. CASE Goto(c, pc)
  <2>1. cl[c] \in [op : Ops \cup {"none", "boot"}, pc : HandlerPCs]
    OBVIOUS
  <2>2. [cl[c] EXCEPT !.pc = pc] \in [op : Ops \cup {"none", "boot"}, pc : HandlerPCs]
    BY <2>1
  <2> QED BY <1>1, <2>2 DEF Goto
<1>2. CASE Return(c)
  BY <1>2 DEF Return, Idle, HandlerPCs
<1> QED BY <1>1, <1>2

LEMMA PlacesAreKnown ==
  {"start", "resume", "launch", "stop", "wait", "kill", "wait2", "untunnel",
   "unregister", "forget", "detunnel"} \subseteq HandlerPCs
  BY DEF HandlerPCs

\* The parts of TypeOK, so that a step below names only what it changes.
procTypes  == proc \in [Procs -> ProcStates] /\ started \in 0..MaxProcs
memTypes   == /\ status \in {"running", "stopped", "error"}
              /\ cmd \in 0..MaxProcs /\ adopted \in 0..MaxProcs /\ gen \in Nat
diskTypes  == pidFile \in 0..MaxProcs /\ counted \subseteq Procs
frpcType   == frpc \in 0..MaxProcs
flagTypes  == /\ up \in BOOLEAN /\ recorded \in BOOLEAN /\ registered \in BOOLEAN
              /\ tunnels \in BOOLEAN /\ held \in BOOLEAN
watchTypes ==
  /\ wpc \in [Procs -> {"none", "wait", "hook", "finish", "done"}]
  /\ xpc \in [Procs -> {"none", "poll", "look", "count", "done"}]
  /\ was \subseteq [pid : 0..MaxProcs, gen : Nat]
waType     == wa \in [pid : 0..MaxProcs, gen : Nat, count : BOOLEAN,
                      pc : {"none", "poll", "hook", "lock", "remove", "done"}]
callTypes  == cl \in [Actors -> [op : Ops \cup {"none", "boot"}, pc : HandlerPCs]]
boundTypes == calls \in Nat /\ crashes \in Nat

LEMMA TypeParts ==
  /\ TypeOK => /\ procTypes /\ memTypes /\ diskTypes /\ frpcType /\ flagTypes
               /\ watchTypes /\ waType /\ callTypes /\ boundTypes
  /\ (/\ procTypes /\ memTypes /\ diskTypes /\ frpcType /\ flagTypes
      /\ watchTypes /\ waType /\ callTypes /\ boundTypes)' => TypeOK'
  BY DEF TypeOK, procTypes, memTypes, diskTypes, frpcType, flagTypes, watchTypes, waType,
         callTypes, boundTypes

LEMMA HandlerTypes ==
  ASSUME TypeOK, Facts, NEW c \in Actors, Handler(c)
  PROVE  TypeOK'
<1> USE ConstantsAssumption DEF Procs
<1>0. /\ procTypes /\ memTypes /\ diskTypes /\ frpcType /\ flagTypes
      /\ watchTypes /\ waType /\ callTypes /\ boundTypes
  BY TypeParts
<1>1. callTypes'
  <2>1. Return(c) \/ \E pc \in HandlerPCs : Goto(c, pc)
    BY PlacesAreKnown
       DEF Handler, StartProcess, StartFails, StopManaged, StopAdopted, StopRefused,
           WaitEnds, AfterWait, WaitTimesOut, KillAdopted, KillManaged, KillRefused,
           Untunnel, Resume, Launch, Unregister, Forget, Detunnel, BootCheck, Finished
  <2> QED BY <1>0, <2>1, MoveType DEF callTypes
<1>2. procTypes'
  BY <1>0 DEF Handler, StartProcess, Spawn, StartFails, StopManaged, StopAdopted, StopRefused,
         WaitEnds, WaitTimesOut, KillAdopted, KillManaged, KillRefused, SigKill,
         Untunnel, Resume, Launch, Unregister, Forget, Detunnel, BootCheck, procVars,
         procTypes, ProcStates
<1>3. memTypes'
  <2>1. CASE \E p \in Procs : StartProcess(c, p)
    <3>1. gen' \in Nat /\ cmd' \in 0..MaxProcs
      BY <1>0, <2>1 DEF StartProcess, memTypes
    <3>2. status' = "running" /\ adopted' = 0
      BY <2>1 DEF StartProcess
    <3> QED BY <3>1, <3>2 DEF memTypes
  <2>2. CASE StartFails(c)
    BY <1>0, <2>2 DEF StartFails, memTypes
  <2>3. CASE StopManaged(c) \/ KillAdopted(c) \/ KillManaged(c)
    <3>1. /\ status' \in {status, "stopped"} /\ adopted' \in {adopted, 0}
          /\ cmd' = cmd /\ gen' = gen
      BY <2>3 DEF StopManaged, KillAdopted, KillManaged
    <3> QED BY <1>0, <3>1 DEF memTypes
  <2>4. UNCHANGED instanceVars => memTypes'
    BY <1>0 DEF instanceVars, memTypes
  <2> QED
    BY <2>1, <2>2, <2>3, <2>4
       DEF Handler, StopAdopted, StopRefused, WaitEnds, WaitTimesOut, KillRefused,
           Untunnel, Resume, Launch, Unregister, Forget, Detunnel, BootCheck
<1>4. diskTypes'
  <2>1. CASE \E p \in Procs : StartProcess(c, p)
    BY <1>0, <2>1 DEF StartProcess, diskTypes
  <2>2. CASE StopManaged(c)
    BY <1>0, <2>2 DEF StopManaged, diskTypes, memTypes, Facts, AdoptionFacts, Current
  <2>3. CASE KillAdopted(c) \/ KillManaged(c)
    <3>1. /\ pidFile' \in {pidFile, 0}
          /\ \E p \in Procs : counted' = counted \cup {p}
      BY <1>0, <2>3 DEF KillAdopted, KillManaged, memTypes
    <3> QED BY <1>0, <3>1 DEF diskTypes
  <2>4. CASE Forget(c)
    <3>1. pidFile' = 0 /\ counted' = counted
      BY <2>4 DEF Forget
    <3> QED BY <1>0, <3>1 DEF diskTypes
  <2>5. UNCHANGED diskVars => diskTypes'
    BY <1>0 DEF diskVars, diskTypes
  <2> QED
    BY <2>1, <2>2, <2>3, <2>4, <2>5
       DEF Handler, StartFails, StopAdopted, StopRefused, WaitEnds, WaitTimesOut,
           KillRefused, Untunnel, Resume, Launch, Unregister, Detunnel, BootCheck
<1>5. frpcType'
  <2>1. frpc' \in {frpc, 0, Current}
    BY DEF Handler, StartProcess, StartFails, StopManaged, StopAdopted, StopRefused,
         WaitEnds, WaitTimesOut, KillAdopted, KillManaged, KillRefused, Untunnel, Resume,
         Launch, Unregister, Forget, Detunnel, BootCheck, CutTunnel, frpVars
  <2> QED BY <1>0, <2>1 DEF frpcType, memTypes, Current
<1>6. flagTypes'
  <2>1. /\ up' = up
        /\ recorded' \in {recorded, TRUE, FALSE}
        /\ registered' \in {registered, FALSE}
        /\ tunnels' \in {tunnels, FALSE}
        /\ held' \in {held, FALSE, tunnels}
    BY DEF Handler, StartProcess, StartFails, StopManaged, StopAdopted, StopRefused,
         WaitEnds, WaitTimesOut, KillAdopted, KillManaged, KillRefused, Untunnel, Resume,
         Launch, Unregister, Forget, Detunnel, BootCheck, CutTunnel, frpVars, instanceVars, diskVars
  <2> QED BY <1>0, <2>1 DEF flagTypes
<1>7. watchTypes' /\ waType'
  BY <1>0 DEF Handler, StartProcess, StartFails, StopManaged, StopAdopted, StopRefused,
         WaitEnds, WaitTimesOut, KillAdopted, KillManaged, KillRefused, Untunnel, Resume,
         Launch, Unregister, Forget, Detunnel, BootCheck, Spawn, watchVars, watchTypes, waType, memTypes
<1>8. boundTypes'
  BY <1>0 DEF Handler, StartProcess, StartFails, StopManaged, StopAdopted, StopRefused,
         WaitEnds, WaitTimesOut, KillAdopted, KillManaged, KillRefused, Untunnel, Resume,
         Launch, Unregister, Forget, Detunnel, BootCheck, boundVars, boundTypes
<1> QED BY <1>1, <1>2, <1>3, <1>4, <1>5, <1>6, <1>7, <1>8, TypeParts

LEMMA WatcherTypes ==
  ASSUME TypeOK, Facts,
         \/ \E p \in Procs : Die(p) \/ Waiter(p) \/ WatchExit(p)
         \/ WatchAdopted
         \/ \E w \in was : AdoptedStopSees(w) \/ AdoptedStopGivesUp(w)
  PROVE  TypeOK'
<1> USE ConstantsAssumption DEF Procs
<1>0. /\ procTypes /\ memTypes /\ diskTypes /\ frpcType /\ flagTypes
      /\ watchTypes /\ waType /\ callTypes /\ boundTypes
  BY TypeParts
<1>1. callTypes' /\ boundTypes'
  BY <1>0 DEF Die, Waiter, WaitReturns, FireExit, Finish, WatchExit, ExitCheckCmd, ExitLook,
         ExitCount, WatchAdopted, AdoptedLook, AdoptedFireExit, AdoptedLock, AdoptedRemove,
         AdoptedStopSees, AdoptedStopGivesUp, boundVars, callTypes, boundTypes
<1>2. procTypes'
  BY <1>0 DEF Die, Waiter, WaitReturns, FireExit, Finish, WatchExit, ExitCheckCmd, ExitLook,
         ExitCount, WatchAdopted, AdoptedLook, AdoptedFireExit, AdoptedLock, AdoptedRemove,
         AdoptedStopSees, AdoptedStopGivesUp, procVars, procTypes, ProcStates
<1>3. memTypes'
  BY <1>0 DEF Die, Waiter, WaitReturns, FireExit, Finish, WatchExit, ExitCheckCmd, ExitLook,
         ExitCount, WatchAdopted, AdoptedLook, AdoptedFireExit, AdoptedLock, AdoptedRemove,
         AdoptedStopSees, AdoptedStopGivesUp, instanceVars, memTypes
<1>4. diskTypes'
  BY <1>0 DEF Die, Waiter, WaitReturns, FireExit, Finish, WatchExit, ExitCheckCmd, ExitLook,
         ExitCount, WatchAdopted, AdoptedLook, AdoptedFireExit, AdoptedLock, AdoptedRemove,
         AdoptedStopSees, AdoptedStopGivesUp, diskVars, diskTypes, procTypes, Facts, WatcherFacts
<1>5. frpcType'
  <2>1. frpc' \in {frpc, 0}
    BY DEF Die, Waiter, WaitReturns, FireExit, Finish, WatchExit, ExitCheckCmd, ExitLook,
         ExitCount, WatchAdopted, AdoptedLook, AdoptedFireExit, AdoptedLock, AdoptedRemove,
         AdoptedStopSees, AdoptedStopGivesUp, CutTunnel, frpVars
  <2> QED BY <1>0, <2>1 DEF frpcType
<1>6. flagTypes'
  <2>1. UNCHANGED <<up, recorded, registered, tunnels>> /\ held' \in {held, FALSE}
    BY DEF Die, Waiter, WaitReturns, FireExit, Finish, WatchExit, ExitCheckCmd, ExitLook,
         ExitCount, WatchAdopted, AdoptedLook, AdoptedFireExit, AdoptedLock, AdoptedRemove,
         AdoptedStopSees, AdoptedStopGivesUp, CutTunnel, frpVars, instanceVars, diskVars
  <2> QED BY <1>0, <2>1 DEF flagTypes
<1>7. watchTypes'
  BY <1>0 DEF Die, Waiter, WaitReturns, FireExit, Finish, WatchExit, ExitCheckCmd, ExitLook,
         ExitCount, WatchAdopted, AdoptedLook, AdoptedFireExit, AdoptedLock, AdoptedRemove,
         AdoptedStopSees, AdoptedStopGivesUp, watchVars, watchTypes
<1>8. waType'
  <2>1. CASE AdoptedLock
    <3>1. PICK b \in BOOLEAN, pc \in {"remove", "done"} :
            wa' = [wa EXCEPT !.pc = pc, !.count = b]
      BY <2>1 DEF AdoptedLock
    <3> QED BY <1>0, <3>1 DEF waType
  <2>2. CASE AdoptedLook \/ AdoptedFireExit \/ AdoptedRemove
    BY <1>0, <2>2 DEF AdoptedLook, AdoptedFireExit, AdoptedRemove, waType
  <2>3. wa' = wa => waType'
    BY <1>0 DEF waType
  <2> QED
    BY <2>1, <2>2, <2>3
       DEF Die, Waiter, WaitReturns, FireExit, Finish, WatchExit, ExitCheckCmd, ExitLook,
           ExitCount, WatchAdopted, AdoptedStopSees, AdoptedStopGivesUp, watchVars
<1> QED BY <1>1, <1>2, <1>3, <1>4, <1>5, <1>6, <1>7, <1>8, TypeParts

LEMMA DaemonTypes ==
  ASSUME TypeOK, Facts,
         \/ \E c \in Clients, op \in Ops : Call(c, op)
         \/ DaemonEnds
         \/ Load
         \/ UNCHANGED vars
  PROVE  TypeOK'
<1> USE ConstantsAssumption DEF Procs
<1>1. CASE \E c \in Clients, op \in Ops : Call(c, op)
  <2>1. PICK c \in Clients, op \in Ops : Call(c, op)
    BY <1>1
  <2>2. Actors = Clients \cup {Boot} /\ FirstStep(op) \in HandlerPCs
    BY DEF Actors, FirstStep, HandlerPCs
  <2>3. cl' \in [Actors -> [op : Ops \cup {"none", "boot"}, pc : HandlerPCs]]
    BY <2>1, <2>2 DEF Call, Idle, HandlerPCs, TypeOK
  <2>4. calls' \in Nat
    BY <2>1 DEF Call, TypeOK
  <2> QED
    BY <2>1, <2>3, <2>4
       DEF Call, TypeOK, procVars, instanceVars, diskVars, frpVars, watchVars
<1>2. CASE DaemonEnds
  <2>1. Exit
    BY <1>2 DEF DaemonEnds, Shutdown, Crash, CrashInStart
  <2>2. cl' \in [Actors -> [op : Ops \cup {"none", "boot"}, pc : HandlerPCs]]
    BY <2>1 DEF Exit, Idle, HandlerPCs
  <2>3. wa' \in [pid : 0..MaxProcs, gen : Nat, count : BOOLEAN,
                 pc : {"none", "poll", "hook", "lock", "remove", "done"}]
    BY <2>1 DEF Exit, NoWatch
  <2>4. Reaped \in [Procs -> ProcStates]
    BY DEF Reaped, TypeOK, ProcStates
  <2>5. proc' \in [Procs -> ProcStates] /\ started' \in 0..MaxProcs
    BY <1>2, <2>4 DEF DaemonEnds, Shutdown, Crash, CrashInStart, TypeOK, ProcStates
  <2>6. frpc' \in 0..MaxProcs
    BY <1>2 DEF DaemonEnds, Shutdown, Crash, CrashInStart, TypeOK
  <2>7. crashes' \in Nat
    BY <2>1 DEF Exit, TypeOK
  <2>8. /\ up' = FALSE /\ recorded' = FALSE /\ held' = FALSE
        /\ UNCHANGED <<registered, tunnels>>
    BY <2>1 DEF Exit
  <2>9. up' \in BOOLEAN /\ recorded' \in BOOLEAN /\ held' \in BOOLEAN
        /\ registered' \in BOOLEAN /\ tunnels' \in BOOLEAN
    BY <2>8 DEF TypeOK
  <2>10. /\ status' = "stopped" /\ cmd' = 0 /\ adopted' = 0 /\ gen' = 0
         /\ wpc' = [p \in Procs |-> "none"] /\ xpc' = [p \in Procs |-> "none"]
         /\ was' = {} /\ UNCHANGED <<pidFile, counted, calls>>
    BY <2>1 DEF Exit
  <2> QED BY <2>2, <2>3, <2>5, <2>6, <2>7, <2>9, <2>10 DEF TypeOK
<1>3. CASE Load
  <2>1. (\E p \in Procs : Adopt(p)) \/ StayStopped
    BY <1>3 DEF Load, Orphans, IsAlive
  <2>2. /\ status' \in {"running", "stopped", "error"}
        /\ adopted' \in 0..MaxProcs /\ gen' \in Nat
        /\ wa' \in [pid : 0..MaxProcs, gen : Nat, count : BOOLEAN,
                    pc : {"none", "poll", "hook", "lock", "remove", "done"}]
        /\ cl' \in [Actors -> [op : Ops \cup {"none", "boot"}, pc : HandlerPCs]]
    <3>1. CASE StayStopped
      BY <3>1 DEF StayStopped, TypeOK
    <3>2. CASE \E p \in Procs : Adopt(p)
      <4>1. PICK p \in Procs : Adopt(p)
        BY <3>2
      <4>2. status' = "running" /\ adopted' \in 0..MaxProcs /\ gen' = 1
        BY <4>1 DEF Adopt
      <4>3. wa' = [pid |-> p, gen |-> 1, count |-> FALSE, pc |-> "poll"]
        BY <4>1 DEF Adopt, NoWatch
      <4>4. cl' = [cl EXCEPT ![Boot] = [op |-> "boot", pc |-> "boot"]]
        BY <4>1 DEF Adopt
      <4>5. [op |-> "boot", pc |-> "boot"] \in [op : Ops \cup {"none", "boot"}, pc : HandlerPCs]
        BY DEF HandlerPCs
      <4>6. cl' \in [Actors -> [op : Ops \cup {"none", "boot"}, pc : HandlerPCs]]
        BY <4>4, <4>5 DEF TypeOK
      <4>7. wa' \in [pid : 0..MaxProcs, gen : Nat, count : BOOLEAN,
                     pc : {"none", "poll", "hook", "lock", "remove", "done"}]
        BY <4>3
      <4> QED BY <4>2, <4>6, <4>7
    <3> QED BY <2>1, <3>1, <3>2
  <2>3. up' \in BOOLEAN /\ tunnels' \in BOOLEAN
    BY <1>3 DEF Load, TypeOK
  <2>4. UNCHANGED <<procVars, cmd, recorded, diskVars, frpc, held, wpc, xpc, was, boundVars>>
    BY <1>3 DEF Load
  <2> QED BY <2>2, <2>3, <2>4 DEF TypeOK, procVars, diskVars, boundVars
<1>4. CASE UNCHANGED vars
  BY <1>4 DEF TypeOK, vars, instanceVars, diskVars, frpVars, watchVars, boundVars
<1> QED BY <1>1, <1>2, <1>3, <1>4

-----------------------------------------------------------------------------
(* The facts, action by action.                                            *)

LEMMA FactsInit == Init => Facts
  BY ConstantsAssumption
     DEF Init, Facts, LaunchOrder, OneServer, WaiterFacts, AdoptionFacts, WatcherFacts,
         DownFacts, RecordFacts, HookBeforeRestart, NoUnmanagedServer,
         CountedUnlessReplaced, Runs, Current, NoWatch, Procs

LEMMA FactsStart ==
  ASSUME IInv, NEW c \in Actors, NEW p \in Procs, StartProcess(c, p)
  PROVE  Facts'
<1> USE ConstantsAssumption DEF Procs
<1>1. /\ up /\ status # "running" /\ p = started + 1
      /\ \A q \in Procs : ~Runs(q)
      /\ proc' = [proc EXCEPT ![p] = "alive"] /\ started' = p
      /\ cmd' = p /\ status' = "running" /\ adopted' = 0 /\ gen' = gen + 1
      /\ recorded' = FALSE
      /\ wpc' = [wpc EXCEPT ![p] = "wait"] /\ xpc' = [xpc EXCEPT ![p] = "poll"]
      /\ UNCHANGED <<up, registered, counted, wa, was>>
  BY DEF StartProcess, At, StartAllowed, Orphans, Spawn
<1>2. LaunchOrder' /\ OneServer'
  BY <1>1 DEF IInv, TypeOK, Facts, LaunchOrder, OneServer, Runs
<1>3. WaiterFacts'
  BY <1>1 DEF IInv, TypeOK, Facts, LaunchOrder, WaiterFacts
<1>4. AdoptionFacts' /\ DownFacts' /\ RecordFacts'
  BY <1>1 DEF IInv, TypeOK, AdoptionFacts, DownFacts, RecordFacts, Current
<1>5. WatcherFacts'
  BY <1>1 DEF IInv, TypeOK, Facts, WatcherFacts
<1>6. HookBeforeRestart'
  BY <1>1 DEF IInv, TypeOK, Facts, HookBeforeRestart
<1>7. NoUnmanagedServer'
  BY <1>1 DEF IInv, TypeOK, NoUnmanagedServer, Runs, Current
<1>8. CountedUnlessReplaced'
  BY <1>1 DEF IInv, TypeOK, CountedUnlessReplaced
<1> QED BY <1>2, <1>3, <1>4, <1>5, <1>6, <1>7, <1>8 DEF Facts

\* The status a failed start leaves is not "running", and no waiter is left.
LEMMA FactsStartFails ==
  ASSUME IInv, NEW c \in Actors, StartFails(c)
  PROVE  Facts'
<1>1. \/ status' = status
      \/ /\ up /\ status # "running" /\ status' = "error"
         /\ \A q \in Procs : ~Runs(q)
  BY DEF StartFails, StartAllowed, Orphans, At
<1>2. UNCHANGED <<proc, started, up, cmd, adopted, gen, recorded, counted, registered,
                  wpc, xpc, wa, was>>
  BY DEF StartFails, procVars, diskVars, watchVars
<1> QED
  BY <1>1, <1>2
     DEF IInv, Facts, LaunchOrder, OneServer, WaiterFacts, AdoptionFacts, WatcherFacts,
         DownFacts, RecordFacts, HookBeforeRestart, NoUnmanagedServer,
         CountedUnlessReplaced, Runs, Current

LEMMA FactsStopManaged ==
  ASSUME IInv, NEW c \in Actors, StopManaged(c)
  PROVE  Facts'
<1>1. /\ recorded' = TRUE /\ counted' = counted \cup {cmd}
      /\ UNCHANGED <<proc, started, up, status, cmd, adopted, gen, registered,
                     wpc, xpc, wa, was>>
  BY DEF StopManaged, procVars, watchVars
<1> QED
  BY <1>1
     DEF IInv, Facts, LaunchOrder, OneServer, WaiterFacts, AdoptionFacts, WatcherFacts,
         DownFacts, RecordFacts, HookBeforeRestart, NoUnmanagedServer,
         CountedUnlessReplaced, Runs, Current

LEMMA FactsStopAdopted ==
  ASSUME IInv, NEW c \in Actors, StopAdopted(c)
  PROVE  Facts'
<1> USE ConstantsAssumption DEF Procs
<1>1. /\ up /\ IsAlive(adopted)
      /\ was' = was \cup {[pid |-> adopted, gen |-> gen]}
      /\ UNCHANGED <<proc, started, up, status, cmd, adopted, gen, recorded, counted,
                     registered, wpc, xpc, wa>>
  BY DEF StopAdopted, At, procVars, instanceVars, diskVars
<1>2. adopted \in 1..started /\ cmd = 0
  BY <1>1 DEF IInv, TypeOK, Facts, LaunchOrder, AdoptionFacts, IsAlive
<1>3. WatcherFacts' /\ DownFacts'
  BY <1>1, <1>2 DEF IInv, TypeOK, Facts, WatcherFacts, DownFacts
<1> QED
  BY <1>1, <1>3
     DEF IInv, Facts, LaunchOrder, OneServer, WaiterFacts, AdoptionFacts, RecordFacts,
         HookBeforeRestart, NoUnmanagedServer, CountedUnlessReplaced, Runs, Current

LEMMA FactsKillAdopted ==
  ASSUME IInv, NEW c \in Actors, KillAdopted(c)
  PROVE  Facts'
<1>1. /\ up /\ adopted # 0
      /\ SigKill(adopted)
      /\ status' = "stopped" /\ adopted' = 0 /\ recorded' = TRUE
      /\ counted' = counted \cup {adopted}
      /\ UNCHANGED <<started, up, cmd, gen, registered, wpc, xpc, wa, was>>
  BY DEF KillAdopted, At, watchVars
<1>2. adopted \in Procs /\ cmd = 0
  BY <1>1 DEF IInv, TypeOK, Facts, AdoptionFacts, Procs
<1>3. \A p \in Procs :
        /\ proc'[p] = proc[p] \/ (p = adopted /\ Runs(p) /\ proc'[p] = "killed")
        /\ p = adopted => proc'[p] # "alive"
  BY <1>1, <1>2 DEF SigKill, Runs, IInv, TypeOK
<1>4. LaunchOrder' /\ OneServer' /\ WaiterFacts'
  BY <1>1, <1>2, <1>3 DEF IInv, Facts, LaunchOrder, OneServer, WaiterFacts, Runs
<1>5. AdoptionFacts' /\ DownFacts' /\ RecordFacts'
  BY <1>1, <1>2 DEF AdoptionFacts, DownFacts, RecordFacts
<1>6. WatcherFacts'
  BY <1>1, <1>2, <1>3 DEF IInv, TypeOK, Facts, LaunchOrder, WatcherFacts, Runs, Procs
<1>7. HookBeforeRestart' /\ CountedUnlessReplaced'
  BY <1>1, <1>2 DEF IInv, Facts, HookBeforeRestart, CountedUnlessReplaced, Procs
<1>8. NoUnmanagedServer'
  BY <1>1, <1>2, <1>3 DEF IInv, Facts, NoUnmanagedServer, Current
<1> QED BY <1>4, <1>5, <1>6, <1>7, <1>8 DEF Facts

LEMMA FactsKillManaged ==
  ASSUME IInv, NEW c \in Actors, KillManaged(c)
  PROVE  Facts'
<1>1. /\ up /\ adopted = 0 /\ cmd # 0
      /\ SigKill(cmd)
      /\ recorded' = TRUE /\ counted' = counted \cup {cmd}
      /\ UNCHANGED <<started, up, status, cmd, adopted, gen, registered, wpc, xpc, wa, was>>
  BY DEF KillManaged, At, watchVars
<1>2. \A p \in Procs :
        proc'[p] = proc[p] \/ (p = cmd /\ Runs(p) /\ proc'[p] = "killed")
  BY <1>1 DEF SigKill, Runs, IInv, TypeOK
<1>3. LaunchOrder' /\ OneServer' /\ WaiterFacts'
  BY <1>1, <1>2 DEF IInv, Facts, LaunchOrder, OneServer, WaiterFacts, Runs
<1>4. WatcherFacts'
  BY <1>1, <1>2 DEF IInv, TypeOK, Facts, LaunchOrder, WatcherFacts, Runs, Procs
<1>5. NoUnmanagedServer'
  BY <1>1, <1>2 DEF IInv, Facts, NoUnmanagedServer, Current
<1> QED
  BY <1>1, <1>3, <1>4, <1>5
     DEF IInv, Facts, AdoptionFacts, DownFacts, RecordFacts, HookBeforeRestart,
         CountedUnlessReplaced, Current

LEMMA FactsForget ==
  ASSUME IInv, NEW c \in Actors, Forget(c)
  PROVE  Facts'
<1>1. /\ registered' = FALSE
      /\ UNCHANGED <<proc, started, up, status, cmd, adopted, gen, recorded, counted,
                     wpc, xpc, wa, was>>
  BY DEF Forget, procVars, instanceVars, watchVars
<1> QED
  BY <1>1
     DEF IInv, Facts, LaunchOrder, OneServer, WaiterFacts, AdoptionFacts, WatcherFacts,
         DownFacts, RecordFacts, HookBeforeRestart, NoUnmanagedServer,
         CountedUnlessReplaced, Runs, Current

\* The steps of the goroutines that wait for processes.
LEMMA FactsDie ==
  ASSUME IInv, NEW p \in Procs, Die(p)
  PROVE  Facts'
<1>1. /\ Runs(p)
      /\ proc' = [proc EXCEPT ![p] = IF wpc[p] = "wait" THEN "zombie" ELSE "dead"]
      /\ UNCHANGED <<started, up, status, cmd, adopted, gen, recorded, counted, registered,
                     wpc, xpc, wa, was>>
  BY DEF Die, instanceVars, diskVars, watchVars
<1>2. LaunchOrder' /\ OneServer' /\ WaiterFacts'
  BY <1>1 DEF IInv, TypeOK, Facts, LaunchOrder, OneServer, WaiterFacts, Runs
<1>3. WatcherFacts'
  BY <1>1 DEF IInv, TypeOK, Facts, LaunchOrder, WatcherFacts, Runs, Procs
<1>4. NoUnmanagedServer'
  BY <1>1 DEF IInv, TypeOK, Facts, NoUnmanagedServer, Current
<1> QED
  BY <1>1, <1>2, <1>3, <1>4
     DEF IInv, Facts, AdoptionFacts, DownFacts, RecordFacts, HookBeforeRestart,
         CountedUnlessReplaced, Current

LEMMA FactsWaiter ==
  ASSUME IInv, NEW p \in Procs, Waiter(p)
  PROVE  Facts'
<1> USE ConstantsAssumption DEF Procs
<1>1. CASE WaitReturns(p)
  <2>1. /\ wpc[p] = "wait" /\ proc[p] = "zombie"
        /\ proc' = [proc EXCEPT ![p] = "dead"]
        /\ wpc' = [wpc EXCEPT ![p] = "hook"]
        /\ UNCHANGED <<started, up, status, cmd, adopted, gen, recorded, counted,
                       registered, xpc, wa, was>>
    BY <1>1 DEF WaitReturns, instanceVars, diskVars
  <2>2. LaunchOrder' /\ OneServer' /\ WaiterFacts'
    BY <2>1 DEF IInv, TypeOK, Facts, LaunchOrder, OneServer, WaiterFacts, Runs
  <2>3. WatcherFacts' /\ HookBeforeRestart'
    BY <2>1 DEF IInv, TypeOK, Facts, WatcherFacts, HookBeforeRestart
  <2>4. NoUnmanagedServer'
    BY <2>1 DEF IInv, TypeOK, Facts, NoUnmanagedServer, Current
  <2> QED
    BY <2>1, <2>2, <2>3, <2>4
       DEF IInv, Facts, AdoptionFacts, DownFacts, RecordFacts, CountedUnlessReplaced, Current
<1>2. CASE FireExit(p)
  <2>1. /\ wpc[p] = "hook" /\ wpc' = [wpc EXCEPT ![p] = "finish"]
        /\ UNCHANGED <<proc, started, up, status, cmd, adopted, gen, recorded, counted,
                       registered, xpc, wa, was>>
    BY <1>2 DEF FireExit, procVars, instanceVars, diskVars
  <2>2. WaiterFacts' /\ HookBeforeRestart'
    BY <2>1 DEF IInv, TypeOK, Facts, WaiterFacts, HookBeforeRestart
  <2> QED
    BY <2>1, <2>2
       DEF IInv, Facts, LaunchOrder, OneServer, AdoptionFacts, WatcherFacts, DownFacts,
           RecordFacts, NoUnmanagedServer, CountedUnlessReplaced, Runs, Current
<1>3. CASE Finish(p)
  <2>1. /\ wpc[p] = "finish" /\ wpc' = [wpc EXCEPT ![p] = "done"]
        /\ status' = "stopped"
        /\ UNCHANGED <<proc, started, up, cmd, adopted, gen, recorded, counted,
                       registered, xpc, wa, was>>
    BY <1>3 DEF Finish, procVars
  <2>2. cmd = p /\ adopted = 0 /\ proc[p] = "dead"
    BY <2>1 DEF IInv, Facts, HookBeforeRestart, WaiterFacts
  <2>3. WaiterFacts' /\ HookBeforeRestart'
    BY <2>1, <2>2 DEF IInv, TypeOK, Facts, WaiterFacts, HookBeforeRestart
  <2>4. NoUnmanagedServer'
    BY <2>1, <2>2 DEF IInv, Facts, NoUnmanagedServer, Current
  <2> QED
    BY <2>1, <2>3, <2>4
       DEF IInv, Facts, LaunchOrder, OneServer, AdoptionFacts, WatcherFacts, DownFacts,
           RecordFacts, CountedUnlessReplaced, Runs, Current
<1> QED BY <1>1, <1>2, <1>3 DEF Waiter

LEMMA FactsWatchExit ==
  ASSUME IInv, NEW p \in Procs, WatchExit(p)
  PROVE  Facts'
<1>1. /\ \/ /\ xpc[p] = "poll" /\ counted' = counted
            /\ xpc' = [xpc EXCEPT ![p] = IF cmd = p THEN "look" ELSE "done"]
         \/ /\ xpc[p] = "look" /\ counted' = counted
            /\ \/ xpc' = [xpc EXCEPT ![p] = "poll"]
               \/ xpc' = [xpc EXCEPT ![p] = "count"]
         \/ /\ xpc[p] = "count"
            /\ counted' = IF recorded THEN counted ELSE counted \cup {p}
            /\ xpc' = [xpc EXCEPT ![p] = "done"]
      /\ UNCHANGED <<proc, started, up, status, cmd, adopted, gen, recorded,
                     registered, wpc, wa, was>>
  BY DEF WatchExit, ExitCheckCmd, ExitLook, ExitCount, procVars, instanceVars, diskVars
<1>2. CountedUnlessReplaced' /\ RecordFacts'
  <2>1. cmd = p /\ recorded => p \in counted
    BY DEF IInv, Facts, RecordFacts, Procs
  <2>2. \A q \in Procs : xpc'[q] = "done" =>
          xpc[q] = "done" \/ (q = p /\ (cmd # p \/ recorded \/ p \in counted'))
    BY <1>1 DEF IInv, TypeOK
  <2>3. counted \subseteq counted'
    BY <1>1
  <2> QED
    BY <1>1, <2>1, <2>2, <2>3 DEF IInv, Facts, CountedUnlessReplaced, RecordFacts
<1> QED
  BY <1>1, <1>2
     DEF IInv, Facts, LaunchOrder, OneServer, WaiterFacts, AdoptionFacts, WatcherFacts,
         DownFacts, HookBeforeRestart, NoUnmanagedServer, Runs, Current

LEMMA FactsWatchAdopted ==
  ASSUME IInv, WatchAdopted
  PROVE  Facts'
<1> USE ConstantsAssumption DEF Procs
<1>0. wa \in [pid : 0..MaxProcs, gen : Nat, count : BOOLEAN,
              pc : {"none", "poll", "hook", "lock", "remove", "done"}]
      /\ wa.pid \in 1..started /\ wa.pid \in Procs /\ up
  BY DEF IInv, TypeOK, Facts, WatcherFacts, DownFacts, WatchAdopted, AdoptedLook,
         AdoptedFireExit, AdoptedLock, AdoptedRemove
<1>1. CASE AdoptedLook \/ AdoptedFireExit \/ AdoptedRemove
  <2>1. /\ wa'.pid = wa.pid
        /\ wa'.pc \in {"hook", "lock", "done"}
        /\ wa'.pc = "hook" => ~IsAlive(wa.pid)
        /\ wa'.pc = "lock" => wa.pc = "hook"
        /\ UNCHANGED <<proc, started, up, status, cmd, adopted, gen, recorded,
                       registered, wpc, xpc, was>>
    BY <1>0, <1>1
       DEF AdoptedLook, AdoptedFireExit, AdoptedRemove, procVars, instanceVars, diskVars
  <2>2. counted \subseteq counted'
    BY <1>1 DEF AdoptedLook, AdoptedFireExit, AdoptedRemove, diskVars
  <2>3. WatcherFacts'
    BY <1>0, <2>1 DEF IInv, TypeOK, Facts, WatcherFacts, LaunchOrder, IsAlive, ProcStates
  <2> QED
    BY <1>0, <2>1, <2>2, <2>3
       DEF IInv, Facts, LaunchOrder, OneServer, WaiterFacts, AdoptionFacts, DownFacts,
           RecordFacts, HookBeforeRestart, NoUnmanagedServer, CountedUnlessReplaced,
           Runs, Current
<1>2. CASE AdoptedLock
  <2>1. /\ wa.pc = "lock"
        /\ wa'.pid = wa.pid /\ wa'.pc \in {"remove", "done"}
        /\ \/ adopted' = adopted /\ status' = status
           \/ adopted = wa.pid /\ adopted' = 0 /\ status' = "stopped"
        /\ UNCHANGED <<proc, started, up, cmd, gen, recorded, counted,
                       registered, wpc, xpc, was>>
    BY <1>0, <1>2 DEF AdoptedLock, procVars, diskVars
  <2>2. proc[wa.pid] = "dead"
    BY <2>1 DEF IInv, Facts, WatcherFacts
  <2>3. WatcherFacts'
    BY <1>0, <2>1 DEF IInv, Facts, WatcherFacts
  <2>4. HookBeforeRestart'
    BY <1>0, <2>1 DEF IInv, Facts, HookBeforeRestart
  <2>5. NoUnmanagedServer'
    BY <1>0, <2>1, <2>2 DEF IInv, Facts, NoUnmanagedServer, Current
  <2>6. AdoptionFacts'
    BY <2>1 DEF IInv, Facts, AdoptionFacts, Current
  <2> QED
    BY <1>0, <2>1, <2>3, <2>4, <2>5, <2>6
       DEF IInv, Facts, LaunchOrder, OneServer, WaiterFacts, DownFacts, RecordFacts,
           CountedUnlessReplaced, Runs
<1> QED BY <1>1, <1>2 DEF WatchAdopted

LEMMA FactsAdoptedStop ==
  ASSUME IInv, NEW w \in was, AdoptedStopSees(w)
  PROVE  Facts'
<1> USE ConstantsAssumption DEF Procs
<1>1. /\ ~IsAlive(w.pid)
      /\ \/ adopted' = adopted /\ status' = status
         \/ gen = w.gen /\ adopted' = 0 /\ status' = "stopped"
      /\ was' = was \ {w}
      /\ UNCHANGED <<proc, started, up, cmd, gen, recorded, counted, registered,
                     wpc, xpc, wa>>
  BY DEF AdoptedStopSees, procVars
<1>2. /\ w.pid \in Procs /\ proc[w.pid] # "alive"
      /\ gen = w.gen => cmd = 0 /\ adopted \in {0, w.pid}
      /\ up
  BY <1>1 DEF IInv, TypeOK, Facts, WatcherFacts, DownFacts, IsAlive
<1>3. WatcherFacts'
  BY <1>1 DEF IInv, Facts, WatcherFacts
<1>4. HookBeforeRestart'
  BY <1>1, <1>2 DEF IInv, Facts, HookBeforeRestart
<1>5. NoUnmanagedServer'
  BY <1>1, <1>2 DEF IInv, Facts, NoUnmanagedServer, Current
<1>6. AdoptionFacts' /\ DownFacts'
  BY <1>1, <1>2 DEF IInv, Facts, AdoptionFacts, DownFacts, Current
<1> QED
  BY <1>1, <1>3, <1>4, <1>5, <1>6
     DEF IInv, Facts, LaunchOrder, OneServer, WaiterFacts, RecordFacts,
         CountedUnlessReplaced, Runs

LEMMA FactsAdoptedStopGivesUp ==
  ASSUME IInv, NEW w \in was, AdoptedStopGivesUp(w)
  PROVE  Facts'
<1>1. /\ was' = was \ {w}
      /\ UNCHANGED <<proc, started, up, status, cmd, adopted, gen, recorded, counted,
                     registered, wpc, xpc, wa>>
  BY DEF AdoptedStopGivesUp, procVars, instanceVars, diskVars
<1>2. WatcherFacts' /\ DownFacts'
  BY <1>1 DEF IInv, Facts, WatcherFacts, DownFacts
<1> QED
  BY <1>1, <1>2
     DEF IInv, Facts, LaunchOrder, OneServer, WaiterFacts, AdoptionFacts, RecordFacts,
         HookBeforeRestart, NoUnmanagedServer, CountedUnlessReplaced, Runs, Current

LEMMA FactsDaemonEnds ==
  ASSUME IInv, DaemonEnds
  PROVE  Facts'
<1> USE ConstantsAssumption DEF Procs
<1>1. /\ up' = FALSE /\ status' = "stopped" /\ cmd' = 0 /\ adopted' = 0 /\ recorded' = FALSE
      /\ wpc' = [p \in Procs |-> "none"] /\ xpc' = [p \in Procs |-> "none"]
      /\ wa' = NoWatch /\ was' = {}
  BY DEF DaemonEnds, Shutdown, Crash, CrashInStart, Exit
<1>2. /\ AdoptionFacts' /\ DownFacts' /\ RecordFacts' /\ HookBeforeRestart'
      /\ NoUnmanagedServer' /\ CountedUnlessReplaced'
  BY <1>1 DEF AdoptionFacts, DownFacts, RecordFacts, HookBeforeRestart, NoUnmanagedServer,
              CountedUnlessReplaced, NoWatch
<1>3. WatcherFacts'
  BY <1>1 DEF WatcherFacts, NoWatch
<1>4. CASE Shutdown \/ Crash
  <2>1. proc' = Reaped /\ started' = started
    BY <1>4 DEF Shutdown, Crash
  <2>2. LaunchOrder' /\ OneServer' /\ WaiterFacts'
    BY <1>1, <2>1 DEF Reaped, IInv, TypeOK, Facts, LaunchOrder, OneServer, WaiterFacts, Runs
  <2> QED BY <1>2, <1>3, <2>2 DEF Facts
<1>5. CASE \E c \in Clients : CrashInStart(c)
  <2>0. PICK c \in Clients : CrashInStart(c)
    BY <1>5
  <2>a. /\ proc' = [Reaped EXCEPT ![started + 1] = "alive"] /\ started' = started + 1
        /\ started < MaxProcs /\ Orphans = {}
    BY <2>0 DEF CrashInStart, StartAllowed
  <2>b. started \in Nat
    BY DEF IInv, TypeOK
  <2>c. \A q \in Procs : ~Runs(q)
    BY <2>a DEF Orphans
  <2>1. /\ proc' = [Reaped EXCEPT ![started + 1] = "alive"] /\ started' = started + 1
        /\ started + 1 \in Procs
        /\ \A q \in Procs : ~Runs(q)
    BY <2>a, <2>b, <2>c
  <2>2. LaunchOrder' /\ OneServer' /\ WaiterFacts'
    BY <1>1, <2>1 DEF Reaped, IInv, TypeOK, Facts, LaunchOrder, OneServer, WaiterFacts, Runs
  <2> QED BY <1>2, <1>3, <2>2 DEF Facts
<1> QED BY <1>4, <1>5 DEF DaemonEnds

\* At most one process runs, so the one Load adopts is the one that is alive.
LEMMA FactsLoad ==
  ASSUME IInv, Load
  PROVE  Facts'
<1> USE ConstantsAssumption DEF Procs
<1>1. /\ ~up /\ status = "stopped" /\ cmd = 0 /\ adopted = 0 /\ wa.pc = "none" /\ was = {}
      /\ up' = TRUE
      /\ UNCHANGED <<proc, started, cmd, recorded, counted, registered, wpc, xpc, was>>
  BY DEF Load, procVars, diskVars, IInv, Facts, DownFacts
<1>2. \A p \in Procs : wpc[p] \notin {"wait", "hook", "finish"} /\ proc[p] # "zombie"
  BY <1>1 DEF IInv, Facts, HookBeforeRestart, WaiterFacts
<1>3. /\ LaunchOrder' /\ OneServer' /\ WaiterFacts' /\ DownFacts' /\ RecordFacts'
      /\ HookBeforeRestart' /\ CountedUnlessReplaced'
  BY <1>1, <1>2
     DEF IInv, Facts, LaunchOrder, OneServer, WaiterFacts, DownFacts, RecordFacts,
         HookBeforeRestart, CountedUnlessReplaced, Runs
<1>4. CASE \E p \in Procs : Runs(p) /\ Adopt(p)
  <2>1. PICK p \in Procs : Runs(p) /\ Adopt(p)
    BY <1>4
  <2>2. /\ status' = "running" /\ adopted' = p
        /\ wa' = [pid |-> p, gen |-> 1, count |-> FALSE, pc |-> "poll"]
    BY <2>1 DEF Adopt, NoWatch
  <2>3. p \in 1..started
    BY <2>1 DEF IInv, TypeOK, Facts, LaunchOrder, Runs
  <2>4. AdoptionFacts' /\ WatcherFacts'
    BY <1>1, <2>2, <2>3 DEF AdoptionFacts, WatcherFacts, Current
  <2>5. NoUnmanagedServer'
    BY <1>1, <2>1, <2>2 DEF IInv, Facts, OneServer, NoUnmanagedServer, Runs, Current
  <2> QED BY <1>3, <2>4, <2>5 DEF Facts
<1>5. CASE StayStopped /\ (~registered \/ \A p \in Procs : ~Runs(p))
  <2>1. UNCHANGED <<status, adopted, gen, wa>>
    BY <1>5 DEF StayStopped
  <2>2. AdoptionFacts' /\ WatcherFacts'
    BY <1>1, <2>1 DEF IInv, Facts, AdoptionFacts, WatcherFacts, Current
  <2>3. NoUnmanagedServer'
    BY <1>1, <1>5 DEF NoUnmanagedServer, Runs
  <2> QED BY <1>3, <2>2, <2>3 DEF Facts
<1> QED
  BY <1>2, <1>4, <1>5 DEF Load, Orphans, IsAlive, Runs

-----------------------------------------------------------------------------
(* Invariance.                                                             *)

LEMMA InductiveStep == IInv /\ [Next]_vars => IInv'
<1> SUFFICES ASSUME IInv, [Next]_vars PROVE IInv'
  OBVIOUS
<1>1. TypeOK'
  BY HandlerTypes, WatcherTypes, DaemonTypes DEF IInv, Next
<1>2. ASSUME NEW c \in Clients, NEW op \in Ops, Call(c, op) PROVE Facts'
  BY <1>2, FactsStutter
     DEF IInv, Call, factVars, procVars, instanceVars, diskVars, watchVars
<1>3. ASSUME NEW c \in Actors,
             \/ StopRefused(c) \/ WaitEnds(c) \/ WaitTimesOut(c) \/ KillRefused(c)
             \/ Unregister(c) \/ BootCheck(c)
      PROVE  Facts'
  BY <1>3, FactsStutter
     DEF IInv, StopRefused, WaitEnds, WaitTimesOut, KillRefused, Unregister, BootCheck,
         factVars, procVars, instanceVars, diskVars, watchVars
<1>4. ASSUME NEW c \in Actors, Untunnel(c) \/ Resume(c) \/ Launch(c) \/ Detunnel(c)
      PROVE  Facts'
  BY <1>4, FactsStutter
     DEF IInv, Untunnel, Resume, Launch, Detunnel, factVars, procVars, instanceVars,
         diskVars, watchVars
<1>5. ASSUME UNCHANGED vars PROVE Facts'
  BY <1>5, FactsStutter DEF IInv, vars, factVars, instanceVars, diskVars, watchVars
<1>6. Facts'
  BY <1>2, <1>3, <1>4, <1>5, NextCases, FactsStart, FactsStartFails, FactsStopManaged,
     FactsStopAdopted, FactsKillAdopted, FactsKillManaged, FactsForget, FactsDie,
     FactsWaiter, FactsWatchExit, FactsWatchAdopted, FactsAdoptedStop,
     FactsAdoptedStopGivesUp, FactsDaemonEnds, FactsLoad
     DEF Waiter, WatchExit, WatchAdopted
<1> QED BY <1>1, <1>6 DEF IInv

\* The inductive invariant holds in every reachable state (the whole of
\* process.go's supervision, with registry.Load and the handlers).
THEOREM Inductive == Spec => []IInv
<1>1. Init => IInv
  BY TypeInit, FactsInit DEF IInv
<1>2. IInv /\ [Next]_vars => IInv'
  BY InductiveStep
<1> QED BY <1>1, <1>2, PTL DEF Spec

\* Every variable keeps its type; in particular no call leaves the status
\* "starting" behind.
THEOREM TypeCorrect == Spec => []TypeOK
<1>1. IInv => TypeOK
  BY DEF IInv
<1> QED BY <1>1, Inductive, PTL

\* For any number of calls, launches and restarts of the Daemon, two servers
\* never run at once in one instance's directory (the session.lock clash
\* FindOrphan is there to prevent), and a registered server that runs and was
\* not killed is the one the instance reports.
THEOREM ManagedServer == Spec => []OneManagedServer
<1>1. IInv => OneManagedServer
  BY DEF IInv, Facts, OneManagedServer
<1> QED BY <1>1, Inductive, PTL

\* A launched server keeps its instance "running" until its exit hook is done,
\* so no later server can start before (process.go:798-810).
THEOREM HookComesFirst == Spec => []HookBeforeRestart
<1>1. IInv => HookBeforeRestart
  BY DEF IInv, Facts
<1> QED BY <1>1, Inductive, PTL

\* watchExit misses no server unless another was launched in its second of
\* sleep (process.go:2020-2045).
THEOREM StopsAreCounted == Spec => []CountedUnlessReplaced
<1>1. IInv => CountedUnlessReplaced
  BY DEF IInv, Facts
<1> QED BY <1>1, Inductive, PTL

-----------------------------------------------------------------------------
(* The pid record and the frpc tunnel.                                     *)

\* What the record and the tunnel need besides IInv: a Daemon that adopted a
\* process still has its watcher, and no command and no frpc is newer than the
\* last launch.
AdoptedIsWatched == adopted # 0 \/ was # {} => wa.pc # "none"
LatestLaunch     == cmd \in {0, started} /\ adopted <= started /\ frpc <= started
Traces           == AdoptedIsWatched /\ LatestLaunch /\ PidRecordNamesServer

LEMMA TracesStutter ==
  ASSUME Traces,
         UNCHANGED <<proc, started, up, status, cmd, adopted, pidFile, registered, wa>>,
         was' \subseteq was, frpc' \in {frpc, 0}, TypeOK
  PROVE  Traces'
  BY DEF Traces, AdoptedIsWatched, LatestLaunch, PidRecordNamesServer, TypeOK

\* The handlers that change what Traces speaks of.
LEMMA TracesHandler ==
  ASSUME IInv, Traces, NEW c \in Actors, Handler(c)
  PROVE  Traces'
<1> USE ConstantsAssumption DEF Procs
<1>0. TypeOK /\ started \in Nat
  BY DEF IInv, TypeOK
<1>1. CASE \E p \in Procs : StartProcess(c, p)
  <2>1. PICK p \in Procs : StartProcess(c, p)
    BY <1>1
  <2>2. /\ p = started + 1 /\ started' = p /\ cmd' = p /\ pidFile' = p
        /\ adopted' = 0 /\ UNCHANGED <<frpc, wa, was>>
    BY <2>1 DEF StartProcess, Spawn, frpVars
  <2>3. AdoptedIsWatched' /\ PidRecordNamesServer'
    BY <2>2 DEF Traces, AdoptedIsWatched, PidRecordNamesServer
  <2>4. LatestLaunch'
    BY <1>0, <2>2 DEF Traces, LatestLaunch, TypeOK
  <2> QED BY <2>3, <2>4 DEF Traces
<1>2. CASE StartFails(c)
  <2>1. /\ UNCHANGED <<proc, started, up, cmd, adopted, pidFile, registered, frpc, wa, was>>
        /\ status' = status \/ status' = "error"
    BY <1>2 DEF StartFails, procVars, diskVars, frpVars, watchVars
  <2> QED BY <2>1 DEF Traces, AdoptedIsWatched, LatestLaunch, PidRecordNamesServer
<1>3. CASE StopAdopted(c)
  <2>1. /\ adopted # 0
        /\ UNCHANGED <<proc, started, up, status, cmd, adopted, pidFile, registered,
                       frpc, wa>>
    BY <1>3 DEF StopAdopted, IsAlive, procVars, instanceVars, diskVars, frpVars
  <2> QED BY <2>1 DEF Traces, AdoptedIsWatched, LatestLaunch, PidRecordNamesServer
<1>4. CASE KillAdopted(c)
  <2>1. /\ adopted # 0 /\ adopted' = 0 /\ UNCHANGED <<started, cmd, frpc, wa, was>>
    BY <1>4 DEF KillAdopted, frpVars, watchVars
  <2>2. wa.pc # "none"
    BY <2>1 DEF Traces, AdoptedIsWatched
  <2> QED
    BY <1>0, <2>1, <2>2 DEF Traces, AdoptedIsWatched, LatestLaunch, PidRecordNamesServer
<1>5. CASE KillManaged(c)
  <2>1. /\ cmd \in Procs /\ SigKill(cmd)
        /\ UNCHANGED <<started, up, status, cmd, adopted, pidFile, registered, frpc, wa, was>>
    BY <1>0, <1>5 DEF KillManaged, frpVars, watchVars, TypeOK
  <2>2. proc'[cmd] # "alive"
    BY <1>0, <2>1 DEF SigKill, Runs, TypeOK
  <2> QED BY <2>1, <2>2 DEF Traces, AdoptedIsWatched, LatestLaunch, PidRecordNamesServer
<1>6. CASE Forget(c)
  <2>1. registered' = FALSE /\ UNCHANGED <<started, cmd, adopted, frpc, wa, was>>
    BY <1>6 DEF Forget, procVars, instanceVars, frpVars, watchVars
  <2> QED BY <2>1 DEF Traces, AdoptedIsWatched, LatestLaunch, PidRecordNamesServer
<1>7. CASE Launch(c)
  <2>1. /\ frpc' \in {cmd, adopted}
        /\ UNCHANGED <<proc, started, up, status, cmd, adopted, pidFile, registered, wa, was>>
    BY <1>7 DEF Launch, Current, procVars, instanceVars, diskVars, watchVars
  <2> QED
    BY <1>0, <2>1 DEF Traces, AdoptedIsWatched, LatestLaunch, PidRecordNamesServer
<1>8. CASE \/ StopManaged(c) \/ StopRefused(c) \/ WaitEnds(c) \/ WaitTimesOut(c)
           \/ KillRefused(c) \/ Untunnel(c) \/ Resume(c) \/ Unregister(c)
           \/ Detunnel(c) \/ BootCheck(c)
  <2>1. /\ UNCHANGED <<proc, started, up, status, cmd, adopted, pidFile, registered, wa, was>>
        /\ frpc' \in {frpc, 0}
    BY <1>8 DEF StopManaged, StopRefused, WaitEnds, WaitTimesOut, KillRefused, Untunnel,
         Resume, Unregister, Detunnel, BootCheck, CutTunnel, procVars, instanceVars,
         diskVars, frpVars, watchVars
  <2> QED BY <1>0, <2>1, TracesStutter
<1> QED
  BY <1>1, <1>2, <1>3, <1>4, <1>5, <1>6, <1>7, <1>8 DEF Handler

\* The goroutines that watch processes.
LEMMA TracesWatcher ==
  ASSUME IInv, Traces,
         \/ \E p \in Procs : Die(p) \/ Waiter(p) \/ WatchExit(p)
         \/ WatchAdopted
         \/ \E w \in was : AdoptedStopSees(w) \/ AdoptedStopGivesUp(w)
  PROVE  Traces'
<1>0. TypeOK /\ started \in Nat
  BY DEF IInv, TypeOK
<1>1. CASE \E p \in Procs : Die(p) \/ WaitReturns(p)
  <2>1. PICK p \in Procs : Die(p) \/ WaitReturns(p)
    BY <1>1
  <2>2. /\ proc'[p] # "alive" /\ \A q \in Procs : q # p => proc'[q] = proc[q]
        /\ DOMAIN proc' = DOMAIN proc
        /\ UNCHANGED <<started, up, status, cmd, adopted, pidFile, registered, frpc, wa, was>>
    BY <1>0, <2>1
       DEF Die, WaitReturns, instanceVars, diskVars, frpVars, watchVars, TypeOK
  <2>3. AdoptedIsWatched' /\ LatestLaunch'
    BY <2>2 DEF Traces, AdoptedIsWatched, LatestLaunch
  <2>4. status = "running" /\ wa.pc = "none" => cmd \in Procs
    BY <1>0 DEF Traces, AdoptedIsWatched, IInv, Facts, AdoptionFacts, Current, TypeOK, Procs
  <2>5. PidRecordNamesServer'
    BY <2>2, <2>4 DEF Traces, PidRecordNamesServer
  <2> QED BY <2>3, <2>5 DEF Traces
<1>2. CASE \E p \in Procs : FireExit(p) \/ WatchExit(p)
  <2>1. /\ UNCHANGED <<proc, started, up, status, cmd, adopted, pidFile, registered, wa, was>>
        /\ frpc' \in {frpc, 0}
    BY <1>2 DEF FireExit, WatchExit, ExitCheckCmd, ExitLook, ExitCount, CutTunnel,
         procVars, instanceVars, diskVars, frpVars
  <2> QED BY <1>0, <2>1, TracesStutter
<1>3. CASE \E p \in Procs : Finish(p)
  <2>1. status' = "stopped" /\ UNCHANGED <<started, cmd, adopted, frpc, wa, was>>
    BY <1>3 DEF Finish, procVars, frpVars
  <2> QED BY <2>1 DEF Traces, AdoptedIsWatched, LatestLaunch, PidRecordNamesServer
<1>4. CASE WatchAdopted
  <2>1. /\ wa'.pc # "none" /\ frpc' \in {frpc, 0} /\ adopted' \in {adopted, 0}
        /\ UNCHANGED <<started, cmd>>
    BY <1>0, <1>4
       DEF WatchAdopted, AdoptedLook, AdoptedFireExit, AdoptedLock, AdoptedRemove, CutTunnel,
           procVars, instanceVars, frpVars, TypeOK
  <2> QED
    BY <1>0, <2>1 DEF Traces, AdoptedIsWatched, LatestLaunch, PidRecordNamesServer
<1>5. CASE \E w \in was : AdoptedStopSees(w) \/ AdoptedStopGivesUp(w)
  <2>1. wa.pc # "none"
    BY <1>5 DEF Traces, AdoptedIsWatched
  <2>2. adopted' \in {adopted, 0} /\ UNCHANGED <<started, cmd, frpc, wa>>
    BY <1>5 DEF AdoptedStopSees, AdoptedStopGivesUp, procVars, instanceVars, frpVars
  <2> QED
    BY <1>0, <2>1, <2>2 DEF Traces, AdoptedIsWatched, LatestLaunch, PidRecordNamesServer
<1> QED BY <1>1, <1>2, <1>3, <1>4, <1>5 DEF Waiter

\* The Daemon ends, and comes back.
LEMMA TracesDaemon ==
  ASSUME IInv, Traces, DaemonEnds \/ Load
  PROVE  Traces'
<1> USE ConstantsAssumption DEF Procs
<1>0. TypeOK /\ started \in Nat
  BY DEF IInv, TypeOK
<1>1. CASE DaemonEnds
  <2>1. /\ up' = FALSE /\ cmd' = 0 /\ adopted' = 0 /\ was' = {}
        /\ started' \in {started, started + 1} /\ frpc' \in {frpc, 0}
    BY <1>1 DEF DaemonEnds, Shutdown, Crash, CrashInStart, Exit
  <2> QED
    BY <1>0, <2>1 DEF Traces, AdoptedIsWatched, LatestLaunch, PidRecordNamesServer, TypeOK
<1>2. CASE Load
  <2>1. /\ status = "stopped" /\ cmd = 0 /\ adopted = 0 /\ was = {}
        /\ UNCHANGED <<started, cmd, frpc, was>>
    BY <1>2 DEF Load, IInv, Facts, DownFacts, procVars
  <2>2. CASE StayStopped
    BY <1>0, <2>1, <2>2
       DEF StayStopped, Traces, AdoptedIsWatched, LatestLaunch, PidRecordNamesServer
  <2>3. CASE \E p \in Procs : IsAlive(p) /\ Adopt(p)
    <3>1. PICK p \in Procs : IsAlive(p) /\ Adopt(p)
      BY <2>3
    <3>2. p <= started
      BY <1>0, <3>1 DEF IInv, Facts, LaunchOrder, IsAlive
    <3>3. adopted' = p /\ wa'.pc = "poll"
      BY <3>1 DEF Adopt, NoWatch
    <3> QED
      BY <2>1, <3>2, <3>3 DEF Traces, AdoptedIsWatched, LatestLaunch, PidRecordNamesServer
  <2> QED BY <1>2, <2>2, <2>3 DEF Load, Orphans, IsAlive, Runs
<1> QED BY <1>1, <1>2

LEMMA TracesStep == IInv /\ Traces /\ [Next]_vars => Traces'
<1> SUFFICES ASSUME IInv, Traces, [Next]_vars PROVE Traces'
  OBVIOUS
<1>1. ASSUME NEW c \in Clients, NEW op \in Ops, Call(c, op) PROVE Traces'
  BY <1>1, TracesStutter
     DEF IInv, Call, procVars, instanceVars, diskVars, frpVars, watchVars
<1>2. ASSUME UNCHANGED vars PROVE Traces'
  BY <1>2, TracesStutter DEF IInv, vars, instanceVars, diskVars, frpVars, watchVars
<1> QED BY <1>1, <1>2, TracesHandler, TracesWatcher, TracesDaemon DEF Next

THEOREM TracesInvariant == Spec => [](IInv /\ Traces)
<1>1. Init => IInv /\ Traces
  BY TypeInit, FactsInit, ConstantsAssumption
     DEF IInv, Init, Traces, AdoptedIsWatched, LatestLaunch, PidRecordNamesServer
<1>2. (IInv /\ Traces) /\ [Next]_vars => (IInv /\ Traces)'
  BY InductiveStep, TracesStep
<1> QED BY <1>1, <1>2, PTL DEF Spec

\* For any number of calls, launches and restarts: while a Daemon that adopted
\* nothing shows a live server, daemon.pid names that server, so the next
\* Daemon adopts the right one (process.go:782, registry.Load).
THEOREM RecordNamesServer == Spec => []PidRecordNamesServer
<1>1. IInv /\ Traces => PidRecordNamesServer
  BY DEF Traces
<1> QED BY <1>1, TracesInvariant, PTL

\* The exit hook of a launched server runs while no later server has been
\* launched, so the frpc it takes down is its own or an older one
\* (process.go:798-810 with frp.Manager.StopInstance).
THEOREM HookCutsOwn == Spec => HookCutsOwnTunnel
<1>1. ASSUME IInv, Traces, [Next]_vars, NEW p \in Procs,
             wpc[p] = "hook", wpc'[p] = "finish"
      PROVE  frpc <= p
  <2>1. cmd = p
    BY <1>1 DEF IInv, Facts, HookBeforeRestart
  <2> QED BY <1>1, <2>1, ConstantsAssumption DEF Traces, LatestLaunch, Procs
<1>2. IInv /\ Traces /\ [Next]_vars =>
        [\A p \in Procs : wpc[p] = "hook" /\ wpc'[p] = "finish" =>
           frpc <= p \/ frpc' = frpc]_vars
  BY <1>1
<1> QED BY <1>2, TracesInvariant, PTL DEF Spec, HookCutsOwnTunnel
=============================================================================
