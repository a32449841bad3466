------------------------------ MODULE Instance ------------------------------
(***************************************************************************)
(* One Minecraft instance on a node: the server processes it runs one      *)
(* after another, the supervisor that owns them (mcprocess/process.go),    *)
(* the gRPC handlers that call it (grpcapi/server.go), the registry entry  *)
(* and pid record that survive the Daemon (registry/registry.go), and the  *)
(* frpc tunnel that must live and die with the server (frp/manager.go).    *)
(*                                                                         *)
(* A process is named by the number of its launch.  What one goroutine     *)
(* does under Instance.mu is one action; what it does between two critical *)
(* sections (a sleep, the exit hook, a file removed after the unlock) is a *)
(* step of its own.  Native mode only: the instance runs as a java process *)
(* FindOrphan recognises.  RPCs that fail before they reach the instance,  *)
(* console output and the resource limits are left out.                    *)
(***************************************************************************)
EXTENDS Integers, FiniteSets

CONSTANTS Clients,     \* concurrent gRPC calls
          Boot,        \* the goroutine of Daemon.Run that resumes tunnels
          Ops,         \* the calls clients make
          MaxProcs,    \* bound: launches
          MaxCalls,    \* bound: calls
          MaxCrash     \* bound: ends of the Daemon process

ASSUME ConstantsAssumption ==
  /\ IsFiniteSet(Clients) /\ Boot \notin Clients
  /\ Ops \subseteq {"start", "stop", "kill", "restart", "delete"}
  /\ MaxProcs \in Nat /\ MaxCalls \in Nat /\ MaxCrash \in Nat

VARIABLES proc,        \* [Procs -> process state in the kernel]
          started,     \* launches so far
          up,          \* the Daemon runs
          status,      \* Instance.status
          cmd,         \* Instance.cmd: the last process launched, 0 = nil
          adopted,     \* Instance.adoptedPID
          gen,         \* Instance.procGen
          recorded,    \* Instance.stopRecorded
          pidFile,     \* <state_dir>/<id>/daemon.pid, 0 = no such file
          registered,  \* the instance is in Registry.instances and on disk
          tunnels,     \* frp.Manager.byInst knows the instance's tunnels
          frpc,        \* the frpc that runs, tagged with the process it was
                       \* launched for, 0 = none
          held,        \* frp.Manager holds the frpc's exec.Cmd
          counted,     \* processes with a stop reported to the statistics
          wpc,         \* [Procs -> the goroutine in cmd.Wait]
          xpc,         \* [Procs -> watchExit]
          wa,          \* watchAdopted: [pid, gen, count, pc]
          was,         \* the watchAdoptedStop goroutines: set of [pid, gen]
          cl,          \* [Clients \cup {Boot} -> [op, pc]]
          calls, crashes

instanceVars == <<status, cmd, adopted, gen, recorded>>
diskVars     == <<pidFile, registered, counted>>
frpVars      == <<tunnels, frpc, held>>
watchVars    == <<wpc, xpc, wa, was>>
procVars     == <<proc, started>>
boundVars    == <<calls, crashes>>
vars == <<proc, started, up, instanceVars, diskVars, frpVars, watchVars, cl, boundVars>>

Procs == 1..MaxProcs

\* alive: runs.  killed: SIGKILL is pending.  zombie: exited, the Daemon has
\* not waited for it yet.  dead: gone from the process table.
ProcStates   == {"unborn", "alive", "killed", "zombie", "dead"}
Runs(p)      == proc[p] \in {"alive", "killed"}
IsAlive(p)   == p \in Procs /\ proc[p] \in {"alive", "killed", "zombie"}  \* kill(p, 0)
Orphans      == {p \in Procs : Runs(p)}            \* what FindOrphan can see
Current      == IF adopted # 0 THEN adopted ELSE cmd
Actors       == Clients \cup {Boot}
Idle         == [op |-> "none", pc |-> "idle"]
NoWatch      == [pid |-> 0, gen |-> 0, count |-> FALSE, pc |-> "none"]

Init ==
  /\ proc = [p \in Procs |-> "unborn"] /\ started = 0
  /\ up = TRUE
  /\ status = "stopped" /\ cmd = 0 /\ adopted = 0 /\ gen = 0 /\ recorded = FALSE
  /\ pidFile = 0 /\ registered = TRUE /\ counted = {}
  /\ tunnels = TRUE /\ frpc = 0 /\ held = FALSE
  /\ wpc = [p \in Procs |-> "none"] /\ xpc = [p \in Procs |-> "none"]
  /\ wa = NoWatch /\ was = {}
  /\ cl = [c \in Actors |-> Idle]
  /\ calls = 0 /\ crashes = 0

-----------------------------------------------------------------------------
(* The handlers of grpcapi/server.go.  cl[c].pc is where call c stands.    *)

At(c, pc)   == up /\ cl[c].pc = pc
Goto(c, pc) == cl' = [cl EXCEPT ![c].pc = pc]
Return(c)   == cl' = [cl EXCEPT ![c] = Idle]

\* What the handler does once it holds the instance.  Restart and Delete only
\* stop an instance whose status is running; Kill refuses a stopped one.
FirstStep(op) ==
  CASE op = "restart" -> IF status = "running" THEN "stop" ELSE "start"
    [] op = "delete"  -> IF registered /\ status = "running" THEN "stop" ELSE "unregister"
    [] op = "kill"    -> IF status = "stopped" THEN "idle" ELSE "kill"
    [] OTHER          -> op

Call(c, op) ==
  /\ At(c, "idle") /\ c \in Clients /\ calls < MaxCalls
  /\ registered \/ op = "delete"
  /\ cl' = [cl EXCEPT ![c] = IF FirstStep(op) = "idle" THEN Idle
                             ELSE [op |-> op, pc |-> FirstStep(op)]]
  /\ calls' = calls + 1
  /\ UNCHANGED <<procVars, up, instanceVars, diskVars, frpVars, watchVars, crashes>>

\* Start goes ahead: not running, and no java left in the instance's directory.
StartAllowed_NoOrphanCheck == status # "running"
StartAllowed == status # "running" /\ Orphans = {}

Spawn(p) ==
  /\ p = started + 1 /\ p \in Procs
  /\ started' = p
  /\ proc' = [proc EXCEPT ![p] = "alive"]

StartProcess_KeepsPidRecord(c, p) ==
  /\ At(c, "start") /\ StartAllowed
  /\ Spawn(p)
  /\ cmd' = p /\ status' = "running" /\ adopted' = 0
  /\ gen' = gen + 1 /\ recorded' = FALSE
  /\ pidFile' = IF pidFile = 0 THEN p ELSE pidFile
  /\ wpc' = [wpc EXCEPT ![p] = "wait"]
  /\ xpc' = [xpc EXCEPT ![p] = "poll"]
  /\ Goto(c, "resume")
  /\ UNCHANGED <<up, registered, counted, frpVars, wa, was, boundVars>>
StartProcess_KeepsRecorded(c, p) ==
  /\ At(c, "start") /\ StartAllowed
  /\ Spawn(p)
  /\ cmd' = p /\ status' = "running" /\ adopted' = 0
  /\ gen' = gen + 1
  /\ pidFile' = p
  /\ wpc' = [wpc EXCEPT ![p] = "wait"]
  /\ xpc' = [xpc EXCEPT ![p] = "poll"]
  /\ Goto(c, "resume")
  /\ UNCHANGED <<up, recorded, registered, counted, frpVars, wa, was, boundVars>>
StartProcess(c, p) ==
  /\ At(c, "start") /\ StartAllowed
  /\ Spawn(p)
  /\ cmd' = p /\ status' = "running" /\ adopted' = 0
  /\ gen' = gen + 1 /\ recorded' = FALSE
  /\ pidFile' = p
  /\ wpc' = [wpc EXCEPT ![p] = "wait"]
  /\ xpc' = [xpc EXCEPT ![p] = "poll"]
  /\ Goto(c, "resume")
  /\ UNCHANGED <<up, registered, counted, frpVars, wa, was, boundVars>>

\* Refused, or one of the many failures between the guards and cmd.Start.
StartFails(c) ==
  /\ At(c, "start")
  /\ IF StartAllowed THEN status' \in {"error", status} ELSE status' = status
  /\ Return(c)
  /\ UNCHANGED <<procVars, up, cmd, adopted, gen, recorded, diskVars, frpVars,
                 watchVars, boundVars>>

Finished(c, next) == IF cl[c].op \in {"stop", "kill"} THEN Return(c) ELSE Goto(c, next)

\* A server the Daemon launched itself: "stop" goes to its stdin, and the stop
\* is counted here, whether or not the server reads it.
StopManaged(c) ==
  /\ At(c, "stop")
  /\ status = "running" /\ adopted = 0
  /\ recorded' = TRUE
  /\ counted' = counted \cup {cmd}
  /\ Finished(c, "wait")
  /\ UNCHANGED <<procVars, up, status, cmd, adopted, gen, pidFile, registered,
                 frpVars, watchVars, boundVars>>

\* A server adopted after a restart of the Daemon: SIGTERM, and a goroutine
\* that waits for it to end.  Nothing is counted.
StopAdopted(c) ==
  /\ At(c, "stop")
  /\ status = "running" /\ IsAlive(adopted)
  /\ was' = was \cup {[pid |-> adopted, gen |-> gen]}
  /\ Finished(c, "wait")
  /\ UNCHANGED <<procVars, up, instanceVars, diskVars, frpVars, wpc, xpc, wa,
                 boundVars>>

\* Stop fails; Delete goes on all the same.
StopRefused(c) ==
  /\ At(c, "stop")
  /\ status # "running" \/ (adopted # 0 /\ ~IsAlive(adopted))
  /\ IF cl[c].op = "delete" THEN Goto(c, "wait") ELSE Return(c)
  /\ UNCHANGED <<procVars, up, instanceVars, diskVars, frpVars, watchVars, boundVars>>

\* The poll of Instance.Status in Restart and Delete, and its deadline.
AfterWait(c) == IF cl[c].op = "restart" THEN "start" ELSE "unregister"
WaitEnds(c) ==
  /\ At(c, "wait") \/ At(c, "wait2")
  /\ status # "running"
  /\ Goto(c, AfterWait(c))
  /\ UNCHANGED <<procVars, up, instanceVars, diskVars, frpVars, watchVars, boundVars>>
WaitTimesOut_Never(c) == FALSE
WaitTimesOut(c) ==
  /\ status = "running"
  /\ \/ At(c, "wait") /\ Goto(c, "kill")
     \/ At(c, "wait2") /\ Return(c)
  /\ UNCHANGED <<procVars, up, instanceVars, diskVars, frpVars, watchVars, boundVars>>

SigKill(p) == proc' = IF Runs(p) THEN [proc EXCEPT ![p] = "killed"] ELSE proc

\* An adopted server is written off at once: nobody waits for it to die.
KillAdopted(c) ==
  /\ At(c, "kill") /\ adopted # 0
  /\ SigKill(adopted)
  /\ status' = "stopped" /\ adopted' = 0 /\ recorded' = TRUE
  /\ pidFile' = 0
  /\ counted' = counted \cup {adopted}
  /\ Goto(c, IF cl[c].op = "kill" THEN "untunnel" ELSE "wait2")
  /\ UNCHANGED <<started, up, cmd, gen, registered, frpVars, watchVars, boundVars>>

\* A launched one keeps its status until cmd.Wait returns.  Process.Kill fails
\* when it has been waited for; the stop is counted even then.
KillManaged(c) ==
  /\ At(c, "kill") /\ adopted = 0 /\ cmd # 0
  /\ SigKill(cmd)
  /\ recorded' = TRUE
  /\ counted' = counted \cup {cmd}
  /\ IF cl[c].op # "kill" THEN Goto(c, "wait2")
     ELSE IF IsAlive(cmd) THEN Goto(c, "untunnel") ELSE Return(c)
  /\ UNCHANGED <<started, up, status, cmd, adopted, gen, pidFile, registered,
                 frpVars, watchVars, boundVars>>

KillRefused(c) ==
  /\ At(c, "kill") /\ adopted = 0 /\ cmd = 0
  /\ Finished(c, "wait2")
  /\ UNCHANGED <<procVars, up, instanceVars, diskVars, frpVars, watchVars, boundVars>>

\* frp.Manager.StopInstance: stops the frpc the manager holds.
CutTunnel ==
  /\ frpc' = IF held THEN 0 ELSE frpc
  /\ held' = FALSE

Untunnel(c) ==
  /\ At(c, "untunnel")
  /\ IF tunnels THEN CutTunnel ELSE UNCHANGED <<frpc, held>>
  /\ Return(c)
  /\ UNCHANGED <<procVars, up, instanceVars, diskVars, tunnels, watchVars, boundVars>>

\* frp.Manager.Resume: nothing to do without a definition or with a frpc the
\* manager holds; else it stops a stale frpc, asks for the instance's status,
\* and only then launches.
Resume(c) ==
  /\ At(c, "resume")
  /\ IF ~tunnels \/ held
     THEN Return(c) /\ UNCHANGED frpc
     ELSE /\ frpc' = 0
          /\ IF registered /\ status = "running" THEN Goto(c, "launch") ELSE Return(c)
  /\ UNCHANGED <<procVars, up, instanceVars, diskVars, tunnels, held, watchVars,
                 boundVars>>
Launch(c) ==
  /\ At(c, "launch")
  /\ frpc' = Current
  /\ held' = tunnels
  /\ Return(c)
  /\ UNCHANGED <<procVars, up, instanceVars, diskVars, tunnels, watchVars, boundVars>>

\* registry.Delete reads the status, then removes the entry and its files; the
\* registry's own lock keeps a second Delete out between the two.
Unregister(c) ==
  /\ At(c, "unregister")
  /\ \A d \in Clients : cl[d].pc # "forget"
  /\ IF registered /\ status = "running" THEN Return(c)
     ELSE Goto(c, IF registered THEN "forget" ELSE "detunnel")
  /\ UNCHANGED <<procVars, up, instanceVars, diskVars, frpVars, watchVars, boundVars>>
Forget(c) ==
  /\ At(c, "forget")
  /\ registered' = FALSE /\ pidFile' = 0
  /\ Goto(c, "detunnel")
  /\ UNCHANGED <<procVars, up, instanceVars, counted, frpVars, watchVars, boundVars>>
Detunnel(c) ==
  /\ At(c, "detunnel")
  /\ tunnels' = FALSE
  /\ IF tunnels THEN CutTunnel ELSE UNCHANGED <<frpc, held>>
  /\ Return(c)
  /\ UNCHANGED <<procVars, up, instanceVars, diskVars, watchVars, boundVars>>

-----------------------------------------------------------------------------
(* Processes and the goroutines that wait for them.                        *)

Die(p) ==
  /\ Runs(p)
  /\ proc' = [proc EXCEPT ![p] = IF wpc[p] = "wait" THEN "zombie" ELSE "dead"]
  /\ UNCHANGED <<started, up, instanceVars, diskVars, frpVars, watchVars, cl, boundVars>>

\* The goroutine Start leaves behind: wait, run the exit hook, then say stopped.
WaitReturns_SaysStopped(p) ==
  /\ wpc[p] = "wait" /\ proc[p] = "zombie"
  /\ proc' = [proc EXCEPT ![p] = "dead"]
  /\ wpc' = [wpc EXCEPT ![p] = "hook"]
  /\ status' = "stopped"
  /\ UNCHANGED <<started, up, cmd, adopted, gen, recorded, diskVars, frpVars,
                 xpc, wa, was, cl, boundVars>>
WaitReturns(p) ==
  /\ wpc[p] = "wait" /\ proc[p] = "zombie"
  /\ proc' = [proc EXCEPT ![p] = "dead"]
  /\ wpc' = [wpc EXCEPT ![p] = "hook"]
  /\ UNCHANGED <<started, up, instanceVars, diskVars, frpVars, xpc, wa, was, cl, boundVars>>
FireExit(p) ==
  /\ wpc[p] = "hook"
  /\ IF tunnels THEN CutTunnel ELSE UNCHANGED <<frpc, held>>
  /\ wpc' = [wpc EXCEPT ![p] = "finish"]
  /\ UNCHANGED <<procVars, up, instanceVars, diskVars, tunnels, xpc, wa, was, cl, boundVars>>
Finish(p) ==
  /\ wpc[p] = "finish"
  /\ status' = "stopped"
  /\ pidFile' = 0
  /\ wpc' = [wpc EXCEPT ![p] = "done"]
  /\ UNCHANGED <<procVars, up, cmd, adopted, gen, recorded, registered, counted,
                 frpVars, xpc, wa, was, cl, boundVars>>

\* watchExit counts a stop nobody asked for: one look a second.  (Its limit of
\* 24 hours is left out.)
ExitCheckCmd(p) ==
  /\ xpc[p] = "poll"
  /\ xpc' = [xpc EXCEPT ![p] = IF cmd = p THEN "look" ELSE "done"]
  /\ UNCHANGED <<procVars, up, instanceVars, diskVars, frpVars, wpc, wa, was, cl, boundVars>>
ExitLook(p) ==
  /\ xpc[p] = "look"
  /\ xpc' = [xpc EXCEPT ![p] = IF IsAlive(p) THEN "poll" ELSE "count"]
  /\ UNCHANGED <<procVars, up, instanceVars, diskVars, frpVars, wpc, wa, was, cl, boundVars>>
ExitCount(p) ==
  /\ xpc[p] = "count"
  /\ counted' = IF recorded THEN counted ELSE counted \cup {p}
  /\ xpc' = [xpc EXCEPT ![p] = "done"]
  /\ UNCHANGED <<procVars, up, instanceVars, pidFile, registered, frpVars, wpc,
                 wa, was, cl, boundVars>>

\* watchAdopted: one look every two seconds, the exit hook, the critical
\* section, then the pid record and the count outside the lock.
AdoptedLook_Once ==
  /\ wa.pc = "poll"
  /\ wa' = [wa EXCEPT !.pc = IF IsAlive(wa.pid) THEN "done" ELSE "hook"]
  /\ UNCHANGED <<procVars, up, instanceVars, diskVars, frpVars, wpc, xpc, was, cl, boundVars>>
AdoptedLook ==
  /\ wa.pc = "poll" /\ ~IsAlive(wa.pid)
  /\ wa' = [wa EXCEPT !.pc = "hook"]
  /\ UNCHANGED <<procVars, up, instanceVars, diskVars, frpVars, wpc, xpc, was, cl, boundVars>>
AdoptedFireExit ==
  /\ wa.pc = "hook"
  /\ IF tunnels THEN CutTunnel ELSE UNCHANGED <<frpc, held>>
  /\ wa' = [wa EXCEPT !.pc = "lock"]
  /\ UNCHANGED <<procVars, up, instanceVars, diskVars, tunnels, wpc, xpc, was, cl, boundVars>>
AdoptedLock ==
  /\ wa.pc = "lock"
  /\ LET mine   == gen = wa.gen
         exited == adopted = wa.pid
     IN /\ adopted' = IF mine /\ exited THEN 0 ELSE adopted
        /\ status'  = IF mine /\ exited THEN "stopped" ELSE status
        /\ wa' = [wa EXCEPT !.pc = IF mine THEN "remove" ELSE "done",
                            !.count = mine /\ exited /\ ~recorded]
  /\ UNCHANGED <<procVars, up, cmd, gen, recorded, diskVars, frpVars, wpc, xpc,
                 was, cl, boundVars>>
AdoptedRemove ==
  /\ wa.pc = "remove"
  /\ pidFile' = 0
  /\ counted' = IF wa.count THEN counted \cup {wa.pid} ELSE counted
  /\ wa' = [wa EXCEPT !.pc = "done"]
  /\ UNCHANGED <<procVars, up, instanceVars, registered, frpVars, wpc, xpc, was,
                 cl, boundVars>>

\* watchAdoptedStop: one look a second, for 30 seconds.
AdoptedStopSees(w) ==
  /\ w \in was /\ ~IsAlive(w.pid)
  /\ IF gen = w.gen
     THEN status' = "stopped" /\ adopted' = 0 /\ pidFile' = 0
     ELSE UNCHANGED <<status, adopted, pidFile>>
  /\ was' = was \ {w}
  /\ UNCHANGED <<procVars, up, cmd, gen, recorded, registered, counted, frpVars,
                 wpc, xpc, wa, cl, boundVars>>
AdoptedStopGivesUp(w) ==
  /\ w \in was /\ IsAlive(w.pid)
  /\ was' = was \ {w}
  /\ UNCHANGED <<procVars, up, instanceVars, diskVars, frpVars, wpc, xpc, wa, cl,
                 boundVars>>

-----------------------------------------------------------------------------
(* The Daemon ends and comes back.  The servers run on (KillMode=process); *)
(* memory, goroutines and calls are gone, init reaps what has exited.      *)

Exit ==
  /\ up /\ crashes < MaxCrash
  /\ up' = FALSE /\ crashes' = crashes + 1
  /\ status' = "stopped" /\ cmd' = 0 /\ adopted' = 0 /\ gen' = 0 /\ recorded' = FALSE
  /\ held' = FALSE
  /\ wpc' = [p \in Procs |-> "none"] /\ xpc' = [p \in Procs |-> "none"]
  /\ wa' = NoWatch /\ was' = {}
  /\ cl' = [c \in Actors |-> Idle]
  /\ UNCHANGED <<pidFile, registered, counted, tunnels, calls>>

Reaped == [p \in Procs |-> IF proc[p] = "zombie" THEN "dead" ELSE proc[p]]

\* SIGTERM: main stops every frpc it holds before it leaves.
Shutdown ==
  /\ Exit
  /\ proc' = Reaped /\ UNCHANGED started
  /\ frpc' = IF held THEN 0 ELSE frpc
Crash ==
  /\ Exit
  /\ proc' = Reaped /\ UNCHANGED started
  /\ UNCHANGED frpc
\* A crash inside Start: the process runs and no pid record names it.
CrashInStart(c) ==
  /\ At(c, "start") /\ StartAllowed
  /\ Exit
  /\ started < MaxProcs
  /\ started' = started + 1
  /\ proc' = [Reaped EXCEPT ![started + 1] = "alive"]
  /\ UNCHANGED frpc

\* registry.Load: the process the pid record names, else one found in the
\* instance's directory, else stopped.  Daemon.Run then resumes the tunnels.
Adopt(p) ==
  /\ status' = "running" /\ adopted' = p /\ gen' = 1
  /\ wa' = [NoWatch EXCEPT !.pid = p, !.gen = 1, !.pc = "poll"]
  /\ cl' = [cl EXCEPT ![Boot] = [op |-> "boot", pc |-> "boot"]]
StayStopped == UNCHANGED <<status, adopted, gen, wa, cl>>
Load ==
  /\ ~up
  /\ up' = TRUE
  /\ IF ~registered THEN StayStopped
     ELSE IF IsAlive(pidFile) THEN Adopt(pidFile)
     ELSE IF Orphans # {} THEN \E p \in Orphans : Adopt(p)
     ELSE StayStopped
  /\ tunnels' = (tunnels /\ registered)
  /\ UNCHANGED <<procVars, cmd, recorded, diskVars, frpc, held, wpc, xpc, was, boundVars>>
BootCheck(c) ==
  /\ At(c, "boot")
  /\ IF status = "running" THEN Goto(c, "resume") ELSE Return(c)
  /\ UNCHANGED <<procVars, up, instanceVars, diskVars, frpVars, watchVars, boundVars>>

-----------------------------------------------------------------------------
Handler(c) ==
  \/ \E p \in Procs : StartProcess(c, p)
  \/ StartFails(c)
  \/ StopManaged(c) \/ StopAdopted(c) \/ StopRefused(c)
  \/ WaitEnds(c) \/ WaitTimesOut(c)
  \/ KillAdopted(c) \/ KillManaged(c) \/ KillRefused(c)
  \/ Untunnel(c) \/ Resume(c) \/ Launch(c)
  \/ Unregister(c) \/ Forget(c) \/ Detunnel(c)
  \/ BootCheck(c)
Waiter(p)    == WaitReturns(p) \/ FireExit(p) \/ Finish(p)
WatchExit(p) == ExitCheckCmd(p) \/ ExitLook(p) \/ ExitCount(p)
WatchAdopted == AdoptedLook \/ AdoptedFireExit \/ AdoptedLock \/ AdoptedRemove
DaemonEnds   == Shutdown \/ Crash \/ \E c \in Clients : CrashInStart(c)

Next ==
  \/ \E c \in Clients, op \in Ops : Call(c, op)
  \/ \E c \in Actors : Handler(c)
  \/ \E p \in Procs : Die(p) \/ Waiter(p) \/ WatchExit(p)
  \/ WatchAdopted
  \/ \E w \in was : AdoptedStopSees(w) \/ AdoptedStopGivesUp(w)
  \/ DaemonEnds
  \/ Load

Spec == Init /\ [][Next]_vars

\* Scheduling: a goroutine that can run does, a call that can return does, and
\* a killed process dies.  A live server may run for ever and ignore "stop".
Fairness ==
  /\ \A c \in Actors : WF_vars(Handler(c))
  /\ \A p \in Procs : WF_vars(Waiter(p)) /\ WF_vars(proc[p] = "killed" /\ Die(p))
  /\ WF_vars(WatchAdopted)
FairSpec == Spec /\ Fairness

-----------------------------------------------------------------------------
(* Properties.                                                             *)

HandlerPCs == {"idle", "start", "resume", "launch", "stop", "wait", "kill", "wait2",
               "untunnel", "unregister", "forget", "detunnel", "boot"}

\* Every variable has its type; the status "starting" that Start tests for is
\* never left behind.
TypeOK ==
  /\ proc \in [Procs -> ProcStates] /\ started \in 0..MaxProcs
  /\ up \in BOOLEAN
  /\ status \in {"running", "stopped", "error"}
  /\ cmd \in 0..MaxProcs /\ adopted \in 0..MaxProcs
  /\ gen \in Nat /\ recorded \in BOOLEAN
  /\ pidFile \in 0..MaxProcs /\ registered \in BOOLEAN
  /\ tunnels \in BOOLEAN /\ frpc \in 0..MaxProcs /\ held \in BOOLEAN
  /\ counted \subseteq Procs
  /\ wpc \in [Procs -> {"none", "wait", "hook", "finish", "done"}]
  /\ xpc \in [Procs -> {"none", "poll", "look", "count", "done"}]
  /\ wa \in [pid : 0..MaxProcs, gen : Nat, count : BOOLEAN,
             pc : {"none", "poll", "hook", "lock", "remove", "done"}]
  /\ was \subseteq [pid : 0..MaxProcs, gen : Nat]
  /\ cl \in [Actors -> [op : Ops \cup {"none", "boot"}, pc : HandlerPCs]]
  /\ calls \in Nat /\ crashes \in Nat

\* A server that runs and was not killed is the one the Daemon says is running:
\* through restarts of the Daemon, adoption, and watchers of earlier processes
\* that come too late, the panel never shows "stopped" over a live server.
NoUnmanagedServer ==
  up /\ registered =>
    \A p \in Procs : proc[p] = "alive" => status = "running" /\ Current = p

\* Two servers never run in one world directory: not after a kill that has not
\* taken effect yet, nor when the Daemon died between the fork and the record.
OneServer == \A p, q \in Procs : Runs(p) /\ Runs(q) => p = q

\* Both: there is at most one server, and it is the one the Daemon shows.
OneManagedServer == OneServer /\ NoUnmanagedServer

\* Nobody can start the next server before the exit hook of the last one ran:
\* until then the instance still says running, and names that process.
HookBeforeRestart ==
  \A p \in Procs : wpc[p] \in {"wait", "hook", "finish"} =>
    status = "running" /\ cmd = p /\ adopted = 0

\* A launched server that ended is in the statistics once its watchExit is done,
\* unless another was launched meanwhile.
CountedUnlessReplaced ==
  \A p \in Procs : xpc[p] = "done" /\ cmd = p => p \in counted

\* The exit hook of a server the Daemon launched never takes down the frpc of a
\* later one.
HookCutsOwnTunnel ==
  [][\A p \in Procs : wpc[p] = "hook" /\ wpc'[p] = "finish" =>
       frpc <= p \/ frpc' = frpc]_vars

\* In a life of the Daemon that adopted nothing, the pid record names the server
\* as long as it runs, so that the next Daemon can adopt it.
PidRecordNamesServer ==
  up /\ registered /\ wa.pc = "none" /\ status = "running" /\ proc[cmd] = "alive" =>
    pidFile = cmd

\* The strengthening that makes the state invariants inductive.
LaunchOrder == \A p \in Procs : proc[p] = "unborn" <=> p > started
WaiterFacts ==
  \A p \in Procs : /\ proc[p] = "zombie" => wpc[p] = "wait"
                   /\ wpc[p] \in {"hook", "finish"} => proc[p] = "dead"
AdoptionFacts ==
  /\ adopted # 0 => cmd = 0
  /\ status = "running" => Current # 0
WatcherFacts ==
  /\ wa.pc # "none" => wa.pid \in 1..started
  /\ wa.pc \in {"hook", "lock"} => proc[wa.pid] = "dead"
  /\ \A w \in was : /\ w.pid \in 1..started /\ w.gen <= gen
                    /\ w.gen = gen => cmd = 0 /\ adopted \in {0, w.pid}
DownFacts ==
  ~up => status = "stopped" /\ cmd = 0 /\ adopted = 0 /\ wa.pc = "none" /\ was = {}
RecordFacts == recorded /\ cmd # 0 => cmd \in counted

Facts ==
  /\ LaunchOrder /\ OneServer /\ WaiterFacts /\ AdoptionFacts
  /\ WatcherFacts /\ DownFacts /\ RecordFacts
  /\ HookBeforeRestart /\ NoUnmanagedServer /\ CountedUnlessReplaced
IInv == TypeOK /\ Facts

\* A server that is gone is noticed: the instance stops saying it is running.
DeadServerIsNoticed ==
  \A p \in Procs :
    (up /\ status = "running" /\ Current = p /\ ~Runs(p))
      ~> (~up \/ status # "running" \/ Current # p)

\* A restart returns, even when the server ignores both the stop and the wait.
RestartReturns ==
  \A c \in Clients : (cl[c].op = "restart") ~> (cl[c].op = "none")

-----------------------------------------------------------------------------
(* What comments and tests of the code say, and the code does not do.      *)

Quiet == up /\ \A c \in Actors : cl[c] = Idle

\* frp/manager.go:141: "frpc only exists while the instance runs".
FrpcOnlyWhileRunning == Quiet /\ status # "running" => frpc = 0

\* process.go:800: and so does the hook of a server it adopted.
AdoptedHookCutsOwnTunnel ==
  [][wa.pc = "hook" /\ wa'.pc = "lock" => frpc <= wa.pid \/ frpc' = frpc]_vars

\* grpcapi/server.go:374: an instance that is deleted is not left running
\* with nobody managing it.
DeletedMeansStopped ==
  up /\ ~registered => \A p \in Procs : proc[p] # "alive"
=============================================================================
