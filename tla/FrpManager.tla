------------------------------ MODULE FrpManager ------------------------------
(***************************************************************************)
(* The frpc manager of a node (internal/frp) for one instance: the set of  *)
(* tunnel definitions in memory and in tunnels.json, the frpc process that *)
(* carries them, and the pid file that outlives the daemon.                *)
(*                                                                         *)
(* The manager holds no lock over a whole call: Apply, Remove, Resume and  *)
(* RemoveInstance change the map under one lock, write the file under      *)
(* another and restart frpc under none, so each is a sequence of steps.    *)
(* Overlap says whether several calls may be under way at once (and        *)
(* whether one may arrive while a restarting daemon still reads the        *)
(* definitions back).                                                      *)
(*                                                                         *)
(* The goroutine that waits for a frpc (the watcher) is never in a hurry:  *)
(* it may run long after the process ended.  A daemon that is killed       *)
(* leaves its frpc processes alive, without a watcher.                     *)
(***************************************************************************)
EXTENDS Naturals, FiniteSets

CONSTANTS
  Tunnels,       \* tunnel ids the panel may apply
  DirectTunnels, \* those published directly, which frpc has no part in
  Callers,       \* RPC handlers and hooks that call the manager
  Procs,         \* bound: frpc processes that may be started
  Objects,       \* bound: definition sets (instanceFRP) that may be created
  MaxCalls,      \* bound: calls made in a behaviour
  MaxCrashes,    \* bound: ends of the daemon
  Overlap        \* may calls overlap?

ASSUME FrpAssumption ==
  /\ DirectTunnels \subseteq Tunnels
  /\ Procs \subseteq Nat \ {0}
  /\ Objects \subseteq Nat \ {0}
  /\ MaxCalls \in Nat /\ MaxCrashes \in Nat
  /\ Overlap \in BOOLEAN

VARIABLES
  up,        \* "up", "loading" (serving, definitions not read yet) or "down"
  running,   \* is the instance's process running (reg.Get(id).Status())
  entry,     \* byInst[instance]: the current definition set, or 0
  tuns,      \* tunnels of each definition set
  srv,       \* does the set know a frps server (st.server)
  cmd,       \* the frpc each definition set manages (st.cmd), or 0
  made,      \* definition sets created so far
  disk,      \* tunnels.json
  pidFile,   \* frpc.pid: a pid, or 0
  proc,      \* each frpc process
  serves,    \* tunnels in the configuration a frpc was started with
  cl,        \* the callers
  claim,     \* history: what the last answer about a tunnel promised
  orphaned,  \* history: frpc processes alive when the daemon ended
  calls, crashes

frpVars == <<up, running, entry, tuns, srv, cmd, made, disk, pidFile, proc,
             serves, cl, claim, orphaned, calls, crashes>>

memory == <<entry, tuns, srv, made>>
bounds == <<calls, crashes>>

Idle == [op |-> "none", pc |-> "idle", t |-> {}, st |-> 0, pid |-> 0]
NoFile == [tunnels |-> {}, server |-> FALSE, exists |-> FALSE]

Live(p) == p \in Procs /\ proc[p] = "live"
Unborn == {p \in Procs : proc[p] = "unborn"}

FrpInit ==
  /\ up = "up" /\ running = FALSE
  /\ entry = 0
  /\ tuns = [o \in Objects |-> {}]
  /\ srv = [o \in Objects |-> FALSE]
  /\ cmd = [o \in Objects |-> 0]
  /\ made = {}
  /\ disk = NoFile
  /\ pidFile = 0
  /\ proc = [p \in Procs |-> "unborn"]
  /\ serves = [p \in Procs |-> {}]
  /\ cl = [c \in Callers |-> Idle]
  /\ claim = [t \in Tunnels |-> "absent"]
  /\ orphaned = {}
  /\ calls = 0 /\ crashes = 0

-----------------------------------------------------------------------------
(* Calls *)

\* A call can begin: the daemon serves, and its predecessors have returned
\* unless calls overlap.
MayCall(c) ==
  /\ up = "up" \/ (Overlap /\ up = "loading")
  /\ cl[c].pc = "idle" /\ calls < MaxCalls
  /\ Overlap \/ \A d \in Callers : cl[d].pc = "idle"
  /\ calls' = calls + 1

BeginCall(c, op, t, st, pc) ==
  cl' = [cl EXCEPT ![c] = [op |-> op, pc |-> pc, t |-> t, st |-> st, pid |-> 0]]

\* While a call about tunnels is under way nothing is promised about them.
Unclaim(T) == claim' = [t \in Tunnels |-> IF t \in T THEN "unknown" ELSE claim[t]]

\* Apply, up to the first unlock: find or create the definition set, take
\* over the server unless it is empty, and define the tunnel.
Apply(c, t) ==
  /\ MayCall(c)
  /\ \E st \in IF entry # 0 THEN {entry} ELSE Objects \ made :
       /\ entry' = st
       /\ made' = made \cup {st}
       /\ tuns' = [tuns EXCEPT ![st] = @ \cup {t}]
       /\ srv' = [srv EXCEPT ![st] = @ \/ t \notin DirectTunnels]
       /\ BeginCall(c, "apply", {t}, st, "persist")
  /\ Unclaim({t})
  /\ UNCHANGED <<up, running, cmd, disk, pidFile, proc, serves, orphaned, crashes>>

\* The handlers: a request that lacks a server, names no instance or aims at a
\* port of the platform itself is refused without reaching the manager.
ApplyTunnel(c, t) == t \notin DirectTunnels /\ Apply(c, t)
applyDirectTunnel(c, t) == t \in DirectTunnels /\ Apply(c, t)

\* Remove, up to the first unlock.  The last tunnel of the set takes frpc
\* and the files with it.
Remove(c, t) ==
  /\ MayCall(c)
  /\ entry # 0
  /\ tuns' = [tuns EXCEPT ![entry] = @ \ {t}]
  /\ BeginCall(c, IF tuns[entry] \subseteq {t} THEN "last" ELSE "remove", {t}, entry,
               IF tuns[entry] \subseteq {t} THEN "stop" ELSE "persist")
  /\ Unclaim({t})
  /\ UNCHANGED <<up, running, entry, srv, made, cmd, disk, pidFile, proc, serves,
                 orphaned, crashes>>

\* Remove without an entry: it counts as removed.
RemoveUnknown(c, t) ==
  /\ MayCall(c)
  /\ entry = 0
  /\ claim' = [claim EXCEPT ![t] = "absent"]
  /\ UNCHANGED <<up, running, memory, cmd, disk, pidFile, proc, serves, cl,
                 orphaned, crashes>>

RemoveTunnel(c, t) == Remove(c, t) \/ RemoveUnknown(c, t)

\* Mutant: the instance's entry goes, its frpc stays
RemoveInstance_LeavesFrpc(c) ==
  /\ MayCall(c)
  /\ entry # 0
  /\ entry' = 0
  /\ BeginCall(c, "delete", Tunnels, entry, "clean")
  /\ Unclaim(Tunnels)
  /\ UNCHANGED <<up, running, tuns, srv, made, cmd, disk, pidFile, proc, serves,
                 orphaned, crashes>>

\* RemoveInstance: the entry goes first, frpc and the files after it.
RemoveInstance(c) ==
  /\ MayCall(c)
  /\ entry # 0
  /\ entry' = 0
  /\ BeginCall(c, "delete", Tunnels, entry, "stop")
  /\ Unclaim(Tunnels)
  /\ UNCHANGED <<up, running, tuns, srv, made, cmd, disk, pidFile, proc, serves,
                 orphaned, crashes>>

\* StopInstance: only frpc is stopped, the definitions stay.
StopInstance(c) ==
  /\ MayCall(c)
  /\ entry # 0
  /\ BeginCall(c, "halt", {}, entry, "stop")
  /\ UNCHANGED <<up, running, memory, cmd, disk, pidFile, proc, serves, claim,
                 orphaned, crashes>>

\* Resume: nothing to do without tunnels, or when the set already has a frpc.
Resume(c) ==
  /\ MayCall(c)
  /\ entry # 0 /\ tuns[entry] # {} /\ cmd[entry] = 0
  /\ BeginCall(c, "resume", {}, entry, "stop")
  /\ UNCHANGED <<up, running, memory, cmd, disk, pidFile, proc, serves, claim,
                 orphaned, crashes>>

-----------------------------------------------------------------------------
(* The steps of a call *)

At(c, pc) == cl[c].pc = pc
Proceed(c, pc) == cl' = [cl EXCEPT ![c].pc = pc]

\* The call returns; a success of a call about tunnels is a promise.
EndCall(c, ok) ==
  /\ cl' = [cl EXCEPT ![c] = Idle]
  /\ claim' = [t \in Tunnels |->
       IF ok /\ t \in cl[c].t
         THEN IF cl[c].op = "apply" THEN "present" ELSE "absent"
         ELSE claim[t]]

\* Mutant: frpc is not restarted when a tunnel was removed
Persist_NoRestart(c) ==
  /\ At(c, "persist")
  /\ disk' = [tunnels |-> tuns[cl[c].st], server |-> srv[cl[c].st], exists |-> TRUE]
  /\ IF cl[c].op = "remove" \/ cl[c].t \subseteq DirectTunnels
       THEN EndCall(c, TRUE)
       ELSE Proceed(c, "stop") /\ UNCHANGED claim
  /\ UNCHANGED <<up, running, memory, cmd, pidFile, proc, serves, orphaned, bounds>>

\* persist writes the set as it is at that moment; a direct tunnel needs no
\* frpc and ends here.
Persist(c) ==
  /\ At(c, "persist")
  /\ \/ /\ disk' = [tunnels |-> tuns[cl[c].st], server |-> srv[cl[c].st], exists |-> TRUE]
        /\ IF cl[c].op = "apply" /\ cl[c].t \subseteq DirectTunnels
             THEN EndCall(c, TRUE)
             ELSE Proceed(c, "stop") /\ UNCHANGED claim
     \/ EndCall(c, FALSE) /\ UNCHANGED disk
  /\ UNCHANGED <<up, running, memory, cmd, pidFile, proc, serves, orphaned, bounds>>

\* stopProcess, first half: the caller takes the process away from the set.
TakeCmd(c) ==
  /\ At(c, "stop")
  /\ cl' = [cl EXCEPT ![c].pc = "kill", ![c].pid = cmd[cl[c].st]]
  /\ cmd' = [cmd EXCEPT ![cl[c].st] = 0]
  /\ UNCHANGED <<up, running, memory, disk, pidFile, proc, serves, claim, orphaned, bounds>>

\* stopProcess, second half: SIGTERM, at most 3 s, SIGKILL.
AfterStop(op) == CASE op \in {"last", "delete"} -> "clean"
                   [] op = "halt" -> "done"
                   [] OTHER -> "stale"

StopProcess(c) ==
  /\ At(c, "kill")
  /\ proc' = [p \in Procs |-> IF p = cl[c].pid /\ proc[p] = "live" THEN "dead" ELSE proc[p]]
  /\ cl' = [cl EXCEPT ![c].pc = AfterStop(cl[c].op), ![c].pid = 0]
  /\ UNCHANGED <<up, running, memory, cmd, disk, pidFile, serves, claim, orphaned, bounds>>

\* killStaleFrpc: whatever the pid file names is ended, and the file with it.
\* Nobody waits for an orphan, so it is gone at once.
KillStale(c) ==
  /\ At(c, "stale")
  /\ proc' = [p \in Procs |->
       IF p = pidFile /\ proc[p] = "live"
         THEN IF p \in orphaned THEN "gone" ELSE "dead"
         ELSE proc[p]]
  /\ pidFile' = 0
  /\ Proceed(c, "check")
  /\ UNCHANGED <<up, running, memory, cmd, disk, serves, claim, orphaned, bounds>>

\* Mutant: frpc.toml goes, tunnels.json stays
CleanInstanceFiles_KeepsDefinitions(c) ==
  /\ At(c, "clean")
  /\ pidFile' = 0
  /\ Proceed(c, IF cl[c].op = "last" THEN "forget" ELSE "done")
  /\ UNCHANGED <<up, running, memory, cmd, disk, proc, serves, claim, orphaned, bounds>>

\* CleanInstanceFiles: frpc.toml, tunnels.json and the pid file.
CleanInstanceFiles(c) ==
  /\ At(c, "clean")
  /\ disk' = NoFile
  /\ pidFile' = 0
  /\ Proceed(c, IF cl[c].op = "last" THEN "forget" ELSE "done")
  /\ UNCHANGED <<up, running, memory, cmd, proc, serves, claim, orphaned, bounds>>

\* The end of Remove for the last tunnel: the instance's entry is dropped,
\* whichever set it holds by then.
Forget(c) ==
  /\ At(c, "forget")
  /\ entry' = 0
  /\ EndCall(c, TRUE)
  /\ UNCHANGED <<up, running, tuns, srv, made, cmd, disk, pidFile, proc, serves,
                 orphaned, bounds>>

Return(c) ==
  /\ At(c, "done")
  /\ EndCall(c, TRUE)
  /\ UNCHANGED <<up, running, memory, cmd, disk, pidFile, proc, serves, orphaned, bounds>>

\* renderConfig: it fails without a server, and leaves direct tunnels out.
Rendered(st) == tuns[st] \ DirectTunnels

\* restart up to the start of frpc: a stopped instance gets none; frpc may
\* not be installed and the configuration may not render or not be written.
CheckAndRender(c) ==
  /\ At(c, "check")
  /\ \/ ~running /\ EndCall(c, TRUE)
     \/ running /\ EndCall(c, FALSE)
     \/ /\ running /\ srv[cl[c].st]
        /\ Proceed(c, "launch") /\ UNCHANGED claim
  /\ UNCHANGED <<up, running, memory, cmd, disk, pidFile, proc, serves, orphaned, bounds>>

\* exec of frpc with the configuration just written.
Launch(c) ==
  /\ At(c, "launch")
  /\ \/ /\ EndCall(c, FALSE)
        /\ UNCHANGED <<proc, serves>>
     \/ \E p \in Unborn :
          /\ proc' = [proc EXCEPT ![p] = "live"]
          /\ serves' = [serves EXCEPT ![p] = Rendered(cl[c].st)]
          /\ cl' = [cl EXCEPT ![c].pc = "store", ![c].pid = p]
          /\ UNCHANGED claim
  /\ UNCHANGED <<up, running, memory, cmd, disk, pidFile, orphaned, bounds>>

\* The set gets the new process, over whatever it had.
StoreCmd(c) ==
  /\ At(c, "store")
  /\ cmd' = [cmd EXCEPT ![cl[c].st] = cl[c].pid]
  /\ Proceed(c, "record")
  /\ UNCHANGED <<up, running, memory, disk, pidFile, proc, serves, claim, orphaned, bounds>>

RecordPid(c) ==
  /\ At(c, "record")
  /\ pidFile' = cl[c].pid
  /\ EndCall(c, TRUE)
  /\ UNCHANGED <<up, running, memory, cmd, disk, proc, serves, orphaned, bounds>>

-----------------------------------------------------------------------------
(* What happens to frpc, the instance and the daemon *)

\* frpc ends by itself (refused by frps, killed by hand).
FrpcDies(p) ==
  /\ Live(p)
  /\ proc' = [proc EXCEPT ![p] = IF p \in orphaned THEN "gone" ELSE "dead"]
  /\ UNCHANGED <<up, running, memory, cmd, disk, pidFile, serves, cl, claim, orphaned, bounds>>

\* The watcher: it is started when the pid has been recorded; it removes the
\* pid file, whatever process it names by now, and clears st.cmd if it is
\* still the watched one.
Watcher(p) ==
  /\ proc[p] = "dead"
  /\ \A c \in Callers : cl[c].pid = p => cl[c].pc \notin {"store", "record"}
  /\ proc' = [proc EXCEPT ![p] = "gone"]
  /\ pidFile' = 0
  /\ cmd' = [o \in Objects |-> IF cmd[o] = p THEN 0 ELSE cmd[o]]
  /\ UNCHANGED <<up, running, memory, disk, serves, cl, claim, orphaned, bounds>>

InstanceChanges ==
  /\ running' = ~running
  /\ UNCHANGED <<up, memory, cmd, disk, pidFile, proc, serves, cl, claim, orphaned, bounds>>

\* The daemon's memory and goroutines are lost; its frpc processes that are
\* in S survive, and a finished one has nobody left to report to.
Lost(S) ==
  /\ up' = "down"
  /\ entry' = 0
  /\ tuns' = [o \in Objects |-> {}]
  /\ srv' = [o \in Objects |-> FALSE]
  /\ cmd' = [o \in Objects |-> 0]
  /\ made' = {}
  /\ cl' = [c \in Callers |-> Idle]
  /\ proc' = [p \in Procs |->
       IF proc[p] \in {"live", "dead"} /\ p \notin S THEN "gone" ELSE proc[p]]
  /\ orphaned' = S
  /\ UNCHANGED <<running, disk, pidFile, serves, claim>>

AllLive == {p \in Procs : Live(p)}

Crash ==
  /\ up # "down" /\ crashes < MaxCrashes
  /\ crashes' = crashes + 1 /\ UNCHANGED calls
  /\ Lost(AllLive)

\* SIGTERM: StopAll ends the frpc of every set before the process exits.
StopAll ==
  /\ up # "down" /\ crashes < MaxCrashes
  /\ crashes' = crashes + 1 /\ UNCHANGED calls
  /\ Lost(AllLive \ (IF entry = 0 THEN {} ELSE {cmd[entry]}))

\* The new daemon serves before it has read the definitions.
Boot ==
  /\ up = "down"
  /\ up' = "loading"
  /\ UNCHANGED <<running, memory, cmd, disk, pidFile, proc, serves, cl, claim, orphaned, bounds>>

\* LoadFromDisk puts a new set in place of whatever is there; an instance
\* that runs is then resumed by an ordinary call.
LoadFromDisk ==
  /\ up = "loading"
  /\ up' = "up"
  /\ IF disk.tunnels = {}
       THEN UNCHANGED memory
       ELSE \E st \in Objects \ made :
              /\ entry' = st
              /\ made' = made \cup {st}
              /\ tuns' = [tuns EXCEPT ![st] = disk.tunnels]
              /\ srv' = [srv EXCEPT ![st] = disk.server]
  /\ UNCHANGED <<running, cmd, disk, pidFile, proc, serves, cl, claim, orphaned, bounds>>

-----------------------------------------------------------------------------
CallStep(c) ==
  \/ \E t \in Tunnels : ApplyTunnel(c, t) \/ applyDirectTunnel(c, t) \/ RemoveTunnel(c, t)
  \/ RemoveInstance(c) \/ StopInstance(c) \/ Resume(c)
  \/ Persist(c) \/ TakeCmd(c) \/ StopProcess(c) \/ KillStale(c)
  \/ CleanInstanceFiles(c) \/ Forget(c) \/ Return(c)
  \/ CheckAndRender(c) \/ Launch(c) \/ StoreCmd(c) \/ RecordPid(c)

FrpNext ==
  \/ \E c \in Callers : CallStep(c)
  \/ \E p \in Procs : FrpcDies(p) \/ Watcher(p)
  \/ InstanceChanges \/ Crash \/ StopAll \/ Boot \/ LoadFromDisk

FrpSpec == FrpInit /\ [][FrpNext]_frpVars

-----------------------------------------------------------------------------
(* Properties *)

Quiet == \A c \in Callers : cl[c].pc = "idle"

CallRecords ==
  [op : {"none", "apply", "remove", "last", "delete", "halt", "resume"},
   pc : {"idle", "persist", "stop", "kill", "stale", "check", "launch",
         "store", "record", "clean", "forget", "done"},
   t : SUBSET Tunnels, st : Objects \cup {0}, pid : Procs \cup {0}]

\* Every variable keeps its type: no frpc, set or pid comes from nowhere
\* (the fields of instanceFRP and Manager).
FrpTypeOK ==
  /\ up \in {"up", "loading", "down"} /\ running \in BOOLEAN
  /\ entry \in Objects \cup {0}
  /\ tuns \in [Objects -> SUBSET Tunnels]
  /\ srv \in [Objects -> BOOLEAN]
  /\ cmd \in [Objects -> Procs \cup {0}]
  /\ made \subseteq Objects
  /\ disk \in [tunnels : SUBSET Tunnels, server : BOOLEAN, exists : BOOLEAN]
  /\ pidFile \in Procs \cup {0}
  /\ proc \in [Procs -> {"unborn", "live", "dead", "gone"}]
  /\ serves \in [Procs -> SUBSET Tunnels]
  /\ cl \in [Callers -> CallRecords]
  /\ claim \in [Tunnels -> {"present", "absent", "unknown"}]
  /\ orphaned \subseteq Procs
  /\ calls \in 0..MaxCalls /\ crashes \in 0..MaxCrashes

\* What a tunnel call answered is what the next daemon will read: an applied
\* tunnel is in tunnels.json and a removed one is not, so no tunnel is lost
\* by a restart and none comes back (Apply, Remove, RemoveInstance, persist).
AnswersAreDurable == \A t \in Tunnels :
  /\ claim[t] = "present" => t \in disk.tunnels
  /\ claim[t] = "absent" => t \notin disk.tunnels

\* The table of TunnelTable: in memory while the daemon serves, else only in the file.
Wanted == IF up # "up" THEN disk.tunnels ELSE IF entry = 0 THEN {} ELSE tuns[entry]

Table == INSTANCE TunnelTable WITH wanted <- Wanted, stored <- disk.tunnels, answer <- claim

\* Callers see the table of TunnelTable and nothing else: a call touches the tunnels it
\* is about, whatever it saves it saves whole, it succeeds only on what is saved, and a
\* restart brings back what was saved (Apply, Remove, RemoveInstance, persist, LoadFromDisk).
ImplementsTable == Table!Spec

\* Between calls the frpc of an instance carries exactly what the panel was
\* told: every applied tunnel that needs frpc, and no removed one (restart).
FrpcCarriesAnswers ==
  Quiet /\ entry # 0 /\ Live(cmd[entry]) => \A t \in Tunnels :
    /\ claim[t] = "present" /\ t \notin DirectTunnels => t \in serves[cmd[entry]]
    /\ claim[t] = "absent" => t \notin serves[cmd[entry]]

\* A frpc is either managed by the instance's definition set, or in the hands
\* of a call, or left behind by a daemon that ended: nothing else keeps a
\* public port open (restart, stopProcess, RemoveInstance).
NoStrayFrpc == \A p \in Procs : Live(p) =>
  \/ entry # 0 /\ cmd[entry] = p
  \/ \E c \in Callers : ~At(c, "idle") /\ p \in {cl[c].pid, cmd[cl[c].st]}
  \/ p \in orphaned

=============================================================================
