------------------------------ MODULE Console -------------------------------
(***************************************************************************)
(* The console of an instance on the Daemon: the server process appends to *)
(* its log file, a tailer goroutine follows the file and broadcasts what   *)
(* it reads (mcprocess/process.go), and each attached console gets the end *)
(* of the file and then the broadcasts through a bounded channel (the      *)
(* Console RPC in grpcapi/server.go).                                      *)
(*                                                                         *)
(* The log is a sequence of units, the pieces the server writes at a time: *)
(* a unit ends a line or leaves it open.  A broadcast is an interval of    *)
(* units, or the notice of the process's end.  The steps under             *)
(* Instance.mu and under Instance.subMu interleave; `lock` is subMu.       *)
(* Commands to the server, how lines are decorated and filtered, and the   *)
(* 64 KB limit of an open line (it flushes as the idle rule does) are left *)
(* out.                                                                    *)
(***************************************************************************)
EXTENDS Integers, Sequences, FiniteSets

CONSTANTS Clients,      \* console sessions
          Cap,          \* consoleSubBuf: messages a channel holds
          IdleTicks,    \* tailFlushIdleTicks
          MaxUnits,     \* bound: units written
          MaxGen,       \* bound: generations of tailers
          MaxConnects,  \* bound: sessions opened
          MaxCrash      \* bound: ends of the Daemon

ASSUME ConsoleAssumption ==
  /\ IsFiniteSet(Clients)
  /\ Cap \in Nat \ {0} /\ IdleTicks \in Nat \ {0}
  /\ MaxUnits \in Nat /\ MaxGen \in Nat /\ MaxConnects \in Nat /\ MaxCrash \in Nat

VARIABLES units,    \* what was ever written: sequence of [file, ends]
          file,     \* the number of the file that is logs/console.log
          proc,     \* the server process: "none" or "up"
          status,   \* Instance.status
          adopted,  \* Instance.adoptedPID # 0
          gen,      \* Instance.tailGen and procGen (over all Daemons)
          watcher,  \* watchAdopted: [pc, gen]
          tail,     \* [1..MaxGen -> tailer goroutine]
          said,     \* [Units -> how often it was broadcast]
          lock,     \* who holds subMu for a broadcast, and whom it must still serve
          sub,      \* [Clients -> consoleSub, and what its console is owed]
          ses,      \* [Clients -> the RPC: "off" or "open"]
          connects, crashes

server   == <<units, file, proc>>
instance == <<status, adopted, gen, watcher>>
bounds   == <<connects, crashes>>
consoleVars == <<server, instance, tail, said, lock, sub, ses, bounds>>

Gens    == 1..MaxGen
Units   == 1..MaxUnits
NoTail  == [pc |-> "off", file |-> 0, start |-> 0, pos |-> 0, from |-> 1,
            idle |-> 0, final |-> FALSE]
NoWatch == [pc |-> "none", gen |-> 0]
Free    == [by |-> "nobody", gen |-> 0, todo |-> {}, told |-> "nobody"]
NoSub   == [buf |-> <<>>, dropped |-> 0, owed |-> 0, hist |-> 0, since |-> {}]

ConsoleInit ==
  /\ units = <<>> /\ file = 1 /\ proc = "none"
  /\ status = "stopped" /\ adopted = FALSE /\ gen = 0 /\ watcher = NoWatch
  /\ tail = [g \in Gens |-> NoTail]
  /\ said = [u \in Units |-> 0] /\ lock = Free
  /\ sub = [c \in Clients |-> NoSub] /\ ses = [c \in Clients |-> "off"]
  /\ connects = 0 /\ crashes = 0

Subscribed == {c \in Clients : ses[c] # "off"}
InFile   == {u \in 1..Len(units) : units[u].file = file}
LockFree == lock.by = "nobody"
\* The goroutine in cmd.Wait makes its broadcast while it holds Instance.mu.
MuFree   == lock.by # "waiter"

\* broadcast: subMu is taken, and every subscriber is to be served.
Broadcast(who, g, U) ==
  /\ LockFree
  /\ lock' = IF Subscribed = {} THEN Free
             ELSE [Free EXCEPT !.by = who, !.gen = g, !.todo = Subscribed]
  /\ said' = [u \in Units |-> IF u \in U THEN said[u] + 1 ELSE said[u]]
  /\ sub' = [c \in Clients |->
       IF c \in Subscribed
       THEN [sub[c] EXCEPT !.owed = @ + 1, !.since = @ \cup {u \in U : u > sub[c].hist}]
       ELSE sub[c]]

-----------------------------------------------------------------------------
(* The server process and its supervisor.                                  *)

ServerWrites(ends) ==
  /\ proc # "none" /\ Len(units) < MaxUnits
  /\ units' = Append(units, [file |-> file, ends |-> ends])
  /\ UNCHANGED <<file, proc, instance, tail, said, lock, sub, ses, bounds>>

ServerExits ==
  /\ proc # "none"
  /\ proc' = "none"
  /\ UNCHANGED <<units, file, instance, tail, said, lock, sub, ses, bounds>>

\* Start: the log is rotated when it is large, and a tailer of the next
\* generation is started.
Start(rotates) ==
  /\ MuFree /\ status = "stopped" /\ proc = "none" /\ gen < MaxGen
  /\ rotates => InFile # {}
  /\ proc' = "up" /\ status' = "running"
  /\ file' = IF rotates THEN file + 1 ELSE file
  /\ gen' = gen + 1
  /\ tail' = [tail EXCEPT ![gen + 1] = [NoTail EXCEPT !.pc = "open"]]
  /\ UNCHANGED <<units, adopted, watcher, said, lock, sub, ses, bounds>>

\* The end of a process the Daemon launched: cmd.Wait returns, and status and
\* last message are set in one critical section of mu.
Reaped ==
  /\ status = "running" /\ ~adopted /\ proc = "none"
  /\ status' = "stopped"
  /\ Broadcast("waiter", gen, {})
  /\ UNCHANGED <<server, adopted, gen, watcher, tail, ses, bounds>>

\* The end of an adopted process is noticed by watchAdopted, which tells the
\* consoles after it has let go of mu, or first by the goroutine of a Stop, which
\* tells nobody.  A watcher whose process was followed by another does nothing.
AdoptedEnded ==
  /\ MuFree /\ watcher.pc = "watch" /\ (proc = "none" \/ watcher.gen # gen)
  /\ IF watcher.gen = gen
     THEN status' = "stopped" /\ adopted' = FALSE /\ watcher' = [watcher EXCEPT !.pc = "tell"]
     ELSE watcher' = NoWatch /\ UNCHANGED <<status, adopted>>
  /\ UNCHANGED <<server, gen, tail, said, lock, sub, ses, bounds>>
AdoptedStopEnded ==
  /\ MuFree /\ status = "running" /\ adopted /\ proc = "none"
  /\ status' = "stopped" /\ adopted' = FALSE
  /\ UNCHANGED <<server, gen, watcher, tail, said, lock, sub, ses, bounds>>
AdoptedTells ==
  /\ watcher.pc = "tell"
  /\ watcher' = NoWatch
  /\ Broadcast("watcher", gen, {})
  /\ UNCHANGED <<server, status, adopted, gen, tail, ses, bounds>>

\* Kill of an adopted process: SIGKILL, and the instance is stopped at once.
KillAdopted ==
  /\ MuFree /\ status = "running" /\ adopted /\ proc = "up"
  /\ status' = "stopped" /\ adopted' = FALSE /\ proc' = "none"
  /\ UNCHANGED <<units, file, gen, watcher, tail, said, lock, sub, ses, bounds>>

-----------------------------------------------------------------------------
(* tailLog.                                                                *)

Stale_ByStatus(g) == status # "running"
Stale(g)   == gen # g
Pending(g) == tail[g].from..tail[g].pos
Unread(g)  == {u \in (tail[g].pos + 1)..Len(units) : units[u].file = tail[g].file}
LineEnds(U) == {u \in U : units[u].ends}
Lowest(U)  == CHOOSE u \in U : \A v \in U : u <= v
Highest(U) == CHOOSE u \in U : \A v \in U : v <= u
Done(g)    == [NoTail EXCEPT !.pc = "done", !.file = tail[g].file, !.start = tail[g].start]

\* A tailer takes Instance.mu to look whether it was replaced or the instance
\* stopped, and waits while it makes a broadcast itself.
Runs(g, pc) == /\ tail[g].pc = pc /\ MuFree
               /\ lock.by = "tailer" => lock.gen # g

\* The file is opened and its end sought some time after Start.
Open(g) ==
  /\ tail[g].pc = "open"
  /\ tail' = [tail EXCEPT ![g] =
       [NoTail EXCEPT !.pc = "check", !.file = file, !.start = Len(units),
                      !.pos = Len(units), !.from = Len(units) + 1]]
  /\ UNCHANGED <<server, instance, said, lock, sub, ses, bounds>>

\* A round of the loop.  A tailer that was replaced drops what it has and returns;
\* another reads to the next line end, to flush the line, or all there is.
Scan(g) ==
  /\ Runs(g, "check")
  /\ LET new == Unread(g) IN
     tail' = [tail EXCEPT ![g] =
       IF Stale(g) THEN [NoTail EXCEPT !.pc = "done"]
       ELSE IF LineEnds(new) # {}
       THEN [@ EXCEPT !.pos = Lowest(LineEnds(new)), !.pc = "send"]
       ELSE IF new # {}
       THEN [@ EXCEPT !.pos = Highest(new), !.idle = 0, !.pc = "eof"]
       ELSE [@ EXCEPT !.pc = "eof"]]
  /\ UNCHANGED <<server, instance, said, lock, sub, ses, bounds>>

\* At the end of the file: an instance that runs is looked at again after a
\* pause, and a line that stays open is flushed; one that stopped is looked at
\* once more before the tailer flushes and returns.
AtEnd_NoLastLook(g) ==
  /\ Runs(g, "eof")
  /\ tail' = [tail EXCEPT ![g] =
       IF Stale(g) THEN [NoTail EXCEPT !.pc = "done"]
       ELSE IF status # "running"
       THEN IF Pending(g) = {} THEN Done(g) ELSE [@ EXCEPT !.final = TRUE, !.pc = "send"]
       ELSE IF Pending(g) = {} THEN [@ EXCEPT !.pc = "check"]
       ELSE IF tail[g].idle + 1 < IdleTicks
       THEN [@ EXCEPT !.idle = tail[g].idle + 1, !.pc = "check"]
       ELSE [@ EXCEPT !.pc = "send"]]
  /\ UNCHANGED <<server, instance, said, lock, sub, ses, bounds>>
AtEnd(g) ==
  /\ Runs(g, "eof")
  /\ tail' = [tail EXCEPT ![g] =
       IF Stale(g) THEN [NoTail EXCEPT !.pc = "done"]
       ELSE IF status # "running" /\ ~tail[g].final
       THEN [@ EXCEPT !.final = TRUE, !.pc = "check"]
       ELSE IF status # "running"
       THEN IF Pending(g) = {} THEN Done(g) ELSE [@ EXCEPT !.pc = "send"]
       ELSE IF Pending(g) = {} THEN [@ EXCEPT !.pc = "check"]
       ELSE IF tail[g].idle + 1 < IdleTicks
       THEN [@ EXCEPT !.idle = tail[g].idle + 1, !.pc = "check"]
       ELSE [@ EXCEPT !.pc = "send"]]
  /\ UNCHANGED <<server, instance, said, lock, sub, ses, bounds>>

\* flushPending's broadcast; a Start may have come since it looked.  A tailer that
\* has looked for the last time meets the end of the file again, and returns.
Send(g) ==
  /\ tail[g].pc = "send"
  /\ Broadcast("tailer", g, Pending(g))
  /\ tail' = [tail EXCEPT ![g].from = tail[g].pos + 1, ![g].idle = 0, ![g].pc = "check"]
  /\ UNCHANGED <<server, instance, ses, bounds>>

-----------------------------------------------------------------------------
(* broadcastLocked: no send ever waits; what does not fit is counted, and  *)
(* the count is sent before a later message.  The readers of the channels  *)
(* are not held up meanwhile.  A channel holds 0 for a broadcast and n for *)
(* the notice of n that were dropped.                                      *)

Room(c) == Len(sub[c].buf) < Cap

CastNotice(c) ==
  /\ c \in lock.todo /\ sub[c].dropped > 0 /\ lock.told = "nobody"
  /\ lock' = [lock EXCEPT !.told = c]
  /\ sub' = [sub EXCEPT ![c] =
       IF Room(c) THEN [sub[c] EXCEPT !.buf = Append(@, sub[c].dropped), !.dropped = 0] ELSE @]
  /\ UNCHANGED <<server, instance, tail, said, ses, bounds>>

\* The subscriber is served once what it missed was announced, or could not be.
ServedNext(c) == \/ lock.told = c
                 \/ lock.told = "nobody" /\ sub[c].dropped = 0

Served(c) == IF lock.todo = {c} THEN Free
             ELSE [lock EXCEPT !.todo = @ \ {c}, !.told = "nobody"]
CastLine_ClearsCount(c) ==
  /\ c \in lock.todo /\ ServedNext(c)
  /\ lock' = Served(c)
  /\ sub' = [sub EXCEPT ![c] =
       IF Room(c) THEN [sub[c] EXCEPT !.buf = Append(@, 0), !.dropped = 0]
                  ELSE [sub[c] EXCEPT !.dropped = @ + 1]]
  /\ UNCHANGED <<server, instance, tail, said, ses, bounds>>
CastLine(c) ==
  /\ c \in lock.todo /\ ServedNext(c)
  /\ lock' = Served(c)
  /\ sub' = [sub EXCEPT ![c] =
       IF Room(c) THEN [sub[c] EXCEPT !.buf = Append(@, 0)] ELSE [sub[c] EXCEPT !.dropped = @ + 1]]
  /\ UNCHANGED <<server, instance, tail, said, ses, bounds>>

-----------------------------------------------------------------------------
(* The Console RPC: a handler that forwards, and the goroutine that reads  *)
(* the client's frames and tells the handler when they end.                *)

\* A stream is opened.  AttachConsole subscribes and reads the end of the file
\* under subMu, which keeps every broadcast out in between.
Attach_SnapshotFirst(c) ==
  \/ /\ ses[c] = "off" /\ connects < MaxConnects /\ sub[c] = NoSub
     /\ sub' = [sub EXCEPT ![c].hist = Len(units) + 1]
     /\ UNCHANGED <<server, instance, tail, said, lock, ses, bounds>>
  \/ /\ ses[c] = "off" /\ sub[c].hist > 0 /\ LockFree
     /\ connects' = connects + 1
     /\ sub' = [sub EXCEPT ![c].hist = @ - 1]
     /\ ses' = [ses EXCEPT ![c] = "open"]
     /\ UNCHANGED <<server, instance, tail, said, lock, crashes>>
Attach(c) ==
  /\ ses[c] = "off" /\ connects < MaxConnects /\ LockFree
  /\ connects' = connects + 1
  /\ sub' = [sub EXCEPT ![c] = [NoSub EXCEPT !.hist = Len(units)]]
  /\ ses' = [ses EXCEPT ![c] = "open"]
  /\ UNCHANGED <<server, instance, tail, said, lock, crashes>>

\* The broadcasts a message of a channel accounts for: its own, or those its notice
\* names.
Stands(m) == IF m = 0 THEN 1 ELSE m

\* One message of the channel is sent to the panel.
Forward(c) ==
  /\ ses[c] = "open" /\ sub[c].buf # <<>>
  /\ sub' = [sub EXCEPT ![c].buf = Tail(@),
                        ![c].owed = @ - Stands(Head(sub[c].buf))]
  /\ UNCHANGED <<server, instance, tail, said, lock, ses, bounds>>

\* The panel cancels the stream or sends DETACH: the reader's end wakes the handler,
\* whose deferred cancel takes the subscription back under subMu.
Leave(c) ==
  /\ ses[c] = "open" /\ LockFree
  /\ ses' = [ses EXCEPT ![c] = "off"]
  /\ sub' = [sub EXCEPT ![c] = NoSub]
  /\ UNCHANGED <<server, instance, tail, said, lock, bounds>>

\* The Daemon ends and comes back; a server that runs is adopted.
DaemonRestarts ==
  /\ crashes < MaxCrash /\ crashes' = crashes + 1
  /\ proc = "up" /\ status = "running" => gen < MaxGen
  /\ LET adopts == proc = "up" /\ status = "running" IN
     /\ status' = IF adopts THEN "running" ELSE "stopped"
     /\ adopted' = adopts
     /\ gen' = IF adopts THEN gen + 1 ELSE gen
     /\ watcher' = IF adopts THEN [pc |-> "watch", gen |-> gen + 1] ELSE NoWatch
     /\ tail' = [g \in Gens |->
          IF adopts /\ g = gen + 1 THEN [NoTail EXCEPT !.pc = "open"] ELSE NoTail]
  /\ lock' = Free
  /\ sub' = [c \in Clients |-> NoSub] /\ ses' = [c \in Clients |-> "off"]
  /\ UNCHANGED <<server, said, connects>>

-----------------------------------------------------------------------------
Tailer(g)  == Open(g) \/ Scan(g) \/ AtEnd(g) \/ Send(g)
Cast(c)    == CastNotice(c) \/ CastLine(c)

ConsoleNext ==
  \/ \E ends \in BOOLEAN : ServerWrites(ends)
  \/ \E rotates \in BOOLEAN : Start(rotates)
  \/ ServerExits \/ Reaped \/ AdoptedEnded \/ AdoptedStopEnded \/ AdoptedTells \/ KillAdopted
  \/ DaemonRestarts
  \/ \E g \in Gens : Tailer(g)
  \/ \E c \in Clients : Cast(c) \/ Attach(c) \/ Forward(c) \/ Leave(c)

ConsoleSpec == ConsoleInit /\ [][ConsoleNext]_consoleVars

\* The Daemon's goroutines run on; what the server, the panel and the operators do
\* is up to them.  No console has to read for the others to be served.
ConsoleFairness ==
  /\ WF_consoleVars(Reaped) /\ WF_consoleVars(AdoptedEnded) /\ WF_consoleVars(AdoptedTells)
  /\ \A g \in Gens : WF_consoleVars(Tailer(g))
  /\ \A c \in Clients : WF_consoleVars(Cast(c))
ConsoleFairSpec == ConsoleSpec /\ ConsoleFairness

-----------------------------------------------------------------------------
TailRecords ==
  [pc : {"off", "open", "check", "eof", "send", "done"}, file : Nat, start : Nat,
   pos : Nat, from : Nat, idle : 0..IdleTicks, final : BOOLEAN]
SubRecords ==
  [buf : Seq(Nat), dropped : Nat, owed : Nat, hist : Nat, since : SUBSET Units]
LockRecords ==
  [by : {"nobody", "tailer", "waiter", "watcher"}, gen : 0..MaxGen,
   todo : SUBSET Clients, told : Clients \cup {"nobody"}]

ConsoleTypeOK ==
  /\ units \in Seq([file : Nat, ends : BOOLEAN]) /\ Len(units) <= MaxUnits
  /\ file \in Nat /\ proc \in {"none", "up"}
  /\ status \in {"stopped", "running"} /\ adopted \in BOOLEAN /\ gen \in 0..MaxGen
  /\ watcher \in [pc : {"none", "watch", "tell"}, gen : 0..MaxGen]
  /\ tail \in [Gens -> TailRecords] /\ said \in [Units -> Nat]
  /\ lock \in LockRecords
  /\ sub \in [Clients -> SubRecords] /\ ses \in [Clients -> {"off", "open"}]
  /\ \A c \in Clients : Len(sub[c].buf) <= Cap
  /\ connects \in 0..MaxConnects /\ crashes \in 0..MaxCrash

\* Nothing the server wrote is broadcast twice, whatever restarts and adoptions
\* follow one another: a tailer that was replaced never repeats what its successor
\* reads (process.go, tailGen).
BroadcastOnce == \A u \in Units : said[u] <= 1

\* A channel stands for n broadcasts: a running total over its messages reaches n.
InChannel(s, n) ==
  \E total \in [0..Len(s) -> 0..n] :
    /\ total[0] = 0 /\ total[Len(s)] = n
    /\ \A k \in 1..Len(s) : total[k] = total[k - 1] + Stands(s[k])

\* A console that falls behind loses nothing silently: a broadcast made since it
\* attached that it was neither shown nor told to have missed is in its channel, or
\* counted for the next notice, or just being made (broadcastLocked).
Uncast(c) == sub[c].dropped + (IF c \in lock.todo THEN 1 ELSE 0)
DropsAreCounted ==
  \A c \in Clients : c \in Subscribed =>
    sub[c].owed >= Uncast(c) /\ InChannel(sub[c].buf, sub[c].owed - Uncast(c))

\* History and live output join without a hole: what the tailer has read past
\* while a console is attached was in the console's snapshot, or broadcast to it,
\* or is still in the tailer's hands (AttachConsole).
HistoryMeetsLive ==
  \A c \in Clients : c \in Subscribed /\ gen # 0 =>
    LET t == tail[gen] IN
    t.pc \notin {"off", "open", "done"} /\ t.file = file /\ t.start <= sub[c].hist =>
      (sub[c].hist + 1)..t.pos \subseteq sub[c].since \cup t.from..t.pos

\* What a server writes while its tailer is there is broadcast, the last lines of a
\* server that stops included, unless another launch or another Daemon takes over.
Followed(u) == gen # 0 /\
  LET t == tail[gen] IN t.pc \notin {"off", "open"} /\ t.file = file /\ u \in (t.start + 1)..Len(units)
WrittenIsSaid == \A u \in Units : Followed(u) ~> (said[u] > 0 \/ ~Followed(u))

=============================================================================
