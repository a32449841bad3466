----------------------------- MODULE Scheduler -----------------------------
(***************************************************************************)
(* The panel's background rounds (panel/scheduler/scheduler.go) against    *)
(* what else moves the same rows and servers: the handlers that start and  *)
(* stop instances, set expiry dates and edit or run tasks (panel/httpapi), *)
(* a view of the instance list, and servers that end or crash by themselves. *)
(*                                                                         *)
(* A round reads a table, then works through what it read, one call to the *)
(* node after the other.  There is one goroutine, so rounds never overlap; *)
(* everything else may happen between any two of its steps.  A round starts *)
(* whenever the last one has ended.  Time is in minutes, or in longer steps *)
(* with Grace = 0: then only the slot of the current step is in the window. *)
(*                                                                         *)
(* Of a round: instance probes, expiry and tasks.  Backups are in module   *)
(* Backups; node, disk and certificate checks only raise alerts.           *)
(***************************************************************************)
EXTENDS Naturals, FiniteSets

CONSTANTS
  Insts,        \* instances, all listed for good
  Tasks,        \* scheduled tasks
  TaskInst,     \* the instance of each task
  Crons,        \* the cron expressions of the tasks, each the set of minutes it matches
  Requests,     \* the HTTP requests the panel serves, each once
  Expiries,     \* the expiry dates an administrator may set
  Notice,       \* minutes before its expiry in which an instance is announced
  Grace,        \* taskGraceWindow
  MaxTime,      \* bound: the last point in time
  Actions,      \* what users ask of a server
  TaskActions,  \* what tasks do
  MaxFaults     \* bound: crashes of a server, restarts of the panel and outages together

ASSUME SchedulerAssumption ==
  /\ TaskInst \in [Tasks -> Insts]
  /\ Crons \subseteq SUBSET (1..MaxTime) /\ Expiries \subseteq 1..MaxTime + 1
  /\ Notice \in Nat /\ Grace \in Nat /\ MaxTime \in Nat \ {0}
  /\ Actions \cup TaskActions \subseteq {"start", "stop", "restart", "kill"}
  /\ MaxFaults \in Nat

\* Minutes start at 1; 0 stands for NULL.
NoExpiry == 0               \* expires_at of an instance that does not expire
Never == 0                  \* last_run of a task that has not run
Kinds == {"instance_crash", "instance_expired", "instance_expiring"}

VARIABLES
  now,
  server,     \* instance -> what its process does
  link,       \* the node can be reached
  rows,       \* the table instances: status and expiry
  tasks,      \* the table instance_tasks
  alerts,     \* the active alerts, as <<kind, instance>>: raise inserts none twice
  up,         \* the panel runs
  round,      \* where the round is: the rest of the list it read, and when
  req,        \* request -> its place in its handler
  left,       \* the faults that may still happen
  cause,      \* history: instance -> why it last stopped, "asked" or "crash"
  seen,       \* history: the crashed instances whose row a request has written since
  ran         \* history: task -> the last slot a round has run, and whether one was run again

hist == <<cause, seen, ran>>
world == <<now, server, link, left>>
table == <<rows, tasks, alerts>>
schedVars == <<now, server, link, left, rows, tasks, alerts, up, round, req, cause, seen, ran>>

\* ------------------------------------------------------------------ the node

\* What the node reports: a server that was told to stop is running until it ends.
Status(i) == IF server[i] \in {"running", "stopping", "restarting"} THEN "running" ELSE "stopped"

\* A call that starts, stops, restarts or kills; each refuses what is already so.
Succeeds(a, i) == link /\ CASE a = "start"           -> Status(i) = "stopped"
                            [] a \in {"stop", "kill"} -> Status(i) = "running"
                            [] a = "restart"         -> TRUE
After(a, i) == CASE a = "start" -> "running"
                 [] a = "stop"  -> IF server[i] = "restarting" THEN "restarting" ELSE "stopping"
                 [] a = "kill"  -> IF server[i] = "restarting" THEN "between" ELSE "stopped"
                 [] a = "restart" -> IF Status(i) = "running" THEN "restarting" ELSE "running"
Call(a, i) ==
  /\ server' = [server EXCEPT ![i] = After(a, i)]
  /\ cause' = IF a = "start" THEN cause ELSE [cause EXCEPT ![i] = "asked"]
  /\ seen' = seen \ {i}

ServerEnds(i) ==
  /\ \/ server[i] = "stopping" /\ server' = [server EXCEPT ![i] = "stopped"]
     \/ server[i] = "restarting" /\ server' = [server EXCEPT ![i] = "between"]
     \/ server[i] = "between" /\ server' = [server EXCEPT ![i] = "running"]
  /\ UNCHANGED <<now, link, left, table, up, round, req, hist>>

ServerCrashes(i) ==
  /\ server[i] = "running" /\ left > 0
  /\ server' = [server EXCEPT ![i] = "stopped"] /\ cause' = [cause EXCEPT ![i] = "crash"]
  /\ seen' = seen \ {i} /\ left' = left - 1
  /\ UNCHANGED <<now, link, table, up, round, req, ran>>

LinkFails ==
  /\ link /\ left > 0 /\ link' = FALSE /\ left' = left - 1
  /\ UNCHANGED <<now, server, table, up, round, req, hist>>
LinkReturns == ~link /\ link' = TRUE /\ UNCHANGED <<now, server, left, table, up, round, req, hist>>

Tick == now < MaxTime /\ now' = now + 1 /\ UNCHANGED <<server, link, left, table, up, round, req, hist>>

\* ------------------------------------------------------------------- a round

Expired(row, t) == row.expires # NoExpiry /\ row.expires <= t
Expiring(row, t) == row.expires # NoExpiry /\ row.expires > t /\ row.expires <= t + Notice

\* Starting is refused once the instance has expired and is to be stopped then.
InstanceStartable(i) == ~(Expired(rows[i], now) /\ rows[i].autostop)
BlockedByExpiry(a, i) == a \in {"start", "restart"} /\ ~InstanceStartable(i)

Phase(p, list) == round' = [phase |-> p, list |-> list, item |-> <<>>,
                            at |-> IF list = {} THEN 0 ELSE now]

RunOnce ==
  /\ up /\ round.phase = "idle"
  /\ Phase("instances", {[inst |-> i, status |-> rows[i].status] : i \in Insts})
  /\ UNCHANGED <<world, table, up, req, hist>>

\* checkInstances: the node is asked for one instance; no answer, nothing to do.
ProbeInstance ==
  /\ round.phase = "instances" /\ round.item = <<>>
  /\ \E x \in round.list :
       round' = [round EXCEPT !.list = @ \ {x}, !.item = IF link THEN <<x, Status(x.inst)>> ELSE <<>>]
  /\ UNCHANGED <<world, table, up, req, hist>>

\* Mutant of StoreProbe: the row is only written when somebody looks at the list.
StoreProbe_AlertOnly ==
  /\ round.phase = "instances" /\ round.item # <<>>
  /\ LET i == round.item[1].inst  was == round.item[1].status  actual == round.item[2] IN
     /\ UNCHANGED rows
     /\ alerts' = IF actual = "stopped" /\ was = "running" THEN alerts \cup {<<"instance_crash", i>>}
                  ELSE IF actual = "running" THEN alerts \ {<<"instance_crash", i>>}
                  ELSE alerts
  /\ round' = [round EXCEPT !.item = <<>>]
  /\ UNCHANGED <<world, tasks, up, req, hist>>

\* Mutant of StoreProbe: a crash is over once the row agrees with the node.
StoreProbe_ResolvesEarly ==
  /\ round.phase = "instances" /\ round.item # <<>>
  /\ LET i == round.item[1].inst  was == round.item[1].status  actual == round.item[2] IN
     /\ rows' = IF actual # was THEN [rows EXCEPT ![i].status = actual] ELSE rows
     /\ alerts' = IF actual = was THEN alerts \ {<<"instance_crash", i>>} ELSE alerts
  /\ round' = [round EXCEPT !.item = <<>>]
  /\ UNCHANGED <<world, tasks, up, req, hist>>

\* The answer is compared with the status read at the start of the round.
StoreProbe ==
  /\ round.phase = "instances" /\ round.item # <<>>
  /\ LET i == round.item[1].inst  was == round.item[1].status  actual == round.item[2] IN
     /\ rows' = IF actual # was THEN [rows EXCEPT ![i].status = actual] ELSE rows
     /\ alerts' = IF actual = "stopped" /\ was = "running" THEN alerts \cup {<<"instance_crash", i>>}
                  ELSE IF actual = "running" THEN alerts \ {<<"instance_crash", i>>}
                  ELSE alerts
  /\ round' = [round EXCEPT !.item = <<>>]
  /\ UNCHANGED <<world, tasks, up, req, hist>>

\* checkExpiry reads all instances that have an expiry date.
ReadExpiries ==
  /\ round.phase = "instances" /\ round.list = {} /\ round.item = <<>>
  /\ Phase("expiry", {[inst |-> i, row |-> rows[i]] : i \in {j \in Insts : rows[j].expires # NoExpiry}})
  /\ UNCHANGED <<world, table, up, req, hist>>

\* An expired instance is announced, and stopped if its row said that it runs.
CheckExpiry ==
  /\ round.phase = "expiry" /\ round.item = <<>>
  /\ \E x \in round.list :
       LET expired == Expired(x.row, round.at)
           other == alerts \ ({"instance_expired", "instance_expiring"} \X {x.inst})
       IN  /\ alerts' = IF expired THEN other \cup {<<"instance_expired", x.inst>>}
                        ELSE IF Expiring(x.row, round.at) THEN other \cup {<<"instance_expiring", x.inst>>}
                        ELSE other
           /\ round' = [round EXCEPT !.list = @ \ {x},
                          !.item = IF expired /\ x.row.autostop /\ x.row.status = "running"
                                     THEN <<x.inst>> ELSE <<>>]
  /\ UNCHANGED <<world, rows, tasks, up, req, hist>>

\* InstanceStopper: the node's StopInstance.  The row is left to the next round.
StopExpired ==
  /\ round.phase = "expiry" /\ round.item # <<>>
  /\ IF Succeeds("stop", round.item[1]) THEN Call("stop", round.item[1]) ELSE UNCHANGED <<server, cause, seen>>
  /\ round' = [round EXCEPT !.item = <<>>]
  /\ UNCHANGED <<now, link, left, table, up, req, ran>>

\* The latest match of the expression, not after minute t; 0 if there is none.
Matches(cron, t) == {m \in cron : m <= t}
Prev(cron, t) == IF Matches(cron, t) = {} THEN 0
                 ELSE CHOOSE m \in Matches(cron, t) : \A n \in Matches(cron, t) : n <= m

\* Mutant of Due: a slot of the minute of the last run is due again.
Due_Again(task) ==
  LET prev == Prev(task.cron, now) IN
  /\ task.enabled /\ prev > 0
  /\ IF task.lastRun # Never THEN prev >= task.lastRun ELSE now - prev <= Grace

\* Mutant of Due: a slot older than the grace window is given up.
Due_InGrace(task) ==
  LET prev == Prev(task.cron, now) IN
  /\ task.enabled /\ prev > 0 /\ now - prev <= Grace
  /\ prev > task.lastRun

\* A task is due when its latest slot is after its last run; one that never ran, only
\* shortly after the slot.
Due(task) ==
  LET prev == Prev(task.cron, now) IN
  /\ task.enabled /\ prev > 0
  /\ IF task.lastRun # Never THEN prev > task.lastRun ELSE now - prev <= Grace

ReadTasks ==
  /\ round.phase = "expiry" /\ round.list = {} /\ round.item = <<>>
  /\ Phase("tasks", {[task |-> t, slot |-> Prev(tasks[t].cron, now)] : t \in {u \in Tasks : Due(tasks[u])}})
  /\ UNCHANGED <<world, table, up, req, hist>>

\* execInstanceTask: refused for an expired instance, then one call to the node.
ExecTask(t) ==
  LET i == TaskInst[t]  a == tasks[t].action IN
  IF ~BlockedByExpiry(a, i) /\ Succeeds(a, i) THEN Call(a, i) ELSE UNCHANGED <<server, cause, seen>>

\* RunInstanceTask in a round: last_run is written once the call has returned.
RunDueTask ==
  /\ round.phase = "tasks" /\ round.item = <<>>
  /\ \E x \in round.list :
       /\ ExecTask(x.task)
       /\ round' = [round EXCEPT !.list = @ \ {x}, !.item = <<x>>]
       /\ ran' = [ran EXCEPT ![x.task] = [last |-> x.slot, again |-> @.again \/ x.slot <= @.last]]
  /\ UNCHANGED <<now, link, left, table, up, req>>

RecordRun ==
  /\ round.phase = "tasks" /\ round.item # <<>>
  /\ tasks' = [tasks EXCEPT ![round.item[1].task].lastRun = now]
  /\ round' = [round EXCEPT !.item = <<>>]
  /\ UNCHANGED <<world, rows, alerts, up, req, hist>>

EndRound ==
  /\ round.phase = "tasks" /\ round.list = {} /\ round.item = <<>>
  /\ Phase("idle", {})
  /\ UNCHANGED <<world, table, up, req, hist>>

\* ----------------------------------------------------------------- requests

New(r) == up /\ req[r].pc = "new"
Goto(r, pc, i, x) == req' = [req EXCEPT ![r] = [pc |-> pc, inst |-> i, arg |-> x]]
Finish(r) == req' = [req EXCEPT ![r] = [pc |-> "done"]]

\* start, stop, restart or kill: the expiry is looked at first, the node called later.
HandleInstanceAction(r) ==
  New(r) /\ \E i \in Insts, a \in Actions :
    /\ ~BlockedByExpiry(a, i) /\ Goto(r, "call", i, a)
    /\ UNCHANGED <<world, table, up, round, hist>>

CallNode(r) ==
  /\ req[r].pc = "call"
  /\ LET i == req[r].inst  a == req[r].arg IN
     IF Succeeds(a, i) THEN Call(a, i) /\ Goto(r, "confirm", i, a)
                       ELSE Finish(r) /\ UNCHANGED <<server, cause, seen>>
  /\ UNCHANGED <<now, link, left, table, up, round, ran>>

\* The status the row is to get: what the node reports, or what the action suggests.
ConfirmStatus(r) ==
  /\ req[r].pc = "confirm"
  /\ LET a == req[r].arg IN
     Goto(r, "write", req[r].inst,
           IF a # "restart" /\ link THEN Status(req[r].inst)
           ELSE IF a \in {"start", "restart"} THEN "running" ELSE "stopped")
  /\ UNCHANGED <<world, table, up, round, hist>>

\* reconcileInstanceStatus: somebody looks at the list; a row that is wrong is written.
ViewInstances(r) ==
  New(r) /\ \E i \in Insts :
    /\ link /\ Status(i) # rows[i].status /\ Goto(r, "write", i, Status(i))
    /\ UNCHANGED <<world, table, up, round, hist>>

WriteStatus(r) ==
  /\ req[r].pc = "write"
  /\ rows' = [rows EXCEPT ![req[r].inst].status = req[r].arg]
  /\ seen' = seen \cup {req[r].inst}
  /\ Finish(r)
  /\ UNCHANGED <<world, tasks, alerts, up, round, cause, ran>>

\* The administrator sets or clears the expiry date, and its alerts are closed.
HandleSetExpiry(r) ==
  New(r) /\ \E i \in Insts, e \in Expiries \cup {NoExpiry}, stop \in BOOLEAN :
    /\ rows' = [rows EXCEPT ![i].expires = e, ![i].autostop = stop]
    /\ Goto(r, "resolve", i, e)
    /\ UNCHANGED <<world, tasks, alerts, up, round, hist>>

ResolveExpiry(r) ==
  /\ req[r].pc = "resolve"
  /\ alerts' = alerts \ ({"instance_expired", "instance_expiring"} \X {req[r].inst})
  /\ Finish(r)
  /\ UNCHANGED <<world, rows, tasks, up, round, hist>>

\* handleResolveAlert: the administrator closes an alert by hand.
HandleResolveAlert(r) ==
  New(r) /\ \E x \in alerts : alerts' = alerts \ {x}
  /\ Finish(r) /\ UNCHANGED <<world, rows, tasks, up, round, hist>>

\* handleUpdateTask: any of its fields; last_run stays.
HandleUpdateTask(r) ==
  New(r) /\ \E t \in Tasks, a \in TaskActions, c \in Crons, on \in BOOLEAN :
    /\ tasks' = [tasks EXCEPT ![t].action = a, ![t].cron = c, ![t].enabled = on]
    /\ Finish(r) /\ UNCHANGED <<world, rows, alerts, up, round, hist>>

\* handleRunTask: the task at once, besides its schedule.
HandleRunTask(r) ==
  New(r) /\ \E t \in Tasks :
    /\ ExecTask(t) /\ Goto(r, "record", TaskInst[t], t)
    /\ UNCHANGED <<now, link, left, table, up, round, ran>>

RecordRequest(r) ==
  /\ req[r].pc = "record"
  /\ tasks' = [tasks EXCEPT ![req[r].arg].lastRun = now]
  /\ Finish(r)
  /\ UNCHANGED <<world, rows, alerts, up, round, hist>>

\* ----------------------------------------------------------- the panel's life

\* The panel ends: its round and its requests are gone.  A run that was not recorded
\* does not count as the slot's.
PanelStops ==
  /\ up /\ left > 0 /\ up' = FALSE
  /\ left' = left - 1
  /\ Phase("idle", {})
  /\ req' = [r \in Requests |-> IF req[r].pc = "new" THEN req[r] ELSE [pc |-> "done"]]
  /\ ran' = IF round.phase = "tasks" /\ round.item # <<>>
              THEN [ran EXCEPT ![round.item[1].task].last = 0] ELSE ran
  /\ UNCHANGED <<now, server, link, table, cause, seen>>

PanelStarts == ~up /\ up' = TRUE /\ UNCHANGED <<world, table, round, req, hist>>

\* ------------------------------------------------------------- specification

SchedInit ==
  /\ now = 1 /\ link = TRUE /\ up = TRUE /\ alerts = {} /\ seen = {}
  /\ server \in [Insts -> {"running", "stopped"}]
  /\ cause = [i \in Insts |-> "asked"]
  /\ \E e \in [Insts -> Expiries \cup {NoExpiry}] :
       rows = [i \in Insts |-> [status |-> Status(i), expires |-> e[i], autostop |-> TRUE]]
  /\ tasks \in [Tasks -> [action : TaskActions, cron : Crons, enabled : {TRUE}, lastRun : {Never}]]
  /\ round = [phase |-> "idle", list |-> {}, at |-> 0, item |-> <<>>]
  /\ req = [r \in Requests |-> [pc |-> "new"]]
  /\ left = MaxFaults
  /\ ran = [t \in Tasks |-> [last |-> 0, again |-> FALSE]]

RoundStep ==
  \/ RunOnce \/ ProbeInstance \/ StoreProbe \/ ReadExpiries \/ CheckExpiry \/ StopExpired
  \/ ReadTasks \/ RunDueTask \/ RecordRun \/ EndRound

Continues(r) ==
  CallNode(r) \/ ConfirmStatus(r) \/ WriteStatus(r) \/ ResolveExpiry(r) \/ RecordRequest(r)

Arrives(r) ==
  \/ HandleInstanceAction(r) \/ ViewInstances(r) \/ HandleSetExpiry(r) \/ HandleResolveAlert(r)
  \/ HandleUpdateTask(r) \/ HandleRunTask(r)

SchedNext ==
  \/ RoundStep \/ Tick \/ LinkFails \/ LinkReturns \/ PanelStops \/ PanelStarts
  \/ \E i \in Insts : ServerEnds(i) \/ ServerCrashes(i)
  \/ \E r \in Requests : Arrives(r) \/ Continues(r)

SchedSpec == SchedInit /\ [][SchedNext]_schedVars

\* Rounds go on while the panel runs, it is started again, a request that has begun
\* ends, an outage ends, and a server that was told to stop does.
SchedFairness ==
  /\ WF_schedVars(RoundStep) /\ WF_schedVars(PanelStarts) /\ WF_schedVars(LinkReturns)
  /\ \A i \in Insts : WF_schedVars(ServerEnds(i))
  /\ \A r \in Requests : WF_schedVars(Continues(r))

SchedFairSpec == SchedSpec /\ SchedFairness

\* ---------------------------------------------------------------- properties

\* Type invariant.
SchedTypeOK ==
  /\ now \in 1..MaxTime /\ link \in BOOLEAN /\ up \in BOOLEAN
  /\ server \in [Insts -> {"running", "stopping", "restarting", "between", "stopped"}]
  /\ rows \in [Insts -> [status : {"running", "stopped"}, expires : Expiries \cup {NoExpiry}, autostop : BOOLEAN]]
  /\ tasks \in [Tasks -> [action : TaskActions, cron : Crons, enabled : BOOLEAN, lastRun : 0..MaxTime]]
  /\ alerts \subseteq Kinds \X Insts
  /\ round.phase \in {"idle", "instances", "expiry", "tasks"}
  /\ cause \in [Insts -> {"asked", "crash"}] /\ seen \subseteq Insts
  /\ ran \in [Tasks -> [last : 0..MaxTime, again : BOOLEAN]]

\* No round runs a slot twice, whatever is edited, run by hand or slow in between
\* (scheduler.go:252, the comment on runDueTasks); only a run whose end the panel did
\* not live to record is made again.
SlotsRunOnce == \A t \in Tasks : ~ran[t].again

\* A slot that has passed is not lost to a busy or restarted panel: a task that has run
\* before and stays enabled and as it is, is run at or after its slot.
SlotsAreServed ==
  \A t \in Tasks, m \in 1..MaxTime :
    (tasks[t].enabled /\ m \in tasks[t].cron /\ m <= now /\ tasks[t].lastRun # Never)
      ~> (tasks[t].lastRun >= m \/ ~tasks[t].enabled \/ m \notin tasks[t].cron)

\* An instance that has expired and is to be stopped then ends up stopped, also when a
\* start or a restart was under way, a stop was lost with the link or the row was wrong.
MustStop(i) == Expired(rows[i], now) /\ rows[i].autostop
ExpiredIsStopped == \A i \in Insts : <>[]MustStop(i) => <>[](Status(i) = "stopped")

\* A server that ended by itself while its row says running is reported, unless it runs
\* again or a request has written the row first.
CrashIsReported ==
  \A i \in Insts :
    (cause[i] = "crash" /\ server[i] = "stopped" /\ rows[i].status = "running")
      ~> (<<"instance_crash", i>> \in alerts \/ server[i] # "stopped" \/ i \in seen)

\* An alert that says the instance has stopped without the panel's doing
\* (scheduler.go:444) is raised for a server that ended by itself.
CrashAlertsAreTrue ==
  [][\A i \in Insts : <<"instance_crash", i>> \in alerts' \ alerts => cause[i] = "crash"]_schedVars
=============================================================================
