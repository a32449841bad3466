------------------------------ MODULE Backups ------------------------------
(***************************************************************************)
(* The backups of one instance: the panel's scheduled backup with the      *)
(* rotation after it (panel/scheduler, panel/httpapi), the backups a user  *)
(* makes and deletes, and the daemon that writes the archives              *)
(* (daemon/grpcapi/backup.go).                                             *)
(*                                                                         *)
(* An archive is listed from the moment its file exists, long before it is *)
(* whole; a caller that gives up does not stop the writer; a daemon that   *)
(* dies leaves what it has written.  Nothing of an archive but being whole *)
(* matters here, and restoring one is left out.  Archives of one kind are  *)
(* made at different times (their names carry the second).                 *)
(***************************************************************************)
EXTENDS Retention

CONSTANTS
  Policy,      \* the policy of the schedule, normalised
  Interval,    \* hours between scheduled backups
  Patience,    \* how long the panel waits for a scheduled backup
  Requests,    \* the requests users make, each once
  MaxTime,     \* bound: the last point in time
  MaxFaults    \* bound: failed archives, dead daemons, outages and restarts together

ASSUME BackupsAssumption ==
  /\ Policy \in [manualKeep : Nat, tiers : Seq([within : Nat \ {0}, keep : Nat \ {0}])]
  /\ Normalize(Policy) = Policy
  /\ \A k, m \in DOMAIN Policy.tiers : k < m => Policy.tiers[k].within <= Policy.tiers[m].within
  /\ Policy.tiers # <<>> => Patience <= Policy.tiers[1].within * Hour
  /\ Interval \in Nat \ {0} /\ Patience \in Nat /\ MaxTime \in Nat \ {0} /\ MaxFaults \in Nat
  /\ "round" \notin Requests /\ "nobody" \notin Requests

Never == 0

VARIABLES
  now,
  files,      \* the archives in the backup directory
  writers,    \* the archives being written, and who waits for each
  link,       \* the node can be reached
  up,         \* the panel runs
  row,        \* the table backup_schedules
  alert,      \* backup_failed is open
  round,      \* the scheduled backup: where it is, since when, what it is to delete
  req,        \* request -> its place in its handler
  left,       \* the faults that may still happen
  had,        \* history: a scheduled backup has succeeded, and no user has deleted one since
  made        \* history: when manual backups were made

daemon == <<files, writers>>
panel == <<up, row, alert>>
hist == <<had, made>>
vars == <<now, files, writers, link, up, row, alert, round, req, left, had, made>>

Tick ==
  /\ now < MaxTime /\ now' = now + 1
  /\ round.pc \in {"wait", "list"} => now - round.at < Patience
  /\ UNCHANGED <<daemon, link, panel, round, req, left, hist>>

\* ---------------------------------------------------------------- the daemon

At(m, t) == [at |-> t, manual |-> m, whole |-> FALSE]
File(w, whole) == [at |-> w.at, manual |-> w.manual, whole |-> whole]
SameTime(m) == \E f \in files : f.manual = m /\ f.at = now

\* Backup: the file is made and listed at once, then filled.
Create(m, caller) ==
  /\ ~SameTime(m)
  /\ files' = files \cup {At(m, now)}
  /\ writers' = writers \cup {[at |-> now, manual |-> m, caller |-> caller]}
  /\ made' = IF m THEN made \cup {now} ELSE made

\* The waiting callers get their answer.
Answer(callers, ok) ==
  /\ round' = IF "round" \in callers THEN [round EXCEPT !.pc = IF ok THEN "list" ELSE "failed"] ELSE round
  /\ req' = [r \in Requests |-> IF r \in callers THEN "done" ELSE req[r]]

DaemonDies ==
  /\ writers' = {} /\ files' = files /\ had' = had
  /\ Answer({w.caller : w \in writers}, FALSE)

\* The end of Backup.  The size of a file that was deleted meanwhile is asked of nothing,
\* and the daemon dies of it.
FinishArchive(w) ==
  /\ IF File(w, FALSE) \in files
       THEN /\ files' = (files \ {File(w, FALSE)}) \cup {File(w, TRUE)}
            /\ writers' = writers \ {w}
            /\ had' = (had \/ w.caller = "round")
            /\ Answer({w.caller}, TRUE)
       ELSE DaemonDies
  /\ UNCHANGED <<now, link, panel, left, made>>

\* An error while packing removes the file; one while closing it does not.
FailArchive(w) ==
  /\ left > 0 /\ left' = left - 1
  /\ files' \in {files, files \ {File(w, FALSE)}}
  /\ writers' = writers \ {w}
  /\ Answer({w.caller}, FALSE)
  /\ UNCHANGED <<now, link, panel, hist>>

DaemonCrashes ==
  /\ left > 0 /\ left' = left - 1
  /\ DaemonDies /\ UNCHANGED <<now, link, panel, made>>

\* Callers gone: the writers write on, for nobody.
Abandoned(callers) ==
  {IF w.caller \in callers THEN [w EXCEPT !.caller = "nobody"] ELSE w : w \in writers}

LinkFails ==
  /\ link /\ left > 0 /\ link' = FALSE /\ left' = left - 1
  /\ writers' = Abandoned(Requests \cup {"round"})
  /\ round' = IF round.pc = "wait" THEN [round EXCEPT !.pc = "failed"] ELSE round
  /\ req' = [r \in Requests |-> IF req[r] = "wait" THEN "done" ELSE req[r]]
  /\ UNCHANGED <<now, files, panel, hist>>
LinkReturns == ~link /\ link' = TRUE /\ UNCHANGED <<now, daemon, panel, round, req, left, hist>>

\* ------------------------------------------------------- the scheduled backup

Goto(pc, doomed) == round' = [pc |-> pc, at |-> IF pc \in {"idle", "failed"} THEN 0 ELSE round.at, doomed |-> doomed]

\* runDueBackups: the schedule is enabled, and its last run long enough ago.
BeginBackup ==
  /\ up /\ round.pc = "idle" /\ row.enabled
  /\ row.lastRun # Never => now - row.lastRun >= Interval * Hour
  /\ Goto("call", {})
  /\ UNCHANGED <<now, daemon, link, panel, req, left, hist>>

CallBackup ==
  /\ round.pc = "call"
  /\ IF link THEN Create(FALSE, "round") /\ round' = [pc |-> "wait", at |-> now, doomed |-> {}]
             ELSE Goto("failed", {}) /\ UNCHANGED <<daemon, made>>
  /\ UNCHANGED <<now, link, panel, req, left, had>>

\* Mutant of GiveUpWaiting: the rotation follows a backup that was given up, too.
GiveUpWaiting_Prunes ==
  /\ round.pc = "wait"
  /\ writers' = Abandoned({"round"}) /\ Goto("list", {})
  /\ UNCHANGED <<now, files, link, panel, req, left, hist>>

GiveUpWaiting ==
  /\ round.pc = "wait"
  /\ writers' = Abandoned({"round"}) /\ Goto("failed", {})
  /\ UNCHANGED <<now, files, link, panel, req, left, hist>>

\* pruneByPolicy: whatever is listed takes part, whole or not.
ListBackups ==
  /\ round.pc = "list"
  /\ Goto("prune", IF link THEN SelectExpired(files, Policy, now) ELSE {})
  /\ UNCHANGED <<now, daemon, link, panel, req, left, hist>>

\* The oldest first; a deletion that fails is left to a later rotation.
DeleteExpired ==
  /\ round.pc = "prune"
  /\ \E e \in round.doomed :
       /\ \A f \in round.doomed : e.at <= f.at
       /\ files' = IF link THEN {f \in files : ~(f.at = e.at /\ f.manual = e.manual)} ELSE files
       /\ Goto("prune", round.doomed \ {e})
  /\ UNCHANGED <<now, writers, link, panel, req, left, hist>>

Record(failed) ==
  /\ row' = [row EXCEPT !.lastRun = now] /\ alert' = failed
  /\ Goto("idle", {})
  /\ UNCHANGED <<now, daemon, link, up, req, left, hist>>

RecordSuccess == round.pc = "prune" /\ round.doomed = {} /\ Record(FALSE)
RecordFailure == round.pc = "failed" /\ Record(TRUE)

\* ------------------------------------------------------------------ requests

New(r) == up /\ req[r] = "new"

HandleCreateBackup(r) ==
  /\ New(r) /\ link /\ Create(TRUE, r) /\ req' = [req EXCEPT ![r] = "wait"]
  /\ UNCHANGED <<now, link, panel, round, left, had>>

HandleDeleteBackup(r) ==
  /\ New(r) /\ link
  /\ \E f \in files : files' = files \ {f} /\ had' = (had /\ f.manual)
  /\ req' = [req EXCEPT ![r] = "done"]
  /\ UNCHANGED <<now, writers, link, panel, round, left, made>>

\* handleSetSchedule: the last run stays.
HandleSetSchedule(r) ==
  /\ New(r) /\ row' = [row EXCEPT !.enabled = ~@]
  /\ req' = [req EXCEPT ![r] = "done"]
  /\ UNCHANGED <<now, daemon, link, up, alert, round, left, hist>>

PanelStops ==
  /\ up /\ left > 0 /\ up' = FALSE /\ left' = left - 1
  /\ Goto("idle", {}) /\ writers' = Abandoned(Requests \cup {"round"})
  /\ req' = [r \in Requests |-> IF req[r] = "wait" THEN "done" ELSE req[r]]
  /\ UNCHANGED <<now, files, link, row, alert, hist>>
PanelStarts == ~up /\ up' = TRUE /\ UNCHANGED <<now, daemon, link, row, alert, round, req, left, hist>>

\* ------------------------------------------------------------- specification

Init ==
  /\ now = 1 /\ files = {} /\ writers = {} /\ link = TRUE /\ up = TRUE
  /\ row = [enabled |-> TRUE, lastRun |-> Never] /\ alert = FALSE
  /\ round = [pc |-> "idle", at |-> 0, doomed |-> {}]
  /\ req = [r \in Requests |-> "new"]
  /\ left = MaxFaults /\ had = FALSE /\ made = {}

Next ==
  \/ Tick \/ DaemonCrashes \/ LinkFails \/ LinkReturns \/ PanelStops \/ PanelStarts
  \/ \E w \in writers : FinishArchive(w) \/ FailArchive(w)
  \/ BeginBackup \/ CallBackup \/ GiveUpWaiting \/ ListBackups \/ DeleteExpired
  \/ RecordSuccess \/ RecordFailure
  \/ \E r \in Requests : HandleCreateBackup(r) \/ HandleDeleteBackup(r) \/ HandleSetSchedule(r)

Spec == Init /\ [][Next]_vars

\* ---------------------------------------------------------------- properties

\* Type invariant.
TypeOK ==
  /\ now \in 1..MaxTime /\ link \in BOOLEAN /\ up \in BOOLEAN /\ alert \in BOOLEAN /\ had \in BOOLEAN
  /\ files \subseteq [at : 1..MaxTime, manual : BOOLEAN, whole : BOOLEAN]
  /\ writers \subseteq [at : 1..MaxTime, manual : BOOLEAN, caller : Requests \cup {"round", "nobody"}]
  /\ row \in [enabled : BOOLEAN, lastRun : 0..MaxTime]
  /\ round \in [pc : {"idle", "call", "wait", "list", "prune", "failed"}, at : 0..MaxTime,
                doomed : SUBSET [at : 1..MaxTime, manual : BOOLEAN, whole : BOOLEAN]]
  /\ req \in [Requests -> {"new", "wait", "done"}] /\ left \in 0..MaxFaults /\ made \subseteq 1..MaxTime

\* Once a scheduled backup has succeeded there always is a whole one, whatever is half
\* written, was given up or was left by a dead daemon, until a user deletes one
\* (scheduler.go:119, the rotation only after a backup that succeeded).
WholeBackupRemains == had => \E f \in Autos(files) : f.whole

\* A rotation deletes a manual backup only if the user has made as many newer ones as
\* the policy keeps: automatic backups never push it out (backuppolicy.go:245).
ManualIsSpared ==
  [][\A f \in Manuals(files) \ files' :
       round.pc = "prune" /\ req' = req /\ writers' = writers =>
         Cardinality({t \in made : t > f.at}) >= Policy.manualKeep]_vars
=============================================================================
