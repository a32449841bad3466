------------------------------ MODULE FileJobs ------------------------------
(***************************************************************************)
(* The panel's side of a compress or extract job                           *)
(* (internal/panel/httpapi/filejobs.go): the file_jobs row, the dispatch   *)
(* goroutine started with the job, the pump that dispatches or reads back  *)
(* every two seconds, and the cancel handler.  The node is the abstract    *)
(* JobLifecycle that the node's queue implements (module JobQueue), called *)
(* over RPCs that fail, or do their work and lose the answer.              *)
(*                                                                         *)
(* A dispatch is not atomic: it reads the row, calls the node and writes   *)
(* the row, and the UPDATE repeats no condition on what was read.          *)
(* Progress, messages and audit records are left out.  The node never      *)
(* stops its queue (nothing calls Stop), so its `open` is TRUE.            *)
(***************************************************************************)
EXTENDS Integers, FiniteSets

CONSTANTS NJobs,        \* bound: jobs, numbered in the order they are created
          Users,        \* concurrent cancel handlers
          Unreachable,  \* jobs whose node never answers
          Refused,      \* jobs SubmitJob refuses (kind, protected path)
          PumpLimit,    \* LIMIT of pumpJobs (50)
          MaxCancels,   \* bound: cancel requests
          MaxRestarts   \* bound: ends of a panel or node process

Jobs == 1..NJobs

ASSUME ConstantsAssumption ==
  /\ NJobs \in Nat /\ PumpLimit \in Nat \ {0}
  /\ Unreachable \subseteq Jobs /\ Refused \subseteq Jobs
  /\ MaxCancels \in Nat /\ MaxRestarts \in Nat

VARIABLES row,       \* [Jobs -> state of the file_jobs row]; "none": no row
          since,     \* [Jobs -> "no", "recent", "old"]: started_at, and
                     \* whether it is more than jobLostAfter ago
          inst,      \* [Jobs -> the job's instance: "there", deleted on the
                     \* "node", or its row (or the node's) also "gone"]
          todo,      \* what is left of the pump's list
          th,        \* [Threads -> the dispatch it is in]
          can,       \* [Users -> the cancel request it is in]
          node,      \* [Jobs -> state of the node's record], "none": no record
          asked,     \* [Jobs -> the node was told to cancel]
          ended,     \* history: [Jobs -> outcomes of its runs on the node]
          lost,      \* history: jobs whose record the node lost or forgot
          marked,    \* history: jobs a user's cancel marked canceled
          told,      \* history: jobs whose user was answered "canceled"
          cancels, restarts

panelVars == <<row, since>>
nodeVars  == <<node, asked, ended, lost>>
userVars  == <<can, marked, told, cancels>>
vars == <<panelVars, inst, todo, th, userVars, nodeVars, restarts>>

Daemon == INSTANCE JobLifecycle
          WITH Ids <- Jobs, state <- node, canceled <- asked, open <- TRUE

Pump     == 0
Threads  == {Pump} \cup Jobs      \* thread j is the goroutine of handleCreateJob
Finished == {"success", "failed", "canceled"}
Active   == {j \in Jobs : row[j] \in {"queued", "running"}}
Idle     ==
  [pc |-> "idle", job |-> 0, saw |-> "none", since |-> "no", reply |-> "none"]
NoCancel == [pc |-> "idle", job |-> 0]

Init ==
  /\ row = [j \in Jobs |-> "none"] /\ since = [j \in Jobs |-> "no"]
  /\ inst = [j \in Jobs |-> "there"]
  /\ todo = {} /\ th = [t \in Threads |-> Idle] /\ can = [u \in Users |-> NoCancel]
  /\ node = [j \in Jobs |-> "none"] /\ asked = [j \in Jobs |-> FALSE]
  /\ ended = [j \in Jobs |-> {}] /\ lost = {} /\ marked = {} /\ told = {}
  /\ cancels = 0 /\ restarts = 0

-----------------------------------------------------------------------------
(* Creating and dispatching.                                               *)

Dispatch(j) == [Idle EXCEPT !.pc = "read", !.job = j]
InCall(t, j) == th[t].pc = "call" /\ th[t].job = j

\* The row, and a goroutine that tries to dispatch it at once.
Create(j) ==
  /\ row[j] = "none" /\ inst[j] # "gone"
  /\ \A k \in 1..(j - 1) : row[k] # "none"
  /\ row' = [row EXCEPT ![j] = "queued"]
  /\ th' = [th EXCEPT ![j] = Dispatch(j)]
  /\ UNCHANGED <<since, inst, todo, userVars, nodeVars, restarts>>

\* A round of the pump: the oldest PumpLimit unfinished rows, one by one.
Round == {j \in Active : Cardinality({k \in Active : k < j}) < PumpLimit}

StartRound ==
  /\ th[Pump].pc = "idle" /\ todo = {} /\ Active # {}
  /\ todo' = Round
  /\ UNCHANGED <<panelVars, inst, th, userVars, nodeVars, restarts>>

PumpNext(j) ==
  /\ th[Pump].pc = "idle" /\ j \in todo /\ \A k \in todo : j <= k
  /\ todo' = todo \ {j}
  /\ th' = [th EXCEPT ![Pump] = Dispatch(j)]
  /\ UNCHANGED <<panelVars, inst, userVars, nodeVars, restarts>>

\* The SELECT and getDaemonClient.  A finished row is left alone; no instance
\* row means there is no node to ask.
Read_AnyState(t) ==
  /\ th[t].pc = "read"
  /\ LET j == th[t].job IN
     th' = [th EXCEPT ![t] =
              IF inst[j] = "gone" THEN [@ EXCEPT !.pc = "write", !.saw = row[j], !.reply = "failed"]
              ELSE [@ EXCEPT !.pc = "call", !.saw = row[j], !.since = since[j]]]
  /\ UNCHANGED <<panelVars, inst, todo, userVars, nodeVars, restarts>>
Read(t) ==
  /\ th[t].pc = "read"
  /\ LET j == th[t].job IN
     th' = [th EXCEPT ![t] =
              IF j \notin Active THEN Idle
              ELSE IF inst[j] = "gone" THEN [@ EXCEPT !.pc = "write", !.saw = row[j], !.reply = "failed"]
              ELSE [@ EXCEPT !.pc = "call", !.saw = row[j], !.since = since[j]]]
  /\ UNCHANGED <<panelVars, inst, todo, userVars, nodeVars, restarts>>

Answer(t, reply) == th' = [th EXCEPT ![t].pc = "write", ![t].reply = reply, ![t].since = "no"]

\* SubmitJob on the node: an id it knows is accepted again without effect.
NodeAccepts(j) ==
  /\ j \notin Refused /\ inst[j] = "there"
  /\ IF node[j] = "none" THEN Daemon!Accept(j, {}) ELSE UNCHANGED <<node, asked>>
  /\ UNCHANGED <<ended, lost>>

NodeRefuses(j) == (j \in Refused \/ inst[j] # "there") /\ UNCHANGED nodeVars

SubmitAnswered(t) ==
  /\ th[t].pc = "call" /\ th[t].saw = "queued" /\ th[t].job \notin Unreachable
  /\ \/ NodeAccepts(th[t].job) /\ Answer(t, "running")
     \/ NodeRefuses(th[t].job) /\ Answer(t, "failed")
  /\ UNCHANGED <<panelVars, inst, todo, userVars, restarts>>

\* The call failed: at once, or after the node had accepted the job.  The row
\* stays queued and a later round tries again.
SubmitFails_GivesUp(t) ==
  /\ th[t].pc = "call" /\ th[t].saw = "queued"
  /\ \/ UNCHANGED nodeVars
     \/ th[t].job \notin Unreachable /\ NodeAccepts(th[t].job)
  /\ Answer(t, "failed")
  /\ UNCHANGED <<panelVars, inst, todo, userVars, restarts>>
SubmitFails(t) ==
  /\ th[t].pc = "call" /\ th[t].saw = "queued"
  /\ \/ UNCHANGED nodeVars
     \/ th[t].job \notin Unreachable /\ NodeAccepts(th[t].job)
  /\ th' = [th EXCEPT ![t] = Idle]
  /\ UNCHANGED <<panelVars, inst, todo, userVars, restarts>>

\* GetJob: what the node says, "unknown" (no record) being a verdict only when
\* the job was started long ago.
LostVerdict_Never(t) == FALSE
LostVerdict(t) == th[t].since = "old"

GetAnswered(t) ==
  /\ th[t].pc = "call" /\ th[t].saw = "running" /\ th[t].job \notin Unreachable
  /\ LET s == node[th[t].job] IN
     IF s = "none" THEN LostVerdict(t) /\ Answer(t, "failed")
     ELSE Answer(t, IF s \in Finished THEN s ELSE "running")
  /\ UNCHANGED <<panelVars, inst, todo, userVars, nodeVars, restarts>>

\* The call failed, or said "unknown" of a job started a moment ago.
GetNothing(t) ==
  /\ th[t].pc = "call" /\ th[t].saw = "running"
  /\ th' = [th EXCEPT ![t] = Idle]
  /\ UNCHANGED <<panelVars, inst, todo, userVars, nodeVars, restarts>>

\* The UPDATE, whatever the row says by now.
Write(t) ==
  /\ th[t].pc = "write"
  /\ LET j == th[t].job IN
     /\ row' = [row EXCEPT ![j] = th[t].reply]
     /\ since' = [since EXCEPT ![j] =
                    IF th[t].saw = "queued" /\ th[t].reply = "running" /\ @ = "no"
                    THEN "recent" ELSE @]
  /\ th' = [th EXCEPT ![t] = Idle]
  /\ UNCHANGED <<inst, todo, userVars, nodeVars, restarts>>

WriteFails(t) ==
  /\ th[t].pc = "write"
  /\ th' = [th EXCEPT ![t] = Idle]
  /\ UNCHANGED <<panelVars, inst, todo, userVars, nodeVars, restarts>>

\* jobLostAfter passes.  A dispatch is over within its 20 s deadline, so none
\* that saw the row before it was started is still under way.
Age(j) ==
  /\ since[j] = "recent"
  /\ \A t \in Threads : th[t].pc # "idle" /\ th[t].job = j => th[t].saw # "queued"
  /\ since' = [since EXCEPT ![j] = "old"]
  /\ UNCHANGED <<row, inst, todo, th, userVars, nodeVars, restarts>>

-----------------------------------------------------------------------------
(* handleCancelJob: look at the row, mark it, then tell the node.          *)

AskCancel(u, j) ==
  /\ can[u].pc = "idle" /\ j \in Active /\ cancels < MaxCancels
  /\ can' = [can EXCEPT ![u] = [pc |-> "mark", job |-> j]]
  /\ cancels' = cancels + 1
  /\ UNCHANGED <<panelVars, inst, todo, th, marked, told, nodeVars, restarts>>

Mark(u) ==
  /\ can[u].pc = "mark"
  /\ row' = [row EXCEPT ![can[u].job] = "canceled"]
  /\ marked' = marked \cup {can[u].job}
  /\ can' = [can EXCEPT ![u].pc = "notify"]
  /\ UNCHANGED <<since, inst, todo, th, told, cancels, nodeVars, restarts>>

\* The UPDATE failed: the user gets the error and the node is not told.
MarkFails(u) ==
  /\ can[u].pc = "mark"
  /\ can' = [can EXCEPT ![u] = NoCancel]
  /\ UNCHANGED <<panelVars, inst, todo, th, marked, told, cancels, nodeVars, restarts>>

\* cancelJobOnDaemon is best effort: the call may fail, and a node that does
\* not know the job, or has finished it, does nothing.
NodeCancels(j) == Daemon!Withdraw(j) \/ Daemon!AskCancel(j)
Notify(u) ==
  /\ can[u].pc = "notify"
  /\ LET j == can[u].job IN
     /\ \/ UNCHANGED <<node, asked>>
        \/ j \notin Unreachable /\ inst[j] # "gone" /\ NodeCancels(j)
     /\ told' = told \cup {j}
  /\ can' = [can EXCEPT ![u] = NoCancel]
  /\ UNCHANGED <<panelVars, inst, todo, th, marked, cancels, ended, lost, restarts>>

-----------------------------------------------------------------------------
(* The node's queue runs, forgets, restarts; instances are deleted.        *)

NodeBegins(j) ==
  /\ Daemon!Begin(j)
  /\ UNCHANGED <<panelVars, inst, todo, th, userVars, ended, lost, restarts>>

NodeEnds(j, outcome) ==
  /\ Daemon!End(j, outcome)
  /\ ended' = [ended EXCEPT ![j] = @ \cup {outcome}]
  /\ UNCHANGED <<panelVars, inst, todo, th, userVars, lost, restarts>>

\* Half an hour after it ended, so not during a call of at most 20 s.
NodeForgets(j) ==
  /\ Daemon!Forget({j})
  /\ \A t \in Threads : ~InCall(t, j)
  /\ lost' = lost \cup {j}
  /\ UNCHANGED <<panelVars, inst, todo, th, userVars, ended, restarts>>

\* The queue is in memory: a restarted Daemon knows no job.
NodeRestarts ==
  /\ restarts < MaxRestarts /\ restarts' = restarts + 1
  /\ lost' = lost \cup {j \in Jobs : node[j] # "none"}
  /\ node' = [j \in Jobs |-> "none"] /\ asked' = [j \in Jobs |-> FALSE]
  /\ UNCHANGED <<panelVars, inst, todo, th, userVars, ended>>

\* Only the rows survive a restart of the panel.
PanelRestarts ==
  /\ restarts < MaxRestarts /\ restarts' = restarts + 1
  /\ todo' = {} /\ th' = [t \in Threads |-> Idle] /\ can' = [u \in Users |-> NoCancel]
  /\ UNCHANGED <<panelVars, inst, marked, told, cancels, nodeVars>>

\* Deleting the instance leaves the jobs: first the node deletes it, then the
\* panel its row.
DeleteInstance(j) ==
  /\ inst[j] # "gone"
  /\ inst' = [inst EXCEPT ![j] = IF @ = "there" THEN "node" ELSE "gone"]
  /\ UNCHANGED <<panelVars, todo, th, userVars, nodeVars, restarts>>

-----------------------------------------------------------------------------
ThreadStep(t) ==
  \/ Read(t) \/ SubmitAnswered(t) \/ SubmitFails(t)
  \/ GetAnswered(t) \/ GetNothing(t) \/ Write(t) \/ WriteFails(t)
NodeStep(j) == NodeBegins(j) \/ \E outcome \in Finished : NodeEnds(j, outcome)

Next ==
  \/ StartRound
  \/ NodeRestarts \/ PanelRestarts
  \/ \E j \in Jobs : Create(j) \/ PumpNext(j) \/ Age(j) \/ NodeStep(j)
                    \/ NodeForgets(j) \/ DeleteInstance(j)
  \/ \E t \in Threads : ThreadStep(t)
  \/ \E u \in Users : Mark(u) \/ MarkFails(u) \/ Notify(u)
                     \/ \E j \in Jobs : AskCancel(u, j)

Spec == Init /\ [][Next]_vars

\* Goroutines are scheduled, the ticker ticks, time passes, the node runs what
\* it accepted and its handlers return.  A reachable node answers some call out
\* of any infinite sequence of calls about a job, and the database some UPDATE.
Fairness ==
  /\ WF_vars(StartRound)
  /\ \A t \in Threads : WF_vars(ThreadStep(t))
  /\ \A j \in Jobs :
       /\ WF_vars(PumpNext(j)) /\ WF_vars(Age(j)) /\ WF_vars(NodeStep(j))
       /\ SF_vars(\E t \in Threads : th[t].job = j /\ (SubmitAnswered(t) \/ GetAnswered(t)))
       /\ SF_vars(\E t \in Threads : th[t].job = j /\ Write(t))

FairSpec == Spec /\ Fairness

-----------------------------------------------------------------------------
(* Properties.                                                             *)

RowStates == {"none", "queued", "running", "success", "failed", "canceled"}

Dispatches == [pc : {"idle", "read", "call", "write"}, job : Jobs \cup {0},
               saw : {"none", "queued", "running"}, since : {"no", "recent", "old"},
               reply : {"none", "running"} \cup Finished]
CancelRequests == [pc : {"idle", "mark", "notify"}, job : Jobs \cup {0}]

\* Every variable keeps its type, and the node's records stay those of a queue.
TypeOK ==
  /\ row \in [Jobs -> RowStates] /\ since \in [Jobs -> {"no", "recent", "old"}]
  /\ inst \in [Jobs -> {"there", "node", "gone"}] /\ todo \subseteq Jobs
  /\ th \in [Threads -> Dispatches] /\ can \in [Users -> CancelRequests]
  /\ node \in [Jobs -> Daemon!States] /\ asked \in [Jobs -> BOOLEAN]
  /\ ended \in [Jobs -> SUBSET Finished] /\ lost \subseteq Jobs
  /\ marked \subseteq Jobs /\ told \subseteq Jobs
  /\ cancels \in 0..MaxCancels /\ restarts \in 0..MaxRestarts

Cause(j, s) ==
  /\ s = "success" => "success" \in ended[j]
  /\ s = "canceled" => j \in marked
  /\ s = "failed" => "failed" \in ended[j] \/ j \in Refused \/ j \in lost
                      \/ inst[j] # "there"

\* What the user reads has a cause: success was reported by a run on the node,
\* canceled was asked for, failed was a run's failure, a refusal or the loss of
\* the record or the instance, never a call that merely failed.
EndsForACause == \A j \in Jobs : Cause(j, row[j])

\* A row that says success or failed has no work behind it: the node neither
\* runs the job nor will, unless it lost the record or the instance went.
NoWorkBehindFinishedRow ==
  \A j \in Jobs :
    row[j] \in {"success", "failed"} /\ node[j] \in {"queued", "running"}
      => j \in lost \/ inst[j] # "there"

\* A finished row changes only by a dispatch or a cancel that had read it
\* before it finished.
ReadUnfinished(j) ==
  \/ \E t \in Threads : th[t].job = j /\ th[t].saw \in {"queued", "running"}
  \/ \E u \in Users : can[u].job = j
FinishedStays ==
  [][\A j \in Jobs : row[j] \in Finished /\ row'[j] # row[j] => ReadUnfinished(j)]_vars

\* The answer of handleCancelJob ("canceled", filejobs.go:249) and the comment
\* on the call to the node (its failure does not change what the panel says,
\* filejobs.go:259): a job whose user was told it is canceled says canceled.
CanceledStaysCanceled == \A j \in told : row[j] = "canceled"

\* A job whose node can be reached ends, and its row then stays: whatever
\* calls and answers are lost and whichever side restarts.
ReachableJobsSettle ==
  \A j \in Jobs \ Unreachable :
    (row[j] = "queued") ~> [](row[j] \in Finished)

\* The strengthening that makes the state invariants inductive.  Known: the node
\* has accepted the job, and only a loss of its record can undo that.
Known(j) == node[j] # "none" \/ j \in lost
NodeFacts ==
  \A j \in Jobs :
    /\ node[j] \in {"success", "failed"} => node[j] \in ended[j]
    /\ node[j] = "canceled" \/ asked[j] => j \in marked
    /\ node[j] \notin Finished /\ ended[j] # {} => j \in lost
    /\ j \in Refused => node[j] = "none" /\ ended[j] = {}
RowFacts == \A j \in Jobs : row[j] = "running" => Known(j)
ThreadFact(t) ==
  /\ th[t].pc # "idle" => th[t].job \in Jobs
  /\ th[t].pc \in {"call", "write"} => th[t].saw # "none"
  /\ th[t].saw = "running" \/ th[t].reply = "running" =>
       th[t].pc # "idle" /\ Known(th[t].job)
  /\ th[t].pc = "write" => th[t].reply # "none" /\ Cause(th[t].job, th[t].reply)
ThreadFacts == \A t \in Threads : ThreadFact(t)
UserFacts ==
  \A u \in Users :
    /\ can[u].pc # "idle" => can[u].job \in Jobs
    /\ can[u].pc = "notify" => can[u].job \in marked
IInv == TypeOK /\ NodeFacts /\ RowFacts /\ ThreadFacts /\ UserFacts /\ EndsForACause
=============================================================================
