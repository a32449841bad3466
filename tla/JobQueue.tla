------------------------------ MODULE JobQueue ------------------------------
(***************************************************************************)
(* internal/daemon/jobqueue/queue.go: the in-memory queue that serialises  *)
(* the heavy file jobs of a node.  Submit, Cancel and Stop are called from *)
(* gRPC handlers, a fixed pool of workers drains the queue, a reaper       *)
(* forgets old results.  One mutex guards the maps, so every critical      *)
(* section is one action; what a goroutine does between two critical       *)
(* sections (wait for a token, run the handler, call a cancel function)    *)
(* is a step of its own.                                                   *)
(*                                                                         *)
(* A submission is numbered (seq); the number also names the context that  *)
(* the worker who claims it creates, since a submission is claimed at most *)
(* once.  Progress, message and path fields are left out.                  *)
(***************************************************************************)
EXTENDS Integers, Sequences, FiniteSets

CONSTANTS Ids,         \* job ids
          Workers,     \* worker goroutines started by Start
          MaxKeep,     \* Options.MaxRecords
          Keep,        \* Options.Keep, in ticks of the clock (0: shorter than a tick)
          MaxSubmits,  \* bound: accepted submissions
          MaxNow       \* bound: the clock

ASSUME ConstantsAssumption ==
  /\ IsFiniteSet(Ids) /\ IsFiniteSet(Workers)
  /\ MaxKeep \in Nat \ {0} /\ Keep \in Nat
  /\ MaxSubmits \in Nat /\ MaxNow \in Nat

VARIABLES jobs,       \* [Ids -> Record]: state "none" means not in q.jobs
          pending,    \* FIFO of ids waiting to be claimed
          running,    \* q.running
          wake,       \* the channel of capacity one: 0 or 1 token
          stopped,    \* q.stopped
          owed,       \* BOOLEAN: Stop has unlocked and not yet signalled
          pc,         \* [Workers -> PCs]: where each worker is
          cur,        \* [Workers -> what it claimed], or Idle
          reaper,     \* "tick", "sweep" or "done"
          cancels,    \* cancel functions taken by Cancel and not yet called
          signalled,  \* contexts whose cancel function was called
          submits,    \* accepted submissions so far
          now         \* the clock (Unix seconds, abstracted to ticks)

vars == <<jobs, pending, running, wake, stopped, owed, pc, cur, reaper,
          cancels, signalled, submits, now>>

States    == {"none", "queued", "running", "success", "failed", "canceled"}
Terminal  == {"success", "failed", "canceled"}
PCs       == {"next", "wait", "check", "begin", "handler", "done"}
None      == [state |-> "none", canceled |-> FALSE, ctx |-> FALSE, at |-> 0, seq |-> 0]
Idle      == [id |-> "idle", seq |-> 0]

Present      == {i \in Ids : jobs[i].state # "none"}
FinishedIds  == {i \in Ids : jobs[i].state \in Terminal}
Active(w)    == pc[w] \in {"begin", "handler"}

Init ==
  /\ jobs = [i \in Ids |-> None]
  /\ pending = <<>>
  /\ running = 0 /\ wake = 0
  /\ stopped = FALSE /\ owed = FALSE
  /\ pc = [w \in Workers |-> "next"]
  /\ cur = [w \in Workers |-> Idle]
  /\ reaper = "tick"
  /\ cancels = {} /\ signalled = {}
  /\ submits = 0 /\ now = 1

-----------------------------------------------------------------------------
(* Calls from the gRPC handlers.                                           *)

\* evictLocked: the records that must go so that `total` fits in MaxKeep,
\* the oldest finished ones first (any of them when the seconds tie).
Excess(total) == IF total > MaxKeep THEN total - MaxKeep ELSE 0
EvictChoices(total) ==
  {E \in SUBSET FinishedIds :
     /\ Cardinality(E) = IF Cardinality(FinishedIds) <= Excess(total)
                         THEN Cardinality(FinishedIds) ELSE Excess(total)
     /\ \A e \in E, f \in FinishedIds \ E : jobs[e].at <= jobs[f].at}

\* A new id.  A known id, or a stopped queue, changes nothing.
Submit(i) ==
  /\ submits < MaxSubmits
  /\ ~stopped
  /\ jobs[i].state = "none"
  /\ \E E \in EvictChoices(Cardinality(Present) + 1) :
       jobs' = [k \in Ids |->
                  IF k = i THEN [None EXCEPT !.state = "queued", !.seq = submits + 1]
                  ELSE IF k \in E THEN None ELSE jobs[k]]
  /\ submits' = submits + 1
  /\ pending' = Append(pending, i)
  /\ wake' = 1
  /\ UNCHANGED <<running, stopped, owed, pc, cur, reaper, cancels, signalled, now>>

\* Cancel, under the lock: a queued job ends here, a running one is marked and
\* its cancel function is taken, to be called after the unlock.
Cancel(i) ==
  /\ jobs[i].state \in {"queued", "running"}
  /\ jobs' = [jobs EXCEPT ![i].canceled = TRUE,
                          ![i].state = IF @ = "queued" THEN "canceled" ELSE @,
                          ![i].at = IF jobs[i].state = "queued" THEN now ELSE @]
  /\ cancels' = IF jobs[i].ctx THEN cancels \cup {jobs[i].seq} ELSE cancels
  /\ UNCHANGED <<pending, running, wake, stopped, owed, pc, cur, reaper,
                 signalled, submits, now>>

CallCancel(c) ==
  /\ c \in cancels
  /\ cancels' = cancels \ {c}
  /\ signalled' = signalled \cup {c}
  /\ UNCHANGED <<jobs, pending, running, wake, stopped, owed, pc, cur, reaper,
                 submits, now>>

Stop ==
  /\ ~stopped
  /\ stopped' = TRUE
  /\ owed' = TRUE
  /\ UNCHANGED <<jobs, pending, running, wake, pc, cur, reaper, cancels,
                 signalled, submits, now>>

StopSignal ==
  /\ owed
  /\ owed' = FALSE
  /\ wake' = 1
  /\ UNCHANGED <<jobs, pending, running, stopped, pc, cur, reaper, cancels,
                 signalled, submits, now>>

-----------------------------------------------------------------------------
(* The workers.                                                            *)

Claimable(i) == jobs[i].state = "queued" /\ ~jobs[i].canceled

\* next: skip the entries that were evicted, canceled or started meanwhile and
\* claim the first live one.
Claim_KeepsQueued(w) ==
  /\ pc[w] = "next"
  /\ \E k \in 1..Len(pending) :
       /\ \A m \in 1..(k - 1) : ~Claimable(pending[m])
       /\ Claimable(pending[k])
       /\ jobs' = [jobs EXCEPT ![pending[k]].ctx = TRUE]
       /\ cur' = [cur EXCEPT ![w] = [id |-> pending[k], seq |-> jobs[pending[k]].seq]]
       /\ pending' = SubSeq(pending, k + 1, Len(pending))
  /\ running' = running + 1
  /\ pc' = [pc EXCEPT ![w] = "begin"]
  /\ UNCHANGED <<wake, stopped, owed, reaper, cancels, signalled, submits, now>>
Claim_NoContext(w) ==
  /\ pc[w] = "next"
  /\ \E k \in 1..Len(pending) :
       /\ \A m \in 1..(k - 1) : ~Claimable(pending[m])
       /\ Claimable(pending[k])
       /\ jobs' = [jobs EXCEPT ![pending[k]].state = "running"]
       /\ cur' = [cur EXCEPT ![w] = [id |-> pending[k], seq |-> jobs[pending[k]].seq]]
       /\ pending' = SubSeq(pending, k + 1, Len(pending))
  /\ running' = running + 1
  /\ pc' = [pc EXCEPT ![w] = "begin"]
  /\ UNCHANGED <<wake, stopped, owed, reaper, cancels, signalled, submits, now>>
Claim_AnyOrder(w) ==
  /\ pc[w] = "next"
  /\ \E k \in 1..Len(pending) :
       /\ Claimable(pending[k])
       /\ jobs' = [jobs EXCEPT ![pending[k]].state = "running", ![pending[k]].ctx = TRUE]
       /\ cur' = [cur EXCEPT ![w] = [id |-> pending[k], seq |-> jobs[pending[k]].seq]]
       /\ pending' = SubSeq(pending, k + 1, Len(pending))
  /\ running' = running + 1
  /\ pc' = [pc EXCEPT ![w] = "begin"]
  /\ UNCHANGED <<wake, stopped, owed, reaper, cancels, signalled, submits, now>>
Claim(w) ==
  /\ pc[w] = "next"
  /\ \E k \in 1..Len(pending) :
       /\ \A m \in 1..(k - 1) : ~Claimable(pending[m])
       /\ Claimable(pending[k])
       /\ jobs' = [jobs EXCEPT ![pending[k]].state = "running", ![pending[k]].ctx = TRUE]
       /\ cur' = [cur EXCEPT ![w] = [id |-> pending[k], seq |-> jobs[pending[k]].seq]]
       /\ pending' = SubSeq(pending, k + 1, Len(pending))
  /\ running' = running + 1
  /\ pc' = [pc EXCEPT ![w] = "begin"]
  /\ UNCHANGED <<wake, stopped, owed, reaper, cancels, signalled, submits, now>>

FindNothing_StaleHead(w) ==
  /\ pc[w] = "next"
  /\ Len(pending) > 0 => ~Claimable(pending[1])
  /\ pending' = <<>>
  /\ pc' = [pc EXCEPT ![w] = "wait"]
  /\ UNCHANGED <<jobs, running, wake, stopped, owed, cur, reaper, cancels,
                 signalled, submits, now>>
FindNothing(w) ==
  /\ pc[w] = "next"
  /\ \A k \in 1..Len(pending) : ~Claimable(pending[k])
  /\ pending' = <<>>
  /\ pc' = [pc EXCEPT ![w] = "wait"]
  /\ UNCHANGED <<jobs, running, wake, stopped, owed, cur, reaper, cancels,
                 signalled, submits, now>>

\* The select: a token, or one second has passed.
TakeToken(w) ==
  /\ pc[w] = "wait"
  /\ wake = 1
  /\ wake' = 0
  /\ pc' = [pc EXCEPT ![w] = "check"]
  /\ UNCHANGED <<jobs, pending, running, stopped, owed, cur, reaper, cancels,
                 signalled, submits, now>>

TimeOut(w) ==
  /\ pc[w] = "wait"
  /\ pc' = [pc EXCEPT ![w] = "check"]
  /\ UNCHANGED <<jobs, pending, running, wake, stopped, owed, cur, reaper,
                 cancels, signalled, submits, now>>

CheckStopped(w) ==
  /\ pc[w] = "check"
  /\ pc' = [pc EXCEPT ![w] = IF stopped THEN "done" ELSE "next"]
  /\ UNCHANGED <<jobs, pending, running, wake, stopped, owed, cur, reaper,
                 cancels, signalled, submits, now>>

\* run, first critical section: copy the record, or give up if it is gone.
BeginRun(w) ==
  /\ pc[w] = "begin"
  /\ IF jobs[cur[w].id].state = "none"
       THEN /\ running' = running - 1
            /\ pc' = [pc EXCEPT ![w] = "next"]
            /\ cur' = [cur EXCEPT ![w] = Idle]
       ELSE /\ pc' = [pc EXCEPT ![w] = "handler"]
            /\ UNCHANGED <<running, cur>>
  /\ UNCHANGED <<jobs, pending, wake, stopped, owed, reaper, cancels,
                 signalled, submits, now>>

\* The handler returns (err or not); run's last critical section records it.
Outcome_IgnoresCancel(canceled, err) == IF err THEN "failed" ELSE "success"
Outcome(canceled, err) ==
  IF canceled THEN "canceled" ELSE IF err THEN "failed" ELSE "success"

EndRun(w, err) ==
  LET i == cur[w].id IN
  /\ pc[w] = "handler"
  /\ IF jobs[i].state = "none"
       THEN UNCHANGED <<jobs, signalled>>
       ELSE /\ jobs' = [jobs EXCEPT ![i].state = Outcome(jobs[i].canceled, err),
                                    ![i].ctx = FALSE, ![i].at = now]
            /\ signalled' = IF jobs[i].ctx THEN signalled \cup {jobs[i].seq} ELSE signalled
  /\ running' = running - 1
  /\ pc' = [pc EXCEPT ![w] = "next"]
  /\ cur' = [cur EXCEPT ![w] = Idle]
  /\ UNCHANGED <<pending, wake, stopped, owed, reaper, cancels, submits, now>>

-----------------------------------------------------------------------------
(* The reaper and the clock.                                               *)

ReaperTick ==
  /\ reaper = "tick"
  /\ reaper' = IF stopped THEN "done" ELSE "sweep"
  /\ UNCHANGED <<jobs, pending, running, wake, stopped, owed, pc, cur, cancels,
                 signalled, submits, now>>

Expired(i) ==
  jobs[i].state \in Terminal /\ jobs[i].at > 0 /\ jobs[i].at < now - Keep

ReaperSweep ==
  /\ reaper = "sweep"
  /\ reaper' = "tick"
  /\ jobs' = [i \in Ids |-> IF Expired(i) THEN None ELSE jobs[i]]
  /\ UNCHANGED <<pending, running, wake, stopped, owed, pc, cur, cancels,
                 signalled, submits, now>>

Tick ==
  /\ now < MaxNow
  /\ now' = now + 1
  /\ UNCHANGED <<jobs, pending, running, wake, stopped, owed, pc, cur, reaper,
                 cancels, signalled, submits>>

WorkerStep(w) ==
  \/ Claim(w) \/ FindNothing(w) \/ TakeToken(w) \/ TimeOut(w)
  \/ CheckStopped(w) \/ BeginRun(w)

Next ==
  \/ \E i \in Ids : Submit(i) \/ Cancel(i)
  \/ \E c \in 1..MaxSubmits : CallCancel(c)
  \/ Stop \/ StopSignal
  \/ \E w \in Workers : WorkerStep(w)
  \/ \E w \in Workers, err \in BOOLEAN : EndRun(w, err)
  \/ ReaperTick \/ ReaperSweep \/ Tick

Spec == Init /\ [][Next]_vars

-----------------------------------------------------------------------------
(* Fairness.  Goroutines are scheduled, the one-second timer of the select  *)
(* fires, and the handler (one pass over a finite file tree) returns.       *)

QueueFairness ==
  /\ WF_vars(StopSignal)
  /\ \A w \in Workers : WF_vars(WorkerStep(w))

HandlerReturns == \A w \in Workers : WF_vars(\E err \in BOOLEAN : EndRun(w, err))

LiveSpec == Spec /\ QueueFairness /\ HandlerReturns

-----------------------------------------------------------------------------
(* Properties.                                                             *)

Record == [state : States, canceled : BOOLEAN, ctx : BOOLEAN, at : Nat, seq : Nat]

\* Every variable keeps its type; the wake channel holds at most one token.
TypeOK ==
  /\ jobs \in [Ids -> Record]
  /\ pending \in Seq(Ids)
  /\ running \in Int /\ wake \in {0, 1}
  /\ stopped \in BOOLEAN /\ owed \in BOOLEAN
  /\ pc \in [Workers -> PCs]
  /\ cur \in [Workers -> [id : Ids \cup {"idle"}, seq : Nat]]
  /\ reaper \in {"tick", "sweep", "done"}
  /\ cancels \subseteq Nat /\ signalled \subseteq Nat
  /\ submits \in Nat /\ now \in Nat

\* A job that waits is in the FIFO: neither eviction, nor a claim that skips
\* stale entries, nor a cancel of another job may drop it.
NoLostJob ==
  \A i \in Ids : jobs[i].state = "queued" => \E k \in 1..Len(pending) : pending[k] = i

\* While a worker holds a job its record stays, is running, and is the very
\* submission the worker claimed: run never meets a missing or a foreign one.
ClaimedStaysRunning ==
  \A w \in Workers : Active(w) =>
    /\ cur[w].id \in Ids
    /\ jobs[cur[w].id].state = "running"
    /\ jobs[cur[w].id].seq = cur[w].seq

\* One job is never in the hands of two workers, and every running record is
\* in the hands of one.
OneWorkerPerJob ==
  /\ \A v, w \in Workers : Active(v) /\ Active(w) /\ cur[v].id = cur[w].id => v = w
  /\ \A i \in Ids : jobs[i].state = "running" =>
       \E w \in Workers : Active(w) /\ cur[w].id = i

\* q.running counts exactly the busy workers, so it never exceeds the pool.
RunningCounts == running = Cardinality({w \in Workers : Active(w)})

\* A canceled job that still runs has its context canceled, or the canceler
\* holds the cancel function and is about to call it.
CancelIsDelivered ==
  \A i \in Ids : jobs[i].state = "running" /\ jobs[i].canceled =>
    jobs[i].seq \in cancels \cup signalled

\* A cancel function called late, after its job ended and the id was used
\* again, never cancels the newer submission.
NoStrayCancel ==
  \A i \in Ids : jobs[i].state = "running" /\ ~jobs[i].canceled =>
    jobs[i].seq \notin cancels \cup signalled

\* A cancel reaches the run it was meant for, and no other.
CancelIsExact == CancelIsDelivered /\ NoStrayCancel

\* The strengthening that makes the five invariants above inductive: a job that
\* waits is untouched, a running one has its cancel function in place, and the
\* number of a submission never names two runs.
WaitingIsFresh ==
  \A i \in Ids : jobs[i].state = "queued" =>
    /\ ~jobs[i].canceled /\ ~jobs[i].ctx
    /\ jobs[i].seq \notin cancels \cup signalled
RunningHasContext == \A i \in Ids : jobs[i].state = "running" => jobs[i].ctx
AbsentIsBlank == \A i \in Ids : jobs[i].state = "none" => ~jobs[i].canceled
SeqsNameOneRun ==
  /\ \A i \in Present : jobs[i].seq \in 1..submits
  /\ \A i, k \in Present : jobs[i].seq = jobs[k].seq => i = k
  /\ cancels \cup signalled \subseteq 1..submits

IInv ==
  /\ NoLostJob /\ ClaimedStaysRunning /\ OneWorkerPerJob /\ RunningCounts
  /\ CancelIsDelivered /\ NoStrayCancel
  /\ WaitingIsFresh /\ RunningHasContext /\ AbsentIsBlank /\ SeqsNameOneRun

\* Jobs start in the order of submission.  The one exception the code has: an
\* id that is submitted again after its canceled record was evicted, while the
\* old entry still waits in the FIFO, starts from the old entry's place.
Occurrences(i) == Cardinality({k \in 1..Len(pending) : pending[k] = i})
Started(i) == jobs[i].state = "queued" /\ jobs'[i].state = "running"
StartsInOrder ==
  [][\A i, k \in Ids :
       Started(i) /\ jobs[k].state = "queued" /\ k # i =>
         jobs[i].seq < jobs[k].seq \/ Occurrences(i) > 1]_vars

\* Every accepted job is eventually started or canceled, whatever tokens the
\* wake channel loses, until the queue is stopped (a stopped queue may strand
\* what is left: a worker between its empty look and isStopped just exits).
\* After Stop every worker goroutine returns, although Stop sends one token.
NobodyIsLeftWaiting ==
  /\ \A i \in Ids : []<>(jobs[i].state # "queued" \/ stopped)
  /\ []<>(stopped => \A w \in Workers : pc[w] = "done")

-----------------------------------------------------------------------------
(* The queue implements the lifecycle it promises.                         *)

Life == INSTANCE JobLifecycle
          WITH state    <- [i \in Ids |-> jobs[i].state],
               canceled <- [i \in Ids |-> jobs[i].canceled],
               open     <- ~stopped

\* Get, Cancel and Submit callers see the lifecycle of JobLifecycle and
\* nothing else, whatever the workers and the reaper interleave.
ImplementsLifecycle == Life!Spec
=============================================================================
