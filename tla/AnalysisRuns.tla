---------------------------- MODULE AnalysisRuns ----------------------------
(***************************************************************************)
(* The AI analysis of one uploaded log (internal/panel/httpapi/logshare.go *)
(* and analysis_runs.go): a run consumes the provider's stream in the      *)
(* background, any number of pages follow it, its conclusion is stored and *)
(* answers later pages, and the owner may delete it.                       *)
(*                                                                         *)
(* A log of LogShare is reached by two routes, each with a key of its own  *)
(* in aiRunHub; a log of a self-hosted provider by one, and its text lives *)
(* in memory only (analysisJobs).  An event is named by its position in    *)
(* the stream.  Every critical section of aiRun.mu, aiRunHub.mu and        *)
(* analysisJobsMu and every SQL statement is one action.  The provider is  *)
(* external.  Failing SELECTs and DELETEs are left out, and a panic.       *)
(***************************************************************************)
EXTENDS Integers, Sequences

CONSTANTS Readers,     \* pages that follow the analysis
          Buf,         \* aiSubBuf (2048)
          MaxEvents,   \* bound: events of a run
          MaxOpens     \* bound: requests of pages, hence runs

ASSUME ConstantsAssumption ==
  /\ Buf \in Nat \ {0} /\ MaxEvents \in Nat
  /\ MaxOpens \in Nat

VARIABLES kind,     \* provider_kind of the log
          table,    \* aiRunHub.runs: [Keys -> run], 0: none
          rpc,      \* [Runs -> where the run's goroutine stands]
          rkey,     \* [Runs -> its key]
          events,   \* [Runs -> how many aiRun.events there are]
          answered, \* [Runs -> aiRun.answer is not empty]
          subs,     \* [Runs -> aiRun.subs, as the readers that own a channel]
          rd,       \* [Readers -> the request it is in]
          job,      \* analysisJobs holds the text of the log
          stored,   \* there is a logshare_analyses row
          remote,   \* the provider still has the log
          del,      \* the owner's request: "idle", or the "local" part is due
          told,     \* the owner was answered "deleted"
          opens

hubVars  == <<table, rpc, rkey, events, answered, subs>>
rowVars  == <<job, stored, remote, del, told>>
vars == <<kind, hubVars, rd, rowVars, opens>>

Runs    == 1..MaxOpens
Keys    == {"legacy", "record"}
Idle    == [pc |-> "idle", key |-> "record", run |-> 0, stays |-> TRUE,
            got |-> <<>>, queue |-> <<>>, open |-> FALSE, cut |-> FALSE]
At(c, pc) == rd[c].pc = pc
Closed(r) == rpc[r] \in {"store", "drop", "release", "done"}
\* Runs are numbered in the order of their creation.
Fresh(r) == \A q \in Runs : rpc[q] = "unborn" <=> q >= r

Init ==
  /\ kind \in {"logshare", "openai"}
  /\ table = [k \in Keys |-> 0]
  /\ rpc = [r \in Runs |-> "unborn"] /\ rkey = [r \in Runs |-> "record"]
  /\ events = [r \in Runs |-> 0] /\ answered = [r \in Runs |-> FALSE]
  /\ subs = [r \in Runs |-> {}]
  /\ rd = [c \in Readers |-> Idle]
  /\ job = (kind = "openai") /\ stored = FALSE /\ remote = TRUE /\ del = "idle" /\ told = FALSE
  /\ opens = 0

-----------------------------------------------------------------------------
(* The requests of pages: handleLogShareAI ("legacy"), handleAnalysisAI.   *)

\* A stored conclusion is replayed; without the text a self-hosted provider
\* cannot run again (410); the old route may be over its rate limit (429).
\* takeAnalysisJob and cachedAnalysis make one step: the text is only ever
\* lost, and its conclusion only ever stored, so neither order is missed.
Open(c, k) ==
  /\ At(c, "idle") /\ opens < MaxOpens
  /\ k = "legacy" => kind = "logshare"
  /\ opens' = opens + 1
  /\ \/ /\ ~stored
        /\ kind = "openai" => job
        /\ rd' = [rd EXCEPT ![c] = [@ EXCEPT !.pc = "attach", !.key = k]]
     \/ /\ stored \/ (kind = "openai" /\ ~job) \/ k = "legacy"
        /\ UNCHANGED rd
  /\ UNCHANGED <<kind, hubVars, rowVars>>

\* attemptLogShare starts the analysis of a new record (startAIAnalysis), before
\* any page knows of it, and does not follow it; the old route's upload does not.
Upload(c) ==
  /\ At(c, "idle") /\ kind = "logshare" /\ opens = 0 /\ opens < MaxOpens
  /\ rd' = [rd EXCEPT ![c] = [@ EXCEPT !.pc = "attach", !.stays = FALSE]]
  /\ opens' = opens + 1
  /\ UNCHANGED <<kind, hubVars, rowVars>>

\* A page that has its run follows it.
Attached(c, r) ==
  rd' = [rd EXCEPT ![c] = IF @.stays THEN [@ EXCEPT !.pc = "subscribe", !.run = r] ELSE Idle]

\* aiRunHub.attach: join the run under the key, or list a new one and only
\* then launch its goroutine.
Join(c) ==
  /\ At(c, "attach") /\ table[rd[c].key] # 0
  /\ Attached(c, table[rd[c].key])
  /\ UNCHANGED <<kind, hubVars, rowVars, opens>>
NewRun(c, r) ==
  /\ At(c, "attach") /\ table[rd[c].key] = 0 /\ Fresh(r)
  /\ table' = [table EXCEPT ![rd[c].key] = r]
  /\ rpc' = [rpc EXCEPT ![r] = "listed"] /\ rkey' = [rkey EXCEPT ![r] = rd[c].key]
  /\ rd' = [rd EXCEPT ![c] = [@ EXCEPT !.pc = "launch", !.run = r]]
  /\ UNCHANGED <<kind, events, answered, subs, rowVars, opens>>
Launch(c) ==
  /\ At(c, "launch")
  /\ rpc' = [rpc EXCEPT ![rd[c].run] = "stream"]
  /\ Attached(c, rd[c].run)
  /\ UNCHANGED <<kind, table, rkey, events, answered, subs, rowVars, opens>>

\* The backlog and a channel for the rest, taken together; of a closed run the
\* backlog is all there is.
Subscribe(c) ==
  /\ At(c, "subscribe")
  /\ LET r == rd[c].run IN
     /\ rd' = [rd EXCEPT ![c] = [@ EXCEPT !.pc = "follow", !.open = ~Closed(r),
                                          !.got = [i \in 1..events[r] |-> i]]]
     /\ subs' = [subs EXCEPT ![r] = IF Closed(r) THEN @ ELSE @ \cup {c}]
  /\ UNCHANGED <<kind, table, rpc, rkey, events, answered, rowVars, opens>>

Receive(c) ==
  /\ At(c, "follow") /\ rd[c].queue # <<>>
  /\ LET q == rd[c] IN
       rd' = [rd EXCEPT ![c] = [q EXCEPT !.got = Append(q.got, Head(q.queue)), !.queue = Tail(q.queue)]]
  /\ UNCHANGED <<kind, hubVars, rowVars, opens>>

\* The channel is closed and drained, or the browser went away at any time;
\* the deferred detach closes a channel only if it is still subscribed.
Detach(c) ==
  /\ rd' = [rd EXCEPT ![c] = Idle]
  /\ subs' = [subs EXCEPT ![rd[c].run] = @ \ {c}]
  /\ UNCHANGED <<kind, table, rpc, rkey, events, answered, rowVars, opens>>
StreamEnds(c) == At(c, "follow") /\ rd[c].queue = <<>> /\ ~rd[c].open /\ Detach(c)
Leave_KeepsChannel(c) ==
  /\ At(c, "follow")
  /\ rd' = [rd EXCEPT ![c] = Idle]
  /\ UNCHANGED <<kind, hubVars, rowVars, opens>>
Leave(c) == At(c, "follow") /\ Detach(c)

-----------------------------------------------------------------------------
(* The goroutine of a run: runAIRun, runOpenAIRun.                         *)

\* accept, acceptText, push: note the event and offer it to every subscriber;
\* one whose channel is full is disconnected.
Full(c) == Len(rd[c].queue) = Buf
Offer_DropsEvent(r) ==
  /\ rd' = [c \in Readers |->
              IF c \notin subs[r] \/ Full(c) THEN rd[c]
              ELSE [rd[c] EXCEPT !.queue = Append(@, events[r] + 1)]]
  /\ subs' = subs
Offer(r) ==
  /\ rd' = [c \in Readers |->
              IF c \notin subs[r] THEN rd[c]
              ELSE IF Full(c) THEN [rd[c] EXCEPT !.open = FALSE, !.cut = TRUE]
              ELSE [rd[c] EXCEPT !.queue = Append(@, events[r] + 1)]]
  /\ subs' = [subs EXCEPT ![r] = {c \in @ : ~Full(c)}]

\* "other": thinking, status and error events, which are not in the conclusion.
\* A provider that lost the log sends no more content than it has begun to.
Event(r, e) ==
  /\ rpc[r] = "stream" /\ events[r] < MaxEvents
  /\ e = "content" => remote \/ answered[r]
  /\ Offer(r)
  /\ events' = [events EXCEPT ![r] = @ + 1]
  /\ answered' = [answered EXCEPT ![r] = @ \/ e = "content"]
  /\ UNCHANGED <<kind, table, rpc, rkey, rowVars, opens>>

Goto(r, pc) == rpc' = [rpc EXCEPT ![r] = pc]

\* The stream ended or failed, or the run's own deadline passed.
Finish_KeepsChannels(r) ==
  /\ rpc[r] = "stream" /\ Goto(r, "store")
  /\ UNCHANGED <<kind, table, rkey, events, answered, subs, rd, rowVars, opens>>
Finish(r) ==
  /\ rpc[r] = "stream" /\ Goto(r, "store")
  /\ rd' = [c \in Readers |-> IF c \in subs[r] THEN [rd[c] EXCEPT !.open = FALSE] ELSE rd[c]]
  /\ subs' = [subs EXCEPT ![r] = {}]
  /\ UNCHANGED <<kind, table, rkey, events, answered, rowVars, opens>>

\* The INSERT ... ON CONFLICT DO UPDATE; it may fail, which is only logged.
Store(r) ==
  /\ rpc[r] = "store" /\ Goto(r, IF kind = "openai" THEN "drop" ELSE "release")
  /\ \/ stored' = stored
     \/ answered[r] /\ stored' = TRUE
  /\ UNCHANGED <<kind, table, rkey, events, answered, subs, rd, job, remote, del, told, opens>>

DropJob(r) ==
  /\ rpc[r] = "drop" /\ Goto(r, "release")
  /\ job' = FALSE
  /\ UNCHANGED <<kind, table, rkey, events, answered, subs, rd, stored, remote, del, told, opens>>

Release(r) ==
  /\ rpc[r] = "release" /\ Goto(r, "done")
  /\ table' = [table EXCEPT ![rkey[r]] = IF @ = r THEN 0 ELSE @]
  /\ UNCHANGED <<kind, rkey, events, answered, subs, rd, rowVars, opens>>

-----------------------------------------------------------------------------
(* Deleting, expiry and restart.                                           *)

\* The provider's copy first, then the rows.  There is nothing to delete at a
\* self-hosted provider, and the request is refused.
DeleteRemote ==
  /\ kind = "logshare" /\ remote /\ del = "idle"
  /\ remote' = FALSE /\ del' = "local"
  /\ UNCHANGED <<kind, hubVars, rd, job, stored, told, opens>>
DeleteLocal ==
  /\ del = "local"
  /\ stored' = FALSE /\ told' = TRUE /\ del' = "idle"
  /\ UNCHANGED <<kind, hubVars, rd, job, remote, opens>>

\* putAnalysisJob for another log forgets texts older than half an hour.
JobExpires ==
  /\ job /\ job' = FALSE
  /\ UNCHANGED <<kind, hubVars, rd, stored, remote, del, told, opens>>

\* Runs, pages and texts are memory of the process; the rows remain.
PanelRestarts ==
  /\ table' = [k \in Keys |-> 0]
  /\ rpc' = [r \in Runs |-> IF rpc[r] = "unborn" THEN "unborn" ELSE "done"]
  /\ rkey' = [r \in Runs |-> "record"] /\ subs' = [r \in Runs |-> {}]
  /\ events' = [r \in Runs |-> 0] /\ answered' = [r \in Runs |-> FALSE]
  /\ rd' = [c \in Readers |-> Idle]
  /\ job' = FALSE /\ del' = "idle"
  /\ UNCHANGED <<kind, stored, remote, told, opens>>

-----------------------------------------------------------------------------
ReaderStep(c) ==
  \/ Join(c) \/ (\E r \in Runs : NewRun(c, r))
  \/ Launch(c) \/ Subscribe(c) \/ Receive(c) \/ StreamEnds(c)
RunStep(r) == Finish(r) \/ Store(r) \/ DropJob(r) \/ Release(r)

Next ==
  \/ \E c \in Readers : ReaderStep(c) \/ Leave(c) \/ Upload(c) \/ \E k \in Keys : Open(c, k)
  \/ \E r \in Runs : RunStep(r) \/ \E e \in {"content", "other"} : Event(r, e)
  \/ DeleteRemote \/ DeleteLocal \/ JobExpires \/ PanelRestarts

Spec == Init /\ [][Next]_vars

\* Handlers and goroutines are scheduled; a stream has a deadline of its own.
\* The provider need not send anything, and pages need not leave.
Fairness ==
  /\ \A c \in Readers : WF_vars(ReaderStep(c))
  /\ \A r \in Runs : WF_vars(RunStep(r))
FairSpec == Spec /\ Fairness

-----------------------------------------------------------------------------
(* Properties.                                                             *)

ReaderPCs == {"idle", "attach", "launch", "subscribe", "follow"}
Requests == [pc : ReaderPCs, key : Keys, run : 0..MaxOpens, stays : BOOLEAN,
             got : Seq(Nat), queue : Seq(Nat), open : BOOLEAN, cut : BOOLEAN]

\* Every variable keeps its type, and no channel holds more than its capacity.
TypeOK ==
  /\ kind \in {"logshare", "openai"}
  /\ table \in [Keys -> 0..MaxOpens]
  /\ rpc \in [Runs -> {"unborn", "listed", "stream", "store", "drop",
                       "release", "done"}]
  /\ rkey \in [Runs -> Keys]
  /\ events \in [Runs -> 0..MaxEvents] /\ answered \in [Runs -> BOOLEAN]
  /\ subs \in [Runs -> SUBSET Readers]
  /\ rd \in [Readers -> Requests]
  /\ \A c \in Readers : Len(rd[c].queue) <= Buf
  /\ job \in BOOLEAN /\ stored \in BOOLEAN
  /\ remote \in BOOLEAN /\ del \in {"idle", "local"} /\ told \in BOOLEAN
  /\ opens \in 0..MaxOpens

\* What a page was handed, and what waits in its channel, is the stream from
\* its first event without gap or repetition; unless it was cut off for being
\* slow that is all of it so far, and its channel is closed only when the run is.
ReadersMissNothing ==
  \A c \in Readers : At(c, "follow") =>
    LET r == rd[c].run
        n == Len(rd[c].got)
    IN /\ \A i \in 1..n : rd[c].got[i] = i
       /\ \A i \in 1..Len(rd[c].queue) : rd[c].queue[i] = n + i
       /\ ~rd[c].cut => n + Len(rd[c].queue) = events[r]
       /\ ~rd[c].cut /\ ~rd[c].open => Closed(r)

\* The channels in a run's table are open, and each belongs to a request that
\* still follows this run: none is closed twice or sent to after it was closed,
\* and none is left behind by a page that went away.
SubscribersAreFollowing ==
  \A r \in Runs, c \in Readers :
    c \in subs[r] <=> At(c, "follow") /\ rd[c].run = r /\ rd[c].open

\* The hub lists exactly the runs whose goroutine is to start or has not ended:
\* no two of one key consume the provider at once, and no page joins a dead one.
HubListsLiveRuns ==
  \A r \in Runs :
    rpc[r] \notin {"unborn", "done"} <=> \E k \in Keys : table[k] = r /\ rkey[r] = k

\* The hub agrees with the goroutines: with the runs that live, and with the readers
\* that follow them.
HubAgrees == SubscribersAreFollowing /\ HubListsLiveRuns

\* A page that follows a run, or is on its way to, is answered to the end.
ReaderIsAnswered == \A c \in Readers : ~At(c, "idle") ~> At(c, "idle")

\* logshare.go:685-688: the conclusion in the panel is deleted together with the
\* provider's copy, else the deletion is only half done.
DeletedStaysDeleted == told => ~stored
=============================================================================
