------------------------- MODULE AnalysisRunsProofs -------------------------
(***************************************************************************)
(* Theorems about AnalysisRuns, for any number of pages, requests and      *)
(* events and any capacity of a channel.                                   *)
(***************************************************************************)
EXTENDS AnalysisRuns, TLAPS

(* The inductive invariant.                                                *)

\* A request q of which n events have happened has or will be handed them in
\* order, all of them unless it was cut off.
Intact(q, n) ==
  /\ \A i \in 1..Len(q.got) : q.got[i] = i
  /\ \A i \in 1..Len(q.queue) : q.queue[i] = Len(q.got) + i
  /\ ~q.cut => Len(q.got) + Len(q.queue) = n

StreamFacts == \A c \in Readers : At(c, "follow") => Intact(rd[c], events[rd[c].run])

\* Its channel is open only while the run is, and closed once it was cut off.
FollowFacts ==
  /\ \A c \in Readers : At(c, "subscribe") \/ At(c, "follow") =>
       rd[c].run \in Runs /\ rpc[rd[c].run] # "unborn"
  /\ \A c \in Readers : At(c, "follow") /\ rd[c].open => ~Closed(rd[c].run) /\ ~rd[c].cut
  /\ \A c \in Readers : At(c, "follow") /\ ~rd[c].open /\ ~rd[c].cut => Closed(rd[c].run)

\* Before it follows, a page has no channel.
ChannelFacts ==
  \A c \in Readers : ~At(c, "follow") =>
    rd[c].queue = <<>> /\ ~rd[c].cut /\ ~rd[c].open

\* Who launches a run is alone with it, and the run has not started.
LaunchFacts ==
  /\ \A c \in Readers : At(c, "launch") =>
       rd[c].run \in Runs /\ rpc[rd[c].run] = "listed"
  /\ \A c, d \in Readers :
       At(c, "launch") /\ At(d, "launch") /\ rd[c].run = rd[d].run => c = d

\* A run filed under a key has that key.
FiledUnderItsKey == \A k \in Keys : table[k] # 0 => rkey[table[k]] = k

IInv ==
  /\ TypeOK /\ StreamFacts /\ FollowFacts /\ ChannelFacts /\ SubscribersAreFollowing
  /\ LaunchFacts /\ FiledUnderItsKey /\ HubListsLiveRuns

LEMMA MissNothing ==
  ASSUME TypeOK, StreamFacts, FollowFacts
  PROVE  ReadersMissNothing
<1> SUFFICES ASSUME NEW c \in Readers, At(c, "follow")
             PROVE  /\ Intact(rd[c], events[rd[c].run])
                    /\ ~rd[c].cut /\ ~rd[c].open => Closed(rd[c].run)
  BY DEF ReadersMissNothing, Intact
<1> QED BY DEF StreamFacts, FollowFacts

-----------------------------------------------------------------------------
(* What a step of one request leaves alone.                                *)

RequestsTyped ==
  /\ rd \in [Readers -> Requests]
  /\ \A c \in Readers : Len(rd[c].queue) <= Buf

LEMMA OneMoves ==
  ASSUME RequestsTyped, NEW c \in Readers, NEW q \in Requests, Len(q.queue) <= Buf,
         rd' = [rd EXCEPT ![c] = q]
  PROVE  /\ RequestsTyped'
         /\ rd'[c] = q
         /\ \A d \in Readers : d # c => rd'[d] = rd[d]
BY DEF RequestsTyped

LEMMA IdleIsRequest ==
  /\ Idle \in Requests /\ Idle.pc = "idle" /\ Idle.queue = <<>> /\ Len(Idle.queue) = 0
  /\ Idle.cut = FALSE /\ Idle.open = FALSE
BY ConstantsAssumption DEF Idle, Requests, ReaderPCs, Keys

\* A request that does not follow a run, before or after.
LEMMA QuietMove ==
  ASSUME IInv, NEW c \in Readers, NEW q \in Requests, rd' = [rd EXCEPT ![c] = q],
         ~At(c, "follow"), q.pc # "follow", q.queue = <<>>, ~q.cut, ~q.open,
         subs' = subs, events' = events,
         \A r \in Runs : (Closed(r)' <=> Closed(r)) /\ (rpc[r] # "unborn" => rpc'[r] # "unborn"),
         q.pc = "subscribe" => q.run \in Runs /\ rpc'[q.run] # "unborn"
  PROVE  /\ RequestsTyped' /\ StreamFacts' /\ FollowFacts' /\ ChannelFacts'
         /\ SubscribersAreFollowing'
<1>1. RequestsTyped
  BY DEF IInv, TypeOK, RequestsTyped
<1>2. /\ RequestsTyped' /\ rd'[c] = q
      /\ \A d \in Readers : d # c => rd'[d] = rd[d]
  <2>1. Len(q.queue) <= Buf
    BY ConstantsAssumption
  <2> QED BY <1>1, <2>1, OneMoves
<1>3. \A d \in Readers : At(d, "follow")' => d # c /\ rd'[d] = rd[d] /\ At(d, "follow")
  BY <1>2 DEF At
<1>4. StreamFacts'
  BY <1>3 DEF IInv, StreamFacts
<1>5. FollowFacts'
  <2>1. \A d \in Readers : At(d, "subscribe")' \/ At(d, "follow")' =>
          rd'[d].run \in Runs /\ rpc'[rd'[d].run] # "unborn"
    BY <1>2 DEF IInv, FollowFacts, At
  <2>2. \A d \in Readers : At(d, "follow")' =>
          rd'[d].run \in Runs /\ (Closed(rd[d].run)' <=> Closed(rd[d].run))
    BY <1>3 DEF IInv, FollowFacts
  <2>3. \A d \in Readers : At(d, "follow")' =>
          /\ rd'[d].open => ~Closed(rd[d].run)' /\ ~rd'[d].cut
          /\ ~rd'[d].open /\ ~rd'[d].cut => Closed(rd[d].run)'
    BY <1>3, <2>2 DEF IInv, FollowFacts
  <2> QED BY <1>3, <2>1, <2>3 DEF FollowFacts, Runs, Closed
<1>6. ChannelFacts'
  BY <1>2 DEF IInv, ChannelFacts, At
<1>7. SubscribersAreFollowing'
  BY <1>2 DEF IInv, SubscribersAreFollowing, At, Runs
<1> QED BY <1>2, <1>4, <1>5, <1>6, <1>7
-----------------------------------------------------------------------------
(* Requests that come to their run.                                        *)

LEMMA OpenKeeps ==
  ASSUME IInv, NEW c \in Readers, NEW k \in Keys, Open(c, k)
  PROVE  IInv'
<1>1. PICK q \in Requests :
        /\ q.pc \in {"idle", "attach"} /\ q.queue = <<>> /\ ~q.cut /\ ~q.open
        /\ rd' = [rd EXCEPT ![c] = q]
  <2>1. rd[c] \in Requests /\ rd[c].queue = <<>> /\ ~rd[c].cut /\ ~rd[c].open
    BY DEF IInv, TypeOK, ChannelFacts, Open, At
  <2>2. CASE rd' = rd
    <3>1. rd' = [rd EXCEPT ![c] = rd[c]]
      BY <2>2 DEF IInv, TypeOK
    <3> QED BY <2>1, <3>1 DEF Open, At
  <2>3. CASE rd' = [rd EXCEPT ![c] = [@ EXCEPT !.pc = "attach", !.key = k]]
    <3> DEFINE q == [rd[c] EXCEPT !.pc = "attach", !.key = k]
    <3>1. q \in Requests /\ q.pc = "attach" /\ q.queue = rd[c].queue
          /\ q.cut = rd[c].cut /\ q.open = rd[c].open
      BY <2>1 DEF Requests, ReaderPCs
    <3>2. rd' = [rd EXCEPT ![c] = q]
      BY <2>3
    <3> QED BY <2>1, <3>1, <3>2
  <2> QED BY <2>2, <2>3 DEF Open
<1>2. /\ UNCHANGED <<kind, table, rpc, rkey, events, answered, subs, job, stored, remote, del, told>>
      /\ opens' \in 0..MaxOpens /\ At(c, "idle")
  BY ConstantsAssumption DEF IInv, TypeOK, Open, hubVars, rowVars
<1>3. /\ RequestsTyped' /\ StreamFacts' /\ FollowFacts' /\ ChannelFacts'
      /\ SubscribersAreFollowing'
  BY <1>1, <1>2, QuietMove DEF At, Closed
<1>4. TypeOK'
  BY <1>2, <1>3 DEF IInv, TypeOK, RequestsTyped
<1>5. LaunchFacts'
  BY <1>1, <1>2 DEF IInv, TypeOK, LaunchFacts, At
<1>6. FiledUnderItsKey' /\ HubListsLiveRuns'
  BY <1>2 DEF IInv, FiledUnderItsKey, HubListsLiveRuns
<1> QED BY <1>3, <1>4, <1>5, <1>6 DEF IInv

LEMMA UploadKeeps ==
  ASSUME IInv, NEW c \in Readers, Upload(c)
  PROVE  IInv'
<1> DEFINE q == [rd[c] EXCEPT !.pc = "attach", !.stays = FALSE]
<1>1. /\ q \in Requests /\ q.pc = "attach" /\ q.queue = <<>> /\ ~q.cut /\ ~q.open
      /\ rd' = [rd EXCEPT ![c] = q]
  <2>1. rd[c] \in Requests /\ rd[c].queue = <<>> /\ ~rd[c].cut /\ ~rd[c].open
    BY DEF IInv, TypeOK, ChannelFacts, Upload, At
  <2>2. q \in Requests /\ q.pc = "attach" /\ q.queue = rd[c].queue
        /\ q.cut = rd[c].cut /\ q.open = rd[c].open
    BY <2>1 DEF Requests, ReaderPCs
  <2>3. rd' = [rd EXCEPT ![c] = q]
    BY DEF Upload
  <2> QED BY <2>1, <2>2, <2>3
<1>2. /\ UNCHANGED <<kind, table, rpc, rkey, events, answered, subs, job, stored, remote, del, told>>
      /\ opens' \in 0..MaxOpens /\ At(c, "idle")
  BY ConstantsAssumption DEF IInv, TypeOK, Upload, hubVars, rowVars
<1> HIDE DEF q
<1>3. /\ RequestsTyped' /\ StreamFacts' /\ FollowFacts' /\ ChannelFacts'
      /\ SubscribersAreFollowing'
  BY <1>1, <1>2, QuietMove DEF At, Closed
<1>4. TypeOK'
  BY <1>2, <1>3 DEF IInv, TypeOK, RequestsTyped
<1>5. LaunchFacts'
  BY <1>1, <1>2 DEF IInv, TypeOK, LaunchFacts, At
<1>6. FiledUnderItsKey' /\ HubListsLiveRuns'
  BY <1>2 DEF IInv, FiledUnderItsKey, HubListsLiveRuns
<1> QED BY <1>3, <1>4, <1>5, <1>6 DEF IInv

LEMMA AttachedEffect ==
  ASSUME IInv, NEW c \in Readers, NEW r \in Runs, ~At(c, "follow"), Attached(c, r)
  PROVE  \E q \in Requests :
           /\ q.pc \in {"idle", "subscribe"} /\ q.queue = <<>> /\ ~q.cut /\ ~q.open
           /\ q.pc = "subscribe" => q.run = r
           /\ rd' = [rd EXCEPT ![c] = q]
<1> DEFINE q == [rd[c] EXCEPT !.pc = "subscribe", !.run = r]
<1>1. rd[c] \in Requests /\ rd[c].queue = <<>> /\ ~rd[c].cut /\ ~rd[c].open
  BY DEF IInv, TypeOK, ChannelFacts
<1>2. q \in Requests /\ q.pc = "subscribe" /\ q.queue = rd[c].queue /\ q.run = r
      /\ q.cut = rd[c].cut /\ q.open = rd[c].open
  <2>1. r \in 0..MaxOpens
    BY ConstantsAssumption DEF Runs
  <2> QED BY <1>1, <2>1 DEF Requests, ReaderPCs
<1>3. rd' = [rd EXCEPT ![c] = IF rd[c].stays THEN q ELSE Idle]
  BY DEF Attached
<1>4. CASE rd[c].stays
  BY <1>1, <1>2, <1>3, <1>4
<1>5. CASE ~rd[c].stays
  BY <1>3, <1>5, IdleIsRequest
<1> QED BY <1>4, <1>5

LEMMA JoinKeeps ==
  ASSUME IInv, NEW c \in Readers, Join(c)
  PROVE  IInv'
<1> DEFINE r == table[rd[c].key]
<1>1. /\ UNCHANGED <<kind, table, rpc, rkey, events, answered, subs, job, stored, remote, del, told, opens>>
      /\ At(c, "attach") /\ Attached(c, r) /\ r # 0
  BY DEF Join, hubVars, rowVars
<1>2. rd[c].key \in Keys
  BY DEF IInv, TypeOK, Requests
<1>3. r \in Runs /\ rpc[r] # "unborn"
  <2>1. r \in Runs
    BY <1>1, <1>2, ConstantsAssumption DEF IInv, TypeOK, Runs
  <2>2. rkey[r] = rd[c].key
    BY <1>1, <1>2 DEF IInv, FiledUnderItsKey
  <2> QED BY <1>2, <2>1, <2>2 DEF IInv, HubListsLiveRuns
<1> HIDE DEF r
<1>4. PICK q \in Requests :
        /\ q.pc \in {"idle", "subscribe"} /\ q.queue = <<>> /\ ~q.cut /\ ~q.open
        /\ q.pc = "subscribe" => q.run = r
        /\ rd' = [rd EXCEPT ![c] = q]
  BY <1>1, <1>3, AttachedEffect DEF At
<1>5. /\ RequestsTyped' /\ StreamFacts' /\ FollowFacts' /\ ChannelFacts'
      /\ SubscribersAreFollowing'
  BY <1>1, <1>3, <1>4, QuietMove DEF At, Closed
<1>6. TypeOK'
  BY <1>1, <1>5 DEF IInv, TypeOK, RequestsTyped
<1>7. LaunchFacts'
  BY <1>1, <1>4 DEF IInv, TypeOK, LaunchFacts, At
<1>8. FiledUnderItsKey' /\ HubListsLiveRuns'
  BY <1>1 DEF IInv, FiledUnderItsKey, HubListsLiveRuns
<1> QED BY <1>5, <1>6, <1>7, <1>8 DEF IInv

LEMMA NewRunKeeps ==
  ASSUME IInv, NEW c \in Readers, NEW r \in Runs, NewRun(c, r)
  PROVE  IInv'
<1> DEFINE q == [rd[c] EXCEPT !.pc = "launch", !.run = r]
           k == rd[c].key
<1>1. /\ UNCHANGED <<kind, events, answered, subs, job, stored, remote, del, told, opens>>
      /\ table' = [table EXCEPT ![k] = r] /\ rpc' = [rpc EXCEPT ![r] = "listed"]
      /\ rkey' = [rkey EXCEPT ![r] = k] /\ rd' = [rd EXCEPT ![c] = q]
      /\ At(c, "attach") /\ table[k] = 0
  BY DEF NewRun, rowVars
<1>2. rpc[r] = "unborn"
  BY DEF NewRun, Fresh, Runs
<1>3. rd[c] \in Requests /\ rd[c].queue = <<>> /\ ~rd[c].cut /\ ~rd[c].open
  BY <1>1 DEF IInv, TypeOK, ChannelFacts, At
<1>4. /\ q \in Requests /\ q.pc = "launch" /\ q.run = r /\ q.queue = <<>> /\ ~q.cut /\ ~q.open
  <2>1. r \in 0..MaxOpens
    BY ConstantsAssumption DEF Runs
  <2>2. q \in Requests /\ q.pc = "launch" /\ q.run = r /\ q.queue = rd[c].queue
        /\ q.cut = rd[c].cut /\ q.open = rd[c].open
    BY <1>3, <2>1 DEF Requests, ReaderPCs
  <2> QED BY <1>3, <2>2
<1>5. k \in Keys
  BY <1>3 DEF Requests
<1> HIDE DEF q, k
<1>6. \A p \in Runs : (Closed(p)' <=> Closed(p)) /\ (rpc[p] # "unborn" => rpc'[p] # "unborn")
  BY <1>1, <1>2 DEF IInv, TypeOK, Closed
<1>7. /\ RequestsTyped' /\ StreamFacts' /\ FollowFacts' /\ ChannelFacts'
      /\ SubscribersAreFollowing'
  BY <1>1, <1>4, <1>6, QuietMove DEF At
<1>8. TypeOK'
  BY <1>1, <1>5, <1>7, ConstantsAssumption DEF IInv, TypeOK, RequestsTyped, Runs
<1>9. LaunchFacts'
  BY <1>1, <1>2, <1>4 DEF IInv, TypeOK, LaunchFacts, At
<1>10. \A j \in Keys : table[j] # r
  BY <1>2, ConstantsAssumption DEF IInv, FiledUnderItsKey, HubListsLiveRuns, Runs
<1>11. FiledUnderItsKey'
  BY <1>1, <1>5, <1>10 DEF IInv, TypeOK, FiledUnderItsKey, Runs
<1>12. HubListsLiveRuns'
  BY <1>1, <1>5, <1>10, ConstantsAssumption DEF IInv, TypeOK, HubListsLiveRuns, Runs
<1> QED BY <1>7, <1>8, <1>9, <1>11, <1>12 DEF IInv

LEMMA LaunchKeeps ==
  ASSUME IInv, NEW c \in Readers, Launch(c)
  PROVE  IInv'
<1> DEFINE r == rd[c].run
<1>1. /\ UNCHANGED <<kind, table, rkey, events, answered, subs, job, stored, remote, del, told, opens>>
      /\ At(c, "launch") /\ Attached(c, r) /\ rpc' = [rpc EXCEPT ![r] = "stream"]
  BY DEF Launch, rowVars
<1>2. r \in Runs /\ rpc[r] = "listed"
  BY <1>1 DEF IInv, LaunchFacts
<1> HIDE DEF r
<1>3. PICK q \in Requests :
        /\ q.pc \in {"idle", "subscribe"} /\ q.queue = <<>> /\ ~q.cut /\ ~q.open
        /\ q.pc = "subscribe" => q.run = r
        /\ rd' = [rd EXCEPT ![c] = q]
  BY <1>1, <1>2, AttachedEffect DEF At
<1>4. \A p \in Runs : (Closed(p)' <=> Closed(p)) /\ (rpc[p] # "unborn" => rpc'[p] # "unborn")
  BY <1>1, <1>2 DEF IInv, TypeOK, Closed
<1>5. rpc'[r] = "stream"
  BY <1>1, <1>2 DEF IInv, TypeOK
<1>6. /\ RequestsTyped' /\ StreamFacts' /\ FollowFacts' /\ ChannelFacts'
      /\ SubscribersAreFollowing'
  BY <1>1, <1>2, <1>3, <1>4, <1>5, QuietMove DEF At
<1>7. TypeOK'
  BY <1>1, <1>6 DEF IInv, TypeOK, RequestsTyped
<1>8. LaunchFacts'
  <2>1. \A d \in Readers : At(d, "launch")' => d # c /\ At(d, "launch") /\ rd'[d] = rd[d]
    BY <1>3 DEF IInv, TypeOK, At
  <2>2. \A d \in Readers : d # c /\ At(d, "launch") => rd[d].run \in Runs /\ rd[d].run # r
    BY <1>1 DEF IInv, LaunchFacts, r
  <2> QED BY <1>1, <2>1, <2>2 DEF IInv, TypeOK, LaunchFacts
<1>9. FiledUnderItsKey' /\ HubListsLiveRuns'
  BY <1>1, <1>2 DEF IInv, TypeOK, FiledUnderItsKey, HubListsLiveRuns
<1> QED BY <1>6, <1>7, <1>8, <1>9 DEF IInv
-----------------------------------------------------------------------------
(* Requests that follow a run.                                             *)

LEMMA SubscribeKeeps ==
  ASSUME IInv, NEW c \in Readers, Subscribe(c)
  PROVE  IInv'
<1> DEFINE r == rd[c].run
           got == [i \in 1..events[r] |-> i]
           q == [rd[c] EXCEPT !.pc = "follow", !.open = ~Closed(r), !.got = got]
<1>1. /\ UNCHANGED <<kind, table, rpc, rkey, events, answered, job, stored, remote, del, told, opens>>
      /\ At(c, "subscribe") /\ rd' = [rd EXCEPT ![c] = q]
      /\ subs' = [subs EXCEPT ![r] = IF Closed(r) THEN @ ELSE @ \cup {c}]
  BY DEF Subscribe, rowVars
<1>2. r \in Runs /\ rpc[r] # "unborn"
  BY <1>1 DEF IInv, FollowFacts
<1>3. rd[c] \in Requests /\ rd[c].queue = <<>> /\ ~rd[c].cut /\ ~rd[c].open
  BY <1>1 DEF IInv, TypeOK, ChannelFacts, At
<1>4. events[r] \in Nat
  BY <1>2, ConstantsAssumption DEF IInv, TypeOK
<1>5. got \in Seq(Nat) /\ Len(got) = events[r] /\ \A i \in 1..Len(got) : got[i] = i
  BY <1>4
<1> HIDE DEF got
<1>6. Closed(r) \in BOOLEAN
  BY DEF Closed
<1>7. /\ q \in Requests /\ q.pc = "follow" /\ q.queue = <<>> /\ q.cut = FALSE
      /\ q.open = ~Closed(r) /\ q.got = got /\ q.run = r
  BY <1>3, <1>5, <1>6 DEF Requests, ReaderPCs
<1> HIDE DEF q, r
<1>8. /\ RequestsTyped' /\ rd'[c] = q
      /\ \A d \in Readers : d # c => rd'[d] = rd[d]
  <2>1. Len(q.queue) <= Buf
    BY <1>7, ConstantsAssumption
  <2> QED BY <1>1, <1>7, <2>1, OneMoves DEF IInv, TypeOK, RequestsTyped
<1>9. TypeOK'
  BY <1>1, <1>2, <1>8 DEF IInv, TypeOK, RequestsTyped
<1>10. StreamFacts'
  <2>1. Intact(q, events[r])
    BY <1>4, <1>5, <1>7 DEF Intact
  <2> QED BY <1>1, <1>7, <1>8, <2>1 DEF IInv, StreamFacts, At
<1>11. FollowFacts'
  <2>1. At(c, "follow")' /\ ~At(c, "subscribe")'
    BY <1>7, <1>8 DEF At
  <2>2. rd'[c].run \in Runs /\ rpc'[rd'[c].run] # "unborn" /\ ~rd'[c].cut
        /\ rd'[c].open = ~Closed(r)
    BY <1>1, <1>2, <1>7, <1>8
  <2>3. rd'[c].run = r
    BY <1>7, <1>8
  <2>4. ASSUME NEW d \in Readers \ {c}
        PROVE  (/\ At(d, "subscribe") \/ At(d, "follow") =>
                     rd[d].run \in Runs /\ rpc[rd[d].run] # "unborn"
                /\ At(d, "follow") /\ rd[d].open => ~Closed(rd[d].run) /\ ~rd[d].cut
                /\ At(d, "follow") /\ ~rd[d].open /\ ~rd[d].cut => Closed(rd[d].run))'
    <3>1. rd'[d] = rd[d] /\ rpc' = rpc
      BY <1>1, <1>8
    <3> QED BY <3>1 DEF IInv, FollowFacts, At, Closed
  <2>5. Closed(rd[c].run)' <=> Closed(r)
    BY <1>1, <2>3 DEF Closed
  <2>6. (/\ At(c, "subscribe") \/ At(c, "follow") =>
              rd[c].run \in Runs /\ rpc[rd[c].run] # "unborn"
         /\ At(c, "follow") /\ rd[c].open => ~Closed(rd[c].run) /\ ~rd[c].cut
         /\ At(c, "follow") /\ ~rd[c].open /\ ~rd[c].cut => Closed(rd[c].run))'
    BY <2>1, <2>2, <2>5
  <2> QED BY <2>4, <2>6 DEF FollowFacts
<1>12. ChannelFacts'
  BY <1>7, <1>8 DEF IInv, ChannelFacts, At
<1>13. SubscribersAreFollowing'
  <2>1. \A p \in Runs : c \notin subs[p]
    BY <1>1 DEF IInv, SubscribersAreFollowing, At
  <2>2. \A p \in Runs, d \in Readers : d # c => (d \in subs'[p] <=> d \in subs[p])
    BY <1>1, <1>2 DEF IInv, TypeOK
  <2>3. \A p \in Runs : c \in subs'[p] <=> p = r /\ ~Closed(r)
    BY <1>1, <1>2, <2>1 DEF IInv, TypeOK
  <2>4. \A p \in Runs : c \in subs'[p] <=> At(c, "follow")' /\ rd'[c].run = p /\ rd'[c].open
    BY <1>7, <1>8, <2>3 DEF At
  <2>5. \A p \in Runs, d \in Readers : d # c =>
          (d \in subs'[p] <=> At(d, "follow")' /\ rd'[d].run = p /\ rd'[d].open)
    BY <1>8, <2>2 DEF IInv, SubscribersAreFollowing, At
  <2> QED BY <2>4, <2>5 DEF SubscribersAreFollowing
<1>14. LaunchFacts'
  BY <1>1, <1>7, <1>8 DEF IInv, LaunchFacts, At
<1>15. FiledUnderItsKey' /\ HubListsLiveRuns'
  BY <1>1 DEF IInv, FiledUnderItsKey, HubListsLiveRuns
<1> QED BY <1>9, <1>10, <1>11, <1>12, <1>13, <1>14, <1>15 DEF IInv

\* Taking the head of the channel.
LEMMA HeadMoves ==
  ASSUME NEW g \in Seq(Nat), NEW w \in Seq(Nat), w # <<>>
  PROVE  /\ Head(w) = w[1] /\ Len(w) >= 1
         /\ Len(Append(g, Head(w))) = Len(g) + 1 /\ Len(Tail(w)) = Len(w) - 1
         /\ \A i \in 1..Len(g) : Append(g, Head(w))[i] = g[i]
         /\ Append(g, Head(w))[Len(g) + 1] = w[1]
         /\ \A i \in 1..(Len(w) - 1) : Tail(w)[i] = w[i + 1]
OBVIOUS

LEMMA HandOver ==
  ASSUME NEW q \in Requests, NEW p \in Requests, NEW n \in Nat, q.queue # <<>>, Intact(q, n),
         p.got = Append(q.got, Head(q.queue)), p.queue = Tail(q.queue), p.cut = q.cut
  PROVE  Intact(p, n)
<1>1. q.got \in Seq(Nat) /\ q.queue \in Seq(Nat)
  BY DEF Requests
<1> DEFINE G == Len(q.got)
           W == Len(q.queue)
<1>2. G \in Nat /\ W \in Nat /\ W >= 1 /\ Len(p.got) = G + 1 /\ Len(p.queue) = W - 1
  BY <1>1, HeadMoves
<1>3. \A i \in 1..Len(p.got) : p.got[i] = i
  <2> SUFFICES ASSUME NEW i \in 1..(G + 1) PROVE p.got[i] = i
    BY <1>2
  <2>1. CASE i = G + 1
    <3>1. p.got[i] = q.queue[1]
      BY <1>1, <2>1, HeadMoves
    <3>2. q.queue[1] = G + 1
      BY <1>2 DEF Intact
    <3> QED BY <2>1, <3>1, <3>2
  <2>2. CASE i # G + 1
    <3>1. i \in 1..G
      BY <1>2, <2>2
    <3>2. p.got[i] = q.got[i]
      BY <1>1, <3>1, HeadMoves
    <3> QED BY <3>1, <3>2 DEF Intact
  <2> QED BY <2>1, <2>2
<1>4. \A i \in 1..Len(p.queue) : p.queue[i] = Len(p.got) + i
  <2> SUFFICES ASSUME NEW i \in 1..(W - 1) PROVE p.queue[i] = G + 1 + i
    BY <1>2
  <2>1. p.queue[i] = q.queue[i + 1]
    BY <1>1, HeadMoves
  <2>2. i + 1 \in 1..W
    BY <1>2
  <2>3. q.queue[i + 1] = G + (i + 1)
    BY <2>2 DEF Intact
  <2>4. G + (i + 1) = G + 1 + i
    <3> HIDE DEF G, W
    <3> QED BY <1>2
  <2> QED BY <2>1, <2>3, <2>4
<1>5. ~p.cut => Len(p.got) + Len(p.queue) = n
  <2> HAVE ~p.cut
  <2>1. G + W = n
    BY DEF Intact
  <2>2. (G + 1) + (W - 1) = G + W
    <3> HIDE DEF G, W
    <3> QED BY <1>2
  <2> QED BY <1>2, <2>1, <2>2
<1> QED BY <1>3, <1>4, <1>5 DEF Intact

LEMMA ReceiveKeeps ==
  ASSUME IInv, NEW c \in Readers, Receive(c)
  PROVE  IInv'
<1> DEFINE q == [rd[c] EXCEPT !.got = Append(rd[c].got, Head(rd[c].queue)), !.queue = Tail(rd[c].queue)]
<1>1. /\ UNCHANGED <<kind, hubVars, rowVars, opens>>
      /\ At(c, "follow") /\ rd[c].queue # <<>> /\ rd' = [rd EXCEPT ![c] = q]
  BY DEF Receive
<1>2. UNCHANGED <<kind, table, rpc, rkey, events, answered, subs, job, stored, remote, del, told, opens>>
  BY <1>1 DEF hubVars, rowVars
<1>3. rd[c] \in Requests /\ rd[c].got \in Seq(Nat) /\ rd[c].queue \in Seq(Nat)
      /\ Len(rd[c].queue) <= Buf
  BY DEF IInv, TypeOK, Requests
<1>4. /\ Append(rd[c].got, Head(rd[c].queue)) \in Seq(Nat)
      /\ Tail(rd[c].queue) \in Seq(Nat) /\ Len(Tail(rd[c].queue)) <= Buf
  <2> DEFINE w == rd[c].queue
  <2>1. w \in Seq(Nat) /\ w # <<>> /\ Len(w) \in Nat /\ Len(w) <= Buf
    BY <1>1, <1>3
  <2>2. rd[c].got \in Seq(Nat)
    BY <1>3
  <2> HIDE DEF w
  <2>3. Head(w) \in Nat /\ Tail(w) \in Seq(Nat) /\ Len(Tail(w)) = Len(w) - 1
    BY <2>1
  <2>4. Len(Tail(w)) <= Buf
    BY <2>1, <2>3, ConstantsAssumption
  <2> QED BY <2>2, <2>3, <2>4 DEF w
<1>5. /\ q \in Requests /\ q.pc = "follow" /\ q.run = rd[c].run
      /\ q.got = Append(rd[c].got, Head(rd[c].queue)) /\ q.queue = Tail(rd[c].queue)
      /\ q.cut = rd[c].cut /\ q.open = rd[c].open
  BY <1>1, <1>3, <1>4 DEF Requests, At
<1> HIDE DEF q
<1>6. /\ RequestsTyped' /\ rd'[c] = q
      /\ \A d \in Readers : d # c => rd'[d] = rd[d]
  <2>1. Len(q.queue) <= Buf
    BY <1>4, <1>5
  <2> QED BY <1>1, <1>5, <2>1, OneMoves DEF IInv, TypeOK, RequestsTyped
<1>7. TypeOK'
  BY <1>2, <1>6 DEF IInv, TypeOK, RequestsTyped
<1>8. StreamFacts'
  <2>1. events[rd[c].run] \in Nat
    BY <1>1, ConstantsAssumption DEF IInv, TypeOK, FollowFacts
  <2>2. Intact(rd[c], events[rd[c].run])
    BY <1>1 DEF IInv, StreamFacts
  <2>3. Intact(q, events[rd[c].run])
    BY <1>1, <1>3, <1>5, <2>1, <2>2, HandOver
  <2> QED BY <1>2, <1>5, <1>6, <2>3 DEF IInv, StreamFacts, At
<1>9. FollowFacts'
  BY <1>1, <1>2, <1>5, <1>6 DEF IInv, FollowFacts, At, Closed
<1>10. ChannelFacts'
  BY <1>5, <1>6 DEF IInv, ChannelFacts, At
<1>11. SubscribersAreFollowing'
  BY <1>1, <1>2, <1>5, <1>6 DEF IInv, SubscribersAreFollowing, At, Runs
<1>12. LaunchFacts'
  BY <1>2, <1>5, <1>6 DEF IInv, LaunchFacts, At
<1>13. FiledUnderItsKey' /\ HubListsLiveRuns'
  BY <1>2 DEF IInv, FiledUnderItsKey, HubListsLiveRuns
<1> QED BY <1>7, <1>8, <1>9, <1>10, <1>11, <1>12, <1>13 DEF IInv

LEMMA DetachKeeps ==
  ASSUME IInv, NEW c \in Readers, At(c, "follow"), Detach(c)
  PROVE  IInv'
<1>1. /\ UNCHANGED <<kind, table, rpc, rkey, events, answered, job, stored, remote, del, told, opens>>
      /\ rd' = [rd EXCEPT ![c] = Idle] /\ subs' = [subs EXCEPT ![rd[c].run] = @ \ {c}]
  BY DEF Detach, rowVars
<1>2. rd[c].run \in Runs
  BY DEF IInv, FollowFacts
<1>3. /\ RequestsTyped' /\ rd'[c] = Idle
      /\ \A d \in Readers : d # c => rd'[d] = rd[d]
  <2>1. Len(Idle.queue) <= Buf
    BY IdleIsRequest, ConstantsAssumption
  <2> QED BY <1>1, <2>1, IdleIsRequest, OneMoves DEF IInv, TypeOK, RequestsTyped
<1>4. TypeOK'
  BY <1>1, <1>2, <1>3 DEF IInv, TypeOK, RequestsTyped
<1>5. \A d \in Readers, pc \in ReaderPCs : pc # "idle" /\ rd'[d].pc = pc => d # c /\ rd'[d] = rd[d]
  BY <1>3, IdleIsRequest
<1>6. StreamFacts'
  BY <1>1, <1>3, <1>5 DEF IInv, StreamFacts, At, ReaderPCs
<1>7. FollowFacts'
  BY <1>1, <1>3, <1>5 DEF IInv, FollowFacts, At, Closed, ReaderPCs
<1>8. ChannelFacts'
  BY <1>3, IdleIsRequest DEF IInv, ChannelFacts, At
<1>9. SubscribersAreFollowing'
  <2>1. \A p \in Runs : c \notin subs'[p]
    BY <1>1, <1>2 DEF IInv, TypeOK, SubscribersAreFollowing, At
  <2>2. \A p \in Runs, d \in Readers : d # c => (d \in subs'[p] <=> d \in subs[p])
    BY <1>1, <1>2 DEF IInv, TypeOK
  <2> QED BY <1>3, <2>1, <2>2, IdleIsRequest DEF IInv, SubscribersAreFollowing, At
<1>10. LaunchFacts'
  BY <1>1, <1>3, IdleIsRequest DEF IInv, LaunchFacts, At
<1>11. FiledUnderItsKey' /\ HubListsLiveRuns'
  BY <1>1 DEF IInv, FiledUnderItsKey, HubListsLiveRuns
<1> QED BY <1>4, <1>6, <1>7, <1>8, <1>9, <1>10, <1>11 DEF IInv
-----------------------------------------------------------------------------
(* The goroutine of a run.                                                 *)

LEMMA OfferEffect ==
  ASSUME IInv, NEW r \in Runs, Offer(r), NEW c \in Readers
  PROVE  /\ rd'[c] \in Requests /\ Len(rd'[c].queue) <= Buf
         /\ rd'[c].pc = rd[c].pc /\ rd'[c].run = rd[c].run /\ rd'[c].got = rd[c].got
         /\ c \notin subs[r] => rd'[c] = rd[c]
         /\ c \in subs[r] /\ Full(c) =>
              rd'[c].queue = rd[c].queue /\ rd'[c].cut = TRUE /\ rd'[c].open = FALSE
         /\ c \in subs[r] /\ ~Full(c) =>
              /\ rd'[c].queue = Append(rd[c].queue, events[r] + 1)
              /\ rd'[c].cut = rd[c].cut /\ rd'[c].open = rd[c].open
<1>1. rd[c] \in Requests /\ rd[c].queue \in Seq(Nat) /\ Len(rd[c].queue) <= Buf
  BY DEF IInv, TypeOK, Requests
<1>2. events[r] + 1 \in Nat
  BY ConstantsAssumption DEF IInv, TypeOK
<1>3. CASE c \notin subs[r]
  BY <1>1, <1>3 DEF Offer
<1>4. CASE c \in subs[r] /\ Full(c)
  <2>1. rd'[c] = [rd[c] EXCEPT !.open = FALSE, !.cut = TRUE]
    BY <1>4 DEF Offer
  <2> QED BY <1>1, <1>4, <2>1 DEF Requests
<1>5. CASE c \in subs[r] /\ ~Full(c)
  <2> DEFINE w == Append(rd[c].queue, events[r] + 1)
  <2>1. rd'[c] = [rd[c] EXCEPT !.queue = w]
    BY <1>5 DEF Offer
  <2>2. w \in Seq(Nat) /\ Len(w) <= Buf
    <3>1. Len(rd[c].queue) \in Nat /\ Len(rd[c].queue) # Buf
      BY <1>1, <1>5 DEF Full
    <3> QED BY <1>1, <1>2, <3>1, ConstantsAssumption
  <2> HIDE DEF w
  <2>3. /\ rd'[c] \in Requests /\ rd'[c].queue = w /\ rd'[c].pc = rd[c].pc
        /\ rd'[c].run = rd[c].run /\ rd'[c].got = rd[c].got
        /\ rd'[c].cut = rd[c].cut /\ rd'[c].open = rd[c].open
    BY <1>1, <2>1, <2>2 DEF Requests
  <2> QED BY <1>5, <2>2, <2>3 DEF w
<1> QED BY <1>3, <1>4, <1>5

LEMMA TailGrows ==
  ASSUME NEW w \in Seq(Nat), NEW e \in Nat
  PROVE  /\ Len(Append(w, e)) = Len(w) + 1 /\ Append(w, e)[Len(w) + 1] = e
         /\ \A i \in 1..Len(w) : Append(w, e)[i] = w[i]
OBVIOUS

\* What an event adds to a channel that is not full, and to one that is.
LEMMA OneMore ==
  ASSUME NEW q \in Requests, NEW p \in Requests, NEW n \in Nat, Intact(q, n), ~q.cut,
         p.got = q.got, p.queue = Append(q.queue, n + 1)
  PROVE  Intact(p, n + 1)
<1>1. q.got \in Seq(Nat) /\ q.queue \in Seq(Nat)
  BY DEF Requests
<1> DEFINE G == Len(q.got)
           W == Len(q.queue)
<1>2. /\ G \in Nat /\ W \in Nat /\ G + W = n
      /\ Len(p.queue) = W + 1 /\ p.queue[W + 1] = n + 1
      /\ \A i \in 1..W : p.queue[i] = q.queue[i]
  <2>1. G \in Nat /\ W \in Nat
    BY <1>1
  <2>2. G + W = n
    BY DEF Intact
  <2>3. /\ Len(p.queue) = W + 1 /\ p.queue[W + 1] = n + 1
        /\ \A i \in 1..W : p.queue[i] = q.queue[i]
    BY <1>1, TailGrows
  <2> QED BY <2>1, <2>2, <2>3
<1>3. \A i \in 1..W : q.queue[i] = G + i
  BY DEF Intact
<1>4. \A i \in 1..G : p.got[i] = i
  BY DEF Intact
<1>5. Len(p.got) = G
  OBVIOUS
<1> HIDE DEF G, W
<1>6. \A i \in 1..(W + 1) : p.queue[i] = G + i
  <2> SUFFICES ASSUME NEW i \in 1..(W + 1) PROVE p.queue[i] = G + i
    OBVIOUS
  <2>1. CASE i = W + 1
    <3>1. G + (W + 1) = n + 1
      BY <1>2
    <3> QED BY <1>2, <2>1, <3>1
  <2>2. CASE i # W + 1
    <3>1. i \in 1..W
      BY <1>2, <2>2
    <3> QED BY <1>2, <1>3, <3>1
  <2> QED BY <2>1, <2>2
<1>7. G + (W + 1) = n + 1
  BY <1>2
<1> QED BY <1>2, <1>4, <1>5, <1>6, <1>7 DEF Intact

LEMMA CutOff ==
  ASSUME NEW q, NEW p, NEW n, NEW m, Intact(q, n), p.got = q.got, p.queue = q.queue, p.cut
  PROVE  Intact(p, m)
BY DEF Intact

LEMMA EventKeeps ==
  ASSUME IInv, NEW r \in Runs, NEW e \in {"content", "other"}, Event(r, e)
  PROVE  IInv'
<1>1. /\ UNCHANGED <<kind, table, rpc, rkey, job, stored, remote, del, told, opens>>
      /\ rpc[r] = "stream" /\ events[r] < MaxEvents /\ Offer(r)
      /\ events' = [events EXCEPT ![r] = @ + 1]
  BY DEF Event, rowVars
<1>2. answered' \in [Runs -> BOOLEAN]
  BY DEF Event, IInv, TypeOK
<1>3. events[r] \in Nat /\ events' \in [Runs -> 0..MaxEvents]
  BY <1>1, ConstantsAssumption DEF IInv, TypeOK
<1>4. subs' = [subs EXCEPT ![r] = {c \in @ : ~Full(c)}] /\ subs' \in [Runs -> SUBSET Readers]
  BY <1>1 DEF Offer, IInv, TypeOK
<1>5. rd' \in [Readers -> Requests] /\ \A c \in Readers : Len(rd'[c].queue) <= Buf
  <2>1. \A c \in Readers : rd'[c] \in Requests /\ Len(rd'[c].queue) <= Buf
    BY <1>1, OfferEffect
  <2>2. rd' = [c \in Readers |-> rd'[c]]
    BY <1>1 DEF Offer
  <2> QED BY <2>1, <2>2
<1>6. TypeOK'
  BY <1>1, <1>2, <1>3, <1>4, <1>5 DEF IInv, TypeOK
<1>7. \A c \in Readers : rd'[c].pc = rd[c].pc /\ rd'[c].run = rd[c].run
  BY <1>1, OfferEffect
<1>8. \A c \in Readers : c \in subs[r] => At(c, "follow") /\ rd[c].run = r /\ rd[c].open /\ ~rd[c].cut
  BY DEF IInv, SubscribersAreFollowing, FollowFacts
<1>9. \A c \in Readers : At(c, "follow") /\ rd[c].run = r /\ c \notin subs[r] => rd[c].cut
  BY <1>1 DEF IInv, SubscribersAreFollowing, FollowFacts, Closed
<1>10. StreamFacts'
  <2> SUFFICES ASSUME NEW c \in Readers, At(c, "follow")'
               PROVE  Intact(rd'[c], events'[rd'[c].run])
    BY DEF StreamFacts
  <2>1. At(c, "follow") /\ rd'[c].run = rd[c].run /\ rd[c].run \in Runs
        /\ Intact(rd[c], events[rd[c].run]) /\ rd[c] \in Requests
    BY <1>7 DEF At, IInv, StreamFacts, FollowFacts, TypeOK
  <2>2. CASE rd[c].run # r
    <3>1. rd'[c] = rd[c]
      BY <1>1, <1>8, <2>2, OfferEffect
    <3>2. events'[rd[c].run] = events[rd[c].run]
      BY <1>1, <2>1, <2>2 DEF IInv, TypeOK
    <3> QED BY <2>1, <3>1, <3>2
  <2>3. CASE rd[c].run = r /\ c \in subs[r] /\ ~Full(c)
    <3>1. rd'[c].got = rd[c].got /\ rd'[c].queue = Append(rd[c].queue, events[r] + 1)
          /\ rd'[c] \in Requests /\ ~rd[c].cut
      BY <1>1, <1>8, <2>3, OfferEffect
    <3>2. Intact(rd'[c], events[r] + 1)
      BY <1>3, <2>1, <2>3, <3>1, OneMore
    <3>3. events'[r] = events[r] + 1
      BY <1>1 DEF IInv, TypeOK
    <3> QED BY <2>1, <2>3, <3>2, <3>3
  <2>4. CASE rd[c].run = r /\ ~(c \in subs[r] /\ ~Full(c))
    <3>1. rd'[c].got = rd[c].got /\ rd'[c].queue = rd[c].queue /\ rd'[c].cut
      BY <1>1, <1>9, <2>1, <2>4, OfferEffect
    <3> QED BY <2>1, <3>1, CutOff
  <2> QED BY <2>2, <2>3, <2>4
<1>11. FollowFacts'
  <2> SUFFICES ASSUME NEW c \in Readers
               PROVE  (/\ At(c, "subscribe") \/ At(c, "follow") =>
                            rd[c].run \in Runs /\ rpc[rd[c].run] # "unborn"
                       /\ At(c, "follow") /\ rd[c].open => ~Closed(rd[c].run) /\ ~rd[c].cut
                       /\ At(c, "follow") /\ ~rd[c].open /\ ~rd[c].cut => Closed(rd[c].run))'
    BY DEF FollowFacts
  <2>1. \/ rd'[c].cut = rd[c].cut /\ rd'[c].open = rd[c].open
        \/ rd'[c].cut = TRUE /\ rd'[c].open = FALSE
    <3>1. /\ c \notin subs[r] => rd'[c] = rd[c]
          /\ c \in subs[r] /\ Full(c) => rd'[c].cut = TRUE /\ rd'[c].open = FALSE
          /\ c \in subs[r] /\ ~Full(c) => rd'[c].cut = rd[c].cut /\ rd'[c].open = rd[c].open
      BY <1>1, OfferEffect
    <3>2. CASE c \notin subs[r]
      BY <3>1, <3>2
    <3>3. CASE c \in subs[r]
      BY <3>1, <3>3
    <3> QED BY <3>2, <3>3
  <2>2. rd'[c].pc = rd[c].pc /\ rd'[c].run = rd[c].run
    BY <1>1, OfferEffect
  <2> QED BY <1>1, <1>7, <2>1, <2>2 DEF IInv, FollowFacts, At, Closed
<1>12. ChannelFacts'
  <2>1. ASSUME NEW c \in Readers, ~At(c, "follow")'
        PROVE  ~At(c, "follow") /\ rd'[c] = rd[c]
    <3>1. ~At(c, "follow")
      BY <1>7, <2>1 DEF At
    <3>2. c \notin subs[r]
      BY <1>8, <3>1
    <3>3. c \notin subs[r] => rd'[c] = rd[c]
      BY <1>1, OfferEffect
    <3> QED BY <3>1, <3>2, <3>3
  <2> QED BY <2>1 DEF IInv, ChannelFacts
<1>13. SubscribersAreFollowing'
  <2>1. \A c \in Readers : c \in subs'[r] <=> c \in subs[r] /\ ~Full(c)
    BY <1>4 DEF IInv, TypeOK
  <2>2. \A p \in Runs : p # r => subs'[p] = subs[p]
    BY <1>4 DEF IInv, TypeOK
  <2>3. \A c \in Readers : rd'[c].open <=> rd[c].open /\ ~(c \in subs[r] /\ Full(c))
    BY <1>1, OfferEffect
  <2> QED BY <1>7, <1>8, <2>1, <2>2, <2>3 DEF IInv, SubscribersAreFollowing, At
<1>14. LaunchFacts'
  BY <1>1, <1>7 DEF IInv, LaunchFacts, At
<1>15. FiledUnderItsKey' /\ HubListsLiveRuns'
  BY <1>1 DEF IInv, FiledUnderItsKey, HubListsLiveRuns
<1> QED BY <1>6, <1>10, <1>11, <1>12, <1>13, <1>14, <1>15 DEF IInv

LEMMA FinishKeeps ==
  ASSUME IInv, NEW r \in Runs, Finish(r)
  PROVE  IInv'
<1>1. /\ UNCHANGED <<kind, table, rkey, events, answered, job, stored, remote, del, told, opens>>
      /\ rpc[r] = "stream" /\ rpc' = [rpc EXCEPT ![r] = "store"]
      /\ subs' = [subs EXCEPT ![r] = {}]
  BY DEF Finish, Goto, rowVars
<1>2. \A c \in Readers :
        /\ rd'[c] \in Requests /\ rd'[c].queue = rd[c].queue /\ rd'[c].got = rd[c].got
        /\ rd'[c].pc = rd[c].pc /\ rd'[c].run = rd[c].run /\ rd'[c].cut = rd[c].cut
        /\ rd'[c].open <=> rd[c].open /\ c \notin subs[r]
  <2> TAKE c \in Readers
  <2>1. rd[c] \in Requests
    BY DEF IInv, TypeOK
  <2>2. CASE c \in subs[r]
    <3>1. rd'[c] = [rd[c] EXCEPT !.open = FALSE]
      BY <2>2 DEF Finish
    <3> QED BY <2>1, <2>2, <3>1 DEF Requests
  <2>3. CASE c \notin subs[r]
    BY <2>1, <2>3 DEF Finish
  <2> QED BY <2>2, <2>3
<1>3. TypeOK'
  <2>1. rd' = [c \in Readers |-> rd'[c]]
    BY DEF Finish
  <2>2. rd' \in [Readers -> Requests] /\ \A c \in Readers : Len(rd'[c].queue) <= Buf
    BY <1>2, <2>1 DEF IInv, TypeOK
  <2> QED BY <1>1, <2>2 DEF IInv, TypeOK
<1>4. StreamFacts'
  <2> SUFFICES ASSUME NEW c \in Readers, At(c, "follow")'
               PROVE  Intact(rd'[c], events[rd[c].run])
    BY <1>1, <1>2 DEF StreamFacts
  <2>1. Intact(rd[c], events[rd[c].run])
    BY <1>2 DEF IInv, StreamFacts, At
  <2>2. rd'[c].queue = rd[c].queue /\ rd'[c].got = rd[c].got /\ rd'[c].cut = rd[c].cut
    BY <1>2
  <2> QED BY <2>1, <2>2 DEF Intact
<1>5. \A p \in Runs : (Closed(p)' <=> Closed(p) \/ p = r) /\ (rpc[p] # "unborn" => rpc'[p] # "unborn")
  BY <1>1 DEF IInv, TypeOK, Closed
<1>6. FollowFacts'
  <2> SUFFICES ASSUME NEW c \in Readers
               PROVE  /\ At(c, "subscribe")' \/ At(c, "follow")' =>
                            rd'[c].run \in Runs /\ rpc'[rd'[c].run] # "unborn"
                      /\ At(c, "follow")' /\ rd'[c].open => ~Closed(rd[c].run)' /\ ~rd'[c].cut
                      /\ At(c, "follow")' /\ ~rd'[c].open /\ ~rd'[c].cut => Closed(rd[c].run)'
    BY <1>2 DEF FollowFacts, Closed
  <2>1. At(c, "subscribe")' \/ At(c, "follow")' => rd[c].run \in Runs /\ rpc'[rd[c].run] # "unborn"
    BY <1>2, <1>5 DEF IInv, FollowFacts, At
  <2>2. CASE At(c, "follow")
    <3>1. c \in subs[r] <=> rd[c].run = r /\ rd[c].open
      BY <2>2 DEF IInv, SubscribersAreFollowing
    <3>2. /\ rd[c].run \in Runs /\ (rd[c].open => ~Closed(rd[c].run) /\ ~rd[c].cut)
          /\ (~rd[c].open /\ ~rd[c].cut => Closed(rd[c].run))
      BY <2>2 DEF IInv, FollowFacts
    <3> QED BY <1>2, <1>5, <2>1, <3>1, <3>2
  <2>3. CASE ~At(c, "follow")
    BY <1>2, <2>1, <2>3 DEF At
  <2> QED BY <2>2, <2>3
<1>7. ChannelFacts'
  BY <1>2 DEF IInv, ChannelFacts, At
<1>8. SubscribersAreFollowing'
  <2>1. \A p \in Runs, c \in Readers : c \in subs'[p] <=> p # r /\ c \in subs[p]
    BY <1>1 DEF IInv, TypeOK
  <2> SUFFICES ASSUME NEW p \in Runs, NEW c \in Readers
               PROVE  c \in subs'[p] <=> At(c, "follow")' /\ rd'[c].run = p /\ rd'[c].open
    BY DEF SubscribersAreFollowing
  <2>2. /\ c \in subs[p] <=> At(c, "follow") /\ rd[c].run = p /\ rd[c].open
        /\ c \in subs[r] <=> At(c, "follow") /\ rd[c].run = r /\ rd[c].open
    BY DEF IInv, SubscribersAreFollowing
  <2>3. (At(c, "follow")' <=> At(c, "follow")) /\ rd'[c].run = rd[c].run
        /\ (rd'[c].open <=> rd[c].open /\ c \notin subs[r])
    BY <1>2 DEF At
  <2> QED BY <2>1, <2>2, <2>3
<1>9. LaunchFacts'
  <2>1. \A c \in Readers : (At(c, "launch")' <=> At(c, "launch")) /\ rd'[c].run = rd[c].run
    BY <1>2 DEF At
  <2>2. \A p \in Runs : rpc[p] = "listed" => rpc'[p] = "listed"
    BY <1>1 DEF IInv, TypeOK
  <2> QED BY <2>1, <2>2 DEF IInv, LaunchFacts
<1>10. FiledUnderItsKey' /\ HubListsLiveRuns'
  BY <1>1 DEF IInv, TypeOK, FiledUnderItsKey, HubListsLiveRuns
<1> QED BY <1>3, <1>4, <1>6, <1>7, <1>8, <1>9, <1>10 DEF IInv

\* The steps after finish touch no request and no subscriber.
LEMMA AfterFinish ==
  ASSUME IInv, NEW r \in Runs, NEW pc \in {"drop", "release", "done"}, Closed(r),
         rpc' = [rpc EXCEPT ![r] = pc],
         UNCHANGED <<rd, subs, events>>
  PROVE  StreamFacts' /\ FollowFacts' /\ ChannelFacts' /\ SubscribersAreFollowing' /\ LaunchFacts'
<1>1. \A p \in Runs : (Closed(p)' <=> Closed(p)) /\ (rpc[p] # "unborn" => rpc'[p] # "unborn")
  BY DEF IInv, TypeOK, Closed
<1>2. \A p \in Runs : rpc[p] = "listed" => rpc'[p] = "listed"
  BY DEF IInv, TypeOK, Closed
<1>3. FollowFacts'
  <2>1. \A c \in Readers : At(c, "follow") => rd[c].run \in Runs
    BY DEF IInv, FollowFacts
  <2> QED BY <1>1, <2>1 DEF IInv, FollowFacts, At, Closed
<1>4. LaunchFacts'
  BY <1>2 DEF IInv, LaunchFacts, At
<1> QED BY <1>3, <1>4 DEF IInv, StreamFacts, ChannelFacts, SubscribersAreFollowing, At
LEMMA StoreKeeps ==
  ASSUME IInv, NEW r \in Runs, Store(r)
  PROVE  IInv'
<1>1. /\ UNCHANGED <<kind, table, rkey, events, answered, subs, rd, job, remote, del, told, opens>>
      /\ rpc[r] = "store" /\ stored' \in BOOLEAN
  BY DEF Store, IInv, TypeOK
<1>2. PICK pc \in {"drop", "release", "done"} : pc # "done" /\ rpc' = [rpc EXCEPT ![r] = pc]
  BY DEF Store, Goto
<1>3. StreamFacts' /\ FollowFacts' /\ ChannelFacts' /\ SubscribersAreFollowing' /\ LaunchFacts'
  BY <1>1, <1>2, AfterFinish DEF Closed
<1>4. TypeOK'
  BY <1>1, <1>2 DEF IInv, TypeOK
<1>5. FiledUnderItsKey' /\ HubListsLiveRuns'
  BY <1>1, <1>2 DEF IInv, TypeOK, FiledUnderItsKey, HubListsLiveRuns
<1> QED BY <1>3, <1>4, <1>5 DEF IInv

LEMMA DropJobKeeps ==
  ASSUME IInv, NEW r \in Runs, DropJob(r)
  PROVE  IInv'
<1>1. /\ UNCHANGED <<kind, table, rkey, events, answered, subs, rd, stored, remote, del, told, opens>>
      /\ rpc[r] = "drop" /\ job' = FALSE /\ rpc' = [rpc EXCEPT ![r] = "release"]
  BY DEF DropJob, Goto
<1>2. StreamFacts' /\ FollowFacts' /\ ChannelFacts' /\ SubscribersAreFollowing' /\ LaunchFacts'
  BY <1>1, AfterFinish DEF Closed
<1>3. TypeOK'
  BY <1>1 DEF IInv, TypeOK
<1>4. FiledUnderItsKey' /\ HubListsLiveRuns'
  BY <1>1 DEF IInv, TypeOK, FiledUnderItsKey, HubListsLiveRuns
<1> QED BY <1>2, <1>3, <1>4 DEF IInv

LEMMA ReleaseKeeps ==
  ASSUME IInv, NEW r \in Runs, Release(r)
  PROVE  IInv'
<1>1. /\ UNCHANGED <<kind, rkey, events, answered, subs, rd, job, stored, remote, del, told, opens>>
      /\ rpc[r] = "release" /\ rpc' = [rpc EXCEPT ![r] = "done"]
      /\ table' = [table EXCEPT ![rkey[r]] = IF @ = r THEN 0 ELSE @]
  BY DEF Release, Goto, rowVars
<1>2. StreamFacts' /\ FollowFacts' /\ ChannelFacts' /\ SubscribersAreFollowing' /\ LaunchFacts'
  BY <1>1, AfterFinish DEF Closed
<1>3. rkey[r] \in Keys
  BY DEF IInv, TypeOK
<1>4. TypeOK'
  BY <1>1, <1>3, ConstantsAssumption DEF IInv, TypeOK
<1>5. \A k \in Keys : table'[k] = IF k = rkey[r] /\ table[k] = r THEN 0 ELSE table[k]
  BY <1>1, <1>3 DEF IInv, TypeOK
<1>6. FiledUnderItsKey'
  BY <1>1, <1>5 DEF IInv, FiledUnderItsKey
<1>7. HubListsLiveRuns'
  <2> SUFFICES ASSUME NEW p \in Runs
               PROVE  rpc'[p] \notin {"unborn", "done"} <=> \E k \in Keys : table'[k] = p /\ rkey[p] = k
    BY <1>1 DEF HubListsLiveRuns
  <2>1. rpc[p] \notin {"unborn", "done"} <=> \E k \in Keys : table[k] = p /\ rkey[p] = k
    BY DEF IInv, HubListsLiveRuns
  <2>2. CASE p = r
    BY <1>1, <1>5, <2>2, ConstantsAssumption DEF IInv, TypeOK, Runs
  <2>3. CASE p # r
    <3>1. rpc'[p] = rpc[p]
      BY <1>1, <2>3 DEF IInv, TypeOK
    <3>2. \A k \in Keys : table'[k] = p <=> table[k] = p
      BY <1>5, <2>3, ConstantsAssumption DEF Runs
    <3> QED BY <2>1, <3>1, <3>2
  <2> QED BY <2>2, <2>3
<1> QED BY <1>2, <1>4, <1>6, <1>7 DEF IInv

-----------------------------------------------------------------------------
(* The rows, restarts, and the theorems.                                   *)

LEMMA RowsKeep ==
  ASSUME IInv, DeleteRemote \/ DeleteLocal \/ JobExpires
  PROVE  IInv'
<1>1. UNCHANGED <<kind, table, rpc, rkey, events, answered, subs, rd, opens>>
  BY DEF DeleteRemote, DeleteLocal, JobExpires, hubVars
<1>2. TypeOK'
  BY <1>1 DEF IInv, TypeOK, DeleteRemote, DeleteLocal, JobExpires
<1> QED BY <1>1, <1>2 DEF IInv, StreamFacts, FollowFacts, ChannelFacts, LaunchFacts,
                         SubscribersAreFollowing, FiledUnderItsKey, HubListsLiveRuns, At, Closed

LEMMA RestartKeeps ==
  ASSUME IInv, PanelRestarts
  PROVE  IInv'
<1>1. \A c \in Readers : rd'[c] = Idle
  BY DEF PanelRestarts
<1>2. \A r \in Runs : subs'[r] = {} /\ rpc'[r] \in {"unborn", "done"}
  BY DEF PanelRestarts
<1>3. \A k \in Keys : table'[k] = 0
  BY DEF PanelRestarts
<1>4. TypeOK'
  <2>1. table' \in [Keys -> 0..MaxOpens] /\ events' \in [Runs -> 0..MaxEvents]
    BY ConstantsAssumption DEF PanelRestarts
  <2>2. rd' \in [Readers -> Requests]
    BY IdleIsRequest DEF PanelRestarts
  <2>3. \A c \in Readers : Len(rd'[c].queue) <= Buf
    BY <1>1, IdleIsRequest, ConstantsAssumption
  <2>4. /\ rpc' \in [Runs -> {"unborn", "listed", "stream", "store", "drop", "release", "done"}]
        /\ rkey' \in [Runs -> Keys] /\ answered' \in [Runs -> BOOLEAN]
        /\ subs' \in [Runs -> SUBSET Readers]
    BY DEF PanelRestarts, Keys
  <2>5. /\ kind' = kind /\ stored' = stored /\ remote' = remote /\ told' = told
        /\ opens' = opens /\ job' = FALSE /\ del' = "idle"
    BY DEF PanelRestarts
  <2> QED BY <2>1, <2>2, <2>3, <2>4, <2>5 DEF IInv, TypeOK
<1>5. StreamFacts' /\ FollowFacts' /\ ChannelFacts' /\ LaunchFacts'
  BY <1>1, IdleIsRequest DEF StreamFacts, FollowFacts, ChannelFacts, LaunchFacts, At
<1>6. SubscribersAreFollowing'
  BY <1>1, <1>2, IdleIsRequest DEF SubscribersAreFollowing, At
<1>7. FiledUnderItsKey'
  BY <1>3 DEF FiledUnderItsKey
<1>8. HubListsLiveRuns'
  BY <1>2, <1>3, ConstantsAssumption DEF HubListsLiveRuns, Runs
<1> QED BY <1>4, <1>5, <1>6, <1>7, <1>8 DEF IInv

LEMMA InitHolds ==
  ASSUME Init
  PROVE  IInv
<1>1. \A c \in Readers : rd[c] = Idle
  BY DEF Init
<1>2. TypeOK
  <2>1. table \in [Keys -> 0..MaxOpens] /\ events \in [Runs -> 0..MaxEvents] /\ opens \in 0..MaxOpens
    BY ConstantsAssumption DEF Init
  <2>2. rd \in [Readers -> Requests]
    <3>1. rd = [c \in Readers |-> Idle]
      BY Zenon DEF Init
    <3>2. Idle \in Requests
      BY IdleIsRequest
    <3> QED BY <3>1, <3>2
  <2>3. \A c \in Readers : Len(rd[c].queue) <= Buf
    <3>1. Len(Idle.queue) <= Buf
      BY IdleIsRequest, ConstantsAssumption
    <3> QED BY <1>1, <3>1
  <2>4. /\ rpc \in [Runs -> {"unborn", "listed", "stream", "store", "drop", "release", "done"}]
        /\ rkey \in [Runs -> Keys] /\ answered \in [Runs -> BOOLEAN]
        /\ subs \in [Runs -> SUBSET Readers]
    BY DEF Init, Keys
  <2>5. kind \in {"logshare", "openai"} /\ stored = FALSE /\ remote = TRUE /\ told = FALSE /\ del = "idle"
    BY DEF Init
  <2>6. job \in BOOLEAN
    <3>1. job = (kind = "openai")
      BY DEF Init
    <3> QED BY <3>1
  <2> QED BY <2>1, <2>2, <2>3, <2>4, <2>5, <2>6 DEF TypeOK
<1>3. StreamFacts /\ FollowFacts /\ ChannelFacts /\ LaunchFacts
  BY <1>1, IdleIsRequest DEF StreamFacts, FollowFacts, ChannelFacts, LaunchFacts, At
<1>4. SubscribersAreFollowing
  BY <1>1, IdleIsRequest DEF Init, SubscribersAreFollowing, At
<1>5. FiledUnderItsKey /\ HubListsLiveRuns
  BY ConstantsAssumption DEF Init, FiledUnderItsKey, HubListsLiveRuns, Runs
<1> QED BY <1>2, <1>3, <1>4, <1>5 DEF IInv

LEMMA StutterKeeps ==
  ASSUME IInv, UNCHANGED vars
  PROVE  IInv'
<1>1. UNCHANGED <<kind, table, rpc, rkey, events, answered, subs, rd, job, stored, remote, del, told, opens>>
  BY DEF vars, hubVars, rowVars
<1> QED BY <1>1 DEF IInv, TypeOK, StreamFacts, FollowFacts, ChannelFacts, LaunchFacts,
                    SubscribersAreFollowing, FiledUnderItsKey, HubListsLiveRuns, At, Closed

LEMMA NextKeeps ==
  ASSUME IInv, [Next]_vars
  PROVE  IInv'
<1>1. ASSUME NEW c \in Readers, ReaderStep(c) PROVE IInv'
  BY <1>1, JoinKeeps, NewRunKeeps, LaunchKeeps, SubscribeKeeps, ReceiveKeeps, DetachKeeps
     DEF ReaderStep, StreamEnds
<1>2. ASSUME NEW c \in Readers, Leave(c) \/ Upload(c) \/ \E k \in Keys : Open(c, k) PROVE IInv'
  BY <1>2, DetachKeeps, UploadKeeps, OpenKeeps DEF Leave
<1>3. ASSUME NEW r \in Runs, RunStep(r) PROVE IInv'
  BY <1>3, FinishKeeps, StoreKeeps, DropJobKeeps, ReleaseKeeps DEF RunStep
<1>4. ASSUME NEW r \in Runs, \E e \in {"content", "other"} : Event(r, e) PROVE IInv'
  BY <1>4, EventKeeps
<1>5. CASE DeleteRemote \/ DeleteLocal \/ JobExpires \/ PanelRestarts
  BY <1>5, RowsKeep, RestartKeeps
<1>6. CASE UNCHANGED vars
  BY <1>6, StutterKeeps
<1> QED BY <1>1, <1>2, <1>3, <1>4, <1>5, <1>6 DEF Next

\* Every reachable state satisfies the invariant, for any number of pages,
\* requests and events and any capacity of a channel.
THEOREM Inductive == Spec => []IInv
<1>1. Init => IInv
  BY InitHolds
<1>2. IInv /\ [Next]_vars => IInv'
  BY NextKeeps
<1> QED BY <1>1, <1>2, PTL DEF Spec

\* Every variable keeps its type, and no channel of a page holds more than
\* aiSubBuf events (logshare.go:466, appendLocked).
THEOREM TypeCorrect == Spec => []TypeOK
<1>1. IInv => TypeOK
  BY DEF IInv
<1> QED BY <1>1, Inductive, PTL

\* A page reads the stream from its beginning without gap or repetition,
\* whenever it subscribes; only a slow one is cut off (subscribe, appendLocked).
THEOREM NothingMissed == Spec => []ReadersMissNothing
<1>1. IInv => ReadersMissNothing
  BY MissNothing DEF IInv
<1> QED BY <1>1, Inductive, PTL

\* The hub lists the runs that live, under their keys, and no others (attach,
\* release), and the channels of a run are exactly the open channels of the
\* pages that follow it (subscribe, detach, appendLocked, finish).
THEOREM HubIsExact == Spec => []HubAgrees
<1>1. IInv => HubAgrees
  BY DEF IInv, HubAgrees
<1> QED BY <1>1, Inductive, PTL
=============================================================================
