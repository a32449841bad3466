--------------------------- MODULE BackupsProofs ---------------------------
(***************************************************************************)
(* Proofs about module Backups: its type invariant, that a whole backup    *)
(* remains, and that manual backups are spared, for every policy, any      *)
(* number of requests and of faults; about Retention: what a rotation      *)
(* leaves, for every policy; and about DbBackup: what pruning leaves.      *)
(***************************************************************************)
EXTENDS Backups, DbBackup, TLAPS, FiniteSetTheorems, SequenceTheorems, WellFoundedInduction

\* ----------------------------------------------------------------- retention

LEMMA ProductsGrow ==
  ASSUME NEW a \in Nat, NEW b \in Nat, a <= b PROVE a * Hour <= b * Hour
<1>1. Hour \in Nat
  BY HourAssumption
<1>2. (b - a) * Hour \in Nat
  BY <1>1
<1>3. b * Hour = a * Hour + (b - a) * Hour
  BY <1>1
<1> QED
  BY <1>1, <1>2, <1>3

\* A rotation only deletes what is there.
LEMMA ExpiredAreListed ==
  ASSUME NEW S, NEW t PROVE SelectExpired(S, Policy, t) \subseteq S
BY DEF SelectExpired, ExpiredAutos, BeyondTiers, BeyondNewest, InTier, Autos, Manuals

\* The newest automatic backup stays, if it is younger than the bound of the first tier.
LEMMA NewestStays ==
  ASSUME NEW S, NEW t \in Int, NEW e \in S, ~e.manual, e.at \in Int,
         \A f \in Autos(S) : f.at \in Int /\ f.at <= e.at,
         0 <= t - e.at,
         Policy.tiers # <<>> => t - e.at <= Policy.tiers[1].within * Hour
  PROVE  e \notin SelectExpired(S, Policy, t)
<1> DEFINE tiers == Policy.tiers
<1>1. /\ tiers \in Seq([within : Nat \ {0}, keep : Nat \ {0}])
      /\ \A k, m \in DOMAIN tiers : k < m => tiers[k].within <= tiers[m].within
      /\ Normalize(Policy) = Policy
  BY BackupsAssumption
<1>2. Hour \in Nat \ {0}
  BY HourAssumption
<1>3. e \notin BeyondNewest(Manuals(S), Policy.manualKeep)
  BY DEF BeyondNewest, Manuals
<1>4. ASSUME tiers # <<>> PROVE e \notin ExpiredAutos(S, tiers, t)
  <2>1. /\ Len(tiers) \in Nat \ {0} /\ DOMAIN tiers = 1..Len(tiers)
        /\ \A k \in DOMAIN tiers : tiers[k].within \in Nat /\ tiers[k].keep \in Nat \ {0}
    <3> HIDE DEF tiers
    <3>1. Len(tiers) \in Nat \ {0} /\ DOMAIN tiers = 1..Len(tiers)
      BY <1>1, <1>4, EmptySeq, LenProperties
    <3>2. \A k \in DOMAIN tiers : tiers[k] \in [within : Nat \ {0}, keep : Nat \ {0}]
      BY <1>1, <3>1, ElementOfSeq
    <3> QED
      BY <3>1, <3>2
  <2>2. \A k \in DOMAIN tiers : tiers[1].within <= tiers[k].within
    <3> HIDE DEF tiers
    <3> SUFFICES ASSUME NEW k \in DOMAIN tiers PROVE tiers[1].within <= tiers[k].within
      OBVIOUS
    <3>1. 1 \in DOMAIN tiers /\ k \in Int /\ 1 <= k
      BY <2>1
    <3>2. CASE k = 1
      BY <3>2, <2>1
    <3>3. CASE 1 < k
      BY <3>3, <3>1, <1>1
    <3> QED
      BY <3>1, <3>2, <3>3
  <2>3. \A k \in DOMAIN tiers : tiers[1].within * Hour <= tiers[k].within * Hour
    BY <2>1, <2>2, ProductsGrow
  <2>4. \A k \in DOMAIN tiers : tiers[k].within * Hour \in Int
    BY <2>1, <1>2
  <2>5. \A k \in DOMAIN tiers : t - e.at <= tiers[k].within * Hour
    <3> HIDE DEF tiers
    <3>1. 1 \in DOMAIN tiers /\ tiers[1].within * Hour \in Int
      BY <2>1, <2>4
    <3>2. t - e.at <= tiers[1].within * Hour
      BY <1>4 DEF tiers
    <3> TAKE k \in DOMAIN tiers
    <3>3. tiers[1].within * Hour <= tiers[k].within * Hour /\ tiers[k].within * Hour \in Int
      BY <2>3, <2>4
    <3> QED
      BY <3>1, <3>2, <3>3
  <2>6. e \notin BeyondTiers(S, tiers, t)
    <3>1. t - e.at <= tiers[Len(tiers)].within * Hour
      BY <2>1, <2>5
    <3> QED
      BY <3>1, <2>1, <2>4 DEF BeyondTiers, Age
  <2>7. ASSUME NEW k \in DOMAIN tiers
        PROVE  e \notin BeyondNewest(InTier(S, tiers, k, t), tiers[k].keep)
    <3>1. CASE k = 1
      <4>1. Newer(e, InTier(S, tiers, k, t)) = {}
        BY DEF Newer, InTier, Autos
      <4>2. Cardinality(Newer(e, InTier(S, tiers, k, t))) < tiers[k].keep
        BY <4>1, <2>1, FS_EmptySet
      <4> QED
        BY <4>2 DEF BeyondNewest, Newest
    <3>2. CASE k # 1
      <4>1. k - 1 \in DOMAIN tiers /\ LowerBound(tiers, k) = tiers[k - 1].within
        BY <3>2, <2>1 DEF LowerBound
      <4>2. ~(t - e.at > LowerBound(tiers, k) * Hour)
        BY <4>1, <2>4, <2>5
      <4> QED
        BY <4>2 DEF BeyondNewest, InTier, Age
    <3> QED
      BY <3>1, <3>2
  <2> QED
    BY <1>4, <2>6, <2>7 DEF ExpiredAutos
<1>5. e \notin ExpiredAutos(S, tiers, t)
  BY <1>4 DEF ExpiredAutos
<1> QED
  BY <1>1, <1>3, <1>5 DEF SelectExpired

\* ------------------------------------------------------------ type invariant

Entries == [at : 1..MaxTime, manual : BOOLEAN, whole : BOOLEAN]
Entry(w) == w.at \in 1..MaxTime /\ w.manual \in BOOLEAN

LEMMA FileIsEntry ==
  ASSUME TypeOK, NEW w \in writers, NEW b \in BOOLEAN PROVE File(w, b) \in Entries
BY DEF TypeOK, File, Entries

LEMMA AnswerTyped ==
  ASSUME TypeOK, NEW C, NEW ok \in BOOLEAN, Answer(C, ok)
  PROVE  /\ round'.pc \in {"idle", "call", "wait", "list", "prune", "failed"}
         /\ round'.at = round.at /\ round'.doomed = round.doomed
         /\ round' \in [pc : {"idle", "call", "wait", "list", "prune", "failed"}, at : 0..MaxTime,
                        doomed : SUBSET [at : 1..MaxTime, manual : BOOLEAN, whole : BOOLEAN]]
         /\ req' \in [Requests -> {"new", "wait", "done"}]
<1>1. round'.pc \in {"idle", "call", "wait", "list", "prune", "failed"} /\ round'.at = round.at /\ round'.doomed = round.doomed
  BY DEF TypeOK, Answer
<1>2. round' \in [pc : {"idle", "call", "wait", "list", "prune", "failed"}, at : 0..MaxTime,
                  doomed : SUBSET [at : 1..MaxTime, manual : BOOLEAN, whole : BOOLEAN]]
  BY DEF TypeOK, Answer
<1>3. req' \in [Requests -> {"new", "wait", "done"}]
  BY DEF TypeOK, Answer
<1> QED
  BY <1>1, <1>2, <1>3

LEMMA AbandonedTyped ==
  ASSUME TypeOK, NEW C
  PROVE  Abandoned(C) \subseteq [at : 1..MaxTime, manual : BOOLEAN, caller : Requests \cup {"round", "nobody"}]
<1> SUFFICES ASSUME NEW w \in writers
             PROVE  (IF w.caller \in C THEN [w EXCEPT !.caller = "nobody"] ELSE w)
                      \in [at : 1..MaxTime, manual : BOOLEAN, caller : Requests \cup {"round", "nobody"}]
  BY DEF Abandoned
<1>1. w \in [at : 1..MaxTime, manual : BOOLEAN, caller : Requests \cup {"round", "nobody"}]
  BY DEF TypeOK
<1> QED
  BY <1>1

LEMMA InitTyped == Init => TypeOK
<1> SUFFICES ASSUME Init PROVE TypeOK
  OBVIOUS
<1>1. MaxTime \in Nat /\ MaxFaults \in Nat
  BY BackupsAssumption
<1>2. now \in 1..MaxTime /\ left \in 0..MaxFaults /\ row \in [enabled : BOOLEAN, lastRun : 0..MaxTime]
  BY <1>1, BackupsAssumption DEF Init, Never
<1>3. round \in [pc : {"idle", "call", "wait", "list", "prune", "failed"}, at : 0..MaxTime,
                 doomed : SUBSET [at : 1..MaxTime, manual : BOOLEAN, whole : BOOLEAN]]
  BY <1>1 DEF Init
<1>4. req \in [Requests -> {"new", "wait", "done"}]
  BY DEF Init
<1>5. link \in BOOLEAN /\ up \in BOOLEAN /\ alert \in BOOLEAN /\ had \in BOOLEAN
      /\ files = {} /\ writers = {} /\ made = {}
  BY DEF Init
<1> QED
  BY <1>2, <1>3, <1>4, <1>5 DEF TypeOK

LEMMA CreateTyped ==
  ASSUME TypeOK, NEW m \in BOOLEAN, NEW c \in Requests \cup {"round", "nobody"}, Create(m, c)
  PROVE  /\ files' \subseteq Entries /\ made' \subseteq 1..MaxTime
         /\ writers' \subseteq [at : 1..MaxTime, manual : BOOLEAN, caller : Requests \cup {"round", "nobody"}]
<1>1. now \in 1..MaxTime /\ files \subseteq Entries /\ made \subseteq 1..MaxTime
      /\ writers \subseteq [at : 1..MaxTime, manual : BOOLEAN, caller : Requests \cup {"round", "nobody"}]
  BY DEF TypeOK, Entries
<1>2. At(m, now) \in Entries
  BY <1>1 DEF At, Entries
<1>3. [at |-> now, manual |-> m, caller |-> c]
        \in [at : 1..MaxTime, manual : BOOLEAN, caller : Requests \cup {"round", "nobody"}]
  BY <1>1
<1>4. /\ files' = files \cup {At(m, now)}
      /\ writers' = writers \cup {[at |-> now, manual |-> m, caller |-> c]}
      /\ made' \subseteq made \cup {now}
  BY DEF Create
<1> QED
  BY <1>1, <1>2, <1>3, <1>4

LEMMA TypeStep == TypeOK /\ [Next]_vars => TypeOK'
<1> SUFFICES ASSUME TypeOK, [Next]_vars PROVE TypeOK'
  OBVIOUS
<1> USE BackupsAssumption
<1> DEFINE Rounds == [pc : {"idle", "call", "wait", "list", "prune", "failed"}, at : 0..MaxTime,
                      doomed : SUBSET [at : 1..MaxTime, manual : BOOLEAN, whole : BOOLEAN]]
           Writers == [at : 1..MaxTime, manual : BOOLEAN, caller : Requests \cup {"round", "nobody"}]
<1>1. CASE Tick
  BY <1>1 DEF TypeOK, Tick, daemon, panel, hist
<1>2. CASE DaemonCrashes
  <2>1. round' \in Rounds /\ req' \in [Requests -> {"new", "wait", "done"}]
    BY <1>2, AnswerTyped DEF DaemonCrashes, DaemonDies
  <2>2. left' \in 0..MaxFaults
    BY <1>2 DEF TypeOK, DaemonCrashes
  <2> QED
    BY <1>2, <2>1, <2>2 DEF TypeOK, DaemonCrashes, DaemonDies, panel
<1>3. CASE LinkFails
  <2>1. writers' \subseteq Writers
    BY <1>3, AbandonedTyped DEF LinkFails
  <2>2. round' \in Rounds /\ left' \in 0..MaxFaults
    <3>1. round \in Rounds /\ left \in 0..MaxFaults
      BY DEF TypeOK
    <3>2. [round EXCEPT !.pc = "failed"] \in Rounds
      BY <3>1
    <3>3. left' \in 0..MaxFaults
      BY <1>3, <3>1 DEF LinkFails
    <3> HIDE DEF Rounds
    <3> QED
      BY <1>3, <3>1, <3>2, <3>3, Zenon DEF LinkFails
  <2>3. req' \in [Requests -> {"new", "wait", "done"}]
    BY <1>3 DEF LinkFails, TypeOK
  <2> QED
    BY <1>3, <2>1, <2>2, <2>3 DEF TypeOK, LinkFails, panel, hist
<1>4. CASE LinkReturns
  BY <1>4 DEF TypeOK, LinkReturns, daemon, panel, hist
<1>5. CASE PanelStops
  <2>1. writers' \subseteq Writers
    BY <1>5, AbandonedTyped DEF PanelStops
  <2>2. round' \in Rounds /\ left' \in 0..MaxFaults
    BY <1>5 DEF PanelStops, TypeOK, Goto
  <2>3. req' \in [Requests -> {"new", "wait", "done"}]
    BY <1>5 DEF PanelStops, TypeOK
  <2> QED
    BY <1>5, <2>1, <2>2, <2>3 DEF TypeOK, PanelStops, hist
<1>6. CASE PanelStarts
  BY <1>6 DEF TypeOK, PanelStarts, daemon, hist
<1>7. ASSUME NEW w \in writers, FinishArchive(w) PROVE TypeOK'
  <2>1. round' \in Rounds /\ req' \in [Requests -> {"new", "wait", "done"}]
    BY <1>7, AnswerTyped DEF FinishArchive, DaemonDies
  <2>2. files' \subseteq Entries
    <3>1. files \subseteq Entries
      BY DEF TypeOK, Entries
    <3>2. File(w, TRUE) \in Entries
      BY FileIsEntry
    <3>3. files' \subseteq files \cup {File(w, TRUE)}
      BY <1>7 DEF FinishArchive, DaemonDies
    <3> QED
      BY <3>1, <3>2, <3>3
  <2>3. writers' \subseteq writers
    BY <1>7 DEF FinishArchive, DaemonDies
  <2>4. had' \in BOOLEAN
    BY <1>7 DEF FinishArchive, DaemonDies, TypeOK
  <2> QED
    BY <1>7, <2>1, <2>2, <2>3, <2>4 DEF FinishArchive, TypeOK, panel, Entries
<1>8. ASSUME NEW w \in writers, FailArchive(w) PROVE TypeOK'
  <2>1. round' \in Rounds /\ req' \in [Requests -> {"new", "wait", "done"}]
    BY <1>8, AnswerTyped DEF FailArchive
  <2>2. files' \subseteq files /\ writers' \subseteq writers
    BY <1>8 DEF FailArchive
  <2>3. left' \in 0..MaxFaults
    BY <1>8 DEF FailArchive, TypeOK
  <2> QED
    BY <1>8, <2>1, <2>2, <2>3 DEF FailArchive, TypeOK, panel, hist
<1>9. CASE BeginBackup
  BY <1>9 DEF TypeOK, BeginBackup, Goto, daemon, panel, hist
<1>10. CASE CallBackup
  <2>1. round' \in Rounds
    <3>1. now \in 0..MaxTime /\ 0 \in 0..MaxTime
      BY DEF TypeOK
    <3>2. round' = [pc |-> "wait", at |-> now, doomed |-> {}] \/ round' = [pc |-> "failed", at |-> 0, doomed |-> {}]
      BY <1>10 DEF CallBackup, Goto
    <3> QED
      BY <3>1, <3>2
  <2>2. files' \subseteq Entries /\ writers' \subseteq Writers /\ made' \subseteq 1..MaxTime
    <3>1. CASE link
      BY <1>10, <3>1, CreateTyped DEF CallBackup
    <3>2. CASE ~link
      BY <1>10, <3>2 DEF CallBackup, TypeOK, daemon, Entries
    <3> QED
      BY <3>1, <3>2
  <2> QED
    BY <1>10, <2>1, <2>2 DEF TypeOK, CallBackup, panel, Entries
<1>11. CASE GiveUpWaiting
  <2>1. writers' \subseteq Writers
    BY <1>11, AbandonedTyped DEF GiveUpWaiting
  <2> QED
    BY <1>11, <2>1 DEF TypeOK, GiveUpWaiting, Goto, panel, hist
<1>12. CASE ListBackups
  <2>1. round'.doomed \subseteq files
    BY <1>12, ExpiredAreListed DEF ListBackups, Goto
  <2>2. round' \in Rounds
    BY <1>12, <2>1 DEF ListBackups, Goto, TypeOK
  <2> QED
    BY <1>12, <2>2 DEF TypeOK, ListBackups, daemon, panel, hist
<1>13. CASE DeleteExpired
  BY <1>13 DEF TypeOK, DeleteExpired, Goto, panel, hist
<1>14. ASSUME NEW b \in BOOLEAN, Record(b) PROVE TypeOK'
  <2>1. row' \in [enabled : BOOLEAN, lastRun : 0..MaxTime]
    BY <1>14 DEF Record, TypeOK
  <2>2. round' \in Rounds
    BY <1>14 DEF Record, TypeOK, Goto
  <2> QED
    BY <1>14, <2>1, <2>2 DEF TypeOK, Record, daemon, hist
<1>15. ASSUME NEW r \in Requests, HandleCreateBackup(r) PROVE TypeOK'
  <2>1. files' \subseteq Entries /\ writers' \subseteq Writers /\ made' \subseteq 1..MaxTime
    BY <1>15, CreateTyped DEF HandleCreateBackup
  <2> QED
    BY <1>15, <2>1 DEF TypeOK, HandleCreateBackup, panel, Entries
<1>16. ASSUME NEW r \in Requests, HandleDeleteBackup(r) PROVE TypeOK'
  <2>1. had' \in BOOLEAN /\ files' \subseteq files
    BY <1>16 DEF TypeOK, HandleDeleteBackup
  <2> QED
    BY <1>16, <2>1 DEF TypeOK, HandleDeleteBackup, panel
<1>17. ASSUME NEW r \in Requests, HandleSetSchedule(r) PROVE TypeOK'
  <2>1. row' \in [enabled : BOOLEAN, lastRun : 0..MaxTime]
    BY <1>17 DEF HandleSetSchedule, TypeOK
  <2> QED
    BY <1>17, <2>1 DEF TypeOK, HandleSetSchedule, daemon, hist
<1>18. CASE UNCHANGED vars
  BY <1>18 DEF TypeOK, vars
<1> QED
  BY <1>1, <1>2, <1>3, <1>4, <1>5, <1>6, <1>7, <1>8, <1>9, <1>10, <1>11, <1>12, <1>13, <1>14, <1>15, <1>16,
     <1>17, <1>18 DEF Next, RecordSuccess, RecordFailure

\* Module Backups: its variables have their types in every behaviour.
THEOREM TypeCorrect == Spec => []TypeOK
<1>1. Init => TypeOK
  BY InitTyped
<1>2. TypeOK /\ [Next]_vars => TypeOK'
  BY TypeStep
<1> QED
  BY <1>1, <1>2, PTL DEF Spec

\* ------------------------------------------------------- a whole backup remains

\* The archive the scheduled backup has made.
Own == [at |-> round.at, manual |-> FALSE, whole |-> TRUE]

\* A writer the scheduled backup waits for writes the archive of this backup.
OwnWriter == \A w \in writers : w.caller = "round" => round.pc = "wait" /\ w.at = round.at /\ ~w.manual

\* No archive is from the future; while the scheduled backup waits, its own is the
\* newest automatic one, and young.
Timely ==
  /\ \A f \in files : f.at <= now
  /\ round.pc \in {"wait", "list"} =>
       /\ round.at \in 1..now /\ now - round.at <= Patience
       /\ \A f \in Autos(files) : f.at <= round.at

\* What the rotation will leave.
Listed == had /\ round.pc = "list" => Own \in files
Spared == had /\ round.pc = "prune" =>
            \E f \in Autos(files) : f.whole /\ \A e \in round.doomed : ~(e.at = f.at /\ e.manual = f.manual)

IInv == TypeOK /\ OwnWriter /\ Timely /\ Listed /\ Spared /\ WholeBackupRemains

LEMMA InitInv == Init => IInv
<1> SUFFICES ASSUME Init PROVE IInv
  OBVIOUS
<1>1. TypeOK
  BY InitTyped
<1>2. OwnWriter /\ Timely /\ Listed /\ Spared /\ WholeBackupRemains
  BY DEF Init, OwnWriter, Timely, Listed, Spared, WholeBackupRemains
<1> QED
  BY <1>1, <1>2 DEF IInv

\* Steps that take no whole automatic archive away while had stays, add no automatic
\* one, and leave the scheduled backup where it is or end it.
LEMMA Harmless ==
  ASSUME IInv, TypeOK', OwnWriter', now' = now,
         had' => had /\ \A f \in files : f.whole /\ ~f.manual => f \in files',
         \A f \in files' : f.at <= now /\ (~f.manual => \E g \in files : ~g.manual /\ g.at = f.at),
         round' = round \/ round'.pc \in {"idle", "call", "failed"}
  PROVE  IInv'
<1>1. Timely'
  <2>1. \A f \in files' : f.at <= now'
    OBVIOUS
  <2>2. ASSUME round'.pc \in {"wait", "list"}
        PROVE  /\ round'.at \in 1..now' /\ now' - round'.at <= Patience
               /\ \A f \in Autos(files') : f.at <= round'.at
    <3>1. round' = round
      BY <2>2
    <3>2. /\ round.at \in 1..now /\ now - round.at <= Patience
          /\ \A f \in Autos(files) : f.at <= round.at
      BY <2>2, <3>1 DEF IInv, Timely
    <3>3. \A f \in Autos(files') : f.at <= round.at
      BY <3>2 DEF Autos
    <3> QED
      BY <3>1, <3>2, <3>3
  <2> QED
    BY <2>1, <2>2 DEF Timely
<1>2. Listed'
  <2> SUFFICES ASSUME had', round'.pc = "list" PROVE Own' \in files'
    BY DEF Listed
  <2>1. round' = round
    OBVIOUS
  <2>2. Own \in files
    BY <2>1 DEF IInv, Listed
  <2> QED
    BY <2>1, <2>2 DEF Own
<1>3. Spared'
  <2> SUFFICES ASSUME had', round'.pc = "prune"
               PROVE  \E f \in Autos(files') :
                        f.whole /\ \A e \in round'.doomed : ~(e.at = f.at /\ e.manual = f.manual)
    BY DEF Spared
  <2>1. round' = round
    OBVIOUS
  <2>2. PICK f \in Autos(files) :
          f.whole /\ \A e \in round.doomed : ~(e.at = f.at /\ e.manual = f.manual)
    BY <2>1 DEF IInv, Spared
  <2>3. f \in Autos(files')
    BY <2>2 DEF Autos
  <2> QED
    BY <2>1, <2>2, <2>3
<1>4. WholeBackupRemains'
  <2> SUFFICES ASSUME had' PROVE \E f \in Autos(files') : f.whole
    BY DEF WholeBackupRemains
  <2>1. PICK f \in Autos(files) : f.whole
    BY DEF IInv, WholeBackupRemains
  <2> QED
    BY <2>1 DEF Autos
<1> QED
  BY <1>1, <1>2, <1>3, <1>4 DEF IInv

LEMMA SameFiles ==
  ASSUME IInv
  PROVE  \A f \in files : f.at <= now /\ (~f.manual => \E g \in files : ~g.manual /\ g.at = f.at)
BY DEF IInv, Timely

LEMMA NobodyWaits ==
  ASSUME TypeOK, NEW C, "round" \in C PROVE \A w \in Abandoned(C) : w.caller # "round"
<1> SUFFICES ASSUME NEW v \in writers
             PROVE  (IF v.caller \in C THEN [v EXCEPT !.caller = "nobody"] ELSE v).caller # "round"
  BY DEF Abandoned
<1>1. CASE v.caller \in C
  <2>1. [v EXCEPT !.caller = "nobody"].caller = "nobody"
    BY DEF TypeOK
  <2> QED
    BY <1>1, <2>1
<1>2. CASE v.caller \notin C
  BY <1>2
<1> QED
  BY <1>1, <1>2

\* A refusal ends the scheduled backup if that was waiting.
LEMMA RefusalEnds ==
  ASSUME TypeOK, NEW C, Answer(C, FALSE)
  PROVE  IF "round" \in C THEN round'.pc = "failed" ELSE round' = round
BY DEF Answer, TypeOK

LEMMA FinishKeeps ==
  ASSUME IInv, TypeOK', NEW w \in writers, FinishArchive(w) PROVE IInv'
<1> USE DEF panel
<1>0. TypeOK /\ OwnWriter /\ now' = now
  BY DEF IInv, FinishArchive
<1>1. CASE File(w, FALSE) \notin files
  <2>1. writers' = {} /\ files' = files /\ had' = had /\ Answer({v.caller : v \in writers}, FALSE)
    BY <1>1 DEF FinishArchive, DaemonDies
  <2>2. round' = round \/ round'.pc = "failed"
    BY <1>0, <2>1, RefusalEnds
  <2>3. OwnWriter'
    BY <2>1 DEF OwnWriter
  <2> QED
    BY <1>0, <2>1, <2>2, <2>3, SameFiles, Harmless
<1>2. CASE File(w, FALSE) \in files
  <2>1. /\ files' = (files \ {File(w, FALSE)}) \cup {File(w, TRUE)}
        /\ writers' = writers \ {w} /\ had' = (had \/ w.caller = "round")
        /\ Answer({w.caller}, TRUE)
    BY <1>2 DEF FinishArchive
  <2>2. /\ File(w, FALSE).at = w.at /\ File(w, FALSE).manual = w.manual /\ File(w, FALSE).whole = FALSE
        /\ File(w, TRUE).at = w.at /\ File(w, TRUE).manual = w.manual /\ File(w, TRUE).whole = TRUE
    BY DEF File
  <2>3. \A f \in files' : \E g \in files : g.at = f.at /\ g.manual = f.manual
    BY <1>2, <2>1, <2>2
  <2>4. \A f \in files : f.whole => f \in files'
    BY <2>1, <2>2
  <2>5. \A f \in files' : f.at <= now /\ (~f.manual => \E g \in files : ~g.manual /\ g.at = f.at)
    BY <2>3, SameFiles
  <2>6. CASE w.caller # "round"
    <3>1. round' = round /\ had' = had
      BY <2>1, <2>6 DEF Answer, IInv, TypeOK
    <3>2. OwnWriter'
      BY <1>0, <2>1, <3>1 DEF OwnWriter
    <3> QED
      BY <1>0, <2>4, <2>5, <3>1, <3>2, Harmless
  <2>7. CASE w.caller = "round"
    <3>1. round.pc = "wait" /\ w.at = round.at /\ w.manual = FALSE
      BY <1>0, <2>7 DEF OwnWriter, TypeOK
    <3>2. round'.pc = "list" /\ round'.at = round.at
      BY <1>0, <2>1, <2>7 DEF Answer, TypeOK
    <3>3. Own' = File(w, TRUE)
      BY <3>1, <3>2 DEF Own, File
    <3>4. Own' \in files' /\ Own'.whole /\ ~Own'.manual
      BY <2>1, <2>2, <3>1, <3>3
    <3>5. OwnWriter'
      \* a second writer of the same archive would still be waited for
      <4>1. \A v \in writers' : v \in writers /\ v # w
        BY <2>1
      <4>2. ASSUME NEW v \in writers', v.caller = "round" PROVE v = w
        <5>1. v.at = w.at /\ v.manual = w.manual /\ v.caller = w.caller
          BY <1>0, <2>7, <3>1, <4>1, <4>2 DEF OwnWriter, TypeOK
        <5>2. /\ v \in [at : 1..MaxTime, manual : BOOLEAN, caller : Requests \cup {"round", "nobody"}]
              /\ w \in [at : 1..MaxTime, manual : BOOLEAN, caller : Requests \cup {"round", "nobody"}]
          BY <1>0, <4>1 DEF TypeOK
        <5> QED
          BY <5>1, <5>2
      <4> QED
        BY <4>1, <4>2 DEF OwnWriter
    <3>6. Timely'
      <4>1. /\ round.at \in 1..now /\ now - round.at <= Patience
            /\ \A f \in Autos(files) : f.at <= round.at
        BY <3>1 DEF IInv, Timely
      <4>2. \A f \in Autos(files') : f.at <= round.at
        BY <2>5, <4>1 DEF Autos
      <4> QED
        BY <1>0, <2>5, <3>2, <4>1, <4>2 DEF Timely
    <3>7. Listed' /\ Spared' /\ WholeBackupRemains'
      BY <3>2, <3>4 DEF Listed, Spared, WholeBackupRemains, Autos
    <3> QED
      BY <3>5, <3>6, <3>7 DEF IInv
  <2> QED
    BY <2>6, <2>7
<1> QED
  BY <1>1, <1>2

LEMMA CallKeeps == ASSUME IInv, TypeOK', CallBackup PROVE IInv'
<1>0. TypeOK /\ OwnWriter /\ Timely /\ now' = now /\ had' = had /\ round.pc = "call"
  BY DEF IInv, CallBackup
<1>1. CASE ~link
  <2>1. files' = files /\ writers' = writers /\ round'.pc = "failed"
    BY <1>1 DEF CallBackup, Goto, daemon
  <2>2. OwnWriter'
    BY <1>0, <2>1 DEF OwnWriter
  <2> QED
    BY <1>0, <2>1, <2>2, SameFiles, Harmless
<1>2. CASE link
  <2>1. /\ files' = files \cup {At(FALSE, now)}
        /\ writers' = writers \cup {[at |-> now, manual |-> FALSE, caller |-> "round"]}
        /\ round'.pc = "wait" /\ round'.at = now
    <3>1. Create(FALSE, "round") /\ round' = [pc |-> "wait", at |-> now, doomed |-> {}]
      BY <1>2 DEF CallBackup
    <3>2. files' = files \cup {At(FALSE, now)}
          /\ writers' = writers \cup {[at |-> now, manual |-> FALSE, caller |-> "round"]}
      BY <3>1 DEF Create
    <3> QED
      BY <3>1, <3>2
  <2>2. OwnWriter'
    BY <1>0, <2>1 DEF OwnWriter
  <2>3. At(FALSE, now).at = now /\ now \in 1..now /\ now - now <= Patience
    BY <1>0, BackupsAssumption DEF At, TypeOK
  <2>4. \A f \in files' : f.at <= now
    <3>1. \A f \in files : f.at <= now
      BY <1>0 DEF Timely
    <3>2. now <= now
      BY <1>0 DEF TypeOK
    <3>3. At(FALSE, now).at <= now
      BY <2>3, <3>2
    <3> QED
      BY <2>1, <3>1, <3>3
  <2>5. Timely'
    BY <1>0, <2>1, <2>3, <2>4 DEF Timely, Autos
  <2>6. Listed' /\ Spared'
    BY <2>1 DEF Listed, Spared
  <2>7. WholeBackupRemains'
    BY <1>0, <2>1 DEF IInv, WholeBackupRemains, Autos
  <2> QED
    BY <2>2, <2>5, <2>6, <2>7 DEF IInv
<1> QED
  BY <1>1, <1>2

LEMMA ListKeeps == ASSUME IInv, TypeOK', ListBackups PROVE IInv'
<1>0. /\ TypeOK /\ OwnWriter /\ Timely /\ now' = now /\ had' = had
      /\ files' = files /\ writers' = writers /\ round.pc = "list" /\ round'.pc = "prune"
  BY DEF IInv, ListBackups, Goto, daemon, hist
<1>1. OwnWriter' /\ Listed'
  BY <1>0 DEF OwnWriter, Listed
<1>2. Timely'
  BY <1>0 DEF Timely
<1>3. WholeBackupRemains'
  BY <1>0 DEF IInv, WholeBackupRemains
<1>4. Spared'
  <2> SUFFICES ASSUME had PROVE \E f \in Autos(files) :
                 f.whole /\ \A e \in round'.doomed : ~(e.at = f.at /\ e.manual = f.manual)
    BY <1>0 DEF Spared
  <2>1. Own \in Autos(files) /\ Own.whole /\ Own.at = round.at /\ ~Own.manual
    BY <1>0 DEF IInv, Listed, Own, Autos
  <2>2. ASSUME NEW e \in round'.doomed, e.at = Own.at, e.manual = Own.manual PROVE FALSE
    <3>1. e \in SelectExpired(files, Policy, now)
      BY <2>2 DEF ListBackups, Goto
    <3>2. e \in files /\ e.at \in Int /\ now \in Int /\ round.at \in Int /\ ~e.manual
      BY <1>0, <2>1, <2>2, <3>1, ExpiredAreListed DEF TypeOK
    <3>3. \A f \in Autos(files) : f.at \in Int /\ f.at <= e.at
      BY <1>0, <2>1, <2>2 DEF Timely, Autos, TypeOK
    <3>4. 0 <= now - e.at /\ now - e.at <= Patience
      BY <1>0, <2>1, <2>2, <3>2 DEF Timely
    <3>5. Policy.tiers # <<>> => now - e.at <= Policy.tiers[1].within * Hour
      <4> SUFFICES ASSUME Policy.tiers # <<>> PROVE now - e.at <= Policy.tiers[1].within * Hour
        OBVIOUS
      <4>1. Patience \in Nat /\ Patience <= Policy.tiers[1].within * Hour
        BY BackupsAssumption
      <4>2. Policy.tiers[1].within * Hour \in Int
        <5>1. Policy.tiers \in Seq([within : Nat \ {0}, keep : Nat \ {0}])
          BY BackupsAssumption
        <5>2. 1 \in 1..Len(Policy.tiers)
          BY <5>1, EmptySeq
        <5>3. Policy.tiers[1] \in [within : Nat \ {0}, keep : Nat \ {0}]
          BY <5>1, <5>2, ElementOfSeq
        <5> QED
          BY <5>3, HourAssumption
      <4> QED
        BY <3>2, <3>4, <4>1, <4>2
    <3> QED
      BY <3>1, <3>2, <3>3, <3>4, <3>5, NewestStays
  <2> QED
    BY <2>1, <2>2
<1> QED
  BY <1>0, <1>1, <1>2, <1>3, <1>4 DEF IInv

LEMMA DeleteKeeps == ASSUME IInv, TypeOK', DeleteExpired PROVE IInv'
<1>0. /\ TypeOK /\ OwnWriter /\ Timely /\ now' = now /\ had' = had
      /\ writers' = writers /\ round.pc = "prune" /\ round'.pc = "prune" /\ files' \subseteq files
  BY DEF IInv, DeleteExpired, Goto, hist
<1>1. PICK d \in round.doomed :
        /\ files' = IF link THEN {f \in files : ~(f.at = d.at /\ f.manual = d.manual)} ELSE files
        /\ round'.doomed = round.doomed \ {d}
  <2>1. PICK d \in round.doomed :
          /\ files' = IF link THEN {f \in files : ~(f.at = d.at /\ f.manual = d.manual)} ELSE files
          /\ Goto("prune", round.doomed \ {d})
    BY DEF DeleteExpired
  <2>2. round'.doomed = round.doomed \ {d}
    BY <2>1 DEF Goto
  <2> QED
    BY <2>1, <2>2
<1>2. OwnWriter' /\ Listed'
  BY <1>0 DEF OwnWriter, Listed
<1>3. Timely'
  BY <1>0 DEF Timely
<1>4. had => \E f \in Autos(files') :
        f.whole /\ \A e \in round'.doomed : ~(e.at = f.at /\ e.manual = f.manual)
  <2> SUFFICES ASSUME had PROVE \E f \in Autos(files') :
                 f.whole /\ \A e \in round'.doomed : ~(e.at = f.at /\ e.manual = f.manual)
    OBVIOUS
  <2>1. PICK f \in Autos(files) : f.whole /\ \A e \in round.doomed : ~(e.at = f.at /\ e.manual = f.manual)
    BY <1>0 DEF IInv, Spared
  <2>2. f \in Autos(files')
    BY <1>1, <2>1 DEF Autos
  <2> QED
    BY <1>1, <2>1, <2>2
<1>5. Spared' /\ WholeBackupRemains'
  BY <1>0, <1>4 DEF Spared, WholeBackupRemains
<1> QED
  BY <1>2, <1>3, <1>5 DEF IInv

LEMMA TickKeeps == ASSUME IInv, TypeOK', Tick PROVE IInv'
<1>0. /\ TypeOK /\ OwnWriter /\ Timely /\ now' = now + 1 /\ now \in Nat /\ had' = had
      /\ files' = files /\ writers' = writers /\ round' = round
      /\ (round.pc \in {"wait", "list"} => now - round.at < Patience)
  BY DEF IInv, Tick, daemon, hist, TypeOK
<1>1. \A f \in files' : f.at <= now'
  BY <1>0 DEF Timely, TypeOK
<1>2. ASSUME round.pc \in {"wait", "list"}
      PROVE  round.at \in 1..now' /\ now' - round.at <= Patience
  <2>1. round.at \in 1..now /\ now - round.at < Patience /\ Patience \in Nat
    BY <1>0, <1>2, BackupsAssumption DEF Timely
  <2> QED
    BY <1>0, <2>1
<1>3. Timely'
  BY <1>0, <1>1, <1>2 DEF Timely
<1>4. OwnWriter'
  BY <1>0 DEF OwnWriter
<1>5. Listed'
  BY <1>0 DEF IInv, Listed, Own
<1>6. Spared'
  BY <1>0 DEF IInv, Spared
<1>7. WholeBackupRemains'
  BY <1>0 DEF IInv, WholeBackupRemains
<1> QED
  BY <1>5, <1>6, <1>7, <1>3, <1>4, <1>5 DEF IInv

LEMMA FailKeeps ==
  ASSUME IInv, TypeOK', NEW w \in writers, FailArchive(w) PROVE IInv'
<1>0. TypeOK /\ OwnWriter /\ now' = now /\ had' = had /\ files' \subseteq files
      /\ writers' = writers \ {w} /\ Answer({w.caller}, FALSE)
  BY DEF IInv, FailArchive, hist
<1>1. \A f \in files : f.whole /\ ~f.manual => f \in files'
  <2>1. File(w, FALSE).whole = FALSE
    BY DEF File
  <2>2. files' = files \/ files' = files \ {File(w, FALSE)}
    BY DEF FailArchive
  <2> QED
    BY <2>1, <2>2
<1>2. IF w.caller = "round" THEN round'.pc = "failed" ELSE round' = round
  <2>1. "round" \in {w.caller} <=> w.caller = "round"
    OBVIOUS
  <2>2. IF "round" \in {w.caller} THEN round'.pc = "failed" ELSE round' = round
    BY <1>0, RefusalEnds
  <2> QED
    BY <2>1, <2>2
<1>3. OwnWriter'
  <2>1. CASE w.caller # "round"
    BY <1>0, <1>2, <2>1 DEF OwnWriter
  <2>2. CASE w.caller = "round"
    \* a second writer of the same archive would still be waited for
    <3>1. ASSUME NEW v \in writers', v.caller = "round" PROVE v = w
      <4>1. v.at = w.at /\ v.manual = FALSE /\ w.manual = FALSE
        BY <1>0, <2>2, <3>1 DEF OwnWriter, TypeOK
      <4>2. /\ v \in [at : 1..MaxTime, manual : BOOLEAN, caller : Requests \cup {"round", "nobody"}]
            /\ w \in [at : 1..MaxTime, manual : BOOLEAN, caller : Requests \cup {"round", "nobody"}]
        BY <1>0 DEF TypeOK
      <4> QED
        BY <2>2, <3>1, <4>1, <4>2
    <3> QED
      BY <1>0, <3>1 DEF OwnWriter
  <2> QED
    BY <2>1, <2>2
<1>4. round' = round \/ round'.pc = "failed"
  BY <1>2
<1>5. \A f \in files' : f.at <= now /\ (~f.manual => \E g \in files : ~g.manual /\ g.at = f.at)
  BY <1>0, SameFiles
<1> QED
  BY <1>0, <1>1, <1>3, <1>4, <1>5, Harmless

\* The steps that leave the archives alone.
LEMMA RestKeeps ==
  ASSUME IInv, TypeOK', files' = files, now' = now, had' = had, OwnWriter',
         round' = round \/ round'.pc \in {"idle", "call", "failed"}
  PROVE  IInv'
BY SameFiles, Harmless

LEMMA HandleCreateKeeps ==
  ASSUME IInv, TypeOK', NEW r \in Requests, HandleCreateBackup(r) PROVE IInv'
<1>0. /\ TypeOK /\ OwnWriter /\ Timely /\ now' = now /\ had' = had /\ round' = round
      /\ Create(TRUE, r)
  BY DEF IInv, HandleCreateBackup
<1>1. /\ files' = files \cup {At(TRUE, now)}
      /\ writers' = writers \cup {[at |-> now, manual |-> TRUE, caller |-> r]}
  BY <1>0 DEF Create
<1>2. r # "round"
  BY BackupsAssumption
<1>3. OwnWriter'
  BY <1>0, <1>1, <1>2 DEF OwnWriter
<1>4. At(TRUE, now).at = now /\ At(TRUE, now).manual = TRUE /\ now <= now
  BY <1>0 DEF At, TypeOK
<1>5. \A f \in files' : f.at <= now /\ (~f.manual => \E g \in files : ~g.manual /\ g.at = f.at)
  BY <1>1, <1>4, SameFiles
<1> QED
  BY <1>0, <1>1, <1>3, <1>5, Harmless

LEMMA HandleDeleteKeeps ==
  ASSUME IInv, TypeOK', NEW r \in Requests, HandleDeleteBackup(r) PROVE IInv'
<1>0. /\ TypeOK /\ OwnWriter /\ now' = now /\ round' = round /\ writers' = writers
  BY DEF IInv, HandleDeleteBackup
<1>1. PICK f \in files : files' = files \ {f} /\ had' = (had /\ f.manual)
  BY DEF HandleDeleteBackup
<1>2. OwnWriter'
  BY <1>0 DEF OwnWriter
<1>3. had' => had /\ \A g \in files : g.whole /\ ~g.manual => g \in files'
  BY <1>1
<1>4. \A g \in files' : g.at <= now /\ (~g.manual => \E h \in files : ~h.manual /\ h.at = g.at)
  BY <1>1, SameFiles
<1> QED
  BY <1>0, <1>2, <1>3, <1>4, Harmless

LEMMA StepInv == IInv /\ [Next]_vars => IInv'
<1> SUFFICES ASSUME IInv, [Next]_vars PROVE IInv'
  OBVIOUS
<1>0. TypeOK /\ OwnWriter /\ TypeOK'
  BY TypeStep DEF IInv
<1>1. CASE Tick
  BY <1>0, <1>1, TickKeeps
<1>2. CASE DaemonCrashes
  <2>1. writers' = {} /\ files' = files /\ had' = had /\ now' = now
        /\ Answer({w.caller : w \in writers}, FALSE)
    BY <1>2 DEF DaemonCrashes, DaemonDies
  <2>2. round' = round \/ round'.pc = "failed"
    BY <1>0, <2>1, RefusalEnds
  <2>3. OwnWriter'
    BY <2>1 DEF OwnWriter
  <2> QED
    BY <1>0, <2>1, <2>2, <2>3, RestKeeps
<1>3. CASE LinkFails
  <2>1. files' = files /\ now' = now /\ had' = had /\ writers' = Abandoned(Requests \cup {"round"})
    BY <1>3 DEF LinkFails, hist
  <2>2. round' = round \/ round'.pc = "failed"
    BY <1>0, <1>3 DEF LinkFails, TypeOK
  <2>3. OwnWriter'
    BY <1>0, <2>1, NobodyWaits DEF OwnWriter
  <2> QED
    BY <1>0, <2>1, <2>2, <2>3, RestKeeps
<1>4. CASE PanelStops
  <2>1. files' = files /\ now' = now /\ had' = had /\ writers' = Abandoned(Requests \cup {"round"})
        /\ round'.pc = "idle"
    BY <1>4 DEF PanelStops, hist, Goto
  <2>2. OwnWriter'
    BY <1>0, <2>1, NobodyWaits DEF OwnWriter
  <2> QED
    BY <1>0, <2>1, <2>2, RestKeeps
<1>5. CASE GiveUpWaiting
  <2>1. files' = files /\ now' = now /\ had' = had /\ writers' = Abandoned({"round"}) /\ round'.pc = "failed"
    BY <1>5 DEF GiveUpWaiting, hist, Goto
  <2>2. OwnWriter'
    BY <1>0, <2>1, NobodyWaits DEF OwnWriter
  <2> QED
    BY <1>0, <2>1, <2>2, RestKeeps
<1>6. ASSUME NEW w \in writers, FinishArchive(w) PROVE IInv'
  BY <1>0, <1>6, FinishKeeps
<1>7. ASSUME NEW w \in writers, FailArchive(w) PROVE IInv'
  BY <1>0, <1>7, FailKeeps
<1>8. CASE BeginBackup
  <2>1. files' = files /\ now' = now /\ had' = had /\ writers' = writers
        /\ round.pc = "idle" /\ round'.pc = "call"
    BY <1>8 DEF BeginBackup, Goto, daemon, hist
  <2>2. OwnWriter'
    BY <1>0, <2>1 DEF OwnWriter
  <2> QED
    BY <1>0, <2>1, <2>2, RestKeeps
<1>9. CASE CallBackup
  BY <1>0, <1>9, CallKeeps
<1>10. CASE ListBackups
  BY <1>0, <1>10, ListKeeps
<1>11. CASE DeleteExpired
  BY <1>0, <1>11, DeleteKeeps
<1>12. ASSUME NEW b \in BOOLEAN, Record(b), round.pc \in {"prune", "failed"} PROVE IInv'
  <2>1. files' = files /\ now' = now /\ had' = had /\ writers' = writers /\ round'.pc = "idle"
    BY <1>12 DEF Record, Goto, daemon, hist
  <2>2. OwnWriter'
    BY <1>0, <1>12, <2>1 DEF OwnWriter
  <2> QED
    BY <1>0, <2>1, <2>2, RestKeeps
<1>13. ASSUME files' = files, now' = now, had' = had, writers' = writers, round' = round PROVE IInv'
  <2>1. OwnWriter'
    BY <1>0, <1>13 DEF OwnWriter
  <2> QED
    BY <1>0, <1>13, <2>1, RestKeeps
<1>14. CASE LinkReturns
  BY <1>13, <1>14 DEF LinkReturns, daemon, hist
<1>15. CASE PanelStarts
  BY <1>13, <1>15 DEF PanelStarts, daemon, hist
<1>16. ASSUME NEW r \in Requests, HandleCreateBackup(r) PROVE IInv'
  BY <1>0, <1>16, HandleCreateKeeps
<1>17. ASSUME NEW r \in Requests, HandleDeleteBackup(r) PROVE IInv'
  BY <1>0, <1>17, HandleDeleteKeeps
<1>18. ASSUME NEW r \in Requests, HandleSetSchedule(r) PROVE IInv'
  BY <1>13, <1>18 DEF HandleSetSchedule, daemon, hist
<1>19. CASE UNCHANGED vars
  BY <1>13, <1>19 DEF vars
<1> QED
  BY <1>1, <1>2, <1>3, <1>4, <1>5, <1>6, <1>7, <1>8, <1>9, <1>10, <1>11, <1>12, <1>14, <1>15, <1>16,
     <1>17, <1>18, <1>19 DEF Next, RecordSuccess, RecordFailure

\* Module Backups: once a scheduled backup has succeeded there is a whole automatic
\* backup until a user deletes one, whatever the policy, the faults and the requests.
THEOREM WholeBackupIsKept == Spec => []WholeBackupRemains
<1>1. Init => IInv
  BY InitInv
<1>2. IInv /\ [Next]_vars => IInv'
  BY StepInv
<1>3. IInv => WholeBackupRemains
  BY DEF IInv
<1> QED
  BY <1>1, <1>2, <1>3, PTL DEF Spec

\* --------------------------------------------- manual backups are not pushed out

\* Manual backups are told apart by their times, and every one was made by a user.
OneEach == \A f, g \in Manuals(files) : f.at = g.at => f = g
Recorded == \A f \in Manuals(files) : f.at \in made

\* As many newer ones were made as the policy keeps.
Outdated(t) == Cardinality({u \in made : u > t}) >= Policy.manualKeep
OldOnly == round.pc = "prune" => \A e \in Manuals(round.doomed) : Outdated(e.at)

\* The second inductive invariant: what the rotation deletes was outdated when it was
\* listed, and the times of manual backups only get more.
Sparing == TypeOK /\ OneEach /\ Recorded /\ OldOnly

\* A backup made later makes no other less outdated.
LEMMA StaysOutdated ==
  ASSUME TypeOK, TypeOK', made \subseteq made', NEW t \in Int, Outdated(t) PROVE Outdated(t)'
<1> DEFINE A == {u \in made : u > t}
           B == {u \in made' : u > t}
<1>1. Policy.manualKeep \in Nat /\ MaxTime \in Nat
  BY BackupsAssumption
<1>2. IsFiniteSet(1..MaxTime)
  BY <1>1, FS_Interval
<1>3. A \subseteq B /\ B \subseteq 1..MaxTime
  BY DEF TypeOK
<1>4. IsFiniteSet(B)
  BY <1>2, <1>3, FS_Subset
<1>5. Cardinality(A) <= Cardinality(B) /\ IsFiniteSet(A)
  BY <1>3, <1>4, FS_Subset
<1>6. Cardinality(A) \in Nat /\ Cardinality(B) \in Nat
  BY <1>4, <1>5, FS_CardinalityType
<1> HIDE DEF A, B
<1>7. Cardinality(A) >= Policy.manualKeep => Cardinality(B) >= Policy.manualKeep
  BY <1>1, <1>5, <1>6
<1> QED
  BY <1>7 DEF A, B, Outdated

\* There are no more manual backups newer than one than there are times of such backups.
LEMMA NewerWereMade ==
  ASSUME TypeOK, OneEach, Recorded, NEW e \in files, e.manual,
         ~(Cardinality(Newer(e, Manuals(files))) < Policy.manualKeep)
  PROVE  Outdated(e.at)
<1> DEFINE A == Newer(e, Manuals(files))
           B == {u \in made : u > e.at}
           f == [x \in A |-> x.at]
<1>1. Policy.manualKeep \in Nat /\ MaxTime \in Nat
  BY BackupsAssumption
<1>2. IsFiniteSet(B)
  <2>1. IsFiniteSet(1..MaxTime)
    BY <1>1, FS_Interval
  <2>2. B \subseteq 1..MaxTime
    BY DEF TypeOK
  <2> HIDE DEF B
  <2> QED
    BY <2>1, <2>2, FS_Subset
<1>3. f \in Injection(A, B)
  <2>1. \A x \in A : x \in Manuals(files) /\ x.at > e.at /\ x.at \in made
    BY DEF Newer, Manuals, Recorded
  <2>2. f \in [A -> B]
    BY <2>1
  <2>3. \A x, y \in A : f[x] = f[y] => x = y
    BY <2>1 DEF OneEach
  <2> QED
    BY <2>2, <2>3 DEF Injection, IsInjective
<1>4. IsFiniteSet(A) /\ Cardinality(A) <= Cardinality(B)
  BY <1>2, <1>3, FS_Injection
<1>5. Cardinality(A) \in Nat /\ Cardinality(B) \in Nat
  BY <1>2, <1>4, FS_CardinalityType
<1>6. ~(Cardinality(A) < Policy.manualKeep)
  OBVIOUS
<1> HIDE DEF A, B
<1>7. Cardinality(B) >= Policy.manualKeep
  BY <1>1, <1>4, <1>5, <1>6
<1> QED
  BY <1>7 DEF B, Outdated

\* Steps that add no manual archive, or a new one that is recorded, and leave what the
\* rotation is to delete where it is.
LEMMA SparingKept ==
  ASSUME Sparing, TypeOK', made \subseteq made',
         \A f, g \in Manuals(files') : f.at = g.at => f = g,
         \A f \in Manuals(files') : f.at \in made',
         round'.pc = "prune" => round.pc = "prune" /\ round'.doomed \subseteq round.doomed
  PROVE  Sparing'
<1>1. OneEach' /\ Recorded'
  BY DEF OneEach, Recorded
<1>2. OldOnly'
  <2> SUFFICES ASSUME round'.pc = "prune", NEW e \in Manuals(round'.doomed) PROVE Outdated(e.at)'
    BY DEF OldOnly
  <2>1. e \in Manuals(round.doomed) /\ round.pc = "prune"
    BY DEF Manuals
  <2>2. Outdated(e.at) /\ TypeOK
    BY <2>1 DEF Sparing, OldOnly
  <2>3. e.at \in Int
    BY <2>1, <2>2 DEF TypeOK, Manuals
  <2> QED
    BY <2>2, <2>3, StaysOutdated
<1> QED
  BY <1>1, <1>2 DEF Sparing

LEMMA SparingFewer ==
  ASSUME Sparing, TypeOK', made' = made, files' \subseteq files,
         round'.pc = "prune" => round.pc = "prune" /\ round'.doomed \subseteq round.doomed
  PROVE  Sparing'
<1>1. Manuals(files') \subseteq Manuals(files)
  BY DEF Manuals
<1>2. /\ \A f, g \in Manuals(files') : f.at = g.at => f = g
      /\ \A f \in Manuals(files') : f.at \in made'
  BY <1>1 DEF Sparing, OneEach, Recorded
<1> QED
  BY <1>2, SparingKept

\* An answer does not start a rotation's deletions.
LEMMA AnswerPrunesNothing ==
  ASSUME TypeOK, NEW C, NEW ok \in BOOLEAN, Answer(C, ok)
  PROVE  round'.pc = "prune" => round.pc = "prune" /\ round'.doomed \subseteq round.doomed
BY DEF Answer, TypeOK

LEMMA SparingCreate ==
  ASSUME Sparing, TypeOK', NEW m \in BOOLEAN, NEW c, Create(m, c),
         round'.pc = "prune" => round.pc = "prune" /\ round'.doomed \subseteq round.doomed
  PROVE  Sparing'
<1>1. /\ ~SameTime(m) /\ files' = files \cup {At(m, now)}
      /\ made' = IF m THEN made \cup {now} ELSE made
  BY DEF Create
<1>2. At(m, now).at = now /\ At(m, now).manual = m
  BY DEF At
<1>3. CASE m
  <2>1. Manuals(files') = Manuals(files) \cup {At(m, now)} /\ made' = made \cup {now}
    BY <1>1, <1>2, <1>3 DEF Manuals
  <2>2. \A f \in Manuals(files) : f.at # now /\ f.at \in made
    BY <1>1, <1>3 DEF Sparing, Recorded, SameTime, Manuals, TypeOK
  <2>3. \A f, g \in Manuals(files') : f.at = g.at => f = g
    BY <1>2, <2>1, <2>2 DEF Sparing, OneEach
  <2>4. \A f \in Manuals(files') : f.at \in made'
    BY <1>2, <2>1, <2>2
  <2> QED
    BY <2>1, <2>3, <2>4, SparingKept
<1>4. CASE ~m
  <2>1. Manuals(files') = Manuals(files) /\ made' = made
    BY <1>1, <1>2, <1>4 DEF Manuals
  <2>2. /\ \A f, g \in Manuals(files') : f.at = g.at => f = g
        /\ \A f \in Manuals(files') : f.at \in made'
    BY <2>1 DEF Sparing, OneEach, Recorded
  <2> QED
    BY <2>1, <2>2, SparingKept
<1> QED
  BY <1>3, <1>4

LEMMA SparingFinish ==
  ASSUME Sparing, TypeOK', NEW w \in writers, FinishArchive(w) PROVE Sparing'
<1>0. TypeOK /\ made' = made
  BY DEF Sparing, FinishArchive
<1>1. CASE File(w, FALSE) \notin files
  <2>1. files' = files /\ Answer({v.caller : v \in writers}, FALSE)
    BY <1>1 DEF FinishArchive, DaemonDies
  <2>2. round'.pc = "prune" => round.pc = "prune" /\ round'.doomed \subseteq round.doomed
    BY <1>0, <2>1, AnswerPrunesNothing
  <2> QED
    BY <1>0, <2>1, <2>2, SparingFewer
<1>2. CASE File(w, FALSE) \in files
  <2>1. files' = (files \ {File(w, FALSE)}) \cup {File(w, TRUE)} /\ Answer({w.caller}, TRUE)
    BY <1>2 DEF FinishArchive
  <2>2. round'.pc = "prune" => round.pc = "prune" /\ round'.doomed \subseteq round.doomed
    BY <1>0, <2>1, AnswerPrunesNothing
  <2>3. \A b \in BOOLEAN : File(w, b).at = w.at /\ File(w, b).manual = w.manual
    BY DEF File
  <2>4. \A f \in Manuals(files') :
          \/ f = File(w, TRUE) /\ File(w, FALSE) \in Manuals(files)
          \/ f \in Manuals(files) /\ f # File(w, FALSE)
    BY <1>2, <2>1, <2>3 DEF Manuals
  <2>5. \A f, g \in Manuals(files') : f.at = g.at => f = g
    BY <2>3, <2>4 DEF Sparing, OneEach
  <2>6. \A f \in Manuals(files') : f.at \in made'
    BY <1>0, <2>3, <2>4 DEF Sparing, Recorded
  <2> QED
    BY <1>0, <2>2, <2>5, <2>6, SparingKept
<1> QED
  BY <1>1, <1>2

LEMMA SparingList == ASSUME Sparing, TypeOK', ListBackups PROVE Sparing'
<1>1. files' = files /\ made' = made /\ TypeOK
  BY DEF Sparing, ListBackups, daemon, hist
<1>2. OneEach' /\ Recorded'
  BY <1>1 DEF Sparing, OneEach, Recorded
<1>3. OldOnly'
  <2> SUFFICES ASSUME NEW e \in Manuals(round'.doomed) PROVE Outdated(e.at)'
    BY DEF OldOnly
  <2>1. e \in SelectExpired(files, Policy, now) /\ e.manual
    BY DEF ListBackups, Goto, Manuals
  <2>2. e \in BeyondNewest(Manuals(files), Policy.manualKeep)
    BY <2>1, BackupsAssumption
       DEF SelectExpired, ExpiredAutos, BeyondTiers, BeyondNewest, InTier, Autos
  <2>3. e \in files /\ ~(Cardinality(Newer(e, Manuals(files))) < Policy.manualKeep)
    BY <2>2 DEF BeyondNewest, Newest, Manuals
  <2>4. Outdated(e.at)
    BY <1>1, <2>1, <2>3, NewerWereMade DEF Sparing
  <2> QED
    BY <1>1, <2>4 DEF Outdated
<1> QED
  BY <1>2, <1>3 DEF Sparing

LEMMA SparingStep == Sparing /\ [Next]_vars => Sparing'
<1> SUFFICES ASSUME Sparing, [Next]_vars PROVE Sparing'
  OBVIOUS
<1>0. TypeOK /\ TypeOK'
  BY TypeStep DEF Sparing
<1>1. ASSUME files' \subseteq files, made' = made,
             round'.pc = "prune" => round.pc = "prune" /\ round'.doomed \subseteq round.doomed
      PROVE  Sparing'
  BY <1>0, <1>1, SparingFewer
<1>2. CASE DaemonCrashes
  <2>1. Answer({w.caller : w \in writers}, FALSE) /\ files' = files /\ made' = made
    BY <1>2 DEF DaemonCrashes, DaemonDies
  <2>2. round'.pc = "prune" => round.pc = "prune" /\ round'.doomed \subseteq round.doomed
    BY <1>0, <2>1, AnswerPrunesNothing
  <2> QED
    BY <1>1, <2>1, <2>2
<1>3. CASE LinkFails
  BY <1>0, <1>1, <1>3 DEF LinkFails, hist, TypeOK
<1>4. CASE Tick \/ LinkReturns \/ PanelStarts
  BY <1>1, <1>4 DEF Tick, LinkReturns, PanelStarts, daemon, hist
<1>5. CASE PanelStops
  BY <1>1, <1>5 DEF PanelStops, Goto, hist
<1>6. ASSUME NEW w \in writers, FinishArchive(w) PROVE Sparing'
  BY <1>0, <1>6, SparingFinish
<1>7. ASSUME NEW w \in writers, FailArchive(w) PROVE Sparing'
  <2>1. files' \subseteq files /\ made' = made /\ Answer({w.caller}, FALSE)
    BY <1>7 DEF FailArchive, hist
  <2>2. round'.pc = "prune" => round.pc = "prune" /\ round'.doomed \subseteq round.doomed
    BY <1>0, <2>1, AnswerPrunesNothing
  <2> QED
    BY <1>1, <2>1, <2>2
<1>8. CASE BeginBackup \/ GiveUpWaiting
  BY <1>1, <1>8 DEF BeginBackup, GiveUpWaiting, Goto, daemon, hist
<1>9. CASE CallBackup
  <2>1. CASE link
    <3>1. Create(FALSE, "round") /\ round' = [pc |-> "wait", at |-> now, doomed |-> {}]
      BY <1>9, <2>1 DEF CallBackup
    <3>2. round'.pc # "prune"
      BY <3>1
    <3> QED
      BY <1>0, <3>1, <3>2, SparingCreate
  <2>2. CASE ~link
    BY <1>1, <1>9, <2>2 DEF CallBackup, Goto, daemon
  <2> QED
    BY <2>1, <2>2
<1>10. CASE ListBackups
  BY <1>0, <1>10, SparingList
<1>11. CASE DeleteExpired
  BY <1>1, <1>11 DEF DeleteExpired, Goto, hist
<1>12. ASSUME NEW b \in BOOLEAN, Record(b) PROVE Sparing'
  BY <1>1, <1>12 DEF Record, Goto, daemon, hist
<1>13. ASSUME NEW r \in Requests, HandleCreateBackup(r) PROVE Sparing'
  BY <1>0, <1>13, SparingCreate DEF HandleCreateBackup
<1>14. ASSUME NEW r \in Requests, HandleDeleteBackup(r) PROVE Sparing'
  BY <1>1, <1>14 DEF HandleDeleteBackup
<1>15. ASSUME NEW r \in Requests, HandleSetSchedule(r) PROVE Sparing'
  BY <1>1, <1>15 DEF HandleSetSchedule, daemon, hist
<1>16. CASE UNCHANGED vars
  BY <1>1, <1>16 DEF vars
<1> QED
  BY <1>2, <1>3, <1>4, <1>5, <1>6, <1>7, <1>8, <1>9, <1>10, <1>11, <1>12, <1>13, <1>14, <1>15, <1>16
     DEF Next, RecordSuccess, RecordFailure

\* Only the rotation deletes while no request ends and no writer does: what a user
\* deletes ends a request, and a writer that fails is gone.
LEMMA WhoDeletes ==
  ASSUME TypeOK, [Next]_vars, NEW f \in files, f \notin files', req' = req, writers' = writers
  PROVE  DeleteExpired
<1>0. files' # files
  OBVIOUS
<1>1. ASSUME NEW m, NEW c, Create(m, c) PROVE FALSE
  BY <1>1 DEF Create
<1>2. ASSUME NEW w \in writers, FinishArchive(w) \/ FailArchive(w) PROVE FALSE
  BY <1>0, <1>2 DEF FinishArchive, FailArchive, DaemonDies
<1>3. ASSUME NEW r \in Requests, HandleDeleteBackup(r) PROVE FALSE
  <2>1. req[r] = "new" /\ req' = [req EXCEPT ![r] = "done"] /\ req \in [Requests -> {"new", "wait", "done"}]
    BY <1>3 DEF HandleDeleteBackup, New, TypeOK
  <2> QED
    BY <2>1
<1>4. ASSUME NEW r \in Requests, HandleCreateBackup(r) \/ HandleSetSchedule(r) PROVE FALSE
  BY <1>0, <1>1, <1>4 DEF HandleCreateBackup, HandleSetSchedule, daemon
<1>5. ~CallBackup
  BY <1>0, <1>1 DEF CallBackup, daemon
<1>6. ~DaemonCrashes /\ ~LinkFails /\ ~PanelStops /\ ~Tick /\ ~LinkReturns /\ ~PanelStarts
  BY <1>0 DEF DaemonCrashes, DaemonDies, LinkFails, PanelStops, Tick, LinkReturns, PanelStarts, daemon
<1>7. ~BeginBackup /\ ~GiveUpWaiting /\ ~ListBackups /\ ~RecordSuccess /\ ~RecordFailure
  BY <1>0 DEF BeginBackup, GiveUpWaiting, ListBackups, RecordSuccess, RecordFailure, Record, daemon
<1>8. Next
  BY <1>0 DEF vars
<1> QED
  BY <1>2, <1>3, <1>4, <1>5, <1>6, <1>7, <1>8 DEF Next

\* Module Backups: a rotation deletes a manual backup only if the user has made as many
\* newer ones as the policy keeps, however many automatic ones there are, and whatever
\* was made or deleted between listing and deleting (backuppolicy.go:245).
THEOREM ManualStays == Spec => ManualIsSpared
<1>1. Init => Sparing
  BY InitTyped DEF Init, Sparing, OneEach, Recorded, OldOnly, Manuals
<1>2. Sparing /\ [Next]_vars => Sparing'
  BY SparingStep
<1>3. ASSUME Sparing, [Next]_vars
      PROVE  \A f \in Manuals(files) \ files' :
               round.pc = "prune" /\ req' = req /\ writers' = writers =>
                 Cardinality({t \in made : t > f.at}) >= Policy.manualKeep
  <2> SUFFICES ASSUME NEW f \in Manuals(files), f \notin files', round.pc = "prune",
                      req' = req, writers' = writers
               PROVE  Outdated(f.at)
    BY DEF Outdated
  <2>1. f \in files /\ f.manual
    BY DEF Manuals
  <2>2. DeleteExpired
    BY <1>3, <2>1, WhoDeletes DEF Sparing
  <2>3. PICK e \in round.doomed :
          files' = IF link THEN {g \in files : ~(g.at = e.at /\ g.manual = e.manual)} ELSE files
    BY <2>2 DEF DeleteExpired
  <2>4. f.at = e.at /\ e.manual
    BY <2>1, <2>3
  <2>5. e \in Manuals(round.doomed)
    BY <2>4 DEF Manuals
  <2> QED
    BY <1>3, <2>4, <2>5 DEF Sparing, OldOnly
<1> QED
  BY <1>1, <1>2, <1>3, PTL DEF Spec, ManualIsSpared
-----------------------------------------------------------------------------
(* What a rotation keeps: the rule against its reference, and how many     *)
(* backups remain, here and among the panel's own (module DbBackup).       *)

\* A set of numbers that is not empty has a least member.
LEMMA LeastOf ==
  ASSUME NEW R, R \subseteq Nat, R # {}
  PROVE  \E r \in R : \A q \in R : r <= q
<1> DEFINE Below == {1..r : r \in R}
<1>1. Below \subseteq FiniteSubsetsOf(Nat) /\ Below # {}
  <2>1. \A r \in R : IsFiniteSet(1..r) /\ 1..r \subseteq Nat
    BY FS_Interval
  <2> QED BY <2>1 DEF FiniteSubsetsOf
<1>2. PICK b \in Below : \A c \in Below : <<c, b>> \notin StrictSubsetOrdering(Nat)
  BY <1>1, FS_StrictSubsetOrderingWellFounded, WFMin
<1>3. PICK r \in R : b = 1..r
  BY <1>2
<1>4. ASSUME NEW q \in R PROVE r <= q
  <2>1. 1..q \in Below /\ 1..q \subseteq Nat /\ 1..r \subseteq Nat
    OBVIOUS
  <2>2. ~(1..q \subseteq 1..r /\ 1..q # 1..r)
    BY <1>2, <1>3, <2>1 DEF StrictSubsetOrdering
  <2>3. SUFFICES ASSUME q < r PROVE FALSE
    OBVIOUS
  <2>4. 1..q \subseteq 1..r /\ r \in 1..r /\ r \notin 1..q
    BY <2>3
  <2> QED BY <2>2, <2>4
<1> QED BY <1>4

\* What Normalize makes of the tiers of a policy.
InOrder(tiers) ==
  /\ tiers \in Seq([within : Nat \ {0}, keep : Nat \ {0}])
  /\ \A k, m \in DOMAIN tiers : k < m => tiers[k].within <= tiers[m].within

\* The tiers as the proofs below read them.
LEMMA TiersInOrder ==
  ASSUME NEW tiers, InOrder(tiers)
  PROVE  /\ Len(tiers) \in Nat /\ DOMAIN tiers = 1..Len(tiers)
         /\ tiers # <<>> => Len(tiers) \in DOMAIN tiers
         /\ \A k \in DOMAIN tiers : tiers[k].within \in Nat /\ tiers[k].keep \in Nat
         /\ \A k, m \in DOMAIN tiers : k <= m => tiers[k].within * Hour <= tiers[m].within * Hour
<1>1. /\ Len(tiers) \in Nat /\ DOMAIN tiers = 1..Len(tiers)
      /\ \A k \in DOMAIN tiers : tiers[k] \in [within : Nat \ {0}, keep : Nat \ {0}]
  <2> DEFINE Tier == [within : Nat \ {0}, keep : Nat \ {0}]
  <2>1. tiers \in Seq(Tier)
    BY DEF InOrder
  <2> HIDE DEF Tier
  <2>2. Len(tiers) \in Nat /\ DOMAIN tiers = 1..Len(tiers)
    BY <2>1, LenProperties
  <2>3. \A k \in DOMAIN tiers : tiers[k] \in Tier
    BY <2>1, <2>2, ElementOfSeq
  <2> QED BY <2>2, <2>3 DEF Tier
<1>2. tiers # <<>> => Len(tiers) \in DOMAIN tiers
  BY <1>1, EmptySeq DEF InOrder
<1>3. \A k \in DOMAIN tiers : tiers[k].within \in Nat /\ tiers[k].keep \in Nat
  BY <1>1
<1>4. ASSUME NEW k \in DOMAIN tiers, NEW m \in DOMAIN tiers, k <= m
      PROVE  tiers[k].within * Hour <= tiers[m].within * Hour
  <2>1. k = m \/ k < m
    BY <1>1, <1>4
  <2>2. tiers[k].within <= tiers[m].within
    BY <1>3, <1>4, <2>1 DEF InOrder
  <2> QED BY <1>3, <1>4, <2>2, ProductsGrow
<1> QED BY <1>1, <1>2, <1>3, <1>4

\* The tiers that reach an age.
Reaching(e, tiers, t) == {k \in DOMAIN tiers : Age(e, t) <= tiers[k].within * Hour}

\* The tier of a backup is the first that reaches its age.
LEMMA FirstReaching ==
  ASSUME NEW tiers, InOrder(tiers), NEW e, NEW t
  PROVE  /\ Reaching(e, tiers, t) = {} => TierOf(e, tiers, t) = 0
         /\ Reaching(e, tiers, t) # {} =>
              /\ TierOf(e, tiers, t) \in Reaching(e, tiers, t)
              /\ \A m \in Reaching(e, tiers, t) : TierOf(e, tiers, t) <= m
<1> DEFINE R == Reaching(e, tiers, t)
<1>1. R \subseteq Nat
  BY TiersInOrder DEF Reaching
<1>2. TierOf(e, tiers, t) = IF R = {} THEN 0 ELSE CHOOSE k \in R : \A m \in R : k <= m
  BY Zenon DEF TierOf, Reaching
<1> HIDE DEF R
<1>3. R # {} => \E k \in R : \A m \in R : k <= m
  BY <1>1, LeastOf
<1>4. R # {} => (CHOOSE k \in R : \A m \in R : k <= m) \in R
                /\ \A m \in R : (CHOOSE k \in R : \A m_1 \in R : k <= m_1) <= m
  BY <1>3
<1> QED BY <1>2, <1>4 DEF R

\* A backup lies in the bounds of the tier it counts for, and of no other.
LEMMA InItsTier ==
  ASSUME NEW tiers, InOrder(tiers), NEW S, NEW t \in Int, NEW e \in Autos(S),
         e.at \in Int, e.at <= t, NEW k \in DOMAIN tiers
  PROVE  e \in InTier(S, tiers, k, t) <=> TierOf(e, tiers, t) = k
<1>0. Hour \in Nat \ {0} /\ Age(e, t) \in Nat
  BY HourAssumption DEF Age
<1>1. ASSUME e \in InTier(S, tiers, k, t) PROVE TierOf(e, tiers, t) = k
  <2>1. k \in Reaching(e, tiers, t) /\ Age(e, t) > LowerBound(tiers, k) * Hour
    BY <1>1 DEF InTier, Reaching
  <2>2. ASSUME NEW m \in Reaching(e, tiers, t), m < k PROVE FALSE
    <3>1. m \in 1..Len(tiers) /\ k \in 1..Len(tiers) /\ Len(tiers) \in Nat
      BY TiersInOrder DEF Reaching
    <3>2. k # 1 /\ k - 1 \in DOMAIN tiers /\ m <= k - 1
      BY <2>2, <3>1, TiersInOrder
    <3>3. tiers[m].within * Hour <= tiers[k - 1].within * Hour
      BY <3>2, TiersInOrder DEF Reaching
    <3>4. Age(e, t) <= tiers[m].within * Hour
      BY DEF Reaching
    <3>5. Age(e, t) > tiers[k - 1].within * Hour
      BY <2>1, <3>2 DEF LowerBound
    <3>6. tiers[m].within * Hour \in Int /\ tiers[k - 1].within * Hour \in Int
      BY <1>0, <3>2, TiersInOrder DEF Reaching
    <3> QED BY <1>0, <3>3, <3>4, <3>5, <3>6
  <2>3. TierOf(e, tiers, t) \in Reaching(e, tiers, t) /\ TierOf(e, tiers, t) <= k
    BY <2>1, FirstReaching
  <2>4. TierOf(e, tiers, t) \in Nat /\ k \in Nat
    BY <2>3, TiersInOrder DEF Reaching
  <2> QED BY <2>2, <2>3, <2>4
<1>2. ASSUME TierOf(e, tiers, t) = k PROVE e \in InTier(S, tiers, k, t)
  <2>1. k \in 1..Len(tiers) /\ Len(tiers) \in Nat
    BY TiersInOrder
  <2>2. k \in Reaching(e, tiers, t) /\ \A m \in Reaching(e, tiers, t) : k <= m
    BY <1>2, <2>1, FirstReaching
  <2>3. Age(e, t) > LowerBound(tiers, k) * Hour
    <3>1. CASE k = 1
      BY <1>0, <3>1 DEF LowerBound
    <3>2. CASE k # 1
      <4>1. k - 1 \in DOMAIN tiers /\ ~(k <= k - 1)
        BY <2>1, <3>2, TiersInOrder
      <4>2. ~(Age(e, t) <= tiers[k - 1].within * Hour)
        BY <2>2, <4>1 DEF Reaching
      <4>3. tiers[k - 1].within * Hour \in Int
        BY <1>0, <4>1, TiersInOrder
      <4>4. Age(e, t) > tiers[k - 1].within * Hour
        BY <1>0, <4>2, <4>3
      <4> QED BY <3>2, <4>4 DEF LowerBound
    <3> QED BY <3>1, <3>2
  <2> QED BY <2>2, <2>3 DEF InTier, Reaching
<1> QED BY <1>1, <1>2

\* Beyond the last tier lies what no tier reaches.
LEMMA BeyondAllTiers ==
  ASSUME NEW tiers, InOrder(tiers), tiers # <<>>, NEW S, NEW t \in Int, NEW e \in Autos(S),
         e.at \in Int, e.at <= t
  PROVE  e \in BeyondTiers(S, tiers, t) <=> TierOf(e, tiers, t) = 0
<1>0. Hour \in Nat \ {0} /\ Age(e, t) \in Nat
  BY HourAssumption DEF Age
<1> DEFINE last == Len(tiers)
<1>1. last \in DOMAIN tiers /\ last \in Nat /\ tiers[last].within * Hour \in Int
  BY <1>0, TiersInOrder
<1>2. e \in BeyondTiers(S, tiers, t) <=> Age(e, t) > tiers[last].within * Hour
  BY DEF BeyondTiers
<1>3. ASSUME Age(e, t) > tiers[last].within * Hour, Reaching(e, tiers, t) # {} PROVE FALSE
  <2>1. PICK k \in Reaching(e, tiers, t) : TRUE
    BY <1>3
  <2>2. k \in DOMAIN tiers /\ Age(e, t) <= tiers[k].within * Hour /\ k <= last
    BY TiersInOrder DEF Reaching
  <2>3. tiers[k].within * Hour <= tiers[last].within * Hour /\ tiers[k].within * Hour \in Int
    BY <1>0, <1>1, <2>2, TiersInOrder
  <2> QED BY <1>0, <1>1, <1>3, <2>2, <2>3
<1>4. ASSUME ~(Age(e, t) > tiers[last].within * Hour) PROVE Reaching(e, tiers, t) # {}
  <2>1. Age(e, t) <= tiers[last].within * Hour
    BY <1>0, <1>1, <1>4
  <2> QED BY <1>1, <2>1 DEF Reaching
<1>5. Reaching(e, tiers, t) # {} => TierOf(e, tiers, t) # 0
  <2> SUFFICES ASSUME Reaching(e, tiers, t) # {} PROVE TierOf(e, tiers, t) # 0
    OBVIOUS
  <2>1. TierOf(e, tiers, t) \in 1..Len(tiers)
    BY FirstReaching, TiersInOrder DEF Reaching
  <2> QED BY <2>1
<1>6. Reaching(e, tiers, t) = {} => TierOf(e, tiers, t) = 0
  BY FirstReaching
<1> HIDE DEF last
<1> QED BY <1>2, <1>3, <1>4, <1>5, <1>6

\* The rule goes tier by tier, the reference backup by backup: both expire the same
\* automatic backups, for all tiers in order and all backups that were made by now.
THEOREM RuleIsReference ==
  ASSUME NEW tiers, InOrder(tiers), NEW t \in Int, NEW S,
         \A e \in Autos(S) : e.at \in Int /\ e.at <= t
  PROVE  ExpiredAutos(S, tiers, t)
           = IF tiers = <<>> THEN {} ELSE {e \in Autos(S) : ~Stays(e, S, tiers, t)}
<1>1. CASE tiers = <<>>
  BY <1>1 DEF ExpiredAutos
<1>2. CASE tiers # <<>>
  <2>1. ExpiredAutos(S, tiers, t) \subseteq Autos(S)
    BY <1>2 DEF ExpiredAutos, BeyondTiers, BeyondNewest, InTier
  <2> SUFFICES ASSUME NEW e \in Autos(S)
               PROVE  e \in ExpiredAutos(S, tiers, t) <=> ~Stays(e, S, tiers, t)
    BY <1>2, <2>1
  <2> DEFINE tier == TierOf(e, tiers, t)
  <2>2. \A f \in Autos(S), k \in DOMAIN tiers :
          f \in InTier(S, tiers, k, t) <=> TierOf(f, tiers, t) = k
    BY InItsTier
  <2>3. e \in BeyondTiers(S, tiers, t) <=> tier = 0
    BY <1>2, BeyondAllTiers
  <2>4. tier # 0 => tier \in DOMAIN tiers
    BY FirstReaching DEF Reaching
  <2>5. e \in ExpiredAutos(S, tiers, t) <=>
          \/ e \in BeyondTiers(S, tiers, t)
          \/ \E k \in DOMAIN tiers : e \in BeyondNewest(InTier(S, tiers, k, t), tiers[k].keep)
    BY <1>2 DEF ExpiredAutos
  <2>6. \A k \in DOMAIN tiers :
          Newer(e, InTier(S, tiers, k, t)) = {f \in Newer(e, Autos(S)) : TierOf(f, tiers, t) = k}
    <3> TAKE k \in DOMAIN tiers
    <3>1. InTier(S, tiers, k, t) = {f \in Autos(S) : TierOf(f, tiers, t) = k}
      BY <2>2 DEF InTier
    <3> QED BY <3>1 DEF Newer
  <2>7. \A k \in DOMAIN tiers : e \in BeyondNewest(InTier(S, tiers, k, t), tiers[k].keep) <=>
          /\ tier = k
          /\ ~(Cardinality({f \in Newer(e, Autos(S)) : TierOf(f, tiers, t) = k}) < tiers[k].keep)
    BY <2>2, <2>6 DEF BeyondNewest, Newest
  <2>8. Stays(e, S, tiers, t) <=>
          /\ tier # 0
          /\ Cardinality({f \in Newer(e, Autos(S)) : TierOf(f, tiers, t) = tier}) < tiers[tier].keep
    BY Zenon DEF Stays
  <2>9. \A k \in DOMAIN tiers : k # 0
    <3>1. DOMAIN tiers = 1..Len(tiers)
      BY TiersInOrder
    <3> QED BY <3>1
  <2> HIDE DEF tier
  <2> QED BY <2>3, <2>4, <2>5, <2>7, <2>8, <2>9
<1> QED BY <1>1, <1>2

\* A finite set of times that is not empty has an oldest one.
LEMMA OldestOf ==
  ASSUME NEW S, IsFiniteSet(S), S \subseteq Int, S # {}
  PROVE  \E t \in S : \A u \in S : t <= u
<1>1. ASSUME NEW t \in S PROVE IsFiniteSet(NewerFiles(t, S)) /\ Cardinality(NewerFiles(t, S)) \in Nat
  BY FS_Subset, FS_CardinalityType DEF NewerFiles
<1> DEFINE counts == {Cardinality(S) - Cardinality(NewerFiles(t, S)) : t \in S}
<1>2. counts \subseteq Nat /\ counts # {}
  <2>1. \A t \in S : Cardinality(NewerFiles(t, S)) <= Cardinality(S)
    BY FS_Subset DEF NewerFiles
  <2>2. Cardinality(S) \in Nat
    BY FS_CardinalityType
  <2>3. \A t \in S : Cardinality(S) - Cardinality(NewerFiles(t, S)) \in Nat
    BY <1>1, <2>1, <2>2
  <2> QED BY <2>3
<1>3. PICK n \in counts : \A m \in counts : n <= m
  BY <1>2, LeastOf
<1>4. PICK t \in S : n = Cardinality(S) - Cardinality(NewerFiles(t, S))
  BY <1>3
<1>5. ASSUME NEW u \in S PROVE t <= u
  <2>1. n <= Cardinality(S) - Cardinality(NewerFiles(u, S))
    BY <1>3
  <2>2. Cardinality(NewerFiles(u, S)) <= Cardinality(NewerFiles(t, S))
    BY <1>1, <1>4, <2>1, FS_CardinalityType
  <2>3. SUFFICES ASSUME u < t PROVE FALSE
    OBVIOUS
  <2>4. NewerFiles(t, S) \subseteq NewerFiles(u, S) /\ t \in NewerFiles(u, S) /\ t \notin NewerFiles(t, S)
    <3>1. t \in Int /\ u \in Int
      OBVIOUS
    <3>2. ASSUME NEW v \in NewerFiles(t, S) PROVE v \in NewerFiles(u, S)
      <4>1. v \in S /\ v > t /\ v \in Int
        BY DEF NewerFiles
      <4>2. v > u
        BY <2>3, <3>1, <4>1
      <4> QED BY <4>1, <4>2 DEF NewerFiles
    <3>3. t \in NewerFiles(u, S) /\ t \notin NewerFiles(t, S)
      BY <2>3, <3>1 DEF NewerFiles
    <3> QED BY <3>2, <3>3
  <2>5. Cardinality(NewerFiles(t, S)) < Cardinality(NewerFiles(u, S))
    BY <1>1, <2>4, FS_Subset
  <2> QED BY <1>1, <2>2, <2>5
<1> QED BY <1>5

\* Without its oldest file a directory keeps the newest of the others.
LEMMA WithoutOldest ==
  ASSUME NEW S, IsFiniteSet(S), S \subseteq Int, NEW t \in S, \A u \in S : t <= u, NEW keep \in Nat
  PROVE  /\ IsFiniteSet(S \ {t}) /\ Cardinality(S \ {t}) = Cardinality(S) - 1
         /\ Pruned(S, keep) = IF Cardinality(S) <= keep THEN Pruned(S \ {t}, keep) \cup {t}
                                 ELSE Pruned(S \ {t}, keep)
<1>1. IsFiniteSet(S \ {t}) /\ Cardinality(S \ {t}) = Cardinality(S) - 1 /\ Cardinality(S) \in Nat
  BY FS_RemoveElement, FS_CardinalityType
<1>2. \A u \in S \ {t} : NewerFiles(u, S \ {t}) = NewerFiles(u, S)
  BY DEF NewerFiles
<1>3. NewerFiles(t, S) = S \ {t}
  <2>1. ASSUME NEW u \in S PROVE u > t <=> u # t
    <3>1. u \in Int /\ t \in Int /\ t <= u
      OBVIOUS
    <3> QED BY <3>1
  <2> QED BY <2>1 DEF NewerFiles
<1>4. Cardinality(NewerFiles(t, S)) < keep <=> Cardinality(S) <= keep
  BY <1>1, <1>3
<1>5. \A u : u \in Pruned(S, keep) <=>
        u \in Pruned(S \ {t}, keep) \/ (u = t /\ Cardinality(S) <= keep)
  BY <1>2, <1>4 DEF Pruned
<1> QED BY <1>1, <1>5

\* Pruning leaves keep files, or all if there are no more.
LEMMA PrunedCount ==
  ASSUME NEW keep \in Nat, NEW S, IsFiniteSet(S), S \subseteq Int
  PROVE  Cardinality(Pruned(S, keep)) = (IF Cardinality(S) < keep THEN Cardinality(S) ELSE keep)
<1> DEFINE Right(T) == Cardinality(Pruned(T, keep)) = (IF Cardinality(T) < keep THEN Cardinality(T) ELSE keep)
           Wrong == {T \in FiniteSubsetsOf(Int) : ~Right(T)}
<1>1. ASSUME NEW T \in FiniteSubsetsOf(Int), \A t \in T : Right(T \ {t}) PROVE Right(T)
  <2>1. IsFiniteSet(T) /\ T \subseteq Int /\ Cardinality(T) \in Nat
    BY FS_CardinalityType DEF FiniteSubsetsOf
  <2>2. CASE T = {}
    <3>1. Pruned(T, keep) = {} /\ Cardinality({}) = 0
      BY <2>2, FS_EmptySet DEF Pruned
    <3> QED BY <2>2, <3>1
  <2>3. CASE T # {}
    <3>1. PICK t \in T : \A u \in T : t <= u
      BY <2>1, <2>3, OldestOf
    <3> DEFINE U == T \ {t}
    <3>2. /\ IsFiniteSet(U) /\ Cardinality(U) = Cardinality(T) - 1
          /\ Pruned(T, keep) = IF Cardinality(T) <= keep THEN Pruned(U, keep) \cup {t}
                                  ELSE Pruned(U, keep)
      BY <2>1, <3>1, WithoutOldest
    <3>3. Right(U)
      BY <1>1
    <3>4. IsFiniteSet(Pruned(U, keep)) /\ t \notin Pruned(U, keep)
      BY <3>2, FS_Subset DEF Pruned
    <3>5. Cardinality(Pruned(U, keep) \cup {t}) = Cardinality(Pruned(U, keep)) + 1
      BY <3>4, FS_AddElement
    <3> HIDE DEF U
    <3>6. CASE Cardinality(T) <= keep
      BY <2>1, <3>2, <3>3, <3>5, <3>6
    <3>7. CASE ~(Cardinality(T) <= keep)
      BY <2>1, <3>2, <3>3, <3>7
    <3> QED BY <3>6, <3>7
  <2> QED BY <2>2, <2>3
<1> HIDE DEF Right
<1>2. ASSUME Wrong # {} PROVE FALSE
  <2>1. Wrong \subseteq FiniteSubsetsOf(Int)
    OBVIOUS
  <2>2. PICK T \in Wrong : \A U \in Wrong : <<U, T>> \notin StrictSubsetOrdering(Int)
    <3> HIDE DEF Wrong
    <3> QED BY <1>2, <2>1, FS_StrictSubsetOrderingWellFounded, WFMin
  <2>3. T \in FiniteSubsetsOf(Int) /\ ~Right(T)
    OBVIOUS
  <2>4. ASSUME NEW t \in T PROVE Right(T \ {t})
    <3>1. T \ {t} \in FiniteSubsetsOf(Int)
      BY <2>3, FS_Subset DEF FiniteSubsetsOf
    <3>2. <<T \ {t}, T>> \in StrictSubsetOrdering(Int)
      BY <2>3, <2>4 DEF StrictSubsetOrdering, FiniteSubsetsOf
    <3> QED BY <2>2, <3>1, <3>2
  <2> QED BY <1>1, <2>3, <2>4
<1>3. S \in FiniteSubsetsOf(Int)
  BY DEF FiniteSubsetsOf
<1> QED BY <1>2, <1>3 DEF Right

\* The panel's own backups (dbbackup/backup.go, List and prune): of any files keep remain, or
\* all if there are no more, and those that go are older than those that stay.
THEOREM PruneKeepsNewest ==
  ASSUME NEW S, IsFiniteSet(S), S \subseteq Int, NEW keep \in Nat
  PROVE  KeepsNewest(S, keep)
<1>1. ASSUME NEW t \in Pruned(S, keep), NEW u \in S \ Pruned(S, keep) PROVE t > u
  <2>1. t \in S /\ u \in S /\ t # u /\ t \in Int /\ u \in Int
    BY DEF Pruned
  <2>2. SUFFICES ASSUME u > t PROVE FALSE
    BY <2>1
  <2>3. NewerFiles(u, S) \subseteq NewerFiles(t, S)
    <3> SUFFICES ASSUME NEW v \in NewerFiles(u, S) PROVE v \in NewerFiles(t, S)
      OBVIOUS
    <3>1. v \in S /\ v > u /\ v \in Int
      BY DEF NewerFiles
    <3>2. v > t
      BY <2>1, <2>2, <3>1
    <3> QED BY <3>1, <3>2 DEF NewerFiles
  <2>4. IsFiniteSet(NewerFiles(t, S))
    BY FS_Subset DEF NewerFiles
  <2>5. /\ Cardinality(NewerFiles(u, S)) <= Cardinality(NewerFiles(t, S))
        /\ Cardinality(NewerFiles(u, S)) \in Nat /\ Cardinality(NewerFiles(t, S)) \in Nat
    BY <2>3, <2>4, FS_Subset, FS_CardinalityType
  <2>6. Cardinality(NewerFiles(t, S)) < keep /\ ~(Cardinality(NewerFiles(u, S)) < keep)
    BY DEF Pruned
  <2> QED BY <2>5, <2>6
<1> QED BY <1>1, PrunedCount, Zenon DEF KeepsNewest

\* Backups of different times are as many as their times.
LEMMA CountedByTime ==
  ASSUME NEW A, IsFiniteSet(A), \A e, f \in A : e.at = f.at => e = f
  PROVE  IsFiniteSet({e.at : e \in A}) /\ Cardinality({e.at : e \in A}) = Cardinality(A)
<1> DEFINE T == {e.at : e \in A}
           g == [e \in A |-> e.at]
<1>1. g \in [A -> T] /\ DOMAIN g = A /\ \A e \in A : g[e] = e.at
  OBVIOUS
<1>2. \A t \in T : \E e \in A : g[e] = t
  BY <1>1
<1> HIDE DEF g, T
<1>3. g \in Injection(A, T)
  BY <1>1 DEF Injection, IsInjective
<1>4. g \in Surjection(A, T)
  BY <1>1, <1>2 DEF Surjection
<1>5. ExistsBijection(A, T)
  BY <1>3, <1>4 DEF ExistsBijection, Bijection
<1> QED BY <1>5, FS_Bijection DEF T

\* Of backups of different times a rotation leaves as many as it is to keep, or all.
LEMMA NewestCount ==
  ASSUME NEW A, IsFiniteSet(A), \A e \in A : e.at \in Int,
         \A e, f \in A : e.at = f.at => e = f, NEW keep \in Nat
  PROVE  Cardinality(Newest(A, keep)) = (IF Cardinality(A) < keep THEN Cardinality(A) ELSE keep)
<1> DEFINE T == {e.at : e \in A}
<1>1. IsFiniteSet(T) /\ Cardinality(T) = Cardinality(A) /\ T \subseteq Int
  BY CountedByTime
<1>2. ASSUME NEW e \in A PROVE Cardinality(Newer(e, A)) = Cardinality(NewerFiles(e.at, T))
  <2>1. IsFiniteSet(Newer(e, A)) /\ \A f, h \in Newer(e, A) : f.at = h.at => f = h
    BY FS_Subset DEF Newer
  <2>2. {f.at : f \in Newer(e, A)} = NewerFiles(e.at, T)
    BY DEF Newer, NewerFiles
  <2> QED BY <2>1, <2>2, CountedByTime
<1>3. {e.at : e \in Newest(A, keep)} = Pruned(T, keep)
  BY <1>2 DEF Newest, Pruned
<1>4. IsFiniteSet(Newest(A, keep)) /\ \A f, h \in Newest(A, keep) : f.at = h.at => f = h
  BY FS_Subset DEF Newest
<1>5. Cardinality(Pruned(T, keep)) = Cardinality(Newest(A, keep))
  BY <1>3, <1>4, CountedByTime
<1> HIDE DEF T
<1> QED BY <1>1, <1>5, PrunedCount

Fewer(n, m) == IF n < m THEN n ELSE m
OfTier(S, k, t) == {e \in Autos(S) : TierOf(e, Policy.tiers, t) = k}

\* What a rotation leaves (retention.go, SelectExpired): of the manual backups, and of the
\* automatic ones of every tier, as many as the policy keeps or all if there are no more,
\* and no automatic one that is older than the last tier.
THEOREM RotationKeepsItsShare ==
  ASSUME NEW S, IsFiniteSet(S), NEW t \in Int, \A e \in S : e.at \in Int /\ e.at <= t,
         \A e, f \in S : e.at = f.at => e = f
  PROVE  LET kept == S \ SelectExpired(S, Policy, t) IN
         /\ Cardinality(Manuals(kept)) = Fewer(Cardinality(Manuals(S)), Policy.manualKeep)
         /\ \A k \in DOMAIN Policy.tiers :
              Cardinality(OfTier(kept, k, t)) = Fewer(Cardinality(OfTier(S, k, t)), Policy.tiers[k].keep)
         /\ Policy.tiers # <<>> => OfTier(kept, 0, t) = {}
<1> DEFINE tiers == Policy.tiers
           kept == S \ SelectExpired(S, Policy, t)
<1>1. /\ InOrder(tiers) /\ Policy.manualKeep \in Nat
      /\ SelectExpired(S, Policy, t) = BeyondNewest(Manuals(S), Policy.manualKeep) \cup ExpiredAutos(S, tiers, t)
  <2>1. InOrder(tiers) /\ Policy.manualKeep \in Nat
    BY BackupsAssumption DEF InOrder
  <2>2. Normalize(Policy) = Policy
    BY BackupsAssumption
  <2> QED BY <2>1, <2>2, Zenon DEF SelectExpired
<1>2. /\ ExpiredAutos(S, tiers, t) = IF tiers = <<>> THEN {} ELSE {e \in Autos(S) : ~Stays(e, S, tiers, t)}
      /\ \A e \in Autos(S) : e.at \in Int /\ e.at <= t
  <2>1. \A e \in Autos(S) : e.at \in Int /\ e.at <= t
    BY DEF Autos
  <2> HIDE DEF tiers
  <2> QED BY <1>1, <2>1, RuleIsReference
<1>3. Manuals(kept) = Newest(Manuals(S), Policy.manualKeep)
  <2>1. \A e \in Manuals(S) : e \notin ExpiredAutos(S, tiers, t)
    BY <1>2 DEF Manuals, Autos
  <2> QED BY <1>1, <2>1 DEF BeyondNewest, Newest, Manuals
<1>4. Autos(kept) = Autos(S) \ ExpiredAutos(S, tiers, t)
  BY <1>1 DEF Autos, BeyondNewest, Manuals
<1>5. Cardinality(Manuals(kept)) = Fewer(Cardinality(Manuals(S)), Policy.manualKeep)
  <2>1. /\ IsFiniteSet(Manuals(S)) /\ \A e \in Manuals(S) : e.at \in Int
        /\ \A e, f \in Manuals(S) : e.at = f.at => e = f
    BY FS_Subset DEF Manuals
  <2> QED BY <1>1, <1>3, <2>1, NewestCount DEF Fewer
<1>6. ASSUME NEW k \in DOMAIN tiers
      PROVE  Cardinality(OfTier(kept, k, t)) = Fewer(Cardinality(OfTier(S, k, t)), tiers[k].keep)
  <2>1. tiers # <<>> /\ k # 0 /\ tiers[k].keep \in Nat
    <3> HIDE DEF tiers
    <3>1. DOMAIN tiers = 1..Len(tiers) /\ tiers[k].keep \in Nat
      BY <1>1, TiersInOrder
    <3> QED BY <3>1
  <2>2. ASSUME NEW e \in OfTier(S, k, t)
        PROVE  Stays(e, S, tiers, t) <=> Cardinality(Newer(e, OfTier(S, k, t))) < tiers[k].keep
    <3>1. e \in Autos(S) /\ TierOf(e, tiers, t) = k
      BY DEF OfTier
    <3>2. Newer(e, OfTier(S, k, t)) = {f \in Newer(e, Autos(S)) : TierOf(f, tiers, t) = k}
      BY DEF OfTier, Newer
    <3> QED BY <2>1, <3>1, <3>2, Zenon DEF Stays
  <2>3. OfTier(kept, k, t) = Newest(OfTier(S, k, t), tiers[k].keep)
    <3>1. OfTier(kept, k, t) = {e \in OfTier(S, k, t) : Stays(e, S, tiers, t)}
      BY <1>2, <1>4, <2>1 DEF OfTier
    <3> QED BY <2>2, <3>1 DEF Newest
  <2>4. /\ IsFiniteSet(OfTier(S, k, t)) /\ \A e \in OfTier(S, k, t) : e.at \in Int
        /\ \A e, f \in OfTier(S, k, t) : e.at = f.at => e = f
    BY FS_Subset DEF OfTier, Autos
  <2> QED BY <2>1, <2>3, <2>4, NewestCount DEF Fewer
<1>7. tiers # <<>> => OfTier(kept, 0, t) = {}
  BY <1>2, <1>4, Zenon DEF OfTier, Stays
<1> QED BY <1>5, <1>6, <1>7
=============================================================================
