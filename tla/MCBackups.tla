----------------------------- MODULE MCBackups -----------------------------
(* Backups on a small instance: one archive for each of two tiers and one  *)
(* manual one; and what the rule of retention comes to.                    *)
EXTENDS Backups

MCPolicy == [manualKeep |-> 1, tiers |-> <<[within |-> 1, keep |-> 1], [within |-> 2, keep |-> 1]>>]

\* The rule and the reference agree, on backups of six hours and tiers in any order
\* (retention.go, SelectExpired and Normalize).
SmallTiers == [within : {0, 1, 3}, keep : {0, 1, 2}]
ASSUME RuleAgreesWithReference ==
  \A tiers \in UNION {[1..n -> SmallTiers] : n \in 0..2} : \A times \in SUBSET (1..6) :
    LET S == {[at |-> t, manual |-> FALSE] : t \in times}
        sorted == Normalize([manualKeep |-> 0, tiers |-> tiers]).tiers
    IN  ExpiredAutos(S, sorted, 6)
          = IF sorted = <<>> THEN {} ELSE {e \in S : ~Stays(e, S, sorted, 6)}

\* What the default policy keeps of backups made every six hours: four, none of them of
\* the second day; with a minute of delay six, none older than about 36 hours.
InMinutes == INSTANCE Retention WITH Hour <- 60
ASSUME DefaultPolicyKeeps ==
  /\ InMinutes!AgesLeft(InMinutes!DefaultPolicy, 360, 12) = {0, 360, 720, 1080}
  /\ InMinutes!AgesLeft(InMinutes!DefaultPolicy, 361, 12) = {361 * n : n \in 0..5}

\* The panel's own backups: the newest stay; with a backup that takes any time at all,
\* a file is too young at the next tick, and one is made at every other tick
\* (dbbackup/backup.go, Start and needBackup).
Db == INSTANCE DbBackup
ASSUME DbBackupsAlternate ==
  /\ \A S \in SUBSET (1..5), keep \in 1..6 : Db!KeepsNewest(S, keep)
  /\ Db!Gaps(Db!AfterTicks({}, 1, 7, 24, 9)) = {25, 48}
  /\ Db!Gaps(Db!AfterTicks({}, 0, 7, 24, 9)) = {24}
=============================================================================
