------------------------------ MODULE DbBackup ------------------------------
(***************************************************************************)
(* The panel's backups of its own database (panel/dbbackup): whether one   *)
(* is due is read from the newest file, a ticker asks once per interval.   *)
(* A backup stands for the time at which its file was last written.        *)
(***************************************************************************)
EXTENDS Integers, FiniteSets

NewerFiles(t, S) == {u \in S : u > t}

\* List and prune: the newest stay.
Pruned(S, keep) == {t \in S : Cardinality(NewerFiles(t, S)) < keep}

\* needBackup: none is there, or the newest is at least an interval old.
NeedBackup(S, now, interval) == \A t \in S : now - t >= interval

\* Backup, begun at now: the file is written when took has passed.
Backup(S, now, took, keep) == Pruned(S \cup {now + took}, keep)

\* One look: at the start of the panel and at every tick.
Look(S, now, took, keep, interval) ==
  IF NeedBackup(S, now, interval) THEN Backup(S, now, took, keep) ELSE S

\* Start at minute 0 with the files S, then n ticks of a ticker made when the first look is done.
AfterTicks(S, took, keep, interval, n) ==
  LET first == IF NeedBackup(S, 0, interval) THEN took ELSE 0
      files[k \in 0..n] == IF k = 0 THEN Look(S, 0, took, keep, interval)
                           ELSE Look(files[k - 1], first + k * interval, took, keep, interval)
  IN  files[n]

\* ----------------------------------------------------------------- references

\* No more than keep files, the newest of all that were made among them.
KeepsNewest(S, keep) ==
  LET kept == Pruned(S, keep)
  IN  /\ Cardinality(kept) = (IF Cardinality(S) < keep THEN Cardinality(S) ELSE keep)
      /\ \A t \in kept, u \in S \ kept : t > u

\* The distances between backups that follow each other.
Neighbours(S) == {p \in S \X S : p[1] > p[2] /\ ~\E t \in S : p[1] > t /\ t > p[2]}
Gaps(S) == {p[1] - p[2] : p \in Neighbours(S)}
=============================================================================
