------------------------------ MODULE Retention ------------------------------
(***************************************************************************)
(* Which backups a rotation deletes (panel/retention): manual ones beyond  *)
(* the newest ManualKeep, automatic ones beyond what the tier of their age *)
(* keeps.  A backup is [at, manual, ...]; no two are made at one time.     *)
(* Time is counted in units of which an hour has Hour; the bounds of the   *)
(* tiers are hours.  The wording of a policy is left out.                  *)
(***************************************************************************)
EXTENDS Integers, Sequences, FiniteSets, TLC

CONSTANT Hour   \* the length of an hour

ASSUME HourAssumption == Hour \in Nat \ {0}

Newer(e, S) == {f \in S : f.at > e.at}
Newest(S, k) == {e \in S : Cardinality(Newer(e, S)) < k}
BeyondNewest(S, k) == S \ Newest(S, k)

Manuals(S) == {e \in S : e.manual}
\* Mutant of Autos: manual backups take part in the tiers.
Autos_Any(S) == {e \in S : TRUE}
Autos(S) == {e \in S : ~e.manual}

\* Normalize: tiers without a bound or without room are dropped, the rest is sorted.
Normalize(policy) ==
  [manualKeep |-> IF policy.manualKeep < 0 THEN 0 ELSE policy.manualKeep,
   tiers |-> SortSeq(SelectSeq(policy.tiers, LAMBDA t : t.within > 0 /\ t.keep > 0),
                     LAMBDA t, u : t.within < u.within)]

\* The first tier has no younger neighbour: -1 lets a backup made just now into it.
LowerBound(tiers, k) == IF k = 1 THEN -1 ELSE tiers[k - 1].within
Age(e, now) == now - e.at
InTier(S, tiers, k, now) ==
  {e \in Autos(S) : Age(e, now) > LowerBound(tiers, k) * Hour /\ Age(e, now) <= tiers[k].within * Hour}
BeyondTiers(S, tiers, now) == {e \in Autos(S) : Age(e, now) > tiers[Len(tiers)].within * Hour}

ExpiredAutos(S, tiers, now) ==
  IF tiers = <<>> THEN {}
  ELSE BeyondTiers(S, tiers, now)
       \cup UNION {BeyondNewest(InTier(S, tiers, k, now), tiers[k].keep) : k \in DOMAIN tiers}

SelectExpired(S, policy, now) ==
  LET p == Normalize(policy)
  IN  BeyondNewest(Manuals(S), p.manualKeep) \cup ExpiredAutos(S, p.tiers, now)

\* DefaultPolicy: four of the last day, two of the day before.
DefaultPolicy ==
  [manualKeep |-> 3, tiers |-> <<[within |-> 24, keep |-> 4], [within |-> 48, keep |-> 2]>>]

\* ------------------------------------------------------------------ references

\* Told one by one: an automatic backup stays while its tier, the first that reaches
\* its age, has room for it and the newer ones.
TierOf(e, tiers, now) ==
  LET reaching == {k \in DOMAIN tiers : Age(e, now) <= tiers[k].within * Hour}
  IN  IF reaching = {} THEN 0 ELSE CHOOSE k \in reaching : \A m \in reaching : k <= m
Stays(e, S, tiers, now) ==
  LET k == TierOf(e, tiers, now)
  IN  k # 0 /\ Cardinality({f \in Newer(e, Autos(S)) : TierOf(f, tiers, now) = k}) < tiers[k].keep

\* The ages left when each of count automatic backups, made one spacing apart, was
\* followed by a rotation, the last one just now.
AgesLeft(policy, spacing, count) ==
  LET left[n \in 0..count] ==
        IF n = 0 THEN {}
        ELSE LET S == left[n - 1] \cup {[at |-> n * spacing, manual |-> FALSE]}
             IN  S \ SelectExpired(S, policy, n * spacing)
  IN  {count * spacing - e.at : e \in left[count]}
=============================================================================
