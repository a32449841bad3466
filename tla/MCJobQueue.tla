----------------------------- MODULE MCJobQueue -----------------------------
\* JobQueue on small instances: two or three ids, two workers.  Ids and workers are
\* interchangeable, which the larger configuration uses.
EXTENDS JobQueue, TLC

Symmetry == Permutations(Ids) \cup Permutations(Workers)
=============================================================================
