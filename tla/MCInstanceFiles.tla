-------------------------- MODULE MCInstanceFiles ---------------------------
\* InstanceFiles on two files and two requests at a time; names and requests are
\* interchangeable.
EXTENDS InstanceFiles, TLC

Symmetry == Permutations(Names) \cup Permutations(Slots)
=============================================================================
