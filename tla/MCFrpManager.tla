----------------------------- MODULE MCFrpManager -----------------------------
EXTENDS FrpManager
\* One direct tunnel and two of frpc, in a set that a restart can rebuild.
MCProcs == 1..3
MCObjects == 1..2
=============================================================================
