----------------------------- MODULE MCFileJobs -----------------------------
(* FileJobs on small instances.                                            *)
EXTENDS FileJobs
=============================================================================
