--------------------------- MODULE MCAnalysisRuns ---------------------------
(* AnalysisRuns on small instances.                                        *)
EXTENDS AnalysisRuns
=============================================================================
