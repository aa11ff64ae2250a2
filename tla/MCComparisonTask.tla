-------------------------- MODULE MCComparisonTask --------------------------
(* Small instances of ComparisonTask.                                      *)
EXTENDS ComparisonTask
=============================================================================
