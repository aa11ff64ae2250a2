---------------------------- MODULE MCJobResults ----------------------------
(* A job, one comparison and one time report.                              *)
EXTENDS JobResults
=============================================================================
