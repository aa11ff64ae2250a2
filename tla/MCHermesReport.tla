--------------------------- MODULE MCHermesReport ---------------------------
(* Small instances of HermesReport.                                        *)
EXTENDS HermesReport
=============================================================================
