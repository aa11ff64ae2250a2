--------------------------- MODULE MCOpenClawStage ---------------------------
(* Small instances of OpenClawStage.                                       *)
EXTENDS OpenClawStage
=============================================================================
