------------------------- MODULE MCCollectorService -------------------------
(* Small instances of CollectorService: one platform, one pool thread.     *)
EXTENDS CollectorService
=============================================================================
