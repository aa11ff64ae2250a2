------------------------ MODULE MCSingleVehicleTask ------------------------
(* Small instances of SingleVehicleTask: the code has two platforms.       *)
EXTENDS SingleVehicleTask
=============================================================================
