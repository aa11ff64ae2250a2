\* Three vehicles; children fail, are late and improve; the user interferes.
SPECIFICATION CmpSpec
CONSTANTS
  VehicleCount = 3
  CanImprove = TRUE
  UserOps = {"cancel", "retry"}
  Faults = {"crash", "timeout"}
  MaxRuns = 2
  MaxCrashes = 1
  Fileless = {1}
INVARIANTS
  CmpTypeOK
  OneChildPerVehicle
  ReportIsUsable
  UpgradeIsPublished
PROPERTIES
  ComparisonEnds
CHECK_DEADLOCK FALSE
