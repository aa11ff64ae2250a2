\* The user cancels a running task.
SPECIFICATION TaskSpec
CONSTANTS
  Platform = {autohome, dongchedi}
  UserOps = {"cancel"}
  Faults = {}
  MaxRuns = 1
PROPERTIES
  CancelledStays
CHECK_DEADLOCK FALSE
