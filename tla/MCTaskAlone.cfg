\* A task nobody touches: crashes and cancel signals only.
SPECIFICATION TaskSpec
CONSTANTS
  Platform = {autohome, dongchedi}
  UserOps = {}
  Faults = {"crash", "signal"}
  MaxRuns = 1
PROPERTIES
  KeepsItsOutcome
CHECK_DEADLOCK FALSE
