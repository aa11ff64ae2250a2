\* The user cancels, pauses and retries at any time.
SPECIFICATION TaskSpec
CONSTANTS
  Platform = {autohome, dongchedi}
  UserOps = {"cancel", "pause", "retry"}
  Faults = {"temporal", "signal"}
  MaxRuns = 2
INVARIANTS
  TaskTypeOK
  UpgradesAreHonest
PROPERTIES
  CompletedIsComplete
  TaskMovesOn
CHECK_DEADLOCK FALSE
