\* The user pauses retries of a running task.
SPECIFICATION TaskSpec
CONSTANTS
  Platform = {autohome, dongchedi}
  UserOps = {"pause"}
  Faults = {}
  MaxRuns = 1
PROPERTIES
  PauseStopsRetry
CHECK_DEADLOCK FALSE
