\* A job, a comparison of three vehicles that may reuse it and a time report on it,
\* under every fault and beside the cleanup.
SPECIFICATION ResSpec
CONSTANTS
  Faults = {"redis", "exception", "kill", "stage", "rollback"}
  VehicleCount = 3
INVARIANTS
  ResultsTypeOK
  StagesAreBacked
  RunsAreSettled
  ReportAccountsForAll
  ResultsHaveFiles
PROPERTIES
  QueuedWorkEnds
CHECK_DEADLOCK FALSE
