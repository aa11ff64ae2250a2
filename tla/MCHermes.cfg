\* Up to four comments; a third batch makes every prompt longer.  Every call, file and
\* script may fail and both timeouts may come at any time.
SPECIFICATION HermesSpec
CONSTANTS
  MaxFacts = 4
  Budget = 2
  Placeholder = 2
  MaxAttempts = 2
  Concurrency = 2
  Faults = {"nokey", "llm", "odd", "alarm", "write", "script"}
INVARIANTS
  HermesTypeOK
  BatchesPartition
  ResultIsHonest
  DeadlineIsKept
PROPERTIES
  ReportEnds
CHECK_DEADLOCK FALSE
