\* Two attempts at a stage on the same paths.  Either the gateway fails, the database
\* cannot be read, and the agent fails, ends without files, cuts its crawl short or leaves
\* a file half written; or the agents start tasks of their own, and tasks appear in the
\* table before or long after the gateway has accepted them.
SPECIFICATION ClawSpec
CONSTANTS
  MaxAttempts = 2
  FaultSets = {
    {"refuse", "lost", "sqlite", "fail", "empty", "unlisted", "cap", "torn"},
    {"sqlite", "fail", "empty", "subtask", "quiet", "early", "unlisted"}}
INVARIANTS
  ClawTypeOK
  FailureIsOwn
  SuccessIsWhole
PROPERTIES
  AttemptEnds
CHECK_DEADLOCK FALSE
