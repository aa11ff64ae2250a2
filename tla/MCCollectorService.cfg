\* Two runs queue for the single thread of one platform.
SPECIFICATION SvcSpec
CONSTANTS
  Run = {r1, r2}
  Task = {t1, t2}
  Agent = {a1}
  Platform = {p1}
  NoTask = NoTask
  NoAgent = NoAgent
  NoPlatform = NoPlatform
  MaxWorkers = 1
INVARIANTS
  NoRunIsLost
PROPERTIES
  TerminalIsStable
  QueuedRunEnds
