\* Two tasks use a platform without an agent pool; no deadline saves them from failures.
SPECIFICATION WaitSpec
CONSTANTS
  t1 = t1
  t2 = t2
  k1 = k1
  k2 = k2
  p1 = p1
  p2 = p2
  a1 = a1
  a2 = a2
  s1 = s1
  s2 = s2
  r1 = r1
  r2 = r2
  Task = {t1, t2}
  Run = {r1, r2}
  Key = {k1, k2}
  Agent = {a1, s1}
  Platform = {p1}
  NoKey = NoKey
  NoAgent = NoAgent
  NoRun = NoRun
  NoTask = NoTask
  NoPlatform = NoPlatform
  KeysOf <- OwnKey
  PlatformOf <- OnePlatform
  Pool <- NoPool
  ServiceAgent <- Service
  Faults = {"network", "restart", "crash"}
  MaxCrashes = 1
  MaxWorkers = 2
PROPERTIES
  EveryWaitEnds
CHECK_DEADLOCK FALSE
