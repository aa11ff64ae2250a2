\* A task joins a run while another one detaches from it.
SPECIFICATION WaitSpec
CONSTANTS
  t1 = t1
  t2 = t2
  k1 = k1
  k2 = k2
  p1 = p1
  p2 = p2
  a1 = a1
  a2 = a2
  s1 = s1
  s2 = s2
  r1 = r1
  r2 = r2
  Task = {t1, t2}
  Run = {r1, r2}
  Key = {k1}
  Agent = {a1, s1}
  Platform = {p1}
  NoKey = NoKey
  NoAgent = NoAgent
  NoRun = NoRun
  NoTask = NoTask
  NoPlatform = NoPlatform
  KeysOf <- SameKey
  PlatformOf <- OnePlatform
  Pool <- OneAgentPool
  ServiceAgent <- Service
  Faults = {"cancel"}
  MaxCrashes = 0
  MaxWorkers = 1
INVARIANTS
  CancelSparesSharers
CHECK_DEADLOCK FALSE
