\* Two tasks create, join, claim, start, end and cancel runs in any order.
SPECIFICATION StoreSpec
CONSTANTS
  Task = {t1, t2}
  Run = {r1, r2}
  Key = {k1, k2}
  Agent = {a1, a2}
  NoKey = NoKey
  NoAgent = NoAgent
  NoRun = NoRun
INVARIANTS
  StoreIsExclusive
PROPERTIES
  FinalStaysFinal
  LanesSpec
  SlotsSpec
SYMMETRY IdSymmetry
