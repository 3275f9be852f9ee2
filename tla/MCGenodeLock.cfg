SPECIFICATION Spec
CONSTANTS
  Threads = {t1, t2, t3}
  NoThread = NoThread
  MaxTokens = 2
CHECK_DEADLOCK FALSE
SYMMETRY Symmetric
INVARIANTS LockedTruthful TryTakesAtOnce
PROPERTY RefinesMonitor
