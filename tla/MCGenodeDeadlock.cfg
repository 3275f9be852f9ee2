SPECIFICATION FairSpec
CONSTANTS
  Threads = {t1, t2, t3}
  NoThread = NoThread
  MaxTokens = 1
CHECK_DEADLOCK FALSE
PROPERTY NobodyStuckAtGuard
