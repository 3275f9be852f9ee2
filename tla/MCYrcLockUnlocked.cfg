SPECIFICATION Spec
CONSTANTS
  t1 = t1
  t2 = t2
  t3 = t3
  Threads = {t1, t2}
  NumLockStripes = 2
  StripeOf <- OneEach
  MaxDepth = 2
  Nesters = {t1, t2}
  Copiers = {}
  NoThread = NoThread
INVARIANTS AllBodiesAreLocked
