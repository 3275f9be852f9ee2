SPECIFICATION FairSpec
CONSTANTS
  t1 = t1
  t2 = t2
  t3 = t3
  Threads = {t1, t2, t3}
  NumLockStripes = 2
  StripeOf <- TwoOnOne
  MaxDepth = 3
  Nesters = {t1, t2}
  Copiers = {t2}
  NoThread = NoThread
INVARIANTS FrozenTopology LockStateTruthful IdleHoldsNothing
PROPERTIES CollectionHappens
