SPECIFICATION FairSpec
CONSTANTS
  Cells = {c1, c2, c3}
  Fields = {1}
  Vars = {v1, v2}
  Nil = Nil
  Finalized = {c1}
  DefaultThreshold = 1
  MinThreshold = 2
  HighInt = 20
  Limits = {0}
  Api = {"run", "enable", "disable"}
INVARIANTS GarbageIsCandidate RootsIndexed CollectionsDontNest
PROPERTIES RefinesGcHeap EveryStatementEnds
