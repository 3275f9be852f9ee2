SPECIFICATION Spec
CONSTANTS
  Cells = {c1, c2, c3}
  Fields = {1, 2}
  Vars = {v1, v2}
  Nil = Nil
  Finalized = {}
  DefaultThreshold = 1
  MinThreshold = 1
  HighInt = 8
  Limits = {0}
  Api = {"partial", "disable", "safeReset"}
SYMMETRY SymmetricVars
INVARIANTS TypeOK OnlyLiveTouched CountsExact GarbageIsCandidate
