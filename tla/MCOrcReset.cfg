SPECIFICATION Spec
CONSTANTS
  Cells = {c1, c2}
  Fields = {1}
  Vars = {v1, v2}
  Nil = Nil
  Finalized = {}
  DefaultThreshold = 1
  MinThreshold = 2
  HighInt = 20
  Limits = {0}
  Api = {"reset"}
INVARIANTS OnlyLiveTouched
