SPECIFICATION Spec
CONSTANTS
  Cells = {c1, c2, c3}
  Fields = {1, 2}
  MaxHeld = 1
  MaxRoots = 2
  LowMarks = {0, 1}
  DeferredDec = TRUE
  Nil = Nil
SYMMETRY Symmetric
INVARIANTS TypeOK FreesExactlyGarbage NoCellTwice SurvivorsRestored MatchesTrialDeletion
PROPERTY WorkShrinks
CHECK_DEADLOCK FALSE
