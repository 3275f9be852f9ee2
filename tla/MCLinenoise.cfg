SPECIFICATION Spec
CONSTANTS
  Chars = {"a", "r"}
  Return = "r"
  BufLen = 2
  Typed <- MCTyped
  Given <- MCGiven
  DefaultMax = 3
  MaxLens = {1}
INVARIANTS TypeOK IndexInHistory DraftKept LoadRestores TerminalRestored
PROPERTY BrowsingOnlyCuts
CHECK_DEADLOCK FALSE
