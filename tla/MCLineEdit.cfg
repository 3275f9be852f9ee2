SPECIFICATION Spec
CONSTANTS
  Prompt <- ThePrompt
  Hint <- TheHint
  Chars = {"a", "b", " "}
  BufLen = 5
  Cols = {3, 5}
  Entries <- TheEntries
  Completions <- TheCompletions
INVARIANTS TypeOK ScreenShowsLine AboveUntouched NothingBelowCursor
CHECK_DEADLOCK FALSE
