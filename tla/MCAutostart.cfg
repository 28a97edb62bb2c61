CONSTANTS
  Chars = {"L", "D", "RUN", "RET"}
  Return = "RET"
  Texts <- MCTexts
  Keys = {"X", "HOME"}
  Contents <- MCContents
  QUEUE_SIZE = 8
  BufferSize = 2
  InitFrames = 1
  LastFrame = 3
  LOAD <- MCLOAD
  RUN <- MCRUN
  Settings <- MCSettings
  Delay = 2
  Budgets <- MCBudgets
SPECIFICATION AutostartSpec
INVARIANTS TypeOK TypingFits ReturnIsNext WarpGivenBack TdeGivenBack
PROPERTIES TypesTheText BootRuns
