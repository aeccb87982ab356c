SPECIFICATION Spec
CONSTANTS
  p1 = p1  p2 = p2  NoPlay = NoPlay
  Plays <- TwoPlays
  MaxFailures = 1
  MaxCuts = 1
  MaxTokens = 5
INVARIANTS CleanExit WorksWithToken LimitedWhileWorking
PROPERTIES GivenKept
CHECK_DEADLOCK FALSE
