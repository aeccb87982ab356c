SPECIFICATION PlaybookFairSpec
CONSTANTS
  h1 = h1  h2 = h2
  Helpers <- TwoHelpers
  InTurn = TRUE
  MaxRuns = 2
  MaxCuts = 2
INVARIANTS OneOperation WrongOnlyIfOutdated
PROPERTIES Completes
CHECK_DEADLOCK FALSE
