SPECIFICATION FairSpec
CONSTANTS
  m = m  h1 = h1  h2 = h2
  Main = m
  Helpers <- MCHelpers
  Shares <- RichMain
  Required = 3
  UsesNonce = FALSE
  Verifying = FALSE
  Coordinated = FALSE
  SkipConfirmation = FALSE
  MaxNonce = 1
  MaxDisturbances = 2
CHECK_DEADLOCK FALSE
PROPERTIES EventuallyUnsealed
