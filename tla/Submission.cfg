SPECIFICATION FairSpec
CONSTANTS
  m = m  h1 = h1  h2 = h2
  Main = m
  Helpers <- MCHelpers
  Shares <- RichHelper
  Required = 3
  UsesNonce = TRUE
  Verifying = FALSE
  Coordinated = TRUE
  SkipConfirmation = FALSE
  MaxNonce = 6
  MaxDisturbances = 2
CHECK_DEADLOCK FALSE
INVARIANTS FinalKeyIsLast HelperKeysOnlyForMain
PROPERTIES Ceremony OutputRegistered EventuallyDone
