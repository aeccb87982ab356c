SPECIFICATION FairSpec
CONSTANTS
  p1 = p1
  N = 3
  Plays <- OnePlay
  Limits <- AnyLimit
  SkipCheck = FALSE
  MaxFailures = 2
  MaxCuts = 1
  MaxMade = 3
INVARIANTS NoSecondCluster DeletedUnlessSavedIfUncut NoRootTokenInUse
PROPERTIES InUseKept EventuallyInUse
CHECK_DEADLOCK FALSE
