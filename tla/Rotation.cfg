SPECIFICATION Spec
CONSTANTS
  h1 = h1  h2 = h2  p1 = p1
  Hosts <- TwoHosts
  Plays <- OnePlay
  None = None
  VerifyRekey = TRUE
  SkipSanityCheck = FALSE
  MaxRekeys = 2
SYMMETRY Symmetry
INVARIANTS NeverLockedOut VerifiedBeforeLive RecoverableInv
PROPERTIES RekeyReachesAllHosts
CHECK_DEADLOCK FALSE
