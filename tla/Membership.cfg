SPECIFICATION FairSpec
CONSTANTS
  a = a  b = b  c = c  d = d  e = e
  Servers <- FiveServers
  Inventory <- ThreeKept
  ForcedRestart = FALSE
  AllowLossRemoving = FALSE
  AllowLossRestart = FALSE
  MaxFailures = 1
PROPERTIES KeepsQuorumIfOldUp PlayEndsClean Converges
CHECK_DEADLOCK FALSE
