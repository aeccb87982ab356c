SPECIFICATION FairSpec
CONSTANTS
  s1 = s1  s2 = s2  other = other
  Scripts <- TwoScripts
  Others <- OtherServer
  Snapshot <- OneScript
  None = None
  Timeout = 1
  MaxHangups = 1
PROPERTIES SparesInitialised Answers
CHECK_DEADLOCK FALSE
