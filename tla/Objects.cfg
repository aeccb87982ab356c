SPECIFICATION Spec
CONSTANTS
  r1 = r1  r2 = r2  a = a  b = b  x = x  y = y  k1 = k1  v1 = v1  v2 = v2
  None = None
  Types <- TwoTypes
  Texts <- TwoTexts
  Values <- TwoValues
  Runs <- TwoRuns
  Kinds <- AllKinds
  SettingKeys <- OneKey
  MaxFailures = 1
INVARIANTS DeclaredWhenDone SettledWhenDone NoSilentLoss
PROPERTIES DestroysOnlyUnusable
CHECK_DEADLOCK FALSE
