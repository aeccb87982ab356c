SPECIFICATION AppSpec
CONSTANTS
  r1 = r1  h1 = h1  h2 = h2  i1 = i1  p1 = p1
  Runs <- OneRun
  Names <- TwoHosts
  Params <- OneParam
  None = None
  Covers <- Same
  Written <- Put
  Issuers <- OneIssuer
  Tasks <- SomeTasks
  MaxSecrets = 1
  MaxFailures = 1
  MaxFaults = 1
  MaxEdits = 1
INVARIANTS DroppedLockedOut
PROPERTIES Promise NoNeedlessOutage NoResurrection Recovers
CHECK_DEADLOCK FALSE
