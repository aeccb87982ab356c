SPECIFICATION BackupSpec
CONSTANTS
  s1 = s1
  Backups <- OneScript
  NumBackups = 2
  Frequent = TRUE
  MaxTime = 5
  MaxKeys = 3
  MaxSetBacks = 1
  MaxMade = 5
INVARIANTS Restorable
CHECK_DEADLOCK FALSE
