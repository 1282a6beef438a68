SPECIFICATION FairSpec
CONSTANTS
  Minute = 2
  Hour = 2
  MaxTime = 4
  MaxLife = 2
  RunsPerWrite = 1
  Slow = TRUE
  CanCrash = TRUE
  CanFail = TRUE
INVARIANTS
  TypeOK
  RunsOrdered
  FilesMatchMemory
  RunsFileIsBeginning
  MinutesServed
PROPERTIES
  ImplementsThread
  RunIsRecorded
CHECK_DEADLOCK FALSE
