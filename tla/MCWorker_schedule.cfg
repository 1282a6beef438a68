SPECIFICATION Spec
CONSTANTS
  Minute = 2
  Hour = 2
  MaxTime = 4
  MaxLife = 1
  RunsPerWrite = 1
  Slow = FALSE
  CanCrash = FALSE
  CanFail = FALSE
PROPERTY
  RunsOnSchedule
CHECK_DEADLOCK FALSE
