SPECIFICATION FairSpec
CONSTANTS
  Client = {c1, c2, c3}
  Daemon = {d1}
  Op = {"list", "create", "terminate"}
  PipeSize = 2
  Attempts = 2
  Nobody = Nobody
  Simultaneous = FALSE
  BadTiming = FALSE
  CanKill = FALSE
INVARIANTS
  TypeOK
  StopsOnlyWhenAsked
PROPERTY
  ImplementsCalls
CHECK_DEADLOCK FALSE
