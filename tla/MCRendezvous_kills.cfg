SPECIFICATION Spec
CONSTANTS
  Client = {c1, c2}
  Daemon = {d1, d2}
  Op = {"create"}
  PipeSize = 2
  Attempts = 0
  Nobody = Nobody
  Simultaneous = TRUE
  BadTiming = TRUE
  CanKill = TRUE
INVARIANT
  AtMostOnce
SYMMETRY ProcessSymmetry
CHECK_DEADLOCK FALSE
