SPECIFICATION Spec
CONSTANTS
  Buf = 3
  PipeSize = 3
  MaxOut = 2
  Sibling = {}
CHECK_DEADLOCK FALSE
INVARIANT
  TextIsStored
