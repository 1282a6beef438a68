SPECIFICATION FairSpec
CONSTANTS
  Buf = 2
  PipeSize = 3
  MaxOut = 4
  Sibling = {o1}
INVARIANTS
  TypeOK
  StoredIsBeginning
  WholeWhenFull
PROPERTIES
  CommandEnds
  CollectEnds
CHECK_DEADLOCK FALSE
