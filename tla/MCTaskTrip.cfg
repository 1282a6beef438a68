SPECIFICATION FairSpec
CONSTANTS
  FieldMax = 10
  Character = {"0", "1", "-", ",", "*"}
  MaxText = 4
  Texts <- MCTexts
  Argvs <- MCArgvs
  Wrap = 16
  Chunk = 10
  Base = 16
  Word = 3
  Left <- MCLeft
  Most = 3
  CanDie = TRUE
INVARIANTS
  TypeOK
  ParsedIsDenoted
  ShownIsTyped
PROPERTIES
  ShortOnlyAtChunkEnd
  TripEnds
CHECK_DEADLOCK FALSE
