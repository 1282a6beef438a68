SPECIFICATION Spec
CONSTANTS
  Address = {a1, a2, a3}
  Null = Null
  Junk = Junk
  MaxTaskid = 4
  Me = 2
INVARIANTS
  TypeOK
  ArrayIsList
  FoundUnlessDisturbed
  ReadsArrayOnly
SYMMETRY AddressSymmetry
CHECK_DEADLOCK FALSE
