SPECIFICATION Spec
CONSTANTS
  MaxTaskid = 2
  Payload = {p1}
  Long = {}
  NoTask = NoTask
  EmptyTask = EmptyTask
  CutTask = CutTask
  Null = Null
  CanCrash = FALSE
  CanFail = FALSE
INVARIANT
  NoNullWorkerRead
