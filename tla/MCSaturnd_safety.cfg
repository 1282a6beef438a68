SPECIFICATION FairSpec
CONSTANTS
  MaxTaskid = 2
  Payload = {p1}
  Long = {p1}
  NoTask = NoTask
  EmptyTask = EmptyTask
  CutTask = CutTask
  Null = Null
  CanCrash = TRUE
  CanFail = TRUE
INVARIANTS
  TypeOK
  FreshTaskid
  AckedDurable
  SlotsAgree
  ListsEveryTask
  WorkerHasItsFiles
  RemoveFindsItsFiles
  
  CleanupJoinsAll
  PromiseKept
  IInv
PROPERTIES
  ImplementsTaskStore
  ThreadsLive
  RequestsComplete
  CleanupEnds
