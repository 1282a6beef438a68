--------------------------- MODULE SaturndProofs ---------------------------
(***************************************************************************)
(* Saturnd's safety properties hold for every set of payloads, every bound *)
(* on the identifiers and with crashes and failing calls switched on or    *)
(* off: IInv of module SaturndInv is an inductive invariant and implies    *)
(* them.  Lemma NextCases folds the steps that differ only in their        *)
(* reasons into a few cases; each part of IInv then has a lemma with one   *)
(* step per case.                                                          *)
(***************************************************************************)
EXTENDS SaturndInv, TLAPS

\* The process is gone, for whatever reason.
Ends == ProcessEnds /\ fault' \in Fault /\ UNCHANGED <<disk, history>>

\* A request other than CREATE and a REMOVE that succeeds gets its reply.
Answers ==
  /\ pc = "idle" /\ pc' = "reply"
  /\ reply' \in [op : Op, status : {"none", "OK", "NOT_FOUND", "NEVER_RUN", "ERROR"},
                 tasks : SUBSET TaskId, client : {"none", "waiting", "reading", "gone"}]
  /\ reply'.op # "CREATE_TASK"
  /\ reply'.op = "LIST_TASKS" =>
       reply'.tasks = {id \in g_running_taskids : \E i \in DOMAIN g_workers : g_workers[i] = id}
  /\ UNCHANGED <<disk, tables, thread, todo, cur, step, fault, history>>

\* The client of a reply comes, is killed, or gives way to another.
ClientMoves ==
  /\ pc \in {"reply", "send"} /\ pc' \in {"reply", "send"}
  /\ \E c \in {"waiting", "reading", "gone"} : reply' = [reply EXCEPT !.client = c]
  /\ UNCHANGED <<disk, tables, thread, todo, cur, step, fault, history>>

\* The main thread gives up and goes to its cleanup.
Aborts == /\ pc \notin {"down", "cleanup", "joining"}
          /\ GotoCleanup
          /\ UNCHANGED <<disk, thread, fault, history>>

\* A worker thread ends, cancelled or by itself.
WorkerEnds(id) == /\ \/ thread[id] = "cancelled"
                     \/ thread[id] = "alive" /\ (id \notin g_running_taskids \/ CanFail)
                  /\ EndThread(id)

\* Every step is one of these.
LEMMA NextCases ==
  ASSUME TypeOK, [Next]_vars
  PROVE  \/ StartUp
         \/ LoadNext
         \/ LoadDone
         \/ MakeDirectory
         \/ OpenTask
         \/ OpenEmptyTask
         \/ WriteTask
         \/ OpenOutput
         \/ StartThread
         \/ RemoveJoin
         \/ RemoveUnlink
         \/ RemoveDirectory
         \/ SendReply
         \/ CleanupCancel
         \/ CleanupJoin
         \/ CleanupStale
         \/ \E p \in Payload : CreateTask(p)
         \/ \E id \in TaskId : RemoveTask(id)
         \/ Aborts
         \/ Ends
         \/ Answers
         \/ \E id \in TaskId : WorkerEnds(id)
         \/ WriteTaskPart
         \/ ClientMoves
         \/ UNCHANGED vars
  <1>1. ASSUME NEW f \in Fault, Die(f) PROVE Ends
    BY <1>1 DEF Die, Ends
  <1>2. CASE MainStep
    <2>1. CASE CleanupDone \/ CleanupUnset \/ SendToNobody
      BY <1>1, <2>1 DEF CleanupDone, CleanupUnset, SendToNobody, Ends, Fault, TypeOK, history
    <2>2. CASE ReadCutTask
      BY <2>2 DEF ReadCutTask, Aborts
    <2>3. CASE OpenReply
      BY <2>3 DEF OpenReply, ClientMoves
    <2> QED
      BY <1>2, <2>1, <2>2, <2>3 DEF MainStep
  <1>3. CASE Request
    <2>1. CASE ListTasks \/ Terminate \/ OtherRequest
      BY <2>1
      DEF ListTasks, Terminate, OtherRequest, Answer, Answers, Client, TypeOK, Op, GetOp,
         tables, history
    <2>2. CASE \E id \in TaskId : NotFound("REMOVE_TASK", id)
      BY <2>2 DEF NotFound, Answer, Answers, Client, Op, GetOp
    <2>3. CASE \E id \in TaskId, op \in GetOp : GetTask(op, id) \/ NotFound(op, id)
      BY <2>3 DEF GetTask, NotFound, Answer, Answers, Client, Op, GetOp
    <2>4. CASE ListReadsFreed \/ \E id \in TaskId : LookupDies(id)
      BY <2>4, <1>1 DEF ListReadsFreed, LookupDies, GetWorkerDies, Fault
    <2> QED
      BY <1>3, <2>1, <2>2, <2>3, <2>4 DEF Request
  <1>4. CASE WorkerStep
    BY <1>4 DEF WorkerStep, WorkerCancelled, WorkerLeaves, WorkerFails, WorkerEnds
  <1>5. CASE Crash
    BY <1>5 DEF Crash, Ends, TypeOK, history
  <1>6. CASE SyscallFails
    BY <1>6 DEF SyscallFails, Aborts
  <1>7. CASE ClientKilled \/ OtherClient
    BY <1>7 DEF ClientKilled, OtherClient, ClientMoves
  <1> QED
    BY <1>2, <1>3, <1>4, <1>5, <1>6, <1>7 DEF Next

\* A step keeps every variable in its type.
LEMMA TypeStep ==
  ASSUME IInv, [Next]_vars
  PROVE  TypeOK'
<1> USE DEF IInv
<1>1. CASE StartUp
  BY <1>1 DEF TypeOK, Fault, NoCur, StartUp, disk, history
<1>2. CASE LoadNext
  BY <1>2 DEF TypeOK, NoCur, LoadNext, disk, history
<1>3. CASE LoadDone
  BY <1>3 DEF TypeOK, NoCur, LoadDone, disk, tables, history
<1>4. CASE MakeDirectory
  BY <1>4 DEF TypeOK, NoCur, MakeDirectory, tables, history
<1>5. CASE OpenTask
  <2>1. CASE cur.task = Null
    BY <1>5, <2>1 DEF TypeOK, OpenTask, tables, history
  <2>2. CASE cur.task # Null
    BY <1>5, <2>2 DEF TypeOK, OpenTask, tables, history
  <2> QED
    BY <2>1, <2>2
<1>6. CASE OpenEmptyTask
  BY <1>6, BoundAssumption
  DEF TypeOK, Op, NoCur, NoReply, TaskId, OpenEmptyTask, GotoCleanup, history
<1>7. CASE WriteTask
  BY <1>7 DEF TypeOK, Definition, NoCur, NoReply, WriteTask, tables, history, DirectoryProgress
<1>8. CASE OpenOutput
  BY <1>8
  DEF TypeOK, NoCur, NoReply, OutputFiles, OutputFile, OpenOutput, tables, history,
     DirectoryProgress
<1>9. CASE StartThread
  <2>1. g_workers' \in Seq(TaskId \cup {Null})
    BY <1>9 DEF TypeOK, StartThread
  <2>2. thread' \in [TaskId -> Status] /\ g_running_taskids' \subseteq TaskId
    BY <1>9 DEF TypeOK, StartThread, Status
  <2>3. reply' \in [op : Op, status : {"none", "OK", "NOT_FOUND", "NEVER_RUN", "ERROR"},
                   tasks : SUBSET TaskId, client : {"none", "waiting", "reading", "gone"}]
    BY <1>9 DEF TypeOK, StartThread, Client, Op
  <2>4. cur' \in [id : TaskId, task : Payload \cup {Null}]
    BY <1>9, BoundAssumption DEF TypeOK, StartThread, NoCur, TaskId
  <2> QED
    BY <1>9, <2>1, <2>2, <2>3, <2>4 DEF TypeOK, StartThread, disk, history
<1>10. CASE RemoveJoin
  BY <1>10 DEF TypeOK, Status, NoCur, RemoveJoin, disk
<1>11. CASE RemoveUnlink
  <2>1. step \in 0 .. 3
    BY <1>11 DEF DirectoryProgress, RemoveUnlink
  <2>2. /\ task_file' \in [TaskId -> Definition \cup {NoTask, EmptyTask}]
        /\ output_files' \in [TaskId -> SUBSET OutputFiles]
    <3>1. CASE step = 0
      BY <1>11, <3>1 DEF TypeOK, RemoveUnlink
    <3>2. CASE step # 0
      <4>1. /\ output_files' = [output_files EXCEPT ![cur.id] = @ \ {OutputFile[step]}]
            /\ UNCHANGED task_file
        BY <1>11, <3>2 DEF RemoveUnlink
      <4> QED BY <4>1 DEF TypeOK
    <3> QED BY <3>1, <3>2
  <2> QED
    BY <1>11, <2>1, <2>2 DEF TypeOK, RemoveUnlink, OutputFile, tables, history
<1>12. CASE RemoveDirectory
  BY <1>12 DEF TypeOK, Op, NoCur, NoReply, RemoveDirectory, Answer, Client, tables, history
<1>13. CASE SendReply
  <2>1. acked' \in [TaskId -> Payload \cup {NoTask}]
    BY <1>13 DEF TypeOK, AckedIsStored, SendReply
  <2>2. CASE reply.op = "TERMINATE"
    BY <1>13, <2>1, <2>2, BoundAssumption
    DEF TypeOK, SendReply, GotoCleanup, NoCur, NoReply, Op, TaskId, disk
  <2>3. CASE reply.op # "TERMINATE"
    <3>1. /\ UNCHANGED <<disk, tables, thread, todo, step, fault, retired>>
          /\ pc' = "idle" /\ cur' = NoCur /\ reply' = NoReply
      BY <1>13, <2>3 DEF SendReply
    <3>2. NoCur \in [id : TaskId, task : Payload \cup {Null}]
      BY BoundAssumption DEF NoCur, TaskId
    <3> QED
      BY <2>1, <3>1, <3>2 DEF TypeOK, NoReply, Op, disk, tables
  <2> QED
    BY <2>2, <2>3
<1>14. CASE CleanupCancel
  <2>1. step \in DOMAIN g_threads /\ g_threads[step] \in TaskId
    BY <1>14 DEF TypeOK, CleanupProgress, CleanupCancel
  <2> QED
    BY <1>14, <2>1 DEF TypeOK, Status, CleanupCancel, disk, tables, history
<1>15. CASE CleanupJoin
  BY <1>15, BoundAssumption
  DEF TypeOK, Status, NoCur, TaskId, CleanupJoin, disk, tables, history
<1>16. CASE CleanupStale
  <2>1. CASE Die("stale_thread")
    BY <1>16, <2>1, BoundAssumption
    DEF TypeOK, Status, Op, Fault, Die, ProcessEnds, NoCur, NoReply, TaskId, disk, history
  <2>2. CASE step' = step + 1
    BY <1>16, <2>2
    DEF TypeOK, Fault, CleanupStale, Die, ProcessEnds, NoCur, disk, tables, history
  <2>3. ASSUME NEW i \in step + 1 .. Len(g_threads), cur' = [id |-> g_threads[i], task |-> Null],
               thread' = [thread EXCEPT ![g_threads[i]] = IF @ = "alive" THEN "cancelled" ELSE @],
               pc' = "joining", fault' = "stale_thread",
               UNCHANGED <<disk, tables, todo, step, reply, history>>
        PROVE  TypeOK'
    <3>1. i \in DOMAIN g_threads /\ g_threads[i] \in TaskId
      BY <1>16 DEF TypeOK, CleanupProgress, CleanupStale
    <3> QED
      BY <2>3, <3>1 DEF TypeOK, Status, Fault, disk, tables, history
  <2> QED
    BY <1>16, <2>1, <2>2, <2>3 DEF CleanupStale
<1>17. CASE \E p \in Payload : CreateTask(p)
  BY <1>17, BoundAssumption DEF TypeOK, NoCur, TaskId, CreateTask, disk, history
<1>18. CASE \E id \in TaskId : RemoveTask(id)
  BY <1>18 DEF TypeOK, Status, NoCur, RemoveTask, disk, tables, history
<1>19. CASE Aborts
  BY <1>19, BoundAssumption
  DEF TypeOK, Op, NoCur, NoReply, TaskId, Aborts, GotoCleanup, disk, history
<1>20. CASE Ends
  <2>1. /\ NoCur \in [id : TaskId, task : Payload \cup {Null}]
        /\ 0 \in 0 .. MaxTaskid + 1 /\ << >> \in Seq(TaskId)
        /\ << >> \in Seq(TaskId \cup {Null})
    BY BoundAssumption DEF NoCur, TaskId
  <2> QED
    BY <1>20, <2>1 DEF TypeOK, Status, Op, NoReply, Ends, ProcessEnds, disk, history
<1>21. CASE Answers
  BY <1>21 DEF TypeOK, NoCur, Answers, disk, tables, history
<1>22. CASE \E id \in TaskId : WorkerEnds(id)
  BY <1>22 DEF TypeOK, Status, NoCur, NoReply, WorkerEnds, EndThread, disk, tables, history
<1>23. CASE UNCHANGED vars
  BY <1>23 DEF TypeOK, NoCur, vars, disk, tables, history
<1>24. CASE WriteTaskPart
  BY <1>24 DEF TypeOK, Definition, NoCur, NoReply, WriteTaskPart, tables, history, DirectoryProgress
<1>25. CASE ClientMoves
  BY <1>25 DEF TypeOK, NoCur, ClientMoves, disk, tables, history
<1> QED
  BY <1>1, <1>2, <1>3, <1>4, <1>5, <1>6, <1>7, <1>8, <1>9, <1>10, <1>11, <1>12, <1>13,
     <1>14, <1>15, <1>16, <1>17, <1>18, <1>19, <1>20, <1>21, <1>22, <1>23, <1>24, <1>25, NextCases

\* A directory that is not there holds nothing.
LEMMA NothingStep ==
  ASSUME IInv, [Next]_vars
  PROVE  NothingWithoutDirectory'
<1> USE DEF IInv
<1>1. CASE StartUp
  BY <1>1 DEF NothingWithoutDirectory, StartUp, disk
<1>2. CASE LoadNext
  BY <1>2 DEF NothingWithoutDirectory, LoadNext, disk
<1>3. CASE LoadDone
  BY <1>3 DEF NothingWithoutDirectory, LoadDone, disk
<1>4. CASE MakeDirectory
  BY <1>4 DEF NothingWithoutDirectory, MakeDirectory
<1>5. CASE OpenTask
  BY <1>5 DEF NothingWithoutDirectory, TypeOK, DirectoryProgress, OpenTask
<1>6. CASE OpenEmptyTask
  BY <1>6 DEF NothingWithoutDirectory, DirectoryProgress, OpenEmptyTask
<1>7. CASE WriteTask
  BY <1>7 DEF NothingWithoutDirectory, DirectoryProgress, WriteTask
<1>8. CASE OpenOutput
  BY <1>8 DEF NothingWithoutDirectory, DirectoryProgress, OpenOutput
<1>9. CASE StartThread
  BY <1>9 DEF NothingWithoutDirectory, StartThread, disk
<1>10. CASE RemoveJoin
  BY <1>10 DEF NothingWithoutDirectory, RemoveJoin, disk
<1>11. CASE RemoveUnlink
  BY <1>11 DEF NothingWithoutDirectory, TypeOK, DirectoryProgress, RemoveUnlink
<1>12. CASE RemoveDirectory
  BY <1>12 DEF NothingWithoutDirectory, DirectoryProgress, RemoveDirectory
<1>13. CASE SendReply
  BY <1>13 DEF NothingWithoutDirectory, SendReply, disk
<1>14. CASE CleanupCancel
  BY <1>14 DEF NothingWithoutDirectory, CleanupCancel, disk
<1>15. CASE CleanupJoin
  BY <1>15 DEF NothingWithoutDirectory, CleanupJoin, disk
<1>16. CASE CleanupStale
  BY <1>16 DEF NothingWithoutDirectory, CleanupStale, Die, disk
<1>17. CASE \E p \in Payload : CreateTask(p)
  BY <1>17 DEF NothingWithoutDirectory, CreateTask, disk
<1>18. CASE \E id \in TaskId : RemoveTask(id)
  BY <1>18 DEF NothingWithoutDirectory, RemoveTask, disk
<1>19. CASE Aborts
  BY <1>19 DEF NothingWithoutDirectory, Aborts, disk
<1>20. CASE Ends
  BY <1>20 DEF NothingWithoutDirectory, Ends, disk
<1>21. CASE Answers
  BY <1>21 DEF NothingWithoutDirectory, Answers, disk
<1>22. CASE \E id \in TaskId : WorkerEnds(id)
  BY <1>22 DEF NothingWithoutDirectory, WorkerEnds, EndThread, disk
<1>23. CASE UNCHANGED vars
  BY <1>23 DEF NothingWithoutDirectory, vars, disk
<1>24. CASE WriteTaskPart
  BY <1>24 DEF NothingWithoutDirectory, DirectoryProgress, WriteTaskPart
<1>25. CASE ClientMoves
  BY <1>25 DEF NothingWithoutDirectory, ClientMoves, disk
<1> QED
  BY <1>1, <1>2, <1>3, <1>4, <1>5, <1>6, <1>7, <1>8, <1>9, <1>10, <1>11, <1>12, <1>13,
     <1>14, <1>15, <1>16, <1>17, <1>18, <1>19, <1>20, <1>21, <1>22, <1>23, <1>24, <1>25, NextCases

\* Identifiers in use stay below the next one.
LEMMA BelowLastStep ==
  ASSUME IInv, [Next]_vars
  PROVE  BelowLast'
<1> USE DEF IInv
<1>1. CASE StartUp
  BY <1>1 DEF BelowLast, Creating, InCreate, StartUp, disk, ThreadsAreTasks, ArraysAgree
<1>2. CASE LoadNext
  BY <1>2 DEF BelowLast, TypeOK, Creating, Running, DirectoriesAreTasks, LoadNext, disk
<1>3. CASE LoadDone
  BY <1>3 DEF BelowLast, Creating, InCreate, LoadDone, disk, tables
<1>4. CASE MakeDirectory
  BY <1>4 DEF BelowLast, Creating, InCreate, MakeDirectory, tables
<1>5. CASE OpenTask
  BY <1>5 DEF BelowLast, Creating, InCreate, OpenTask, tables
<1>6. CASE OpenEmptyTask
  BY <1>6 DEF BelowLast, Creating, InCreate, OpenEmptyTask, GotoCleanup
<1>7. CASE WriteTask
  BY <1>7 DEF BelowLast, Creating, InCreate, WriteTask, tables
<1>8. CASE OpenOutput
  BY <1>8 DEF BelowLast, Creating, InCreate, OpenOutput, tables
<1>9. CASE StartThread
  BY <1>9 DEF BelowLast, Creating, InCreate, StartThread, disk
<1>10. CASE RemoveJoin
  BY <1>10 DEF BelowLast, TypeOK, Creating, RemoveJoin, disk
<1>11. CASE RemoveUnlink
  BY <1>11 DEF BelowLast, Creating, InCreate, RemoveUnlink, tables
<1>12. CASE RemoveDirectory
  BY <1>12 DEF BelowLast, Creating, InCreate, RemoveDirectory, Answer, tables
<1>13. CASE SendReply
  BY <1>13 DEF BelowLast, Creating, InCreate, SendReply, GotoCleanup, disk, tables
<1>14. CASE CleanupCancel
  BY <1>14 DEF BelowLast, Creating, InCreate, CleanupCancel, disk, tables
<1>15. CASE CleanupJoin
  BY <1>15 DEF BelowLast, Creating, InCreate, CleanupJoin, disk, tables
<1>16. CASE CleanupStale
  BY <1>16
  DEF BelowLast, TypeOK, Creating, InCreate, Running, CleanupStale, Die, ProcessEnds, disk,
     tables
<1>17. CASE \E p \in Payload : CreateTask(p)
  BY <1>17, BoundAssumption DEF BelowLast, TypeOK, TaskId, CreateTask, disk
<1>18. CASE \E id \in TaskId : RemoveTask(id)
  BY <1>18 DEF BelowLast, Creating, InCreate, RemoveTask, disk, tables
<1>19. CASE Aborts
  BY <1>19 DEF BelowLast, Creating, InCreate, Aborts, GotoCleanup, disk
<1>20. CASE Ends
  BY <1>20 DEF BelowLast, Ends, ProcessEnds
<1>21. CASE Answers
  BY <1>21 DEF BelowLast, Creating, InCreate, Answers, disk, tables
<1>22. CASE \E id \in TaskId : WorkerEnds(id)
  BY <1>22 DEF BelowLast, Creating, InCreate, WorkerEnds, EndThread, disk, tables
<1>23. CASE UNCHANGED vars
  BY <1>23 DEF BelowLast, Creating, InCreate, vars, disk, tables
<1>24. CASE WriteTaskPart
  BY <1>24 DEF BelowLast, Creating, InCreate, WriteTaskPart, tables
<1>25. CASE ClientMoves
  BY <1>25 DEF BelowLast, Creating, InCreate, ClientMoves, disk, tables
<1> QED
  BY <1>1, <1>2, <1>3, <1>4, <1>5, <1>6, <1>7, <1>8, <1>9, <1>10, <1>11, <1>12, <1>13,
     <1>14, <1>15, <1>16, <1>17, <1>18, <1>19, <1>20, <1>21, <1>22, <1>23, <1>24, <1>25, NextCases

\* create_worker and REMOVE advance through the directory file by file.
LEMMA ProgressStep ==
  ASSUME IInv, [Next]_vars
  PROVE  DirectoryProgress'
<1> USE DEF IInv
<1>1. CASE StartUp
  BY <1>1 DEF DirectoryProgress, StartUp
<1>2. CASE LoadNext
  BY <1>2 DEF DirectoryProgress, DirectoriesAreTasks, Running, LoadNext, disk
<1>3. CASE LoadDone
  BY <1>3 DEF DirectoryProgress, LoadDone
<1>4. CASE MakeDirectory
  BY <1>4 DEF DirectoryProgress, TypeOK, NoCur, MakeDirectory, NothingWithoutDirectory
<1>5. CASE OpenTask
  BY <1>5 DEF DirectoryProgress, TypeOK, OpenTask
<1>6. CASE OpenEmptyTask
  BY <1>6 DEF DirectoryProgress, OpenEmptyTask, GotoCleanup
<1>7. CASE WriteTask
  BY <1>7 DEF DirectoryProgress, TypeOK, Definition, WriteTask
<1>8. CASE OpenOutput
  BY <1>8 DEF DirectoryProgress, TypeOK, OutputFile, OutputFiles, OpenOutput
<1>9. CASE StartThread
  BY <1>9 DEF DirectoryProgress, StartThread
<1>10. CASE RemoveJoin
  BY <1>10 DEF DirectoryProgress, DirectoriesAreTasks, Running, Complete, RemoveJoin, disk
<1>11. CASE RemoveUnlink
  <2>1. /\ step \in 0 .. 3 /\ cur.id \in directories /\ cur.id \in TaskId
        /\ cur' = cur /\ directories' = directories
    BY <1>11 DEF RemoveUnlink, DirectoryProgress, TypeOK
  <2>2. CASE step = 0
    BY <1>11, <2>1, <2>2 DEF RemoveUnlink, DirectoryProgress, TypeOK, OutputFile
  <2>3. CASE step = 1
    BY <1>11, <2>1, <2>3
    DEF RemoveUnlink, DirectoryProgress, TypeOK, OutputFile, OutputFiles
  <2>4. CASE step = 2
    BY <1>11, <2>1, <2>4 DEF RemoveUnlink, DirectoryProgress, TypeOK, OutputFile
  <2>5. CASE step = 3
    BY <1>11, <2>1, <2>5 DEF RemoveUnlink, DirectoryProgress, TypeOK, OutputFile
  <2> QED
    BY <2>1, <2>2, <2>3, <2>4, <2>5
<1>12. CASE RemoveDirectory
  BY <1>12 DEF DirectoryProgress, NoCur, RemoveDirectory, Answer
<1>13. CASE SendReply
  BY <1>13 DEF DirectoryProgress, SendReply, GotoCleanup
<1>14. CASE CleanupCancel
  BY <1>14 DEF DirectoryProgress, CleanupCancel
<1>15. CASE CleanupJoin
  BY <1>15 DEF DirectoryProgress, CleanupJoin
<1>16. CASE CleanupStale
  BY <1>16 DEF DirectoryProgress, CleanupStale, Die, ProcessEnds
<1>17. CASE \E p \in Payload : CreateTask(p)
  <2>1. g_last_taskid \notin directories
    BY <1>17 DEF CreateTask, BelowLast, TypeOK, TaskId
  <2> QED
    BY <1>17, <2>1, PayloadAssumption DEF CreateTask, DirectoryProgress, disk
<1>18. CASE \E id \in TaskId : RemoveTask(id)
  BY <1>18 DEF DirectoryProgress, RemoveTask
<1>19. CASE Aborts
  BY <1>19 DEF DirectoryProgress, Aborts, GotoCleanup
<1>20. CASE Ends
  BY <1>20 DEF DirectoryProgress, Ends, ProcessEnds
<1>21. CASE Answers
  BY <1>21 DEF DirectoryProgress, Answers
<1>22. CASE \E id \in TaskId : WorkerEnds(id)
  BY <1>22 DEF DirectoryProgress, NoCur, WorkerEnds, EndThread, disk
<1>23. CASE UNCHANGED vars
  BY <1>23 DEF DirectoryProgress, vars, disk
<1>24. CASE WriteTaskPart
  BY <1>24 DEF DirectoryProgress, TypeOK, WriteTaskPart
<1>25. CASE ClientMoves
  BY <1>25 DEF DirectoryProgress, ClientMoves
<1> QED
  BY <1>1, <1>2, <1>3, <1>4, <1>5, <1>6, <1>7, <1>8, <1>9, <1>10, <1>11, <1>12, <1>13,
     <1>14, <1>15, <1>16, <1>17, <1>18, <1>19, <1>20, <1>21, <1>22, <1>23, <1>24, <1>25, NextCases

\* Outside the directory being changed, directories and tasks are the same.
LEMMA DirectoriesStep ==
  ASSUME IInv, [Next]_vars
  PROVE  DirectoriesAreTasks'
<1> USE DEF IInv
<1>1. CASE StartUp
  BY <1>1
  DEF DirectoriesAreTasks, ArraysAgree, Changing, InCreate, StartUp, disk, SlotsAgree
<1>2. CASE LoadNext
  BY <1>2 DEF DirectoriesAreTasks, Running, Changing, InCreate, Complete, LoadNext, disk
<1>3. CASE LoadDone
  BY <1>3
  DEF DirectoriesAreTasks, Running, Changing, InCreate, Complete, LoadDone, disk, tables
<1>4. CASE MakeDirectory
  BY <1>4
  DEF DirectoriesAreTasks, Running, Changing, InCreate, Complete, MakeDirectory, tables
<1>5. CASE OpenTask
  BY <1>5, PayloadAssumption
  DEF DirectoriesAreTasks, DirectoryProgress, BelowLast, TypeOK, Running, Changing,
     InCreate, Complete, ThreadsAreTasks, OpenTask, tables, history
<1>6. CASE OpenEmptyTask
  BY <1>6 DEF DirectoriesAreTasks, Running, OpenEmptyTask, GotoCleanup
<1>7. CASE WriteTask
  BY <1>7 DEF DirectoriesAreTasks, Running, Changing, InCreate, Complete, WriteTask, tables
<1>8. CASE OpenOutput
  BY <1>8 DEF DirectoriesAreTasks, Running, Changing, InCreate, Complete, OpenOutput, tables
<1>9. CASE StartThread
  BY <1>9
  DEF DirectoriesAreTasks, DirectoryProgress, Running, Changing, InCreate, Complete,
     StartThread, disk
<1>10. CASE RemoveJoin
  BY <1>10 DEF DirectoriesAreTasks, Running, Changing, Complete, RemoveJoin, disk
<1>11. CASE RemoveUnlink
  BY <1>11
  DEF DirectoriesAreTasks, TypeOK, Running, Changing, InCreate, Complete, RemoveUnlink,
     tables
<1>12. CASE RemoveDirectory
  BY <1>12, PayloadAssumption
  DEF DirectoriesAreTasks, DirectoryProgress, Running, InCreate, Complete, Definition,
     RemoveDirectory, Answer, tables
<1>13. CASE SendReply
  BY <1>13
  DEF DirectoriesAreTasks, Running, Changing, InCreate, Complete, SendReply, GotoCleanup,
     disk, tables
<1>14. CASE CleanupCancel
  BY <1>14 DEF DirectoriesAreTasks, Running, CleanupCancel
<1>15. CASE CleanupJoin
  BY <1>15 DEF DirectoriesAreTasks, Running, CleanupJoin
<1>16. CASE CleanupStale
  BY <1>16 DEF DirectoriesAreTasks, Running, CleanupStale, Die, ProcessEnds
<1>17. CASE \E p \in Payload : CreateTask(p)
  BY <1>17
  DEF DirectoriesAreTasks, BelowLast, TypeOK, Running, Changing, InCreate, Complete,
     CreateTask, disk
<1>18. CASE \E id \in TaskId : RemoveTask(id)
  BY <1>18
  DEF DirectoriesAreTasks, Running, Changing, InCreate, Complete, RemoveTask, disk, tables
<1>19. CASE Aborts
  BY <1>19 DEF DirectoriesAreTasks, Running, Aborts, GotoCleanup
<1>20. CASE Ends
  BY <1>20 DEF DirectoriesAreTasks, Running, Ends, ProcessEnds
<1>21. CASE Answers
  BY <1>21
  DEF DirectoriesAreTasks, Running, Changing, InCreate, Complete, Answers, disk, tables
<1>22. CASE \E id \in TaskId : WorkerEnds(id)
  BY <1>22
  DEF DirectoriesAreTasks, Running, Changing, InCreate, Complete, WorkerEnds, EndThread,
     disk, tables
<1>23. CASE UNCHANGED vars
  BY <1>23
  DEF DirectoriesAreTasks, Running, Changing, InCreate, Complete, vars, disk, tables
<1>24. CASE WriteTaskPart
  BY <1>24 DEF DirectoriesAreTasks, Running, Changing, InCreate, Complete, WriteTaskPart, tables
<1>25. CASE ClientMoves
  BY <1>25
  DEF DirectoriesAreTasks, Running, Changing, InCreate, Complete, ClientMoves, disk, tables
<1> QED
  BY <1>1, <1>2, <1>3, <1>4, <1>5, <1>6, <1>7, <1>8, <1>9, <1>10, <1>11, <1>12, <1>13,
     <1>14, <1>15, <1>16, <1>17, <1>18, <1>19, <1>20, <1>21, <1>22, <1>23, <1>24, <1>25, NextCases

\* A live thread has its files, and every thread its handle.
LEMMA ThreadsStep ==
  ASSUME IInv, [Next]_vars
  PROVE  ThreadsAreTasks'
<1> USE DEF IInv
<1>1. CASE StartUp
  BY <1>1 DEF ThreadsAreTasks, TypeOK, StartUp
<1>2. CASE LoadNext
  <2>1. PICK id \in todo : /\ cur' = [id |-> id, task |-> Null]
                           /\ todo' = todo \ {id}
                           /\ g_threads' = Append(g_threads, id)
    BY <1>2 DEF LoadNext
  <2>2. pc' = "mkdir" /\ thread' = thread /\ UNCHANGED disk
    BY <1>2 DEF LoadNext
  <2>3. \A i \in DOMAIN g_threads : i \in DOMAIN g_threads' /\ g_threads'[i] = g_threads[i]
    BY <2>1 DEF TypeOK
  <2> QED
    BY <2>1, <2>2, <2>3 DEF ThreadsAreTasks, Complete, InCreate, disk
<1>3. CASE LoadDone
  BY <1>3 DEF ThreadsAreTasks, InCreate, Complete, LoadDone, disk, tables
<1>4. CASE MakeDirectory
  BY <1>4 DEF ThreadsAreTasks, InCreate, Complete, MakeDirectory, tables
<1>5. CASE OpenTask
  <2>1. /\ \A id \in TaskId : id # cur.id => task_file'[id] = task_file[id]
        /\ UNCHANGED <<directories, output_files, tables, thread, todo, cur>>
        /\ pc' \in {"write", "outs"}
    BY <1>5 DEF OpenTask, TypeOK
  <2>2. thread[cur.id] = "none"
    BY <1>5 DEF OpenTask, ThreadsAreTasks, InCreate
  <2>3. pc = "open"
    BY <1>5 DEF OpenTask
  <2> QED
    BY <2>1, <2>2, <2>3 DEF ThreadsAreTasks, Complete, InCreate, tables
<1>6. CASE OpenEmptyTask
  BY <1>6 DEF ThreadsAreTasks, InCreate, Complete, OpenEmptyTask, GotoCleanup
<1>7. CASE WriteTask
  BY <1>7 DEF ThreadsAreTasks, InCreate, Complete, WriteTask, tables
<1>8. CASE OpenOutput
  BY <1>8 DEF ThreadsAreTasks, InCreate, Complete, OpenOutput, tables
<1>9. CASE StartThread
  BY <1>9
  DEF ThreadsAreTasks, DirectoryProgress, ArraysAgree, Running, Changing, InCreate,
     Complete, StartThread, disk
<1>10. CASE RemoveJoin
  BY <1>10 DEF ThreadsAreTasks, TypeOK, InCreate, Complete, RemoveJoin, disk
<1>11. CASE RemoveUnlink
  <2>1. /\ \A id \in TaskId : id # cur.id => /\ task_file'[id] = task_file[id]
                                             /\ output_files'[id] = output_files[id]
        /\ UNCHANGED <<directories, tables, thread, todo, cur>>
        /\ pc' \in {"unlink", "rmdir"}
    BY <1>11 DEF RemoveUnlink, TypeOK
  <2>2. thread[cur.id] = "joined" /\ pc = "unlink"
    BY <1>11 DEF RemoveUnlink, ThreadsAreTasks
  <2> QED
    BY <2>1, <2>2 DEF ThreadsAreTasks, Complete, InCreate, tables
<1>12. CASE RemoveDirectory
  BY <1>12 DEF ThreadsAreTasks, InCreate, Complete, RemoveDirectory, Answer, tables
<1>13. CASE SendReply
  BY <1>13 DEF ThreadsAreTasks, InCreate, Complete, SendReply, GotoCleanup, disk, tables
<1>14. CASE CleanupCancel
  BY <1>14 DEF ThreadsAreTasks, InCreate, Complete, CleanupCancel, disk, tables
<1>15. CASE CleanupJoin
  BY <1>15 DEF ThreadsAreTasks, InCreate, Complete, CleanupJoin, disk, tables
<1>16. CASE CleanupStale
  BY <1>16
  DEF ThreadsAreTasks, TypeOK, InCreate, Complete, CleanupStale, Die, ProcessEnds, disk,
     tables
<1>17. CASE \E p \in Payload : CreateTask(p)
  <2>1. PICK p \in Payload : CreateTask(p)
    BY <1>17
  <2>2. /\ g_last_taskid \in TaskId /\ cur' = [id |-> g_last_taskid, task |-> p]
        /\ pc' = "mkdir" /\ todo' = todo /\ thread' = thread
        /\ g_threads' = Append(g_threads, g_last_taskid)
        /\ UNCHANGED disk
    BY <2>1 DEF CreateTask, TypeOK, TaskId
  <2>3. thread[g_last_taskid] = "none"
    BY <2>1, <2>2 DEF BelowLast, CreateTask, TaskId
  <2>4. \A i \in DOMAIN g_threads : i \in DOMAIN g_threads' /\ g_threads'[i] = g_threads[i]
    BY <2>2 DEF TypeOK
  <2> QED
    BY <2>2, <2>3, <2>4 DEF ThreadsAreTasks, Complete, InCreate, disk
<1>18. CASE \E id \in TaskId : RemoveTask(id)
  BY <1>18 DEF ThreadsAreTasks, InCreate, Complete, RemoveTask, disk, tables
<1>19. CASE Aborts
  BY <1>19 DEF ThreadsAreTasks, InCreate, Complete, Aborts, GotoCleanup, disk
<1>20. CASE Ends
  BY <1>20 DEF ThreadsAreTasks, InCreate, Ends, ProcessEnds
<1>21. CASE Answers
  BY <1>21 DEF ThreadsAreTasks, InCreate, Complete, Answers, disk, tables
<1>22. CASE \E id \in TaskId : WorkerEnds(id)
  BY <1>22 DEF ThreadsAreTasks, InCreate, Complete, WorkerEnds, EndThread, disk, tables
<1>23. CASE UNCHANGED vars
  BY <1>23 DEF ThreadsAreTasks, InCreate, Complete, vars, disk, tables
<1>24. CASE WriteTaskPart
  BY <1>24 DEF ThreadsAreTasks, InCreate, Complete, WriteTaskPart, tables
<1>25. CASE ClientMoves
  BY <1>25 DEF ThreadsAreTasks, InCreate, Complete, ClientMoves, disk, tables
<1> QED
  BY <1>1, <1>2, <1>3, <1>4, <1>5, <1>6, <1>7, <1>8, <1>9, <1>10, <1>11, <1>12, <1>13,
     <1>14, <1>15, <1>16, <1>17, <1>18, <1>19, <1>20, <1>21, <1>22, <1>23, <1>24, <1>25, NextCases

\* The threads of the running tasks run, save where one failed.
LEMMA RunningStep ==
  ASSUME IInv, [Next]_vars
  PROVE  RunningHaveThreads'
<1> USE DEF IInv
<1>1. CASE StartUp
  BY <1>1 DEF RunningHaveThreads, Running, StartUp, ArraysAgree, SlotsAgree, tables
<1>2. CASE LoadNext
  BY <1>2 DEF RunningHaveThreads, Running, LoadNext, tables
<1>3. CASE LoadDone
  BY <1>3 DEF RunningHaveThreads, Running, LoadDone, tables
<1>4. CASE MakeDirectory
  BY <1>4 DEF RunningHaveThreads, Running, MakeDirectory, tables
<1>5. CASE OpenTask
  BY <1>5 DEF RunningHaveThreads, Running, OpenTask, tables
<1>6. CASE OpenEmptyTask
  BY <1>6 DEF RunningHaveThreads, Running, OpenEmptyTask, GotoCleanup, tables
<1>7. CASE WriteTask
  BY <1>7 DEF RunningHaveThreads, Running, WriteTask, tables
<1>8. CASE OpenOutput
  BY <1>8 DEF RunningHaveThreads, Running, OpenOutput, tables
<1>9. CASE StartThread
  BY <1>9 DEF RunningHaveThreads, Running, StartThread, TypeOK, tables
<1>10. CASE RemoveJoin
  BY <1>10 DEF RunningHaveThreads, Running, RemoveJoin, TypeOK, tables
<1>11. CASE RemoveUnlink
  BY <1>11 DEF RunningHaveThreads, Running, RemoveUnlink, tables
<1>12. CASE RemoveDirectory
  BY <1>12 DEF RunningHaveThreads, Running, RemoveDirectory, Answer, tables
<1>13. CASE SendReply
  BY <1>13 DEF RunningHaveThreads, Running, SendReply, GotoCleanup, tables
<1>14. CASE CleanupCancel
  BY <1>14 DEF RunningHaveThreads, Running, CleanupCancel, tables
<1>15. CASE CleanupJoin
  BY <1>15 DEF RunningHaveThreads, Running, CleanupJoin, tables
<1>16. CASE CleanupStale
  BY <1>16 DEF RunningHaveThreads, Running, CleanupStale, Die, ProcessEnds, tables
<1>17. CASE \E p \in Payload : CreateTask(p)
  BY <1>17 DEF RunningHaveThreads, Running, CreateTask, tables
<1>18. CASE \E id \in TaskId : RemoveTask(id)
  BY <1>18 DEF RunningHaveThreads, Running, RemoveTask, TypeOK, tables
<1>19. CASE Aborts
  BY <1>19 DEF RunningHaveThreads, Running, Aborts, GotoCleanup, tables
<1>20. CASE Ends
  BY <1>20 DEF RunningHaveThreads, Running, Ends, ProcessEnds, tables
<1>21. CASE Answers
  BY <1>21 DEF RunningHaveThreads, Running, Answers, tables
<1>22. CASE \E id \in TaskId : WorkerEnds(id)
  BY <1>22 DEF RunningHaveThreads, Running, WorkerEnds, TypeOK, EndThread, tables
<1>23. CASE UNCHANGED vars
  BY <1>23 DEF RunningHaveThreads, Running, vars, tables
<1>24. CASE WriteTaskPart
  BY <1>24 DEF RunningHaveThreads, Running, WriteTaskPart, tables
<1>25. CASE ClientMoves
  BY <1>25 DEF RunningHaveThreads, Running, ClientMoves, tables
<1> QED
  BY <1>1, <1>2, <1>3, <1>4, <1>5, <1>6, <1>7, <1>8, <1>9, <1>10, <1>11, <1>12, <1>13,
     <1>14, <1>15, <1>16, <1>17, <1>18, <1>19, <1>20, <1>21, <1>22, <1>23, <1>24, <1>25, NextCases

\* The arrays stay side by side.
LEMMA ArraysStep ==
  ASSUME IInv, [Next]_vars
  PROVE  ArraysAgree'
<1> USE DEF IInv
<1>1. CASE StartUp
  BY <1>1 DEF ArraysAgree, SlotsAgree, InCreate, StartUp
<1>2. CASE LoadNext
  <2> PICK id \in todo : /\ g_threads' = Append(g_threads, id) /\ todo' = todo \ {id}
                         /\ \A other \in todo : id <= other
                         /\ cur' = [id |-> id, task |-> Null]
    BY <1>2 DEF LoadNext
  <2>1. /\ Len(g_threads) = Len(g_workers) /\ g_threads \in Seq(TaskId) /\ id \in TaskId
        /\ pc = "load" /\ pc' = "mkdir" /\ UNCHANGED <<g_workers, g_running_taskids>>
    BY <1>2 DEF LoadNext, ArraysAgree, Running, InCreate, TypeOK
  <2>2. /\ Len(g_threads') = Len(g_threads) + 1 /\ g_threads'[Len(g_threads')] = id
        /\ \A i \in DOMAIN g_threads : g_threads'[i] = g_threads[i]
        /\ DOMAIN g_threads' = DOMAIN g_threads \cup {Len(g_threads')}
        /\ \A i \in DOMAIN g_threads : i < Len(g_threads')
    BY <2>1
  <2>3. \A i, j \in DOMAIN g_threads' : i < j => g_threads'[i] < g_threads'[j]
    BY <2>1, <2>2 DEF ArraysAgree, SlotsAgree
  <2>4. \A i \in DOMAIN g_threads' : \A other \in todo' : g_threads'[i] < other
    BY <2>1, <2>2 DEF ArraysAgree, TypeOK, TaskId
  <2>5. \A i \in DOMAIN g_workers' : g_workers'[i] \in {Null, g_threads'[i]}
    <3>1. DOMAIN g_workers = DOMAIN g_threads
      BY <2>1 DEF TypeOK
    <3> QED
      BY <2>1, <2>2, <3>1 DEF ArraysAgree, SlotsAgree
  <2> QED
    BY <2>1, <2>2, <2>3, <2>4, <2>5 DEF ArraysAgree, SlotsAgree, Running, InCreate
<1>3. CASE LoadDone
  BY <1>3 DEF ArraysAgree, SlotsAgree, Running, InCreate, LoadDone, tables
<1>4. CASE MakeDirectory
  BY <1>4 DEF ArraysAgree, SlotsAgree, InCreate, MakeDirectory, tables
<1>5. CASE OpenTask
  BY <1>5 DEF ArraysAgree, SlotsAgree, InCreate, OpenTask, tables
<1>6. CASE OpenEmptyTask
  BY <1>6 DEF ArraysAgree, SlotsAgree, Running, InCreate, OpenEmptyTask, GotoCleanup
<1>7. CASE WriteTask
  BY <1>7 DEF ArraysAgree, SlotsAgree, InCreate, WriteTask, tables
<1>8. CASE OpenOutput
  BY <1>8 DEF ArraysAgree, SlotsAgree, InCreate, OpenOutput, tables
<1>9. CASE StartThread
  <2>1. /\ Len(g_threads) = Len(g_workers) + 1
        /\ g_threads[Len(g_threads)] = cur.id
        /\ g_threads' = g_threads /\ todo' = todo
        /\ pc' \in {"load", "reply"}
    BY <1>9 DEF ArraysAgree, InCreate, StartThread
  <2>2. /\ Len(g_workers') = Len(g_threads)
        /\ g_workers'[Len(g_threads)] = cur.id
        /\ \A i \in DOMAIN g_workers : g_workers'[i] = g_workers[i] /\ i \in DOMAIN g_workers'
        /\ DOMAIN g_workers' = DOMAIN g_workers \cup {Len(g_threads)}
    BY <1>9, <2>1 DEF TypeOK, StartThread
  <2>3. g_running_taskids' = {id \in TaskId : \E i \in DOMAIN g_workers' : g_workers'[i] = id}
    <3>1. g_running_taskids = {id \in TaskId : \E i \in DOMAIN g_workers : g_workers[i] = id}
      BY <1>9 DEF ArraysAgree, SlotsAgree, StartThread
    <3>2. g_running_taskids' = g_running_taskids \cup {cur.id} /\ cur.id \in TaskId
      BY <1>9 DEF TypeOK, StartThread
    <3> QED
      BY <2>2, <3>1, <3>2
  <2>4. \A i \in DOMAIN g_workers' : g_workers'[i] \in {Null, g_threads[i]}
    BY <2>1, <2>2 DEF ArraysAgree, SlotsAgree
  <2> QED
    BY <2>1, <2>2, <2>3, <2>4 DEF ArraysAgree, SlotsAgree, InCreate
<1>10. CASE RemoveJoin
  <2> PICK i \in DOMAIN g_workers : /\ g_threads[i] = cur.id
                                  /\ g_workers' = [g_workers EXCEPT ![i] = Null]
    BY <1>10 DEF RemoveJoin
  <2>1. /\ Len(g_workers) = Len(g_threads) /\ DOMAIN g_workers = DOMAIN g_threads
        /\ Len(g_workers') = Len(g_workers) /\ DOMAIN g_workers' = DOMAIN g_workers
        /\ g_threads' = g_threads /\ todo' = todo /\ pc' = "unlink"
    BY <1>10 DEF ArraysAgree, TypeOK, Running, InCreate, RemoveJoin
  <2>2. \A j \in DOMAIN g_workers : j # i => g_workers[j] # cur.id
    <3> SUFFICES ASSUME NEW j \in DOMAIN g_workers, j # i, g_workers[j] = cur.id
                 PROVE  FALSE
      OBVIOUS
    <3>1. g_threads[j] = cur.id
      BY PayloadAssumption DEF ArraysAgree, SlotsAgree, TypeOK
    <3>2. i \in Int /\ j \in Int /\ cur.id \in Int
      BY DEF TypeOK, TaskId
    <3>3. \A k, l \in DOMAIN g_threads : k < l => g_threads[k] < g_threads[l]
      BY DEF ArraysAgree, SlotsAgree
    <3>4. i < j \/ j < i
      BY <3>2
    <3> QED
      BY <2>1, <3>1, <3>2, <3>3, <3>4
  <2>3. g_running_taskids' = {id \in TaskId : \E j \in DOMAIN g_workers' : g_workers'[j] = id}
    <3>1. g_running_taskids = {id \in TaskId : \E j \in DOMAIN g_workers : g_workers[j] = id}
      BY <1>10 DEF ArraysAgree, SlotsAgree, RemoveJoin
    <3>2. g_running_taskids' = g_running_taskids \ {cur.id}
      BY <1>10 DEF RemoveJoin
    <3>3. g_workers[i] \in {Null, cur.id}
      BY DEF ArraysAgree, SlotsAgree
    <3> QED
      BY <2>1, <2>2, <3>1, <3>2, <3>3, PayloadAssumption
  <2>4. \A j \in DOMAIN g_workers' : g_workers'[j] \in {Null, g_threads[j]}
    BY <2>1, Zenon DEF ArraysAgree, SlotsAgree
  <2> QED
    BY <2>1, <2>3, <2>4, Zenon DEF ArraysAgree, SlotsAgree, InCreate
<1>11. CASE RemoveUnlink
  BY <1>11 DEF ArraysAgree, SlotsAgree, Running, InCreate, RemoveUnlink, tables
<1>12. CASE RemoveDirectory
  BY <1>12 DEF ArraysAgree, SlotsAgree, Running, InCreate, RemoveDirectory, Answer, tables
<1>13. CASE SendReply
  <2>1. CASE reply.op = "TERMINATE"
    BY <1>13, <2>1 DEF ArraysAgree, SlotsAgree, InCreate, Running, SendReply, GotoCleanup
  <2>2. CASE reply.op # "TERMINATE"
    BY <1>13, <2>2 DEF ArraysAgree, SlotsAgree, InCreate, Running, SendReply, tables
  <2> QED
    BY <2>1, <2>2
<1>14. CASE CleanupCancel
  BY <1>14 DEF ArraysAgree, SlotsAgree, Running, InCreate, CleanupCancel, tables
<1>15. CASE CleanupJoin
  BY <1>15 DEF ArraysAgree, SlotsAgree, Running, InCreate, CleanupJoin, tables
<1>16. CASE CleanupStale
  BY <1>16
  DEF ArraysAgree, SlotsAgree, Running, InCreate, CleanupStale, Die, ProcessEnds, tables
<1>17. CASE \E p \in Payload : CreateTask(p)
  BY <1>17
  DEF ArraysAgree, SlotsAgree, DirectoriesAreTasks, BelowLast, Running, InCreate, CreateTask
<1>18. CASE \E id \in TaskId : RemoveTask(id)
  BY <1>18 DEF ArraysAgree, SlotsAgree, Running, InCreate, RemoveTask, tables
<1>19. CASE Aborts
  BY <1>19 DEF ArraysAgree, SlotsAgree, Running, InCreate, Aborts, GotoCleanup
<1>20. CASE Ends
  BY <1>20 DEF ArraysAgree, SlotsAgree, InCreate, Ends, ProcessEnds
<1>21. CASE Answers
  BY <1>21 DEF ArraysAgree, SlotsAgree, Running, InCreate, Answers, tables
<1>22. CASE \E id \in TaskId : WorkerEnds(id)
  BY <1>22 DEF ArraysAgree, SlotsAgree, Running, InCreate, WorkerEnds, EndThread, tables
<1>23. CASE UNCHANGED vars
  BY <1>23 DEF ArraysAgree, SlotsAgree, Running, InCreate, vars, tables
<1>24. CASE WriteTaskPart
  BY <1>24 DEF ArraysAgree, SlotsAgree, InCreate, WriteTaskPart, tables
<1>25. CASE ClientMoves
  BY <1>25 DEF ArraysAgree, SlotsAgree, Running, InCreate, ClientMoves, tables
<1> QED
  BY <1>1, <1>2, <1>3, <1>4, <1>5, <1>6, <1>7, <1>8, <1>9, <1>10, <1>11, <1>12, <1>13,
     <1>14, <1>15, <1>16, <1>17, <1>18, <1>19, <1>20, <1>21, <1>22, <1>23, <1>24, <1>25, NextCases

\* What was acknowledged stays on disk.
LEMMA AckedStep ==
  ASSUME IInv, [Next]_vars
  PROVE  AckedIsStored'
<1> USE DEF IInv
<1>1. CASE StartUp
  BY <1>1 DEF AckedIsStored, AckedDurable, Creating, StartUp, disk, history
<1>2. CASE LoadNext
  BY <1>2 DEF AckedIsStored, AckedDurable, Creating, LoadNext, disk, history
<1>3. CASE LoadDone
  BY <1>3 DEF AckedIsStored, AckedDurable, Creating, LoadDone, disk, history
<1>4. CASE MakeDirectory
  BY <1>4 DEF AckedIsStored, AckedDurable, Creating, MakeDirectory, history
<1>5. CASE OpenTask
  BY <1>5 DEF AckedIsStored, AckedDurable, TypeOK, Creating, OpenTask, history
<1>6. CASE OpenEmptyTask
  BY <1>6
  DEF AckedIsStored, AckedDurable, TypeOK, Creating, OpenEmptyTask, GotoCleanup, history
<1>7. CASE WriteTask
  BY <1>7, PayloadAssumption
  DEF AckedIsStored, AckedDurable, DirectoryProgress, TypeOK, WriteTask, history
<1>8. CASE OpenOutput
  BY <1>8 DEF AckedIsStored, AckedDurable, Creating, OpenOutput, history
<1>9. CASE StartThread
  BY <1>9
  DEF AckedIsStored, AckedDurable, DirectoryProgress, Creating, StartThread, disk, history
<1>10. CASE RemoveJoin
  BY <1>10 DEF AckedIsStored, AckedDurable, TypeOK, RemoveJoin, disk
<1>11. CASE RemoveUnlink
  BY <1>11 DEF AckedIsStored, AckedDurable, TypeOK, RemoveUnlink, history
<1>12. CASE RemoveDirectory
  BY <1>12 DEF AckedIsStored, AckedDurable, RemoveDirectory, Answer, history
<1>13. CASE SendReply
  BY <1>13 DEF AckedIsStored, AckedDurable, Creating, SendReply, GotoCleanup, disk
<1>14. CASE CleanupCancel
  BY <1>14 DEF AckedIsStored, AckedDurable, Creating, CleanupCancel, disk, history
<1>15. CASE CleanupJoin
  BY <1>15 DEF AckedIsStored, AckedDurable, Creating, CleanupJoin, disk, history
<1>16. CASE CleanupStale
  BY <1>16
  DEF AckedIsStored, AckedDurable, Creating, CleanupStale, Die, ProcessEnds, disk, history
<1>17. CASE \E p \in Payload : CreateTask(p)
  <2>1. g_last_taskid \in TaskId \ directories
    BY <1>17 DEF CreateTask, BelowLast, TypeOK, TaskId
  <2>2. acked[g_last_taskid] = NoTask
    BY <2>1 DEF NothingWithoutDirectory, AckedIsStored, AckedDurable
  <2> QED
    BY <1>17, <2>2 DEF CreateTask, AckedIsStored, AckedDurable, Creating, disk, history
<1>18. CASE \E id \in TaskId : RemoveTask(id)
  BY <1>18 DEF AckedIsStored, AckedDurable, Creating, RemoveTask, disk, history
<1>19. CASE Aborts
  BY <1>19
  DEF AckedIsStored, AckedDurable, Creating, Aborts, GotoCleanup, disk, history
<1>20. CASE Ends
  BY <1>20 DEF AckedIsStored, AckedDurable, Creating, Ends, ProcessEnds, disk, history
<1>21. CASE Answers
  BY <1>21 DEF AckedIsStored, AckedDurable, Creating, Answers, disk, history
<1>22. CASE \E id \in TaskId : WorkerEnds(id)
  BY <1>22 DEF AckedIsStored, AckedDurable, Creating, WorkerEnds, EndThread, disk, history
<1>23. CASE UNCHANGED vars
  BY <1>23 DEF AckedIsStored, AckedDurable, Creating, vars, disk, history
<1>24. CASE WriteTaskPart
  BY <1>24, PayloadAssumption
  DEF AckedIsStored, AckedDurable, DirectoryProgress, TypeOK, WriteTaskPart, history
<1>25. CASE ClientMoves
  BY <1>25 DEF AckedIsStored, AckedDurable, Creating, ClientMoves, disk, history
<1> QED
  BY <1>1, <1>2, <1>3, <1>4, <1>5, <1>6, <1>7, <1>8, <1>9, <1>10, <1>11, <1>12, <1>13,
     <1>14, <1>15, <1>16, <1>17, <1>18, <1>19, <1>20, <1>21, <1>22, <1>23, <1>24, <1>25, NextCases

\* The reply to LIST is complete until it is sent.
LEMMA ListStep ==
  ASSUME IInv, [Next]_vars
  PROVE  ListIsComplete'
<1> USE DEF IInv
<1>1. CASE StartUp
  BY <1>1 DEF ListIsComplete, StartUp
<1>2. CASE LoadNext
  BY <1>2 DEF ListIsComplete, LoadNext
<1>3. CASE LoadDone
  BY <1>3 DEF ListIsComplete, LoadDone
<1>4. CASE MakeDirectory
  BY <1>4 DEF ListIsComplete, MakeDirectory
<1>5. CASE OpenTask
  BY <1>5 DEF ListIsComplete, OpenTask
<1>6. CASE OpenEmptyTask
  BY <1>6 DEF ListIsComplete, SlotsAgree, OpenEmptyTask, GotoCleanup
<1>7. CASE WriteTask
  BY <1>7 DEF ListIsComplete, WriteTask
<1>8. CASE OpenOutput
  BY <1>8 DEF ListIsComplete, OpenOutput
<1>9. CASE StartThread
  BY <1>9 DEF ListIsComplete, StartThread
<1>10. CASE RemoveJoin
  BY <1>10 DEF ListIsComplete, RemoveJoin
<1>11. CASE RemoveUnlink
  BY <1>11 DEF ListIsComplete, RemoveUnlink
<1>12. CASE RemoveDirectory
  BY <1>12 DEF ListIsComplete, SlotsAgree, RemoveDirectory, Answer
<1>13. CASE SendReply
  BY <1>13 DEF ListIsComplete, SlotsAgree, SendReply, GotoCleanup
<1>14. CASE CleanupCancel
  BY <1>14 DEF ListIsComplete, CleanupCancel
<1>15. CASE CleanupJoin
  BY <1>15 DEF ListIsComplete, CleanupJoin
<1>16. CASE CleanupStale
  BY <1>16 DEF ListIsComplete, CleanupStale, Die, ProcessEnds
<1>17. CASE \E p \in Payload : CreateTask(p)
  BY <1>17 DEF ListIsComplete, CreateTask
<1>18. CASE \E id \in TaskId : RemoveTask(id)
  BY <1>18 DEF ListIsComplete, RemoveTask
<1>19. CASE Aborts
  BY <1>19 DEF ListIsComplete, SlotsAgree, Aborts, GotoCleanup
<1>20. CASE Ends
  BY <1>20 DEF ListIsComplete, SlotsAgree, Ends, ProcessEnds
<1>21. CASE Answers
  <2>1. \A id \in TaskId : id \in g_running_taskids <=> task_file[id] \in Definition
    BY <1>21, PayloadAssumption
    DEF Answers, DirectoriesAreTasks, NothingWithoutDirectory, Running, Changing, InCreate,
       Complete, Definition
  <2>2. g_running_taskids = {id \in TaskId : \E i \in DOMAIN g_workers : g_workers[i] = id}
    BY <1>21 DEF Answers, ArraysAgree, SlotsAgree
  <2>3. UNCHANGED task_file
    BY <1>21 DEF Answers, disk
  <2> QED
    BY <1>21, <2>1, <2>2, <2>3 DEF Answers, ListIsComplete, StoredTasks
<1>22. CASE \E id \in TaskId : WorkerEnds(id)
  BY <1>22 DEF ListIsComplete, StoredTasks, SlotsAgree, WorkerEnds, EndThread, disk
<1>23. CASE UNCHANGED vars
  BY <1>23 DEF ListIsComplete, StoredTasks, vars, disk
<1>24. CASE WriteTaskPart
  BY <1>24 DEF ListIsComplete, WriteTaskPart
<1>25. CASE ClientMoves
  BY <1>25 DEF ClientMoves, ListIsComplete, StoredTasks, TypeOK, disk
<1> QED
  BY <1>1, <1>2, <1>3, <1>4, <1>5, <1>6, <1>7, <1>8, <1>9, <1>10, <1>11, <1>12, <1>13,
     <1>14, <1>15, <1>16, <1>17, <1>18, <1>19, <1>20, <1>21, <1>22, <1>23, <1>24, <1>25, NextCases

\* The cleanup leaves joined threads behind it.
LEMMA CleanupStep ==
  ASSUME IInv, [Next]_vars
  PROVE  CleanupProgress'
<1> USE DEF IInv
<1>1. CASE StartUp
  BY <1>1 DEF CleanupProgress, StartUp
<1>2. CASE LoadNext
  BY <1>2 DEF CleanupProgress, LoadNext
<1>3. CASE LoadDone
  BY <1>3 DEF CleanupProgress, LoadDone
<1>4. CASE MakeDirectory
  BY <1>4 DEF CleanupProgress, MakeDirectory
<1>5. CASE OpenTask
  BY <1>5 DEF CleanupProgress, OpenTask
<1>6. CASE OpenEmptyTask
  BY <1>6 DEF CleanupProgress, TypeOK, OpenEmptyTask, GotoCleanup
<1>7. CASE WriteTask
  BY <1>7 DEF CleanupProgress, WriteTask
<1>8. CASE OpenOutput
  BY <1>8 DEF CleanupProgress, OpenOutput
<1>9. CASE StartThread
  BY <1>9 DEF CleanupProgress, StartThread
<1>10. CASE RemoveJoin
  BY <1>10 DEF CleanupProgress, RemoveJoin
<1>11. CASE RemoveUnlink
  BY <1>11 DEF CleanupProgress, RemoveUnlink
<1>12. CASE RemoveDirectory
  BY <1>12 DEF CleanupProgress, RemoveDirectory, Answer
<1>13. CASE SendReply
  BY <1>13 DEF CleanupProgress, TypeOK, SendReply, GotoCleanup
<1>14. CASE CleanupCancel
  BY <1>14 DEF CleanupProgress, TypeOK, CleanupCancel, tables
<1>15. CASE CleanupJoin
  BY <1>15 DEF CleanupProgress, TypeOK, CleanupJoin, tables
<1>16. CASE CleanupStale
  BY <1>16 DEF CleanupProgress, TypeOK, CleanupStale, Die, ProcessEnds
<1>17. CASE \E p \in Payload : CreateTask(p)
  BY <1>17 DEF CleanupProgress, CreateTask
<1>18. CASE \E id \in TaskId : RemoveTask(id)
  BY <1>18 DEF CleanupProgress, RemoveTask
<1>19. CASE Aborts
  BY <1>19 DEF CleanupProgress, TypeOK, Aborts, GotoCleanup
<1>20. CASE Ends
  BY <1>20 DEF CleanupProgress, Ends, ProcessEnds
<1>21. CASE Answers
  BY <1>21 DEF CleanupProgress, Answers
<1>22. CASE \E id \in TaskId : WorkerEnds(id)
  BY <1>22 DEF CleanupProgress, WorkerEnds, EndThread, tables
<1>23. CASE UNCHANGED vars
  BY <1>23 DEF CleanupProgress, vars, tables
<1>24. CASE WriteTaskPart
  BY <1>24 DEF CleanupProgress, WriteTaskPart
<1>25. CASE ClientMoves
  BY <1>25 DEF CleanupProgress, ClientMoves
<1> QED
  BY <1>1, <1>2, <1>3, <1>4, <1>5, <1>6, <1>7, <1>8, <1>9, <1>10, <1>11, <1>12, <1>13,
     <1>14, <1>15, <1>16, <1>17, <1>18, <1>19, <1>20, <1>21, <1>22, <1>23, <1>24, <1>25, NextCases

\* The daemon starts from an empty tree of tasks.
LEMMA InitIInv == Init => IInv
<1> SUFFICES ASSUME Init PROVE IInv
  OBVIOUS
<1>1. TypeOK
  BY BoundAssumption DEF Init, TypeOK, TaskId, Status, Op, Fault, NoCur, NoReply
<1>2. ArraysAgree
  BY DEF Init, ArraysAgree, SlotsAgree, InCreate
<1>3. NothingWithoutDirectory /\ BelowLast /\ DirectoryProgress /\ DirectoriesAreTasks
  BY
  DEF Init, NothingWithoutDirectory, BelowLast, DirectoryProgress, DirectoriesAreTasks,
     Running
<1>4. /\ ThreadsAreTasks /\ RunningHaveThreads /\ AckedIsStored /\ ListIsComplete
      /\ CleanupProgress
  BY
  DEF Init, ThreadsAreTasks, RunningHaveThreads, Running, InCreate, AckedIsStored,
     AckedDurable, Creating, ListIsComplete, CleanupProgress
<1> QED
  BY <1>1, <1>2, <1>3, <1>4 DEF IInv

\* No step of the process, of its threads or of a crash leaves the inductive
\* invariant.
LEMMA NextIInv == IInv /\ [Next]_vars => IInv'
BY TypeStep, NothingStep, BelowLastStep, ProgressStep, DirectoriesStep, ThreadsStep,
   RunningStep, ArraysStep, AckedStep, ListStep, CleanupStep DEF IInv

\* The inductive invariant holds in every state the daemon reaches.
THEOREM Invariance == Spec => []IInv
BY InitIInv, NextIInv, PTL DEF Spec

-----------------------------------------------------------------------------
(* What it implies. *)

\* Every variable keeps its type.
THEOREM TypeCorrect == Spec => []TypeOK
<1>1. IInv => TypeOK
  BY DEF IInv
<1> QED
  BY <1>1, Invariance, PTL

\* CREATE never overwrites a task, whatever processes ran and died before.
THEOREM CreateIsFresh == Spec => []FreshTaskid
<1>1. IInv => FreshTaskid
  BY DEF IInv, DirectoryProgress, FreshTaskid
<1> QED
  BY <1>1, Invariance, PTL

\* An acknowledged task is on disk until its removal is accepted.
THEOREM AckedStaysStored == Spec => []AckedDurable
<1>1. IInv => AckedDurable
  BY DEF IInv, AckedIsStored
<1> QED
  BY <1>1, Invariance, PTL

\* REMOVE cancels the thread and clears the slot of the same task.
THEOREM SlotsAlwaysAgree == Spec => []SlotsAgree
<1>1. IInv => SlotsAgree
  BY DEF IInv, ArraysAgree
<1> QED
  BY <1>1, Invariance, PTL

\* A waiting daemon lists exactly the tasks on disk.  Each has all its files, a
\* whole definition if a client was told of it, and a thread that ends only by a
\* failing call.
THEOREM IdleListsEveryTask == Spec => []ListsEveryTask
<1>1. ASSUME IInv PROVE ListsEveryTask
  <2> SUFFICES ASSUME pc = "idle"
               PROVE  /\ g_running_taskids = directories
                      /\ \A id \in directories :
                           /\ \/ task_file[id] \in Payload
                              \/ task_file[id] = CutTask /\ acked[id] = NoTask
                           /\ output_files[id] = OutputFiles
                           /\ thread[id] \in {"alive"} \cup (IF CanFail THEN {"ended"} ELSE {})
    BY DEF ListsEveryTask
  <2>1. g_running_taskids = directories /\ \A id \in directories : Complete(id)
    BY <1>1 DEF IInv, DirectoriesAreTasks, Running, Changing, InCreate, Complete, TypeOK
  <2>2. \A id \in directories : thread[id] = "alive" \/ (thread[id] = "ended" /\ CanFail)
    BY <1>1, <2>1 DEF IInv, RunningHaveThreads, Running
  <2>3. ASSUME NEW id \in directories, task_file[id] = CutTask PROVE acked[id] = NoTask
    BY <1>1, <2>3, PayloadAssumption DEF IInv, TypeOK, AckedIsStored, AckedDurable
  <2> QED
    BY <2>1, <2>2, <2>3 DEF Complete, Definition
<1> QED
  BY <1>1, Invariance, PTL

\* No worker thread outlives the files it writes.
THEOREM WorkersHaveFiles == Spec => []WorkerHasItsFiles
<1>1. IInv => WorkerHasItsFiles
  BY DEF IInv, ThreadsAreTasks, Complete, WorkerHasItsFiles
<1> QED
  BY <1>1, Invariance, PTL

\* REMOVE finds every file it unlinks and an empty directory at the end.
THEOREM RemoveFindsFiles == Spec => []RemoveFindsItsFiles
<1>1. ASSUME IInv PROVE RemoveFindsItsFiles
  <2>1. CASE pc = "unlink" /\ step = 0
    BY <1>1, <2>1, PayloadAssumption
    DEF IInv, DirectoryProgress, RemoveFindsItsFiles, UnlinkFinds, Definition
  <2>2. CASE pc = "unlink" /\ step # 0
    BY <1>1, <2>2
    DEF IInv, DirectoryProgress, RemoveFindsItsFiles, UnlinkFinds, OutputFile, OutputFiles
  <2>3. CASE pc # "unlink"
    BY <1>1, <2>3 DEF IInv, DirectoryProgress, RemoveFindsItsFiles
  <2> QED
    BY <2>1, <2>2, <2>3
<1> QED
  BY <1>1, Invariance, PTL

\* A reply to LIST names the stored tasks and no other.
THEOREM ListsAreComplete == Spec => []ListIsComplete
<1>1. IInv => ListIsComplete
  BY DEF IInv
<1> QED
  BY <1>1, Invariance, PTL

\* A cleanup that met no undefined behaviour leaves no thread behind.
THEOREM CleanupLeavesNoThread == Spec => []CleanupJoinsAll
<1>1. ASSUME IInv PROVE CleanupJoinsAll
  <2> SUFFICES ASSUME pc = "cleanup", step > Len(g_threads), fault = "none",
                      NEW id \in TaskId, thread[id] # "none"
               PROVE  thread[id] = "joined"
    BY DEF CleanupJoinsAll
  <2>1. PICK i \in DOMAIN g_threads : g_threads[i] = id
    BY <1>1 DEF IInv, ThreadsAreTasks
  <2>2. i < step
    BY <1>1, <2>1 DEF IInv, TypeOK
  <2> QED
    BY <1>1, <2>1, <2>2 DEF IInv, CleanupProgress
<1> QED
  BY <1>1, Invariance, PTL

-----------------------------------------------------------------------------
(* Refinement of TaskStore. *)

\* The daemon's first state is an empty task store that is not serving.
LEMMA RefinesInit == Init => Abstract!Init
BY PayloadAssumption DEF Init, Abstract!Init, StoredTasks, Up

\* The tasks the abstract store holds are those with a readable definition.
LEMMA StoredIsStoredTasks == ASSUME TypeOK PROVE Abstract!Stored = StoredTasks
BY PayloadAssumption DEF Abstract!Stored, StoredTasks, Definition, TypeOK

\* Every step of the daemon is a step of the task store or leaves it unchanged.
LEMMA RefinesNext ==
  ASSUME IInv, [Next]_vars
  PROVE  [Abstract!Next]_Abstract!vars
<1> USE DEF IInv
<1>0. TypeOK /\ TypeOK'
  BY TypeStep
<1>1. CASE StartUp
  BY <1>1 DEF StartUp, Abstract!vars, StoredTasks, Up, disk, history
<1>2. CASE LoadNext
  BY <1>2 DEF LoadNext, Abstract!vars, StoredTasks, Up, disk, history
<1>3. CASE LoadDone
  <2>1. Abstract!Resume
    <3>1. /\ g_running_taskids = StoredTasks
          /\ UNCHANGED <<disk, acked, g_running_taskids, thread>>
      BY <1>3, PayloadAssumption
      DEF LoadDone, DirectoriesAreTasks, NothingWithoutDirectory, Running, Changing,
         InCreate, Complete, StoredTasks, Definition, TypeOK, tables, history
    <3>2. ~Up /\ Up'
      BY <1>3 DEF LoadDone, Up
    <3> QED
      BY <1>0, <3>1, <3>2, StoredIsStoredTasks
      DEF Abstract!Resume, StoredTasks, disk
  <2> QED
    BY <2>1 DEF Abstract!Next
<1>4. CASE MakeDirectory
  BY <1>4 DEF MakeDirectory, Abstract!vars, StoredTasks, Up, tables, history
<1>5. CASE OpenTask
  <2>1. /\ UNCHANGED <<acked, g_running_taskids, thread>> /\ cur.id \in TaskId
        /\ Up' = Up
    BY <1>5 DEF OpenTask, TypeOK, Up, tables, history
  <2>2. /\ StoredTasks' = StoredTasks
        /\ \A id \in StoredTasks : task_file'[id] = task_file[id]
    <3>1. CASE cur.task = Null
      BY <1>5, <3>1 DEF OpenTask, StoredTasks
    <3>2. CASE cur.task # Null
      <4>1. /\ task_file' = [task_file EXCEPT ![cur.id] = EmptyTask]
            /\ task_file[cur.id] = NoTask /\ cur.id \in TaskId
        BY <1>5, <3>2 DEF OpenTask, TypeOK, DirectoryProgress
      <4>2. NoTask \notin Definition /\ EmptyTask \notin Definition
        BY PayloadAssumption DEF Definition
      <4> QED
        BY <4>1, <4>2 DEF StoredTasks, TypeOK
    <3> QED
      BY <3>1, <3>2
  <2> QED
    BY <2>1, <2>2 DEF Abstract!vars
<1>6. CASE OpenEmptyTask
  <2>1. Up = FALSE /\ Up' = FALSE /\ UNCHANGED acked
    BY <1>6 DEF OpenEmptyTask, GotoCleanup, Up, history
  <2>2. /\ StoredTasks' = StoredTasks
        /\ \A id \in StoredTasks : task_file'[id] = task_file[id]
    BY <1>6, PayloadAssumption DEF OpenEmptyTask, StoredTasks, Definition, TypeOK
  <2> QED
    BY <2>1, <2>2 DEF Abstract!vars
<1>7. CASE WriteTask
  <2>1. /\ cur.id \in TaskId /\ cur.task \in Payload /\ cur.id \notin g_running_taskids
        /\ task_file[cur.id] \in {EmptyTask, CutTask} /\ Up /\ Up'
        /\ UNCHANGED <<g_running_taskids, thread, acked>>
        /\ task_file' = [task_file EXCEPT ![cur.id] = cur.task]
    BY <1>7
    DEF WriteTask, DirectoryProgress, DirectoriesAreTasks, Running, Changing, InCreate, TypeOK, Up,
        tables, history
  <2>2. \A id \in StoredTasks \ {cur.id} : id < cur.id
    <3> SUFFICES ASSUME NEW id \in StoredTasks \ {cur.id} PROVE id < cur.id
      OBVIOUS
    <3>1. id \in directories /\ id \in TaskId
      BY PayloadAssumption DEF StoredTasks, Definition, NothingWithoutDirectory
    <3>2. id < g_last_taskid /\ cur.id + 1 = g_last_taskid
      BY <1>7, <2>1, <3>1, PayloadAssumption
      DEF BelowLast, WriteTask, Creating, DirectoryProgress
    <3> QED
      BY <2>1, <3>1, <3>2 DEF TaskId, TypeOK
  <2> PICK id \in TaskId, p \in Payload \cup {CutTask} : id = cur.id /\ p = cur.task
    BY <2>1
  <2>3. Abstract!Store(id, p)
    <3>1. \/ id \notin StoredTasks
          \/ id \in StoredTasks /\ task_file[id] = CutTask /\ id \notin g_running_taskids
      BY <2>1, PayloadAssumption DEF StoredTasks, Definition
    <3>2. /\ StoredTasks' = StoredTasks \cup {id} /\ task_file'[id] = p
          /\ \A other \in StoredTasks : other # id => task_file'[other] = task_file[other]
      BY <2>1 DEF StoredTasks, Definition, TypeOK
    <3> QED
      BY <2>1, <2>2, <3>1, <3>2, StoredIsStoredTasks DEF Abstract!Store
  <2> QED
    BY <2>3 DEF Abstract!Next
<1>8. CASE OpenOutput
  BY <1>8 DEF OpenOutput, Abstract!vars, StoredTasks, Up, tables, history
<1>9. CASE StartThread
  <2>1. CASE cur.task = Null
    BY <1>9, <2>1 DEF StartThread, Abstract!vars, StoredTasks, Up, disk, history
  <2>2. CASE cur.task # Null
    <3>1. /\ cur.id \in StoredTasks /\ cur.id \notin g_running_taskids /\ cur.id \in TaskId
          /\ Up /\ Up' /\ UNCHANGED <<disk, acked>>
          /\ g_running_taskids' = g_running_taskids \cup {cur.id}
          /\ thread' = [thread EXCEPT ![cur.id] = "alive"]
      BY <1>9, <2>2
      DEF StartThread, DirectoryProgress, DirectoriesAreTasks, Running, Changing, InCreate,
          StoredTasks, TypeOK, Up, history
    <3> PICK id \in TaskId : id = cur.id
      BY <3>1
    <3>2. Abstract!Schedule(id)
      BY <1>0, <3>1, StoredIsStoredTasks DEF Abstract!Schedule, StoredTasks, TypeOK, disk
    <3> QED
      BY <3>2 DEF Abstract!Next
  <2> QED
    BY <2>1, <2>2
<1>10. CASE RemoveJoin
  <2>1. /\ cur.id \in g_running_taskids /\ cur.id \in TaskId /\ Up /\ Up'
        /\ UNCHANGED disk /\ thread[cur.id] = "ended"
        /\ thread' = [thread EXCEPT ![cur.id] = "joined"]
        /\ g_running_taskids' = g_running_taskids \ {cur.id}
        /\ acked' = [acked EXCEPT ![cur.id] = NoTask]
    BY <1>10 DEF RemoveJoin, DirectoriesAreTasks, Running, TypeOK, Up
  <2> PICK id \in TaskId : id = cur.id
    BY <2>1
  <2>2. Abstract!Withdraw(id)
    BY <2>1 DEF Abstract!Withdraw, StoredTasks, TypeOK, disk
  <2> QED
    BY <2>2 DEF Abstract!Next
<1>11. CASE RemoveUnlink
  <2>1. Up /\ Up' /\ UNCHANGED <<tables, thread, acked>> /\ cur.id \in TaskId
    BY <1>11 DEF RemoveUnlink, Up, TypeOK, history
  <2>2. CASE step = 0
    <3>1. /\ cur.id \in StoredTasks /\ cur.id \notin g_running_taskids
          /\ acked[cur.id] = NoTask
          /\ task_file' = [task_file EXCEPT ![cur.id] = NoTask]
      BY <1>11, <2>1, <2>2

      DEF RemoveUnlink, DirectoryProgress, DirectoriesAreTasks, Running, Changing,
         AckedIsStored, StoredTasks
    <3> PICK id \in TaskId : id = cur.id
      BY <2>1
    <3>2. /\ StoredTasks' = StoredTasks \ {id}
          /\ \A other \in StoredTasks : other # id => task_file'[other] = task_file[other]
      BY <3>1, PayloadAssumption DEF StoredTasks, Definition, TypeOK
    <3>3. Abstract!Erase(id)
      BY <2>1, <3>1, <3>2, StoredIsStoredTasks DEF Abstract!Erase, tables
    <3> QED
      BY <3>3 DEF Abstract!Next
  <2>3. CASE step # 0
    BY <1>11, <2>1, <2>3 DEF RemoveUnlink, Abstract!vars, StoredTasks, tables
  <2> QED
    BY <2>2, <2>3
<1>12. CASE RemoveDirectory
  BY <1>12 DEF RemoveDirectory, Answer, Abstract!vars, StoredTasks, Up, tables, history
<1>13. CASE SendReply
  <2>1. Up /\ UNCHANGED disk
    BY <1>13 DEF SendReply, Up
  <2>2. CASE reply.op = "TERMINATE"
    <3>1. Abstract!Stop
      BY <1>13, <2>1, <2>2 DEF Abstract!Stop, SendReply, GotoCleanup, StoredTasks, Up, disk
    <3> QED
      BY <3>1 DEF Abstract!Next
  <2>3. CASE reply.op = "CREATE_TASK"
    <3>1. /\ cur.id \in g_running_taskids /\ cur.id \in TaskId /\ cur.id \in StoredTasks
          /\ task_file[cur.id] = cur.task /\ cur.task \in Payload
          /\ Up' /\ UNCHANGED <<tables, thread>>
      BY <1>13, <2>3
      DEF SendReply, DirectoriesAreTasks, Running, AckedIsStored, TypeOK, StoredTasks,
         Definition, Up
    <3>2. Abstract!Acknowledge(cur.id)
      BY <1>13, <2>1, <2>3, <3>1
      DEF Abstract!Acknowledge, SendReply, StoredTasks, disk, tables
    <3> QED
      BY <3>1, <3>2 DEF Abstract!Next
  <2>4. CASE reply.op \notin {"TERMINATE", "CREATE_TASK"}
    BY <1>13, <2>1, <2>4 DEF SendReply, Abstract!vars, StoredTasks, Up, disk, tables
  <2> QED
    BY <2>2, <2>3, <2>4
<1>14. CASE CleanupCancel
  BY <1>14 DEF CleanupCancel, Abstract!vars, StoredTasks, Up, disk, history
<1>15. CASE CleanupJoin
  BY <1>15 DEF CleanupJoin, Abstract!vars, StoredTasks, Up, disk, history
<1>16. CASE CleanupStale
  BY <1>16 DEF CleanupStale, Die, ProcessEnds, Abstract!vars, StoredTasks, Up, disk, history
<1>17. CASE \E p \in Payload : CreateTask(p)
  BY <1>17, PayloadAssumption DEF CreateTask, Abstract!vars, StoredTasks, Up, disk, history
<1>18. CASE \E id \in TaskId : RemoveTask(id)
  <2>1. /\ UNCHANGED <<disk, acked, g_running_taskids>> /\ Up /\ Up'
        /\ \A id \in TaskId : thread'[id] = "ended" <=> thread[id] = "ended"
    BY <1>18 DEF RemoveTask, TypeOK, Up, tables, history
  <2> QED
    BY <2>1 DEF Abstract!vars, StoredTasks, TypeOK, disk
<1>19. CASE Aborts
  <2>1. ~Up' /\ UNCHANGED <<disk, acked>>
    BY <1>19 DEF Aborts, GotoCleanup, Up, history
  <2>2. CASE Up
    BY <2>1, <2>2 DEF Abstract!Next, Abstract!Stop, StoredTasks, disk
  <2>3. CASE ~Up
    BY <2>1, <2>3 DEF Abstract!vars, StoredTasks, Up, disk
  <2> QED
    BY <2>2, <2>3
<1>20. CASE Ends
  <2>1. ~Up' /\ UNCHANGED <<disk, acked>>
    BY <1>20 DEF Ends, ProcessEnds, Up, history
  <2>2. CASE Up
    BY <2>1, <2>2 DEF Abstract!Next, Abstract!Stop, StoredTasks, disk
  <2>3. CASE ~Up
    BY <2>1, <2>3 DEF Abstract!vars, StoredTasks, Up, disk
  <2> QED
    BY <2>2, <2>3
<1>21. CASE Answers
  BY <1>21 DEF Answers, Abstract!vars, StoredTasks, Up, disk, tables, history
<1>22. CASE \E id \in TaskId : WorkerEnds(id)
  <2> PICK id \in TaskId : WorkerEnds(id)
    BY <1>22
  <2>1. /\ UNCHANGED <<disk, acked, pc, cur, g_running_taskids>> /\ Up' = Up
        /\ thread' = [thread EXCEPT ![id] = "ended"] /\ thread[id] # "ended"
    BY DEF WorkerEnds, EndThread, Up, tables, history
  <2>2. CASE Up /\ id \in g_running_taskids
    <3>1. Abstract!End(id)
      BY <2>1, <2>2 DEF Abstract!End, StoredTasks, TypeOK, disk
    <3> QED
      BY <3>1 DEF Abstract!Next
  <2>3. CASE ~(Up /\ id \in g_running_taskids)
    <3>1. Up => \A other \in g_running_taskids : thread'[other] = thread[other]
      BY <2>1, <2>3 DEF TypeOK
    <3> QED
      BY <2>1, <3>1 DEF Abstract!vars, StoredTasks, disk
  <2> QED
    BY <2>2, <2>3
<1>23. CASE UNCHANGED vars
  BY <1>23 DEF vars, Abstract!vars, StoredTasks, Up, disk, tables, history
<1>24. CASE WriteTaskPart
  <2>1. /\ cur.id \in TaskId /\ cur.task \in Payload /\ cur.id \notin g_running_taskids
        /\ task_file[cur.id] \in {EmptyTask, CutTask} /\ Up /\ Up'
        /\ UNCHANGED <<g_running_taskids, thread, acked>>
        /\ task_file' = [task_file EXCEPT ![cur.id] = CutTask]
    BY <1>24
    DEF WriteTaskPart, DirectoryProgress, DirectoriesAreTasks, Running, Changing, InCreate, TypeOK, Up,
        tables, history
  <2>2. \A id \in StoredTasks \ {cur.id} : id < cur.id
    <3> SUFFICES ASSUME NEW id \in StoredTasks \ {cur.id} PROVE id < cur.id
      OBVIOUS
    <3>1. id \in directories /\ id \in TaskId
      BY PayloadAssumption DEF StoredTasks, Definition, NothingWithoutDirectory
    <3>2. id < g_last_taskid /\ cur.id + 1 = g_last_taskid
      BY <1>24, <2>1, <3>1, PayloadAssumption
      DEF BelowLast, WriteTaskPart, Creating, DirectoryProgress
    <3> QED
      BY <2>1, <3>1, <3>2 DEF TaskId, TypeOK
  <2> PICK id \in TaskId, p \in Payload \cup {CutTask} : id = cur.id /\ p = CutTask
    BY <2>1
  <2>3. Abstract!Store(id, p)
    <3>1. \/ id \notin StoredTasks
          \/ id \in StoredTasks /\ task_file[id] = CutTask /\ id \notin g_running_taskids
      BY <2>1, PayloadAssumption DEF StoredTasks, Definition
    <3>2. /\ StoredTasks' = StoredTasks \cup {id} /\ task_file'[id] = p
          /\ \A other \in StoredTasks : other # id => task_file'[other] = task_file[other]
      BY <2>1 DEF StoredTasks, Definition, TypeOK
    <3> QED
      BY <2>1, <2>2, <3>1, <3>2, StoredIsStoredTasks DEF Abstract!Store
  <2> QED
    BY <2>3 DEF Abstract!Next
<1>25. CASE ClientMoves
  BY <1>25 DEF ClientMoves, Abstract!vars, StoredTasks, Up, disk, tables, history
<1> QED
  BY <1>0, <1>1, <1>2, <1>3, <1>4, <1>5, <1>6, <1>7, <1>8, <1>9, <1>10, <1>11, <1>12,
     <1>13, <1>14, <1>15, <1>16, <1>17, <1>18, <1>19, <1>20, <1>21, <1>22, <1>23, <1>24, <1>25, NextCases

\* What a client was told of stays stored as the client described it; between any
\* two system calls of every handler a daemon that is up has it among its tasks,
\* with a thread that runs it or that has ended.
THEOREM PromiseHolds == Spec => []PromiseKept
<1>1. ASSUME IInv PROVE PromiseKept
  <2> SUFFICES ASSUME NEW id \in TaskId, acked[id] # NoTask
               PROVE  /\ id \in StoredTasks /\ task_file[id] = acked[id]
                      /\ Up => id \in g_running_taskids
    BY PayloadAssumption DEF PromiseKept, Abstract!Promise, Abstract!Acked, StoredTasks
  <2>1. task_file[id] = acked[id] /\ id \in StoredTasks
    BY <1>1 DEF IInv, TypeOK, AckedIsStored, AckedDurable, StoredTasks, Definition
  <2>2. id \in directories
    BY <1>1, <2>1, PayloadAssumption
    DEF IInv, NothingWithoutDirectory, StoredTasks, Definition
  <2>3. ASSUME Up PROVE id \in g_running_taskids
    <3>1. InCreate => Creating
      BY <1>1, <2>3 DEF IInv, DirectoryProgress, InCreate, Creating, Up
    <3>2. ~(Changing /\ id = cur.id)
      BY <1>1, <3>1 DEF IInv, AckedIsStored, Changing
    <3>3. todo = {}
      BY <1>1, <2>3, <3>1 DEF IInv, DirectoriesAreTasks, Creating, Running, Up
    <3> QED
      BY <1>1, <2>2, <2>3, <3>2, <3>3 DEF IInv, DirectoriesAreTasks, Running, Up
  <2> QED
    BY <2>1, <2>3
<1> QED
  BY <1>1, Invariance, PTL

\* The daemon implements the task store, through crashes and failing calls.
THEOREM Refinement == Spec => ImplementsTaskStore
BY InitIInv, NextIInv, RefinesInit, RefinesNext, PTL
DEF Spec, ImplementsTaskStore, Abstract!Spec

\* What a step may do to the threads: nothing, one of the moves of ThreadLife, or
\* their end with the process.
ThreadMoves ==
  \/ thread' = thread
  \/ thread' = [id \in TaskId |-> "none"]
  \/ \E id \in TaskId :
       \/ thread[id] = "none" /\ thread' = [thread EXCEPT ![id] = "alive"]
       \/ thread[id] = "alive" /\ thread' = [thread EXCEPT ![id] = "cancelled"]
       \/ thread[id] \in {"alive", "cancelled"} /\ thread' = [thread EXCEPT ![id] = "ended"]
       \/ thread[id] = "ended" /\ thread' = [thread EXCEPT ![id] = "joined"]

\* Every step does one of these.
LEMMA ThreadStep ==
  ASSUME IInv, [Next]_vars
  PROVE  ThreadMoves
<1> USE DEF IInv, ThreadMoves
<1>0. ASSUME NEW id \in TaskId,
             thread' = [thread EXCEPT ![id] = IF @ = "alive" THEN "cancelled" ELSE @]
      PROVE  ThreadMoves
  <2>1. CASE thread[id] = "alive"
    BY <1>0, <2>1
  <2>2. CASE thread[id] # "alive"
    <3>1. thread' = thread
      BY <1>0, <2>2 DEF TypeOK
    <3> QED
      BY <3>1
  <2> QED
    BY <2>1, <2>2
<1>1. CASE StartUp
  BY <1>1 DEF StartUp
<1>2. CASE LoadNext
  BY <1>2 DEF LoadNext
<1>3. CASE LoadDone
  BY <1>3 DEF LoadDone
<1>4. CASE MakeDirectory
  BY <1>4 DEF MakeDirectory
<1>5. CASE OpenTask
  BY <1>5 DEF OpenTask
<1>6. CASE OpenEmptyTask
  BY <1>6 DEF OpenEmptyTask, GotoCleanup
<1>7. CASE WriteTask
  BY <1>7 DEF WriteTask
<1>8. CASE OpenOutput
  BY <1>8 DEF OpenOutput
<1>9. CASE StartThread
  <2>1. cur.id \in TaskId /\ thread[cur.id] = "none"
    BY <1>9 DEF StartThread, ThreadsAreTasks, InCreate, TypeOK
  <2> QED
    BY <1>9, <2>1 DEF StartThread
<1>10. CASE RemoveJoin
  BY <1>10 DEF RemoveJoin, TypeOK
<1>11. CASE RemoveUnlink
  BY <1>11 DEF RemoveUnlink
<1>12. CASE RemoveDirectory
  BY <1>12 DEF RemoveDirectory, Answer
<1>13. CASE SendReply
  BY <1>13 DEF SendReply, GotoCleanup
<1>14. CASE CleanupCancel
  <2>1. g_threads[step] \in TaskId
    BY <1>14 DEF TypeOK, CleanupProgress, CleanupCancel
  <2> QED
    BY <1>0, <1>14, <2>1 DEF CleanupCancel
<1>15. CASE CleanupJoin
  BY <1>15 DEF CleanupJoin, TypeOK
<1>16. CASE CleanupStale
  <2>1. CASE Die("stale_thread")
    BY <2>1 DEF Die, ProcessEnds
  <2>2. CASE UNCHANGED thread
    BY <2>2
  <2>3. ASSUME NEW i \in step + 1 .. Len(g_threads),
               thread' = [thread EXCEPT ![g_threads[i]] = IF @ = "alive" THEN "cancelled" ELSE @]
        PROVE  ThreadMoves
    <3>1. g_threads[i] \in TaskId
      BY <1>16 DEF TypeOK, CleanupProgress, CleanupStale
    <3> QED
      BY <1>0, <2>3, <3>1
  <2> QED
    BY <1>16, <2>1, <2>2, <2>3 DEF CleanupStale
<1>17. CASE \E p \in Payload : CreateTask(p)
  BY <1>17 DEF CreateTask
<1>18. CASE \E id \in TaskId : RemoveTask(id)
  BY <1>0, <1>18 DEF RemoveTask
<1>19. CASE Aborts
  BY <1>19 DEF Aborts, GotoCleanup
<1>20. CASE Ends
  BY <1>20 DEF Ends, ProcessEnds
<1>21. CASE Answers
  BY <1>21 DEF Answers
<1>22. CASE \E id \in TaskId : WorkerEnds(id)
  BY <1>22 DEF WorkerEnds, EndThread
<1>23. CASE UNCHANGED vars
  BY <1>23 DEF vars
<1>24. CASE WriteTaskPart
  BY <1>24 DEF WriteTaskPart
<1>25. CASE ClientMoves
  BY <1>25 DEF ClientMoves
<1> QED
  BY <1>1, <1>2, <1>3, <1>4, <1>5, <1>6, <1>7, <1>8, <1>9, <1>10, <1>11, <1>12, <1>13,
     <1>14, <1>15, <1>16, <1>17, <1>18, <1>19, <1>20, <1>21, <1>22, <1>23, <1>24, <1>25, NextCases

\* The daemon creates, cancels and joins each thread in this order, and joins none
\* that has not ended: the safety part of ThreadsLive.
THEOREM ThreadsAreThreads == Spec => Life!Init /\ [][Life!Next]_thread
<1>1. Init => Life!Init
  BY DEF Init, Life!Init
<1>2. ASSUME ThreadMoves PROVE [Life!Next]_thread
  BY <1>2 DEF ThreadMoves, Life!Next, Life!Exit, Life!Create, Life!Cancel, Life!End,
              Life!Join, Life!Moves
<1>3. ASSUME IInv, [Next]_vars PROVE [Life!Next]_thread
  BY <1>2, <1>3, ThreadStep
<1> QED
  BY <1>1, <1>3, Invariance, PTL DEF Spec
=============================================================================
