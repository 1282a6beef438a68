----------------------------- MODULE SaturndInv -----------------------------
(***************************************************************************)
(* The inductive invariant of Saturnd.  The safety properties of that      *)
(* module are not inductive: they speak of the moments at which the main   *)
(* thread waits or unlinks, and it takes what holds in between, at every   *)
(* system call of create_worker and of REMOVE, to carry them from one such *)
(* moment to the next.                                                     *)
(***************************************************************************)
EXTENDS Saturnd

\* Inside create_worker, and inside either create_worker or the part of REMOVE
\* that takes a directory apart: the directory of cur.id is being changed.
InCreate == pc \in {"mkdir", "open", "write", "outs", "start"}
Changing == InCreate \/ pc \in {"unlink", "rmdir"}

\* The process serves or loads: its tables are in use.
Running == pc \notin {"down", "cleanup", "joining"}

Complete(id) == /\ id \in directories
                /\ task_file[id] \in Definition
                /\ output_files[id] = OutputFiles

\* Nothing is left of a directory that was removed.
NothingWithoutDirectory ==
  \A id \in TaskId \ directories : task_file[id] = NoTask /\ output_files[id] = {}

\* Every identifier in use is below the next one to give.
BelowLast ==
  pc # "down" =>
    /\ \A id \in TaskId : id \in directories \/ thread[id] # "none" => id < g_last_taskid
    /\ \A i \in DOMAIN g_threads : g_threads[i] < g_last_taskid
    /\ InCreate => cur.id < g_last_taskid
    /\ Creating => cur.id + 1 = g_last_taskid

\* How far create_worker and REMOVE are with the directory of cur.id.
DirectoryProgress ==
  /\ pc = "mkdir" /\ cur.task # Null => cur.id \notin directories
  /\ pc = "mkdir" /\ cur.task = Null => cur.id \in directories
  /\ pc \in {"open", "write", "outs", "start"} => cur.id \in directories
  /\ pc \in {"outs", "start"} => task_file[cur.id] \in Definition
  /\ pc \in {"outs", "start"} /\ cur.task # Null => task_file[cur.id] = cur.task
  /\ pc = "open" /\ cur.task # Null => task_file[cur.id] = NoTask
  /\ pc = "write" => cur.task # Null /\ task_file[cur.id] \in {EmptyTask, CutTask}
  /\ pc = "outs" => /\ step \in 1 .. 3
                    /\ \A k \in 1 .. step - 1 : OutputFile[k] \in output_files[cur.id]
  /\ pc = "start" => output_files[cur.id] = OutputFiles
  /\ pc = "unlink" => /\ step \in 0 .. 3
                      /\ cur.id \in directories
                      /\ step = 0 => task_file[cur.id] \in Definition
                      /\ step > 0 => task_file[cur.id] = NoTask
                      /\ step <= 1 => output_files[cur.id] = OutputFiles
                      /\ step = 2 => output_files[cur.id] = {OutputFile[2], OutputFile[3]}
                      /\ step = 3 => output_files[cur.id] = {OutputFile[3]}
  /\ pc = "rmdir" => /\ cur.id \in directories
                     /\ task_file[cur.id] = NoTask
                     /\ output_files[cur.id] = {}

\* The directories are those of the running tasks and of the tasks still to
\* load, beside the one being changed; those of the running tasks are whole.
DirectoriesAreTasks ==
  Running =>
    /\ \A id \in directories :
         id \in g_running_taskids \cup todo \/ (Changing /\ id = cur.id)
    /\ todo \subseteq directories
    /\ \A id \in g_running_taskids : Complete(id)
    /\ Changing => cur.id \notin g_running_taskids \cup todo
    /\ pc = "join" \/ (pc \in {"reply", "send"} /\ reply.op = "CREATE_TASK") =>
         cur.id \in g_running_taskids
    /\ g_running_taskids \cap todo = {}
    /\ todo # {} => pc = "load" \/ (InCreate /\ cur.task = Null)

\* Which threads exist, and what they may rely on.
ThreadsAreTasks ==
  /\ pc = "down" => \A id \in TaskId : thread[id] = "none"
  /\ \A id \in TaskId : thread[id] # "none" =>
       \E i \in DOMAIN g_threads : g_threads[i] = id
  /\ \A id \in TaskId : thread[id] \in {"alive", "cancelled"} => Complete(id)
  /\ InCreate => thread[cur.id] = "none"
  /\ \A id \in todo : thread[id] = "none"
  /\ pc \in {"unlink", "rmdir"} => thread[cur.id] = "joined"

\* The thread of a task the daemon runs has not ended, unless a call of it failed
\* or REMOVE is waiting for its end.
RunningHaveThreads ==
  Running => \A id \in g_running_taskids :
    IF pc = "join" /\ id = cur.id THEN thread[id] \in {"cancelled", "ended"}
    ELSE thread[id] = "alive" \/ (thread[id] = "ended" /\ CanFail)

\* The two arrays side by side, and the place of what is still to come.
ArraysAgree ==
  /\ SlotsAgree
  /\ InCreate => /\ Len(g_threads) = Len(g_workers) + 1
                 /\ g_threads[Len(g_threads)] = cur.id
  /\ Running /\ ~InCreate => Len(g_threads) = Len(g_workers)
  /\ \A i \in DOMAIN g_threads : \A id \in todo : g_threads[i] < id
  /\ pc = "down" => g_threads = << >> /\ g_workers = << >>

\* What clients were told is on disk, and a new task is not yet among it.
AckedIsStored ==
  /\ AckedDurable
  /\ Creating => acked[cur.id] = NoTask
  /\ pc \in {"unlink", "rmdir"} => acked[cur.id] = NoTask
  /\ pc \in {"reply", "send"} /\ reply.op = "CREATE_TASK" =>
       cur.task # Null /\ task_file[cur.id] = cur.task

\* The part of g_threads the cleanup has been through.
CleanupProgress ==
  /\ pc \in {"cleanup", "joining"} => step >= 1
  /\ pc \in {"cleanup", "joining"} /\ fault = "none" =>
    /\ \A i \in DOMAIN g_threads : i < step => thread[g_threads[i]] = "joined"
    /\ pc = "joining" => /\ step \in DOMAIN g_threads
                         /\ cur.id = g_threads[step]

\* Each state of the daemon satisfies all of this, and each step keeps it.
IInv == /\ TypeOK
        /\ NothingWithoutDirectory
        /\ BelowLast
        /\ DirectoryProgress
        /\ DirectoriesAreTasks
        /\ ThreadsAreTasks
        /\ RunningHaveThreads
        /\ ArraysAgree
        /\ AckedIsStored
        /\ ListIsComplete
        /\ CleanupProgress
=============================================================================
