------------------------------ MODULE Saturnd ------------------------------
(***************************************************************************)
(* The daemon's main thread (saturnd.c), the task directories it keeps on  *)
(* disk, its tables of threads and workers, and the life of each worker    *)
(* thread as the main thread sees it (worker.c): start, cancellation, end. *)
(* What a worker does between start and end is module Worker; how requests *)
(* and replies travel through the two FIFOs is module Rendezvous.          *)
(*                                                                         *)
(* The process may be killed between any two system calls; its memory is   *)
(* lost, the files stay as the last system call left them.  write_buffer   *)
(* makes one call for each PIPE_BUF bytes, so a long definition can be     *)
(* left cut.  Not modelled: a write() to a file that takes fewer bytes     *)
(* than it is given (a full disk), which the code would not notice.        *)
(***************************************************************************)
EXTENDS Integers, Sequences

CONSTANTS MaxTaskid,   \* BOUND: identifiers are 0 .. MaxTaskid
          Payload,     \* task definitions: a timing and a command line
          Long,        \* those that do not fit in PIPE_BUF bytes
          NoTask,      \* there is no `task` file
          EmptyTask,   \* the `task` file exists and has length 0
          CutTask,     \* it holds the beginning of a long definition: identifier
                       \* and timing, but not the whole command line
          Null,        \* the NULL pointer
          CanCrash,    \* may the process and its clients be killed from outside?
          CanFail      \* may a system call fail?

TaskId == 0 .. MaxTaskid

ASSUME BoundAssumption == MaxTaskid \in Nat
ASSUME PayloadAssumption ==
    /\ NoTask \notin Payload
    /\ EmptyTask \notin Payload
    /\ CutTask \notin Payload
    /\ Null \notin Payload \cup TaskId
    /\ NoTask # EmptyTask /\ NoTask # CutTask /\ EmptyTask # CutTask
    /\ Long \subseteq Payload
ASSUME SwitchAssumption == CanCrash \in BOOLEAN /\ CanFail \in BOOLEAN

\* The files a task directory holds beside `task`, in the order create_worker
\* opens them, and the order in which REMOVE unlinks.
OutputFile == <<"runs", "last_stdout", "last_stderr">>
OutputFiles == {"runs", "last_stdout", "last_stderr"}

VARIABLES
  directories,         \* the identifiers whose task directory exists
  task_file,           \* the `task` file of each identifier
  output_files,        \* which of the other files its directory holds
  g_last_taskid,       \* despite its name, the next identifier to give
  g_threads,           \* thread handles, one per task loaded or created: the
                       \* handle of id is set once thread[id] is not "none"
  g_workers,           \* worker pointers, NULL once removed
  g_running_taskids,   \* the identifiers is_worker_running finds
  thread,              \* where the worker thread of each task is
  pc,                  \* where the main thread is
  todo,                \* existing_taskids still to load
  cur,                 \* the task of the current create_worker or REMOVE
  step,                \* which file or thread a loop is at
  reply,               \* the reply being built, and where its client is
  fault,               \* the memory fault that killed the last process
  acked,               \* history: definitions acknowledged to a client
  retired              \* history: identifiers whose removal was accepted

disk    == <<directories, task_file, output_files>>
tables  == <<g_last_taskid, g_threads, g_workers, g_running_taskids>>
history == <<acked, retired>>
vars == <<disk, tables, thread, pc, todo, cur, step, reply, fault, history>>

NoReply == [op |-> "none", status |-> "none", tasks |-> {}, client |-> "none"]
NoCur == [id |-> 0, task |-> Null]

\* What create_worker takes for a stored definition: any `task` file that is
\* not empty.
Definition == Payload \cup {CutTask}

StoredTasks == {id \in TaskId : task_file[id] \in Definition}

Init == /\ directories = {}
        /\ task_file = [id \in TaskId |-> NoTask]
        /\ output_files = [id \in TaskId |-> {}]
        /\ g_last_taskid = 0
        /\ g_threads = << >>
        /\ g_workers = << >>
        /\ g_running_taskids = {}
        /\ thread = [id \in TaskId |-> "none"]
        /\ pc = "down"
        /\ todo = {}
        /\ cur = NoCur
        /\ step = 0
        /\ reply = NoReply
        /\ fault = "none"
        /\ acked = [id \in TaskId |-> NoTask]
        /\ retired = {}

-----------------------------------------------------------------------------
(* The end of the process: everything in memory is gone. *)
ProcessEnds == /\ pc' = "down"
               /\ g_last_taskid' = 0
               /\ g_threads' = << >>
               /\ g_workers' = << >>
               /\ g_running_taskids' = {}
               /\ thread' = [id \in TaskId |-> "none"]
               /\ todo' = {}
               /\ cur' = NoCur
               /\ step' = 0
               /\ reply' = NoReply

\* A read through a bad pointer: the process dies of f.
Die(f) == /\ ProcessEnds
          /\ fault' = f
          /\ UNCHANGED <<disk, history>>

\* Mutant: the loop over g_threads starts at its second element.
GotoCleanupFromSecond == /\ pc' = "cleanup"
                         /\ g_running_taskids' = {}
                         /\ todo' = {}
                         /\ cur' = NoCur
                         /\ step' = 2
                         /\ reply' = NoReply
                         /\ UNCHANGED <<g_last_taskid, g_threads, g_workers>>

\* `goto error` or the end of the loop: g_running_taskids is freed first,
\* then the threads are cancelled and joined one by one.
GotoCleanup == /\ pc' = "cleanup"
               /\ g_running_taskids' = {}
               /\ todo' = {}
               /\ cur' = NoCur
               /\ step' = 1
               /\ reply' = NoReply
               /\ UNCHANGED <<g_last_taskid, g_threads, g_workers>>

-----------------------------------------------------------------------------
(* Start-up: scan the tasks directory, then load every task in order. *)

\* Mutant: the largest identifier found, not the one after it.
StartUpAtLargest == /\ pc = "down"
                    /\ \E next \in 0 .. MaxTaskid :
                         /\ \A id \in directories : id <= next
                         /\ next = 0 \/ next \in directories
                         /\ g_last_taskid' = next
                    /\ todo' = directories
                    /\ pc' = "load"
                    /\ fault' = "none"
                    /\ UNCHANGED <<disk, g_threads, g_workers, g_running_taskids,
                                   thread, cur, step, reply, history>>

\* One above the largest identifier found, 0 when there is none.
StartUp == /\ pc = "down"
           /\ \E next \in 0 .. MaxTaskid + 1 :
                /\ \A id \in directories : id < next
                /\ next = 0 \/ next - 1 \in directories
                /\ g_last_taskid' = next
           /\ todo' = directories
           /\ pc' = "load"
           /\ fault' = "none"
           /\ UNCHANGED <<disk, g_threads, g_workers, g_running_taskids,
                          thread, cur, step, reply, history>>

\* The sorted array is walked from its first element: the smallest first.
LoadNext == /\ pc = "load"
            /\ \E id \in todo :
                 /\ \A other \in todo : id <= other
                 /\ todo' = todo \ {id}
                 /\ g_threads' = Append(g_threads, id)
                 /\ cur' = [id |-> id, task |-> Null]
            /\ pc' = "mkdir"
            /\ UNCHANGED <<disk, g_last_taskid, g_workers, g_running_taskids,
                           thread, step, reply, fault, history>>

\* Mutant: the last task found is not loaded.
LoadDoneEarly == /\ pc = "load"
                 /\ \A id, other \in todo : id = other
                 /\ pc' = "idle"
                 /\ UNCHANGED <<disk, tables, thread, todo, cur, step, reply, fault,
                                history>>

LoadDone == /\ pc = "load"
            /\ todo = {}
            /\ pc' = "idle"
            /\ UNCHANGED <<disk, tables, thread, todo, cur, step, reply, fault,
                           history>>

-----------------------------------------------------------------------------
(* create_worker, for a new task or (cur.task = Null) for a stored one. *)

MakeDirectory == /\ pc = "mkdir"
                 /\ directories' = directories \cup {cur.id}
                 /\ pc' = "open"
                 /\ UNCHANGED <<task_file, output_files, tables, thread, todo, cur,
                                step, reply, fault, history>>

\* Mutant: a stored task is opened with O_TRUNC too.
OpenTaskTruncating == /\ pc = "open"
                      /\ task_file' = [task_file EXCEPT ![cur.id] = EmptyTask]
                      /\ pc' = "write"
                      /\ UNCHANGED <<directories, output_files, tables, thread, todo,
                                     cur, step, reply, fault, history>>

\* O_CREAT makes the file when it is missing.  A stored task must not be
\* empty, and is then read, whatever it holds; a new one truncates whatever is
\* there.
OpenTask == /\ pc = "open"
            /\ cur.task # Null \/ task_file[cur.id] \in Definition
            /\ IF cur.task = Null
               THEN pc' = "outs" /\ step' = 1 /\ UNCHANGED task_file
               ELSE /\ task_file' = [task_file EXCEPT ![cur.id] = EmptyTask]
                    /\ pc' = "write"
                    /\ UNCHANGED step
            /\ UNCHANGED <<directories, output_files, tables, thread, todo, cur, reply,
                           fault, history>>

\* The check of line 53 fails: O_CREAT has already made the file.
OpenEmptyTask == /\ pc = "open"
                 /\ cur.task = Null
                 /\ task_file[cur.id] \notin Definition
                 /\ task_file' = [task_file EXCEPT ![cur.id] = EmptyTask]
                 /\ GotoCleanup
                 /\ UNCHANGED <<directories, output_files, thread, fault, history>>

\* The reader takes what it finds after the cut for lengths: a malloc of such a
\* length may fail.
ReadCutTask == /\ pc = "open"
               /\ cur.task = Null
               /\ task_file[cur.id] = CutTask
               /\ GotoCleanup
               /\ UNCHANGED <<disk, thread, fault, history>>

\* The first PIPE_BUF bytes of a long definition; further ones change nothing
\* that can be told here, until the last.
WriteTaskPart == /\ pc = "write"
                 /\ cur.task \in Long
                 /\ task_file[cur.id] = EmptyTask
                 /\ task_file' = [task_file EXCEPT ![cur.id] = CutTask]
                 /\ UNCHANGED <<directories, output_files, tables, thread, pc, todo, cur,
                                step, reply, fault, history>>

\* The last write, the only one of a short definition.
WriteTask == /\ pc = "write"
             /\ cur.task \in Long => task_file[cur.id] = CutTask
             /\ task_file' = [task_file EXCEPT ![cur.id] = cur.task]
             /\ pc' = "outs"
             /\ step' = 1
             /\ UNCHANGED <<directories, output_files, tables, thread, todo, cur, reply,
                            fault, history>>

\* Mutant: last_stderr is not opened.
OpenOutputShort ==
  /\ pc = "outs"
  /\ output_files' = [output_files EXCEPT ![cur.id] = @ \cup {OutputFile[step]}]
  /\ IF step + 1 < Len(OutputFile)
     THEN step' = step + 1 /\ UNCHANGED pc
     ELSE step' = 0 /\ pc' = "start"
  /\ UNCHANGED <<directories, task_file, tables, thread, todo, cur, reply, fault,
                 history>>

\* runs, last_stdout and last_stderr, one open_file each.
OpenOutput == /\ pc = "outs"
              /\ output_files' = [output_files EXCEPT ![cur.id] = @ \cup {OutputFile[step]}]
              /\ IF step < Len(OutputFile)
                 THEN step' = step + 1 /\ UNCHANGED pc
                 ELSE step' = 0 /\ pc' = "start"
              /\ UNCHANGED <<directories, task_file, tables, thread, todo, cur, reply,
                             fault, history>>

\* The client that made the request is on its way to the reply pipe, unless it
\* was killed meanwhile.
Client == {"waiting"} \cup (IF CanCrash THEN {"gone"} ELSE {})

\* The worker is registered and its thread created; a new task is answered,
\* a stored one followed by the next.
StartThread ==
  /\ pc = "start"
  /\ g_workers' = Append(g_workers, cur.id)
  /\ g_running_taskids' = g_running_taskids \cup {cur.id}
  /\ thread' = [thread EXCEPT ![cur.id] = "alive"]
  /\ IF cur.task = Null
     THEN pc' = "load" /\ cur' = NoCur /\ UNCHANGED reply
     ELSE /\ pc' = "reply"
          /\ \E c \in Client : reply' = [op |-> "CREATE_TASK", status |-> "OK",
                                         tasks |-> {cur.id}, client |-> c]
          /\ UNCHANGED cur
  /\ UNCHANGED <<disk, g_last_taskid, g_threads, todo, step, fault, history>>

-----------------------------------------------------------------------------
(* Requests.  The main thread reads one, handles it and answers it before  *)
(* it reads the next.                                                      *)

\* get_worker dereferences every slot up to the one it looks for.
ReadsNull(id) == \E i \in DOMAIN g_workers :
                   /\ g_workers[i] = Null
                   /\ \A j \in 1 .. i - 1 : g_workers[j] # id

\* ... also the slot of a worker that ended by itself and freed its memory.
ReadsFreed(id) == \E i \in DOMAIN g_workers :
                    /\ g_workers[i] # Null
                    /\ thread[g_workers[i]] = "ended"
                    /\ \A j \in 1 .. i - 1 : g_workers[j] # id

\* The outcomes of get_worker that kill the process: a NULL slot always does,
\* a freed one may.
GetWorkerDies(id) == \/ ReadsNull(id) /\ Die("null_worker")
                     \/ ReadsFreed(id) /\ ~ReadsNull(id) /\ Die("freed_worker")

Answer(op, status, tasks) ==
  /\ \E c \in Client :
       reply' = [op |-> op, status |-> status, tasks |-> tasks, client |-> c]
  /\ pc' = "reply"

\* Mutant: the loop over g_workers starts at its second element.
ListTasksFromSecond ==
  /\ pc = "idle"
  /\ Answer("LIST_TASKS", "OK",
            {id \in g_running_taskids : \E i \in 2 .. Len(g_workers) : g_workers[i] = id})
  /\ UNCHANGED <<disk, tables, thread, todo, cur, step, fault, history>>

\* LIST: the workers that are running.
ListTasks ==
  /\ pc = "idle"
  /\ Answer("LIST_TASKS", "OK",
            {id \in g_running_taskids : \E i \in DOMAIN g_workers : g_workers[i] = id})
  /\ UNCHANGED <<disk, tables, thread, todo, cur, step, fault, history>>

\* LIST reads every slot but the NULL ones, so also one that was freed.
ListReadsFreed ==
  /\ pc = "idle"
  /\ \E i \in DOMAIN g_workers : g_workers[i] # Null /\ thread[g_workers[i]] = "ended"
  /\ Die("freed_worker")

\* Mutant: g_last_taskid is not incremented.
CreateTaskSameId(p) ==
  /\ pc = "idle"
  /\ g_last_taskid <= MaxTaskid
  /\ g_threads' = Append(g_threads, g_last_taskid)
  /\ cur' = [id |-> g_last_taskid, task |-> p]
  /\ pc' = "mkdir"
  /\ UNCHANGED <<disk, g_last_taskid, g_workers, g_running_taskids, thread, todo,
                 step, reply, fault, history>>

CreateTask(p) ==
  /\ pc = "idle"
  /\ g_last_taskid <= MaxTaskid   \* BOUND
  /\ g_last_taskid' = g_last_taskid + 1
  /\ g_threads' = Append(g_threads, g_last_taskid)
  /\ cur' = [id |-> g_last_taskid, task |-> p]
  /\ pc' = "mkdir"
  /\ UNCHANGED <<disk, g_workers, g_running_taskids, thread, todo, step, reply,
                 fault, history>>

\* A request that names a task which is not running.
NotFound(op, id) ==
  /\ pc = "idle"
  /\ id \notin g_running_taskids
  /\ Answer(op, "NOT_FOUND", {})
  /\ UNCHANGED <<disk, tables, thread, todo, cur, step, fault, history>>

\* Mutant: the thread is joined without being cancelled.
RemoveTaskNoCancel(id) ==
  /\ pc = "idle"
  /\ id \in g_running_taskids
  /\ ~ReadsNull(id)
  /\ cur' = [id |-> id, task |-> Null]
  /\ pc' = "join"
  /\ UNCHANGED <<disk, tables, thread, todo, step, reply, fault, history>>

\* REMOVE cancels the worker thread ...
RemoveTask(id) ==
  /\ pc = "idle"
  /\ id \in g_running_taskids
  /\ ~ReadsNull(id)
  /\ thread' = [thread EXCEPT ![id] = IF @ = "alive" THEN "cancelled" ELSE @]
  /\ cur' = [id |-> id, task |-> Null]
  /\ pc' = "join"
  /\ UNCHANGED <<disk, tables, todo, step, reply, fault, history>>

\* Mutant: the thread is cancelled but not joined.
RemoveNoJoin ==
  /\ pc = "join"
  /\ \E i \in DOMAIN g_workers :
       /\ g_threads[i] = cur.id
       /\ \A j \in 1 .. i - 1 : g_threads[j] # cur.id
       /\ g_workers' = [g_workers EXCEPT ![i] = Null]
  /\ g_running_taskids' = g_running_taskids \ {cur.id}
  /\ acked' = [acked EXCEPT ![cur.id] = NoTask]
  /\ retired' = retired \cup {cur.id}
  /\ pc' = "unlink"
  /\ step' = 0
  /\ UNCHANGED <<disk, g_last_taskid, g_threads, thread, todo, cur, reply, fault>>

\* Mutant: the slot is taken out of g_workers, which g_threads keeps.
RemoveShifting ==
  /\ pc = "join"
  /\ thread[cur.id] = "ended"
  /\ thread' = [thread EXCEPT ![cur.id] = "joined"]
  /\ \E i \in DOMAIN g_workers :
       /\ g_threads[i] = cur.id
       /\ g_workers' = SubSeq(g_workers, 1, i - 1) \o SubSeq(g_workers, i + 1, Len(g_workers))
  /\ g_running_taskids' = g_running_taskids \ {cur.id}
  /\ acked' = [acked EXCEPT ![cur.id] = NoTask]
  /\ retired' = retired \cup {cur.id}
  /\ pc' = "unlink"
  /\ step' = 0
  /\ UNCHANGED <<disk, g_last_taskid, g_threads, todo, cur, reply, fault>>

\* ... waits for its end, and forgets the worker ...
RemoveJoin ==
  /\ pc = "join"
  /\ thread[cur.id] = "ended"
  /\ thread' = [thread EXCEPT ![cur.id] = "joined"]
  /\ \E i \in DOMAIN g_workers :
       /\ g_threads[i] = cur.id
       /\ \A j \in 1 .. i - 1 : g_threads[j] # cur.id
       /\ g_workers' = [g_workers EXCEPT ![i] = Null]
  /\ g_running_taskids' = g_running_taskids \ {cur.id}
  /\ acked' = [acked EXCEPT ![cur.id] = NoTask]
  /\ retired' = retired \cup {cur.id}
  /\ pc' = "unlink"
  /\ step' = 0
  /\ UNCHANGED <<disk, g_last_taskid, g_threads, todo, cur, reply, fault>>

\* Is the file the next unlink names there?
UnlinkFinds == IF step = 0 THEN task_file[cur.id] # NoTask
               ELSE OutputFile[step] \in output_files[cur.id]

\* ... then unlinks `task` and the three output files, one call each (a call
\* that fails is SyscallFails; that none is missing is RemoveFindsItsFiles) ...
RemoveUnlink ==
  /\ pc = "unlink"
  /\ UnlinkFinds
  /\ IF step = 0
     THEN /\ task_file' = [task_file EXCEPT ![cur.id] = NoTask]
          /\ UNCHANGED output_files
     ELSE /\ output_files' = [output_files EXCEPT ![cur.id] = @ \ {OutputFile[step]}]
          /\ UNCHANGED task_file
  /\ IF step < Len(OutputFile)
     THEN step' = step + 1 /\ UNCHANGED pc
     ELSE step' = 0 /\ pc' = "rmdir"
  /\ UNCHANGED <<directories, tables, thread, todo, cur, reply, fault, history>>

\* Mutant: the directory itself is left.
RemoveDirectoryLeft ==
  /\ pc = "rmdir"
  /\ Answer("REMOVE_TASK", "OK", {cur.id})
  /\ UNCHANGED <<disk, tables, thread, todo, cur, step, fault, history>>

\* ... and the empty directory, and answers.
RemoveDirectory ==
  /\ pc = "rmdir"
  /\ directories' = directories \ {cur.id}
  /\ Answer("REMOVE_TASK", "OK", {cur.id})
  /\ UNCHANGED <<task_file, output_files, tables, thread, todo, cur, step, fault, history>>

\* TIMES_AND_EXITCODES, STDOUT and STDERR of a task that is running.  Whether
\* the task has run yet, and what it printed, is module Worker's.
GetTask(op, id) ==
  /\ pc = "idle"
  /\ id \in g_running_taskids
  /\ ~ReadsNull(id)
  /\ \/ Answer(op, "OK", {id})
     \/ op # "GET_TIMES_AND_EXITCODES" /\ Answer(op, "NEVER_RUN", {})
  /\ UNCHANGED <<disk, tables, thread, todo, cur, step, fault, history>>

\* The lookup of a REMOVE or a GET dies in get_worker.
LookupDies(id) == /\ pc = "idle"
                  /\ id \in g_running_taskids
                  /\ GetWorkerDies(id)

Terminate == /\ pc = "idle"
             /\ Answer("TERMINATE", "OK", {})
             /\ UNCHANGED <<disk, tables, thread, todo, cur, step, fault, history>>

OtherRequest == /\ pc = "idle"
                /\ Answer("other", "ERROR", {})
                /\ UNCHANGED <<disk, tables, thread, todo, cur, step, fault, history>>

\* open(O_WRONLY) waits until a client has opened the reply pipe.
OpenReply == /\ pc = "reply"
             /\ reply.client = "waiting"
             /\ reply' = [reply EXCEPT !.client = "reading"]
             /\ pc' = "send"
             /\ UNCHANGED <<disk, tables, thread, todo, cur, step, fault, history>>

\* The reply is written; the client of a CREATE now knows its task.
SendReply ==
  /\ pc = "send"
  /\ reply.client = "reading"
  /\ acked' = IF reply.op = "CREATE_TASK"
              THEN [acked EXCEPT ![cur.id] = cur.task] ELSE acked
  /\ IF reply.op = "TERMINATE"
     THEN GotoCleanup
     ELSE /\ pc' = "idle"
          /\ cur' = NoCur
          /\ reply' = NoReply
          /\ UNCHANGED <<tables, todo, step>>
  /\ UNCHANGED <<disk, thread, fault, retired>>

\* Nobody reads the pipe any more: the write raises SIGPIPE, which nothing
\* catches.
SendToNobody == /\ pc = "send"
                /\ reply.client = "gone"
                /\ Die("sigpipe")

\* The client is killed before it has its reply ...
ClientKilled == /\ CanCrash
                /\ pc \in {"reply", "send"}
                /\ reply.client \in {"waiting", "reading"}
                /\ reply' = [reply EXCEPT !.client = "gone"]
                /\ UNCHANGED <<disk, tables, thread, pc, todo, cur, step, fault, history>>

\* ... and another, which had opened the request pipe beside it, opens the reply
\* pipe in its place (module Rendezvous says when).
OtherClient == /\ pc = "reply"
               /\ reply.client = "gone"
               /\ reply' = [reply EXCEPT !.client = "waiting"]
               /\ UNCHANGED <<disk, tables, thread, pc, todo, cur, step, fault, history>>

-----------------------------------------------------------------------------
(* The cleanup of lines 413-424: cancel and join every entry of g_threads. *)

CleanupDone == /\ pc = "cleanup"
               /\ step > Len(g_threads)
               /\ ProcessEnds
               /\ UNCHANGED <<disk, fault, history>>

\* Mutant: the cleanup joins a thread it has not cancelled.
CleanupNoCancel ==
  /\ pc = "cleanup"
  /\ step <= Len(g_threads)
  /\ thread[g_threads[step]] \in {"alive", "cancelled", "ended"}
  /\ cur' = [id |-> g_threads[step], task |-> Null]
  /\ pc' = "joining"
  /\ UNCHANGED <<disk, tables, thread, todo, step, reply, fault, history>>

CleanupCancel ==
  /\ pc = "cleanup"
  /\ step <= Len(g_threads)
  /\ thread[g_threads[step]] \in {"alive", "cancelled", "ended"}
  /\ thread' = [thread EXCEPT ![g_threads[step]] = IF @ = "alive" THEN "cancelled" ELSE @]
  /\ cur' = [id |-> g_threads[step], task |-> Null]
  /\ pc' = "joining"
  /\ UNCHANGED <<disk, tables, todo, step, reply, fault, history>>

\* Mutant: the join does not wait for the end of the thread.
CleanupDetach == /\ pc = "joining"
                 /\ thread' = [thread EXCEPT ![cur.id] = "joined"]
                 /\ step' = step + 1
                 /\ pc' = "cleanup"
                 /\ cur' = NoCur
                 /\ UNCHANGED <<disk, tables, todo, reply, fault, history>>

CleanupJoin == /\ pc = "joining"
               /\ thread[cur.id] = "ended"
               /\ thread' = [thread EXCEPT ![cur.id] = "joined"]
               /\ step' = step + 1
               /\ pc' = "cleanup"
               /\ cur' = NoCur
               /\ UNCHANGED <<disk, tables, todo, reply, fault, history>>

\* pthread_cancel on a handle that pthread_create never filled: it is 0.
CleanupUnset == /\ pc = "cleanup"
                /\ step <= Len(g_threads)
                /\ thread[g_threads[step]] = "none"
                /\ Die("unset_thread")

\* pthread_cancel and pthread_join on a thread that was joined already, which
\* is undefined: glibc answers ESRCH, reads unmapped memory, or acts on the
\* thread that was given the same stack since.
CleanupStale ==
  /\ pc = "cleanup"
  /\ step <= Len(g_threads)
  /\ thread[g_threads[step]] = "joined"
  /\ \/ /\ step' = step + 1
        /\ fault' = "stale_thread"
        /\ UNCHANGED <<disk, tables, thread, pc, todo, cur, reply, history>>
     \/ Die("stale_thread")
     \/ \E i \in step + 1 .. Len(g_threads) :
          LET other == g_threads[i]
          IN /\ thread[other] \in {"alive", "ended"}
             /\ thread' = [thread EXCEPT ![other] = IF @ = "alive" THEN "cancelled" ELSE @]
             /\ cur' = [id |-> other, task |-> Null]
             /\ pc' = "joining"
             /\ fault' = "stale_thread"
             /\ UNCHANGED <<disk, tables, todo, step, reply, history>>

-----------------------------------------------------------------------------
(* Worker threads, as the main thread sees them. *)

EndThread(id) ==
  /\ thread' = [thread EXCEPT ![id] = "ended"]
  /\ UNCHANGED <<disk, tables, pc, todo, cur, step, reply, fault, history>>

\* A cancelled worker reaches a cancellation point and runs cleanup_worker.
WorkerCancelled(id) == thread[id] = "cancelled" /\ EndThread(id)

\* is_worker_running says no: the worker leaves its loop by itself.
WorkerLeaves(id) == /\ thread[id] = "alive"
                    /\ id \notin g_running_taskids
                    /\ EndThread(id)

\* A fatal_assert of worker_main fails, or its unlocked scan of the running
\* array misses the identifier: the worker ends and frees itself while the
\* daemon still counts it as running.
WorkerFails(id) == /\ CanFail
                   /\ thread[id] = "alive"
                   /\ id \in g_running_taskids
                   /\ EndThread(id)

-----------------------------------------------------------------------------
(* Failures. *)

\* A fatal_assert of the main thread fails before its call changed anything.
SyscallFails == /\ CanFail
                /\ pc \notin {"down", "cleanup", "joining"}
                /\ GotoCleanup
                /\ UNCHANGED <<disk, thread, fault, history>>

\* The process is killed.
Crash == /\ CanCrash
         /\ pc # "down"
         /\ ProcessEnds
         /\ UNCHANGED <<disk, fault, history>>

-----------------------------------------------------------------------------
GetOp == {"GET_TIMES_AND_EXITCODES", "GET_STDOUT", "GET_STDERR"}

\* The steps of the main thread that need no request to arrive.
MainStep == \/ LoadNext \/ LoadDone
            \/ MakeDirectory \/ OpenTask \/ OpenEmptyTask \/ ReadCutTask
            \/ WriteTaskPart \/ WriteTask \/ OpenOutput \/ StartThread
            \/ RemoveJoin \/ RemoveUnlink \/ RemoveDirectory
            \/ OpenReply \/ SendReply \/ SendToNobody
            \/ CleanupDone \/ CleanupCancel \/ CleanupJoin
            \/ CleanupUnset \/ CleanupStale

Request == \/ ListTasks
           \/ ListReadsFreed
           \/ \E p \in Payload : CreateTask(p)
           \/ \E id \in TaskId :
                \/ RemoveTask(id)
                \/ LookupDies(id)
                \/ NotFound("REMOVE_TASK", id)
                \/ \E op \in GetOp : GetTask(op, id) \/ NotFound(op, id)
           \/ Terminate
           \/ OtherRequest

WorkerStep == \E id \in TaskId : \/ WorkerCancelled(id)
                                 \/ WorkerLeaves(id)
                                 \/ WorkerFails(id)

Next == \/ StartUp
        \/ MainStep
        \/ Request
        \/ WorkerStep
        \/ ClientKilled
        \/ OtherClient
        \/ SyscallFails
        \/ Crash

Spec == Init /\ [][Next]_vars

\* The main thread and the workers are scheduled, and so is a client on its way
\* to the reply pipe; nobody has to send a request or start the daemon, and
\* where no client comes the open of the reply pipe waits for ever.
Fairness == /\ WF_vars(MainStep)
            /\ \A id \in TaskId : WF_vars(WorkerCancelled(id))

FairSpec == Spec /\ Fairness
-----------------------------------------------------------------------------
(* Properties. *)

Status == {"none", "alive", "cancelled", "ended", "joined"}
Fault == {"none", "null_worker", "freed_worker", "unset_thread", "stale_thread", "sigpipe"}
Op == GetOp \cup {"none", "LIST_TASKS", "CREATE_TASK", "REMOVE_TASK", "TERMINATE", "other"}

\* Every variable has the shape the code gives it.
TypeOK ==
  /\ directories \subseteq TaskId
  /\ task_file \in [TaskId -> Definition \cup {NoTask, EmptyTask}]
  /\ output_files \in [TaskId -> SUBSET OutputFiles]
  /\ g_last_taskid \in 0 .. MaxTaskid + 1
  /\ g_threads \in Seq(TaskId)
  /\ g_workers \in Seq(TaskId \cup {Null})
  /\ g_running_taskids \subseteq TaskId
  /\ thread \in [TaskId -> Status]
  /\ pc \in {"down", "load", "mkdir", "open", "write", "outs", "start", "idle",
            "join", "unlink", "rmdir", "reply", "send", "cleanup", "joining"}
  /\ todo \subseteq TaskId
  /\ cur \in [id : TaskId, task : Payload \cup {Null}]
  /\ step \in Nat
  /\ reply \in [op : Op, status : {"none", "OK", "NOT_FOUND", "NEVER_RUN", "ERROR"},
               tasks : SUBSET TaskId, client : {"none", "waiting", "reading", "gone"}]
  /\ fault \in Fault
  /\ acked \in [TaskId -> Payload \cup {NoTask}]
  /\ retired \subseteq TaskId

Creating == pc \in {"mkdir", "open", "write", "outs", "start"} /\ cur.task # Null

\* CREATE never lands on a directory that exists: create_worker would truncate
\* the task in it.  The identifier comes from a scan made at start-up, and
\* directories are made and removed since, by this process and by the ones
\* that were killed before it.
FreshTaskid == pc = "mkdir" /\ cur.task # Null => cur.id \notin directories

\* A task a client was told of keeps its definition on disk until its removal
\* is accepted, through every crash, failed call and restart.
AckedDurable == \A id \in TaskId : acked[id] # NoTask => task_file[id] = acked[id]

\* REMOVE finds a slot by scanning g_threads and clears g_workers at that
\* index: the two arrays name the same task at the same place, each task once,
\* and a slot is NULL exactly when its task is not running any more.
SlotsAgree ==
  /\ Len(g_workers) = Len(g_threads) \/ Len(g_workers) + 1 = Len(g_threads)
  /\ \A i \in DOMAIN g_workers : g_workers[i] \in {Null, g_threads[i]}
  /\ \A i, j \in DOMAIN g_threads : i < j => g_threads[i] < g_threads[j]
  /\ pc \notin {"cleanup", "joining"} =>
       g_running_taskids = {id \in TaskId : \E i \in DOMAIN g_workers : g_workers[i] = id}

\* Whenever the daemon waits for a request, the tasks it lists are exactly the
\* directories on disk: no request leaves a half-made or half-removed task
\* behind, and start-up takes up every task.  Each directory has all its files,
\* and a definition that is whole unless its CREATE was killed before the
\* answer; each task has a thread, which runs unless a call of it failed.
ListsEveryTask ==
  pc = "idle" => /\ g_running_taskids = directories
                 /\ \A id \in directories :
                      /\ \/ task_file[id] \in Payload
                         \/ task_file[id] = CutTask /\ acked[id] = NoTask
                      /\ output_files[id] = OutputFiles
                      /\ thread[id] \in {"alive"} \cup (IF CanFail THEN {"ended"} ELSE {})

\* A worker thread that may still write its files has them: REMOVE unlinks
\* nothing before it has joined the thread.
WorkerHasItsFiles ==
  \A id \in TaskId : thread[id] \in {"alive", "cancelled"} =>
                       /\ task_file[id] \in Definition
                       /\ output_files[id] = OutputFiles

\* Every unlink of REMOVE names a file that exists, and its rmdir finds the
\* directory empty, also for a task made by an earlier process that was killed:
\* else a fatal_assert would fail and bring the daemon down.
RemoveFindsItsFiles ==
  /\ pc = "unlink" => UnlinkFinds
  /\ pc = "rmdir" => task_file[cur.id] = NoTask /\ output_files[cur.id] = {}

\* The reply to LIST names every task stored on disk and no other.
ListIsComplete == pc \in {"reply", "send"} /\ reply.op = "LIST_TASKS" => reply.tasks = StoredTasks

\* When the cleanup has gone through g_threads without undefined behaviour, no
\* worker thread is left: none is still writing files as the process exits.
CleanupJoinsAll ==
  pc = "cleanup" /\ step > Len(g_threads) /\ fault = "none" =>
    \A id \in TaskId : thread[id] \in {"none", "joined"}

\* What a client is promised, as module TaskStore states it: a daemon is up
\* from the end of its loading to its cleanup.
Up == pc \notin {"down", "load", "cleanup", "joining"}
      /\ ~(pc \in {"mkdir", "open", "outs", "start"} /\ cur.task = Null)

Abstract == INSTANCE TaskStore WITH
              stored  <- [id \in TaskId |-> IF id \in StoredTasks
                                            THEN task_file[id] ELSE NoTask],
              up      <- Up,
              serving <- IF Up THEN {id \in g_running_taskids : thread[id] # "ended"} ELSE {},
              ended   <- IF Up THEN {id \in g_running_taskids : thread[id] = "ended"} ELSE {}

\* The daemon implements the task store, crashes and failed calls included.
ImplementsTaskStore == Abstract!Spec

\* A task a client was told of is stored as the client described it and, while
\* a daemon is up, has a thread that runs it, unless that thread has ended, by a
\* failing call of its own or for a REMOVE: then the daemon still lists it.
\* That at every step of every handler.
PromiseKept == Abstract!Promise

\* To its worker's side of the story, module Worker, the daemon keeps: a thread is
\* cancelled once at most, joined only when it has ended, and not made again.
\* The fairness of a cancelled worker is what Worker shows of it.
Life == INSTANCE ThreadLife WITH Thread <- TaskId, status <- thread

ThreadsLive == Life!Spec

\* Start-up finds a definition in every directory it loads: without crashes
\* and failing calls, each REMOVE and CREATE leaves whole directories only.
LoadFindsItsTask == pc = "open" /\ cur.task = Null => task_file[cur.id] \in Payload

\* Every request is answered, or the process has died of it, or the daemon is
\* in the open of the reply pipe and the client was killed: nothing else it
\* waits for, the end of a worker thread above all, keeps it waiting for ever.
RequestsComplete ==
  Up /\ pc # "idle" ~> \/ pc \in {"idle", "down"}
                       \/ pc = "reply" /\ reply.client = "gone"

\* Once the cleanup begins the process ends: every cancelled worker is joined.
CleanupEnds == pc = "cleanup" ~> pc = "down"

\* protocole.md:159-161: the identifier of a removed task is not given again.
TaskidsNeverReused == \A id \in retired : acked[id] = NoTask

\* A lookup in g_workers dereferences no NULL pointer: the daemon runs until
\* it is asked to stop (enonce.md:38-39).
NoNullWorkerRead == fault # "null_worker"
=============================================================================
