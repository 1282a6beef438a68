------------------------------- MODULE Worker -------------------------------
(***************************************************************************)
(* One task: its worker thread (worker_main), the command it runs, its     *)
(* runs, last_stdout and last_stderr files, and what the main thread does  *)
(* to it: load it, cancel it and join it.                                  *)
(*                                                                         *)
(* Time is counted in units, Minute of them to a minute; it passes while   *)
(* the worker sleeps and, if Slow, between any two of its steps.  Of a     *)
(* command's output the model keeps which execution printed it: n for the  *)
(* output of the n-th, -n for a beginning of it, 0 for an empty string;    *)
(* how it is read is module Capture.                                       *)
(*                                                                         *)
(* write_buffer makes one write() for each PIPE_BUF bytes, and the thread  *)
(* may be cancelled or the process killed between two.  What such a write  *)
(* leaves is read back by a reader that does not look at how much it got.  *)
(***************************************************************************)
EXTENDS Integers, Sequences

CONSTANTS Minute,     \* units of time in a minute
          Hour,       \* the schedule repeats after that many minutes
          MaxTime,    \* BOUND: the clock stops there
          MaxLife,    \* BOUND: how often the daemon is started
          RunsPerWrite, \* the runs that fit in PIPE_BUF bytes: 409
          Slow,       \* may a step of the worker, or its command, take time?
          CanCrash,   \* may the daemon be killed?
          CanFail     \* may a call of worker_main fail?

ASSUME TimeAssumption == Minute \in Nat \ {0} /\ Hour \in Nat \ {0}
ASSUME BoundAssumption == MaxTime \in Nat /\ MaxLife \in Nat
ASSUME WriteAssumption == RunsPerWrite \in Nat \ {0}
ASSUME SwitchAssumption == Slow \in BOOLEAN /\ CanCrash \in BOOLEAN /\ CanFail \in BOOLEAN

Stream == {"stdout", "stderr"}
MinuteOf(time) == time \div Minute

VARIABLES
  clock,
  schedule,         \* the minutes of the hour in the task's timing
  running,          \* is_worker_running(taskid)
  removed,          \* a REMOVE was accepted
  cancelled,        \* a pthread_cancel is pending
  pc,               \* where the worker thread is
  stream,           \* the output being saved
  execution_time,   \* read at the top of the loop
  wake, resume,     \* when the sleep ends, and what follows it
  child,            \* the forked command
  printed,          \* the streams it printed something on, once it ended
  runs,             \* worker->runs
  last,             \* worker->last_stdout and worker->last_stderr
  runs_file,        \* the `runs` file: the number it begins with and the runs
                    \* that follow, which may be fewer
  last_file,        \* the `last_stdout` and `last_stderr` files
  life,             \* history: how many processes there have been
  executions,       \* history: how many commands were started
  since,            \* history: first minute of this life
  started, busy     \* history: minutes of this life in which a command was
                    \* started, and which the worker came out of too late

task    == <<schedule, running, removed, cancelled>>
timer   == <<wake, resume>>
command == <<child, printed>>
memory  == <<runs, last>>
files   == <<runs_file, last_file>>
minutes == <<since, started, busy>>
history == <<life, executions, minutes>>
vars == <<clock, task, pc, stream, execution_time, timer, command, memory, files, history>>

Saving == {"set", "truncate", "write", "push", "truncate_runs", "write_runs"}
Empty == [s \in Stream |-> 0]

\* The `runs` file of a new task, and that of a list of runs.
NoRuns == [count |-> 0, items |-> << >>]
Whole(list) == [count |-> Len(list), items |-> list]

\* read_run_array goes by the number: past the end of the file its reads bring
\* nothing, and the variable they fill keeps what the stack held.  A run that
\* the end cuts in two counts as unread.
Unread == [time |-> 0, life |-> 0]
ReadBack(file) == [i \in 1 .. file.count |->
                     IF i <= Len(file.items) THEN file.items[i] ELSE Unread]

\* The thread is not there, nor is its memory.
NoThread == /\ pc = "off"
            /\ running = FALSE
            /\ cancelled = FALSE
            /\ stream = "stdout"
            /\ execution_time = 0
            /\ wake = 0 /\ resume = "check"
            /\ child = "none" /\ printed = {}
            /\ runs = << >> /\ last = Empty

\* It goes.
ThreadGone == /\ pc' = "off"
              /\ running' = FALSE
              /\ cancelled' = FALSE
              /\ stream' = "stdout"
              /\ execution_time' = 0
              /\ wake' = 0 /\ resume' = "check"
              /\ child' = "none" /\ printed' = {}
              /\ runs' = << >> /\ last' = Empty

\* The task is newly created: its files are empty.
Init == /\ NoThread
        /\ clock = 0
        /\ schedule \in SUBSET (0 .. Hour - 1)
        /\ removed = FALSE
        /\ runs_file = NoRuns /\ last_file = Empty
        /\ life = 0 /\ executions = 0
        /\ since = 0 /\ started = {} /\ busy = {}

-----------------------------------------------------------------------------
(* The main thread. *)

\* create_worker reads the files, pthread_create starts worker_main.
Load == /\ pc = "off" /\ ~removed
        /\ life < MaxLife   \* BOUND
        /\ runs' = ReadBack(runs_file)
        /\ last' = last_file
        /\ running' = TRUE
        /\ pc' = "check"
        /\ life' = life + 1
        /\ since' = MinuteOf(clock) /\ started' = {} /\ busy' = {}
        /\ UNCHANGED <<clock, schedule, removed, cancelled, stream, execution_time,
                       timer, command, files, executions>>

\* TERMINATE: first no task is running any more ...
StopRunning == /\ running /\ ~removed
               /\ running' = FALSE
               /\ UNCHANGED <<clock, schedule, removed, cancelled, pc, stream,
                              execution_time, timer, command, memory, files, history>>

\* ... then each thread is cancelled.
Cancel == /\ ~running
          /\ pc \notin {"off", "exited"}
          /\ ~cancelled
          /\ cancelled' = TRUE
          /\ UNCHANGED <<clock, schedule, running, removed, pc, stream,
                         execution_time, timer, command, memory, files, history>>

\* REMOVE cancels the thread while the task still counts as running.
Remove == /\ running /\ ~removed
          /\ removed' = TRUE
          /\ cancelled' = TRUE
          /\ UNCHANGED <<clock, schedule, running, pc, stream, execution_time, timer,
                         command, memory, files, history>>

\* pthread_join returns.  A command that still runs is left alone: nobody waits
\* for it any more.
Join == /\ pc = "exited"
        /\ removed \/ ~running
        /\ ThreadGone
        /\ UNCHANGED <<clock, schedule, removed, files, history>>

\* The process is killed: the memory is lost, the files stay, also those of a
\* task whose removal had not come to unlink them.
Crash == /\ CanCrash
         /\ pc # "off"
         /\ ThreadGone
         /\ removed' = FALSE
         /\ UNCHANGED <<clock, schedule, files, history>>

-----------------------------------------------------------------------------
(* worker_main. *)

SleepFor(units) == /\ pc = "tosleep"
                   /\ pc' = "sleep"
                   /\ wake' = clock + units
                   /\ UNCHANGED <<clock, task, stream, execution_time, resume, command,
                                  memory, files, history>>

\* Mutants: the sleep is a unit short, or a unit long.
SleepShort == SleepFor(Minute - 1)
SleepLong == SleepFor(Minute + 1)

\* sleep_worker asks for the time again, and sleeps for a minute from then.
Sleep == SleepFor(Minute)

\* The timing is compared with the minute it is now; if the task is not due the
\* worker is to sleep first.
Check == /\ pc = "check"
         /\ execution_time' = clock
         /\ IF MinuteOf(clock) % Hour \in schedule
            THEN pc' = "test" /\ UNCHANGED timer
            ELSE pc' = "tosleep" /\ resume' = "test" /\ UNCHANGED wake
         /\ UNCHANGED <<clock, task, stream, command, memory, files, history>>

WakeUp == /\ pc = "sleep" /\ ~cancelled
          /\ clock >= wake
          /\ pc' = resume
          /\ wake' = 0 /\ resume' = "check"
          /\ UNCHANGED <<clock, task, stream, execution_time, command, memory, files,
                         history>>

\* Either way it then runs the command, unless its task is gone.
Fork == /\ pc = "test"
        /\ running
        /\ child' = "running"
        /\ pc' = "collect"
        /\ executions' = executions + 1
        /\ started' = started \cup {MinuteOf(clock)}
        /\ UNCHANGED <<clock, task, stream, execution_time, timer, printed, memory,
                       files, life, since, busy>>

Leave == /\ pc = "test"
         /\ ~running
         /\ pc' = "exited"
         /\ UNCHANGED <<clock, task, stream, execution_time, timer, command, memory,
                        files, history>>

\* Mutant: the child is not waited for.
CollectNoWait == /\ pc = "collect" /\ ~cancelled
                 /\ pc' = "set"
                 /\ UNCHANGED <<clock, task, stream, execution_time, timer, command,
                                memory, files, history>>

\* Mutant: a command that printed nothing is not recorded.
CollectSilent == /\ pc = "collect" /\ ~cancelled
                 /\ child = "exited"
                 /\ child' = "none"
                 /\ pc' = IF printed = {} THEN "check" ELSE "set"
                 /\ UNCHANGED <<clock, task, stream, execution_time, timer, printed,
                                memory, files, history>>

\* Both pipes are read to their end, which comes once every process that holds a
\* write end of them has closed it, and the child is waited for.
Collect == /\ pc = "collect" /\ ~cancelled
           /\ child = "exited"
           /\ child' = "none"
           /\ pc' = "set"
           /\ UNCHANGED <<clock, task, stream, execution_time, timer, printed, memory,
                          files, history>>

\* One stream is saved, or skipped when the command printed nothing on it, and
\* then the other.
NextStream == IF stream = "stdout" THEN stream' = "stderr" /\ pc' = "set"
                                   ELSE stream' = "stdout" /\ pc' = "push"

SetOutput == /\ pc = "set"
             /\ IF stream \in printed
                THEN /\ last' = [last EXCEPT ![stream] = executions]
                     /\ pc' = "truncate"
                     /\ UNCHANGED stream
                ELSE NextStream /\ UNCHANGED last
             /\ UNCHANGED <<clock, task, execution_time, timer, command, runs, files,
                            history>>

TruncateOutput == /\ pc = "truncate"
                  /\ last_file' = [last_file EXCEPT ![stream] = 0]
                  /\ pc' = "write"
                  /\ UNCHANGED <<clock, task, stream, execution_time, timer, command,
                                 memory, runs_file, history>>

\* The first PIPE_BUF bytes of a long output; more of the same may follow.
WriteOutputPart == /\ pc = "write" /\ ~cancelled
                   /\ last_file[stream] = 0
                   /\ last_file' = [last_file EXCEPT ![stream] = -last[stream]]
                   /\ UNCHANGED <<clock, task, pc, stream, execution_time, timer,
                                  command, memory, runs_file, history>>

\* The last write of an output, the only one of a short one.
WriteOutput == /\ pc = "write" /\ ~cancelled
               /\ last_file' = [last_file EXCEPT ![stream] = last[stream]]
               /\ NextStream
               /\ UNCHANGED <<clock, task, execution_time, timer, command, memory,
                              runs_file, history>>

\* The run is recorded with the time read at the top of the loop.
PushRun == /\ pc = "push"
           /\ runs' = Append(runs, [time |-> execution_time, life |-> life])
           /\ printed' = {}
           /\ pc' = "truncate_runs"
           /\ UNCHANGED <<clock, task, stream, execution_time, timer, child, last,
                          files, history>>

TruncateRuns == /\ pc = "truncate_runs"
                /\ runs_file' = NoRuns
                /\ pc' = "write_runs"
                /\ UNCHANGED <<clock, task, stream, execution_time, timer, command,
                               memory, last_file, history>>

\* The runs the next write() brings to the file end here.
NextEnd == Len(runs_file.items) + RunsPerWrite

\* Mutant: each write() takes the first bytes of the buffer again.
WriteRunsAgain ==
  /\ pc = "write_runs" /\ ~cancelled
  /\ NextEnd < Len(runs)
  /\ runs_file' = [count |-> Len(runs),
                   items |-> runs_file.items \o SubSeq(runs, 1, RunsPerWrite)]
  /\ UNCHANGED <<clock, task, pc, stream, execution_time, timer, command, memory,
                 last_file, history>>

\* The whole list is written, its length first, in pieces of PIPE_BUF bytes ...
WriteRunsPart ==
  /\ pc = "write_runs" /\ ~cancelled
  /\ NextEnd < Len(runs)
  /\ runs_file' = [count |-> Len(runs), items |-> SubSeq(runs, 1, NextEnd)]
  /\ UNCHANGED <<clock, task, pc, stream, execution_time, timer, command, memory,
                 last_file, history>>

\* Mutant: only the new run is written.
WriteLastRun == /\ pc = "write_runs" /\ ~cancelled
                /\ runs_file' = Whole(<< runs[Len(runs)] >>)
                /\ pc' = "tosleep" /\ resume' = "check"
                /\ UNCHANGED <<clock, task, stream, execution_time, wake, command,
                               memory, last_file, history>>

\* ... of which this is the last.
WriteRuns == /\ pc = "write_runs" /\ ~cancelled
             /\ Len(runs) <= NextEnd
             /\ runs_file' = Whole(runs)
             /\ pc' = "tosleep" /\ resume' = "check"
             /\ UNCHANGED <<clock, task, stream, execution_time, wake, command, memory,
                            last_file, history>>

\* Mutant: no cancellation while the command runs.
BeCancelledOutside == /\ cancelled
                      /\ pc \in {"sleep", "write", "write_runs"}
                      /\ pc' = "exited"
                      /\ UNCHANGED <<clock, task, stream, execution_time, timer,
                                     command, memory, files, history>>

\* A pending cancellation takes effect at a cancellation point, in place of what
\* the call would do: the sleep, the reads of the pipes and waitpid, and each
\* write to a file.  cleanup_worker frees the worker and closes its files.
BeCancelled == /\ cancelled
               /\ pc \in {"sleep", "collect", "write", "write_runs"}
               /\ pc' = "exited"
               /\ UNCHANGED <<clock, task, stream, execution_time, timer, command,
                              memory, files, history>>

\* A fatal_assert fails: cleanup_worker frees the worker, which the daemon still
\* counts as running.
Fail == /\ CanFail
        /\ pc \in {"test", "collect"} \cup (Saving \ {"push"})
        /\ pc' = "exited"
        /\ UNCHANGED <<clock, task, stream, execution_time, timer, command, memory,
                       files, history>>

-----------------------------------------------------------------------------
(* The command, and time. *)

\* The command exits; a process it leaves behind, or a command of another task
\* forked meanwhile, may still hold the write end of a pipe ...
ChildExits == /\ child = "running"
              /\ child' \in {"exited", "held"}
              /\ printed' \in SUBSET Stream
              /\ UNCHANGED <<clock, task, pc, stream, execution_time, timer, memory,
                             files, history>>

\* ... and closes it when it pleases, if ever.
Released == /\ child = "held"
            /\ child' = "exited"
            /\ UNCHANGED <<clock, task, pc, stream, execution_time, timer, printed,
                           memory, files, history>>

Sleeping == pc = "sleep" /\ clock < wake

\* The minute the worker may pass over because it was not quick enough, when a
\* minute ends: the one that begins if it is at work or about to ask how late it
\* is before it sleeps, the one that ends if it has yet to look at the clock or
\* to start a command that was due.
Late == IF MinuteOf(clock + 1) = MinuteOf(clock) \/ Sleeping \/ pc \in {"off", "exited"}
        THEN {}
        ELSE IF pc \in {"tosleep", "collect"} \cup Saving
             THEN {MinuteOf(clock + 1)} ELSE {MinuteOf(clock)}

\* Time passes.
Tick == /\ clock < MaxTime   \* BOUND
        /\ pc \in {"off", "exited"} \/ Sleeping \/ Slow
        /\ clock' = clock + 1
        /\ busy' = busy \cup Late
        /\ UNCHANGED <<task, pc, stream, execution_time, timer, command, memory, files,
                       life, executions, since, started>>

-----------------------------------------------------------------------------
WorkerStep == \/ Check \/ Sleep \/ WakeUp \/ Fork \/ Leave \/ Collect
              \/ SetOutput \/ TruncateOutput \/ WriteOutputPart \/ WriteOutput
              \/ PushRun \/ TruncateRuns \/ WriteRunsPart \/ WriteRuns
              \/ BeCancelled

MainStep == Load \/ StopRunning \/ Cancel \/ Remove \/ Join \/ Crash

Next == WorkerStep \/ MainStep \/ Fail \/ ChildExits \/ Released \/ Tick

Spec == Init /\ [][Next]_vars

\* The worker thread is scheduled; commands end, and other processes close the
\* pipes, only if they please.
FairSpec == Spec /\ WF_vars(WorkerStep)

-----------------------------------------------------------------------------
(* Properties. *)

Run == [time : Nat, life : Nat]

\* Every variable has the shape the code gives it.
TypeOK ==
  /\ clock \in Nat /\ execution_time \in Nat /\ wake \in Nat
  /\ schedule \subseteq 0 .. Hour - 1
  /\ running \in BOOLEAN /\ removed \in BOOLEAN /\ cancelled \in BOOLEAN
  /\ pc \in {"off", "check", "tosleep", "sleep", "test", "collect", "exited"} \cup Saving
  /\ stream \in Stream
  /\ resume \in {"check", "test"}
  /\ child \in {"none", "running", "held", "exited"}
  /\ child # "none" => pc \in {"collect", "exited"}
  /\ printed \subseteq Stream
  /\ runs \in Seq(Run) /\ runs_file \in [count : Nat, items : Seq(Run)]
  /\ last \in [Stream -> Int] /\ last_file \in [Stream -> Int]
  /\ life \in Nat /\ executions \in Nat /\ since \in Nat
  /\ started \subseteq Nat /\ busy \subseteq Nat

\* The recorded times go up, and those of one process lie a minute apart at
\* least: no task runs twice in the same minute, however long its commands take
\* and wherever in the minute the worker was started.  Runs that a cut file did
\* not hold, and a reader made up, are left aside.
RunsOrdered ==
  \A i, j \in DOMAIN runs : i < j /\ runs[i] # Unread /\ runs[j] # Unread =>
    /\ runs[i].time <= runs[j].time
    /\ runs[i].life = runs[j].life => runs[j].time - runs[i].time >= Minute

\* Outside the saving of a run the files, read back, bring what the memory holds:
\* a kill there loses nothing that was not lost before, also when an earlier kill
\* or cancellation hit a half-made save.
FilesMatchMemory == pc \in {"check", "tosleep", "sleep", "test", "collect"} =>
                      ReadBack(runs_file) = runs /\ last_file = last

\* At every moment of a save the `runs` file brings back the recorded runs
\* without or with the new one, or it is empty, or it is a beginning of the new
\* list under its full length, cut after one of the write() calls: the runs of
\* two saves are never mixed.
RunsFileIsBeginning ==
  pc # "off" => \/ runs_file = NoRuns
                \/ ReadBack(runs_file) = runs
                \/ /\ runs # << >>
                   /\ ReadBack(runs_file) = SubSeq(runs, 1, Len(runs) - 1)
                \/ /\ runs_file.count = Len(runs)
                   /\ \E k \in 1 .. Len(runs) - 1 : runs_file.items = SubSeq(runs, 1, k)

\* Each scheduled minute that has gone by since the worker was started has seen
\* the command start, unless the worker was held up at the end or the beginning
\* of that minute: by its command, a save, or a step that took its time.
MinutesServed ==
  pc \notin {"off", "exited"} /\ ~cancelled =>
    \A m \in since .. MinuteOf(clock) - 1 : m % Hour \in schedule => m \in started \cup busy

\* A command that ended gets its run recorded on disk once its pipes are closed
\* everywhere, unless the thread ends before: it is cancelled or a call fails.
RunIsRecorded ==
  (pc = "collect" /\ child = "exited") ~>
    (cancelled \/ pc \in {"exited", "off"} \/ (pc = "sleep" /\ runs_file = Whole(runs)))

\* To the main thread a worker is a thread that it creates, cancels and joins,
\* and that ends once it is cancelled, wherever the cancellation finds it.
Status == CASE pc = "off"    -> IF removed THEN "joined" ELSE "none"
            [] pc = "exited" -> "ended"
            [] OTHER         -> IF cancelled THEN "cancelled" ELSE "alive"

Life == INSTANCE ThreadLife WITH Thread <- {"worker"}, status <- [t \in {"worker"} |-> Status]

ImplementsThread == Life!Spec

\* ARCHITECTURE.md:42: the loop first checks whether the task must run this
\* minute, and if not waits for the next minute.
RunsOnSchedule == [][executions' > executions => MinuteOf(clock) % Hour \in schedule]_vars
=============================================================================
