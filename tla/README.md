# saturnd and cassini in TLA+

`saturnd` is a small cron: a daemon that keeps *tasks* (a command line and the
minutes at which to run it), runs each of them from a thread of its own, and
records every run. `cassini` is its client. The two talk through two named
pipes. This directory models the daemon, its worker threads, the capture of
their output, the array they share, the pipe protocol and the way of a task
through parser, wire and file; it checks the models with TLC and proves their
safety with TLAPS. Paths below are relative to the repository.

## 1. The system

| Component | Code | State | Operations | Correct when | Module |
|---|---|---|---|---|---|
| Main thread | `src/saturnd.c` | `g_last_taskid`, `g_threads`, `g_workers`, `g_running_taskids` | start-up scan and load; LIST, CREATE, REMOVE, TIMES_EXITCODES, STDOUT, STDERR, TERMINATE; cleanup | identifiers are fresh, the three tables agree, an acknowledged task survives anything, the cleanup leaves no thread | Saturnd |
| Task directories | `src/worker.c:25-95`, `src/saturnd.c:293-305` | one directory per task: `task`, `runs`, `last_stdout`, `last_stderr` | made by CREATE, resumed by a start, unmade by REMOVE, a system call at a time | whole whenever the daemon waits for a request | Saturnd, TaskStore |
| Worker thread | `src/worker.c:146-330` | the loop's position, the runs and last outputs in memory and on disk | compare the timing, sleep, fork, collect, save write by write, fail, be cancelled | each scheduled minute once, the files read back match the memory, a cancelled worker ends | Worker, ThreadLife |
| Output capture | `src/worker.c:192-292`, `src/utils.c:142-154` | two pipes, two buffers, the last outputs | fork, read in chunks, copy, keep as strings | what is kept is how the output begins; worker and command do not block each other | Capture |
| Dynamic arrays | `include/sy5/array.h`, `src/worker.c:112-134` | a `realloc`ed block with its length in front | push, remove with its pop, free; scan | the block is the list; a scan that reads it finds what is there | RunningArray |
| Pipe protocol | `src/saturnd.c:81-118,202-233,360-404`, `src/cassini.c:113-246` | two FIFOs, opened and closed for each request | probe, connect with retries, request, reply | the pair of pipes is a remote call | Rendezvous, Fifo, Calls |
| Timing fields | `src/utils.c:201-329` | none | parse, print | a text means the same before and after | Timing, TaskTrip |
| Serialisation | `src/utils.c:343-551` | the buffer being written, the field being read | write in chunks, read field by field | what is read is what was written | TaskTrip |
| `cassini` | `src/cassini.c` | one request | parse options, call, print | it gets the answer to its own request, or fails and nothing was done | Rendezvous, TaskTrip |
| Paths, names, tests | `src/common.c`, `src/request.c`, `src/reply.c` | none | | | not modelled |

How they interact. `cassini` writes a request, the main thread reads and handles
it alone, one at a time, and answers on the other pipe. CREATE starts a worker
thread; REMOVE cancels it, joins it and erases its files; the cleanup cancels and
joins all. Workers and main thread share memory without a lock:
`g_running_taskids` (scanned by each worker once per turn), and each worker's
runs and outputs (read by the main thread for a reply, written by the worker).
Each worker forks its command and reads its output through two pipes, whose write
ends the commands of other workers may inherit.

What is hard. The process may be killed between any two of the system calls that
make or unmake a directory or rewrite a file, and `write_buffer` makes one for
each `PIPE_BUF` bytes. `pthread_cancel` takes effect at
whichever cancellation point the worker reaches next, and any failing call ends a
worker without a word. A message in a named pipe says neither whom it is from nor
whom it is for, the kernel drops what nobody holds open, and either side may die
in between. Pipes are read in turn, in chunks of any length, and no reader looks
at how much `read` returned. The daemon waits in `open` until somebody opens the
other end, whoever that is. `PROJECT.json` lists each of these as a hazard at its
line with the properties that watch it.

## 2. The modules

An arrow `A -> B` says that A extends or instantiates B, `=|` that A implements B.

```
Saturnd  =| TaskStore      Saturnd =| ThreadLife     SaturndProofs -> SaturndInv -> Saturnd
Worker   =| ThreadLife                               WorkerProofs -> Worker
Rendezvous =| Calls        Rendezvous -> Fifo        RendezvousProofs -> Rendezvous
Capture                                              CaptureProofs -> Capture, SegmentFacts
RunningArray                                         RunningArrayProofs -> RunningArray, SegmentFacts
TaskTrip -> Timing                                   TaskTripProofs -> TaskTrip, SegmentFacts
                                                     TaskStoreProofs -> TaskStore
```

An `MC` module instantiates a specification for TLC; the `.cfg` files give the
constants. The operators and variables bear the names of the code where it has
one.

**TaskStore** says what clients are promised: durable definitions (`stored`),
what clients were told of (`acked`), what a running daemon serves (`serving`), and
what it still counts among its tasks although the thread has ended (`ended`). A
definition may be stored by its beginning first (`CutTask`), and stay so if nobody
was told of it. It has no directory, no crash: only `Stop` and `Resume`.

**ThreadLife** is what the two sides of a worker rely on: the main thread
creates, cancels and joins, the thread ends; a cancelled thread does end. It is
implemented by Saturnd, for all threads, from the side of the main thread, and by
Worker, for one, from the side of the loop: what Saturnd takes for granted of a
worker (`WorkerCancelled` and its fairness) is what Worker gives.

**Saturnd** is the main thread. `pc` is where it stands:

| `pc` | Code |
|---|---|
| `down` | no process; `StartUp` is lines 148-185 of `saturnd.c` |
| `load` | the loop of lines 188-196 |
| `mkdir`, `open`, `write`, `outs`, `start` | inside `create_worker`, for CREATE or (with `cur.task = Null`) for a stored task, and the registration that follows it |
| `idle` | line 204, waiting for a request |
| `join`, `unlink`, `rmdir` | lines 284-305 of REMOVE |
| `reply` | line 360, waiting in `open` for a client to open the reply pipe |
| `send` | lines 363-399 |
| `cleanup`, `joining` | lines 414-418 |

The state on disk (`directories`, `task_file`, `output_files`) survives `Crash`
and `ProcessEnds`; everything else is lost. `g_threads` and `g_workers` keep
their order, as the code finds a worker by the place of its thread. Each worker
is a status in `thread`: alive, cancelled, ended, joined. `SyscallFails` is a
`fatal_assert` that fails and jumps to the cleanup. A definition in `Long` takes
more than one `write` (`WriteTaskPart`, `WriteTask`); a kill between two leaves a
`CutTask`, which passes the check of `worker.c:53` at the next start and is loaded,
unless a length made up from it makes a `malloc` fail (`ReadCutTask`). A client may
be killed before it has its reply (`ClientKilled`): then `OpenReply` waits for ever,
unless another client opens the reply pipe (`OtherClient`), and a `write` to a pipe
nobody reads ends the daemon by `SIGPIPE` (`SendToNobody`). Undefined behaviour is a
choice: a NULL dereference kills; a read of freed memory kills or goes
unnoticed; a second `pthread_join` may return an error, kill, or hit a thread
that was given the same stack. A lookup of freed memory, `CanFail` only, that
goes unnoticed answers like one of memory that is still there. Abstracted: what a
definition says (`Payload`), the order of a directory listing, the strings of
paths, the payload of replies other than the identifiers they name.

**Worker** is one task: the thread's loop (`check`, `tosleep`, `sleep`, `test`,
`collect`, then `set`, `truncate`, `write` for each output, `push`, `truncate_runs`,
`write_runs`), the forked command, the clock, and the main thread's part in its
life (`Load`, `StopRunning`, `Cancel`, `Remove`, `Join`). `Fail` is a
`fatal_assert` of the loop. Of an output the model keeps which execution printed
it. A pending cancellation is acted on in `sleep`, `collect`, `write` and
`write_runs`, the cancellation points of the loop. Time may pass between any two
steps, the look at the clock and the sleep that counts from a second look included
(`Tick`, when `Slow`). A save is a `write` for each `PIPE_BUF` bytes: the runs come
`RunsPerWrite` at a time behind their full number (`WriteRunsPart`, `WriteRuns`),
an output with a beginning first (`WriteOutputPart`), and a cancellation or a kill
may fall between two. `Load` reads what is there: past the end of a cut `runs` file
`read` brings nothing and the entries are made up from the stack (`ReadBack`,
`Unread`). `Collect` needs the end of both pipes: when the command exits, a process
it left behind or a command of another task may hold a write end (`held`), and
closes it when it pleases, if ever (`Released`). The requests that read a
worker's runs and outputs change nothing of its state and have no action.

**Capture** opens up the `collect` of Worker: `MakePipe`, `Fork` and
`CloseWriteEnds` with the holders of both write ends, `Read` and `ReadEnd` of
stdout and then of stderr, `Wait`, and `Save` with what `string_from_cstring`
makes of the buffers. A byte is a NUL or its position in the output, so that a
kept byte tells which one it is; a byte read behind the end of a buffer is
`Stray`. The command writes, blocks on a full pipe, closes a stream and exits as it
likes. A sibling is a command that another worker forks between `pipe` and
`close`: it inherits the write ends.

**RunningArray** is `g_running_taskids` at the grain of `array.h`: `realloc`
(in place or moved), the element, the count, the pointer; `memmove` element by
element; `free`. The scanning worker, built as the Makefile builds it without
optimisation, fetches the pointer anew for every access (`Fetch`). A block that was
freed, a place behind the end of one and an element not written yet hold any value,
and the scan goes on with it (`ReadSize`, `ReadItem`; `stray` remembers it); a
pointer that became NULL ends the process (`Fault`). The scanning
worker's own identifier is removed only after a join, when no scan goes on.

**Timing** has the parser and printer of a timing field as operators, and what a
text *means*, `Denoted`, as a separate definition by the commas and dashes in it.
**TaskTrip** is the journey of one task: the loop of `timing_field_from_string`
with its unsigned position, then three legs (request, `task` file, reply), each a
message of big-endian numbers that `write_buffer` cuts into chunks and a reader
takes number by number, with a writer that may die in between. The reader does not
look at how much `read` returned: it takes the bytes there are, keeps in the rest of
its variable what was in it (any of `Left`), and goes on with the next number. A
garbled task is stored, listed and shown like any other. It is followed until a number
in front of it has changed, which makes it another message or another task, or until
a made-up count is larger than `Most` (leg `astray`). `cut` remembers that a read was
short. All numbers have one width of `Word` bytes, where the code has 1, 2, 4 and 8:
the widths differ in nothing but their number.

**Fifo** is a named pipe as Linux implements it: a blocked opener already counts
as a reader or writer, its `open` returns once the other end was opened, and the
data is dropped when nobody has the pipe open any more. **Rendezvous** puts
cassini and saturnd on two of them: the probe of a starting daemon, the retries,
one message each way, `SIGPIPE`, reads that find the end of the pipe
(`ReadNothing`, `ReadNoReply`), a client whose timing does not parse
(`BuildFails`) or never ends parsing (`BuildHangs`). **Calls** is what it all
should amount to.

A definition preceded by a comment that starts with `Mutant:` is a copy of the
one after it with a slip a programmer could have made. No specification uses it:
each shows that one property notices that slip.

## 3. What the runs check

All passing runs are exhaustive for their constants.

| Run | Question | Instance |
|---|---|---|
| `saturnd_safety` | the daemon's safety; the invariant of the proofs; does it implement TaskStore and ThreadLife; do requests and the cleanup end? | 3 identifiers, 1 definition, which takes two writes, kills of daemon and clients and failed calls anywhere, unlimited restarts |
| `worker` | are runs in order and minutes served; do files match the memory across kills in a save; what is left of `runs`; is the worker a thread of ThreadLife; is a run recorded? | 2 units per minute, hour of 2 minutes, clock up to 4, 2 lives, 1 run to a write, slow commands and steps, kills, failing calls |
| `capture` | is what is kept how the output begins, and whole when the chunks allow; do worker and command end? | buffer of 2 bytes, pipes of 3, output up to 4 on each stream, 1 sibling |
| `running_array` | is the array the list it should be; when does a scan go wrong? | 3 addresses, identifiers up to 4, the worker of task 2 scans |
| `rendezvous_calls` | do the pipes implement remote calls, does each call end; does the daemon stop only when asked? | 3 clients in turn, each with any of 3 requests, 1 daemon started again at will |
| `rendezvous_kills` | is a request carried out at most once? | 2 clients at once, 2 daemons, kills of all, timings that do not parse |
| `task_trip` | does the parser take a text for what it means; does a task arrive as it was typed; when is a field cut, and what becomes of it? | every text of up to 4 of 5 characters for a field of 0-10, 3 command lines, numbers of 3 bytes of 16 values, chunks of 10 bytes, 2 values left in a variable, made-up counts up to 3, writers that die |

Why the bounds are enough. Three identifiers are a slot before, at and after the
one that is removed, and one more restart than directories; that one definition
does not hide a mix-up of two is settled by the proofs, which hold for any set of
them. Two units per minute put starts and wake-ups at different phases of a
minute; an hour of two minutes has scheduled and unscheduled minutes next to each
other in every pattern. Two lives are a save, a kill and a load; with one run to a write
a list of two is already cut. A buffer of two bytes has chunks that are short,
full, and full several times; a pipe of three holds more than a chunk and fills up;
four bytes are two full chunks. Three addresses let the array move while a stale pointer still names a block of its
past; four identifiers are pushed and removed before, at and behind the scanned
one. Three successive clients leave what the first one left to the second, and a
TERMINATE and a restart in between; two attempts behave like ten, as an attempt
that fails only counts; a pipe holds two messages at most, which is one more than
a daemon reads per open. Texts of four characters hold a range and a single value
in every order, a doubled comma, an open dash, and numbers of two figures, of which
10 is in the field and 11 is not; the command lines make messages of one chunk and
of several, cut between two fields and inside one. A variable holds nothing or a
small number from before, so that a short read brings both a plausible value and one
that is too large, and a count that is followed asks for more than the message has
(`Most`).

Deadlock is checked in Saturnd, where there is always a step. `CHECK_DEADLOCK
FALSE` is set where the system does stop: the clock at its bound (Worker), all
clients at their end and the daemon waiting (Rendezvous), the string kept
(Capture), the array freed (RunningArray), the task shown or its reader left
waiting (TaskTrip).

The properties worth reading first:

- `AckedDurable`, `ListsEveryTask`, `ImplementsTaskStore` (Saturnd): the point
  of the daemon, through kills at every system call.
- `SlotsAgree` (Saturnd): three tables changed at different moments of three
  handlers stay one table. `CleanupJoinsAll`, `WorkerHasItsFiles`,
  `ThreadsLive`: threads against files.
- `MinutesServed`, `RunsOrdered`, `FilesMatchMemory`, `RunsFileIsBeginning`
  (Worker): time and disk, whatever the phase, the cancellation or the kill, and
  wherever between two writes it falls.
- `StoredIsBeginning`, `WholeWhenFull`, `CommandEnds` (Capture): what of an
  output is kept, and the one way in which worker and command block each other.
- `FoundUnlessDisturbed`, `ReadsArrayOnly` (RunningArray): what the missing lock can
  do. A scan that reads the array and nothing else finds its task unless another is
  removed or the daemon shuts down; it reads something else only after a move, a
  removal or the shutdown.
- `ImplementsCalls`, `StopsOnlyWhenAsked`, `AtMostOnce` (Rendezvous): no identity
  on the wire, yet the right answer to the right client.
- `ParsedIsDenoted`, `ShownIsTyped`, `ShortOnlyAtChunkEnd`, `TripEnds`
  (TaskTrip): a typed timing is the shown timing unless a read was short, and when
  reads are short. Of a text the parser takes the part it can read; what follows it is
  not looked at (`5x` is 5), and no property speaks of it.

### Where the code departs from its documents

Each of these runs checks one property that a document of the repository states,
and ends with a counterexample.

| Run | What happens |
|---|---|
| `reused_taskid` | remove the task with the largest identifier, restart, create: same identifier |
| `null_worker` | remove a task, ask about a later one: `get_worker` reads the NULL slot |
| `half_made_task` | a kill inside CREATE or REMOVE leaves a directory on which every later start fails |
| `off_schedule` | the loop runs the command after its sleep without looking at the clock |
| `lost_output` | a command prints twice, the worker reads in between: only the first part is kept |

`null_worker` and `reused_taskid` are checked without kills and failed calls:
plain sequences of requests reach them. Their instances, and that of
`half_made_task`, have three identifiers as well.

More departures are reachable in the models and have no run of their own. Of these
the documents promise the contrary:

- a command that prints nothing on a stream leaves the output of an earlier one
  there (`Save`, `SetOutput`), where `protocole.md:76-77` and `enonce.md:53-55` speak
  of the output of the last execution. `StoredIsBeginning` does not claim the
  contrary: it is about the streams on which something was printed;
- a TERMINATE or a kill that meets the worker between the truncation and the
  last write of `runs` loses runs, though TIMES_EXITCODES is to list all of them
  (`protocole.md:74-75`); if it falls between two writes the next start reads past the
  end of the file, makes up as many entries as are missing, and writes them at the next
  save (`ReadBack`). `RunsFileIsBeginning` says what may be left, `RunsOrdered` leaves
  the made-up entries aside;
- a client that closes the request pipe unwritten, as with a wrong timing, makes
  the daemon act on an opcode it never received (`ReadNothing`), TERMINATE included,
  where `enonce.md:38-39` has it run until it is asked to stop.

About these the documents say nothing, or exclude the case:

- a worker whose call fails, or whose scan misses its own identifier, ends without a
  word, and its task is listed but not run any more (`WorkerFails`, RunningArray). A
  scan can miss it while another task is removed, and also after a read of a freed
  block, as when a CREATE moves the array under it;
- after any REMOVE the cleanup cancels and joins that thread a second time
  (`CleanupStale`);
- a kill between two writes of a long definition leaves the beginning of a task nobody
  was told of, which the next start loads and runs (`WriteTaskPart`, `ListsEveryTask`);
- a client killed before it opens the reply pipe leaves the daemon in `open` for ever
  (`OpenReply`; `enonce.md:110-113` asks for no simultaneous requests and excludes
  clients that do not cooperate);
- a daemon started while another answers a request finds no reader and serves
  too (`Probe`);
- a list whose second item does not parse keeps cassini in its loop for ever, a
  first one that does not makes it read far out of the text (`BuildHangs`,
  `ReadsFarOut`; `TripEnds` says that no other text does);
- a stdout that came in full chunks is read one byte behind its buffer (`Stray`);
- a command that leaves a process behind which holds its outputs open, or another
  task's command that inherited them, blocks its worker, and no run is recorded
  (`Released` need not happen);
- a reader can get half of a number at the end of a chunk, goes on with the next
  bytes, and the task is stored and shown garbled (`cut`).

Two hazards are plain from the code and in no model: `argv[0]` copied into every
argument of the command (`src/worker.c:213`), and the reply to a GET that keeps a
pointer into the worker's memory while it waits for its client
(`src/saturnd.c:321`).

## 4. Fairness

Saturnd: weak fairness of the main thread's own steps and of each cancelled
worker reaching a cancellation point. While one of its own steps is possible the
main thread is ready to run; that of `OpenReply` is possible only while a client is
on its way to the reply pipe, for which cassini, once it has written its request, has
nothing to do but to open it (`src/cassini.c:158-162`). A client that was killed does
not, the main thread blocks in `open` with no step to take, and no fairness ends this
wait: `RequestsComplete` names it as the one way in which a request does not end. No
fairness for requests, for another client that opens the reply pipe, for starting the
daemon, for kills and failures, nor for a worker that would leave its loop by itself,
since its command may run for ever.

Worker: weak fairness of the worker thread alone. Nothing is assumed of commands
(they may run for ever), of the processes that hold a pipe open (they may keep it for
ever: `RunIsRecorded` begins when it is closed), nor of the main thread. ThreadLife asks that a cancelled
thread ends, which follows.

Capture: weak fairness of the worker and of the command, that it goes on when its
writes return: `CommandEnds` is about commands that would end. Nothing is assumed
of siblings.

Rendezvous: weak fairness of each process that can go on. Nobody has to start a
client or a daemon. With killed clients, or clients at the same time, calls need
not end, and only safety is claimed.

TaskTrip: weak fairness of parser, writer and reader, each a program that runs
on; writers need not die. RunningArray has no liveness property.

## 5. What is proved

Each theorem holds for every value of the constants that satisfies the named
assumptions of its module; the argument is always an inductive
invariant (`IInv`; `ParserInv` and `TripInv` of TaskTrip), whose preservation has
a step per action and from which the properties follow one by one. The bounds `MaxTime`, `MaxLife`, `MaxOut`, `MaxTaskid`,
`Attempts` are constants like any other: the theorems hold however large they are.

**SaturndProofs**: the eleven invariants of `saturnd_safety`, `Refinement`
(`Spec => ImplementsTaskStore`) and `ThreadsAreThreads` (the safety part of
`ThreadsLive`), for any number of identifiers and any set of definitions, with or
without kills and failures. The safety properties speak of the moments at which
the daemon waits, unlinks or has finished; they are not inductive. `IInv` adds
what holds at every system call in between. `DirectoryProgress` says how far
`create_worker` or REMOVE is with the one directory it is changing, and with the
writes of its definition;
`DirectoriesAreTasks` that every *other* directory is whole and belongs to a
running task or one still to load; `NothingWithoutDirectory` and `BelowLast` that
the next identifier has nothing left on disk, which is what makes a CREATE after
a kill safe; `ArraysAgree` and `ThreadsAreTasks` tie the tables and threads
together by position; `RunningHaveThreads` that each
task the daemon counts has a thread; `AckedIsStored` carries `AckedDurable` through a
CREATE;
`CleanupProgress` is the part of `g_threads` already joined. After a kill the
memory parts hold because everything in memory is gone, and the disk parts
because they do not mention it. `RefinesInit` and `RefinesNext` map states and
steps to TaskStore: `LoadDone` is `Resume`, the move to the cleanup, a kill or a
death is `Stop`, `WriteTaskPart` and `WriteTask` of a CREATE are `Store`, the end of
a worker is `End`, `StartThread` is `Schedule`,
`SendReply` is `Acknowledge`, `RemoveJoin` is `Withdraw`, the first unlink is
`Erase`. **TaskStoreProofs** shows that TaskStore keeps its `Promise`.

**WorkerProofs**: `RunsOrdered`, `FilesMatchMemory`, `RunsFileIsBeginning`,
`MinutesServed` for any length of a minute and an hour, any schedule, any number of
lives and of runs to a write, and `WorkerIsThread` (the safety part of `ImplementsThread`).
`NextRunIsLater` looks ahead from each place of the loop to the time the next run
will have; `SaveProgress` follows a save through its truncations and writes;
`MinutesAccounted` says which minutes the sleep may skip over.

**CaptureProofs**: `StoredIsBeginning` and `WholeWhenFull` for any sizes of buffer and pipe, any
output with NULs anywhere, any number of siblings, and however the reads cut the
output up. A pipe holds the rest of what was printed (`PipeIsRest`); a buffer,
up to its first NUL, the beginning of it (`BufBegins`), and all that was read if
there is no NUL (`BufWhole`); a stream whose end was read gets nothing any more
(`Drained`), so that nothing is printed behind the worker's back. For
`WholeWhenFull` the invariant looks at the chunks: what is copied of a chunk that
does not fill the buffer ends with a NUL, so an output without NULs has none in
`stdout_buf` exactly as long as all chunks were full, and its first one lies
behind all that was read exactly if those before the last were (`NULsOfText`).

**RunningArrayProofs**: `ArrayIsList`, `FoundUnlessDisturbed`, `ReadsArrayOnly` for
any number of addresses and identifiers and any scanning worker. `OneBlock` and
`Contents` say which block there is and what is in it at each store of `push`,
`remove` and `free`; `ScanSees` that a scan nobody disturbed has its identifier
still ahead of it.

**RendezvousProofs**: `AtMostOnce` for any number of clients and daemons. A
request is in one place at most, in a pipe or with a daemon (`OnePlace`), in none
before it is written (`NotSentTwice`), and not yet done while it is in one
(`DoneOnce`). `EndsHeld` says which ends of the pipes each process has open at
each place of its program, so that no process that has gone, killed or not, leaves
one open.

Three theorems are about one daemon and any number of clients that come one after
another and are not killed (`Orderly`). In `OrderInvariance` and
`NoTerminateFromNobody`, which is `StopsOnlyWhenAsked`, the timings may be wrong, and
the claim stands until a client breaks off with the request pipe open, as it does on a
wrong timing (`Unbroken`): what the daemon does then, with nothing to read, is
`ReadNothing`, and no claim is made about it. TLC finds that the daemon may stop then.
`PipesGiveCalls` (`Spec => C!Safety`, the safety part of `ImplementsCalls`) has timings
that parse as well; these are the constants of `rendezvous_calls`. None of the three
holds of clients at the same time: TLC finds a client that is given the answer to
another one, and a daemon that opens the request pipe again while a client it has
served still has it open, and reads nothing. `InOrder` says how far the only call has come (not written,
written, taken, carried out, replied), that between two calls both pipes are
empty, and that an open which has returned was met by the process meant
(`MetInTime`).

**TaskTripProofs**: all safety properties of TaskTrip, for any texts shorter than
the range of the position, any command lines whose lengths fit a number, any
`PIPE_BUF`, any base of a byte and any width of a number that holds the field. The
field has up to 64 values (`FieldAssumption`), so that minutes, hours and days are
among them; numbers are printed with one figure or two, and parsed with any. It has
three parts.

- *Parser and printer.* What `timing_field_from_string` has read is nothing, or
  the first `pos` characters, which are well-formed and mean the field, or the
  position has left a text that does not begin with an item (`ParserState`).
  Numbers are runs of figures; a range is read exactly where there is an item, and
  its values are those the item names. Hence `ParsedIsDenoted`.
  `PrintedMeansField` says that the printer's text means the field it was given:
  after each turn of its loop the text shows the values below the open run
  (`Printing`).
- *Encoding.* `BitsFacts`: the bits of a field give the field back, and fit into a
  number that the full field fits in. `Layout`
  says what a message holds at which place, for any number of strings.
- *Leg.* `TripInv` has two halves. `Shaped` holds whatever was read: the task of a leg
  is one that can be written, and `WriterState` says how many turns of `write_buffer`
  gave how many bytes. `Faithful` holds as long as no read was short (`~cut`): the
  bytes written are split between the reader and the pipe, which holds those from
  `Position` on (`PipeState`), what the reader has is what those before it encode
  (`ReaderState`, with a clause for each number it may read next), and the task of the
  leg is the typed one. From them follow `TypeOK`, of garbled tasks too,
  `ShortOnlyAtChunkEnd`, as every turn but the last leaves a multiple of `PIPE_BUF`,
  and `ShownIsTyped`, as each leg hands over the task it was given.

**SegmentFacts** has what the proofs about Capture, RunningArray and TaskTrip
share: beginnings, parts and ends of sequences, and two forms of induction on
numbers that need no operator as a parameter. A set of naturals has a least
element (`Least`, from which `StepByStep` and `StepsUpTo`), and a function on
`0 .. n` is given by its first value and a step (`Recursion`). With these the
recursive functions and folds of Capture and TaskTrip are reasoned about; what
they compute is stated as a property of the function's values, step by step.

Only model-checked: the liveness properties and the parts of refinements that
rest on fairness, which are out of the prover's reach (`ThreadsLive`,
`ImplementsThread`, `RunIsRecorded`, `RequestsComplete`, `CleanupEnds`,
`CommandEnds`, `CollectEnds`, `TripEnds`, and of `ImplementsCalls` that every call
ends).

## 6. Not modelled

- Option parsing and printing of dates and tables in cassini, paths and the
  directories and FIFOs made at start-up, logging, the tables of names, the double
  fork of `DAEMONIZE`: sequential code without state that outlives it.
- `pthread_cond_timedwait` is taken to return when its time has come; POSIX also
  lets it return early, which the code does not guard against.
- A `read` that returns -1 in the loops of `worker.c:231` and `:246` and in the
  readers of `utils.c`; the readers meet the end of a pipe, and fewer bytes than
  they ask for.
- A `write` to a file that takes fewer bytes than it is given, as on a full disk:
  `write_buffer` would not notice. Each of its calls is taken to write all of its bytes
  at once; a kill or a cancellation falls between two.
- The capacity of the pipes in TaskTrip: a writer is never blocked, which only
  adds interleavings.
- What becomes of a garbled message once its opcode or the number of its tasks has
  changed, and of one whose made-up lengths are large (leg `astray`).
- That a run may be cut in two by the end of a `write`: the part that is left counts as
  unread, and each further `write` brings `RunsPerWrite` runs, where a remainder now and
  then makes up one more.
- The three fields of a timing are one: they are parsed, kept and printed by the
  same functions and differ in their largest value.
- The encoding of runs and outputs in replies and files: they are fixed-width
  fields and one string, written and read by the functions of TaskTrip.
- The composition of Rendezvous with Saturnd is by names alone: `Handle` of one is
  the requests of the other, and while the main thread waits in an open or a read
  it changes none of its own state.
