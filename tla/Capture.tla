------------------------------- MODULE Capture -------------------------------
(***************************************************************************)
(* How a worker captures what its command prints: the two pipes, made and  *)
(* inherited at the fork, read one after the other by worker_main in       *)
(* chunks of PIPE_BUF, copied up to a NUL, and kept as a string.           *)
(*                                                                         *)
(* A byte is a NUL or the position at which it was printed, so that a      *)
(* stored byte shows which printed byte it is.                             *)
(***************************************************************************)
EXTENDS Integers, Sequences

CONSTANTS Buf,        \* PIPE_BUF, the length of buf
          PipeSize,   \* the capacity of a pipe
          MaxOut,     \* BOUND: how much a command prints on a stream
          Sibling     \* commands that other workers of the daemon fork

ASSUME SizeAssumption == Buf \in Nat \ {0} /\ PipeSize \in Nat \ {0} /\ MaxOut \in Nat
ASSUME SiblingAssumption == Sibling \cap {"worker", "command"} = {}

Stream == {"stdout", "stderr"}
NUL == 0
Stray == -1          \* a byte read past the end of a buffer
Earlier == << -2 >>  \* what an earlier execution left

VARIABLES
  pc,        \* worker_main
  buf,       \* stdout_buf and stderr_buf, << >> for NULL
  stored,    \* worker->last_stdout and worker->last_stderr
  command,   \* the forked command
  writing,   \* the write it is in: a stream, or "none"
  pipe,      \* what the pipes hold
  holders,   \* who has their write ends open
  forked,    \* the siblings forked so far
  printed,   \* history: all that the command wrote
  chunks     \* history: the lengths of the reads

worker == <<pc, buf, stored>>
vars == <<worker, command, writing, pipe, holders, forked, printed, chunks>>

Init == /\ pc = "pipe" /\ command = "none" /\ writing = "none"
        /\ buf = [s \in Stream |-> << >>]
        /\ stored = [s \in Stream |-> Earlier]
        /\ pipe = [s \in Stream |-> << >>]
        /\ holders = [s \in Stream |-> {}]
        /\ forked = {}
        /\ printed = [s \in Stream |-> << >>]
        /\ chunks = [s \in Stream |-> << >>]

-----------------------------------------------------------------------------
(* worker_main. *)

\* pipe(stdout_pipe), and then pipe(stderr_pipe).
MakePipe(s) == /\ pc = "pipe"
               /\ "worker" \notin holders[s]
               /\ s = "stderr" => "worker" \in holders["stdout"]
               /\ holders' = [holders EXCEPT ![s] = {"worker"}]
               /\ UNCHANGED <<worker, command, writing, pipe, forked, printed, chunks>>

\* The command gets both write ends.
Fork == /\ pc = "pipe"
        /\ \A s \in Stream : "worker" \in holders[s]
        /\ command' = "running"
        /\ holders' = [s \in Stream |-> holders[s] \cup {"command"}]
        /\ pc' = "close"
        /\ UNCHANGED <<buf, stored, writing, pipe, forked, printed, chunks>>

\* Mutant: the worker keeps the write end of stderr.
CloseOne == /\ pc = "close"
            /\ holders' = [holders EXCEPT !["stdout"] = @ \ {"worker"}]
            /\ pc' = "stdout"
            /\ UNCHANGED <<buf, stored, command, writing, pipe, forked, printed, chunks>>

CloseWriteEnds == /\ pc = "close"
                  /\ holders' = [s \in Stream |-> holders[s] \ {"worker"}]
                  /\ pc' = "stdout"
                  /\ UNCHANGED <<buf, stored, command, writing, pipe, forked, printed, chunks>>

IsFirstNUL(b, i) == b[i] = NUL /\ \A j \in 1 .. i - 1 : b[j] # NUL

\* Mutant: the copy loop ends before the 0.
CopiedBare(read) == SelectSeq(read, LAMBDA b : b # NUL)

\* The copy loop: the read bytes are followed by zeros up to PIPE_BUF, and the
\* loop ends with the first 0 it copies.
Copied(read) ==
  LET padded == [i \in 1 .. Buf |-> IF i <= Len(read) THEN read[i] ELSE NUL]
      ends   == {i \in 1 .. Buf : IsFirstNUL(padded, i)}
  IN IF ends = {} THEN padded ELSE SubSeq(padded, 1, CHOOSE i \in ends : TRUE)

\* Mutant: the same 0 is given to the buffer of stdout.
AddedToBoth(s, read) == Append(Copied(read), NUL)

\* To stderr_buf a 0 is added after each chunk.
Added(s, read) == Copied(read) \o (IF s = "stderr" THEN << NUL >> ELSE << >>)

NextChunk(s) ==
  /\ pc = s
  /\ pipe[s] # << >>
  /\ LET n == IF Len(pipe[s]) < Buf THEN Len(pipe[s]) ELSE Buf IN
       /\ buf' = [buf EXCEPT ![s] = @ \o Added(s, SubSeq(pipe[s], 1, n))]
       /\ pipe' = [pipe EXCEPT ![s] = SubSeq(@, n + 1, Len(@))]
       /\ chunks' = [chunks EXCEPT ![s] = Append(@, n)]
  /\ UNCHANGED <<pc, stored, command, writing, holders, forked, printed>>

\* Mutant: the child is waited for before its output is read.
ReadAfterExit(s) == NextChunk(s) /\ command = "exited"

Read(s) == NextChunk(s)

\* The end of the pipe: it is empty and nobody can write to it any more.
ReadEnd(s) == /\ pc = s
              /\ pipe[s] = << >> /\ holders[s] = {}
              /\ pc' = IF s = "stdout" THEN "stderr" ELSE "wait"
              /\ UNCHANGED <<buf, stored, command, writing, pipe, holders, forked,
                             printed, chunks>>

\* waitpid.
Wait == /\ pc = "wait"
        /\ command = "exited"
        /\ pc' = "save"
        /\ UNCHANGED <<buf, stored, command, writing, pipe, holders, forked, printed, chunks>>

\* string_from_cstring: the bytes before the first 0.  Without one strlen goes on
\* behind the buffer, to a 0 that is there at once or later.
Strings(b) ==
  LET ends == {i \in DOMAIN b : IsFirstNUL(b, i)}
  IN IF ends = {} THEN {b, Append(b, Stray)} ELSE {SubSeq(b, 1, i - 1) : i \in ends}

\* A buffer that is NULL stores nothing.
Save == /\ pc = "save"
        /\ \E out \in Strings(buf["stdout"]), err \in Strings(buf["stderr"]) :
             stored' = [s \in Stream |-> IF buf[s] = << >> THEN stored[s]
                                         ELSE IF s = "stdout" THEN out ELSE err]
        /\ pc' = "done"
        /\ UNCHANGED <<buf, command, writing, pipe, holders, forked, printed, chunks>>

-----------------------------------------------------------------------------
(* The command, and those that other workers fork meanwhile. *)

CommandWrites(s) == /\ command = "running" /\ writing = "none"
                    /\ "command" \in holders[s]
                    /\ Len(printed[s]) < MaxOut   \* BOUND
                    /\ writing' = s
                    /\ UNCHANGED <<worker, command, pipe, holders, forked, printed, chunks>>

\* The write returns when there is room for it.
Written(s) == /\ writing = s
              /\ Len(pipe[s]) < PipeSize
              /\ \E byte \in {NUL, Len(printed[s]) + 1} :
                   /\ pipe' = [pipe EXCEPT ![s] = Append(@, byte)]
                   /\ printed' = [printed EXCEPT ![s] = Append(@, byte)]
              /\ writing' = "none"
              /\ UNCHANGED <<worker, command, holders, forked, chunks>>

CommandCloses(s) == /\ command = "running" /\ writing = "none"
                    /\ holders' = [holders EXCEPT ![s] = @ \ {"command"}]
                    /\ "command" \in holders[s]
                    /\ UNCHANGED <<worker, command, writing, pipe, forked, printed, chunks>>

CommandExits == /\ command = "running" /\ writing = "none"
                /\ command' = "exited"
                /\ holders' = [s \in Stream |-> holders[s] \ {"command"}]
                /\ UNCHANGED <<worker, writing, pipe, forked, printed, chunks>>

\* Another worker forks: its command inherits the write ends this worker has open
\* at that moment, and will not use them.
SiblingForks(o) == /\ o \notin forked
                   /\ \E s \in Stream : "worker" \in holders[s]
                   /\ forked' = forked \cup {o}
                   /\ holders' = [s \in Stream |-> IF "worker" \in holders[s]
                                                   THEN holders[s] \cup {o} ELSE holders[s]]
                   /\ UNCHANGED <<worker, command, writing, pipe, printed, chunks>>

SiblingExits(o) == /\ \E s \in Stream : o \in holders[s]
                   /\ holders' = [s \in Stream |-> holders[s] \ {o}]
                   /\ UNCHANGED <<worker, command, writing, pipe, forked, printed, chunks>>

-----------------------------------------------------------------------------
WorkerStep == \/ \E s \in Stream : MakePipe(s) \/ Read(s) \/ ReadEnd(s)
              \/ Fork \/ CloseWriteEnds \/ Wait \/ Save

CommandStep == \/ \E s \in Stream : CommandWrites(s) \/ Written(s) \/ CommandCloses(s)
               \/ CommandExits

SiblingStep == \E o \in Sibling : SiblingForks(o) \/ SiblingExits(o)

Next == WorkerStep \/ CommandStep \/ SiblingStep

Spec == Init /\ [][Next]_vars

\* The worker is scheduled, and so is the command; how long siblings run is
\* nobody's business.
FairSpec == Spec /\ WF_vars(WorkerStep) /\ WF_vars(CommandStep)

-----------------------------------------------------------------------------
(* Properties. *)

Byte == {Stray} \cup Nat

\* Every variable has the shape the code gives it; no pipe overflows.
TypeOK == /\ pc \in {"pipe", "close", "wait", "save", "done"} \cup Stream
          /\ command \in {"none", "running", "exited"}
          /\ writing \in Stream \cup {"none"}
          /\ buf \in [Stream -> Seq(Nat)]
          /\ stored \in [Stream -> Seq(Byte) \cup {Earlier}]
          /\ pipe \in [Stream -> Seq(Nat)]
          /\ \A s \in Stream : Len(pipe[s]) <= PipeSize
          /\ holders \in [Stream -> SUBSET ({"worker", "command"} \cup Sibling)]
          /\ forked \subseteq Sibling
          /\ "worker" \in holders["stdout"] \cup holders["stderr"] => pc \in {"pipe", "close"}
          /\ printed \in [Stream -> Seq(Nat)]
          /\ chunks \in [Stream -> Seq(1 .. Buf)]

Text(s) == \A i \in DOMAIN printed[s] : printed[s][i] # NUL

\* Whatever the reads returned, what is stored for a stream on which something
\* was printed is how the printed output begins: nothing out of order, doubled or
\* with a gap in it, and nothing of an earlier execution.  Only behind the end of
\* a whole text on stdout can there be bytes that nobody printed.
StoredIsBeginning ==
  pc = "done" => \A s \in Stream : printed[s] # << >> =>
    \A i \in DOMAIN stored[s] :
      \/ i <= Len(printed[s]) /\ stored[s][i] = printed[s][i]
      \/ s = "stdout" /\ Text(s) /\ i = Len(printed[s]) + 1

\* A text is stored whole exactly when it lies in one chunk, or, on stdout, when
\* all chunks before the last were full.
WholeWhenFull ==
  pc = "done" => \A s \in Stream :
    Text(s) /\ printed[s] # << >> =>
      ((\E t \in {<< >>, << Stray >>} : stored[s] = printed[s] \o t)
         <=> \A i \in 1 .. Len(chunks[s]) - 1 : s = "stdout" /\ chunks[s][i] = Buf)

\* A command that may go on when its writes return comes to its end, unless it
\* fills the pipe of stderr while the worker waits for the end of stdout.
CommandEnds == command = "running" ~> \/ command = "exited"
                                      \/ /\ pc = "stdout" /\ writing = "stderr"
                                         /\ Len(pipe["stderr"]) = PipeSize

Inherited == \E s \in Stream : holders[s] \cap Sibling # {}

\* Once the command and all that inherited a write end have ended, the worker
\* gets to the saving of what was printed, unless yet another command is forked
\* before it closes its own write ends.
CollectEnds == (command = "exited" /\ ~Inherited) ~> (pc = "done" \/ Inherited)

\* protocole.md:76-77: STDOUT and STDERR show what the last execution printed.
TextIsStored ==
  pc = "done" => \A s \in Stream :
                   Text(s) /\ printed[s] # << >> => stored[s] = printed[s]
=============================================================================
