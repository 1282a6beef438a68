----------------------------- MODULE Rendezvous -----------------------------
(***************************************************************************)
(* How a request of cassini reaches saturnd and its answer comes back: two *)
(* named pipes, opened and closed anew for each request.  Neither message  *)
(* says whom it is from or for; the order in which the two programs open   *)
(* and close the pipes is all that pairs them up.                          *)
(*                                                                         *)
(* A request and a reply are each one message: what its fields hold is     *)
(* left out, and so is what the daemon does (module Saturnd).              *)
(***************************************************************************)
EXTENDS Fifo, Integers

CONSTANTS Client,         \* BOUND: runs of cassini, one request each
          Daemon,         \* BOUND: processes of saturnd, started again at will
          PipeSize,       \* BOUND: messages a pipe holds
          Op,             \* the requests clients make
          Attempts,       \* how often cassini waits for the request pipe (10)
          Nobody,         \* the sender of a request that was never sent
          Simultaneous,   \* do clients run at the same time?
          BadTiming,      \* may the timing given to cassini -c be wrong?
          CanKill         \* may clients and daemons be killed?

ASSUME ProcessAssumption == Client \cap Daemon = {} /\ Nobody \notin Client \cup Daemon
ASSUME BoundAssumption == Attempts \in Nat /\ PipeSize \in Nat \ {0}
ASSUME SwitchAssumption == Simultaneous \in BOOLEAN /\ BadTiming \in BOOLEAN /\ CanKill \in BOOLEAN

\* "list" stands for every request that neither may fail to be built nor ends
\* the daemon; "null" is opcode 0, which only the probe of a daemon sends.
ASSUME OpAssumption == Op \subseteq {"list", "create", "terminate"}

VARIABLES pc,         \* where each process is
          request,    \* the request pipe
          reply,      \* the reply pipe
          op,         \* what each client asks for
          attempts,   \* connection_attempts
          got,        \* the reply each client has read
          handling,   \* the request each daemon has read
          done        \* history: how often each client's request was carried out

vars == <<pc, request, reply, op, attempts, got, handling, done>>

Ended == {"answered", "garbled", "timeout", "failed", "killed"}

Nothing == [op |-> "null", from |-> Nobody]

Init == /\ pc = [p \in Client \cup Daemon |-> IF p \in Client THEN "new" ELSE "off"]
        /\ request = NewFifo
        /\ reply = NewFifo
        /\ op \in [Client -> Op]
        /\ attempts = [c \in Client |-> 0]
        /\ got = [c \in Client |-> Nothing]
        /\ handling = [d \in Daemon |-> Nothing]
        /\ done = [c \in Client |-> 0]

Goto(p, from, to) == pc[p] = from /\ pc' = [pc EXCEPT ![p] = to]

\* The end of a process closes what it has open.
Exits(p, how) == /\ pc' = [pc EXCEPT ![p] = how]
                 /\ request' = CloseEnd(request, p)
                 /\ reply' = CloseEnd(reply, p)

Forgets(p) == handling' = [d \in Daemon |-> IF d = p THEN Nothing ELSE handling[d]]

-----------------------------------------------------------------------------
(* cassini. *)

Start(c) == /\ Simultaneous \/ \A other \in Client : pc[other] \in {"new"} \cup Ended
            /\ Goto(c, "new", "connect")
            /\ UNCHANGED <<request, reply, op, attempts, got, handling, done>>

Connect(c) == /\ HasReader(request)
              /\ Goto(c, "connect", "build")
              /\ request' = EnterWrite(request, c)
              /\ UNCHANGED <<reply, op, attempts, got, handling, done>>

\* Mutant: one attempt too many.
RetryOnceMore(c) ==
  /\ ~HasReader(request)
  /\ IF attempts[c] <= Attempts
     THEN /\ pc[c] = "connect"
          /\ attempts' = [attempts EXCEPT ![c] = @ + 1]
          /\ UNCHANGED pc
     ELSE Goto(c, "connect", "timeout") /\ UNCHANGED attempts
  /\ UNCHANGED <<request, reply, op, got, handling, done>>

\* Nobody reads: wait 10 ms and try again, Attempts times.
Retry(c) == /\ ~HasReader(request)
            /\ IF attempts[c] < Attempts
               THEN /\ pc[c] = "connect"
                    /\ attempts' = [attempts EXCEPT ![c] = @ + 1]
                    /\ UNCHANGED pc
               ELSE Goto(c, "connect", "timeout") /\ UNCHANGED attempts
            /\ UNCHANGED <<request, reply, op, got, handling, done>>

\* The request is only built now: a wrong timing is found with the pipe open, and
\* fails or crashes cassini.
BuildFails(c) == /\ BadTiming
                 /\ op[c] = "create"
                 /\ pc[c] = "build"
                 /\ Exits(c, "failed")
                 /\ UNCHANGED <<op, attempts, got, handling, done>>

\* Behind a comma a wrong range keeps cassini in its parser for ever (module
\* TaskTrip), and the daemon in its read.
BuildHangs(c) == /\ BadTiming
                 /\ op[c] = "create"
                 /\ Goto(c, "build", "looping")
                 /\ UNCHANGED <<request, reply, op, attempts, got, handling, done>>

\* Mutant: the request is not written.
WriteRequestLost(c) == /\ Goto(c, "build", "close")
                       /\ UNCHANGED <<request, reply, op, attempts, got, handling, done>>

\* Without a reader left the write is the end of the client (SIGPIPE).
WriteRequest(c) == /\ Len(request.data) < PipeSize   \* BOUND
                   /\ IF HasReader(request)
                      THEN /\ Goto(c, "build", "close")
                           /\ request' = Put(request, [op |-> op[c], from |-> c])
                           /\ UNCHANGED reply
                      ELSE pc[c] = "build" /\ Exits(c, "failed")
                   /\ UNCHANGED <<op, attempts, got, handling, done>>

CloseRequest(c) == /\ Goto(c, "close", "sent")
                   /\ request' = CloseEnd(request, c)
                   /\ UNCHANGED <<reply, op, attempts, got, handling, done>>

OpenReply(c) == /\ Goto(c, "sent", "wait")
                /\ reply' = EnterRead(reply, c)
                /\ UNCHANGED <<request, op, attempts, got, handling, done>>

ReadReply(c) == /\ Opened(reply, c)
                /\ reply.data # << >>
                /\ Goto(c, "wait", "print")
                /\ got' = [got EXCEPT ![c] = Head(reply.data)]
                /\ reply' = Take(reply)
                /\ UNCHANGED <<request, op, attempts, handling, done>>

\* Mutant: without a reply the whole request is made again.
ReadNoReplyRetry(c) == /\ Opened(reply, c)
                       /\ AtEnd(reply)
                       /\ Goto(c, "wait", "connect")
                       /\ reply' = CloseEnd(reply, c)
                       /\ UNCHANGED <<request, op, attempts, got, handling, done>>

\* The reply was read by another client: reptype is never assigned.
ReadNoReply(c) == /\ Opened(reply, c)
                  /\ AtEnd(reply)
                  /\ pc[c] = "wait"
                  /\ Exits(c, "garbled")
                  /\ UNCHANGED <<op, attempts, got, handling, done>>

Finish(c) == /\ pc[c] = "print"
             /\ Exits(c, "answered")
             /\ UNCHANGED <<op, attempts, got, handling, done>>

-----------------------------------------------------------------------------
(* saturnd: a daemon that starts probes the request pipe. *)

Probe(d) == /\ IF HasReader(request)
               THEN Goto(d, "off", "probe") /\ request' = EnterWrite(request, d)
               ELSE Goto(d, "off", "load") /\ UNCHANGED request
            /\ UNCHANGED <<reply, op, attempts, got, handling, done>>

\* Another daemon reads: send it opcode 0 ...
ProbeWrite(d) == /\ Len(request.data) < PipeSize   \* BOUND
                 /\ IF HasReader(request)
                    THEN Goto(d, "probe", "probed") /\ request' = Put(request, Nothing)
                                                    /\ UNCHANGED reply
                    ELSE pc[d] = "probe" /\ Exits(d, "off")
                 /\ UNCHANGED <<op, attempts, got, handling, done>>

\* ... and give up.
ProbeClose(d) == /\ pc[d] = "probed"
                 /\ Exits(d, "off")
                 /\ UNCHANGED <<op, attempts, got, handling, done>>

\* The tasks are loaded (module Saturnd).
Loaded(d) == /\ Goto(d, "load", "idle")
             /\ UNCHANGED <<request, reply, op, attempts, got, handling, done>>

(* The loop. *)

OpenRequest(d) == /\ Goto(d, "idle", "read")
                  /\ request' = EnterRead(request, d)
                  /\ UNCHANGED <<reply, op, attempts, got, handling, done>>

ReadRequest(d) == /\ Opened(request, d)
                  /\ request.data # << >>
                  /\ Goto(d, "read", "handle")
                  /\ handling' = [handling EXCEPT ![d] = Head(request.data)]
                  /\ request' = Take(request)
                  /\ UNCHANGED <<reply, op, attempts, got, done>>

\* The pipe was opened and closed again with nothing written: read returns 0
\* and the opcode is whatever the stack holds (as an index it may be fatal).
ReadNothing(d) == /\ Opened(request, d)
                  /\ AtEnd(request)
                  /\ \/ /\ \E any \in Op \cup {"null"} :
                             handling' = [handling EXCEPT ![d] = [op |-> any, from |-> Nobody]]
                        /\ Goto(d, "read", "handle")
                        /\ UNCHANGED <<request, reply>>
                     \/ pc[d] = "read" /\ Exits(d, "off") /\ Forgets(d)
                  /\ UNCHANGED <<op, attempts, got, done>>

\* The request pipe is closed; opcode 0 needs no reply.
CloseNull(d) == /\ handling[d].op = "null"
                /\ Goto(d, "handle", "idle")
                /\ request' = CloseEnd(request, d)
                /\ Forgets(d)
                /\ UNCHANGED <<reply, op, attempts, got, done>>

\* Any other request is carried out.
Handle(d) == /\ handling[d].op # "null"
             /\ Goto(d, "handle", "open")
             /\ request' = CloseEnd(request, d)
             /\ done' = [c \in Client |-> IF c = handling[d].from THEN done[c] + 1 ELSE done[c]]
             /\ UNCHANGED <<reply, op, attempts, got, handling>>

OpenAnswer(d) == /\ Goto(d, "open", "opening")
                 /\ reply' = EnterWrite(reply, d)
                 /\ UNCHANGED <<request, op, attempts, got, handling, done>>

\* Mutant: the daemon does not wait for the client to open the reply pipe.
WriteReplyAtOnce(d) ==
  /\ IF HasReader(reply)
     THEN /\ Goto(d, "opening", "reply")
          /\ reply' = Put(reply, handling[d])
          /\ UNCHANGED <<request, handling>>
     ELSE pc[d] = "opening" /\ Exits(d, "off") /\ Forgets(d)
  /\ UNCHANGED <<op, attempts, got, done>>

\* Without a reader left the write is the end of the daemon (SIGPIPE).
WriteReply(d) == /\ Opened(reply, d)
                 /\ Len(reply.data) < PipeSize   \* BOUND
                 /\ IF HasReader(reply)
                    THEN /\ Goto(d, "opening", "reply")
                         /\ reply' = Put(reply, handling[d])
                         /\ UNCHANGED <<request, handling>>
                    ELSE pc[d] = "opening" /\ Exits(d, "off") /\ Forgets(d)
                 /\ UNCHANGED <<op, attempts, got, done>>

CloseReply(d) == /\ Goto(d, "reply", IF handling[d].op = "terminate" THEN "off" ELSE "idle")
                 /\ reply' = CloseEnd(reply, d)
                 /\ Forgets(d)
                 /\ UNCHANGED <<request, op, attempts, got, done>>

-----------------------------------------------------------------------------
Kill(p) == /\ CanKill
           /\ pc[p] \notin {"new", "off"} \cup Ended
           /\ Exits(p, IF p \in Client THEN "killed" ELSE "off")
           /\ Forgets(p)
           /\ UNCHANGED <<op, attempts, got, done>>

ClientStep(c) == \/ Connect(c) \/ Retry(c) \/ BuildFails(c) \/ BuildHangs(c) \/ WriteRequest(c)
                 \/ CloseRequest(c) \/ OpenReply(c) \/ ReadReply(c)
                 \/ ReadNoReply(c) \/ Finish(c)

DaemonStep(d) == \/ ProbeWrite(d) \/ ProbeClose(d) \/ Loaded(d)
                 \/ OpenRequest(d) \/ ReadRequest(d) \/ ReadNothing(d)
                 \/ CloseNull(d) \/ Handle(d)
                 \/ OpenAnswer(d) \/ WriteReply(d) \/ CloseReply(d)

Next == \/ \E c \in Client : Start(c) \/ ClientStep(c) \/ Kill(c)
        \/ \E d \in Daemon : Probe(d) \/ DaemonStep(d) \/ Kill(d)

Spec == Init /\ [][Next]_vars

\* Each process that can go on does; nobody has to start one.
FairSpec == /\ Spec
            /\ \A c \in Client : WF_vars(ClientStep(c))
            /\ \A d \in Daemon : WF_vars(DaemonStep(d))
-----------------------------------------------------------------------------
(* Properties. *)

Message == [op : Op \cup {"null"}, from : Client \cup {Nobody}]
Pipe == [readers : SUBSET (Client \cup Daemon), writers : SUBSET (Client \cup Daemon),
         met : SUBSET (Client \cup Daemon), data : Seq(Message)]
ClientPc == {"new", "connect", "build", "looping", "close", "sent", "wait", "print"} \cup Ended
DaemonPc == {"off", "probe", "probed", "load", "idle", "read", "handle", "open",
            "opening", "reply"}

\* Every variable has the shape the code gives it; cassini gives up after
\* Attempts attempts.
TypeOK == /\ \A c \in Client : pc[c] \in ClientPc
          /\ \A d \in Daemon : pc[d] \in DaemonPc
          /\ request \in Pipe /\ reply \in Pipe
          /\ op \in [Client -> Op]
          /\ attempts \in [Client -> 0 .. Attempts]
          /\ got \in [Client -> Message]
          /\ handling \in [Daemon -> Message]
          /\ done \in [Client -> Nat]

\* With clients that run one after the other and are not killed, the pipes give
\* remote calls: each request is carried out exactly once, its client gets the
\* answer to it and no other, and a client that gives up was not served.
CallOf(c) == CASE pc[c] = "new" -> "new"
               [] pc[c] \in {"answered", "print"} /\ got[c].from = c -> "answered"
               [] pc[c] \in {"timeout", "failed"} /\ done[c] = 0 -> "refused"
               [] pc[c] \in {"connect", "build", "close", "sent", "wait"} /\ done[c] = 0 -> "asked"
               [] pc[c] \in {"close", "sent", "wait"} /\ done[c] = 1 -> "done"
               [] OTHER -> "broken"

call == [c \in Client |-> CallOf(c)]

C == INSTANCE Calls
ImplementsCalls == C!Spec

\* Kills, crashes, restarts and clients that run at the same time may lose a
\* request, but none is carried out twice, and none whose client gave up.
AtMostOnce == \A c \in Client :
                done[c] <= IF pc[c] \in {"timeout", "failed"} THEN 0 ELSE 1

\* enonce.md:38-39: the daemon runs until it is explicitly asked to terminate:
\* with clients that come to write their request it obeys no TERMINATE that no
\* client has sent, although it takes an empty read for a request.
StopsOnlyWhenAsked ==
  \A d \in Daemon : pc[d] = "open" /\ handling[d].op = "terminate" => handling[d].from # Nobody
=============================================================================
