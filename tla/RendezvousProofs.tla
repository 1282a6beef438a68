-------------------------- MODULE RendezvousProofs --------------------------
(***************************************************************************)
(* No request is carried out twice, and none whose client gave up: for any *)
(* number of clients and daemons, with kills, crashes and restarts.  The   *)
(* inductive invariant follows a request on its way: it is not sent yet,   *)
(* or it is in one place of the pipe, or one daemon holds it, or it is     *)
(* done or lost.                                                           *)
(*                                                                         *)
(* With one daemon, and clients that run one after the other, the pipes    *)
(* give remote calls as long as nobody is killed and no client breaks off. *)
(* There the inductive invariant lists how far the client in touch and the *)
(* daemon can be with each other, and what the two pipes hold then.        *)
(***************************************************************************)
EXTENDS Rendezvous, SequenceTheorems, TLAPS

Process == Client \cup Daemon

\* A client in one of these has not written its request.
Unsent == {"new", "connect", "build", "looping", "timeout", "failed"}

InPipe(c, k) == k \in DOMAIN request.data /\ request.data[k].from = c

Held(d, c) == d \in Daemon /\ pc[d] = "handle" /\ handling[d].from = c

\* It is in one place at most, ...
OnePlace == \A c \in Client :
  /\ \A j, k \in DOMAIN request.data : InPipe(c, j) /\ InPipe(c, k) => j = k
  /\ \A d, e \in Daemon : Held(d, c) /\ Held(e, c) => d = e
  /\ \A k \in DOMAIN request.data, d \in Daemon : ~(InPipe(c, k) /\ Held(d, c))

\* ... in none before it is written, ...
NotSentTwice == \A c \in Client :
  pc[c] \in Unsent => /\ \A k \in DOMAIN request.data : ~InPipe(c, k)
                      /\ \A d \in Daemon : ~Held(d, c)

\* ... and not done yet while it is in one.
DoneOnce == \A c \in Client :
  /\ done[c] <= 1
  /\ \/ pc[c] \in Unsent
     \/ \E k \in DOMAIN request.data : InPipe(c, k)
     \/ \E d \in Daemon : Held(d, c)
     => done[c] = 0

Once == OnePlace /\ NotSentTwice /\ DoneOnce

\* With the processes pc speaks of.
Types == TypeOK /\ pc \in [Process -> ClientPc \cup DaemonPc]

-----------------------------------------------------------------------------
(* The shape of the variables. *)

\* What processes do with a pipe leaves it one.
LEMMA PipeType ==
  ASSUME NEW f \in Pipe, NEW p \in Process
  PROVE  /\ EnterRead(f, p) \in Pipe /\ EnterWrite(f, p) \in Pipe /\ CloseEnd(f, p) \in Pipe
         /\ \A m \in Message : Put(f, m) \in Pipe
         /\ f.data # << >> => Take(f) \in Pipe /\ Head(f.data) \in Message
<1>1. /\ f.readers \subseteq Process /\ f.writers \subseteq Process /\ f.met \subseteq Process
      /\ f.data \in Seq(Message)
      /\ f = [readers |-> f.readers, writers |-> f.writers, met |-> f.met, data |-> f.data]
  BY DEF Pipe, Process
<1>2. EnterRead(f, p) \in Pipe
  BY <1>1 DEF EnterRead, Pipe, Process
<1>3. EnterWrite(f, p) \in Pipe
  BY <1>1 DEF EnterWrite, Pipe, Process
<1>4. CloseEnd(f, p) \in Pipe
  BY <1>1, EmptySeq DEF CloseEnd, Pipe, Process
<1>5. ASSUME NEW m \in Message PROVE Put(f, m) \in Pipe
  <2>1. Append(f.data, m) \in Seq(Message)
    BY <1>1, AppendProperties
  <2> QED BY <1>1, <2>1 DEF Put, Pipe, Process
<1>6. ASSUME f.data # << >> PROVE Take(f) \in Pipe /\ Head(f.data) \in Message
  <2>1. Tail(f.data) \in Seq(Message) /\ Head(f.data) \in Message
    BY <1>1, <1>6, HeadTailProperties
  <2> QED BY <1>1, <2>1 DEF Take, Pipe, Process
<1> QED BY <1>2, <1>3, <1>4, <1>5, <1>6

\* The messages processes send.
LEMMA MessageType ==
  ASSUME TypeOK
  PROVE  /\ Nothing \in Message
         /\ \A c \in Client : [op |-> op[c], from |-> c] \in Message
         /\ \A any \in Op \cup {"null"} : [op |-> any, from |-> Nobody] \in Message
BY DEF TypeOK, Message, Nothing

\* A process that goes on or ends leaves the others where they are.
LEMMA Moves ==
  ASSUME Types, NEW p \in Process, NEW to
  PROVE  /\ (pc' = [pc EXCEPT ![p] = to]) =>
               /\ pc'[p] = to
               /\ \A q \in Process \ {p} : pc'[q] = pc[q]
         /\ p \in Client /\ to \in ClientPc /\ pc' = [pc EXCEPT ![p] = to] =>
               /\ pc' \in [Process -> ClientPc \cup DaemonPc]
               /\ \A c \in Client : pc'[c] \in ClientPc
               /\ \A d \in Daemon : pc'[d] \in DaemonPc
         /\ p \in Daemon /\ to \in DaemonPc /\ pc' = [pc EXCEPT ![p] = to] =>
               /\ pc' \in [Process -> ClientPc \cup DaemonPc]
               /\ \A c \in Client : pc'[c] \in ClientPc
               /\ \A d \in Daemon : pc'[d] \in DaemonPc
BY ProcessAssumption DEF Types, TypeOK, Process

\* No step of a client or a daemon spoils a variable's shape.
LEMMA TypesKept == Types /\ [Next]_vars => Types'
<1> SUFFICES ASSUME Types, [Next]_vars PROVE Types'
  OBVIOUS
<1> USE DEF Types
<1>p. request \in Pipe /\ reply \in Pipe /\ Client \subseteq Process /\ Daemon \subseteq Process
  BY DEF TypeOK, Process
<1>f. ASSUME NEW p, Forgets(p) PROVE handling' \in [Daemon -> Message]
  BY <1>f, MessageType DEF Forgets, TypeOK
<1>e. ASSUME NEW p \in Process, NEW how, Exits(p, how)
      PROVE  request' \in Pipe /\ reply' \in Pipe /\ pc' = [pc EXCEPT ![p] = how]
  BY <1>e, <1>p, PipeType DEF Exits
<1>1. ASSUME NEW c \in Client, Start(c) PROVE Types'
  BY <1>1, <1>p, <1>e, PipeType, MessageType, Moves DEF Start, TypeOK, Goto, ClientPc, Ended
<1>2. ASSUME NEW c \in Client, Connect(c) PROVE Types'
  BY <1>2, <1>p, <1>e, PipeType, MessageType, Moves DEF Connect, TypeOK, Goto, ClientPc, Ended
<1>3. ASSUME NEW c \in Client, Retry(c) PROVE Types'
  <2>0. UNCHANGED <<request, reply, op, got, handling, done>>
    BY <1>3 DEF Retry
  <2>1. CASE attempts[c] < Attempts
    <3>1. attempts' \in [Client -> 0 .. Attempts] /\ pc' = pc
      BY <1>3, <2>1, BoundAssumption DEF Retry, TypeOK
    <3> QED BY <2>0, <3>1 DEF TypeOK
  <2>2. CASE ~(attempts[c] < Attempts)
    <3>1. pc' = [pc EXCEPT ![c] = "timeout"] /\ attempts' = attempts
      BY <1>3, <2>2 DEF Retry, Goto
    <3> QED BY <1>p, <2>0, <3>1, Moves DEF TypeOK, ClientPc, Ended
  <2> QED BY <2>1, <2>2
<1>4. ASSUME NEW c \in Client, BuildFails(c) PROVE Types'
  BY <1>4, <1>p, <1>e, PipeType, MessageType, Moves DEF BuildFails, TypeOK, ClientPc, Ended
<1>5. ASSUME NEW c \in Client, BuildHangs(c) PROVE Types'
  BY <1>5, <1>p, <1>e, PipeType, MessageType, Moves DEF BuildHangs, TypeOK, Goto, ClientPc, Ended
<1>6. ASSUME NEW c \in Client, WriteRequest(c) PROVE Types'
  <2>0. UNCHANGED <<op, attempts, got, handling, done>>
    BY <1>6 DEF WriteRequest
  <2>1. CASE HasReader(request)
    <3>1. /\ pc' = [pc EXCEPT ![c] = "close"] /\ reply' = reply
          /\ request' = Put(request, [op |-> op[c], from |-> c])
      BY <1>6, <2>1 DEF WriteRequest, Goto
    <3>2. request' \in Pipe
      BY <1>p, <3>1, PipeType, MessageType
    <3> QED BY <1>p, <2>0, <3>1, <3>2, Moves DEF TypeOK, ClientPc
  <2>2. CASE ~HasReader(request)
    <3>1. Exits(c, "failed")
      BY <1>6, <2>2 DEF WriteRequest
    <3> QED BY <1>p, <1>e, <2>0, <3>1, Moves DEF TypeOK, ClientPc, Ended
  <2> QED BY <2>1, <2>2
<1>7. ASSUME NEW c \in Client, CloseRequest(c) PROVE Types'
  BY <1>7, <1>p, <1>e, PipeType, MessageType, Moves DEF CloseRequest, TypeOK, Goto, ClientPc, Ended
<1>8. ASSUME NEW c \in Client, OpenReply(c) PROVE Types'
  BY <1>8, <1>p, <1>e, PipeType, MessageType, Moves DEF OpenReply, TypeOK, Goto, ClientPc, Ended
<1>9. ASSUME NEW c \in Client, ReadReply(c) PROVE Types'
  BY <1>9, <1>p, <1>e, PipeType, MessageType, Moves DEF ReadReply, TypeOK, Goto, ClientPc, Ended
<1>10. ASSUME NEW c \in Client, ReadNoReply(c) PROVE Types'
  <2>0. Exits(c, "garbled") /\ UNCHANGED <<op, attempts, got, handling, done>>
    BY <1>10 DEF ReadNoReply
  <2>1. request' \in Pipe /\ reply' \in Pipe /\ pc' = [pc EXCEPT ![c] = "garbled"]
    BY <1>p, <1>e, <2>0
  <2>2. "garbled" \in ClientPc
    BY DEF ClientPc, Ended
  <2> QED BY <1>p, <2>0, <2>1, <2>2, Moves DEF TypeOK
<1>11. ASSUME NEW c \in Client, Finish(c) PROVE Types'
  BY <1>11, <1>p, <1>e, PipeType, MessageType, Moves DEF Finish, TypeOK, ClientPc, Ended
<1>12. ASSUME NEW d \in Daemon, Probe(d) PROVE Types'
  <2>0. UNCHANGED <<reply, op, attempts, got, handling, done>>
    BY <1>12 DEF Probe
  <2>1. request' \in Pipe
    BY <1>12, <1>p, PipeType DEF Probe
  <2>2. \E to \in DaemonPc : pc' = [pc EXCEPT ![d] = to]
    BY <1>12 DEF Probe, Goto, DaemonPc
  <2> QED BY <1>p, <2>0, <2>1, <2>2, Moves DEF TypeOK
<1>13. ASSUME NEW d \in Daemon, ProbeWrite(d) PROVE Types'
  <2>0. UNCHANGED <<op, attempts, got, handling, done>>
    BY <1>13 DEF ProbeWrite
  <2>1. request' \in Pipe /\ reply' \in Pipe
    BY <1>13, <1>p, <1>e, PipeType, MessageType DEF ProbeWrite
  <2>2. \E to \in DaemonPc : pc' = [pc EXCEPT ![d] = to]
    BY <1>13 DEF ProbeWrite, Goto, Exits, DaemonPc
  <2> QED BY <1>p, <2>0, <2>1, <2>2, Moves DEF TypeOK
<1>14. ASSUME NEW d \in Daemon, ProbeClose(d) PROVE Types'
  <2>0. Exits(d, "off") /\ UNCHANGED <<op, attempts, got, handling, done>>
    BY <1>14 DEF ProbeClose
  <2>1. request' \in Pipe /\ reply' \in Pipe /\ pc' = [pc EXCEPT ![d] = "off"]
    BY <1>p, <1>e, <2>0
  <2> QED BY <1>p, <2>0, <2>1, Moves DEF TypeOK, DaemonPc
<1>15. ASSUME NEW d \in Daemon, Loaded(d) PROVE Types'
  BY <1>15, <1>p, <1>e, <1>f, PipeType, MessageType, Moves DEF Loaded, TypeOK, Goto, DaemonPc
<1>16. ASSUME NEW d \in Daemon, OpenRequest(d) PROVE Types'
  BY <1>16, <1>p, <1>e, <1>f, PipeType, MessageType, Moves DEF OpenRequest, TypeOK, Goto, DaemonPc
<1>17. ASSUME NEW d \in Daemon, ReadRequest(d) PROVE Types'
  BY <1>17, <1>p, <1>e, <1>f, PipeType, MessageType, Moves DEF ReadRequest, TypeOK, Goto, DaemonPc
<1>18. ASSUME NEW d \in Daemon, ReadNothing(d) PROVE Types'
  <2>0. UNCHANGED <<op, attempts, got, done>>
    BY <1>18 DEF ReadNothing
  <2>1. CASE Exits(d, "off") /\ Forgets(d)
    <3>1. request' \in Pipe /\ reply' \in Pipe /\ pc' = [pc EXCEPT ![d] = "off"]
      BY <1>p, <1>e, <2>1
    <3>2. handling' \in [Daemon -> Message]
      BY <1>f, <2>1
    <3> QED BY <1>p, <2>0, <3>1, <3>2, Moves DEF TypeOK, DaemonPc
  <2>2. CASE ~(Exits(d, "off") /\ Forgets(d))
    <3>1. PICK any \in Op \cup {"null"} :
             handling' = [handling EXCEPT ![d] = [op |-> any, from |-> Nobody]]
      BY <1>18, <2>2 DEF ReadNothing
    <3>2. pc' = [pc EXCEPT ![d] = "handle"] /\ UNCHANGED <<request, reply>>
      BY <1>18, <2>2 DEF ReadNothing, Goto
    <3>3. handling' \in [Daemon -> Message]
      BY <3>1, MessageType DEF TypeOK
    <3> QED BY <1>p, <2>0, <3>2, <3>3, Moves DEF TypeOK, DaemonPc
  <2> QED BY <2>1, <2>2
<1>19. ASSUME NEW d \in Daemon, CloseNull(d) PROVE Types'
  BY <1>19, <1>p, <1>e, <1>f, PipeType, MessageType, Moves DEF CloseNull, TypeOK, Goto, DaemonPc
<1>20. ASSUME NEW d \in Daemon, Handle(d) PROVE Types'
  <2>0. UNCHANGED <<reply, op, attempts, got, handling>>
    BY <1>20 DEF Handle
  <2>1. request' \in Pipe
    BY <1>20, <1>p, PipeType DEF Handle
  <2>2. pc' = [pc EXCEPT ![d] = "open"]
    BY <1>20 DEF Handle, Goto
  <2>3. done' \in [Client -> Nat]
    BY <1>20 DEF Handle, TypeOK
  <2> QED BY <1>p, <2>0, <2>1, <2>2, <2>3, Moves DEF TypeOK, DaemonPc
<1>21. ASSUME NEW d \in Daemon, OpenAnswer(d) PROVE Types'
  BY <1>21, <1>p, <1>e, <1>f, PipeType, MessageType, Moves DEF OpenAnswer, TypeOK, Goto, DaemonPc
<1>22. ASSUME NEW d \in Daemon, WriteReply(d) PROVE Types'
  <2>0. UNCHANGED <<op, attempts, got, done>>
    BY <1>22 DEF WriteReply
  <2>1. request' \in Pipe /\ reply' \in Pipe
    <3>1. handling[d] \in Message
      BY DEF TypeOK
    <3> QED BY <1>22, <1>p, <1>e, <3>1, PipeType DEF WriteReply
  <2>2. \E to \in DaemonPc : pc' = [pc EXCEPT ![d] = to]
    BY <1>22 DEF WriteReply, Goto, Exits, DaemonPc
  <2>3. handling' \in [Daemon -> Message]
    BY <1>22, <1>f DEF WriteReply, TypeOK
  <2> QED BY <1>p, <2>0, <2>1, <2>2, <2>3, Moves DEF TypeOK
<1>23. ASSUME NEW d \in Daemon, CloseReply(d) PROVE Types'
  BY <1>23, <1>p, <1>e, <1>f, PipeType, MessageType, Moves DEF CloseReply, TypeOK, Goto, DaemonPc
<1>24. ASSUME NEW p \in Process, Kill(p) PROVE Types'
  BY <1>24, <1>e, <1>f, Moves DEF Kill, TypeOK, Process, ClientPc, DaemonPc, Ended
<1>25. CASE UNCHANGED vars
  BY <1>25 DEF vars, TypeOK
<1> QED BY <1>1, <1>2, <1>3, <1>4, <1>5, <1>6, <1>7, <1>8, <1>9, <1>10, <1>11, <1>12, <1>13, <1>14, <1>15, <1>16, <1>17, <1>18, <1>19, <1>20, <1>21, <1>22, <1>23, <1>24, <1>25, <1>p
        DEF Next, ClientStep, DaemonStep

-----------------------------------------------------------------------------
(* Who has a pipe open. *)

\* Where a process is tells which ends of the pipes it has open; none waits
\* in an open it has not entered.
HoldsItsEnds(p) ==
  /\ p \in request.readers <=> pc[p] \in {"read", "handle"}
  /\ p \in request.writers <=> pc[p] \in {"build", "looping", "close", "probe", "probed"}
  /\ p \in reply.readers <=> pc[p] \in {"wait", "print"}
  /\ p \in reply.writers <=> pc[p] \in {"opening", "reply"}
  /\ p \in request.met => p \in request.readers \cup request.writers
  /\ p \in reply.met => p \in reply.readers \cup reply.writers

EndsHeld == \A p \in Process : HoldsItsEnds(p)

\* What becomes of a pipe's ends when p opens one, ...
LEMMA EnterReadEnds ==
  ASSUME NEW f \in Pipe, NEW p
  PROVE  /\ EnterRead(f, p).readers = f.readers \cup {p}
         /\ EnterRead(f, p).writers = f.writers
         /\ EnterRead(f, p).met = IF f.writers = {} THEN f.met ELSE f.met \cup f.writers \cup {p}
BY DEF Pipe, EnterRead

\* ... opens the other, ...
LEMMA EnterWriteEnds ==
  ASSUME NEW f \in Pipe, NEW p
  PROVE  /\ EnterWrite(f, p).readers = f.readers
         /\ EnterWrite(f, p).writers = f.writers \cup {p}
         /\ EnterWrite(f, p).met = IF f.readers = {} THEN f.met ELSE f.met \cup f.readers \cup {p}
BY DEF Pipe, EnterWrite

\* ... and closes one: ...
LEMMA CloseEnds ==
  ASSUME NEW f \in Pipe, NEW p
  PROVE  /\ CloseEnd(f, p).readers = f.readers \ {p}
         /\ CloseEnd(f, p).writers = f.writers \ {p}
         /\ CloseEnd(f, p).met = f.met \ {p}
BY DEF CloseEnd

\* ... a message changes none.
LEMMA MessagesKeepEnds ==
  ASSUME NEW f \in Pipe
  PROVE  /\ Take(f).readers = f.readers /\ Take(f).writers = f.writers /\ Take(f).met = f.met
         /\ \A m : /\ Put(f, m).readers = f.readers
                   /\ Put(f, m).writers = f.writers
                   /\ Put(f, m).met = f.met
BY DEF Pipe, Take, Put

\* What one process does with a pipe leaves the ends of the others.
SameForOthers(p, f, g) ==
  \A q \in Process \ {p} :
    /\ q \in g.readers <=> q \in f.readers
    /\ q \in g.writers <=> q \in f.writers
    /\ q \in g.met => q \in f.met \cup f.readers \cup f.writers

\* Every operation on a pipe is of that kind.
LEMMA OthersKeepEnds ==
  ASSUME NEW f \in Pipe, NEW p
  PROVE  /\ SameForOthers(p, f, f)
         /\ SameForOthers(p, f, EnterRead(f, p)) /\ SameForOthers(p, f, EnterWrite(f, p))
         /\ SameForOthers(p, f, CloseEnd(f, p)) /\ SameForOthers(p, f, Take(f))
         /\ \A m : SameForOthers(p, f, Put(f, m))
<1>1. SameForOthers(p, f, f)
  BY DEF SameForOthers
<1>2. SameForOthers(p, f, EnterRead(f, p))
  <2>1. /\ EnterRead(f, p).readers = f.readers \cup {p} /\ EnterRead(f, p).writers = f.writers
        /\ EnterRead(f, p).met \subseteq f.met \cup f.writers \cup {p}
    BY EnterReadEnds
  <2> QED BY <2>1 DEF SameForOthers
<1>3. SameForOthers(p, f, EnterWrite(f, p))
  <2>1. /\ EnterWrite(f, p).readers = f.readers /\ EnterWrite(f, p).writers = f.writers \cup {p}
        /\ EnterWrite(f, p).met \subseteq f.met \cup f.readers \cup {p}
    BY EnterWriteEnds
  <2> QED BY <2>1 DEF SameForOthers
<1>4. SameForOthers(p, f, CloseEnd(f, p))
  BY CloseEnds DEF SameForOthers
<1>5. SameForOthers(p, f, Take(f)) /\ \A m : SameForOthers(p, f, Put(f, m))
  BY MessagesKeepEnds DEF SameForOthers
<1> QED BY <1>1, <1>2, <1>3, <1>4, <1>5

\* So when one process moves, only its own ends can be wrong.
LEMMA OnlyTheMover ==
  ASSUME Types, EndsHeld, NEW p \in Process,
         \A q \in Process \ {p} : pc'[q] = pc[q],
         SameForOthers(p, request, request'), SameForOthers(p, reply, reply'),
         HoldsItsEnds(p)'
  PROVE  EndsHeld'
<1> SUFFICES ASSUME NEW q \in Process PROVE HoldsItsEnds(q)'
  BY DEF EndsHeld
<1>1. CASE q = p
  BY <1>1
<1>2. CASE q # p
  BY <1>2 DEF EndsHeld, HoldsItsEnds, SameForOthers
<1> QED BY <1>1, <1>2

\* A process that exits holds nothing.
LEMMA ExitKeepsEnds ==
  ASSUME Types, EndsHeld, NEW p \in Process, NEW how \in Ended \cup {"off"}, Exits(p, how)
  PROVE  EndsHeld'
<1>1. request \in Pipe /\ reply \in Pipe
  BY DEF Types, TypeOK
<1>2. /\ pc'[p] = how /\ \A q \in Process \ {p} : pc'[q] = pc[q]
      /\ request' = CloseEnd(request, p) /\ reply' = CloseEnd(reply, p)
  BY Moves DEF Exits
<1>3. SameForOthers(p, request, request') /\ SameForOthers(p, reply, reply')
  BY <1>1, <1>2, OthersKeepEnds
<1>4. HoldsItsEnds(p)'
  BY <1>1, <1>2, CloseEnds DEF HoldsItsEnds, Ended
<1> QED BY <1>2, <1>3, <1>4, OnlyTheMover

\* Where a process has no pipe open.
Unopened == {"new", "connect", "sent", "off", "load", "idle", "open"} \cup Ended

\* No step makes where a process is and what it has open differ.
LEMMA EndsKept == Types /\ EndsHeld /\ [Next]_vars => EndsHeld'
<1> SUFFICES ASSUME Types, EndsHeld, [Next]_vars PROVE EndsHeld'
  OBVIOUS
<1>p. request \in Pipe /\ reply \in Pipe /\ Client \subseteq Process /\ Daemon \subseteq Process
  BY DEF Types, TypeOK, Process
\* A step of p from one place to another, with what it does to the two pipes.
<1>m. ASSUME NEW p \in Process, NEW from, NEW to, Goto(p, from, to),
             SameForOthers(p, request, request'), SameForOthers(p, reply, reply'),
             HoldsItsEnds(p) /\ pc[p] = from /\ pc'[p] = to => HoldsItsEnds(p)'
      PROVE  EndsHeld'
  <2>1. pc[p] = from /\ pc'[p] = to /\ \A q \in Process \ {p} : pc'[q] = pc[q]
    BY <1>m, Moves DEF Goto
  <2>2. HoldsItsEnds(p)'
    BY <1>m, <2>1 DEF EndsHeld
  <2> QED BY <1>m, <2>1, <2>2, OnlyTheMover
<1>s. ASSUME NEW p \in Process, NEW from, NEW to, Goto(p, from, to), request' = request, reply' = reply,
             from \in Unopened /\ to \in Unopened
      PROVE  EndsHeld'
  <2>1. HoldsItsEnds(p) /\ pc[p] = from /\ pc'[p] = to => HoldsItsEnds(p)'
    BY <1>s DEF HoldsItsEnds, Unopened, Ended
  <2> QED BY <1>p, <1>s, <1>m, OthersKeepEnds, <2>1
<1>1. ASSUME NEW c \in Client, Start(c) PROVE EndsHeld'
  BY <1>1, <1>p, <1>s DEF Start, Unopened
<1>2. ASSUME NEW c \in Client, Connect(c) PROVE EndsHeld'
  <2>1. Goto(c, "connect", "build") /\ request' = EnterWrite(request, c) /\ reply' = reply
    BY <1>2 DEF Connect
  <2>2. HoldsItsEnds(c) /\ pc[c] = "connect" /\ pc'[c] = "build" => HoldsItsEnds(c)'
    BY <1>p, <2>1, EnterWriteEnds DEF HoldsItsEnds
  <2> QED BY <1>p, <1>m, OthersKeepEnds, <2>1, <2>2
<1>3. ASSUME NEW c \in Client, Retry(c) PROVE EndsHeld'
  <2>1. CASE Goto(c, "connect", "timeout") /\ request' = request /\ reply' = reply
    BY <2>1, <1>p, <1>s DEF Unopened, Ended
  <2>2. CASE pc' = pc /\ request' = request /\ reply' = reply
    BY <2>2 DEF EndsHeld, HoldsItsEnds
  <2> QED BY <1>3, <2>1, <2>2 DEF Retry
<1>4. ASSUME NEW c \in Client, BuildFails(c) PROVE EndsHeld'
  BY <1>4, <1>p, ExitKeepsEnds DEF BuildFails, Ended
<1>5. ASSUME NEW c \in Client, BuildHangs(c) PROVE EndsHeld'
  <2>1. Goto(c, "build", "looping") /\ request' = request /\ reply' = reply
    BY <1>5 DEF BuildHangs
  <2>2. HoldsItsEnds(c) /\ pc[c] = "build" /\ pc'[c] = "looping" => HoldsItsEnds(c)'
    BY <2>1 DEF HoldsItsEnds
  <2> QED BY <1>p, <1>m, OthersKeepEnds, <2>1, <2>2
<1>6. ASSUME NEW c \in Client, WriteRequest(c) PROVE EndsHeld'
  <2>1. CASE Exits(c, "failed")
    BY <2>1, <1>p, ExitKeepsEnds DEF Ended
  <2>2. CASE Goto(c, "build", "close") /\ (\E m : request' = Put(request, m)) /\ reply' = reply
    <3>1. PICK m : request' = Put(request, m)
      BY <2>2
    <3>2. HoldsItsEnds(c) /\ pc[c] = "build" /\ pc'[c] = "close" => HoldsItsEnds(c)'
      BY <1>p, <2>2, <3>1, MessagesKeepEnds DEF HoldsItsEnds
    <3> QED BY <1>p, <1>m, OthersKeepEnds, <2>2, <3>1, <3>2
  <2> QED BY <1>6, <2>1, <2>2 DEF WriteRequest
<1>7. ASSUME NEW c \in Client, CloseRequest(c) PROVE EndsHeld'
  <2>1. Goto(c, "close", "sent") /\ request' = CloseEnd(request, c) /\ reply' = reply
    BY <1>7 DEF CloseRequest
  <2>2. HoldsItsEnds(c) /\ pc[c] = "close" /\ pc'[c] = "sent" => HoldsItsEnds(c)'
    BY <1>p, <2>1, CloseEnds DEF HoldsItsEnds
  <2> QED BY <1>p, <1>m, OthersKeepEnds, <2>1, <2>2
<1>8. ASSUME NEW c \in Client, OpenReply(c) PROVE EndsHeld'
  <2>1. Goto(c, "sent", "wait") /\ request' = request /\ reply' = EnterRead(reply, c)
    BY <1>8 DEF OpenReply
  <2>2. HoldsItsEnds(c) /\ pc[c] = "sent" /\ pc'[c] = "wait" => HoldsItsEnds(c)'
    BY <1>p, <2>1, EnterReadEnds DEF HoldsItsEnds
  <2> QED BY <1>p, <1>m, OthersKeepEnds, <2>1, <2>2
<1>9. ASSUME NEW c \in Client, ReadReply(c) PROVE EndsHeld'
  <2>1. Goto(c, "wait", "print") /\ request' = request /\ reply' = Take(reply)
    BY <1>9 DEF ReadReply
  <2>2. HoldsItsEnds(c) /\ pc[c] = "wait" /\ pc'[c] = "print" => HoldsItsEnds(c)'
    BY <1>p, <2>1, MessagesKeepEnds DEF HoldsItsEnds
  <2> QED BY <1>p, <1>m, OthersKeepEnds, <2>1, <2>2
<1>10. ASSUME NEW c \in Client, ReadNoReply(c) PROVE EndsHeld'
  BY <1>10, <1>p, ExitKeepsEnds DEF ReadNoReply, Ended
<1>11. ASSUME NEW c \in Client, Finish(c) PROVE EndsHeld'
  BY <1>11, <1>p, ExitKeepsEnds DEF Finish, Ended
<1>12. ASSUME NEW d \in Daemon, Probe(d) PROVE EndsHeld'
  <2>1. CASE Goto(d, "off", "load") /\ request' = request /\ reply' = reply
    BY <2>1, <1>p, <1>s DEF Unopened
  <2>2. CASE Goto(d, "off", "probe") /\ request' = EnterWrite(request, d) /\ reply' = reply
    <3>1. HoldsItsEnds(d) /\ pc[d] = "off" /\ pc'[d] = "probe" => HoldsItsEnds(d)'
      BY <1>p, <2>2, EnterWriteEnds DEF HoldsItsEnds
    <3> QED BY <1>p, <1>m, OthersKeepEnds, <2>2, <3>1
  <2> QED BY <1>12, <2>1, <2>2 DEF Probe
<1>13. ASSUME NEW d \in Daemon, ProbeWrite(d) PROVE EndsHeld'
  <2>1. CASE Exits(d, "off")
    BY <2>1, <1>p, ExitKeepsEnds
  <2>2. CASE Goto(d, "probe", "probed") /\ request' = Put(request, Nothing) /\ reply' = reply
    <3>1. HoldsItsEnds(d) /\ pc[d] = "probe" /\ pc'[d] = "probed" => HoldsItsEnds(d)'
      BY <1>p, <2>2, MessagesKeepEnds DEF HoldsItsEnds
    <3> QED BY <1>p, <1>m, OthersKeepEnds, <2>2, <3>1
  <2> QED BY <1>13, <2>1, <2>2 DEF ProbeWrite
<1>14. ASSUME NEW d \in Daemon, ProbeClose(d) PROVE EndsHeld'
  BY <1>14, <1>p, ExitKeepsEnds DEF ProbeClose
<1>15. ASSUME NEW d \in Daemon, Loaded(d) PROVE EndsHeld'
  BY <1>15, <1>p, <1>s DEF Loaded, Unopened
<1>16. ASSUME NEW d \in Daemon, OpenRequest(d) PROVE EndsHeld'
  <2>1. Goto(d, "idle", "read") /\ request' = EnterRead(request, d) /\ reply' = reply
    BY <1>16 DEF OpenRequest
  <2>2. HoldsItsEnds(d) /\ pc[d] = "idle" /\ pc'[d] = "read" => HoldsItsEnds(d)'
    BY <1>p, <2>1, EnterReadEnds DEF HoldsItsEnds
  <2> QED BY <1>p, <1>m, OthersKeepEnds, <2>1, <2>2
<1>17. ASSUME NEW d \in Daemon, ReadRequest(d) PROVE EndsHeld'
  <2>1. Goto(d, "read", "handle") /\ request' = Take(request) /\ reply' = reply
    BY <1>17 DEF ReadRequest
  <2>2. HoldsItsEnds(d) /\ pc[d] = "read" /\ pc'[d] = "handle" => HoldsItsEnds(d)'
    BY <1>p, <2>1, MessagesKeepEnds DEF HoldsItsEnds
  <2> QED BY <1>p, <1>m, OthersKeepEnds, <2>1, <2>2
<1>18. ASSUME NEW d \in Daemon, ReadNothing(d) PROVE EndsHeld'
  <2>1. CASE Exits(d, "off")
    BY <2>1, <1>p, ExitKeepsEnds
  <2>2. CASE Goto(d, "read", "handle") /\ request' = request /\ reply' = reply
    <3>1. HoldsItsEnds(d) /\ pc[d] = "read" /\ pc'[d] = "handle" => HoldsItsEnds(d)'
      BY <2>2 DEF HoldsItsEnds
    <3> QED BY <1>p, <1>m, OthersKeepEnds, <2>2, <3>1
  <2> QED BY <1>18, <2>1, <2>2 DEF ReadNothing
<1>19. ASSUME NEW d \in Daemon, NEW to \in {"idle", "open"}, Goto(d, "handle", to),
              request' = CloseEnd(request, d), reply' = reply
       PROVE  EndsHeld'
  <2>1. HoldsItsEnds(d) /\ pc[d] = "handle" /\ pc'[d] = to => HoldsItsEnds(d)'
    BY <1>p, <1>19, CloseEnds DEF HoldsItsEnds
  <2> QED BY <1>p, <1>m, OthersKeepEnds, <1>19, <2>1
<1>20. ASSUME NEW d \in Daemon, CloseNull(d) \/ Handle(d) PROVE EndsHeld'
  BY <1>19, <1>20 DEF CloseNull, Handle
<1>21. ASSUME NEW d \in Daemon, OpenAnswer(d) PROVE EndsHeld'
  <2>1. Goto(d, "open", "opening") /\ request' = request /\ reply' = EnterWrite(reply, d)
    BY <1>21 DEF OpenAnswer
  <2>2. HoldsItsEnds(d) /\ pc[d] = "open" /\ pc'[d] = "opening" => HoldsItsEnds(d)'
    BY <1>p, <2>1, EnterWriteEnds DEF HoldsItsEnds
  <2> QED BY <1>p, <1>m, OthersKeepEnds, <2>1, <2>2
<1>22. ASSUME NEW d \in Daemon, WriteReply(d) PROVE EndsHeld'
  <2>1. CASE Exits(d, "off")
    BY <2>1, <1>p, ExitKeepsEnds
  <2>2. CASE Goto(d, "opening", "reply") /\ reply' = Put(reply, handling[d]) /\ request' = request
    <3>1. HoldsItsEnds(d) /\ pc[d] = "opening" /\ pc'[d] = "reply" => HoldsItsEnds(d)'
      BY <1>p, <2>2, MessagesKeepEnds DEF HoldsItsEnds
    <3> QED BY <1>p, <1>m, OthersKeepEnds, <2>2, <3>1
  <2> QED BY <1>22, <2>1, <2>2 DEF WriteReply
<1>23. ASSUME NEW d \in Daemon, CloseReply(d) PROVE EndsHeld'
  <2>1. PICK to \in {"idle", "off"} : Goto(d, "reply", to)
    BY <1>23 DEF CloseReply
  <2>2. request' = request /\ reply' = CloseEnd(reply, d)
    BY <1>23 DEF CloseReply
  <2>3. HoldsItsEnds(d) /\ pc[d] = "reply" /\ pc'[d] = to => HoldsItsEnds(d)'
    BY <1>p, <2>1, <2>2, CloseEnds DEF HoldsItsEnds
  <2> QED BY <1>p, <1>m, OthersKeepEnds, <2>1, <2>2, <2>3
<1>24. ASSUME NEW p \in Process, Kill(p) PROVE EndsHeld'
  <2>1. PICK how \in {"killed", "off"} : Exits(p, how)
    BY <1>24 DEF Kill
  <2> QED BY <2>1, ExitKeepsEnds DEF Ended
<1>25. CASE UNCHANGED vars
  BY <1>25 DEF vars, EndsHeld, HoldsItsEnds
<1> QED BY <1>1, <1>2, <1>3, <1>4, <1>5, <1>6, <1>7, <1>8, <1>9, <1>10, <1>11, <1>12, <1>13, <1>14, <1>15, <1>16, <1>17, <1>18, <1>20, <1>21, <1>22, <1>23, <1>24, <1>25, <1>p
        DEF Next, ClientStep, DaemonStep

-----------------------------------------------------------------------------
(* Where a request is. *)

\* What becomes of the pipe's messages.
LEMMA PipeData ==
  ASSUME NEW f \in Pipe, NEW p
  PROVE  /\ EnterRead(f, p).data = f.data /\ EnterWrite(f, p).data = f.data
         /\ CloseEnd(f, p).data \in {f.data, << >>}
         /\ \A m : Put(f, m).data = Append(f.data, m)
         /\ Take(f).data = Tail(f.data)
BY DEF Pipe, EnterRead, EnterWrite, CloseEnd, Put, Take

\* No request comes to a place, and no client back before its sending.
NoNewPlace ==
  /\ done' = done
  /\ request'.data \in {request.data, << >>, Append(request.data, Nothing)}
  /\ \A c \in Client : pc'[c] \in Unsent => pc[c] \in Unsent
  /\ \A d \in Daemon : pc'[d] = "handle" =>
       \/ pc[d] = "handle" /\ handling'[d] = handling[d]
       \/ handling'[d].from \notin Client

\* Then no request can be carried out once more.
LEMMA NoNewPlaceKeeps == Types /\ Once /\ NoNewPlace => Once'
<1> SUFFICES ASSUME Types, Once, NoNewPlace PROVE Once'
  OBVIOUS
<1>1. request.data \in Seq(Message) /\ Nothing \in Message /\ Nobody \notin Client
      /\ Nothing.from = Nobody
  BY MessageType, ProcessAssumption DEF Types, TypeOK, Pipe, Nothing
<1>2. ASSUME NEW c \in Client, NEW k \in DOMAIN request'.data, request'.data[k].from = c
      PROVE  k \in DOMAIN request.data /\ request.data[k].from = c
  <2>1. CASE request'.data = request.data
    BY <1>2, <2>1
  <2>2. CASE request'.data = << >>
    BY <1>2, <2>2
  <2>3. CASE request'.data = Append(request.data, Nothing)
    <3>1. DOMAIN request'.data = 1 .. Len(request.data) + 1 /\ Len(request.data) \in Nat
          /\ DOMAIN request.data = 1 .. Len(request.data)
      BY <1>1, <2>3, AppendProperties, LenProperties
    <3>2. k # Len(request.data) + 1
      BY <1>1, <1>2, <2>3, AppendProperties
    <3> QED BY <1>1, <1>2, <2>3, <3>1, <3>2, AppendProperties
  <2> QED BY <2>1, <2>2, <2>3 DEF NoNewPlace
<1>3. \A c \in Client : \A k \in DOMAIN request'.data : InPipe(c, k)' =>
        k \in DOMAIN request.data /\ InPipe(c, k)
  BY <1>2 DEF InPipe
<1>4. \A c \in Client, d \in Daemon : Held(d, c)' => Held(d, c)
  BY DEF NoNewPlace, Held
<1>5. OnePlace'
  BY <1>3, <1>4 DEF Once, OnePlace
<1>6. NotSentTwice'
  BY <1>3, <1>4 DEF Once, NotSentTwice, NoNewPlace
<1>7. DoneOnce'
  BY <1>3, <1>4 DEF Once, DoneOnce, NoNewPlace
<1> QED BY <1>5, <1>6, <1>7 DEF Once


\* All steps but three are of that kind.
LEMMA FewNewPlaces ==
  ASSUME Types, [Next]_vars,
         ~\E c \in Client : WriteRequest(c) /\ HasReader(request),
         ~\E d \in Daemon : ReadRequest(d) \/ Handle(d)
  PROVE  NoNewPlace
<1> USE DEF NoNewPlace
<1>p. request \in Pipe /\ Client \subseteq Process /\ Daemon \subseteq Process
      /\ Client \cap Daemon = {} /\ Nothing.from \notin Client
  BY ProcessAssumption DEF Types, TypeOK, Process, Nothing
<1>e. ASSUME NEW p \in Process, NEW how, Exits(p, how)
      PROVE  request'.data \in {request.data, << >>} /\ pc' = [pc EXCEPT ![p] = how]
  BY <1>e, <1>p, PipeData DEF Exits
<1>c. ASSUME NEW c \in Client, NEW to, pc' = [pc EXCEPT ![c] = to],
             to \in Unsent => pc[c] \in Unsent, handling' = handling
      PROVE  /\ \A x \in Client : pc'[x] \in Unsent => pc[x] \in Unsent
             /\ \A d \in Daemon : pc'[d] = "handle" => pc[d] = "handle" /\ handling'[d] = handling[d]
  BY <1>c, <1>p, Moves
<1>d. ASSUME NEW d \in Daemon, NEW to, pc' = [pc EXCEPT ![d] = to]
      PROVE  \A c \in Client : pc'[c] = pc[c]
  BY <1>d, <1>p, Moves
<1>1. ASSUME NEW c \in Client, Start(c) PROVE NoNewPlace
  BY <1>1, <1>p, <1>e, PipeData, Moves DEF Start, Goto, Unsent
<1>2. ASSUME NEW c \in Client, Connect(c) PROVE NoNewPlace
  BY <1>2, <1>p, <1>e, PipeData, Moves DEF Connect, Goto, Unsent
<1>3. ASSUME NEW c \in Client, Retry(c) PROVE NoNewPlace
  BY <1>3, <1>p, <1>e, PipeData, Moves DEF Retry, Goto, Unsent
<1>4. ASSUME NEW c \in Client, BuildFails(c) PROVE NoNewPlace
  <2>1. pc[c] = "build" /\ Exits(c, "failed") /\ UNCHANGED <<handling, done>>
    BY <1>4 DEF BuildFails
  <2> QED BY <2>1, <1>p, <1>e, <1>c DEF Unsent
<1>5. ASSUME NEW c \in Client, BuildHangs(c) PROVE NoNewPlace
  BY <1>5, <1>p, <1>e, PipeData, Moves DEF BuildHangs, Goto, Unsent
<1>6. ASSUME NEW c \in Client, CloseRequest(c) PROVE NoNewPlace
  BY <1>6, <1>p, <1>e, PipeData, Moves DEF CloseRequest, Goto, Unsent
<1>7. ASSUME NEW c \in Client, OpenReply(c) PROVE NoNewPlace
  BY <1>7, <1>p, <1>e, PipeData, Moves DEF OpenReply, Goto, Unsent
<1>8. ASSUME NEW c \in Client, ReadReply(c) PROVE NoNewPlace
  BY <1>8, <1>p, <1>e, PipeData, Moves DEF ReadReply, Goto, Unsent
<1>9. ASSUME NEW c \in Client, ReadNoReply(c) PROVE NoNewPlace
  <2>1. Exits(c, "garbled") /\ UNCHANGED <<handling, done>>
    BY <1>9 DEF ReadNoReply
  <2>2. "garbled" \notin Unsent
    BY DEF Unsent
  <2> QED BY <2>1, <2>2, <1>p, <1>e, <1>c
<1>10. ASSUME NEW c \in Client, Finish(c) PROVE NoNewPlace
  <2>1. Exits(c, "answered") /\ UNCHANGED <<handling, done>>
    BY <1>10 DEF Finish
  <2>2. "answered" \notin Unsent
    BY DEF Unsent
  <2> QED BY <2>1, <2>2, <1>p, <1>e, <1>c
<1>11. ASSUME NEW c \in Client, WriteRequest(c), ~HasReader(request) PROVE NoNewPlace
  BY <1>11, <1>p, <1>e, Moves DEF WriteRequest, Unsent
<1>12. ASSUME NEW d \in Daemon, Probe(d) PROVE NoNewPlace
  <2>1. UNCHANGED <<handling, done>> /\ request'.data = request.data
    BY <1>12, <1>p, PipeData DEF Probe
  <2>2. \E to : pc' = [pc EXCEPT ![d] = to] /\ to # "handle"
    BY <1>12 DEF Probe, Goto
  <2> QED BY <2>1, <2>2, <1>p, <1>d, Moves
<1>13. ASSUME NEW d \in Daemon, ProbeWrite(d) PROVE NoNewPlace
  <2>1. UNCHANGED <<handling, done>>
        /\ request'.data \in {request.data, << >>, Append(request.data, Nothing)}
    BY <1>13, <1>p, <1>e, PipeData DEF ProbeWrite
  <2>2. \E to : pc' = [pc EXCEPT ![d] = to] /\ to # "handle"
    BY <1>13 DEF ProbeWrite, Goto, Exits
  <2> QED BY <2>1, <2>2, <1>p, <1>d, Moves
<1>14. ASSUME NEW d \in Daemon, ProbeClose(d) PROVE NoNewPlace
  BY <1>14, <1>p, <1>e, PipeData, Moves DEF ProbeClose
<1>15. ASSUME NEW d \in Daemon, Loaded(d) PROVE NoNewPlace
  BY <1>15, <1>p, <1>e, PipeData, Moves DEF Loaded, Goto
<1>16. ASSUME NEW d \in Daemon, OpenRequest(d) PROVE NoNewPlace
  BY <1>16, <1>p, <1>e, PipeData, Moves DEF OpenRequest, Goto
<1>17. ASSUME NEW d \in Daemon, ReadNothing(d) PROVE NoNewPlace
  <2>1. CASE Exits(d, "off") /\ Forgets(d) /\ done' = done
    BY <2>1, <1>p, <1>e, <1>d, Moves DEF Forgets
  <2>2. CASE /\ Goto(d, "read", "handle") /\ UNCHANGED <<request, done>>
             /\ \E any \in Op \cup {"null"} :
                  handling' = [handling EXCEPT ![d] = [op |-> any, from |-> Nobody]]
    <3>1. handling'[d].from = Nobody /\ \A x \in Daemon \ {d} : handling'[x] = handling[x]
      BY <2>2 DEF Types, TypeOK
    <3>2. Nobody \notin Client
      BY ProcessAssumption
    <3> QED BY <2>2, <3>1, <3>2, <1>p, <1>d, Moves DEF Goto
  <2> QED BY <1>17, <2>1, <2>2 DEF ReadNothing
<1>18. ASSUME NEW d \in Daemon, CloseNull(d) PROVE NoNewPlace
  BY <1>18, <1>p, <1>e, PipeData, Moves DEF CloseNull, Goto, Forgets
<1>19. ASSUME NEW d \in Daemon, OpenAnswer(d) PROVE NoNewPlace
  BY <1>19, <1>p, <1>e, PipeData, Moves DEF OpenAnswer, Goto
<1>20. ASSUME NEW d \in Daemon, WriteReply(d) PROVE NoNewPlace
  BY <1>20, <1>p, <1>e, PipeData, Moves DEF WriteReply, Goto, Forgets
<1>21. ASSUME NEW d \in Daemon, CloseReply(d) PROVE NoNewPlace
  BY <1>21, <1>p, <1>e, PipeData, Moves DEF CloseReply, Goto, Forgets
<1>22. ASSUME NEW p \in Process, Kill(p) PROVE NoNewPlace
  <2>1. /\ Exits(p, IF p \in Client THEN "killed" ELSE "off") /\ Forgets(p) /\ done' = done
    BY <1>22 DEF Kill
  <2>2. PICK to \in {"killed", "off"} : Exits(p, to)
    BY <2>1
  <2>3. \A d \in Daemon \ {p} : handling'[d] = handling[d]
    BY <2>1 DEF Forgets
  <2>4. to \notin Unsent /\ to # "handle"
    BY DEF Unsent
  <2>5. request'.data \in {request.data, << >>} /\ pc' = [pc EXCEPT ![p] = to]
    BY <2>2, <1>e
  <2>6. pc'[p] = to /\ \A q \in Process \ {p} : pc'[q] = pc[q]
    BY <2>5, Moves
  <2> QED BY <2>1, <2>3, <2>4, <2>5, <2>6, <1>p
<1>23. CASE UNCHANGED vars
  BY <1>23 DEF vars
<1> QED BY <1>1, <1>2, <1>3, <1>4, <1>5, <1>6, <1>7, <1>8, <1>9, <1>10, <1>11, <1>12, <1>13, <1>14, <1>15, <1>16, <1>17, <1>18, <1>19, <1>20, <1>21, <1>22, <1>23, <1>p
        DEF Next, ClientStep, DaemonStep

\* A request comes into the pipe from a client that had sent none.
LEMMA WriteKeeps ==
  ASSUME Types, Once, NEW c \in Client, WriteRequest(c), HasReader(request)
  PROVE  Once'
<1> DEFINE m == [op |-> op[c], from |-> c]
<1>n. PICK n \in Nat : n = Len(request.data)
  BY LenProperties DEF Types, TypeOK, Pipe
<1>1. /\ request.data \in Seq(Message) /\ m \in Message /\ n \in Nat
      /\ request \in Pipe /\ DOMAIN request.data = 1 .. n
  BY <1>n, MessageType, LenProperties DEF Types, TypeOK, Pipe
<1>2. /\ pc[c] = "build" /\ pc' = [pc EXCEPT ![c] = "close"]
      /\ request' = Put(request, m) /\ UNCHANGED <<handling, done>>
  BY DEF WriteRequest, Goto
<1>3. /\ DOMAIN request'.data = 1 .. n + 1
      /\ \A k \in 1 .. n : request'.data[k] = request.data[k]
      /\ request'.data[n + 1] = m
  <2>1. request'.data = Append(request.data, m)
    BY <1>1, <1>2, PipeData
  <2> QED BY <1>n, <1>1, <2>1, AppendProperties, LenProperties
<1>4. c \in Process /\ Daemon \subseteq Process \ {c} /\ Client \subseteq Process
  BY ProcessAssumption DEF Process
<1>5. /\ pc'[c] = "close" /\ \A q \in Process \ {c} : pc'[q] = pc[q]
  BY <1>2, <1>4, Moves
<1>6. \A x \in Client, d \in Daemon : Held(d, x)' <=> Held(d, x)
  BY <1>2, <1>4, <1>5 DEF Held
<1>7. \A x \in Client, k \in 1 .. n : InPipe(x, k)' <=> InPipe(x, k)
  BY <1>1, <1>3 DEF InPipe
<1>8. \A x \in Client : InPipe(x, n + 1)' <=> x = c
  <2>1. n + 1 \in 1 .. n + 1 /\ m.from = c
    BY <1>n
  <2> QED BY <1>3, <2>1 DEF InPipe
<1>9. /\ \A k \in 1 .. n : ~InPipe(c, k)
      /\ \A d \in Daemon : ~Held(d, c)
      /\ done[c] = 0 /\ pc[c] \in Unsent /\ pc'[c] \notin Unsent
  BY <1>1, <1>2, <1>5 DEF Once, NotSentTwice, DoneOnce, Unsent
<1>10. \A k \in 1 .. n + 1 : k \in 1 .. n \/ k = n + 1
  BY <1>1
<1> HIDE DEF m
<1>11. OnePlace'
  BY <1>1, <1>3, <1>6, <1>7, <1>8, <1>9, <1>10 DEF Once, OnePlace
<1>12. NotSentTwice'
  BY <1>1, <1>3, <1>4, <1>5, <1>6, <1>7, <1>8, <1>9, <1>10 DEF Once, NotSentTwice
<1>13. DoneOnce'
  <2> SUFFICES ASSUME NEW x \in Client
               PROVE  /\ done[x] <= 1
                      /\ \/ pc'[x] \in Unsent
                         \/ \E k \in 1 .. n + 1 : InPipe(x, k)'
                         \/ \E d \in Daemon : Held(d, x)'
                         => done[x] = 0
    BY <1>2, <1>3 DEF DoneOnce
  <2>1. CASE x = c
    BY <2>1, <1>9
  <2>2. CASE x # c
    BY <2>2, <1>1, <1>4, <1>5, <1>6, <1>7, <1>8, <1>10 DEF Once, DoneOnce
  <2> QED BY <2>1, <2>2
<1> QED BY <1>11, <1>12, <1>13 DEF Once

\* A request goes from the head of the pipe to the daemon that reads it.
LEMMA ReadKeeps ==
  ASSUME Types, Once, NEW d \in Daemon, ReadRequest(d)
  PROVE  Once'
<1> DEFINE n == Len(request.data)
<1>1. /\ request.data \in Seq(Message) /\ request.data # << >> /\ n \in Nat
      /\ request \in Pipe /\ DOMAIN request.data = 1 .. n
  BY LenProperties DEF Types, TypeOK, Pipe, ReadRequest
<1>2. /\ pc[d] = "read" /\ pc' = [pc EXCEPT ![d] = "handle"]
      /\ handling' = [handling EXCEPT ![d] = Head(request.data)]
      /\ request' = Take(request) /\ done' = done
  BY DEF ReadRequest, Goto
<1>3. /\ n # 0 /\ Head(request.data) = request.data[1]
      /\ DOMAIN request'.data = 1 .. n - 1
      /\ \A k \in 1 .. n - 1 : request'.data[k] = request.data[k + 1]
  <2>1. request'.data = Tail(request.data)
    BY <1>1, <1>2, PipeData
  <2>2. n # 0
    BY <1>1, EmptySeq
  <2>3. Tail(request.data) \in Seq(Message) /\ Len(Tail(request.data)) = n - 1
        /\ \A k \in 1 .. n - 1 : Tail(request.data)[k] = request.data[k + 1]
    BY <1>1, HeadTailProperties
  <2>4. DOMAIN Tail(request.data) = 1 .. n - 1
    BY <2>3, LenProperties
  <2> QED BY <1>1, <2>1, <2>2, <2>3, <2>4
<1>4. d \in Process /\ Client \subseteq Process \ {d} /\ Daemon \subseteq Process
  BY ProcessAssumption DEF Process
<1>5. /\ pc'[d] = "handle" /\ \A q \in Process \ {d} : pc'[q] = pc[q]
  BY <1>2, <1>4, Moves
<1>6. handling'[d] = request.data[1] /\ \A e \in Daemon \ {d} : handling'[e] = handling[e]
  BY <1>2, <1>3 DEF Types, TypeOK
<1> HIDE DEF n
<1>7. \A x \in Client : Held(d, x)' <=> InPipe(x, 1)
  BY <1>1, <1>3, <1>5, <1>6 DEF Held, InPipe
<1>8. \A x \in Client, e \in Daemon \ {d} : Held(e, x)' <=> Held(e, x)
  BY <1>4, <1>5, <1>6 DEF Held
<1>9. \A x \in Client, k \in 1 .. n - 1 :
        /\ InPipe(x, k)' <=> InPipe(x, k + 1)
        /\ k + 1 \in 1 .. n /\ k + 1 # 1
  BY <1>1, <1>3 DEF InPipe
<1>10. 1 \in 1 .. n
  BY <1>1, <1>3
<1>11. OnePlace'
  <2> SUFFICES ASSUME NEW x \in Client
               PROVE  /\ \A j, k \in 1 .. n - 1 : InPipe(x, j)' /\ InPipe(x, k)' => j = k
                      /\ \A e, f \in Daemon : Held(e, x)' /\ Held(f, x)' => e = f
                      /\ \A k \in 1 .. n - 1, e \in Daemon : ~(InPipe(x, k)' /\ Held(e, x)')
    BY <1>3 DEF OnePlace
  <2>0. /\ \A j, k \in 1 .. n : InPipe(x, j) /\ InPipe(x, k) => j = k
        /\ \A e, f \in Daemon : Held(e, x) /\ Held(f, x) => e = f
        /\ \A k \in 1 .. n, e \in Daemon : ~(InPipe(x, k) /\ Held(e, x))
    BY <1>1 DEF Once, OnePlace
  <2>1. ASSUME NEW j \in 1 .. n - 1, NEW k \in 1 .. n - 1, InPipe(x, j)', InPipe(x, k)'
        PROVE  j = k
    <3>1. j + 1 = k + 1
      BY <1>9, <2>0, <2>1
    <3> QED BY <3>1, <1>1
  <2>2. \A e, f \in Daemon : Held(e, x)' /\ Held(f, x)' => e = f
    BY <1>7, <1>8, <1>10, <2>0
  <2>3. \A k \in 1 .. n - 1, e \in Daemon : ~(InPipe(x, k)' /\ Held(e, x)')
    BY <1>7, <1>8, <1>9, <1>10, <2>0
  <2> QED BY <2>1, <2>2, <2>3
<1>12. NotSentTwice'
  BY <1>1, <1>3, <1>4, <1>5, <1>7, <1>8, <1>9, <1>10 DEF Once, NotSentTwice
<1>13. DoneOnce'
  <2> SUFFICES ASSUME NEW x \in Client
               PROVE  /\ done[x] <= 1
                      /\ \/ pc'[x] \in Unsent
                         \/ \E k \in 1 .. n - 1 : InPipe(x, k)'
                         \/ \E e \in Daemon : Held(e, x)'
                         => done[x] = 0
    BY <1>2, <1>3 DEF DoneOnce
  <2> QED BY <1>1, <1>4, <1>5, <1>7, <1>8, <1>9, <1>10 DEF Once, DoneOnce
<1> QED BY <1>11, <1>12, <1>13 DEF Once

\* A request that is carried out is gone from its last place.
LEMMA HandleKeeps ==
  ASSUME Types, Once, NEW d \in Daemon, Handle(d)
  PROVE  Once'
<1>1. /\ pc[d] = "handle" /\ pc' = [pc EXCEPT ![d] = "open"]
      /\ request' = CloseEnd(request, d) /\ handling' = handling
      /\ done' = [c \in Client |-> IF c = handling[d].from THEN done[c] + 1 ELSE done[c]]
  BY DEF Handle, Goto
<1>2. d \in Process /\ Client \subseteq Process \ {d} /\ Daemon \subseteq Process
  BY ProcessAssumption DEF Process
<1>3. /\ pc'[d] = "open" /\ \A q \in Process \ {d} : pc'[q] = pc[q]
  BY <1>1, <1>2, Moves
<1>4. request'.data \in {request.data, << >>}
  BY <1>1, PipeData DEF Types, TypeOK
<1>5. \A x \in Client : \A k \in DOMAIN request'.data :
        InPipe(x, k)' => k \in DOMAIN request.data /\ InPipe(x, k)
  BY <1>4 DEF InPipe
<1>6. \A x \in Client, e \in Daemon : Held(e, x)' => e # d /\ Held(e, x)
  BY <1>1, <1>2, <1>3 DEF Held
<1>7. OnePlace'
  BY <1>5, <1>6 DEF Once, OnePlace
<1>8. NotSentTwice'
  BY <1>2, <1>3, <1>5, <1>6 DEF Once, NotSentTwice
<1>9. DoneOnce'
  <2> SUFFICES ASSUME NEW x \in Client
               PROVE  /\ done'[x] <= 1
                      /\ \/ pc'[x] \in Unsent
                         \/ \E k \in DOMAIN request'.data : InPipe(x, k)'
                         \/ \E e \in Daemon : Held(e, x)'
                         => done'[x] = 0
    BY DEF DoneOnce
  <2>1. CASE x = handling[d].from
    <3>1. Held(d, x)
      BY <1>1, <2>1 DEF Held
    <3>2. done'[x] = 1
      BY <1>1, <2>1, <3>1 DEF Once, DoneOnce
    <3>3. pc'[x] \notin Unsent
      BY <1>2, <1>3, <3>1 DEF Once, NotSentTwice
    <3>4. \A k \in DOMAIN request'.data : ~InPipe(x, k)'
      BY <1>5, <3>1 DEF Once, OnePlace
    <3>5. \A e \in Daemon : ~Held(e, x)'
      BY <1>6, <3>1 DEF Once, OnePlace
    <3> QED BY <3>2, <3>3, <3>4, <3>5
  <2>2. CASE x # handling[d].from
    <3>1. done'[x] = done[x] /\ pc'[x] = pc[x]
      BY <1>1, <1>2, <1>3, <2>2
    <3> QED BY <3>1, <1>5, <1>6 DEF Once, DoneOnce
  <2> QED BY <2>1, <2>2
<1> QED BY <1>7, <1>8, <1>9 DEF Once

-----------------------------------------------------------------------------
(* One call after the other. *)

\* One daemon, clients that run one after the other, and nobody killed.
Orderly == ~Simultaneous /\ ~CanKill /\ \E d : Daemon = {d}

\* No client has left, or hangs, with its request unwritten.
Unbroken == \A c \in Client : pc[c] \notin {"failed", "looping"}

Idle == {"new"} \cup Ended

\* From the open of the request pipe to the read of the reply.
InTouch == {"build", "close", "sent", "wait"}

\* Where the daemon is before it takes a request, and after it has answered.
Free == {"off", "load", "idle", "read", "reply"}

Asked(c) == [op |-> op[c], from |-> c]

OneCaller == \A b, c \in Client : pc[b] \notin Idle /\ pc[c] \notin Idle => b = c

\* How far the call of c has come: where its request is, or its answer.
NotWritten(c, d) == /\ pc[c] = "build" /\ pc[d] = "read" /\ done[c] = 0
                    /\ request.data = << >> /\ reply.data = << >>
Written(c, d) == /\ pc[c] \in {"close", "sent", "wait"} /\ pc[d] = "read" /\ done[c] = 0
                 /\ request.data = <<Asked(c)>> /\ reply.data = << >>
Taken(c, d) == /\ pc[c] \in {"close", "sent", "wait"} /\ pc[d] = "handle" /\ done[c] = 0
               /\ handling[d] = Asked(c) /\ request.data = << >> /\ reply.data = << >>
CarriedOut(c, d) == /\ pc[c] \in {"close", "sent", "wait"} /\ pc[d] \in {"open", "opening"}
                    /\ done[c] = 1 /\ handling[d] = Asked(c)
                    /\ request.data = << >> /\ reply.data = << >>
Replied(c, d) == /\ pc[c] = "wait" /\ pc[d] \in Free /\ done[c] = 1
                 /\ request.data = << >> /\ reply.data = <<Asked(c)>>

Exchange(c, d) == \/ NotWritten(c, d) \/ Written(c, d) \/ Taken(c, d)
                  \/ CarriedOut(c, d) \/ Replied(c, d)

\* Between two calls nothing is left in the pipes.
Alone(d) == pc[d] \in Free /\ request.data = << >> /\ reply.data = << >>

\* An open that has returned was met by the one meant: the daemon will find a
\* request to read or a client to answer, and the client its answer.
MetInTime(d) ==
  /\ pc[d] = "read" /\ d \in request.met =>
       (request.data # << >>) \/ \E c \in Client : pc[c] = "build"
  /\ pc[d] = "opening" /\ d \in reply.met => \E c \in Client : pc[c] = "wait"
  /\ \A c \in Client : pc[c] = "wait" /\ c \in reply.met =>
       pc[d] = "opening" \/ (reply.data # << >>)

\* What was done for a client that is not in touch, and what it was told.
Account(c) ==
  /\ pc[c] \in {"new", "connect", "timeout"} => done[c] = 0
  /\ pc[c] \in {"print", "answered"} => done[c] = 1 /\ got[c] = Asked(c)
  /\ pc[c] \notin {"looping", "failed", "garbled", "killed"}

InOrder ==
  /\ OneCaller
  /\ \A d \in Daemon : /\ \A c \in Client : pc[c] \in InTouch => Exchange(c, d)
                       /\ (\A c \in Client : pc[c] \notin InTouch) => Alone(d)
                       /\ MetInTime(d)
  /\ \A c \in Client : Account(c)

\* A pipe with one message.
LEMMA OneMessage ==
  ASSUME NEW m
  PROVE  /\ Append(<< >>, m) = <<m>> /\ <<m>> # << >>
         /\ Head(<<m>>) = m /\ Tail(<<m>>) = << >>
OBVIOUS

\* A close loses no message while another process has the pipe open.
LEMMA CloseData ==
  ASSUME NEW f \in Pipe, NEW p
  PROVE  /\ f.data = << >> => CloseEnd(f, p).data = << >>
         /\ \A q \in f.readers \cup f.writers : q # p => CloseEnd(f, p).data = f.data
BY DEF CloseEnd

\* A client that has broken off stays so.
LEMMA StaysBroken ==
  ASSUME Orderly, Types, [Next]_vars, Unbroken'
  PROVE  Unbroken
<1> SUFFICES ASSUME NEW c \in Client, pc[c] \in {"failed", "looping"} PROVE pc'[c] = pc[c]
  BY DEF Unbroken
<1>1. Client \subseteq Process /\ Daemon \subseteq Process /\ \A d \in Daemon : d # c
  BY ProcessAssumption DEF Process
<1>2. ASSUME NEW p \in Process, p # c, (\E to : pc' = [pc EXCEPT ![p] = to]) \/ pc' = pc
      PROVE  pc'[c] = pc[c]
  BY <1>1, <1>2 DEF Types
<1>3. ASSUME NEW b \in Client, Start(b) \/ ClientStep(b) PROVE pc'[c] = pc[c]
  <2>1. b # c
    BY <1>3 DEF Start, ClientStep, Connect, Retry, BuildFails, BuildHangs, WriteRequest, CloseRequest,
                OpenReply, ReadReply, ReadNoReply, Finish, Goto
  <2>2. (\E to : pc' = [pc EXCEPT ![b] = to]) \/ pc' = pc
    <3>1. CASE Retry(b)
      BY <3>1 DEF Retry, Goto
    <3>2. CASE WriteRequest(b)
      BY <3>2 DEF WriteRequest, Goto, Exits
    <3>3. CASE BuildFails(b) \/ ReadNoReply(b) \/ Finish(b)
      BY <3>3 DEF BuildFails, ReadNoReply, Finish, Exits
    <3>4. CASE Start(b) \/ Connect(b) \/ BuildHangs(b) \/ CloseRequest(b) \/ OpenReply(b) \/ ReadReply(b)
      BY <3>4 DEF Start, Connect, BuildHangs, CloseRequest, OpenReply, ReadReply, Goto
    <3> QED BY <1>3, <3>1, <3>2, <3>3, <3>4 DEF ClientStep
  <2> QED BY <1>1, <1>2, <2>1, <2>2
<1>4. ASSUME NEW d \in Daemon, DaemonStep(d) \/ Probe(d) PROVE pc'[c] = pc[c]
  <2>1. \E to : pc' = [pc EXCEPT ![d] = to]
    BY <1>4 DEF DaemonStep, Probe, ProbeWrite, ProbeClose, Loaded, OpenRequest, ReadRequest,
                ReadNothing, CloseNull, Handle, OpenAnswer, WriteReply, CloseReply, Goto, Exits
  <2> QED BY <1>1, <1>2, <2>1
<1>5. \A p : ~Kill(p)
  BY DEF Kill, Orderly
<1> QED BY <1>3, <1>4, <1>5 DEF Next, vars

\* No client breaks off in this step.
GoesOn == \A c \in Client : ~BuildFails(c) /\ ~BuildHangs(c)

\* Calls that are in order stay so, until a client breaks off.
LEMMA OrderKept ==
  ASSUME Orderly, Types, EndsHeld, InOrder, GoesOn, [Next]_vars
  PROVE  InOrder'
<1>d. PICK d : Daemon = {d}
  BY DEF Orderly
<1>p. /\ request \in Pipe /\ reply \in Pipe /\ Client \subseteq Process /\ Process = Client \cup {d}
      /\ d \in Daemon /\ d \in Process /\ d \notin Client
  BY <1>d, ProcessAssumption DEF Types, TypeOK, Process
<1>h. /\ HoldsItsEnds(d) /\ \A c \in Client : HoldsItsEnds(c)
      /\ request.readers \subseteq Process /\ request.writers \subseteq Process
      /\ reply.readers \subseteq Process /\ reply.writers \subseteq Process
  BY <1>p DEF EndsHeld, Pipe, Process
<1>t. pc[d] \in DaemonPc /\ \A c \in Client : pc[c] \in ClientPc
  BY <1>p DEF Types, TypeOK
\* The states InOrder allows, ...
<1>1. /\ \A c \in Client : pc[c] \in InTouch => Exchange(c, d)
      /\ (\A c \in Client : pc[c] \notin InTouch) => Alone(d)
      /\ MetInTime(d)
  BY <1>p DEF InOrder
<1>2. ASSUME NEW c \in Client, pc[c] \notin Idle
      PROVE  \A b \in Client \ {c} : pc[b] \in Idle /\ pc[b] \notin InTouch
  BY <1>2 DEF InOrder, OneCaller, Idle, InTouch, Ended
\* ... and what shows that the next state is one of them.
<1>3. ASSUME \A c \in Client : pc'[c] \in Idle \/ pc[c] \notin Idle
      PROVE  OneCaller'
  BY <1>3 DEF InOrder, OneCaller
<1>4. ASSUME NEW p \in Process, \A q \in Process \ {p} : pc'[q] = pc[q], op' = op,
             \A b \in Client \ {p} : done'[b] = done[b] /\ got'[b] = got[b],
             p \in Client => Account(p)'
      PROVE  \A c \in Client : Account(c)'
  BY <1>4, <1>p DEF InOrder, Account, Asked
<1>5. ASSUME \A c \in Client : pc'[c] \notin InTouch, Alone(d)', OneCaller',
             \A c \in Client : Account(c)', pc'[d] = "read" => d \notin request'.met
      PROVE  InOrder'
  <2>1. MetInTime(d)'
    BY <1>5 DEF MetInTime, Alone, Free, InTouch
  <2> QED BY <1>5, <1>d, <2>1 DEF InOrder
<1>6. ASSUME NEW c \in Client, pc'[c] \in InTouch, Exchange(c, d)', OneCaller',
             \A b \in Client : Account(b)',
             pc'[d] = "read" /\ d \in request'.met => (request'.data # << >>) \/ pc'[c] = "build",
             pc'[d] = "opening" /\ d \in reply'.met => pc'[c] = "wait",
             pc'[c] = "wait" /\ c \in reply'.met => pc'[d] = "opening" \/ (reply'.data # << >>)
      PROVE  InOrder'
  <2>1. \A b \in Client : pc'[b] \in InTouch => b = c
    BY <1>6 DEF OneCaller, Idle, InTouch, Ended
  <2>2. MetInTime(d)'
    BY <1>6, <2>1 DEF MetInTime, InTouch
  <2> QED BY <1>6, <1>d, <2>1, <2>2 DEF InOrder
<1>7. ASSUME NEW p \in Process, NEW from, NEW to, Goto(p, from, to)
      PROVE  pc[p] = from /\ pc'[p] = to /\ \A q \in Process \ {p} : pc'[q] = pc[q]
  BY <1>7, Moves DEF Goto
<1>8. ASSUME NEW p \in Process, NEW how, Exits(p, how)
      PROVE  pc'[p] = how /\ \A q \in Process \ {p} : pc'[q] = pc[q]
  BY <1>8, Moves DEF Exits
\* cassini.
<1>11. ASSUME NEW c \in Client, Start(c) PROVE InOrder'
  <2>1. /\ pc[c] = "new" /\ pc'[c] = "connect" /\ \A q \in Process \ {c} : pc'[q] = pc[q]
        /\ \A b \in Client : pc[b] \in Idle
        /\ UNCHANGED <<request, reply, op, got, done>>
    BY <1>11, <1>p, <1>7 DEF Start, Orderly, Idle
  <2>2. \A b \in Client : pc[b] \notin InTouch
    BY <2>1 DEF Idle, InTouch, Ended
  <2>3. (\A b \in Client : pc'[b] \notin InTouch) /\ pc'[d] = pc[d]
    BY <1>p, <2>1, <2>2 DEF InTouch
  <2>4. OneCaller'
    BY <1>p, <2>1 DEF OneCaller
  <2>5. Account(c)'
    BY <2>1 DEF InOrder, Account
  <2>6. \A b \in Client : Account(b)'
    BY <1>p, <1>4, <2>1, <2>5
  <2>7. Alone(d)'
    BY <1>1, <2>1, <2>2, <2>3 DEF Alone
  <2>8. pc'[d] = "read" => d \notin request'.met
    BY <1>1, <2>1, <2>2, <2>3 DEF MetInTime, Alone, InTouch
  <2> QED BY <1>5, <2>3, <2>4, <2>6, <2>7, <2>8
<1>12. ASSUME NEW c \in Client, Connect(c) PROVE InOrder'
  <2>1. /\ pc[c] = "connect" /\ pc'[c] = "build" /\ \A q \in Process \ {c} : pc'[q] = pc[q]
        /\ HasReader(request) /\ request' = EnterWrite(request, c)
        /\ UNCHANGED <<reply, op, got, done>>
    BY <1>12, <1>p, <1>7 DEF Connect
  <2>2. \A b \in Client : pc[b] \notin InTouch
    BY <1>2, <2>1 DEF Idle, InTouch, Ended
  <2>3. Alone(d) /\ pc'[d] = pc[d]
    BY <1>1, <1>p, <2>1, <2>2
  <2>4. pc[d] = "read"
    <3>1. PICK p \in Process : p \in request.readers
      BY <1>h, <2>1 DEF HasReader
    <3>2. p = d
      BY <1>h, <1>p, <1>t, <3>1 DEF HoldsItsEnds, ClientPc, Ended
    <3> QED BY <1>h, <2>3, <3>1, <3>2 DEF HoldsItsEnds, Alone, Free
  <2>5. request'.data = << >> /\ reply'.data = << >>
    BY <1>p, <2>1, <2>3, PipeData DEF Alone
  <2>6. Exchange(c, d)'
    BY <2>1, <2>3, <2>4, <2>5 DEF Exchange, NotWritten, InOrder, Account
  <2>7. OneCaller'
    BY <1>3, <1>p, <2>1 DEF Idle, Ended
  <2>8. \A b \in Client : Account(b)'
    BY <1>p, <1>4, <2>1 DEF Account
  <2> QED BY <1>6, <2>1, <2>3, <2>4, <2>6, <2>7, <2>8 DEF InTouch
<1>13. ASSUME NEW c \in Client, Retry(c) PROVE InOrder'
  <2>0. UNCHANGED <<request, reply, op, got, handling, done>>
    BY <1>13 DEF Retry
  <2>1. CASE pc' = pc
    BY <2>0, <2>1 DEF InOrder, OneCaller, Exchange, NotWritten, Written, Taken, CarriedOut, Replied,
                      Alone, MetInTime, Account, Asked
  <2>2. CASE pc' # pc
    <3>1. pc[c] = "connect" /\ pc'[c] = "timeout" /\ \A q \in Process \ {c} : pc'[q] = pc[q]
      BY <1>13, <1>p, <1>7, <2>2 DEF Retry
    <3>2. \A b \in Client : pc[b] \notin InTouch /\ pc'[b] \notin InTouch
      BY <1>2, <1>p, <3>1 DEF Idle, InTouch, Ended
    <3>3. OneCaller'
      BY <1>3, <1>p, <3>1 DEF Idle, Ended
    <3>4. Account(c)'
      BY <2>0, <3>1 DEF InOrder, Account
    <3>5. \A b \in Client : Account(b)'
      BY <1>p, <1>4, <2>0, <3>1, <3>4
    <3>6. Alone(d)'
      BY <1>1, <1>p, <2>0, <3>1, <3>2 DEF Alone
    <3>7. pc'[d] = "read" => d \notin request'.met
      BY <1>1, <1>p, <2>0, <3>1, <3>2 DEF MetInTime, Alone, InTouch
    <3> QED BY <1>5, <3>2, <3>3, <3>5, <3>6, <3>7
  <2> QED BY <2>1, <2>2
<1>14. ASSUME NEW c \in Client PROVE ~BuildFails(c) /\ ~BuildHangs(c)
  BY DEF GoesOn
<1>15. ASSUME NEW c \in Client, WriteRequest(c) PROVE InOrder'
  <2>1. pc[c] = "build"
    BY <1>15 DEF WriteRequest, Goto
  <2>2. NotWritten(c, d)
    BY <1>1, <2>1 DEF InTouch, Exchange, Written, Taken, CarriedOut, Replied
  <2>3. HasReader(request)
    BY <1>h, <2>2 DEF NotWritten, HoldsItsEnds, HasReader
  <2>4. /\ pc'[c] = "close" /\ \A q \in Process \ {c} : pc'[q] = pc[q]
        /\ request' = Put(request, Asked(c)) /\ UNCHANGED <<reply, op, got, done>>
    BY <1>15, <1>p, <1>7, <2>3 DEF WriteRequest, Asked
  <2>5. request'.data = <<Asked(c)>> /\ request'.data # << >>
    BY <1>p, <2>2, <2>4, PipeData, OneMessage DEF NotWritten
  <2>6. Exchange(c, d)'
    BY <1>p, <2>2, <2>4, <2>5 DEF Exchange, NotWritten, Written, Asked
  <2>7. OneCaller'
    BY <1>3, <1>p, <2>1, <2>4 DEF Idle, Ended
  <2>8. \A b \in Client : Account(b)'
    BY <1>p, <1>4, <2>4 DEF Account
  <2>9. pc'[d] = "read"
    BY <1>p, <2>2, <2>4 DEF NotWritten
  <2> QED BY <1>6, <2>4, <2>5, <2>6, <2>7, <2>8, <2>9 DEF InTouch
<1>16. ASSUME NEW c \in Client, CloseRequest(c) PROVE InOrder'
  <2>1. /\ pc[c] = "close" /\ pc'[c] = "sent" /\ \A q \in Process \ {c} : pc'[q] = pc[q]
        /\ request' = CloseEnd(request, c) /\ UNCHANGED <<reply, op, got, handling, done>>
    BY <1>16, <1>p, <1>7 DEF CloseRequest
  <2>2. Written(c, d) \/ Taken(c, d) \/ CarriedOut(c, d)
    BY <1>1, <2>1 DEF InTouch, Exchange, NotWritten, Replied
  <2>3. request'.data = request.data
    <3>1. CASE Written(c, d)
      BY <1>h, <1>p, <2>1, <3>1, CloseData DEF Written, HoldsItsEnds
    <3>2. CASE Taken(c, d) \/ CarriedOut(c, d)
      BY <1>p, <2>1, <3>2, CloseData DEF Taken, CarriedOut
    <3> QED BY <2>2, <3>1, <3>2
  <2>4. pc'[d] = pc[d]
    BY <1>p, <2>1
  <2>5. Exchange(c, d)'
    BY <2>1, <2>2, <2>3, <2>4 DEF Exchange, Written, Taken, CarriedOut, Asked
  <2>6. OneCaller'
    BY <1>3, <1>p, <2>1 DEF Idle, Ended
  <2>7. \A b \in Client : Account(b)'
    BY <1>p, <1>4, <2>1 DEF Account
  <2>8. pc'[d] = "read" => request'.data # << >>
    BY <2>2, <2>3, <2>4, OneMessage DEF Written, Taken, CarriedOut
  <2>9. ~(pc'[d] = "opening" /\ d \in reply'.met)
    <3>1. \A b \in Client \ {c} : pc[b] \notin InTouch
      BY <1>2, <2>1 DEF Idle, Ended
    <3> QED BY <1>1, <2>1, <2>4, <3>1 DEF MetInTime, InTouch
  <2> QED BY <1>6, <2>1, <2>5, <2>6, <2>7, <2>8, <2>9 DEF InTouch
<1>17. ASSUME NEW c \in Client, OpenReply(c) PROVE InOrder'
  <2>1. /\ pc[c] = "sent" /\ pc'[c] = "wait" /\ \A q \in Process \ {c} : pc'[q] = pc[q]
        /\ reply' = EnterRead(reply, c) /\ UNCHANGED <<request, op, got, handling, done>>
    BY <1>17, <1>p, <1>7 DEF OpenReply
  <2>2. Written(c, d) \/ Taken(c, d) \/ CarriedOut(c, d)
    BY <1>1, <2>1 DEF InTouch, Exchange, NotWritten, Replied
  <2>3. reply'.data = reply.data /\ pc'[d] = pc[d]
    BY <1>p, <2>1, PipeData
  <2>4. Exchange(c, d)'
    BY <2>1, <2>2, <2>3 DEF Exchange, Written, Taken, CarriedOut, Asked
  <2>5. OneCaller'
    BY <1>3, <1>p, <2>1 DEF Idle, Ended
  <2>6. \A b \in Client : Account(b)'
    BY <1>p, <1>4, <2>1 DEF Account
  <2>7. pc'[d] = "read" => request'.data # << >>
    BY <2>1, <2>2, <2>3, OneMessage DEF Written, Taken, CarriedOut
  <2>8. c \in reply'.met => pc'[d] = "opening"
    <3>1. c \notin reply.met
      BY <1>h, <2>1 DEF HoldsItsEnds
    <3>2. reply.writers = {} => reply'.met = reply.met
      BY <1>p, <2>1, EnterReadEnds
    <3>3. ASSUME NEW p \in Process, p \in reply.writers PROVE pc[d] = "opening"
      <4>1. p = d /\ pc[d] \in {"opening", "reply"}
        BY <1>h, <1>p, <1>t, <3>3 DEF HoldsItsEnds, ClientPc, Ended
      <4> QED BY <4>1, <2>2 DEF Written, Taken, CarriedOut
    <3> QED BY <1>h, <2>3, <3>1, <3>2, <3>3
  <2> QED BY <1>6, <2>1, <2>4, <2>5, <2>6, <2>7, <2>8 DEF InTouch
<1>18. ASSUME NEW c \in Client, ReadReply(c) PROVE InOrder'
  <2>1. /\ pc[c] = "wait" /\ pc'[c] = "print" /\ \A q \in Process \ {c} : pc'[q] = pc[q]
        /\ reply.data # << >> /\ reply' = Take(reply) /\ UNCHANGED <<request, op, done>>
        /\ got' = [got EXCEPT ![c] = Head(reply.data)]
    BY <1>18, <1>p, <1>7 DEF ReadReply
  <2>2. Replied(c, d)
    BY <1>1, <2>1 DEF InTouch, Exchange, NotWritten, Written, Taken, CarriedOut
  <2>3. reply'.data = << >> /\ Head(reply.data) = Asked(c)
    BY <1>p, <2>1, <2>2, PipeData, OneMessage DEF Replied
  <2>4. got'[c] = Asked(c) /\ \A b \in Client \ {c} : got'[b] = got[b]
    BY <2>1, <2>3 DEF Types, TypeOK
  <2>5. Account(c)'
    BY <2>1, <2>2, <2>4 DEF Account, Replied, Asked
  <2>6. \A b \in Client : Account(b)'
    BY <1>p, <1>4, <2>1, <2>4, <2>5
  <2>7. OneCaller'
    BY <1>3, <1>p, <2>1 DEF Idle, Ended
  <2>8. \A b \in Client : pc'[b] \notin InTouch
    BY <1>2, <1>p, <2>1 DEF Idle, InTouch, Ended
  <2>9. Alone(d)'
    BY <1>p, <2>1, <2>2, <2>3 DEF Alone, Replied
  <2>10. pc'[d] = "read" => d \notin request'.met
    <3>1. \A b \in Client : pc[b] # "build"
      BY <1>2, <2>1 DEF Idle, InTouch, Ended
    <3> QED BY <1>1, <1>p, <2>1, <2>2, <3>1 DEF MetInTime, Replied
  <2> QED BY <1>5, <2>6, <2>7, <2>8, <2>9, <2>10
<1>19. ASSUME NEW c \in Client PROVE ~ReadNoReply(c)
  <2> SUFFICES ASSUME ReadNoReply(c) PROVE FALSE
    OBVIOUS
  <2>1. pc[c] = "wait" /\ c \in reply.met /\ reply.data = << >> /\ reply.writers = {}
    BY DEF ReadNoReply, Opened, AtEnd
  <2>2. pc[d] = "opening"
    BY <1>1, <2>1 DEF MetInTime
  <2> QED BY <1>h, <2>1, <2>2 DEF HoldsItsEnds
<1>20. ASSUME NEW c \in Client, Finish(c) PROVE InOrder'
  <2>1. /\ pc[c] = "print" /\ pc'[c] = "answered" /\ \A q \in Process \ {c} : pc'[q] = pc[q]
        /\ request' = CloseEnd(request, c) /\ reply' = CloseEnd(reply, c)
        /\ UNCHANGED <<op, got, done>>
    BY <1>20, <1>p, <1>8 DEF Finish, Exits
  <2>2. \A b \in Client : pc[b] \notin InTouch /\ pc'[b] \notin InTouch
    BY <1>2, <1>p, <2>1 DEF Idle, InTouch, Ended
  <2>3. Account(c)'
    BY <2>1 DEF InOrder, Account, Asked
  <2>4. \A b \in Client : Account(b)'
    BY <1>p, <1>4, <2>1, <2>3
  <2>5. OneCaller'
    BY <1>3, <1>p, <2>1 DEF Idle, Ended
  <2>6. Alone(d)'
    BY <1>1, <1>p, <2>1, <2>2, CloseData DEF Alone
  <2>7. pc'[d] = "read" => d \notin request'.met
    BY <1>1, <1>p, <2>1, <2>2, CloseEnds DEF MetInTime, Alone, InTouch
  <2> QED BY <1>5, <2>2, <2>4, <2>5, <2>6, <2>7
\* saturnd.  A step of the daemon leaves the clients where they are.
<1>30. ASSUME NEW from, NEW to, Goto(d, from, to), op' = op, got' = got
       PROVE  /\ pc[d] = from /\ pc'[d] = to /\ OneCaller'
              /\ \A b \in Client : pc'[b] = pc[b]
              /\ (\A b \in Client : pc[b] \in {"new", "connect", "timeout", "print", "answered"} => done'[b] = done[b])
                   => \A b \in Client : Account(b)'
  <2>1. pc[d] = from /\ pc'[d] = to /\ \A b \in Client : pc'[b] = pc[b]
    BY <1>30, <1>7, <1>p
  <2> QED BY <1>30, <1>3, <2>1 DEF InOrder, Account, Asked
\* While it is free, the daemon moves without touching the pipes' messages.
<1>31. ASSUME NEW from \in Free, NEW to \in Free, Goto(d, from, to),
              UNCHANGED <<op, got, done>>,
              request'.data = request.data, reply'.data = reply.data,
              from # "read", to = "read" => d \notin request'.met, reply'.met \subseteq reply.met
       PROVE  InOrder'
  <2>1. /\ pc[d] = from /\ pc'[d] = to /\ OneCaller'
        /\ \A b \in Client : pc'[b] = pc[b]
        /\ \A b \in Client : Account(b)'
    BY <1>30, <1>31
  <2>2. CASE \A b \in Client : pc[b] \notin InTouch
    <3>1. Alone(d)'
      BY <1>1, <1>31, <2>1, <2>2 DEF Alone
    <3> QED BY <1>5, <1>31, <2>1, <2>2, <3>1
  <2>3. ASSUME NEW c \in Client, pc[c] \in InTouch PROVE InOrder'
    <3>1. Replied(c, d)
      BY <1>1, <1>31, <2>1, <2>3 DEF Exchange, NotWritten, Written, Taken, CarriedOut, Free
    <3>2. Exchange(c, d)'
      BY <1>31, <2>1, <3>1 DEF Exchange, Replied, Asked
    <3>3. reply'.data # << >> /\ pc'[d] # "opening"
      BY <1>31, <2>1, <3>1, OneMessage DEF Replied, Free
    <3> QED BY <1>6, <1>31, <2>1, <2>3, <3>2, <3>3
  <2> QED BY <2>2, <2>3
<1>32. ASSUME pc[d] \notin Free, NEW where, pc[d] = where,
              where \notin {"handle", "open", "opening"}
       PROVE  FALSE
  <2>1. PICK c \in Client : pc[c] \in InTouch
    BY <1>1, <1>32 DEF Alone
  <2> QED BY <1>1, <1>32, <2>1 DEF Exchange, NotWritten, Written, Taken, CarriedOut, Replied, Free
<1>33. ASSUME pc[d] \notin Free
       PROVE  \E c \in Client : /\ pc[c] \in InTouch /\ \A b \in Client \ {c} : pc[b] \in Idle /\ pc[b] \notin InTouch
                                /\ Taken(c, d) \/ CarriedOut(c, d)
  <2>1. PICK c \in Client : pc[c] \in InTouch
    BY <1>1, <1>33 DEF Alone
  <2>2. Taken(c, d) \/ CarriedOut(c, d)
    BY <1>1, <1>33, <2>1 DEF Exchange, NotWritten, Written, Replied, Free
  <2>3. pc[c] \notin Idle
    BY <2>1 DEF InTouch, Idle, Ended
  <2> QED BY <1>2, <2>1, <2>2, <2>3
<1>41. ASSUME Probe(d) PROVE InOrder'
  <2>1. pc[d] = "off"
    BY <1>41 DEF Probe, Goto
  <2>2. ~HasReader(request)
    <3> SUFFICES ASSUME NEW p \in Process, p \in request.readers PROVE FALSE
      BY <1>h DEF HasReader
    <3>1. p = d
      BY <1>h, <1>p, <1>t DEF HoldsItsEnds, ClientPc, Ended
    <3> QED BY <1>h, <2>1, <3>1 DEF HoldsItsEnds
  <2> QED BY <1>41, <1>31, <2>2 DEF Probe, Free
<1>42. ~ProbeWrite(d) /\ ~ProbeClose(d)
  BY <1>32 DEF ProbeWrite, ProbeClose, Goto, Free
<1>43. ASSUME Loaded(d) PROVE InOrder'
  BY <1>43, <1>31 DEF Loaded, Free
<1>44. ASSUME OpenRequest(d) PROVE InOrder'
  <2>1. /\ pc[d] = "idle" /\ Goto(d, "idle", "read") /\ request' = EnterRead(request, d)
        /\ UNCHANGED <<reply, op, got, done>>
    BY <1>44 DEF OpenRequest, Goto
  <2>2. request.writers = {}
    <3> SUFFICES ASSUME NEW p \in Process, p \in request.writers PROVE FALSE
      BY <1>h
    <3>1. p \in Client /\ pc[p] \in {"build", "looping", "close"}
      BY <1>h, <1>p, <1>t, <2>1 DEF HoldsItsEnds, ClientPc, Ended
    <3>2. pc[p] \in InTouch
      BY <3>1 DEF InOrder, Account, InTouch
    <3> QED BY <1>1, <2>1, <3>1, <3>2 DEF Exchange, NotWritten, Written, Taken, CarriedOut, Replied
  <2>3. d \notin request'.met
    <3>1. d \notin request.met
      BY <1>h, <2>1, <2>2 DEF HoldsItsEnds
    <3> QED BY <1>p, <2>1, <2>2, <3>1, EnterReadEnds
  <2>4. request'.data = request.data
    BY <1>p, <2>1, PipeData
  <2> QED BY <1>31, <2>1, <2>3, <2>4 DEF Free
<1>45. ASSUME ReadRequest(d) PROVE InOrder'
  <2>1. /\ pc[d] = "read" /\ request.data # << >> /\ Goto(d, "read", "handle")
        /\ handling' = [handling EXCEPT ![d] = Head(request.data)]
        /\ request' = Take(request) /\ UNCHANGED <<reply, op, got, done>>
    BY <1>45 DEF ReadRequest, Goto
  <2>2. PICK c \in Client : pc[c] \in InTouch
    BY <1>1, <2>1 DEF Alone
  <2>3. Written(c, d)
    BY <1>1, <2>1, <2>2 DEF Exchange, NotWritten, Taken, CarriedOut, Replied
  <2>4. handling'[d] = Asked(c)
    BY <1>p, <2>1, <2>3, OneMessage DEF Written, Types, TypeOK
  <2>5. request'.data = << >>
    BY <1>p, <2>1, <2>3, PipeData, OneMessage DEF Written
  <2>6. /\ pc'[d] = "handle" /\ OneCaller' /\ pc'[c] = pc[c] /\ \A b \in Client : Account(b)'
    BY <1>30, <2>1
  <2>7. Exchange(c, d)'
    BY <2>1, <2>3, <2>4, <2>5, <2>6 DEF Exchange, Written, Taken, Asked
  <2>8. c \notin reply'.met \/ pc[c] # "wait"
    BY <1>1, <2>1, <2>3 DEF MetInTime, Written
  <2> QED BY <1>6, <2>2, <2>6, <2>7, <2>8
<1>46. ~ReadNothing(d)
  <2> SUFFICES ASSUME ReadNothing(d) PROVE FALSE
    OBVIOUS
  <2>1. pc[d] = "read" /\ d \in request.met /\ request.data = << >> /\ request.writers = {}
    BY DEF ReadNothing, Opened, AtEnd, Goto
  <2>2. PICK c \in Client : pc[c] = "build"
    BY <1>1, <2>1 DEF MetInTime
  <2> QED BY <1>h, <2>1, <2>2 DEF HoldsItsEnds
<1>47. ~CloseNull(d)
  <2> SUFFICES ASSUME CloseNull(d) PROVE FALSE
    OBVIOUS
  <2>1. pc[d] = "handle" /\ handling[d].op = "null"
    BY DEF CloseNull, Goto
  <2>2. PICK c \in Client : Taken(c, d)
    BY <1>33, <2>1 DEF Free, CarriedOut
  <2>3. op[c] \in Op
    BY DEF Types, TypeOK
  <2> QED BY <2>1, <2>2, <2>3, OpAssumption DEF Taken, Asked
<1>48. ASSUME Handle(d) PROVE InOrder'
  <2>1. /\ pc[d] = "handle" /\ Goto(d, "handle", "open") /\ request' = CloseEnd(request, d)
        /\ done' = [c \in Client |-> IF c = handling[d].from THEN done[c] + 1 ELSE done[c]]
        /\ UNCHANGED <<reply, op, got, handling>>
    BY <1>48 DEF Handle, Goto
  <2>2. PICK c \in Client : /\ pc[c] \in InTouch /\ Taken(c, d)
                            /\ \A b \in Client \ {c} : pc[b] \in Idle /\ pc[b] \notin InTouch
    BY <1>33, <2>1 DEF Free, CarriedOut
  <2>3. done'[c] = 1 /\ \A b \in Client \ {c} : done'[b] = done[b]
    BY <2>1, <2>2 DEF Taken, Asked
  <2>4. request'.data = << >>
    BY <1>p, <2>1, <2>2, CloseData DEF Taken
  <2>5. \A b \in Client : pc[b] \in {"new", "connect", "timeout", "print", "answered"} => done'[b] = done[b]
    BY <2>2, <2>3 DEF InTouch
  <2>6. pc'[d] = "open" /\ OneCaller' /\ pc'[c] = pc[c] /\ \A b \in Client : Account(b)'
    BY <1>30, <2>1, <2>5
  <2>7. Exchange(c, d)'
    BY <2>1, <2>2, <2>3, <2>4, <2>6 DEF Exchange, Taken, CarriedOut, Asked
  <2>8. c \notin reply'.met \/ pc[c] # "wait"
    BY <1>1, <2>1, <2>2 DEF MetInTime, Taken
  <2> QED BY <1>6, <2>2, <2>6, <2>7, <2>8
<1>49. ASSUME OpenAnswer(d) PROVE InOrder'
  <2>1. /\ pc[d] = "open" /\ Goto(d, "open", "opening") /\ reply' = EnterWrite(reply, d)
        /\ UNCHANGED <<request, op, got, handling, done>>
    BY <1>49 DEF OpenAnswer, Goto
  <2>2. PICK c \in Client : /\ pc[c] \in InTouch /\ CarriedOut(c, d)
                            /\ \A b \in Client \ {c} : pc[b] \in Idle /\ pc[b] \notin InTouch
    BY <1>33, <2>1 DEF Free, Taken
  <2>3. reply'.data = << >>
    BY <1>p, <2>1, <2>2, PipeData DEF CarriedOut
  <2>4. pc'[d] = "opening" /\ OneCaller' /\ pc'[c] = pc[c] /\ \A b \in Client : Account(b)'
    BY <1>30, <2>1
  <2>5. Exchange(c, d)'
    BY <2>1, <2>2, <2>3, <2>4 DEF Exchange, CarriedOut, Asked
  <2>6. d \in reply'.met => pc[c] = "wait"
    <3>1. d \notin reply.met
      BY <1>h, <2>1 DEF HoldsItsEnds
    <3>2. reply.readers = {} => reply'.met = reply.met
      BY <1>p, <2>1, EnterWriteEnds
    <3>3. ASSUME NEW p \in Process, p \in reply.readers PROVE pc[c] = "wait"
      <4>1. p \in Client /\ pc[p] \in {"wait", "print"}
        BY <1>h, <1>p, <2>1, <3>3 DEF HoldsItsEnds
      <4>2. p = c
        BY <2>2, <4>1 DEF Idle, Ended
      <4> QED BY <2>2, <4>1, <4>2 DEF InTouch
    <3> QED BY <1>h, <3>1, <3>2, <3>3
  <2> QED BY <1>6, <2>2, <2>4, <2>5, <2>6
<1>50. ASSUME WriteReply(d) PROVE InOrder'
  <2>1. pc[d] = "opening" /\ d \in reply.met
    BY <1>50 DEF WriteReply, Goto, Opened
  <2>2. PICK c \in Client : /\ pc[c] \in InTouch /\ CarriedOut(c, d)
                            /\ \A b \in Client \ {c} : pc[b] \in Idle /\ pc[b] \notin InTouch
    BY <1>33, <2>1 DEF Free, Taken
  <2>3. pc[c] = "wait"
    <3>1. PICK b \in Client : pc[b] = "wait"
      BY <1>1, <2>1 DEF MetInTime
    <3>2. b = c
      BY <2>2, <3>1 DEF InTouch
    <3> QED BY <3>1, <3>2
  <2>4. HasReader(reply)
    BY <1>h, <2>3 DEF HoldsItsEnds, HasReader
  <2>5. /\ Goto(d, "opening", "reply") /\ reply' = Put(reply, handling[d])
        /\ UNCHANGED <<request, op, got, handling, done>>
    BY <1>50, <2>4 DEF WriteReply
  <2>6. reply'.data = <<Asked(c)>> /\ reply'.data # << >>
    BY <1>p, <2>2, <2>5, PipeData, OneMessage DEF CarriedOut
  <2>7. pc'[d] = "reply" /\ OneCaller' /\ pc'[c] = pc[c] /\ \A b \in Client : Account(b)'
    BY <1>30, <2>5
  <2>8. Exchange(c, d)'
    BY <2>2, <2>3, <2>5, <2>6, <2>7 DEF Exchange, CarriedOut, Replied, Free, Asked
  <2> QED BY <1>6, <2>2, <2>6, <2>7, <2>8
<1>51. ASSUME CloseReply(d) PROVE InOrder'
  <2>1. PICK to \in {"off", "idle"} : Goto(d, "reply", to)
    BY <1>51 DEF CloseReply
  <2>2. reply' = CloseEnd(reply, d) /\ UNCHANGED <<request, op, got, done>>
    BY <1>51 DEF CloseReply
  <2>3. reply'.data = reply.data
    <3>1. CASE \A c \in Client : pc[c] \notin InTouch
      BY <1>1, <1>p, <2>2, <3>1, CloseData DEF Alone
    <3>2. ASSUME NEW c \in Client, pc[c] \in InTouch PROVE reply'.data = reply.data
      <4>1. Replied(c, d)
        BY <1>1, <2>1, <3>2 DEF Goto, Exchange, NotWritten, Written, Taken, CarriedOut
      <4>2. c \in reply.readers /\ c # d
        BY <1>h, <1>p, <4>1 DEF HoldsItsEnds, Replied
      <4> QED BY <1>p, <2>2, <4>2, CloseData
    <3> QED BY <3>1, <3>2
  <2>4. reply'.met \subseteq reply.met
    BY <1>p, <2>2, CloseEnds
  <2> QED BY <1>31, <2>1, <2>2, <2>3, <2>4 DEF Free
<1>60. \A p : ~Kill(p)
  BY DEF Kill, Orderly
<1>61. CASE UNCHANGED vars
  BY <1>61 DEF vars, InOrder, OneCaller, Exchange, NotWritten, Written, Taken, CarriedOut, Replied,
               Alone, MetInTime, Account, Asked
<1> QED BY <1>d, <1>11, <1>12, <1>13, <1>14, <1>15, <1>16, <1>17, <1>18, <1>19, <1>20, <1>41, <1>42, <1>43, <1>44,
           <1>45, <1>46, <1>47, <1>48, <1>49, <1>50, <1>51, <1>60, <1>61
        DEF Next, ClientStep, DaemonStep

-----------------------------------------------------------------------------
(* The two pipes give remote calls. *)

\* How a call stands, as pc and done tell it.
LEMMA CallTable ==
  ASSUME NEW c
  PROVE  /\ pc[c] = "new" => CallOf(c) = "new"
         /\ pc[c] \in {"answered", "print"} /\ got[c].from = c => CallOf(c) = "answered"
         /\ pc[c] = "timeout" /\ done[c] = 0 => CallOf(c) = "refused"
         /\ pc[c] \in {"connect", "build", "close", "sent", "wait"} /\ done[c] = 0 => CallOf(c) = "asked"
         /\ pc[c] \in {"close", "sent", "wait"} /\ done[c] = 1 => CallOf(c) = "done"
BY DEF CallOf

\* A step from calls in order is a step of a call, or of none.
LEMMA CallStep ==
  ASSUME Orderly, ~BadTiming, Types, EndsHeld, InOrder, InOrder', [Next]_vars
  PROVE  [C!Next]_call
<1>p. Client \subseteq Process /\ Daemon \subseteq Process /\ Client \cap Daemon = {}
  BY ProcessAssumption DEF Process
<1>t. ASSUME NEW c
      PROVE  /\ pc'[c] = "new" => CallOf(c)' = "new"
             /\ pc'[c] \in {"answered", "print"} /\ got'[c].from = c => CallOf(c)' = "answered"
             /\ pc'[c] = "timeout" /\ done'[c] = 0 => CallOf(c)' = "refused"
             /\ pc'[c] \in {"connect", "build", "close", "sent", "wait"} /\ done'[c] = 0
                  => CallOf(c)' = "asked"
             /\ pc'[c] \in {"close", "sent", "wait"} /\ done'[c] = 1 => CallOf(c)' = "done"
  BY DEF CallOf
\* What one client does changes its own call alone.
<1>1. ASSUME NEW c \in Client, \A b \in Client \ {c} : CallOf(b)' = CallOf(b),
             NEW to, CallOf(c)' = to
      PROVE  /\ call' = [call EXCEPT ![c] = to]
             /\ to = CallOf(c) => call' = call
  BY <1>1 DEF call
<1>2. ASSUME NEW c \in Client, \A b \in Client \ {c} : CallOf(b)' = CallOf(b),
             \/ CallOf(c)' = CallOf(c)
             \/ CallOf(c) = "new" /\ CallOf(c)' = "asked"
             \/ CallOf(c) = "asked" /\ CallOf(c)' = "done"
             \/ CallOf(c) = "done" /\ CallOf(c)' = "answered"
             \/ CallOf(c) = "asked" /\ CallOf(c)' = "refused"
      PROVE  [C!Next]_call
  <2>1. call[c] = CallOf(c)
    BY DEF call
  <2>2. call' = [call EXCEPT ![c] = CallOf(c)'] /\ (CallOf(c)' = CallOf(c) => call' = call)
    BY <1>1, <1>2
  <2>3. CASE CallOf(c)' = CallOf(c)
    BY <2>2, <2>3
  <2>4. CASE CallOf(c) = "new" /\ CallOf(c)' = "asked"
    BY <2>1, <2>2, <2>4 DEF C!Next, C!Ask
  <2>5. CASE CallOf(c) = "asked" /\ CallOf(c)' = "done"
    BY <2>1, <2>2, <2>5 DEF C!Next, C!Do
  <2>6. CASE CallOf(c) = "done" /\ CallOf(c)' = "answered"
    BY <2>1, <2>2, <2>6 DEF C!Next, C!Answer
  <2>7. CASE CallOf(c) = "asked" /\ CallOf(c)' = "refused"
    BY <2>1, <2>2, <2>7 DEF C!Next, C!Refuse
  <2> QED BY <1>2, <2>3, <2>4, <2>5, <2>6, <2>7
\* cassini.
<1>3. ASSUME NEW c \in Client, \A q \in Process \ {c} : pc'[q] = pc[q],
             \A b \in Client \ {c} : got'[b] = got[b], done' = done
      PROVE  \A b \in Client \ {c} : CallOf(b)' = CallOf(b)
  BY <1>3, <1>p DEF CallOf
<1>4. ASSUME NEW p \in Process, NEW from, NEW to, Goto(p, from, to)
      PROVE  pc[p] = from /\ pc'[p] = to /\ \A q \in Process \ {p} : pc'[q] = pc[q]
  BY <1>4, Moves DEF Goto
<1>5. ASSUME NEW c \in Client
      PROVE  /\ pc[c] \in {"new", "connect", "timeout"} => done[c] = 0
             /\ pc'[c] \in {"new", "connect", "timeout"} => done'[c] = 0
             /\ pc[c] \in {"print", "answered"} => got[c].from = c
             /\ pc'[c] \in {"print", "answered"} => got'[c].from = c
  <2>1. Asked(c).from = c /\ Asked(c)'.from = c
    BY DEF Asked
  <2>2. Account(c) /\ Account(c)'
    BY DEF InOrder
  <2> QED BY <2>1, <2>2 DEF Account
<1>6. PICK d : Daemon = {d}
  BY DEF Orderly
<1>7. ASSUME NEW c \in Client, pc[c] \in InTouch
      PROVE  /\ done[c] \in {0, 1}
             /\ pc[c] = "build" => done[c] = 0
             /\ pc[c] = "wait" /\ reply.data # << >> => done[c] = 1
  <2>1. Exchange(c, d)
    BY <1>6, <1>7 DEF InOrder
  <2> QED BY <2>1 DEF Exchange, NotWritten, Written, Taken, CarriedOut, Replied
<1>11. ASSUME NEW c \in Client, Start(c) PROVE [C!Next]_call
  <2>1. /\ pc[c] = "new" /\ pc'[c] = "connect" /\ \A q \in Process \ {c} : pc'[q] = pc[q]
        /\ UNCHANGED <<got, done>>
    BY <1>11, <1>p, <1>4 DEF Start
  <2> QED BY <1>2, <1>3, <1>5, <1>t, <2>1, CallTable
<1>12. ASSUME NEW c \in Client, Connect(c) \/ WriteRequest(c) \/ CloseRequest(c) \/ OpenReply(c)
       PROVE  [C!Next]_call
  <2>1. /\ pc[c] \in {"connect", "build", "close", "sent"} /\ UNCHANGED <<got, done>>
        /\ \E to \in {"build", "close", "sent", "wait"} :
             /\ pc'[c] = to /\ \A q \in Process \ {c} : pc'[q] = pc[q]
             /\ to = "build" => pc[c] = "connect"
             /\ to = "close" => pc[c] = "build"
    <3>1. ASSUME Exits(c, "failed") PROVE pc'[c] = "failed"
      BY <3>1, <1>p, Moves DEF Exits
    <3>2. pc'[c] # "failed"
      BY DEF InOrder, Account
    <3>3. \/ Goto(c, "connect", "build") \/ Goto(c, "build", "close")
          \/ Goto(c, "close", "sent") \/ Goto(c, "sent", "wait")
      BY <1>12, <3>1, <3>2 DEF Connect, WriteRequest, CloseRequest, OpenReply
    <3>4. UNCHANGED <<got, done>>
      BY <1>12 DEF Connect, WriteRequest, CloseRequest, OpenReply
    <3> QED BY <1>p, <1>4, <3>3, <3>4
  <2>2. /\ done[c] \in {0, 1}
        /\ pc[c] \in {"connect", "build"} => done[c] = 0
    BY <1>5, <1>7, <2>1 DEF InTouch
  <2>3. CASE done[c] = 0
    <3>1. CallOf(c) = "asked" /\ CallOf(c)' = "asked"
      BY <1>t, <2>1, <2>3, CallTable
    <3> QED BY <1>2, <1>3, <2>1, <3>1
  <2>4. CASE done[c] = 1
    <3>1. pc[c] \in {"close", "sent"}
      BY <2>1, <2>2, <2>4
    <3>2. pc'[c] \in {"sent", "wait"} /\ done'[c] = 1
      BY <2>1, <2>4, <3>1
    <3>3. CallOf(c) = "done" /\ CallOf(c)' = "done"
      BY <1>t, <2>4, <3>1, <3>2, CallTable
    <3> QED BY <1>2, <1>3, <2>1, <3>3
  <2> QED BY <2>2, <2>3, <2>4
<1>13. ASSUME NEW c \in Client, Retry(c) PROVE [C!Next]_call
  <2>1. UNCHANGED <<got, done>>
    BY <1>13 DEF Retry
  <2>2. CASE pc' = pc
    BY <2>1, <2>2 DEF call, CallOf
  <2>3. CASE pc' # pc
    <3>1. pc[c] = "connect" /\ pc'[c] = "timeout" /\ \A q \in Process \ {c} : pc'[q] = pc[q]
      BY <1>13, <1>p, <1>4, <2>3 DEF Retry
    <3> QED BY <1>2, <1>3, <1>5, <1>t, <2>1, <3>1, CallTable
  <2> QED BY <2>2, <2>3
<1>14. ASSUME NEW c \in Client, ReadReply(c) PROVE [C!Next]_call
  <2>1. /\ pc[c] = "wait" /\ pc'[c] = "print" /\ \A q \in Process \ {c} : pc'[q] = pc[q]
        /\ reply.data # << >> /\ done' = done /\ \A b \in Client \ {c} : got'[b] = got[b]
    BY <1>14, <1>p, <1>4 DEF ReadReply, Types, TypeOK
  <2>2. CallOf(c) = "done" /\ CallOf(c)' = "answered"
    BY <1>5, <1>7, <1>t, <2>1, CallTable DEF InTouch
  <2> QED BY <1>2, <1>3, <2>1, <2>2
<1>15. ASSUME NEW c \in Client, Finish(c) PROVE [C!Next]_call
  <2>1. /\ pc[c] = "print" /\ pc'[c] = "answered" /\ \A q \in Process \ {c} : pc'[q] = pc[q]
        /\ UNCHANGED <<got, done>>
    BY <1>15, <1>p, Moves DEF Finish, Exits
  <2>2. CallOf(c) = "answered" /\ CallOf(c)' = "answered"
    BY <1>5, <1>t, <2>1, CallTable
  <2> QED BY <1>2, <1>3, <2>1, <2>2
<1>16. ASSUME NEW c \in Client PROVE ~BuildFails(c) /\ ~BuildHangs(c) /\ ~ReadNoReply(c)
  <2>1. ASSUME Exits(c, "garbled") PROVE pc'[c] = "garbled"
    BY <2>1, <1>p, Moves DEF Exits
  <2> QED BY <2>1 DEF BuildFails, BuildHangs, ReadNoReply, Orderly, InOrder, Account
<1>17. ASSUME Handle(d) PROVE [C!Next]_call
  <2>1. /\ pc[d] = "handle" /\ pc'[d] = "open" /\ got' = got
        /\ \A b \in Client : pc'[b] = pc[b]
        /\ done' = [c \in Client |-> IF c = handling[d].from THEN done[c] + 1 ELSE done[c]]
    BY <1>17, <1>6, <1>4, <1>p DEF Handle
  <2>2. PICK c \in Client : Taken(c, d)
    BY <1>6, <2>1 DEF InOrder, Alone, Free, Exchange, NotWritten, Written, CarriedOut, Replied
  <2>3. done[c] = 0 /\ done'[c] = 1 /\ \A b \in Client \ {c} : done'[b] = done[b]
    BY <2>1, <2>2 DEF Taken, Asked
  <2>4. \A b \in Client \ {c} : CallOf(b)' = CallOf(b)
    BY <2>1, <2>3 DEF CallOf
  <2>5. CallOf(c) = "asked" /\ CallOf(c)' = "done"
    BY <1>t, <2>1, <2>2, <2>3, CallTable DEF Taken
  <2> QED BY <1>2, <2>4, <2>5
<1>18. ASSUME DaemonStep(d) \/ Probe(d), ~Handle(d) PROVE [C!Next]_call
  <2>1. UNCHANGED <<got, done>>
    BY <1>18 DEF DaemonStep, Probe, ProbeWrite, ProbeClose, Loaded, OpenRequest, ReadRequest,
                 ReadNothing, CloseNull, OpenAnswer, WriteReply, CloseReply
  <2>2. \E to : pc' = [pc EXCEPT ![d] = to]
    BY <1>18 DEF DaemonStep, Probe, ProbeWrite, ProbeClose, Loaded, OpenRequest, ReadRequest,
                 ReadNothing, CloseNull, OpenAnswer, WriteReply, CloseReply, Goto, Exits
  <2>3. \A b \in Client : pc'[b] = pc[b]
    BY <1>6, <1>p, <2>2, Moves
  <2> QED BY <2>1, <2>3 DEF call, CallOf
<1>19. \A p : ~Kill(p)
  BY DEF Kill, Orderly
<1>20. CASE UNCHANGED vars
  BY <1>20 DEF vars, call, CallOf
<1> QED BY <1>6, <1>11, <1>12, <1>13, <1>14, <1>15, <1>16, <1>17, <1>18, <1>19, <1>20 DEF Next, ClientStep

-----------------------------------------------------------------------------
(* The theorems. *)

\* What holds whatever is killed, started again or run at the same time.
IInv == Types /\ EndsHeld /\ Once

\* It holds at first.
LEMMA InitIInv == Init => IInv
<1> SUFFICES ASSUME Init PROVE IInv
  OBVIOUS
<1>1. NewFifo \in Pipe
  BY EmptySeq DEF NewFifo, Pipe
<1>2. \A c \in Client : pc[c] = "new"
  BY DEF Init
<1>3. \A d \in Daemon : pc[d] = "off"
  BY ProcessAssumption DEF Init
<1>4. Types
  BY <1>1, <1>2, <1>3, BoundAssumption
     DEF Types, TypeOK, Init, Process, ClientPc, DaemonPc, Message, Nothing
<1>5. request.data = << >> /\ \A c \in Client : done[c] = 0
  BY DEF Init, NewFifo
<1>6. EndsHeld
  BY <1>2, <1>3 DEF Init, NewFifo, EndsHeld, HoldsItsEnds, Process
<1>7. Once
  BY <1>2, <1>3, <1>5 DEF Once, OnePlace, NotSentTwice, DoneOnce, InPipe, Held
<1> QED BY <1>4, <1>6, <1>7 DEF IInv

\* No step spoils it.
LEMMA NextIInv == IInv /\ [Next]_vars => IInv'
<1> SUFFICES ASSUME IInv, [Next]_vars PROVE IInv'
  OBVIOUS
<1>1. Types'
  BY TypesKept DEF IInv
<1>2. EndsHeld'
  BY EndsKept DEF IInv
<1>3. Once'
  BY FewNewPlaces, NoNewPlaceKeeps, WriteKeeps, ReadKeeps, HandleKeeps DEF IInv
<1> QED BY <1>1, <1>2, <1>3 DEF IInv

\* The inductive invariant holds in every reachable state.
THEOREM Invariance == Spec => []IInv
BY InitIInv, NextIInv, PTL DEF Spec

\* Every variable keeps the shape the code gives it, and cassini gives up after
\* Attempts attempts.
THEOREM TypeCorrect == Spec => []TypeOK
<1>1. IInv => TypeOK
  BY DEF IInv, Types
<1> QED BY <1>1, Invariance, PTL

\* Whatever is killed, started again or run at the same time, a request is carried
\* out at most once, and not at all once its client has given up.
THEOREM CarriedOutAtMostOnce == Spec => []AtMostOnce
<1>1. IInv => AtMostOnce
  BY DEF IInv, Types, TypeOK, Once, DoneOnce, AtMostOnce, Unsent
<1> QED BY <1>1, Invariance, PTL

\* Where a process is tells which ends of the pipes it has open, whatever is
\* killed: none is left open by a process that has gone.
THEOREM EndsAreHeld == Spec => []EndsHeld
<1>1. IInv => EndsHeld
  BY DEF IInv
<1> QED BY <1>1, Invariance, PTL

\* Calls are in order at first.
LEMMA InitOrder == Init => InOrder
<1> SUFFICES ASSUME Init PROVE InOrder
  OBVIOUS
<1>1. /\ \A c \in Client : pc[c] = "new" /\ done[c] = 0
      /\ \A d \in Daemon : pc[d] = "off"
      /\ request = NewFifo /\ reply = NewFifo
  BY ProcessAssumption DEF Init
<1> QED
  BY <1>1 DEF InOrder, OneCaller, Idle, InTouch, Alone, Free, MetInTime, Account, NewFifo

\* With one daemon, clients one after the other and nobody killed, calls are in
\* order in every reachable state until a client breaks off.
THEOREM OrderInvariance ==
  ASSUME Orderly
  PROVE  Spec => [](Unbroken => InOrder)
<1>1. Types /\ Unbroken' => GoesOn
  <2> SUFFICES ASSUME Types, Unbroken', NEW c \in Client, BuildFails(c) \/ BuildHangs(c) PROVE FALSE
    BY DEF GoesOn
  <2>1. c \in Process
    BY DEF Process
  <2> QED BY <2>1, Moves DEF BuildFails, BuildHangs, Unbroken, Goto, Exits
<1>2. IInv /\ (Unbroken => InOrder) /\ [Next]_vars => (Unbroken => InOrder)'
  BY <1>1, OrderKept, StaysBroken DEF IInv
<1> QED BY InitOrder, <1>2, Invariance, PTL DEF Spec

\* enonce.md:38-39: with one daemon, clients one after the other and nobody killed,
\* the daemon obeys no TERMINATE that no client has sent before a client breaks off
\* (a timing cassini refuses with the pipe open): its read of an empty pipe does not
\* happen.  Other clients may have timings as wrong as they like.
THEOREM NoTerminateFromNobody ==
  ASSUME Orderly
  PROVE  Spec => [](Unbroken => StopsOnlyWhenAsked)
<1>1. InOrder => StopsOnlyWhenAsked
  <2> SUFFICES ASSUME InOrder, NEW d \in Daemon, pc[d] = "open"
               PROVE  handling[d].from # Nobody
    BY DEF StopsOnlyWhenAsked
  <2>1. PICK c \in Client : Exchange(c, d)
    BY DEF InOrder, Alone, Free
  <2>2. handling[d].from = c
    BY <2>1 DEF Exchange, NotWritten, Written, Taken, CarriedOut, Replied, Free, Asked
  <2> QED BY <2>2, ProcessAssumption
<1> QED BY <1>1, OrderInvariance, PTL

\* With timings that cassini accepts no client breaks off.
LEMMA NoneBreaks ==
  ASSUME Orderly, ~BadTiming
  PROVE  Spec => []InOrder
<1>1. GoesOn
  BY DEF GoesOn, BuildFails, BuildHangs
<1>2. IInv /\ InOrder /\ [Next]_vars => InOrder'
  BY <1>1, OrderKept DEF IInv
<1> QED BY InitOrder, <1>2, Invariance, PTL DEF Spec

\* The two pipes implement calls: a request is carried out once, before its client
\* is answered, with the answer to that request; a client that gives up was not
\* served.  (That every call ends is ImplementsCalls, which the run checks.)
THEOREM PipesGiveCalls ==
  ASSUME Orderly, ~BadTiming
  PROVE  Spec => C!Safety
<1>1. Init => C!Init
  BY DEF Init, C!Init, call, CallOf
<1>2. IInv /\ InOrder /\ InOrder' /\ [Next]_vars => [C!Next]_call
  BY CallStep DEF IInv
<1> QED BY <1>1, <1>2, Invariance, NoneBreaks, PTL DEF Spec, C!Safety
=============================================================================
