--------------------------- MODULE CaptureProofs ---------------------------
(***************************************************************************)
(* Whatever the sizes of the pipes and of the buffer, however much a       *)
(* command prints and however the reads cut it up, the stored output is    *)
(* how the printed one begins.  The inductive invariant follows the bytes  *)
(* from the command through the pipe (PipeIsRest) into the buffer, of      *)
(* which only the part before the first NUL counts (BufBegins, BufWhole);  *)
(* where that NUL is depends on the lengths of the reads (NULsOfText), and *)
(* so does whether a text is stored whole.                                 *)
(***************************************************************************)
EXTENDS Capture, SegmentFacts

\* How much of what was printed on s was read from its pipe.
Consumed(s) == Len(printed[s]) - Len(pipe[s])

\* No NUL among the first j bytes.
Clean(b, j) == \A k \in 1 .. j : b[k] # NUL

\* A pipe holds the rest of what was printed, ...
PipeIsRest == \A s \in Stream :
  /\ Len(pipe[s]) <= Len(printed[s])
  /\ \A j \in 1 .. Len(pipe[s]) : pipe[s][j] = printed[s][Consumed(s) + j]

\* ... a buffer, up to its first NUL, its beginning, ...
BufBegins == \A s \in Stream : \A j \in 1 .. Len(buf[s]) :
  Clean(buf[s], j) => j <= Consumed(s) /\ buf[s][j] = printed[s][j]

\* ... all that was read, if there is no NUL in it; nothing only if nothing was.
BufWhole == \A s \in Stream :
  /\ Clean(buf[s], Len(buf[s])) => Len(buf[s]) = Consumed(s)
  /\ buf[s] = << >> <=> Consumed(s) = 0
  /\ s = "stderr" /\ buf[s] # << >> => ~Clean(buf[s], Len(buf[s]))

\* A stream that was read to its end stays as it is, ...
IsDrained(s) == pipe[s] = << >> /\ holders[s] = {}

Drained ==
  /\ pc \in {"stderr", "wait", "save", "done"} => IsDrained("stdout")
  /\ pc \in {"wait", "save", "done"} => IsDrained("stderr")
  /\ pc \notin {"pipe", "close"} => \A s \in Stream : "worker" \notin holders[s]
  /\ writing # "none" => "command" \in holders[writing]
  /\ pc = "pipe" => command = "none" /\ writing = "none"

\* ... and nothing is stored before the end.
StoredLast == pc # "done" => \A s \in Stream : stored[s] = Earlier

Flow == PipeIsRest /\ BufBegins /\ BufWhole

\* The first n chunks left no NUL behind them.
Full(s, n) == \A k \in 1 .. n : s = "stdout" /\ chunks[s][k] = Buf

\* The NULs behind the chunks of a text: there is none as long as all chunks were
\* full; the first one lies behind all that was read only if the chunks before the
\* last were.
NULsOfText == \A s \in Stream : Text(s) =>
  /\ Clean(buf[s], Len(buf[s])) <=> Full(s, Len(chunks[s]))
  /\ \A j \in DOMAIN buf[s] :
       IsFirstNUL(buf[s], j) => (j = Consumed(s) + 1 <=> Full(s, Len(chunks[s]) - 1))

IInv == TypeOK /\ Flow /\ NULsOfText /\ Drained /\ StoredLast /\ StoredIsBeginning
           /\ WholeWhenFull

-----------------------------------------------------------------------------
(* Sequences of bytes. *)

\* A string in a buffer has an end if there is any NUL in it.
LEMMA FirstNUL ==
  ASSUME NEW b \in Seq(Nat), NEW k \in DOMAIN b, b[k] = NUL
  PROVE  \E i \in DOMAIN b : IsFirstNUL(b, i)
<1> DEFINE T == {j \in DOMAIN b : b[j] = NUL}
<1>1. DOMAIN b = 1 .. Len(b) /\ Len(b) \in Nat
  BY LenProperties
<1>2. T \in SUBSET Nat /\ T # {}
  BY <1>1
<1> HIDE DEF T
<1>3. PICK i \in T : \A j \in T : i <= j
  BY <1>2, Least
<1>4. ASSUME NEW j \in 1 .. i - 1 PROVE b[j] # NUL
  <2>1. i \in 1 .. Len(b)
    BY <1>1 DEF T
  <2>2. j \in 1 .. Len(b) /\ ~ (i <= j)
    BY <1>1, <2>1
  <2> QED BY <1>1, <1>3, <2>2 DEF T
<1> QED BY <1>3, <1>4 DEF IsFirstNUL, T

\* What the copy loop makes of the bytes read: they, up to the first NUL; without a
\* NUL the read was full.
LEMMA CopiedFacts ==
  ASSUME NEW read \in Seq(Nat), Len(read) \in 1 .. Buf
  PROVE  /\ Copied(read) \in Seq(Nat)
         /\ Copied(read) # << >>
         /\ \A j \in DOMAIN Copied(read) :
              Clean(Copied(read), j) => j <= Len(read) /\ Copied(read)[j] = read[j]
         /\ Clean(Copied(read), Len(Copied(read))) => Len(Copied(read)) = Len(read)
<1> DEFINE padded == [i \in 1 .. Buf |-> IF i <= Len(read) THEN read[i] ELSE NUL]
<1> DEFINE ends == {i \in 1 .. Buf : IsFirstNUL(padded, i)}
<1>1. Buf \in Nat \ {0} /\ Len(read) \in Nat /\ \A j \in 1 .. Len(read) : read[j] \in Nat
  BY SizeAssumption, ElementOfSeq
<1>2. padded \in Seq(Nat) /\ Len(padded) = Buf /\ DOMAIN padded = 1 .. Buf
      /\ \A j \in 1 .. Buf : padded[j] = IF j <= Len(read) THEN read[j] ELSE NUL
  BY <1>1 DEF NUL
<1>3. Copied(read) = IF ends = {} THEN padded ELSE SubSeq(padded, 1, CHOOSE i \in ends : TRUE)
  BY DEF Copied
<1> HIDE DEF padded
<1>4. CASE ends = {}
  <2>1. \A j \in 1 .. Buf : padded[j] # NUL
    BY <1>2, <1>4, FirstNUL
  <2>2. Len(read) = Buf
    BY <1>1, <1>2, <2>1
  <2>3. Copied(read) = padded
    BY <1>3, <1>4
  <2>4. padded # << >>
    BY <1>1, <1>2, EmptySeq
  <2> QED BY <1>1, <1>2, <2>2, <2>3, <2>4
<1>5. CASE ends # {}
  <2> DEFINE i == CHOOSE i \in ends : TRUE
  <2> DEFINE c == SubSeq(padded, 1, i)
  <2>1. i \in 1 .. Buf /\ padded[i] = NUL
    BY <1>5 DEF IsFirstNUL
  <2>2. Copied(read) = c
    BY <1>3, <1>5
  <2> HIDE DEF i
  <2>3. c \in Seq(Nat) /\ Len(c) = i /\ \A j \in 1 .. i : c[j] = padded[j]
    BY <1>1, <1>2, <2>1, Beginning
  <2> HIDE DEF c
  <2>4. DOMAIN c = 1 .. i /\ c # << >>
    BY <1>1, <2>1, <2>3, LenProperties, EmptySeq
  <2>5. ~Clean(c, Len(c))
    BY <1>1, <2>1, <2>3 DEF Clean
  <2>6. ASSUME NEW j \in 1 .. i, Clean(c, j) PROVE j <= Len(read) /\ c[j] = read[j]
    <3>1. c[j] # NUL /\ c[j] = padded[j]
      BY <1>1, <2>1, <2>3, <2>6 DEF Clean
    <3> QED BY <1>1, <1>2, <2>1, <3>1
  <2> QED BY <2>2, <2>3, <2>4, <2>5, <2>6
<1> QED BY <1>4, <1>5

-----------------------------------------------------------------------------
(* The shape of the variables. *)

\* Of a stream: its sequences and how long they are.
LEMMA StreamFacts ==
  ASSUME TypeOK, NEW s \in Stream
  PROVE  /\ buf[s] \in Seq(Nat) /\ pipe[s] \in Seq(Nat) /\ printed[s] \in Seq(Nat)
         /\ Len(buf[s]) \in Nat /\ DOMAIN buf[s] = 1 .. Len(buf[s])
         /\ Len(pipe[s]) \in Nat /\ DOMAIN pipe[s] = 1 .. Len(pipe[s])
         /\ Len(printed[s]) \in Nat /\ DOMAIN printed[s] = 1 .. Len(printed[s])
         /\ \A j \in 1 .. Len(printed[s]) : printed[s][j] \in Nat
<1>1. buf[s] \in Seq(Nat) /\ pipe[s] \in Seq(Nat) /\ printed[s] \in Seq(Nat)
  BY DEF TypeOK
<1> QED BY <1>1, LenProperties, ElementOfSeq

ChunkLen(s) == IF Len(pipe[s]) < Buf THEN Len(pipe[s]) ELSE Buf

Chunk(s) == SubSeq(pipe[s], 1, ChunkLen(s))

\* A read takes the first bytes of the pipe, and leaves the others.
LEMMA ChunkFacts ==
  ASSUME TypeOK, NEW s \in Stream, pipe[s] # << >>
  PROVE  /\ ChunkLen(s) \in 1 .. Buf /\ ChunkLen(s) <= Len(pipe[s])
         /\ Chunk(s) \in Seq(Nat) /\ Len(Chunk(s)) = ChunkLen(s)
         /\ \A j \in 1 .. ChunkLen(s) : Chunk(s)[j] = pipe[s][j]
         /\ LET rest == SubSeq(pipe[s], ChunkLen(s) + 1, Len(pipe[s])) IN
              /\ rest \in Seq(Nat) /\ Len(rest) = Len(pipe[s]) - ChunkLen(s)
              /\ \A j \in 1 .. Len(pipe[s]) - ChunkLen(s) :
                   rest[j] = pipe[s][ChunkLen(s) + j]
<1>1. pipe[s] \in Seq(Nat) /\ Len(pipe[s]) \in Nat \ {0} /\ Buf \in Nat \ {0}
  BY SizeAssumption, EmptySeq, StreamFacts
<1>2. /\ ChunkLen(s) \in 1 .. Buf /\ ChunkLen(s) <= Len(pipe[s])
      /\ ChunkLen(s) \in 0 .. Len(pipe[s])
  BY <1>1 DEF ChunkLen
<1> DEFINE p == pipe[s]
<1> DEFINE n == ChunkLen(s)
<1>3. p \in Seq(Nat) /\ n \in 0 .. Len(p)
  BY <1>1, <1>2
<1> HIDE DEF p, n
<1>4. /\ SubSeq(p, 1, n) \in Seq(Nat) /\ Len(SubSeq(p, 1, n)) = n
      /\ \A j \in 1 .. n : SubSeq(p, 1, n)[j] = p[j]
  BY <1>3, Beginning
<1>5. /\ SubSeq(p, n + 1, Len(p)) \in Seq(Nat) /\ Len(SubSeq(p, n + 1, Len(p))) = Len(p) - n
      /\ \A j \in 1 .. Len(p) - n : SubSeq(p, n + 1, Len(p))[j] = p[n + j]
  BY <1>3, Remainder
<1>6. /\ Chunk(s) \in Seq(Nat) /\ Len(Chunk(s)) = ChunkLen(s)
      /\ \A j \in 1 .. ChunkLen(s) : Chunk(s)[j] = pipe[s][j]
  BY <1>4 DEF Chunk, p, n
<1> QED BY <1>2, <1>5, <1>6 DEF p, n

\* What comes into the buffer.
LEMMA AddedFacts ==
  ASSUME NEW s \in Stream, NEW read \in Seq(Nat), Len(read) \in 1 .. Buf
  PROVE  /\ Added(s, read) \in Seq(Nat)
         /\ Len(Added(s, read)) \in Nat \ {0}
         /\ \A j \in 1 .. Len(Added(s, read)) :
              Clean(Added(s, read), j) => j <= Len(read) /\ Added(s, read)[j] = read[j]
         /\ Clean(Added(s, read), Len(Added(s, read))) =>
              Len(Added(s, read)) = Len(read) /\ s # "stderr"
<1> DEFINE c == Copied(read)
<1>1. /\ c \in Seq(Nat) /\ c # << >> /\ DOMAIN c = 1 .. Len(c) /\ Len(c) \in Nat \ {0}
      /\ \A j \in 1 .. Len(c) : Clean(c, j) => j <= Len(read) /\ c[j] = read[j]
      /\ Clean(c, Len(c)) => Len(c) = Len(read)
  BY CopiedFacts, LenProperties, EmptySeq
<1> HIDE DEF c
<1>2. CASE s = "stderr"
  <2> DEFINE z == << NUL >>
  <2> DEFINE a == c \o z
  <2>1. z \in Seq(Nat) /\ Len(z) = 1 /\ z[1] = NUL
    BY DEF NUL
  <2> HIDE DEF z
  <2>2. /\ a \in Seq(Nat) /\ Len(a) = Len(c) + 1
        /\ \A j \in 1 .. Len(c) + 1 : a[j] = IF j <= Len(c) THEN c[j] ELSE z[j - Len(c)]
    <3>1. c \in Seq(Nat) /\ z \in Seq(Nat)
      BY <1>1, <2>1
    <3>2. /\ a \in Seq(Nat) /\ Len(a) = Len(c) + Len(z)
          /\ \A j \in 1 .. Len(c) + Len(z) : a[j] = IF j <= Len(c) THEN c[j] ELSE z[j - Len(c)]
      BY <3>1, ConcatProperties
    <3> HIDE DEF a
    <3> QED BY <2>1, <3>2
  <2>3. Added(s, read) = a
    BY <1>2 DEF Added, c, z
  <2> HIDE DEF a
  <2>4. /\ a[Len(c) + 1] = NUL
        /\ \A j \in 1 .. Len(c) : a[j] = c[j]
    <3>1. Len(c) + 1 - Len(c) = 1 /\ ~ (Len(c) + 1 <= Len(c)) /\ Len(c) + 1 \in 1 .. Len(c) + 1
      BY <1>1
    <3>2. a[Len(c) + 1] = z[Len(c) + 1 - Len(c)]
      BY <2>2, <3>1
    <3>3. ASSUME NEW j \in 1 .. Len(c) PROVE a[j] = c[j]
      BY <1>1, <2>2
    <3> QED BY <2>1, <3>1, <3>2, <3>3
  <2>5. ASSUME NEW j \in 1 .. Len(c) + 1, Clean(a, j) PROVE j <= Len(read) /\ a[j] = read[j]
    <3>1. j # Len(c) + 1
      BY <1>1, <2>4, <2>5 DEF Clean
    <3>2. j \in 1 .. Len(c)
      BY <1>1, <3>1
    <3>3. ASSUME NEW k \in 1 .. j PROVE c[k] # NUL
      <4>1. k \in 1 .. Len(c)
        BY <1>1, <3>2
      <4> QED BY <2>4, <2>5, <4>1 DEF Clean
    <3> QED BY <1>1, <2>4, <3>2, <3>3 DEF Clean
  <2>6. ~Clean(a, Len(c) + 1)
    BY <1>1, <2>4 DEF Clean
  <2> QED BY <1>1, <2>2, <2>3, <2>5, <2>6
<1>3. CASE s # "stderr"
  <2>1. Added(s, read) = c \o << >>
    BY <1>3 DEF Added, c
  <2>2. Added(s, read) = c
    BY <1>1, <2>1, ConcatEmptySeq
  <2> QED BY <1>1, <1>3, <2>2
<1> QED BY <1>2, <1>3

\* What a read does, in these terms.
LEMMA ReadEffect ==
  ASSUME TypeOK, NEW s \in Stream, Read(s)
  PROVE  /\ pc = s /\ pipe[s] # << >>
         /\ buf' = [buf EXCEPT ![s] = buf[s] \o Added(s, Chunk(s))]
         /\ pipe' = [pipe EXCEPT ![s] = SubSeq(pipe[s], ChunkLen(s) + 1, Len(pipe[s]))]
         /\ chunks' = [chunks EXCEPT ![s] = Append(chunks[s], ChunkLen(s))]
         /\ UNCHANGED <<pc, stored, command, writing, holders, forked, printed>>
BY DEF Read, NextChunk, Chunk, ChunkLen

\* What string_from_cstring stores is a sequence of bytes.
LEMMA StringsType ==
  ASSUME NEW b \in Seq(Nat), NEW t \in Strings(b)
  PROVE  t \in Seq(Byte)
<1>1. Nat \subseteq Byte /\ Stray \in Byte /\ b \in Seq(Byte)
  BY SeqMonotonic DEF Byte
<1>2. Append(b, Stray) \in Seq(Byte)
  BY <1>1, AppendProperties
<1>3. ASSUME NEW i \in DOMAIN b PROVE SubSeq(b, 1, i - 1) \in Seq(Byte)
  <2>1. i - 1 \in 0 .. Len(b)
    BY LenProperties
  <2> QED BY <1>1, <2>1, Beginning
<1> QED BY <1>1, <1>2, <1>3 DEF Strings

\* No step spoils a variable's shape.
LEMMA TypeKept == TypeOK /\ [Next]_vars => TypeOK'
<1> SUFFICES ASSUME TypeOK, [Next]_vars PROVE TypeOK'
  OBVIOUS
<1>1. ASSUME NEW s \in Stream, MakePipe(s) PROVE TypeOK'
  BY <1>1 DEF TypeOK, MakePipe, worker, Stream
<1>2. ASSUME NEW s \in Stream, Read(s) PROVE TypeOK'
  <2>1. /\ pipe[s] # << >>
        /\ buf' = [buf EXCEPT ![s] = buf[s] \o Added(s, Chunk(s))]
        /\ pipe' = [pipe EXCEPT ![s] = SubSeq(pipe[s], ChunkLen(s) + 1, Len(pipe[s]))]
        /\ chunks' = [chunks EXCEPT ![s] = Append(chunks[s], ChunkLen(s))]
        /\ UNCHANGED <<pc, stored, command, writing, holders, forked, printed>>
    BY <1>2, ReadEffect
  <2> DEFINE rest == SubSeq(pipe[s], ChunkLen(s) + 1, Len(pipe[s]))
  <2> DEFINE new == buf[s] \o Added(s, Chunk(s))
  <2>2. new \in Seq(Nat)
    <3>1. Added(s, Chunk(s)) \in Seq(Nat) /\ buf[s] \in Seq(Nat)
      BY <2>1, ChunkFacts, AddedFacts, StreamFacts
    <3> QED BY <3>1, ConcatProperties
  <2>3. rest \in Seq(Nat) /\ Len(rest) <= PipeSize
    <3>1. Len(rest) = Len(pipe[s]) - ChunkLen(s) /\ rest \in Seq(Nat) /\ ChunkLen(s) \in 1 .. Buf
      BY <2>1, ChunkFacts
    <3>2. Len(pipe[s]) <= PipeSize /\ Len(pipe[s]) \in Nat
      BY StreamFacts DEF TypeOK
    <3> QED BY <3>1, <3>2, SizeAssumption
  <2>4. Append(chunks[s], ChunkLen(s)) \in Seq(1 .. Buf)
    <3>1. chunks[s] \in Seq(1 .. Buf) /\ ChunkLen(s) \in 1 .. Buf
      BY <2>1, ChunkFacts DEF TypeOK
    <3> QED BY <3>1, AppendProperties
  <2> HIDE DEF rest, new
  <2>5. buf' \in [Stream -> Seq(Nat)] /\ pipe' \in [Stream -> Seq(Nat)]
        /\ chunks' \in [Stream -> Seq(1 .. Buf)]
    BY <2>1, <2>2, <2>3, <2>4 DEF TypeOK, rest, new
  <2>6. \A t \in Stream : Len(pipe'[t]) <= PipeSize
    BY <2>1, <2>3 DEF TypeOK, rest
  <2> QED BY <2>1, <2>5, <2>6 DEF TypeOK
<1>3. ASSUME NEW s \in Stream, ReadEnd(s) PROVE TypeOK'
  BY <1>3 DEF TypeOK, ReadEnd, Stream
<1>4. CASE Fork
  BY <1>4 DEF TypeOK, Fork, Stream
<1>5. CASE CloseWriteEnds
  BY <1>5 DEF TypeOK, CloseWriteEnds, Stream
<1>6. CASE Wait
  BY <1>6 DEF TypeOK, Wait, Stream
<1>7. CASE Save
  <2>1. PICK out \in Strings(buf["stdout"]), err \in Strings(buf["stderr"]) :
          stored' = [s \in Stream |-> IF buf[s] = << >> THEN stored[s]
                                      ELSE IF s = "stdout" THEN out ELSE err]
    BY <1>7 DEF Save
  <2>2. out \in Seq(Byte) /\ err \in Seq(Byte)
    BY StringsType, StreamFacts DEF Stream
  <2>3. stored' \in [Stream -> Seq(Byte) \cup {Earlier}]
    BY <2>1, <2>2 DEF TypeOK
  <2> QED BY <1>7, <2>3 DEF TypeOK, Save, Stream
<1>8. ASSUME NEW s \in Stream, CommandWrites(s) PROVE TypeOK'
  BY <1>8 DEF TypeOK, CommandWrites, worker, Stream
<1>9. ASSUME NEW s \in Stream, Written(s) PROVE TypeOK'
  <2>1. PICK byte \in {NUL, Len(printed[s]) + 1} :
           /\ pipe' = [pipe EXCEPT ![s] = Append(@, byte)]
           /\ printed' = [printed EXCEPT ![s] = Append(@, byte)]
    BY <1>9 DEF Written
  <2>2. byte \in Nat
    BY StreamFacts DEF NUL
  <2>3. /\ Append(pipe[s], byte) \in Seq(Nat) /\ Append(printed[s], byte) \in Seq(Nat)
        /\ Len(Append(pipe[s], byte)) = Len(pipe[s]) + 1
    BY <2>2, StreamFacts, AppendProperties
  <2>4. Len(pipe[s]) + 1 <= PipeSize
    BY <1>9, StreamFacts, SizeAssumption DEF Written
  <2>5. pipe' \in [Stream -> Seq(Nat)] /\ printed' \in [Stream -> Seq(Nat)]
    BY <2>1, <2>3 DEF TypeOK
  <2>6. \A t \in Stream : Len(pipe'[t]) <= PipeSize
    BY <2>1, <2>3, <2>4 DEF TypeOK
  <2>7. writing' = "none" /\ UNCHANGED <<worker, command, holders, forked, chunks>>
    BY <1>9 DEF Written
  <2> QED BY <2>5, <2>6, <2>7 DEF TypeOK, worker
<1>10. ASSUME NEW s \in Stream, CommandCloses(s) PROVE TypeOK'
  BY <1>10 DEF TypeOK, CommandCloses, worker, Stream
<1>11. CASE CommandExits
  BY <1>11 DEF TypeOK, CommandExits, worker, Stream
<1>12. ASSUME NEW o \in Sibling, SiblingForks(o) PROVE TypeOK'
  BY <1>12, SiblingAssumption DEF TypeOK, SiblingForks, worker, Stream
<1>13. ASSUME NEW o \in Sibling, SiblingExits(o) PROVE TypeOK'
  BY <1>13 DEF TypeOK, SiblingExits, worker, Stream
<1>14. CASE UNCHANGED vars
  BY <1>14 DEF TypeOK, vars, worker
<1> QED BY <1>1, <1>2, <1>3, <1>4, <1>5, <1>6, <1>7, <1>8, <1>9, <1>10, <1>11, <1>12, <1>13, <1>14
        DEF Next, WorkerStep, CommandStep, SiblingStep

-----------------------------------------------------------------------------
(* The bytes on their way. *)

\* The way of a byte is in three variables.
LEMMA FlowStays ==
  ASSUME Flow, UNCHANGED <<buf, pipe, printed>>
  PROVE  Flow'
BY DEF Flow, PipeIsRest, BufBegins, BufWhole, Consumed, Clean

\* A read moves a chunk from the pipe into the buffer.
LEMMA FlowRead ==
  ASSUME TypeOK, Flow, NEW s \in Stream, Read(s)
  PROVE  Flow'
<1> DEFINE p == pipe[s]
<1> DEFINE r == buf[s]
<1> DEFINE n == ChunkLen(s)
<1> DEFINE m == Consumed(s)
<1> DEFINE a == Added(s, Chunk(s))
<1> DEFINE b == r \o a
<1>1. /\ p # << >> /\ printed' = printed
      /\ buf' = [buf EXCEPT ![s] = b]
      /\ pipe' = [pipe EXCEPT ![s] = SubSeq(p, n + 1, Len(p))]
  BY ReadEffect
<1>2. /\ n \in 1 .. Buf /\ n <= Len(p) /\ Len(p) \in Nat /\ Len(r) \in Nat
      /\ Len(printed[s]) \in Nat /\ m = Len(printed[s]) - Len(p) /\ m \in Nat
  <2>1. Len(p) <= Len(printed[s])
    BY DEF Flow, PipeIsRest
  <2> QED BY <1>1, <2>1, ChunkFacts, StreamFacts DEF Consumed
<1>3. /\ Len(pipe'[s]) = Len(p) - n
      /\ \A j \in 1 .. Len(p) - n : pipe'[s][j] = p[n + j]
  <2>1. pipe'[s] = SubSeq(p, n + 1, Len(p))
    BY <1>1 DEF TypeOK
  <2> QED BY <1>1, <2>1, ChunkFacts
<1>4. buf'[s] = b /\ \A t \in Stream \ {s} : buf'[t] = buf[t] /\ pipe'[t] = pipe[t]
  BY <1>1 DEF TypeOK
<1>5. \A j \in 1 .. Len(p) : p[j] = printed[s][m + j]
  BY DEF Flow, PipeIsRest
<1>6. /\ Len(a) \in Nat \ {0} /\ a \in Seq(Nat)
      /\ \A j \in 1 .. Len(a) : Clean(a, j) => j <= n /\ a[j] = printed[s][m + j]
      /\ Clean(a, Len(a)) => Len(a) = n /\ s # "stderr"
  <2>1. /\ Chunk(s) \in Seq(Nat) /\ Len(Chunk(s)) = n
        /\ \A j \in 1 .. n : Chunk(s)[j] = p[j]
    BY <1>1, ChunkFacts
  <2>2. /\ a \in Seq(Nat) /\ Len(a) \in Nat \ {0}
        /\ \A j \in 1 .. Len(a) : Clean(a, j) => j <= n /\ a[j] = Chunk(s)[j]
        /\ Clean(a, Len(a)) => Len(a) = n /\ s # "stderr"
    BY <1>2, <2>1, AddedFacts
  <2> HIDE DEF a, n, m, p
  <2>3. ASSUME NEW j \in 1 .. Len(a), Clean(a, j) PROVE j <= n /\ a[j] = printed[s][m + j]
    <3>1. j <= n /\ a[j] = Chunk(s)[j]
      BY <2>2, <2>3
    <3>2. j \in 1 .. n /\ j \in 1 .. Len(p)
      BY <1>2, <2>2, <3>1
    <3> QED BY <1>5, <2>1, <3>1, <3>2
  <2> QED BY <2>2, <2>3
<1>7. /\ Len(b) = Len(r) + Len(a)
      /\ \A j \in 1 .. Len(r) : b[j] = r[j]
      /\ \A j \in 1 .. Len(a) : b[Len(r) + j] = a[j]
  <2>1. r \in Seq(Nat) /\ a \in Seq(Nat)
    BY <1>6, StreamFacts
  <2> HIDE DEF a, r
  <2> QED BY <2>1, Joined
<1>8. /\ \A j \in 1 .. Len(r) : Clean(r, j) => j <= m /\ r[j] = printed[s][j]
      /\ Clean(r, Len(r)) => Len(r) = m
  BY DEF Flow, BufBegins, BufWhole
<1>9. Consumed(s)' = m + n
  <2>1. Consumed(s)' = Len(printed'[s]) - Len(pipe'[s])
    BY DEF Consumed
  <2>2. Len(printed'[s]) = Len(printed[s]) /\ Len(pipe'[s]) = Len(p) - n
    BY <1>1, <1>3
  <2>3. Len(printed[s]) - (Len(p) - n) = m + n
    <3> HIDE DEF n, m, p
    <3> QED BY <1>2
  <2> QED BY <2>1, <2>2, <2>3
<1> HIDE DEF p, r, n, m, a, b
<1>10. ASSUME NEW j \in 1 .. Len(b), Clean(b, j) PROVE j <= m + n /\ b[j] = printed[s][j]
  <2>1. CASE j <= Len(r)
    <3>1. j \in 1 .. Len(r)
      BY <1>2, <1>6, <1>7, <2>1
    <3>2. Clean(r, j)
      BY <1>2, <1>7, <1>10, <3>1 DEF Clean
    <3> QED BY <1>2, <1>7, <1>8, <3>1, <3>2
  <2>2. CASE ~ (j <= Len(r))
    <3>1. j \in Nat /\ j - Len(r) \in 1 .. Len(a) /\ Len(r) + (j - Len(r)) = j
      BY <1>2, <1>6, <1>7, <2>2
    <3>2. Clean(r, Len(r))
      BY <1>2, <1>7, <1>10, <3>1, <2>2 DEF Clean
    <3>3. Clean(a, j - Len(r))
      <4> SUFFICES ASSUME NEW k \in 1 .. j - Len(r) PROVE a[k] # NUL
        BY DEF Clean
      <4>1. k \in 1 .. Len(a) /\ Len(r) + k \in 1 .. j
        BY <1>2, <1>6, <3>1
      <4> QED BY <1>7, <1>10, <4>1 DEF Clean
    <3>4. Len(r) = m
      BY <1>8, <3>2
    <3>5. b[j] = a[j - Len(r)] /\ j - Len(r) <= n /\ a[j - Len(r)] = printed[s][m + (j - Len(r))]
      BY <1>6, <1>7, <3>1, <3>3
    <3> QED BY <1>2, <3>1, <3>4, <3>5
  <2> QED BY <2>1, <2>2
<1>11. ASSUME Clean(b, Len(b)) PROVE Len(b) = m + n /\ s # "stderr"
  <2>1. Clean(r, Len(r))
    BY <1>2, <1>6, <1>7, <1>11 DEF Clean
  <2>2. Clean(a, Len(a))
    <3> SUFFICES ASSUME NEW k \in 1 .. Len(a) PROVE a[k] # NUL
      BY DEF Clean
    <3>1. Len(r) + k \in 1 .. Len(b)
      BY <1>2, <1>6, <1>7
    <3> QED BY <1>7, <1>11, <3>1 DEF Clean
  <2> QED BY <1>6, <1>7, <1>8, <2>1, <2>2
<1>12. b # << >> /\ m + n # 0
  <2>1. Len(b) # 0
    BY <1>2, <1>6, <1>7
  <2> QED BY <1>2, <2>1, EmptySeq
<1>13. PipeIsRest'
  <2> SUFFICES ASSUME NEW t \in Stream
               PROVE  /\ Len(pipe'[t]) <= Len(printed'[t])
                      /\ \A j \in 1 .. Len(pipe'[t]) : pipe'[t][j] = printed'[t][Consumed(t)' + j]
    BY DEF PipeIsRest
  <2>1. CASE t = s
    <3>1. Len(pipe'[s]) <= Len(printed'[s])
      BY <1>1, <1>2, <1>3
    <3>2. ASSUME NEW j \in 1 .. Len(p) - n PROVE pipe'[s][j] = printed'[s][m + n + j]
      <4>0. n \in Nat /\ j \in Nat /\ m \in Nat /\ Len(p) \in Nat /\ j <= Len(p) - n /\ 1 <= j
        BY <1>2
      <4>1. n + j \in 1 .. Len(p) /\ m + (n + j) = m + n + j
        BY <4>0
      <4>2. pipe'[s][j] = p[n + j] /\ p[n + j] = printed[s][m + (n + j)]
        BY <1>3, <1>5, <4>1
      <4>3. pipe'[s][j] = printed[s][m + n + j]
        BY <4>1, <4>2
      <4>4. printed' = printed
        BY <1>1
      <4> QED BY <4>3, <4>4
    <3>3. \A j \in 1 .. Len(pipe'[s]) : pipe'[s][j] = printed'[s][Consumed(s)' + j]
      BY <1>3, <1>9, <3>2
    <3> QED BY <2>1, <3>1, <3>3
  <2>2. CASE t # s
    <3>1. pipe'[t] = pipe[t] /\ printed'[t] = printed[t]
      BY <1>1, <1>4, <2>2
    <3>2. Consumed(t)' = Consumed(t)
      BY <3>1 DEF Consumed
    <3> QED BY <3>1, <3>2 DEF Flow, PipeIsRest
  <2> QED BY <2>1, <2>2
<1>14. BufBegins'
  <2> SUFFICES ASSUME NEW t \in Stream, NEW j \in 1 .. Len(buf'[t]), Clean(buf'[t], j)
               PROVE  j <= Consumed(t)' /\ buf'[t][j] = printed'[t][j]
    BY DEF BufBegins, Clean
  <2>1. CASE t = s
    BY <1>1, <1>4, <1>9, <1>10, <2>1
  <2>2. CASE t # s
    BY <1>1, <1>4, <2>2 DEF Flow, BufBegins, Consumed
  <2> QED BY <2>1, <2>2
<1>15. BufWhole'
  <2> SUFFICES ASSUME NEW t \in Stream
               PROVE  /\ Clean(buf'[t], Len(buf'[t])) => Len(buf'[t]) = Consumed(t)'
                      /\ buf'[t] = << >> <=> Consumed(t)' = 0
                      /\ t = "stderr" /\ buf'[t] # << >> => ~Clean(buf'[t], Len(buf'[t]))
    BY DEF BufWhole, Clean
  <2>1. CASE t = s
    BY <1>4, <1>9, <1>11, <1>12, <2>1
  <2>2. CASE t # s
    BY <1>1, <1>4, <2>2 DEF Flow, BufWhole, Consumed
  <2> QED BY <2>1, <2>2
<1> QED BY <1>13, <1>14, <1>15 DEF Flow

\* What the command writes comes behind all that it wrote before.
LEMMA FlowWritten ==
  ASSUME TypeOK, Flow, NEW s \in Stream, Written(s)
  PROVE  Flow'
<1>1. PICK byte \in {NUL, Len(printed[s]) + 1} :
         /\ pipe' = [pipe EXCEPT ![s] = Append(@, byte)]
         /\ printed' = [printed EXCEPT ![s] = Append(@, byte)]
  BY DEF Written
<1>2. buf' = buf
  BY DEF Written, worker
<1> DEFINE l == Len(pipe[s])
<1> DEFINE q == Len(printed[s])
<1> DEFINE m == Consumed(s)
<1>3. l \in Nat /\ q \in Nat /\ m = q - l /\ m \in Nat /\ byte \in Nat
  <2>1. l <= q
    BY DEF Flow, PipeIsRest
  <2> QED BY <2>1, StreamFacts DEF Consumed, NUL
<1>4. /\ Len(pipe'[s]) = l + 1 /\ pipe'[s][l + 1] = byte
      /\ \A j \in 1 .. l : pipe'[s][j] = pipe[s][j]
  <2>1. pipe'[s] = Append(pipe[s], byte) /\ pipe[s] \in Seq(Nat)
    BY <1>1 DEF TypeOK
  <2> QED BY <1>3, <2>1, AppendProperties
<1>5. /\ Len(printed'[s]) = q + 1 /\ printed'[s][q + 1] = byte
      /\ \A j \in 1 .. q : printed'[s][j] = printed[s][j]
  <2>1. printed'[s] = Append(printed[s], byte) /\ printed[s] \in Seq(Nat)
    BY <1>1 DEF TypeOK
  <2> QED BY <1>3, <2>1, AppendProperties
<1>6. \A t \in Stream \ {s} : pipe'[t] = pipe[t] /\ printed'[t] = printed[t]
  BY <1>1 DEF TypeOK
<1>7. Consumed(s)' = m
  BY <1>3, <1>4, <1>5 DEF Consumed
<1>8. \A j \in 1 .. l : pipe[s][j] = printed[s][m + j]
  BY DEF Flow, PipeIsRest
<1> HIDE DEF l, q, m
<1>9. PipeIsRest'
  <2> SUFFICES ASSUME NEW t \in Stream
               PROVE  /\ Len(pipe'[t]) <= Len(printed'[t])
                      /\ \A j \in 1 .. Len(pipe'[t]) : pipe'[t][j] = printed'[t][Consumed(t)' + j]
    BY DEF PipeIsRest
  <2>1. CASE t = s
    <3>1. Len(pipe'[s]) <= Len(printed'[s])
      BY <1>3, <1>4, <1>5
    <3>2. ASSUME NEW j \in 1 .. l PROVE pipe'[s][j] = printed'[s][m + j]
      <4>1. m + j \in 1 .. q
        BY <1>3
      <4> QED BY <1>4, <1>5, <1>8, <4>1
    <3>3. pipe'[s][l + 1] = printed'[s][m + (l + 1)]
      <4>1. m + (l + 1) = q + 1
        BY <1>3
      <4> QED BY <1>4, <1>5, <4>1
    <3>4. \A j \in 1 .. Len(pipe'[s]) : j \in 1 .. l \/ j = l + 1
      BY <1>3, <1>4
    <3>5. \A j \in 1 .. Len(pipe'[s]) : pipe'[s][j] = printed'[s][m + j]
      BY <3>2, <3>3, <3>4
    <3> QED BY <1>7, <2>1, <3>1, <3>5
  <2>2. CASE t # s
    <3>1. pipe'[t] = pipe[t] /\ printed'[t] = printed[t]
      BY <1>6, <2>2
    <3>2. Consumed(t)' = Consumed(t)
      BY <3>1 DEF Consumed
    <3> QED BY <3>1, <3>2 DEF Flow, PipeIsRest
  <2> QED BY <2>1, <2>2
<1>10. BufBegins'
  <2> SUFFICES ASSUME NEW t \in Stream, NEW j \in 1 .. Len(buf[t]), Clean(buf[t], j)
               PROVE  j <= Consumed(t)' /\ buf[t][j] = printed'[t][j]
    BY <1>2 DEF BufBegins, Clean
  <2>1. j <= Consumed(t) /\ buf[t][j] = printed[t][j]
    BY DEF Flow, BufBegins
  <2>2. CASE t = s
    <3>1. j \in 1 .. q
      BY <1>3, <2>1, <2>2, StreamFacts DEF m
    <3> QED BY <1>5, <1>7, <2>1, <2>2, <3>1 DEF m
  <2>3. CASE t # s
    BY <1>6, <2>1, <2>3 DEF Consumed
  <2> QED BY <2>2, <2>3
<1>11. BufWhole'
  <2>1. \A t \in Stream : Consumed(t)' = Consumed(t)
    BY <1>6, <1>7 DEF Consumed, m
  <2> QED BY <1>2, <2>1 DEF Flow, BufWhole, Clean
<1> QED BY <1>9, <1>10, <1>11 DEF Flow

\* No step spoils the way of the bytes.
LEMMA FlowKept == TypeOK /\ Flow /\ [Next]_vars => Flow'
<1> SUFFICES ASSUME TypeOK, Flow, [Next]_vars PROVE Flow'
  OBVIOUS
<1>1. ASSUME NEW s \in Stream, MakePipe(s) PROVE Flow'
  BY <1>1, FlowStays DEF MakePipe, worker
<1>2. ASSUME NEW s \in Stream, Read(s) PROVE Flow'
  BY <1>2, FlowRead
<1>3. ASSUME NEW s \in Stream, ReadEnd(s) PROVE Flow'
  BY <1>3, FlowStays DEF ReadEnd
<1>4. CASE Fork
  BY <1>4, FlowStays DEF Fork
<1>5. CASE CloseWriteEnds
  BY <1>5, FlowStays DEF CloseWriteEnds
<1>6. CASE Wait
  BY <1>6, FlowStays DEF Wait
<1>7. CASE Save
  BY <1>7, FlowStays DEF Save
<1>8. ASSUME NEW s \in Stream, CommandWrites(s) PROVE Flow'
  BY <1>8, FlowStays DEF CommandWrites, worker
<1>9. ASSUME NEW s \in Stream, Written(s) PROVE Flow'
  BY <1>9, FlowWritten
<1>10. ASSUME NEW s \in Stream, CommandCloses(s) PROVE Flow'
  BY <1>10, FlowStays DEF CommandCloses, worker
<1>11. CASE CommandExits
  BY <1>11, FlowStays DEF CommandExits, worker
<1>12. ASSUME NEW o \in Sibling, SiblingForks(o) PROVE Flow'
  BY <1>12, FlowStays DEF SiblingForks, worker
<1>13. ASSUME NEW o \in Sibling, SiblingExits(o) PROVE Flow'
  BY <1>13, FlowStays DEF SiblingExits, worker
<1>14. CASE UNCHANGED vars
  BY <1>14, FlowStays DEF vars, worker
<1> QED BY <1>1, <1>2, <1>3, <1>4, <1>5, <1>6, <1>7, <1>8, <1>9, <1>10, <1>11, <1>12, <1>13, <1>14
        DEF Next, WorkerStep, CommandStep, SiblingStep

-----------------------------------------------------------------------------
(* The NULs behind the chunks. *)

\* A text without a NUL is copied whole, with a NUL behind it unless the read was full.
LEMMA CopiedText ==
  ASSUME NEW read \in Seq(Nat), Len(read) \in 1 .. Buf, Clean(read, Len(read))
  PROVE  /\ Clean(Copied(read), Len(read))
         /\ Len(read) = Buf => Len(Copied(read)) = Len(read)
         /\ Len(read) # Buf => /\ Len(Copied(read)) = Len(read) + 1
                               /\ Copied(read)[Len(read) + 1] = NUL
<1> DEFINE padded == [i \in 1 .. Buf |-> IF i <= Len(read) THEN read[i] ELSE NUL]
<1> DEFINE ends == {i \in 1 .. Buf : IsFirstNUL(padded, i)}
<1> DEFINE n == Len(read)
<1>1. Buf \in Nat \ {0} /\ n \in 1 .. Buf /\ \A j \in 1 .. n : read[j] \in Nat
  BY SizeAssumption, ElementOfSeq
<1>2. padded \in Seq(Nat) /\ Len(padded) = Buf
      /\ \A j \in 1 .. Buf : padded[j] = IF j <= n THEN read[j] ELSE NUL
  BY <1>1 DEF NUL
<1>3. Copied(read) = IF ends = {} THEN padded ELSE SubSeq(padded, 1, CHOOSE i \in ends : TRUE)
  BY DEF Copied
<1>4. \A j \in 1 .. n : read[j] # NUL
  BY DEF Clean
<1> HIDE DEF padded, n
<1>5. \A j \in 1 .. n : j \in 1 .. Buf /\ padded[j] # NUL
  BY <1>1, <1>2, <1>4
<1>6. CASE n = Buf
  <2>1. ends = {}
    BY <1>5, <1>6 DEF IsFirstNUL
  <2>2. Copied(read) = padded
    BY <1>3, <2>1
  <2>3. Clean(padded, n) /\ Len(padded) = n
    BY <1>2, <1>5, <1>6 DEF Clean
  <2> QED BY <1>6, <2>2, <2>3 DEF n
<1>7. CASE n # Buf
  <2>1. n + 1 \in 1 .. Buf /\ ~ (n + 1 <= n) /\ n + 1 - 1 = n
    BY <1>1, <1>7
  <2>2. padded[n + 1] = NUL
    BY <1>2, <2>1
  <2>3. IsFirstNUL(padded, n + 1)
    <3> DEFINE e == n + 1
    <3>1. padded[e] = NUL
      BY <2>2
    <3>2. e - 1 = n
      BY <1>1
    <3> HIDE DEF e
    <3>3. \A k \in 1 .. e - 1 : padded[k] # NUL
      BY <1>5, <3>2
    <3>4. IsFirstNUL(padded, e)
      BY <3>1, <3>3 DEF IsFirstNUL
    <3> QED BY <3>4 DEF e
  <2>4. ASSUME NEW i \in ends PROVE i = n + 1
    <3>1. i \in 1 .. Buf /\ IsFirstNUL(padded, i)
      OBVIOUS
    <3>2. padded[i] = NUL /\ \A k \in 1 .. i - 1 : padded[k] # NUL
      BY <3>1 DEF IsFirstNUL
    <3>3. i \notin 1 .. n
      BY <1>5, <3>2
    <3>4. n + 1 \notin 1 .. i - 1
      BY <2>2, <3>2
    <3> QED BY <1>1, <3>1, <3>3, <3>4
  <2>5. (CHOOSE i \in ends : TRUE) = n + 1 /\ ends # {}
    BY <2>1, <2>3, <2>4
  <2> HIDE DEF ends
  <2>6. Copied(read) = SubSeq(padded, 1, n + 1)
    BY <1>3, <2>5
  <2> DEFINE c == SubSeq(padded, 1, n + 1)
  <2>7. n + 1 \in 0 .. Len(padded)
    BY <1>1, <1>2, <2>1
  <2>8. Len(c) = n + 1 /\ \A j \in 1 .. n + 1 : c[j] = padded[j]
    BY <1>2, <2>7, Beginning
  <2> HIDE DEF c
  <2>9. \A j \in 1 .. n : j \in 1 .. n + 1
    BY <1>1
  <2>10. Clean(c, n)
    BY <1>5, <2>8, <2>9 DEF Clean
  <2>11. c[n + 1] = NUL
    BY <1>1, <2>2, <2>8
  <2> QED BY <1>7, <2>6, <2>8, <2>10, <2>11 DEF c, n
<1> QED BY <1>6, <1>7

\* What comes into the buffer of a text: the text, and a NUL at once behind it, except
\* for a full chunk of stdout.
LEMMA AddedText ==
  ASSUME NEW s \in Stream, NEW read \in Seq(Nat), Len(read) \in 1 .. Buf, Clean(read, Len(read))
  PROVE  /\ Clean(Added(s, read), Len(read))
         /\ s = "stdout" /\ Len(read) = Buf => Len(Added(s, read)) = Len(read)
         /\ ~ (s = "stdout" /\ Len(read) = Buf) =>
              /\ Len(read) + 1 \in 1 .. Len(Added(s, read))
              /\ Added(s, read)[Len(read) + 1] = NUL
<1> DEFINE n == Len(read)
<1> DEFINE c == Copied(read)
<1>1. n \in Nat /\ c \in Seq(Nat) /\ Len(c) \in Nat
  BY CopiedFacts, LenProperties
<1>2. /\ Clean(c, n)
      /\ n = Buf => Len(c) = n
      /\ n # Buf => Len(c) = n + 1 /\ c[n + 1] = NUL
  BY CopiedText
<1>3. CASE s = "stdout"
  <2>1. Added(s, read) = c \o << >>
    BY <1>3 DEF Added
  <2>2. Added(s, read) = c
    BY <1>1, <2>1, ConcatEmptySeq
  <2> HIDE DEF c, n
  <2>3. n # Buf => n + 1 \in 1 .. Len(c)
    BY <1>1, <1>2
  <2> QED BY <1>2, <1>3, <2>2, <2>3 DEF n
<1>4. CASE s = "stderr"
  <2> DEFINE z == << NUL >>
  <2> DEFINE a == c \o z
  <2>1. z \in Seq(Nat) /\ Len(z) = 1 /\ z[1] = NUL
    BY DEF NUL
  <2>2. Added(s, read) = a
    BY <1>4 DEF Added
  <2> HIDE DEF c, n, z
  <2>3. /\ Len(a) = Len(c) + Len(z)
        /\ \A j \in 1 .. Len(c) : a[j] = c[j]
        /\ \A j \in 1 .. Len(z) : a[Len(c) + j] = z[j]
    <3>1. c \in Seq(Nat) /\ z \in Seq(Nat)
      BY <1>1, <2>1
    <3> QED BY <3>1, Joined
  <2> HIDE DEF a
  <2>4. Len(a) = Len(c) + 1 /\ a[Len(c) + 1] = NUL
    BY <2>1, <2>3
  <2>5. \A j \in 1 .. n : j \in 1 .. Len(c)
    BY <1>1, <1>2
  <2>6. Clean(a, n)
    BY <1>2, <2>3, <2>5 DEF Clean
  <2>7. a[n + 1] = NUL
    <3>1. CASE n = Buf
      BY <1>2, <2>4, <3>1
    <3>2. CASE n # Buf
      <4>1. n + 1 \in 1 .. Len(c)
        BY <1>1, <1>2, <3>2
      <4> QED BY <1>2, <2>3, <3>2, <4>1
    <3> QED BY <3>1, <3>2
  <2>8. n + 1 \in 1 .. Len(a)
    BY <1>1, <1>2, <2>4
  <2> QED BY <1>4, <2>2, <2>6, <2>7, <2>8 DEF n
<1> QED BY <1>3, <1>4 DEF Stream

\* The two ways of saying where a text that was read has its first NUL, when a chunk
\* is added to a buffer without one, ...
LEMMA FirstNULAdded ==
  ASSUME NEW r \in Seq(Nat), NEW a \in Seq(Nat), NEW n \in Nat,
         Clean(r, Len(r)), Clean(a, n), n + 1 \in 1 .. Len(a), a[n + 1] = NUL
  PROVE  /\ ~ Clean(r \o a, Len(r \o a))
         /\ \A j \in DOMAIN (r \o a) : IsFirstNUL(r \o a, j) => j = Len(r) + n + 1
<1> DEFINE b == r \o a
<1>1. Len(r) \in Nat /\ Len(a) \in Nat
  BY LenProperties
<1>2. /\ b \in Seq(Nat) /\ Len(b) = Len(r) + Len(a)
      /\ \A j \in 1 .. Len(r) : b[j] = r[j]
      /\ \A j \in 1 .. Len(a) : b[Len(r) + j] = a[j]
  BY Joined
<1> HIDE DEF b
<1>3. DOMAIN b = 1 .. Len(b)
  BY <1>2, LenProperties
<1> DEFINE e == Len(r) + n + 1
<1>4. e \in 1 .. Len(b) /\ e = Len(r) + (n + 1)
  BY <1>1, <1>2
<1>5. b[e] = NUL
  BY <1>2, <1>4
<1>6. ASSUME NEW j \in 1 .. Len(b), j < e PROVE b[j] # NUL
  <2>1. CASE j <= Len(r)
    <3>1. j \in 1 .. Len(r)
      BY <1>1, <1>2, <2>1
    <3> QED BY <1>2, <3>1 DEF Clean
  <2>2. CASE ~ (j <= Len(r))
    <3>1. j - Len(r) \in 1 .. n /\ j - Len(r) \in 1 .. Len(a) /\ Len(r) + (j - Len(r)) = j
      BY <1>1, <1>2, <1>6, <2>2
    <3>2. b[Len(r) + (j - Len(r))] = a[j - Len(r)]
      BY <1>2, <3>1
    <3>3. a[j - Len(r)] # NUL
      BY <3>1 DEF Clean
    <3> QED BY <3>1, <3>2, <3>3
  <2> QED BY <2>1, <2>2
<1>7. ~ Clean(b, Len(b))
  BY <1>4, <1>5 DEF Clean
<1>8. ASSUME NEW j \in 1 .. Len(b), IsFirstNUL(b, j) PROVE j = e
  <2>1. b[j] = NUL /\ \A k \in 1 .. j - 1 : b[k] # NUL
    BY <1>8 DEF IsFirstNUL
  <2>2. ~ (j < e)
    BY <1>6, <2>1
  <2>3. e \notin 1 .. j - 1
    BY <1>5, <2>1
  <2> HIDE DEF e
  <2> QED BY <1>1, <1>2, <1>4, <2>2, <2>3
<1> QED BY <1>3, <1>7, <1>8 DEF b

\* ... and when one is added to a buffer that has one.
LEMMA FirstNULKept ==
  ASSUME NEW r \in Seq(Nat), NEW a \in Seq(Nat), ~ Clean(r, Len(r))
  PROVE  /\ ~ Clean(r \o a, Len(r \o a))
         /\ \A j \in DOMAIN (r \o a) :
              IsFirstNUL(r \o a, j) => j \in DOMAIN r /\ IsFirstNUL(r, j)
<1> DEFINE b == r \o a
<1>1. Len(r) \in Nat /\ Len(a) \in Nat /\ DOMAIN r = 1 .. Len(r)
  BY LenProperties
<1>2. b \in Seq(Nat) /\ Len(b) = Len(r) + Len(a) /\ \A j \in 1 .. Len(r) : b[j] = r[j]
  BY Joined
<1> HIDE DEF b
<1>3. PICK k \in 1 .. Len(r) : r[k] = NUL
  BY DEF Clean
<1>4. k \in 1 .. Len(b) /\ b[k] = NUL
  BY <1>1, <1>2, <1>3
<1>5. ~ Clean(b, Len(b))
  BY <1>4 DEF Clean
<1>6. ASSUME NEW j \in DOMAIN b, IsFirstNUL(b, j) PROVE j \in DOMAIN r /\ IsFirstNUL(r, j)
  <2>1. j \in 1 .. Len(b)
    BY <1>2, LenProperties
  <2>2. b[j] = NUL /\ \A i \in 1 .. j - 1 : b[i] # NUL
    BY <1>6 DEF IsFirstNUL
  <2>3. k \notin 1 .. j - 1
    BY <1>4, <2>2
  <2>4. j \in 1 .. Len(r) /\ \A i \in 1 .. j - 1 : i \in 1 .. Len(r)
    BY <1>1, <1>2, <1>3, <2>1, <2>3
  <2> QED BY <1>1, <1>2, <2>2, <2>4 DEF IsFirstNUL
<1> QED BY <1>5, <1>6 DEF b

\* The NULs stay where they are while nothing is read.
LEMMA NULsStay ==
  ASSUME NULsOfText, UNCHANGED <<buf, pipe, printed, chunks>>
  PROVE  NULsOfText'
BY DEF NULsOfText, Text, Clean, Full, Consumed

\* A chunk more.
LEMMA FullAppended ==
  ASSUME TypeOK, NEW s \in Stream, Read(s)
  PROVE  /\ Full(s, Len(chunks[s]) - 1)' <=> Full(s, Len(chunks[s]))
         /\ Full(s, Len(chunks[s]))' <=>
              Full(s, Len(chunks[s])) /\ s = "stdout" /\ ChunkLen(s) = Buf
<1> DEFINE h == chunks[s]
<1> DEFINE n == ChunkLen(s)
<1>1. h \in Seq(1 .. Buf) /\ n \in 1 .. Buf /\ chunks'[s] = Append(h, n) /\ Len(h) \in Nat
  BY ReadEffect, ChunkFacts, LenProperties DEF TypeOK
<1>2. (Full(s, Len(chunks[s]) - 1)' <=>
         \A k \in 1 .. Len(chunks'[s]) - 1 : s = "stdout" /\ chunks'[s][k] = Buf)
      /\ (Full(s, Len(chunks[s]))' <=>
         \A k \in 1 .. Len(chunks'[s]) : s = "stdout" /\ chunks'[s][k] = Buf)
      /\ (Full(s, Len(h)) <=> \A k \in 1 .. Len(h) : s = "stdout" /\ h[k] = Buf)
  BY DEF Full
<1> HIDE DEF h, n
<1>3. /\ Len(chunks'[s]) = Len(h) + 1 /\ Len(chunks'[s]) - 1 = Len(h)
      /\ \A k \in 1 .. Len(h) : chunks'[s][k] = h[k]
      /\ chunks'[s][Len(h) + 1] = n
  BY <1>1, AppendProperties
<1>4. \A k \in 1 .. Len(h) + 1 : k \in 1 .. Len(h) \/ k = Len(h) + 1
  BY <1>1
<1>5. Len(h) + 1 \in 1 .. Len(h) + 1 /\ \A k \in 1 .. Len(h) : k \in 1 .. Len(h) + 1
  BY <1>1
<1>6. Full(s, Len(chunks[s]) - 1)' <=> Full(s, Len(h))
  BY <1>2, <1>3
<1>7. Full(s, Len(chunks[s]))' <=> Full(s, Len(h)) /\ s = "stdout" /\ n = Buf
  BY <1>2, <1>3, <1>4, <1>5
<1> QED BY <1>6, <1>7 DEF h, n

\* A read of a text.
LEMMA NULsRead ==
  ASSUME TypeOK, Flow, NULsOfText, NEW s \in Stream, Read(s)
  PROVE  NULsOfText'
<1> DEFINE r == buf[s]
<1> DEFINE n == ChunkLen(s)
<1> DEFINE a == Added(s, Chunk(s))
<1>1. /\ pipe[s] # << >> /\ printed' = printed
      /\ buf' = [buf EXCEPT ![s] = r \o a]
      /\ pipe' = [pipe EXCEPT ![s] = SubSeq(pipe[s], n + 1, Len(pipe[s]))]
      /\ chunks' = [chunks EXCEPT ![s] = Append(chunks[s], n)]
  BY ReadEffect
<1>2. buf'[s] = r \o a /\ \A t \in Stream \ {s} : buf'[t] = buf[t] /\ pipe'[t] = pipe[t]
                                                   /\ chunks'[t] = chunks[t]
  BY <1>1 DEF TypeOK
<1>3. /\ Chunk(s) \in Seq(Nat) /\ Len(Chunk(s)) = n /\ n \in 1 .. Buf /\ n \in Nat \ {0}
      /\ n <= Len(pipe[s])
      /\ \A j \in 1 .. n : Chunk(s)[j] = pipe[s][j]
  BY <1>1, ChunkFacts, SizeAssumption
<1>4. r \in Seq(Nat) /\ a \in Seq(Nat) /\ Len(r) \in Nat /\ DOMAIN r = 1 .. Len(r)
  BY <1>3, AddedFacts, StreamFacts
<1>5. /\ Consumed(s) \in Nat
      /\ Consumed(s)' = Consumed(s) + n
  <2>1. /\ Len(pipe[s]) \in Nat /\ Len(printed[s]) \in Nat /\ Len(pipe[s]) <= Len(printed[s])
    BY StreamFacts DEF Flow, PipeIsRest
  <2>2. pipe'[s] = SubSeq(pipe[s], n + 1, Len(pipe[s]))
    BY <1>1 DEF TypeOK
  <2>3. Len(pipe'[s]) = Len(pipe[s]) - n
    BY <1>1, <2>2, ChunkFacts
  <2>4. Len(printed'[s]) = Len(printed[s])
    BY <1>1
  <2> HIDE DEF n
  <2> QED BY <1>3, <2>1, <2>3, <2>4 DEF Consumed
<1> SUFFICES ASSUME NEW t \in Stream, Text(t)'
             PROVE  /\ Clean(buf'[t], Len(buf'[t])) <=> Full(t, Len(chunks[t]))'
                    /\ \A j \in DOMAIN buf'[t] :
                         IsFirstNUL(buf'[t], j) =>
                           (j = Consumed(t)' + 1 <=> Full(t, Len(chunks[t]) - 1)')
  BY DEF NULsOfText, Clean
<1>6. Text(t)
  BY <1>1 DEF Text
<1>7. CASE t # s
  <2>1. buf'[t] = buf[t] /\ pipe'[t] = pipe[t] /\ chunks'[t] = chunks[t] /\ printed'[t] = printed[t]
    BY <1>1, <1>2, <1>7
  <2>2. Consumed(t)' = Consumed(t)
    BY <2>1 DEF Consumed
  <2>3. /\ Full(t, Len(chunks[t]))' <=> Full(t, Len(chunks[t]))
        /\ Full(t, Len(chunks[t]) - 1)' <=> Full(t, Len(chunks[t]) - 1)
    BY <2>1 DEF Full
  <2> QED BY <1>6, <2>1, <2>2, <2>3 DEF NULsOfText
<1>8. CASE t = s
  <2>1. /\ Full(s, Len(chunks[s]) - 1)' <=> Full(s, Len(chunks[s]))
        /\ Full(s, Len(chunks[s]))' <=> Full(s, Len(chunks[s])) /\ s = "stdout" /\ n = Buf
    BY FullAppended
  <2>2. Clean(r, Len(r)) <=> Full(s, Len(chunks[s]))
    BY <1>6, <1>8 DEF NULsOfText
  <2>3. Clean(Chunk(s), n)
    <3> SUFFICES ASSUME NEW j \in 1 .. n PROVE Chunk(s)[j] # NUL
      BY DEF Clean
    <3>1. j \in 1 .. Len(pipe[s]) /\ Consumed(s) + j \in 1 .. Len(printed[s])
      <4>1. Len(pipe[s]) \in Nat /\ Len(printed[s]) \in Nat
        BY StreamFacts
      <4>2. Consumed(s) = Len(printed[s]) - Len(pipe[s])
        BY DEF Consumed
      <4>3. n \in Nat /\ n <= Len(pipe[s]) /\ Consumed(s) \in Nat
        BY <1>3, <1>5
      <4>4. j \in Nat \ {0} /\ j <= n
        BY <4>3
      <4>5. j <= Len(pipe[s])
        BY <4>1, <4>3, <4>4
      <4>6. Consumed(s) + j <= Len(printed[s])
        BY <4>1, <4>2, <4>3, <4>4, <4>5
      <4> QED BY <4>1, <4>3, <4>4, <4>5, <4>6
    <3>2. Chunk(s)[j] = printed[s][Consumed(s) + j]
      BY <1>3, <3>1 DEF Flow, PipeIsRest
    <3>3. printed[s][Consumed(s) + j] # NUL
      BY <1>6, <1>8, <3>1, StreamFacts DEF Text
    <3> QED BY <3>2, <3>3
  <2>4. /\ Clean(a, n)
        /\ s = "stdout" /\ n = Buf => Len(a) = n
        /\ ~ (s = "stdout" /\ n = Buf) => n + 1 \in 1 .. Len(a) /\ a[n + 1] = NUL
    BY <1>3, <2>3, AddedText
  <2>5. \A j \in 1 .. Len(r) : Clean(r, j) => j <= Consumed(s)
    BY DEF Flow, BufBegins
  <2>6. Clean(r, Len(r)) => Len(r) = Consumed(s)
    BY DEF Flow, BufWhole
  <2> HIDE DEF r, a, n
  <2>7. CASE ~ Clean(r, Len(r))
    <3>1. ~ Clean(r \o a, Len(r \o a))
      BY <1>4, <2>7, FirstNULKept
    <3>2. ASSUME NEW j \in DOMAIN (r \o a), IsFirstNUL(r \o a, j) PROVE j # Consumed(s) + n + 1
      <4>1. j \in DOMAIN r /\ IsFirstNUL(r, j)
        BY <1>4, <2>7, <3>2, FirstNULKept
      <4>2. j \in 1 .. Len(r) /\ \A k \in 1 .. j - 1 : r[k] # NUL
        BY <1>4, <4>1 DEF IsFirstNUL
      <4>3. Clean(r, j - 1)
        BY <4>2 DEF Clean
      <4>4. j - 1 <= Consumed(s)
        <5>1. CASE j = 1
          BY <1>5, <5>1
        <5>2. CASE j # 1
          <6>1. j - 1 \in 1 .. Len(r)
            BY <1>4, <4>2, <5>2
          <6> QED BY <2>5, <4>3, <6>1
        <5> QED BY <5>1, <5>2
      <4> QED BY <1>3, <1>4, <1>5, <4>2, <4>4
    <3> QED BY <1>2, <1>5, <1>8, <2>1, <2>2, <2>7, <3>1, <3>2
  <2>8. CASE Clean(r, Len(r)) /\ ~ (s = "stdout" /\ n = Buf)
    <3>1. /\ ~ Clean(r \o a, Len(r \o a))
          /\ \A j \in DOMAIN (r \o a) : IsFirstNUL(r \o a, j) => j = Len(r) + n + 1
      BY <1>3, <1>4, <2>4, <2>8, FirstNULAdded
    <3>2. \A j \in DOMAIN (r \o a) : IsFirstNUL(r \o a, j) => j = Consumed(s)' + 1
      BY <1>5, <2>6, <2>8, <3>1
    <3> QED BY <1>2, <1>8, <2>1, <2>2, <2>8, <3>1, <3>2
  <2>9. CASE Clean(r, Len(r)) /\ s = "stdout" /\ n = Buf
    <3> DEFINE b == r \o a
    <3>0. /\ b \in Seq(Nat) /\ Len(b) = Len(r) + Len(a)
          /\ \A j \in 1 .. Len(r) : b[j] = r[j]
          /\ \A j \in 1 .. Len(a) : b[Len(r) + j] = a[j]
      <4>1. r \in Seq(Nat) /\ a \in Seq(Nat)
        BY <1>4
      <4> QED BY <4>1, Joined
    <3> HIDE DEF b
    <3>1. /\ b \in Seq(Nat) /\ Len(b) = Len(r) + n
          /\ \A j \in 1 .. Len(r) : b[j] = r[j]
          /\ \A j \in 1 .. n : b[Len(r) + j] = a[j]
      BY <2>4, <2>9, <3>0
    <3>2. ASSUME NEW j \in 1 .. Len(r) + n PROVE b[j] # NUL
      <4>1. CASE j <= Len(r)
        <5>1. j \in 1 .. Len(r)
          BY <1>3, <1>4, <4>1
        <5> QED BY <2>9, <3>1, <5>1 DEF Clean
      <4>2. CASE ~ (j <= Len(r))
        <5>1. j - Len(r) \in 1 .. n /\ Len(r) + (j - Len(r)) = j
          BY <1>3, <1>4, <4>2
        <5>2. b[j] = a[j - Len(r)]
          BY <3>1, <5>1
        <5> QED BY <2>4, <5>1, <5>2 DEF Clean
      <4> QED BY <4>1, <4>2
    <3>3. Clean(b, Len(b))
      BY <3>1, <3>2 DEF Clean
    <3>4. \A j \in DOMAIN b : ~ IsFirstNUL(b, j)
      <4>1. DOMAIN b = 1 .. Len(r) + n
        BY <3>1, LenProperties
      <4> QED BY <3>2, <4>1 DEF IsFirstNUL
    <3>5. buf'[t] = b
      BY <1>2, <1>8 DEF b
    <3> QED BY <1>8, <2>1, <2>2, <2>9, <3>3, <3>4, <3>5
  <2> QED BY <2>7, <2>8, <2>9
<1> QED BY <1>7, <1>8

\* What the command writes: it makes no text of what was none.
LEMMA NULsWritten ==
  ASSUME TypeOK, Flow, NULsOfText, NEW s \in Stream, Written(s)
  PROVE  NULsOfText'
<1>1. PICK byte \in {NUL, Len(printed[s]) + 1} :
         /\ pipe' = [pipe EXCEPT ![s] = Append(@, byte)]
         /\ printed' = [printed EXCEPT ![s] = Append(@, byte)]
  BY DEF Written
<1>2. buf' = buf /\ chunks' = chunks
  BY DEF Written, worker
<1>3. byte \in Nat
  BY StreamFacts DEF NUL
<1>4. /\ Len(pipe'[s]) = Len(pipe[s]) + 1 /\ Len(printed'[s]) = Len(printed[s]) + 1
      /\ DOMAIN printed'[s] = 1 .. Len(printed[s]) + 1
      /\ \A j \in 1 .. Len(printed[s]) : printed'[s][j] = printed[s][j]
  <2>1. /\ pipe'[s] = Append(pipe[s], byte) /\ pipe[s] \in Seq(Nat)
        /\ printed'[s] = Append(printed[s], byte) /\ printed[s] \in Seq(Nat)
    BY <1>1 DEF TypeOK
  <2> QED BY <1>3, <2>1, AppendProperties, LenProperties
<1>5. \A t \in Stream \ {s} : pipe'[t] = pipe[t] /\ printed'[t] = printed[t]
  BY <1>1 DEF TypeOK
<1>6. ASSUME NEW t \in Stream PROVE Consumed(t)' = Consumed(t)
  <2>1. CASE t = s
    <3>1. Len(pipe[s]) \in Nat /\ Len(printed[s]) \in Nat
      BY StreamFacts
    <3>2. Len(printed'[s]) - Len(pipe'[s]) = Len(printed[s]) - Len(pipe[s])
      BY <1>4, <3>1
    <3> QED BY <2>1, <3>2 DEF Consumed
  <2>2. CASE t # s
    BY <1>5, <2>2 DEF Consumed
  <2> QED BY <2>1, <2>2
<1>7. ASSUME NEW t \in Stream, Text(t)' PROVE Text(t)
  <2>1. CASE t = s
    <3>1. DOMAIN printed[s] = 1 .. Len(printed[s]) /\ Len(printed[s]) \in Nat
      BY StreamFacts
    <3>2. \A j \in 1 .. Len(printed[s]) : j \in 1 .. Len(printed[s]) + 1
      BY <3>1
    <3> QED BY <1>4, <1>7, <2>1, <3>1, <3>2 DEF Text
  <2>2. CASE t # s
    BY <1>5, <1>7, <2>2 DEF Text
  <2> QED BY <2>1, <2>2
<1> SUFFICES ASSUME NEW t \in Stream, Text(t)'
             PROVE  /\ Clean(buf'[t], Len(buf'[t])) <=> Full(t, Len(chunks[t]))'
                    /\ \A j \in DOMAIN buf'[t] :
                         IsFirstNUL(buf'[t], j) =>
                           (j = Consumed(t)' + 1 <=> Full(t, Len(chunks[t]) - 1)')
  BY DEF NULsOfText, Clean
<1>8. Text(t)
  BY <1>7
<1>9. /\ Clean(buf[t], Len(buf[t])) <=> Full(t, Len(chunks[t]))
      /\ \A j \in DOMAIN buf[t] :
           IsFirstNUL(buf[t], j) => (j = Consumed(t) + 1 <=> Full(t, Len(chunks[t]) - 1))
  BY <1>8 DEF NULsOfText
<1>10. buf'[t] = buf[t] /\ Consumed(t)' = Consumed(t)
  BY <1>2, <1>6
<1>11. /\ Full(t, Len(chunks[t]))' <=> Full(t, Len(chunks[t]))
       /\ Full(t, Len(chunks[t]) - 1)' <=> Full(t, Len(chunks[t]) - 1)
  BY <1>2 DEF Full
<1> QED BY <1>9, <1>10, <1>11

\* No step spoils the NULs of a text.
LEMMA NULsKept == TypeOK /\ Flow /\ NULsOfText /\ [Next]_vars => NULsOfText'
<1> SUFFICES ASSUME TypeOK, Flow, NULsOfText, [Next]_vars PROVE NULsOfText'
  OBVIOUS
<1>1. ASSUME NEW s \in Stream, MakePipe(s) PROVE NULsOfText'
  BY <1>1, NULsStay DEF MakePipe, worker
<1>2. ASSUME NEW s \in Stream, Read(s) PROVE NULsOfText'
  BY <1>2, NULsRead
<1>3. ASSUME NEW s \in Stream, ReadEnd(s) PROVE NULsOfText'
  BY <1>3, NULsStay DEF ReadEnd
<1>4. CASE Fork
  BY <1>4, NULsStay DEF Fork
<1>5. CASE CloseWriteEnds
  BY <1>5, NULsStay DEF CloseWriteEnds
<1>6. CASE Wait
  BY <1>6, NULsStay DEF Wait
<1>7. CASE Save
  BY <1>7, NULsStay DEF Save
<1>8. ASSUME NEW s \in Stream, CommandWrites(s) PROVE NULsOfText'
  BY <1>8, NULsStay DEF CommandWrites, worker
<1>9. ASSUME NEW s \in Stream, Written(s) PROVE NULsOfText'
  BY <1>9, NULsWritten
<1>10. ASSUME NEW s \in Stream, CommandCloses(s) PROVE NULsOfText'
  BY <1>10, NULsStay DEF CommandCloses, worker
<1>11. CASE CommandExits
  BY <1>11, NULsStay DEF CommandExits, worker
<1>12. ASSUME NEW o \in Sibling, SiblingForks(o) PROVE NULsOfText'
  BY <1>12, NULsStay DEF SiblingForks, worker
<1>13. ASSUME NEW o \in Sibling, SiblingExits(o) PROVE NULsOfText'
  BY <1>13, NULsStay DEF SiblingExits, worker
<1>14. CASE UNCHANGED vars
  BY <1>14, NULsStay DEF vars, worker
<1> QED BY <1>1, <1>2, <1>3, <1>4, <1>5, <1>6, <1>7, <1>8, <1>9, <1>10, <1>11, <1>12, <1>13, <1>14
        DEF Next, WorkerStep, CommandStep, SiblingStep

-----------------------------------------------------------------------------
(* The ends of the pipes. *)

\* No step brings anything back to a stream that was read to its end.
LEMMA DrainedKept == TypeOK /\ Drained /\ [Next]_vars => Drained'
<1> SUFFICES ASSUME TypeOK, Drained, [Next]_vars PROVE Drained'
  OBVIOUS
<1>1. ASSUME NEW s \in Stream, MakePipe(s) PROVE Drained'
  BY <1>1 DEF TypeOK, Drained, IsDrained, MakePipe, worker, Stream
<1>2. ASSUME NEW s \in Stream, Read(s) PROVE Drained'
  <2>1. /\ pc = s /\ UNCHANGED <<pc, command, writing, holders>>
        /\ \A t \in Stream \ {s} : pipe'[t] = pipe[t]
    BY <1>2, ReadEffect DEF TypeOK
  <2> QED BY <2>1 DEF Drained, IsDrained, Stream
<1>3. ASSUME NEW s \in Stream, ReadEnd(s) PROVE Drained'
  BY <1>3 DEF TypeOK, Drained, IsDrained, ReadEnd, Stream
<1>4. CASE Fork
  BY <1>4 DEF TypeOK, Drained, IsDrained, Fork, Stream
<1>5. CASE CloseWriteEnds
  BY <1>5 DEF TypeOK, Drained, IsDrained, CloseWriteEnds, Stream
<1>6. CASE Wait
  BY <1>6 DEF TypeOK, Drained, IsDrained, Wait, Stream
<1>7. CASE Save
  BY <1>7 DEF TypeOK, Drained, IsDrained, Save, Stream
<1>8. ASSUME NEW s \in Stream, CommandWrites(s) PROVE Drained'
  BY <1>8 DEF TypeOK, Drained, IsDrained, CommandWrites, worker, Stream
<1>9. ASSUME NEW s \in Stream, Written(s) PROVE Drained'
  <2>1. /\ writing = s /\ writing' = "none" /\ UNCHANGED <<pc, command, holders>>
        /\ \A t \in Stream \ {s} : pipe'[t] = pipe[t]
    BY <1>9 DEF TypeOK, Written, worker
  <2>2. "command" \in holders[s] /\ s # "none"
    BY <2>1 DEF Drained, Stream
  <2> QED BY <2>1, <2>2 DEF Drained, IsDrained, Stream
<1>10. ASSUME NEW s \in Stream, CommandCloses(s) PROVE Drained'
  BY <1>10 DEF TypeOK, Drained, IsDrained, CommandCloses, worker, Stream
<1>11. CASE CommandExits
  BY <1>11 DEF TypeOK, Drained, IsDrained, CommandExits, worker, Stream
<1>12. ASSUME NEW o \in Sibling, SiblingForks(o) PROVE Drained'
  BY <1>12, SiblingAssumption DEF TypeOK, Drained, IsDrained, SiblingForks, worker, Stream
<1>13. ASSUME NEW o \in Sibling, SiblingExits(o) PROVE Drained'
  BY <1>13, SiblingAssumption DEF TypeOK, Drained, IsDrained, SiblingExits, worker, Stream
<1>14. CASE UNCHANGED vars
  BY <1>14 DEF Drained, IsDrained, vars, worker
<1> QED BY <1>1, <1>2, <1>3, <1>4, <1>5, <1>6, <1>7, <1>8, <1>9, <1>10, <1>11, <1>12, <1>13, <1>14
        DEF Next, WorkerStep, CommandStep, SiblingStep

-----------------------------------------------------------------------------
(* What is stored. *)

\* The string kept of a buffer: all of a clean one, with at most one byte more,
\* or what is before its first NUL.
LEMMA StringsFacts ==
  ASSUME NEW b \in Seq(Nat), NEW t \in Strings(b), NEW j \in DOMAIN t
  PROVE  \/ j \in 1 .. Len(b) /\ t[j] = b[j] /\ Clean(b, j)
         \/ j = Len(b) + 1 /\ Clean(b, Len(b))
<1> DEFINE ends == {i \in DOMAIN b : IsFirstNUL(b, i)}
<1>1. Len(b) \in Nat /\ DOMAIN b = 1 .. Len(b)
  BY LenProperties
<1>2. CASE ends = {}
  <2>1. \A k \in 1 .. Len(b) : b[k] # NUL
    BY <1>1, <1>2, FirstNUL
  <2>2. t = b \/ t = Append(b, Stray)
    BY <1>2 DEF Strings
  <2>3. \A k \in 1 .. Len(b) : Clean(b, k)
    BY <1>1, <2>1 DEF Clean
  <2>4. Clean(b, Len(b))
    BY <2>1 DEF Clean
  <2>5. CASE t = b
    BY <1>1, <2>3, <2>5
  <2>6. CASE t = Append(b, Stray)
    <3>1. b \in Seq(Byte) /\ Stray \in Byte
      BY SeqMonotonic DEF Byte
    <3>2. /\ DOMAIN t = 1 .. Len(b) + 1
          /\ \A k \in 1 .. Len(b) : t[k] = b[k]
      BY <1>1, <2>6, <3>1, AppendProperties, LenProperties
    <3>3. j \in 1 .. Len(b) \/ j = Len(b) + 1
      BY <1>1, <3>2
    <3> QED BY <2>3, <2>4, <3>2, <3>3
  <2> QED BY <2>2, <2>5, <2>6
<1>3. CASE ends # {}
  <2>1. PICK i \in ends : t = SubSeq(b, 1, i - 1)
    BY <1>3 DEF Strings
  <2>2. i \in 1 .. Len(b) /\ \A k \in 1 .. i - 1 : b[k] # NUL
    BY <1>1 DEF IsFirstNUL
  <2>3. i - 1 \in 0 .. Len(b)
    BY <1>1, <2>2
  <2>4. /\ t \in Seq(Nat) /\ Len(t) = i - 1
        /\ \A k \in 1 .. i - 1 : t[k] = b[k]
    BY <2>1, <2>3, Beginning
  <2>5. j \in 1 .. i - 1
    BY <2>4, LenProperties
  <2>6. j \in 1 .. Len(b)
    BY <1>1, <2>2, <2>5
  <2>7. Clean(b, j)
    BY <1>1, <2>2, <2>5 DEF Clean
  <2> QED BY <2>4, <2>5, <2>6, <2>7
<1> QED BY <1>2, <1>3

\* The saving keeps how the printed output begins.
LEMMA SaveKeepsBeginning ==
  ASSUME TypeOK, Flow, Drained, StoredLast, Save
  PROVE  StoredIsBeginning'
<1>1. PICK out \in Strings(buf["stdout"]), err \in Strings(buf["stderr"]) :
        stored' = [s \in Stream |-> IF buf[s] = << >> THEN stored[s]
                                    ELSE IF s = "stdout" THEN out ELSE err]
  BY DEF Save
<1>2. printed' = printed /\ pc = "save"
  BY DEF Save
<1> SUFFICES ASSUME NEW s \in Stream, printed[s] # << >>
             PROVE  \A i \in DOMAIN stored'[s] :
                      \/ i <= Len(printed[s]) /\ stored'[s][i] = printed[s][i]
                      \/ s = "stdout" /\ Text(s) /\ i = Len(printed[s]) + 1
  BY <1>2 DEF StoredIsBeginning, Text
<1>3. Consumed(s) = Len(printed[s]) /\ Len(printed[s]) \in Nat
  <2>1. pipe[s] = << >>
    BY <1>2 DEF Drained, IsDrained, Stream
  <2>2. Len(pipe[s]) = 0
    BY <2>1
  <2> QED BY <2>2, StreamFacts DEF Consumed
<1>4. printed[s] = << >> <=> buf[s] = << >>
  <2>1. printed[s] = << >> <=> Len(printed[s]) = 0
    BY StreamFacts, EmptySeq
  <2> QED BY <1>3, <2>1 DEF Flow, BufWhole
<1>5. stored'[s] \in Strings(buf[s])
  BY <1>1, <1>4 DEF Stream
<1>6. buf[s] \in Seq(Nat) /\ Len(buf[s]) \in Nat
  BY StreamFacts
<1> SUFFICES ASSUME NEW i \in DOMAIN stored'[s]
             PROVE  \/ i <= Len(printed[s]) /\ stored'[s][i] = printed[s][i]
                    \/ s = "stdout" /\ Text(s) /\ i = Len(printed[s]) + 1
  OBVIOUS
<1>7. CASE i \in 1 .. Len(buf[s]) /\ stored'[s][i] = buf[s][i] /\ Clean(buf[s], i)
  BY <1>3, <1>7 DEF Flow, BufBegins
<1>8. CASE i = Len(buf[s]) + 1 /\ Clean(buf[s], Len(buf[s]))
  <2>1. Len(buf[s]) = Len(printed[s]) /\ s = "stdout"
    BY <1>3, <1>4, <1>8 DEF Flow, BufWhole, Stream
  <2>2. ASSUME NEW k \in DOMAIN printed[s] PROVE printed[s][k] # NUL
    <3>1. k \in 1 .. Len(buf[s])
      BY <2>1, StreamFacts
    <3>2. Clean(buf[s], k)
      BY <1>6, <1>8, <3>1 DEF Clean
    <3>3. buf[s][k] = printed[s][k]
      BY <3>1, <3>2 DEF Flow, BufBegins
    <3> QED BY <1>8, <3>1, <3>3 DEF Clean
  <2> QED BY <1>8, <2>1, <2>2 DEF Text
<1> QED BY <1>5, <1>6, <1>7, <1>8, StringsFacts

\* The saving stores a text whole exactly when the chunks before the last were full.
LEMMA SaveKeepsWhole ==
  ASSUME TypeOK, Flow, NULsOfText, Drained, Save
  PROVE  WholeWhenFull'
<1>1. PICK out \in Strings(buf["stdout"]), err \in Strings(buf["stderr"]) :
        stored' = [s \in Stream |-> IF buf[s] = << >> THEN stored[s]
                                    ELSE IF s = "stdout" THEN out ELSE err]
  BY DEF Save
<1>2. printed' = printed /\ chunks' = chunks /\ pc = "save"
  BY DEF Save
<1> SUFFICES ASSUME NEW s \in Stream, Text(s), printed[s] # << >>
             PROVE  (\E t \in {<< >>, << Stray >>} : stored'[s] = printed[s] \o t)
                      <=> Full(s, Len(chunks[s]) - 1)
  BY <1>2 DEF WholeWhenFull, Text, Full
<1> DEFINE p == printed[s]
<1> DEFINE b == buf[s]
<1> DEFINE w == stored'[s]
<1> DEFINE L == Len(p)
<1>3. Consumed(s) = L /\ L \in Nat \ {0}
  <2>1. pipe[s] = << >>
    BY <1>2 DEF Drained, IsDrained, Stream
  <2>2. Len(pipe[s]) = 0
    BY <2>1
  <2>3. p \in Seq(Nat) /\ Len(p) \in Nat
    BY StreamFacts
  <2>4. Len(p) # 0
    BY <2>3, EmptySeq
  <2> QED BY <2>2, <2>3, <2>4 DEF Consumed
<1>4. w \in Strings(b)
  <2>1. b # << >>
    BY <1>3 DEF Flow, BufWhole
  <2> QED BY <1>1, <2>1 DEF Stream
<1>5. /\ p \in Seq(Nat) /\ b \in Seq(Nat) /\ Len(b) \in Nat /\ DOMAIN b = 1 .. Len(b)
      /\ p \in Seq(Byte) /\ b \in Seq(Byte)
  <2>1. p \in Seq(Nat) /\ b \in Seq(Nat) /\ Len(b) \in Nat /\ DOMAIN b = 1 .. Len(b)
    BY StreamFacts
  <2>2. Seq(Nat) \subseteq Seq(Byte)
    BY SeqMonotonic DEF Byte
  <2> QED BY <2>1, <2>2
<1>6. \A j \in 1 .. Len(b) : Clean(b, j) => j <= L /\ b[j] = p[j]
  BY <1>3 DEF Flow, BufBegins
<1>7. Clean(b, Len(b)) => Len(b) = L
  BY <1>3 DEF Flow, BufWhole
<1>8. /\ Clean(b, Len(b)) <=> Full(s, Len(chunks[s]))
      /\ \A j \in DOMAIN b :
           IsFirstNUL(b, j) => (j = L + 1 <=> Full(s, Len(chunks[s]) - 1))
  BY <1>3 DEF NULsOfText
<1>9. Full(s, Len(chunks[s])) => Full(s, Len(chunks[s]) - 1)
  <2>1. chunks[s] \in Seq(1 .. Buf)
    BY DEF TypeOK
  <2>2. Len(chunks[s]) \in Nat
    BY <2>1, LenProperties
  <2>3. \A k \in 1 .. Len(chunks[s]) - 1 : k \in 1 .. Len(chunks[s])
    BY <2>2
  <2> QED BY <2>3 DEF Full
<1>10. p \o << >> = p
  BY <1>5, ConcatEmptySeq
<1>11. Stray \in Byte /\ << Stray >> \in Seq(Byte) /\ Len(<< Stray >>) = 1
  BY DEF Byte
<1>12. Len(p \o << Stray >>) = L + 1
  <2>1. Len(p \o << Stray >>) = Len(p) + Len(<< Stray >>)
    BY <1>5, <1>11, ConcatProperties
  <2> QED BY <1>11, <2>1
<1> HIDE DEF p, b, w, L
<1>13. CASE Clean(b, Len(b))
  <2>1. b = p
    <3>1. \A j \in 1 .. Len(b) : Clean(b, j)
      BY <1>5, <1>13 DEF Clean
    <3>2. Len(b) = Len(p) /\ \A j \in 1 .. Len(b) : b[j] = p[j]
      BY <1>6, <1>7, <1>13, <3>1 DEF L
    <3> QED BY <1>5, <3>2, SeqEqual
  <2>2. \A i \in DOMAIN b : ~ IsFirstNUL(b, i)
    BY <1>5, <1>13 DEF IsFirstNUL, Clean
  <2>3. w = b \/ w = Append(b, Stray)
    BY <1>4, <2>2 DEF Strings
  <2>4. Append(b, Stray) = b \o << Stray >>
    BY <1>5, <1>11, AppendIsConcat
  <2>5. \E t \in {<< >>, << Stray >>} : w = p \o t
    BY <1>10, <2>1, <2>3, <2>4
  <2> QED BY <1>8, <1>9, <1>13, <2>5 DEF w, p
<1>14. CASE ~ Clean(b, Len(b))
  <2>1. PICK i \in DOMAIN b : IsFirstNUL(b, i) /\ w = SubSeq(b, 1, i - 1)
    <3>1. PICK k \in DOMAIN b : b[k] = NUL
      BY <1>5, <1>14 DEF Clean
    <3>2. \E i \in DOMAIN b : IsFirstNUL(b, i)
      BY <1>5, <3>1, FirstNUL
    <3> QED BY <1>4, <3>2 DEF Strings
  <2>2. i \in 1 .. Len(b) /\ i - 1 \in 0 .. Len(b) /\ i - 1 \in Nat
    BY <1>5
  <2>3. w \in Seq(Nat) /\ Len(w) = i - 1 /\ \A j \in 1 .. i - 1 : w[j] = b[j]
    BY <1>5, <2>1, <2>2, Beginning
  <2>4. \A k \in 1 .. i - 1 : b[k] # NUL
    BY <2>1 DEF IsFirstNUL
  <2>5. ASSUME NEW j \in 1 .. i - 1 PROVE j <= L /\ b[j] = p[j]
    <3>1. j \in 1 .. Len(b) /\ \A k \in 1 .. j : k \in 1 .. i - 1
      BY <1>5, <2>2
    <3>2. Clean(b, j)
      BY <2>4, <3>1 DEF Clean
    <3> QED BY <1>6, <3>1, <3>2
  <2>6. i - 1 <= L
    <3>1. CASE i - 1 = 0
      BY <1>3, <3>1
    <3>2. CASE i - 1 # 0
      <4>1. i - 1 \in 1 .. i - 1
        BY <2>2, <3>2
      <4> QED BY <2>5, <4>1
    <3> QED BY <3>1, <3>2
  <2>7. i = L + 1 <=> Full(s, Len(chunks[s]) - 1)
    BY <1>8, <2>1
  <2>8. CASE i = L + 1
    <3>1. i - 1 = L
      BY <1>3, <2>8
    <3>2. Len(w) = Len(p)
      BY <2>3, <3>1 DEF L
    <3>3. \A j \in 1 .. Len(w) : w[j] = p[j]
      BY <2>3, <2>5
    <3>4. w = p
      BY <1>5, <2>3, <3>2, <3>3, SeqEqual
    <3> QED BY <1>10, <2>7, <2>8, <3>4 DEF w, p
  <2>9. CASE i # L + 1
    <3>1. Len(w) # L /\ Len(w) # L + 1
      BY <1>3, <2>2, <2>3, <2>6, <2>9
    <3>2. w # p /\ w # p \o << Stray >>
      BY <1>12, <3>1 DEF L
    <3> QED BY <1>10, <2>7, <2>9, <3>2 DEF w, p
  <2> QED BY <2>8, <2>9
<1> QED BY <1>13, <1>14

\* What is stored, and what it is compared with, stay as they are.
LEMMA StoredStays ==
  ASSUME StoredLast, StoredIsBeginning, WholeWhenFull, UNCHANGED <<stored, printed>>,
         pc' = "done" <=> pc = "done",
         pc = "done" => UNCHANGED chunks
  PROVE  StoredLast' /\ StoredIsBeginning' /\ WholeWhenFull'
<1>1. StoredLast' /\ StoredIsBeginning'
  BY DEF StoredLast, StoredIsBeginning, Text
<1>2. WholeWhenFull'
  BY DEF WholeWhenFull, Text
<1> QED BY <1>1, <1>2

\* Only the saving stores, and nothing is printed after it.
LEMMA StoredKept ==
  TypeOK /\ Flow /\ Drained /\ NULsOfText /\ StoredLast /\ StoredIsBeginning
    /\ WholeWhenFull /\ [Next]_vars => StoredLast' /\ StoredIsBeginning' /\ WholeWhenFull'
<1> SUFFICES ASSUME TypeOK, Flow, Drained, NULsOfText, StoredLast, StoredIsBeginning,
                    WholeWhenFull, [Next]_vars
             PROVE  StoredLast' /\ StoredIsBeginning' /\ WholeWhenFull'
  OBVIOUS
<1> DEFINE Kept == StoredLast' /\ StoredIsBeginning' /\ WholeWhenFull'
<1>1. ASSUME NEW s \in Stream, MakePipe(s) PROVE Kept
  BY <1>1, StoredStays DEF MakePipe, worker
<1>2. ASSUME NEW s \in Stream, Read(s) PROVE Kept
  <2>1. pc = s /\ UNCHANGED <<pc, stored, printed>>
    BY <1>2, ReadEffect
  <2>2. pc # "done"
    BY <2>1 DEF Stream
  <2> QED BY <2>1, <2>2, StoredStays
<1>3. ASSUME NEW s \in Stream, ReadEnd(s) PROVE Kept
  BY <1>3, StoredStays DEF ReadEnd, Stream
<1>4. CASE Fork
  BY <1>4, StoredStays DEF Fork
<1>5. CASE CloseWriteEnds
  BY <1>5, StoredStays DEF CloseWriteEnds
<1>6. CASE Wait
  BY <1>6, StoredStays DEF Wait
<1>7. CASE Save
  <2>1. pc' = "done"
    BY <1>7 DEF Save
  <2> QED BY <1>7, <2>1, SaveKeepsBeginning, SaveKeepsWhole DEF StoredLast
<1>8. ASSUME NEW s \in Stream, CommandWrites(s) PROVE Kept
  BY <1>8, StoredStays DEF CommandWrites, worker
<1>9. ASSUME NEW s \in Stream, Written(s) PROVE Kept
  <2>1. writing = s /\ "command" \in holders[s]
    BY <1>9 DEF Written, Drained, Stream
  <2>2. pc # "done"
    BY <2>1 DEF Drained, IsDrained, Stream
  <2>3. pc' = pc /\ stored' = stored
    BY <1>9 DEF Written, worker
  <2> QED BY <2>2, <2>3 DEF StoredLast, StoredIsBeginning, WholeWhenFull
<1>10. ASSUME NEW s \in Stream, CommandCloses(s) PROVE Kept
  BY <1>10, StoredStays DEF CommandCloses, worker
<1>11. CASE CommandExits
  BY <1>11, StoredStays DEF CommandExits, worker
<1>12. ASSUME NEW o \in Sibling, SiblingForks(o) PROVE Kept
  BY <1>12, StoredStays DEF SiblingForks, worker
<1>13. ASSUME NEW o \in Sibling, SiblingExits(o) PROVE Kept
  BY <1>13, StoredStays DEF SiblingExits, worker
<1>14. CASE UNCHANGED vars
  BY <1>14, StoredStays DEF vars, worker
<1> QED BY <1>1, <1>2, <1>3, <1>4, <1>5, <1>6, <1>7, <1>8, <1>9, <1>10, <1>11, <1>12, <1>13, <1>14
        DEF Next, WorkerStep, CommandStep, SiblingStep

-----------------------------------------------------------------------------
(* The theorems. *)

\* At the start nothing is printed and nothing is read.
LEMMA InitIInv == Init => IInv
<1> SUFFICES ASSUME Init PROVE IInv
  OBVIOUS
<1>1. << >> \in Seq(Nat) /\ << >> \in Seq(1 .. Buf) /\ Len(<< >>) = 0
  OBVIOUS
<1>2. \A s \in Stream : pipe[s] = << >> /\ printed[s] = << >> /\ buf[s] = << >>
                       /\ holders[s] = {} /\ stored[s] = Earlier
  BY DEF Init
<1>3. TypeOK
  BY <1>1, SizeAssumption DEF Init, TypeOK, Stream
<1>4. \A s \in Stream : Consumed(s) = 0
  BY <1>1, <1>2 DEF Consumed
<1>5. Flow
  <2>1. PipeIsRest
    BY <1>1, <1>2 DEF PipeIsRest
  <2>2. BufBegins
    BY <1>1, <1>2 DEF BufBegins
  <2>3. BufWhole
    BY <1>1, <1>2, <1>4 DEF BufWhole
  <2> QED BY <2>1, <2>2, <2>3 DEF Flow
<1>6. Drained
  BY DEF Init, Drained, Stream
<1>7. StoredLast /\ StoredIsBeginning /\ WholeWhenFull
  BY <1>2 DEF Init, StoredLast, StoredIsBeginning, WholeWhenFull, Stream
<1>8. NULsOfText
  <2>1. \A s \in Stream : chunks[s] = << >> /\ Len(chunks[s]) = 0 /\ Len(buf[s]) = 0
                         /\ DOMAIN buf[s] = {}
    BY <1>2 DEF Init
  <2> QED BY <2>1 DEF NULsOfText, Clean, Full
<1> QED BY <1>3, <1>5, <1>6, <1>7, <1>8 DEF IInv

\* The inductive invariant: the bytes are followed from the command to the
\* string that worker_main keeps.
THEOREM Invariance == Spec => []IInv
<1>1. Init => IInv
  BY InitIInv
<1>2. IInv /\ [Next]_vars => IInv'
  BY TypeKept, FlowKept, NULsKept, DrainedKept, StoredKept DEF IInv
<1> QED BY <1>1, <1>2, PTL DEF Spec

\* Every variable keeps its shape, and no pipe holds more than it can.
THEOREM TypeCorrect == Spec => []TypeOK
<1>1. IInv => TypeOK
  BY DEF IInv
<1> QED BY <1>1, Invariance, PTL

\* What a worker keeps of an output is how the printed one begins, for every size
\* of buffer and pipe, every output, and every way the reads cut it up.
THEOREM StoredBegins == Spec => []StoredIsBeginning
<1>1. IInv => StoredIsBeginning
  BY DEF IInv
<1> QED BY <1>1, Invariance, PTL

\* Whether a text is stored whole depends on how the reads cut it up and on nothing
\* else: on stdout every chunk before the last must be full, on stderr there may be
\* no other chunk.
THEOREM WholeOnlyWhenFull == Spec => []WholeWhenFull
<1>1. IInv => WholeWhenFull
  BY DEF IInv
<1> QED BY <1>1, Invariance, PTL
=============================================================================
