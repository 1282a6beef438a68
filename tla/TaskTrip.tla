------------------------------ MODULE TaskTrip ------------------------------
(***************************************************************************)
(* The way of a task from the text typed after `cassini -c -m` to the text *)
(* `cassini -l` shows: parsed, written to the request pipe in chunks, read *)
(* field by field, kept in the `task` file, read back at the next start,   *)
(* written to the reply pipe, read again and printed.  Each leg is a       *)
(* message of big-endian numbers, its writer, and its reader, which does   *)
(* not look whether it was given as much as it asked for.                  *)
(***************************************************************************)
EXTENDS Timing
LOCAL INSTANCE SequencesExt

CONSTANTS Character,  \* the characters of a text, each a string
          Texts,      \* the texts that may be typed
          Argvs,      \* the command lines, sequences of sequences of bytes
          Wrap,       \* the values of an unsigned int: more than any text is long
          Chunk,      \* PIPE_BUF
          Base,       \* the values of a byte
          Word,       \* the bytes of a number, one width for all of them
          Left,       \* BOUND: what a variable may hold that nothing was read into
          Most,       \* BOUND: the counts a reader gone astray is followed with
          CanDie      \* may a writer be killed between two writes?

ASSUME WidthAssumption == Wrap \in Nat /\ Chunk \in Nat \ {0} /\ Base \in Nat \ {0, 1}
                            /\ Word \in Nat \ {0, 1}
ASSUME TextAssumption ==
  /\ "" \notin Character
  /\ \A text \in Texts : text \in Seq(Character) /\ Len(text) < Wrap - 1
ASSUME LeftAssumption == Left \subseteq [1 .. Word -> 0 .. Base - 1] /\ Most \in Nat
ASSUME DieAssumption == CanDie \in BOOLEAN

VARIABLES
  text, pos, field,       \* timing_field_from_string
  leg,                    \* how far the task has come
  task,                   \* the task as it is written on this leg
  i, remaining,           \* write_buffer
  pipe, open,             \* the bytes on their way; is the writer still there?
  next, got,              \* the field to be read next, what was read before it
  died,                   \* history: the writer of this leg was killed
  cut                     \* history: a read has returned less than a number

parser == <<text, pos, field>>
writer == <<i, remaining, open, died>>
reader == <<next, got, cut>>
vars == <<parser, leg, task, writer, pipe, reader>>

-----------------------------------------------------------------------------
(* The encoding. *)

\* A number without its k lowest digits.
Shifted(base, n, k) ==
  LET by[j \in 0 .. k] == IF j = 0 THEN n ELSE by[j - 1] \div base IN by[k]

\* write_uint16, write_uint32, write_uint64: the high byte first.
Big(n) == [k \in 1 .. Word |-> Shifted(Base, n, Word - k) % Base]
Number(bytes) == Positional(Base, bytes)
Fits(n) == Shifted(Base, n, Word) = 0

Bits(values) ==
  Positional(2, [k \in 1 .. FieldMax + 1 |-> IF FieldMax + 1 - k \in values THEN 1 ELSE 0])
ValuesOf(bits) == {n \in 0 .. FieldMax : Shifted(2, bits, n) % 2 = 1}

ASSUME ArgvAssumption ==
  \A argv \in Argvs : /\ argv \in Seq(Seq(0 .. Base - 1)) /\ Fits(Len(argv))
                      /\ \A k \in DOMAIN argv : Fits(Len(argv[k]))
ASSUME FitAssumption == Fits(Bits(0 .. FieldMax))

\* What precedes the task: the opcode, its identifier in the file, and the
\* reply's type, the number of tasks and the identifier.
Header(l) == CASE l = "request" -> <<1>> [] l = "file" -> <<2>> [] l = "reply" -> <<3, 1, 2>>

WriteString(s) == Big(Len(s)) \o s

\* Mutant: a string is written without its length.
WriteCommandlineBare(argv) == Big(Len(argv)) \o FlattenSeq(argv)

WriteCommandline(argv) ==
  Big(Len(argv)) \o FlattenSeq([k \in DOMAIN argv |-> WriteString(argv[k])])

Message == FlattenSeq([k \in DOMAIN Header(leg) |-> Big(Header(leg)[k])])
             \o Big(Bits(task.field)) \o WriteCommandline(task.argv)

NoTask == [field |-> {}, argv |-> << >>]
Nothing == [head |-> << >>, field |-> {}, argc |-> 0, length |-> 0, argv |-> << >>]

Init == /\ text \in Texts /\ pos = 0 /\ field = {}
        /\ leg = "parse" /\ task = NoTask
        /\ i = 0 /\ remaining = 0
        /\ pipe = << >> /\ open = FALSE
        /\ next = "head" /\ got = Nothing
        /\ died = FALSE /\ cut = FALSE

-----------------------------------------------------------------------------
(* timing_field_from_string. *)

Parsed(values) == /\ leg' = "build"
                  /\ field' = values
                  /\ UNCHANGED <<text, task, writer, pipe, reader>>

Refuse == /\ leg = "parse"
          /\ text = << >>
          /\ leg' = "refused"
          /\ UNCHANGED <<parser, task, writer, pipe, reader>>

Star == /\ leg = "parse" /\ pos = 0
        /\ At(text, 1) = "*"
        /\ pos' = 1
        /\ Parsed(0 .. FieldMax)

\* A range, the first one or one behind a comma.  A failure is -1 to an unsigned
\* int, which passes the assertion that it is positive and is added to pos.
AddRange(at, before) ==
  /\ leg = "parse"
  /\ LET range == RangeAt(text, at + 1) IN
       /\ pos' = (at + range.read) % Wrap
       /\ field' = IF range.read = -1 THEN field ELSE before \cup range.values
  /\ UNCHANGED <<text, leg, task, writer, pipe, reader>>

\* Mutant: the result is reset for each item.
ItemAlone(at) == AddRange(at, {})

Item(at) == AddRange(at, field)

FirstItem == /\ pos = 0
             /\ text # << >> /\ text[1] # "*"
             /\ Item(0)

\* Mutant: the comma is not skipped.
NextItemAtComma == /\ pos > 0 /\ At(text, pos + 1) = ","
                   /\ Item(pos)

NextItem == /\ pos > 0 /\ At(text, pos + 1) = ","
            /\ Item(pos + 1)

\* Anything else ends the text ...
EndOfField == /\ leg = "parse"
              /\ pos \in 1 .. Len(text) /\ At(text, pos + 1) # ","
              /\ UNCHANGED pos
              /\ Parsed(field)

\* ... unless it lies 4 gigabytes behind it.
ReadsFarOut == /\ leg = "parse"
               /\ pos > Len(text)
               /\ leg' = "crashed"
               /\ UNCHANGED <<parser, task, writer, pipe, reader>>

-----------------------------------------------------------------------------
(* A leg. *)

Legs == {"request", "file", "reply"}

Starts(l, t) == /\ leg' = l
                /\ task' = t
                /\ i' = 0 /\ remaining' = Len(Message')
                /\ open' = TRUE /\ died' = FALSE
                /\ pipe' = << >>
                /\ next' = "head" /\ got' = Nothing
                /\ UNCHANGED cut

\* commandline_from_args and write_task.
Build == /\ leg = "build"
         /\ \E argv \in Argvs : Starts("request", [field |-> field, argv |-> argv])
         /\ UNCHANGED parser

\* write_buffer: one turn of its loop, the last of which closes.
WriteUpTo(rest) ==
  /\ leg \in Legs /\ open
  /\ LET size == IF rest > Chunk THEN Chunk ELSE rest
     IN /\ pipe' = pipe \o SubSeq(Message, i * Chunk + 1, i * Chunk + size)
        /\ remaining' = rest
        /\ open' = (rest > Chunk)
  /\ i' = i + 1
  /\ UNCHANGED <<parser, leg, task, reader, died>>

\* Mutant: the first chunk is counted off before it is written.
WriteChunkEarly == WriteUpTo(remaining - Chunk)

WriteChunk == WriteUpTo(IF i > 0 THEN remaining - Chunk ELSE remaining)

WriterDies == /\ CanDie /\ leg \in Legs /\ open
              /\ open' = FALSE /\ died' = TRUE
              /\ UNCHANGED <<parser, leg, task, i, remaining, pipe, reader>>

\* read waits for a byte or for the end of the last writer.  A file is complete when
\* it is read, and one without a byte is not loaded (module Saturnd).
Size == IF next = "byte" THEN 1 ELSE Word
CanRead == /\ next # "end"
           /\ leg \in Legs
           /\ pipe = << >> => ~open
           /\ leg = "file" => ~open /\ i > 0

\* Nobody looks at how much read returned: there may be fewer bytes than a number
\* has, or none at the end, and the rest of the variable is what was left in it.
Values == {Number([k \in 1 .. Size |-> IF k <= Len(pipe) THEN pipe[k] ELSE left[k]]) : left \in Left}

Takes == /\ CanRead
         /\ pipe' = IF Len(pipe) < Size THEN << >> ELSE SubSeq(pipe, Size + 1, Len(pipe))
         /\ cut' = (cut \/ Len(pipe) < Size)
         /\ UNCHANGED <<parser, task, writer>>

\* Another number in front makes it another message, or another task: what becomes
\* of that is left out, as is a made-up count that is too large to be followed.
Astray(g) == leg' = IF g.head = SubSeq(Header(leg), 1, Len(g.head)) THEN leg ELSE "astray"
Counts(value) == leg' = IF cut' /\ value > Most THEN "astray" ELSE leg

ReadHead == /\ next = "head" /\ Takes
            /\ \E value \in Values : got' = [got EXCEPT !.head = Append(@, value)]
            /\ next' = IF Len(got'.head) = Len(Header(leg)) THEN "timing" ELSE "head"
            /\ Astray(got')

ReadTiming == /\ next = "timing" /\ Takes
              /\ \E value \in Values : got' = [got EXCEPT !.field = ValuesOf(value)]
              /\ next' = "argc"
              /\ UNCHANGED leg

\* read_commandline: argc strings, each with its length in front.
Continues(g) == IF Len(g.argv) < g.argc THEN "length" ELSE "end"

ReadArgc == /\ next = "argc" /\ Takes
            /\ \E value \in Values : got' = [got EXCEPT !.argc = value] /\ Counts(value)
            /\ next' = Continues(got')

ReadLength == /\ next = "length" /\ Takes
              /\ \E value \in Values :
                   /\ got' = [got EXCEPT !.length = value, !.argv = Append(@, << >>)]
                   /\ Counts(value)
              /\ next' = IF got'.length = 0 THEN Continues(got') ELSE "byte"

ReadByte == /\ next = "byte" /\ Takes
            /\ \E value \in Values : got' = [got EXCEPT !.argv[Len(got.argv)] = Append(@, value)]
            /\ next' = IF Len(got'.argv[Len(got.argv)]) < got.length THEN "byte"
                       ELSE Continues(got')
            /\ UNCHANGED leg

\* The task was read: it is stored, and later loaded, listed and shown.
Deliver == /\ next = "end" /\ leg \notin {"shown", "astray"}
           /\ LET read == [field |-> got.field, argv |-> got.argv] IN
                \/ leg = "request" /\ Starts("file", read)
                \/ leg = "file" /\ Starts("reply", read)
                \/ /\ leg = "reply"
                   /\ leg' = "shown" /\ task' = read
                   /\ UNCHANGED <<writer, pipe, reader>>
           /\ UNCHANGED parser

-----------------------------------------------------------------------------
ParserStep == Refuse \/ Star \/ FirstItem \/ NextItem \/ EndOfField \/ ReadsFarOut

ReaderStep == \/ ReadHead \/ ReadTiming
              \/ ReadArgc \/ ReadLength \/ ReadByte \/ Deliver

Step == ParserStep \/ Build \/ WriteChunk \/ ReaderStep

Next == Step \/ WriterDies

Spec == Init /\ [][Next]_vars

\* Each program runs on.
FairSpec == Spec /\ WF_vars(Step)

-----------------------------------------------------------------------------
(* Properties. *)

\* Every variable has the shape the code gives it.
TypeOK == /\ text \in Texts /\ pos \in 0 .. Wrap - 1 /\ field \subseteq 0 .. FieldMax
          /\ leg \in {"parse", "refused", "crashed", "build", "request", "file", "reply", "shown", "astray"}
          /\ task.field \subseteq 0 .. FieldMax
          /\ i \in Nat /\ remaining \in Nat
          /\ pipe \in Seq(0 .. Base - 1)
          /\ next \in {"head", "timing", "argc", "length", "byte", "end"}
          /\ Len(got.argv) <= got.argc

\* A field that is accepted holds what the part of the text that was read means,
\* and no well-formed text is refused, crashes the client, or keeps it in its
\* loop for ever.
ParsedIsDenoted ==
  /\ leg \notin {"parse", "refused", "crashed"} =>
       LET read == SubSeq(text, 1, pos) IN WellFormed(read) /\ field = Denoted(read)
  /\ leg \in {"refused", "crashed"} => ~WellFormed(text)

\* The first number that is read in part is one where one write ended and the next
\* had not begun, or behind a writer that was killed; never in a message of one write.
ShortOnlyAtChunkEnd ==
  [][~cut /\ cut' =>
       /\ i * Chunk < Len(Message)
       /\ died \/ Len(pipe) \in 1 .. Size - 1
       /\ i = 0 => died /\ got = Nothing]_vars

\* What is shown is what was typed, as long as no number was read in part: the
\* printed text means what the typed text means, however that put it, and the
\* command line is one that was given.
ShownIsTyped ==
  leg = "shown" /\ ~cut => /\ Denoted(StringFromField(task.field)) = Denoted(SubSeq(text, 1, pos))
                           /\ task.argv \in Argvs

\* A task arrives, though it may have become another one on its way, or its text is
\* refused, unless the daemon died before it wrote a byte of the file, or a comma of
\* the text is not followed by a range: then cassini never ends.
TripEnds ==
  leg = "parse" ~> \/ leg \in {"shown", "refused", "crashed"}
                   \/ leg = "astray" /\ cut
                   \/ leg = "file" /\ i = 0 /\ died
                   \/ leg = "parse" /\ \E k \in DOMAIN text :
                        text[k] = "," /\ RangeAt(text, k + 1).read = -1
=============================================================================
