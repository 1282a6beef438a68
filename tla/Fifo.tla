-------------------------------- MODULE Fifo --------------------------------
(***************************************************************************)
(* A named pipe (fifo(7)), as far as cassini and saturnd rely on it.  A    *)
(* process in a blocking open already counts as a reader or a writer; the  *)
(* open returns once a process has opened the other end since, even if     *)
(* that one has closed it again.  What was written and not read is kept    *)
(* while any process has an end open, and lost when the last one closes.   *)
(***************************************************************************)
EXTENDS Sequences

NewFifo == [readers |-> {}, writers |-> {}, met |-> {}, data |-> << >>]

\* p enters open(O_RDONLY), or open(O_WRONLY).
EnterRead(f, p) ==
  [f EXCEPT !.readers = @ \cup {p},
            !.met = IF f.writers = {} THEN @ ELSE @ \cup f.writers \cup {p}]

EnterWrite(f, p) ==
  [f EXCEPT !.writers = @ \cup {p},
            !.met = IF f.readers = {} THEN @ ELSE @ \cup f.readers \cup {p}]

\* The open of p returns.
Opened(f, p) == p \in f.met

\* open(O_WRONLY | O_NONBLOCK) fails with ENXIO, and write raises SIGPIPE,
\* when nobody reads.
HasReader(f) == f.readers # {}

Put(f, m) == [f EXCEPT !.data = Append(@, m)]
Take(f)   == [f EXCEPT !.data = Tail(@)]

\* read returns 0 bytes: there is nothing to read, and nobody to write.
AtEnd(f) == f.data = << >> /\ f.writers = {}

CloseEnd(f, p) ==
  [readers |-> f.readers \ {p},
   writers |-> f.writers \ {p},
   met     |-> f.met \ {p},
   data    |-> IF f.readers \cup f.writers \subseteq {p} THEN << >> ELSE f.data]
=============================================================================
