----------------------------- MODULE MCTaskTrip -----------------------------
(* TaskTrip on small instances. *)
EXTENDS TaskTrip

CONSTANT MaxText

\* Values of one figure and of two can be typed, and numbers that are too large.
MCTexts == UNION {[1 .. n -> Character] : n \in 0 .. MaxText}

\* No argument, an empty one, and two, which make the request two chunks.
MCArgvs == {<< >>, << << >> >>, << <<0, 3>>, <<2, 1>> >>}

\* Nothing, and a small number.
MCLeft == {[k \in 1 .. Word |-> 0], [k \in 1 .. Word |-> IF k = Word THEN 1 ELSE 0]}
=============================================================================
