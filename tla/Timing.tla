------------------------------- MODULE Timing -------------------------------
(***************************************************************************)
(* A timing field: the text cassini is given for it, the set of values the *)
(* bits of the field stand for, and the text it prints.  A text is a       *)
(* sequence of characters; indexes are those of the C code plus one.       *)
(***************************************************************************)
EXTENDS Integers, Sequences

CONSTANT FieldMax   \* the largest value of the field, the smallest being 0

ASSUME FieldAssumption == FieldMax \in 0 .. 63   \* it has 64 bits

Figure == <<"0", "1", "2", "3", "4", "5", "6", "7", "8", "9">>
Digit == {Figure[n] : n \in 1 .. 10}
ValueOf(c) == CHOOSE n \in 0 .. 9 : Figure[n + 1] = c

\* The character at p, "" being the NUL behind the text.
At(text, p) == IF p \in DOMAIN text THEN text[p] ELSE ""

-----------------------------------------------------------------------------
(* Parsing. *)

\* The number that digits stand for, the highest first.
Positional(base, digits) ==
  LET upto[n \in 0 .. Len(digits)] ==
        IF n = 0 THEN 0 ELSE base * upto[n - 1] + digits[n]
  IN upto[Len(digits)]

Decimal(number) == Positional(10, [k \in 1 .. Len(number) |-> ValueOf(number[k])])

Failed == [read |-> -1, value |-> 0]

\* timing_uint_from_string: the longest number at p.
UInt(text, p) ==
  IF At(text, p) \notin Digit THEN Failed
  ELSE LET end    == CHOOSE q \in p .. Len(text) :
                       /\ \A k \in p .. q : text[k] \in Digit
                       /\ At(text, q + 1) \notin Digit
       IN [read |-> end + 1 - p, value |-> Decimal(SubSeq(text, p, end))]

\* timing_range_from_string: a number, or two with a "-" between them.
RangeAt(text, p) ==
  LET first == UInt(text, p)
      dash  == p + first.read
      two   == At(text, dash) = "-"
      last  == IF two THEN UInt(text, dash + 1) ELSE first
  IN IF -1 \in {first.read, last.read} \/ ~(first.value <= last.value /\ last.value <= FieldMax)
     THEN [read |-> -1, values |-> {}]
     ELSE [read   |-> first.read + (IF two THEN 1 + last.read ELSE 0),
           values |-> first.value .. last.value]

-----------------------------------------------------------------------------
(* Printing. *)

\* "%u" of a value: one figure or two.
Printed(n) == IF n <= 9 THEN <<Figure[n + 1]>>
              ELSE <<Figure[(n \div 10) + 1], Figure[(n % 10) + 1]>>

\* Mutant: a range that reaches the end of the field is taken for all of it.
StringFromRangeShort(start, stop) ==
  IF stop = FieldMax THEN <<"*">>
  ELSE IF start = stop THEN Printed(start)
  ELSE Printed(start) \o <<"-">> \o Printed(stop)

\* timing_string_from_range, or the "*" timing_string_from_field writes itself.
StringFromRange(start, stop) ==
  IF start = 0 /\ stop = FieldMax THEN <<"*">>
  ELSE IF start = stop THEN Printed(start)
  ELSE Printed(start) \o <<"-">> \o Printed(stop)

\* The turn of the loop of timing_string_from_field for n; acc has the start of the
\* range it is in, if any, and the text so far.
Turn(field, acc, n) ==
  IF acc.start = -1
  THEN IF n \in field THEN [acc EXCEPT !.start = n] ELSE acc
  ELSE IF n \in field /\ n <= FieldMax THEN acc
  ELSE [start |-> -1,
        text  |-> acc.text \o (IF acc.text = << >> THEN << >> ELSE <<",">>)
                    \o StringFromRange(acc.start, n - 1)]

\* timing_string_from_field: the loop from 0 to one above the largest value.
StringFromField(field) ==
  LET after[n \in 0 .. FieldMax + 2] ==
        IF n = 0 THEN [start |-> -1, text |-> << >>] ELSE Turn(field, after[n - 1], n - 1)
  IN after[FieldMax + 2].text

-----------------------------------------------------------------------------
(* What a text means, without a parser: its items are what the commas separate, *)
(* an item is a number or a pair of numbers with a "-" between them.            *)

IsItem(text, a, b) == /\ At(text, a - 1) \in {"", ","} /\ At(text, b + 1) \in {"", ","}
                      /\ a <= b + 1
                      /\ \A k \in a .. b : text[k] # ","

Items(text) == UNION {{SubSeq(text, a, b) : b \in {b \in 0 .. Len(text) : IsItem(text, a, b)}}
                        : a \in 1 .. Len(text) + 1}

IsNumber(s) == s # << >> /\ \A k \in DOMAIN s : s[k] \in Digit
NumberOf(s) == UInt(s, 1).value

\* The values an item names; none if it is not one.
Named(item) ==
  {n \in 0 .. FieldMax :
     \E k \in 0 .. Len(item) :
       LET lo == IF k = 0 THEN item ELSE SubSeq(item, 1, k - 1)
           hi == IF k = 0 THEN item ELSE SubSeq(item, k + 1, Len(item))
       IN /\ k > 0 => item[k] = "-"
          /\ IsNumber(lo) /\ IsNumber(hi)
          /\ NumberOf(hi) <= FieldMax
          /\ NumberOf(lo) <= n /\ n <= NumberOf(hi)}

Denoted(text) == IF text = <<"*">> THEN 0 .. FieldMax
                 ELSE UNION {Named(item) : item \in Items(text)}

WellFormed(text) == text = <<"*">> \/ \A item \in Items(text) : Named(item) # {}
=============================================================================
