--------------------------- MODULE TaskTripProofs ---------------------------
(***************************************************************************)
(* A task arrives as it was typed.  The parser: a number is a run of       *)
(* figures, a range is read where there is an item, and what was read is   *)
(* the items up to the position.  The printer: its text means the values   *)
(* it was given.  The encoding: bytes are read as the number they were     *)
(* written from.  A leg: what the reader holds and what is in the pipe are *)
(* the two parts of what the writer wrote, until a number is read in part. *)
(***************************************************************************)
EXTENDS TaskTrip, SegmentFacts
LOCAL INSTANCE SequencesExt

\* What the texts are made of, the typed ones and the printed ones.
Char == Character \cup Digit \cup {",", "-", "*"}

-----------------------------------------------------------------------------
(* Numbers. *)

\* The number of a sequence of digits is what the loop over them leaves.
Sums(upto, base, d) == /\ Positional(base, d) = upto[Len(d)]
                       /\ upto[0] = 0
                       /\ \A n \in 1 .. Len(d) : upto[n] = base * upto[n - 1] + d[n]

\* The number of a sequence of digits is what the loop over them leaves.
LEMMA PositionalFacts ==
  ASSUME NEW base \in Nat, NEW d \in Seq(Nat)
  PROVE  \E upto \in [0 .. Len(d) -> Nat] : Sums(upto, base, d)
<1> DEFINE m == Len(d)
<1> DEFINE step == [x \in (1 .. m) \X Nat |-> base * x[2] + d[x[1]]]
<1> DEFINE Is(u) == u = [n \in 0 .. m |-> IF n = 0 THEN 0 ELSE base * u[n - 1] + d[n]]
<1>1. m \in Nat /\ \A n \in 1 .. m : d[n] \in Nat
  BY LenProperties, ElementOfSeq
<1> HIDE DEF m
<1>2. step \in [(1 .. m) \X Nat -> Nat]
  <2>1. ASSUME NEW n \in 1 .. m, NEW y \in Nat PROVE base * y + d[n] \in Nat
    <3>1. d[n] \in Nat /\ base * y \in Nat
      BY <1>1
    <3> QED BY <3>1
  <2> QED BY <2>1
<1>3. PICK f \in [0 .. m -> Nat] : f[0] = 0 /\ \A n \in 1 .. m : f[n] = step[<<n, f[n - 1]>>]
  <2> HIDE DEF step, Is
  <2>1. \E f \in [0 .. m -> Nat] : Iterates(f, m, 0, step)
    BY <1>1, <1>2, Recursion
  <2> QED BY <2>1 DEF Iterates
<1>4. \A n \in 1 .. m : f[n - 1] \in Nat /\ f[n] = base * f[n - 1] + d[n]
  <2> SUFFICES ASSUME NEW n \in 1 .. m PROVE f[n - 1] \in Nat /\ f[n] = base * f[n - 1] + d[n]
    OBVIOUS
  <2>1. n - 1 \in 0 .. m
    BY <1>1
  <2>2. f[n - 1] \in Nat
    BY <2>1
  <2>3. f[n] = step[<<n, f[n - 1]>>]
    BY <1>3
  <2> QED BY <2>2, <2>3
<1>5. Is(f)
  <2>1. ASSUME NEW n \in 0 .. m
        PROVE  f[n] = IF n = 0 THEN 0 ELSE base * f[n - 1] + d[n]
    <3>1. n = 0 \/ n \in 1 .. m
      BY <1>1
    <3> QED BY <1>3, <1>4, <3>1
  <2> QED BY <2>1
<1> DEFINE u == CHOOSE u : Is(u)
<1>6. Is(u)
  BY <1>5
<1>7. Positional(base, d) = u[m]
  BY DEF Positional, m
<1> HIDE DEF u
<1>8. /\ DOMAIN u = 0 .. m /\ u[0] = 0
      /\ \A n \in 1 .. m : u[n] = base * u[n - 1] + d[n]
  <2>1. DOMAIN u = 0 .. m /\ \A n \in 0 .. m : u[n] = IF n = 0 THEN 0 ELSE base * u[n - 1] + d[n]
    BY <1>6
  <2>2. 0 \in 0 .. m /\ \A n \in 1 .. m : n \in 0 .. m /\ n # 0
    BY <1>1
  <2> HIDE DEF Is
  <2> QED BY <2>1, <2>2
<1>9. \A n \in 0 .. m : u[n] \in Nat
  <2> DEFINE T == {n \in 0 .. m : u[n] \in Nat}
  <2>1. 0 \in T
    BY <1>1, <1>8
  <2>2. ASSUME NEW n \in 0 .. m - 1, n \in T PROVE n + 1 \in T
    <3>1. n + 1 \in 1 .. m /\ n + 1 \in 0 .. m /\ n + 1 - 1 = n
      BY <1>1
    <3>2. u[n + 1] = base * u[n] + d[n + 1]
      BY <1>8, <3>1
    <3>3. d[n + 1] \in Nat /\ base * u[n] \in Nat
      BY <1>1, <2>2, <3>1
    <3> QED BY <3>1, <3>2, <3>3
  <2> HIDE DEF T
  <2>3. 0 .. m \subseteq T
    BY <1>1, <2>1, <2>2, StepsUpTo
  <2> QED BY <2>3 DEF T
<1>10. u \in [0 .. m -> Nat]
  <2> DEFINE w == [n \in 0 .. m |-> u[n]]
  <2>1. u = w
    BY <1>6
  <2> HIDE DEF Is
  <2>2. w \in [0 .. m -> Nat]
    BY <1>9
  <2> HIDE DEF w
  <2> QED BY <2>1, <2>2
<1>11. Sums(u, base, d)
  BY <1>7, <1>8 DEF m, Sums
<1> QED BY <1>10, <1>11 DEF m

\* The figures are ten, and none of them is another character of a text.
LEMMA FigureFacts ==
  /\ \A n \in 0 .. 9 : Figure[n + 1] \in Digit /\ ValueOf(Figure[n + 1]) = n
  /\ \A c \in Digit : c \in Char /\ ValueOf(c) \in 0 .. 9
  /\ "" \notin Char
  /\ "" \notin Digit /\ "," \notin Digit /\ "-" \notin Digit /\ "*" \notin Digit
<1>1. /\ Figure[1] = "0" /\ Figure[2] = "1" /\ Figure[3] = "2" /\ Figure[4] = "3"
      /\ Figure[5] = "4" /\ Figure[6] = "5" /\ Figure[7] = "6" /\ Figure[8] = "7"
      /\ Figure[9] = "8" /\ Figure[10] = "9"
  BY DEF Figure
<1>2. \A n \in 1 .. 10 : n = 1 \/ n = 2 \/ n = 3 \/ n = 4 \/ n = 5 \/ n = 6 \/ n = 7 \/ n = 8
                          \/ n = 9 \/ n = 10
  OBVIOUS
<1>3. Digit = {"0", "1", "2", "3", "4", "5", "6", "7", "8", "9"}
  BY <1>1, <1>2 DEF Digit
<1>4. \A c \in Digit : \E n \in 0 .. 9 : Figure[n + 1] = c
  <2>1. \A n \in 1 .. 10 : n - 1 \in 0 .. 9 /\ n - 1 + 1 = n
    OBVIOUS
  <2> QED BY <2>1 DEF Digit
<1>5. \A c \in Digit : ValueOf(c) \in 0 .. 9 /\ Figure[ValueOf(c) + 1] = c
  BY <1>4 DEF ValueOf
<1>6. ASSUME NEW n \in 0 .. 9, NEW k \in 0 .. 9, Figure[n + 1] = Figure[k + 1] PROVE n = k
  <2>1. n + 1 \in 1 .. 10 /\ k + 1 \in 1 .. 10
    OBVIOUS
  <2>2. n + 1 = k + 1
    BY <1>1, <1>2, <1>6, <2>1
  <2> QED BY <2>2
<1>7. ASSUME NEW n \in 0 .. 9 PROVE Figure[n + 1] \in Digit /\ ValueOf(Figure[n + 1]) = n
  <2>1. n + 1 \in 1 .. 10
    OBVIOUS
  <2>2. Figure[n + 1] \in Digit
    BY <2>1 DEF Digit
  <2> QED BY <1>5, <1>6, <2>2
<1>8. \A c \in Digit : c \in Char
  BY DEF Char
<1>9. "" \notin Char
  BY <1>3, TextAssumption DEF Char
<1> QED BY <1>3, <1>5, <1>7, <1>8, <1>9

\* A comma, and what is behind a text.  (The provers' SMT encoding confuses the two
\* strings, and "-" with both, where they are in one obligation.)
Comma == ","
NUL == ""

\* They are neither figures nor a "-".
LEMMA SeparatorFacts ==
  /\ Comma \notin Digit /\ Comma # "-" /\ Comma # NUL /\ Comma # "*"
  /\ NUL \notin Digit /\ NUL # "-" /\ NUL # "*" /\ NUL \notin Char
BY FigureFacts DEF Comma, NUL

\* A sequence of figures stands for a number.
LEMMA DecimalType ==
  ASSUME NEW s \in Seq(Digit)
  PROVE  Decimal(s) \in Nat
<1> DEFINE d == [k \in 1 .. Len(s) |-> ValueOf(s[k])]
<1>1. Len(s) \in Nat /\ \A k \in 1 .. Len(s) : s[k] \in Digit
  BY LenProperties, ElementOfSeq
<1>2. \A k \in 1 .. Len(s) : ValueOf(s[k]) \in Nat
  <2>1. \A c \in Digit : ValueOf(c) \in 0 .. 9
    BY FigureFacts
  <2>2. \A c \in Digit : ValueOf(c) \in Nat
    BY <2>1
  <2> QED BY <1>1, <2>2
<1>3. d \in Seq(Nat) /\ Len(d) \in Nat
  BY <1>1, <1>2
<1>4. Decimal(s) = Positional(10, d)
  BY DEF Decimal
<1> HIDE DEF d
<1>5. PICK upto \in [0 .. Len(d) -> Nat] : Sums(upto, 10, d)
  BY <1>3, PositionalFacts
<1>6. Len(d) \in 0 .. Len(d)
  BY <1>3
<1> QED BY <1>4, <1>5, <1>6 DEF Sums

-----------------------------------------------------------------------------
(* Reading a number. *)

\* The character at a place of a text, and behind it.
LEMMA AtFacts ==
  ASSUME NEW t \in Seq(Char)
  PROVE  /\ Len(t) \in Nat /\ DOMAIN t = 1 .. Len(t)
         /\ \A p \in 1 .. Len(t) : At(t, p) = t[p] /\ t[p] \in Char /\ t[p] # ""
         /\ \A p : p \notin 1 .. Len(t) => At(t, p) = ""
<1>1. Len(t) \in Nat /\ DOMAIN t = 1 .. Len(t)
  BY LenProperties
<1>2. \A p \in 1 .. Len(t) : t[p] \in Char
  BY <1>1, ElementOfSeq
<1>3. "" \notin Char
  BY FigureFacts
<1> QED BY <1>1, <1>2, <1>3 DEF At

\* There are figures from p to q, and none behind them.
Run(t, p, q) == /\ p <= q /\ q <= Len(t)
                /\ \A k \in p .. q : t[k] \in Digit
                /\ At(t, q + 1) \notin Digit

\* Figures end somewhere.
LEMMA RunExists ==
  ASSUME NEW t \in Seq(Char), NEW p \in Nat \ {0}, At(t, p) \in Digit
  PROVE  \E q \in Nat : Run(t, p, q)
<1> DEFINE T == {q \in p .. Len(t) : At(t, q + 1) \notin Digit}
<1>1. Len(t) \in Nat /\ \A k \in 1 .. Len(t) : At(t, k) = t[k]
  BY AtFacts
<1>2. "" \notin Digit
  BY FigureFacts
<1>3. p \in 1 .. Len(t)
  BY <1>2, AtFacts
<1>4. Len(t) \in T
  <2>1. Len(t) + 1 \notin 1 .. Len(t)
    BY <1>1
  <2>2. At(t, Len(t) + 1) = ""
    BY <2>1, AtFacts
  <2>3. Len(t) \in p .. Len(t)
    BY <1>1, <1>3
  <2> QED BY <1>2, <2>2, <2>3
<1>5. T \in SUBSET Nat
  BY <1>1, <1>3
<1> HIDE DEF T
<1>6. PICK q \in T : \A r \in T : q <= r
  BY <1>4, <1>5, Least
<1>7. q \in p .. Len(t) /\ At(t, q + 1) \notin Digit /\ q \in Nat
  BY <1>5 DEF T
<1>8. ASSUME NEW k \in p .. q PROVE t[k] \in Digit
  <2>1. k \in 1 .. Len(t)
    BY <1>1, <1>3, <1>7
  <2>2. At(t, k) = t[k]
    BY <1>1, <2>1
  <2>3. CASE k = p
    BY <2>2, <2>3
  <2>4. CASE k # p
    <3>1. k - 1 \in p .. Len(t) /\ ~ (q <= k - 1) /\ k - 1 + 1 = k
      BY <1>1, <1>3, <1>7, <2>1, <2>4
    <3>2. k - 1 \notin T
      BY <1>6, <3>1
    <3>3. At(t, k - 1 + 1) \in Digit
      BY <3>1, <3>2 DEF T
    <3> QED BY <2>2, <3>1, <3>3
  <2> QED BY <2>3, <2>4
<1>9. p <= q /\ q <= Len(t)
  BY <1>1, <1>3, <1>7
<1> QED BY <1>7, <1>8, <1>9 DEF Run

\* They end at one place.
LEMMA RunIsOne ==
  ASSUME NEW t \in Seq(Char), NEW p \in Nat \ {0}, NEW q \in Nat, NEW r \in Nat,
         Run(t, p, q), Run(t, p, r)
  PROVE  ~ (q < r)
<1> SUFFICES ASSUME q < r PROVE FALSE
  OBVIOUS
<1>1. p <= q /\ r <= Len(t) /\ At(t, q + 1) \notin Digit /\ \A k \in p .. r : t[k] \in Digit
  BY DEF Run
<1>2. Len(t) \in Nat /\ \A k \in 1 .. Len(t) : At(t, k) = t[k]
  BY AtFacts
<1>3. q + 1 \in p .. r /\ q + 1 \in 1 .. Len(t)
  BY <1>1, <1>2
<1> QED BY <1>1, <1>2, <1>3

\* What is read where figures begin, ...
LEMMA UIntOfRun ==
  ASSUME NEW t \in Seq(Char), NEW p \in Nat \ {0}, NEW q \in Nat, Run(t, p, q)
  PROVE  /\ UInt(t, p) = [read |-> q + 1 - p, value |-> Decimal(SubSeq(t, p, q))]
         /\ Decimal(SubSeq(t, p, q)) \in Nat
<1> DEFINE EndsAt(r) == /\ \A k \in p .. r : t[k] \in Digit
                      /\ At(t, r + 1) \notin Digit
<1> DEFINE end == CHOOSE r \in p .. Len(t) : EndsAt(r)
<1>1. Len(t) \in Nat /\ \A k \in 1 .. Len(t) : At(t, k) = t[k]
  BY AtFacts
<1>2. p <= q /\ q <= Len(t) /\ \A k \in p .. q : t[k] \in Digit
  BY DEF Run
<1>3. q \in p .. Len(t) /\ p \in 1 .. Len(t) /\ p \in p .. q
  BY <1>1, <1>2
<1>4. At(t, p) \in Digit
  BY <1>1, <1>2, <1>3
<1>5. EndsAt(q)
  BY DEF Run
<1>6. end \in p .. Len(t) /\ EndsAt(end)
  BY <1>3, <1>5
<1>7. UInt(t, p) = [read |-> end + 1 - p, value |-> Decimal(SubSeq(t, p, end))]
  BY <1>4 DEF UInt
<1> HIDE DEF end
<1>8. end \in Nat /\ p <= end /\ end <= Len(t)
  BY <1>1, <1>6
<1>9. Run(t, p, end)
  BY <1>6, <1>8 DEF Run
<1>10. ~ (q < end) /\ ~ (end < q)
  BY <1>8, <1>9, RunIsOne
<1>11. end = q
  BY <1>8, <1>10
<1>12. Decimal(SubSeq(t, p, q)) \in Nat
  <2>1. p \in Int /\ q \in Int /\ \A k \in p .. q : t[k] \in Digit
    BY <1>2
  <2>2. SubSeq(t, p, q) \in Seq(Digit)
    BY <2>1, SubSeqProperties
  <2> QED BY <2>2, DecimalType
<1> QED BY <1>7, <1>11, <1>12

\* ... and where they do not.
LEMMA UIntOfNone ==
  ASSUME NEW t, NEW p, At(t, p) \notin Digit
  PROVE  UInt(t, p) = [read |-> -1, value |-> 0]
BY DEF UInt, Failed

\* A number is what is read of it.
LEMMA NumberOfNumber ==
  ASSUME NEW s \in Seq(Char), IsNumber(s)
  PROVE  NumberOf(s) = Decimal(s) /\ Decimal(s) \in Nat
<1>1. Len(s) \in Nat /\ DOMAIN s = 1 .. Len(s)
  BY AtFacts
<1>2. Len(s) # 0
  BY EmptySeq DEF IsNumber
<1>3. Run(s, 1, Len(s))
  <2>1. Len(s) + 1 \notin 1 .. Len(s)
    BY <1>1
  <2>2. At(s, Len(s) + 1) = "" /\ "" \notin Digit
    BY <2>1, AtFacts, FigureFacts
  <2>3. 1 <= Len(s) /\ Len(s) <= Len(s)
    BY <1>1, <1>2
  <2> QED BY <1>1, <2>2, <2>3 DEF Run, IsNumber
<1>4. SubSeq(s, 1, Len(s)) = s
  BY SubSeqFull
<1>5. 1 \in Nat \ {0}
  OBVIOUS
<1>6. UInt(s, 1) = [read |-> Len(s) + 1 - 1, value |-> Decimal(s)] /\ Decimal(s) \in Nat
  BY <1>1, <1>3, <1>4, <1>5, UIntOfRun
<1> QED BY <1>6 DEF NumberOf

-----------------------------------------------------------------------------
(* What an item names. *)

\* A pair of numbers with a "-" at d between them, ...
Lo(s, d) == SubSeq(s, 1, d - 1)
Hi(s, d) == SubSeq(s, d + 1, Len(s))
IsPair(s, d) == d \in 1 .. Len(s) /\ s[d] = "-" /\ IsNumber(Lo(s, d)) /\ IsNumber(Hi(s, d))

\* ... which are parts of the text.
LEMMA PairFacts ==
  ASSUME NEW s \in Seq(Char), NEW d \in 1 .. Len(s)
  PROVE  /\ Lo(s, d) \in Seq(Char) /\ Len(Lo(s, d)) = d - 1
         /\ \A j \in 1 .. d - 1 : Lo(s, d)[j] = s[j]
         /\ Hi(s, d) \in Seq(Char) /\ Len(Hi(s, d)) = Len(s) - d
         /\ \A j \in 1 .. Len(s) - d : Hi(s, d)[j] = s[d + j]
<1>1. Len(s) \in Nat
  BY AtFacts
<1>2. d - 1 \in 0 .. Len(s) /\ d \in 0 .. Len(s)
  BY <1>1
<1>3. /\ Lo(s, d) \in Seq(Char) /\ Len(Lo(s, d)) = d - 1
      /\ \A j \in 1 .. d - 1 : Lo(s, d)[j] = s[j]
  BY <1>2, Beginning DEF Lo
<1>4. /\ Hi(s, d) \in Seq(Char) /\ Len(Hi(s, d)) = Len(s) - d
      /\ \A j \in 1 .. Len(s) - d : Hi(s, d)[j] = s[d + j]
  BY <1>2, Remainder DEF Hi
<1> QED BY <1>3, <1>4

\* A number has no "-", ...
LEMMA NumberHasNoDash ==
  ASSUME NEW s \in Seq(Char), IsNumber(s), NEW k \in 1 .. Len(s)
  PROVE  s[k] \in Digit /\ s[k] # "-"
<1>1. DOMAIN s = 1 .. Len(s)
  BY AtFacts
<1> QED BY <1>1, FigureFacts DEF IsNumber

\* ... and a pair of them one.
LEMMA PairHasOneDash ==
  ASSUME NEW s \in Seq(Char), NEW d, IsPair(s, d), NEW k \in 1 .. Len(s), k # d
  PROVE  s[k] \in Digit
<1>1. Len(s) \in Nat /\ d \in 1 .. Len(s)
  BY AtFacts DEF IsPair
<1>2. CASE k < d
  <2>1. k \in 1 .. d - 1 /\ Len(Lo(s, d)) = d - 1 /\ Lo(s, d) \in Seq(Char)
    BY <1>1, <1>2, PairFacts
  <2>2. Lo(s, d)[k] \in Digit
    BY <2>1, NumberHasNoDash DEF IsPair
  <2> QED BY <1>1, <2>1, <2>2, PairFacts
<1>3. CASE ~ (k < d)
  <2>1. k - d \in 1 .. Len(s) - d /\ d + (k - d) = k
    BY <1>1, <1>3
  <2>2. Len(Hi(s, d)) = Len(s) - d /\ Hi(s, d) \in Seq(Char)
    BY <1>1, PairFacts
  <2>3. Hi(s, d)[k - d] \in Digit
    BY <2>1, <2>2, NumberHasNoDash DEF IsPair
  <2>4. Hi(s, d)[k - d] = s[d + (k - d)]
    BY <1>1, <2>1, PairFacts
  <2> QED BY <2>1, <2>3, <2>4
<1> QED BY <1>2, <1>3

\* n is named by the number s, ...
NumberNames(s, n) == IsNumber(s) /\ Decimal(s) <= FieldMax /\ Decimal(s) <= n /\ n <= Decimal(s)

\* ... or by the pair.
PairNames(s, d, n) == /\ IsPair(s, d) /\ Decimal(Hi(s, d)) <= FieldMax
                      /\ Decimal(Lo(s, d)) <= n /\ n <= Decimal(Hi(s, d))

\* The values of an item.
LEMMA NamedCases ==
  ASSUME NEW s \in Seq(Char), NEW n \in 0 .. FieldMax
  PROVE  n \in Named(s) <=> NumberNames(s, n) \/ \E d : PairNames(s, d, n)
<1> DEFINE At0(k) ==
       LET lo == IF k = 0 THEN s ELSE SubSeq(s, 1, k - 1)
           hi == IF k = 0 THEN s ELSE SubSeq(s, k + 1, Len(s))
       IN /\ k > 0 => s[k] = "-"
          /\ IsNumber(lo) /\ IsNumber(hi)
          /\ NumberOf(hi) <= FieldMax
          /\ NumberOf(lo) <= n /\ n <= NumberOf(hi)
<1>1. n \in Named(s) <=> \E k \in 0 .. Len(s) : At0(k)
  BY DEF Named
<1>2. Len(s) \in Nat
  BY AtFacts
<1>3. At0(0) <=> NumberNames(s, n)
  <2>1. At0(0) <=> IsNumber(s) /\ NumberOf(s) <= FieldMax /\ NumberOf(s) <= n /\ n <= NumberOf(s)
    OBVIOUS
  <2>2. IsNumber(s) => NumberOf(s) = Decimal(s)
    BY NumberOfNumber
  <2> QED BY <2>1, <2>2 DEF NumberNames
<1>4. ASSUME NEW k \in 1 .. Len(s) PROVE At0(k) <=> PairNames(s, k, n)
  <2>1. k # 0 /\ k > 0
    BY <1>2
  <2>2. At0(k) <=> /\ s[k] = "-" /\ IsNumber(Lo(s, k)) /\ IsNumber(Hi(s, k))
                   /\ NumberOf(Hi(s, k)) <= FieldMax
                   /\ NumberOf(Lo(s, k)) <= n /\ n <= NumberOf(Hi(s, k))
    BY <2>1 DEF Lo, Hi
  <2>3. Lo(s, k) \in Seq(Char) /\ Hi(s, k) \in Seq(Char)
    BY PairFacts
  <2>4. /\ IsNumber(Lo(s, k)) => NumberOf(Lo(s, k)) = Decimal(Lo(s, k))
        /\ IsNumber(Hi(s, k)) => NumberOf(Hi(s, k)) = Decimal(Hi(s, k))
    BY <2>3, NumberOfNumber
  <2> HIDE DEF At0
  <2> QED BY <2>2, <2>4 DEF PairNames, IsPair
<1>5. \A d : PairNames(s, d, n) => d \in 1 .. Len(s)
  BY DEF PairNames, IsPair
<1>6. \A k \in 0 .. Len(s) : k = 0 \/ k \in 1 .. Len(s)
  BY <1>2
<1>7. 0 \in 0 .. Len(s) /\ \A k \in 1 .. Len(s) : k \in 0 .. Len(s)
  BY <1>2
<1> HIDE DEF At0
<1> QED BY <1>1, <1>3, <1>4, <1>5, <1>6, <1>7

\* A number names itself, if it is not too large, ...
LEMMA NamedNumber ==
  ASSUME NEW s \in Seq(Char), IsNumber(s), Decimal(s) <= FieldMax
  PROVE  Named(s) = Decimal(s) .. Decimal(s)
<1>1. Decimal(s) \in Nat /\ FieldMax \in Nat
  BY NumberOfNumber, FieldAssumption
<1>2. ASSUME NEW d PROVE ~ IsPair(s, d)
  BY NumberHasNoDash DEF IsPair
<1>3. \A n \in 0 .. FieldMax : n \in Named(s) <=> Decimal(s) <= n /\ n <= Decimal(s)
  BY <1>2, NamedCases DEF NumberNames, PairNames
<1>4. Named(s) \subseteq 0 .. FieldMax
  BY DEF Named
<1>5. \A n : n \in Decimal(s) .. Decimal(s) <=> n \in 0 .. FieldMax /\ Decimal(s) <= n /\ n <= Decimal(s)
  BY <1>1
<1> QED BY <1>3, <1>4, <1>5

\* ... and a pair what is between its numbers.
LEMMA NamedPair ==
  ASSUME NEW s \in Seq(Char), NEW d, IsPair(s, d), Decimal(Hi(s, d)) <= FieldMax
  PROVE  Named(s) = Decimal(Lo(s, d)) .. Decimal(Hi(s, d))
<1> DEFINE v == Decimal(Lo(s, d))
<1> DEFINE w == Decimal(Hi(s, d))
<1>1. d \in 1 .. Len(s) /\ s[d] = "-" /\ IsNumber(Lo(s, d)) /\ IsNumber(Hi(s, d))
  BY DEF IsPair
<1>2. v \in Nat /\ w \in Nat /\ FieldMax \in Nat
  <2>1. Lo(s, d) \in Seq(Char) /\ Hi(s, d) \in Seq(Char)
    BY <1>1, PairFacts
  <2> QED BY <1>1, <2>1, NumberOfNumber, FieldAssumption
<1>3. ~ IsNumber(s)
  BY <1>1, NumberHasNoDash
<1>4. ASSUME NEW e, IsPair(s, e) PROVE e = d
  <2>1. e \in 1 .. Len(s) /\ s[e] = "-" /\ "-" \notin Digit
    BY <1>4, FigureFacts DEF IsPair
  <2> QED BY <2>1, PairHasOneDash
<1>5. ASSUME NEW n \in 0 .. FieldMax PROVE n \in Named(s) <=> v <= n /\ n <= w
  <2>1. ~ NumberNames(s, n)
    BY <1>3 DEF NumberNames
  <2>2. PairNames(s, d, n) <=> v <= n /\ n <= w
    BY DEF PairNames
  <2>3. \A e : PairNames(s, e, n) => e = d
    BY <1>4 DEF PairNames
  <2>4. n \in Named(s) <=> NumberNames(s, n) \/ \E e : PairNames(s, e, n)
    BY NamedCases
  <2> QED BY <2>1, <2>2, <2>3, <2>4
<1>6. Named(s) \subseteq 0 .. FieldMax
  BY DEF Named
<1>7. w <= FieldMax
  OBVIOUS
<1> HIDE DEF v, w
<1>8. \A n : n \in v .. w <=> n \in 0 .. FieldMax /\ v <= n /\ n <= w
  BY <1>2, <1>7
<1>9. Named(s) = v .. w
  BY <1>5, <1>6, <1>8
<1> QED BY <1>9 DEF v, w

-----------------------------------------------------------------------------
(* Reading a range. *)

\* Figures are a number.
LEMMA RunIsNumber ==
  ASSUME NEW t \in Seq(Char), NEW p \in Nat \ {0}, NEW q \in Nat, Run(t, p, q)
  PROVE  /\ p \in 1 .. Len(t) /\ q \in p .. Len(t)
         /\ SubSeq(t, p, q) \in Seq(Char) /\ IsNumber(SubSeq(t, p, q))
         /\ \A k \in p .. q : t[k] # Comma
<1>1. Len(t) \in Nat
  BY AtFacts
<1>2. p <= q /\ q <= Len(t) /\ \A k \in p .. q : t[k] \in Digit
  BY DEF Run
<1>3. p \in 1 .. Len(t) /\ q \in p .. Len(t) /\ p \in 1 .. Len(t) + 1 /\ q \in p - 1 .. Len(t)
  BY <1>1, <1>2
<1> DEFINE s == SubSeq(t, p, q)
<1>4. /\ s \in Seq(Char) /\ DOMAIN s = 1 .. q + 1 - p
      /\ \A j \in 1 .. q + 1 - p : s[j] = t[p - 1 + j]
  BY <1>3, Part
<1> HIDE DEF s
<1>5. \A j \in 1 .. q + 1 - p : p - 1 + j \in p .. q
  BY <1>1, <1>2
<1>6. 1 \in 1 .. q + 1 - p
  BY <1>1, <1>2
<1>7. s # << >>
  BY <1>4, <1>6
<1>8. IsNumber(s)
  BY <1>2, <1>4, <1>5, <1>7 DEF IsNumber
<1>9. \A k \in p .. q : t[k] # Comma
  BY <1>2, SeparatorFacts
<1> QED BY <1>3, <1>4, <1>8, <1>9 DEF s

\* What is read of a number that no "-" follows, ...
LEMMA RangeOfOne ==
  ASSUME NEW t \in Seq(Char), NEW p \in Nat \ {0}, NEW q \in Nat,
         Run(t, p, q), At(t, q + 1) # "-"
  PROVE  RangeAt(t, p) = IF Decimal(SubSeq(t, p, q)) <= FieldMax
                         THEN [read   |-> q + 1 - p,
                               values |-> Decimal(SubSeq(t, p, q)) .. Decimal(SubSeq(t, p, q))]
                         ELSE [read |-> -1, values |-> {}]
<1> DEFINE v == Decimal(SubSeq(t, p, q))
<1>1. UInt(t, p) = [read |-> q + 1 - p, value |-> v] /\ v \in Nat
  BY UIntOfRun
<1> HIDE DEF v
<1>2. UInt(t, p).read = q + 1 - p /\ UInt(t, p).value = v
  BY <1>1
<1>3. p <= q
  BY DEF Run
<1>4. q + 1 - p \in Nat /\ q + 1 - p # -1 /\ p + (q + 1 - p) = q + 1 /\ v <= v
  BY <1>1, <1>3
<1>5. RangeAt(t, p) = IF ~ (v <= v /\ v <= FieldMax) THEN [read |-> -1, values |-> {}]
                      ELSE [read |-> q + 1 - p + 0, values |-> v .. v]
  BY <1>2, <1>4 DEF RangeAt
<1>6. RangeAt(t, p) = IF v <= FieldMax THEN [read |-> q + 1 - p, values |-> v .. v]
                      ELSE [read |-> -1, values |-> {}]
  BY <1>4, <1>5
<1> QED BY <1>6 DEF v

\* ... of two with a "-" between them, ...
LEMMA RangeOfTwo ==
  ASSUME NEW t \in Seq(Char), NEW p \in Nat \ {0}, NEW q \in Nat, NEW r \in Nat,
         Run(t, p, q), At(t, q + 1) = "-", Run(t, q + 2, r)
  PROVE  RangeAt(t, p) =
           IF /\ Decimal(SubSeq(t, p, q)) <= Decimal(SubSeq(t, q + 2, r))
              /\ Decimal(SubSeq(t, q + 2, r)) <= FieldMax
           THEN [read   |-> r + 1 - p,
                 values |-> Decimal(SubSeq(t, p, q)) .. Decimal(SubSeq(t, q + 2, r))]
           ELSE [read |-> -1, values |-> {}]
<1> DEFINE v == Decimal(SubSeq(t, p, q))
<1> DEFINE w == Decimal(SubSeq(t, q + 2, r))
<1>1. UInt(t, p) = [read |-> q + 1 - p, value |-> v]
  BY UIntOfRun
<1>2. UInt(t, q + 2) = [read |-> r + 1 - (q + 2), value |-> w]
  <2>1. q + 2 \in Nat \ {0}
    OBVIOUS
  <2> QED BY <2>1, UIntOfRun
<1> HIDE DEF v, w
<1>3. p <= q /\ q + 2 <= r
  BY DEF Run
<1>4. /\ UInt(t, p).read = q + 1 - p /\ UInt(t, p).value = v
      /\ UInt(t, q + 2).read = r + 1 - (q + 2) /\ UInt(t, q + 2).value = w
  BY <1>1, <1>2
<1>5. /\ q + 1 - p # -1 /\ r + 1 - (q + 2) # -1
      /\ p + (q + 1 - p) = q + 1 /\ q + 1 + 1 = q + 2
      /\ q + 1 - p + (1 + (r + 1 - (q + 2))) = r + 1 - p
  BY <1>3
<1>6. RangeAt(t, p) = IF ~ (v <= w /\ w <= FieldMax) THEN [read |-> -1, values |-> {}]
                      ELSE [read |-> q + 1 - p + (1 + (r + 1 - (q + 2))), values |-> v .. w]
  BY <1>4, <1>5 DEF RangeAt
<1>7. RangeAt(t, p) = IF v <= w /\ w <= FieldMax THEN [read |-> r + 1 - p, values |-> v .. w]
                      ELSE [read |-> -1, values |-> {}]
  BY <1>5, <1>6
<1> QED BY <1>7 DEF v, w

\* ... and where a number is missing.
LEMMA RangeOfNone ==
  ASSUME NEW t, NEW p, At(t, p) \notin Digit
  PROVE  RangeAt(t, p) = [read |-> -1, values |-> {}]
BY UIntOfNone DEF RangeAt

\* The same behind the "-".
LEMMA RangeOfHalf ==
  ASSUME NEW t \in Seq(Char), NEW p \in Nat \ {0}, NEW q \in Nat,
         Run(t, p, q), At(t, q + 1) = "-", At(t, q + 2) \notin Digit
  PROVE  RangeAt(t, p) = [read |-> -1, values |-> {}]
<1>1. UInt(t, p).read = q + 1 - p
  BY UIntOfRun
<1>2. p + (q + 1 - p) = q + 1 /\ q + 1 + 1 = q + 2
  OBVIOUS
<1>3. UInt(t, q + 2).read = -1
  BY UIntOfNone
<1> QED BY <1>1, <1>2, <1>3 DEF RangeAt

\* Two numbers with a "-" between them are a pair.
LEMMA RunsArePair ==
  ASSUME NEW t \in Seq(Char), NEW p \in Nat \ {0}, NEW q \in Nat, NEW r \in Nat,
         Run(t, p, q), At(t, q + 1) = "-", Run(t, q + 2, r)
  PROVE  /\ p \in 1 .. Len(t) /\ r \in p .. Len(t) /\ SubSeq(t, p, r) \in Seq(Char)
         /\ IsPair(SubSeq(t, p, r), q + 2 - p)
         /\ Lo(SubSeq(t, p, r), q + 2 - p) = SubSeq(t, p, q)
         /\ Hi(SubSeq(t, p, r), q + 2 - p) = SubSeq(t, q + 2, r)
         /\ \A k \in p .. r : t[k] # Comma
<1> DEFINE s == SubSeq(t, p, r)
<1>1. /\ p \in 1 .. Len(t) /\ q \in p .. Len(t) /\ IsNumber(SubSeq(t, p, q))
      /\ \A k \in p .. q : t[k] # Comma
  BY RunIsNumber
<1>2. /\ q + 2 \in 1 .. Len(t) /\ r \in q + 2 .. Len(t) /\ IsNumber(SubSeq(t, q + 2, r))
      /\ \A k \in q + 2 .. r : t[k] # Comma
  <2>1. q + 2 \in Nat \ {0}
    OBVIOUS
  <2> QED BY <2>1, RunIsNumber
<1>3. Len(t) \in Nat /\ \A k \in 1 .. Len(t) : At(t, k) = t[k]
  BY AtFacts
<1>4. p <= q /\ q + 2 <= r /\ r <= Len(t)
  BY <1>1, <1>2, <1>3
<1> DEFINE d == q + 2 - p
<1>5. /\ d \in 1 .. r + 1 - p /\ d \in Nat /\ p - 1 + d = q + 1
      /\ q + 1 \in 1 .. Len(t) /\ p \in 1 .. Len(t) + 1 /\ r \in p - 1 .. Len(t)
  BY <1>3, <1>4
<1>6. /\ s \in Seq(Char) /\ Len(s) = r + 1 - p
      /\ \A j \in 1 .. r + 1 - p : s[j] = t[p - 1 + j]
  BY <1>5, Part
<1>7. s[d] = "-"
  BY <1>3, <1>5, <1>6
<1>8. SubSeq(s, 1, d - 1) = SubSeq(t, p, q)
  <2>1. /\ 1 \in 1 .. r + 2 - p /\ d - 1 \in 1 - 1 .. r + 1 - p
        /\ p - 1 + 1 = p /\ p - 1 + (d - 1) = q
    BY <1>4, <1>5
  <2> HIDE DEF d
  <2>2. SubSeq(s, 1, d - 1) = SubSeq(t, p - 1 + 1, p - 1 + (d - 1))
    BY <1>5, <2>1, PartOfPart
  <2> QED BY <2>1, <2>2
<1>9. SubSeq(s, d + 1, Len(s)) = SubSeq(t, q + 2, r)
  <2> DEFINE e == r + 1 - p
  <2>1. /\ d + 1 \in 1 .. r + 2 - p /\ e \in d + 1 - 1 .. r + 1 - p
        /\ p - 1 + (d + 1) = q + 2 /\ p - 1 + e = r
    BY <1>4, <1>5
  <2> HIDE DEF d, e
  <2>2. SubSeq(s, d + 1, e) = SubSeq(t, p - 1 + (d + 1), p - 1 + e)
    BY <1>5, <2>1, PartOfPart
  <2>3. Len(s) = e
    BY <1>6 DEF e
  <2> HIDE DEF s
  <2> QED BY <2>1, <2>2, <2>3
<1>10. Lo(s, d) = SubSeq(t, p, q) /\ Hi(s, d) = SubSeq(t, q + 2, r)
  BY <1>8, <1>9 DEF Lo, Hi
<1>11. IsPair(s, d)
  <2> HIDE DEF s, d
  <2> QED BY <1>1, <1>2, <1>5, <1>6, <1>7, <1>10 DEF IsPair
<1>12. ASSUME NEW k \in p .. r PROVE t[k] # Comma
  <2>1. k \in p .. q \/ k = q + 1 \/ k \in q + 2 .. r
    BY <1>4
  <2>2. t[q + 1] # Comma
    BY <1>3, <1>5, SeparatorFacts
  <2> QED BY <1>1, <1>2, <2>1, <2>2
<1>13. r \in p .. Len(t)
  BY <1>3, <1>4
<1> QED BY <1>1, <1>6, <1>10, <1>11, <1>12, <1>13

\* The text from p to r is an item, and it is what a range at p reads.
ReadsTo(t, p, r) == /\ p \in 1 .. Len(t) /\ r \in p .. Len(t)
                    /\ RangeAt(t, p).read = r + 1 - p
                    /\ \A k \in p .. r : t[k] # Comma
                    /\ t[p] \in Digit
                    /\ Named(SubSeq(t, p, r)) = RangeAt(t, p).values
                    /\ RangeAt(t, p).values # {} /\ RangeAt(t, p).values \subseteq 0 .. FieldMax

\* A range that is read is an item.
LEMMA RangeIsItem ==
  ASSUME NEW t \in Seq(Char), NEW p \in Nat \ {0}, RangeAt(t, p).read # -1
  PROVE  \E r \in Nat : ReadsTo(t, p, r)
<1>1. At(t, p) \in Digit
  BY RangeOfNone
<1>2. PICK q \in Nat : Run(t, p, q)
  BY <1>1, RunExists
<1>3. /\ p \in 1 .. Len(t) /\ q \in p .. Len(t) /\ SubSeq(t, p, q) \in Seq(Char)
      /\ IsNumber(SubSeq(t, p, q)) /\ \A k \in p .. q : t[k] # Comma
  BY <1>2, RunIsNumber
<1>4. t[p] \in Digit
  BY <1>1, <1>3, AtFacts
<1> DEFINE v == Decimal(SubSeq(t, p, q))
<1>5. v \in Nat /\ FieldMax \in Nat
  BY <1>2, UIntOfRun, FieldAssumption
<1>6. CASE At(t, q + 1) # "-"
  <2>1. RangeAt(t, p) = IF v <= FieldMax THEN [read |-> q + 1 - p, values |-> v .. v]
                        ELSE [read |-> -1, values |-> {}]
    BY <1>2, <1>6, RangeOfOne
  <2> HIDE DEF v
  <2>2. v <= FieldMax /\ RangeAt(t, p) = [read |-> q + 1 - p, values |-> v .. v]
    BY <2>1
  <2>3. Named(SubSeq(t, p, q)) = v .. v
    BY <1>3, <2>2, NamedNumber DEF v
  <2>4. v .. v # {} /\ v .. v \subseteq 0 .. FieldMax
    BY <1>5, <2>2
  <2>5. RangeAt(t, p).read = q + 1 - p /\ RangeAt(t, p).values = v .. v
    BY <2>2
  <2>6. ReadsTo(t, p, q)
    BY <1>3, <1>4, <2>3, <2>4, <2>5 DEF ReadsTo
  <2> QED BY <2>6
<1>7. CASE At(t, q + 1) = "-"
  <2>1. At(t, q + 2) \in Digit
    BY <1>2, <1>7, RangeOfHalf
  <2>2. q + 2 \in Nat \ {0}
    OBVIOUS
  <2>3. PICK r \in Nat : Run(t, q + 2, r)
    BY <2>1, <2>2, RunExists
  <2> DEFINE w == Decimal(SubSeq(t, q + 2, r))
  <2>4. w \in Nat
    BY <2>2, <2>3, UIntOfRun
  <2>5. RangeAt(t, p) = IF v <= w /\ w <= FieldMax THEN [read |-> r + 1 - p, values |-> v .. w]
                        ELSE [read |-> -1, values |-> {}]
    BY <1>2, <1>7, <2>3, RangeOfTwo
  <2> DEFINE s == SubSeq(t, p, r)
  <2>6. /\ r \in p .. Len(t) /\ s \in Seq(Char) /\ IsPair(s, q + 2 - p)
        /\ Lo(s, q + 2 - p) = SubSeq(t, p, q) /\ Hi(s, q + 2 - p) = SubSeq(t, q + 2, r)
        /\ \A k \in p .. r : t[k] # Comma
    BY <1>2, <1>7, <2>3, RunsArePair
  <2>7. w = Decimal(Hi(s, q + 2 - p)) /\ v = Decimal(Lo(s, q + 2 - p))
    BY <2>6
  <2> HIDE DEF v, w, s
  <2>8. v <= w /\ w <= FieldMax /\ RangeAt(t, p) = [read |-> r + 1 - p, values |-> v .. w]
    BY <2>5
  <2>9. Named(s) = v .. w
    BY <2>6, <2>7, <2>8, NamedPair
  <2>10. v .. w # {} /\ v .. w \subseteq 0 .. FieldMax
    <3>1. v <= w /\ w <= FieldMax
      BY <2>8
    <3>2. v \in v .. w /\ \A n \in v .. w : n \in 0 .. FieldMax
      BY <1>5, <2>4, <3>1
    <3> QED BY <3>2
  <2>11. RangeAt(t, p).read = r + 1 - p /\ RangeAt(t, p).values = v .. w
    BY <2>8
  <2>12. ReadsTo(t, p, r)
    BY <1>3, <1>4, <2>6, <2>9, <2>10, <2>11 DEF ReadsTo, s
  <2> QED BY <2>12
<1> QED BY <1>6, <1>7

\* What ends at b is an item, or not one: where a range cannot be read there is none.
LEMMA NoRangeNoItem ==
  ASSUME NEW t \in Seq(Char), NEW p \in 1 .. Len(t) + 1, NEW b \in p - 1 .. Len(t),
         At(t, b + 1) \in {NUL, Comma}, RangeAt(t, p).read = -1
  PROVE  Named(SubSeq(t, p, b)) = {}
<1> DEFINE s == SubSeq(t, p, b)
<1>0. Len(t) \in Nat
  BY AtFacts
<1>1. Len(t) \in Nat /\ p \in Nat \ {0} /\ b \in Nat /\ p - 1 <= b /\ b <= Len(t)
  BY <1>0
<1>2. /\ s \in Seq(Char) /\ Len(s) = b + 1 - p /\ DOMAIN s = 1 .. b + 1 - p
      /\ \A j \in 1 .. b + 1 - p : s[j] = t[p - 1 + j]
  BY Part
<1>3. At(t, b + 1) \notin Digit /\ At(t, b + 1) # "-"
  BY SeparatorFacts
<1> SUFFICES ASSUME NEW n \in Named(s) PROVE FALSE
  OBVIOUS
<1> HIDE DEF s
<1>4. n \in 0 .. FieldMax
  BY DEF Named
<1>5. CASE NumberNames(s, n)
  <2>1. IsNumber(s) /\ Decimal(s) <= FieldMax
    BY <1>5 DEF NumberNames
  <2>2. Len(s) # 0
    BY <1>2, <2>1, EmptySeq DEF IsNumber
  <2>3. p <= b
    BY <1>1, <1>2, <2>2
  <2>4. ASSUME NEW k \in p .. b PROVE t[k] \in Digit
    <3>1. k + 1 - p \in 1 .. b + 1 - p /\ p - 1 + (k + 1 - p) = k
      BY <1>1
    <3>2. s[k + 1 - p] \in Digit
      BY <1>2, <2>1, <3>1 DEF IsNumber
    <3> QED BY <1>2, <3>1, <3>2
  <2>5. Run(t, p, b)
    BY <1>1, <1>3, <2>3, <2>4 DEF Run
  <2>6. RangeAt(t, p) = [read |-> b + 1 - p, values |-> Decimal(s) .. Decimal(s)]
    BY <1>1, <1>3, <2>1, <2>5, RangeOfOne DEF s
  <2>7. b + 1 - p # -1
    BY <1>1
  <2> QED BY <2>6, <2>7
<1>6. ASSUME NEW d, PairNames(s, d, n) PROVE FALSE
  <2>1. IsPair(s, d) /\ Decimal(Hi(s, d)) <= FieldMax /\ Decimal(Lo(s, d)) <= n /\ n <= Decimal(Hi(s, d))
    BY <1>6 DEF PairNames
  <2>2. d \in 1 .. Len(s) /\ s[d] = "-" /\ IsNumber(Lo(s, d)) /\ IsNumber(Hi(s, d))
    BY <2>1 DEF IsPair
  <2>3. /\ Lo(s, d) \in Seq(Char) /\ Len(Lo(s, d)) = d - 1
        /\ Hi(s, d) \in Seq(Char) /\ Len(Hi(s, d)) = Len(s) - d
    BY <1>2, <2>2, PairFacts
  <2>4. Decimal(Hi(s, d)) \in Nat /\ Decimal(Lo(s, d)) \in Nat
    BY <2>2, <2>3, NumberOfNumber
  <2>5. Len(Lo(s, d)) # 0 /\ Len(Hi(s, d)) # 0
    BY <2>2, <2>3, EmptySeq DEF IsNumber
  <2>6. d \in Nat /\ 1 < d /\ d < b + 1 - p
    BY <1>1, <1>2, <2>2, <2>3, <2>5
  <2> DEFINE q == p + d - 2
  <2>7. q \in Nat /\ p <= q /\ q + 2 <= b /\ q + 2 - p = d /\ p - 1 + d = q + 1
    BY <1>1, <2>6
  <2> HIDE DEF q
  <2>8. ASSUME NEW k \in p .. b PROVE /\ k + 1 - p \in 1 .. Len(s) /\ s[k + 1 - p] = t[k]
                                      /\ k + 1 - p = d <=> k = q + 1
    <3>1. k + 1 - p \in 1 .. b + 1 - p /\ p - 1 + (k + 1 - p) = k /\ (k + 1 - p = d <=> k = q + 1)
      BY <1>1, <2>7
    <3> QED BY <1>2, <3>1
  <2>9. ASSUME NEW k \in p .. b, k # q + 1 PROVE t[k] \in Digit
    <3> DEFINE j == k + 1 - p
    <3>1. j \in 1 .. Len(s) /\ s[j] = t[k] /\ j # d
      BY <2>8, <2>9
    <3> HIDE DEF j
    <3>2. s[j] \in Digit
      BY <1>2, <2>1, <3>1, PairHasOneDash
    <3> QED BY <3>1, <3>2
  <2>10. q + 1 \in p .. b /\ q + 1 \in 1 .. Len(t)
    BY <1>1, <2>7
  <2>11. t[q + 1] = "-" /\ At(t, q + 1) = "-"
    <3>1. t[q + 1] = "-"
      BY <2>2, <2>8, <2>10
    <3> QED BY <2>10, <3>1, AtFacts
  <2>12. "-" \notin Digit
    BY FigureFacts
  <2>13. Run(t, p, q)
    <3>1. \A k \in p .. q : k \in p .. b /\ k # q + 1
      BY <1>1, <2>7
    <3>2. q <= Len(t)
      BY <1>1, <2>7
    <3> QED BY <2>7, <2>9, <2>11, <2>12, <3>1, <3>2 DEF Run
  <2>14. Run(t, q + 2, b)
    <3>1. \A k \in q + 2 .. b : k \in p .. b /\ k # q + 1
      BY <1>1, <2>7
    <3> QED BY <1>1, <1>3, <2>7, <2>9, <3>1 DEF Run
  <2>15. Lo(s, d) = SubSeq(t, p, q) /\ Hi(s, d) = SubSeq(t, q + 2, b)
    <3>1. /\ Lo(SubSeq(t, p, b), q + 2 - p) = SubSeq(t, p, q)
          /\ Hi(SubSeq(t, p, b), q + 2 - p) = SubSeq(t, q + 2, b)
      <4>1. p \in Nat \ {0} /\ q \in Nat /\ b \in Nat
        BY <1>1, <2>7
      <4>2. At(t, q + 1) = "-"
        BY <2>11
      <4> QED BY <2>13, <2>14, <4>1, <4>2, RunsArePair
    <3> QED BY <2>7, <3>1 DEF s
  <2>16. Decimal(Lo(s, d)) <= Decimal(Hi(s, d))
    BY <1>4, <2>1, <2>4, FieldAssumption
  <2>17. RangeAt(t, p) = [read |-> b + 1 - p,
                          values |-> Decimal(SubSeq(t, p, q)) .. Decimal(SubSeq(t, q + 2, b))]
    <3>1. /\ Decimal(SubSeq(t, p, q)) <= Decimal(SubSeq(t, q + 2, b))
          /\ Decimal(SubSeq(t, q + 2, b)) <= FieldMax
      BY <2>1, <2>15, <2>16
    <3> QED BY <1>1, <2>7, <2>11, <2>13, <2>14, <3>1, RangeOfTwo
  <2>18. b + 1 - p # -1
    BY <1>1
  <2> QED BY <2>17, <2>18
<1>7. NumberNames(s, n) \/ \E d : PairNames(s, d, n)
  BY <1>2, <1>4, NamedCases
<1> QED BY <1>5, <1>6, <1>7

-----------------------------------------------------------------------------
(* The items of what was read. *)

\* The beginning of t of length r has an item from a to b.
Separates(t, r, k) == k \notin 1 .. r \/ t[k] = Comma
Stretch(t, r, a, b) == /\ a \in 1 .. r + 1 /\ b \in 0 .. r /\ a <= b + 1
                       /\ Separates(t, r, a - 1) /\ Separates(t, r, b + 1)
                       /\ \A k \in a .. b : t[k] # Comma

\* A separator of the first r characters is a comma among them, or one of their two ends.
LEMMA SeparatesAt ==
  ASSUME NEW t \in Seq(Char), NEW r \in 0 .. Len(t), NEW k \in Int
  PROVE  At(SubSeq(t, 1, r), k) \in {"", ","} <=> Separates(t, r, k)
<1>1. Len(t) \in Nat /\ \A j \in 1 .. Len(t) : t[j] # ""
  BY AtFacts
<1> DEFINE u == SubSeq(t, 1, r)
<1>2. u \in Seq(Char) /\ Len(u) = r /\ \A j \in 1 .. r : u[j] = t[j]
  BY Beginning
<1> HIDE DEF u
<1>3. CASE k \in 1 .. r
  <2>1. k \in 1 .. Len(t)
    <3>1. Len(t) \in Nat
      BY <1>1
    <3> QED BY <1>3, <3>1
  <2>2. At(u, k) = t[k]
    BY <1>2, <1>3, AtFacts
  <2>3. t[k] # ""
    BY <1>1, <2>1
  <2>4. t[k] \in {"", ","} <=> t[k] = Comma
    BY <2>3, Zenon DEF Comma
  <2>5. Separates(t, r, k) <=> t[k] = Comma
    BY <1>3 DEF Separates
  <2>6. At(u, k) \in {"", ","} <=> Separates(t, r, k)
    BY <2>2, <2>4, <2>5
  <2> QED BY <2>6 DEF u
<1>4. CASE k \notin 1 .. r
  <2>1. At(u, k) = ""
    BY <1>2, <1>4, AtFacts
  <2> QED BY <1>4, <2>1 DEF Separates, u
<1> QED BY <1>3, <1>4

\* The items of the first r characters are the stretches between their separators.
LEMMA ItemsOfBeginning ==
  ASSUME NEW t \in Seq(Char), NEW r \in 0 .. Len(t), NEW x
  PROVE  x \in Items(SubSeq(t, 1, r)) <=> \E a, b : Stretch(t, r, a, b) /\ x = SubSeq(t, a, b)
<1> DEFINE u == SubSeq(t, 1, r)
<1>1. Len(t) \in Nat
  BY AtFacts
<1>2. r \in Nat /\ r <= Len(t)
  BY <1>1
<1>3. u \in Seq(Char) /\ Len(u) = r /\ \A j \in 1 .. r : u[j] = t[j]
  BY Beginning
<1> HIDE DEF u
<1>4. ASSUME NEW a \in 1 .. r + 1, NEW b \in 0 .. r
      PROVE  /\ IsItem(u, a, b) <=> Stretch(t, r, a, b)
             /\ IsItem(u, a, b) => SubSeq(u, a, b) = SubSeq(t, a, b)
  <2>1. a - 1 \in Int /\ b + 1 \in Int
    BY <1>2
  <2>2. At(u, a - 1) \in {"", ","} <=> Separates(t, r, a - 1)
    BY <2>1, SeparatesAt DEF u
  <2>3. At(u, b + 1) \in {"", ","} <=> Separates(t, r, b + 1)
    BY <2>1, SeparatesAt DEF u
  <2>4. \A k \in a .. b : k \in 1 .. r
    BY <1>2
  <2>5. (\A k \in a .. b : u[k] # ",") <=> \A k \in a .. b : t[k] # Comma
    BY <1>3, <2>4 DEF Comma
  <2>6. IsItem(u, a, b) <=> Stretch(t, r, a, b)
    BY <2>2, <2>3, <2>5 DEF IsItem, Stretch
  <2>7. ASSUME a <= b + 1 PROVE SubSeq(u, a, b) = SubSeq(t, a, b)
    <3>1. /\ 1 \in 1 .. Len(t) + 1 /\ r \in 1 - 1 .. Len(t)
          /\ a \in 1 .. r + 2 - 1 /\ b \in a - 1 .. r + 1 - 1
          /\ 1 - 1 + a = a /\ 1 - 1 + b = b
      BY <1>1, <1>2, <2>7
    <3>2. SubSeq(SubSeq(t, 1, r), a, b) = SubSeq(t, 1 - 1 + a, 1 - 1 + b)
      BY <3>1, PartOfPart
    <3> QED BY <3>1, <3>2 DEF u
  <2>8. IsItem(u, a, b) => a <= b + 1
    BY DEF IsItem
  <2> QED BY <2>6, <2>7, <2>8
<1>5. \A a, b : Stretch(t, r, a, b) => a \in 1 .. r + 1 /\ b \in 0 .. r
  BY DEF Stretch
<1>6. x \in Items(u) <=> \E a, b : Stretch(t, r, a, b) /\ x = SubSeq(t, a, b)
  <2>1. ASSUME x \in Items(u) PROVE \E a, b : Stretch(t, r, a, b) /\ x = SubSeq(t, a, b)
    <3>1. PICK a \in 1 .. Len(u) + 1, b \in 0 .. Len(u) : IsItem(u, a, b) /\ x = SubSeq(u, a, b)
      BY <2>1 DEF Items
    <3>2. a \in 1 .. r + 1 /\ b \in 0 .. r
      BY <1>3
    <3>3. Stretch(t, r, a, b) /\ x = SubSeq(t, a, b)
      BY <1>4, <3>1, <3>2
    <3> QED BY <3>3
  <2>2. ASSUME NEW a, NEW b, Stretch(t, r, a, b), x = SubSeq(t, a, b) PROVE x \in Items(u)
    <3>1. a \in 1 .. r + 1 /\ b \in 0 .. r
      BY <1>5, <2>2
    <3>2. IsItem(u, a, b) /\ SubSeq(u, a, b) = SubSeq(t, a, b)
      BY <1>4, <2>2, <3>1
    <3>3. a \in 1 .. Len(u) + 1 /\ b \in 0 .. Len(u)
      BY <1>3, <3>1
    <3> DEFINE row(c) == {SubSeq(u, c, e) : e \in {e \in 0 .. Len(u) : IsItem(u, c, e)}}
    <3>4. SubSeq(u, a, b) \in row(a)
      BY <3>2, <3>3
    <3>5. Items(u) = UNION {row(c) : c \in 1 .. Len(u) + 1}
      BY DEF Items
    <3> HIDE DEF row
    <3> QED BY <2>2, <3>2, <3>3, <3>4, <3>5
  <2> QED BY <2>1, <2>2
<1> QED BY <1>6 DEF u

\* Without a comma there is one item, ...
LEMMA FirstStretch ==
  ASSUME NEW t, NEW r \in Nat, \A k \in 1 .. r : t[k] # Comma, NEW a, NEW b
  PROVE  Stretch(t, r, a, b) <=> a = 1 /\ b = r
<1>1. ASSUME Stretch(t, r, a, b) PROVE a = 1 /\ b = r
  <2>1. /\ a \in 1 .. r + 1 /\ b \in 0 .. r /\ a <= b + 1
        /\ Separates(t, r, a - 1) /\ Separates(t, r, b + 1)
    BY <1>1 DEF Stretch
  <2>2. a - 1 \notin 1 .. r /\ b + 1 \notin 1 .. r
    BY <2>1 DEF Separates
  <2> QED BY <2>1, <2>2
<1>2. ASSUME a = 1, b = r PROVE Stretch(t, r, a, b)
  <2>1. a \in 1 .. r + 1 /\ b \in 0 .. r /\ a <= b + 1 /\ a - 1 \notin 1 .. r /\ b + 1 \notin 1 .. r
    BY <1>2
  <2> QED BY <1>2, <2>1 DEF Stretch, Separates
<1> QED BY <1>1, <1>2

\* ... and behind a comma one more.
LEMMA NextStretch ==
  ASSUME NEW t, NEW r \in Nat, NEW c \in 1 .. r, t[c] = Comma,
         \A k \in c + 1 .. r : t[k] # Comma, NEW a, NEW b
  PROVE  Stretch(t, r, a, b) <=> Stretch(t, c - 1, a, b) \/ (a = c + 1 /\ b = r)
<1>1. ASSUME Stretch(t, r, a, b) PROVE Stretch(t, c - 1, a, b) \/ (a = c + 1 /\ b = r)
  <2>1. /\ a \in 1 .. r + 1 /\ b \in 0 .. r /\ a <= b + 1
        /\ Separates(t, r, a - 1) /\ Separates(t, r, b + 1)
        /\ \A k \in a .. b : t[k] # Comma
    BY <1>1 DEF Stretch
  <2>2. CASE a <= c
    <3>1. c \notin a .. b
      BY <2>1
    <3>2. b <= c - 1
      BY <2>1, <2>2, <3>1
    <3>3. a \in 1 .. c - 1 + 1 /\ b \in 0 .. c - 1
      BY <2>1, <2>2, <3>2
    <3>4. Separates(t, c - 1, a - 1)
      <4>1. a - 1 \in 1 .. c - 1 => a - 1 \in 1 .. r
        BY <2>1
      <4> QED BY <2>1, <4>1 DEF Separates
    <3>5. Separates(t, c - 1, b + 1)
      <4>1. b + 1 \in 1 .. c - 1 => b + 1 \in 1 .. r
        BY <2>1
      <4> QED BY <2>1, <4>1 DEF Separates
    <3> QED BY <2>1, <3>3, <3>4, <3>5 DEF Stretch
  <2>3. CASE ~ (a <= c)
    <3>1. a - 1 \in 1 .. r /\ (a - 1 \in c + 1 .. r \/ a = c + 1)
      BY <2>1, <2>3
    <3>2. a = c + 1
      BY <2>1, <3>1 DEF Separates
    <3>3. b + 1 \in c + 1 .. r \/ b = r
      BY <2>1, <3>2
    <3>4. b + 1 \in c + 1 .. r => b + 1 \in 1 .. r
      OBVIOUS
    <3>5. b = r
      BY <2>1, <3>3, <3>4 DEF Separates
    <3> QED BY <3>2, <3>5
  <2> QED BY <2>2, <2>3
<1>2. ASSUME Stretch(t, c - 1, a, b) PROVE Stretch(t, r, a, b)
  <2>1. /\ a \in 1 .. c - 1 + 1 /\ b \in 0 .. c - 1 /\ a <= b + 1
        /\ Separates(t, c - 1, a - 1) /\ Separates(t, c - 1, b + 1)
        /\ \A k \in a .. b : t[k] # Comma
    BY <1>2 DEF Stretch
  <2>2. a \in 1 .. r + 1 /\ b \in 0 .. r
    BY <2>1
  <2>3. Separates(t, r, a - 1)
    <3>1. a - 1 \in 1 .. r => a - 1 \in 1 .. c - 1
      BY <2>1
    <3> QED BY <2>1, <3>1 DEF Separates
  <2>4. Separates(t, r, b + 1)
    <3>1. b + 1 \in 1 .. r => b + 1 \in 1 .. c - 1 \/ b + 1 = c
      BY <2>1
    <3> QED BY <2>1, <3>1 DEF Separates
  <2> QED BY <2>1, <2>2, <2>3, <2>4 DEF Stretch
<1>3. ASSUME a = c + 1, b = r PROVE Stretch(t, r, a, b)
  <2>1. /\ a \in 1 .. r + 1 /\ b \in 0 .. r /\ a <= b + 1 /\ a - 1 = c /\ b + 1 \notin 1 .. r
    BY <1>3
  <2> QED BY <1>3, <2>1 DEF Stretch, Separates
<1> QED BY <1>1, <1>2, <1>3

\* No other beginning than the first character reads "*".
LEMMA NotAll ==
  ASSUME NEW t \in Seq(Char), NEW r \in 1 .. Len(t), t[1] # "*"
  PROVE  SubSeq(t, 1, r) # <<"*">>
<1>1. Len(t) \in Nat
  BY AtFacts
<1>2. r \in 0 .. Len(t) /\ 1 \in 1 .. r
  BY <1>1
<1>3. SubSeq(t, 1, r)[1] = t[1]
  BY <1>2, Beginning
<1> DEFINE s == SubSeq(t, 1, r)
<1>4. s[1] # "*"
  BY <1>3
<1> HIDE DEF s
<1>5. s # <<"*">>
  BY <1>4
<1> QED BY <1>5 DEF s

\* What the beginning means once its first item is read, ...
LEMMA FirstItemDenotes ==
  ASSUME NEW t \in Seq(Char), NEW r \in Nat, ReadsTo(t, 1, r)
  PROVE  /\ r \in 1 .. Len(t) /\ t[1] # "*"
         /\ WellFormed(SubSeq(t, 1, r))
         /\ Denoted(SubSeq(t, 1, r)) = RangeAt(t, 1).values
<1> DEFINE u == SubSeq(t, 1, r)
<1>1. /\ r \in 1 .. Len(t) /\ t[1] \in Digit /\ \A k \in 1 .. r : t[k] # Comma
      /\ Named(u) = RangeAt(t, 1).values /\ RangeAt(t, 1).values # {}
  BY DEF ReadsTo
<1>2. t[1] # "*"
  BY <1>1, FigureFacts
<1>3. u # <<"*">>
  BY <1>1, <1>2, NotAll
<1>4. r \in 0 .. Len(t)
  BY <1>1
<1>5. \A a, b : Stretch(t, r, a, b) <=> a = 1 /\ b = r
  BY <1>1, FirstStretch
<1>6. \A x : x \in Items(u) <=> \E a, b : Stretch(t, r, a, b) /\ x = SubSeq(t, a, b)
  BY <1>4, ItemsOfBeginning
<1>7. Items(u) = {u}
  <2>1. \A x : x \in Items(u) <=> x = SubSeq(t, 1, r)
    <3> HIDE DEF u
    <3>1. Stretch(t, r, 1, r)
      BY <1>5
    <3>2. ASSUME NEW a, NEW b, Stretch(t, r, a, b) PROVE SubSeq(t, a, b) = SubSeq(t, 1, r)
      BY <1>5, <3>2
    <3> QED BY <1>6, <3>1, <3>2
  <2> HIDE DEF u
  <2>2. \A x : x \in Items(u) <=> x = u
    BY <2>1 DEF u
  <2> QED BY <2>2
<1> HIDE DEF u
<1>8. WellFormed(u) /\ Denoted(u) = Named(u)
  BY <1>1, <1>3, <1>7 DEF WellFormed, Denoted
<1> QED BY <1>1, <1>2, <1>8 DEF u

\* ... and once another one is.
LEMMA NextItemDenotes ==
  ASSUME NEW t \in Seq(Char), NEW n \in 1 .. Len(t), t[1] # "*", At(t, n + 1) = Comma,
         WellFormed(SubSeq(t, 1, n)), NEW r \in Nat, ReadsTo(t, n + 2, r)
  PROVE  /\ r \in 1 .. Len(t)
         /\ WellFormed(SubSeq(t, 1, r))
         /\ Denoted(SubSeq(t, 1, r)) = Denoted(SubSeq(t, 1, n)) \cup RangeAt(t, n + 2).values
<1> DEFINE u == SubSeq(t, 1, r)
<1> DEFINE w == SubSeq(t, 1, n)
<1> DEFINE x == SubSeq(t, n + 2, r)
<1>0. Len(t) \in Nat
  BY AtFacts
<1>1. /\ n + 2 \in 1 .. Len(t) /\ r \in n + 2 .. Len(t) /\ \A k \in n + 2 .. r : t[k] # Comma
      /\ Named(x) = RangeAt(t, n + 2).values /\ RangeAt(t, n + 2).values # {}
  BY DEF ReadsTo
<1>2. /\ n \in Nat /\ r \in 1 .. Len(t) /\ n + 1 \in 1 .. Len(t) /\ n + 1 \in 1 .. r
      /\ n + 1 - 1 = n /\ n + 1 + 1 = n + 2
      /\ n \in 0 .. Len(t) /\ r \in 0 .. Len(t)
  BY <1>0, <1>1
<1>3. t[n + 1] = Comma
  <2>1. At(t, n + 1) = t[n + 1]
    BY <1>2, AtFacts
  <2> QED BY <2>1
<1>4. u # <<"*">> /\ w # <<"*">>
  BY <1>2, NotAll
<1>5. \A a, b : Stretch(t, r, a, b) <=> Stretch(t, n, a, b) \/ (a = n + 2 /\ b = r)
  <2> DEFINE c == n + 1
  <2>1. c \in 1 .. r /\ t[c] = Comma /\ c - 1 = n /\ c + 1 = n + 2
    BY <1>2, <1>3
  <2> HIDE DEF c
  <2>2. \A k \in c + 1 .. r : t[k] # Comma
    BY <1>1, <2>1
  <2>3. \A a, b : Stretch(t, r, a, b) <=> Stretch(t, c - 1, a, b) \/ (a = c + 1 /\ b = r)
    BY <2>1, <2>2, NextStretch
  <2> QED BY <2>1, <2>3
<1>6. \A y : y \in Items(u) <=> \E a, b : Stretch(t, r, a, b) /\ y = SubSeq(t, a, b)
  BY <1>2, ItemsOfBeginning
<1>7. \A y : y \in Items(w) <=> \E a, b : Stretch(t, n, a, b) /\ y = SubSeq(t, a, b)
  BY <1>2, ItemsOfBeginning
<1>8. \A y : y \in Items(u) <=> y \in Items(w) \/ y = x
  <2> HIDE DEF u, w
  <2> QED BY <1>5, <1>6, <1>7
<1>9. WellFormed(w)
  OBVIOUS
<1> HIDE DEF u, w, x
<1>10. WellFormed(u)
  BY <1>1, <1>4, <1>8, <1>9 DEF WellFormed
<1>11. Items(u) = Items(w) \cup {x}
  BY <1>8
<1>12. Denoted(u) = Denoted(w) \cup Named(x)
  BY <1>4, <1>11 DEF Denoted
<1> QED BY <1>1, <1>2, <1>10, <1>12 DEF u, w, x

\* A text that does not begin with a range has an item that names nothing.
LEMMA NoItemFirst ==
  ASSUME NEW t \in Seq(Char), t # <<"*">>, RangeAt(t, 1).read = -1
  PROVE  ~ WellFormed(t)
<1> DEFINE L == Len(t)
<1>1. L \in Nat /\ SubSeq(t, 1, L) = t
  BY AtFacts, SubSeqFull
<1>2. L \in 0 .. L /\ L + 1 \notin 1 .. L
  BY <1>1
<1> DEFINE T == {b \in 0 .. L : Separates(t, L, b + 1)}
<1>3. L \in T
  BY <1>2 DEF Separates
<1>4. T \in SUBSET Nat
  BY <1>1
<1> HIDE DEF T
<1>5. PICK b \in T : \A c \in T : b <= c
  BY <1>3, <1>4, Least
<1>6. b \in 0 .. L /\ Separates(t, L, b + 1)
  BY DEF T
<1>7. ASSUME NEW k \in 1 .. b PROVE t[k] # Comma
  <2>1. k - 1 \in 0 .. L /\ ~ (b <= k - 1) /\ k - 1 + 1 = k
    BY <1>1, <1>6
  <2>2. k - 1 \notin T
    BY <1>5, <2>1
  <2>3. ~ Separates(t, L, k)
    BY <2>1, <2>2 DEF T
  <2> QED BY <2>3 DEF Separates
<1>8. Stretch(t, L, 1, b)
  <2>1. 1 \in 1 .. L + 1 /\ 1 <= b + 1 /\ 1 - 1 \notin 1 .. L
    BY <1>1, <1>6
  <2>2. Separates(t, L, 1 - 1)
    BY <2>1 DEF Separates
  <2> QED BY <1>6, <1>7, <2>1, <2>2 DEF Stretch
<1> DEFINE x == SubSeq(t, 1, b)
<1>9. x \in Items(SubSeq(t, 1, L))
  BY <1>2, <1>8, ItemsOfBeginning
<1>10. x \in Items(t)
  BY <1>1, <1>9
<1>11. Named(x) = {}
  <2>1. b + 1 \in Int /\ 1 \in 1 .. L + 1 /\ b \in 1 - 1 .. L
    BY <1>1, <1>6
  <2>2. At(SubSeq(t, 1, L), b + 1) \in {"", ","}
    BY <1>2, <1>6, <2>1, SeparatesAt
  <2>3. At(t, b + 1) \in {"", ","}
    BY <1>1, <2>2
  <2>4. At(t, b + 1) \in {NUL, Comma}
    BY <2>3, Zenon DEF NUL, Comma
  <2> QED BY <2>1, <2>4, NoRangeNoItem
<1> QED BY <1>10, <1>11 DEF WellFormed

\* An unsigned int: what is not negative and not too large is itself, and -1 is the
\* largest one.
LEMMA WrapFacts ==
  /\ \A n \in 0 .. Wrap - 1 : n % Wrap = n
  /\ Wrap > 0 => (-1) % Wrap = Wrap - 1
BY WidthAssumption

-----------------------------------------------------------------------------
(* The parser's invariant. *)

\* Nothing was read yet, ...
Fresh(n, f) == n = 0 /\ f = {}

\* ... or the first n characters were, and f is what they mean, ...
ReadSoFar(t, n, f) == /\ n \in 1 .. Len(t)
                      /\ WellFormed(SubSeq(t, 1, n))
                      /\ f = Denoted(SubSeq(t, 1, n))

\* ... or the position has left the text, because that does not begin with an item.
Lost(t, n, f) == n = Wrap - 1 /\ n > Len(t) /\ f = {} /\ t # << >> /\ ~ WellFormed(t)

ParserState(l, t, n, f) ==
  /\ l = "parse" => \/ Fresh(n, f)
                    \/ ReadSoFar(t, n, f) /\ t[1] # "*"
                    \/ Lost(t, n, f)
  /\ l = "refused" => Fresh(n, f) /\ ~ WellFormed(t)
  /\ l = "crashed" => Lost(t, n, f)
  /\ l \notin {"parse", "refused", "crashed"} => ReadSoFar(t, n, f)

ParserInv == text \in Texts /\ ParserState(leg, text, pos, field)

\* A typed text is a sequence of characters, and an unsigned int counts them.
LEMMA TextFacts ==
  ASSUME text \in Texts
  PROVE  /\ text \in Seq(Char) /\ Len(text) \in Nat /\ Len(text) < Wrap - 1 /\ Wrap \in Nat
         /\ DOMAIN text = 1 .. Len(text)
<1>1. text \in Seq(Character) /\ Len(text) < Wrap - 1 /\ Wrap \in Nat
  BY TextAssumption, WidthAssumption
<1>2. text \in Seq(Char)
  <2>1. Len(text) \in Nat /\ DOMAIN text = 1 .. Len(text) /\ text = [k \in 1 .. Len(text) |-> text[k]]
    BY <1>1, LenProperties
  <2>2. \A k \in 1 .. Len(text) : text[k] \in Char
    <3>1. \A k \in 1 .. Len(text) : text[k] \in Character
      BY <1>1, ElementOfSeq
    <3> QED BY <3>1 DEF Char
  <2> QED BY <2>1, <2>2
<1> QED BY <1>1, <1>2, AtFacts

\* A text of one character.
LEMMA OneCharacter ==
  ASSUME NEW t \in Seq(Char), NEW c, At(t, 1) = c, c # NUL
  PROVE  1 \in 1 .. Len(t) /\ t[1] = c /\ SubSeq(t, 1, 1) = <<c>>
<1>1. 1 \in 1 .. Len(t) /\ t[1] = c
  <2>1. 1 \notin 1 .. Len(t) => At(t, 1) = NUL
    BY AtFacts DEF NUL
  <2> QED BY <2>1, AtFacts
<1>2. Len(t) \in Nat
  BY AtFacts
<1>3. 1 \in 0 .. Len(t)
  BY <1>1, <1>2
<1> DEFINE s == SubSeq(t, 1, 1)
<1>4. s \in Seq(Char) /\ Len(s) = 1 /\ s[1] = t[1]
  BY <1>3, Beginning
<1> HIDE DEF s
<1>5. s = [k \in 1 .. 1 |-> s[k]]
  BY <1>4, LenProperties
<1>6. s = <<c>>
  BY <1>1, <1>4, <1>5
<1> QED BY <1>1, <1>6 DEF s

\* Nothing is read at the start.
LEMMA ParserInit ==
  ASSUME Init
  PROVE  ParserInv
BY DEF Init, ParserInv, ParserState, Fresh

\* An empty text is not well-formed.
LEMMA RefuseKeeps ==
  ASSUME ParserInv, Refuse
  PROVE  ParserInv'
<1>1. text \in Texts /\ leg = "parse" /\ text = << >> /\ leg' = "refused"
  BY DEF ParserInv, Refuse
<1>2. text' = text /\ pos' = pos /\ field' = field
  BY DEF Refuse, parser
<1>3. text \in Seq(Char)
  BY <1>1, TextFacts
<1>4. ~ WellFormed(text)
  <2>1. 1 \notin 1 .. Len(text)
    <3>1. Len(text) = 0
      BY <1>1, EmptySeq
    <3> QED BY <3>1
  <2>2. At(text, 1) \notin Digit
    <3>1. At(text, 1) = ""
      BY <1>3, <2>1, AtFacts
    <3> QED BY <3>1, FigureFacts
  <2>3. RangeAt(text, 1).read = -1
    BY <2>2, RangeOfNone
  <2>4. text # <<"*">>
    <3>1. Len(<<"*">>) = 1 /\ Len(<< >>) = 0
      OBVIOUS
    <3> QED BY <1>1, <3>1
  <2> QED BY <1>3, <2>3, <2>4, NoItemFirst
<1>5. Fresh(pos, field)
  <2>1. \/ Fresh(pos, field) \/ ReadSoFar(text, pos, field) \/ Lost(text, pos, field)
    BY <1>1 DEF ParserInv, ParserState
  <2>2. pos \notin 1 .. Len(text)
    <3>1. Len(text) = 0
      BY <1>1, EmptySeq
    <3> QED BY <3>1
  <2>3. ~ ReadSoFar(text, pos, field) /\ ~ Lost(text, pos, field)
    BY <1>1, <2>2 DEF ReadSoFar, Lost
  <2> QED BY <2>1, <2>3
<1>6. ParserState("refused", text, pos, field)
  BY <1>4, <1>5 DEF ParserState
<1> QED BY <1>1, <1>2, <1>6 DEF ParserInv

\* "*" is read whole, and means every value.
LEMMA StarKeeps ==
  ASSUME ParserInv, Star
  PROVE  ParserInv'
<1>1. text \in Texts /\ text \in Seq(Char)
  BY TextFacts DEF ParserInv
<1>2. At(text, 1) = "*" /\ pos' = 1 /\ leg' = "build" /\ field' = 0 .. FieldMax /\ text' = text
  BY DEF Star, Parsed
<1>3. NUL # "*"
  BY SeparatorFacts
<1>4. 1 \in 1 .. Len(text) /\ SubSeq(text, 1, 1) = <<"*">>
  BY <1>1, <1>2, <1>3, OneCharacter
<1>5. ReadSoFar(text, 1, 0 .. FieldMax)
  BY <1>4 DEF ReadSoFar, WellFormed, Denoted
<1>6. ParserState("build", text, 1, 0 .. FieldMax)
  BY <1>5 DEF ParserState
<1> QED BY <1>1, <1>2, <1>6 DEF ParserInv

\* What is left behind by a range that is read at n + 1, or not.
LEMMA AddRangeResult ==
  ASSUME text \in Texts, NEW n \in 0 .. Len(text), AddRange(n, field)
  PROVE  /\ leg = "parse" /\ leg' = "parse" /\ text' = text
         /\ \/ /\ RangeAt(text, n + 1).read = -1
               /\ pos' = (IF n = 0 THEN Wrap - 1 ELSE n - 1) /\ field' = field
            \/ \E r \in Nat : /\ ReadsTo(text, n + 1, r) /\ pos' = r
                              /\ field' = field \cup RangeAt(text, n + 1).values
<1> DEFINE range == RangeAt(text, n + 1)
<1>1. /\ leg = "parse" /\ leg' = "parse" /\ text' = text
      /\ pos' = (n + range.read) % Wrap
      /\ field' = IF range.read = -1 THEN field ELSE field \cup range.values
  BY DEF AddRange
<1> HIDE DEF range
<1>2. text \in Seq(Char) /\ Len(text) \in Nat /\ Len(text) < Wrap - 1 /\ Wrap \in Nat
  BY TextFacts
<1>3. n \in Nat /\ n <= Len(text) /\ n + 1 \in Nat \ {0} /\ Wrap > 0
  BY <1>2
<1>4. CASE range.read = -1
  <2>1. pos' = (n + (-1)) % Wrap /\ field' = field
    BY <1>1, <1>4
  <2>2. CASE n = 0
    <3>1. n + (-1) = -1
      BY <2>2
    <3>2. (-1) % Wrap = Wrap - 1
      BY <1>3, WrapFacts
    <3>3. pos' = Wrap - 1
      BY <2>1, <3>1, <3>2
    <3> QED BY <1>1, <1>4, <2>1, <2>2, <3>3 DEF range
  <2>3. CASE n # 0
    <3>1. n + (-1) = n - 1 /\ n - 1 \in 0 .. Wrap - 1
      BY <1>2, <1>3, <2>3
    <3>2. (n - 1) % Wrap = n - 1
      BY <3>1, WrapFacts
    <3>3. pos' = n - 1
      BY <2>1, <3>1, <3>2
    <3> QED BY <1>1, <1>4, <2>1, <2>3, <3>3 DEF range
  <2> QED BY <2>2, <2>3
<1>5. CASE range.read # -1
  <2>1. PICK r \in Nat : ReadsTo(text, n + 1, r)
    BY <1>2, <1>3, <1>5, RangeIsItem DEF range
  <2>2. r \in n + 1 .. Len(text) /\ range.read = r + 1 - (n + 1)
    BY <2>1 DEF ReadsTo, range
  <2>3. n + (r + 1 - (n + 1)) = r /\ r \in 0 .. Wrap - 1
    BY <1>2, <1>3, <2>2
  <2>4. r % Wrap = r
    BY <2>3, WrapFacts
  <2>5. pos' = r
    BY <1>1, <2>2, <2>3, <2>4
  <2>6. field' = field \cup RangeAt(text, n + 1).values
    BY <1>1, <1>5 DEF range
  <2> QED BY <1>1, <2>1, <2>5, <2>6
<1> QED BY <1>4, <1>5

\* The first item.
LEMMA FirstItemKeeps ==
  ASSUME ParserInv, FirstItem
  PROVE  ParserInv'
<1>1. /\ text \in Texts /\ pos = 0 /\ text # << >> /\ text[1] # "*"
      /\ AddRange(0, field)
  BY DEF ParserInv, FirstItem, Item
<1>2. text \in Seq(Char) /\ Len(text) \in Nat /\ Len(text) < Wrap - 1 /\ Wrap \in Nat
  BY <1>1, TextFacts
<1>3. 0 \in 0 .. Len(text) /\ 0 + 1 = 1
  BY <1>2
<1>4. /\ leg = "parse" /\ leg' = "parse" /\ text' = text
      /\ \/ RangeAt(text, 1).read = -1 /\ pos' = Wrap - 1 /\ field' = field
         \/ \E r \in Nat : /\ ReadsTo(text, 1, r) /\ pos' = r
                           /\ field' = field \cup RangeAt(text, 1).values
  BY <1>1, <1>3, AddRangeResult
<1>5. field = {}
  <2>1. \/ Fresh(pos, field) \/ ReadSoFar(text, pos, field) \/ Lost(text, pos, field)
    BY <1>4 DEF ParserInv, ParserState
  <2>2. ~ ReadSoFar(text, pos, field)
    BY <1>1 DEF ReadSoFar
  <2> QED BY <2>1, <2>2 DEF Fresh, Lost
<1>6. CASE RangeAt(text, 1).read = -1 /\ pos' = Wrap - 1 /\ field' = field
  <2>1. text # <<"*">>
    <3>1. <<"*">>[1] = "*"
      OBVIOUS
    <3> QED BY <1>1, <3>1
  <2>2. ~ WellFormed(text)
    BY <1>2, <1>6, <2>1, NoItemFirst
  <2>3. Lost(text, Wrap - 1, {})
    BY <1>1, <1>2, <2>2 DEF Lost
  <2>4. ParserState("parse", text, Wrap - 1, {})
    BY <2>3 DEF ParserState
  <2> QED BY <1>1, <1>4, <1>5, <1>6, <2>4 DEF ParserInv
<1>7. CASE \E r \in Nat : /\ ReadsTo(text, 1, r) /\ pos' = r
                          /\ field' = field \cup RangeAt(text, 1).values
  <2>1. PICK r \in Nat : /\ ReadsTo(text, 1, r) /\ pos' = r
                         /\ field' = field \cup RangeAt(text, 1).values
    BY <1>7
  <2>2. /\ r \in 1 .. Len(text) /\ WellFormed(SubSeq(text, 1, r))
        /\ Denoted(SubSeq(text, 1, r)) = RangeAt(text, 1).values
    BY <1>2, <2>1, FirstItemDenotes
  <2>3. field' = Denoted(SubSeq(text, 1, r))
    BY <1>5, <2>1, <2>2
  <2>4. ReadSoFar(text, r, field')
    BY <2>2, <2>3 DEF ReadSoFar
  <2>5. ParserState("parse", text, r, field')
    BY <1>1, <2>4 DEF ParserState
  <2> QED BY <1>1, <1>4, <2>1, <2>5 DEF ParserInv
<1> QED BY <1>4, <1>6, <1>7

\* Another one: where it is missing, everything stays as it was.
LEMMA NextItemKeeps ==
  ASSUME ParserInv, NextItem
  PROVE  ParserInv'
<1>1. /\ text \in Texts /\ pos > 0 /\ At(text, pos + 1) = Comma
      /\ AddRange(pos + 1, field)
  BY DEF ParserInv, NextItem, Item, Comma
<1>2. text \in Seq(Char) /\ Len(text) \in Nat /\ Len(text) < Wrap - 1 /\ Wrap \in Nat
  BY <1>1, TextFacts
<1>3. leg = "parse"
  BY <1>1 DEF AddRange
<1>4. ReadSoFar(text, pos, field) /\ text[1] # "*"
  <2>1. Fresh(pos, field) \/ (ReadSoFar(text, pos, field) /\ text[1] # "*") \/ Lost(text, pos, field)
    BY <1>3 DEF ParserInv, ParserState
  <2>2. ~ Fresh(pos, field)
    BY <1>1 DEF Fresh
  <2>3. ~ Lost(text, pos, field)
    <3>1. ASSUME Lost(text, pos, field) PROVE FALSE
      <4>1. pos + 1 \notin 1 .. Len(text)
        BY <1>2, <3>1 DEF Lost
      <4>2. At(text, pos + 1) = NUL
        BY <1>2, <4>1, AtFacts DEF NUL
      <4> QED BY <1>1, <4>2, SeparatorFacts
    <3> QED BY <3>1
  <2> QED BY <2>1, <2>2, <2>3
<1>5. /\ pos \in 1 .. Len(text) /\ WellFormed(SubSeq(text, 1, pos))
      /\ field = Denoted(SubSeq(text, 1, pos))
  BY <1>4 DEF ReadSoFar
<1>6. pos + 1 \in 1 .. Len(text)
  <2>1. pos + 1 \notin 1 .. Len(text) => At(text, pos + 1) = NUL
    BY <1>2, AtFacts DEF NUL
  <2> QED BY <1>1, <2>1, SeparatorFacts
<1> DEFINE n == pos + 1
<1>7. n \in 0 .. Len(text) /\ n # 0 /\ n - 1 = pos /\ n + 1 = pos + 2 /\ AddRange(n, field)
  BY <1>1, <1>2, <1>5, <1>6
<1> HIDE DEF n
<1>8. /\ leg' = "parse" /\ text' = text
      /\ \/ RangeAt(text, n + 1).read = -1 /\ pos' = n - 1 /\ field' = field
         \/ \E r \in Nat : /\ ReadsTo(text, n + 1, r) /\ pos' = r
                           /\ field' = field \cup RangeAt(text, n + 1).values
  BY <1>1, <1>7, AddRangeResult
<1>9. CASE pos' = n - 1 /\ field' = field
  <2>1. pos' = pos
    BY <1>7, <1>9
  <2>2. ParserState("parse", text, pos, field)
    BY <1>3 DEF ParserInv
  <2> QED BY <1>1, <1>8, <1>9, <2>1, <2>2 DEF ParserInv
<1>10. CASE \E r \in Nat : /\ ReadsTo(text, n + 1, r) /\ pos' = r
                           /\ field' = field \cup RangeAt(text, n + 1).values
  <2>1. PICK r \in Nat : /\ ReadsTo(text, pos + 2, r) /\ pos' = r
                         /\ field' = field \cup RangeAt(text, pos + 2).values
    BY <1>7, <1>10
  <2>2. /\ r \in 1 .. Len(text) /\ WellFormed(SubSeq(text, 1, r))
        /\ Denoted(SubSeq(text, 1, r))
             = Denoted(SubSeq(text, 1, pos)) \cup RangeAt(text, pos + 2).values
    BY <1>1, <1>2, <1>4, <1>5, <2>1, NextItemDenotes
  <2>3. field' = Denoted(SubSeq(text, 1, r))
    BY <1>5, <2>1, <2>2
  <2>4. ReadSoFar(text, r, field')
    BY <2>2, <2>3 DEF ReadSoFar
  <2>5. ParserState("parse", text, r, field')
    BY <1>4, <2>4 DEF ParserState
  <2> QED BY <1>1, <1>8, <2>1, <2>5 DEF ParserInv
<1> QED BY <1>8, <1>9, <1>10

\* The end of the text, or of what can be read of it.
LEMMA EndOfFieldKeeps ==
  ASSUME ParserInv, EndOfField
  PROVE  ParserInv'
<1>1. /\ text \in Texts /\ leg = "parse" /\ pos \in 1 .. Len(text)
      /\ leg' = "build" /\ text' = text /\ pos' = pos /\ field' = field
  BY DEF ParserInv, EndOfField, Parsed
<1>2. Len(text) \in Nat
  BY <1>1, TextFacts
<1>3. Fresh(pos, field) \/ ReadSoFar(text, pos, field) \/ Lost(text, pos, field)
  BY <1>1 DEF ParserInv, ParserState
<1>4. ~ Fresh(pos, field) /\ ~ Lost(text, pos, field)
  <2>1. pos # 0 /\ ~ (pos > Len(text))
    BY <1>1, <1>2
  <2> QED BY <2>1 DEF Fresh, Lost
<1>5. ParserState("build", text, pos, field)
  BY <1>3, <1>4 DEF ParserState
<1> QED BY <1>1, <1>5 DEF ParserInv

\* A parser that is lost behind its buffer changes nothing any more.
LEMMA ReadsFarOutKeeps ==
  ASSUME ParserInv, ReadsFarOut
  PROVE  ParserInv'
<1>1. /\ text \in Texts /\ leg = "parse" /\ pos > Len(text)
      /\ leg' = "crashed" /\ text' = text /\ pos' = pos /\ field' = field
  BY DEF ParserInv, ReadsFarOut, parser
<1>2. Len(text) \in Nat
  BY <1>1, TextFacts
<1>3. Fresh(pos, field) \/ ReadSoFar(text, pos, field) \/ Lost(text, pos, field)
  BY <1>1 DEF ParserInv, ParserState
<1>4. ~ Fresh(pos, field) /\ ~ ReadSoFar(text, pos, field)
  <2>1. pos # 0 /\ pos \notin 1 .. Len(text)
    BY <1>1, <1>2
  <2> QED BY <2>1 DEF Fresh, ReadSoFar
<1>5. ParserState("crashed", text, pos, field)
  BY <1>3, <1>4 DEF ParserState
<1> QED BY <1>1, <1>5 DEF ParserInv

\* The legs leave the parser's result alone.
LEMMA LegsKeep ==
  ASSUME ParserInv,
         \/ Build \/ WriteChunk \/ WriterDies \/ ReadHead \/ ReadTiming
         \/ ReadArgc \/ ReadLength \/ ReadByte \/ Deliver \/ UNCHANGED vars
  PROVE  ParserInv'
<1>1. text' = text /\ pos' = pos /\ field' = field
  BY Zenon DEF Build, WriteChunk, WriteUpTo, WriterDies, ReadHead, ReadTiming, ReadArgc,
         ReadLength, ReadByte, Deliver, Takes, parser, vars
<1>2. \/ leg' = leg
      \/ /\ leg \in {"build", "request", "file", "reply"}
         /\ leg' \in {"request", "file", "reply", "shown", "astray"}
  <2>1. CASE ReadHead \/ ReadArgc \/ ReadLength
    BY <2>1 DEF ReadHead, ReadArgc, ReadLength, Takes, CanRead, Legs, Astray, Counts
  <2>2. CASE Build \/ WriteChunk \/ WriterDies \/ ReadTiming \/ ReadByte \/ Deliver \/ UNCHANGED vars
    BY <2>2, Zenon DEF Build, WriteChunk, WriteUpTo, WriterDies, ReadTiming, ReadByte, Deliver, Starts, vars
  <2> QED BY <2>1, <2>2
<1>3. CASE leg' = leg
  BY <1>1, <1>3 DEF ParserInv
<1>4. CASE /\ leg \in {"build", "request", "file", "reply"}
           /\ leg' \in {"request", "file", "reply", "shown", "astray"}
  <2>1. ReadSoFar(text, pos, field)
    BY <1>4 DEF ParserInv, ParserState
  <2>2. ParserState(leg', text, pos, field)
    BY <1>4, <2>1 DEF ParserState
  <2> QED BY <1>1, <2>2 DEF ParserInv
<1> QED BY <1>2, <1>3, <1>4

\* Every step keeps what was read equal to what that part of the text means.
LEMMA ParserNext ==
  ASSUME ParserInv, [Next]_vars
  PROVE  ParserInv'
BY RefuseKeeps, StarKeeps, FirstItemKeeps, NextItemKeeps, EndOfFieldKeeps, ReadsFarOutKeeps,
   LegsKeep DEF Next, Step, ParserStep, ReaderStep

\* What was read is, at every step, what the part of the text up to the position means
\* (timing_field_from_string's loop).
THEOREM ParserSound == Spec => []ParserInv
<1>1. ParserInv /\ [Next]_vars => ParserInv'
  BY ParserNext
<1> QED BY <1>1, ParserInit, PTL DEF Spec

\* A field that is accepted holds what the part of the text that was read means, and
\* no well-formed text is refused or leads the parser out of its buffer: for every text,
\* every field and every width of an unsigned int (timing_field_from_string).
THEOREM ParsedMeansDenoted == Spec => []ParsedIsDenoted
<1>1. ParserInv => ParsedIsDenoted
  BY DEF ParserInv, ParserState, ReadSoFar, Lost, ParsedIsDenoted
<1> QED BY <1>1, ParserSound, PTL

-----------------------------------------------------------------------------
(* Printing. *)

\* A text without commas is one item, ...
LEMMA OneItem ==
  ASSUME NEW t \in Seq(Char), \A k \in 1 .. Len(t) : t[k] # Comma
  PROVE  Items(t) = {t}
<1> DEFINE L == Len(t)
<1>1. L \in Nat /\ SubSeq(t, 1, L) = t
  BY AtFacts, SubSeqFull
<1>2. L \in 0 .. L
  BY <1>1
<1>3. \A k \in 1 .. L : t[k] # Comma
  OBVIOUS
<1>4. \A x : x \in Items(t) <=> \E a, b : Stretch(t, L, a, b) /\ x = SubSeq(t, a, b)
  <2>1. \A x : x \in Items(SubSeq(t, 1, L)) <=> \E a, b : Stretch(t, L, a, b) /\ x = SubSeq(t, a, b)
    BY <1>2, ItemsOfBeginning
  <2> HIDE DEF L
  <2> QED BY <1>1, <2>1
<1> HIDE DEF L
<1>5. ASSUME NEW a, NEW b PROVE Stretch(t, L, a, b) <=> a = 1 /\ b = L
  <2>1. L \in Nat
    BY <1>1
  <2> QED BY <1>3, <2>1, FirstStretch
<1>6. Stretch(t, L, 1, L)
  BY <1>5
<1>7. ASSUME NEW a, NEW b, Stretch(t, L, a, b) PROVE SubSeq(t, a, b) = t
  BY <1>1, <1>5, <1>7
<1>8. \A x : x \in Items(t) <=> x = t
  BY <1>1, <1>4, <1>6, <1>7
<1> QED BY <1>8

\* ... and what a comma precedes one more.
LEMMA OneItemMore ==
  ASSUME NEW t \in Seq(Char), NEW n \in 1 .. Len(t), NEW r \in n + 1 .. Len(t),
         t[n + 1] = Comma, \A k \in n + 2 .. r : t[k] # Comma
  PROVE  Items(SubSeq(t, 1, r)) = Items(SubSeq(t, 1, n)) \cup {SubSeq(t, n + 2, r)}
<1> DEFINE u == SubSeq(t, 1, r)
<1> DEFINE w == SubSeq(t, 1, n)
<1> DEFINE x == SubSeq(t, n + 2, r)
<1>1. Len(t) \in Nat
  BY AtFacts
<1> DEFINE c == n + 1
<1>2. /\ c \in 1 .. r /\ t[c] = Comma /\ c - 1 = n /\ c + 1 = n + 2
      /\ n \in 0 .. Len(t) /\ r \in 0 .. Len(t) /\ r \in Nat
  BY <1>1
<1>3. \A a, b : Stretch(t, r, a, b) <=> Stretch(t, n, a, b) \/ (a = n + 2 /\ b = r)
  <2> HIDE DEF c, u, w, x
  <2>2. \A k \in c + 1 .. r : t[k] # Comma
    BY <1>2
  <2>3. \A a, b : Stretch(t, r, a, b) <=> Stretch(t, c - 1, a, b) \/ (a = c + 1 /\ b = r)
    BY <1>2, <2>2, NextStretch
  <2> QED BY <1>2, <2>3
<1>4. \A y : y \in Items(u) <=> \E a, b : Stretch(t, r, a, b) /\ y = SubSeq(t, a, b)
  BY <1>2, ItemsOfBeginning
<1>5. \A y : y \in Items(w) <=> \E a, b : Stretch(t, n, a, b) /\ y = SubSeq(t, a, b)
  BY <1>2, ItemsOfBeginning
<1>6. \A y : y \in Items(u) <=> y \in Items(w) \/ y = x
  <2> HIDE DEF u, w
  <2> QED BY <1>3, <1>4, <1>5
<1> HIDE DEF u, w, x
<1>7. Items(u) = Items(w) \cup {x}
  BY <1>6
<1> QED BY <1>7 DEF u, w, x

\* A sequence of figures is made of characters other than separators, and a number
\* if there is one at all.
LEMMA FiguresFacts ==
  ASSUME NEW s \in Seq(Digit), s # << >>
  PROVE  /\ s \in Seq(Char) /\ Len(s) \in Nat \ {0} /\ IsNumber(s)
         /\ \A k \in 1 .. Len(s) : s[k] # Comma /\ s[k] # "*"
<1>1. /\ Len(s) \in Nat /\ DOMAIN s = 1 .. Len(s)
      /\ \A k \in 1 .. Len(s) : s[k] \in Digit
  BY LenProperties, ElementOfSeq
<1>2. \A c \in Digit : c \in Char /\ c # Comma /\ c # "*"
  BY FigureFacts, SeparatorFacts
<1>3. s \in Seq(Char)
  <2>1. Digit \subseteq Char
    BY <1>2
  <2> QED BY <2>1
<1>4. Len(s) # 0
  BY EmptySeq
<1>5. IsNumber(s)
  BY <1>1 DEF IsNumber
<1> QED BY <1>1, <1>2, <1>3, <1>4, <1>5

\* A figure stands for its value, ...
LEMMA OneFigure ==
  ASSUME NEW n \in 0 .. 9
  PROVE  /\ <<Figure[n + 1]>> \in Seq(Digit) /\ <<Figure[n + 1]>> # << >>
         /\ Decimal(<<Figure[n + 1]>>) = n
<1> DEFINE c == Figure[n + 1]
<1>1. c \in Digit /\ ValueOf(c) = n
  BY FigureFacts
<1> HIDE DEF c
<1> DEFINE s == <<c>>
<1>2. s \in Seq(Digit) /\ Len(s) = 1 /\ s[1] = c /\ s # << >>
  BY <1>1
<1> DEFINE d == [k \in 1 .. Len(s) |-> ValueOf(s[k])]
<1>4. d \in Seq(Nat) /\ Len(d) = 1 /\ d[1] = n
  BY <1>1, <1>2
<1>5. Decimal(s) = Positional(10, d)
  BY DEF Decimal
<1> HIDE DEF d, s
<1>5a. PICK upto \in [0 .. Len(d) -> Nat] : Sums(upto, 10, d)
  BY <1>4, PositionalFacts
<1>6. /\ Positional(10, d) = upto[Len(d)]
      /\ upto[0] = 0
      /\ \A k \in 1 .. Len(d) : upto[k] = 10 * upto[k - 1] + d[k]
  BY <1>5a DEF Sums
<1>7. upto[1] = n
  <2>1. 1 \in 1 .. Len(d) /\ 1 - 1 = 0
    BY <1>4
  <2>2. upto[1] = 10 * upto[1 - 1] + d[1]
    BY <1>6, <2>1
  <2> QED BY <1>4, <1>6, <2>1, <2>2
<1>8. Decimal(s) = n
  <2>1. Positional(10, d) = upto[1]
    BY <1>4, <1>6
  <2> QED BY <1>5, <1>7, <2>1
<1> QED BY <1>2, <1>8 DEF s, c

\* ... and two for ten times the first and the second.
LEMMA TwoFigures ==
  ASSUME NEW m \in 0 .. 9, NEW n \in 0 .. 9
  PROVE  /\ <<Figure[m + 1], Figure[n + 1]>> \in Seq(Digit)
         /\ <<Figure[m + 1], Figure[n + 1]>> # << >>
         /\ Decimal(<<Figure[m + 1], Figure[n + 1]>>) = 10 * m + n
<1> DEFINE b == Figure[m + 1]
<1> DEFINE c == Figure[n + 1]
<1>1. b \in Digit /\ ValueOf(b) = m /\ c \in Digit /\ ValueOf(c) = n
  BY FigureFacts
<1> HIDE DEF b, c
<1> DEFINE s == <<b, c>>
<1>2. s \in Seq(Digit) /\ Len(s) = 2 /\ s[1] = b /\ s[2] = c /\ s # << >>
  BY <1>1
<1> DEFINE d == [k \in 1 .. Len(s) |-> ValueOf(s[k])]
<1>3. d = <<m, n>>
  <2>1. \A k \in 1 .. 2 : k = 1 \/ k = 2
    OBVIOUS
  <2>2. d = [k \in 1 .. 2 |-> ValueOf(s[k])]
    BY <1>2
  <2>3. d[1] = m /\ d[2] = n
    BY <1>1, <1>2
  <2>4. d \in Seq(Nat) /\ Len(d) = 2
    BY <1>1, <1>2, <2>1, <2>2
  <2> HIDE DEF d
  <2> QED BY <2>3, <2>4
<1>4. Decimal(s) = Positional(10, d)
  BY DEF Decimal
<1> HIDE DEF d, s
<1>5. d \in Seq(Nat) /\ Len(d) = 2 /\ d[1] = m /\ d[2] = n
  BY <1>3
<1>6. PICK upto \in [0 .. Len(d) -> Nat] : Sums(upto, 10, d)
  BY <1>5, PositionalFacts
<1>7. /\ Positional(10, d) = upto[Len(d)]
      /\ upto[0] = 0
      /\ \A k \in 1 .. Len(d) : upto[k] = 10 * upto[k - 1] + d[k]
  BY <1>6 DEF Sums
<1>8. 1 \in 1 .. Len(d) /\ 1 - 1 = 0 /\ 2 \in 1 .. Len(d) /\ 2 - 1 = 1
  BY <1>5
<1>9. upto[1] = m
  <2>1. upto[1] = 10 * upto[1 - 1] + d[1]
    BY <1>7, <1>8
  <2> QED BY <1>5, <1>7, <1>8, <2>1
<1>10. upto[2] = 10 * m + n
  <2>1. upto[2] = 10 * upto[2 - 1] + d[2]
    BY <1>7, <1>8
  <2> QED BY <1>5, <1>8, <1>9, <2>1
<1>11. Decimal(s) = 10 * m + n
  BY <1>4, <1>5, <1>7, <1>10
<1> QED BY <1>2, <1>11 DEF s, b, c

\* What is printed for a number is that number.
LEMMA PrintedFacts ==
  ASSUME NEW n \in 0 .. 63
  PROVE  Printed(n) \in Seq(Digit) /\ Printed(n) # << >> /\ Decimal(Printed(n)) = n
<1>1. CASE n <= 9
  <2>1. n \in 0 .. 9 /\ Printed(n) = <<Figure[n + 1]>>
    BY <1>1 DEF Printed
  <2> QED BY <2>1, OneFigure
<1>2. CASE ~ (n <= 9)
  <2> DEFINE q == n \div 10
  <2> DEFINE r == n % 10
  <2>1. q \in 0 .. 9 /\ r \in 0 .. 9 /\ 10 * q + r = n
    OBVIOUS
  <2>2. Printed(n) = <<Figure[q + 1], Figure[r + 1]>>
    BY <1>2 DEF Printed
  <2> HIDE DEF q, r
  <2> QED BY <2>1, <2>2, TwoFigures
<1> QED BY <1>1, <1>2

Dash == "-"

\* Two numbers with a "-" between them are a pair.
LEMMA PairOfNumbers ==
  ASSUME NEW lo \in Seq(Digit), NEW hi \in Seq(Digit), lo # << >>, hi # << >>
  PROVE  LET s == lo \o <<Dash>> \o hi
             d == Len(lo) + 1
         IN /\ s \in Seq(Char) /\ Len(s) \in Nat \ {0}
            /\ \A k \in 1 .. Len(s) : s[k] # Comma
            /\ s[1] # "*"
            /\ IsPair(s, d) /\ Lo(s, d) = lo /\ Hi(s, d) = hi
<1> DEFINE c == <<Dash>>
<1> DEFINE w == lo \o c
<1> DEFINE s == w \o hi
<1> DEFINE n == Len(lo)
<1>1. /\ lo \in Seq(Char) /\ n \in Nat \ {0} /\ IsNumber(lo)
      /\ hi \in Seq(Char) /\ Len(hi) \in Nat \ {0} /\ IsNumber(hi)
      /\ \A k \in 1 .. n : lo[k] # Comma /\ lo[k] # "*"
      /\ \A k \in 1 .. Len(hi) : hi[k] # Comma
  BY FiguresFacts
<1>2. c \in Seq(Char) /\ Len(c) = 1 /\ c[1] = Dash /\ Dash # Comma
  <2>1. Dash \in Char
    BY DEF Char, Dash
  <2>2. Dash # Comma
    BY SeparatorFacts DEF Dash
  <2> QED BY <2>1, <2>2
<1> HIDE DEF c, n
<1>3. /\ w \in Seq(Char) /\ Len(w) = n + 1
      /\ \A j \in 1 .. n : w[j] = lo[j]
      /\ w[n + 1] = Dash
  <2>1. /\ lo \o c \in Seq(Char) /\ Len(lo \o c) = Len(lo) + Len(c)
        /\ \A j \in 1 .. Len(lo) : (lo \o c)[j] = lo[j]
        /\ \A j \in 1 .. Len(c) : (lo \o c)[Len(lo) + j] = c[j]
    <3>1. lo \in Seq(Char) /\ c \in Seq(Char)
      BY <1>1, <1>2
    <3> QED BY <3>1, Joined
  <2>2. 1 \in 1 .. Len(c)
    BY <1>2
  <2>3. (lo \o c)[Len(lo) + 1] = c[1]
    BY <2>1, <2>2
  <2> QED BY <1>2, <2>1, <2>3 DEF n
<1> HIDE DEF w
<1>4. /\ s \in Seq(Char) /\ Len(s) = Len(w) + Len(hi)
      /\ \A j \in 1 .. Len(w) : s[j] = w[j]
      /\ \A j \in 1 .. Len(hi) : s[Len(w) + j] = hi[j]
  <2>1. w \in Seq(Char) /\ hi \in Seq(Char)
    BY <1>1, <1>3
  <2> QED BY <2>1, Joined
<1> HIDE DEF s
<1> DEFINE d == n + 1
<1>5. /\ Len(s) = d + Len(hi) /\ Len(s) \in Nat \ {0} /\ d \in 1 .. Len(s) /\ d - 1 = n
      /\ Len(s) - d = Len(hi) /\ d \in Nat
  BY <1>1, <1>3, <1>4
<1>6. \A j \in 1 .. n : s[j] = lo[j]
  <2>1. \A j \in 1 .. n : j \in 1 .. Len(w)
    BY <1>1, <1>3
  <2> QED BY <1>3, <1>4, <2>1
<1>7. s[d] = Dash
  <2>1. d \in 1 .. Len(w)
    BY <1>1, <1>3
  <2> QED BY <1>3, <1>4, <2>1
<1>8. \A j \in 1 .. Len(hi) : s[d + j] = hi[j]
  BY <1>3, <1>4
<1> HIDE DEF d
<1>9. Lo(s, d) = lo
  <2> DEFINE x == Lo(s, d)
  <2>1. x \in Seq(Char) /\ Len(x) = n /\ \A j \in 1 .. n : x[j] = s[j]
    BY <1>4, <1>5, PairFacts
  <2> HIDE DEF x
  <2>2. Len(lo) = n
    BY DEF n
  <2>3. \A j \in 1 .. Len(x) : x[j] = lo[j]
    BY <1>6, <2>1
  <2>4. x = lo
    BY <1>1, <2>1, <2>2, <2>3, SeqEqual
  <2> QED BY <2>4 DEF x
<1>10. Hi(s, d) = hi
  <2> DEFINE x == Hi(s, d)
  <2>1. x \in Seq(Char) /\ Len(x) = Len(hi) /\ \A j \in 1 .. Len(hi) : x[j] = s[d + j]
    <3>1. /\ Hi(s, d) \in Seq(Char) /\ Len(Hi(s, d)) = Len(s) - d
          /\ \A j \in 1 .. Len(s) - d : Hi(s, d)[j] = s[d + j]
      BY <1>4, <1>5, PairFacts
    <3> QED BY <1>5, <3>1
  <2> HIDE DEF x
  <2>2. \A j \in 1 .. Len(x) : x[j] = hi[j]
    BY <1>8, <2>1
  <2>3. x = hi
    BY <1>1, <2>1, <2>2, SeqEqual
  <2> QED BY <2>3 DEF x
<1>11. IsPair(s, d)
  BY <1>1, <1>5, <1>7, <1>9, <1>10 DEF IsPair, Dash
<1>12. ASSUME NEW k \in 1 .. Len(s) PROVE s[k] # Comma
  <2>1. CASE k < d
    <3>1. k \in 1 .. n
      BY <1>5, <2>1
    <3> QED BY <1>1, <1>6, <3>1
  <2>2. CASE k = d
    BY <1>2, <1>7, <2>2
  <2>3. CASE k > d
    <3> DEFINE j == k - d
    <3>1. j \in 1 .. Len(hi) /\ d + j = k
      BY <1>1, <1>5, <2>3
    <3> HIDE DEF j
    <3> QED BY <1>1, <1>8, <3>1
  <2> QED BY <1>5, <2>1, <2>2, <2>3
<1>13. s[1] # "*"
  <2>1. 1 \in 1 .. n
    BY <1>1
  <2> QED BY <1>1, <1>6, <2>1
<1> QED BY <1>4, <1>5, <1>9, <1>10, <1>11, <1>12, <1>13 DEF s, w, c, d, n

\* A range from a to b as an item.
RangeText(a, b) == IF a = b THEN Printed(a) ELSE Printed(a) \o <<"-">> \o Printed(b)

\* It names what it should.
LEMMA RangeTextFacts ==
  ASSUME NEW a \in 0 .. FieldMax, NEW b \in a .. FieldMax
  PROVE  /\ RangeText(a, b) \in Seq(Char) /\ RangeText(a, b) # << >>
         /\ Len(RangeText(a, b)) \in Nat \ {0}
         /\ RangeText(a, b)[1] # "*"
         /\ \A k \in 1 .. Len(RangeText(a, b)) : RangeText(a, b)[k] # Comma
         /\ Named(RangeText(a, b)) = a .. b
<1>1. a \in 0 .. 63 /\ b \in 0 .. 63 /\ a <= b /\ b <= FieldMax
  BY FieldAssumption
<1> DEFINE lo == Printed(a)
<1> DEFINE hi == Printed(b)
<1>2. /\ lo \in Seq(Digit) /\ lo # << >> /\ Decimal(lo) = a
      /\ hi \in Seq(Digit) /\ hi # << >> /\ Decimal(hi) = b
  BY <1>1, PrintedFacts
<1>3. CASE a = b
  <2>1. RangeText(a, b) = lo
    BY <1>3 DEF RangeText
  <2> HIDE DEF lo
  <2>2. /\ lo \in Seq(Char) /\ Len(lo) \in Nat \ {0} /\ IsNumber(lo)
        /\ \A k \in 1 .. Len(lo) : lo[k] # Comma /\ lo[k] # "*"
    BY <1>2, FiguresFacts
  <2>3. Named(lo) = a .. b
    BY <1>1, <1>2, <1>3, <2>2, NamedNumber
  <2>4. 1 \in 1 .. Len(lo)
    BY <2>2
  <2> QED BY <1>2, <2>1, <2>2, <2>3, <2>4
<1>4. CASE a # b
  <2> DEFINE s == lo \o <<Dash>> \o hi
  <2> DEFINE d == Len(lo) + 1
  <2>1. RangeText(a, b) = s
    BY <1>4 DEF RangeText, Dash
  <2> HIDE DEF lo, hi
  <2>2. /\ s \in Seq(Char) /\ Len(s) \in Nat \ {0}
        /\ \A k \in 1 .. Len(s) : s[k] # Comma
        /\ s[1] # "*"
        /\ IsPair(s, d) /\ Lo(s, d) = lo /\ Hi(s, d) = hi
    BY <1>2, PairOfNumbers
  <2> HIDE DEF s, d
  <2>3. Named(s) = a .. b
    BY <1>1, <1>2, <2>2, NamedPair
  <2>4. s # << >>
    <3>1. Len(<< >>) = 0
      OBVIOUS
    <3> QED BY <2>2, <3>1
  <2> QED BY <2>1, <2>2, <2>3, <2>4
<1> QED BY <1>3, <1>4

\* t is a text that shows the values g, those of some ranges.
Shows(t, g) == IF g = {} THEN t = << >>
               ELSE /\ t \in Seq(Char) /\ Len(t) \in Nat \ {0} /\ t[1] # "*"
                    /\ Denoted(t) = g

\* The first range, ...
LEMMA ShowsOne ==
  ASSUME NEW a \in 0 .. FieldMax, NEW b \in a .. FieldMax
  PROVE  Shows(RangeText(a, b), a .. b)
<1> DEFINE t == RangeText(a, b)
<1>1. /\ t \in Seq(Char) /\ Len(t) \in Nat \ {0} /\ t[1] # "*" /\ Named(t) = a .. b
      /\ \A k \in 1 .. Len(t) : t[k] # Comma
  BY RangeTextFacts
<1> HIDE DEF t
<1>2. Items(t) = {t}
  BY <1>1, OneItem
<1>3. t # <<"*">>
  <2>1. <<"*">>[1] = "*"
    OBVIOUS
  <2> QED BY <1>1, <2>1
<1>4. Denoted(t) = a .. b
  BY <1>1, <1>2, <1>3 DEF Denoted
<1>5. a .. b # {}
  <2>1. FieldMax \in Nat
    BY FieldAssumption
  <2>2. a \in a .. b
    BY <2>1
  <2> QED BY <2>2
<1>6. Shows(t, a .. b)
  BY <1>1, <1>4, <1>5 DEF Shows
<1> QED BY <1>6 DEF t

\* ... and another one behind a comma.
LEMMA ShowsMore ==
  ASSUME NEW t, NEW g, g # {}, Shows(t, g),
         NEW a \in 0 .. FieldMax, NEW b \in a .. FieldMax
  PROVE  Shows(t \o <<",">> \o RangeText(a, b), g \cup (a .. b))
<1> DEFINE item == RangeText(a, b)
<1> DEFINE n == Len(t)
<1> DEFINE w == t \o <<",">>
<1> DEFINE u == w \o item
<1>1. t \in Seq(Char) /\ n \in Nat \ {0} /\ t[1] # "*" /\ Denoted(t) = g
  BY DEF Shows
<1>2. /\ item \in Seq(Char) /\ Len(item) \in Nat \ {0} /\ Named(item) = a .. b
      /\ \A k \in 1 .. Len(item) : item[k] # Comma
  BY RangeTextFacts
<1>3. /\ w \in Seq(Char) /\ Len(w) = n + 1 /\ w[n + 1] = Comma
      /\ \A j \in 1 .. n : w[j] = t[j]
  <2> DEFINE c == <<Comma>>
  <2>1. Comma \in Char
    BY DEF Char, Comma
  <2>2. c \in Seq(Char) /\ Len(c) = 1 /\ c[1] = Comma
    BY <2>1
  <2>3. t \in Seq(Char) /\ c \in Seq(Char)
    BY <1>1, <2>2
  <2>4. w = t \o c
    BY DEF Comma
  <2> HIDE DEF c, w
  <2>5. /\ t \o c \in Seq(Char) /\ Len(t \o c) = Len(t) + Len(c)
        /\ \A j \in 1 .. Len(t) : (t \o c)[j] = t[j]
        /\ \A j \in 1 .. Len(c) : (t \o c)[Len(t) + j] = c[j]
    BY <2>3, Joined
  <2>6. 1 \in 1 .. Len(c)
    BY <2>2
  <2>7. (t \o c)[Len(t) + 1] = c[1]
    BY <2>5, <2>6
  <2> QED BY <2>2, <2>4, <2>5, <2>7
<1> HIDE DEF w, item, n
<1>4. /\ u \in Seq(Char) /\ Len(u) = Len(w) + Len(item)
      /\ \A j \in 1 .. Len(w) : u[j] = w[j]
      /\ \A j \in 1 .. Len(item) : u[Len(w) + j] = item[j]
  <2>1. w \in Seq(Char) /\ item \in Seq(Char)
    BY <1>2, <1>3
  <2> QED BY <2>1, Joined
<1> DEFINE r == Len(u)
<1> HIDE DEF u
<1>5. /\ r = n + 1 + Len(item) /\ r \in Nat /\ n \in 1 .. r /\ r \in n + 1 .. r
      /\ n \in 0 .. r /\ n + 1 \in 1 .. n + 1 /\ n + 1 \in 0 .. r /\ r - (n + 1) = Len(item)
      /\ n + 1 + 1 = n + 2 /\ 1 \in 1 .. n
  BY <1>1, <1>2, <1>3, <1>4
<1>6. \A j \in 1 .. n : u[j] = t[j]
  <2>1. \A j \in 1 .. n : j \in 1 .. n + 1
    BY <1>1
  <2> QED BY <1>3, <1>4, <2>1
<1>7. u[n + 1] = Comma
  BY <1>3, <1>4, <1>5
<1>8. \A j \in 1 .. Len(item) : u[n + 1 + j] = item[j]
  BY <1>3, <1>4
<1>9. \A k \in n + 2 .. r : u[k] # Comma
  <2>1. ASSUME NEW k \in n + 2 .. r PROVE u[k] # Comma
    <3> DEFINE j == k - (n + 1)
    <3>1. j \in 1 .. Len(item) /\ n + 1 + j = k
      BY <1>1, <1>2, <1>5
    <3> HIDE DEF j
    <3>2. u[n + 1 + j] = item[j] /\ item[j] # Comma
      BY <1>2, <1>8, <3>1
    <3> QED BY <3>1, <3>2
  <2> QED BY <2>1
<1>10. SubSeq(u, 1, n) = t
  <2> DEFINE x == SubSeq(u, 1, n)
  <2>1. x \in Seq(Char) /\ Len(x) = n /\ \A j \in 1 .. n : x[j] = u[j]
    BY <1>4, <1>5, Beginning
  <2> HIDE DEF x
  <2>2. Len(t) = n
    BY DEF n
  <2>3. x = t
    <3>1. \A j \in 1 .. Len(x) : x[j] = t[j]
      BY <1>6, <2>1
    <3> QED BY <1>1, <2>1, <2>2, <3>1, SeqEqual
  <2> QED BY <2>3 DEF x
<1>11. SubSeq(u, n + 2, r) = item
  <2> DEFINE x == SubSeq(u, n + 1 + 1, Len(u))
  <2>1. /\ x \in Seq(Char) /\ Len(x) = Len(u) - (n + 1)
        /\ \A j \in 1 .. Len(u) - (n + 1) : x[j] = u[n + 1 + j]
    BY <1>4, <1>5, Remainder
  <2> HIDE DEF x
  <2>2. Len(x) = Len(item) /\ \A j \in 1 .. Len(x) : x[j] = item[j]
    BY <1>5, <1>8, <2>1
  <2>3. x = item
    BY <1>2, <2>1, <2>2, SeqEqual
  <2> QED BY <1>5, <2>3 DEF x
<1>12. SubSeq(u, 1, r) = u
  BY <1>4, SubSeqFull
<1>13. Items(u) = Items(t) \cup {item}
  <2>1. Items(SubSeq(u, 1, r)) = Items(SubSeq(u, 1, n)) \cup {SubSeq(u, n + 2, r)}
    <3> HIDE DEF r
    <3>1. r = Len(u)
      BY DEF r
    <3>2. n \in 1 .. Len(u) /\ r \in n + 1 .. Len(u)
      BY <1>5, <3>1
    <3>3. u \in Seq(Char)
      BY <1>4
    <3> QED BY <1>7, <1>9, <3>2, <3>3, OneItemMore
  <2> QED BY <1>10, <1>11, <1>12, <2>1
<1>14. u[1] # "*" /\ u # <<"*">> /\ t # <<"*">>
  <2>1. <<"*">>[1] = "*"
    OBVIOUS
  <2>2. u[1] = t[1]
    BY <1>5, <1>6
  <2> QED BY <1>1, <2>1, <2>2
<1>15. Denoted(u) = Denoted(t) \cup Named(item)
  BY <1>13, <1>14 DEF Denoted
<1>16. Len(u) \in Nat \ {0}
  BY <1>5
<1>17. Shows(u, g \cup (a .. b))
  <2>1. g \cup (a .. b) # {}
    OBVIOUS
  <2> QED BY <1>1, <1>2, <1>4, <1>14, <1>15, <1>16, <2>1 DEF Shows
<1> QED BY <1>17 DEF u, w, item

\* The loop: after n turns the text shows the ranges that ended before, and the one that
\* did not starts at acc.start; or it is "*" and the loop is over.
Acc == [start : -1 .. FieldMax, text : Seq(Char)]
Printing(f, n, acc) ==
  \/ acc.start = -1 /\ Shows(acc.text, f \cap (0 .. n - 1))
  \/ /\ acc.start \in 0 .. n - 1 /\ acc.start .. n - 1 \subseteq f
     /\ Shows(acc.text, f \cap (0 .. acc.start - 1))
  \/ acc.start = -1 /\ acc.text = <<"*">> /\ f = 0 .. FieldMax /\ n = FieldMax + 2

\* The text shows the values up to n when no run is open behind it, ...
LEMMA BetweenRuns ==
  ASSUME NEW f, NEW n \in Nat, NEW acc, acc.start = -1, Shows(acc.text, f \cap (0 .. n))
  PROVE  Printing(f, n + 1, acc)
<1>1. n + 1 - 1 = n
  OBVIOUS
<1>2. Shows(acc.text, f \cap (0 .. n + 1 - 1))
  BY <1>1
<1> QED BY <1>2 DEF Printing

\* ... and those below the run's beginning when one is.
LEMMA InARun ==
  ASSUME NEW f, NEW n \in Nat, NEW acc, acc.start \in 0 .. n, acc.start .. n \subseteq f,
         Shows(acc.text, f \cap (0 .. acc.start - 1))
  PROVE  Printing(f, n + 1, acc)
<1>1. n + 1 - 1 = n
  OBVIOUS
<1>2. acc.start \in 0 .. n + 1 - 1 /\ acc.start .. n + 1 - 1 \subseteq f
  BY <1>1
<1> QED BY <1>2 DEF Printing

\* A turn of the printer's loop keeps the text equal to the values below it, and the run
\* it is in open (timing_string_from_field).
LEMMA TurnKeeps ==
  ASSUME NEW f \in SUBSET (0 .. FieldMax), NEW n \in 0 .. FieldMax + 1, NEW acc \in Acc,
         Printing(f, n, acc)
  PROVE  Turn(f, acc, n) \in Acc /\ Printing(f, n + 1, Turn(f, acc, n))
<1> DEFINE new == Turn(f, acc, n)
<1>1. FieldMax \in Nat /\ n \in Nat /\ n # FieldMax + 2
  BY FieldAssumption
<1>2. acc.start \in -1 .. FieldMax /\ acc.text \in Seq(Char)
  BY DEF Acc
<1>3. n \in f => n <= FieldMax
  BY <1>1
<1>4. CASE acc.start = -1
  <2>1. Shows(acc.text, f \cap (0 .. n - 1))
    BY <1>1, <1>4 DEF Printing
  <2>2. CASE n \in f
    <3>1. new = [acc EXCEPT !.start = n]
      BY <1>4, <2>2 DEF Turn
    <3>2. new \in Acc /\ new.start = n /\ new.text = acc.text
      BY <1>1, <1>3, <2>2, <3>1 DEF Acc
    <3>3. n \in 0 .. n /\ n .. n \subseteq f
      BY <1>1, <2>2
    <3> HIDE DEF new
    <3>4. Shows(new.text, f \cap (0 .. new.start - 1))
      BY <2>1, <3>2
    <3>5. new.start \in 0 .. n /\ new.start .. n \subseteq f
      BY <3>2, <3>3
    <3>6. Printing(f, n + 1, new)
      BY <1>1, <3>4, <3>5, InARun
    <3> QED BY <3>2, <3>6 DEF new
  <2>3. CASE n \notin f
    <3>1. new = acc
      BY <1>4, <2>3 DEF Turn
    <3>2. f \cap (0 .. n - 1) = f \cap (0 .. n)
      <4>1. \A x \in 0 .. n : x \in 0 .. n - 1 \/ x = n
        BY <1>1
      <4>2. 0 .. n - 1 \subseteq 0 .. n
        BY <1>1
      <4> QED BY <2>3, <4>1, <4>2
    <3> HIDE DEF new
    <3>3. Shows(acc.text, f \cap (0 .. n))
      BY <2>1, <3>2
    <3>4. Printing(f, n + 1, acc)
      BY <1>4, <1>1, <3>3, BetweenRuns
    <3> QED BY <3>1, <3>4 DEF new
  <2> QED BY <2>2, <2>3
<1>5. CASE acc.start # -1
  <2> DEFINE a == acc.start
  <2> DEFINE b == n - 1
  <2>1. /\ a \in 0 .. n - 1 /\ a .. n - 1 \subseteq f
        /\ Shows(acc.text, f \cap (0 .. a - 1))
    BY <1>5 DEF Printing
  <2>2. CASE n \in f
    <3>1. new = acc
      BY <1>3, <1>5, <2>2 DEF Turn
    <3>2. a \in 0 .. n /\ a .. n \subseteq f
      BY <1>1, <2>1, <2>2
    <3>3. Printing(f, n + 1, acc)
      BY <1>1, <2>1, <3>2, InARun
    <3> QED BY <3>1, <3>3
  <2>3. CASE n \notin f
    <3> DEFINE item == StringFromRange(a, b)
    <3> DEFINE sep == IF acc.text = << >> THEN << >> ELSE <<",">>
    <3> DEFINE t == acc.text \o sep \o item
    <3>1. new = [start |-> -1, text |-> t]
      BY <1>5, <2>3 DEF Turn
    <3>2. a \in 0 .. FieldMax /\ b \in a .. FieldMax /\ b = n - 1 /\ a .. b \subseteq f
      BY <1>1, <1>2, <2>1
    <3>3. f \cap (0 .. n) = (f \cap (0 .. a - 1)) \cup (a .. b)
      <4>1. \A k \in f : k \in 0 .. n <=> k \in 0 .. a - 1 \/ k \in a .. b
        BY <1>1, <2>1, <2>3
      <4>2. a .. b \subseteq 0 .. n
        BY <1>1, <2>1
      <4> QED BY <3>2, <4>1
    <3> DEFINE g == f \cap (0 .. a - 1)
    <3>4. CASE a = 0 /\ b = FieldMax
      <4>1. g = {}
        BY <3>4
      <4>2. acc.text = << >>
        BY <2>1, <4>1 DEF Shows
      <4>3. item = <<"*">>
        BY <3>4 DEF StringFromRange
      <4>4. <<"*">> \in Seq(Char)
        <5>1. "*" \in Char
          BY DEF Char
        <5> QED BY <5>1
      <4>5. t = <<"*">>
        <5>1. t = << >> \o << >> \o <<"*">>
          BY <4>2, <4>3
        <5>2. << >> \o << >> = << >> /\ << >> \o <<"*">> = <<"*">>
          BY <4>4, ConcatEmptySeq
        <5> QED BY <5>1, <5>2
      <4>6. f = 0 .. FieldMax /\ n + 1 = FieldMax + 2
        <5>1. 0 .. FieldMax \subseteq f
          BY <3>2, <3>4
        <5>2. n - 1 = FieldMax
          BY <3>4
        <5>3. f = 0 .. FieldMax
          BY <5>1
        <5>4. n + 1 = FieldMax + 2
          BY <1>1, <5>2
        <5> QED BY <5>3, <5>4
      <4> HIDE DEF t, a, b
      <4>7. new.start = -1 /\ new.text = <<"*">> /\ new \in Acc
        BY <1>1, <3>1, <4>4, <4>5 DEF Acc
      <4> HIDE DEF new
      <4>8. Printing(f, n + 1, new)
        BY <4>6, <4>7 DEF Printing
      <4> QED BY <4>7, <4>8 DEF new
    <3>5. CASE ~ (a = 0 /\ b = FieldMax)
      <4>1. item = RangeText(a, b)
        BY <3>5 DEF StringFromRange, RangeText
      <4>2. RangeText(a, b) \in Seq(Char)
        BY <3>2, RangeTextFacts
      <4>3. Shows(t, g \cup (a .. b))
        <5>1. CASE g = {}
          <6>1. acc.text = << >>
            BY <2>1, <5>1 DEF Shows
          <6>2. t = << >> \o << >> \o item
            BY <6>1
          <6> HIDE DEF item, t
          <6>3. t = item
            BY <4>1, <4>2, <6>2
          <6>4. Shows(RangeText(a, b), a .. b)
            BY <3>2, ShowsOne
          <6>5. g \cup (a .. b) = a .. b
            BY <5>1
          <6> QED BY <4>1, <6>3, <6>4, <6>5
        <5>2. CASE g # {}
          <6>1. acc.text # << >>
            <7>1. Len(acc.text) \in Nat \ {0}
              BY <2>1, <5>2 DEF Shows
            <7> QED BY <7>1, EmptySeq
          <6>2. t = acc.text \o <<",">> \o RangeText(a, b)
            BY <4>1, <6>1
          <6>3. Shows(acc.text \o <<",">> \o RangeText(a, b), g \cup (a .. b))
            <7> HIDE DEF a, b, g
            <7>1. Shows(acc.text, g)
              BY <2>1 DEF g, a
            <7> QED BY <3>2, <5>2, <7>1, ShowsMore
          <6> QED BY <6>2, <6>3
        <5> QED BY <5>1, <5>2
      <4> HIDE DEF t, a, b, g, item
      <4>4. g \cup (a .. b) # {}
        <5>1. a \in a .. b
          BY <3>2
        <5> QED BY <5>1
      <4>5. t \in Seq(Char)
        BY <4>3, <4>4 DEF Shows
      <4>6. new.start = -1 /\ new.text = t /\ new \in Acc
        BY <1>1, <3>1, <4>5 DEF Acc
      <4> HIDE DEF new
      <4>7. Shows(new.text, f \cap (0 .. n))
        BY <3>3, <4>3, <4>6 DEF g
      <4>8. Printing(f, n + 1, new)
        BY <1>1, <4>6, <4>7, BetweenRuns
      <4> QED BY <4>6, <4>8 DEF new
    <3> QED BY <3>4, <3>5
  <2> QED BY <2>2, <2>3
<1> QED BY <1>4, <1>5

\* The function the loop computes.
Printer(f, u) == u = [n \in 0 .. FieldMax + 2 |->
                        IF n = 0 THEN [start |-> -1, text |-> << >>] ELSE Turn(f, u[n - 1], n - 1)]

\* It exists: as long as the loop's invariant holds a turn can be taken.
LEMMA PrinterExists ==
  ASSUME NEW f \in SUBSET (0 .. FieldMax)
  PROVE  \E u : Printer(f, u)
<1> DEFINE m == FieldMax + 2
<1> DEFINE v == [start |-> -1, text |-> << >>]
<1> DEFINE turn(n, acc) == Turn(f, acc, n - 1)
<1> DEFINE step == [x \in (1 .. m) \X Acc |-> IF turn(x[1], x[2]) \in Acc THEN turn(x[1], x[2]) ELSE v]
<1>1. FieldMax \in Nat /\ m \in Nat
  BY FieldAssumption
<1>2. v \in Acc /\ Printing(f, 0, v)
  <2>1. v \in Acc
    BY <1>1 DEF Acc
  <2>2. f \cap (0 .. 0 - 1) = {}
    OBVIOUS
  <2> QED BY <2>1, <2>2 DEF Printing, Shows
<1> HIDE DEF v, turn
<1>3. step \in [(1 .. m) \X Acc -> Acc]
  <2> HIDE DEF m
  <2>1. \A x \in (1 .. m) \X Acc : (IF turn(x[1], x[2]) \in Acc THEN turn(x[1], x[2]) ELSE v) \in Acc
    BY <1>2
  <2> QED BY <2>1
<1>4. PICK g \in [0 .. m -> Acc] : Iterates(g, m, v, step)
  <2> HIDE DEF step, m
  <2> QED BY <1>1, <1>2, <1>3, Recursion
<1>5. g[0] = v /\ \A n \in 1 .. m : g[n] = step[<<n, g[n - 1]>>]
  BY <1>4 DEF Iterates
<1> DEFINE T == {n \in 0 .. m : Printing(f, n, g[n]) /\ (n > 0 => g[n] = turn(n, g[n - 1]))}
<1>6. 0 \in T
  <2>1. 0 \in 0 .. m /\ ~ (0 > 0)
    BY <1>1
  <2>2. Printing(f, 0, g[0])
    BY <1>2, <1>5
  <2> HIDE DEF m
  <2> QED BY <2>1, <2>2
<1>7. ASSUME NEW n \in 0 .. m - 1, n \in T PROVE n + 1 \in T
  <2>1. /\ n \in 0 .. FieldMax + 1 /\ n + 1 \in 1 .. m /\ n + 1 \in 0 .. m /\ n \in 0 .. m
        /\ n + 1 - 1 = n
    BY <1>1
  <2>2. Printing(f, n, g[n]) /\ g[n] \in Acc
    BY <1>7, <2>1
  <2>3. turn(n + 1, g[n]) = Turn(f, g[n], n)
    BY <2>1 DEF turn
  <2>4. turn(n + 1, g[n]) \in Acc /\ Printing(f, n + 1, turn(n + 1, g[n]))
    BY <2>1, <2>2, <2>3, TurnKeeps
  <2>5. g[n + 1] = step[<<n + 1, g[n]>>]
    <3> HIDE DEF step, m
    <3>1. g[n + 1] = step[<<n + 1, g[n + 1 - 1]>>]
      BY <1>5, <2>1
    <3> QED BY <2>1, <3>1
  <2>6. g[n + 1] = turn(n + 1, g[n])
    BY <2>1, <2>2, <2>4, <2>5
  <2> HIDE DEF step
  <2> QED BY <2>1, <2>4, <2>6
<1>8. 0 .. m \subseteq T
  <2> HIDE DEF T, m
  <2> QED BY <1>1, <1>6, <1>7, StepsUpTo
<1>9. ASSUME NEW n \in 0 .. m
      PROVE  g[n] = IF n = 0 THEN v ELSE turn(n, g[n - 1])
  <2>1. n \in T
    BY <1>8
  <2>2. n = 0 \/ n > 0
    BY <1>1
  <2> HIDE DEF step
  <2> QED BY <1>5, <2>1, <2>2
<1>10. g = [n \in 0 .. m |-> IF n = 0 THEN v ELSE turn(n, g[n - 1])]
  BY <1>9
<1>11. Printer(f, g)
  BY <1>10 DEF Printer, v, turn
<1> QED BY <1>11

\* For every field the printed text means its values.
THEOREM PrintedMeansField ==
  ASSUME NEW f \in SUBSET (0 .. FieldMax)
  PROVE  Denoted(StringFromField(f)) = f
<1> DEFINE m == FieldMax + 2
<1> DEFINE u == CHOOSE u : Printer(f, u)
<1>1. FieldMax \in Nat /\ m \in Nat /\ 0 \in 0 .. m /\ m \in 0 .. m
  BY FieldAssumption
<1>2. StringFromField(f) = u[m].text
  BY DEF StringFromField, Printer
<1>3. Printer(f, u)
  BY PrinterExists
<1> HIDE DEF u
<1>4. /\ u[0] = [start |-> -1, text |-> << >>]
      /\ \A n \in 1 .. m : u[n] = Turn(f, u[n - 1], n - 1)
  <2>1. \A n \in 0 .. m : u[n] = IF n = 0 THEN [start |-> -1, text |-> << >>]
                                 ELSE Turn(f, u[n - 1], n - 1)
    BY <1>3 DEF Printer
  <2>2. \A n \in 1 .. m : n \in 0 .. m /\ n # 0
    BY <1>1
  <2> HIDE DEF m
  <2> QED BY <1>1, <2>1, <2>2
<1> DEFINE T == {n \in 0 .. m : u[n] \in Acc /\ Printing(f, n, u[n])}
<1>5. 0 \in T
  <2>1. u[0].start = -1 /\ u[0].text = << >> /\ u[0] \in Acc
    BY <1>1, <1>4 DEF Acc
  <2>2. f \cap (0 .. 0 - 1) = {}
    OBVIOUS
  <2>3. Printing(f, 0, u[0])
    BY <2>1, <2>2 DEF Printing, Shows
  <2> QED BY <1>1, <2>1, <2>3
<1>6. ASSUME NEW n \in 0 .. m - 1, n \in T PROVE n + 1 \in T
  <2>1. /\ n \in 0 .. FieldMax + 1 /\ n + 1 \in 1 .. m /\ n + 1 \in 0 .. m
        /\ n + 1 - 1 = n
    BY <1>1
  <2>2. Printing(f, n, u[n]) /\ u[n] \in Acc
    BY <1>6
  <2>3. u[n + 1] = Turn(f, u[n], n)
    <3>1. u[n + 1] = Turn(f, u[n + 1 - 1], n + 1 - 1)
      BY <1>4, <2>1
    <3> QED BY <2>1, <3>1
  <2>4. u[n + 1] \in Acc /\ Printing(f, n + 1, u[n + 1])
    BY <2>1, <2>2, <2>3, TurnKeeps
  <2> QED BY <2>1, <2>4
<1>7. m \in T
  <2> HIDE DEF T, m
  <2> QED BY <1>1, <1>5, <1>6, StepsUpTo
<1>8. Printing(f, m, u[m]) /\ u[m].text \in Seq(Char)
  BY <1>7 DEF Acc
<1> DEFINE t == u[m].text
<1>9. CASE Shows(t, f)
  <2>1. CASE f = {}
    <3>1. t = << >>
      BY <1>9, <2>1 DEF Shows
    <3> HIDE DEF t
    <3>2. << >> \in Seq(Char) /\ Len(<< >>) = 0
      BY EmptySeq
    <3>3. Items(<< >>) = {<< >>}
      <4>1. \A k \in 1 .. Len(<< >>) : (<< >>)[k] # Comma
        BY <3>2
      <4> QED BY <3>2, <4>1, OneItem
    <3>4. Named(<< >>) = {}
      <4> DEFINE e == << >>
      <4>1. 1 \notin 1 .. Len(e) /\ 1 \in 1 .. Len(e) + 1 /\ 0 \in 1 - 1 .. Len(e)
        BY <3>2
      <4>2. At(e, 1) = ""
        BY <3>2, <4>1, AtFacts
      <4>3. "" \notin Digit
        BY FigureFacts
      <4> HIDE DEF e
      <4>10. e \in Seq(Char)
        BY <3>2 DEF e
      <4>11. At(e, 1) \notin Digit
        BY <4>2, <4>3
      <4>4. RangeAt(e, 1).read = -1
        BY <4>1, <4>10, <4>11, RangeOfNone
      <4>12. At(e, 1) = NUL
        BY <4>2, SeparatorFacts DEF NUL
      <4>13. 0 + 1 = 1
        OBVIOUS
      <4>5. At(e, 0 + 1) \in {NUL, Comma}
        BY <4>12, <4>13
      <4>6. SubSeq(e, 1, 0) = e
        <5>1. Len(e) = 0
          BY <3>2 DEF e
        <5>2. SubSeq(e, 1, Len(e)) = e
          BY <4>10, SubSeqFull
        <5> QED BY <5>1, <5>2
      <4>8. Named(SubSeq(e, 1, 0)) = {}
        BY <4>1, <4>4, <4>5, <4>10, NoRangeNoItem
      <4> QED BY <4>6, <4>8 DEF e
    <3>5. << >> # <<"*">>
      <4>1. Len(<<"*">>) = 1
        OBVIOUS
      <4> QED BY <3>2, <4>1
    <3>6. Denoted(<< >>) = {}
      BY <3>3, <3>4, <3>5 DEF Denoted
    <3> QED BY <1>2, <2>1, <3>1, <3>6 DEF t
  <2>2. CASE f # {}
    BY <1>2, <1>9, <2>2 DEF Shows
  <2> QED BY <2>1, <2>2
<1>10. CASE t = <<"*">> /\ f = 0 .. FieldMax
  BY <1>2, <1>10 DEF Denoted
<1>11. \/ Shows(t, f)
       \/ t = <<"*">> /\ f = 0 .. FieldMax
  <2>1. CASE u[m].start = -1 /\ Shows(t, f \cap (0 .. m - 1))
    <3>1. f \cap (0 .. m - 1) = f
      <4>1. 0 .. FieldMax \subseteq 0 .. m - 1
        BY <1>1
      <4> QED BY <4>1
    <3> QED BY <2>1, <3>1
  <2>2. CASE u[m].start \in 0 .. m - 1 /\ u[m].start .. m - 1 \subseteq f
    <3>1. m - 1 \in u[m].start .. m - 1
      <4> HIDE DEF u
      <4>1. \A a \in 0 .. m - 1 : m - 1 \in a .. m - 1
        BY <1>1
      <4> QED BY <2>2, <4>1
    <3>2. m - 1 \notin f
      <4>1. m - 1 \notin 0 .. FieldMax
        BY <1>1
      <4> QED BY <4>1
    <3> HIDE DEF m
    <3> QED BY <2>2, <3>1, <3>2
  <2> QED BY <1>8, <2>1, <2>2 DEF Printing
<1> QED BY <1>9, <1>10, <1>11

-----------------------------------------------------------------------------
(* Numbers as bytes and as bits. *)

Byte == 0 .. Base - 1
Field == SUBSET (0 .. FieldMax)

\* f[k] is n without its k lowest digits.
Shifts(f, base, n, m) == f[0] = n /\ \A k \in 1 .. m : f[k] = f[k - 1] \div base

\* There is such a function, ...
LEMMA ShiftsExist ==
  ASSUME NEW base \in Nat \ {0}, NEW n \in Nat, NEW m \in Nat
  PROVE  \E f \in [0 .. m -> Nat] : Shifts(f, base, n, m)
<1> DEFINE step == [x \in (1 .. m) \X Nat |-> x[2] \div base]
<1>1. \A y \in Nat : y \div base \in Nat
  OBVIOUS
<1>2. step \in [(1 .. m) \X Nat -> Nat]
  BY <1>1
<1>3. \A k \in 1 .. m, y \in Nat : step[<<k, y>>] = y \div base
  OBVIOUS
<1> HIDE DEF step
<1>4. PICK f \in [0 .. m -> Nat] : Iterates(f, m, n, step)
  BY <1>2, Recursion
<1>5. ASSUME NEW k \in 1 .. m PROVE f[k] = f[k - 1] \div base
  <2>1. k - 1 \in 0 .. m
    OBVIOUS
  <2>2. f[k - 1] \in Nat
    BY <2>1
  <2> QED BY <1>3, <1>4, <2>2 DEF Iterates
<1> QED BY <1>4, <1>5 DEF Iterates, Shifts

\* ... and Shifted is its value.
LEMMA ShiftedIs ==
  ASSUME NEW base \in Nat \ {0}, NEW n \in Nat, NEW m \in Nat,
         NEW f \in [0 .. m -> Nat], Shifts(f, base, n, m), NEW k \in 0 .. m
  PROVE  Shifted(base, n, k) = f[k]
<1> DEFINE Is(u) == u = [j \in 0 .. k |-> IF j = 0 THEN n ELSE u[j - 1] \div base]
<1> DEFINE u == CHOOSE u : Is(u)
<1>0. k \in Nat
  OBVIOUS
<1>1. Shifted(base, n, k) = u[k]
  BY DEF Shifted
<1> DEFINE w == [j \in 0 .. k |-> f[j]]
<1>2. f[0] = n /\ \A j \in 1 .. k : f[j] = f[j - 1] \div base
  BY <1>0 DEF Shifts
<1>3. Is(w)
  <2>1. ASSUME NEW j \in 0 .. k PROVE w[j] = IF j = 0 THEN n ELSE w[j - 1] \div base
    <3>1. j = 0 \/ (j \in 1 .. k /\ j - 1 \in 0 .. k)
      BY <1>0
    <3> QED BY <1>2, <3>1
  <2> QED BY <2>1
<1>4. Is(u)
  BY <1>3
<1> HIDE DEF u, w
<1>5. u[0] = n /\ \A j \in 1 .. k : u[j] = u[j - 1] \div base
  <2>1. \A j \in 0 .. k : u[j] = IF j = 0 THEN n ELSE u[j - 1] \div base
    BY <1>4
  <2>2. 0 \in 0 .. k /\ \A j \in 1 .. k : j \in 0 .. k /\ j # 0
    BY <1>0
  <2> HIDE DEF Is
  <2> QED BY <2>1, <2>2
<1> DEFINE T == {j \in 0 .. k : u[j] = f[j]}
<1>6. 0 \in T
  BY <1>0, <1>2, <1>5
<1>7. ASSUME NEW j \in 0 .. k - 1, j \in T PROVE j + 1 \in T
  <2>1. j + 1 \in 1 .. k /\ j + 1 \in 0 .. k /\ j + 1 - 1 = j
    BY <1>0
  <2>2. u[j + 1] = u[j] \div base /\ f[j + 1] = f[j] \div base
    BY <1>2, <1>5, <2>1
  <2> QED BY <1>7, <2>1, <2>2
<1> HIDE DEF T
<1>8. 0 .. k \subseteq T
  BY <1>0, <1>6, <1>7, StepsUpTo
<1>9. k \in T
  BY <1>0, <1>8
<1> QED BY <1>1, <1>9 DEF T

\* The digits are taken away one by one.
LEMMA ShiftedFacts ==
  ASSUME NEW base \in Nat \ {0}, NEW n \in Nat, NEW k \in Nat
  PROVE  /\ Shifted(base, n, k) \in Nat
         /\ Shifted(base, n, 0) = n
         /\ Shifted(base, n, k + 1) = Shifted(base, n, k) \div base
<1> DEFINE m == k + 1
<1>1. m \in Nat /\ 0 \in 0 .. m /\ k \in 0 .. m /\ m \in 0 .. m /\ m \in 1 .. m /\ m - 1 = k
  OBVIOUS
<1> HIDE DEF m
<1>2. PICK f \in [0 .. m -> Nat] : Shifts(f, base, n, m)
  BY <1>1, ShiftsExist
<1>3. Shifted(base, n, 0) = f[0] /\ Shifted(base, n, k) = f[k] /\ Shifted(base, n, m) = f[m]
  BY <1>1, <1>2, ShiftedIs
<1>4. f[0] = n /\ f[m] = f[k] \div base
  BY <1>1, <1>2 DEF Shifts
<1>5. f[k] \in Nat
  BY <1>1
<1> QED BY <1>3, <1>4, <1>5 DEF m

\* Of a smaller number less is left.
LEMMA ShiftedGrows ==
  ASSUME NEW base \in Nat \ {0}, NEW a \in Nat, NEW b \in Nat, a <= b, NEW k \in Nat
  PROVE  Shifted(base, a, k) <= Shifted(base, b, k)
<1>1. ASSUME NEW x \in Nat, NEW y \in Nat, x <= y PROVE x \div base <= y \div base
  <2> DEFINE q == x \div base
  <2> DEFINE r == y \div base
  <2>1. q \in Nat /\ r \in Nat /\ base * q <= x /\ y < base * r + base
    OBVIOUS
  <2> HIDE DEF q, r
  <2>2. SUFFICES ASSUME r + 1 <= q PROVE FALSE
    BY <2>1 DEF q, r
  <2>3. base * (r + 1) <= base * q
    BY <2>1, <2>2
  <2>4. base * (r + 1) = base * r + base
    BY <2>1
  <2>5. base * r \in Nat /\ base * q \in Nat
    BY <2>1
  <2> QED BY <1>1, <2>1, <2>3, <2>4, <2>5
<1> DEFINE T == {j \in Nat : Shifted(base, a, j) <= Shifted(base, b, j)}
<1>2. 0 \in T
  BY ShiftedFacts
<1>3. ASSUME NEW j \in Nat, j \in T PROVE j + 1 \in T
  <2>1. /\ Shifted(base, a, j) \in Nat /\ Shifted(base, b, j) \in Nat
        /\ Shifted(base, a, j + 1) = Shifted(base, a, j) \div base
        /\ Shifted(base, b, j + 1) = Shifted(base, b, j) \div base
    BY ShiftedFacts
  <2>2. j + 1 \in Nat
    OBVIOUS
  <2> QED BY <1>1, <1>3, <2>1, <2>2
<1> HIDE DEF T
<1>4. Nat \subseteq T
  BY <1>2, <1>3, StepByStep
<1>5. k \in T
  BY <1>4
<1> QED BY <1>5 DEF T

\* A number is its last digit and the others.
LEMMA Divided ==
  ASSUME NEW base \in Nat \ {0}, NEW n \in Nat
  PROVE  base * (n \div base) + (n % base) = n
<1> DEFINE h == n \div base
<1> DEFINE l == n % base
<1>1. base \in Nat /\ base > 0
  OBVIOUS
<1>2. h \in Nat /\ l \in 0 .. base - 1 /\ n = base * h + l
  BY <1>1
<1> QED BY <1>2

\* A number that fits is read as it was written.
LEMMA BigFacts ==
  ASSUME NEW n \in Nat
  PROVE  /\ Big(n) \in Seq(Byte) /\ Len(Big(n)) = Word
         /\ \A b \in Seq(Byte) :
              Fits(n) /\ Len(b) = Word /\ (\A k \in 1 .. Word : b[k] = Big(n)[k]) => Number(b) = n
<1>1. Base \in Nat \ {0} /\ Word \in Nat /\ \A x \in Nat : x % Base \in Byte
  BY WidthAssumption DEF Byte
<1>2. ASSUME NEW k \in 1 .. Word PROVE Shifted(Base, n, Word - k) \in Nat
  <2>1. Word - k \in Nat
    BY <1>1
  <2> QED BY <1>1, <2>1, ShiftedFacts
<1>3. /\ Big(n) \in Seq(Byte) /\ Len(Big(n)) = Word
      /\ \A k \in 1 .. Word : Big(n)[k] = Shifted(Base, n, Word - k) % Base
  <2>1. \A k \in 1 .. Word : Shifted(Base, n, Word - k) % Base \in Byte
    BY <1>1, <1>2
  <2> QED BY <1>1, <2>1 DEF Big
<1>4. ASSUME NEW b \in Seq(Byte), Fits(n), Len(b) = Word, \A k \in 1 .. Word : b[k] = Big(n)[k]
      PROVE  Number(b) = n
  <2>1. b \in Seq(Nat)
    <3>1. b = [k \in 1 .. Len(b) |-> b[k]] /\ Len(b) \in Nat
      BY LenProperties
    <3>2. \A k \in 1 .. Len(b) : b[k] \in Byte
      BY ElementOfSeq
    <3>3. \A x \in Byte : x \in Nat
      BY <1>1 DEF Byte
    <3> QED BY <3>1, <3>2, <3>3
  <2>2. PICK u \in [0 .. Len(b) -> Nat] : Sums(u, Base, b)
    BY <1>1, <2>1, PositionalFacts
  <2>3. /\ Number(b) = u[Word] /\ u[0] = 0
        /\ \A k \in 1 .. Word : u[k] = Base * u[k - 1] + b[k]
    BY <1>4, <2>2 DEF Sums, Number
  <2> DEFINE T == {k \in 0 .. Word : u[k] = Shifted(Base, n, Word - k)}
  <2>4. 0 \in T
    <3>1. 0 \in 0 .. Word /\ Word - 0 = Word
      BY <1>1
    <3> QED BY <1>4, <2>3, <3>1 DEF Fits
  <2>5. ASSUME NEW k \in 0 .. Word - 1, k \in T PROVE k + 1 \in T
    <3> DEFINE j == Word - (k + 1)
    <3> DEFINE s == Shifted(Base, n, j)
    <3>1. /\ k + 1 \in 1 .. Word /\ k + 1 \in 0 .. Word /\ k + 1 - 1 = k
          /\ j \in Nat /\ j + 1 = Word - k
      BY <1>1
    <3>2. u[k + 1] = Base * u[k] + b[k + 1]
      BY <2>3, <3>1
    <3> HIDE DEF j
    <3>3. s \in Nat /\ Shifted(Base, n, j + 1) = s \div Base
      BY <1>1, <3>1, ShiftedFacts
    <3>4. b[k + 1] = s % Base
      BY <1>3, <1>4, <3>1 DEF j
    <3>5. u[k] = s \div Base
      BY <2>5, <3>1, <3>3
    <3> HIDE DEF s
    <3>6. Base * (s \div Base) + (s % Base) = s
      BY <1>1, <3>3, Divided
    <3>7. u[k + 1] = s
      BY <3>2, <3>4, <3>5, <3>6
    <3> QED BY <3>1, <3>7 DEF s, j
  <2> HIDE DEF T
  <2>6. 0 .. Word \subseteq T
    BY <1>1, <2>4, <2>5, StepsUpTo
  <2>7. Word \in T
    BY <1>1, <2>6
  <2>8. Word - Word = 0 /\ Shifted(Base, n, 0) = n
    BY <1>1, ShiftedFacts
  <2> QED BY <2>3, <2>7, <2>8 DEF T
<1> QED BY <1>3, <1>4

\* A number of one byte is that byte.
LEMMA ByteFacts ==
  ASSUME NEW b \in Seq(Byte), Len(b) = 1
  PROVE  Number(b) = b[1] /\ Number(b) \in Byte
<1>1. Base \in Nat
  BY WidthAssumption
<1>2. b[1] \in Byte /\ b[1] \in Nat
  <2>1. 1 \in 1 .. Len(b)
    OBVIOUS
  <2>2. b[1] \in Byte
    BY <2>1, ElementOfSeq
  <2> QED BY <1>1, <2>2 DEF Byte
<1>3. b \in Seq(Nat)
  <2>1. b = [k \in 1 .. 1 |-> b[k]]
    BY LenProperties
  <2> QED BY <1>2, <2>1
<1>4. PICK upto \in [0 .. Len(b) -> Nat] : Sums(upto, Base, b)
  BY <1>1, <1>3, PositionalFacts
<1>5. Number(b) = upto[1] /\ upto[0] = 0 /\ \A k \in 1 .. 1 : upto[k] = Base * upto[k - 1] + b[k]
  BY <1>4 DEF Sums, Number
<1>6. upto[1] = Base * upto[0] + b[1]
  <2>1. upto[1] = Base * upto[1 - 1] + b[1]
    BY <1>5
  <2> QED BY <2>1
<1> QED BY <1>1, <1>2, <1>5, <1>6

\* The loop over the bits of a field: one for each value, the largest first.
BitAt(f, k) == IF FieldMax + 1 - k \in f THEN 1 ELSE 0
BitSums(f, u) == /\ u[0] = 0 /\ Bits(f) = u[FieldMax + 1]
                 /\ \A k \in 0 .. FieldMax + 1 : u[k] \in Nat
                 /\ \A k \in 1 .. FieldMax + 1 : u[k] = 2 * u[k - 1] + BitAt(f, k)

\* It is what Bits is the result of.
LEMMA BitSumsExist ==
  ASSUME NEW f
  PROVE  \E u : BitSums(f, u)
<1> DEFINE m == FieldMax + 1
<1> DEFINE d == [k \in 1 .. FieldMax + 1 |-> IF FieldMax + 1 - k \in f THEN 1 ELSE 0]
<1>1. FieldMax \in Nat /\ m \in Nat
  BY FieldAssumption
<1>2. d \in Seq(Nat) /\ Len(d) = m /\ \A k \in 1 .. m : d[k] = BitAt(f, k)
  BY <1>1 DEF BitAt
<1>3. Bits(f) = Positional(2, d)
  BY DEF Bits
<1> HIDE DEF d
<1>4. PICK u \in [0 .. Len(d) -> Nat] : Sums(u, 2, d)
  BY <1>2, PositionalFacts
<1>5. BitSums(f, u)
  BY <1>2, <1>3, <1>4 DEF Sums, BitSums
<1> QED BY <1>5

\* The bits of a field are those of its values, and fit into the bytes they are
\* written in (utils.c:259-263, :286-293).
THEOREM BitsFacts ==
  ASSUME NEW f \in SUBSET (0 .. FieldMax)
  PROVE  Bits(f) \in Nat /\ Fits(Bits(f)) /\ ValuesOf(Bits(f)) = f
<1> DEFINE m == FieldMax + 1
<1> DEFINE all == 0 .. FieldMax
<1>1. FieldMax \in Nat /\ m \in Nat
  BY FieldAssumption
<1>2. PICK u : BitSums(f, u)
  BY BitSumsExist
<1>3. PICK v : BitSums(all, v)
  BY BitSumsExist
<1>4. /\ u[0] = 0 /\ Bits(f) = u[m]
      /\ \A k \in 0 .. m : u[k] \in Nat
      /\ \A k \in 1 .. m : u[k] = 2 * u[k - 1] + BitAt(f, k)
  BY <1>2 DEF BitSums
<1>5. /\ v[0] = 0 /\ Bits(all) = v[m]
      /\ \A k \in 0 .. m : v[k] \in Nat
      /\ \A k \in 1 .. m : v[k] = 2 * v[k - 1] + BitAt(all, k)
  BY <1>3 DEF BitSums
<1>6. \A k : BitAt(f, k) \in {0, 1} /\ BitAt(all, k) \in {0, 1} /\ BitAt(f, k) <= BitAt(all, k)
  <2>1. \A x : x \in f => x \in all
    OBVIOUS
  <2> HIDE DEF all
  <2> QED BY <2>1 DEF BitAt
<1> HIDE DEF all, m
<1>7. Bits(f) \in Nat /\ Bits(all) \in Nat
  <2>1. m \in 0 .. m
    BY <1>1
  <2> QED BY <1>4, <1>5, <2>1
\* The bits of a field are at most those of all its values.
<1>8. Bits(f) <= Bits(all)
  <2> DEFINE T == {k \in 0 .. m : u[k] <= v[k]}
  <2>1. 0 \in T
    BY <1>1, <1>4, <1>5
  <2>2. ASSUME NEW k \in 0 .. m - 1, k \in T PROVE k + 1 \in T
    <3>1. k + 1 \in 1 .. m /\ k + 1 \in 0 .. m /\ k + 1 - 1 = k /\ k \in 0 .. m
      BY <1>1
    <3>2. u[k + 1] = 2 * u[k] + BitAt(f, k + 1) /\ v[k + 1] = 2 * v[k] + BitAt(all, k + 1)
      BY <1>4, <1>5, <3>1
    <3>3. u[k] \in Nat /\ v[k] \in Nat /\ u[k] <= v[k]
      BY <1>4, <1>5, <2>2, <3>1
    <3>4. /\ BitAt(f, k + 1) \in {0, 1} /\ BitAt(all, k + 1) \in {0, 1}
          /\ BitAt(f, k + 1) <= BitAt(all, k + 1)
      BY <1>6
    <3>5. u[k + 1] <= v[k + 1]
      BY <3>2, <3>3, <3>4
    <3> QED BY <3>1, <3>5
  <2> HIDE DEF T
  <2>3. 0 .. m \subseteq T
    BY <1>1, <2>1, <2>2, StepsUpTo
  <2>4. m \in T
    BY <1>1, <2>3
  <2> QED BY <1>4, <1>5, <2>4 DEF T
<1>9. Fits(Bits(f))
  <2>1. Base \in Nat \ {0} /\ Word \in Nat
    BY WidthAssumption
  <2>2. Shifted(Base, Bits(f), Word) \in Nat
    BY <1>7, <2>1, ShiftedFacts
  <2>3. Shifted(Base, Bits(f), Word) <= Shifted(Base, Bits(all), Word)
    BY <1>7, <1>8, <2>1, ShiftedGrows
  <2>4. Shifted(Base, Bits(all), Word) = 0
    BY FitAssumption DEF Fits, all
  <2> QED BY <2>2, <2>3, <2>4 DEF Fits
\* Without its k lowest digits the number is that of the m - k largest values.
<1>10. \A k \in 0 .. m : Shifted(2, Bits(f), k) = u[m - k]
  <2> DEFINE T == {k \in 0 .. m : Shifted(2, Bits(f), k) = u[m - k]}
  <2>1. 0 \in T
    <3>1. Shifted(2, Bits(f), 0) = Bits(f)
      BY <1>7, ShiftedFacts
    <3>2. m - 0 = m /\ 0 \in 0 .. m
      BY <1>1
    <3> QED BY <1>4, <3>1, <3>2
  <2>2. ASSUME NEW k \in 0 .. m - 1, k \in T PROVE k + 1 \in T
    <3> DEFINE j == m - (k + 1)
    <3>1. /\ k \in Nat /\ k + 1 \in 0 .. m /\ m - k \in 1 .. m /\ m - k - 1 = j /\ j \in 0 .. m
      BY <1>1
    <3>2. Shifted(2, Bits(f), k + 1) = Shifted(2, Bits(f), k) \div 2
      BY <1>7, <3>1, ShiftedFacts
    <3>3. u[m - k] = 2 * u[j] + BitAt(f, m - k)
      BY <1>4, <3>1
    <3>4. u[j] \in Nat /\ BitAt(f, m - k) \in {0, 1}
      BY <1>4, <1>6, <3>1
    <3>5. u[m - k] \div 2 = u[j]
      BY <3>3, <3>4
    <3>6. Shifted(2, Bits(f), k + 1) = u[j]
      BY <2>2, <3>2, <3>5
    <3> QED BY <3>1, <3>6
  <2> HIDE DEF T
  <2>3. 0 .. m \subseteq T
    BY <1>1, <2>1, <2>2, StepsUpTo
  <2> QED BY <2>3 DEF T
<1>11. ASSUME NEW n \in 0 .. FieldMax PROVE Shifted(2, Bits(f), n) % 2 = 1 <=> n \in f
  <2> DEFINE j == m - n
  <2>1. n \in 0 .. m /\ j \in 1 .. m /\ j - 1 \in 0 .. m /\ FieldMax + 1 - j = n
    BY <1>1 DEF m
  <2>2. Shifted(2, Bits(f), n) = u[j]
    BY <1>10, <2>1
  <2> HIDE DEF j
  <2>3. u[j] = 2 * u[j - 1] + BitAt(f, j) /\ u[j - 1] \in Nat
    BY <1>4, <2>1
  <2>4. u[j] % 2 = BitAt(f, j)
    BY <1>6, <2>3
  <2> QED BY <2>1, <2>2, <2>4 DEF BitAt
<1>12. ValuesOf(Bits(f)) = f
  BY <1>11 DEF ValuesOf
<1> QED BY <1>7, <1>9, <1>12

-----------------------------------------------------------------------------
(* Sequences put behind one another. *)

\* g[k] holds the first k of them.
Grows(g, s) == /\ g[0] = << >>
               /\ \A k \in 1 .. Len(s) : g[k] = g[k - 1] \o s[k]
               /\ FlattenSeq(s) = g[Len(s)]

\* The sequences are put behind one another one by one.
LEMMA FlattenGrows ==
  ASSUME NEW S, NEW s \in Seq(Seq(S))
  PROVE  \E g \in [0 .. Len(s) -> Seq(S)] : Grows(g, s)
<1> DEFINE m == Len(s)
<1> DEFINE B == Seq(S)
<1> DEFINE step == [x \in (1 .. m) \X B |-> x[2] \o s[x[1]]]
<1> DEFINE Is(h) == h = [k \in 1 .. m |-> IF k = 1 THEN s[k] ELSE h[k - 1] \o s[k]]
<1>1. m \in Nat /\ \A k \in 1 .. m : s[k] \in B
  BY LenProperties, ElementOfSeq
<1>2. << >> \in B /\ \A x \in B : << >> \o x = x
  BY EmptySeq, ConcatEmptySeq
<1>3. \A x, y \in B : x \o y \in B
  BY ConcatProperties
<1> HIDE DEF m, B
<1>4. step \in [(1 .. m) \X B -> B]
  <2>1. ASSUME NEW k \in 1 .. m, NEW y \in B PROVE y \o s[k] \in B
    BY <1>1, <1>3
  <2> QED BY <2>1
<1>5. PICK f \in [0 .. m -> B] : f[0] = << >> /\ \A k \in 1 .. m : f[k] = step[<<k, f[k - 1]>>]
  <2> HIDE DEF step, Is
  <2>1. \E f \in [0 .. m -> B] : Iterates(f, m, << >>, step)
    BY <1>1, <1>2, <1>4, Recursion
  <2> QED BY <2>1 DEF Iterates
<1>6. \A k \in 1 .. m : f[k - 1] \in B /\ f[k] = f[k - 1] \o s[k]
  <2> SUFFICES ASSUME NEW k \in 1 .. m PROVE f[k - 1] \in B /\ f[k] = f[k - 1] \o s[k]
    OBVIOUS
  <2>1. k - 1 \in 0 .. m
    BY <1>1
  <2>2. f[k - 1] \in B
    BY <2>1
  <2>3. f[k] = step[<<k, f[k - 1]>>]
    BY <1>5
  <2> QED BY <2>2, <2>3
<1> DEFINE h0 == [k \in 1 .. m |-> f[k]]
<1>7. Is(h0)
  <2>1. ASSUME NEW k \in 1 .. m
        PROVE  h0[k] = IF k = 1 THEN s[k] ELSE h0[k - 1] \o s[k]
    <3>1. CASE k = 1
      <4>1. f[1] = f[1 - 1] \o s[1]
        BY <1>6, <3>1
      <4>2. f[1] = s[1]
        <5> HIDE DEF step
        <5>1. f[1 - 1] = << >> /\ s[1] \in B
          BY <1>1, <1>5, <3>1
        <5> QED BY <1>2, <4>1, <5>1
      <4> QED BY <3>1, <4>2
    <3>2. CASE k # 1
      <4>1. k - 1 \in 1 .. m
        BY <1>1, <3>2
      <4> QED BY <1>6, <3>2, <4>1
    <3> QED BY <3>1, <3>2
  <2> QED BY <2>1
<1> DEFINE h == CHOOSE h : Is(h)
<1>8. Is(h)
  <2> HIDE DEF Is, h0
  <2> QED BY <1>7
<1> HIDE DEF h, h0
<1>9. /\ 1 \in 1 .. m => h[1] = s[1]
      /\ \A k \in 1 .. m : k # 1 => h[k] = h[k - 1] \o s[k]
  BY <1>8
<1> DEFINE g == [k \in 0 .. m |-> IF k = 0 THEN << >> ELSE h[k]]
<1>10. g[0] = << >> /\ \A k \in 1 .. m : g[k] = h[k]
  BY <1>1
<1>11. ASSUME NEW k \in 1 .. m PROVE g[k] = g[k - 1] \o s[k]
  <2>1. CASE k = 1
    <3>1. k - 1 = 0 /\ g[1] = s[1]
      BY <1>9, <1>10, <2>1
    <3> HIDE DEF g
    <3> QED BY <1>1, <1>2, <1>10, <2>1, <3>1
  <2>2. CASE k # 1
    <3>1. k - 1 \in 1 .. m
      BY <1>1, <2>2
    <3> HIDE DEF g, Is
    <3> QED BY <1>9, <1>10, <2>2, <3>1
  <2> QED BY <2>1, <2>2
<1>12. g \in [0 .. m -> B]
  <2> DEFINE T == {k \in 0 .. m : g[k] \in B}
  <2> HIDE DEF g
  <2>1. 0 \in T
    BY <1>1, <1>2, <1>10
  <2>2. ASSUME NEW k \in 0 .. m - 1, k \in T PROVE k + 1 \in T
    <3>1. k + 1 \in 1 .. m /\ k + 1 \in 0 .. m /\ k + 1 - 1 = k
      BY <1>1
    <3> DEFINE n == k + 1
    <3> HIDE DEF n
    <3>2. g[n] = g[n - 1] \o s[n]
      BY <1>11, <3>1 DEF n
    <3>3. s[n] \in B /\ g[n - 1] \in B
      BY <1>1, <2>2, <3>1 DEF n
    <3>4. g[n] \in B
      BY <1>3, <3>2, <3>3
    <3> QED BY <3>1, <3>4 DEF n
  <2>3. 0 .. m \subseteq T
    <3> HIDE DEF T
    <3> QED BY <1>1, <2>1, <2>2, StepsUpTo
  <2>4. \A k \in 0 .. m : g[k] \in B
    BY <2>3
  <2> QED BY <2>4 DEF g
<1>13. FlattenSeq(s) = g[m]
  <2>1. CASE m = 0
    <3>1. FlattenSeq(s) = s
      BY <2>1 DEF FlattenSeq, m
    <3>2. s = << >>
      BY <2>1, EmptySeq DEF m
    <3> HIDE DEF g
    <3> QED BY <1>10, <2>1, <3>1, <3>2
  <2>2. CASE m # 0
    <3>1. m \in 1 .. m
      BY <1>1, <2>2
    <3>2. FlattenSeq(s) = h[m]
      BY <2>2 DEF FlattenSeq, m, h
    <3> HIDE DEF g
    <3> QED BY <1>10, <3>1, <3>2
  <2> QED BY <2>1, <2>2
<1> HIDE DEF g
<1>14. Grows(g, s)
  BY <1>10, <1>11, <1>13 DEF Grows, m
<1> QED BY <1>12, <1>14 DEF m, B

\* Where each of them ends.
Ends(s) == LET e[k \in 0 .. Len(s)] == IF k = 0 THEN 0 ELSE e[k - 1] + Len(s[k])
           IN  e

\* The k-th piece of all begins behind e[k - 1] and is s[k].
Pieces(s, all, e) ==
  /\ Len(all) = e[Len(s)] /\ e[0] = 0
  /\ \A k \in 1 .. Len(s) :
       /\ e[k - 1] \in Nat /\ e[k] = e[k - 1] + Len(s[k]) /\ e[k] <= e[Len(s)]
       /\ \A j \in 1 .. Len(s[k]) : all[e[k - 1] + j] = s[k][j]

\* The joined sequence is made of the pieces.
LEMMA FlattenFacts ==
  ASSUME NEW S, NEW s \in Seq(Seq(S))
  PROVE  FlattenSeq(s) \in Seq(S) /\ Pieces(s, FlattenSeq(s), Ends(s))
<1> DEFINE m == Len(s)
<1> DEFINE B == Seq(S)
<1> DEFINE e == Ends(s)
<1>1. m \in Nat /\ \A k \in 1 .. m : s[k] \in B /\ Len(s[k]) \in Nat
  BY LenProperties, ElementOfSeq
<1>2. PICK g \in [0 .. m -> B] : Grows(g, s)
  BY FlattenGrows
<1>3. /\ g[0] = << >> /\ FlattenSeq(s) = g[m]
      /\ \A k \in 1 .. m : g[k] = g[k - 1] \o s[k]
  BY <1>2 DEF Grows
<1>4. /\ Len(<< >>) = 0
      /\ \A x, y \in B : Len(x \o y) = Len(x) + Len(y)
      /\ \A x \in B : Len(x) \in Nat
  BY ConcatProperties, LenProperties
<1> HIDE DEF m
<1> DEFINE Is(x) == x = [k \in 0 .. m |-> IF k = 0 THEN 0 ELSE x[k - 1] + Len(s[k])]
<1> DEFINE e0 == [k \in 0 .. m |-> Len(g[k])]
<1>5. Is(e0)
  <2>1. ASSUME NEW k \in 0 .. m
        PROVE  e0[k] = IF k = 0 THEN 0 ELSE e0[k - 1] + Len(s[k])
    <3>1. CASE k = 0
      BY <1>3, <1>4, <3>1
    <3>2. CASE k # 0
      <4>1. k \in 1 .. m /\ k - 1 \in 0 .. m
        BY <1>1, <3>2
      <4>2. g[k] = g[k - 1] \o s[k] /\ g[k - 1] \in B /\ s[k] \in B
        BY <1>1, <1>3, <4>1
      <4>3. Len(g[k]) = Len(g[k - 1]) + Len(s[k])
        BY <1>4, <4>2
      <4> QED BY <3>2, <4>1, <4>3
    <3> QED BY <3>1, <3>2
  <2> QED BY <2>1
<1>6. e = CHOOSE x : Is(x)
  BY DEF Ends, m
<1>7. Is(e)
  <2> HIDE DEF Is, e
  <2> QED BY <1>5, <1>6
<1> HIDE DEF e, e0
<1>8. e[0] = 0 /\ \A k \in 1 .. m : e[k] = e[k - 1] + Len(s[k])
  BY <1>1, <1>7
\* What was joined stays where it is.
<1> DEFINE Holds(k) == /\ Len(g[k]) = e[k]
                       /\ \A l \in 1 .. k :
                            /\ e[l - 1] \in Nat /\ e[l] <= e[k]
                            /\ \A j \in 1 .. Len(s[l]) : g[k][e[l - 1] + j] = s[l][j]
<1> DEFINE T == {k \in 0 .. m : Holds(k)}
<1>9. 0 \in T
  <2>1. 1 .. 0 = {}
    OBVIOUS
  <2> QED BY <1>1, <1>3, <1>4, <1>8, <2>1
<1> HIDE DEF Is
<1>10. ASSUME NEW k \in 0 .. m - 1, k \in T PROVE k + 1 \in T
  <2> DEFINE n == k + 1
  <2>1. n \in 1 .. m /\ n \in 0 .. m /\ n - 1 = k /\ k \in 0 .. m /\ \A l \in 1 .. n : l \in 1 .. k \/ l = n
    BY <1>1
  <2> HIDE DEF n
  <2>2. g[n] = g[k] \o s[n] /\ g[k] \in B /\ s[n] \in B /\ Len(s[n]) \in Nat /\ e[n] = e[k] + Len(s[n])
    BY <1>1, <1>3, <1>8, <2>1
  <2>3. Holds(k)
    BY <1>10
  <2>4. Len(g[k]) = e[k] /\ e[k] \in Nat
    BY <1>4, <2>2, <2>3
  <2>5. /\ Len(g[n]) = e[n]
        /\ \A j \in 1 .. e[k] : g[n][j] = g[k][j]
        /\ \A j \in 1 .. Len(s[n]) : g[n][e[k] + j] = s[n][j]
    <3>1. /\ Len(g[k] \o s[n]) = Len(g[k]) + Len(s[n])
          /\ \A j \in 1 .. Len(g[k]) : (g[k] \o s[n])[j] = g[k][j]
          /\ \A j \in 1 .. Len(s[n]) : (g[k] \o s[n])[Len(g[k]) + j] = s[n][j]
      <4> DEFINE x == g[k]
      <4> DEFINE y == s[n]
      <4>1. x \in Seq(S) /\ y \in Seq(S)
        BY <2>2
      <4> HIDE DEF x, y
      <4>2. /\ Len(x \o y) = Len(x) + Len(y)
            /\ \A j \in 1 .. Len(x) : (x \o y)[j] = x[j]
            /\ \A j \in 1 .. Len(y) : (x \o y)[Len(x) + j] = y[j]
        BY <4>1, Joined
      <4> QED BY <4>2 DEF x, y
    <3> QED BY <2>2, <2>4, <3>1
  <2>6. ASSUME NEW l \in 1 .. n
        PROVE  /\ e[l - 1] \in Nat /\ e[l] <= e[n]
               /\ \A j \in 1 .. Len(s[l]) : g[n][e[l - 1] + j] = s[l][j]
    <3>1. CASE l = n
      <4>1. l - 1 = k
        BY <2>1, <3>1
      <4>2. e[l - 1] \in Nat /\ e[l] <= e[n]
        BY <2>2, <2>4, <3>1, <4>1
      <4> QED BY <2>5, <3>1, <4>1, <4>2
    <3>2. CASE l \in 1 .. k
      <4>1. e[l - 1] \in Nat /\ e[l] <= e[k] /\ \A j \in 1 .. Len(s[l]) : g[k][e[l - 1] + j] = s[l][j]
        BY <2>3, <3>2
      <4>2. l \in 1 .. m /\ Len(s[l]) \in Nat /\ e[l] = e[l - 1] + Len(s[l])
        BY <1>1, <1>8, <2>1, <3>2
      <4>3. e[l] <= e[n]
        <5> DEFINE a == e[l - 1]
        <5> DEFINE b == e[l]
        <5> DEFINE c == e[k]
        <5>1. a \in Nat /\ b = a + Len(s[l]) /\ b <= c /\ c \in Nat
          BY <2>4, <4>1, <4>2
        <5>2. e[n] = c + Len(s[n]) /\ Len(s[n]) \in Nat /\ Len(s[l]) \in Nat
          BY <2>2, <4>2
        <5> HIDE DEF a, b, c
        <5>3. b <= e[n]
          BY <5>1, <5>2
        <5> QED BY <5>3 DEF b
      <4>4. ASSUME NEW j \in 1 .. Len(s[l]) PROVE g[n][e[l - 1] + j] = s[l][j]
        <5>1. e[l - 1] + j \in 1 .. e[k]
          <6> DEFINE a == e[l - 1]
          <6> DEFINE b == e[l]
          <6> DEFINE c == Len(s[l])
          <6>1. a \in Nat /\ c \in Nat /\ b = a + c /\ b <= e[k] /\ e[k] \in Nat /\ j \in 1 .. c
            BY <2>4, <4>1, <4>2
          <6> HIDE DEF a, b, c
          <6>2. a + j \in 1 .. e[k]
            BY <6>1
          <6> QED BY <6>2 DEF a
        <5> QED BY <2>5, <4>1, <5>1
      <4> QED BY <4>1, <4>3, <4>4
    <3> QED BY <2>1, <3>1, <3>2
  <2>7. Holds(n)
    BY <2>5, <2>6
  <2> QED BY <2>1, <2>7 DEF n
<1>11. Holds(m)
  <2>1. m \in 0 .. m
    BY <1>1
  <2>2. 0 .. m \subseteq T
    <3> HIDE DEF T
    <3> QED BY <1>1, <1>9, <1>10, StepsUpTo
  <2> HIDE DEF Holds
  <2> QED BY <2>1, <2>2
<1>12. g[m] \in B
  BY <1>1
<1> QED BY <1>3, <1>8, <1>11, <1>12 DEF e, m, Pieces

-----------------------------------------------------------------------------
(* A message. *)

\* The number at o of m is v.
NumberAt(m, o, v) == \A k \in 1 .. Word : m[o + k] = Big(v)[k]

\* The room of k numbers, at most three.
Room(k) == IF k = 0 THEN 0 ELSE IF k = 1 THEN Word ELSE IF k = 2 THEN Word + Word
           ELSE Word + Word + Word

\* How long the front of a message is.
Before(l) == Room(Len(Header(l)))

HeaderOf(l) == [k \in DOMAIN Header(l) |-> Big(Header(l)[k])]
StringsOf(argv) == [k \in DOMAIN argv |-> WriteString(argv[k])]
MessageOf(l, f, argv) == FlattenSeq(HeaderOf(l)) \o Big(Bits(f)) \o WriteCommandline(argv)

\* A number has bytes.
LEMMA WordFacts ==
  Word \in Nat \ {0, 1}
BY WidthAssumption

\* A written number begins with its first byte.
LEMMA NumberAtStart ==
  ASSUME NEW v
  PROVE  NumberAt(Big(v), 0, v)
<1>1. \A k \in 1 .. Word : 0 + k = k
  BY WordFacts
<1>2. \A k \in 1 .. Word : Big(v)[0 + k] = Big(v)[k]
  BY <1>1
<1> QED BY <1>2 DEF NumberAt

\* Two sequences of bytes behind one another.
LEMMA JoinedBytes ==
  ASSUME NEW x \in Seq(Byte), NEW y \in Seq(Byte)
  PROVE  /\ x \o y \in Seq(Byte) /\ Len(x \o y) = Len(x) + Len(y)
         /\ \A j \in 1 .. Len(y) : (x \o y)[Len(x) + j] = y[j]
BY Joined

\* A number stays one when something is put behind it or before it.
LEMMA NumberStays ==
  ASSUME NEW x \in Seq(Byte), NEW y \in Seq(Byte), NEW o \in Nat, NEW v
  PROVE  /\ o + Word <= Len(x) /\ NumberAt(x, o, v) => NumberAt(x \o y, o, v)
         /\ o + Word <= Len(y) /\ NumberAt(y, o, v) => NumberAt(x \o y, Len(x) + o, v)
<1>1. Len(x) \in Nat /\ Len(y) \in Nat /\ Word \in Nat
  BY LenProperties, WordFacts
<1>2. /\ \A j \in 1 .. Len(x) : (x \o y)[j] = x[j]
      /\ \A j \in 1 .. Len(y) : (x \o y)[Len(x) + j] = y[j]
  BY Joined
<1>3. ASSUME o + Word <= Len(x), NumberAt(x, o, v) PROVE NumberAt(x \o y, o, v)
  <2>1. ASSUME NEW k \in 1 .. Word PROVE (x \o y)[o + k] = Big(v)[k]
    <3>1. o + k \in 1 .. Len(x)
      BY <1>1, <1>3
    <3>2. x[o + k] = Big(v)[k]
      BY <1>3 DEF NumberAt
    <3> QED BY <1>2, <3>1, <3>2
  <2> QED BY <2>1 DEF NumberAt
<1>4. ASSUME o + Word <= Len(y), NumberAt(y, o, v) PROVE NumberAt(x \o y, Len(x) + o, v)
  <2>1. ASSUME NEW k \in 1 .. Word PROVE (x \o y)[Len(x) + o + k] = Big(v)[k]
    <3>1. o + k \in 1 .. Len(y) /\ Len(x) + (o + k) = Len(x) + o + k
      BY <1>1, <1>4
    <3>2. y[o + k] = Big(v)[k]
      BY <1>4 DEF NumberAt
    <3>3. (x \o y)[Len(x) + (o + k)] = y[o + k]
      BY <1>2, <3>1
    <3> QED BY <3>1, <3>2, <3>3
  <2> QED BY <2>1 DEF NumberAt
<1> QED BY <1>3, <1>4

\* A string is written as its length and its bytes.
LEMMA StringFacts ==
  ASSUME NEW s \in Seq(Byte)
  PROVE  /\ WriteString(s) \in Seq(Byte) /\ Len(WriteString(s)) = Word + Len(s)
         /\ NumberAt(WriteString(s), 0, Len(s))
         /\ \A j \in 1 .. Len(s) : WriteString(s)[Word + j] = s[j]
<1> DEFINE b == Big(Len(s))
<1>1. Len(s) \in Nat
  BY LenProperties
<1>2. b \in Seq(Byte) /\ Len(b) = Word /\ NumberAt(b, 0, Len(s))
  BY <1>1, BigFacts, NumberAtStart
<1>3. WriteString(s) = b \o s
  BY DEF WriteString
<1> HIDE DEF b
<1>4. /\ b \o s \in Seq(Byte) /\ Len(b \o s) = Word + Len(s)
      /\ \A j \in 1 .. Len(s) : (b \o s)[Word + j] = s[j]
  <2>1. /\ b \o s \in Seq(Byte) /\ Len(b \o s) = Len(b) + Len(s)
        /\ \A j \in 1 .. Len(s) : (b \o s)[Len(b) + j] = s[j]
    BY <1>2, JoinedBytes
  <2> QED BY <1>2, <2>1
<1>5. NumberAt(b \o s, 0, Len(s))
  <2>1. 0 \in Nat /\ 0 + Word <= Len(b)
    BY <1>2, WordFacts
  <2> QED BY <1>2, <2>1, NumberStays
<1> QED BY <1>3, <1>4, <1>5

\* A command line that is given has lengths that fit into their numbers.
LEMMA ArgvFacts ==
  ASSUME NEW argv \in Argvs
  PROVE  /\ argv \in Seq(Seq(Byte)) /\ Len(argv) \in Nat /\ Fits(Len(argv))
         /\ DOMAIN argv = 1 .. Len(argv)
         /\ \A k \in 1 .. Len(argv) : /\ argv[k] \in Seq(Byte) /\ Len(argv[k]) \in Nat
                                      /\ Fits(Len(argv[k]))
<1>1. argv \in Seq(Seq(Byte)) /\ Fits(Len(argv)) /\ \A k \in DOMAIN argv : Fits(Len(argv[k]))
  BY ArgvAssumption DEF Byte
<1>2. Len(argv) \in Nat /\ DOMAIN argv = 1 .. Len(argv) /\ \A k \in 1 .. Len(argv) : argv[k] \in Seq(Byte)
  BY <1>1, LenProperties, ElementOfSeq
<1>3. \A k \in 1 .. Len(argv) : Len(argv[k]) \in Nat
  BY <1>2, LenProperties
<1> QED BY <1>1, <1>2, <1>3

\* The numbers in front of a task fit in two bytes, so in any width.
LEMMA SmallFits ==
  ASSUME NEW n \in 1 .. 3
  PROVE  n \in Nat /\ Fits(n)
<1>1. Base \in Nat \ {0, 1} /\ Word \in Nat \ {0, 1} /\ n \in Nat
  BY WidthAssumption
<1>2. \A k \in Nat : /\ Shifted(Base, n, k) \in Nat
                     /\ Shifted(Base, n, 0) = n
                     /\ Shifted(Base, n, k + 1) = Shifted(Base, n, k) \div Base
  BY <1>1, ShiftedFacts
<1>3. \A x \in 0 .. 3 : x \div Base \in 0 .. 1
  <2>1. SUFFICES ASSUME NEW x \in 0 .. 3 PROVE x \div Base \in 0 .. 1
    OBVIOUS
  <2> DEFINE q == x \div Base
  <2> DEFINE r == x % Base
  <2>2. q \in Nat /\ r \in Nat /\ x = Base * q + r
    BY <1>1
  <2> HIDE DEF q, r
  <2>3. ASSUME q >= 2 PROVE FALSE
    <3>1. Base * q >= 2 * q /\ Base * q \in Nat
      BY <1>1, <2>2
    <3> QED BY <2>2, <2>3, <3>1
  <2> QED BY <2>2, <2>3 DEF q
<1>4. \A x \in 0 .. 1 : x \div Base = 0
  BY <1>1
<1>5. Shifted(Base, n, 1) \in 0 .. 1
  <2>1. Shifted(Base, n, 0 + 1) = n \div Base
    BY <1>2
  <2> QED BY <1>3, <2>1
<1>6. Shifted(Base, n, 2) = 0
  <2>1. Shifted(Base, n, 1 + 1) = Shifted(Base, n, 1) \div Base
    BY <1>2
  <2> QED BY <1>4, <1>5, <2>1
<1> DEFINE T == {k \in Nat : k >= 2 => Shifted(Base, n, k) = 0}
<1>7. 0 \in T
  OBVIOUS
<1>8. ASSUME NEW k \in Nat, k \in T PROVE k + 1 \in T
  <2>1. CASE k >= 2
    <3>1. Shifted(Base, n, k + 1) = 0
      BY <1>2, <1>4, <1>8, <2>1
    <3> QED BY <3>1
  <2>2. CASE k = 1
    <3>1. k + 1 = 2
      BY <2>2
    <3> QED BY <1>6, <3>1
  <2>3. CASE k = 0
    BY <2>3
  <2> QED BY <2>1, <2>2, <2>3
<1> HIDE DEF T
<1>9. Word \in T
  BY <1>1, <1>7, <1>8, StepByStep
<1> QED BY <1>1, <1>9 DEF T, Fits

\* What precedes the task is one number, or three.
LEMMA HeaderNumbers ==
  ASSUME NEW l \in Legs
  PROVE  /\ Len(Header(l)) \in {1, 3} /\ DOMAIN Header(l) = 1 .. Len(Header(l))
         /\ \A k \in 1 .. Len(Header(l)) : Header(l)[k] \in 1 .. 3
         /\ Header(l) \in Seq(Nat)
<1>1. CASE l = "request"
  BY <1>1 DEF Header
<1>2. CASE l = "file"
  BY <1>2 DEF Header
<1>3. CASE l = "reply"
  BY <1>3 DEF Header
<1> QED BY <1>1, <1>2, <1>3 DEF Legs

\* A number and the room it takes.
LEMMA RoomFacts ==
  ASSUME NEW k \in 0 .. 2
  PROVE  /\ Room(k) \in Nat /\ Room(k + 1) = Room(k) + Word /\ Room(k + 1) \in Nat
         /\ Room(0) = 0
<1>1. Word \in Nat /\ 0 + 1 = 1 /\ 1 + 1 = 2 /\ 2 + 1 = 3
  BY WordFacts
<1>2. Room(0) = 0 /\ Room(1) = Word /\ Room(2) = Word + Word /\ Room(3) = Word + Word + Word
  BY DEF Room
<1>3. CASE k = 0
  BY <1>1, <1>2, <1>3
<1>4. CASE k = 1
  BY <1>1, <1>2, <1>4
<1>5. CASE k = 2
  BY <1>1, <1>2, <1>5
<1> QED BY <1>3, <1>4, <1>5

\* The front of a message.
LEMMA HeaderFacts ==
  ASSUME NEW l \in Legs
  PROVE  /\ FlattenSeq(HeaderOf(l)) \in Seq(Byte)
         /\ Len(FlattenSeq(HeaderOf(l))) = Before(l)
         /\ Before(l) \in Nat /\ Before(l) >= Word
         /\ \A k \in 1 .. Len(Header(l)) :
              /\ Room(k - 1) \in Nat /\ Room(k - 1) + Word <= Before(l)
              /\ NumberAt(FlattenSeq(HeaderOf(l)), Room(k - 1), Header(l)[k])
<1> DEFINE h == HeaderOf(l)
<1> DEFINE m == Len(Header(l))
<1> DEFINE a == FlattenSeq(h)
<1> DEFINE e == Ends(h)
<1>1. m \in {1, 3} /\ DOMAIN Header(l) = 1 .. m /\ \A k \in 1 .. m : Header(l)[k] \in 1 .. 3
  BY HeaderNumbers
<1> HIDE DEF m
<1>2. \A k \in 1 .. m : Big(Header(l)[k]) \in Seq(Byte) /\ Len(Big(Header(l)[k])) = Word
  BY <1>1, SmallFits, BigFacts
<1>3. h = [k \in 1 .. m |-> Big(Header(l)[k])]
  BY <1>1 DEF HeaderOf
<1>4. h \in Seq(Seq(Byte)) /\ Len(h) = m /\ \A k \in 1 .. m : h[k] = Big(Header(l)[k]) /\ Len(h[k]) = Word
  <2>1. m \in Nat
    BY <1>1
  <2> DEFINE S == Seq(Byte)
  <2>2. \A k \in 1 .. m : Big(Header(l)[k]) \in S
    BY <1>2
  <2> HIDE DEF S, h
  <2>3. h \in Seq(S) /\ Len(h) = m
    BY <1>3, <2>1, <2>2
  <2> QED BY <1>2, <1>3, <2>3 DEF S
<1> HIDE DEF h
<1>5. a \in Seq(Byte) /\ Pieces(h, a, e)
  BY <1>4, FlattenFacts
<1> HIDE DEF a, e
<1>6. /\ Len(a) = e[m] /\ e[0] = 0
      /\ \A k \in 1 .. m : /\ e[k - 1] \in Nat /\ e[k] = e[k - 1] + Word /\ e[k] <= e[m]
                           /\ \A j \in 1 .. Word : a[e[k - 1] + j] = Big(Header(l)[k])[j]
  BY <1>4, <1>5 DEF Pieces
<1>7. \A k \in 1 .. m : NumberAt(a, e[k - 1], Header(l)[k])
  BY <1>6 DEF NumberAt
<1>8. Word \in Nat /\ Room(0) = 0 /\ Room(1) = Word /\ Room(2) = Word + Word /\ Room(3) = Word + Word + Word
  BY WordFacts DEF Room
<1>9. 1 \in 1 .. m /\ e[1] = Room(1)
  <2>1. 1 \in 1 .. m /\ 1 - 1 = 0
    BY <1>1
  <2>2. e[1] = e[1 - 1] + Word
    BY <1>6, <2>1
  <2>3. e[1] = 0 + Word
    BY <1>6, <2>1, <2>2
  <2> QED BY <1>8, <2>1, <2>3
<1>10. m = 3 => e[2] = Room(2) /\ e[3] = Room(3)
  <2> SUFFICES ASSUME m = 3 PROVE e[2] = Room(2) /\ e[3] = Room(3)
    OBVIOUS
  <2>1. 2 \in 1 .. m /\ 3 \in 1 .. m /\ 2 - 1 = 1 /\ 3 - 1 = 2
    OBVIOUS
  <2>2. e[2] = e[2 - 1] + Word /\ e[3] = e[3 - 1] + Word
    BY <1>6, <2>1
  <2>3. e[2] = e[1] + Word
    BY <2>1, <2>2
  <2>4. e[3] = e[2] + Word
    BY <2>1, <2>2
  <2> QED BY <1>8, <1>9, <2>3, <2>4
<1>11. \A k \in 1 .. m : e[k - 1] = Room(k - 1)
  <2>1. \A k \in 1 .. m : k = 1 \/ (m = 3 /\ k = 2) \/ (m = 3 /\ k = 3)
    BY <1>1
  <2>2. 1 - 1 = 0 /\ 2 - 1 = 1 /\ 3 - 1 = 2
    OBVIOUS
  <2>3. e[1 - 1] = Room(1 - 1)
    BY <1>6, <1>8, <2>2
  <2>4. m = 3 => e[2 - 1] = Room(2 - 1) /\ e[3 - 1] = Room(3 - 1)
    BY <1>9, <1>10, <2>2
  <2> QED BY <2>1, <2>3, <2>4
<1>12. e[m] = Room(m) /\ Room(m) \in Nat /\ Room(m) >= Word
  <2>1. e[m] = Room(m)
    BY <1>1, <1>9, <1>10
  <2>2. CASE m = 1
    BY <1>8, <2>1, <2>2
  <2>3. CASE m = 3
    BY <1>8, <2>1, <2>3
  <2> QED BY <1>1, <2>2, <2>3
<1>13. Before(l) = Room(m)
  BY DEF Before, m
<1>14. ASSUME NEW k \in 1 .. m
       PROVE  /\ Room(k - 1) \in Nat /\ Room(k - 1) + Word <= Before(l)
              /\ NumberAt(a, Room(k - 1), Header(l)[k])
  <2>1. e[k - 1] = Room(k - 1)
    BY <1>11
  <2>2. e[k - 1] \in Nat /\ e[k] = e[k - 1] + Word /\ e[k] <= e[m]
    BY <1>6
  <2>3. e[k - 1] + Word <= Before(l)
    BY <1>12, <1>13, <2>2
  <2>4. NumberAt(a, e[k - 1], Header(l)[k])
    BY <1>7
  <2> QED BY <2>1, <2>2, <2>3, <2>4
<1> QED BY <1>5, <1>6, <1>12, <1>13, <1>14 DEF a, h, m

\* The strings of a command line, one behind the other.
LEMMA StringsFacts ==
  ASSUME NEW argv \in Seq(Seq(Byte))
  PROVE  LET all == FlattenSeq(StringsOf(argv))
             p == Ends(StringsOf(argv))
         IN /\ all \in Seq(Byte) /\ Len(all) = p[Len(argv)] /\ p[0] = 0
            /\ \A k \in 1 .. Len(argv) :
                 /\ p[k - 1] \in Nat /\ p[k] = p[k - 1] + Word + Len(argv[k]) /\ p[k] <= p[Len(argv)]
                 /\ NumberAt(all, p[k - 1], Len(argv[k]))
                 /\ \A j \in 1 .. Len(argv[k]) : all[p[k - 1] + Word + j] = argv[k][j]
<1> DEFINE s == StringsOf(argv)
<1> DEFINE m == Len(argv)
<1> DEFINE all == FlattenSeq(s)
<1> DEFINE p == Ends(s)
<1>1. /\ m \in Nat /\ DOMAIN argv = 1 .. m
      /\ \A k \in 1 .. m : argv[k] \in Seq(Byte) /\ Len(argv[k]) \in Nat
  <2>1. m \in Nat /\ DOMAIN argv = 1 .. m /\ \A k \in 1 .. m : argv[k] \in Seq(Byte)
    BY LenProperties, ElementOfSeq
  <2>2. \A k \in 1 .. m : Len(argv[k]) \in Nat
    BY <2>1, LenProperties
  <2> QED BY <2>1, <2>2
<1> HIDE DEF m
<1>2. s = [k \in 1 .. m |-> WriteString(argv[k])]
  BY <1>1 DEF StringsOf
<1>3. \A k \in 1 .. m :
        /\ WriteString(argv[k]) \in Seq(Byte) /\ Len(WriteString(argv[k])) = Word + Len(argv[k])
        /\ NumberAt(WriteString(argv[k]), 0, Len(argv[k]))
        /\ \A j \in 1 .. Len(argv[k]) : WriteString(argv[k])[Word + j] = argv[k][j]
  BY <1>1, StringFacts
<1>4. s \in Seq(Seq(Byte)) /\ Len(s) = m
  <2> DEFINE S == Seq(Byte)
  <2>1. \A k \in 1 .. m : WriteString(argv[k]) \in S
    BY <1>3
  <2> HIDE DEF S, s
  <2>2. s \in Seq(S) /\ Len(s) = m
    BY <1>1, <1>2, <2>1
  <2> QED BY <2>2 DEF S
<1> HIDE DEF s
<1>5. /\ all \in Seq(Byte) /\ Len(all) = p[m] /\ p[0] = 0
      /\ \A k \in 1 .. m :
           /\ p[k - 1] \in Nat /\ p[k] = p[k - 1] + Len(s[k]) /\ p[k] <= p[m]
           /\ \A j \in 1 .. Len(s[k]) : all[p[k - 1] + j] = s[k][j]
  <2>1. s \in Seq(Seq(Byte)) /\ Len(s) = m
    BY <1>4
  <2>2. all \in Seq(Byte) /\ Pieces(s, all, p)
    BY <2>1, FlattenFacts
  <2> HIDE DEF all, p
  <2> QED BY <2>1, <2>2 DEF Pieces
<1> HIDE DEF all, p
<1>6. ASSUME NEW k \in 1 .. m
      PROVE  /\ p[k - 1] \in Nat /\ p[k] = p[k - 1] + Word + Len(argv[k]) /\ p[k] <= p[m]
             /\ NumberAt(all, p[k - 1], Len(argv[k]))
             /\ \A j \in 1 .. Len(argv[k]) : all[p[k - 1] + Word + j] = argv[k][j]
  <2> DEFINE x == WriteString(argv[k])
  <2> DEFINE n == Len(argv[k])
  <2> DEFINE a == p[k - 1]
  <2>1. /\ s[k] = x /\ Len(x) = Word + n /\ n \in Nat /\ NumberAt(x, 0, n) /\ Word \in Nat
        /\ \A j \in 1 .. n : x[Word + j] = argv[k][j]
    BY <1>1, <1>2, <1>3, WordFacts
  <2>2. a \in Nat /\ p[k] = a + Len(x) /\ p[k] <= p[m] /\ \A j \in 1 .. Len(x) : all[a + j] = x[j]
    BY <1>5, <2>1
  <2> HIDE DEF x, n, a
  <2>3. NumberAt(all, a, n)
    <3>1. ASSUME NEW j \in 1 .. Word PROVE all[a + j] = Big(n)[j]
      <4>1. j \in 1 .. Len(x) /\ 0 + j = j
        BY <2>1
      <4>2. x[0 + j] = Big(n)[j]
        BY <2>1 DEF NumberAt
      <4> QED BY <2>2, <4>1, <4>2
    <3> QED BY <3>1 DEF NumberAt
  <2>4. ASSUME NEW j \in 1 .. n PROVE all[a + Word + j] = argv[k][j]
    <3>1. Word + j \in 1 .. Len(x) /\ a + (Word + j) = a + Word + j
      BY <2>1, <2>2
    <3> QED BY <2>1, <2>2, <3>1
  <2>5. p[k] = a + Word + n
    BY <2>1, <2>2
  <2> QED BY <2>2, <2>3, <2>4, <2>5 DEF a, n
<1> QED BY <1>5, <1>6 DEF all, p, s, m

\* The numbers of the header are in front.
HeaderFirst(m, header) ==
  \A k \in 1 .. Len(header) : NumberAt(m, Room(k - 1), header[k])

\* The layout of a message m: h bytes in front, the field's bits v, the number of
\* strings, and the strings, the k-th from p[k - 1] on.
Layout(m, h, v, argv, p) ==
  /\ m \in Seq(Byte) /\ h \in Nat /\ h >= Word
  /\ p[0] = 0 /\ p[Len(argv)] \in Nat /\ Len(m) = h + Word + Word + p[Len(argv)]
  /\ NumberAt(m, h, v) /\ NumberAt(m, h + Word, Len(argv))
  /\ \A k \in 1 .. Len(argv) :
       /\ p[k - 1] \in Nat /\ p[k] = p[k - 1] + Word + Len(argv[k]) /\ p[k] <= p[Len(argv)]
       /\ NumberAt(m, h + Word + Word + p[k - 1], Len(argv[k]))
       /\ \A j \in 1 .. Len(argv[k]) : m[h + Word + Word + p[k - 1] + Word + j] = argv[k][j]

\* What a message holds at which place: its head, its timing, its argc and the strings.
LEMMA MessageFacts ==
  ASSUME NEW l \in Legs, NEW f \in Field, NEW argv \in Seq(Seq(Byte))
  PROVE  /\ Layout(MessageOf(l, f, argv), Before(l), Bits(f), argv, Ends(StringsOf(argv)))
         /\ HeaderFirst(MessageOf(l, f, argv), Header(l))
<1> DEFINE h == Before(l)
<1> DEFINE v == Bits(f)
<1> DEFINE n == Len(argv)
<1> DEFINE p == Ends(StringsOf(argv))
<1> DEFINE a == FlattenSeq(HeaderOf(l))
<1> DEFINE b == Big(v)
<1> DEFINE d == Big(n)
<1> DEFINE all == FlattenSeq(StringsOf(argv))
<1> DEFINE w == Word
<1>1. a \in Seq(Byte) /\ Len(a) = h /\ h \in Nat /\ h >= w /\ w \in Nat
  BY HeaderFacts, WordFacts
<1>2. v \in Nat
  BY BitsFacts DEF Field
<1>3. b \in Seq(Byte) /\ Len(b) = w /\ NumberAt(b, 0, v)
  BY <1>2, BigFacts, NumberAtStart
<1>4. n \in Nat /\ \A k \in 1 .. n : Len(argv[k]) \in Nat
  <2>1. n \in Nat /\ \A k \in 1 .. n : argv[k] \in Seq(Byte)
    BY LenProperties, ElementOfSeq
  <2> QED BY <2>1, LenProperties
<1>5. d \in Seq(Byte) /\ Len(d) = w /\ NumberAt(d, 0, n)
  BY <1>4, BigFacts, NumberAtStart
<1>6. /\ all \in Seq(Byte) /\ Len(all) = p[n] /\ p[0] = 0
      /\ \A k \in 1 .. n :
           /\ p[k - 1] \in Nat /\ p[k] = p[k - 1] + w + Len(argv[k]) /\ p[k] <= p[n]
           /\ NumberAt(all, p[k - 1], Len(argv[k]))
           /\ \A j \in 1 .. Len(argv[k]) : all[p[k - 1] + w + j] = argv[k][j]
  BY StringsFacts
<1> DEFINE c == d \o all
<1> DEFINE ab == a \o b
<1> DEFINE m == ab \o c
<1>7. MessageOf(l, f, argv) = m
  BY DEF MessageOf, WriteCommandline, StringsOf
<1>front. \A k \in 1 .. Len(Header(l)) : /\ Room(k - 1) \in Nat /\ Room(k - 1) + w <= h
                                         /\ NumberAt(a, Room(k - 1), Header(l)[k])
  BY HeaderFacts
<1>stays. \A x \in Seq(Byte) : \A y \in Seq(Byte) : \A o \in Nat : \A u :
            /\ o + w <= Len(x) /\ NumberAt(x, o, u) => NumberAt(x \o y, o, u)
            /\ o + w <= Len(y) /\ NumberAt(y, o, u) => NumberAt(x \o y, Len(x) + o, u)
  BY NumberStays
<1> HIDE DEF h, v, n, p, a, b, d, all, w
<1>8. all \in Seq(Byte) /\ Len(all) = p[n] /\ p[n] \in Nat
  BY <1>6, LenProperties
<1> DEFINE end == p[n]
<1>9. ab \in Seq(Byte) /\ Len(ab) = h + w /\ NumberAt(ab, h, v)
  <2>1. ab \in Seq(Byte) /\ Len(ab) = h + w
    <3>1. a \in Seq(Byte) /\ b \in Seq(Byte)
      BY <1>1, <1>3
    <3>2. ab \in Seq(Byte) /\ Len(ab) = Len(a) + Len(b)
      BY <3>1, JoinedBytes
    <3> HIDE DEF ab
    <3> QED BY <1>1, <1>3, <3>2
  <2>2. NumberAt(ab, h + 0, v)
    <3>1. 0 + w <= Len(b) /\ 0 \in Nat
      BY <1>1, <1>3
    <3> QED BY <1>1, <1>3, <1>stays, <3>1
  <2>3. h + 0 = h
    BY <1>1
  <2> QED BY <2>1, <2>2, <2>3
<1>10. c \in Seq(Byte) /\ Len(c) = w + p[n] /\ NumberAt(c, 0, n) /\ \A j \in 1 .. p[n] : c[w + j] = all[j]
  <2>1. c \in Seq(Byte) /\ Len(c) = w + end /\ \A j \in 1 .. end : c[w + j] = all[j]
    <3>1. all \in Seq(Byte) /\ d \in Seq(Byte)
      BY <1>5, <1>8
    <3>2. /\ d \o all \in Seq(Byte) /\ Len(d \o all) = Len(d) + Len(all)
          /\ \A j \in 1 .. Len(all) : (d \o all)[Len(d) + j] = all[j]
      BY <3>1, JoinedBytes
    <3>3. c = d \o all /\ Len(d) = w /\ Len(all) = end /\ end \in Nat
      BY <1>5, <1>8
    <3> HIDE DEF c, end
    <3> QED BY <3>2, <3>3
  <2>2. 0 + w <= Len(d) /\ 0 \in Nat
    BY <1>1, <1>5
  <2>3. NumberAt(c, 0, n)
    BY <1>5, <1>6, <1>stays, <2>2
  <2> QED BY <2>1, <2>3
<1> HIDE DEF ab
<1>12. ASSUME NEW q \in Nat, NEW u, q + w <= Len(all), NumberAt(all, q, u)
       PROVE  NumberAt(c, w + q, u)
  <2>1. NumberAt(d \o all, Len(d) + q, u)
    BY <1>5, <1>8, <1>12, <1>stays
  <2> QED BY <1>5, <2>1
<1> HIDE DEF c
<1>13. m \in Seq(Byte) /\ Len(m) = h + w + w + p[n]
  <2>1. m \in Seq(Byte) /\ Len(m) = h + w + (w + p[n])
    <3>1. ab \in Seq(Byte) /\ c \in Seq(Byte)
      BY <1>9, <1>10
    <3>2. m \in Seq(Byte) /\ Len(m) = Len(ab) + Len(c)
      BY <3>1, JoinedBytes
    <3> HIDE DEF m
    <3> QED BY <1>9, <1>10, <3>2
  <2> QED BY <1>1, <1>8, <2>1
<1>14. NumberAt(m, h, v)
  <2>1. h + w <= Len(ab)
    BY <1>1, <1>9
  <2> QED BY <1>1, <1>9, <1>10, <1>stays, <2>1
<1>15. ASSUME NEW o \in Nat, NEW u, o + w <= Len(c), NumberAt(c, o, u)
       PROVE  NumberAt(m, h + w + o, u)
  <2>1. NumberAt(ab \o c, Len(ab) + o, u)
    BY <1>9, <1>10, <1>15, <1>stays
  <2> QED BY <1>9, <2>1
<1>16. NumberAt(m, h + w, n)
  <2>1. 0 + w <= Len(c) /\ 0 \in Nat /\ h + w + 0 = h + w
    BY <1>1, <1>8, <1>10
  <2>2. NumberAt(m, h + w + 0, n)
    BY <1>10, <1>15, <2>1
  <2> QED BY <2>1, <2>2
<1>17. \A j \in 1 .. Len(c) : m[h + w + j] = c[j]
  <2>1. \A j \in 1 .. Len(c) : (ab \o c)[Len(ab) + j] = c[j]
    BY <1>9, <1>10, JoinedBytes
  <2> QED BY <1>9, <2>1
<1>18. ASSUME NEW k \in 1 .. n
       PROVE  /\ NumberAt(m, h + w + w + p[k - 1], Len(argv[k]))
              /\ \A j \in 1 .. Len(argv[k]) : m[h + w + w + p[k - 1] + w + j] = argv[k][j]
  <2> DEFINE q == p[k - 1]
  <2> DEFINE e == Len(argv[k])
  <2>1. /\ q \in Nat /\ e \in Nat /\ q + w + e <= p[n] /\ NumberAt(all, q, e)
        /\ \A j \in 1 .. e : all[q + w + j] = argv[k][j]
    BY <1>4, <1>6
  <2> HIDE DEF q, e
  <2>2. q + w <= end
    BY <1>1, <1>8, <2>1
  <2>3. NumberAt(c, w + q, e)
    BY <1>8, <1>12, <2>1, <2>2
  <2>4. w + q \in Nat /\ w + q + w <= Len(c) /\ h + w + (w + q) = h + w + w + q
    <3>1. w + q \in Nat /\ h + w + (w + q) = h + w + w + q
      BY <1>1, <2>1
    <3>2. Len(c) = w + end /\ end \in Nat
      BY <1>8, <1>10
    <3> HIDE DEF end
    <3>3. w + q + w <= Len(c)
      BY <1>1, <2>1, <2>2, <3>2
    <3> QED BY <3>1, <3>3
  <2>5. NumberAt(m, h + w + w + q, e)
    <3>1. NumberAt(m, h + w + (w + q), e)
      BY <1>15, <2>3, <2>4
    <3> QED BY <2>4, <3>1
  <2>6. ASSUME NEW j \in 1 .. e PROVE m[h + w + w + q + w + j] = argv[k][j]
    <3> DEFINE x == q + w + j
    <3> DEFINE y == w + x
    <3>1. x \in 1 .. end
      <4>1. end \in Nat /\ q + w + e <= end
        BY <1>8, <2>1
      <4> HIDE DEF end
      <4> QED BY <1>1, <2>1, <4>1
    <3>2. y \in 1 .. Len(c)
      <4>1. end \in Nat /\ Len(c) = w + end
        BY <1>8, <1>10
      <4> HIDE DEF end, x
      <4> QED BY <1>1, <3>1, <4>1
    <3>3. h + w + y = h + w + w + q + w + j
      BY <1>1, <2>1
    <3>4. all[x] = argv[k][j]
      BY <2>1
    <3> HIDE DEF x
    <3>5. c[y] = argv[k][j]
      BY <1>10, <3>1, <3>4
    <3> HIDE DEF y
    <3>6. m[h + w + y] = argv[k][j]
      BY <1>17, <3>2, <3>5
    <3> QED BY <3>3, <3>6
  <2> QED BY <2>5, <2>6 DEF q, e
<1>19. ASSUME NEW k \in 1 .. Len(Header(l)) PROVE NumberAt(m, Room(k - 1), Header(l)[k])
  <2> DEFINE o == Room(k - 1)
  <2> DEFINE u == Header(l)[k]
  <2>1. o \in Nat /\ o + w <= h /\ NumberAt(a, o, u)
    BY <1>front
  <2> HIDE DEF o, u
  <2>2. o + w <= Len(ab) /\ o + w <= Len(a)
    BY <1>1, <1>9, <2>1
  <2>3. NumberAt(ab, o, u)
    BY <1>1, <1>3, <1>stays, <2>1, <2>2 DEF ab
  <2>4. NumberAt(m, o, u)
    BY <1>9, <1>10, <1>stays, <2>1, <2>2, <2>3
  <2> QED BY <2>4 DEF o, u
<1> HIDE DEF m
<1>20. \A k \in 1 .. n : p[k - 1] \in Nat /\ p[k] = p[k - 1] + w + Len(argv[k]) /\ p[k] <= p[n]
  BY <1>6
<1>21. Layout(m, h, v, argv, p)
  BY <1>1, <1>6, <1>8, <1>13, <1>14, <1>16, <1>18, <1>20 DEF Layout, n, w
<1>22. HeaderFirst(m, Header(l))
  BY <1>19 DEF HeaderFirst
<1> QED BY <1>7, <1>21, <1>22 DEF h, v, p

-----------------------------------------------------------------------------
(* The invariant of the trip. *)

\* The reader's record.
Got == [head : Seq(Nat), field : Field, argc : Nat, length : Nat, argv : Seq(Seq(Byte))]

ReadTyped(n, g) ==
  /\ n \in {"head", "timing", "argc", "length", "byte", "end"}
  /\ g \in Got /\ Len(g.argv) <= g.argc
  /\ n \in {"head", "timing", "argc"} => g.argv = << >>
  /\ n = "length" => Len(g.argv) < g.argc

\* The bytes of message m that are written after n turns, when r is left over.
Wrote(m, n, r) == IF n = 0 THEN 0 ELSE IF r > Chunk THEN n * Chunk ELSE Len(m)

\* The writer is alive and has more than it wrote, or was killed, or is done.
WriterState(m, n, r, o, d) ==
  /\ n \in Nat /\ r \in Nat
  /\ o => ~ d
  /\ ~ o /\ ~ d => n > 0 /\ r <= Chunk
  /\ n = 0 => r = Len(m)
  /\ n > 0 => /\ r > 0 /\ r + n * Chunk = Len(m) + Chunk
              /\ o => r > Chunk

\* What holds of every task, a garbled one too.
Typed == i \in Nat /\ remaining \in Nat /\ pipe \in Seq(Byte) /\ ReadTyped(next, got)
Carried == task.field \in Field /\ task.argv \in Seq(Seq(Byte))

AnyLeg == {"parse", "refused", "crashed", "build", "request", "file", "reply", "shown", "astray"}

Shaped == /\ leg \in AnyLeg
          /\ Carried /\ Typed
          /\ leg \in Legs => WriterState(Message, i, remaining, open, died)

\* The pipe holds the bytes of m behind the first at.
PipeState(m, p, at) == /\ p \in Seq(Byte) /\ at \in Nat
                       /\ \A j \in 1 .. Len(p) : p[j] = m[at + j]

Place(l, argv, k) == Before(l) + Word + Word + Ends(StringsOf(argv))[k]

\* Where the reader is before it reads each of the fields, and what it has read.
HeadState(l, g, at) == /\ g.field = {} /\ g.argc = 0 /\ g.length = 0 /\ g.argv = << >>
                       /\ Len(g.head) < Len(Header(l)) /\ at = Room(Len(g.head))
                       /\ \A k \in 1 .. Len(g.head) : g.head[k] = Header(l)[k]
TimingState(l, g, at) == g.argc = 0 /\ g.argv = << >> /\ at = Before(l)
ArgcState(l, f, g, at) == g.field = f /\ g.argc = 0 /\ g.argv = << >> /\ at = Before(l) + Word
Agree(f, argv, g, n) == /\ g.field = f /\ g.argc = Len(argv)
                        /\ \A k \in 1 .. n : g.argv[k] = argv[k]
LengthState(l, f, argv, g, at) == LET n == Len(g.argv) IN
  /\ Agree(f, argv, g, n)
  /\ n < g.argc /\ at = Place(l, argv, n)
ByteState(l, f, argv, g, at) == LET n == Len(g.argv) IN
  /\ Agree(f, argv, g, n - 1)
  /\ n \in 1 .. g.argc
  /\ g.length = Len(argv[n]) /\ Len(g.argv[n]) < g.length
  /\ \A j \in 1 .. Len(g.argv[n]) : g.argv[n][j] = argv[n][j]
  /\ at = Place(l, argv, n - 1) + Word + Len(g.argv[n])
EndState(l, f, argv, g, at) == LET n == Len(g.argv) IN
  /\ Agree(f, argv, g, n)
  /\ n = g.argc /\ at = Place(l, argv, n)

ReaderState(l, f, argv, n, g, at) ==
  /\ n = "head" => HeadState(l, g, at)
  /\ n = "timing" => TimingState(l, g, at)
  /\ n = "argc" => ArgcState(l, f, g, at)
  /\ n = "length" => LengthState(l, f, argv, g, at)
  /\ n = "byte" => ByteState(l, f, argv, g, at)
  /\ n = "end" => EndState(l, f, argv, g, at)

\* What was written and is not in the pipe was read.
Position == Wrote(Message, i, remaining) - Len(pipe)

\* What holds of a leg as long as no number was read in part.
LegInv == /\ task.argv \in Argvs
          /\ PipeState(Message, pipe, Position)
          /\ ReaderState(leg, task.field, task.argv, next, got, Position)

Faithful == /\ leg # "astray"
            /\ leg \in Legs => LegInv /\ task.field = field
            /\ leg = "shown" => task.argv \in Argvs /\ task.field = field

TripInv == Shaped /\ (~ cut => Faithful)

\* The message of a leg has the layout of its task.
LEMMA MessageLayout ==
  ASSUME leg \in Legs, Carried
  PROVE  /\ Layout(Message, Before(leg), Bits(task.field), task.argv, Ends(StringsOf(task.argv)))
         /\ HeaderFirst(Message, Header(leg))
         /\ Message \in Seq(Byte) /\ Len(Message) \in Nat \ {0}
<1>1. Message = MessageOf(leg, task.field, task.argv)
  BY DEF Message, MessageOf, HeaderOf, StringsOf
<1>2. /\ Layout(Message, Before(leg), Bits(task.field), task.argv, Ends(StringsOf(task.argv)))
      /\ HeaderFirst(Message, Header(leg))
  BY <1>1, MessageFacts DEF Carried
<1>3. Message \in Seq(Byte) /\ Len(Message) \in Nat \ {0}
  <2> DEFINE p == Ends(StringsOf(task.argv))
  <2> DEFINE last == p[Len(task.argv)]
  <2> DEFINE h == Before(leg)
  <2> DEFINE n == Len(Message)
  <2>1. Message \in Seq(Byte) /\ h \in Nat /\ last \in Nat /\ n = h + Word + Word + last
    BY <1>2 DEF Layout
  <2> HIDE DEF last, h, n
  <2>2. n \in Nat \ {0}
    BY <2>1, WordFacts
  <2> QED BY <2>1, <2>2 DEF n
<1> QED BY <1>2, <1>3

\* A reader that has read nothing has a record of the right shape.
LEMMA NothingTyped ==
  ReadTyped("head", Nothing)
<1>1. << >> \in Seq(Nat) /\ << >> \in Seq(Seq(Byte)) /\ {} \in Field /\ Len(<< >>) = 0
  BY EmptySeq DEF Field
<1>2. Nothing \in Got /\ Nothing.argv = << >> /\ Nothing.argc = 0
  BY <1>1 DEF Nothing, Got
<1> QED BY <1>1, <1>2 DEF ReadTyped

\* It is at the first number of the head.
LEMMA NothingBegins ==
  ASSUME NEW l \in Legs
  PROVE  HeadState(l, Nothing, 0)
<1>1. /\ Nothing.field = {} /\ Nothing.argc = 0 /\ Nothing.length = 0
      /\ Nothing.argv = << >> /\ Nothing.head = << >>
  BY DEF Nothing
<1>2. Len(Nothing.head) = 0 /\ 1 .. 0 = {}
  BY <1>1, EmptySeq
<1>3. Len(Header(l)) > 0 /\ Room(0) = 0
  BY HeaderNumbers DEF Room
<1> QED BY <1>1, <1>2, <1>3 DEF HeadState

\* A message begins: nothing is written, nothing was read.
LEMMA LegBegins ==
  ASSUME NEW l \in Legs, NEW t, t.field \in Field, t.argv \in Seq(Seq(Byte)), Starts(l, t)
  PROVE  Shaped' /\ (t.argv \in Argvs => LegInv')
<1>1. /\ leg' = l /\ task' = t /\ i' = 0 /\ remaining' = Len(Message') /\ open' = TRUE /\ died' = FALSE
      /\ pipe' = << >> /\ next' = "head" /\ got' = Nothing
  BY DEF Starts
<1>2. Message' = MessageOf(l, t.field, t.argv)
  BY <1>1 DEF Message, MessageOf, HeaderOf, StringsOf
<1>3. Message' \in Seq(Byte) /\ Len(Message') \in Nat
  <2>1. Layout(Message', Before(l), Bits(t.field), t.argv, Ends(StringsOf(t.argv)))
    BY <1>2, MessageFacts
  <2>2. Message' \in Seq(Byte)
    BY <2>1 DEF Layout
  <2> QED BY <2>2, LenProperties
<1>4. << >> \in Seq(Byte) /\ Len(<< >>) = 0
  BY EmptySeq
<1>5. Position' = 0
  <2>1. Wrote(Message', i', remaining') = 0
    BY <1>1 DEF Wrote
  <2>2. Len(pipe') = 0
    BY <1>1, <1>4
  <2>3. Position' = Wrote(Message', i', remaining') - Len(pipe')
    BY DEF Position
  <2> HIDE DEF Position
  <2> QED BY <2>1, <2>2, <2>3
<1>6. WriterState(Message', i', remaining', open', died')
  BY <1>1, <1>3 DEF WriterState
<1>7. PipeState(Message', pipe', Position')
  <2>1. 1 .. Len(<< >>) = {}
    BY <1>4
  <2> QED BY <1>1, <1>4, <1>5, <2>1 DEF PipeState
<1>8. ReadTyped(next', got')
  BY <1>1, NothingTyped
<1>9. HeadState(l, Nothing, 0)
  BY NothingBegins
<1>10. ReaderState(leg', task'.field, task'.argv, next', got', Position')
  BY <1>1, <1>5, <1>9 DEF ReaderState
<1>11. Shaped'
  <2>1. Typed'
    BY <1>1, <1>3, <1>4, <1>8 DEF Typed
  <2>2. Carried' /\ leg' \in AnyLeg
    BY <1>1 DEF Carried, AnyLeg, Legs
  <2> QED BY <1>6, <2>1, <2>2 DEF Shaped
<1> QED BY <1>1, <1>7, <1>10, <1>11 DEF LegInv

\* Another turn of the writer's loop.
LEMMA WriteChunkKeeps ==
  ASSUME Shaped, WriteChunk
  PROVE  Shaped' /\ (LegInv => LegInv')
<1> DEFINE m == Message
<1> DEFINE w == i * Chunk
<1> DEFINE rest == IF i > 0 THEN remaining - Chunk ELSE remaining
<1> DEFINE size == IF rest > Chunk THEN Chunk ELSE rest
<1> DEFINE piece == SubSeq(m, w + 1, w + size)
<1>1. /\ leg \in Legs /\ open /\ pipe' = pipe \o piece /\ remaining' = rest /\ open' = (rest > Chunk)
      /\ i' = i + 1 /\ leg' = leg /\ task' = task /\ next' = next /\ got' = got /\ died' = died
  BY DEF WriteChunk, WriteUpTo, reader
<1>2. /\ Carried /\ Typed /\ leg \in AnyLeg
      /\ WriterState(m, i, remaining, open, died)
  BY <1>1 DEF Shaped
<1>3. m \in Seq(Byte) /\ Len(m) \in Nat \ {0} /\ Message' = m
  <2>1. Message' = Message
    BY <1>1 DEF Message
  <2> QED BY <1>1, <1>2, <2>1, MessageLayout
<1>4. Chunk \in Nat \ {0} /\ i \in Nat /\ remaining \in Nat /\ ~ died
  BY <1>1, <1>2, WidthAssumption DEF WriterState
<1>5. w \in Nat /\ i' * Chunk = w + Chunk
  BY <1>1, <1>4
<1>6. /\ i = 0 => w = 0 /\ remaining = Len(m)
      /\ i > 0 => remaining + w = Len(m) + Chunk /\ remaining > Chunk
  BY <1>1, <1>2, <1>4 DEF WriterState
<1>7. Position = w - Len(pipe)
  BY <1>4, <1>6 DEF Position, Wrote
<1> HIDE DEF w, m
<1>8. rest = Len(m) - w /\ rest > 0
  BY <1>3, <1>4, <1>5, <1>6
<1> HIDE DEF rest
<1>9. size \in Nat \ {0} /\ size <= rest /\ rest \in Nat /\ (~ (rest > Chunk) => size = rest)
      /\ (rest > Chunk => size = Chunk)
  BY <1>3, <1>4, <1>5, <1>8
<1> HIDE DEF size
<1>10. piece \in Seq(Byte) /\ Len(piece) = size /\ \A j \in 1 .. size : piece[j] = m[w + j]
  <2> DEFINE a == w + 1
  <2> DEFINE b == w + size
  <2>1. a - 1 = w /\ b + 1 - a = size
    BY <1>5, <1>9
  <2>2. a \in 1 .. Len(m) + 1 /\ b \in a - 1 .. Len(m)
    BY <1>3, <1>5, <1>8, <1>9
  <2> HIDE DEF a, b
  <2>3. /\ SubSeq(m, a, b) \in Seq(Byte) /\ Len(SubSeq(m, a, b)) = b + 1 - a
        /\ \A j \in 1 .. b + 1 - a : SubSeq(m, a, b)[j] = m[a - 1 + j]
    BY <1>3, <2>1, <2>2, Part
  <2>4. piece = SubSeq(m, a, b)
    BY DEF a, b
  <2> HIDE DEF piece
  <2> QED BY <2>1, <2>3, <2>4
<1> HIDE DEF piece
<1>11. pipe \in Seq(Byte) /\ Len(pipe) \in Nat
  <2>1. pipe \in Seq(Byte)
    BY <1>2 DEF Typed
  <2> QED BY <2>1, LenProperties
<1>12. /\ pipe' \in Seq(Byte) /\ Len(pipe') = Len(pipe) + size
       /\ \A j \in 1 .. Len(pipe) : pipe'[j] = pipe[j]
       /\ \A j \in 1 .. size : pipe'[Len(pipe) + j] = piece[j]
  <2>1. /\ pipe \o piece \in Seq(Byte) /\ Len(pipe \o piece) = Len(pipe) + Len(piece)
        /\ \A j \in 1 .. Len(pipe) : (pipe \o piece)[j] = pipe[j]
        /\ \A j \in 1 .. Len(piece) : (pipe \o piece)[Len(pipe) + j] = piece[j]
    <3>1. pipe \in Seq(Byte) /\ piece \in Seq(Byte)
      BY <1>10, <1>11
    <3> QED BY <3>1, Joined
  <2>2. pipe' = pipe \o piece /\ Len(piece) = size
    BY <1>1, <1>10
  <2> QED BY <2>1, <2>2
<1>13. Wrote(Message', i', remaining') = w + size
  BY <1>1, <1>3, <1>4, <1>5, <1>8, <1>9 DEF Wrote
<1>14. Position' = Position
  <2> DEFINE a == Wrote(Message', i', remaining')
  <2> DEFINE b == Len(pipe')
  <2>1. Position' = a - b
    BY DEF Position
  <2>2. a = w + size /\ b = Len(pipe) + size
    BY <1>12, <1>13
  <2>3. Len(pipe) \in Nat /\ size \in Nat /\ w \in Nat
    BY <1>5, <1>9, <1>11
  <2> HIDE DEF a, b
  <2>4. a - b = w - Len(pipe)
    BY <2>2, <2>3
  <2> QED BY <1>7, <2>1, <2>4
<1>15. WriterState(Message', i', remaining', open', died')
  <2>1. rest + i' * Chunk = Len(m) + Chunk
    <3> DEFINE z == i' * Chunk
    <3>1. z = w + Chunk
      BY <1>5
    <3> HIDE DEF z
    <3>2. rest + z = Len(m) + Chunk
      BY <1>3, <1>4, <1>5, <1>8, <3>1
    <3> QED BY <3>2 DEF z
  <2>2. i' \in Nat /\ i' > 0 /\ i' # 0
    BY <1>1, <1>4
  <2>3. remaining' \in Nat /\ remaining' > 0
    BY <1>1, <1>8, <1>9
  <2>4. ~ died' /\ open' = (remaining' > Chunk)
    BY <1>1, <1>4
  <2>5. remaining' + i' * Chunk = Len(Message') + Chunk
    BY <1>1, <1>3, <2>1
  <2>6. ~ open' => remaining' <= Chunk
    <3>1. ~ open' => ~ (rest > Chunk)
      BY <1>1
    <3>2. ~ (rest > Chunk) => rest <= Chunk
      BY <1>4, <1>9
    <3> QED BY <1>1, <3>1, <3>2
  <2> QED BY <2>2, <2>3, <2>4, <2>5, <2>6 DEF WriterState
<1>16. PipeState(m, pipe, Position) => PipeState(Message', pipe', Position')
  <2> SUFFICES ASSUME PipeState(m, pipe, Position) PROVE PipeState(Message', pipe', Position')
    OBVIOUS
  <2>1. Position \in Nat /\ \A j \in 1 .. Len(pipe) : pipe[j] = m[Position + j]
    BY DEF PipeState
  <2>2. ASSUME NEW j \in 1 .. Len(pipe) + size PROVE pipe'[j] = m[Position + j]
    <3>1. CASE j \in 1 .. Len(pipe)
      BY <1>12, <2>1, <3>1
    <3>2. CASE j \notin 1 .. Len(pipe)
      <4> DEFINE k == j - Len(pipe)
      <4>1. k \in 1 .. size /\ Len(pipe) + k = j /\ w + k = Position + j
        BY <1>5, <1>7, <1>9, <1>11, <3>2
      <4>2. pipe'[Len(pipe) + k] = m[w + k]
        <5> HIDE DEF k
        <5> QED BY <1>10, <1>12, <4>1
      <4> QED BY <4>1, <4>2
    <3> QED BY <3>1, <3>2
  <2> QED BY <1>3, <1>12, <1>14, <2>1, <2>2 DEF PipeState
<1>17. ASSUME LegInv PROVE LegInv'
  <2>1. PipeState(m, pipe, Position) /\ task.argv \in Argvs
        /\ ReaderState(leg, task.field, task.argv, next, got, Position)
    BY <1>17 DEF LegInv, m
  <2>2. ReaderState(leg', task'.field, task'.argv, next', got', Position')
    BY <1>1, <1>14, <2>1
  <2> QED BY <1>1, <1>16, <2>1, <2>2 DEF LegInv
<1>18. Shaped'
  <2>1. Typed'
    <3>1. ReadTyped(next', got')
      BY <1>1, <1>2 DEF Typed
    <3>2. i' \in Nat /\ remaining' \in Nat
      BY <1>1, <1>4, <1>9
    <3> QED BY <1>12, <3>1, <3>2 DEF Typed
  <2>2. Carried' /\ leg' \in AnyLeg
    BY <1>1, <1>2 DEF Carried
  <2> QED BY <1>15, <2>1, <2>2 DEF Shaped
<1> QED BY <1>17, <1>18

\* A writer that dies leaves what it wrote.
LEMMA WriterDiesKeeps ==
  ASSUME Shaped, WriterDies
  PROVE  Shaped' /\ (LegInv => LegInv')
<1>1. /\ leg \in Legs /\ open /\ ~ open' /\ died' /\ leg' = leg /\ task' = task /\ i' = i
      /\ remaining' = remaining /\ pipe' = pipe /\ next' = next /\ got' = got
  BY DEF WriterDies, reader
<1>2. Message' = Message /\ Position' = Position
  BY <1>1 DEF Message, Position
<1>3. WriterState(Message', i', remaining', open', died')
  BY <1>1, <1>2 DEF Shaped, WriterState
<1>4. Typed' /\ Carried'
  BY <1>1 DEF Shaped, Typed, Carried
<1>5. Shaped'
  BY <1>1, <1>3, <1>4 DEF Shaped
<1>6. LegInv => LegInv'
  BY <1>1, <1>2 DEF LegInv
<1> QED BY <1>5, <1>6

\* Bytes stand for a number.
LEMMA NumberType ==
  ASSUME NEW b \in Seq(Byte)
  PROVE  Number(b) \in Nat
<1>1. Base \in Nat
  BY WidthAssumption
<1>2. b \in Seq(Nat)
  <2>1. \A k \in 1 .. Len(b) : b[k] \in Nat
    <3>1. \A k \in 1 .. Len(b) : b[k] \in Byte
      BY ElementOfSeq
    <3> QED BY <1>1, <3>1 DEF Byte
  <2>2. Len(b) \in Nat /\ b = [k \in 1 .. Len(b) |-> b[k]]
    BY LenProperties
  <2> QED BY <2>1, <2>2
<1>3. PICK upto \in [0 .. Len(b) -> Nat] : Sums(upto, Base, b)
  BY <1>1, <1>2, PositionalFacts
<1>4. Len(b) \in 0 .. Len(b)
  <2>1. Len(b) \in Nat
    BY LenProperties
  <2> QED BY <2>1
<1> QED BY <1>3, <1>4 DEF Sums, Number

\* The variable that a number is read into: what was read, and what was left in it.
LEMMA VariableFacts ==
  ASSUME Shaped, NEW value \in Values
  PROVE  \E b \in Seq(Byte) : /\ Len(b) = Size /\ value = Number(b)
                              /\ \A k \in 1 .. Size : k <= Len(pipe) => b[k] = pipe[k]
<1>1. PICK left \in Left : value = Number([k \in 1 .. Size |-> IF k <= Len(pipe) THEN pipe[k] ELSE left[k]])
  BY DEF Values
<1> DEFINE b == [k \in 1 .. Size |-> IF k <= Len(pipe) THEN pipe[k] ELSE left[k]]
<1>2. Size \in Nat /\ 1 .. Size \subseteq 1 .. Word
  BY WordFacts DEF Size
<1>3. pipe \in Seq(Byte)
  BY DEF Shaped, Typed
<1>4. Len(pipe) \in Nat /\ \A k \in 1 .. Len(pipe) : pipe[k] \in Byte
  BY <1>3, LenProperties, ElementOfSeq
<1>5. \A k \in 1 .. Word : left[k] \in Byte
  BY LeftAssumption DEF Byte
<1>6. ASSUME NEW k \in 1 .. Size PROVE b[k] \in Byte
  <2>1. CASE k <= Len(pipe)
    BY <1>2, <1>4, <2>1
  <2>2. CASE ~ (k <= Len(pipe))
    BY <1>2, <1>5, <2>2
  <2> QED BY <2>1, <2>2
<1>7. b \in Seq(Byte) /\ Len(b) = Size
  <2>1. b = [k \in 1 .. Size |-> b[k]]
    OBVIOUS
  <2> HIDE DEF b
  <2> DEFINE c == [k \in 1 .. Size |-> b[k]]
  <2>2. c \in Seq(Byte) /\ Len(c) = Size
    BY <1>2, <1>6
  <2> QED BY <2>1, <2>2
<1>8. value = Number(b) /\ \A k \in 1 .. Size : k <= Len(pipe) => b[k] = pipe[k]
  BY <1>1
<1> QED BY <1>7, <1>8

\* However little was read, the variable holds a number, or a byte.
LEMMA ValuesTyped ==
  ASSUME Shaped, NEW value \in Values
  PROVE  value \in Nat /\ (next = "byte" => value \in Byte)
<1>1. PICK b \in Seq(Byte) : Len(b) = Size /\ value = Number(b)
  BY VariableFacts
<1>2. next = "byte" => Len(b) = 1
  BY <1>1 DEF Size
<1>3. next = "byte" => value \in Byte
  BY <1>1, <1>2, ByteFacts
<1> QED BY <1>1, <1>3, NumberType

\* What a read leaves alone.
LEMMA TakesKeeps ==
  ASSUME Shaped, Takes
  PROVE  /\ leg \in Legs /\ task' = task /\ i' = i /\ remaining' = remaining /\ open' = open
         /\ died' = died /\ field' = field
         /\ leg' = leg => Message' = Message
         /\ pipe' \in Seq(Byte)
<1>1. /\ leg \in Legs /\ task' = task /\ i' = i /\ remaining' = remaining /\ open' = open
      /\ died' = died /\ field' = field
      /\ pipe' = IF Len(pipe) < Size THEN << >> ELSE SubSeq(pipe, Size + 1, Len(pipe))
  BY DEF Takes, CanRead, writer, parser
<1>2. leg' = leg => Message' = Message
  BY <1>1 DEF Message
<1>3. pipe \in Seq(Byte) /\ Size \in Nat
  BY WordFacts DEF Shaped, Typed, Size
<1>4. Len(pipe) \in Nat
  BY <1>3, LenProperties
<1>5. Len(pipe) < Size => pipe' \in Seq(Byte)
  <2> SUFFICES ASSUME Len(pipe) < Size PROVE pipe' \in Seq(Byte)
    OBVIOUS
  <2>1. pipe' = << >>
    BY <1>1
  <2>2. << >> \in Seq(Byte)
    BY EmptySeq
  <2> QED BY <2>1, <2>2
<1>6. ~ (Len(pipe) < Size) => pipe' \in Seq(Byte)
  <2> SUFFICES ASSUME ~ (Len(pipe) < Size) PROVE pipe' \in Seq(Byte)
    OBVIOUS
  <2>1. Size \in 0 .. Len(pipe)
    BY <1>3, <1>4
  <2>2. SubSeq(pipe, Size + 1, Len(pipe)) \in Seq(Byte)
    BY <1>3, <2>1, Remainder
  <2>3. pipe' = SubSeq(pipe, Size + 1, Len(pipe))
    BY <1>1
  <2> QED BY <2>2, <2>3
<1> QED BY <1>1, <1>2, <1>5, <1>6

\* A step of the reader keeps the shape of what it does not read.
LEMMA TakesShapes ==
  ASSUME Shaped, Takes, leg' \in {leg, "astray"}, ReadTyped(next', got')
  PROVE  Shaped'
<1>1. /\ leg \in Legs /\ task' = task /\ i' = i /\ remaining' = remaining /\ open' = open
      /\ died' = died /\ (leg' = leg => Message' = Message) /\ pipe' \in Seq(Byte)
  BY TakesKeeps
<1>2. Typed' /\ Carried'
  BY <1>1 DEF Shaped, Typed, Carried
<1>3. leg' \in AnyLeg
  BY DEF Shaped, AnyLeg
<1>4. leg' \in Legs => leg' = leg
  BY DEF Legs
<1>5. leg' \in Legs => WriterState(Message', i', remaining', open', died')
  BY <1>1, <1>4 DEF Shaped
<1> QED BY <1>2, <1>3, <1>5 DEF Shaped

\* Where the reader goes on when a string is complete.
LEMMA ContinuesTyped ==
  ASSUME NEW g \in Got, Len(g.argv) <= g.argc
  PROVE  ReadTyped(Continues(g), g)
<1>1. CASE Len(g.argv) < g.argc
  <2>1. Continues(g) = "length"
    BY <1>1 DEF Continues
  <2> QED BY <1>1, <2>1 DEF ReadTyped
<1>2. CASE ~ (Len(g.argv) < g.argc)
  <2>1. Continues(g) = "end"
    BY <1>2 DEF Continues
  <2> QED BY <1>2, <2>1 DEF ReadTyped
<1> QED BY <1>1, <1>2

\* A reader's record after each of its reads.
LEMMA HeadTyped ==
  ASSUME Shaped, ReadHead
  PROVE  Shaped'
<1>1. PICK value \in Values : got' = [got EXCEPT !.head = Append(got.head, value)]
  BY DEF ReadHead
<1>2. Takes /\ next = "head" /\ next' \in {"head", "timing"} /\ leg' \in {leg, "astray"}
  BY DEF ReadHead, Astray
<1>3. got \in Got /\ Len(got.argv) <= got.argc /\ got.argv = << >>
  BY <1>2 DEF Shaped, Typed, ReadTyped
<1>4. value \in Nat
  BY ValuesTyped
<1>5. Append(got.head, value) \in Seq(Nat)
  <2>1. got.head \in Seq(Nat)
    BY <1>3 DEF Got
  <2> QED BY <1>4, <2>1, AppendProperties
<1>6. got' \in Got /\ got'.argv = got.argv /\ got'.argc = got.argc
  BY <1>1, <1>3, <1>5 DEF Got
<1>7. ReadTyped(next', got')
  BY <1>2, <1>3, <1>6 DEF ReadTyped
<1> QED BY <1>2, <1>7, TakesShapes

LEMMA TimingTyped ==
  ASSUME Shaped, ReadTiming
  PROVE  Shaped'
<1>1. PICK value \in Values : got' = [got EXCEPT !.field = ValuesOf(value)]
  BY DEF ReadTiming
<1>2. Takes /\ next = "timing" /\ next' = "argc" /\ leg' \in {leg, "astray"}
  BY DEF ReadTiming
<1>3. got \in Got /\ Len(got.argv) <= got.argc /\ got.argv = << >>
  BY <1>2 DEF Shaped, Typed, ReadTyped
<1>4. ValuesOf(value) \in Field
  BY DEF ValuesOf, Field
<1>5. got' \in Got /\ got'.argv = got.argv /\ got'.argc = got.argc
  BY <1>1, <1>3, <1>4 DEF Got
<1>6. ReadTyped(next', got')
  BY <1>2, <1>3, <1>5 DEF ReadTyped
<1> QED BY <1>2, <1>6, TakesShapes

LEMMA ArgcTyped ==
  ASSUME Shaped, ReadArgc
  PROVE  Shaped'
<1>1. PICK value \in Values : got' = [got EXCEPT !.argc = value]
  BY DEF ReadArgc
<1>2. Takes /\ next = "argc" /\ next' = Continues(got') /\ leg' \in {leg, "astray"}
  BY DEF ReadArgc, Counts
<1>3. got \in Got /\ got.argv = << >>
  BY <1>2 DEF Shaped, Typed, ReadTyped
<1>4. value \in Nat
  BY ValuesTyped
<1>5. got' \in Got /\ got'.argv = << >> /\ got'.argc = value
  BY <1>1, <1>3, <1>4 DEF Got
<1>6. Len(got'.argv) <= got'.argc
  <2>1. Len(<< >>) = 0
    BY EmptySeq
  <2>2. Len(got'.argv) = 0
    BY <1>5, <2>1
  <2> QED BY <1>4, <1>5, <2>2
<1>7. ReadTyped(next', got')
  BY <1>2, <1>5, <1>6, ContinuesTyped
<1> QED BY <1>2, <1>7, TakesShapes

LEMMA LengthTyped ==
  ASSUME Shaped, ReadLength
  PROVE  Shaped'
<1>1. PICK value \in Values : got' = [got EXCEPT !.length = value, !.argv = Append(got.argv, << >>)]
  BY DEF ReadLength
<1>2. Takes /\ next = "length" /\ next' \in {Continues(got'), "byte"} /\ leg' \in {leg, "astray"}
  BY DEF ReadLength, Counts
<1>3. got \in Got /\ Len(got.argv) < got.argc
  BY <1>2 DEF Shaped, Typed, ReadTyped
<1>4. value \in Nat
  BY ValuesTyped
<1> DEFINE s == Append(got.argv, << >>)
<1>5. s \in Seq(Seq(Byte)) /\ Len(s) = Len(got.argv) + 1 /\ Len(got.argv) \in Nat /\ got.argc \in Nat
  <2>1. got.argv \in Seq(Seq(Byte)) /\ << >> \in Seq(Byte) /\ got.argc \in Nat
    BY <1>3, EmptySeq DEF Got
  <2> QED BY <2>1, AppendProperties, LenProperties
<1> HIDE DEF s
<1>6. got' \in Got /\ got'.argv = s /\ got'.argc = got.argc
  BY <1>1, <1>3, <1>4, <1>5 DEF Got, s
<1>7. Len(got'.argv) <= got'.argc
  BY <1>3, <1>5, <1>6
<1>8. ReadTyped(Continues(got'), got')
  BY <1>6, <1>7, ContinuesTyped
<1>9. ReadTyped("byte", got')
  BY <1>6, <1>7 DEF ReadTyped
<1>10. ReadTyped(next', got')
  BY <1>2, <1>8, <1>9
<1> QED BY <1>2, <1>10, TakesShapes

LEMMA ByteTyped ==
  ASSUME Shaped, ReadByte
  PROVE  Shaped'
<1> DEFINE n == Len(got.argv)
<1>1. PICK value \in Values : got' = [got EXCEPT !.argv[n] = Append(got.argv[n], value)]
  BY DEF ReadByte
<1>2. Takes /\ next = "byte" /\ next' \in {Continues(got'), "byte"} /\ leg' \in {leg, "astray"}
  BY DEF ReadByte
<1>3. got \in Got /\ Len(got.argv) <= got.argc
  BY <1>2 DEF Shaped, Typed, ReadTyped
<1>4. value \in Byte
  BY <1>2, ValuesTyped
<1>5. got.argv \in Seq(Seq(Byte)) /\ n \in Nat
  <2>1. got.argv \in Seq(Seq(Byte))
    BY <1>3 DEF Got
  <2> QED BY <2>1, LenProperties
<1> DEFINE s == [got.argv EXCEPT ![n] = Append(got.argv[n], value)]
<1>6. s \in Seq(Seq(Byte)) /\ Len(s) = n
  <2> DEFINE a == got.argv
  <2> DEFINE t == Append(a[n], value)
  <2> DEFINE S == Seq(Byte)
  <2>1. CASE n = 0
    <3>1. a = << >>
      BY <1>5, <2>1, EmptySeq
    <3>2. s = << >>
      BY <3>1
    <3>3. << >> \in Seq(Seq(Byte)) /\ Len(<< >>) = 0
      BY EmptySeq
    <3> HIDE DEF s, n
    <3> QED BY <2>1, <3>2, <3>3
  <2>2. CASE n # 0
    <3>1. n \in 1 .. Len(a)
      BY <1>5, <2>2
    <3>2. t \in S
      <4>1. a[n] \in Seq(Byte)
        <5> HIDE DEF n
        <5> QED BY <1>5, <3>1, ElementOfSeq
      <4> QED BY <1>4, <4>1, AppendProperties
    <3>3. a \in Seq(S)
      BY <1>5
    <3> HIDE DEF S, t
    <3>4. [a EXCEPT ![n] = t] \in Seq(S) /\ Len([a EXCEPT ![n] = t]) = Len(a)
      BY <3>1, <3>2, <3>3, ExceptSeq
    <3> QED BY <3>4 DEF S, t
  <2> QED BY <2>1, <2>2
<1> HIDE DEF s, n
<1>7. got' \in Got /\ got'.argv = s /\ got'.argc = got.argc
  BY <1>1, <1>3, <1>6 DEF Got, s
<1>8. Len(got'.argv) <= got'.argc
  BY <1>3, <1>6, <1>7 DEF n
<1>9. ReadTyped(Continues(got'), got')
  BY <1>7, <1>8, ContinuesTyped
<1>10. ReadTyped("byte", got')
  BY <1>7, <1>8 DEF ReadTyped
<1>11. ReadTyped(next', got')
  BY <1>2, <1>9, <1>10
<1> QED BY <1>2, <1>11, TakesShapes

\* A read that gets all it asked for takes the next bytes of the message, and is the
\* only step that moves on in it.
LEMMA TakesNext ==
  ASSUME Shaped, LegInv, Takes, ~ cut'
  PROVE  /\ leg' = leg => PipeState(Message', pipe', Position')
         /\ Position \in Nat /\ (leg' = leg => Position' = Position + Size)
         /\ Len(pipe) \in Nat /\ Size \in Nat \ {0} /\ Size <= Len(pipe)
         /\ \A j \in 1 .. Size : pipe[j] = Message[Position + j]
<1> DEFINE w == Size
<1> DEFINE n == Len(pipe)
<1>1. PipeState(Message, pipe, Position)
  BY DEF LegInv
<1>2. pipe \in Seq(Byte) /\ Position \in Nat /\ \A j \in 1 .. n : pipe[j] = Message[Position + j]
  BY <1>1 DEF PipeState
<1>3. n \in Nat /\ w \in Nat \ {0}
  BY <1>2, LenProperties, WordFacts DEF Size
<1>4. w <= n /\ pipe' = SubSeq(pipe, w + 1, n)
  <2>1. ~ (n < w)
    BY DEF Takes
  <2>2. pipe' = SubSeq(pipe, w + 1, n)
    BY <2>1 DEF Takes
  <2> HIDE DEF w, n
  <2> QED BY <1>3, <2>1, <2>2
<1> HIDE DEF w
<1>5. w \in 0 .. n
  BY <1>3, <1>4
<1>6. /\ SubSeq(pipe, w + 1, n) \in Seq(Byte) /\ Len(SubSeq(pipe, w + 1, n)) = n - w
      /\ \A j \in 1 .. n - w : SubSeq(pipe, w + 1, n)[j] = pipe[w + j]
  BY <1>2, <1>5, Remainder
<1>7. /\ i' = i /\ remaining' = remaining /\ (leg' = leg => Message' = Message)
  BY TakesKeeps
<1>8. leg' = leg => Position' = Position + w
  <2> SUFFICES ASSUME leg' = leg PROVE Position' = Position + w
    OBVIOUS
  <2> DEFINE a == Wrote(Message, i, remaining)
  <2>1. Position = a - n
    BY DEF Position
  <2>2. Position' = Wrote(Message', i', remaining') - Len(pipe')
    BY DEF Position
  <2>3. Wrote(Message', i', remaining') = a
    BY <1>7
  <2>4. Len(pipe') = n - w
    BY <1>4, <1>6
  <2>5. a \in Int
    <3>1. Len(Message) \in Nat
      BY MessageLayout, TakesKeeps DEF Shaped
    <3>2. i \in Nat /\ Chunk \in Nat /\ i * Chunk \in Nat
      <4>1. i \in Nat /\ Chunk \in Nat
        BY WidthAssumption DEF Shaped, Typed
      <4> QED BY <4>1
    <3> QED BY <3>1, <3>2 DEF Wrote
  <2> DEFINE b == Wrote(Message', i', remaining')
  <2> DEFINE c == Len(pipe')
  <2>6. Position' = b - c /\ b = a /\ c = n - w
    BY <2>2, <2>3, <2>4
  <2> HIDE DEF a, b, c, n
  <2>7. b - c = a - n + w
    BY <1>3, <1>4, <2>5, <2>6
  <2> QED BY <2>1, <2>6, <2>7
<1>9. leg' = leg => PipeState(Message', pipe', Position')
  <2> SUFFICES ASSUME leg' = leg PROVE PipeState(Message', pipe', Position')
    OBVIOUS
  <2>1. ASSUME NEW j \in 1 .. n - w PROVE pipe'[j] = Message[Position + w + j]
    <3>1. w + j \in 1 .. n /\ Position + (w + j) = Position + w + j
      BY <1>2, <1>3, <1>4
    <3>2. pipe'[j] = pipe[w + j]
      BY <1>4, <1>6
    <3>3. pipe[w + j] = Message[Position + (w + j)]
      BY <1>2, <3>1
    <3> QED BY <3>1, <3>2, <3>3
  <2>2. pipe' \in Seq(Byte) /\ Len(pipe') = n - w
    BY <1>4, <1>6
  <2>3. Position + w \in Nat
    BY <1>2, <1>3
  <2> QED BY <1>7, <1>8, <2>1, <2>2, <2>3 DEF PipeState
<1>10. \A j \in 1 .. w : pipe[j] = Message[Position + j]
  <2>1. \A j \in 1 .. w : j \in 1 .. n
    BY <1>3, <1>4
  <2> QED BY <1>2, <2>1
<1> QED BY <1>2, <1>3, <1>4, <1>8, <1>9, <1>10 DEF w, n

\* The value that is read: the number that was written, or the byte.
LEMMA TakesValue ==
  ASSUME Shaped, LegInv, Takes, ~ cut', NEW value \in Values
  PROVE  /\ value \in Nat
         /\ next # "byte" =>
              /\ leg' = leg => Position' = Position + Word
              /\ \A v \in Nat : Fits(v) /\ NumberAt(Message, Position, v) => value = v
         /\ next = "byte" =>
              /\ leg' = leg => Position' = Position + 1
              /\ value = Message[Position + 1] /\ value \in Byte
<1>1. PICK b \in Seq(Byte) : /\ Len(b) = Size /\ value = Number(b)
                             /\ \A k \in 1 .. Size : k <= Len(pipe) => b[k] = pipe[k]
  BY VariableFacts
<1>2. /\ leg' = leg => Position' = Position + Size
      /\ Size \in Nat /\ Len(pipe) \in Nat /\ Size <= Len(pipe) /\ Position \in Nat
      /\ \A j \in 1 .. Size : pipe[j] = Message[Position + j]
  BY TakesNext
<1>3. \A j \in 1 .. Size : b[j] = Message[Position + j]
  <2>1. \A j \in 1 .. Size : j <= Len(pipe)
    BY <1>2
  <2> QED BY <1>1, <1>2, <2>1
<1>4. value \in Nat
  BY ValuesTyped
<1>5. CASE next # "byte"
  <2>1. Size = Word
    BY <1>5 DEF Size
  <2>2. ASSUME NEW v \in Nat, Fits(v), NumberAt(Message, Position, v) PROVE value = v
    <3>1. \A k \in 1 .. Word : b[k] = Big(v)[k]
      BY <1>3, <2>1, <2>2 DEF NumberAt
    <3>2. Len(b) = Word
      BY <1>1, <2>1
    <3>3. Number(b) = v
      BY <2>2, <3>1, <3>2, BigFacts
    <3> QED BY <1>1, <3>3
  <2> QED BY <1>2, <1>4, <1>5, <2>1, <2>2
<1>6. CASE next = "byte"
  <2>1. Size = 1
    BY <1>6 DEF Size
  <2>2. Len(b) = 1 /\ b[1] = Message[Position + 1]
    <3>1. 1 \in 1 .. 1
      OBVIOUS
    <3> QED BY <1>1, <1>3, <2>1, <3>1
  <2>3. value = b[1] /\ value \in Byte
    BY <1>1, <2>2, ByteFacts
  <2> QED BY <1>2, <1>4, <1>6, <2>1, <2>2, <2>3
<1> QED BY <1>5, <1>6

\* A step of the reader keeps the invariant of the leg if it keeps its part of it.
LEMMA ReaderKeeps ==
  ASSUME Shaped, LegInv, Takes, ~ cut', leg' = leg,
         ReaderState(leg, task.field, task.argv, next', got', Position')
  PROVE  LegInv'
BY TakesKeeps, TakesNext DEF LegInv

\* What the reader knows of the message.
LEMMA ReaderFacts ==
  ASSUME Shaped, LegInv, leg \in Legs
  PROVE  /\ task.field \in Field /\ task.argv \in Argvs
         /\ got \in Got /\ Len(got.argv) <= got.argc
         /\ got.argv \in Seq(Seq(Byte)) /\ Len(got.argv) \in Nat /\ got.argc \in Nat
         /\ Len(task.argv) \in Nat /\ Fits(Len(task.argv))
         /\ Layout(Message, Before(leg), Bits(task.field), task.argv, Ends(StringsOf(task.argv)))
         /\ HeaderFirst(Message, Header(leg))
         /\ Before(leg) \in Nat
<1>1. task.argv \in Argvs /\ got \in Got /\ Len(got.argv) <= got.argc /\ task.field \in Field
  BY DEF LegInv, Shaped, Carried, Typed, ReadTyped
<1>2. /\ Layout(Message, Before(leg), Bits(task.field), task.argv, Ends(StringsOf(task.argv)))
      /\ HeaderFirst(Message, Header(leg))
  BY MessageLayout DEF Shaped
<1>3. Before(leg) \in Nat
  BY <1>2 DEF Layout
<1>4. got.argv \in Seq(Seq(Byte)) /\ got.argc \in Nat
  BY <1>1 DEF Got
<1>5. Len(got.argv) \in Nat
  BY <1>4, LenProperties
<1> QED BY <1>1, <1>2, <1>3, <1>4, <1>5, ArgvFacts

\* A number of the head leaves the reader behind it, on the same leg.
LEMMA ReadHeadKeeps ==
  ASSUME Shaped, LegInv, ReadHead, ~ cut'
  PROVE  leg' = leg /\ LegInv'
<1> DEFINE n == Len(got.head)
<1> DEFINE k == n + 1
<1> DEFINE h == Header(leg)
<1>1. PICK value \in Values : got' = [got EXCEPT !.head = Append(got.head, value)]
  BY DEF ReadHead
<1>2. /\ next = "head" /\ Takes /\ leg \in Legs
      /\ next' = IF Len(got'.head) = Len(h) THEN "timing" ELSE "head"
      /\ leg' = IF got'.head = SubSeq(h, 1, Len(got'.head)) THEN leg ELSE "astray"
  BY DEF ReadHead, Astray, Takes, CanRead
<1>3. got \in Got /\ HeadState(leg, got, Position)
  BY <1>2, ReaderFacts DEF LegInv, ReaderState
<1>4. Len(h) \in {1, 3} /\ h \in Seq(Nat) /\ \A j \in 1 .. Len(h) : h[j] \in 1 .. 3
  BY <1>2, HeaderNumbers
<1>5. got.head \in Seq(Nat) /\ n \in Nat
  <2>1. got.head \in Seq(Nat)
    BY <1>3 DEF Got
  <2> QED BY <2>1, LenProperties
<1>6. n < Len(h) /\ Position = Room(n) /\ \A j \in 1 .. n : got.head[j] = h[j]
  BY <1>3 DEF HeadState
<1>7. k \in 1 .. Len(h) /\ k - 1 = n /\ n \in 0 .. 2
  <2> DEFINE m == Len(h)
  <2>1. n \in Nat /\ m \in {1, 3} /\ n < m
    BY <1>4, <1>5, <1>6
  <2> HIDE DEF n, m
  <2>2. k \in 1 .. m /\ k - 1 = n /\ n \in 0 .. 2
    BY <2>1
  <2> QED BY <2>2 DEF m
<1> HIDE DEF n, k, h
<1>8. NumberAt(Message, Position, h[k])
  <2>1. HeaderFirst(Message, h)
    BY <1>2, ReaderFacts DEF h
  <2>2. NumberAt(Message, Room(k - 1), h[k])
    BY <1>7, <2>1 DEF HeaderFirst
  <2> QED BY <1>6, <1>7, <2>2
<1>9. value = h[k] /\ value \in Nat
  <2>1. h[k] \in Nat /\ Fits(h[k])
    BY <1>4, <1>7, SmallFits
  <2> QED BY <1>2, <1>8, <2>1, TakesValue
<1>10. got'.head = Append(got.head, value) /\ got'.field = got.field /\ got'.argc = got.argc
      /\ got'.length = got.length /\ got'.argv = got.argv
  BY <1>1, <1>3 DEF Got
<1>11. /\ got'.head \in Seq(Nat) /\ Len(got'.head) = k
       /\ \A j \in 1 .. k : got'.head[j] = h[j]
  <2> DEFINE s == got.head
  <2>1. s \in Seq(Nat) /\ Len(s) = n
    BY <1>5 DEF n
  <2> HIDE DEF s
  <2>2. /\ Append(s, value) \in Seq(Nat) /\ Len(Append(s, value)) = n + 1
        /\ \A j \in 1 .. n : Append(s, value)[j] = s[j]
        /\ Append(s, value)[n + 1] = value
    BY <1>9, <2>1, AppendProperties
  <2>3. got'.head = Append(s, value) /\ k = n + 1
    BY <1>10 DEF s, k
  <2>4. \A j \in 1 .. k : j \in 1 .. n \/ j = k
    BY <1>5, <2>3
  <2>5. \A j \in 1 .. n : s[j] = h[j]
    BY <1>6 DEF s
  <2> QED BY <1>9, <2>2, <2>3, <2>4, <2>5
<1>12. got'.head = SubSeq(h, 1, Len(got'.head))
  <2>1. k \in 0 .. Len(h)
    BY <1>4, <1>7
  <2>2. /\ SubSeq(h, 1, k) \in Seq(Nat) /\ Len(SubSeq(h, 1, k)) = k
        /\ \A j \in 1 .. k : SubSeq(h, 1, k)[j] = h[j]
    BY <1>4, <2>1, Beginning
  <2>3. got'.head = SubSeq(h, 1, k)
    BY <1>11, <2>2, SeqEqual
  <2> QED BY <1>11, <2>3
<1>13. leg' = leg
  BY <1>2, <1>12
<1>14. Position' = Room(k)
  <2>1. Position' = Position + Word
    BY <1>2, <1>13, TakesValue
  <2>2. Room(n + 1) = Room(n) + Word
    BY <1>7, RoomFacts
  <2> QED BY <1>6, <2>1, <2>2 DEF k
<1>15. CASE k = Len(h)
  <2>1. TimingState(leg, got', Position')
    BY <1>3, <1>10, <1>14, <1>15 DEF HeadState, TimingState, Before, h
  <2>2. next' = "timing"
    BY <1>2, <1>11, <1>15
  <2>3. ReaderState(leg, task.field, task.argv, next', got', Position')
    BY <2>1, <2>2 DEF ReaderState
  <2> QED BY <1>2, <1>13, <2>3, ReaderKeeps
<1>16. CASE k # Len(h)
  <2>1. k < Len(h)
    BY <1>4, <1>7, <1>16
  <2>2. HeadState(leg, got', Position')
    BY <1>3, <1>10, <1>11, <1>14, <2>1 DEF HeadState, h
  <2>3. next' = "head"
    BY <1>2, <1>11, <1>16
  <2>4. ReaderState(leg, task.field, task.argv, next', got', Position')
    BY <2>2, <2>3 DEF ReaderState
  <2> QED BY <1>2, <1>13, <2>4, ReaderKeeps
<1> QED BY <1>15, <1>16

\* The timing that is read is the one that was written.
LEMMA ReadTimingKeeps ==
  ASSUME Shaped, LegInv, ReadTiming, ~ cut'
  PROVE  leg' = leg /\ LegInv'
<1>1. PICK value \in Values : got' = [got EXCEPT !.field = ValuesOf(value)]
  BY DEF ReadTiming
<1>2. next = "timing" /\ Takes /\ next' = "argc" /\ leg' = leg /\ leg \in Legs
  BY DEF ReadTiming, Takes, CanRead
<1>3. got \in Got /\ TimingState(leg, got, Position) /\ task.field \in Field
  BY <1>2, ReaderFacts DEF LegInv, ReaderState
<1>4. Bits(task.field) \in Nat /\ Fits(Bits(task.field)) /\ ValuesOf(Bits(task.field)) = task.field
  BY <1>3, BitsFacts DEF Field
<1>5. NumberAt(Message, Position, Bits(task.field)) /\ Position = Before(leg)
  BY <1>2, <1>3, ReaderFacts DEF Layout, TimingState
<1>6. value = Bits(task.field) /\ Position' = Position + Word
  BY <1>2, <1>4, <1>5, TakesValue
<1>7. got'.field = task.field /\ got'.argc = got.argc /\ got'.argv = got.argv
  BY <1>1, <1>3, <1>4, <1>6 DEF Got
<1>8. ArgcState(leg, task.field, got', Position')
  BY <1>3, <1>5, <1>6, <1>7 DEF TimingState, ArgcState
<1>9. ReaderState(leg, task.field, task.argv, next', got', Position')
  BY <1>2, <1>8 DEF ReaderState
<1> QED BY <1>2, <1>9, ReaderKeeps

\* With the first strings read the next one follows, or the message ends.
LEMMA ContinuesFacts ==
  ASSUME NEW l \in Legs, NEW f, NEW argv \in Argvs, NEW g \in Got, NEW at,
         Len(g.argv) <= g.argc, Agree(f, argv, g, Len(g.argv)),
         at = Place(l, argv, Len(g.argv))
  PROVE  ReaderState(l, f, argv, Continues(g), g, at)
<1>1. Len(g.argv) \in Nat /\ g.argc \in Nat
  <2>1. g.argv \in Seq(Seq(Byte)) /\ g.argc \in Nat
    BY DEF Got
  <2> QED BY <2>1, LenProperties
<1>2. CASE Len(g.argv) < g.argc
  <2>1. LengthState(l, f, argv, g, at) /\ Continues(g) = "length"
    BY <1>2 DEF LengthState, Continues
  <2> QED BY <2>1 DEF ReaderState
<1>3. CASE ~ (Len(g.argv) < g.argc)
  <2>1. Len(g.argv) = g.argc
    BY <1>1, <1>3
  <2>2. EndState(l, f, argv, g, at) /\ Continues(g) = "end"
    BY <1>3, <2>1 DEF EndState, Continues
  <2> QED BY <2>2 DEF ReaderState
<1> QED BY <1>2, <1>3

\* A made-up count is made up by a short read.
LEMMA CountsKeeps ==
  ASSUME ~ cut', NEW value, Counts(value)
  PROVE  leg' = leg
BY DEF Counts

\* The argc that is read is the number of strings that were written.
LEMMA ReadArgcKeeps ==
  ASSUME Shaped, LegInv, ReadArgc, ~ cut'
  PROVE  leg' = leg /\ LegInv'
<1>1. PICK value \in Values : got' = [got EXCEPT !.argc = value] /\ Counts(value)
  BY DEF ReadArgc
<1>2. next = "argc" /\ Takes /\ next' = Continues(got') /\ leg' = leg /\ leg \in Legs
  BY <1>1, CountsKeeps DEF ReadArgc, Takes, CanRead
<1>3. got \in Got /\ ArgcState(leg, task.field, got, Position)
  BY <1>2, ReaderFacts DEF LegInv, ReaderState
<1>4. NumberAt(Message, Position, Len(task.argv)) /\ Position = Before(leg) + Word
  BY <1>2, <1>3, ReaderFacts DEF Layout, ArgcState
<1>5. value = Len(task.argv) /\ Position' = Position + Word
  <2>1. Len(task.argv) \in Nat /\ Fits(Len(task.argv))
    BY <1>2, ReaderFacts
  <2> QED BY <1>2, <1>4, <2>1, TakesValue
<1>6. got'.field = got.field /\ got'.argc = Len(task.argv) /\ got'.argv = got.argv
  BY <1>1, <1>3, <1>5 DEF Got
<1>7. got' \in Got /\ Len(got'.argv) <= got'.argc
  <2>1. Shaped'
    BY ArgcTyped
  <2> QED BY <2>1 DEF Shaped, Typed, ReadTyped
<1>8. Len(got'.argv) = 0 /\ got'.field = task.field
  BY <1>3, <1>6, EmptySeq DEF ArgcState
<1>9. Agree(task.field, task.argv, got', Len(got'.argv))
  <2>1. 1 .. 0 = {}
    OBVIOUS
  <2> QED BY <1>6, <1>8, <2>1 DEF Agree
<1>10. Position' = Place(leg, task.argv, Len(got'.argv))
  <2>1. Ends(StringsOf(task.argv))[0] = 0 /\ Before(leg) \in Nat /\ Word \in Nat
    BY <1>2, ReaderFacts, WordFacts DEF Layout
  <2>2. Place(leg, task.argv, 0) = Before(leg) + Word + Word
    BY <2>1 DEF Place
  <2> QED BY <1>4, <1>5, <1>8, <2>2
<1>11. ReaderState(leg, task.field, task.argv, next', got', Position')
  BY <1>2, <1>7, <1>9, <1>10, ReaderFacts, ContinuesFacts
<1> QED BY <1>2, <1>11, ReaderKeeps

\* Where the k-th string is in the message, and where the next one is.
LEMMA PlaceFacts ==
  ASSUME Shaped, LegInv, leg \in Legs, NEW k \in 1 .. Len(task.argv)
  PROVE  /\ task.argv[k] \in Seq(Byte) /\ Len(task.argv[k]) \in Nat /\ Fits(Len(task.argv[k]))
         /\ Place(leg, task.argv, k - 1) \in Nat
         /\ Place(leg, task.argv, k) = Place(leg, task.argv, k - 1) + Word + Len(task.argv[k])
         /\ Place(leg, task.argv, k) <= Len(Message)
         /\ NumberAt(Message, Place(leg, task.argv, k - 1), Len(task.argv[k]))
         /\ \A j \in 1 .. Len(task.argv[k]) :
              Message[Place(leg, task.argv, k - 1) + Word + j] = task.argv[k][j]
<1> DEFINE p == Ends(StringsOf(task.argv))
<1> DEFINE n == Len(task.argv)
<1> DEFINE e == Len(task.argv[k])
<1> DEFINE b == Before(leg)
<1> DEFINE q == p[k - 1]
<1> DEFINE w == Word
<1>1. task.argv[k] \in Seq(Byte) /\ e \in Nat /\ Fits(e) /\ w \in Nat
  BY ReaderFacts, ArgvFacts, WordFacts
<1>2. Layout(Message, b, Bits(task.field), task.argv, p) /\ b \in Nat
  BY ReaderFacts
<1>3. /\ q \in Nat /\ p[k] = q + w + e /\ p[k] <= p[n] /\ p[n] \in Nat /\ Len(Message) = b + w + w + p[n]
      /\ NumberAt(Message, b + w + w + q, e)
      /\ \A j \in 1 .. e : Message[b + w + w + q + w + j] = task.argv[k][j]
  BY <1>2 DEF Layout
<1>4. Place(leg, task.argv, k - 1) = b + w + w + q /\ Place(leg, task.argv, k) = b + w + w + p[k]
  BY DEF Place
<1> DEFINE x == Place(leg, task.argv, k - 1)
<1> DEFINE y == Place(leg, task.argv, k)
<1> DEFINE z == p[k]
<1> DEFINE last == p[n]
<1>5. /\ q \in Nat /\ z = q + w + e /\ z <= last /\ last \in Nat /\ Len(Message) = b + w + w + last
      /\ x = b + w + w + q /\ y = b + w + w + z
  BY <1>3, <1>4
<1> HIDE DEF x, y, z, last, q, b, e, w
<1>6. x \in Nat /\ y = x + w + e /\ y <= Len(Message)
  <2> DEFINE m == Len(Message)
  <2>1. m = b + w + w + last /\ b \in Nat /\ e \in Nat /\ w \in Nat
    BY <1>1, <1>2, <1>5
  <2> HIDE DEF m
  <2>2. x \in Nat /\ y = x + w + e /\ y <= m
    BY <1>5, <2>1
  <2> QED BY <2>2 DEF m
<1>7. NumberAt(Message, x, e) /\ \A j \in 1 .. e : Message[x + w + j] = task.argv[k][j]
  BY <1>3, <1>5
<1> QED BY <1>1, <1>6, <1>7 DEF x, y, e, w

\* The length that is read is that of the next string, which begins behind it.
LEMMA ReadLengthKeeps ==
  ASSUME Shaped, LegInv, ReadLength, ~ cut'
  PROVE  leg' = leg /\ LegInv'
<1> DEFINE n == Len(got.argv)
<1> DEFINE argv == task.argv
<1>1. PICK value \in Values : /\ got' = [got EXCEPT !.length = value, !.argv = Append(got.argv, << >>)]
                              /\ Counts(value)
  BY DEF ReadLength
<1>2. /\ next = "length" /\ Takes /\ leg' = leg /\ leg \in Legs
      /\ next' = IF got'.length = 0 THEN Continues(got') ELSE "byte"
  BY <1>1, CountsKeeps DEF ReadLength, Takes, CanRead
<1>3. got \in Got /\ LengthState(leg, task.field, argv, got, Position)
  BY <1>2, ReaderFacts DEF LegInv, ReaderState
<1>4. /\ Agree(task.field, argv, got, n) /\ n < got.argc /\ Position = Place(leg, argv, n)
      /\ got.argc = Len(argv) /\ got.field = task.field /\ \A k \in 1 .. n : got.argv[k] = argv[k]
  BY <1>3 DEF LengthState, Agree
<1>5. n \in Nat /\ got.argv \in Seq(Seq(Byte)) /\ got.argc \in Nat
  BY <1>2, ReaderFacts
<1> DEFINE k == n + 1
<1>6. k \in 1 .. Len(argv) /\ k - 1 = n /\ k <= got.argc /\ k \in Nat
  BY <1>4, <1>5
<1> HIDE DEF n, argv
<1>7. /\ argv[k] \in Seq(Byte) /\ Len(argv[k]) \in Nat /\ Fits(Len(argv[k]))
      /\ Place(leg, argv, n) \in Nat
      /\ Place(leg, argv, k) = Place(leg, argv, n) + Word + Len(argv[k])
      /\ NumberAt(Message, Place(leg, argv, n), Len(argv[k]))
  <2> HIDE DEF k
  <2> QED BY <1>2, <1>6, PlaceFacts DEF argv
<1>8. value = Len(argv[k]) /\ Position' = Position + Word
  BY <1>2, <1>4, <1>7, TakesValue
<1>9. << >> \in Seq(Byte) /\ Len(<< >>) = 0
  BY EmptySeq
<1>10. got'.field = got.field /\ got'.argc = got.argc
      /\ got'.length = Len(argv[k]) /\ got'.argv = Append(got.argv, << >>)
  <2> HIDE DEF k
  <2> QED BY <1>1, <1>3, <1>8 DEF Got
<1>11. /\ got'.argv \in Seq(Seq(Byte)) /\ Len(got'.argv) = k /\ got'.argv[k] = << >>
       /\ \A j \in 1 .. n : got'.argv[j] = got.argv[j]
  <2> DEFINE S == Seq(Byte)
  <2> DEFINE s == got.argv
  <2> DEFINE e == << >>
  <2>1. s \in Seq(S) /\ e \in S /\ Len(s) = n
    BY <1>5, <1>9 DEF n
  <2> HIDE DEF S, s, e
  <2>2. Append(s, e) \in Seq(S) /\ Len(Append(s, e)) = n + 1 /\ Append(s, e)[n + 1] = e
        /\ \A j \in 1 .. n : Append(s, e)[j] = s[j]
    BY <2>1, AppendProperties
  <2>3. got'.argv = Append(s, e)
    BY <1>10 DEF s, e
  <2> QED BY <2>2, <2>3 DEF S, s, e
<1> HIDE DEF k
<1>12. got' \in Got /\ Len(got'.argv) <= got'.argc
  <2>1. Shaped'
    BY LengthTyped
  <2> QED BY <2>1 DEF Shaped, Typed, ReadTyped
<1>13. \A j \in 1 .. n : got'.argv[j] = argv[j]
  BY <1>4, <1>11
<1>14. CASE Len(argv[k]) = 0
  <2>1. argv[k] = << >>
    BY <1>7, <1>14, EmptySeq
  <2>2. \A j \in 1 .. k : got'.argv[j] = argv[j]
    <3>1. \A j \in 1 .. k : j \in 1 .. n \/ j = k
      BY <1>5, <1>6
    <3> QED BY <1>11, <1>13, <2>1, <3>1
  <2>3. Agree(task.field, argv, got', Len(got'.argv))
    BY <1>4, <1>10, <1>11, <2>2 DEF Agree
  <2>4. Position' = Place(leg, argv, Len(got'.argv))
    <3> DEFINE x == Place(leg, argv, n)
    <3> DEFINE y == Place(leg, argv, k)
    <3>1. x \in Nat /\ y = x + Word + 0 /\ Position' = x + Word /\ Word \in Nat
      BY <1>4, <1>7, <1>8, <1>14, WordFacts
    <3> HIDE DEF x, y
    <3>2. Position' = y
      BY <3>1
    <3> QED BY <1>11, <3>2 DEF y
  <2>5. next' = Continues(got')
    BY <1>2, <1>10, <1>14
  <2>6. ReaderState(leg, task.field, argv, next', got', Position')
    BY <1>2, <1>12, <2>3, <2>4, <2>5, ReaderFacts, ContinuesFacts DEF argv
  <2> QED BY <1>2, <2>6, ReaderKeeps DEF argv
<1>15. CASE Len(argv[k]) # 0
  <2>1. Len(got'.argv[k]) = 0 /\ 0 < got'.length
    BY <1>7, <1>9, <1>10, <1>11, <1>15
  <2>2. Agree(task.field, argv, got', k - 1)
    BY <1>4, <1>6, <1>10, <1>13 DEF Agree
  <2>3. Position' = Place(leg, argv, k - 1) + Word + Len(got'.argv[k])
    <3> DEFINE x == Place(leg, argv, n)
    <3>1. x \in Nat /\ Position' = x + Word /\ Word \in Nat
      BY <1>4, <1>7, <1>8, WordFacts
    <3> HIDE DEF x
    <3>2. Position' = x + Word + 0
      BY <3>1
    <3> QED BY <1>6, <2>1, <3>2 DEF x
  <2>4. \A j \in 1 .. Len(got'.argv[k]) : got'.argv[k][j] = argv[k][j]
    <3>1. 1 .. 0 = {}
      OBVIOUS
    <3> QED BY <2>1, <3>1
  <2>5. k \in 1 .. got'.argc
    BY <1>4, <1>6, <1>10
  <2>6. ByteState(leg, task.field, argv, got', Position')
    BY <1>10, <1>11, <2>1, <2>2, <2>3, <2>4, <2>5 DEF ByteState
  <2>7. next' = "byte"
    BY <1>2, <1>10, <1>15
  <2>8. ReaderState(leg, task.field, argv, next', got', Position')
    BY <2>6, <2>7 DEF ReaderState
  <2> QED BY <1>2, <2>8, ReaderKeeps DEF argv
<1> QED BY <1>14, <1>15

\* A byte that is read is the next one of the string that was written.
LEMMA ReadByteKeeps ==
  ASSUME Shaped, LegInv, ReadByte, ~ cut'
  PROVE  leg' = leg /\ LegInv'
<1> DEFINE n == Len(got.argv)
<1> DEFINE argv == task.argv
<1> DEFINE s == got.argv[n]
<1> DEFINE c == Len(s)
<1>1. PICK value \in Values : got' = [got EXCEPT !.argv[n] = Append(got.argv[n], value)]
  BY DEF ReadByte
<1>2. /\ next = "byte" /\ Takes /\ leg' = leg /\ leg \in Legs
      /\ next' = IF Len(got'.argv[Len(got.argv)]) < got.length THEN "byte" ELSE Continues(got')
  BY DEF ReadByte, Takes, CanRead
<1>3. got \in Got /\ ByteState(leg, task.field, argv, got, Position)
  BY <1>2, ReaderFacts DEF LegInv, ReaderState
<1>4. /\ Agree(task.field, argv, got, n - 1) /\ n \in 1 .. got.argc
      /\ got.length = Len(argv[n]) /\ c < got.length
      /\ \A j \in 1 .. c : s[j] = argv[n][j]
      /\ Position = Place(leg, argv, n - 1) + Word + c
      /\ got.argc = Len(argv) /\ got.field = task.field /\ \A k \in 1 .. n - 1 : got.argv[k] = argv[k]
  BY <1>3 DEF ByteState, Agree
<1>5. n \in Nat /\ got.argv \in Seq(Seq(Byte)) /\ got.argc \in Nat
  BY <1>2, ReaderFacts
<1>6. s \in Seq(Byte) /\ c \in Nat
  <2>1. n \in 1 .. Len(got.argv)
    BY <1>4, <1>5
  <2> HIDE DEF n
  <2>2. s \in Seq(Byte)
    BY <1>5, <2>1, ElementOfSeq
  <2> HIDE DEF s
  <2> QED BY <2>2, LenProperties
<1>7. n \in 1 .. Len(argv)
  BY <1>4
<1> HIDE DEF n, argv, s, c
<1>8. /\ argv[n] \in Seq(Byte) /\ Len(argv[n]) \in Nat
      /\ Place(leg, argv, n - 1) \in Nat
      /\ Place(leg, argv, n) = Place(leg, argv, n - 1) + Word + Len(argv[n])
      /\ \A j \in 1 .. Len(argv[n]) : Message[Place(leg, argv, n - 1) + Word + j] = argv[n][j]
  BY <1>2, <1>7, PlaceFacts DEF argv
<1>9. value = argv[n][c + 1] /\ value \in Byte /\ Position' = Position + 1
  <2>1. c + 1 \in 1 .. Len(argv[n]) /\ Position + 1 = Place(leg, argv, n - 1) + Word + (c + 1)
    <3> DEFINE x == Place(leg, argv, n - 1)
    <3> DEFINE e == Len(argv[n])
    <3>1. x \in Nat /\ e \in Nat /\ c \in Nat /\ c < e /\ Position = x + Word + c /\ Word \in Nat
      BY <1>4, <1>6, <1>8, WordFacts
    <3> HIDE DEF x, e
    <3>2. c + 1 \in 1 .. e /\ Position + 1 = x + Word + (c + 1)
      BY <3>1
    <3> QED BY <3>2 DEF x, e
  <2>2. Message[Place(leg, argv, n - 1) + Word + (c + 1)] = argv[n][c + 1]
    <3> DEFINE d == c + 1
    <3>1. d \in 1 .. Len(argv[n])
      BY <2>1
    <3> HIDE DEF d
    <3>2. Message[Place(leg, argv, n - 1) + Word + d] = argv[n][d]
      BY <1>8, <3>1
    <3> QED BY <3>2 DEF d
  <2>3. value = Message[Position + 1] /\ value \in Byte /\ Position' = Position + 1
    BY <1>2, TakesValue
  <2> QED BY <2>1, <2>2, <2>3
<1> DEFINE t == Append(s, value)
<1>10. t \in Seq(Byte) /\ Len(t) = c + 1 /\ t[c + 1] = value /\ \A j \in 1 .. c : t[j] = s[j]
  BY <1>6, <1>9, AppendProperties DEF c
<1> HIDE DEF t
<1>11. /\ got'.field = got.field /\ got'.argc = got.argc
       /\ got'.length = got.length /\ got'.argv = [got.argv EXCEPT ![n] = t]
  BY <1>1, <1>3 DEF Got, s, t, n
<1>12. /\ got'.argv \in Seq(Seq(Byte)) /\ Len(got'.argv) = n /\ got'.argv[n] = t
       /\ \A k \in 1 .. n - 1 : got'.argv[k] = got.argv[k]
  <2> DEFINE S == Seq(Byte)
  <2> DEFINE a == got.argv
  <2>1. a \in Seq(S) /\ t \in S /\ n \in 1 .. Len(a) /\ Len(a) = n
    BY <1>4, <1>5, <1>10 DEF n
  <2> HIDE DEF S, a
  <2>2. [a EXCEPT ![n] = t] \in Seq(S) /\ Len([a EXCEPT ![n] = t]) = n
        /\ [a EXCEPT ![n] = t][n] = t /\ \A k \in 1 .. n - 1 : [a EXCEPT ![n] = t][k] = a[k]
    <3>1. [a EXCEPT ![n] = t] \in Seq(S) /\ Len([a EXCEPT ![n] = t]) = n
      BY <2>1, ExceptSeq
    <3>2. DOMAIN a = 1 .. n
      BY <2>1, LenProperties
    <3> QED BY <1>5, <2>1, <3>1, <3>2
  <2> QED BY <1>11, <2>2 DEF S, a
<1>13. got' \in Got /\ Len(got'.argv) <= got'.argc
  <2>1. Shaped'
    BY ByteTyped
  <2> QED BY <2>1 DEF Shaped, Typed, ReadTyped
<1>14. \A k \in 1 .. n - 1 : got'.argv[k] = argv[k]
  BY <1>4, <1>12
<1>15. \A j \in 1 .. c + 1 : t[j] = argv[n][j]
  <2>1. \A j \in 1 .. c + 1 : j \in 1 .. c \/ j = c + 1
    BY <1>6
  <2> QED BY <1>4, <1>9, <1>10, <2>1
<1>16. Len(got'.argv[Len(got.argv)]) = c + 1
  BY <1>10, <1>12 DEF n
<1>17. Position' = Place(leg, argv, n - 1) + Word + (c + 1)
  <2> DEFINE x == Place(leg, argv, n - 1)
  <2>1. x \in Nat /\ c \in Nat /\ Word \in Nat /\ Position' = x + Word + c + 1
    BY <1>4, <1>6, <1>8, <1>9, WordFacts
  <2> HIDE DEF x
  <2>2. Position' = x + Word + (c + 1)
    BY <2>1
  <2> QED BY <2>2 DEF x
<1>18. CASE c + 1 < got.length
  <2>1. next' = "byte"
    BY <1>2, <1>16, <1>18
  <2>2. Position' = Place(leg, argv, n - 1) + Word + Len(t)
    BY <1>10, <1>17
  <2>3. Agree(task.field, argv, got', n - 1)
    BY <1>4, <1>11, <1>14 DEF Agree
  <2>4. ByteState(leg, task.field, argv, got', Position')
    BY <1>4, <1>10, <1>11, <1>12, <1>15, <1>18, <2>2, <2>3 DEF ByteState
  <2>5. ReaderState(leg, task.field, argv, next', got', Position')
    BY <2>1, <2>4 DEF ReaderState
  <2> QED BY <1>2, <2>5, ReaderKeeps DEF argv
<1>19. CASE ~ (c + 1 < got.length)
  <2>1. next' = Continues(got')
    BY <1>2, <1>16, <1>19
  <2>2. c + 1 = Len(argv[n])
    BY <1>4, <1>6, <1>8, <1>19
  <2>3. t = argv[n]
    BY <1>8, <1>10, <1>15, <2>2, SeqEqual
  <2>4. \A k \in 1 .. n : got'.argv[k] = argv[k]
    <3>1. \A k \in 1 .. n : k \in 1 .. n - 1 \/ k = n
      BY <1>5
    <3> QED BY <1>12, <1>14, <2>3, <3>1
  <2>5. Agree(task.field, argv, got', Len(got'.argv))
    BY <1>4, <1>11, <1>12, <2>4 DEF Agree
  <2>6. Position' = Place(leg, argv, Len(got'.argv))
    BY <1>8, <1>12, <1>17, <2>2
  <2>7. ReaderState(leg, task.field, argv, next', got', Position')
    BY <1>2, <1>13, <2>1, <2>5, <2>6, ReaderFacts, ContinuesFacts DEF argv
  <2> QED BY <1>2, <2>7, ReaderKeeps DEF argv
<1> QED BY <1>18, <1>19

\* A reader at the end has the task that was sent.
LEMMA AtTheEnd ==
  ASSUME Shaped, LegInv, leg \in Legs, next = "end"
  PROVE  got.field = task.field /\ got.argv = task.argv
<1> DEFINE n == Len(got.argv)
<1>1. EndState(leg, task.field, task.argv, got, Position)
  BY DEF LegInv, ReaderState
<1>2. /\ got.field = task.field /\ got.argc = Len(task.argv) /\ n = got.argc
      /\ \A k \in 1 .. n : got.argv[k] = task.argv[k]
  BY <1>1 DEF EndState, Agree
<1>3. got.argv = task.argv
  <2>1. got.argv \in Seq(Seq(Byte)) /\ task.argv \in Seq(Seq(Byte))
    BY ReaderFacts, ArgvFacts
  <2> QED BY <1>2, <2>1, SeqEqual
<1> QED BY <1>2, <1>3

\* What a text means are values of the field.
LEMMA DenotedType ==
  ASSUME NEW t
  PROVE  Denoted(t) \in Field
<1>1. \A s : Named(s) \subseteq 0 .. FieldMax
  BY DEF Named
<1>2. CASE t = <<"*">>
  BY <1>2 DEF Denoted, Field
<1>3. CASE t # <<"*">>
  <2>1. Denoted(t) = UNION {Named(item) : item \in Items(t)}
    BY <1>3 DEF Denoted
  <2>2. UNION {Named(item) : item \in Items(t)} \subseteq 0 .. FieldMax
    BY <1>1
  <2> QED BY <2>1, <2>2 DEF Field
<1> QED BY <1>2, <1>3

\* What the parser reads are values of a field, at a position an unsigned int can hold.
LEMMA ParserTyped ==
  ASSUME ParserInv
  PROVE  field \in Field /\ pos \in 0 .. Wrap - 1
<1>1. text \in Texts /\ Len(text) \in Nat /\ Len(text) < Wrap - 1 /\ Wrap \in Nat
  BY TextFacts DEF ParserInv
<1>2. \/ Fresh(pos, field)
      \/ ReadSoFar(text, pos, field)
      \/ Lost(text, pos, field)
  BY DEF ParserInv, ParserState
<1>3. field \in Field
  <2>1. {} \in Field
    BY DEF Field
  <2> QED BY <1>2, <2>1, DenotedType DEF Fresh, ReadSoFar, Lost
<1>4. pos \in 0 .. Wrap - 1
  BY <1>1, <1>2 DEF Fresh, ReadSoFar, Lost
<1> QED BY <1>3, <1>4

\* No leg has begun at the start.
LEMMA TripInit ==
  ASSUME Init
  PROVE  TripInv
<1>1. /\ leg = "parse" /\ task = NoTask /\ i = 0 /\ remaining = 0 /\ pipe = << >>
      /\ next = "head" /\ got = Nothing
  BY DEF Init
<1>2. {} \in Field /\ << >> \in Seq(Byte) /\ << >> \in Seq(Seq(Byte))
  BY EmptySeq DEF Field
<1>3. Typed
  BY <1>1, <1>2, NothingTyped DEF Typed
<1>4. Carried
  BY <1>1, <1>2 DEF Carried, NoTask
<1> QED BY <1>1, <1>3, <1>4 DEF TripInv, Shaped, Faithful, Legs, AnyLeg

\* A step of the parser leaves the legs alone.
LEMMA ParserStepKeeps ==
  ASSUME TripInv, ParserStep
  PROVE  TripInv'
<1>1. /\ leg' \in {"parse", "refused", "crashed", "build"}
      /\ task' = task /\ i' = i /\ remaining' = remaining
      /\ pipe' = pipe /\ next' = next /\ got' = got
  BY DEF ParserStep, Refuse, Star, FirstItem, NextItem, EndOfField, ReadsFarOut, Parsed, Item,
         AddRange, parser, writer, reader
<1>2. Typed' /\ Carried'
  BY <1>1 DEF TripInv, Shaped, Typed, Carried
<1> QED BY <1>1, <1>2 DEF TripInv, Shaped, Faithful, Legs, AnyLeg

\* In a leg the invariant is that of the leg.
LEMMA LegKeeps ==
  ASSUME Faithful, leg \in Legs, leg' = leg, task' = task, field' = field, LegInv'
  PROVE  Faithful'
<1>1. leg' # "astray" /\ leg' # "shown"
  BY DEF Legs
<1> QED BY <1>1 DEF Faithful

\* The request of a well-formed text begins a leg that carries its field.
LEMMA BuildKeeps ==
  ASSUME ParserInv, Build
  PROVE  TripInv'
<1>1. PICK argv \in Argvs : Starts("request", [field |-> field, argv |-> argv])
  BY DEF Build
<1>2. field' = field /\ field \in Field /\ argv \in Seq(Seq(Byte))
  BY ParserTyped, ArgvFacts DEF Build, parser
<1> DEFINE t == [field |-> field, argv |-> argv]
<1>3. t.field = field /\ t.argv = argv /\ task' = t /\ leg' = "request" /\ "request" \in Legs
  BY <1>1 DEF Starts, Legs
<1>4. Shaped' /\ LegInv'
  <2> HIDE DEF t
  <2>1. t.field \in Field /\ t.argv \in Seq(Seq(Byte)) /\ t.argv \in Argvs
    BY <1>2, <1>3
  <2> QED BY <1>1, <1>3, <2>1, LegBegins DEF t
<1> HIDE DEF t
<1>5. Faithful'
  BY <1>2, <1>3, <1>4 DEF Faithful
<1> QED BY <1>4, <1>5 DEF TripInv

\* A task that arrives is the one that was sent, if no number was read in part: so the
\* next leg carries the same.
LEMMA DeliverKeeps ==
  ASSUME TripInv, Deliver
  PROVE  TripInv'
<1>1. next = "end" /\ leg \in Legs /\ field' = field /\ cut' = cut
  BY DEF Deliver, Starts, parser, reader, Legs
<1>2. got \in Got /\ Shaped /\ Typed
  BY DEF TripInv, Shaped, Typed, ReadTyped
<1> DEFINE t == [field |-> got.field, argv |-> got.argv]
<1>3. t.field = got.field /\ t.argv = got.argv /\ t.field \in Field /\ t.argv \in Seq(Seq(Byte))
  BY <1>2 DEF Got
<1>4. ~ cut => t.field = field /\ t.argv \in Argvs
  <2> SUFFICES ASSUME ~ cut PROVE t.field = field /\ t.argv \in Argvs
    OBVIOUS
  <2>1. LegInv /\ task.field = field
    BY <1>1 DEF TripInv, Faithful
  <2>2. got.field = task.field /\ got.argv = task.argv
    BY <1>1, <1>2, <2>1, AtTheEnd
  <2>3. task.argv \in Argvs
    BY <2>1 DEF LegInv
  <2> QED BY <1>3, <2>1, <2>2, <2>3
<1>5. \/ Starts("file", t)
      \/ Starts("reply", t)
      \/ leg' = "shown" /\ task' = t /\ UNCHANGED <<writer, pipe, reader>>
  BY DEF Deliver
<1> HIDE DEF t
<1>6. ASSUME NEW l \in {"file", "reply"}, Starts(l, t) PROVE TripInv'
  <2>1. task' = t /\ leg' = l /\ l \in Legs /\ leg' # "astray" /\ leg' # "shown"
    BY <1>6 DEF Starts, Legs
  <2>2. Shaped' /\ (t.argv \in Argvs => LegInv')
    BY <1>3, <1>6, <2>1, LegBegins
  <2>3. ~ cut' => Faithful'
    BY <1>1, <1>4, <2>1, <2>2 DEF Faithful
  <2> QED BY <2>2, <2>3 DEF TripInv
<1>7. CASE leg' = "shown" /\ task' = t /\ UNCHANGED <<writer, pipe, reader>>
  <2>1. Typed'
    BY <1>2, <1>7 DEF Typed, writer, reader
  <2>2. Carried'
    BY <1>3, <1>7 DEF Carried
  <2>3. Shaped'
    BY <1>7, <2>1, <2>2 DEF Shaped, AnyLeg, Legs
  <2>4. ~ cut' => Faithful'
    BY <1>1, <1>4, <1>7 DEF Faithful, Legs
  <2> QED BY <2>3, <2>4 DEF TripInv
<1> QED BY <1>5, <1>6, <1>7

\* What the reader reads keeps the invariant.
LEMMA ReadKeeps ==
  ASSUME TripInv, ReadHead \/ ReadTiming \/ ReadArgc \/ ReadLength \/ ReadByte
  PROVE  TripInv'
<1>1. Shaped /\ Takes
  BY DEF TripInv, ReadHead, ReadTiming, ReadArgc, ReadLength, ReadByte
<1>2. Shaped'
  BY <1>1, HeadTyped, TimingTyped, ArgcTyped, LengthTyped, ByteTyped
<1>3. leg \in Legs /\ task' = task /\ field' = field
  BY <1>1, TakesKeeps
<1>4. ASSUME ~ cut' PROVE Faithful'
  <2>1. ~ cut
    BY <1>1, <1>4 DEF Takes
  <2>2. Faithful /\ LegInv
    BY <1>3, <2>1 DEF TripInv, Faithful
  <2>3. leg' = leg /\ LegInv'
    BY <1>1, <1>4, <2>2, ReadHeadKeeps, ReadTimingKeeps, ReadArgcKeeps, ReadLengthKeeps,
       ReadByteKeeps
  <2> QED BY <1>3, <2>2, <2>3, LegKeeps
<1> QED BY <1>2, <1>4 DEF TripInv

\* What the writer does keeps the invariant.
LEMMA WriteKeeps ==
  ASSUME TripInv, WriteChunk \/ WriterDies
  PROVE  TripInv'
<1>1. leg \in Legs /\ leg' = leg /\ task' = task /\ field' = field /\ cut' = cut
  BY DEF WriteChunk, WriteUpTo, WriterDies, parser, reader
<1>2. Shaped' /\ (LegInv => LegInv')
  BY WriteChunkKeeps, WriterDiesKeeps DEF TripInv
<1>3. Faithful => Faithful'
  BY <1>1, <1>2, LegKeeps DEF Faithful
<1> QED BY <1>1, <1>2, <1>3 DEF TripInv

\* Every step keeps the invariant of the trip.
LEMMA TripNext ==
  ASSUME ParserInv, TripInv, [Next]_vars
  PROVE  TripInv'
<1>1. CASE UNCHANGED vars
  <2>1. /\ leg' = leg /\ task' = task /\ i' = i /\ remaining' = remaining /\ open' = open
        /\ died' = died /\ pipe' = pipe /\ next' = next /\ got' = got /\ field' = field /\ cut' = cut
    BY <1>1 DEF vars, parser, writer, reader
  <2>2. Message' = Message /\ Position' = Position
    BY <2>1 DEF Message, Position
  <2>3. Typed' = Typed /\ Carried' = Carried
    BY <2>1 DEF Typed, Carried
  <2>4. LegInv' = LegInv
    BY <2>1, <2>2 DEF LegInv
  <2>5. Shaped' = Shaped
    BY <2>1, <2>2, <2>3 DEF Shaped
  <2>6. Faithful' = Faithful
    BY <2>1, <2>4 DEF Faithful
  <2> QED BY <2>1, <2>5, <2>6 DEF TripInv
<1> QED BY <1>1, ParserStepKeeps, BuildKeeps, DeliverKeeps, WriteKeeps, ReadKeeps
        DEF Next, Step, ReaderStep

\* The strings do not begin the message.
LEMMA AfterFront ==
  ASSUME Shaped, LegInv, leg \in Legs, NEW k \in 1 .. Len(task.argv)
  PROVE  Place(leg, task.argv, k - 1) > 0
<1> DEFINE q == Ends(StringsOf(task.argv))[k - 1]
<1> DEFINE h == Before(leg)
<1>1. q \in Nat /\ h \in Nat /\ Word \in Nat \ {0}
  BY ReaderFacts, WordFacts DEF Layout
<1>2. Place(leg, task.argv, k - 1) = h + Word + Word + q
  BY DEF Place
<1> HIDE DEF q, h
<1> QED BY <1>1, <1>2

\* The front of a message has room for each number of its header.
LEMMA RoomInFront ==
  ASSUME NEW l \in Legs, NEW k \in Nat, k < Len(Header(l))
  PROVE  Room(k) \in Nat /\ Room(k) + Word <= Before(l)
<1> DEFINE m == Len(Header(l))
<1> DEFINE n == k + 1
<1>1. m \in {1, 3} /\ k < m
  BY HeaderNumbers
<1> HIDE DEF m
<1>2. n \in 1 .. m /\ n - 1 = k
  BY <1>1
<1> HIDE DEF n
<1>3. Room(n - 1) \in Nat /\ Room(n - 1) + Word <= Before(l)
  BY <1>2, HeaderFacts DEF m
<1> QED BY <1>2, <1>3

\* A field that is still to be read ends inside the message.
LEMMA RoomForField ==
  ASSUME Shaped, LegInv, CanRead
  PROVE  Position + Size <= Len(Message)
<1> DEFINE h == Before(leg)
<1> DEFINE p == Ends(StringsOf(task.argv))
<1> DEFINE last == p[Len(task.argv)]
<1> DEFINE m == Len(Message)
<1>1. ReaderState(leg, task.field, task.argv, next, got, Position) /\ leg \in Legs
  BY DEF LegInv, CanRead
<1>2. h \in Nat /\ last \in Nat /\ m = h + Word + Word + last /\ Word \in Nat \ {0}
  BY <1>1, ReaderFacts, WordFacts DEF Layout
<1>3. next \in {"head", "timing", "argc", "length", "byte"}
  BY DEF CanRead, Shaped, Typed, ReadTyped
<1>4. next # "byte" => Size = Word
  BY DEF Size
<1>5. CASE next = "head"
  <2> DEFINE x == Len(got.head)
  <2>1. x < Len(Header(leg)) /\ Position = Room(x)
    BY <1>1, <1>5 DEF ReaderState, HeadState
  <2>2. x \in Nat
    <3>1. got.head \in Seq(Nat)
      BY <1>1, ReaderFacts DEF Got
    <3> QED BY <3>1, LenProperties
  <2> HIDE DEF x
  <2>3. Position \in Nat /\ Position + Word <= h
    BY <1>1, <2>1, <2>2, RoomInFront
  <2> HIDE DEF h, last, m
  <2>4. Position + Word <= m
    BY <1>2, <2>3
  <2> QED BY <1>4, <1>5, <2>4 DEF m
<1>6. CASE next \in {"timing", "argc"}
  <2>1. Position \in {h, h + Word}
    BY <1>1, <1>6 DEF ReaderState, TimingState, ArgcState
  <2> HIDE DEF h, last, m
  <2>2. Position + Word <= m
    BY <1>2, <2>1
  <2> QED BY <1>4, <1>6, <2>2 DEF m
<1>7. CASE next = "length"
  <2> DEFINE n == Len(got.argv)
  <2> DEFINE k == n + 1
  <2>1. n < got.argc /\ got.argc = Len(task.argv) /\ Position = Place(leg, task.argv, n)
    BY <1>1, <1>7 DEF ReaderState, LengthState, Agree
  <2>2. k \in 1 .. Len(task.argv) /\ k - 1 = n
    BY <1>1, <2>1, ReaderFacts
  <2> HIDE DEF n, k
  <2> DEFINE x == Place(leg, task.argv, n)
  <2> DEFINE y == Place(leg, task.argv, k)
  <2> DEFINE e == Len(task.argv[k])
  <2>3. x \in Nat /\ e \in Nat /\ y = x + Word + e /\ y <= m /\ Position = x
    BY <1>1, <2>1, <2>2, PlaceFacts
  <2> HIDE DEF x, y, e, h, last, m
  <2>4. Position + Word <= m
    BY <1>2, <2>3
  <2> QED BY <1>4, <1>7, <2>4 DEF m
<1>8. CASE next = "byte"
  <2> DEFINE n == Len(got.argv)
  <2> DEFINE c == Len(got.argv[n])
  <2>1. /\ n \in 1 .. got.argc /\ got.argc = Len(task.argv)
        /\ c < Len(task.argv[n]) /\ Position = Place(leg, task.argv, n - 1) + Word + c
    BY <1>1, <1>8 DEF ReaderState, ByteState, Agree
  <2>2. c \in Nat
    <3>1. n \in 1 .. Len(got.argv) /\ got.argv \in Seq(Seq(Byte))
      BY <1>1, <2>1, ReaderFacts
    <3> HIDE DEF n
    <3>2. got.argv[n] \in Seq(Byte)
      BY <3>1, ElementOfSeq
    <3> QED BY <3>2, LenProperties
  <2>3. n \in 1 .. Len(task.argv)
    BY <2>1
  <2> HIDE DEF n, c
  <2> DEFINE x == Place(leg, task.argv, n - 1)
  <2> DEFINE y == Place(leg, task.argv, n)
  <2> DEFINE e == Len(task.argv[n])
  <2>4. x \in Nat /\ e \in Nat /\ y = x + Word + e /\ y <= m /\ Position = x + Word + c /\ c < e
    BY <1>1, <2>1, <2>3, PlaceFacts
  <2> HIDE DEF x, y, e, h, last, m
  <2>5. Position + 1 <= m
    BY <1>2, <2>2, <2>4
  <2>6. Size = 1
    BY <1>8 DEF Size
  <2> QED BY <2>5, <2>6 DEF m
<1> QED BY <1>3, <1>5, <1>6, <1>7, <1>8

\* A reader that is at the beginning of the message has read nothing.
LEMMA AtTheStart ==
  ASSUME Shaped, LegInv, CanRead, Position = 0
  PROVE  got = Nothing
<1>1. ReaderState(leg, task.field, task.argv, next, got, Position) /\ leg \in Legs
  BY DEF LegInv, CanRead
<1>2. Before(leg) \in Nat \ {0} /\ Word \in Nat
  <2>1. Before(leg) \in Nat /\ Before(leg) >= Word /\ Word \in Nat \ {0}
    BY <1>1, HeaderFacts, WordFacts
  <2> QED BY <2>1
<1>3. next = "timing" => FALSE
  BY <1>1, <1>2 DEF ReaderState, TimingState
<1>4. next = "argc" => FALSE
  <2> SUFFICES ASSUME next = "argc" PROVE FALSE
    OBVIOUS
  <2> DEFINE h == Before(leg)
  <2>1. 0 = h + Word /\ h \in Nat \ {0}
    BY <1>1, <1>2 DEF ReaderState, ArgcState
  <2> HIDE DEF h
  <2> QED BY <1>2, <2>1
<1>5. next = "length" => FALSE
  <2> SUFFICES ASSUME next = "length" PROVE FALSE
    OBVIOUS
  <2> DEFINE k == Len(got.argv) + 1
  <2>1. Len(got.argv) < got.argc /\ got.argc = Len(task.argv) /\ Position = Place(leg, task.argv, Len(got.argv))
    BY <1>1 DEF ReaderState, LengthState, Agree
  <2>2. k \in 1 .. Len(task.argv) /\ k - 1 = Len(got.argv)
    BY <1>1, <2>1, ReaderFacts
  <2> HIDE DEF k
  <2>3. Place(leg, task.argv, k - 1) > 0
    BY <1>1, <2>2, AfterFront
  <2> QED BY <2>1, <2>2, <2>3
<1>6. next = "byte" => FALSE
  <2> SUFFICES ASSUME next = "byte" PROVE FALSE
    OBVIOUS
  <2> DEFINE k == Len(got.argv)
  <2>1. /\ k \in 1 .. Len(task.argv) /\ k \in 1 .. Len(got.argv)
        /\ Position = Place(leg, task.argv, k - 1) + Word + Len(got.argv[k])
    <3>1. /\ k \in 1 .. got.argc /\ got.argc = Len(task.argv)
          /\ Position = Place(leg, task.argv, k - 1) + Word + Len(got.argv[k])
      BY <1>1 DEF ReaderState, ByteState, Agree
    <3>2. k \in Nat
      BY <1>1, ReaderFacts
    <3> HIDE DEF k
    <3>3. k \in 1 .. Len(task.argv) /\ k \in 1 .. k
      BY <3>1, <3>2
    <3> QED BY <3>1, <3>3 DEF k
  <2>2. Len(got.argv[k]) \in Nat
    <3>1. got.argv \in Seq(Seq(Byte))
      BY <1>1, ReaderFacts
    <3> HIDE DEF k
    <3>2. got.argv[k] \in Seq(Byte)
      BY <2>1, <3>1, ElementOfSeq
    <3> QED BY <3>2, LenProperties
  <2> HIDE DEF k
  <2>3. Place(leg, task.argv, k - 1) > 0 /\ Place(leg, task.argv, k - 1) \in Nat
    BY <1>1, <2>1, AfterFront, PlaceFacts
  <2> DEFINE a == Place(leg, task.argv, k - 1)
  <2> DEFINE b == Len(got.argv[k])
  <2>4. a > 0 /\ a \in Nat /\ b \in Nat /\ 0 = a + Word + b
    BY <2>1, <2>2, <2>3
  <2> HIDE DEF a, b
  <2> QED BY <1>2, <2>4
<1>7. next = "head"
  BY <1>3, <1>4, <1>5, <1>6 DEF CanRead, Shaped, Typed, ReadTyped
<1>8. HeadState(leg, got, Position) /\ got \in Got
  BY <1>1, <1>7, ReaderFacts DEF ReaderState
<1>9. got.head = << >>
  <2> DEFINE n == Len(got.head)
  <2>1. got.head \in Seq(Nat) /\ n < Len(Header(leg)) /\ 0 = Room(n)
    BY <1>8 DEF HeadState, Got
  <2>2. n \in Nat /\ Len(Header(leg)) \in {1, 3}
    BY <1>1, <2>1, LenProperties, HeaderNumbers
  <2>3. n \in 0 .. 2
    <3> DEFINE m == Len(Header(leg))
    <3>1. n \in Nat /\ n < m /\ m \in {1, 3}
      BY <2>1, <2>2
    <3> HIDE DEF n, m
    <3> QED BY <3>1
  <2> HIDE DEF n
  <2>4. n = 0
    BY <2>1, <2>3, WordFacts DEF Room
  <2> QED BY <2>1, <2>4, EmptySeq DEF n
<1> QED BY <1>8, <1>9 DEF HeadState, Nothing, Got

\* The first number that is read in part.
LEMMA ShortRead ==
  ASSUME Shaped, LegInv, Takes, Len(pipe) < Size
  PROVE  /\ i * Chunk < Len(Message)
         /\ died \/ Len(pipe) \in 1 .. Size - 1
         /\ i = 0 => died /\ got = Nothing
<1> DEFINE w == Wrote(Message, i, remaining)
<1> DEFINE m == Len(Message)
<1> DEFINE x == i * Chunk
<1> DEFINE n == Len(pipe)
<1>1. CanRead /\ leg \in Legs /\ n < Size /\ (pipe = << >> => ~ open)
  BY DEF Takes, CanRead
<1>2. WriterState(Message, i, remaining, open, died) /\ pipe \in Seq(Byte) /\ Position \in Nat
  BY <1>1 DEF Shaped, LegInv, PipeState
<1>3. Chunk \in Nat \ {0} /\ i \in Nat /\ remaining \in Nat /\ x \in Nat /\ m \in Nat \ {0}
      /\ n \in Nat
  <2>1. Chunk \in Nat \ {0} /\ i \in Nat /\ remaining \in Nat
    BY <1>2, WidthAssumption DEF WriterState
  <2>2. m \in Nat \ {0}
    BY <1>1, MessageLayout DEF Shaped
  <2> QED BY <1>2, <2>1, <2>2, LenProperties
<1>4. Position + Size <= m
  BY <1>1, RoomForField
<1>5. Position = w - n
  BY DEF Position
<1>6. w = IF i = 0 THEN 0 ELSE IF remaining > Chunk THEN x ELSE m
  BY DEF Wrote
<1>7. /\ i > 0 => remaining + x = m + Chunk
      /\ ~ open /\ ~ died => i > 0 /\ remaining <= Chunk
  BY <1>2 DEF WriterState
<1>8. Size \in Nat \ {0}
  BY WordFacts DEF Size
<1>9. i = 0 => x = 0
  BY <1>3
<1> HIDE DEF w, m, x
<1>10. w < m
  <2> HIDE DEF n
  <2>1. w \in Nat
    BY <1>3, <1>6
  <2> QED BY <1>1, <1>2, <1>3, <1>4, <1>5, <1>8, <2>1
<1>11. x < m
  BY <1>3, <1>6, <1>7, <1>9, <1>10
<1>12. died \/ n \in 1 .. Size - 1
  <2>1. CASE pipe = << >>
    <3>1. ~ open
      BY <1>1, <2>1
    <3>2. ~ died => w = m
      BY <1>3, <1>6, <1>7, <3>1
    <3> QED BY <1>10, <3>2, <1>3, <1>6
  <2>2. CASE pipe # << >>
    <3>1. n # 0
      BY <1>2, <2>2, EmptySeq
    <3> HIDE DEF n
    <3> QED BY <1>1, <1>3, <1>8, <3>1
  <2> QED BY <2>1, <2>2
<1>13. ASSUME i = 0 PROVE died /\ got = Nothing
  <2>1. w = 0
    BY <1>6, <1>13
  <2>2. n = 0 /\ Position = 0
    <3> HIDE DEF n
    <3> QED BY <1>2, <1>3, <1>5, <2>1
  <2>3. pipe = << >>
    BY <1>2, <2>2, EmptySeq
  <2>4. died
    BY <1>1, <1>7, <1>13, <2>3
  <2> QED BY <1>1, <2>2, <2>4, AtTheStart
<1> QED BY <1>11, <1>12, <1>13 DEF x, m

\* Only a read that gets less than it asked for cuts a number.
LEMMA OnlyReadsCut ==
  ASSUME TripInv, [Next]_vars, ~ cut, cut'
  PROVE  Shaped /\ LegInv /\ Takes /\ Len(pipe) < Size
<1>1. ~ Takes => FALSE
  <2> SUFFICES ASSUME ~ Takes PROVE FALSE
    OBVIOUS
  <2>1. ~ ParserStep
    BY DEF ParserStep, Refuse, Star, FirstItem, NextItem, EndOfField, ReadsFarOut, Parsed, Item,
           AddRange, reader
  <2>2. ~ Build /\ ~ Deliver
    BY DEF Build, Deliver, Starts, reader
  <2>3. ~ WriteChunk /\ ~ WriterDies /\ ~ UNCHANGED vars
    BY DEF WriteChunk, WriteUpTo, WriterDies, reader, vars
  <2>4. ~ ReadHead /\ ~ ReadTiming /\ ~ ReadArgc /\ ~ ReadLength /\ ~ ReadByte
    BY DEF ReadHead, ReadTiming, ReadArgc, ReadLength, ReadByte
  <2> QED BY <2>1, <2>2, <2>3, <2>4 DEF Next, Step, ReaderStep
<1>2. Takes
  BY <1>1
<1>3. leg \in Legs /\ Len(pipe) < Size
  BY <1>2 DEF Takes, CanRead
<1> QED BY <1>2, <1>3 DEF TripInv, Faithful

\* At every step of the trip, as long as no number was read in part, the bytes that were
\* read are the ones that were written, and what they are read as is the task that was
\* typed; and whatever was read, every message is written to its end or to the death of
\* its writer (write_buffer, and every reader of a task).
THEOREM TripSound == Spec => [](ParserInv /\ TripInv)
<1>1. Init => ParserInv /\ TripInv
  BY ParserInit, TripInit
<1>2. ParserInv /\ TripInv /\ [Next]_vars => (ParserInv /\ TripInv)'
  BY ParserNext, TripNext
<1> QED BY <1>1, <1>2, PTL DEF Spec

\* Every variable has the shape the code gives it, in a garbled task too.
THEOREM TripTyped == Spec => []TypeOK
<1>1. ParserInv /\ TripInv => TypeOK
  <2> SUFFICES ASSUME ParserInv, TripInv PROVE TypeOK
    OBVIOUS
  <2>1. text \in Texts /\ pos \in 0 .. Wrap - 1 /\ field \in Field
    BY ParserTyped DEF ParserInv
  <2>2. Typed /\ Carried /\ leg \in AnyLeg
    BY DEF TripInv, Shaped
  <2> QED BY <2>1, <2>2 DEF TypeOK, Typed, ReadTyped, Carried, AnyLeg, Field, Byte
<1> QED BY <1>1, TripSound, PTL

\* The first number that is read in part is one where one write ended and the next had
\* not begun, or behind a writer that was killed; never in a message of one write
\* (write_buffer, and the reads of the replies, the requests and the task file): for every
\* task, every PIPE_BUF, every width of a number and every split of the message.
THEOREM ShortReadsAtChunkEnds == Spec => ShortOnlyAtChunkEnd
<1>1. TripInv /\ [Next]_vars =>
        (~ cut /\ cut' =>
           /\ i * Chunk < Len(Message)
           /\ died \/ Len(pipe) \in 1 .. Size - 1
           /\ i = 0 => died /\ got = Nothing)
  BY OnlyReadsCut, ShortRead
<1> QED BY <1>1, TripSound, PTL DEF Spec, ShortOnlyAtChunkEnd

\* What is shown is what was typed unless a read was short on the way: the field that is
\* printed means what the accepted part of the text means, and the command line is one
\* that was given, whatever the task's size, the chunks it was written in and the steps
\* of its readers.
THEOREM ShownMeansTyped == Spec => []ShownIsTyped
<1>1. ParserInv /\ TripInv => ShownIsTyped
  <2> SUFFICES ASSUME ParserInv, TripInv, leg = "shown", ~ cut
               PROVE  /\ Denoted(StringFromField(task.field)) = Denoted(SubSeq(text, 1, pos))
                      /\ task.argv \in Argvs
    BY DEF ShownIsTyped
  <2>1. task.field \in Field /\ task.argv \in Argvs /\ task.field = field
    BY DEF TripInv, Shaped, Carried, Faithful
  <2>2. field = Denoted(SubSeq(text, 1, pos))
    BY DEF ParserInv, ParserState, ReadSoFar
  <2>3. Denoted(StringFromField(task.field)) = task.field
    BY <2>1, PrintedMeansField DEF Field
  <2> QED BY <2>1, <2>2, <2>3
<1> QED BY <1>1, TripSound, PTL
=============================================================================
