---------------------------- MODULE SegmentFacts ----------------------------
(***************************************************************************)
(* What the two ends of a sequence and the two parts of a concatenation    *)
(* are, and induction over the naturals in a form without an operator: for *)
(* the proofs about Capture, RunningArray and TaskTrip.                    *)
(***************************************************************************)
EXTENDS Integers, Sequences, SequenceTheorems, WellFoundedInduction, TLAPS

\* Every set of naturals has a least element, unless it is empty.
LEMMA Least ==
  ASSUME NEW T \in SUBSET Nat, T # {}
  PROVE  \E x \in T : \A y \in T : x <= y
<1> DEFINE R == OpToRel(<, Nat)
<1>1. IsWellFoundedOn(R, Nat)
  BY NatLessThanWellFounded
<1>2. \A a, b \in Nat : a < b => <<a, b>> \in R
  <2>1. R = {ss \in Nat \X Nat : ss[1] < ss[2]}
    BY DEF OpToRel
  <2> QED BY <2>1
<1> HIDE DEF R
<1>3. PICK x \in T : \A y \in T : ~ (<<y, x>> \in R)
  BY <1>1, WFMin
<1>4. \A y \in T : ~ (y < x)
  BY <1>2, <1>3
<1>5. \A y \in T : x <= y
  BY <1>4
<1> QED BY <1>5

\* A set that holds 0 and, with each natural, the next holds them all.
LEMMA StepByStep ==
  ASSUME NEW S, 0 \in S, \A n \in Nat : n \in S => n + 1 \in S
  PROVE  Nat \subseteq S
<1> SUFFICES ASSUME Nat \ S # {} PROVE FALSE
  OBVIOUS
<1>1. PICK x \in Nat \ S : \A y \in Nat \ S : x <= y
  BY Least
<1>2. x - 1 \in Nat /\ x - 1 \in S
  BY <1>1
<1> QED BY <1>1, <1>2

\* The same for the numbers up to m.
LEMMA StepsUpTo ==
  ASSUME NEW m \in Nat, NEW S, 0 \in S, \A n \in 0 .. m - 1 : n \in S => n + 1 \in S
  PROVE  0 .. m \subseteq S
<1> DEFINE T == S \cup {n \in Nat : n > m}
<1>1. ASSUME NEW n \in Nat, n \in T PROVE n + 1 \in T
  <2>1. CASE n < m
    <3>1. n \in 0 .. m - 1 /\ n \in S
      BY <1>1, <2>1
    <3> QED BY <3>1
  <2>2. CASE ~ (n < m)
    BY <2>2
  <2> QED BY <2>1, <2>2
<1>2. 0 \in T
  OBVIOUS
<1> HIDE DEF T
<1>3. Nat \subseteq T
  BY <1>1, <1>2, StepByStep
<1>4. ASSUME NEW n \in 0 .. m PROVE n \in S
  <2>1. n \in T /\ ~ (n > m)
    BY <1>3
  <2> QED BY <2>1 DEF T
<1> QED BY <1>4

\* f is v at 0, and step says what it is at n from what it is at n - 1.
Iterates(f, m, v, step) == f[0] = v /\ \A n \in 1 .. m : f[n] = step[<<n, f[n - 1]>>]

\* What is defined from a start, step by step, exists.
LEMMA Recursion ==
  ASSUME NEW S, NEW m \in Nat, NEW v \in S, NEW step \in [(1 .. m) \X S -> S]
  PROVE  \E f \in [0 .. m -> S] : Iterates(f, m, v, step)
<1> DEFINE T == {k \in 0 .. m : \E f \in [0 .. k -> S] : Iterates(f, k, v, step)}
<1>1. 0 \in T
  <2> DEFINE f == [n \in 0 .. 0 |-> v]
  <2>1. f \in [0 .. 0 -> S] /\ f[0] = v /\ 1 .. 0 = {} /\ 0 \in 0 .. m
    OBVIOUS
  <2> QED BY <2>1 DEF Iterates
<1>2. ASSUME NEW k \in 0 .. m - 1, k \in T PROVE k + 1 \in T
  <2>1. PICK f \in [0 .. k -> S] : Iterates(f, k, v, step)
    BY <1>2
  <2> DEFINE e == step[<<k + 1, f[k]>>]
  <2> DEFINE g == [n \in 0 .. k + 1 |-> IF n = k + 1 THEN e ELSE f[n]]
  <2>2. k \in Nat /\ k + 1 \in 1 .. m /\ k + 1 \in 0 .. m /\ k \in 0 .. k
    OBVIOUS
  <2>3. e \in S
    <3>1. f[k] \in S
      BY <2>2
    <3> QED BY <2>2, <3>1
  <2>4. f[0] = v /\ \A n \in 1 .. k : f[n] = step[<<n, f[n - 1]>>]
    BY <2>1 DEF Iterates
  <2> HIDE DEF e
  <2>5. g \in [0 .. k + 1 -> S]
    BY <2>2, <2>3
  <2>6. \A n \in 0 .. k : g[n] = f[n]
    BY <2>2
  <2>7. g[k + 1] = e
    BY <2>2
  <2> HIDE DEF g
  <2>8. g[0] = v
    BY <2>2, <2>4, <2>6
  <2>9. ASSUME NEW n \in 1 .. k + 1 PROVE g[n] = step[<<n, g[n - 1]>>]
    <3>1. n - 1 \in 0 .. k
      BY <2>2
    <3>2. CASE n = k + 1
      <4>1. n - 1 = k
        BY <2>2, <3>2
      <4> QED BY <2>6, <2>7, <3>1, <3>2, <4>1 DEF e
    <3>3. CASE n # k + 1
      <4>1. n \in 1 .. k /\ n \in 0 .. k
        BY <2>2, <3>3
      <4> QED BY <2>4, <2>6, <3>1, <4>1
    <3> QED BY <3>2, <3>3
  <2>10. Iterates(g, k + 1, v, step)
    BY <2>8, <2>9 DEF Iterates
  <2> QED BY <2>2, <2>5, <2>10
<1> HIDE DEF T
<1>3. 0 .. m \subseteq T
  BY <1>1, <1>2, StepsUpTo
<1>4. m \in T
  BY <1>3
<1> QED BY <1>4 DEF T

\* What the first n elements of a sequence are.
LEMMA Beginning ==
  ASSUME NEW S, NEW b \in Seq(S), NEW n \in 0 .. Len(b)
  PROVE  /\ SubSeq(b, 1, n) \in Seq(S)
         /\ Len(SubSeq(b, 1, n)) = n
         /\ \A j \in 1 .. n : SubSeq(b, 1, n)[j] = b[j]
<1>1. Len(b) \in Nat /\ 1 \in Int /\ n \in Int
  BY LenProperties
<1>2. \A j \in 1 .. n : b[j] \in S
  BY <1>1, ElementOfSeq
<1> DEFINE h == SubSeq(b, 1, n)
<1>3. /\ h \in Seq(S) /\ Len(h) = (IF 1 <= n THEN n - 1 + 1 ELSE 0)
      /\ \A j \in 1 .. n - 1 + 1 : h[j] = b[1 + j - 1]
  BY <1>1, <1>2, SubSeqProperties
<1> HIDE DEF h
<1>4. Len(h) = n /\ \A j \in 1 .. n : h[j] = b[j]
  BY <1>1, <1>3
<1> QED BY <1>3, <1>4 DEF h

\* What is left of a sequence behind its first n elements.
LEMMA Remainder ==
  ASSUME NEW S, NEW b \in Seq(S), NEW n \in 0 .. Len(b)
  PROVE  /\ SubSeq(b, n + 1, Len(b)) \in Seq(S)
         /\ Len(SubSeq(b, n + 1, Len(b))) = Len(b) - n
         /\ \A j \in 1 .. Len(b) - n : SubSeq(b, n + 1, Len(b))[j] = b[n + j]
<1>1. Len(b) \in Nat /\ n + 1 \in Int /\ Len(b) \in Int /\ n \in Nat
  BY LenProperties
<1>2. \A j \in n + 1 .. Len(b) : b[j] \in S
  BY <1>1, ElementOfSeq
<1> DEFINE t == SubSeq(b, n + 1, Len(b))
<1>3. /\ t \in Seq(S)
      /\ Len(t) = (IF n + 1 <= Len(b) THEN Len(b) - (n + 1) + 1 ELSE 0)
      /\ \A j \in 1 .. Len(b) - (n + 1) + 1 : t[j] = b[n + 1 + j - 1]
  BY <1>1, <1>2, SubSeqProperties
<1> HIDE DEF t
<1>4. Len(t) = Len(b) - n
  BY <1>1, <1>3
<1>5. ASSUME NEW j \in 1 .. Len(b) - n PROVE t[j] = b[n + j]
  <2>1. n + 1 + j - 1 = n + j /\ j \in 1 .. Len(b) - (n + 1) + 1
    BY <1>1
  <2> QED BY <1>3, <2>1
<1> QED BY <1>3, <1>4, <1>5 DEF t
\* What a part of a sequence is.
LEMMA Part ==
  ASSUME NEW S, NEW t \in Seq(S), NEW a \in 1 .. Len(t) + 1, NEW b \in a - 1 .. Len(t)
  PROVE  /\ SubSeq(t, a, b) \in Seq(S)
         /\ Len(SubSeq(t, a, b)) = b + 1 - a
         /\ DOMAIN SubSeq(t, a, b) = 1 .. b + 1 - a
         /\ \A j \in 1 .. b + 1 - a : SubSeq(t, a, b)[j] = t[a - 1 + j]
<1>1. Len(t) \in Nat /\ a \in Int /\ b \in Int /\ a \in Nat \ {0} /\ b \in Nat
  BY LenProperties
<1>2. \A j \in a .. b : t[j] \in S
  BY <1>1, ElementOfSeq
<1> DEFINE s == SubSeq(t, a, b)
<1>3. /\ s \in Seq(S) /\ Len(s) = IF a <= b THEN b - a + 1 ELSE 0
      /\ \A j \in 1 .. b - a + 1 : s[j] = t[a + j - 1]
  BY <1>1, <1>2, SubSeqProperties
<1> HIDE DEF s
<1>4. Len(s) = b + 1 - a
  BY <1>1, <1>3
<1>5. DOMAIN s = 1 .. b + 1 - a
  BY <1>3, <1>4, LenProperties
<1>6. ASSUME NEW j \in 1 .. b + 1 - a PROVE s[j] = t[a - 1 + j]
  <2>1. j \in 1 .. b - a + 1 /\ a + j - 1 = a - 1 + j
    BY <1>1
  <2> QED BY <1>3, <2>1
<1> QED BY <1>3, <1>4, <1>5, <1>6 DEF s

\* A part of a part.
LEMMA PartOfPart ==
  ASSUME NEW S, NEW t \in Seq(S), NEW a \in 1 .. Len(t) + 1, NEW b \in a - 1 .. Len(t),
         NEW c \in 1 .. b + 2 - a, NEW d \in c - 1 .. b + 1 - a
  PROVE  SubSeq(SubSeq(t, a, b), c, d) = SubSeq(t, a - 1 + c, a - 1 + d)
<1> DEFINE s == SubSeq(t, a, b)
<1> DEFINE x == SubSeq(s, c, d)
<1> DEFINE y == SubSeq(t, a - 1 + c, a - 1 + d)
<1>1. Len(t) \in Nat /\ a \in Nat \ {0} /\ b \in Nat /\ c \in Nat \ {0} /\ d \in Nat
  BY LenProperties
<1>2. s \in Seq(S) /\ Len(s) = b + 1 - a /\ \A j \in 1 .. b + 1 - a : s[j] = t[a - 1 + j]
  BY Part
<1> HIDE DEF s
<1>3. c \in 1 .. Len(s) + 1 /\ d \in c - 1 .. Len(s)
  BY <1>1, <1>2
<1>4. x \in Seq(S) /\ Len(x) = d + 1 - c /\ \A j \in 1 .. d + 1 - c : x[j] = s[c - 1 + j]
  BY <1>2, <1>3, Part
<1>5. /\ a - 1 + c \in 1 .. Len(t) + 1 /\ a - 1 + d \in a - 1 + c - 1 .. Len(t)
      /\ a - 1 + d + 1 - (a - 1 + c) = d + 1 - c
  BY <1>1
<1> HIDE DEF x
<1>6. /\ y \in Seq(S) /\ Len(y) = a - 1 + d + 1 - (a - 1 + c)
      /\ \A j \in 1 .. a - 1 + d + 1 - (a - 1 + c) : y[j] = t[a - 1 + c - 1 + j]
  BY <1>5, Part
<1> HIDE DEF y
<1>7. ASSUME NEW j \in 1 .. d + 1 - c PROVE x[j] = y[j]
  <2>1. c - 1 + j \in 1 .. b + 1 - a /\ a - 1 + (c - 1 + j) = a - 1 + c - 1 + j
    BY <1>1
  <2>2. x[j] = t[a - 1 + (c - 1 + j)]
    BY <1>2, <1>4, <2>1
  <2>3. y[j] = t[a - 1 + c - 1 + j]
    BY <1>5, <1>6
  <2> QED BY <2>1, <2>2, <2>3
<1>8. Len(x) = Len(y) /\ \A j \in 1 .. Len(x) : x[j] = y[j]
  BY <1>4, <1>5, <1>6, <1>7
<1>9. x = y
  BY <1>4, <1>6, <1>8, SeqEqual
<1> QED BY <1>9 DEF x, y, s

\* What the two parts of a concatenation are.
LEMMA Joined ==
  ASSUME NEW S, NEW a \in Seq(S), NEW b \in Seq(S)
  PROVE  /\ a \o b \in Seq(S)
         /\ Len(a \o b) = Len(a) + Len(b)
         /\ \A j \in 1 .. Len(a) : (a \o b)[j] = a[j]
         /\ \A j \in 1 .. Len(b) : (a \o b)[Len(a) + j] = b[j]
<1>1. Len(a) \in Nat /\ Len(b) \in Nat
  BY LenProperties
<1> DEFINE c == a \o b
<1>2. /\ c \in Seq(S) /\ Len(c) = Len(a) + Len(b)
      /\ \A j \in 1 .. Len(a) + Len(b) : c[j] = IF j <= Len(a) THEN a[j] ELSE b[j - Len(a)]
  BY ConcatProperties
<1> HIDE DEF c
<1>3. ASSUME NEW j \in 1 .. Len(b) PROVE c[Len(a) + j] = b[j]
  <2>1. Len(a) + j \in 1 .. Len(a) + Len(b) /\ ~ (Len(a) + j <= Len(a)) /\ Len(a) + j - Len(a) = j
    BY <1>1
  <2>2. c[Len(a) + j] = b[Len(a) + j - Len(a)]
    BY <1>2, <2>1
  <2> QED BY <2>1, <2>2
<1>4. ASSUME NEW j \in 1 .. Len(a) PROVE c[j] = a[j]
  <2>1. j \in 1 .. Len(a) + Len(b) /\ j <= Len(a)
    BY <1>1
  <2> QED BY <1>2, <2>1
<1> QED BY <1>2, <1>3, <1>4 DEF c
=============================================================================
