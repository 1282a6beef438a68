------------------------- MODULE RunningArrayProofs -------------------------
(***************************************************************************)
(* The array of running tasks is the list it stands for, and a scan of it  *)
(* goes wrong only when the array was moved, shifted or freed meanwhile:   *)
(* for any addresses, any number of tasks and any scanning worker.  The    *)
(* inductive invariant says what the heap holds between any two steps of   *)
(* array.h (Contents, NullOnlyAtStart) and what a scan can count on as     *)
(* long as it has read the array alone (ScanSees).                         *)
(***************************************************************************)
EXTENDS RunningArray, SegmentFacts

OnlyBlock(b) == \A a \in Address \ {b} : heap[a] = Null

Pushing == {"item", "count", "set"}

\* At each step of the main thread there is one block, or none, ...
OneBlock ==
  /\ step \in {"idle", "shift"} => OnlyBlock(array)
  /\ step \in Pushing \cup {"uncount"} => tmp \in Address /\ OnlyBlock(tmp)
  /\ step \in {"free", "done"} => \A a \in Address : heap[a] = Null

\* The elements while memmove goes on.
Shifting(s) ==
  /\ Len(s) = Len(list)
  /\ \A k \in 1 .. Len(list) - 1 : s[k] = IF k >= gone /\ k \notin DOMAIN shift
                                              THEN list[k + 1] ELSE list[k]

BlockOf(n, s) == [size |-> n, item |-> s]

\* ... and this is in it.
Contents ==
  /\ step = "idle" => IF array = Null THEN list = << >>
                                      ELSE heap[array] = BlockOf(Len(list), list)
  /\ step = "item" => heap[tmp] = BlockOf(Len(list), Append(list, Junk))
  /\ step = "count" => heap[tmp] = BlockOf(Len(list), Append(list, last + 1))
  /\ step = "set" => heap[tmp] = BlockOf(Len(list), list)
  /\ step = "shift" => /\ DOMAIN shift \subseteq gone .. Len(list) - 1
                       /\ \A k \in DOMAIN shift : shift[k] = list[k + 1]
                       /\ heap[array] \in Block /\ heap[array].size = Len(list)
                       /\ Shifting(heap[array].item)
  /\ step = "uncount" => heap[tmp] = BlockOf(Len(list), Without(list, gone))
  /\ step \in {"shift", "uncount"} => gone \in DOMAIN list

\* Only an array that was never pushed to, or was freed, has no block.
NullOnlyAtStart ==
  /\ array = Null => \/ step \in {"idle", "item", "count"} /\ list = << >>
                     \/ step = "set" /\ list = << last >>
                     \/ step \in {"done", "dead"}
  /\ step = "done" => array = Null

\* A scan in which nothing was shifted or freed, and that has read the array alone,
\* has its identifier ahead of it; one in which nothing was moved either looks at the
\* block of the array.
ScanSees ==
  /\ spc # "idle" /\ harm \cap {"shifted", "freed"} = {} =>
       /\ array # Null /\ step \in {"idle"} \cup Pushing
       /\ ~stray => \E k \in DOMAIN list : list[k] = Me /\ i < k
  /\ spc # "idle" /\ harm = {} =>
       /\ step \in Pushing => tmp = array
       /\ spc \in {"size", "item"} => ptr = array
       /\ spc \in {"fetch_item", "item"} => i < Len(list)
  /\ spc # "idle" => result = "none"

IInv == /\ TypeOK
        /\ OneBlock
        /\ Contents
        /\ NullOnlyAtStart
        /\ ScanSees
        /\ FoundUnlessDisturbed
        /\ ReadsArrayOnly

-----------------------------------------------------------------------------
(* Sequences. *)

\* The place an append has made takes its item.
LEMMA ItemReplaced ==
  ASSUME NEW l \in Seq(Nat), NEW e \in Nat
  PROVE  [Append(l, Junk) EXCEPT ![Len(l) + 1] = e] = Append(l, e)
<1> DEFINE S == Nat \cup {Junk}
<1> DEFINE old == Append(l, Junk)
<1> DEFINE new == [old EXCEPT ![Len(l) + 1] = e]
<1>1. l \in Seq(S) /\ Len(l) \in Nat
  BY SeqMonotonic, LenProperties, Nat \subseteq S
<1>2. /\ old \in Seq(S) /\ Len(old) = Len(l) + 1
      /\ \A j \in 1 .. Len(l) : old[j] = l[j]
  BY <1>1, AppendProperties, Junk \in S
<1>3. /\ new \in Seq(S) /\ Len(new) = Len(old)
      /\ \A j \in 1 .. Len(old) : new[j] = IF j = Len(l) + 1 THEN e ELSE old[j]
  <2>1. Len(l) + 1 \in 1 .. Len(old) /\ e \in S
    BY <1>1, <1>2
  <2> HIDE DEF old, S
  <2> QED
    BY <2>1, <1>2, ExceptSeq
<1>4. /\ Append(l, e) \in Seq(S) /\ Len(Append(l, e)) = Len(l) + 1
      /\ \A j \in 1 .. Len(l) : Append(l, e)[j] = l[j]
      /\ Append(l, e)[Len(l) + 1] = e
  BY <1>1, AppendProperties, e \in S
<1>5. \A j \in 1 .. Len(new) : new[j] = Append(l, e)[j]
  <2> HIDE DEF old, new
  <2> QED BY <1>1, <1>2, <1>3, <1>4
<1> HIDE DEF new
<1>6. new = Append(l, e)
  BY <1>2, <1>3, <1>4, <1>5, SeqEqual
<1> QED BY <1>6 DEF new

\* Without(l, k) is one element shorter and has the others in their places.
LEMMA WithoutOne ==
  ASSUME NEW l \in Seq(Nat), NEW k \in DOMAIN l
  PROVE  /\ Without(l, k) \in Seq(Nat)
         /\ Len(Without(l, k)) = Len(l) - 1
         /\ \A j \in 1 .. Len(l) - 1 : Without(l, k)[j] = IF j >= k THEN l[j + 1] ELSE l[j]
<1> DEFINE head == SubSeq(l, 1, k - 1)
<1> DEFINE tail == SubSeq(l, k + 1, Len(l))
<1>1. Len(l) \in Nat /\ k \in 1 .. Len(l) /\ k \in Int
  BY LenProperties
<1>a. \A j \in 1 .. Len(l) : l[j] \in Nat
  BY ElementOfSeq
<1>2. /\ head \in Seq(Nat) /\ Len(head) = k - 1
      /\ \A j \in 1 .. k - 1 : head[j] = l[j]
  <2>1. k - 1 \in 0 .. Len(l)
    BY <1>1
  <2> QED BY <2>1, Beginning
<1>3. /\ tail \in Seq(Nat) /\ Len(tail) = Len(l) - k
      /\ \A j \in 1 .. Len(l) - k : tail[j] = l[k + j]
  <2>1. k \in 0 .. Len(l)
    BY <1>1
  <2> QED BY <2>1, Remainder
<1> DEFINE both == head \o tail
<1>4. /\ both \in Seq(Nat)
      /\ Len(both) = Len(head) + Len(tail)
      /\ \A j \in 1 .. Len(head) + Len(tail) :
            both[j] = IF j <= Len(head) THEN head[j] ELSE tail[j - Len(head)]
  <2> HIDE DEF head, tail
  <2> QED BY <1>2, <1>3, ConcatProperties
<1>5. Without(l, k) = both
  BY DEF Without
<1> HIDE DEF head, tail, both
<1>6. Len(both) = Len(l) - 1
  BY <1>1, <1>2, <1>3, <1>4
<1>7. ASSUME NEW j \in 1 .. Len(l) - 1
      PROVE  both[j] = IF j >= k THEN l[j + 1] ELSE l[j]
  <2>1. j \in 1 .. Len(head) + Len(tail)
    BY <1>1, <1>2, <1>3
  <2>2. CASE j <= k - 1
    <3>1. j \in 1 .. k - 1 /\ ~(j >= k) /\ j <= Len(head)
      BY <2>2, <1>1, <1>2
    <3> QED BY <2>1, <3>1, <1>2, <1>4
  <2>3. CASE j >= k
    <3>1. j - (k - 1) \in 1 .. Len(l) - k /\ k + (j - (k - 1)) = j + 1
      BY <2>3, <1>1
    <3>2. both[j] = tail[j - (k - 1)]
      BY <2>1, <2>3, <1>1, <1>2, <1>4
    <3>3. tail[j - (k - 1)] = l[k + (j - (k - 1))]
      BY <3>1, <1>3
    <3> QED BY <3>1, <3>2, <3>3, <2>3
  <2> QED BY <2>2, <2>3, <1>1
<1> QED BY <1>4, <1>5, <1>6, <1>7

\* Once memmove is through, all but the last element are the list without the one
\* removed.
LEMMA ShiftedIsWithout ==
  ASSUME NEW l \in Seq(Nat), NEW k \in DOMAIN l, NEW s \in Seq(Nat \cup {Junk}),
         Len(s) = Len(l),
         \A j \in 1 .. Len(l) - 1 : s[j] = IF j >= k THEN l[j + 1] ELSE l[j]
  PROVE  SubSeq(s, 1, Len(l) - 1) = Without(l, k)
<1> DEFINE S == Nat \cup {Junk}
<1> DEFINE left == SubSeq(s, 1, Len(l) - 1)
<1>1. Len(l) \in Nat /\ Len(l) # 0
  BY LenProperties
<1>2. \A j \in 1 .. Len(s) : s[j] \in S
  BY ElementOfSeq
<1>3. /\ left \in Seq(S)
      /\ Len(left) = (IF 1 <= Len(l) - 1 THEN Len(l) - 1 - 1 + 1 ELSE 0)
      /\ \A j \in 1 .. Len(l) - 1 - 1 + 1 : left[j] = s[1 + j - 1]
  <2>1. 1 \in Int /\ Len(l) - 1 \in Int /\ \A j \in 1 .. Len(l) - 1 : s[j] \in S
    BY <1>1, <1>2
  <2> QED BY <2>1, SubSeqProperties
<1>4. /\ Without(l, k) \in Seq(S) /\ Len(Without(l, k)) = Len(l) - 1
      /\ \A j \in 1 .. Len(l) - 1 : Without(l, k)[j] = IF j >= k THEN l[j + 1] ELSE l[j]
  BY WithoutOne, SeqMonotonic, Nat \subseteq S
<1> HIDE DEF left
<1>5. Len(left) = Len(Without(l, k)) /\ \A j \in 1 .. Len(left) : left[j] = Without(l, k)[j]
  BY <1>1, <1>3, <1>4
<1>6. left = Without(l, k)
  BY <1>3, <1>4, <1>5, SeqEqual
<1> QED BY <1>6 DEF left

\* A block with room for one more element holds the old ones, and junk.
LEMMA ResizedGrows ==
  ASSUME NEW l \in Seq(Nat)
  PROVE  Resized(BlockOf(Len(l), l), Len(l) + 1) = BlockOf(Len(l), Append(l, Junk))
<1> DEFINE S == Nat \cup {Junk}
<1> DEFINE new == [k \in 1 .. Len(l) + 1 |-> Item(BlockOf(Len(l), l), k)]
<1> DEFINE old == Append(l, Junk)
<1>1. l \in Seq(S) /\ Len(l) \in Nat /\ \A k \in 1 .. Len(l) : l[k] \in S
  <2>1. l \in Seq(S)
    BY SeqMonotonic, Nat \subseteq S
  <2> QED BY <2>1, LenProperties, ElementOfSeq
<1>2. \A k \in 1 .. Len(l) + 1 : new[k] = IF k <= Len(l) THEN l[k] ELSE Junk
  BY DEF Item, BlockOf
<1>3. new \in Seq(S) /\ Len(new) = Len(l) + 1
  <2>1. \A k \in 1 .. Len(l) + 1 : new[k] \in S
    BY <1>1, <1>2
  <2>2. new \in [1 .. Len(l) + 1 -> S]
    BY <2>1
  <2> HIDE DEF new
  <2> QED BY <1>1, <2>2
<1>4. /\ old \in Seq(S) /\ Len(old) = Len(l) + 1
      /\ \A j \in 1 .. Len(l) : old[j] = l[j]
      /\ old[Len(l) + 1] = Junk
  BY <1>1, AppendProperties, Junk \in S
<1>5. \A k \in 1 .. Len(new) : new[k] = old[k]
  <2> HIDE DEF new, old
  <2> QED BY <1>1, <1>2, <1>3, <1>4
<1>6. new = old
  <2> HIDE DEF new, old
  <2> QED BY <1>3, <1>4, <1>5, SeqEqual
<1> QED BY <1>6 DEF Resized, BlockOf

\* One with room for one less holds the old ones but the last.
LEMMA ResizedShrinks ==
  ASSUME NEW s \in Seq(Nat \cup {Junk}), NEW n \in Nat \ {0}, Len(s) = n
  PROVE  Resized(BlockOf(n, s), n - 1) = BlockOf(n, SubSeq(s, 1, n - 1))
<1> DEFINE S == Nat \cup {Junk}
<1> DEFINE new == [k \in 1 .. n - 1 |-> Item(BlockOf(n, s), k)]
<1> DEFINE old == SubSeq(s, 1, n - 1)
<1>1. \A k \in 1 .. n : s[k] \in S
  BY ElementOfSeq
<1>2. \A k \in 1 .. n - 1 : new[k] = s[k]
  BY DEF Item, BlockOf
<1>3. new \in Seq(S) /\ Len(new) = n - 1
  <2>1. \A k \in 1 .. n - 1 : new[k] \in S
    BY <1>1, <1>2
  <2>2. new \in [1 .. n - 1 -> S]
    BY <2>1
  <2> HIDE DEF new
  <2> QED BY <2>2
<1>4. old \in Seq(S) /\ Len(old) = n - 1 /\ \A j \in 1 .. n - 1 : old[j] = s[j]
  <2>1. n - 1 \in 0 .. Len(s)
    OBVIOUS
  <2> QED BY <2>1, Beginning
<1>5. new = old
  <2> HIDE DEF new, old
  <2> QED BY <1>2, <1>3, <1>4, SeqEqual
<1> QED BY <1>5 DEF Resized, BlockOf

-----------------------------------------------------------------------------
(* The heap. *)

\* Wherever realloc puts a block, it is the only one.
LEMMA ReallocLeavesOne ==
  ASSUME TypeOK, OnlyBlock(array), NEW b \in Address, NEW block \in Block, Realloc(b, block)
  PROVE  /\ tmp' = b
         /\ heap'[b] = block
         /\ \A a \in Address \ {b} : heap'[a] = Null
         /\ heap' \in [Address -> Block \cup {Null}]
         /\ harm' \subseteq {"moved", "shifted", "freed"}
BY DEF Realloc, OnlyBlock, TypeOK

\* A write into the only block leaves it the only one.
LEMMA WriteLeavesOne ==
  ASSUME TypeOK, NEW b \in Address, OnlyBlock(b), NEW block \in Block,
         heap' = [heap EXCEPT ![b] = block]
  PROVE  /\ heap'[b] = block
         /\ \A a \in Address \ {b} : heap'[a] = Null
         /\ heap' \in [Address -> Block \cup {Null}]
BY DEF OnlyBlock, TypeOK

\* A block has a count and elements, and is not NULL.
LEMMA BlockType ==
  ASSUME NEW n \in Nat, NEW s \in Seq(Nat \cup {Junk})
  PROVE  BlockOf(n, s) \in Block /\ BlockOf(n, s) # Null
         /\ BlockOf(n, s).size = n /\ BlockOf(n, s).item = s
BY ValueAssumption DEF BlockOf, Block

\* Of the list: its length, and the lists one item longer.
LEMMA ListFacts ==
  ASSUME TypeOK
  PROVE  /\ Len(list) \in Nat /\ DOMAIN list = 1 .. Len(list)
         /\ list \in Seq(Nat \cup {Junk})
         /\ \A k \in 1 .. Len(list) : list[k] \in Nat
         /\ \A x \in Nat \cup {Junk} :
              /\ Append(list, x) \in Seq(Nat \cup {Junk})
              /\ Len(Append(list, x)) = Len(list) + 1
              /\ \A k \in 1 .. Len(list) : Append(list, x)[k] = list[k]
              /\ Append(list, x)[Len(list) + 1] = x
<1>1. list \in Seq(Nat)
  BY DEF TypeOK
<1>2. list \in Seq(Nat \cup {Junk})
  BY <1>1, SeqMonotonic, Nat \subseteq Nat \cup {Junk}
<1>3. Len(list) \in Nat /\ DOMAIN list = 1 .. Len(list)
  BY <1>1, LenProperties
<1>4. \A k \in 1 .. Len(list) : list[k] \in Nat
  BY <1>1, ElementOfSeq
<1>5. ASSUME NEW x \in Nat \cup {Junk}
      PROVE  /\ Append(list, x) \in Seq(Nat \cup {Junk})
             /\ Len(Append(list, x)) = Len(list) + 1
             /\ \A k \in 1 .. Len(list) : Append(list, x)[k] = list[k]
             /\ Append(list, x)[Len(list) + 1] = x
  BY <1>2, AppendProperties
<1> QED BY <1>2, <1>3, <1>4, <1>5

\* A list of identifiers stays one when an identifier is pushed.
LEMMA NatListGrows ==
  ASSUME TypeOK, NEW x \in Nat
  PROVE  Append(list, x) \in Seq(Nat)
BY AppendProperties DEF TypeOK

\* What the main thread's steps keep of the array.
ArrayInv == TypeOK /\ OneBlock /\ Contents /\ NullOnlyAtStart

\* Before the first push there is no array.
LEMMA InitArrayInv == Init => ArrayInv
<1> SUFFICES ASSUME Init PROVE ArrayInv
  OBVIOUS
<1>1. << >> \in Seq(Nat) /\ DOMAIN << >> = {}
  <2>1. << >> \in Seq(Nat) /\ Len(<< >>) = 0
    BY EmptySeq
  <2> QED BY <2>1, LenProperties
<1>2. TypeOK
  BY <1>1 DEF Init, TypeOK
<1>3. OneBlock
  BY DEF Init, OneBlock, OnlyBlock, Pushing
<1>4. Contents
  BY DEF Init, Contents
<1>5. NullOnlyAtStart
  BY DEF Init, NullOnlyAtStart
<1> QED BY <1>2, <1>3, <1>4, <1>5 DEF ArrayInv

\* array_push, step by step: the larger block holds the list and one element that
\* is not written yet ...
LEMMA PushKeeps == ArrayInv /\ Push => ArrayInv'
<1> SUFFICES ASSUME ArrayInv, Push PROVE ArrayInv'
  OBVIOUS
<1> DEFINE block == BlockOf(Len(list), Append(list, Junk))
<1>c. Resized(Current, Current.size + 1) = block
  <2>1. Current = BlockOf(Len(list), list)
    BY DEF ArrayInv, Contents, Push, Current, BlockOf
  <2>2. Current.size = Len(list) /\ list \in Seq(Nat)
    BY <2>1 DEF BlockOf, ArrayInv, TypeOK
  <2> QED BY <2>1, <2>2, ResizedGrows
<1>1. PICK b \in Address : Realloc(b, block)
  BY <1>c DEF Push
<1>2. block \in Block
  BY ListFacts, BlockType, Junk \in Nat \cup {Junk} DEF ArrayInv
<1> HIDE DEF block
<1>3. /\ tmp' = b
      /\ heap'[b] = block
      /\ \A a \in Address \ {b} : heap'[a] = Null
      /\ heap' \in [Address -> Block \cup {Null}]
      /\ harm' \subseteq {"moved", "shifted", "freed"}
  BY <1>1, <1>2, ReallocLeavesOne DEF ArrayInv, OneBlock, Push
<1>4. TypeOK'
  BY <1>3 DEF ArrayInv, TypeOK, Push, scan
<1>5. OneBlock'
  BY <1>3 DEF ArrayInv, OneBlock, OnlyBlock, Push, Pushing
<1>6. Contents'
  BY <1>3 DEF Contents, Push, block
<1>7. NullOnlyAtStart'
  BY DEF ArrayInv, NullOnlyAtStart, Contents, Push
<1> QED BY <1>4, <1>5, <1>6, <1>7 DEF ArrayInv

\* ... the new identifier comes behind the others ...
LEMMA PushItemKeeps == ArrayInv /\ PushItem => ArrayInv'
<1> SUFFICES ASSUME ArrayInv, PushItem PROVE ArrayInv'
  OBVIOUS
<1> DEFINE block == BlockOf(Len(list), Append(list, last + 1))
<1>1. tmp \in Address /\ OnlyBlock(tmp)
      /\ heap[tmp] = BlockOf(Len(list), Append(list, Junk))
  BY DEF ArrayInv, OneBlock, Contents, PushItem, WriteItem, Pushing
<1>s. heap[tmp].size = Len(list)
  BY <1>1 DEF BlockOf
<1>2. block \in Block
  <2>1. last + 1 \in Nat \cup {Junk}
    BY DEF ArrayInv, TypeOK
  <2> QED BY <2>1, ListFacts, BlockType DEF ArrayInv
<1>3. heap' = [heap EXCEPT ![tmp] = block]
  <2>1. [Append(list, Junk) EXCEPT ![Len(list) + 1] = last + 1] = Append(list, last + 1)
    <3>1. list \in Seq(Nat) /\ last + 1 \in Nat
      BY DEF ArrayInv, TypeOK
    <3> QED BY <3>1, ItemReplaced
  <2>2. [heap[tmp] EXCEPT !.item[Len(list) + 1] = last + 1] = block
    <3>1. [BlockOf(Len(list), Append(list, Junk)) EXCEPT !.item[Len(list) + 1] = last + 1]
            = BlockOf(Len(list), [Append(list, Junk) EXCEPT ![Len(list) + 1] = last + 1])
      <4> DEFINE n == Len(list)
      <4> DEFINE s == Append(list, Junk)
      <4> HIDE DEF n, s
      <4>1. [BlockOf(n, s) EXCEPT !.item[Len(list) + 1] = last + 1]
              = BlockOf(n, [s EXCEPT ![Len(list) + 1] = last + 1])
        BY DEF BlockOf
      <4> QED BY <4>1 DEF n, s
    <3> QED BY <1>1, <2>1, <3>1
  <2>3. heap' = [heap EXCEPT ![tmp] = [heap[tmp] EXCEPT !.item[Len(list) + 1] = last + 1]]
    BY <1>s DEF PushItem, WriteItem
  <2> QED BY <2>2, <2>3
<1> HIDE DEF block
<1>4. /\ heap'[tmp] = block
      /\ \A a \in Address \ {tmp} : heap'[a] = Null
      /\ heap' \in [Address -> Block \cup {Null}]
  BY <1>1, <1>2, <1>3, WriteLeavesOne DEF ArrayInv
<1>5. TypeOK'
  BY <1>4 DEF ArrayInv, TypeOK, PushItem, WriteItem, scan
<1>6. OneBlock'
  BY <1>1, <1>4 DEF OneBlock, OnlyBlock, PushItem, WriteItem, Pushing
<1>7. Contents'
  BY <1>4 DEF Contents, PushItem, WriteItem, block
<1>8. NullOnlyAtStart'
  BY DEF ArrayInv, NullOnlyAtStart, PushItem, WriteItem
<1> QED BY <1>5, <1>6, <1>7, <1>8 DEF ArrayInv

\* ... the count in front follows ...
LEMMA PushCountKeeps == ArrayInv /\ PushCount => ArrayInv'
<1> SUFFICES ASSUME ArrayInv, PushCount PROVE ArrayInv'
  OBVIOUS
<1> DEFINE block == BlockOf(Len(list) + 1, Append(list, last + 1))
<1>1. tmp \in Address /\ OnlyBlock(tmp)
      /\ heap[tmp] = BlockOf(Len(list), Append(list, last + 1))
  BY DEF ArrayInv, OneBlock, Contents, PushCount, Pushing
<1>2. last + 1 \in Nat /\ Len(list) \in Nat
  BY ListFacts DEF ArrayInv, TypeOK
<1>3. block \in Block
  <2>1. last + 1 \in Nat \cup {Junk} /\ Len(list) + 1 \in Nat
    BY <1>2
  <2> QED BY <2>1, ListFacts, BlockType DEF ArrayInv
<1>4. heap' = [heap EXCEPT ![tmp] = block]
  <2>1. [heap[tmp] EXCEPT !.size = @ + 1] = block
    <3>1. heap[tmp].size = Len(list)
      BY <1>1 DEF BlockOf
    <3>2. \A n, m, l : [[size |-> n, item |-> l] EXCEPT !.size = m] = [size |-> m, item |-> l]
      OBVIOUS
    <3>3. [BlockOf(Len(list), Append(list, last + 1)) EXCEPT !.size = Len(list) + 1] = block
      BY <3>2 DEF BlockOf
    <3> QED BY <1>1, <3>1, <3>3
  <2>2. heap' = [heap EXCEPT ![tmp] = [heap[tmp] EXCEPT !.size = @ + 1]]
    BY DEF PushCount
  <2> QED BY <2>1, <2>2
<1> HIDE DEF block
<1>5. /\ heap'[tmp] = block
      /\ \A a \in Address \ {tmp} : heap'[a] = Null
      /\ heap' \in [Address -> Block \cup {Null}]
  BY <1>1, <1>3, <1>4, WriteLeavesOne DEF ArrayInv
<1>6. list' = Append(list, last + 1) /\ last' = last + 1 /\ step' = "set"
      /\ tmp' = tmp /\ array' = array
  BY DEF PushCount
<1>7. list' \in Seq(Nat) /\ Len(list') = Len(list) + 1
  BY <1>2, <1>6, NatListGrows, ListFacts DEF ArrayInv
<1>8. TypeOK'
  BY <1>2, <1>5, <1>6, <1>7 DEF ArrayInv, TypeOK, PushCount, scan
<1>9. OneBlock'
  BY <1>1, <1>5, <1>6 DEF OneBlock, OnlyBlock, Pushing
<1>10. Contents'
  BY <1>5, <1>6, <1>7 DEF Contents, block
<1>11. NullOnlyAtStart'
  <2>1. ASSUME list = << >> PROVE Append(list, last + 1) = << last + 1 >>
    BY <2>1
  <2> QED BY <1>6, <2>1 DEF ArrayInv, NullOnlyAtStart, PushCount
<1> QED BY <1>8, <1>9, <1>10, <1>11 DEF ArrayInv

\* ... and the pointer, in array_push as in array_remove.
LEMMA SetArrayKeeps == ArrayInv /\ SetArray => ArrayInv'
<1> SUFFICES ASSUME ArrayInv, SetArray PROVE ArrayInv'
  OBVIOUS
<1>1. TypeOK'
  BY DEF ArrayInv, TypeOK, SetArray, scan
<1>2. OneBlock'
  BY DEF ArrayInv, OneBlock, OnlyBlock, SetArray, Pushing
<1>3. array' # Null
  BY ValueAssumption DEF ArrayInv, OneBlock, SetArray, Pushing
<1>4. Contents'
  BY <1>3 DEF ArrayInv, Contents, SetArray
<1>5. NullOnlyAtStart'
  BY <1>3 DEF NullOnlyAtStart, SetArray
<1> QED BY <1>1, <1>2, <1>4, <1>5 DEF ArrayInv

\* array_remove: before memmove begins all elements are in their old places ...
LEMMA RemoveKeeps == ArrayInv /\ (\E k \in DOMAIN list : Remove(k)) => ArrayInv'
<1> SUFFICES ASSUME ArrayInv, NEW k \in DOMAIN list, Remove(k) PROVE ArrayInv'
  OBVIOUS
<1>1. k \in 1 .. Len(list) /\ Len(list) \in Nat /\ list # << >>
  BY ListFacts, EmptySeq DEF ArrayInv
<1>2. array # Null
  BY <1>1 DEF ArrayInv, Contents, Remove
<1>3. heap[array] = BlockOf(Len(list), list)
  BY <1>2 DEF ArrayInv, Contents, Remove
<1>4. heap[array] \in Block /\ heap[array].size = Len(list) /\ heap[array].item = list
  BY <1>1, <1>3, ListFacts, BlockType DEF ArrayInv
<1>s. /\ DOMAIN shift' = k .. Len(list) - 1
      /\ \A j \in k .. Len(list) - 1 : shift'[j] = list[j + 1]
  <2>1. shift' = [j \in k .. Len(list) - 1 |-> Item(heap[array], j + 1)]
    BY <1>4 DEF Remove
  <2>2. \A j \in k .. Len(list) - 1 : Item(heap[array], j + 1) = list[j + 1]
    BY <1>1, <1>4 DEF Item
  <2> QED BY <2>1, <2>2
<1>5. TypeOK'
  BY <1>1, <1>s DEF ArrayInv, TypeOK, Remove, scan
<1>6. OneBlock'
  BY DEF ArrayInv, OneBlock, OnlyBlock, Remove, Pushing
<1>7. Contents'
  <2>1. gone' = k /\ DOMAIN shift' = k .. Len(list) - 1 /\ step' = "shift"
        /\ list' = list /\ heap' = heap /\ array' = array
    BY <1>s DEF Remove
  <2>2. \A j \in 1 .. Len(list) - 1 : ~(j >= k /\ j \notin DOMAIN shift')
    BY <1>1, <2>1
  <2>3. Shifting(heap[array].item)'
    BY <1>4, <2>1, <2>2 DEF Shifting
  <2> QED BY <1>4, <1>s, <2>1, <2>3 DEF Contents
<1>8. NullOnlyAtStart'
  BY <1>2 DEF NullOnlyAtStart, Remove
<1> QED BY <1>5, <1>6, <1>7, <1>8 DEF ArrayInv

\* ... it moves one to its new place ...
LEMMA ShiftKeeps == ArrayInv /\ (\E k \in DOMAIN shift : Shift(k)) => ArrayInv'
<1> SUFFICES ASSUME ArrayInv, NEW k \in DOMAIN shift, Shift(k) PROVE ArrayInv'
  OBVIOUS
<1> DEFINE S == Nat \cup {Junk}
<1> DEFINE s == heap[array].item
<1> DEFINE t == [s EXCEPT ![k] = list[k + 1]]
<1> DEFINE n == Len(list)
<1>1. /\ n \in Nat /\ gone \in 1 .. n /\ DOMAIN shift \subseteq gone .. n - 1
      /\ \A j \in DOMAIN shift : shift[j] = list[j + 1]
      /\ heap[array] \in Block /\ heap[array].size = n
      /\ Len(s) = n
      /\ \A j \in 1 .. n - 1 : s[j] = IF j >= gone /\ j \notin DOMAIN shift
                                      THEN list[j + 1] ELSE list[j]
  BY ListFacts DEF ArrayInv, Contents, Shift, Shifting
<1>2. k \in 1 .. n - 1 /\ k >= gone
  BY <1>1
<1>3. s \in Seq(S) /\ heap[array] = BlockOf(n, s)
  BY <1>1 DEF Block, BlockOf
<1>4. list[k + 1] \in S
  BY <1>1, <1>2, ListFacts DEF ArrayInv
<1>5. /\ t \in Seq(S) /\ Len(t) = n
      /\ \A j \in 1 .. n : t[j] = IF j = k THEN list[k + 1] ELSE s[j]
  <2>1. k \in 1 .. Len(s)
    BY <1>1, <1>2
  <2> HIDE DEF s, S
  <2> QED BY <1>1, <1>3, <1>4, <2>1, ExceptSeq
<1>6. array \in Address /\ OnlyBlock(array)
  BY DEF ArrayInv, TypeOK, OneBlock, NullOnlyAtStart, Shift
<1>7. heap' = [heap EXCEPT ![array] = BlockOf(n, t)]
  <2>1. [heap[array] EXCEPT !.item[k] = list[k + 1]] = BlockOf(n, t)
    <3> DEFINE e == list[k + 1]
    <3> HIDE DEF e, s, n
    <3>1. [BlockOf(n, s) EXCEPT !.item[k] = e] = BlockOf(n, [s EXCEPT ![k] = e])
      BY DEF BlockOf
    <3> QED BY <1>3, <3>1 DEF e
  <2>2. heap' = [heap EXCEPT ![array] = [heap[array] EXCEPT !.item[k] = list[k + 1]]]
    BY <1>1 DEF Shift
  <2> QED BY <2>1, <2>2
<1> HIDE DEF t
<1>8. BlockOf(n, t) \in Block /\ BlockOf(n, t).size = n /\ BlockOf(n, t).item = t
  BY <1>1, <1>5, BlockType
<1>9. /\ heap'[array] = BlockOf(n, t)
      /\ \A a \in Address \ {array} : heap'[a] = Null
      /\ heap' \in [Address -> Block \cup {Null}]
  BY <1>6, <1>7, <1>8, WriteLeavesOne DEF ArrayInv
<1>10. step = "shift" /\ step' = "shift" /\ list' = list /\ gone' = gone
       /\ array' = array /\ DOMAIN shift' = DOMAIN shift \ {k}
       /\ \A j \in DOMAIN shift' : shift'[j] = shift[j]
  BY DEF Shift
<1>11. TypeOK'
  BY <1>9, <1>10 DEF ArrayInv, TypeOK, Shift, scan
<1>12. OneBlock'
  BY <1>9, <1>10 DEF OneBlock, OnlyBlock, Pushing
<1>13. Contents'
  <2>1. Shifting(heap[array].item)'
    <3>1. \A j \in 1 .. n - 1 : t[j] = IF j >= gone /\ j \notin DOMAIN shift \ {k}
                                            THEN list[j + 1] ELSE list[j]
      <4> SUFFICES ASSUME NEW j \in 1 .. n - 1
                   PROVE  t[j] = IF j >= gone /\ j \notin DOMAIN shift \ {k}
                                 THEN list[j + 1] ELSE list[j]
        OBVIOUS
      <4> HIDE DEF s, n
      <4>1. CASE j = k
        BY <1>1, <1>2, <1>5, <4>1
      <4>2. CASE j # k
        <5>1. t[j] = s[j]
          BY <1>1, <1>5, <4>2
        <5>2. j \in DOMAIN shift \ {k} <=> j \in DOMAIN shift
          BY <4>2
        <5> QED BY <1>1, <5>1, <5>2
      <4> QED BY <4>1, <4>2
    <3>2. heap'[array'].item = t
      BY <1>8, <1>9, <1>10
    <3> HIDE DEF s
    <3> QED BY <1>5, <1>10, <3>1, <3>2 DEF Shifting
  <2>2. /\ DOMAIN shift' \subseteq gone' .. Len(list') - 1 /\ gone' \in DOMAIN list'
        /\ \A j \in DOMAIN shift' : shift'[j] = list'[j + 1]
    BY <1>1, <1>10, ListFacts DEF ArrayInv
  <2>3. heap'[array'] \in Block /\ heap'[array'].size = Len(list')
    BY <1>8, <1>9, <1>10
  <2> QED BY <1>10, <2>1, <2>2, <2>3 DEF Contents
<1>14. NullOnlyAtStart'
  BY DEF ArrayInv, NullOnlyAtStart, Shift
<1> QED BY <1>11, <1>12, <1>13, <1>14 DEF ArrayInv

\* ... when it is through, the shorter block holds the list without the one removed ...
LEMMA ShrinkKeeps == ArrayInv /\ Shrink => ArrayInv'
<1> SUFFICES ASSUME ArrayInv, Shrink PROVE ArrayInv'
  OBVIOUS
<1> DEFINE s == heap[array].item
<1> DEFINE n == Len(list)
<1> DEFINE block == BlockOf(n, Without(list, gone))
<1>1. /\ n \in Nat /\ gone \in DOMAIN list
      /\ heap[array] \in Block /\ heap[array].size = n
      /\ Len(s) = n
      /\ \A j \in 1 .. n - 1 : s[j] = IF j >= gone THEN list[j + 1] ELSE list[j]
  BY ListFacts DEF ArrayInv, Contents, Shrink, ShrinkBy, Shifting
<1>2. s \in Seq(Nat \cup {Junk}) /\ heap[array] = BlockOf(n, s)
  BY <1>1 DEF Block, BlockOf
<1>3. list \in Seq(Nat)
  BY DEF ArrayInv, TypeOK
<1>4. SubSeq(s, 1, n - 1) = Without(list, gone)
  <2> HIDE DEF s
  <2> QED BY <1>1, <1>2, <1>3, ShiftedIsWithout
<1>5. Resized(heap[array], heap[array].size - 1) = block
  <2>1. n \in Nat \ {0}
    BY <1>1, ListFacts DEF ArrayInv
  <2> HIDE DEF s, n
  <2>2. Resized(BlockOf(n, s), n - 1) = BlockOf(n, SubSeq(s, 1, n - 1))
    BY <1>1, <1>2, <2>1, ResizedShrinks
  <2> QED BY <1>1, <1>2, <1>4, <2>2
<1>6. PICK b \in Address : Realloc(b, block)
  BY <1>5 DEF Shrink, ShrinkBy
<1>7. block \in Block
  <2>1. Without(list, gone) \in Seq(Nat \cup {Junk})
    BY <1>1, <1>3, WithoutOne, SeqMonotonic, Nat \subseteq Nat \cup {Junk}
  <2> QED BY <1>1, <2>1, BlockType
<1> HIDE DEF block
<1>8. /\ tmp' = b
      /\ heap'[b] = block
      /\ \A a \in Address \ {b} : heap'[a] = Null
      /\ heap' \in [Address -> Block \cup {Null}]
      /\ harm' \subseteq {"moved", "shifted", "freed"}
  BY <1>6, <1>7, ReallocLeavesOne DEF ArrayInv, OneBlock, Shrink, ShrinkBy
<1>9. step' = "uncount" /\ UNCHANGED <<array, gone, shift, list, last, scan>>
  BY DEF Shrink, ShrinkBy
<1>10. TypeOK'
  BY <1>8, <1>9 DEF ArrayInv, TypeOK, scan
<1>11. OneBlock'
  BY <1>8, <1>9 DEF OneBlock, OnlyBlock, Pushing
<1>12. Contents'
  BY <1>1, <1>8, <1>9 DEF Contents, block
<1>13. NullOnlyAtStart'
  BY <1>9 DEF ArrayInv, NullOnlyAtStart, Shrink, ShrinkBy
<1> QED BY <1>10, <1>11, <1>12, <1>13 DEF ArrayInv

\* ... and the count in front follows.
LEMMA PopCountKeeps == ArrayInv /\ PopCount => ArrayInv'
<1> SUFFICES ASSUME ArrayInv, PopCount PROVE ArrayInv'
  OBVIOUS
<1> DEFINE n == Len(list)
<1> DEFINE w == Without(list, gone)
<1>1. /\ tmp \in Address /\ OnlyBlock(tmp) /\ heap[tmp] = BlockOf(n, w)
      /\ gone \in DOMAIN list /\ list \in Seq(Nat) /\ n \in Nat
  BY ListFacts DEF ArrayInv, TypeOK, OneBlock, Contents, PopCount, Uncount
<1>2. w \in Seq(Nat) /\ Len(w) = n - 1 /\ n - 1 \in Nat
  <2>1. n \in Nat \ {0}
    BY <1>1, ListFacts DEF ArrayInv
  <2> QED BY <1>1, <2>1, WithoutOne
<1> HIDE DEF w
<1>3. BlockOf(n - 1, w) \in Block
  BY <1>2, BlockType, SeqMonotonic, Nat \subseteq Nat \cup {Junk}
<1>4. heap' = [heap EXCEPT ![tmp] = BlockOf(n - 1, w)]
  <2>1. [heap[tmp] EXCEPT !.size = @ - 1] = BlockOf(n - 1, w)
    <3> HIDE DEF n
    <3>1. heap[tmp].size = n
      BY <1>1 DEF BlockOf
    <3>2. [BlockOf(n, w) EXCEPT !.size = n - 1] = BlockOf(n - 1, w)
      BY DEF BlockOf
    <3> QED BY <1>1, <3>1, <3>2
  <2>2. heap' = [heap EXCEPT ![tmp] = [heap[tmp] EXCEPT !.size = @ - 1]]
    BY DEF PopCount, Uncount
  <2> QED BY <2>1, <2>2
<1>5. /\ heap'[tmp] = BlockOf(n - 1, w)
      /\ \A a \in Address \ {tmp} : heap'[a] = Null
      /\ heap' \in [Address -> Block \cup {Null}]
  BY <1>1, <1>3, <1>4, WriteLeavesOne DEF ArrayInv
<1>6. step = "uncount" /\ step' = "set" /\ list' = w
      /\ UNCHANGED <<array, tmp, gone, shift, last, scan, harm>>
  BY DEF PopCount, Uncount, w
<1>7. TypeOK'
  BY <1>2, <1>5, <1>6 DEF ArrayInv, TypeOK, scan
<1>8. OneBlock'
  BY <1>1, <1>5, <1>6 DEF OneBlock, OnlyBlock, Pushing
<1>9. Contents'
  BY <1>2, <1>5, <1>6 DEF Contents
<1>10. NullOnlyAtStart'
  BY <1>6 DEF ArrayInv, NullOnlyAtStart
<1> QED BY <1>7, <1>8, <1>9, <1>10 DEF ArrayInv

\* array_free leaves no block ...
LEMMA FreeKeeps == ArrayInv /\ Free => ArrayInv'
<1> SUFFICES ASSUME ArrayInv, Free PROVE ArrayInv'
  OBVIOUS
<1>1. TypeOK'
  BY DEF ArrayInv, TypeOK, Free, scan
<1>2. OneBlock'
  BY DEF ArrayInv, TypeOK, OneBlock, OnlyBlock, Free, Pushing
<1>3. Contents'
  BY DEF Contents, Free
<1>4. NullOnlyAtStart'
  BY DEF NullOnlyAtStart, Free
<1> QED BY <1>1, <1>2, <1>3, <1>4 DEF ArrayInv

\* ... and then no pointer to one.
LEMMA SetNullKeeps == ArrayInv /\ SetNull => ArrayInv'
<1> SUFFICES ASSUME ArrayInv, SetNull PROVE ArrayInv'
  OBVIOUS
<1>1. TypeOK'
  BY DEF ArrayInv, TypeOK, SetNull, scan
<1>2. OneBlock'
  BY DEF ArrayInv, OneBlock, OnlyBlock, SetNull, Pushing
<1>3. Contents'
  BY DEF Contents, SetNull
<1>4. NullOnlyAtStart'
  BY DEF NullOnlyAtStart, SetNull
<1> QED BY <1>1, <1>2, <1>3, <1>4 DEF ArrayInv

-----------------------------------------------------------------------------
(* The scan. *)

\* A scan that reads leaves the array alone.
LEMMA ScanLeavesArray ==
  ASSUME ArrayInv, UNCHANGED main, TypeOK'
  PROVE  ArrayInv'
BY DEF ArrayInv, OneBlock, OnlyBlock, Contents, Shifting, NullOnlyAtStart, main, Block

\* A scan keeps the shape of its variables.
LEMMA ScanType == TypeOK /\ ScanStep => TypeOK'
<1> SUFFICES ASSUME TypeOK, ScanStep PROVE TypeOK'
  OBVIOUS
<1>1. CASE Begin
  BY <1>1 DEF TypeOK, Begin, ScanFrom, main, Ongoing
<1>2. CASE CheckNull
  BY <1>2 DEF TypeOK, CheckNull, Returns, main
<1>3. CASE Fetch
  BY <1>3 DEF TypeOK, Fetch, main
<1>4. CASE ReadSize
  BY <1>4 DEF TypeOK, ReadSize, Returns, main
<1>5. CASE ReadItem
  BY <1>5 DEF TypeOK, ReadItem, Returns, main
<1>6. CASE Fault
  BY <1>6 DEF TypeOK, Fault
<1> QED BY <1>1, <1>2, <1>3, <1>4, <1>5, <1>6 DEF ScanStep

\* No step of either thread leaves the array's part of the invariant.
LEMMA ArrayInvariant == ArrayInv /\ [Next]_vars => ArrayInv'
<1> SUFFICES ASSUME ArrayInv, [Next]_vars PROVE ArrayInv'
  OBVIOUS
<1>1. CASE MainStep
  BY <1>1, PushKeeps, PushItemKeeps, PushCountKeeps, SetArrayKeeps, RemoveKeeps, ShiftKeeps,
     ShrinkKeeps, PopCountKeeps, FreeKeeps, SetNullKeeps DEF MainStep
<1>2. CASE ScanStep /\ ~Fault
  <2>1. UNCHANGED main
    BY <1>2 DEF ScanStep, Begin, ScanFrom, CheckNull, Fetch, ReadSize, ReadItem
  <2> QED BY <1>2, <2>1, ScanType, ScanLeavesArray DEF ArrayInv
<1>4. CASE Fault
  <2>1. TypeOK'
    BY <1>4, ScanType DEF ScanStep, ArrayInv
  <2>2. step' = "dead"
    BY <1>4 DEF Fault
  <2> QED BY <2>1, <2>2 DEF ArrayInv, OneBlock, Contents, NullOnlyAtStart, Pushing
<1>3. CASE UNCHANGED vars
  <2>1. UNCHANGED main /\ TypeOK'
    BY <1>3 DEF vars, main, scan, ArrayInv, TypeOK
  <2> QED BY <2>1, ScanLeavesArray
<1> QED BY <1>1, <1>2, <1>3, <1>4 DEF Next

\* The identifier of a scanning worker stays ahead of it.
LEMMA ScanSeesKept == ArrayInv /\ ScanSees /\ [Next]_vars => ScanSees'
<1> SUFFICES ASSUME ArrayInv, ScanSees, [Next]_vars PROVE ScanSees'
  OBVIOUS
<1>t. TypeOK /\ i \in Nat /\ Len(list) \in Nat /\ DOMAIN list = 1 .. Len(list)
  BY ListFacts DEF ArrayInv, TypeOK
<1>1. CASE Push
  <2>1. PICK b \in Address : Realloc(b, Resized(Current, Current.size + 1))
    BY <1>1 DEF Push
  <2>2. tmp' = b /\ (harm' = {} => harm = {} /\ b = array)
        /\ harm' \cap {"shifted", "freed"} = harm \cap {"shifted", "freed"}
    BY <2>1 DEF Realloc
  <2> QED BY <1>1, <2>2 DEF ScanSees, Push, scan, Pushing
<1>2. CASE PushItem
  BY <1>2 DEF ScanSees, PushItem, WriteItem, scan, Pushing
<1>3. CASE PushCount
  <2>1. /\ Len(list') = Len(list) + 1 /\ DOMAIN list' = 1 .. Len(list) + 1
        /\ \A k \in 1 .. Len(list) : list'[k] = list[k]
    <3>1. last + 1 \in Nat
      BY DEF ArrayInv, TypeOK
    <3>2. list' = Append(list, last + 1) /\ list' \in Seq(Nat)
      BY <1>3, <1>t, <3>1, NatListGrows DEF PushCount
    <3> QED BY <1>t, <3>1, <3>2, ListFacts, LenProperties
  <2>2. UNCHANGED <<array, tmp, scan, harm>> /\ step = "count" /\ step' = "set"
    BY <1>3 DEF PushCount
  <2> QED BY <1>t, <2>1, <2>2 DEF ScanSees, scan, Pushing
<1>4. CASE SetArray
  <2>1. array' # Null
    BY <1>4, ValueAssumption DEF ArrayInv, OneBlock, SetArray, Pushing
  <2> QED BY <1>4, <2>1 DEF ScanSees, SetArray, scan, Pushing
<1>5. CASE \E k \in DOMAIN list : Remove(k)
  BY <1>5 DEF ScanSees, Remove, scan, Pushing
<1>6. CASE \E k \in DOMAIN shift : Shift(k)
  BY <1>6 DEF ScanSees, Shift, scan, Pushing
<1>7. CASE Shrink
  <2>1. harm \subseteq harm'
    BY <1>7 DEF Shrink, ShrinkBy, Realloc
  <2> QED BY <1>7, <2>1 DEF ScanSees, Shrink, ShrinkBy, scan, Pushing
<1>8. CASE PopCount
  BY <1>8 DEF ScanSees, PopCount, Uncount, scan, Pushing
<1>9. CASE Free
  BY <1>9 DEF ScanSees, Free, scan, Pushing
<1>10. CASE SetNull
  BY <1>10 DEF ScanSees, SetNull, scan, Pushing
<1>11. CASE Begin
  <2>1. /\ UNCHANGED main /\ spc' = "check" /\ i' = 0 /\ result' = "none"
        /\ harm' = Ongoing /\ step # "dead"
    BY <1>11 DEF Begin, ScanFrom
  <2>2. PICK k \in DOMAIN list : list[k] = Me /\ (step = "set" => last # Me)
    BY <1>11 DEF Begin, ScanFrom
  <2>3. ASSUME harm' \cap {"shifted", "freed"} = {}
        PROVE  array # Null /\ step \in {"idle"} \cup Pushing
    <3>1. step \notin {"free", "done", "shift", "uncount"}
      BY <2>1, <2>3 DEF Ongoing
    <3>2. step \in {"idle"} \cup Pushing
      BY <2>1, <3>1 DEF ArrayInv, TypeOK, Pushing
    <3>3. list # << >>
      BY <2>2, EmptySeq
    <3>4. ~(step = "set" /\ list = << last >>)
      BY <2>2
    <3> QED BY <2>1, <3>1, <3>2, <3>3, <3>4 DEF ArrayInv, NullOnlyAtStart
  <2>4. harm' = {} /\ step \in Pushing => tmp = array
    BY <2>1 DEF Ongoing, Pushing
  <2> QED BY <1>t, <2>1, <2>2, <2>3, <2>4 DEF ScanSees, main
<1>12. CASE CheckNull
  BY <1>12 DEF ScanSees, CheckNull, Returns, main
<1>13. CASE Fetch
  BY <1>13 DEF ScanSees, Fetch, main
<1>14. CASE ReadSize
  <2>1. CASE spc' = "idle"
    BY <2>1 DEF ScanSees
  <2>2. CASE spc' # "idle"
    <3>1. /\ spc = "size" /\ spc' = "fetch_item" /\ UNCHANGED <<main, ptr, i, harm, result>>
          /\ stray \in BOOLEAN /\ stray' = (stray \/ heap[ptr] = Null)
          /\ heap[ptr] # Null => i < heap[ptr].size
      BY <1>14, <2>2 DEF ReadSize, Returns, ArrayInv, TypeOK
    <3>2. harm = {} => i < Len(list)
      <4> SUFFICES ASSUME harm = {} PROVE i < Len(list)
        OBVIOUS
      <4>1. ptr = array /\ array # Null /\ step \in {"idle"} \cup Pushing
            /\ (step \in Pushing => tmp = array)
        BY <3>1 DEF ScanSees
      <4>2. PICK t \in {list, Append(list, Junk), Append(list, last + 1)} :
              heap[array] = BlockOf(Len(list), t)
        BY <4>1 DEF ArrayInv, Contents, Pushing
      <4>3. t \in Seq(Nat \cup {Junk})
        <5>1. last + 1 \in Nat \cup {Junk}
          BY <1>t DEF TypeOK
        <5> QED BY <1>t, <4>2, <5>1, ListFacts
      <4>4. heap[array] # Null /\ heap[array].size = Len(list)
        BY <1>t, <4>2, <4>3, BlockType
      <4> QED BY <3>1, <4>1, <4>4
    <3> QED BY <3>1, <3>2 DEF ScanSees, main
  <2> QED BY <2>1, <2>2
<1>15. CASE ReadItem
  <2>1. CASE spc' = "idle"
    BY <2>1 DEF ScanSees
  <2>2. CASE spc' # "idle"
    <3>1. /\ spc = "item" /\ spc' = "check" /\ i' = i + 1 /\ UNCHANGED <<main, ptr, harm, result>>
          /\ ptr # Null /\ stray \in BOOLEAN
          /\ ~stray' => ~stray /\ Written
          /\ Written => heap[ptr].item[i + 1] # Me
      BY <1>15, <2>2 DEF ReadItem, Returns, ArrayInv, TypeOK
    <3>2. ASSUME harm \cap {"shifted", "freed"} = {}, ~stray'
          PROVE  \E k \in DOMAIN list : list[k] = Me /\ i + 1 < k
      <4>1. PICK k \in DOMAIN list : list[k] = Me /\ i < k
        BY <3>1, <3>2 DEF ScanSees
      <4>2. array # Null /\ step \in {"idle"} \cup Pushing
        BY <3>1, <3>2 DEF ScanSees
      <4>0. heap[ptr] # Null /\ heap[ptr].item[i + 1] # Me
        BY <3>1, <3>2 DEF Written
      <4>3. heap[ptr].item[k] = list[k]
        <5>1. ptr \in Address
          BY <3>1 DEF ArrayInv, TypeOK
        <5>2. CASE step = "idle"
          BY <5>1, <5>2, <4>0, <4>2 DEF ArrayInv, OneBlock, OnlyBlock, Contents, BlockOf
        <5>3. CASE step \in Pushing
          <6>1. ptr = tmp
            BY <5>1, <5>3, <4>0 DEF ArrayInv, OneBlock, OnlyBlock
          <6>2. heap[ptr].item \in {Append(list, Junk), Append(list, last + 1), list}
            BY <5>3, <6>1 DEF ArrayInv, Contents, BlockOf, Pushing
          <6>3. last + 1 \in Nat \cup {Junk} /\ Junk \in Nat \cup {Junk} /\ k \in 1 .. Len(list)
            BY <1>t DEF TypeOK
          <6> QED BY <6>2, <6>3, <1>t, ListFacts
        <5> QED BY <5>2, <5>3, <4>2
      <4>4. k # i + 1
        BY <4>0, <4>1, <4>3
      <4> QED BY <4>1, <4>4, <1>t
    <3> QED BY <3>1, <3>2 DEF ScanSees, main
  <2> QED BY <2>1, <2>2
<1>17. CASE Fault
  BY <1>17 DEF Fault, ScanSees
<1>16. CASE UNCHANGED vars
  BY <1>16 DEF ScanSees, vars, main, scan
<1> QED BY <1>1, <1>2, <1>3, <1>4, <1>5, <1>6, <1>7, <1>8, <1>9, <1>10, <1>11, <1>12, <1>13,
           <1>14, <1>15, <1>16, <1>17 DEF Next, MainStep, ScanStep

\* What the main thread does to the array is not forgotten before the next scan.
LEMMA HarmGrows == MainStep \/ UNCHANGED vars => harm \subseteq harm' /\ UNCHANGED <<result, stray>>
<1>1. ASSUME NEW b, NEW block, Realloc(b, block) PROVE harm \subseteq harm'
  BY <1>1 DEF Realloc
<1>2. CASE Push
  BY <1>1, <1>2 DEF Push, scan
<1>3. CASE PushItem \/ PushCount \/ SetArray \/ PopCount \/ SetNull
  BY <1>3 DEF PushItem, WriteItem, PushCount, SetArray, PopCount, Uncount, SetNull, scan
<1>4. CASE \E k \in DOMAIN list : Remove(k)
  BY <1>4 DEF Remove, scan
<1>5. CASE \E k \in DOMAIN shift : Shift(k)
  BY <1>5 DEF Shift, scan
<1>6. CASE Shrink
  BY <1>1, <1>6 DEF Shrink, ShrinkBy, scan
<1>7. CASE Free
  BY <1>7 DEF Free, scan
<1>8. CASE UNCHANGED vars
  BY <1>8 DEF vars, scan
<1> QED BY <1>2, <1>3, <1>4, <1>5, <1>6, <1>7, <1>8 DEF MainStep

\* A block that is the array's, between operations or during a push, holds as many
\* elements as it says.
LEMMA BlockReads ==
  ASSUME ArrayInv, array # Null, step \in {"idle"} \cup Pushing, ptr # Null, heap[ptr] # Null
  PROVE  heap[ptr].size = Len(list)
<1>1. ptr \in Address
  BY DEF ArrayInv, TypeOK
<1>2. CASE step = "idle"
  BY <1>1, <1>2 DEF ArrayInv, OneBlock, OnlyBlock, Contents, BlockOf
<1>3. CASE step \in Pushing
  BY <1>1, <1>3 DEF ArrayInv, OneBlock, OnlyBlock, Contents, BlockOf, Pushing
<1> QED BY <1>2, <1>3

\* A scan that is not disturbed does not miss its identifier.
LEMMA FoundKept == IInv /\ [Next]_vars => FoundUnlessDisturbed'
<1> SUFFICES ASSUME IInv, [Next]_vars PROVE FoundUnlessDisturbed'
  OBVIOUS
<1> USE DEF IInv, FoundUnlessDisturbed
<1>1. CASE MainStep \/ UNCHANGED vars
  BY <1>1, HarmGrows
<1>2. CASE Begin
  BY <1>2 DEF Begin, ScanFrom
<1>3. CASE CheckNull
  BY <1>3 DEF CheckNull, Returns, ScanSees
<1>4. CASE Fetch
  BY <1>4 DEF Fetch
<1>5. CASE ReadSize
  <2>1. /\ UNCHANGED <<main, harm>> /\ spc = "size" /\ ptr # Null /\ stray \in BOOLEAN
        /\ ~stray' => ~stray /\ heap[ptr] # Null
        /\ ~stray' => result' = result \/ ~(i < heap[ptr].size)
    BY <1>5 DEF ReadSize, Returns, TypeOK
  <2>2. ASSUME harm \cap {"shifted", "freed"} = {}, ~stray'
        PROVE  i < heap[ptr].size
    <3>1. array # Null /\ step \in {"idle"} \cup Pushing /\ \E k \in DOMAIN list : i < k
      BY <2>1, <2>2 DEF ScanSees
    <3>2. i < Len(list)
      BY <3>1, ListFacts DEF TypeOK
    <3>3. heap[ptr].size = Len(list)
      BY <2>1, <2>2, <3>1, BlockReads DEF ArrayInv
    <3> QED BY <3>2, <3>3
  <2>3. stray' = TRUE \/ ~stray'
    BY <2>1, <1>5 DEF ReadSize
  <2> QED BY <2>1, <2>2, <2>3
<1>6. CASE ReadItem
  BY <1>6 DEF ReadItem, Returns, TypeOK
<1>7. CASE Fault
  BY <1>7 DEF Fault
<1> QED BY <1>1, <1>2, <1>3, <1>4, <1>5, <1>6, <1>7 DEF Next, ScanStep

\* Nor does it read another block, if the array was not moved either.
LEMMA ReadsKept == IInv /\ [Next]_vars => ReadsArrayOnly'
<1> SUFFICES ASSUME IInv, [Next]_vars PROVE ReadsArrayOnly'
  OBVIOUS
<1> USE DEF IInv, ReadsArrayOnly
<1>1. CASE MainStep \/ UNCHANGED vars
  BY <1>1, HarmGrows
<1>2. CASE Begin
  BY <1>2 DEF Begin, ScanFrom
<1>3. CASE CheckNull
  BY <1>3 DEF CheckNull
<1>4. CASE Fetch
  BY <1>4 DEF Fetch
<1>d. ASSUME harm = {}, spc \in {"size", "item"}
      PROVE  ptr # Null /\ heap[ptr] # Null /\ (spc = "item" => Written)
  <2>1. ptr = array /\ array # Null /\ step \in {"idle"} \cup Pushing
        /\ (step \in Pushing => tmp = array) /\ (spc = "item" => i < Len(list))
    BY <1>d DEF ScanSees
  <2>2. last + 1 \in Nat \cup {Junk} /\ Junk \in Nat \cup {Junk} /\ Len(list) \in Nat
        /\ list \in Seq(Nat \cup {Junk}) /\ i \in Nat
        /\ \A k \in 1 .. Len(list) : list[k] \in Nat
    BY ListFacts DEF TypeOK
  <2>3. PICK t \in {list, Append(list, Junk), Append(list, last + 1)} :
          heap[ptr] = BlockOf(Len(list), t)
    BY <2>1 DEF Contents, Pushing
  <2>4. /\ t \in Seq(Nat \cup {Junk}) /\ Len(t) >= Len(list) /\ Len(t) \in Nat
        /\ \A k \in 1 .. Len(list) : t[k] = list[k]
    <3>1. ASSUME NEW x \in {Junk, last + 1}
          PROVE  /\ Append(list, x) \in Seq(Nat \cup {Junk})
                 /\ Len(Append(list, x)) = Len(list) + 1
                 /\ \A k \in 1 .. Len(list) : Append(list, x)[k] = list[k]
      BY <2>2, ListFacts
    <3>2. CASE t = list
      BY <3>2, <2>2
    <3>3. CASE t = Append(list, Junk)
      BY <3>1, <3>3, <2>2
    <3>4. CASE t = Append(list, last + 1)
      BY <3>1, <3>4, <2>2
    <3> QED BY <3>2, <3>3, <3>4
  <2>5. heap[ptr] # Null /\ heap[ptr].item = t
    BY <2>2, <2>3, <2>4, BlockType
  <2>6. ASSUME spc = "item" PROVE Written
    <3>1. i < Len(list) /\ i + 1 \in 1 .. Len(list) /\ i < Len(t)
      BY <2>1, <2>2, <2>4, <2>6
    <3>2. t[i + 1] \in Nat
      BY <2>2, <2>4, <3>1
    <3> QED BY <2>5, <3>1, <3>2, ValueAssumption DEF Written
  <2> QED BY <2>1, <2>5, <2>6
<1>5. CASE ReadSize
  BY <1>5, <1>d DEF ReadSize, Returns, TypeOK
<1>6. CASE ReadItem
  BY <1>6, <1>d DEF ReadItem, Returns, TypeOK
<1>7. CASE Fault
  BY <1>7, <1>d DEF Fault
<1> QED BY <1>1, <1>2, <1>3, <1>4, <1>5, <1>6, <1>7 DEF Next, ScanStep

-----------------------------------------------------------------------------
(* The theorems. *)

\* The inductive invariant holds in every reachable state.
THEOREM Invariance == Spec => []IInv
<1>1. Init => IInv
  BY InitArrayInv DEF IInv, ArrayInv, Init, ScanSees, FoundUnlessDisturbed, ReadsArrayOnly
<1>2. IInv /\ [Next]_vars => IInv'
  BY ArrayInvariant, ScanSeesKept, FoundKept, ReadsKept DEF IInv, ArrayInv
<1> QED BY <1>1, <1>2, PTL DEF Spec

\* Every variable keeps the shape the code gives it.
THEOREM TypeCorrect == Spec => []TypeOK
<1>1. IInv => TypeOK
  BY DEF IInv
<1> QED BY <1>1, Invariance, PTL

\* To the main thread array.h is a list, wherever realloc puts the block and in
\* whatever order memmove goes.
THEOREM ArrayStaysList == Spec => []ArrayIsList
<1>1. IInv => ArrayIsList
  BY DEF IInv, OneBlock, OnlyBlock, Contents, BlockOf, NullOnlyAtStart, ArrayIsList
<1> QED BY <1>1, Invariance, PTL

\* A scan that reads nothing but the array finds its task, whatever the main thread
\* pushes and wherever the block goes, unless the array is shifted or freed meanwhile.
THEOREM UndisturbedFinds == Spec => []FoundUnlessDisturbed
<1>1. IInv => FoundUnlessDisturbed
  BY DEF IInv
<1> QED BY <1>1, Invariance, PTL

\* Memory that is not the array's is read only when the array was moved, shifted or
\* freed during the scan.
THEOREM UnharmedReadsArray == Spec => []ReadsArrayOnly
<1>1. IInv => ReadsArrayOnly
  BY DEF IInv
<1> QED BY <1>1, Invariance, PTL
=============================================================================
