---------------------------- MODULE RunningArray ----------------------------
(***************************************************************************)
(* g_running_taskids as array.h keeps it: a block of the heap with the     *)
(* number of elements in front.  The main thread pushes, removes and at    *)
(* last frees; a worker scans it in is_worker_running, without a lock and, *)
(* built without optimisation, fetching the pointer anew for each access.  *)
(* What it reads of memory that is not the array's any more is whatever    *)
(* happens to be there, and the scan goes on with it.                      *)
(***************************************************************************)
EXTENDS Integers, Sequences

CONSTANTS Address,    \* where realloc may put a block
          Null,       \* the NULL pointer, and the contents of a freed block
          Junk,       \* an element not written yet
          MaxTaskid,  \* BOUND: identifiers go up to it
          Me          \* the identifier of the scanning worker's task

ASSUME IdAssumption == MaxTaskid \in Nat /\ Me \in Nat
ASSUME ValueAssumption == Null \notin Address /\ Junk \notin Nat /\ Null \notin [size : Nat, item : Seq(Nat \cup {Junk})]

VARIABLES
  array,    \* g_running_taskids
  heap,     \* the block at each address, Null if there is none
  step,     \* where the main thread is in array.h, or "dead" for the process
  tmp,      \* the block realloc returned
  gone,     \* the index it removes
  shift,    \* what memmove has read and still has to write, by index
  spc,      \* where the scanning worker is
  ptr, i,   \* the pointer it has fetched, its loop counter
  result,   \* what the scan returned
  list,     \* history: the identifiers pushed and not removed, in order
  last,     \* history: the identifier pushed last
  harm,     \* history: what happened to the array since the scan began
  stray     \* history: has this scan read memory that is not the array's?

main == <<array, heap, step, tmp, gone, shift, list, last>>
scan == <<spc, ptr, i, result, stray>>
vars == <<main, scan, harm>>

Without(l, k) == SubSeq(l, 1, k - 1) \o SubSeq(l, k + 1, Len(l))

Init == /\ array = Null /\ heap = [a \in Address |-> Null]
        /\ step = "idle" /\ tmp = Null /\ gone = 0 /\ shift = << >>
        /\ spc = "idle" /\ ptr = Null /\ i = 0 /\ result = "none"
        /\ list = << >> /\ last = 0
        /\ harm = {} /\ stray = FALSE

-----------------------------------------------------------------------------
(* array.h, called by the main thread. *)

\* realloc resizes the block where it is, or copies it elsewhere and frees it.
Realloc(b, block) ==
  /\ b = array \/ heap[b] = Null
  /\ heap' = [a \in Address |-> IF a = b THEN block
                                ELSE IF a = array THEN Null ELSE heap[a]]
  /\ tmp' = b
  /\ harm' = IF b = array THEN harm ELSE harm \cup {"moved"}

\* The block of the array as it is; a NULL array counts as empty.
Current == IF array = Null THEN [size |-> 0, item |-> << >>] ELSE heap[array]

\* Behind the end of a block anything may be.
Item(block, k) == IF k <= Len(block.item) THEN block.item[k] ELSE Junk

\* The block made to hold n elements: it keeps those that fit in.
Resized(block, n) == [size |-> block.size, item |-> [k \in 1 .. n |-> Item(block, k)]]

\* array_push: room for one more ...
Push == /\ step = "idle" /\ last < MaxTaskid   \* BOUND
        /\ \E b \in Address : Realloc(b, Resized(Current, Current.size + 1))
        /\ step' = "item"
        /\ UNCHANGED <<array, gone, shift, list, last, scan>>

\* ... the item, behind the others ...
WriteItem(index) == /\ step = "item"
                    /\ heap' = [heap EXCEPT ![tmp].item[index] = last + 1]
                    /\ step' = "count"
                    /\ UNCHANGED <<array, tmp, gone, shift, list, last, scan, harm>>

\* Mutant: the item is written over the first one.
PushItemFirst == WriteItem(1)

PushItem == WriteItem(heap[tmp].size + 1)

\* ... then the number of elements ...
PushCount == /\ step = "count"
             /\ heap' = [heap EXCEPT ![tmp].size = @ + 1]
             /\ list' = Append(list, last + 1)
             /\ last' = last + 1
             /\ step' = "set"
             /\ UNCHANGED <<array, tmp, gone, shift, scan, harm>>

\* ... and the pointer.
SetArray == /\ step = "set"
            /\ array' = tmp
            /\ step' = "idle"
            /\ UNCHANGED <<heap, tmp, gone, shift, list, last, scan, harm>>

\* array_remove, of an identifier whose worker was joined: memmove moves the
\* elements behind it ...
Remove(k) == /\ step = "idle" /\ array # Null /\ k \in 1 .. heap[array].size
             /\ Item(heap[array], k) = Me => spc = "idle"
             /\ gone' = k
             /\ shift' = [j \in k .. heap[array].size - 1 |-> Item(heap[array], j + 1)]
             /\ step' = "shift"
             /\ harm' = harm \cup {"shifted"}
             /\ UNCHANGED <<array, heap, tmp, list, last, scan>>

\* (in any order: it may read several before it writes them) ...
Shift(k) == /\ step = "shift" /\ k \in DOMAIN shift
            /\ heap' = [heap EXCEPT ![array].item[k] = shift[k]]
            /\ shift' = [j \in DOMAIN shift \ {k} |-> shift[j]]
            /\ UNCHANGED <<array, step, tmp, gone, list, last, scan, harm>>

\* ... array_pop_internal makes the block an element shorter ...
ShrinkBy(n) == /\ step = "shift" /\ DOMAIN shift = {}
               /\ \E b \in Address : Realloc(b, Resized(heap[array], heap[array].size - n))
               /\ step' = "uncount"
               /\ UNCHANGED <<array, gone, shift, list, last, scan>>

\* Mutant: the new length leaves the number of elements in front out of account.
ShrinkMore == ShrinkBy(2)

Shrink == ShrinkBy(1)

\* ... and counts one less.
Uncount(n) == /\ step = "uncount"
              /\ heap' = [heap EXCEPT ![tmp].size = @ - n]
              /\ list' = Without(list, gone)
              /\ step' = "set"
              /\ UNCHANGED <<array, tmp, gone, shift, last, scan, harm>>

\* Mutant: array_remove counts one less, and array_pop again.
PopCountTwice == Uncount(2)

PopCount == Uncount(1)

\* array_free, at the cleanup: the block, then the pointer.
Free == /\ step = "idle" /\ array # Null
        /\ heap' = [heap EXCEPT ![array] = Null]
        /\ harm' = harm \cup {"freed"}
        /\ step' = "free"
        /\ UNCHANGED <<array, tmp, gone, shift, list, last, scan>>

SetNull == /\ step = "free"
           /\ array' = Null
           /\ step' = "done"
           /\ UNCHANGED <<heap, tmp, gone, shift, list, last, scan, harm>>

-----------------------------------------------------------------------------
(* is_worker_running(Me), in a worker. *)

\* What is going on in the array as the scan begins.
Ongoing == (IF step \in {"free", "done"} THEN {"freed"} ELSE {})
           \cup (IF step \in {"shift", "uncount"} THEN {"shifted"} ELSE {})
           \cup (IF step \in {"item", "count", "uncount", "set"} /\ tmp # array
                 THEN {"moved"} ELSE {})

\* The worker is started after the push of its identifier, and joined before its
\* removal.
ScanFrom(index) == /\ spc = "idle" /\ step # "dead"
                   /\ \E k \in DOMAIN list : list[k] = Me /\ (step = "set" => last # Me)
                   /\ ~(step \in {"shift", "uncount"} /\ list[gone] = Me)
                   /\ spc' = "check"
                   /\ i' = index /\ ptr' = Null /\ result' = "none"
                   /\ harm' = Ongoing /\ stray' = FALSE
                   /\ UNCHANGED main

\* Mutant: the loop starts at 1.
BeginAtOne == ScanFrom(1)

Begin == ScanFrom(0)

Returns(answer) == spc' = "idle" /\ result' = answer

\* array_size compares the pointer with NULL ...
CheckNull == /\ spc = "check"
             /\ IF array = Null THEN Returns("missed") ELSE spc' = "fetch" /\ UNCHANGED result
             /\ UNCHANGED <<main, ptr, i, harm, stray>>

\* ... and fetches it again; the element is read through yet another copy.
Fetch == /\ spc \in {"fetch", "fetch_item"}
         /\ ptr' = array
         /\ spc' = IF spc = "fetch" THEN "size" ELSE "item"
         /\ UNCHANGED <<main, i, result, harm, stray>>

\* A pointer that has become NULL kills the process.
Fault == /\ spc \in {"size", "item"} /\ ptr = Null
         /\ step' = "dead" /\ spc' = "idle"
         /\ stray' = TRUE
         /\ UNCHANGED <<array, heap, tmp, gone, shift, list, last, ptr, i, result, harm>>

\* The number of elements; a block that was freed holds anything there ...
ReadSize == /\ spc = "size" /\ ptr # Null
            /\ \E size \in IF heap[ptr] = Null THEN 0 .. MaxTaskid   \* BOUND
                                               ELSE {heap[ptr].size} :
                 IF i < size THEN spc' = "fetch_item" /\ UNCHANGED result
                             ELSE Returns("missed")
            /\ stray' = (stray \/ heap[ptr] = Null)
            /\ UNCHANGED <<main, ptr, i, harm>>

\* ... and so does what lies behind the end of a block, or was not written yet.
Written == /\ heap[ptr] # Null
           /\ i < Len(heap[ptr].item)
           /\ heap[ptr].item[i + 1] # Junk

ReadItem == /\ spc = "item" /\ ptr # Null
            /\ \E mine \in IF Written THEN {heap[ptr].item[i + 1] = Me} ELSE BOOLEAN :
                 IF mine THEN Returns("found") /\ UNCHANGED i
                         ELSE spc' = "check" /\ i' = i + 1 /\ UNCHANGED result
            /\ stray' = (stray \/ ~Written)
            /\ UNCHANGED <<main, ptr, harm>>

-----------------------------------------------------------------------------
MainStep == \/ Push \/ PushItem \/ PushCount \/ SetArray
            \/ \E k \in DOMAIN list : Remove(k)
            \/ \E k \in DOMAIN shift : Shift(k)
            \/ Shrink \/ PopCount \/ Free \/ SetNull

ScanStep == Begin \/ CheckNull \/ Fetch \/ Fault \/ ReadSize \/ ReadItem

Next == MainStep \/ ScanStep

Spec == Init /\ [][Next]_vars

-----------------------------------------------------------------------------
(* Properties. *)

Block == [size : Nat, item : Seq(Nat \cup {Junk})]

\* Every variable has the shape the code gives it.
TypeOK == /\ array \in Address \cup {Null} /\ tmp \in Address \cup {Null}
          /\ heap \in [Address -> Block \cup {Null}]
          /\ step \in {"idle", "item", "count", "set", "shift", "uncount", "free", "done",
                      "dead"}
          /\ gone \in Nat /\ DOMAIN shift \subseteq Nat
          /\ spc \in {"idle", "check", "fetch", "size", "fetch_item", "item"}
          /\ ptr \in Address \cup {Null} /\ i \in Nat
          /\ result \in {"none", "found", "missed"}
          /\ list \in Seq(Nat) /\ last \in Nat
          /\ harm \subseteq {"moved", "shifted", "freed"} /\ stray \in BOOLEAN

\* To the main thread the array is the list of what it pushed and did not remove,
\* in order, wherever realloc has put it; and no other block is left behind.
ArrayIsList ==
  /\ step = "idle" =>
       IF array = Null THEN list = << >>
       ELSE heap[array] = [size |-> Len(list), item |-> list]
  /\ step \in {"idle", "done"} => \A a \in Address \ {array} : heap[a] = Null

\* A worker is told that its task is gone, and leaves its loop, only because the
\* daemon shuts down, or another task was removed during its scan, or it read
\* memory that is not the array's: while the array only grows where it is, or is
\* moved behind its back, a scan that reads the array finds the task.
FoundUnlessDisturbed == result = "missed" => stray \/ harm \cap {"shifted", "freed"} # {}

\* Memory that is not the array's is read only if the array was moved, shrunk or
\* freed during the scan.
ReadsArrayOnly == stray => harm # {}
=============================================================================
