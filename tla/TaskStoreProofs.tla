-------------------------- MODULE TaskStoreProofs ---------------------------
(***************************************************************************)
(* TaskStore keeps its promise, for any identifiers and definitions.  What *)
(* the promise needs beside itself: what is served is stored, and nothing  *)
(* is served while the daemon is down.                                     *)
(***************************************************************************)
EXTENDS TaskStore, TLAPS

ServedIsStored == /\ serving \subseteq Stored /\ ended \subseteq Stored
                  /\ ~up => serving = {} /\ ended = {}

Inv == TypeOK /\ Promise /\ ServedIsStored

\* A store that has just been made holds nothing and has promised nothing.
LEMMA InitInv == Init => Inv
BY DEF Init, Inv, TypeOK, Promise, ServedIsStored, Stored, Acked

\* Each of the eight operations of the store keeps its promise.
LEMMA NextInv == Inv /\ [Next]_vars => Inv'
<1> SUFFICES ASSUME Inv, [Next]_vars
             PROVE  Inv'
  OBVIOUS
<1> USE DEF Inv, TypeOK, Promise, ServedIsStored, Stored, Acked
<1>1. CASE Resume
  BY <1>1 DEF Resume
<1>2. CASE Stop
  BY <1>2 DEF Stop
<1>3. ASSUME NEW id \in TaskId, NEW p \in Payload \cup {CutTask}, Store(id, p)
      PROVE  Inv'
  BY <1>3 DEF Store
<1>4. ASSUME NEW id \in TaskId, Schedule(id)
      PROVE  Inv'
  BY <1>4 DEF Schedule
<1>5. ASSUME NEW id \in TaskId, Acknowledge(id)
      PROVE  Inv'
  BY <1>5 DEF Acknowledge
<1>6. ASSUME NEW id \in TaskId, Withdraw(id)
      PROVE  Inv'
  BY <1>6 DEF Withdraw
<1>7. ASSUME NEW id \in TaskId, Erase(id)
      PROVE  Inv'
  BY <1>7 DEF Erase
<1>8. ASSUME NEW id \in TaskId, End(id)
      PROVE  Inv'
  BY <1>8 DEF End
<1>9. CASE UNCHANGED vars
  BY <1>9 DEF vars
<1> QED
  BY <1>1, <1>2, <1>3, <1>4, <1>5, <1>6, <1>7, <1>8, <1>9 DEF Next

\* A task a client was told of stays stored as described, and a daemon that is
\* up runs it or counts it, its thread having ended.
THEOREM PromiseIsKept == Spec => []Promise
<1>1. Inv => Promise
  BY DEF Inv
<1> QED
  BY InitInv, NextInv, <1>1, PTL DEF Spec
=============================================================================
