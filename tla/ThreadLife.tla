----------------------------- MODULE ThreadLife -----------------------------
(***************************************************************************)
(* The life of the worker threads, as its two sides rely on it: the main   *)
(* thread creates, cancels and joins them (module Saturnd), each runs      *)
(* until it ends (module Worker).  The main thread counts on one thing     *)
(* alone: a thread it has cancelled ends, so that a join returns.          *)
(***************************************************************************)
CONSTANT Thread
VARIABLE status

Init == status = [t \in Thread |-> "none"]

Moves(t, from, to) == status[t] \in from /\ status' = [status EXCEPT ![t] = to]

Create(t) == Moves(t, {"none"}, "alive")
Cancel(t) == Moves(t, {"alive"}, "cancelled")
End(t)    == Moves(t, {"alive", "cancelled"}, "ended")
Join(t)   == Moves(t, {"ended"}, "joined")

\* The process ends, and its threads with it.
Exit == status' = [t \in Thread |-> "none"]

Next == Exit \/ \E t \in Thread : Create(t) \/ Cancel(t) \/ End(t) \/ Join(t)

Spec == /\ Init
        /\ [][Next]_status
        /\ \A t \in Thread : WF_status(status[t] = "cancelled" /\ End(t))
=============================================================================
