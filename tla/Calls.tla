------------------------------- MODULE Calls --------------------------------
(***************************************************************************)
(* What the two pipes are for: remote calls.  A client asks for something; *)
(* the daemon does it, once; the client gets the answer to what it asked,  *)
(* or is refused, and then nothing was done.                               *)
(***************************************************************************)
CONSTANT Client

VARIABLE call    \* where the call of each client is

Init == call = [c \in Client |-> "new"]

Ask(c) == call[c] = "new" /\ call' = [call EXCEPT ![c] = "asked"]
Do(c) == call[c] = "asked" /\ call' = [call EXCEPT ![c] = "done"]
Answer(c) == call[c] = "done" /\ call' = [call EXCEPT ![c] = "answered"]
Refuse(c) == call[c] = "asked" /\ call' = [call EXCEPT ![c] = "refused"]

Next == \E c \in Client : Ask(c) \/ Do(c) \/ Answer(c) \/ Refuse(c)

Safety == Init /\ [][Next]_call

\* Every call ends, one way or the other.
Spec == /\ Safety
        /\ \A c \in Client : WF_call(Do(c) \/ Answer(c) \/ Refuse(c))
=============================================================================
