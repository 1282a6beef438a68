----------------------------- MODULE TaskStore -----------------------------
(***************************************************************************)
(* What saturnd promises about tasks, whatever happens inside it: a table  *)
(* of durable task definitions, the subset a running daemon is serving,    *)
(* and the tasks whose creation a client has been told of.  The daemon may *)
(* stop at any moment; when it serves again it serves every stored task.   *)
(* A whole definition never changes in place; a cut one may be left by a   *)
(* creation nobody was told of.  A task a client was told of stays stored  *)
(* until its removal is accepted, and a daemon that is up serves it, or    *)
(* counts it among its tasks when its thread has ended.                    *)
(***************************************************************************)
EXTENDS Integers

CONSTANTS TaskId,    \* task identifiers (uint64_t in the code)
          Payload,   \* what a task is: its timing and its command line
          CutTask,   \* the beginning of one
          NoTask     \* nothing is stored under that identifier

VARIABLES stored,    \* the durable definition of each identifier
          acked,     \* the definition a client was told is created
          up,        \* does the daemon serve requests?
          serving,   \* the tasks it runs
          ended      \* those it counts among its tasks, though their thread ended

vars == <<stored, acked, up, serving, ended>>

Stored == {id \in TaskId : stored[id] # NoTask}
Acked  == {id \in TaskId : acked[id] # NoTask}

Init == /\ stored = [id \in TaskId |-> NoTask]
        /\ acked = [id \in TaskId |-> NoTask]
        /\ up = FALSE
        /\ serving = {} /\ ended = {}

\* The daemon comes up and resumes every stored task; a thread may have ended
\* by then.
Resume == /\ ~up
          /\ up' = TRUE
          /\ ended' \in SUBSET Stored
          /\ serving' = Stored \ ended'
          /\ UNCHANGED <<stored, acked>>

\* The daemon stops, on request or not.
Stop == /\ up
        /\ up' = FALSE
        /\ serving' = {} /\ ended' = {}
        /\ UNCHANGED <<stored, acked>>

\* A new task is made durable under an identifier larger than every other
\* stored one, in one step or by a beginning first.
Store(id, p) == /\ up
                /\ \/ stored[id] = NoTask
                   \/ stored[id] = CutTask /\ id \notin serving \cup ended
                /\ \A other \in Stored \ {id} : other < id
                /\ stored' = [stored EXCEPT ![id] = p]
                /\ UNCHANGED <<acked, up, serving, ended>>

\* A stored task starts being served.
Schedule(id) == /\ up
                /\ id \in Stored \ (serving \cup ended)
                /\ serving' = serving \cup {id}
                /\ UNCHANGED <<stored, acked, up, ended>>

\* The client that created the task is told so: the task is whole.
Acknowledge(id) == /\ id \in serving \cup ended
                   /\ stored[id] \in Payload
                   /\ acked' = [acked EXCEPT ![id] = stored[id]]
                   /\ UNCHANGED <<stored, up, serving, ended>>

\* The thread of a task ends.
End(id) == /\ id \in serving
           /\ serving' = serving \ {id}
           /\ ended' = ended \cup {id}
           /\ UNCHANGED <<stored, acked, up>>

\* The removal of a task is accepted, its thread being at its end.
Withdraw(id) == /\ id \in ended
                /\ ended' = ended \ {id}
                /\ acked' = [acked EXCEPT ![id] = NoTask]
                /\ UNCHANGED <<stored, up, serving>>

\* A task withdrawn from service is erased.
Erase(id) == /\ up
             /\ id \in Stored \ (serving \cup ended)
             /\ acked[id] = NoTask
             /\ stored' = [stored EXCEPT ![id] = NoTask]
             /\ UNCHANGED <<acked, up, serving, ended>>

Next == \/ Resume
        \/ Stop
        \/ \E id \in TaskId, p \in Payload \cup {CutTask} : Store(id, p)
        \/ \E id \in TaskId : \/ Schedule(id)
                              \/ Acknowledge(id)
                              \/ End(id)
                              \/ Withdraw(id)
                              \/ Erase(id)

Spec == Init /\ [][Next]_vars

-----------------------------------------------------------------------------
\* The state of the table is well formed.
TypeOK == /\ stored \in [TaskId -> Payload \cup {CutTask, NoTask}]
          /\ acked \in [TaskId -> Payload \cup {NoTask}]
          /\ up \in BOOLEAN
          /\ serving \subseteq TaskId /\ ended \subseteq TaskId

\* A task a client was told of is stored as the client described it, and a
\* daemon that is up is running it or still counts it when its thread has ended.
Promise == \A id \in Acked : /\ stored[id] = acked[id]
                             /\ up => id \in serving \cup ended
=============================================================================
