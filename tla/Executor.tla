------------------------------ MODULE Executor ------------------------------
(***************************************************************************)
(* What util::ThreadPool promises its callers, without workers, queue or   *)
(* condition variable: a submitted task gets exactly one outcome, a task   *)
(* is refused only once the pool is closing, and the pool is gone only     *)
(* when nothing it accepted is still without an outcome.                   *)
(***************************************************************************)
CONSTANT Tasks

VARIABLES status,    \* status[t]: the life of task t as its future shows it
          phase      \* "open", "closing" or "gone"

vars == <<status, phase>>

Init == /\ status = [t \in Tasks |-> "unused"]
        /\ phase = "open"

Submit(t) == /\ phase # "gone"
             /\ status[t] = "unused"
             /\ status' = [status EXCEPT ![t] = "pending"]
             /\ UNCHANGED phase

Refuse(t) == /\ phase = "closing"
             /\ status[t] = "pending"
             /\ status' = [status EXCEPT ![t] = "rejected"]
             /\ UNCHANGED phase

Complete(t) == /\ status[t] = "pending"
               /\ \E r \in {"value", "exception"} :
                     status' = [status EXCEPT ![t] = r]
               /\ UNCHANGED phase

Close == /\ phase = "open"
         /\ phase' = "closing"
         /\ UNCHANGED status

Destroy == /\ phase = "closing"
           /\ \A t \in Tasks : status[t] # "pending"
           /\ phase' = "gone"
           /\ UNCHANGED status

Next == \/ \E t \in Tasks : Submit(t) \/ Refuse(t) \/ Complete(t)
        \/ Close
        \/ Destroy

Spec == Init /\ [][Next]_vars
=============================================================================
