------------------------------ MODULE TaskPool ------------------------------
(***************************************************************************)
(* What a worker pool of libmucore (thread_manager, reply_manager)         *)
(* promises its callers, without threads, locks or condition variables:    *)
(* jobs start in the order they were submitted, each at most once, several *)
(* may be under way together, and once the pool is closed no further job   *)
(* starts while those under way still complete.  WorkerPool implements it. *)
(***************************************************************************)
EXTENDS Sequences

CONSTANT Jobs          \* the jobs callers may submit, each a distinct instance

VARIABLES pending,     \* submitted and not yet started, in submission order
          active,      \* started and not yet completed
          completed,   \* completed
          closed       \* the owner has begun to destroy the pool

vars == <<pending, active, completed, closed>>

Init == /\ pending = <<>>
        /\ active = {}
        /\ completed = {}
        /\ closed = FALSE

Submit(j) == /\ ~closed
             /\ j \notin active \union completed
             /\ \A i \in DOMAIN pending : pending[i] # j
             /\ pending' = Append(pending, j)
             /\ UNCHANGED <<active, completed, closed>>

Start == /\ ~closed
         /\ pending # <<>>
         /\ active' = active \union {Head(pending)}
         /\ pending' = Tail(pending)
         /\ UNCHANGED <<completed, closed>>

Complete(j) == /\ j \in active
               /\ active' = active \ {j}
               /\ completed' = completed \union {j}
               /\ UNCHANGED <<pending, closed>>

Close == /\ ~closed
         /\ closed' = TRUE
         /\ UNCHANGED <<pending, active, completed>>

Next == \/ \E j \in Jobs : Submit(j) \/ Complete(j)
        \/ Start
        \/ Close

Safety == Init /\ [][Next]_vars

Spec == Safety /\ WF_vars(Start) /\ \A j \in Jobs : WF_vars(Complete(j))
=============================================================================
