----------------------------- MODULE WorkerPool -----------------------------
(***************************************************************************)
(* The worker pool of libmucore: class thread_manager, and class           *)
(* reply_manager, whose code is the same line for line except for the type *)
(* of the job's data.  One mutex (mlock) protects the FIFO queue and quit; *)
(* every critical section is one action here, and a thread is between two  *)
(* of them in the states below.                                            *)
(*                                                                         *)
(*   ready    about to hold mlock and evaluate the predicate of cv.wait    *)
(*            (thread start, after lock.lock(), or woken up)               *)
(*   waiting  blocked in cv.wait with mlock released                       *)
(*   running  executing op.function with mlock released                    *)
(*   freeing  op.function has returned, the data is not freed yet          *)
(*   done     left the loop, tpterm() called, thread can be joined         *)
(***************************************************************************)
EXTENDS Naturals, Sequences, FiniteSets

CONSTANTS NThreads,   \* thread_cnt_ of the constructor
          Jobs,       \* job instances callers may dispatch, each at most once
          Buffered,   \* those dispatched with data (the third overload)
          NoJob       \* "this thread holds no job"

ASSUME NThreadsAssumption == NThreads \in Nat \ {0}
ASSUME BufferedAssumption == Buffered \subseteq Jobs
ASSUME NoJobAssumption    == NoJob \notin Jobs

VARIABLES queue,   \* jobs pushed and not yet popped
          quit,    \* set by the destructor
          pc,      \* where each thread is
          held,    \* the local variable op of each thread
          buf,     \* the heap copy of each job's data
          ran,     \* history: jobs whose op.function has returned
          joined   \* how many threads the destructor has joined

vars == <<queue, quit, pc, held, buf, ran, joined>>

Threads == 1 .. NThreads

PcStates  == {"ready", "waiting", "running", "freeing", "done"}
BufStates == {"none", "live", "freed"}

ThreadsAt(s) == {t \in Threads : pc[t] = s}
Queued == {queue[i] : i \in DOMAIN queue}
Held   == {held[t] : t \in Threads} \ {NoJob}

TypeOK == /\ queue \in Seq(Jobs)
          /\ quit \in BOOLEAN
          /\ pc \in [Threads -> PcStates]
          /\ held \in [Threads -> Jobs \union {NoJob}]
          /\ buf \in [Jobs -> BufStates]
          /\ ran \subseteq Jobs
          /\ joined \in 0 .. NThreads

Init == /\ queue = <<>>
        /\ quit = FALSE
        /\ pc = [t \in Threads |-> "ready"]
        /\ held = [t \in Threads |-> NoJob]
        /\ buf = [j \in Jobs |-> "none"]
        /\ ran = {}
        /\ joined = 0
-----------------------------------------------------------------------------
(***************************************************************************)
(* cv.notify_one() wakes one thread of those blocked in cv.wait, if there  *)
(* is one; which one is not specified.  cv.notify_all() wakes all of them. *)
(***************************************************************************)
NotifyOneLost == UNCHANGED pc

NotifyOne == IF ThreadsAt("waiting") = {}
             THEN UNCHANGED pc
             ELSE \E t \in ThreadsAt("waiting") : pc' = [pc EXCEPT ![t] = "ready"]

NotifyAllAsOne == NotifyOne

NotifyAll == pc' = [t \in Threads |-> IF pc[t] = "waiting" THEN "ready" ELSE pc[t]]

(***************************************************************************)
(* dispatch(): copy the data, push, notify_one, all under mlock.  The      *)
(* caller does not use a pool being destroyed (Lifecycle checks that the   *)
(* main server never does).                                                *)
(***************************************************************************)
Fresh(j) == j \notin Queued \union Held \union ran

DispatchShared(j) ==   \* faulty: the caller's buffer is queued, not a copy of it
    /\ ~quit
    /\ Fresh(j)
    /\ queue' = Append(queue, j)
    /\ buf' = [b \in Jobs |-> IF b \in Buffered THEN "live" ELSE buf[b]]
    /\ NotifyOne
    /\ UNCHANGED <<quit, held, ran, joined>>

Dispatch(j) ==
    /\ ~quit
    /\ Fresh(j)
    /\ queue' = Append(queue, j)
    /\ buf' = IF j \in Buffered THEN [buf EXCEPT ![j] = "live"] ELSE buf
    /\ NotifyOne
    /\ UNCHANGED <<quit, held, ran, joined>>

(***************************************************************************)
(* dispatch_thread_handler() with mlock held: evaluate the predicate; wait *)
(* when it is false, take the head when there is one and the pool is not   *)
(* quitting, leave the loop and call tpterm() when it is.                  *)
(***************************************************************************)
Wait(t) == /\ pc[t] = "ready"
           /\ queue = <<>> /\ ~quit
           /\ pc' = [pc EXCEPT ![t] = "waiting"]
           /\ UNCHANGED <<queue, quit, held, buf, ran, joined>>

TakeLast(t) ==         \* faulty: a stack instead of a FIFO queue
    /\ pc[t] = "ready"
    /\ queue # <<>> /\ ~quit
    /\ held' = [held EXCEPT ![t] = queue[Len(queue)]]
    /\ queue' = SubSeq(queue, 1, Len(queue) - 1)
    /\ pc' = [pc EXCEPT ![t] = "running"]
    /\ UNCHANGED <<quit, buf, ran, joined>>

Take(t) == /\ pc[t] = "ready"
           /\ queue # <<>> /\ ~quit
           /\ held' = [held EXCEPT ![t] = Head(queue)]
           /\ queue' = Tail(queue)
           /\ pc' = [pc EXCEPT ![t] = "running"]
           /\ UNCHANGED <<quit, buf, ran, joined>>

Exit(t) == /\ pc[t] = "ready"
           /\ quit
           /\ pc' = [pc EXCEPT ![t] = "done"]
           /\ UNCHANGED <<queue, quit, held, buf, ran, joined>>

(***************************************************************************)
(* With mlock released: op.function(...) runs to its end, then the thread  *)
(* frees the data it owns and goes back for the lock.                      *)
(***************************************************************************)
RunOp(t) == /\ pc[t] = "running"
            /\ ran' = ran \union {held[t]}
            /\ pc' = [pc EXCEPT ![t] = "freeing"]
            /\ UNCHANGED <<queue, quit, held, buf, joined>>

FreeData(t) ==
    /\ pc[t] = "freeing"
    /\ buf' = IF held[t] \in Buffered THEN [buf EXCEPT ![held[t]] = "freed"] ELSE buf
    /\ held' = [held EXCEPT ![t] = NoJob]
    /\ pc' = [pc EXCEPT ![t] = "ready"]
    /\ UNCHANGED <<queue, quit, ran, joined>>

\* cv.wait may return without a notification; its loop tests the predicate again.
SpuriousWakeup(t) == /\ pc[t] = "waiting"
                     /\ pc' = [pc EXCEPT ![t] = "ready"]
                     /\ UNCHANGED <<queue, quit, held, buf, ran, joined>>
-----------------------------------------------------------------------------
(***************************************************************************)
(* The destructor: set quit and notify_all under mlock, then join the      *)
(* threads in index order.  It returns when joined = NThreads; jobs still  *)
(* queued are dropped with the queue, their data is never freed.           *)
(***************************************************************************)
Quit == /\ ~quit
        /\ quit' = TRUE
        /\ NotifyAll
        /\ UNCHANGED <<queue, held, buf, ran, joined>>

JoinAny ==             \* faulty: detach instead of join
    /\ quit /\ joined < NThreads
    /\ joined' = joined + 1
    /\ UNCHANGED <<queue, quit, pc, held, buf, ran>>

JoinPastEnd ==         \* faulty: i <= threads.size()
    /\ quit /\ joined <= NThreads
    /\ joined < NThreads => pc[joined + 1] = "done"
    /\ joined' = joined + 1
    /\ UNCHANGED <<queue, quit, pc, held, buf, ran>>

Join == /\ quit /\ joined < NThreads
        /\ pc[joined + 1] = "done"
        /\ joined' = joined + 1
        /\ UNCHANGED <<queue, quit, pc, held, buf, ran>>

Destroyed == joined = NThreads

ThreadStep(t) == Wait(t) \/ Take(t) \/ Exit(t) \/ RunOp(t) \/ FreeData(t)

Next == \/ \E j \in Jobs : Dispatch(j)
        \/ \E t \in Threads : ThreadStep(t) \/ SpuriousWakeup(t)
        \/ Quit
        \/ Join

Spec == Init /\ [][Next]_vars

(***************************************************************************)
(* The scheduler runs every thread that can run, and op.function returns   *)
(* (tpcall has a timeout, tpacall does not block for a reply), so each     *)
(* thread is weakly fair, and so is the destructor once it has begun.      *)
(* Nothing obliges the owner to quit or a caller to dispatch, and spurious *)
(* wakeups are never owed.                                                 *)
(***************************************************************************)
Fairness == /\ \A t \in Threads : WF_vars(ThreadStep(t))
            /\ WF_vars(Join)

FairSpec == Spec /\ Fairness
-----------------------------------------------------------------------------
(***************************************************************************)
(* No lost wakeup: while some thread sleeps in cv.wait, every queued job   *)
(* has a thread of its own that is awake and on its way to the queue.      *)
(* Rests on dispatch notifying once per push and on threads sleeping only  *)
(* when they saw the queue empty under mlock.                              *)
(***************************************************************************)
NoLostWakeup ==
    ThreadsAt("waiting") # {} => Len(queue) <= Cardinality(ThreadsAt("ready"))

(***************************************************************************)
(* Ownership of the job data: an instance is in one place only (the queue  *)
(* once, or one thread), the copy made by dispatch is live exactly while   *)
(* its job is there, so nothing is freed twice or used after it was freed. *)
(***************************************************************************)
OneOwner ==
    /\ \A i, k \in DOMAIN queue : queue[i] = queue[k] => i = k
    /\ \A t, u \in Threads : held[t] = held[u] /\ held[t] # NoJob => t = u
    /\ Queued \intersect Held = {}
DataLiveWhileOwned ==
    \A j \in Buffered : buf[j] = "live" <=> j \in Queued \union Held
DataOwned == OneOwner /\ DataLiveWhileOwned

(***************************************************************************)
(* The destructor leaves no thread behind: when it returns, every thread   *)
(* is done, none sleeps and none holds a job; what it leaks is the data of *)
(* the jobs that never ran.                                                *)
(***************************************************************************)
CleanDestruction ==
    /\ quit => ThreadsAt("waiting") = {}
    /\ Destroyed => /\ Held = {}
                    /\ \A j \in Jobs : buf[j] = "live" => j \in Queued \ ran

\* The pool implements TaskPool, fairness included.
Abstract == INSTANCE TaskPool WITH
              pending   <- queue,
              active    <- {held[t] : t \in ThreadsAt("running")},
              completed <- ran,
              closed    <- quit
ImplementsTaskPool == Abstract!Spec

\* A pool that is being destroyed is destroyed: the destructor's joins all return.
DestructionTerminates == quit ~> Destroyed
=============================================================================
