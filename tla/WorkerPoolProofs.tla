-------------------------- MODULE WorkerPoolProofs --------------------------
(***************************************************************************)
(* Proofs about WorkerPool for every number of threads and every set of    *)
(* jobs: type correctness, no lost wakeup, ownership of job data, clean    *)
(* destruction, and the refinement of TaskPool (its safety part; fairness  *)
(* is model-checked).                                                      *)
(***************************************************************************)
EXTENDS WorkerPool, FiniteSetTheorems, SequenceTheorems, TLAPS

(***************************************************************************)
(* The inductive invariant.  ControlOK ties a thread's program counter to  *)
(* the job it holds and to the shared flags, HistoryOK says which jobs     *)
(* have run, UnbufferedOK that a job without data never has any.           *)
(***************************************************************************)
ControlOK ==
    /\ \A t \in Threads : held[t] # NoJob <=> pc[t] \in {"running", "freeing"}
    /\ \A t \in Threads : pc[t] = "done" => quit
    /\ quit => ThreadsAt("waiting") = {}
    /\ joined > 0 => quit
    /\ \A i \in 1 .. joined : pc[i] = "done"

HistoryOK ==
    /\ \A t \in Threads : pc[t] = "freeing" => held[t] \in ran
    /\ \A t \in Threads : pc[t] = "running" => held[t] \notin ran
    /\ Queued \intersect ran = {}

UnbufferedOK == \A j \in Jobs \ Buffered : buf[j] = "none"

IInv == TypeOK /\ ControlOK /\ HistoryOK /\ OneOwner /\ DataLiveWhileOwned
               /\ UnbufferedOK /\ NoLostWakeup
-----------------------------------------------------------------------------
\* What Append does to a queue, index by index.
LEMMA AppendFacts ==
  ASSUME NEW S, NEW q \in Seq(S), NEW x \in S
  PROVE  /\ Append(q, x) \in Seq(S)
         /\ Len(Append(q, x)) = Len(q) + 1
         /\ DOMAIN q = 1 .. Len(q)
         /\ DOMAIN Append(q, x) = 1 .. (Len(q) + 1)
         /\ \A i \in 1 .. Len(q) : Append(q, x)[i] = q[i]
         /\ Append(q, x)[Len(q) + 1] = x
         /\ Len(q) \in Nat
  OBVIOUS

\* What Head and Tail do to a queue, index by index.
LEMMA TailFacts ==
  ASSUME NEW S, NEW q \in Seq(S), q # <<>>
  PROVE  /\ Tail(q) \in Seq(S)
         /\ Len(q) \in Nat \ {0}
         /\ Len(Tail(q)) = Len(q) - 1
         /\ Head(q) = q[1]
         /\ Head(q) \in S
         /\ DOMAIN q = 1 .. Len(q)
         /\ DOMAIN Tail(q) = 1 .. (Len(q) - 1)
         /\ \A i \in 1 .. (Len(q) - 1) : Tail(q)[i] = q[i + 1]
  OBVIOUS

\* The elements of an appended queue.
LEMMA QueuedAfterAppend ==
  ASSUME NEW S, NEW q \in Seq(S), NEW x \in S
  PROVE  {Append(q, x)[i] : i \in DOMAIN Append(q, x)}
           = {q[i] : i \in DOMAIN q} \union {x}
  BY AppendFacts

\* The elements of a queue are its head and those of its tail.
LEMMA QueuedBeforeTail ==
  ASSUME NEW S, NEW q \in Seq(S), q # <<>>
  PROVE  {q[i] : i \in DOMAIN q}
           = {Head(q)} \union {Tail(q)[i] : i \in DOMAIN Tail(q)}
<1> DEFINE T == Tail(q)
<1>1. ASSUME NEW i \in DOMAIN q
      PROVE  q[i] = Head(q) \/ \E k \in DOMAIN T : T[k] = q[i]
  <2>1. CASE i = 1
    BY <2>1, TailFacts
  <2>2. CASE i # 1
    <3>1. i - 1 \in DOMAIN T /\ T[i - 1] = q[i]
      BY <2>2, TailFacts
    <3> QED BY <3>1
  <2> QED BY <2>1, <2>2
<1>2. ASSUME NEW k \in DOMAIN T
      PROVE  \E i \in DOMAIN q : T[k] = q[i]
  <2>1. k + 1 \in DOMAIN q /\ T[k] = q[k + 1]
    BY TailFacts
  <2> QED BY <2>1
<1>3. 1 \in DOMAIN q /\ Head(q) = q[1]
  BY TailFacts
<1> QED BY <1>1, <1>2, <1>3
-----------------------------------------------------------------------------
\* How many threads are at a place is a number.
LEMMA ThreadsFinite ==
  ASSUME NEW S, S \subseteq Threads
  PROVE  IsFiniteSet(S) /\ Cardinality(S) \in Nat
<1>1. IsFiniteSet(Threads)
  BY FS_Interval, NThreadsAssumption DEF Threads
<1>2. IsFiniteSet(S)
  BY <1>1, FS_Subset
<1> QED BY <1>2, FS_CardinalityType

\* The initial state satisfies the inductive invariant.
LEMMA InitInv == Init => IInv
<1> SUFFICES ASSUME Init
             PROVE  IInv
  OBVIOUS
<1> USE DEF Init
<1>1. TypeOK
  <2>1. ran \subseteq Jobs /\ quit \in BOOLEAN
    OBVIOUS
  <2>6. queue \in Seq(Jobs)
    BY EmptySeq
  <2>2. pc \in [Threads -> PcStates]
    BY DEF PcStates
  <2>5. buf \in [Jobs -> BufStates]
    BY DEF BufStates
  <2>3. held \in [Threads -> Jobs \union {NoJob}]
    OBVIOUS
  <2>4. joined \in 0 .. NThreads
    BY NThreadsAssumption
  <2> QED BY <2>1, <2>2, <2>3, <2>4, <2>5, <2>6 DEF TypeOK
<1>2. Queued = {} /\ Held = {} /\ ThreadsAt("waiting") = {}
  BY DEF Queued, Held, ThreadsAt
<1>3. ControlOK
  BY <1>2 DEF ControlOK
<1>4. HistoryOK
  BY <1>2 DEF HistoryOK
<1>5. OneOwner
  BY <1>2 DEF OneOwner
<1>6. DataLiveWhileOwned /\ UnbufferedOK
  BY <1>2, BufferedAssumption DEF DataLiveWhileOwned, UnbufferedOK
<1>7. NoLostWakeup
  BY <1>2 DEF NoLostWakeup
<1> QED BY <1>1, <1>3, <1>4, <1>5, <1>6, <1>7 DEF IInv

\* Every step keeps the types; RunOp needs ControlOK to know that a thread
\* which runs holds a job.
LEMMA TypeStep == TypeOK /\ ControlOK /\ [Next]_vars => TypeOK'
<1> SUFFICES ASSUME TypeOK, ControlOK, [Next]_vars
             PROVE  TypeOK'
  OBVIOUS
<1> USE DEF TypeOK, PcStates, BufStates
<1>1. ASSUME NEW j \in Jobs, Dispatch(j)
      PROVE  TypeOK'
  <2>1. queue' \in Seq(Jobs)
    BY <1>1, AppendFacts DEF Dispatch
  <2>2. pc' \in [Threads -> PcStates]
    BY <1>1 DEF Dispatch, NotifyOne, ThreadsAt
  <2> QED BY <1>1, <2>1, <2>2 DEF Dispatch
<1>2. ASSUME NEW t \in Threads, Take(t)
      PROVE  TypeOK'
  BY <1>2, TailFacts DEF Take
<1>3. ASSUME NEW t \in Threads, FreeData(t)
      PROVE  TypeOK'
  BY <1>3 DEF FreeData
<1>4. ASSUME NEW t \in Threads, RunOp(t)
      PROVE  TypeOK'
  BY <1>4 DEF RunOp, ControlOK
<1>5. ASSUME NEW t \in Threads, Wait(t) \/ Exit(t) \/ SpuriousWakeup(t)
      PROVE  TypeOK'
  BY <1>5 DEF Wait, Exit, SpuriousWakeup
<1>6. CASE Quit
  BY <1>6 DEF Quit, NotifyAll
<1>7. CASE Join
  BY <1>7, NThreadsAssumption DEF Join
<1>8. CASE UNCHANGED vars
  BY <1>8 DEF vars
<1> QED
  BY <1>1, <1>2, <1>3, <1>4, <1>5, <1>6, <1>7, <1>8 DEF Next, ThreadStep
-----------------------------------------------------------------------------
\* One thread more, or one fewer, at a place.
LEMMA OneMore ==
  ASSUME NEW S, S \subseteq Threads, NEW t \in Threads, t \notin S
  PROVE  Cardinality(S \union {t}) = Cardinality(S) + 1
  BY ThreadsFinite, FS_AddElement

LEMMA OneFewer ==
  ASSUME NEW S, S \subseteq Threads, NEW t \in S
  PROVE  Cardinality(S \ {t}) = Cardinality(S) - 1
  BY ThreadsFinite, FS_RemoveElement

\* No step loses a wakeup.
LEMMA NoLostWakeupStep ==
  TypeOK /\ ControlOK /\ NoLostWakeup /\ [Next]_vars => NoLostWakeup'
<1> SUFFICES ASSUME TypeOK, ControlOK, NoLostWakeup, [Next]_vars
             PROVE  NoLostWakeup'
  OBVIOUS
<1> DEFINE W == ThreadsAt("waiting")
           R == ThreadsAt("ready")
<1>0. /\ W \subseteq Threads /\ R \subseteq Threads
      /\ Cardinality(R) \in Nat /\ Len(queue) \in Nat
  BY ThreadsFinite, LenProperties DEF ThreadsAt, TypeOK
<1>1. ASSUME NEW j \in Jobs, Dispatch(j)
      PROVE  NoLostWakeup'
  <2>1. Len(queue') = Len(queue) + 1
    BY <1>1, AppendFacts DEF Dispatch, TypeOK
  <2>2. CASE W = {}
    BY <1>1, <2>2 DEF Dispatch, NotifyOne, NoLostWakeup, ThreadsAt
  <2>3. CASE W # {}
    <3>1. PICK t \in W : pc' = [pc EXCEPT ![t] = "ready"]
      BY <1>1, <2>3 DEF Dispatch, NotifyOne
    <3>2. t \in Threads /\ t \notin R
      BY DEF ThreadsAt
    <3>3. R' = R \union {t}
      BY <3>1, <3>2 DEF TypeOK, ThreadsAt
    <3>4. Cardinality(R') = Cardinality(R) + 1
      BY <1>0, <3>2, <3>3, OneMore
    <3>5. Len(queue) <= Cardinality(R)
      BY <2>3 DEF NoLostWakeup
    <3> QED BY <1>0, <2>1, <3>4, <3>5 DEF NoLostWakeup
  <2> QED BY <2>2, <2>3
<1>2. ASSUME NEW t \in Threads, Take(t)
      PROVE  NoLostWakeup'
  <2>1. t \in R
    BY <1>2 DEF Take, ThreadsAt
  <2>2. R' = R \ {t} /\ W' \subseteq W
    BY <1>2 DEF Take, TypeOK, ThreadsAt
  <2>3. Cardinality(R') = Cardinality(R) - 1
    BY <1>0, <2>1, <2>2, OneFewer
  <2>4. Len(queue') = Len(queue) - 1
    BY <1>2, TailFacts DEF Take, TypeOK
  <2> QED BY <1>0, <2>2, <2>3, <2>4 DEF NoLostWakeup
<1>3. ASSUME NEW t \in Threads, FreeData(t) \/ SpuriousWakeup(t)
      PROVE  NoLostWakeup'
  <2>1. t \notin R /\ pc' = [pc EXCEPT ![t] = "ready"] /\ queue' = queue
    BY <1>3 DEF FreeData, SpuriousWakeup, ThreadsAt
  <2>2. R' = R \union {t} /\ W' \subseteq W
    BY <2>1 DEF TypeOK, ThreadsAt
  <2>3. Cardinality(R') = Cardinality(R) + 1
    BY <1>0, <2>1, <2>2, OneMore
  <2> QED BY <1>0, <2>1, <2>2, <2>3 DEF NoLostWakeup
<1>4. ASSUME NEW t \in Threads, Wait(t)
      PROVE  NoLostWakeup'
  <2>1. Len(queue') = 0
    BY <1>4, EmptySeq DEF Wait
  <2>2. Cardinality(R') \in Nat
    <3>1. R' \subseteq Threads
      BY DEF ThreadsAt, Threads
    <3> QED BY <3>1, ThreadsFinite
  <2> QED BY <2>1, <2>2 DEF NoLostWakeup
<1>5. ASSUME NEW t \in Threads, Exit(t)
      PROVE  NoLostWakeup'
  <2>1. W = {} /\ pc' = [pc EXCEPT ![t] = "done"]
    BY <1>5 DEF Exit, ControlOK
  <2>2. W' = {}
    BY <2>1 DEF TypeOK, ThreadsAt
  <2> QED BY <2>2 DEF NoLostWakeup
<1>6. ASSUME NEW t \in Threads, RunOp(t)
      PROVE  NoLostWakeup'
  <2>1. /\ t \notin R /\ queue' = queue
        /\ pc' = [pc EXCEPT ![t] = "freeing"]
    BY <1>6 DEF RunOp, ThreadsAt
  <2>2. R' = R \ {t} /\ W' \subseteq W
    BY <2>1 DEF TypeOK, ThreadsAt
  <2>3. R' = R
    BY <2>1, <2>2
  <2> QED BY <2>1, <2>2, <2>3 DEF NoLostWakeup
<1>7. CASE Quit
  <2>1. W' = {}
    BY <1>7 DEF Quit, NotifyAll, ThreadsAt
  <2> QED BY <2>1 DEF NoLostWakeup
<1>8. CASE Join \/ UNCHANGED vars
  BY <1>8 DEF Join, vars, NoLostWakeup, ThreadsAt
<1> QED
  BY <1>1, <1>2, <1>3, <1>4, <1>5, <1>6, <1>7, <1>8 DEF Next, ThreadStep
-----------------------------------------------------------------------------
\* Program counters, held jobs and the destructor's flags stay in agreement.
LEMMA ControlStep == TypeOK /\ ControlOK /\ [Next]_vars => ControlOK'
<1> SUFFICES ASSUME TypeOK, ControlOK, [Next]_vars
             PROVE  ControlOK'
  OBVIOUS
<1> USE DEF ControlOK, ThreadsAt, TypeOK
<1>1. ASSUME NEW j \in Jobs, Dispatch(j)
      PROVE  ControlOK'
  <2>1. /\ ~quit /\ joined = 0
        /\ UNCHANGED <<quit, held, joined>>
    BY <1>1 DEF Dispatch
  <2>2. \/ pc' = pc
        \/ \E t \in ThreadsAt("waiting") : pc' = [pc EXCEPT ![t] = "ready"]
    BY <1>1 DEF Dispatch, NotifyOne
  <2> QED BY <2>1, <2>2
<1>2. ASSUME NEW t \in Threads, Take(t)
      PROVE  ControlOK'
  <2>1. Head(queue) \in Jobs
    BY <1>2, TailFacts DEF Take
  <2> QED BY <1>2, <2>1, NoJobAssumption DEF Take, Threads
<1>3. ASSUME NEW t \in Threads, Wait(t) \/ Exit(t) \/ SpuriousWakeup(t)
      PROVE  ControlOK'
  <2>1. 1 .. joined \subseteq Threads /\ UNCHANGED <<held, quit, joined>>
    BY <1>3, NThreadsAssumption DEF Wait, Exit, SpuriousWakeup, Threads
  <2>2. CASE Wait(t)
    BY <2>1, <2>2 DEF Wait
  <2>3. CASE Exit(t)
    BY <2>1, <2>3 DEF Exit
  <2>4. CASE SpuriousWakeup(t)
    BY <2>1, <2>4 DEF SpuriousWakeup
  <2> QED BY <1>3, <2>2, <2>3, <2>4
<1>4. ASSUME NEW t \in Threads, RunOp(t)
      PROVE  ControlOK'
  BY <1>4 DEF RunOp, Threads
<1>5. ASSUME NEW t \in Threads, FreeData(t)
      PROVE  ControlOK'
  BY <1>5 DEF FreeData, Threads
<1>6. CASE Quit
  BY <1>6 DEF Quit, NotifyAll, Threads
<1>7. CASE Join
  BY <1>7 DEF Join, Threads
<1>8. CASE UNCHANGED vars
  BY <1>8 DEF vars
<1> QED
  BY <1>1, <1>2, <1>3, <1>4, <1>5, <1>6, <1>7, <1>8 DEF Next, ThreadStep

\* The jobs of the queue before and after a push and a pop.
LEMMA DispatchQueued ==
  ASSUME TypeOK, NEW j \in Jobs, Dispatch(j)
  PROVE  Queued' = Queued \union {j}
  BY QueuedAfterAppend DEF TypeOK, Dispatch, Queued

LEMMA TakeQueued ==
  ASSUME TypeOK, OneOwner, NEW t \in Threads, Take(t)
  PROVE  /\ Queued = Queued' \union {Head(queue)}
         /\ Head(queue) \notin Queued'
         /\ Head(queue) \in Jobs
<1>1. Queued = {Head(queue)} \union Queued'
  <2>1. Queued' = {Tail(queue)[i] : i \in DOMAIN Tail(queue)}
    BY DEF Take, Queued
  <2>2. queue \in Seq(Jobs) /\ queue # <<>>
    BY DEF TypeOK, Take
  <2> QED BY <2>1, <2>2, QueuedBeforeTail DEF Queued
<1>2. Head(queue) \notin Queued'
  <2> SUFFICES ASSUME NEW i \in DOMAIN Tail(queue), Tail(queue)[i] = Head(queue)
               PROVE  FALSE
    BY DEF Queued, Take
  <2>1. /\ i + 1 \in DOMAIN queue /\ 1 \in DOMAIN queue
        /\ queue[i + 1] = queue[1] /\ i + 1 # 1
    BY TailFacts DEF TypeOK, Take
  <2> QED BY <2>1 DEF OneOwner
<1> QED BY <1>1, <1>2, TailFacts DEF TypeOK, Take

\* What a thread's held job contributes to Held.
LEMMA HeldAfterTake ==
  ASSUME TypeOK, ControlOK, NEW t \in Threads, Take(t)
  PROVE  Held' = Held \union {Head(queue)}
<1>1. /\ held[t] = NoJob
      /\ held' = [held EXCEPT ![t] = Head(queue)]
      /\ Head(queue) \in Jobs
  BY TailFacts DEF TypeOK, ControlOK, Take
<1> QED BY <1>1, NoJobAssumption DEF Held, TypeOK

LEMMA HeldAfterFree ==
  ASSUME TypeOK, ControlOK, OneOwner, NEW t \in Threads, FreeData(t)
  PROVE  Held' = Held \ {held[t]} /\ held[t] \in Held
<1>1. held[t] # NoJob /\ held' = [held EXCEPT ![t] = NoJob]
  BY DEF TypeOK, ControlOK, FreeData
<1>2. \A u \in Threads : held[u] = held[t] => u = t
  BY <1>1 DEF OneOwner
<1> QED BY <1>1, <1>2 DEF Held, TypeOK

\* A job is in one place only, whatever happens.
LEMMA OneOwnerStep ==
  TypeOK /\ ControlOK /\ OneOwner /\ [Next]_vars => OneOwner'
<1> SUFFICES ASSUME TypeOK, ControlOK, OneOwner, [Next]_vars
             PROVE  OneOwner'
  OBVIOUS
<1>1. ASSUME NEW j \in Jobs, Dispatch(j)
      PROVE  OneOwner'
  <2>1. \A i, k \in DOMAIN queue' : queue'[i] = queue'[k] => i = k
    <3>1. \A i \in DOMAIN queue : queue[i] # j
      BY <1>1 DEF Dispatch, Fresh, Queued
    <3> QED BY <1>1, <3>1, AppendFacts DEF Dispatch, TypeOK, OneOwner
  <2>2. held' = held /\ Held' = Held
    BY <1>1 DEF Dispatch, Held
  <2>3. Queued' \intersect Held' = {}
    BY <1>1, <2>2, DispatchQueued DEF Dispatch, Fresh, OneOwner
  <2> QED BY <2>1, <2>2, <2>3 DEF OneOwner
<1>2. ASSUME NEW t \in Threads, Take(t)
      PROVE  OneOwner'
  <2>1. \A i, k \in DOMAIN queue' : queue'[i] = queue'[k] => i = k
    <3> SUFFICES ASSUME NEW i \in DOMAIN Tail(queue), NEW k \in DOMAIN Tail(queue),
                        Tail(queue)[i] = Tail(queue)[k]
                 PROVE  i = k
      BY <1>2 DEF Take
    <3>1. /\ i \in Nat /\ k \in Nat
          /\ i + 1 \in DOMAIN queue /\ k + 1 \in DOMAIN queue
          /\ queue[i + 1] = queue[k + 1]
      BY <1>2, TailFacts DEF TypeOK, Take
    <3>2. i + 1 = k + 1
      BY <3>1 DEF OneOwner
    <3> QED BY <3>1, <3>2
  <2>2. Head(queue) \notin Held
    BY <1>2, TakeQueued DEF OneOwner
  <2>3. \A u, v \in Threads : held'[u] = held'[v] /\ held'[u] # NoJob => u = v
    BY <1>2, <2>2 DEF Take, OneOwner, Held, TypeOK
  <2>4. Queued' \intersect Held' = {}
    BY <1>2, TakeQueued, HeldAfterTake DEF OneOwner
  <2> QED BY <2>1, <2>3, <2>4 DEF OneOwner
<1>3. ASSUME NEW t \in Threads, FreeData(t)
      PROVE  OneOwner'
  <2>1. queue' = queue /\ Queued' = Queued /\ Held' \subseteq Held
    BY <1>3, HeldAfterFree DEF FreeData, Queued
  <2>2. \A u, v \in Threads : held'[u] = held'[v] /\ held'[u] # NoJob => u = v
    BY <1>3 DEF FreeData, OneOwner, TypeOK
  <2> QED BY <2>1, <2>2 DEF OneOwner
<1>4. CASE UNCHANGED <<queue, held>>
  BY <1>4 DEF OneOwner, Queued, Held
<1> QED
  BY <1>1, <1>2, <1>3, <1>4
     DEF Next, ThreadStep, Wait, Exit, RunOp, SpuriousWakeup, Quit, Join, vars

\* Queued and running jobs have not run, freeing ones have.
LEMMA HistoryStep == IInv /\ [Next]_vars => HistoryOK'
<1> SUFFICES ASSUME IInv, [Next]_vars
             PROVE  HistoryOK'
  OBVIOUS
<1> USE DEF IInv
<1>1. ASSUME NEW j \in Jobs, Dispatch(j)
      PROVE  HistoryOK'
  <2>1. Queued' \intersect ran' = {}
    BY <1>1, DispatchQueued DEF Dispatch, Fresh, HistoryOK
  <2>2. /\ UNCHANGED <<held, ran>>
        /\ \/ pc' = pc
           \/ \E t \in ThreadsAt("waiting") : pc' = [pc EXCEPT ![t] = "ready"]
    BY <1>1 DEF Dispatch, NotifyOne
  <2> QED BY <2>1, <2>2 DEF HistoryOK, TypeOK, ThreadsAt
<1>2. ASSUME NEW t \in Threads, Take(t)
      PROVE  HistoryOK'
  <2>1. Head(queue) \notin ran /\ Queued' \subseteq Queued
    BY <1>2, TakeQueued DEF HistoryOK
  <2> QED BY <1>2, <2>1 DEF Take, HistoryOK, TypeOK
<1>3. ASSUME NEW t \in Threads, RunOp(t)
      PROVE  HistoryOK'
  <2>1. held[t] \in Held
    BY <1>3 DEF RunOp, ControlOK, Held
  <2>2. Queued' = Queued /\ Queued' \intersect ran' = {}
    BY <1>3, <2>1 DEF RunOp, OneOwner, HistoryOK, Queued
  <2>3. \A u \in Threads : u # t /\ pc[u] = "running" => held[u] \notin ran'
    BY <1>3 DEF RunOp, OneOwner, HistoryOK, ControlOK
  <2> QED BY <1>3, <2>2, <2>3 DEF RunOp, HistoryOK, TypeOK
<1>4. ASSUME NEW t \in Threads, FreeData(t)
      PROVE  HistoryOK'
  BY <1>4 DEF FreeData, HistoryOK, TypeOK, Queued
<1>5. ASSUME NEW t \in Threads, Wait(t) \/ Exit(t) \/ SpuriousWakeup(t)
      PROVE  HistoryOK'
  BY <1>5 DEF Wait, Exit, SpuriousWakeup, HistoryOK, TypeOK, Queued
<1>6. CASE Quit
  BY <1>6 DEF Quit, NotifyAll, HistoryOK, TypeOK, Queued
<1>7. CASE Join \/ UNCHANGED vars
  BY <1>7 DEF Join, vars, HistoryOK, Queued
<1> QED
  BY <1>1, <1>2, <1>3, <1>4, <1>5, <1>6, <1>7 DEF Next, ThreadStep

\* Data is allocated by the push and freed by the thread that ran the job.
LEMMA DataStep == IInv /\ [Next]_vars => (DataLiveWhileOwned /\ UnbufferedOK)'
<1> SUFFICES ASSUME IInv, [Next]_vars
             PROVE  (DataLiveWhileOwned /\ UnbufferedOK)'
  OBVIOUS
<1> USE DEF IInv
<1>1. ASSUME NEW j \in Jobs, Dispatch(j)
      PROVE  (DataLiveWhileOwned /\ UnbufferedOK)'
  <2>1. Queued' = Queued \union {j} /\ Held' = Held
    BY <1>1, DispatchQueued DEF Dispatch, Held
  <2> QED
    BY <1>1, <2>1, BufferedAssumption
       DEF Dispatch, TypeOK, DataLiveWhileOwned, UnbufferedOK
<1>2. ASSUME NEW t \in Threads, Take(t)
      PROVE  (DataLiveWhileOwned /\ UnbufferedOK)'
  <2>1. Queued' \union Held' = Queued \union Held
    BY <1>2, TakeQueued, HeldAfterTake
  <2> QED BY <1>2, <2>1 DEF Take, DataLiveWhileOwned, UnbufferedOK
<1>3. ASSUME NEW t \in Threads, FreeData(t)
      PROVE  (DataLiveWhileOwned /\ UnbufferedOK)'
  <2>1. /\ Held' = Held \ {held[t]}
        /\ held[t] \in Held
    BY <1>3, HeldAfterFree
  <2>2. Queued' = Queued /\ held[t] \notin Queued
    BY <1>3, <2>1 DEF FreeData, Queued, OneOwner
  <2> QED
    BY <1>3, <2>1, <2>2, BufferedAssumption
       DEF FreeData, TypeOK, BufStates, DataLiveWhileOwned, UnbufferedOK
<1>4. CASE UNCHANGED <<queue, held, buf>>
  BY <1>4 DEF DataLiveWhileOwned, UnbufferedOK, Queued, Held
<1> QED
  BY <1>1, <1>2, <1>3, <1>4
     DEF Next, ThreadStep, Wait, Exit, RunOp, SpuriousWakeup, Quit, Join, vars

LEMMA StepInv == IInv /\ [Next]_vars => IInv'
BY TypeStep, ControlStep, HistoryStep, OneOwnerStep, DataStep, NoLostWakeupStep DEF IInv

\* The inductive invariant holds of every behaviour.
THEOREM Invariance == Spec => []IInv
BY InitInv, StepInv, PTL DEF Spec
-----------------------------------------------------------------------------
(* What the owner of a pool sees of its steps.                             *)

\* A job that was dispatched stays in the pool's books.
LEMMA SeenStays ==
  ASSUME IInv, [Next]_vars
  PROVE  Queued \union Held \union ran \subseteq (Queued \union Held \union ran)'
<1>1. ASSUME NEW j \in Jobs, Dispatch(j)
      PROVE  Queued \subseteq Queued' /\ Held' = Held /\ ran' = ran
  BY <1>1, DispatchQueued DEF IInv, Dispatch, Held
<1>2. ASSUME NEW t \in Threads, Take(t)
      PROVE  Queued \union Held \subseteq Queued' \union Held' /\ ran' = ran
  <2>1. Queued = Queued' \union {Head(queue)} /\ Held' = Held \union {Head(queue)}
    BY <1>2, TakeQueued, HeldAfterTake DEF IInv
  <2> QED BY <1>2, <2>1 DEF Take
<1>3. ASSUME NEW t \in Threads, FreeData(t)
      PROVE  Queued' = Queued /\ ran' = ran /\ Held \subseteq Held' \union ran
  <2>1. Held' = Held \ {held[t]} /\ held[t] \in ran
    BY <1>3, HeldAfterFree DEF IInv, FreeData, HistoryOK
  <2> QED BY <1>3, <2>1 DEF FreeData, Queued
<1>4. CASE UNCHANGED <<queue, held>> /\ ran \subseteq ran'
  BY <1>4 DEF Queued, Held
<1> QED
  BY <1>1, <1>2, <1>3, <1>4
     DEF Next, ThreadStep, Wait, Exit, RunOp, SpuriousWakeup, Quit, Join, vars

\* A pool that was destroyed is left alone by its own steps.
LEMMA DestroyedStays ==
  ASSUME IInv, [Next]_vars, Destroyed
  PROVE  Destroyed'
<1> USE DEF Destroyed
<1>1. ~ Join
  BY NThreadsAssumption DEF Join
<1> QED
  BY <1>1 DEF Next, ThreadStep, Dispatch, Take, FreeData, Wait, Exit, RunOp, SpuriousWakeup,
              Quit, vars

\* No thread of a destroyed pool holds a job or runs.
LEMMA DestroyedIdle ==
  ASSUME IInv, Destroyed
  PROVE  Held = {} /\ \A t \in Threads : pc[t] = "done"
<1>1. \A t \in Threads : pc[t] = "done"
  BY DEF IInv, ControlOK, Destroyed, Threads
<1>2. \A t \in Threads : held[t] = NoJob
  BY <1>1 DEF IInv, ControlOK
<1> QED BY <1>1, <1>2 DEF Held
-----------------------------------------------------------------------------
\* Every variable keeps its type.
THEOREM TypeCorrect == Spec => []TypeOK
  BY Invariance, PTL DEF IInv

\* dispatch() and dispatch_thread_handler() never lose a wakeup, whatever the
\* number of threads, the jobs and the interleaving.
THEOREM WakeupSafe == Spec => []NoLostWakeup
  BY Invariance, PTL DEF IInv

\* Job data is live exactly while its job is queued or held, by one owner.
THEOREM DataSafe == Spec => []DataOwned
<1>1. IInv => DataOwned
  BY DEF IInv, DataOwned
<1> QED BY Invariance, <1>1, PTL

\* When the destructor has returned no thread is left, and it leaks the data
\* of jobs that never ran, nothing else.
THEOREM DestructionSafe == Spec => []CleanDestruction
<1>1. IInv => CleanDestruction
  <2> SUFFICES ASSUME IInv, Destroyed
               PROVE  /\ Held = {}
                      /\ \A j \in Jobs : buf[j] = "live" => j \in Queued \ ran
    BY DEF IInv, ControlOK, CleanDestruction
  <2>1. \A t \in Threads : held[t] = NoJob
    BY DEF IInv, ControlOK, Destroyed, Threads
  <2>2. Held = {}
    BY <2>1 DEF Held
  <2>3. ASSUME NEW j \in Jobs, buf[j] = "live"
        PROVE  j \in Queued \ ran
    <3>1. j \in Buffered
      BY <2>3 DEF IInv, UnbufferedOK
    <3> QED BY <2>2, <2>3, <3>1 DEF IInv, DataLiveWhileOwned, HistoryOK
  <2> QED BY <2>2, <2>3
<1> QED BY Invariance, <1>1, PTL
-----------------------------------------------------------------------------
\* The safety part of the refinement: every behaviour of the pool is one of
\* TaskPool when Held jobs that run are read as active.
THEOREM RefinesTaskPool == Spec => Abstract!Safety
<1> DEFINE Active == {held[t] : t \in ThreadsAt("running")}
<1>1. Init => Abstract!Init
  BY DEF Init, Abstract!Init, ThreadsAt
<1>2. IInv /\ [Next]_vars => [Abstract!Next]_Abstract!vars
  <2> SUFFICES ASSUME IInv, [Next]_vars
               PROVE  Abstract!Next \/ UNCHANGED <<queue, Active, ran, quit>>
    BY DEF Abstract!vars
  <2> USE DEF IInv
  <2>0. /\ Active \subseteq Held
        /\ \A t \in Threads : held[t] \in Jobs \union {NoJob}
    BY DEF ControlOK, Held, ThreadsAt, TypeOK
  <2>1. ASSUME NEW j \in Jobs, Dispatch(j)
        PROVE  Abstract!Submit(j)
    <3>1. Active' = Active
      <4>1. /\ held' = held
            /\ \/ pc' = pc
               \/ \E t \in ThreadsAt("waiting") : pc' = [pc EXCEPT ![t] = "ready"]
        BY <2>1 DEF Dispatch, NotifyOne
      <4>2. ThreadsAt("running")' = ThreadsAt("running")
        BY <4>1 DEF ThreadsAt, TypeOK
      <4> QED BY <4>1, <4>2
    <3>2. j \notin Active \union ran /\ \A i \in DOMAIN queue : queue[i] # j
      BY <2>0, <2>1 DEF Dispatch, Fresh, Queued
    <3> QED BY <2>1, <3>1, <3>2 DEF Dispatch, Abstract!Submit
  <2>2. ASSUME NEW t \in Threads, Take(t)
        PROVE  Abstract!Start
    <3>1. ThreadsAt("running")' = ThreadsAt("running") \union {t}
      BY <2>2 DEF Take, ThreadsAt, TypeOK
    <3>2. \A u \in ThreadsAt("running") : u # t /\ held'[u] = held[u]
      BY <2>2 DEF Take, ThreadsAt, TypeOK
    <3>3. held'[t] = Head(queue)
      BY <2>2 DEF Take, TypeOK
    <3>4. Active' = Active \union {Head(queue)}
      BY <3>1, <3>2, <3>3
    <3> QED BY <2>2, <3>4 DEF Take, Abstract!Start
  <2>3. ASSUME NEW t \in Threads, RunOp(t)
        PROVE  Abstract!Complete(held[t]) /\ held[t] \in Jobs
    <3>1. ThreadsAt("running")' = ThreadsAt("running") \ {t} /\ held' = held
      BY <2>3 DEF RunOp, ThreadsAt, TypeOK
    <3>2. \A u \in ThreadsAt("running") : held[u] = held[t] => u = t
      BY <2>3 DEF RunOp, ControlOK, OneOwner, ThreadsAt
    <3>3. Active' = Active \ {held[t]}
      BY <3>1, <3>2
    <3>4. held[t] \in Active /\ held[t] \in Jobs
      BY <2>3 DEF RunOp, ThreadsAt, ControlOK, TypeOK
    <3> QED BY <2>3, <3>3, <3>4 DEF RunOp, Abstract!Complete
  <2>4. ASSUME NEW t \in Threads,
               Wait(t) \/ Exit(t) \/ FreeData(t) \/ SpuriousWakeup(t)
        PROVE  UNCHANGED <<queue, Active, ran, quit>>
    <3>1. /\ ThreadsAt("running")' = ThreadsAt("running")
          /\ \A u \in ThreadsAt("running") : held'[u] = held[u]
      BY <2>4 DEF Wait, Exit, FreeData, SpuriousWakeup, ThreadsAt, TypeOK
    <3>2. Active' = Active
      BY <3>1
    <3> QED BY <2>4, <3>2 DEF Wait, Exit, FreeData, SpuriousWakeup
  <2>5. CASE Quit
    <3>1. ThreadsAt("running")' = ThreadsAt("running") /\ held' = held
      BY <2>5 DEF Quit, NotifyAll, ThreadsAt
    <3> QED BY <2>5, <3>1 DEF Quit, Abstract!Close, Abstract!Next
  <2>6. CASE Join \/ UNCHANGED vars
    BY <2>6 DEF Join, vars, ThreadsAt
  <2>7. ASSUME NEW j \in Jobs, Dispatch(j)
        PROVE  Abstract!Next
    BY <2>1, <2>7 DEF Abstract!Next
  <2>8. ASSUME NEW t \in Threads, Take(t) \/ RunOp(t)
        PROVE  Abstract!Next
    <3>1. CASE Take(t)
      BY <2>2, <3>1 DEF Abstract!Next
    <3>2. CASE RunOp(t)
      <4>1. \E j \in Jobs : Abstract!Complete(j)
        BY <2>3, <3>2 DEF Abstract!Complete
      <4> QED BY <4>1 DEF Abstract!Next
    <3> QED BY <2>8, <3>1, <3>2
  <2> HIDE DEF Active
  <2> QED
    BY <2>4, <2>5, <2>6, <2>7, <2>8 DEF Next, ThreadStep
<1> QED
  BY <1>1, <1>2, Invariance, PTL DEF Spec, Abstract!Safety
=============================================================================
