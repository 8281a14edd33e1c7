--------------------------- MODULE LifecycleProofs ---------------------------
(***************************************************************************)
(* Proofs about Lifecycle for any numbers of threads and any messages: the *)
(* order in which tpsvrdone deletes the pools keeps parsers from           *)
(* dispatching into a pool that dies, and nothing parsed is half done.     *)
(* What holds inside a pool is taken from WorkerPoolProofs.                *)
(***************************************************************************)
EXTENDS Lifecycle, TLAPS

PP == INSTANCE WorkerPoolProofs WITH NThreads <- PThreads, Jobs <- Messages,
        Buffered <- Messages, queue <- pQueue, quit <- pQuit, pc <- pPc, held <- pHeld,
        buf <- pBuf, ran <- pRan, joined <- pJoined
JP == INSTANCE WorkerPoolProofs WITH NThreads <- JThreads, Jobs <- JoinJobs,
        Buffered <- JoinJobs, queue <- jQueue, quit <- jQuit, pc <- jPc, held <- jHeld,
        buf <- jBuf, ran <- jRan, joined <- jJoined
DP == INSTANCE WorkerPoolProofs WITH NThreads <- DThreads, Jobs <- DataJobs,
        Buffered <- DataJobs, queue <- dQueue, quit <- dQuit, pc <- dPc, held <- dHeld,
        buf <- dBuf, ran <- dRan, joined <- dJoined

\* A pool is quitting only when those before it in DeletionOrder are destroyed.
Order ==
  /\ phase \in Phases
  /\ phase \in {"deleteJoin", "deleteData", "terminated"} => P!Destroyed
  /\ phase \in {"deleteData", "terminated"} => J!Destroyed
  /\ phase = "terminated" => D!Destroyed
  /\ jQuit => phase \in {"deleteJoin", "deleteData", "terminated"}
  /\ dQuit => phase \in {"deleteData", "terminated"}

\* A message whose handler has returned was dispatched to its target.
PassedOn ==
  \A m \in pRan : /\ m \in JoinJobs => ~ J!Fresh(m)
                  /\ m \in DataJobs => ~ D!Fresh(m)

Pools == PP!IInv /\ JP!IInv /\ DP!IInv

LInv == Pools /\ Order /\ PassedOn
-----------------------------------------------------------------------------
(* The operators of a pool are those of the module the proofs are in.      *)

LEMMA SameP ==
  /\ P!Init => PP!Init
  /\ \A m \in Messages : P!Dispatch(m) => PP!Dispatch(m)
  /\ \A t \in 1 .. PThreads : P!ThreadStep(t) => PP!ThreadStep(t)
  /\ \A t \in 1 .. PThreads : P!SpuriousWakeup(t) => PP!SpuriousWakeup(t)
  /\ P!Quit => PP!Quit
  /\ P!Join => PP!Join
BY DEF P!Init, PP!Init, P!Threads, PP!Threads, P!Queued, PP!Queued, P!Held, PP!Held,
       P!Fresh, PP!Fresh, P!ThreadsAt, PP!ThreadsAt, P!NotifyOne, PP!NotifyOne,
       P!NotifyAll, PP!NotifyAll, P!Dispatch, PP!Dispatch, P!Wait, PP!Wait,
       P!Take, PP!Take, P!Exit, PP!Exit, P!RunOp, PP!RunOp, P!FreeData, PP!FreeData,
       P!ThreadStep, PP!ThreadStep, P!SpuriousWakeup, PP!SpuriousWakeup,
       P!Quit, PP!Quit, P!Join, PP!Join

LEMMA SameJ ==
  /\ J!Init => JP!Init
  /\ \A m \in JoinJobs : J!Dispatch(m) => JP!Dispatch(m)
  /\ \A t \in 1 .. JThreads : J!ThreadStep(t) => JP!ThreadStep(t)
  /\ \A t \in 1 .. JThreads : J!SpuriousWakeup(t) => JP!SpuriousWakeup(t)
  /\ J!Quit => JP!Quit
  /\ J!Join => JP!Join
BY DEF J!Init, JP!Init, J!Threads, JP!Threads, J!Queued, JP!Queued, J!Held, JP!Held,
       J!Fresh, JP!Fresh, J!ThreadsAt, JP!ThreadsAt, J!NotifyOne, JP!NotifyOne,
       J!NotifyAll, JP!NotifyAll, J!Dispatch, JP!Dispatch, J!Wait, JP!Wait,
       J!Take, JP!Take, J!Exit, JP!Exit, J!RunOp, JP!RunOp, J!FreeData, JP!FreeData,
       J!ThreadStep, JP!ThreadStep, J!SpuriousWakeup, JP!SpuriousWakeup,
       J!Quit, JP!Quit, J!Join, JP!Join

LEMMA SameD ==
  /\ D!Init => DP!Init
  /\ \A m \in DataJobs : D!Dispatch(m) => DP!Dispatch(m)
  /\ \A t \in 1 .. DThreads : D!ThreadStep(t) => DP!ThreadStep(t)
  /\ \A t \in 1 .. DThreads : D!SpuriousWakeup(t) => DP!SpuriousWakeup(t)
  /\ D!Quit => DP!Quit
  /\ D!Join => DP!Join
BY DEF D!Init, DP!Init, D!Threads, DP!Threads, D!Queued, DP!Queued, D!Held, DP!Held,
       D!Fresh, DP!Fresh, D!ThreadsAt, DP!ThreadsAt, D!NotifyOne, DP!NotifyOne,
       D!NotifyAll, DP!NotifyAll, D!Dispatch, DP!Dispatch, D!Wait, DP!Wait,
       D!Take, DP!Take, D!Exit, DP!Exit, D!RunOp, DP!RunOp, D!FreeData, DP!FreeData,
       D!ThreadStep, DP!ThreadStep, D!SpuriousWakeup, DP!SpuriousWakeup,
       D!Quit, DP!Quit, D!Join, DP!Join
-----------------------------------------------------------------------------
(* What a step of a pool keeps, as its owner sees it.                      *)

LEMMA ParserKeeps ==
  ASSUME PP!IInv, [PP!Next]_(PP!vars)
  PROVE  /\ PP!IInv'
         /\ \A m : P!Fresh(m)' => P!Fresh(m)
         /\ P!Destroyed => P!Destroyed'
<1>1. Messages \subseteq Messages
  BY DEF JoinJobs, DataJobs
<1>2. PP!IInv'
  BY <1>1, PP!StepInv, ThreadsAssumption, NoJobAssumption
<1>3. PP!Queued \union PP!Held \union pRan \subseteq (PP!Queued \union PP!Held \union pRan)'
  BY <1>1, PP!SeenStays, ThreadsAssumption, NoJobAssumption
<1>4. PP!Destroyed => PP!Destroyed'
  BY <1>1, PP!DestroyedStays, ThreadsAssumption, NoJobAssumption
<1>6. \A m : P!Fresh(m) <=> m \notin PP!Queued \union PP!Held \union pRan
  BY DEF P!Fresh, P!Queued, PP!Queued, P!Held, PP!Held, P!Threads, PP!Threads
<1>7. \A m : P!Fresh(m)' <=> m \notin (PP!Queued \union PP!Held \union pRan)'
  BY DEF P!Fresh, P!Queued, PP!Queued, P!Held, PP!Held, P!Threads, PP!Threads
<1>8. (P!Destroyed <=> PP!Destroyed) /\ (P!Destroyed' <=> PP!Destroyed')
  BY DEF P!Destroyed, PP!Destroyed
<1> QED BY <1>2, <1>3, <1>4, <1>6, <1>7, <1>8

LEMMA JoinKeeps ==
  ASSUME JP!IInv, [JP!Next]_(JP!vars)
  PROVE  /\ JP!IInv'
         /\ \A m : J!Fresh(m)' => J!Fresh(m)
         /\ J!Destroyed => J!Destroyed'
<1>1. JoinJobs \subseteq Messages
  BY DEF JoinJobs, DataJobs
<1>2. JP!IInv'
  BY <1>1, JP!StepInv, ThreadsAssumption, NoJobAssumption
<1>3. JP!Queued \union JP!Held \union jRan \subseteq (JP!Queued \union JP!Held \union jRan)'
  BY <1>1, JP!SeenStays, ThreadsAssumption, NoJobAssumption
<1>4. JP!Destroyed => JP!Destroyed'
  BY <1>1, JP!DestroyedStays, ThreadsAssumption, NoJobAssumption
<1>6. \A m : J!Fresh(m) <=> m \notin JP!Queued \union JP!Held \union jRan
  BY DEF J!Fresh, J!Queued, JP!Queued, J!Held, JP!Held, J!Threads, JP!Threads
<1>7. \A m : J!Fresh(m)' <=> m \notin (JP!Queued \union JP!Held \union jRan)'
  BY DEF J!Fresh, J!Queued, JP!Queued, J!Held, JP!Held, J!Threads, JP!Threads
<1>8. (J!Destroyed <=> JP!Destroyed) /\ (J!Destroyed' <=> JP!Destroyed')
  BY DEF J!Destroyed, JP!Destroyed
<1> QED BY <1>2, <1>3, <1>4, <1>6, <1>7, <1>8

LEMMA DataKeeps ==
  ASSUME DP!IInv, [DP!Next]_(DP!vars)
  PROVE  /\ DP!IInv'
         /\ \A m : D!Fresh(m)' => D!Fresh(m)
         /\ D!Destroyed => D!Destroyed'
<1>1. DataJobs \subseteq Messages
  BY DEF JoinJobs, DataJobs
<1>2. DP!IInv'
  BY <1>1, DP!StepInv, ThreadsAssumption, NoJobAssumption
<1>3. DP!Queued \union DP!Held \union dRan \subseteq (DP!Queued \union DP!Held \union dRan)'
  BY <1>1, DP!SeenStays, ThreadsAssumption, NoJobAssumption
<1>4. DP!Destroyed => DP!Destroyed'
  BY <1>1, DP!DestroyedStays, ThreadsAssumption, NoJobAssumption
<1>6. \A m : D!Fresh(m) <=> m \notin DP!Queued \union DP!Held \union dRan
  BY DEF D!Fresh, D!Queued, DP!Queued, D!Held, DP!Held, D!Threads, DP!Threads
<1>7. \A m : D!Fresh(m)' <=> m \notin (DP!Queued \union DP!Held \union dRan)'
  BY DEF D!Fresh, D!Queued, DP!Queued, D!Held, DP!Held, D!Threads, DP!Threads
<1>8. (D!Destroyed <=> DP!Destroyed) /\ (D!Destroyed' <=> DP!Destroyed')
  BY DEF D!Destroyed, DP!Destroyed
<1> QED BY <1>2, <1>3, <1>4, <1>6, <1>7, <1>8

(***************************************************************************)
(* Seen from one pool, a step of the process is one of its own or none.    *)
(* The parser pool's books gain a message only when its handler has no     *)
(* dispatch left, and a pool quits only when its deletion has begun.       *)
(***************************************************************************)
Effect ==
  /\ [PP!Next]_(PP!vars) /\ [JP!Next]_(JP!vars) /\ [DP!Next]_(DP!vars)
  /\ \A m \in pRan' : m \in pRan \/ ~ StillToDispatch(m)
  /\ jQuit' => jQuit \/ (phase = "deleteJoin" /\ phase' = phase)
  /\ dQuit' => dQuit \/ (phase = "deleteData" /\ phase' = phase)
  /\ phase' # phase => Deleted(phase) /\ phase' = After(phase)

LEMMA Effects == [Next]_vars => Effect
<1> USE SameP, SameJ, SameD DEF Effect
<1>1. UNCHANGED pVars => UNCHANGED PP!vars /\ pRan' = pRan
  BY DEF pVars, PP!vars
<1>2. UNCHANGED jVars => UNCHANGED JP!vars /\ jQuit' = jQuit
  BY DEF jVars, JP!vars
<1>3. UNCHANGED dVars => UNCHANGED DP!vars /\ dQuit' = dQuit
  BY DEF dVars, DP!vars
<1>4. ASSUME NEW m \in Messages, MAIN_MESSAGE_SVC(m)
      PROVE  Effect
  <2>1. PP!Next /\ pRan' = pRan
    BY <1>4 DEF MAIN_MESSAGE_SVC, PP!Next, P!Dispatch
  <2> QED BY <1>2, <1>3, <1>4, <2>1 DEF MAIN_MESSAGE_SVC
<1>5. CASE tpsvrdone
  BY <1>1, <1>2, <1>3, <1>5 DEF tpsvrdone
<1>6. CASE Destructor
  <2>1. CASE phase = "deleteProtocol" /\ (P!Quit \/ P!Join) /\ UNCHANGED <<phase, jVars, dVars>>
    <3>1. PP!Next /\ pRan' = pRan
      BY <2>1 DEF PP!Next, P!Quit, P!Join
    <3> QED BY <1>2, <1>3, <2>1, <3>1
  <2>2. CASE phase = "deleteJoin" /\ (J!Quit \/ J!Join) /\ UNCHANGED <<phase, pVars, dVars>>
    <3>1. JP!Next
      BY <2>2 DEF JP!Next
    <3> QED BY <1>1, <1>3, <2>2, <3>1
  <2>3. CASE phase = "deleteData" /\ (D!Quit \/ D!Join) /\ UNCHANGED <<phase, pVars, jVars>>
    <3>1. DP!Next
      BY <2>3 DEF DP!Next
    <3> QED BY <1>1, <1>2, <2>3, <3>1
  <2> QED BY <1>6, <2>1, <2>2, <2>3 DEF Destructor
<1>7. ASSUME NEW t \in 1 .. PThreads, HandlerDispatches(t)
      PROVE  Effect
  <2>1. CASE pHeld[t] \in JoinJobs /\ J!Dispatch(pHeld[t]) /\ UNCHANGED dVars
    <3>1. JP!Next /\ jQuit' = jQuit
      BY <2>1 DEF JP!Next, J!Dispatch
    <3> QED BY <1>1, <1>3, <1>7, <2>1, <3>1 DEF HandlerDispatches
  <2>2. CASE pHeld[t] \in DataJobs /\ D!Dispatch(pHeld[t]) /\ UNCHANGED jVars
    <3>1. DP!Next /\ dQuit' = dQuit
      BY <2>2 DEF DP!Next, D!Dispatch
    <3> QED BY <1>1, <1>2, <1>7, <2>2, <3>1 DEF HandlerDispatches
  <2> QED BY <1>7, <2>1, <2>2 DEF HandlerDispatches
<1>8. ASSUME NEW t \in 1 .. PThreads, ParserThread(t)
      PROVE  Effect
  <2>1. PP!Next
    BY <1>8 DEF ParserThread, PP!Next, PP!Threads
  <2>2. \A m \in pRan' : m \in pRan \/ ~ StillToDispatch(m)
    BY <1>8 DEF ParserThread, P!ThreadStep, P!Wait, P!Take, P!Exit, P!RunOp, P!FreeData
  <2> QED BY <1>2, <1>3, <1>8, <2>1, <2>2 DEF ParserThread
<1>9. ASSUME NEW t \in 1 .. JThreads, JoinThread(t)
      PROVE  Effect
  <2>1. JP!Next /\ jQuit' = jQuit
    BY <1>9 DEF JoinThread, JP!Next, JP!Threads,
                J!ThreadStep, J!Wait, J!Take, J!Exit, J!RunOp, J!FreeData
  <2> QED BY <1>1, <1>3, <1>9, <2>1 DEF JoinThread
<1>10. ASSUME NEW t \in 1 .. DThreads, DataThread(t)
       PROVE  Effect
  <2>1. DP!Next /\ dQuit' = dQuit
    BY <1>10 DEF DataThread, DP!Next, DP!Threads,
                 D!ThreadStep, D!Wait, D!Take, D!Exit, D!RunOp, D!FreeData
  <2> QED BY <1>1, <1>2, <1>10, <2>1 DEF DataThread
<1>11. CASE SpuriousWakeup
  <2>1. ASSUME NEW t \in 1 .. PThreads, P!SpuriousWakeup(t), UNCHANGED <<phase, jVars, dVars>>
        PROVE  Effect
    <3>1. PP!Next /\ pRan' = pRan
      BY <2>1 DEF PP!Next, PP!Threads, P!SpuriousWakeup
    <3> QED BY <1>2, <1>3, <2>1, <3>1
  <2>2. ASSUME NEW t \in 1 .. JThreads, J!SpuriousWakeup(t), UNCHANGED <<phase, pVars, dVars>>
        PROVE  Effect
    <3>1. JP!Next /\ jQuit' = jQuit
      BY <2>2 DEF JP!Next, JP!Threads, J!SpuriousWakeup
    <3> QED BY <1>1, <1>3, <2>2, <3>1
  <2>3. ASSUME NEW t \in 1 .. DThreads, D!SpuriousWakeup(t), UNCHANGED <<phase, pVars, jVars>>
        PROVE  Effect
    <3>1. DP!Next /\ dQuit' = dQuit
      BY <2>3 DEF DP!Next, DP!Threads, D!SpuriousWakeup
    <3> QED BY <1>1, <1>2, <2>3, <3>1
  <2> QED BY <1>11, <2>1, <2>2, <2>3 DEF SpuriousWakeup
<1>12. CASE UNCHANGED vars
  BY <1>1, <1>2, <1>3, <1>12 DEF vars
<1> HIDE SameP, SameJ, SameD DEF Effect
<1> QED BY <1>4, <1>5, <1>6, <1>7, <1>8, <1>9, <1>10, <1>11, <1>12 DEF Next

\* The order of tpsvrdone, phase by phase.
LEMMA Successors ==
  /\ After("serving") = "deleteProtocol"
  /\ After("deleteProtocol") = "deleteJoin"
  /\ After("deleteJoin") = "deleteData"
  /\ After("deleteData") = "terminated"
<1> DEFINE At(p) == CHOOSE k \in 1 .. 4 : DeletionOrder[k] = p
<1>1. \A k \in 1 .. 4 : k = 1 \/ k = 2 \/ k = 3 \/ k = 4
  OBVIOUS
<1>2. At("serving") = 1 /\ At("deleteProtocol") = 2 /\ At("deleteJoin") = 3
        /\ At("deleteData") = 4
  BY <1>1 DEF DeletionOrder
<1> QED BY <1>2 DEF After, DeletionOrder

LEMMA OrderStep ==
  ASSUME LInv, [Next]_vars
  PROVE  Order'
<1>1. /\ P!Destroyed => P!Destroyed'
      /\ J!Destroyed => J!Destroyed'
      /\ D!Destroyed => D!Destroyed'
  BY Effects, ParserKeeps, JoinKeeps, DataKeeps DEF LInv, Pools, Effect
<1>2. \/ phase' = phase
      \/ phase = "serving" /\ phase' = "deleteProtocol"
      \/ phase = "deleteProtocol" /\ phase' = "deleteJoin" /\ P!Destroyed
      \/ phase = "deleteJoin" /\ phase' = "deleteData" /\ J!Destroyed
      \/ phase = "deleteData" /\ phase' = "terminated" /\ D!Destroyed
  BY Effects, Successors DEF LInv, Order, Phases, Deleted, Effect
<1>3. /\ jQuit' => jQuit \/ (phase = "deleteJoin" /\ phase' = phase)
      /\ dQuit' => dQuit \/ (phase = "deleteData" /\ phase' = phase)
  BY Effects DEF Effect
<1> QED BY <1>1, <1>2, <1>3 DEF LInv, Order, Phases

LEMMA PassedOnStep ==
  ASSUME LInv, [Next]_vars
  PROVE  PassedOn'
<1>1. \A m : (J!Fresh(m)' => J!Fresh(m)) /\ (D!Fresh(m)' => D!Fresh(m))
  BY Effects, JoinKeeps, DataKeeps DEF LInv, Pools, Effect
<1>2. \A m \in pRan' : m \in pRan \/ ~ StillToDispatch(m)
  BY Effects DEF Effect
<1> QED BY <1>1, <1>2 DEF LInv, PassedOn, StillToDispatch, JoinJobs, DataJobs

LEMMA Initially == Init => LInv
<1> SUFFICES ASSUME Init
             PROVE  LInv
  OBVIOUS
<1>1. JoinJobs \subseteq Messages /\ DataJobs \subseteq Messages
  BY DEF JoinJobs, DataJobs
<1>2. PP!Init /\ JP!Init /\ DP!Init
  BY SameP, SameJ, SameD DEF Init
<1>3. Pools
  BY <1>1, <1>2, PP!InitInv, JP!InitInv, DP!InitInv, ThreadsAssumption, NoJobAssumption
     DEF Pools
<1>4. Order
  BY DEF Init, Order, Phases, J!Init, D!Init
<1>5. PassedOn
  BY DEF Init, PassedOn, P!Init
<1> QED BY <1>3, <1>4, <1>5 DEF LInv

LEMMA Steps == LInv /\ [Next]_vars => LInv'
<1> SUFFICES ASSUME LInv, [Next]_vars
             PROVE  LInv'
  OBVIOUS
<1>1. Pools'
  BY Effects, ParserKeeps, JoinKeeps, DataKeeps DEF LInv, Pools, Effect
<1> QED BY <1>1, OrderStep, PassedOnStep DEF LInv

LEMMA Inductive == Spec => []LInv
BY Initially, Steps, PTL DEF Spec
-----------------------------------------------------------------------------
\* The main thread and the three pools keep their types.
THEOREM TypeCorrect == Spec => []TypeOK
<1>1. LInv => TypeOK
  BY DEF LInv, Pools, Order, TypeOK, PP!IInv, JP!IInv, DP!IInv,
         P!TypeOK, PP!TypeOK, P!Threads, PP!Threads, P!PcStates, PP!PcStates,
         P!BufStates, PP!BufStates, J!TypeOK, JP!TypeOK, J!Threads, JP!Threads,
         J!PcStates, JP!PcStates, J!BufStates, JP!BufStates, D!TypeOK, DP!TypeOK,
         D!Threads, DP!Threads, D!PcStates, DP!PcStates, D!BufStates, DP!BufStates
<1> QED BY <1>1, Inductive, PTL

(***************************************************************************)
(* A handler never dispatches into a pool that is being destroyed or gone, *)
(* for any numbers of threads: while a parser runs, the parser pool is not *)
(* destroyed, and only after that does tpsvrdone come to the other two.    *)
(***************************************************************************)
THEOREM NoDispatchSafe == Spec => []NoDispatchToDyingPool
<1>1. LInv => NoDispatchToDyingPool
  <2> SUFFICES ASSUME LInv, NEW t \in 1 .. PThreads, pPc[t] = "running"
               PROVE  ~ jQuit /\ ~ dQuit
    BY DEF NoDispatchToDyingPool
  <2>1. ~ P!Destroyed
    <3>1. PP!Destroyed => \A u \in PP!Threads : pPc[u] = "done"
      BY PP!DestroyedIdle, ThreadsAssumption, NoJobAssumption DEF LInv, Pools
    <3> QED BY <3>1 DEF PP!Destroyed, P!Destroyed, PP!Threads
  <2> QED BY <2>1 DEF LInv, Order
<1> QED BY <1>1, Inductive, PTL

(***************************************************************************)
(* When the process has terminated no thread of any pool holds a job, and  *)
(* each message that was parsed was run downstream or is still queued.     *)
(***************************************************************************)
THEOREM NothingHalfDoneSafe == Spec => []NothingHalfDone
<1>1. LInv => NothingHalfDone
  <2> SUFFICES ASSUME LInv, phase = "terminated"
               PROVE  NothingHalfDone
    BY DEF NothingHalfDone
  <2>1. JoinJobs \subseteq Messages /\ DataJobs \subseteq Messages
    BY DEF JoinJobs, DataJobs
  <2>2. PP!Destroyed /\ JP!Destroyed /\ DP!Destroyed
    BY DEF LInv, Order, P!Destroyed, PP!Destroyed, J!Destroyed, JP!Destroyed,
           D!Destroyed, DP!Destroyed
  <2>3. PP!Held = {} /\ JP!Held = {} /\ DP!Held = {}
    BY <2>1, <2>2, PP!DestroyedIdle, JP!DestroyedIdle, DP!DestroyedIdle, ThreadsAssumption,
       NoJobAssumption DEF LInv, Pools
  <2>4. P!Held = {} /\ J!Held = {} /\ D!Held = {}
    BY <2>3 DEF P!Held, PP!Held, J!Held, JP!Held, D!Held, DP!Held, P!Threads, PP!Threads,
                J!Threads, JP!Threads, D!Threads, DP!Threads
  <2>5. pRan \subseteq Messages
    BY DEF LInv, Pools, PP!IInv, PP!TypeOK
  <2>6. ASSUME NEW m \in pRan, Target[m] = "join"
        PROVE  m \in jRan \union J!Queued
    BY <2>4, <2>5, <2>6 DEF LInv, PassedOn, JoinJobs, J!Fresh
  <2>7. ASSUME NEW m \in pRan, Target[m] = "data"
        PROVE  m \in dRan \union D!Queued
    BY <2>4, <2>5, <2>7 DEF LInv, PassedOn, DataJobs, D!Fresh
  <2> QED BY <2>4, <2>6, <2>7 DEF NothingHalfDone
<1> QED BY <1>1, Inductive, PTL
=============================================================================
