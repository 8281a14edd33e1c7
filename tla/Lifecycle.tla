------------------------------ MODULE Lifecycle ------------------------------
(***************************************************************************)
(* The life of the main server process around its three worker pools: the  *)
(* main thread serves messages and, in tpsvrdone, deletes the pools one    *)
(* after the other.  Jobs of the parser pool run join_id_pass_request or   *)
(* dataserver_get_char_list_request, which dispatch a job of their own     *)
(* into the join server pool or the data server pool through the global    *)
(* pointers; tpsvrdone never sets these to null, so what keeps a parser    *)
(* from dispatching into a deleted pool is the order of the deletions.     *)
(*                                                                         *)
(* Each pool is an instance of WorkerPool.  A job keeps its name when it   *)
(* moves down to another pool.                                             *)
(***************************************************************************)
EXTENDS Naturals, Sequences, FiniteSets

CONSTANTS PThreads, JThreads, DThreads,   \* threads of the three pools
          Messages,    \* client messages, each dispatched at most once
          Target,      \* the pool a message's handler dispatches to, see below
          NoJob

ASSUME ThreadsAssumption == /\ PThreads \in Nat \ {0}
                            /\ JThreads \in Nat \ {0}
                            /\ DThreads \in Nat \ {0}
ASSUME NoJobAssumption  == NoJob \notin Messages
ASSUME TargetAssumption == Target \in [Messages -> {"join", "data", "none"}]

JoinJobs == {m \in Messages : Target[m] = "join"}
DataJobs == {m \in Messages : Target[m] = "data"}

VARIABLES
  phase,                                                       \* the main thread
  pQueue, pQuit, pPc, pHeld, pBuf, pRan, pJoined,              \* M_protocol_manager
  jQueue, jQuit, jPc, jHeld, jBuf, jRan, jJoined,              \* M_joinserver_manager
  dQueue, dQuit, dPc, dHeld, dBuf, dRan, dJoined               \* M_dataserver_manager

pVars == <<pQueue, pQuit, pPc, pHeld, pBuf, pRan, pJoined>>
jVars == <<jQueue, jQuit, jPc, jHeld, jBuf, jRan, jJoined>>
dVars == <<dQueue, dQuit, dPc, dHeld, dBuf, dRan, dJoined>>
vars  == <<phase, pVars, jVars, dVars>>

\* MAIN_MESSAGE_SVC dispatches with data, and so do both handlers.
P == INSTANCE WorkerPool WITH NThreads <- PThreads, Jobs <- Messages, Buffered <- Messages,
       queue <- pQueue, quit <- pQuit, pc <- pPc, held <- pHeld, buf <- pBuf,
       ran <- pRan, joined <- pJoined
J == INSTANCE WorkerPool WITH NThreads <- JThreads, Jobs <- JoinJobs, Buffered <- JoinJobs,
       queue <- jQueue, quit <- jQuit, pc <- jPc, held <- jHeld, buf <- jBuf,
       ran <- jRan, joined <- jJoined
D == INSTANCE WorkerPool WITH NThreads <- DThreads, Jobs <- DataJobs, Buffered <- DataJobs,
       queue <- dQueue, quit <- dQuit, pc <- dPc, held <- dHeld, buf <- dBuf,
       ran <- dRan, joined <- dJoined

Phases == {"serving", "deleteProtocol", "deleteJoin", "deleteData", "terminated"}

TypeOK == phase \in Phases /\ P!TypeOK /\ J!TypeOK /\ D!TypeOK

\* tpsvrinit creates the pools before it advertises the services.
Init == phase = "serving" /\ P!Init /\ J!Init /\ D!Init
-----------------------------------------------------------------------------
(* The main thread.                                                        *)

MAIN_MESSAGE_SVC(m) ==
  /\ phase = "serving"
  /\ P!Dispatch(m)
  /\ UNCHANGED <<phase, jVars, dVars>>

DownstreamFirst ==   \* faulty: the pools are deleted in the opposite order
  <<"serving", "deleteData", "deleteJoin", "deleteProtocol", "terminated">>

\* The order of the deletions in tpsvrdone.
DeletionOrder == <<"serving", "deleteProtocol", "deleteJoin", "deleteData", "terminated">>

After(p) == DeletionOrder[1 + CHOOSE i \in 1 .. 4 : DeletionOrder[i] = p]

NotWaitedFor(p) == p # "terminated"   \* faulty: the next deletion does not wait

\* Whether the destructor the main thread is in has returned.
Deleted(p) == CASE p = "deleteProtocol" -> P!Destroyed
                [] p = "deleteJoin"     -> J!Destroyed
                [] p = "deleteData"     -> D!Destroyed
                [] p = "serving"        -> TRUE
                [] OTHER                -> FALSE

\* tpsvrdone begins, or goes on to the next delete, or ends.
tpsvrdone ==
  /\ Deleted(phase)
  /\ phase' = After(phase)
  /\ UNCHANGED <<pVars, jVars, dVars>>

Destructor ==
  \/ phase = "deleteProtocol" /\ (P!Quit \/ P!Join) /\ UNCHANGED <<phase, jVars, dVars>>
  \/ phase = "deleteJoin"     /\ (J!Quit \/ J!Join) /\ UNCHANGED <<phase, pVars, dVars>>
  \/ phase = "deleteData"     /\ (D!Quit \/ D!Join) /\ UNCHANGED <<phase, pVars, jVars>>
-----------------------------------------------------------------------------
(* The threads of the pools.                                               *)

\* The handler of message m has not come to its own dispatch yet.
StillToDispatch(m) ==
  \/ m \in JoinJobs /\ J!Fresh(m)
  \/ m \in DataJobs /\ D!Fresh(m)

\* A parser inside op.function dispatches downstream.
HandlerDispatches(t) ==
  /\ pPc[t] = "running"
  /\ \/ pHeld[t] \in JoinJobs /\ J!Dispatch(pHeld[t]) /\ UNCHANGED dVars
     \/ pHeld[t] \in DataJobs /\ D!Dispatch(pHeld[t]) /\ UNCHANGED jVars
  /\ UNCHANGED <<phase, pVars>>

\* op.function returns only after the dispatch.
ParserThread(t) ==
  /\ P!ThreadStep(t)
  /\ pPc[t] = "running" => ~StillToDispatch(pHeld[t])
  /\ UNCHANGED <<phase, jVars, dVars>>

JoinThread(t) == J!ThreadStep(t) /\ UNCHANGED <<phase, pVars, dVars>>
DataThread(t) == D!ThreadStep(t) /\ UNCHANGED <<phase, pVars, jVars>>

\* cv.wait may return without a notification.
SpuriousWakeup ==
  \/ (\E t \in 1 .. PThreads : P!SpuriousWakeup(t)) /\ UNCHANGED <<phase, jVars, dVars>>
  \/ (\E t \in 1 .. JThreads : J!SpuriousWakeup(t)) /\ UNCHANGED <<phase, pVars, dVars>>
  \/ (\E t \in 1 .. DThreads : D!SpuriousWakeup(t)) /\ UNCHANGED <<phase, pVars, jVars>>

Next == \/ \E m \in Messages : MAIN_MESSAGE_SVC(m)
        \/ tpsvrdone
        \/ Destructor
        \/ \E t \in 1 .. PThreads : HandlerDispatches(t) \/ ParserThread(t)
        \/ \E t \in 1 .. JThreads : JoinThread(t)
        \/ \E t \in 1 .. DThreads : DataThread(t)
        \/ SpuriousWakeup

Spec == Init /\ [][Next]_vars

(***************************************************************************)
(* The threads run and their calls return, as in WorkerPool; once          *)
(* tpsvrdone has begun the main thread goes on.  Nothing obliges the       *)
(* server to be shut down.                                                 *)
(***************************************************************************)
Fairness == /\ \A t \in 1 .. PThreads : /\ WF_vars(HandlerDispatches(t))
                                        /\ WF_vars(ParserThread(t))
            /\ \A t \in 1 .. JThreads : WF_vars(JoinThread(t))
            /\ \A t \in 1 .. DThreads : WF_vars(DataThread(t))
            /\ WF_vars(Destructor)
            /\ WF_vars(tpsvrdone /\ phase # "serving")

FairSpec == Spec /\ Fairness
-----------------------------------------------------------------------------
(***************************************************************************)
(* A parser that still has to dispatch its job downstream finds the pool   *)
(* it dispatches to alive: neither being destroyed nor gone.  Rests on the *)
(* order of tpsvrdone and on a destructor returning only when every thread *)
(* of its pool is done.                                                    *)
(***************************************************************************)
NoDispatchToDyingPool ==
  \A t \in 1 .. PThreads : pPc[t] = "running" =>
    /\ pHeld[t] \in JoinJobs /\ J!Fresh(pHeld[t]) => ~jQuit
    /\ pHeld[t] \in DataJobs /\ D!Fresh(pHeld[t]) => ~dQuit

(***************************************************************************)
(* When the process ends, no thread of any pool is left and a message that *)
(* was parsed has been passed on: what is dropped are only jobs still in a *)
(* queue.                                                                  *)
(***************************************************************************)
NothingHalfDone ==
  phase = "terminated" =>
    /\ P!Held = {} /\ J!Held = {} /\ D!Held = {}
    /\ \A m \in pRan : Target[m] = "join" => m \in jRan \union J!Queued
    /\ \A m \in pRan : Target[m] = "data" => m \in dRan \union D!Queued

\* Once tpsvrdone has begun, the process ends, whatever is queued or running.
ShutdownTerminates == (phase # "serving") ~> (phase = "terminated")
=============================================================================
