-------------------------- MODULE MainServerProofs --------------------------
(***************************************************************************)
(* Proofs about MainServer for every number of slots, connections, threads *)
(* and messages: type correctness, no login left without an answer on its  *)
(* way, slots bound to their own connections, and the login limit.         *)
(***************************************************************************)
EXTENDS MainServer, FiniteSetTheorems, SequenceTheorems, TLAPS

(***************************************************************************)
(* A thread that is in a handler has the message or the request it works   *)
(* on, and the message's connection has a slot.                            *)
(***************************************************************************)
WorkOK ==
  /\ \A t \in Parsers : parser[t].at # "idle" =>
       parser[t].msg \in Message /\ SlotP(t) \in Slots
  /\ \A t \in JsThreads : js[t].at # "idle" => js[t].job \in Job
  /\ \A t \in JsThreads : js[t].at \in {"connect", "count"} => js[t].result \in Result

\* Only logins that are counted in a slot have answers there.
LedgerOK == \A s \in Slots : \A a \in answers[s] : a.id \in counted[s]

IInv == TypeOK /\ WorkOK /\ LedgerOK /\ NoStuckLogin /\ BoundSlotInUse
               /\ LoginLimitHolds
-----------------------------------------------------------------------------
\* What the head and the tail of a queue are.
LEMMA PopFacts ==
  ASSUME NEW S, NEW q \in Seq(S), q # <<>>
  PROVE  Head(q) \in S /\ Tail(q) \in Seq(S)
  BY HeadTailProperties

\* What a push yields.
LEMMA PushFacts ==
  ASSUME NEW S, NEW q \in Seq(S), NEW x \in S
  PROVE  Append(q, x) \in Seq(S)
  BY AppendProperties

(***************************************************************************)
(* Every step changes the slots and their history in one of these ways:    *)
(* by one of the client_info methods, or by recording an answer.           *)
(***************************************************************************)
Answered(s, i, r) ==
  /\ i \in counted[s]
  /\ r # "REFUSED" => client[s].login_send_count < LoginLimit
  /\ answers' = [answers EXCEPT ![s] = @ \union {[id |-> i, result |-> r]}]
  /\ UNCHANGED <<client, everBound, counted>>

SlotEffect ==
  \/ UNCHANGED <<client, everBound, ledger>>
  \/ \E s \in Slots : reset_client(s)
  \/ \E s \in Slots, c \in Conns : SlotOf[c] = s /\ set_connection_info(s, c)
  \/ \E s \in Slots, st \in {"CONNECTED", "LOGGING"} : set_connection_state(s, st)
  \/ \E s \in Slots, i \in 1 .. MaxMsgs : incr_login_count(s, i)
  \/ \E s \in Slots, a \in Accounts \union {NoAccount} : set_account_id(s, a)
  \/ \E s \in Slots, i \in 1 .. MaxMsgs, r \in Result : Answered(s, i, r)

LEMMA StepEffect == TypeOK /\ WorkOK /\ [Next]_vars => SlotEffect
<1> SUFFICES ASSUME TypeOK, WorkOK, [Next]_vars
             PROVE  SlotEffect
  OBVIOUS
<1>1. ASSUME NEW c \in Conns, MAIN_STATUS_SVC(c)
      PROVE  SlotEffect
  <2>1. CASE SlotOf[c] \in Slots
    BY <1>1, <2>1 DEF MAIN_STATUS_SVC, SlotEffect
  <2>2. CASE SlotOf[c] \notin Slots
    BY <1>1, <2>2 DEF MAIN_STATUS_SVC, SlotEffect, KeepClients
  <2> QED BY <2>1, <2>2
<1>2. ASSUME NEW t \in Parsers, LoginKick(t) \/ ParserCloseReset(t)
      PROVE  SlotEffect
  <2>1. SlotP(t) \in Slots
    BY <1>2 DEF LoginKick, ParserCloseReset, ParserAtPoint, WorkOK
  <2> QED
    BY <1>2, <2>1 DEF LoginKick, ParserCloseReset, SlotEffect, reset_client, NotLogging
<1>3. ASSUME NEW t \in JsThreads, JsCloseReset(t)
      PROVE  SlotEffect
  <2>1. SlotJ(t) \in Slots
    BY <1>3 DEF JsCloseReset, JsAtPoint, WorkOK, SlotJ, Job
  <2> QED
    BY <1>3, <2>1 DEF JsCloseReset, SlotEffect, reset_client, NotLogging
<1>4. ASSUME NEW t \in Parsers, HelloBind(t)
      PROVE  SlotEffect
  <2>1. SlotP(t) \in Slots /\ parser[t].msg.conn \in Conns
    BY <1>4 DEF HelloBind, ParserAtPoint, WorkOK, Message
  <2> QED
    BY <1>4, <2>1 DEF HelloBind, SlotEffect, SlotP, set_connection_info, NotLogging
<1>5. ASSUME NEW t \in Parsers, LoginSetLogging(t)
      PROVE  SlotEffect
  <2>1. SlotP(t) \in Slots
    BY <1>5 DEF LoginSetLogging, ParserAtPoint, WorkOK
  <2> QED
    BY <1>5, <2>1 DEF LoginSetLogging, SlotEffect, set_connection_state
<1>6. ASSUME NEW t \in JsThreads, JsConnect(t)
      PROVE  SlotEffect
  <2>1. SlotJ(t) \in Slots
    BY <1>6 DEF JsConnect, JsAtPoint, WorkOK, SlotJ, Job
  <2> QED
    BY <1>6, <2>1 DEF JsConnect, SlotEffect, set_connection_state, NotLogging
<1>7. ASSUME NEW t \in Parsers, LoginIncr(t)
      PROVE  SlotEffect
  <2>1. SlotP(t) \in Slots /\ parser[t].msg.id \in 1 .. MaxMsgs
    BY <1>7 DEF LoginIncr, ParserAtPoint, WorkOK, Message
  <2> QED
    BY <1>7, <2>1 DEF LoginIncr, SlotEffect, incr_login_count
<1>8. ASSUME NEW t \in Parsers, LoginSetAccount(t)
      PROVE  SlotEffect
  <2>1. SlotP(t) \in Slots /\ ReqP(t).account \in Accounts \union {NoAccount}
    BY <1>8 DEF LoginSetAccount, ParserAtPoint, WorkOK, Message, ReqP, RequestType
  <2> QED
    BY <1>8, <2>1 DEF LoginSetAccount, SlotEffect, set_account_id
<1>9. ASSUME NEW t \in JsThreads, JsCount(t)
      PROVE  SlotEffect
  <2> DEFINE s == SlotJ(t)
             i == js[t].job.id
             r == IF Refuses(client[s].login_send_count) THEN "REFUSED"
                  ELSE js[t].result
  <2>1. s \in Slots /\ i \in 1 .. MaxMsgs
    BY <1>9 DEF JsCount, JsAtPoint, WorkOK, SlotJ, Job
  <2>2. r \in Result
    BY <1>9 DEF JsCount, JsAtPoint, WorkOK, Result
  <2>3. r # "REFUSED" => client[s].login_send_count < LoginLimit
    <3>1. client[s].login_send_count \in Nat
      BY <2>1 DEF TypeOK, Client
    <3> QED BY <3>1 DEF Refuses, LoginLimit
  <2>4. UNCHANGED <<client, everBound, counted>>
    BY <1>9 DEF JsCount
  <2>5. CASE i \in counted[s]
    <3>1. Answered(s, i, r)
      BY <1>9, <2>3, <2>4, <2>5 DEF JsCount, Answered
    <3> HIDE DEF s, i, r
    <3> QED BY <2>1, <2>2, <3>1 DEF SlotEffect, Answered
  <2>6. CASE i \notin counted[s]
    BY <1>9, <2>4, <2>6 DEF JsCount, SlotEffect, ledger
  <2> QED BY <2>5, <2>6
<1>10. CASE UNCHANGED <<client, everBound, ledger>>
  BY <1>10 DEF SlotEffect
<1> QED
  BY <1>1, <1>2, <1>3, <1>4, <1>5, <1>6, <1>7, <1>8, <1>9, <1>10
     DEF Next, ParserStep, JsStep, GatewayOpens, GatewayCloses, MAIN_MESSAGE_SVC,
         ParserTake, HelloCheck, HelloWelcome, Route, LoginCheck, LoginDispatch,
         CharList, ParserCloseSend, JsTake, JsCallFails, JsReply, JsRecount,
         JsCloseSend, DataServerSend, KeepClients, vars
-----------------------------------------------------------------------------
\* BoundSlotInUse is kept: only set_connection_info binds, and it makes the
\* slot CONNECTED; only reset_client makes it NONE, and it unbinds.
LEMMA BoundStep == TypeOK /\ BoundSlotInUse /\ SlotEffect => BoundSlotInUse'
<1> SUFFICES ASSUME TypeOK, BoundSlotInUse, SlotEffect
             PROVE  BoundSlotInUse'
  OBVIOUS
<1> USE DEF BoundSlotInUse
<1>0. client \in [Slots -> Client]
  BY DEF TypeOK
<1>1. CASE UNCHANGED <<client, everBound, ledger>>
  BY <1>1
<1>2. ASSUME NEW s \in Slots, reset_client(s)
      PROVE  BoundSlotInUse'
  BY <1>0, <1>2 DEF reset_client, FreeClient
<1>3. ASSUME NEW s \in Slots, NEW c \in Conns, SlotOf[c] = s, set_connection_info(s, c)
      PROVE  BoundSlotInUse'
  BY <1>0, <1>3 DEF set_connection_info, Client
<1>4. ASSUME NEW s \in Slots, NEW st \in {"CONNECTED", "LOGGING"},
             set_connection_state(s, st)
      PROVE  BoundSlotInUse'
  BY <1>0, <1>4 DEF set_connection_state, Client
<1>5. ASSUME NEW s \in Slots, NEW i \in 1 .. MaxMsgs, incr_login_count(s, i)
      PROVE  BoundSlotInUse'
  BY <1>0, <1>5 DEF incr_login_count, Client
<1>6. ASSUME NEW s \in Slots, NEW a \in Accounts \union {NoAccount}, set_account_id(s, a)
      PROVE  BoundSlotInUse'
  BY <1>0, <1>6 DEF set_account_id, Client
<1>7. ASSUME NEW s \in Slots, NEW i \in 1 .. MaxMsgs, NEW r \in Result, Answered(s, i, r)
      PROVE  BoundSlotInUse'
  BY <1>7 DEF Answered
<1> QED
  BY <1>1, <1>2, <1>3, <1>4, <1>5, <1>6, <1>7 DEF SlotEffect

\* Answers are recorded for counted logins only, and both are cleared together.
LEMMA LedgerStep == TypeOK /\ LedgerOK /\ SlotEffect => LedgerOK'
<1> SUFFICES ASSUME TypeOK, LedgerOK, SlotEffect
             PROVE  LedgerOK'
  OBVIOUS
<1> USE DEF LedgerOK
<1>0. /\ counted \in [Slots -> SUBSET (1 .. MaxMsgs)]
      /\ answers \in [Slots -> SUBSET [id : 1 .. MaxMsgs, result : Result]]
  BY DEF TypeOK
<1>1. CASE UNCHANGED ledger
  BY <1>1 DEF ledger
<1>2. ASSUME NEW s \in Slots, reset_client(s)
      PROVE  LedgerOK'
  BY <1>0, <1>2 DEF reset_client
<1>3. ASSUME NEW s \in Slots, NEW i \in 1 .. MaxMsgs, incr_login_count(s, i)
      PROVE  LedgerOK'
  BY <1>0, <1>3 DEF incr_login_count
<1>4. ASSUME NEW s \in Slots, NEW i \in 1 .. MaxMsgs, NEW r \in Result, Answered(s, i, r)
      PROVE  LedgerOK'
  BY <1>0, <1>4 DEF Answered
<1> QED
  BY <1>1, <1>2, <1>3, <1>4
     DEF SlotEffect, set_connection_info, set_connection_state, set_account_id

\* The logins counted in a slot are finitely many.
LEMMA CountedFinite ==
  ASSUME NEW S, S \subseteq 1 .. MaxMsgs
  PROVE  IsFiniteSet(S) /\ Cardinality(S) \in Nat
<1>1. IsFiniteSet(1 .. MaxMsgs)
  BY FS_Interval, MaxMsgsAssumption
<1>2. IsFiniteSet(S)
  BY <1>1, FS_Subset
<1> QED BY <1>2, FS_CardinalityType

\* The login limit is kept: the count grows with the set of counted logins,
\* and a verdict is passed on only while fewer than LoginLimit are counted.
LEMMA LimitStep == TypeOK /\ LedgerOK /\ LoginLimitHolds /\ SlotEffect => LoginLimitHolds'
<1> SUFFICES ASSUME TypeOK, LedgerOK, LoginLimitHolds, SlotEffect, NEW q \in Slots
             PROVE  /\ Cardinality(counted'[q]) <= client'[q].login_send_count
                    /\ Cardinality(Granted(q)') < LoginLimit
  BY DEF LoginLimitHolds
<1>0. /\ client \in [Slots -> Client]
      /\ client[q].login_send_count \in Nat
      /\ counted \in [Slots -> SUBSET (1 .. MaxMsgs)]
      /\ answers \in [Slots -> SUBSET [id : 1 .. MaxMsgs, result : Result]]
      /\ counted[q] \subseteq 1 .. MaxMsgs /\ Granted(q) \subseteq 1 .. MaxMsgs
  BY DEF TypeOK, Client, Granted
<1>1. /\ Cardinality(counted[q]) \in Nat
      /\ Cardinality(Granted(q)) \in Nat
      /\ Cardinality(counted[q]) <= client[q].login_send_count
      /\ Cardinality(Granted(q)) < LoginLimit
  BY <1>0, CountedFinite DEF LoginLimitHolds
<1>2. CASE /\ counted'[q] = counted[q] /\ Granted(q)' = Granted(q)
           /\ client'[q].login_send_count = client[q].login_send_count
  BY <1>1, <1>2
<1>3. CASE reset_client(q)
  <2>1. counted'[q] = {} /\ client'[q].login_send_count = 0
    BY <1>0, <1>3 DEF reset_client, FreeClient
  <2>2. Granted(q)' = {}
    BY <2>1 DEF Granted
  <2> QED BY <2>1, <2>2, FS_EmptySet DEF LoginLimit
<1>4. ASSUME NEW i \in 1 .. MaxMsgs, incr_login_count(q, i)
      PROVE  /\ Cardinality(counted'[q]) <= client'[q].login_send_count
             /\ Cardinality(Granted(q)') < LoginLimit
  <2>1. /\ counted'[q] = counted[q] \union {i} /\ answers' = answers
        /\ client'[q].login_send_count = client[q].login_send_count + 1
    BY <1>0, <1>4 DEF incr_login_count, Client
  <2>2. Cardinality(counted[q] \union {i}) <= Cardinality(counted[q]) + 1
    <3>1. Cardinality(counted[q] \union {i}) =
            IF i \in counted[q] THEN Cardinality(counted[q]) ELSE Cardinality(counted[q]) + 1
      BY <1>0, CountedFinite, FS_AddElement
    <3> QED BY <1>1, <3>1
  <2>3. Cardinality(counted[q] \union {i}) \in Nat
    BY <1>0, CountedFinite
  <2>4. Granted(q)' = Granted(q)
    BY <2>1 DEF Granted, LedgerOK
  <2> QED BY <1>0, <1>1, <2>1, <2>2, <2>3, <2>4
<1>5. ASSUME NEW i \in 1 .. MaxMsgs, NEW r \in Result, Answered(q, i, r)
      PROVE  /\ Cardinality(counted'[q]) <= client'[q].login_send_count
             /\ Cardinality(Granted(q)') < LoginLimit
  <2>1. /\ counted' = counted /\ client' = client
        /\ answers'[q] = answers[q] \union {[id |-> i, result |-> r]}
    BY <1>0, <1>5 DEF Answered
  <2>2. CASE r = "REFUSED"
    <3>1. Granted(q)' = Granted(q)
      BY <2>1, <2>2 DEF Granted
    <3> QED BY <1>1, <2>1, <3>1
  <2>3. CASE r # "REFUSED"
    <3>1. client[q].login_send_count < LoginLimit
      BY <1>5, <2>3 DEF Answered
    <3>2. Granted(q)' \subseteq counted[q]
      BY <2>1 DEF Granted
    <3>3. /\ Cardinality(Granted(q)') <= Cardinality(counted[q])
          /\ Cardinality(Granted(q)') \in Nat
      BY <1>0, <3>2, CountedFinite, FS_Subset
    <3> QED BY <1>0, <1>1, <2>1, <3>1, <3>3 DEF LoginLimit
  <2> QED BY <2>2, <2>3
<1>6. ASSUME NEW s \in Slots,
             s # q,
             \/ reset_client(s)
             \/ \E i \in 1 .. MaxMsgs : incr_login_count(s, i)
             \/ \E i \in 1 .. MaxMsgs, r \in Result : Answered(s, i, r)
      PROVE  /\ counted'[q] = counted[q] /\ Granted(q)' = Granted(q)
             /\ client'[q].login_send_count = client[q].login_send_count
  <2>1. /\ counted'[q] = counted[q] /\ answers'[q] = answers[q]
        /\ client'[q] = client[q]
    BY <1>0, <1>6 DEF reset_client, incr_login_count, Answered
  <2> QED BY <2>1 DEF Granted
<1>7. ASSUME \/ UNCHANGED <<client, everBound, ledger>>
             \/ \E s \in Slots, c \in Conns : SlotOf[c] = s /\ set_connection_info(s, c)
             \/ \E s \in Slots, st \in {"CONNECTED", "LOGGING"} : set_connection_state(s, st)
             \/ \E s \in Slots, a \in Accounts \union {NoAccount} : set_account_id(s, a)
      PROVE  /\ counted'[q] = counted[q] /\ Granted(q)' = Granted(q)
             /\ client'[q].login_send_count = client[q].login_send_count
  <2>1. counted' = counted /\ answers' = answers
    BY <1>7 DEF ledger, set_connection_info, set_connection_state, set_account_id
  <2>2. client'[q].login_send_count = client[q].login_send_count
    <3>1. ASSUME NEW s \in Slots, NEW c \in Conns, set_connection_info(s, c)
          PROVE  client'[q].login_send_count = client[q].login_send_count
      BY <1>0, <3>1 DEF Client, set_connection_info
    <3>2. ASSUME NEW s \in Slots, NEW st, set_connection_state(s, st)
          PROVE  client'[q].login_send_count = client[q].login_send_count
      BY <1>0, <3>2 DEF Client, set_connection_state
    <3>3. ASSUME NEW s \in Slots, NEW a, set_account_id(s, a)
          PROVE  client'[q].login_send_count = client[q].login_send_count
      BY <1>0, <3>3 DEF Client, set_account_id
    <3> QED BY <1>7, <3>1, <3>2, <3>3
  <2> QED BY <2>1, <2>2 DEF Granted
<1> QED
  BY <1>2, <1>3, <1>4, <1>5, <1>6, <1>7 DEF SlotEffect
-----------------------------------------------------------------------------
(***************************************************************************)
(* Types, in four parts: the slots with their history, the parser threads, *)
(* the join server threads, and the rest.                                  *)
(***************************************************************************)
SlotTypes ==
  /\ client \in [Slots -> Client]
  /\ everBound \subseteq Conns
  /\ counted \in [Slots -> SUBSET (1 .. MaxMsgs)]
  /\ answers \in [Slots -> SUBSET [id : 1 .. MaxMsgs, result : Result]]

ParserTypes ==
  /\ parser \in [Parsers -> [at : ParserAt, msg : Message \union {NoMessage}]]
  /\ \A t \in Parsers : parser[t].at # "idle" =>
       parser[t].msg \in Message /\ SlotP(t) \in Slots

JsTypes ==
  /\ js \in [JsThreads -> [at : JsAt, job : Job \union {NoLogin},
                           result : Result \union {"none"}]]
  /\ \A t \in JsThreads : js[t].at # "idle" => js[t].job \in Job
  /\ \A t \in JsThreads : js[t].at \in {"connect", "count"} => js[t].result \in Result

QueueTypes ==
  /\ protocolQueue \in Seq(Message)
  /\ joinQueue \in Seq(Job)
  /\ dataQueue \in Seq(Slots \X Accounts)

RestTypes ==
  /\ link \in [Conns -> {"new", "open", "gone"}]
  /\ statusDue \subseteq Conns
  /\ nsent \in 0 .. MaxMsgs
  /\ out \subseteq [what : {"welcome", "login", "close"}, to : Conns \union {NoConn}]
  /\ lost \subseteq Slots

LEMMA TypeParts ==
  (TypeOK /\ WorkOK) <=> (SlotTypes /\ ParserTypes /\ JsTypes /\ QueueTypes /\ RestTypes)
  BY DEF TypeOK, WorkOK, SlotTypes, ParserTypes, JsTypes, QueueTypes, RestTypes

\* The client_info methods keep the types of the slots.
LEMMA SlotTypesStep == SlotTypes /\ SlotEffect => SlotTypes'
<1> SUFFICES ASSUME SlotTypes, SlotEffect
             PROVE  SlotTypes'
  OBVIOUS
<1> USE DEF SlotTypes, Client
<1>1. CASE UNCHANGED <<client, everBound, ledger>>
  BY <1>1 DEF ledger
<1>2. ASSUME NEW s \in Slots, reset_client(s)
      PROVE  SlotTypes'
  BY <1>2 DEF reset_client, FreeClient, kClientState
<1>3. ASSUME NEW s \in Slots, NEW c \in Conns, SlotOf[c] = s, set_connection_info(s, c)
      PROVE  SlotTypes'
  <2>1. [client[s] EXCEPT !.state = "CONNECTED", !.connection_id = c] \in Client
    BY DEF kClientState
  <2>2. client' = [client EXCEPT ![s] =
                     [client[s] EXCEPT !.state = "CONNECTED", !.connection_id = c]]
    BY <1>3 DEF set_connection_info
  <2>3. client' \in [Slots -> Client]
    <3> HIDE DEF Client
    <3> QED BY <2>1, <2>2
  <2> QED BY <1>3, <2>3 DEF set_connection_info, ledger
<1>4. ASSUME NEW s \in Slots, NEW st \in {"CONNECTED", "LOGGING"},
             set_connection_state(s, st)
      PROVE  SlotTypes'
  BY <1>4 DEF set_connection_state, ledger, kClientState
<1>5. ASSUME NEW s \in Slots, NEW i \in 1 .. MaxMsgs, incr_login_count(s, i)
      PROVE  SlotTypes'
  <2>1. client' \in [Slots -> Client]
    <3>1. [client[s] EXCEPT !.login_send_count = @ + 1] \in Client
      <4>1. client[s] \in Client /\ client[s].login_send_count + 1 \in Nat
        OBVIOUS
      <4> QED BY <4>1
    <3>2. client' = [client EXCEPT ![s] = [client[s] EXCEPT !.login_send_count = @ + 1]]
      BY <1>5 DEF incr_login_count
    <3> HIDE DEF Client
    <3> QED BY <3>1, <3>2
  <2>2. counted' \in [Slots -> SUBSET (1 .. MaxMsgs)]
    BY <1>5 DEF incr_login_count
  <2> QED BY <1>5, <2>1, <2>2 DEF incr_login_count
<1>6. ASSUME NEW s \in Slots, NEW a \in Accounts \union {NoAccount}, set_account_id(s, a)
      PROVE  SlotTypes'
  BY <1>6 DEF set_account_id, ledger
<1>7. ASSUME NEW s \in Slots, NEW i \in 1 .. MaxMsgs, NEW r \in Result, Answered(s, i, r)
      PROVE  SlotTypes'
  <2>1. answers' \in [Slots -> SUBSET [id : 1 .. MaxMsgs, result : Result]]
    BY <1>7 DEF Answered
  <2> QED BY <1>7, <2>1 DEF Answered
<1> QED
  BY <1>1, <1>2, <1>3, <1>4, <1>5, <1>6, <1>7 DEF SlotEffect

\* A parser thread moves on in its handler, or finishes it.
LEMMA ParserMoves ==
  ASSUME ParserTypes, NEW t \in Parsers, parser[t].at # "idle",
         ParserDone(t) \/ \E p \in ParserAt : ParserGoes(t, p)
  PROVE  ParserTypes'
<1>1. CASE ParserDone(t)
  BY <1>1 DEF ParserDone, IdleParser, ParserTypes, ParserAt, SlotP
<1>2. ASSUME NEW p \in ParserAt, ParserGoes(t, p)
      PROVE  ParserTypes'
  BY <1>2 DEF ParserGoes, ParserTypes, SlotP
<1> QED BY <1>1, <1>2

\* So does a join server thread.
LEMMA JsMoves ==
  ASSUME JsTypes, NEW t \in JsThreads, js[t].at # "idle",
         \/ JsDone(t)
         \/ \E p \in JsAt \ {"connect", "count"} : JsGoes(t, p)
         \/ js[t].at = "connect" /\ JsGoes(t, "count")
  PROVE  JsTypes'
<1>1. CASE JsDone(t)
  BY <1>1 DEF JsDone, IdleJs, JsTypes, JsAt
<1>2. ASSUME NEW p \in JsAt \ {"connect", "count"}, JsGoes(t, p)
      PROVE  JsTypes'
  BY <1>2 DEF JsGoes, JsTypes
<1>3. CASE js[t].at = "connect" /\ JsGoes(t, "count")
  BY <1>3 DEF JsGoes, JsTypes, JsAt
<1> QED BY <1>1, <1>2, <1>3

LEMMA ParserTypesStep == ParserTypes /\ QueueTypes /\ [Next]_vars => ParserTypes'
<1> SUFFICES ASSUME ParserTypes, QueueTypes, [Next]_vars
             PROVE  ParserTypes'
  OBVIOUS
<1>1. ASSUME NEW t \in Parsers, ParserTake(t)
      PROVE  ParserTypes'
  <2> DEFINE m == Head(protocolQueue)
             next == IF m.req.kind = "other" \/ SlotOf[m.conn] \notin Slots
                     THEN IdleParser
                     ELSE [at |-> CASE m.req.kind = "hello"    -> "hello"
                                    [] m.req.kind = "filtered" -> "welcome"
                                    [] OTHER                   -> "route",
                           msg |-> m]
  <2>1. m \in Message
    BY <1>1, PopFacts DEF ParserTake, QueueTypes
  <2>2. parser' = [parser EXCEPT ![t] = next]
    BY <1>1 DEF ParserTake
  <2>3. /\ next \in [at : ParserAt, msg : Message \union {NoMessage}]
        /\ next.at # "idle" => next.msg \in Message /\ SlotOf[next.msg.conn] \in Slots
    BY <2>1 DEF IdleParser, ParserAt
  <2> HIDE DEF next
  <2> QED BY <2>2, <2>3 DEF ParserTypes, SlotP
<1>2. ASSUME NEW t \in Parsers, ParserStep(t), ~ParserTake(t)
      PROVE  ParserTypes'
  <2>1. /\ parser[t].at # "idle"
        /\ ParserDone(t) \/ \E p \in ParserAt : ParserGoes(t, p)
    BY <1>2 DEF ParserStep, HelloCheck, HelloBind, HelloWelcome, Route, LoginCheck,
                LoginKick, LoginSetLogging, LoginIncr, LoginSetAccount, LoginDispatch,
                CharList, ParserCloseSend, ParserCloseReset, ParserAtPoint, ParserAt,
                ParserGoes
  <2> QED BY <2>1, ParserMoves
<1>3. CASE UNCHANGED parser
  BY <1>3 DEF ParserTypes, SlotP
<1> QED
  BY <1>1, <1>2, <1>3
     DEF Next, GatewayOpens, GatewayCloses, MAIN_MESSAGE_SVC, MAIN_STATUS_SVC, JsStep,
         JsTake, JsCallFails, JsReply, JsConnect, JsCount, JsRecount, JsCloseSend,
         JsCloseReset, JsElse, DataServerSend, vars

LEMMA JsTypesStep == JsTypes /\ QueueTypes /\ [Next]_vars => JsTypes'
<1> SUFFICES ASSUME JsTypes, QueueTypes, [Next]_vars
             PROVE  JsTypes'
  OBVIOUS
<1>1. ASSUME NEW t \in JsThreads, JsTake(t)
      PROVE  JsTypes'
  <2>1. Head(joinQueue) \in Job
    BY <1>1, PopFacts DEF JsTake, QueueTypes
  <2> QED BY <1>1, <2>1 DEF JsTake, JsTypes, JsAt
<1>2. ASSUME NEW t \in JsThreads, NEW r \in JoinServerResult, JsReply(t, r)
      PROVE  JsTypes'
  <2>1. Shown(r) \in Result
    BY DEF JoinServerResult, Shown, Result
  <2> HIDE DEF Shown
  <2> QED BY <1>2, <2>1 DEF JsReply, JsAtPoint, JsTypes, JsAt
<1>3. ASSUME NEW t \in JsThreads, JsCount(t)
      PROVE  JsTypes'
  <2>1. PICK r \in Result : js' = [js EXCEPT ![t] = IF r = "SUCCESS" THEN IdleJs
                                  ELSE [@ EXCEPT !.at = "recount", !.result = r]]
    BY <1>3 DEF JsCount, JsAtPoint, JsTypes, Result
  <2>2. CASE r = "SUCCESS"
    BY <2>1, <2>2 DEF JsTypes, IdleJs, JsAt
  <2>3. CASE r # "SUCCESS"
    <3>1. js[t].at = "count"
      BY <1>3 DEF JsCount, JsAtPoint
    <3> QED BY <2>1, <2>3, <3>1 DEF JsTypes, JsAt
  <2> QED BY <2>2, <2>3
<1>4. ASSUME NEW t \in JsThreads,
             JsCallFails(t) \/ JsConnect(t) \/ JsRecount(t) \/ JsCloseSend(t)
                            \/ JsCloseReset(t)
      PROVE  JsTypes'
  <2>1. /\ js[t].at # "idle"
        /\ \/ JsDone(t)
           \/ \E p \in JsAt \ {"connect", "count"} : JsGoes(t, p)
           \/ js[t].at = "connect" /\ JsGoes(t, "count")
    BY <1>4 DEF JsCallFails, JsConnect, JsRecount, JsCloseSend, JsCloseReset, JsAtPoint,
                JsAt, JsGoes
  <2> QED BY <2>1, JsMoves
<1>5. CASE UNCHANGED js
  BY <1>5 DEF JsTypes
<1> QED
  BY <1>1, <1>2, <1>3, <1>4, <1>5
     DEF Next, GatewayOpens, GatewayCloses, MAIN_MESSAGE_SVC, MAIN_STATUS_SVC, JsStep,
         ParserStep, ParserTake, HelloCheck, HelloBind, HelloWelcome, Route, LoginCheck,
         LoginKick, LoginSetLogging, LoginIncr, LoginSetAccount, LoginDispatch, CharList,
         ParserCloseSend, ParserCloseReset, ParserElse, DataServerSend, vars

LEMMA QueueTypesStep ==
  SlotTypes /\ ParserTypes /\ QueueTypes /\ RestTypes /\ [Next]_vars => QueueTypes'
<1> SUFFICES ASSUME SlotTypes, ParserTypes, QueueTypes, RestTypes, [Next]_vars
             PROVE  QueueTypes'
  OBVIOUS
<1> USE DEF QueueTypes
<1>1. ASSUME NEW c \in Conns, NEW r \in Requests, MAIN_MESSAGE_SVC(c, r)
      PROVE  QueueTypes'
  <2>1. [id |-> nsent + 1, conn |-> c, req |-> r] \in Message
    BY <1>1, RequestsAssumption, MaxMsgsAssumption DEF MAIN_MESSAGE_SVC, RestTypes, Message
  <2> QED BY <1>1, <2>1, PushFacts DEF MAIN_MESSAGE_SVC
<1>2. ASSUME NEW t \in Parsers, ParserTake(t)
      PROVE  QueueTypes'
  BY <1>2, PopFacts DEF ParserTake
<1>3. ASSUME NEW t \in Parsers, LoginDispatch(t)
      PROVE  QueueTypes'
  <2>1. [id |-> parser[t].msg.id, slot |-> SlotP(t), account |-> ReqP(t).account] \in Job
    BY <1>3 DEF LoginDispatch, ParserAtPoint, ParserTypes, Message, RequestType, Job, ReqP
  <2> QED BY <1>3, <2>1, PushFacts DEF LoginDispatch
<1>4. ASSUME NEW t \in Parsers, CharList(t)
      PROVE  QueueTypes'
  <2>1. SlotP(t) \in Slots
    BY <1>4 DEF CharList, ParserAtPoint, ParserTypes
  <2>2. client[SlotP(t)].account_id \in Accounts \union {NoAccount}
    BY <2>1 DEF SlotTypes, Client
  <2>3. CASE client[SlotP(t)].account_id = NoAccount
    BY <1>4, <2>3 DEF CharList
  <2>4. CASE client[SlotP(t)].account_id # NoAccount
    <3>1. <<SlotP(t), client[SlotP(t)].account_id>> \in Slots \X Accounts
      BY <2>1, <2>2, <2>4
    <3> QED BY <1>4, <2>4, <3>1, PushFacts DEF CharList
  <2> QED BY <2>3, <2>4
<1>5. ASSUME NEW t \in JsThreads, JsTake(t)
      PROVE  QueueTypes'
  BY <1>5, PopFacts DEF JsTake
<1>6. CASE DataServerSend
  BY <1>6, PopFacts DEF DataServerSend
<1>7. CASE UNCHANGED <<protocolQueue, joinQueue, dataQueue>>
  BY <1>7
<1> QED
  BY <1>1, <1>2, <1>3, <1>4, <1>5, <1>6, <1>7
     DEF Next, GatewayOpens, GatewayCloses, MAIN_STATUS_SVC, JsStep, ParserStep,
         HelloCheck, HelloBind, HelloWelcome, Route, LoginCheck, LoginKick,
         LoginSetLogging, LoginIncr, LoginSetAccount, ParserCloseSend, ParserCloseReset,
         ParserElse, JsCallFails, JsReply, JsConnect, JsCount, JsRecount, JsCloseSend,
         JsCloseReset, JsElse, vars

LEMMA RestTypesStep ==
  SlotTypes /\ ParserTypes /\ JsTypes /\ RestTypes /\ [Next]_vars => RestTypes'
<1> SUFFICES ASSUME SlotTypes, ParserTypes, JsTypes, RestTypes, [Next]_vars
             PROVE  RestTypes'
  OBVIOUS
<1> DEFINE Sent == [what : {"welcome", "login", "close"}, to : Conns \union {NoConn}]
<1>1. link' \in [Conns -> {"new", "open", "gone"}] /\ statusDue' \subseteq Conns
  <2>1. ASSUME NEW c \in Conns,
               GatewayOpens(c) \/ GatewayCloses(c) \/ MAIN_STATUS_SVC(c)
        PROVE  link' \in [Conns -> {"new", "open", "gone"}] /\ statusDue' \subseteq Conns
    BY <2>1 DEF GatewayOpens, GatewayCloses, MAIN_STATUS_SVC, RestTypes
  <2>2. CASE UNCHANGED <<link, statusDue>>
    BY <2>2 DEF RestTypes
  <2> QED
    BY <2>1, <2>2
       DEF Next, MAIN_MESSAGE_SVC, ParserStep, ParserTake, HelloCheck, HelloBind,
           HelloWelcome, Route, LoginCheck, LoginKick, LoginSetLogging, LoginIncr,
           LoginSetAccount, LoginDispatch, CharList, ParserCloseSend, ParserCloseReset,
           ParserElse, JsStep, JsTake, JsCallFails, JsReply, JsConnect, JsCount,
           JsRecount, JsCloseSend, JsCloseReset, JsElse, DataServerSend, gateway, vars
<1>2. nsent' \in 0 .. MaxMsgs
  <2>1. ASSUME NEW c \in Conns, NEW r \in Requests, MAIN_MESSAGE_SVC(c, r)
        PROVE  nsent' \in 0 .. MaxMsgs
    BY <2>1, MaxMsgsAssumption DEF MAIN_MESSAGE_SVC, RestTypes
  <2>2. CASE UNCHANGED nsent
    BY <2>2 DEF RestTypes
  <2> QED
    BY <2>1, <2>2
       DEF Next, GatewayOpens, GatewayCloses, MAIN_STATUS_SVC, ParserStep, ParserTake,
           HelloCheck, HelloBind, HelloWelcome, Route, LoginCheck, LoginKick,
           LoginSetLogging, LoginIncr, LoginSetAccount, LoginDispatch, CharList,
           ParserCloseSend, ParserCloseReset, ParserElse, JsStep, JsTake, JsCallFails,
           JsReply, JsConnect, JsCount, JsRecount, JsCloseSend, JsCloseReset, JsElse,
           DataServerSend, gateway, vars
<1>3. out' \subseteq Sent
  <2>1. ASSUME NEW t \in Parsers, HelloWelcome(t)
        PROVE  out' \subseteq Sent
    <3>1. parser[t].msg.conn \in Conns
      BY <2>1 DEF HelloWelcome, ParserAtPoint, ParserTypes, Message
    <3> QED BY <2>1, <3>1 DEF HelloWelcome, Send, Welcome
  <2>2. ASSUME NEW t \in Parsers, LoginKick(t)
        PROVE  out' \subseteq Sent
    <3>1. parser[t].msg.conn \in Conns
      BY <2>2 DEF LoginKick, ParserAtPoint, ParserTypes, Message
    <3> QED BY <2>2, <3>1 DEF LoginKick, Send, CloseMsg, JoinResult
  <2>3. ASSUME NEW t \in Parsers, ParserCloseSend(t)
        PROVE  out' \subseteq Sent
    <3>1. SlotP(t) \in Slots
      BY <2>3 DEF ParserCloseSend, ParserAtPoint, ParserTypes
    <3>2. client[SlotP(t)].connection_id \in Conns \union {NoConn}
      BY <3>1 DEF SlotTypes, Client
    <3> QED BY <2>3, <3>2 DEF ParserCloseSend, Send, CloseMsg
  <2>4. ASSUME NEW t \in JsThreads, JsCloseSend(t)
        PROVE  out' \subseteq Sent
    <3>1. SlotJ(t) \in Slots
      BY <2>4 DEF JsCloseSend, JsAtPoint, JsTypes, Job, SlotJ
    <3>2. client[SlotJ(t)].connection_id \in Conns \union {NoConn}
      BY <3>1 DEF SlotTypes, Client
    <3> QED BY <2>4, <3>2 DEF JsCloseSend, Send, CloseMsg
  <2>5. ASSUME NEW t \in JsThreads, JsCount(t)
        PROVE  out' \subseteq Sent
    BY <2>5 DEF JsCount, Send, JoinResult
  <2>6. CASE SendNothing \/ UNCHANGED out
    BY <2>6 DEF SendNothing, Send, RestTypes
  <2> QED
    BY <2>1, <2>2, <2>3, <2>4, <2>5, <2>6
       DEF Next, GatewayOpens, GatewayCloses, MAIN_MESSAGE_SVC, MAIN_STATUS_SVC,
           ParserStep, ParserTake, HelloCheck, HelloBind, Route, LoginCheck,
           LoginSetLogging, LoginIncr, LoginSetAccount, LoginDispatch, CharList,
           ParserCloseReset, JsStep, JsTake, JsCallFails, JsReply, JsConnect, JsRecount,
           JsCloseReset, DataServerSend, vars
<1>4. lost' \subseteq Slots
  <2>1. ASSUME NEW t \in JsThreads, JsCallFails(t)
        PROVE  lost' \subseteq Slots
    <3>1. SlotJ(t) \in Slots
      BY <2>1 DEF JsCallFails, JsAtPoint, JsTypes, Job, SlotJ
    <3> QED BY <2>1, <3>1 DEF JsCallFails, RestTypes
  <2>2. CASE lost' \subseteq lost
    BY <2>2 DEF RestTypes
  <2> QED
    BY <2>1, <2>2
       DEF Next, GatewayOpens, GatewayCloses, MAIN_MESSAGE_SVC, MAIN_STATUS_SVC,
           ParserStep, ParserTake, HelloCheck, HelloBind, HelloWelcome, Route,
           LoginCheck, LoginKick, LoginSetLogging, LoginIncr, LoginSetAccount,
           LoginDispatch, CharList, ParserCloseSend, ParserCloseReset, JsStep, JsTake,
           JsReply, JsConnect, JsCount, JsRecount, JsCloseSend, JsCloseReset,
           DataServerSend, vars, KeepClients, reset_client, set_connection_info,
           set_connection_state, incr_login_count, set_account_id, NotLogging
<1> QED BY <1>1, <1>2, <1>3, <1>4 DEF RestTypes

\* All types are kept, given that threads in a handler have their work.
LEMMA TypeStep == TypeOK /\ WorkOK /\ [Next]_vars => (TypeOK /\ WorkOK)'
<1> SUFFICES ASSUME TypeOK, WorkOK, [Next]_vars
             PROVE  (TypeOK /\ WorkOK)'
  OBVIOUS
<1>1. SlotTypes /\ ParserTypes /\ JsTypes /\ QueueTypes /\ RestTypes
  BY TypeParts
<1>2. (SlotTypes /\ ParserTypes /\ JsTypes /\ QueueTypes /\ RestTypes)'
  BY <1>1, StepEffect, SlotTypesStep, ParserTypesStep, JsTypesStep, QueueTypesStep,
     RestTypesStep
<1>3. (SlotTypes /\ ParserTypes /\ JsTypes /\ QueueTypes /\ RestTypes)'
        => (TypeOK /\ WorkOK)'
  BY DEF TypeOK, WorkOK, SlotTypes, ParserTypes, JsTypes, QueueTypes, RestTypes
<1> QED BY <1>2, <1>3
-----------------------------------------------------------------------------
(***************************************************************************)
(* NoStuckLogin.  Most steps keep every login in flight and either leave   *)
(* the connection states alone or take one slot out of LOGGING; three do   *)
(* not: setting LOGGING, an answer, and a failed call.                     *)
(***************************************************************************)
FlightsKept == \A s \in Slots : LoginInFlight(s) => LoginInFlight(s)'

StatesKept == lost' = lost /\ \A s \in Slots : client'[s].state = client[s].state

StateCleared(q) == /\ lost' = lost \ {q}
                   /\ client'[q].state # "LOGGING"
                   /\ \A s \in Slots \ {q} : client'[s].state = client[s].state

LEMMA KeptSuffices ==
  ASSUME NoStuckLogin, FlightsKept, StatesKept \/ \E q \in Slots : StateCleared(q)
  PROVE  NoStuckLogin'
<1>1. CASE StatesKept
  BY <1>1 DEF NoStuckLogin, FlightsKept, StatesKept
<1>2. ASSUME NEW q \in Slots, StateCleared(q)
      PROVE  NoStuckLogin'
  BY <1>2 DEF NoStuckLogin, FlightsKept, StateCleared
<1> QED BY <1>1, <1>2

\* What the client_info methods do to the connection states.
LEMMA MethodStates ==
  ASSUME TypeOK
  PROVE  /\ KeepClients => StatesKept
         /\ \A s \in Slots : reset_client(s) => StateCleared(s)
         /\ \A s \in Slots, c \in Conns : set_connection_info(s, c) => StateCleared(s)
         /\ \A s \in Slots : set_connection_state(s, "CONNECTED") => StateCleared(s)
         /\ \A s \in Slots, i \in 1 .. MaxMsgs : incr_login_count(s, i) => StatesKept
         /\ \A s \in Slots, a \in Accounts \union {NoAccount} :
              set_account_id(s, a) => StatesKept
<1>0. client \in [Slots -> Client]
  BY DEF TypeOK
<1> USE <1>0 DEF StatesKept, StateCleared, Client
<1>1. KeepClients => StatesKept
  BY DEF KeepClients
<1>2. ASSUME NEW s \in Slots, reset_client(s)
      PROVE  StateCleared(s)
  BY <1>2 DEF reset_client, FreeClient, NotLogging
<1>3. ASSUME NEW s \in Slots, NEW c \in Conns, set_connection_info(s, c)
      PROVE  StateCleared(s)
  BY <1>3 DEF set_connection_info, NotLogging
<1>4. ASSUME NEW s \in Slots, set_connection_state(s, "CONNECTED")
      PROVE  StateCleared(s)
  BY <1>4 DEF set_connection_state, NotLogging
<1>5. ASSUME NEW s \in Slots, NEW i \in 1 .. MaxMsgs, incr_login_count(s, i)
      PROVE  StatesKept
  BY <1>5 DEF incr_login_count
<1>6. ASSUME NEW s \in Slots, NEW a \in Accounts \union {NoAccount}, set_account_id(s, a)
      PROVE  StatesKept
  BY <1>6 DEF set_account_id
<1> QED BY <1>1, <1>2, <1>3, <1>4, <1>5, <1>6

\* A parser thread that is not past LOGGING carries no login in flight, so
\* whatever it does next keeps those there are.
LEMMA ParserKeepsFlights ==
  ASSUME TypeOK, NEW t \in Parsers,
         parser[t].at \notin {"incr", "setAccount", "send"},
         \E x : parser' = [parser EXCEPT ![t] = x],
         UNCHANGED <<joinQueue, js>>
  PROVE  FlightsKept
<1> SUFFICES ASSUME NEW s \in Slots, LoginInFlight(s)
             PROVE  LoginInFlight(s)'
  BY DEF FlightsKept
<1>1. ASSUME NEW u \in Parsers, parser[u].at \in {"incr", "setAccount", "send"}, SlotP(u) = s
      PROVE  LoginInFlight(s)'
  <2>1. u # t
    BY <1>1
  <2>2. parser'[u] = parser[u]
    BY <2>1 DEF TypeOK
  <2> QED BY <1>1, <2>2 DEF LoginInFlight, SlotP
<1>2. CASE \E i \in DOMAIN joinQueue : joinQueue[i].slot = s
  BY <1>2 DEF LoginInFlight
<1>3. CASE \E u \in JsThreads : js[u].at \in {"call", "connect"} /\ SlotJ(u) = s
  BY <1>3 DEF LoginInFlight, SlotJ
<1> QED BY <1>1, <1>2, <1>3 DEF LoginInFlight

\* The same of a join server thread that has given its answer.
LEMMA JsKeepsFlights ==
  ASSUME TypeOK, NEW t \in JsThreads,
         js[t].at \notin {"call", "connect"},
         \E x : js' = [js EXCEPT ![t] = x],
         UNCHANGED <<joinQueue, parser>>
  PROVE  FlightsKept
<1> SUFFICES ASSUME NEW s \in Slots, LoginInFlight(s)
             PROVE  LoginInFlight(s)'
  BY DEF FlightsKept
<1>1. ASSUME NEW u \in JsThreads, js[u].at \in {"call", "connect"}, SlotJ(u) = s
      PROVE  LoginInFlight(s)'
  <2>1. u # t
    BY <1>1
  <2>2. js'[u] = js[u]
    BY <2>1 DEF TypeOK
  <2> QED BY <1>1, <2>2 DEF LoginInFlight, SlotJ
<1>2. CASE \E i \in DOMAIN joinQueue : joinQueue[i].slot = s
  BY <1>2 DEF LoginInFlight
<1>3. CASE \E u \in Parsers : parser[u].at \in {"incr", "setAccount", "send"} /\ SlotP(u) = s
  BY <1>3 DEF LoginInFlight, SlotP
<1> QED BY <1>1, <1>2, <1>3 DEF LoginInFlight

LEMMA NoStuckStep == TypeOK /\ WorkOK /\ NoStuckLogin /\ [Next]_vars => NoStuckLogin'
<1> SUFFICES ASSUME TypeOK, WorkOK, NoStuckLogin, [Next]_vars
             PROVE  NoStuckLogin'
  OBVIOUS
<1> DEFINE Cleared == StatesKept \/ \E q \in Slots : StateCleared(q)
<1>1. ASSUME NEW t \in Parsers,
             \/ ParserTake(t) \/ HelloCheck(t) \/ HelloBind(t) \/ HelloWelcome(t)
             \/ Route(t) \/ LoginCheck(t) \/ LoginKick(t) \/ CharList(t)
             \/ ParserCloseSend(t) \/ ParserCloseReset(t)
      PROVE  NoStuckLogin'
  <2>1. /\ parser[t].at \notin {"incr", "setAccount", "send"}
        /\ \E x : parser' = [parser EXCEPT ![t] = x]
        /\ UNCHANGED <<joinQueue, js>>
    BY <1>1 DEF ParserTake, HelloCheck, HelloBind, HelloWelcome, Route, LoginCheck,
                LoginKick, CharList, ParserCloseSend, ParserCloseReset, ParserAtPoint,
                ParserGoes, ParserDone, ParserElse
  <2>2. parser[t].at # "idle" => SlotP(t) \in Slots /\ parser[t].msg.conn \in Conns
    BY DEF WorkOK, Message
  <2>3. Cleared
    <3>1. CASE KeepClients
      BY <3>1, MethodStates
    <3>2. CASE HelloBind(t)
      BY <2>2, <3>2, MethodStates DEF HelloBind, ParserAtPoint
    <3>3. CASE LoginKick(t) \/ ParserCloseReset(t)
      BY <2>2, <3>3, MethodStates DEF LoginKick, ParserCloseReset, ParserAtPoint
    <3> QED
      BY <1>1, <3>1, <3>2, <3>3 DEF ParserTake, HelloCheck, HelloWelcome, Route,
         LoginCheck, CharList, ParserCloseSend
  <2> QED BY <2>1, <2>3, ParserKeepsFlights, KeptSuffices
<1>2. ASSUME NEW t \in Parsers, LoginSetLogging(t)
      PROVE  NoStuckLogin'
  <2>1. PICK q \in Slots : q = SlotP(t)
    BY <1>2 DEF LoginSetLogging, ParserAtPoint, WorkOK
  <2>2. FlightsKept
    <3>1. /\ parser[t].at \notin {"incr", "setAccount", "send"}
          /\ \E x : parser' = [parser EXCEPT ![t] = x]
          /\ UNCHANGED <<joinQueue, js>>
      BY <1>2 DEF LoginSetLogging, ParserAtPoint, ParserGoes, ParserElse
    <3> QED BY <3>1, ParserKeepsFlights
  <2>3. parser'[t].at = "incr" /\ parser'[t].msg = parser[t].msg
    BY <1>2 DEF LoginSetLogging, ParserGoes, TypeOK
  <2>4. LoginInFlight(q)'
    BY <2>1, <2>3 DEF LoginInFlight, SlotP
  <2>5. /\ client'[q].state = "LOGGING" /\ lost' = lost
        /\ \A s \in Slots \ {q} : client'[s].state = client[s].state
    BY <1>2, <2>1 DEF LoginSetLogging, set_connection_state, TypeOK, Client
  <2>6. ASSUME NEW s \in Slots, client'[s].state = "LOGGING"
        PROVE  LoginInFlight(s)' \/ s \in lost'
    <3>1. CASE s = q
      BY <2>4, <3>1
    <3>2. CASE s # q
      <4>1. LoginInFlight(s) \/ s \in lost
        BY <2>5, <2>6, <3>2 DEF NoStuckLogin
      <4> QED BY <2>2, <2>5, <4>1 DEF FlightsKept
    <3> QED BY <3>1, <3>2
  <2>7. ASSUME NEW s \in Slots, s \in lost'
        PROVE  client'[s].state = "LOGGING"
    <3>1. CASE s = q
      BY <2>5, <3>1
    <3>2. CASE s # q
      BY <2>5, <2>7, <3>2 DEF NoStuckLogin
    <3> QED BY <3>1, <3>2
  <2> QED BY <2>6, <2>7 DEF NoStuckLogin
<1>3. ASSUME NEW t \in Parsers, LoginIncr(t) \/ LoginSetAccount(t)
      PROVE  NoStuckLogin'
  <2>1. /\ parser'[t].at \in {"setAccount", "send"} /\ parser'[t].msg = parser[t].msg
        /\ \A u \in Parsers \ {t} : parser'[u] = parser[u]
        /\ UNCHANGED <<joinQueue, js>>
    BY <1>3 DEF LoginIncr, LoginSetAccount, ParserGoes, ParserElse, TypeOK
  <2>2. FlightsKept
    BY <2>1 DEF FlightsKept, LoginInFlight, SlotP, SlotJ
  <2>3. /\ SlotP(t) \in Slots /\ parser[t].msg.id \in 1 .. MaxMsgs
        /\ ReqP(t).account \in Accounts \union {NoAccount}
    BY <1>3 DEF LoginIncr, LoginSetAccount, ParserAtPoint, WorkOK, Message, ReqP,
                RequestType
  <2>4. StatesKept
    BY <1>3, <2>3, MethodStates DEF LoginIncr, LoginSetAccount
  <2> QED BY <2>2, <2>4, KeptSuffices
<1>4. ASSUME NEW t \in Parsers, LoginDispatch(t)
      PROVE  NoStuckLogin'
  <2> DEFINE j == [id |-> parser[t].msg.id, slot |-> SlotP(t), account |-> ReqP(t).account]
  <2>1. /\ joinQueue' = Append(joinQueue, j) /\ js' = js
        /\ \A u \in Parsers \ {t} : parser'[u] = parser[u]
    BY <1>4 DEF LoginDispatch, ParserDone, TypeOK
  <2>2. /\ j \in Job /\ joinQueue \in Seq(Job)
    BY <1>4 DEF LoginDispatch, ParserAtPoint, WorkOK, Message, RequestType, Job, ReqP, TypeOK
  <2>3. /\ j.slot = SlotP(t)
        /\ \A i \in DOMAIN joinQueue : i \in DOMAIN joinQueue' /\ joinQueue'[i] = joinQueue[i]
        /\ \E i \in DOMAIN joinQueue' : joinQueue'[i] = j
    <3> HIDE DEF j
    <3>1. /\ \A i \in 1 .. Len(joinQueue) : Append(joinQueue, j)[i] = joinQueue[i]
          /\ Append(joinQueue, j)[Len(joinQueue) + 1] = j
          /\ Len(Append(joinQueue, j)) = Len(joinQueue) + 1
          /\ Append(joinQueue, j) \in Seq(Job)
      BY <2>2, AppendProperties
    <3>2. /\ DOMAIN joinQueue = 1 .. Len(joinQueue) /\ Len(joinQueue) \in Nat
          /\ DOMAIN Append(joinQueue, j) = 1 .. (Len(joinQueue) + 1)
      BY <2>2, <3>1, LenProperties
    <3>3. j.slot = SlotP(t)
      BY DEF j
    <3> QED BY <2>1, <3>1, <3>2, <3>3
  <2>4. FlightsKept
    <3> SUFFICES ASSUME NEW s \in Slots, LoginInFlight(s)
                 PROVE  LoginInFlight(s)'
      BY DEF FlightsKept
    <3>1. CASE s = SlotP(t)
      BY <2>3, <3>1 DEF LoginInFlight
    <3>2. CASE s # SlotP(t)
      <4> HIDE DEF j
      <4> QED BY <2>1, <2>3, <3>2 DEF LoginInFlight, SlotP, SlotJ
    <3> QED BY <3>1, <3>2
  <2>5. StatesKept
    BY <1>4, MethodStates DEF LoginDispatch
  <2> QED BY <2>4, <2>5, KeptSuffices
<1>5. ASSUME NEW t \in JsThreads, JsTake(t)
      PROVE  NoStuckLogin'
  <2>1. /\ joinQueue \in Seq(Job) /\ joinQueue # <<>>
        /\ joinQueue' = Tail(joinQueue) /\ parser' = parser
        /\ js'[t].at = "call" /\ js'[t].job = Head(joinQueue) /\ js[t].at = "idle"
        /\ \A u \in JsThreads \ {t} : js'[u] = js[u]
    BY <1>5 DEF JsTake, JsAtPoint, TypeOK
  <2>2. FlightsKept
    <3> SUFFICES ASSUME NEW s \in Slots, LoginInFlight(s)
                 PROVE  LoginInFlight(s)'
      BY DEF FlightsKept
    <3>1. ASSUME NEW i \in DOMAIN joinQueue, joinQueue[i].slot = s
          PROVE  LoginInFlight(s)'
      <4>1. /\ Head(joinQueue) = joinQueue[1] /\ Len(joinQueue) \in Nat \ {0}
            /\ DOMAIN joinQueue = 1 .. Len(joinQueue)
            /\ DOMAIN Tail(joinQueue) = 1 .. (Len(joinQueue) - 1)
            /\ \A k \in 1 .. (Len(joinQueue) - 1) : Tail(joinQueue)[k] = joinQueue[k + 1]
        BY <2>1
      <4>2. CASE i = 1
        BY <2>1, <3>1, <4>1, <4>2 DEF LoginInFlight, SlotJ
      <4>3. CASE i # 1
        <5>1. i - 1 \in DOMAIN joinQueue' /\ joinQueue'[i - 1] = joinQueue[i]
          BY <2>1, <4>1, <4>3
        <5> QED BY <3>1, <5>1 DEF LoginInFlight
      <4> QED BY <4>2, <4>3
    <3>2. CASE \E u \in Parsers : /\ parser[u].at \in {"incr", "setAccount", "send"}
                                  /\ SlotP(u) = s
      BY <2>1, <3>2 DEF LoginInFlight, SlotP
    <3>3. CASE \E u \in JsThreads : js[u].at \in {"call", "connect"} /\ SlotJ(u) = s
      BY <2>1, <3>3 DEF LoginInFlight, SlotJ
    <3> QED BY <3>1, <3>2, <3>3 DEF LoginInFlight
  <2>3. StatesKept
    BY <1>5, MethodStates DEF JsTake
  <2> QED BY <2>2, <2>3, KeptSuffices
<1>6. ASSUME NEW t \in JsThreads, JsCallFails(t)
      PROVE  NoStuckLogin'
  <2>1. /\ client' = client /\ UNCHANGED <<joinQueue, parser>>
        /\ \A u \in JsThreads \ {t} : js'[u] = js[u]
        /\ lost' = IF client[SlotJ(t)].state = "LOGGING"
                   THEN lost \union {SlotJ(t)} ELSE lost
    BY <1>6 DEF JsCallFails, JsDone, JsElse, TypeOK
  <2>2. \A s \in Slots : LoginInFlight(s) => LoginInFlight(s)' \/ s = SlotJ(t)
    BY <2>1 DEF LoginInFlight, SlotP, SlotJ
  <2> QED BY <2>1, <2>2 DEF NoStuckLogin
<1>7. ASSUME NEW t \in JsThreads, NEW r \in JoinServerResult, JsReply(t, r)
      PROVE  NoStuckLogin'
  <2>1. /\ js'[t].at = "connect" /\ js'[t].job = js[t].job
        /\ \A u \in JsThreads \ {t} : js'[u] = js[u]
        /\ UNCHANGED <<joinQueue, parser>>
    BY <1>7 DEF JsReply, JsElse, TypeOK
  <2>2. FlightsKept
    BY <2>1 DEF FlightsKept, LoginInFlight, SlotP, SlotJ
  <2>3. StatesKept
    BY <1>7, MethodStates DEF JsReply
  <2> QED BY <2>2, <2>3, KeptSuffices
<1>8. ASSUME NEW t \in JsThreads, JsConnect(t)
      PROVE  NoStuckLogin'
  <2>1. /\ \A u \in JsThreads \ {t} : js'[u] = js[u]
        /\ UNCHANGED <<joinQueue, parser>>
    BY <1>8 DEF JsConnect, JsGoes, JsElse, TypeOK
  <2>2. \A s \in Slots : LoginInFlight(s) => LoginInFlight(s)' \/ s = SlotJ(t)
    BY <2>1 DEF LoginInFlight, SlotP, SlotJ
  <2>3. SlotJ(t) \in Slots
    BY <1>8 DEF JsConnect, JsAtPoint, WorkOK, Job, SlotJ
  <2>4. StateCleared(SlotJ(t))
    BY <1>8, <2>3, MethodStates DEF JsConnect
  <2> QED BY <2>2, <2>4 DEF NoStuckLogin, StateCleared
<1>9. ASSUME NEW t \in JsThreads,
             JsCount(t) \/ JsRecount(t) \/ JsCloseSend(t) \/ JsCloseReset(t)
      PROVE  NoStuckLogin'
  <2>1. /\ js[t].at \notin {"call", "connect"}
        /\ \E x : js' = [js EXCEPT ![t] = x]
        /\ UNCHANGED <<joinQueue, parser>>
    BY <1>9 DEF JsCount, JsRecount, JsCloseSend, JsCloseReset, JsAtPoint, JsGoes, JsDone,
                JsElse
  <2>2. Cleared
    <3>1. CASE JsCount(t)
      BY <3>1 DEF JsCount, StatesKept
    <3>2. CASE KeepClients
      BY <3>2, MethodStates
    <3>3. CASE JsCloseReset(t)
      <4>1. SlotJ(t) \in Slots
        BY <3>3 DEF JsCloseReset, JsAtPoint, WorkOK, Job, SlotJ
      <4> QED BY <3>3, <4>1, MethodStates DEF JsCloseReset
    <3> QED BY <1>9, <3>1, <3>2, <3>3 DEF JsRecount, JsCloseSend
  <2> QED BY <2>1, <2>2, JsKeepsFlights, KeptSuffices
<1>10. CASE /\ UNCHANGED <<parser, joinQueue, js>>
            /\ KeepClients \/ \E s \in Slots : reset_client(s)
  <2>1. FlightsKept
    BY <1>10 DEF FlightsKept, LoginInFlight, SlotP, SlotJ
  <2>2. Cleared
    BY <1>10, MethodStates
  <2> QED BY <2>1, <2>2, KeptSuffices
<1>11. (\E c \in Conns : MAIN_STATUS_SVC(c)) =>
         /\ UNCHANGED <<parser, joinQueue, js>>
         /\ KeepClients \/ \E s \in Slots : reset_client(s)
  BY DEF MAIN_STATUS_SVC
<1>12. \/ \E c \in Conns : \/ GatewayOpens(c) \/ GatewayCloses(c)
                           \/ \E r \in Requests : MAIN_MESSAGE_SVC(c, r)
       \/ DataServerSend
       \/ UNCHANGED vars
       => UNCHANGED <<parser, joinQueue, js>> /\ KeepClients
  BY DEF GatewayOpens, GatewayCloses, MAIN_MESSAGE_SVC, DataServerSend, KeepClients, vars
<1> QED
  BY <1>1, <1>2, <1>3, <1>4, <1>5, <1>6, <1>7, <1>8, <1>9, <1>10, <1>11, <1>12
     DEF Next, ParserStep, JsStep
-----------------------------------------------------------------------------
LEMMA InitInv == Init => IInv
<1> SUFFICES ASSUME Init
             PROVE  IInv
  OBVIOUS
<1> USE DEF Init
<1>1. TypeOK
  <2>1. FreeClient \in Client
    BY NoConnAssumption DEF FreeClient, Client, kClientState
  <2>2. client \in [Slots -> Client]
    BY <2>1
  <2>3. /\ protocolQueue \in Seq(Message)
        /\ joinQueue \in Seq(Job)
        /\ dataQueue \in Seq(Slots \X Accounts)
    BY EmptySeq
  <2>4. parser \in [Parsers -> [at : ParserAt, msg : Message \union {NoMessage}]]
    BY DEF IdleParser, ParserAt
  <2>5. js \in [JsThreads -> [at : JsAt, job : Job \union {NoLogin},
                              result : Result \union {"none"}]]
    BY DEF IdleJs, JsAt
  <2>6. nsent \in 0 .. MaxMsgs
    BY MaxMsgsAssumption
  <2>7. /\ link \in [Conns -> {"new", "open", "gone"}]
        /\ statusDue \subseteq Conns
        /\ out \subseteq [what : {"welcome", "login", "close"}, to : Conns \union {NoConn}]
        /\ lost \subseteq Slots
        /\ everBound \subseteq Conns
    OBVIOUS
  <2>8. /\ counted \in [Slots -> SUBSET (1 .. MaxMsgs)]
        /\ answers \in [Slots -> SUBSET [id : 1 .. MaxMsgs, result : Result]]
    OBVIOUS
  <2> QED BY <2>2, <2>3, <2>4, <2>5, <2>6, <2>7, <2>8 DEF TypeOK
<1>2. WorkOK
  BY DEF WorkOK, IdleParser, IdleJs
<1>3. LedgerOK
  BY DEF LedgerOK
<1>4. NoStuckLogin
  BY DEF NoStuckLogin, FreeClient
<1>5. BoundSlotInUse
  BY DEF BoundSlotInUse, FreeClient
<1>6. LoginLimitHolds
  <2> SUFFICES ASSUME NEW s \in Slots
               PROVE  /\ Cardinality(counted[s]) <= client[s].login_send_count
                      /\ Cardinality(Granted(s)) < LoginLimit
    BY DEF LoginLimitHolds
  <2>1. counted[s] = {} /\ Granted(s) = {}
    BY DEF Granted
  <2>2. client[s].login_send_count = 0
    BY DEF FreeClient
  <2> QED BY <2>1, <2>2, FS_EmptySet DEF LoginLimit
<1> QED BY <1>1, <1>2, <1>3, <1>4, <1>5, <1>6 DEF IInv

LEMMA StepInv == IInv /\ [Next]_vars => IInv'
  BY TypeStep, StepEffect, BoundStep, LedgerStep, LimitStep, NoStuckStep DEF IInv

\* The inductive invariant holds in every behaviour.
THEOREM Invariance == Spec => []IInv
  BY InitInv, StepInv, PTL DEF Spec

(***************************************************************************)
(* Every slot, queue and thread keeps its type; in particular only the     *)
(* results the client protocol knows are ever answered.                    *)
(***************************************************************************)
THEOREM TypeCorrect == Spec => []TypeOK
<1>1. IInv => TypeOK
  BY DEF IInv
<1> QED BY <1>1, Invariance, PTL

(***************************************************************************)
(* No slot is left in LOGGING without a login on its way through the       *)
(* pools, unless its join server call failed (join_id_pass_request and     *)
(* join_id_pass_result, for any number of threads).                        *)
(***************************************************************************)
THEOREM NoStuckLoginSafe == Spec => []NoStuckLogin
<1>1. IInv => NoStuckLogin
  BY DEF IInv
<1> QED BY <1>1, Invariance, PTL

(***************************************************************************)
(* A slot that names a connection is in use and names one of its own       *)
(* registered connections (set_connection_info and reset_client).          *)
(***************************************************************************)
THEOREM BoundSafe == Spec => []BoundSlotInUse
<1>1. IInv => BoundSlotInUse
  BY DEF IInv
<1> QED BY <1>1, Invariance, PTL

(***************************************************************************)
(* At most two logins of a slot get the join server's verdict between two  *)
(* resets (the counter of join_id_pass_request and join_id_pass_result).   *)
(***************************************************************************)
THEOREM LimitSafe == Spec => []LoginLimitHolds
<1>1. IInv => LoginLimitHolds
  BY DEF IInv
<1> QED BY <1>1, Invariance, PTL
=============================================================================
