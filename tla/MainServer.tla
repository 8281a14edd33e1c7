----------------------------- MODULE MainServer -----------------------------
(***************************************************************************)
(* The session logic of the main server: the table of client_info slots,   *)
(* the threads that parse client messages, the threads that ask the join   *)
(* server, and the services the TCP gateway calls.                         *)
(*                                                                         *)
(* Each slot has a mutex of its own and every client_info method is one    *)
(* critical section; a handler calls several of them with nothing held in  *)
(* between.  An action here is one such call together with what the        *)
(* handler does up to the next one (sending is not shared state).  The     *)
(* three pools appear as their FIFO queues and threads: WorkerPool proves  *)
(* that this is all a caller sees of them.  user_index is set and cleared  *)
(* with connection_id and never read; world_id is never set.               *)
(***************************************************************************)
EXTENDS Naturals, Sequences, FiniteSets

CONSTANTS Slots,      \* the entries of M_clients (MAX_USER of them)
          Conns,      \* connection ids the gateway hands out, each used once
          SlotOf,     \* GET_PLAIN_CONN_ID(c) - 1: the slot a connection maps to
          NoConn,     \* connection id 0
          Accounts,   \* account names
          NoAccount,  \* the empty account name
          Requests,   \* what a client may send, see RequestType
          Parsers,    \* threads of "Received data parser"
          JsThreads,  \* threads of "JoinServer manager"
          MaxMsgs     \* bound: messages the clients send in a behaviour

LoginLimit == 3       \* the literal of join_id_pass_result

kClientState == {"NONE", "CONNECTED", "LOGGING", "LOGGED", "PLAYING"}

(***************************************************************************)
(* hello is the unencrypted C1 04 F4 06 a client sends first, filtered the *)
(* same F4/06 when it comes through the engine (filtered, or in a C3),     *)
(* which passes by the check of the slot; login F1/01, chars F3/00; other  *)
(* stands for all that does nothing: messages that do not decode and       *)
(* header codes without a handler.  valid says that the client version and *)
(* serial of a login are the configured ones.                              *)
(***************************************************************************)
RequestType == [kind : {"hello", "filtered", "login", "chars", "other"},
                account : Accounts \union {NoAccount}, valid : BOOLEAN]

Message == [id : 1 .. MaxMsgs, conn : Conns, req : RequestType]
Job     == [id : 1 .. MaxMsgs, slot : Slots, account : Accounts \union {NoAccount}]

NoMessage == [id |-> 0]
NoLogin   == [id |-> 0]

ASSUME SlotOfAssumption   == SlotOf \in [Conns -> Slots \union {0}] /\ 0 \notin Slots
ASSUME NoConnAssumption   == NoConn \notin Conns
ASSUME AccountAssumption  == NoAccount \notin Accounts
ASSUME RequestsAssumption == Requests \subseteq RequestType
ASSUME MaxMsgsAssumption  == MaxMsgs \in Nat

VARIABLES
  client,         \* the slots
  protocolQueue,  \* messages dispatched to the parser pool
  parser,         \* what each parser thread is doing, with which message
  joinQueue,      \* login requests dispatched to the join server pool
  js,             \* what each join server thread is doing, with which request
  dataQueue,      \* character list requests dispatched to the data server pool
  link,           \* gateway: each connection is new, open or gone
  statusDue,      \* gateway: disconnects MAIN_STATUS_SVC has not seen yet
  nsent,          \* gateway: messages sent so far
  out,            \* messages the last step sent to the gateway
  lost,           \* history: slots in LOGGING whose join server call failed
  everBound,      \* history: connections set_connection_info was called for
  counted,        \* history: logins counted in each slot since its reset
  answers         \* history: the answers those logins got

gateway == <<link, statusDue, nsent>>
ledger  == <<counted, answers>>
vars == <<client, protocolQueue, parser, joinQueue, js, dataQueue, gateway, out,
          lost, everBound, ledger>>

Result == {"SUCCESS", "INVALID", "REFUSED"}

ParserAt == {"idle", "hello", "bind", "welcome", "route", "check", "kick",
             "setLogging", "incr", "setAccount", "send", "chars",
             "closeSend", "closeReset"}
JsAt == {"idle", "call", "connect", "count", "recount", "closeSend", "closeReset"}

Client == [state : kClientState, connection_id : Conns \union {NoConn},
           account_id : Accounts \union {NoAccount}, login_send_count : Nat]

TypeOK ==
  /\ client \in [Slots -> Client]
  /\ protocolQueue \in Seq(Message)
  /\ parser \in [Parsers -> [at : ParserAt, msg : Message \union {NoMessage}]]
  /\ joinQueue \in Seq(Job)
  /\ js \in [JsThreads -> [at : JsAt, job : Job \union {NoLogin},
                           result : Result \union {"none"}]]
  /\ dataQueue \in Seq(Slots \X Accounts)
  /\ link \in [Conns -> {"new", "open", "gone"}]
  /\ statusDue \subseteq Conns
  /\ nsent \in 0 .. MaxMsgs
  /\ out \subseteq [what : {"welcome", "login", "close"}, to : Conns \union {NoConn}]
  /\ lost \subseteq Slots
  /\ everBound \subseteq Conns
  /\ counted \in [Slots -> SUBSET (1 .. MaxMsgs)]
  /\ answers \in [Slots -> SUBSET [id : 1 .. MaxMsgs, result : Result]]

\* client_info(): what the constructor and reset_client() leave.
FreeClient == [state |-> "NONE", connection_id |-> NoConn,
               account_id |-> NoAccount, login_send_count |-> 0]

IdleParser == [at |-> "idle", msg |-> NoMessage]
IdleJs     == [at |-> "idle", job |-> NoLogin, result |-> "none"]

Init == /\ client = [s \in Slots |-> FreeClient]
        /\ protocolQueue = <<>>
        /\ parser = [t \in Parsers |-> IdleParser]
        /\ joinQueue = <<>>
        /\ js = [t \in JsThreads |-> IdleJs]
        /\ dataQueue = <<>>
        /\ link = [c \in Conns |-> "new"]
        /\ statusDue = {}
        /\ nsent = 0
        /\ out = {}
        /\ lost = {}
        /\ everBound = {}
        /\ counted = [s \in Slots |-> {}]
        /\ answers = [s \in Slots |-> {}]
-----------------------------------------------------------------------------
(* What is sent to the gateway: by join_result_send, gc_join_result and    *)
(* close_client.  gc_join_result always addresses connection 0.            *)

Welcome(c)  == [what |-> "welcome", to |-> c]
JoinResult  == [what |-> "login", to |-> NoConn]
CloseMsg(c) == [what |-> "close", to |-> c]

Send(msgs) == out' = msgs
SendNothing == Send({})

-----------------------------------------------------------------------------
(* The client_info methods, each under the mutex of its slot.              *)

NotLogging(s) == lost' = lost \ {s}

reset_client_keeps_connection(s) ==   \* faulty: connection_id survives the reset
  /\ client' = [client EXCEPT ![s] =
                  [FreeClient EXCEPT !.connection_id = client[s].connection_id]]
  /\ NotLogging(s)
  /\ counted' = [counted EXCEPT ![s] = {}]
  /\ answers' = [answers EXCEPT ![s] = {}]
  /\ UNCHANGED everBound

reset_client(s) ==
  /\ client' = [client EXCEPT ![s] = FreeClient]
  /\ NotLogging(s)
  /\ counted' = [counted EXCEPT ![s] = {}]
  /\ answers' = [answers EXCEPT ![s] = {}]
  /\ UNCHANGED everBound

set_connection_info(s, c) ==
  /\ client' = [client EXCEPT ![s].state = "CONNECTED", ![s].connection_id = c]
  /\ NotLogging(s)
  /\ everBound' = everBound \union {c}
  /\ UNCHANGED ledger

set_connection_state(s, st) ==
  /\ client' = [client EXCEPT ![s].state = st]
  /\ IF st = "LOGGING" THEN UNCHANGED lost ELSE NotLogging(s)
  /\ UNCHANGED <<everBound, ledger>>

incr_login_count(s, id) ==
  /\ client' = [client EXCEPT ![s].login_send_count = @ + 1]
  /\ counted' = [counted EXCEPT ![s] = @ \union {id}]
  /\ UNCHANGED <<lost, everBound, answers>>

set_account_id(s, a) ==
  /\ client' = [client EXCEPT ![s].account_id = a]
  /\ UNCHANGED <<lost, everBound, ledger>>

KeepClients == UNCHANGED <<client, lost, everBound, ledger>>

-----------------------------------------------------------------------------
(* The gateway and the services it calls.  A plain connection number is    *)
(* reused, so connections that share a slot are open one after the other;  *)
(* the two services have queues of their own, so a disconnect may arrive   *)
(* after the next connection has opened and after its messages.            *)

GatewayOpens(c) ==
  /\ link[c] = "new"
  /\ \A d \in Conns : SlotOf[d] = SlotOf[c] => link[d] # "open"
  /\ link' = [link EXCEPT ![c] = "open"]
  /\ SendNothing /\ KeepClients
  /\ UNCHANGED <<protocolQueue, parser, joinQueue, js, dataQueue, statusDue, nsent>>

GatewayCloses(c) ==
  /\ link[c] = "open"
  /\ link' = [link EXCEPT ![c] = "gone"]
  /\ statusDue' = statusDue \union {c}
  /\ SendNothing /\ KeepClients
  /\ UNCHANGED <<protocolQueue, parser, joinQueue, js, dataQueue, nsent>>

\* MAIN_MESSAGE_SVC: hand the message to the parser pool.
MAIN_MESSAGE_SVC(c, r) ==
  /\ link[c] = "open"
  /\ nsent < MaxMsgs
  /\ nsent' = nsent + 1
  /\ protocolQueue' =
       Append(protocolQueue, [id |-> nsent + 1, conn |-> c, req |-> r])
  /\ SendNothing /\ KeepClients
  /\ UNCHANGED <<parser, joinQueue, js, dataQueue, link, statusDue>>

\* MAIN_STATUS_SVC, flag 'D': reset the slot in the service's own thread.
MAIN_STATUS_SVC(c) ==
  /\ c \in statusDue
  /\ statusDue' = statusDue \ {c}
  /\ IF SlotOf[c] \in Slots THEN reset_client(SlotOf[c]) ELSE KeepClients
  /\ SendNothing
  /\ UNCHANGED <<protocolQueue, parser, joinQueue, js, dataQueue, link, nsent>>
-----------------------------------------------------------------------------
(* recv_data_parser in a thread of the parser pool.                        *)

ParserElse == UNCHANGED <<protocolQueue, joinQueue, js, dataQueue, gateway>>

ParserAtPoint(t, p) == parser[t].at = p
ParserGoes(t, p) == parser' = [parser EXCEPT ![t].at = p]
ParserDone(t)    == parser' = [parser EXCEPT ![t] = IdleParser]

SlotP(t) == SlotOf[parser[t].msg.conn]
ReqP(t)  == parser[t].msg.req

\* Dequeue; a message that does not decode, has no handler, or comes from a
\* connection without a slot (M_clients.at throws) changes nothing.
ParserTake(t) ==
  /\ ParserAtPoint(t, "idle")
  /\ protocolQueue # <<>>
  /\ LET m == Head(protocolQueue) IN
       parser' = [parser EXCEPT ![t] =
         IF m.req.kind = "other" \/ SlotOf[m.conn] \notin Slots
         THEN IdleParser
         ELSE [at |-> CASE m.req.kind = "hello"    -> "hello"
                        [] m.req.kind = "filtered" -> "welcome"
                        [] OTHER                   -> "route", msg |-> m]]
  /\ protocolQueue' = Tail(protocolQueue)
  /\ SendNothing /\ KeepClients
  /\ UNCHANGED <<joinQueue, js, dataQueue, gateway>>

\* The connection message: a slot in use is only logged.
HelloCheck(t) ==
  /\ ParserAtPoint(t, "hello")
  /\ ParserGoes(t, IF client[SlotP(t)].state = "NONE" THEN "bind" ELSE "welcome")
  /\ SendNothing /\ KeepClients /\ ParserElse

HelloBind(t) ==
  /\ ParserAtPoint(t, "bind")
  /\ set_connection_info(SlotP(t), parser[t].msg.conn)
  /\ ParserGoes(t, "welcome")
  /\ SendNothing /\ ParserElse

\* protocol_core F4/06: answered unless the slot is PLAYING (never so).  The
\* answer is negative when the buffer has no address of the client; what it
\* says is data, and to whom it goes is not.
HelloWelcome(t) ==
  /\ ParserAtPoint(t, "welcome")
  /\ Send(IF client[SlotP(t)].state = "PLAYING" THEN {}
          ELSE {Welcome(parser[t].msg.conn)})
  /\ ParserDone(t)
  /\ KeepClients /\ ParserElse

\* Every other message: a PLAYING client's would go to its world server.
Route(t) ==
  /\ ParserAtPoint(t, "route")
  /\ IF client[SlotP(t)].state = "PLAYING" THEN ParserDone(t)
     ELSE ParserGoes(t, IF ReqP(t).kind = "chars" THEN "chars"
                        ELSE IF ReqP(t).valid THEN "check" ELSE "kick")
  /\ SendNothing /\ KeepClients /\ ParserElse

\* join_id_pass_request: only a CONNECTED client may log in.
LoginCheck(t) ==
  /\ ParserAtPoint(t, "check")
  /\ LET st == client[SlotP(t)].state IN
       IF st # "CONNECTED" THEN ParserGoes(t, "kick")
       ELSE IF st = "LOGGING" THEN ParserDone(t)
       ELSE ParserGoes(t, "setLogging")
  /\ SendNothing /\ KeepClients /\ ParserElse

\* A wrong version or serial, or a wrong state: close_client(buffer, index).
LoginKick(t) ==
  /\ ParserAtPoint(t, "kick")
  /\ reset_client(SlotP(t))
  /\ Send({CloseMsg(parser[t].msg.conn)}
          \union (IF ReqP(t).valid THEN {} ELSE {JoinResult}))
  /\ ParserDone(t)
  /\ ParserElse

LoginSetLogging(t) ==
  /\ ParserAtPoint(t, "setLogging")
  /\ set_connection_state(SlotP(t), "LOGGING")
  /\ ParserGoes(t, "incr")
  /\ SendNothing /\ ParserElse

LoginIncr(t) ==
  /\ ParserAtPoint(t, "incr")
  /\ incr_login_count(SlotP(t), parser[t].msg.id)
  /\ ParserGoes(t, "setAccount")
  /\ SendNothing /\ ParserElse

LoginSetAccount(t) ==
  /\ ParserAtPoint(t, "setAccount")
  /\ set_account_id(SlotP(t), ReqP(t).account)
  /\ ParserGoes(t, "send")
  /\ SendNothing /\ ParserElse

LoginDispatch(t) ==
  /\ ParserAtPoint(t, "send")
  /\ joinQueue' = Append(joinQueue, [id |-> parser[t].msg.id, slot |-> SlotP(t),
                                     account |-> ReqP(t).account])
  /\ ParserDone(t)
  /\ SendNothing /\ KeepClients
  /\ UNCHANGED <<protocolQueue, js, dataQueue, gateway>>

\* dataserver_get_char_list_request: no login, no list, and the client is closed.
CharList(t) ==
  /\ ParserAtPoint(t, "chars")
  /\ LET a == client[SlotP(t)].account_id IN
       IF a = NoAccount
       THEN ParserGoes(t, "closeSend") /\ UNCHANGED dataQueue
       ELSE ParserDone(t) /\ dataQueue' = Append(dataQueue, <<SlotP(t), a>>)
  /\ SendNothing /\ KeepClients
  /\ UNCHANGED <<protocolQueue, joinQueue, js, gateway>>

\* close_client(index): read the connection, send to it, and only then reset.
ParserCloseSend(t) ==
  /\ ParserAtPoint(t, "closeSend")
  /\ Send({CloseMsg(client[SlotP(t)].connection_id)})
  /\ ParserGoes(t, "closeReset")
  /\ KeepClients /\ ParserElse

ParserCloseReset(t) ==
  /\ ParserAtPoint(t, "closeReset")
  /\ reset_client(SlotP(t))
  /\ ParserDone(t)
  /\ SendNothing /\ ParserElse

ParserStep(t) ==
  \/ ParserTake(t)
  \/ HelloCheck(t) \/ HelloBind(t) \/ HelloWelcome(t)
  \/ Route(t)
  \/ LoginCheck(t) \/ LoginKick(t)
  \/ LoginSetLogging(t) \/ LoginIncr(t) \/ LoginSetAccount(t) \/ LoginDispatch(t)
  \/ CharList(t) \/ ParserCloseSend(t) \/ ParserCloseReset(t)
-----------------------------------------------------------------------------
(* joinserver_send_req in a thread of the join server pool.                *)

JsElse == UNCHANGED <<protocolQueue, parser, joinQueue, dataQueue, gateway>>

JsAtPoint(t, p) == js[t].at = p
JsGoes(t, p) == js' = [js EXCEPT ![t].at = p]
JsDone(t)    == js' = [js EXCEPT ![t] = IdleJs]

SlotJ(t) == js[t].job.slot

JsTakeSecond(t) ==   \* faulty: waits while the queue holds no more than one request
  /\ JsAtPoint(t, "idle")
  /\ Len(joinQueue) > 1
  /\ js' = [js EXCEPT ![t] = [at |-> "call", job |-> Head(joinQueue), result |-> "none"]]
  /\ joinQueue' = Tail(joinQueue)
  /\ SendNothing /\ KeepClients
  /\ UNCHANGED <<protocolQueue, parser, dataQueue, gateway>>

JsTake(t) ==
  /\ JsAtPoint(t, "idle")
  /\ joinQueue # <<>>
  /\ js' = [js EXCEPT ![t] = [at |-> "call", job |-> Head(joinQueue), result |-> "none"]]
  /\ joinQueue' = Tail(joinQueue)
  /\ SendNothing /\ KeepClients
  /\ UNCHANGED <<protocolQueue, parser, dataQueue, gateway>>

\* tpcall failed or the reply has no data: logged, nothing else happens.
JsCallFails(t) ==
  /\ JsAtPoint(t, "call")
  /\ lost' = IF client[SlotJ(t)].state = "LOGGING" THEN lost \union {SlotJ(t)} ELSE lost
  /\ JsDone(t)
  /\ SendNothing
  /\ UNCHANGED <<client, everBound, ledger>>
  /\ JsElse

\* What the join server may say, and what the client would be shown of it.
JoinServerResult == {"SUCCESS", "SUCCESS_ITEMBLOCK", "WRONG_PASSWORD", "INVALID"}

ShownAsIs(r) == r   \* faulty: the join server's codes are passed on

Shown(r) == CASE r = "WRONG_PASSWORD"    -> "INVALID"
              [] r = "SUCCESS_ITEMBLOCK" -> "SUCCESS"
              [] OTHER                   -> r

JsReply(t, r) ==
  /\ JsAtPoint(t, "call")
  /\ js' = [js EXCEPT ![t].at = "connect", ![t].result = Shown(r)]
  /\ SendNothing /\ KeepClients /\ JsElse

JsConnectOnSuccess(t) ==   \* faulty: only a successful login leaves LOGGING
  /\ JsAtPoint(t, "connect")
  /\ IF js[t].result = "SUCCESS" THEN set_connection_state(SlotJ(t), "CONNECTED")
     ELSE KeepClients
  /\ JsGoes(t, "count")
  /\ SendNothing /\ JsElse

JsConnect(t) ==
  /\ JsAtPoint(t, "connect")
  /\ set_connection_state(SlotJ(t), "CONNECTED")
  /\ JsGoes(t, "count")
  /\ SendNothing /\ JsElse

RefusesLate(count) == count > LoginLimit   \* faulty: off by one

\* Read the count, refuse from the third login on, send the result.
Refuses(count) == count >= LoginLimit

JsCount(t) ==
  /\ JsAtPoint(t, "count")
  /\ LET s == SlotJ(t)
         id == js[t].job.id
         r == IF Refuses(client[s].login_send_count) THEN "REFUSED" ELSE js[t].result
     IN /\ js' = [js EXCEPT ![t] = IF r = "SUCCESS" THEN IdleJs
                                   ELSE [@ EXCEPT !.at = "recount", !.result = r]]
        /\ answers' = IF id \in counted[s]
                      THEN [answers EXCEPT ![s] = @ \union {[id |-> id, result |-> r]}]
                      ELSE answers
  /\ Send({JoinResult})
  /\ UNCHANGED <<client, lost, everBound, counted>>
  /\ JsElse

\* Read the count again and close the client beyond the limit.
JsRecount(t) ==
  /\ JsAtPoint(t, "recount")
  /\ IF client[SlotJ(t)].login_send_count > LoginLimit
     THEN JsGoes(t, "closeSend") ELSE JsDone(t)
  /\ SendNothing /\ KeepClients /\ JsElse

JsCloseSend(t) ==
  /\ JsAtPoint(t, "closeSend")
  /\ Send({CloseMsg(client[SlotJ(t)].connection_id)})
  /\ JsGoes(t, "closeReset")
  /\ KeepClients /\ JsElse

JsCloseReset(t) ==
  /\ JsAtPoint(t, "closeReset")
  /\ reset_client(SlotJ(t))
  /\ JsDone(t)
  /\ SendNothing /\ JsElse

JsStep(t) == \/ JsTake(t) \/ JsCallFails(t)
             \/ \E r \in JoinServerResult : JsReply(t, r)
             \/ JsConnect(t) \/ JsCount(t) \/ JsRecount(t)
             \/ JsCloseSend(t) \/ JsCloseReset(t)

\* dataserver_send_req changes no state of the main server, so taking the
\* request and running it is one step.
DataServerSend ==
  /\ dataQueue # <<>>
  /\ dataQueue' = Tail(dataQueue)
  /\ SendNothing /\ KeepClients
  /\ UNCHANGED <<protocolQueue, parser, joinQueue, js, gateway>>
-----------------------------------------------------------------------------
Next == \/ \E c \in Conns : \/ GatewayOpens(c) \/ GatewayCloses(c)
                            \/ \E r \in Requests : MAIN_MESSAGE_SVC(c, r)
                            \/ MAIN_STATUS_SVC(c)
        \/ \E t \in Parsers : ParserStep(t)
        \/ \E t \in JsThreads : JsStep(t)
        \/ DataServerSend

Spec == Init /\ [][Next]_vars

(***************************************************************************)
(* Pool threads run and their calls return (tpcall times out); the         *)
(* transport delivers a disconnect.  Clients and gateway owe nothing.      *)
(***************************************************************************)
Fairness == /\ \A t \in Parsers : WF_vars(ParserStep(t))
            /\ \A t \in JsThreads : WF_vars(JsStep(t))
            /\ \A c \in Conns : WF_vars(MAIN_STATUS_SVC(c))
            /\ WF_vars(DataServerSend)

FairSpec == Spec /\ Fairness
-----------------------------------------------------------------------------
\* A login that will still take its slot out of LOGGING when its answer comes.
LoginInFlight(s) ==
  \/ \E t \in Parsers : /\ parser[t].at \in {"incr", "setAccount", "send"}
                        /\ SlotP(t) = s
  \/ \E i \in DOMAIN joinQueue : joinQueue[i].slot = s
  \/ \E t \in JsThreads : js[t].at \in {"call", "connect"} /\ SlotJ(t) = s

(***************************************************************************)
(* A slot is never left in LOGGING with nobody to take it out: either one  *)
(* of its logins is on its way through the pools, or its join server call  *)
(* failed.  Several logins of one slot may race and the state carries no   *)
(* owner; it holds because LOGGING is set before the request is queued and *)
(* every answer, good or bad, sets CONNECTED.                              *)
(***************************************************************************)
NoStuckLogin ==
  \A s \in Slots :
    /\ client[s].state = "LOGGING" => LoginInFlight(s) \/ s \in lost
    /\ s \in lost => client[s].state = "LOGGING"

(***************************************************************************)
(* A slot that names a connection is in use, and the connection is one     *)
(* that maps to the slot and that was registered by its own hello.         *)
(* Resets, late answers and hellos of two connections race for the slot.   *)
(***************************************************************************)
BoundSlotInUse ==
  \A s \in Slots : client[s].connection_id # NoConn =>
    /\ client[s].state # "NONE"
    /\ SlotOf[client[s].connection_id] = s
    /\ client[s].connection_id \in everBound

(***************************************************************************)
(* The login limit: between two resets of a slot, of the logins counted in *)
(* it, at most LoginLimit - 1 get the join server's own verdict, all others *)
(* are refused, whatever the threads interleave.  It holds because a login *)
(* is counted before its request is queued, and the count never falls      *)
(* behind the logins it stands for.                                        *)
(***************************************************************************)
Granted(s) ==
  {i \in counted[s] : \E a \in answers[s] : a.id = i /\ a.result # "REFUSED"}

LoginLimitHolds ==
  \A s \in Slots :
    /\ Cardinality(counted[s]) <= client[s].login_send_count
    /\ Cardinality(Granted(s)) < LoginLimit

(***************************************************************************)
(* A client in LOGGING gets out of it, unless the join server call failed: *)
(* no login is dropped between the pools.                                  *)
(***************************************************************************)
LoginEnds ==
  \A s \in Slots : (client[s].state = "LOGGING")
                     ~> (client[s].state # "LOGGING" \/ s \in lost)

-----------------------------------------------------------------------------
(* What texts of the source say and the code does not do.                  *)

\* protocol.cpp:327, "Connection already exists. Disconnecting...": a
\* connection whose slot was taken is not welcomed as if it had registered.
OnlyRegisteredWelcomed ==
  \A m \in out : m.what = "welcome" => m.to \in everBound

\* main.cpp:65, "Reset connection in client list": a connection that is gone
\* does not stay in the list.
GoneConnectionReleased ==
  \A c \in Conns : SlotOf[c] \in Slots =>
    (link[c] = "gone" ~> client[SlotOf[c]].connection_id # c)
=============================================================================
