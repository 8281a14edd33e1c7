----------------------------- MODULE JoinServer -----------------------------
(***************************************************************************)
(* The join server: an Enduro/X service process with one thread that       *)
(* decides logins by one SELECT per request, through a PgDriver it owns.   *)
(* The main server calls it and may give up waiting; an exception thrown   *)
(* while a request is evaluated ends the process, which Enduro/X may start *)
(* again with a new driver.                                                *)
(*                                                                         *)
(* External: the calls of the main server and their timeouts, the request  *)
(* queue and the restarts of Enduro/X, and everything PgDriver takes as    *)
(* external.  Requests are those joinserver_send_req sends.                *)
(***************************************************************************)
EXTENDS Naturals, Sequences, FiniteSets

CONSTANTS Requests,
          Kind,          \* what a request is and what its account's row says
          Callers,       \* threads of the main server's join server pool
          RetryCount,    \* of the driver
          NoRequest

(***************************************************************************)
(* "malformed": a quote or a space in the account or password, each of     *)
(* which sql_syntax_check refuses (utils.cpp:52-70; the test of the        *)
(* account by space_syntax_check after it finds nothing more).  "unknown": *)
(* no row.  "blocked": the password is right and the ITEM_BLOCK or         *)
(* FULL_BLOCK flag set.  "null": guid or flags is NULL or not a number.    *)
(***************************************************************************)
Kinds == {"malformed", "unknown", "wrong", "right", "blocked", "null"}

ASSUME KindAssumption == Kind \in [Requests -> Kinds]
ASSUME NoneAssumption == NoRequest \notin Requests
ASSUME RetryAssumption == RetryCount \in Nat

VARIABLES
  args, connection_handle, reconnect_enabled, select_result, retry_count, at, call,
  again, db, unfreed, answer, performed, tries,    \* M_db_handle, see PgDriver
  process,     \* none, starting, serving, stopping, stopped or died
  queue,       \* requests in the queue of the service
  handling,    \* the request JOINSERVER_SVC is executing
  holds,       \* history: the request whose rows select_result points to
  met,         \* history: what the database did to this process and its last select
  outcome      \* the call of each request, as the main server sees it

driver == <<args, connection_handle, reconnect_enabled, select_result, retry_count, at,
            call, again, db, unfreed, answer, performed, tries>>
vars == <<driver, process, queue, handling, holds, met, outcome>>

D == INSTANCE PgDriver

Results == {"SUCCESS", "INVALID", "WRONG_PASSWORD"}

TypeOK == /\ D!TypeOK
          /\ process \in {"none", "starting", "serving", "stopping", "stopped", "died"}
          /\ queue \in Seq(Requests)
          /\ handling \in Requests \union {NoRequest}
          /\ holds \in Requests \union {NoRequest}
          /\ met \in [noLogin : BOOLEAN, error : BOOLEAN, lost : Nat, short : Nat]
          /\ outcome \in [Requests -> Results \union {"new", "waiting", "failed"}]

\* noLogin: a PQsetdbLogin of the process failed.  In the select: the database
\* reported an error, connections were lost, and how often in a row since then
\* it was out of resources.
Unharmed == [noLogin |-> FALSE, error |-> FALSE, lost |-> 0, short |-> 0]

Init == /\ D!Init /\ args = "noSchema"
        /\ process = "none"
        /\ queue = <<>>
        /\ handling = NoRequest
        /\ holds = NoRequest
        /\ met = Unharmed
        /\ outcome = [r \in Requests |-> "new"]
-----------------------------------------------------------------------------
(* The main server's side: tpcall in joinserver_send_req.                  *)

\* A service that is not advertised may be refused at once.
Ask(r) ==
  /\ outcome[r] = "new"
  /\ Cardinality({q \in Requests : outcome[q] = "waiting"}) < Callers
  /\ \/ /\ process \in {"starting", "serving", "died"}
        /\ outcome' = [outcome EXCEPT ![r] = "waiting"]
        /\ queue' = Append(queue, r)
     \/ /\ process # "serving"
        /\ outcome' = [outcome EXCEPT ![r] = "failed"]
        /\ UNCHANGED queue
  /\ UNCHANGED <<driver, process, handling, holds, met>>

\* The request stays where it is and may be executed for nobody.
Timeout(r) ==
  /\ outcome[r] = "waiting"
  /\ outcome' = [outcome EXCEPT ![r] = "failed"]
  /\ UNCHANGED <<driver, process, queue, handling, holds, met>>
-----------------------------------------------------------------------------
(* The process.                                                            *)

\* new pg_driver without a schema, in a new process.
NewDriver ==
  /\ args' = "noSchema" /\ connection_handle' = "null" /\ select_result' = "null"
  /\ reconnect_enabled' = FALSE /\ again' = FALSE /\ answer' = FALSE
  /\ at' = "idle" /\ call' = "none"
  /\ retry_count' = 0 /\ unfreed' = 0 /\ performed' = 0 /\ tries' = 0
  /\ UNCHANGED db

\* tpsvrinit up to PQsetdbLogin: new pg_driver, connect.
Starts ==
  /\ process = "none"
  /\ D!connect
  /\ process' = "starting"
  /\ UNCHANGED <<queue, handling, holds, met, outcome>>

\* The service is advertised whether or not connect() got a connection.
Advertises ==
  /\ process = "starting" /\ at = "idle"
  /\ process' = "serving"
  /\ UNCHANGED <<driver, queue, handling, holds, met, outcome>>

\* Enduro/X starts a process that died; its queue is kept or emptied.
Restart ==
  /\ process = "died"
  /\ process' = "none"
  /\ NewDriver /\ met' = Unharmed
  /\ queue' \in {queue, <<>>}
  /\ UNCHANGED <<handling, holds, outcome>>

\* tpsvrdone: disconnect, and delete, which is the driver's destructor.
tpsvrdone ==
  /\ process = "serving" /\ handling = NoRequest
  /\ D!disconnect
  /\ process' = "stopping"
  /\ queue' = <<>>
  /\ UNCHANGED <<handling, holds, met, outcome>>

Deletes ==
  /\ process = "stopping"
  /\ D!destructor
  /\ process' = "stopped"
  /\ UNCHANGED <<queue, handling, holds, met, outcome>>

\* The process ends in the middle of a request, and the driver with it.
Dies ==
  /\ process' = "died"
  /\ handling' = NoRequest /\ holds' = NoRequest
  /\ UNCHANGED <<driver, met, outcome>>
-----------------------------------------------------------------------------
(* JOINSERVER_SVC and join_id_pass_request.                                *)

\* tpreturn; an answer nobody waits for any more is dropped.  (An empty answer,
\* after a Bchg that failed, is to the caller what a Timeout just before is.)
Replies(r, result) ==
  outcome' = IF outcome[r] = "waiting" THEN [outcome EXCEPT ![r] = result] ELSE outcome

\* The checks of the syntax refuse a request before the database is asked.
TakeMalformed ==
  /\ process = "serving" /\ handling = NoRequest /\ queue # <<>>
  /\ Kind[Head(queue)] = "malformed"
  /\ queue' = Tail(queue)
  /\ Replies(Head(queue), "INVALID")
  /\ UNCHANGED <<driver, process, handling, holds, met>>

Take ==
  /\ process = "serving" /\ handling = NoRequest /\ queue # <<>>
  /\ Kind[Head(queue)] # "malformed"
  /\ queue' = Tail(queue)
  /\ handling' = Head(queue)
  /\ D!select
  /\ met' = [Unharmed EXCEPT !.noLogin = met.noLogin]
  /\ UNCHANGED <<process, holds, outcome>>

\* History: a PQexec with this outcome.
Meets(o) ==
  met' = CASE o = "error"       -> [met EXCEPT !.error = TRUE]
           [] o = "noResources" -> [met EXCEPT !.short = @ + 1]
           [] o \in {"lostBefore", "lostAfter"} -> [met EXCEPT !.lost = @ + 1, !.short = 0]
           [] OTHER -> met

\* A step of the driver inside connect() or select().
Drives ==
  /\ process \in {"starting", "serving"}
  /\ \/ /\ D!Login
        /\ met' = IF connection_handle' = "null" THEN [met EXCEPT !.noLogin = TRUE] ELSE met
     \/ \E o \in D!Outcome : (D!SearchPath(o) \/ D!Exec(o)) /\ Meets(o)
  /\ holds' = IF select_result' = "null" THEN NoRequest
              ELSE IF select_result = "null" THEN handling ELSE holds
  /\ UNCHANGED <<process, queue, handling, outcome>>

Selected == process = "serving" /\ handling # NoRequest /\ at = "idle"

KeepsResult == UNCHANGED <<driver, holds>>   \* faulty: the result is not freed

free_result ==
  /\ IF select_result = "null" THEN UNCHANGED driver ELSE D!free_result
  /\ holds' = NoRequest

UnansweredKeepsInitial ==   \* faulty: the result is left at its initial value
  /\ Selected /\ ~answer
  /\ Replies(handling, "SUCCESS") /\ handling' = NoRequest
  /\ free_result
  /\ UNCHANGED <<process, queue, met>>

UnansweredAgain ==   \* faulty: asks until the database answers
  /\ Selected /\ ~answer
  /\ D!select
  /\ UNCHANGED <<process, queue, handling, holds, met, outcome>>

UnansweredReturns ==   \* faulty: an early return that forgets the answer
  /\ Selected /\ ~answer
  /\ handling' = NoRequest
  /\ free_result
  /\ UNCHANGED <<process, queue, met, outcome>>

\* select() returned false: the database could not be asked.
Unanswered ==
  /\ Selected /\ ~answer
  /\ Replies(handling, "INVALID") /\ handling' = NoRequest
  /\ free_result
  /\ UNCHANGED <<process, queue, met>>

JudgedWithoutInformation(r) ==   \* faulty: the line commented out at protocol.cpp:83
  IF Kind[r] = "right" THEN "NO_INFORMATION"
  ELSE IF Kind[r] = "wrong" THEN "WRONG_PASSWORD" ELSE "INVALID"

Judged(r) == IF Kind[r] \in {"right", "blocked"} THEN "SUCCESS"
             ELSE IF Kind[r] = "wrong" THEN "WRONG_PASSWORD" ELSE "INVALID"

\* What the pending result says; free_result comes before the answer.
Evaluate ==
  /\ Selected /\ answer
  /\ Kind[holds] # "null"
  /\ Replies(handling, Judged(holds)) /\ handling' = NoRequest
  /\ free_result
  /\ UNCHANGED <<process, queue, met>>

\* std::stoi throws, nobody catches: free_result is not reached, nor an answer.
Throws ==
  /\ Selected /\ answer
  /\ Kind[holds] = "null"
  /\ Dies /\ UNCHANGED queue

DbChanges == D!DbChanges /\ UNCHANGED <<process, queue, handling, holds, met, outcome>>
-----------------------------------------------------------------------------
ServiceStep == TakeMalformed \/ Take \/ Drives \/ Unanswered \/ Evaluate \/ Throws

Next == \/ \E r \in Requests : Ask(r) \/ Timeout(r)
        \/ Starts \/ Advertises \/ Restart \/ tpsvrdone \/ Deletes
        \/ ServiceStep
        \/ DbChanges

Spec == Init /\ [][Next]_vars

\* A call of the main server ends by itself at the latest (tpcall times out),
\* and the process goes on; nothing is owed by Enduro/X or the database.
FairSpec == /\ Spec
            /\ WF_vars(ServiceStep)
            /\ \A r \in Requests : WF_vars(Timeout(r))
-----------------------------------------------------------------------------
(***************************************************************************)
(* Every request that reached select() has freed its rows when the next    *)
(* one is taken (select() would overwrite and leak them, driver.cpp:172),  *)
(* and the rows a login is judged by are its own, also after a reconnect   *)
(* in the middle of the select and after answers nobody waited for.        *)
(***************************************************************************)
OwnRows == /\ handling = NoRequest /\ process # "died" => select_result = "null"
           /\ select_result = "result" => holds = handling

\* The requests in the queue, and the one being handled.
Held(r) == r = handling \/ \E k \in DOMAIN queue : queue[k] = r

(***************************************************************************)
(* A process does not forget a call: a request it holds whose caller waits *)
(* leaves it by an answer, whatever becomes of its select, of the rows and *)
(* of the callers before it, unless the process dies, is restarted or      *)
(* stops; and nobody's request is executed twice, also when the process    *)
(* died of it.                                                             *)
(***************************************************************************)
NoCallForgotten ==
  [][\A r \in Requests :
       /\ Held(r) /\ ~Held(r)' /\ outcome'[r] = "waiting" => process' # "serving"
       /\ outcome[r] # "new" /\ ~Held(r) => ~Held(r)']_vars

\* What a login deserves; the flags of a blocked account refuse nothing.
Deserved == [malformed |-> "INVALID", unknown |-> "INVALID", null |-> "INVALID",
             wrong |-> "WRONG_PASSWORD", right |-> "SUCCESS", blocked |-> "SUCCESS"]

Verdicts == [r \in Requests |-> Deserved[Kind[r]]]

Excused == met.noLogin \/ met.error \/ met.lost = 2 \/ met.short > RetryCount

(***************************************************************************)
(* A good login is refused as an unknown account only when the database    *)
(* gave cause for it: it could not be logged in to in the life of this     *)
(* process (which has no connection from then on), reported an error, was  *)
(* out of resources for the first try and every retry, or lost the         *)
(* connection a second time after a reconnect.  One lost connection, a     *)
(* shorter shortage, one before and one after a reconnect, and whatever    *)
(* happened to the select of another login, cost nobody a login.           *)
(***************************************************************************)
RefusedForCause ==
  [][\A r \in Requests :
       /\ outcome[r] = "waiting" /\ outcome'[r] = "INVALID"
       /\ Verdicts[r] # "INVALID"
       => Excused]_vars

Service == INSTANCE LoginService WITH Verdict <- Verdicts

\* Each login gets its own verdict, "INVALID", or a failed call, exactly once.
ImplementsLoginService == Service!Spec

\* The service works off its queue, whatever the database does, unless it stops
\* or dies.
HasWork == process = "serving" /\ (queue # <<>> \/ handling # NoRequest)

QueueServed == HasWork ~> ~HasWork
=============================================================================
