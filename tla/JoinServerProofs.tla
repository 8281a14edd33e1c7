--------------------------- MODULE JoinServerProofs ---------------------------
(***************************************************************************)
(* Proofs about JoinServer for any requests and any retry count: it keeps  *)
(* its types, frees every result, forgets no call, refuses no good login   *)
(* without a cause, and implements the abstract LoginService.  What holds  *)
(* inside the driver is taken from PgDriverProofs.                         *)
(***************************************************************************)
EXTENDS JoinServer, TLAPS

P == INSTANCE PgDriverProofs

\* The driver is the one PgDriverProofs is about, constructed without a schema.
DriverOK == P!IInv /\ P!SchemaInv /\ args = "noSchema"

Own == /\ process \in {"none", "starting", "serving", "stopping", "stopped", "died"}
       /\ queue \in Seq(Requests)
       /\ handling \in Requests \union {NoRequest}
       /\ holds \in Requests \union {NoRequest}
       /\ met \in [noLogin : BOOLEAN, error : BOOLEAN, lost : Nat, short : Nat]
       /\ outcome \in [Requests -> Results \union {"new", "waiting", "failed"}]

\* Where the driver is in each phase of the process.
Phases ==
  /\ process # "serving" => handling = NoRequest
  /\ process = "none" => at = "idle" /\ connection_handle = "null" /\ select_result = "null"
  /\ process = "starting" => /\ at \in {"idle", "login"} /\ call = "connect"
                             /\ select_result = "null"
  /\ process = "serving" /\ handling = NoRequest => at = "idle" /\ select_result = "null"
  /\ process = "serving" /\ handling # NoRequest =>
       at \in {"idle", "login", "exec"} /\ call = "select"
  /\ process = "stopping" => at = "idle" /\ select_result = "null"
  /\ process = "stopped" => at = "deleted" /\ select_result = "null"
  /\ process = "died" => at = "idle"

\* A select that returned true left rows, those of the request being handled.
Rows == /\ select_result = "result" => holds = handling
        /\ Selected /\ answer => select_result = "result"

\* A driver without a connection has failed to log in, one with a connection
\* would replace it, and a select that goes on has met no cause to refuse yet.
Causes ==
  /\ process \in {"starting", "serving"} /\ at = "idle" /\ connection_handle = "null"
       => met.noLogin
  /\ connection_handle # "null" => reconnect_enabled
  /\ at = "exec" => connection_handle # "null"
  /\ handling # NoRequest =>
       /\ at = "login" => met.lost = 1 /\ met.short = 0
       /\ at = "exec"  => /\ met.lost = IF again THEN 1 ELSE 0
                          /\ met.short + retry_count = RetryCount
       /\ at = "idle" /\ ~answer => Excused

JInv == DriverOK /\ Own /\ Phases /\ Rows /\ Causes
-----------------------------------------------------------------------------
(* The operators of the driver are those of the module the proofs are in.  *)

LEMMA SameStep == ASSUME D!DriverStep PROVE P!DriverStep
BY DEF D!DriverStep, P!DriverStep, D!Login, P!Login, D!SearchPath, P!SearchPath,
       D!Exec, P!Exec, D!ConnectEnds, P!ConnectEnds, D!Executes, P!Executes,
       D!Returns, P!Returns, D!Outcome, P!Outcome, D!Outcomes, P!Outcomes,
       D!Retries, P!Retries, D!ExecRetry, P!ExecRetry, D!Failed, P!Failed,
       D!Reconnects, P!Reconnects, D!clear_result, P!clear_result, D!conn, P!conn

LEMMA SameCalls ==
  /\ D!connect => P!Next
  /\ D!select => P!Next
  /\ D!free_result => P!Next
  /\ D!disconnect => P!Next
  /\ D!destructor => P!Next
  /\ D!DbChanges => P!Next
<1>1. D!connect => P!connect
  BY DEF D!connect, P!connect, D!conn, P!conn
<1>2. D!select => P!select
  BY DEF D!select, P!select, D!Statement, P!Statement, D!Returns, P!Returns, D!Executes,
         P!Executes, D!conn, P!conn
<1>3. D!free_result => P!free_result
  BY DEF D!free_result, P!free_result, D!clear_result, P!clear_result, D!conn, P!conn
<1>4. (D!disconnect => P!disconnect) /\ (D!destructor => P!destructor)
  BY DEF D!disconnect, P!disconnect, D!destructor, P!destructor, D!Closes, P!Closes,
         D!clear_result, P!clear_result
<1>5. D!DbChanges => P!DbChanges
  BY DEF D!DbChanges, P!DbChanges, D!conn, P!conn
<1> QED BY <1>1, <1>2, <1>3, <1>4, <1>5 DEF P!Next

LEMMA DrivesDriver == ASSUME Drives PROVE D!DriverStep
BY DEF Drives, D!DriverStep

\* Every step of the driver inside the join server keeps what is proved of it.
LEMMA DriverKeeps ==
  ASSUME DriverOK, UNCHANGED args,
         D!connect \/ D!select \/ D!free_result \/ D!disconnect \/ D!destructor
           \/ D!DbChanges \/ D!DriverStep \/ UNCHANGED driver
  PROVE  DriverOK'
<1>1. [P!Next]_(P!vars)
  BY SameStep, SameCalls DEF P!Next, P!vars, P!conn, driver
<1>2. P!IInv'
  BY <1>1, P!StepInv, RetryAssumption DEF DriverOK
<1>3. P!SchemaInv'
  BY <1>1, P!SchemaStep, RetryAssumption DEF DriverOK
<1> QED BY <1>2, <1>3 DEF DriverOK

(***************************************************************************)
(* What a step inside connect() or select() does, seen from outside: only  *)
(* a select that returns true leaves a result, and without a schema the    *)
(* driver goes on or returns, nothing else.                                *)
(***************************************************************************)
LEMMA DriverFacts ==
  ASSUME DriverOK, D!DriverStep, at \in {"login", "exec"}, call \in {"connect", "select"},
         call = "connect" => at = "login"
  PROVE  /\ UNCHANGED <<args, call>>
         /\ at' \in {"idle", "login", "exec"}
         /\ call = "connect" => at' = "idle" /\ UNCHANGED select_result
         /\ call = "select" /\ at' = "idle" => (answer' <=> select_result' = "result")
         /\ at' # "idle" => select_result' = "null"
<1> USE DEF DriverOK, P!SchemaInv
<1>1. select_result = "null" \/ call = "connect"
  BY DEF P!IInv, P!SelectClean, P!Busy
<1>2. CASE D!Login
  BY <1>1, <1>2 DEF D!Login, D!ConnectEnds, D!Returns, D!Executes
<1>3. ASSUME NEW o \in D!Outcome, D!SearchPath(o)
      PROVE  FALSE
  BY <1>3 DEF D!SearchPath
<1>4. ASSUME NEW o \in D!Outcome, D!Exec(o)
      PROVE  /\ UNCHANGED <<args, call>>
             /\ at' \in {"idle", "login", "exec"}
             /\ call = "select" /\ at = "exec"
             /\ at' = "idle" => (answer' <=> select_result' = "result")
             /\ at' # "idle" => select_result' = "null"
  <2>1. at = "exec" /\ call = "select" /\ select_result = "null"
    BY <1>1, <1>4 DEF D!Exec
  <2>2. connection_handle # "finished" /\ o # "crash"
    BY <1>4 DEF D!Exec, D!Outcomes
  <2>3. CASE o = "ok"
    BY <1>4, <2>1, <2>3 DEF D!Exec, D!Returns, D!Retries, D!conn
  <2>4. CASE o = "noResources" /\ retry_count > 0
    BY <1>4, <2>1, <2>4 DEF D!Exec, D!Retries, D!ExecRetry, D!conn
  <2>5. CASE o # "ok" /\ ~(o = "noResources" /\ retry_count > 0)
    <3>1. \E st \in {"good", "bad"} : D!Failed(st)
      BY <1>4, <2>2, <2>5 DEF D!Exec, D!Retries
    <3> QED BY <2>1, <2>2, <3>1 DEF D!Failed, D!Returns, D!Reconnects, D!clear_result
  <2> QED BY <2>3, <2>4, <2>5
<1> QED BY <1>1, <1>2, <1>3, <1>4 DEF D!DriverStep
-----------------------------------------------------------------------------
LEMMA InitInv == Init => JInv
<1> SUFFICES ASSUME Init
             PROVE  JInv
  OBVIOUS
<1> USE DEF Unharmed
<1>1. P!Init
  BY DEF Init, D!Init, P!Init
<1>2. P!IInv
  BY <1>1, P!InitInv, RetryAssumption
<1>3. DriverOK
  BY <1>1, <1>2 DEF DriverOK, P!SchemaInv, P!Init, Init
<1>4. Own
  BY DEF Init, Own
<1>5. Phases /\ Rows /\ Causes
  BY NoneAssumption DEF Init, D!Init, Phases, Rows, Selected, Causes
<1> QED BY <1>3, <1>4, <1>5 DEF JInv

\* The main server's calls, and steps of the database.
LEMMA OutsideInv ==
  ASSUME JInv, (\E r \in Requests : Ask(r) \/ Timeout(r)) \/ DbChanges \/ UNCHANGED vars
  PROVE  JInv'
<1> USE DEF JInv
<1>1. UNCHANGED <<process, handling, holds, met, args, connection_handle, select_result, at,
                  call, answer, reconnect_enabled, again, retry_count>>
  BY DEF Ask, Timeout, DbChanges, D!DbChanges, D!conn, vars, driver
<1>2. D!DbChanges \/ UNCHANGED driver
  BY DEF Ask, Timeout, DbChanges, vars
<1>3. DriverOK'
  BY <1>1, <1>2, DriverKeeps
<1>4. Own'
  <2>1. queue' = queue \/ \E r \in Requests : queue' = Append(queue, r)
    BY DEF Ask, Timeout, DbChanges, vars
  <2>2. outcome' \in [Requests -> Results \union {"new", "waiting", "failed"}]
    BY DEF Own, Ask, Timeout, DbChanges, vars
  <2> QED BY <1>1, <2>1, <2>2 DEF Own
<1>5. Phases' /\ Rows' /\ Causes'
  BY <1>1 DEF Phases, Rows, Selected, Causes, Excused
<1> QED BY <1>3, <1>4, <1>5

\* The process starts, is restarted, stops.
LEMMA ProcessInv ==
  ASSUME JInv, Starts \/ Advertises \/ tpsvrdone \/ Deletes
  PROVE  JInv'
<1> USE DEF JInv
<1>0. args = "noSchema" /\ at # "crashed" /\ connection_handle # "finished"
  BY DEF DriverOK, P!SchemaInv
<1>1. CASE Starts
  <2>1. DriverOK'
    BY <1>1, DriverKeeps DEF Starts, D!connect, D!conn
  <2>2. Own'
    BY <1>1 DEF Own, Starts
  <2>3. Phases' /\ Rows'
    BY <1>0, <1>1, NoneAssumption DEF Phases, Rows, Selected, Starts, D!connect, D!conn
  <2>4. Causes'
    BY <1>0, <1>1 DEF Phases, Causes, Starts, D!connect, D!conn
  <2> QED BY <2>1, <2>2, <2>3, <2>4
<1>2. CASE Advertises
  <2>1. DriverOK'
    BY <1>2, DriverKeeps DEF Advertises, driver
  <2>2. Own'
    BY <1>2 DEF Own, Advertises
  <2>3. Phases' /\ Rows'
    BY <1>2, NoneAssumption DEF Phases, Rows, Selected, Advertises, driver
  <2>4. Causes'
    BY <1>2, NoneAssumption DEF Phases, Causes, Excused, Advertises, driver
  <2> QED BY <2>1, <2>2, <2>3, <2>4
<1>3. CASE tpsvrdone
  <2>1. DriverOK'
    BY <1>3, DriverKeeps DEF tpsvrdone, D!disconnect, D!Closes
  <2>2. Own'
    BY <1>3 DEF Own, tpsvrdone
  <2>3. Phases' /\ Rows'
    BY <1>0, <1>3, NoneAssumption
    DEF Phases, Rows, Selected, tpsvrdone, D!disconnect, D!Closes, D!clear_result
  <2>4. Causes'
    BY <1>3 DEF Causes, tpsvrdone, D!disconnect, D!Closes
  <2> QED BY <2>1, <2>2, <2>3, <2>4
<1>4. CASE Deletes
  <2>1. DriverOK'
    BY <1>4, DriverKeeps DEF Deletes, D!destructor, D!Closes
  <2>2. Own'
    BY <1>4 DEF Own, Deletes
  <2>3. Phases' /\ Rows'
    BY <1>0, <1>4, NoneAssumption
    DEF Phases, Rows, Selected, Deletes, D!destructor, D!Closes, D!clear_result
  <2>4. Causes'
    BY <1>4 DEF Phases, Causes, Deletes, D!destructor, D!Closes
  <2> QED BY <2>1, <2>2, <2>3, <2>4
<1> QED BY <1>1, <1>2, <1>3, <1>4

\* Enduro/X starts the process anew, with a new driver.
LEMMA RestartInv == ASSUME JInv, Restart PROVE JInv'
<1> USE DEF JInv
<1>1. db \in {"up", "down"}
  BY DEF DriverOK, P!IInv, P!Types
<1>2. P!Init'
  BY <1>1 DEF P!Init, Restart, NewDriver
<1>3. DriverOK'
  <2>1. P!IInv'
    BY <1>2, P!InitInv, RetryAssumption, PTL
  <2> QED BY <2>1, <1>2 DEF DriverOK, P!SchemaInv, P!Init, Restart, NewDriver
<1>4. Own'
  <2>1. queue' = queue \/ queue' = <<>>
    BY DEF Restart
  <2>2. queue' \in Seq(Requests)
    <3>1. queue \in Seq(Requests) /\ <<>> \in Seq(Requests)
      BY DEF Own
    <3> QED BY <2>1, <3>1
  <2> QED BY <2>2 DEF Own, Restart, Unharmed
<1>5. Phases' /\ Rows' /\ Causes'
  BY NoneAssumption DEF Phases, Rows, Selected, Causes, Restart, NewDriver
<1> QED BY <1>3, <1>4, <1>5

\* free_result(), when the driver is idle.
LEMMA FreeFacts ==
  ASSUME DriverOK, at = "idle", free_result
  PROVE  /\ DriverOK'
         /\ UNCHANGED <<args, at, call, answer, connection_handle, reconnect_enabled>>
         /\ select_result' = "null"
<1>1. UNCHANGED <<args, at, call, answer, connection_handle, reconnect_enabled>>
  BY DEF free_result, D!free_result, D!conn, driver
<1>2. D!free_result \/ UNCHANGED driver
  BY DEF free_result
<1>3. select_result' = "null"
  BY DEF free_result, D!free_result, D!clear_result, driver
<1> QED BY <1>1, <1>2, <1>3, DriverKeeps

LEMMA RepliesTyped ==
  ASSUME Own, NEW r \in Requests, NEW result \in Results, Replies(r, result)
  PROVE  outcome' \in [Requests -> Results \union {"new", "waiting", "failed"}]
BY DEF Own, Replies

LEMMA TakeInv == ASSUME JInv, Take \/ TakeMalformed PROVE JInv'
<1> USE DEF JInv
<1>1. Head(queue) \in Requests /\ Tail(queue) \in Seq(Requests)
  BY DEF Own, Take, TakeMalformed
<1>2. CASE Take
  <2>1. UNCHANGED args /\ call' = "select" /\ select_result' = "null"
        /\ \/ at' = "idle" /\ answer' = FALSE
           \/ at' = "exec"
    BY <1>2 DEF Take, Phases, D!select, D!Statement, D!Returns, D!Executes, D!conn
  <2>2. DriverOK'
    BY <1>2, <2>1, DriverKeeps DEF Take
  <2>3. Own'
    BY <1>1, <1>2 DEF Own, Take, Unharmed
  <2>4. Phases' /\ Rows'
    BY <1>1, <1>2, <2>1, NoneAssumption DEF Phases, Rows, Selected, Take
  <2>5. Causes'
    BY <1>1, <1>2, NoneAssumption, RetryAssumption
    DEF Phases, Causes, Excused, Own, Unharmed, Take, D!select, D!Statement, D!Returns,
        D!Executes, D!conn
  <2> QED BY <2>2, <2>3, <2>4, <2>5
<1>3. CASE TakeMalformed
  <2>1. DriverOK'
    BY <1>3, DriverKeeps DEF TakeMalformed, driver
  <2>2. Own'
    BY <1>1, <1>3, RepliesTyped DEF Own, TakeMalformed, Results
  <2>3. Phases' /\ Rows' /\ Causes'
    BY <1>3 DEF Phases, Rows, Selected, Causes, Excused, TakeMalformed, driver
  <2> QED BY <2>1, <2>2, <2>3
<1> QED BY <1>2, <1>3


LEMMA MeetsTyped ==
  ASSUME Own, NEW o \in D!Outcome, Meets(o)
  PROVE  met' \in [noLogin : BOOLEAN, error : BOOLEAN, lost : Nat, short : Nat]
<1>0. met \in [noLogin : BOOLEAN, error : BOOLEAN, lost : Nat, short : Nat]
  BY DEF Own
<1>1. CASE o = "error"
  <2>1. met' = [met EXCEPT !.error = TRUE]
    BY <1>1 DEF Meets
  <2> QED BY <1>0, <2>1
<1>2. CASE o = "noResources"
  <2>1. met' = [met EXCEPT !.short = @ + 1]
    BY <1>2 DEF Meets
  <2> QED BY <1>0, <2>1
<1>3. CASE o \in {"lostBefore", "lostAfter"}
  <2>1. met' = [met EXCEPT !.lost = @ + 1, !.short = 0]
    BY <1>3 DEF Meets
  <2>2. \A m \in [noLogin : BOOLEAN, error : BOOLEAN, lost : Nat, short : Nat] :
          [m EXCEPT !.short = 0]
            \in [noLogin : BOOLEAN, error : BOOLEAN, lost : Nat, short : Nat]
    OBVIOUS
  <2>3. [met EXCEPT !.lost = @ + 1]
          \in [noLogin : BOOLEAN, error : BOOLEAN, lost : Nat, short : Nat]
    BY <1>0
  <2>4. met' = [[met EXCEPT !.lost = @ + 1] EXCEPT !.short = 0]
    BY <2>1
  <2> QED BY <2>2, <2>3, <2>4
<1>4. CASE o \in {"ok", "crash"}
  BY <1>0, <1>4 DEF Meets
<1> QED BY <1>1, <1>2, <1>3, <1>4 DEF D!Outcome

\* The causes to refuse that the steps of the driver leave behind.
LEMMA DrivesCauses == ASSUME JInv, Drives PROVE Causes'
<1> USE RetryAssumption DEF JInv
<1>0. /\ process' = process /\ handling' = handling
      /\ at \in {"login", "exec"} /\ connection_handle # "finished" /\ args = "noSchema"
      /\ handling # NoRequest => process = "serving" /\ call = "select"
      /\ handling = NoRequest => process = "starting" /\ call = "connect"
      /\ retry_count \in Nat /\ connection_handle \in {"null", "good", "bad"}
  <2>1. process' = process /\ handling' = handling /\ process \in {"starting", "serving"}
    BY DEF Drives
  <2>2. at \in {"login", "path", "exec"}
    BY DEF Drives, D!Login, D!SearchPath, D!Exec
  <2>3. connection_handle # "finished" /\ args = "noSchema"
    BY DEF DriverOK, P!SchemaInv
  <2>4. retry_count \in Nat /\ connection_handle \in {"null", "good", "bad"}
    BY <2>3 DEF DriverOK, P!IInv, P!Types
  <2> QED BY <2>1, <2>2, <2>3, <2>4 DEF Phases
<1>1. CASE D!Login /\ met' = IF connection_handle' = "null" THEN [met EXCEPT !.noLogin = TRUE]
                             ELSE met
  <2>1. \E h \in {"null", "good", "bad"} : D!ConnectEnds(h)
    BY <1>0, <1>1 DEF D!Login
  <2>2. PICK h \in {"null", "good", "bad"} : D!ConnectEnds(h)
    BY <2>1
  <2>3. at = "login"
    BY <1>1 DEF D!Login
  <2>4. met'.lost = met.lost /\ met'.short = met.short /\ met'.error = met.error
        /\ met'.noLogin = (met.noLogin \/ h = "null")
    BY <1>1, <2>2 DEF Own, D!ConnectEnds
  <2>5. handling # NoRequest => met.lost = 1 /\ met.short = 0
    BY <2>3 DEF Causes
  <2>6. met.noLogin \in BOOLEAN
    BY DEF Own
  <2>7. CASE h = "null"
    <3>1. connection_handle' = "null" /\ at' = "idle"
      BY <2>2, <2>7 DEF D!ConnectEnds, D!Returns
    <3>2. met'.noLogin
      BY <2>4, <2>7
    <3> QED BY <1>0, <3>1, <3>2 DEF Causes, Excused
  <2>8. CASE h # "null"
    <3>1. connection_handle' = h /\ reconnect_enabled'
      BY <2>2, <2>8 DEF D!ConnectEnds
    <3>2. handling = NoRequest \/ (at' = "exec" /\ again' = TRUE /\ retry_count' = RetryCount)
      BY <1>0, <2>2, <2>8 DEF D!ConnectEnds, D!Executes
    <3> QED BY <1>0, <2>4, <2>5, <2>8, <3>1, <3>2 DEF Causes
  <2> QED BY <2>7, <2>8
<1>2. ASSUME NEW o \in D!Outcome, D!SearchPath(o)
      PROVE  FALSE
  BY <1>0, <1>2 DEF D!SearchPath
<1>3. ASSUME NEW o \in D!Outcome, D!Exec(o), Meets(o)
      PROVE  Causes'
  <2>1. at = "exec" /\ handling # NoRequest /\ o # "crash"
        /\ met.lost = (IF again THEN 1 ELSE 0) /\ met.short + retry_count = RetryCount
    BY <1>0, <1>3 DEF D!Exec, D!Outcomes, Causes, DriverOK, P!IInv, P!ExecCall
  <2>6. connection_handle # "null"
    BY <2>1 DEF Causes
  <2>2. CASE o = "ok"
    <3>1. at' = "idle" /\ answer' = TRUE
          /\ UNCHANGED <<connection_handle, reconnect_enabled>>
      BY <1>3, <2>2 DEF D!Exec, D!Returns, D!Retries, D!conn
    <3>2. connection_handle # "null"
      BY <1>3, <2>2 DEF D!Exec, D!Outcomes
    <3> QED BY <1>0, <3>1, <3>2 DEF Causes
  <2>3. CASE o = "noResources" /\ retry_count > 0
    <3>1. met' = [met EXCEPT !.short = @ + 1]
      BY <1>3, <2>3 DEF Meets
    <3>2. met'.short = met.short + 1 /\ met'.lost = met.lost
      BY <3>1 DEF Own
    <3>3. D!ExecRetry
      BY <1>3, <2>3 DEF D!Exec, D!Retries
    <3>4. at' = "exec" /\ retry_count' = retry_count - 1
          /\ UNCHANGED <<connection_handle, reconnect_enabled, again>>
      BY <2>1, <3>3 DEF D!ExecRetry, D!conn
    <3>5. met'.short + retry_count' = RetryCount
      BY <1>0, <2>1, <3>2, <3>4 DEF Own
    <3> QED BY <1>0, <2>1, <3>2, <3>4, <3>5 DEF Causes
  <2>4. CASE o \in {"lostBefore", "lostAfter"}
    <3>1. met' = [met EXCEPT !.lost = @ + 1, !.short = 0]
      BY <1>3, <2>4 DEF Meets
    <3>2. met'.short = 0 /\ met'.lost = met.lost + 1
      BY <3>1 DEF Own
    <3>3. D!Failed("bad")
      BY <1>0, <1>3, <2>4 DEF D!Exec, D!Retries
    <3>4. connection_handle = "null" \/ reconnect_enabled
      BY DEF Causes
    <3>5. CASE reconnect_enabled /\ ~again
      <4>1. connection_handle' = "null" /\ at' = "login"
        BY <1>0, <3>3, <3>5 DEF D!Failed, D!Reconnects
      <4> QED BY <1>0, <2>1, <3>2, <3>5, <4>1 DEF Causes
    <3>6. CASE ~(reconnect_enabled /\ ~again)
      <4>1. at' = "idle" /\ connection_handle' = "bad" /\ reconnect_enabled' = reconnect_enabled
        BY <3>3, <3>6 DEF D!Failed, D!Returns
      <4>2. again /\ reconnect_enabled
        BY <2>6, <3>4, <3>6
      <4>3. met'.lost = 2
        BY <2>1, <3>2, <4>2
      <4> QED BY <1>0, <4>1, <4>2, <4>3 DEF Causes, Excused
    <3> QED BY <3>5, <3>6
  <2>5. CASE o = "error" \/ (o = "noResources" /\ ~(retry_count > 0))
    <3>1. D!Failed("good")
      BY <1>3, <2>5 DEF D!Exec, D!Retries
    <3>2. met'.error \/ met'.short = met.short + 1
      BY <1>3, <2>5 DEF Meets, Own
    <3>3. met'.error \/ met'.short > RetryCount
      BY <1>0, <2>1, <2>5, <3>2, <1>3 DEF Meets, Own
    <3>4. connection_handle # "null"
      BY <1>3, <2>5 DEF D!Exec, D!Outcomes
    <3>5. at' = "idle" /\ connection_handle' = "good"
          /\ reconnect_enabled' = reconnect_enabled
      BY <3>1 DEF D!Failed, D!Returns
    <3> QED BY <1>0, <3>3, <3>4, <3>5 DEF Causes, Excused
  <2> QED BY <2>1, <2>2, <2>3, <2>4, <2>5 DEF D!Outcome
<1> QED BY <1>1, <1>2, <1>3 DEF Drives

LEMMA DrivesInv == ASSUME JInv, Drives PROVE JInv'
<1> USE DEF JInv
<1>0. D!DriverStep
  BY DrivesDriver
<1>1. at \in {"login", "exec"}
  BY DEF Drives, Phases, D!Login, D!SearchPath, D!Exec
<1>2. call \in {"connect", "select"} /\ (call = "connect" => at = "login")
  BY <1>1 DEF Drives, Phases
<1>3. /\ UNCHANGED <<args, call>>
      /\ at' \in {"idle", "login", "exec"}
      /\ call = "connect" => at' = "idle" /\ UNCHANGED select_result
      /\ call = "select" /\ at' = "idle" => (answer' <=> select_result' = "result")
      /\ at' # "idle" => select_result' = "null"
  BY <1>0, <1>1, <1>2, DriverFacts
<1>4. DriverOK'
  BY <1>0, <1>3, DriverKeeps
<1>5. Own'
  BY MeetsTyped DEF Own, Drives
<1>6. Phases'
  BY <1>1, <1>3 DEF Phases, Drives
<1>7. select_result = "null" /\ (handling = NoRequest => process = "starting")
  BY <1>1 DEF Phases, Drives, DriverOK, P!IInv, P!SelectClean, P!Busy
<1>8. Rows'
  BY <1>3, <1>7 DEF Rows, Selected, Drives, Phases
<1>9. Causes'
  BY DrivesCauses
<1> QED BY <1>4, <1>5, <1>6, <1>8, <1>9

LEMMA EvaluatedInv == ASSUME JInv, Unanswered \/ Evaluate PROVE JInv'
<1> USE DEF JInv
<1>1. at = "idle" /\ free_result /\ handling \in Requests
  BY DEF Unanswered, Evaluate, Selected, Own
<1>2. /\ DriverOK'
      /\ UNCHANGED <<args, at, call, answer, connection_handle, reconnect_enabled>>
      /\ select_result' = "null"
  BY <1>1, FreeFacts
<1>3. \E result \in Results : Replies(handling, result)
  BY DEF Unanswered, Evaluate, Judged, Results
<1>4. Own'
  BY <1>1, <1>3, RepliesTyped DEF Own, Unanswered, Evaluate, free_result
<1>5. Phases' /\ Rows' /\ Causes'
  BY <1>1, <1>2 DEF Phases, Rows, Selected, Causes, Unanswered, Evaluate
<1> QED BY <1>2, <1>4, <1>5

LEMMA ThrowsInv == ASSUME JInv, Throws PROVE JInv'
<1> USE DEF JInv
<1>1. UNCHANGED driver
  BY DEF Throws, Dies
<1>2. DriverOK'
  BY <1>1, DriverKeeps DEF driver
<1>3. Own'
  BY DEF Own, Throws, Dies
<1>4. Phases' /\ Rows' /\ Causes'
  BY <1>1 DEF Phases, Rows, Selected, Causes, Throws, Dies, driver
<1> QED BY <1>2, <1>3, <1>4

LEMMA StepInv == JInv /\ [Next]_vars => JInv'
BY OutsideInv, ProcessInv, RestartInv, TakeInv, DrivesInv, EvaluatedInv, ThrowsInv
DEF Next, ServiceStep

THEOREM Invariance == Spec => []JInv
BY InitInv, StepInv, PTL DEF Spec

(***************************************************************************)
(* Every variable of the join server and of its driver keeps its type, for *)
(* any requests, any number of callers and any retry count.                *)
(***************************************************************************)
THEOREM TypeCorrect == Spec => []TypeOK
<1>1. JInv => TypeOK
  <2> SUFFICES ASSUME JInv
               PROVE  TypeOK
    OBVIOUS
  <2>1. D!TypeOK
    BY DEF JInv, DriverOK, P!IInv, P!Flags, P!Types, D!TypeOK, P!Busy, D!Busy
  <2> QED BY <2>1 DEF JInv, Own, TypeOK
<1> QED BY <1>1, Invariance, PTL

(***************************************************************************)
(* No request is taken while the rows of an earlier one are pending, and   *)
(* the rows a login is judged by are its own.                              *)
(***************************************************************************)
THEOREM OwnRowsSafe == Spec => []OwnRows
<1>1. JInv => OwnRows
  BY DEF JInv, DriverOK, P!IInv, P!Types, Own, Phases, Rows, OwnRows
<1> QED BY <1>1, Invariance, PTL

-----------------------------------------------------------------------------
(* The requests a process holds.                                           *)

\* Taking the first request of the queue leaves the others in it.
LEMMA TailHeld ==
  ASSUME queue \in Seq(Requests), queue # <<>>, queue' = Tail(queue), NEW r \in Requests
  PROVE  (\E k \in DOMAIN queue : queue[k] = r) <=>
           r = Head(queue) \/ \E k \in DOMAIN queue' : queue'[k] = r
<1>1. /\ DOMAIN queue = 1 .. Len(queue) /\ Len(queue) \in Nat \ {0}
      /\ DOMAIN queue' = 1 .. Len(queue) - 1
      /\ \A k \in 1 .. Len(queue) - 1 : queue'[k] = queue[k + 1]
      /\ Head(queue) = queue[1]
  OBVIOUS
<1>2. ASSUME NEW k \in DOMAIN queue, queue[k] = r
      PROVE  r = Head(queue) \/ \E j \in DOMAIN queue' : queue'[j] = r
  <2>1. CASE k = 1
    BY <1>1, <1>2, <2>1
  <2>2. CASE k # 1
    <3>1. k - 1 \in DOMAIN queue' /\ queue'[k - 1] = r
      BY <1>1, <1>2, <2>2
    <3> QED BY <3>1
  <2> QED BY <2>1, <2>2
<1>3. ASSUME NEW j \in DOMAIN queue', queue'[j] = r
      PROVE  \E k \in DOMAIN queue : queue[k] = r
  <2>1. j + 1 \in DOMAIN queue /\ queue[j + 1] = r
    BY <1>1, <1>3
  <2> QED BY <2>1
<1>4. r = Head(queue) => \E k \in DOMAIN queue : queue[k] = r
  BY <1>1
<1> QED BY <1>2, <1>3, <1>4

(***************************************************************************)
(* A request the join server holds leaves it by an answer, a caller that   *)
(* gave up, or the end of the process, and is never executed again.        *)
(***************************************************************************)
THEOREM NoCallForgottenSafe == Spec => NoCallForgotten
<1>1. ASSUME JInv, [Next]_vars, NEW r \in Requests
      PROVE  /\ Held(r) /\ ~Held(r)' /\ outcome'[r] = "waiting" => process' # "serving"
             /\ outcome[r] # "new" /\ ~Held(r) => ~Held(r)'
  <2> USE <1>1 DEF JInv, Own
  <2>0. r # NoRequest
    BY NoneAssumption
  <2>1. ASSUME NEW q \in Requests, Ask(q)
        PROVE  (Held(r) => Held(r)') /\ (Held(r)' => Held(r) \/ outcome[r] = "new")
    <3>1. CASE queue' = Append(queue, q)
      <4>1. /\ DOMAIN queue = 1 .. Len(queue) /\ DOMAIN queue' = 1 .. Len(queue) + 1
            /\ \A k \in 1 .. Len(queue) : queue'[k] = queue[k]
            /\ queue'[Len(queue) + 1] = q
        BY <3>1
      <4>2. outcome[q] = "new" /\ handling' = handling /\ Len(queue) \in Nat
        BY <2>1 DEF Ask
      <4>3. (\E k \in DOMAIN queue : queue[k] = r) => \E k \in DOMAIN queue' : queue'[k] = r
        BY <4>1, <4>2
      <4>4. (\E k \in DOMAIN queue' : queue'[k] = r)
              => (\E k \in DOMAIN queue : queue[k] = r) \/ q = r
        BY <4>1, <4>2
      <4> QED BY <4>2, <4>3, <4>4 DEF Held
    <3>2. CASE queue' = queue
      BY <2>1, <3>2 DEF Ask, Held
    <3> QED BY <2>1, <3>1, <3>2 DEF Ask
  <2>2. CASE Take
    <3>1. handling = NoRequest /\ handling' = Head(queue) /\ queue # <<>>
          /\ queue' = Tail(queue)
      BY <2>2 DEF Take
    <3>2. Held(r) <=> Held(r)'
      BY <2>0, <3>1, TailHeld DEF Held
    <3> QED BY <3>2
  <2>3. CASE TakeMalformed
    <3>1. handling = NoRequest /\ handling' = NoRequest /\ queue # <<>>
          /\ queue' = Tail(queue) /\ Head(queue) \in Requests
          /\ Replies(Head(queue), "INVALID")
      BY <2>3 DEF TakeMalformed
    <3>2. Held(r) <=> r = Head(queue) \/ Held(r)'
      BY <2>0, <3>1, TailHeld DEF Held
    <3>3. outcome'[Head(queue)] # "waiting"
      BY <3>1 DEF Replies
    <3> QED BY <3>2, <3>3
  <2>4. CASE Unanswered \/ Evaluate
    <3>1. handling \in Requests /\ handling' = NoRequest /\ queue' = queue
      BY <2>4 DEF Unanswered, Evaluate, Selected
    <3>2. \E result \in Results : Replies(handling, result)
      BY <2>4 DEF Unanswered, Evaluate, Judged, Results
    <3>3. outcome'[handling] # "waiting"
      BY <3>1, <3>2 DEF Replies, Results
    <3>4. (Held(r) => Held(r)' \/ r = handling) /\ (Held(r)' => Held(r))
      BY <2>0, <3>1 DEF Held
    <3> QED BY <3>3, <3>4
  <2>5. CASE Restart
    <3>1. process' = "none" /\ handling' = handling /\ queue' \in {queue, <<>>}
      BY <2>5 DEF Restart
    <3>2. Held(r)' => Held(r)
      BY <3>1 DEF Held
    <3> QED BY <3>1, <3>2
  <2>6. CASE tpsvrdone \/ Throws
    <3>1. process' # "serving" /\ handling' = NoRequest /\ queue' \in {queue, <<>>}
      BY <2>6 DEF tpsvrdone, Throws, Dies
    <3>2. Held(r)' => Held(r)
      BY <2>0, <3>1 DEF Held
    <3> QED BY <3>1, <3>2
  <2>7. CASE UNCHANGED <<queue, handling>>
    BY <2>7 DEF Held
  <2>8. \/ \E q \in Requests : Ask(q)
        \/ Take \/ TakeMalformed \/ Unanswered \/ Evaluate \/ Restart \/ tpsvrdone \/ Throws
        \/ UNCHANGED <<queue, handling>>
    BY <1>1 DEF Next, ServiceStep, Timeout, Starts, Advertises, Deletes, Drives, DbChanges, vars
  <2> QED BY <2>1, <2>2, <2>3, <2>4, <2>5, <2>6, <2>7, <2>8
<1>2. JInv /\ [Next]_vars =>
        [\A r \in Requests :
           /\ Held(r) /\ ~Held(r)' /\ outcome'[r] = "waiting" => process' # "serving"
           /\ outcome[r] # "new" /\ ~Held(r) => ~Held(r)']_vars
  BY <1>1
<1> QED BY <1>2, Invariance, PTL DEF Spec, NoCallForgotten
-----------------------------------------------------------------------------
(* The refinement.  The outcomes are those of LoginService.                *)

\* A verdict given from the right rows is the one the request deserves.
LEMMA VerdictRight ==
  ASSUME NEW r \in Requests, Kind[r] # "null"
  PROVE  Judged(r) = Verdicts[r]
BY KindAssumption DEF Kinds, Judged, Verdicts, Deserved

LEMMA RepliesRefines ==
  ASSUME Own, NEW r \in Requests, NEW result \in {Verdicts[r], "INVALID"},
         Replies(r, result)
  PROVE  [Service!Next]_(Service!vars)
BY DEF Own, Replies, Service!Next, Service!Answer, Service!vars

(***************************************************************************)
(* A good login is refused only when the database gave cause for it, for   *)
(* any retry count and any requests before it.                             *)
(***************************************************************************)
THEOREM RefusedForCauseSafe == Spec => RefusedForCause
<1>1. ASSUME JInv, [Next]_vars, NEW r \in Requests, outcome[r] = "waiting",
             outcome'[r] = "INVALID", Verdicts[r] # "INVALID"
      PROVE  Excused
  <2> USE <1>1 DEF JInv
  <2>0. outcome \in [Requests -> Results \union {"new", "waiting", "failed"}]
    BY DEF Own
  <2>1. CASE TakeMalformed
    <3>1. Head(queue) = r
      BY <1>1, <2>0, <2>1 DEF TakeMalformed, Replies
    <3>2. Verdicts[r] = "INVALID"
      BY <2>1, <3>1 DEF TakeMalformed, Verdicts, Deserved
    <3> QED BY <1>1, <3>2
  <2>2. CASE Unanswered
    <3>1. handling = r
      BY <1>1, <2>0, <2>2 DEF Unanswered, Replies
    <3>2. at = "idle" /\ handling # NoRequest /\ ~answer
      BY <2>2 DEF Unanswered, Selected
    <3> QED BY <3>2 DEF Causes
  <2>3. CASE Evaluate
    <3>1. handling \in Requests /\ holds = handling /\ Kind[handling] # "null"
      BY <2>3 DEF Evaluate, Selected, Own, Rows
    <3>2. Replies(handling, Verdicts[handling])
      BY <2>3, <3>1, VerdictRight DEF Evaluate
    <3>3. outcome'[r] = Verdicts[r]
      BY <1>1, <2>0, <3>1, <3>2 DEF Replies
    <3> QED BY <1>1, <3>3
  <2>4. ASSUME NEW q \in Requests, Ask(q) \/ Timeout(q)
        PROVE  FALSE
    BY <1>1, <2>0, <2>4 DEF Ask, Timeout
  <2>5. CASE UNCHANGED outcome
    BY <1>1, <2>5
  <2> QED
    BY <1>1, <2>1, <2>2, <2>3, <2>4, <2>5
    DEF Next, ServiceStep, Starts, Advertises, Restart, tpsvrdone, Deletes, Take, Drives,
        Throws, Dies, DbChanges, vars
<1>2. JInv /\ [Next]_vars =>
        [\A r \in Requests : /\ outcome[r] = "waiting" /\ outcome'[r] = "INVALID"
                             /\ Verdicts[r] # "INVALID"
                             => Excused]_vars
  BY <1>1
<1> QED BY <1>2, Invariance, PTL DEF Spec, RefusedForCause

LEMMA StepRefines == JInv /\ [Next]_vars => [Service!Next]_(Service!vars)
<1> SUFFICES ASSUME JInv, [Next]_vars
             PROVE  [Service!Next]_(Service!vars)
  OBVIOUS
<1> USE DEF JInv
<1>1. ASSUME NEW r \in Requests, Ask(r)
      PROVE  Service!Next
  BY <1>1 DEF Ask, Service!Next, Service!Ask, Service!Fail
<1>2. ASSUME NEW r \in Requests, Timeout(r)
      PROVE  Service!Next
  BY <1>2 DEF Timeout, Service!Next, Service!Fail
<1>3. CASE TakeMalformed
  <2>1. Head(queue) \in Requests /\ Replies(Head(queue), "INVALID")
    BY <1>3 DEF TakeMalformed, Own
  <2> QED BY <2>1, RepliesRefines
<1>4. CASE Unanswered
  <2>1. handling \in Requests /\ Replies(handling, "INVALID")
    BY <1>4 DEF Unanswered, Selected, Own
  <2> QED BY <2>1, RepliesRefines
<1>5. CASE Evaluate
  <2>1. handling \in Requests /\ holds = handling /\ Kind[handling] # "null"
    BY <1>5 DEF Evaluate, Selected, Own, Rows
  <2>2. Replies(handling, Verdicts[handling])
    BY <1>5, <2>1, VerdictRight DEF Evaluate
  <2> QED BY <2>1, <2>2, RepliesRefines
<1>6. CASE UNCHANGED outcome
  BY <1>6 DEF Service!vars
<1> QED
  BY <1>1, <1>2, <1>3, <1>4, <1>5, <1>6
  DEF Next, ServiceStep, Starts, Advertises, Restart, tpsvrdone, Deletes, Take, Drives, Throws,
      Dies, DbChanges, vars

(***************************************************************************)
(* The join server answers each login at most once, with its own verdict   *)
(* or as an invalid account, whatever the database does, whoever gives up  *)
(* waiting, and across restarts (the safety part of LoginService).         *)
(***************************************************************************)
THEOREM RefinesLoginService == Spec => Service!Safety
<1>1. Init => Service!Init
  BY DEF Init, Service!Init
<1> QED BY <1>1, StepRefines, Invariance, PTL DEF Spec, Service!Safety
=============================================================================
