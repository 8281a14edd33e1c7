--------------------------- MODULE PgDriverProofs ---------------------------
(***************************************************************************)
(* Proofs about PgDriver for every retry count: no result object leaks,    *)
(* and a statement is sent and performed a bounded number of times.        *)
(***************************************************************************)
EXTENDS PgDriver, TLAPS

\* TypeOK in two parts: the truth values, and the rest.
Flags == /\ reconnect_enabled \in BOOLEAN
         /\ again \in BOOLEAN
         /\ answer \in BOOLEAN

Types ==
  /\ args \in {"incomplete", "noSchema", "schema"}
  /\ connection_handle \in {"null", "good", "bad", "finished"}
  /\ select_result \in {"null", "result"}
  /\ retry_count \in 0 .. RetryCount
  /\ at \in Busy \union {"idle", "crashed", "deleted"}
  /\ call \in {"none", "connect", "query", "select"}
  /\ db \in {"up", "down"}
  /\ unfreed \in Nat
  /\ performed \in Nat
  /\ tries \in Nat

\* What holds inside a call: which call it is, that a select starts without a
\* pending result, and that a reconnect is tried once.
ExecCall    == /\ at = "exec" => call \in {"query", "select"}
               /\ at \in Busy => call # "none"
SelectClean == at \in Busy /\ call = "select" => select_result = "null"
FirstRound  == at \in {"login", "path"} /\ call # "connect" => ~again

\* The tries and the performed statements, against what is left of the call.
CountsOK ==
  /\ ~again => performed <= 1 /\ tries <= RetryCount + 1
  /\ again => performed <= 2 /\ tries <= 2 * (RetryCount + 1)
  /\ at = "exec" /\ ~again => performed = 0 /\ tries + retry_count <= RetryCount
  /\ at = "exec" /\ again  => /\ performed <= 1
                              /\ tries + retry_count <= 2 * RetryCount + 1

\* A call that returned true had its statement performed.
AnswerOK == at = "idle" /\ call \in {"query", "select"} /\ answer => performed > 0

IInv == /\ Flags /\ Types /\ ResultsAccounted
        /\ ExecCall /\ SelectClean /\ FirstRound
        /\ CountsOK /\ AnswerOK
-----------------------------------------------------------------------------
LEMMA InitInv == Init => IInv
<1> SUFFICES ASSUME Init
             PROVE  IInv
  OBVIOUS
<1> USE RetryAssumption DEF Init
<1>1. Flags
  BY DEF Flags
<1>2. Types
  BY DEF Types, Busy
<1>3. ResultsAccounted
  BY DEF ResultsAccounted
<1>4. ExecCall
  BY DEF ExecCall, Busy
<1>5. SelectClean
  BY DEF SelectClean, Busy
<1>6. FirstRound
  BY DEF FirstRound
<1>7. CountsOK
  BY DEF CountsOK
<1>8. AnswerOK
  BY DEF AnswerOK
<1> QED BY <1>1, <1>2, <1>3, <1>4, <1>5, <1>6, <1>7, <1>8 DEF IInv

\* connect() before PQsetdbLogin.
LEMMA ConnectInv ==
  ASSUME IInv, connect
  PROVE  IInv'
<1> USE RetryAssumption
    DEF IInv, Flags, Types, ResultsAccounted, ExecCall, SelectClean, FirstRound, CountsOK,
        AnswerOK, Busy
<1>1. Flags'
  BY DEF connect, conn
<1>2. Types'
  BY DEF connect, conn
<1>3. ResultsAccounted'
  BY DEF connect, conn
<1>4. ExecCall'
  BY DEF connect, conn
<1>5. SelectClean'
  BY DEF connect, conn
<1>6. FirstRound'
  BY DEF connect, conn
<1>7. CountsOK'
  BY DEF connect, conn
<1>8. AnswerOK'
  BY DEF connect, conn
<1> QED BY <1>1, <1>2, <1>3, <1>4, <1>5, <1>6, <1>7, <1>8

\* query() and select() before the first PQexec.
LEMMA StatementInv ==
  ASSUME IInv, NEW m \in {"query", "select"}, Statement(m)
  PROVE  IInv'
<1> USE RetryAssumption
    DEF IInv, Flags, Types, ResultsAccounted, ExecCall, SelectClean, FirstRound, CountsOK,
        AnswerOK, Busy
<1>1. Flags'
  BY DEF Statement, Returns, Executes, conn
<1>2. Types'
  BY DEF Statement, Returns, Executes, conn
<1>3. ResultsAccounted'
  BY DEF Statement, Returns, Executes, conn
<1>4. ExecCall'
  BY DEF Statement, Returns, Executes, conn
<1>5. SelectClean'
  BY DEF Statement, Returns, Executes, conn
<1>6. FirstRound'
  BY DEF Statement, Returns, Executes, conn
<1>7. CountsOK'
  BY DEF Statement, Returns, Executes, conn
<1>8. AnswerOK'
  BY DEF Statement, Returns, Executes, conn
<1> QED BY <1>1, <1>2, <1>3, <1>4, <1>5, <1>6, <1>7, <1>8

\* free_result().
LEMMA FreeInv ==
  ASSUME IInv, free_result
  PROVE  IInv'
<1> USE RetryAssumption
    DEF IInv, Flags, Types, ResultsAccounted, ExecCall, SelectClean, FirstRound, CountsOK,
        AnswerOK, Busy
<1>1. Flags'
  BY DEF free_result, clear_result, conn
<1>2. Types'
  BY DEF free_result, clear_result, conn
<1>3. ResultsAccounted'
  BY DEF free_result, clear_result, conn
<1>4. ExecCall'
  BY DEF free_result, clear_result, conn
<1>5. SelectClean'
  BY DEF free_result, clear_result, conn
<1>6. FirstRound'
  BY DEF free_result, clear_result, conn
<1>7. CountsOK'
  BY DEF free_result, clear_result, conn
<1>8. AnswerOK'
  BY DEF free_result, clear_result, conn
<1> QED BY <1>1, <1>2, <1>3, <1>4, <1>5, <1>6, <1>7, <1>8

\* disconnect() and the destructor.
LEMMA CloseInv ==
  ASSUME IInv, disconnect \/ destructor
  PROVE  IInv'
<1> USE RetryAssumption
    DEF IInv, Flags, Types, ResultsAccounted, ExecCall, SelectClean, FirstRound, CountsOK,
        AnswerOK, Busy
<1>1. Flags'
  BY DEF disconnect, destructor, Closes, clear_result
<1>2. Types'
  BY DEF disconnect, destructor, Closes, clear_result
<1>3. ResultsAccounted'
  BY DEF disconnect, destructor, Closes, clear_result
<1>4. ExecCall'
  BY DEF disconnect, destructor, Closes, clear_result
<1>5. SelectClean'
  BY DEF disconnect, destructor, Closes, clear_result
<1>6. FirstRound'
  BY DEF disconnect, destructor, Closes, clear_result
<1>7. CountsOK'
  BY DEF disconnect, destructor, Closes, clear_result
<1>8. AnswerOK'
  BY DEF disconnect, destructor, Closes, clear_result
<1> QED BY <1>1, <1>2, <1>3, <1>4, <1>5, <1>6, <1>7, <1>8

\* enable_reconnect().
LEMMA EnableInv ==
  ASSUME IInv, NEW state \in BOOLEAN, enable_reconnect(state)
  PROVE  IInv'
<1> USE RetryAssumption
    DEF IInv, Flags, Types, ResultsAccounted, ExecCall, SelectClean, FirstRound, CountsOK,
        AnswerOK, Busy
<1>1. Flags'
  BY DEF enable_reconnect
<1>2. Types'
  BY DEF enable_reconnect
<1>3. ResultsAccounted'
  BY DEF enable_reconnect
<1>4. ExecCall'
  BY DEF enable_reconnect
<1>5. SelectClean'
  BY DEF enable_reconnect
<1>6. FirstRound'
  BY DEF enable_reconnect
<1>7. CountsOK'
  BY DEF enable_reconnect
<1>8. AnswerOK'
  BY DEF enable_reconnect
<1> QED BY <1>1, <1>2, <1>3, <1>4, <1>5, <1>6, <1>7, <1>8

\* The database changes, or nothing does.
LEMMA QuietInv ==
  ASSUME IInv, DbChanges \/ UNCHANGED vars
  PROVE  IInv'
<1> USE RetryAssumption
    DEF IInv, Flags, Types, ResultsAccounted, ExecCall, SelectClean, FirstRound, CountsOK,
        AnswerOK, Busy
<1>1. Flags'
  BY DEF DbChanges, conn, vars
<1>2. Types'
  BY DEF DbChanges, conn, vars
<1>3. ResultsAccounted'
  BY DEF DbChanges, conn, vars
<1>4. ExecCall'
  BY DEF DbChanges, conn, vars
<1>5. SelectClean'
  BY DEF DbChanges, conn, vars
<1>6. FirstRound'
  BY DEF DbChanges, conn, vars
<1>7. CountsOK'
  BY DEF DbChanges, conn, vars
<1>8. AnswerOK'
  BY DEF DbChanges, conn, vars
<1> QED BY <1>1, <1>2, <1>3, <1>4, <1>5, <1>6, <1>7, <1>8

\* connect() ending, inside or outside a reconnect.
LEMMA ConnectEndsInv ==
  ASSUME IInv, at \in {"login", "path"},
         NEW h \in {"null", "good", "bad", "finished"}, ConnectEnds(h),
         UNCHANGED <<args, select_result, call, db, unfreed, performed, tries>>
  PROVE  IInv'
<1> USE RetryAssumption
    DEF IInv, Flags, Types, ResultsAccounted, ExecCall, SelectClean, FirstRound, CountsOK,
        AnswerOK, Busy
<1>1. Flags'
  BY DEF ConnectEnds, Returns, Executes
<1>2. Types'
  BY DEF ConnectEnds, Returns, Executes
<1>3. ResultsAccounted'
  BY DEF ConnectEnds, Returns, Executes
<1>4. ExecCall'
  BY DEF ConnectEnds, Returns, Executes
<1>5. SelectClean'
  BY DEF ConnectEnds, Returns, Executes
<1>6. FirstRound'
  BY DEF ConnectEnds, Returns, Executes
<1>7. CountsOK'
  BY DEF ConnectEnds, Returns, Executes
<1>8. AnswerOK'
  BY DEF ConnectEnds, Returns, Executes
<1> QED BY <1>1, <1>2, <1>3, <1>4, <1>5, <1>6, <1>7, <1>8

\* A login that goes on to SET search_path.
LEMMA LoginPathInv ==
  ASSUME IInv, at = "login", at' = "path", retry_count' = RetryCount,
         connection_handle' \in {"good", "bad"},
         UNCHANGED <<args, reconnect_enabled, select_result, call, again, db, unfreed,
                     answer, performed, tries>>
  PROVE  IInv'
<1> USE RetryAssumption
    DEF IInv, Flags, Types, ResultsAccounted, ExecCall, SelectClean, FirstRound, CountsOK,
        AnswerOK, Busy
<1>1. Flags'
  OBVIOUS
<1>2. Types'
  OBVIOUS
<1>3. ResultsAccounted'
  OBVIOUS
<1>4. ExecCall'
  OBVIOUS
<1>5. SelectClean'
  OBVIOUS
<1>6. FirstRound'
  OBVIOUS
<1>7. CountsOK'
  OBVIOUS
<1>8. AnswerOK'
  OBVIOUS
<1> QED BY <1>1, <1>2, <1>3, <1>4, <1>5, <1>6, <1>7, <1>8

\* A retry of SET search_path.
LEMMA PathRetryInv ==
  ASSUME IInv, NEW o \in Outcome, SearchPath(o), Retries(o)
  PROVE  IInv'
<1> USE RetryAssumption
    DEF IInv, Flags, Types, ResultsAccounted, ExecCall, SelectClean, FirstRound, CountsOK,
        AnswerOK, Busy
<1>1. Flags'
  BY DEF SearchPath, Retries
<1>2. Types'
  BY DEF SearchPath, Retries
<1>3. ResultsAccounted'
  BY DEF SearchPath, Retries
<1>4. ExecCall'
  BY DEF SearchPath, Retries
<1>5. SelectClean'
  BY DEF SearchPath, Retries
<1>6. FirstRound'
  BY DEF SearchPath, Retries
<1>7. CountsOK'
  BY DEF SearchPath, Retries
<1>8. AnswerOK'
  BY DEF SearchPath, Retries
<1> QED BY <1>1, <1>2, <1>3, <1>4, <1>5, <1>6, <1>7, <1>8

\* A failed try, performed or not, returns or starts the reconnect.
LEMMA FailedInv ==
  ASSUME IInv, at = "exec", NEW st \in {"good", "bad", "finished"}, Failed(st),
         tries' = tries + 1, performed' \in {performed, performed + 1},
         UNCHANGED db
  PROVE  IInv'
<1> USE RetryAssumption
    DEF IInv, Flags, Types, ResultsAccounted, ExecCall, SelectClean, FirstRound, CountsOK,
        AnswerOK, Busy
<1>1. Flags'
  BY DEF Failed, Returns, Reconnects, clear_result
<1>2. Types'
  BY DEF Failed, Returns, Reconnects, clear_result
<1>3. ResultsAccounted'
  BY DEF Failed, Returns, Reconnects, clear_result
<1>4. ExecCall'
  BY DEF Failed, Returns, Reconnects, clear_result
<1>5. SelectClean'
  BY DEF Failed, Returns, Reconnects, clear_result
<1>6. FirstRound'
  BY DEF Failed, Returns, Reconnects, clear_result
<1>7. CountsOK'
  BY DEF Failed, Returns, Reconnects, clear_result
<1>8. AnswerOK'
  BY DEF Failed, Returns, Reconnects, clear_result
<1> QED BY <1>1, <1>2, <1>3, <1>4, <1>5, <1>6, <1>7, <1>8

\* The statement succeeds.
LEMMA ExecOkInv ==
  ASSUME IInv, at = "exec", tries' = tries + 1, performed' = performed + 1,
         at' = "idle", answer' = TRUE,
         \/ call = "select" /\ select_result' = "result" /\ unfreed' = unfreed + 1
         \/ call # "select" /\ UNCHANGED <<select_result, unfreed>>,
         UNCHANGED <<args, connection_handle, reconnect_enabled, retry_count, call, again,
                     db>>
  PROVE  IInv'
<1> USE RetryAssumption
    DEF IInv, Flags, Types, ResultsAccounted, ExecCall, SelectClean, FirstRound, CountsOK,
        AnswerOK, Busy
<1>1. Flags'
  OBVIOUS
<1>2. Types'
  OBVIOUS
<1>3. ResultsAccounted'
  OBVIOUS
<1>4. ExecCall'
  OBVIOUS
<1>5. SelectClean'
  OBVIOUS
<1>6. FirstRound'
  OBVIOUS
<1>7. CountsOK'
  OBVIOUS
<1>8. AnswerOK'
  OBVIOUS
<1> QED BY <1>1, <1>2, <1>3, <1>4, <1>5, <1>6, <1>7, <1>8

\* The process ends in a call on a finished handle.
LEMMA ExecCrashInv ==
  ASSUME IInv, at = "exec", tries' = tries + 1, performed' = performed,
         at' = "crashed",
         UNCHANGED <<args, connection_handle, reconnect_enabled, select_result, retry_count,
                     call, again, db, unfreed, answer>>
  PROVE  IInv'
<1> USE RetryAssumption
    DEF IInv, Flags, Types, ResultsAccounted, ExecCall, SelectClean, FirstRound, CountsOK,
        AnswerOK, Busy
<1>1. Flags'
  OBVIOUS
<1>2. Types'
  OBVIOUS
<1>3. ResultsAccounted'
  OBVIOUS
<1>4. ExecCall'
  OBVIOUS
<1>5. SelectClean'
  OBVIOUS
<1>6. FirstRound'
  OBVIOUS
<1>7. CountsOK'
  OBVIOUS
<1>8. AnswerOK'
  OBVIOUS
<1> QED BY <1>1, <1>2, <1>3, <1>4, <1>5, <1>6, <1>7, <1>8

\* The server is out of resources and there are tries left.
LEMMA ExecRetryInv ==
  ASSUME IInv, at = "exec", tries' = tries + 1, performed' = performed,
         retry_count > 0, ExecRetry, UNCHANGED db
  PROVE  IInv'
<1> USE RetryAssumption
    DEF IInv, Flags, Types, ResultsAccounted, ExecCall, SelectClean, FirstRound, CountsOK,
        AnswerOK, Busy
<1>1. Flags'
  BY DEF ExecRetry, conn
<1>2. Types'
  BY DEF ExecRetry, conn
<1>3. ResultsAccounted'
  BY DEF ExecRetry, conn
<1>4. ExecCall'
  BY DEF ExecRetry, conn
<1>5. SelectClean'
  BY DEF ExecRetry, conn
<1>6. FirstRound'
  BY DEF ExecRetry, conn
<1>7. CountsOK'
  BY DEF ExecRetry, conn
<1>8. AnswerOK'
  BY DEF ExecRetry, conn
<1> QED BY <1>1, <1>2, <1>3, <1>4, <1>5, <1>6, <1>7, <1>8

LEMMA DriverInv == ASSUME IInv, DriverStep PROVE IInv'
<1>1. CASE Login
  <2>1. ASSUME NEW h \in {"null", "good", "bad"}, ConnectEnds(h)
        PROVE  IInv'
    BY <1>1, <2>1, ConnectEndsInv DEF Login
  <2>2. ASSUME ~\E h \in {"null", "good", "bad"} : ConnectEnds(h)
        PROVE  IInv'
    BY <1>1, <2>2, LoginPathInv DEF Login
  <2> QED BY <2>1, <2>2
<1>2. ASSUME NEW o \in Outcome, SearchPath(o)
      PROVE  IInv'
  <2>1. CASE Retries(o)
    BY <1>2, <2>1, PathRetryInv
  <2>2. CASE ~Retries(o)
    <3>1. at = "path"
          /\ ConnectEnds(IF o = "ok" THEN "good" ELSE "finished")
          /\ UNCHANGED <<args, select_result, call, db, unfreed, performed, tries>>
      BY <1>2, <2>2 DEF SearchPath
    <3> QED BY <3>1, ConnectEndsInv
  <2> QED BY <2>1, <2>2
<1>3. ASSUME NEW o \in Outcome, Exec(o)
      PROVE  IInv'
  <2>1. CASE o = "ok"
    <3>1. \/ call = "select" /\ select_result' = "result" /\ unfreed' = unfreed + 1
          \/ call # "select" /\ UNCHANGED <<select_result, unfreed>>
      BY <1>3, <2>1 DEF Exec, Retries
    <3>2. at' = "idle" /\ answer' = TRUE
      BY <1>3, <2>1 DEF Exec, Retries, Returns
    <3>3. UNCHANGED <<args, connection_handle, reconnect_enabled, retry_count, call, again,
                      db>>
      BY <1>3, <2>1 DEF Exec, Retries, conn
    <3>4. /\ at = "exec" /\ tries' = tries + 1 /\ performed' = performed + 1
      BY <1>3, <2>1 DEF Exec, Retries
    <3> QED BY <3>1, <3>2, <3>3, <3>4, ExecOkInv
  <2>2. CASE o = "crash"
    <3>1. /\ at' = "crashed"
          /\ UNCHANGED <<args, connection_handle, reconnect_enabled, select_result,
                         retry_count, call, again, db, unfreed, answer>>
      BY <1>3, <2>2 DEF Exec, Retries, conn
    <3>2. /\ at = "exec" /\ tries' = tries + 1 /\ performed' = performed
      BY <1>3, <2>2 DEF Exec
    <3> QED BY <3>1, <3>2, ExecCrashInv
  <2>3. CASE Retries(o)
    <3>1. o = "noResources" /\ retry_count > 0
      BY <2>3 DEF Retries
    <3>2. ExecRetry
      BY <1>3, <2>3, <3>1 DEF Exec
    <3>3. /\ at = "exec" /\ tries' = tries + 1 /\ performed' = performed /\ UNCHANGED db
      BY <1>3, <3>1 DEF Exec
    <3> QED BY <3>1, <3>2, <3>3, ExecRetryInv
  <2>4. CASE o \notin {"ok", "crash"} /\ ~Retries(o)
    <3>1. \E st \in {"good", "bad", "finished"} : Failed(st)
      BY <1>3, <2>4 DEF Exec
    <3>2. /\ at = "exec" /\ tries' = tries + 1 /\ UNCHANGED db
          /\ performed' \in {performed, performed + 1}
      BY <1>3 DEF Exec
    <3> QED BY <3>1, <3>2, FailedInv
  <2> QED BY <2>1, <2>2, <2>3, <2>4
<1> QED BY <1>1, <1>2, <1>3 DEF DriverStep

LEMMA StepInv == IInv /\ [Next]_vars => IInv'
<1> SUFFICES ASSUME IInv, [Next]_vars
             PROVE  IInv'
  OBVIOUS
<1>1. CASE query \/ select
  BY <1>1, StatementInv DEF query, select
<1> QED
  BY <1>1, ConnectInv, FreeInv, CloseInv, EnableInv, QuietInv, DriverInv DEF Next

THEOREM Invariance == Spec => []IInv
BY InitInv, StepInv, PTL DEF Spec

(***************************************************************************)
(* No PGresult leaks and none is cleared twice, whatever fails inside      *)
(* query, select, connect and disconnect.                                  *)
(***************************************************************************)
THEOREM ResultsSafe == Spec => []ResultsAccounted
<1>1. IInv => ResultsAccounted
  BY DEF IInv
<1> QED BY <1>1, Invariance, PTL

(***************************************************************************)
(* query and select have a statement performed at most twice, twice only   *)
(* after a reconnect, and at least once when they return true.             *)
(***************************************************************************)
THEOREM PerformedSafe == Spec => []PerformedAsReported
<1>1. IInv => PerformedAsReported
  BY DEF IInv, Flags, Types, CountsOK, AnswerOK, PerformedAsReported
<1> QED BY <1>1, Invariance, PTL

(***************************************************************************)
(* The retry loops of unsafe_query and unsafe_select are bounded for every *)
(* retry count.                                                            *)
(***************************************************************************)
THEOREM TriesSafe == Spec => []TriesBounded
<1>1. IInv => TriesBounded
  BY RetryAssumption DEF IInv, Flags, Types, CountsOK, TriesBounded
<1> QED BY <1>1, Invariance, PTL

\* SET search_path is only sent by a driver with a schema.
SchemaInv ==
  connection_handle = "finished" \/ at \in {"path", "crashed"} => args = "schema"

\* connect() ends with a finished handle only when SET search_path failed.
LEMMA SchemaConnectEnds ==
  ASSUME NEW h, SchemaInv, at = "path" \/ h # "finished", ConnectEnds(h),
         UNCHANGED args
  PROVE  SchemaInv'
BY DEF SchemaInv, ConnectEnds, Executes, Returns

LEMMA SchemaStep == SchemaInv /\ [Next]_vars => SchemaInv'
<1> SUFFICES ASSUME SchemaInv, [Next]_vars
             PROVE  SchemaInv'
  OBVIOUS
<1>1. CASE connect \/ free_result \/ disconnect \/ destructor
  BY <1>1 DEF SchemaInv, connect, free_result, disconnect, destructor, Closes, conn
<1>2. CASE query \/ select
  BY <1>2 DEF SchemaInv, query, select, Statement, Returns, Executes, conn
<1>3. CASE (\E state \in BOOLEAN : enable_reconnect(state)) \/ DbChanges \/ UNCHANGED vars
  BY <1>3 DEF SchemaInv, enable_reconnect, DbChanges, conn, vars
<1>4. CASE Login
  <2>1. \/ \E h \in {"null", "good", "bad"} : ConnectEnds(h)
        \/ args = "schema" /\ connection_handle' \in {"good", "bad"} /\ at' = "path"
    BY <1>4 DEF Login
  <2>2. UNCHANGED args
    BY <1>4 DEF Login
  <2> QED BY <2>1, <2>2, SchemaConnectEnds DEF SchemaInv
<1>5. ASSUME NEW o \in Outcome, SearchPath(o)
      PROVE  SchemaInv'
  <2>1. at = "path" /\ UNCHANGED args
    BY <1>5 DEF SearchPath
  <2> QED BY <1>5, <2>1, SchemaConnectEnds DEF SearchPath, SchemaInv
<1>6. ASSUME NEW o \in Outcome, Exec(o)
      PROVE  SchemaInv'
  <2>1. CASE o = "ok"
    BY <1>6, <2>1 DEF SchemaInv, Exec, Retries, Returns, conn
  <2>2. CASE o = "crash"
    <3>1. "crash" \in Outcomes /\ UNCHANGED <<args, connection_handle>>
      BY <1>6, <2>2 DEF Exec, Retries, conn
    <3>2. connection_handle = "finished"
      BY <3>1 DEF Outcomes
    <3> QED BY <3>1, <3>2 DEF SchemaInv
  <2>3. CASE o = "noResources" /\ retry_count > 0
    BY <1>6, <2>3 DEF SchemaInv, Exec, Retries, ExecRetry, conn
  <2>4. CASE o \notin {"ok", "crash"} /\ ~(o = "noResources" /\ retry_count > 0)
    <3>1. \/ \E st \in {"good", "bad"} : Failed(st)
          \/ connection_handle = "finished" /\ Failed("finished")
      BY <1>6, <2>4 DEF Exec, Retries
    <3> QED BY <1>6, <3>1 DEF SchemaInv, Exec, Failed, Returns, Reconnects
  <2> QED BY <2>1, <2>2, <2>3, <2>4
<1> QED BY <1>1, <1>2, <1>3, <1>4, <1>5, <1>6 DEF Next, DriverStep

(***************************************************************************)
(* A driver constructed without a schema never keeps a handle it finished  *)
(* and never ends the process, whatever fails in connect and reconnect.    *)
(***************************************************************************)
THEOREM OnlySchemaSafe == Spec => []OnlySchemaFinishes
<1>1. Init => SchemaInv
  BY DEF Init, SchemaInv
<1>2. SchemaInv => OnlySchemaFinishes
  BY DEF SchemaInv, OnlySchemaFinishes
<1> QED BY <1>1, SchemaStep, <1>2, PTL DEF Spec

(***************************************************************************)
(* query and select give up on a lost connection only after they have      *)
(* tried to replace it, or when they may not.  This is so step by step,    *)
(* without an invariant: only a statement that failed may return with a    *)
(* lost connection, and connect() in the middle of a call goes on with the *)
(* connection it got.                                                      *)
(***************************************************************************)
THEOREM LostReplacedSafe == Spec => LostConnectionReplaced
<1> DEFINE Step == at \in Busy /\ at' = "idle" /\ call \in {"query", "select"}
                     /\ connection_handle' = "bad"
                   => again' \/ ~reconnect_enabled'
<1>1. [Next]_vars => [Step]_vars
  <2> SUFFICES ASSUME Next, at \in Busy, at' = "idle", call \in {"query", "select"},
                      connection_handle' = "bad"
               PROVE  again' \/ ~reconnect_enabled'
    OBVIOUS
  <2>1. at # "idle" /\ at \in {"login", "path", "exec"}
    BY DEF Busy
  <2>2. ~ DbChanges
    BY <2>1 DEF DbChanges
  <2>3. DriverStep
    BY <2>1, <2>2 DEF Next, connect, query, select, Statement, free_result, disconnect,
                      destructor, Closes, enable_reconnect
  <2>4. ASSUME NEW h, ConnectEnds(h)
        PROVE  h # "bad"
    BY <2>1, <2>4 DEF ConnectEnds, Executes, Returns
  <2>5. ~ Login
    BY <2>1, <2>4 DEF Login, ConnectEnds
  <2>6. ASSUME NEW o \in Outcome, SearchPath(o)
        PROVE  FALSE
    BY <2>1, <2>6 DEF SearchPath, ConnectEnds
  <2>7. ASSUME NEW o \in Outcome, Exec(o)
        PROVE  again' \/ ~reconnect_enabled'
    <3>1. CASE o = "ok"
      <4>1. "ok" \in Outcomes /\ connection_handle' = connection_handle
        BY <2>7, <3>1 DEF Exec, Retries, conn
      <4> QED BY <4>1 DEF Outcomes
    <3>2. CASE o = "crash"
      BY <2>7, <3>2 DEF Exec, Retries
    <3>3. CASE o = "noResources" /\ retry_count > 0
      BY <2>1, <2>7, <3>3 DEF Exec, Retries, ExecRetry
    <3>4. CASE o \notin {"ok", "crash"} /\ ~(o = "noResources" /\ retry_count > 0)
      <4>1. \E st \in {"good", "bad", "finished"} : Failed(st)
        BY <2>7, <3>4 DEF Exec, Retries
      <4>2. ~ Reconnects
        BY DEF Reconnects
      <4>3. PICK st \in {"good", "bad", "finished"} :
              /\ ~ (st = "bad" /\ reconnect_enabled /\ ~ again)
              /\ connection_handle' = st
              /\ UNCHANGED <<reconnect_enabled, again>>
        BY <4>1, <4>2 DEF Failed
      <4>4. ~ reconnect_enabled \/ again
        BY <4>3
      <4> QED BY <4>3, <4>4, Zenon
    <3> QED BY <3>1, <3>2, <3>3, <3>4
  <2> QED BY <2>3, <2>5, <2>6, <2>7 DEF DriverStep
<1> QED BY <1>1, PTL DEF Spec, LostConnectionReplaced

\* Every variable keeps its type.
THEOREM TypeCorrect == Spec => []TypeOK
<1>1. IInv => TypeOK
  BY DEF IInv, Flags, Types, TypeOK
<1> QED BY <1>1, Invariance, PTL
=============================================================================
