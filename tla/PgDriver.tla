------------------------------ MODULE PgDriver ------------------------------
(***************************************************************************)
(* The database driver libpgdrv, class pg_driver: one connection, one      *)
(* pending result, a bounded retry while the database is out of resources, *)
(* and one reconnect with one repetition when the connection is lost.      *)
(* The database and libpq are external: PQexec may lose the connection     *)
(* before or after the server has performed the statement.                 *)
(*                                                                         *)
(* One caller uses the driver, as the join server does, and frees a result *)
(* before it selects again.  A step is one libpq call that talks to the    *)
(* server, with what the driver does up to the next one.                   *)
(***************************************************************************)
EXTENDS Naturals

CONSTANT RetryCount    \* the 10 of unsafe_query and unsafe_select

ASSUME RetryAssumption == RetryCount \in Nat

VARIABLES
  args,               \* constructor: no address or database, no schema, a schema
  connection_handle,  \* null; a connection PQstatus calls good or bad; or finished
  reconnect_enabled,
  select_result,      \* the pending result, or null
  retry_count,        \* the local variable of unsafe_query and unsafe_select
  at,                 \* what the driver is in the middle of
  call,               \* the public method being executed, or the last one
  again,              \* the statement is being executed after a reconnect
  db,                 \* external: the server accepts connections
  unfreed,            \* external: PGresult objects not cleared
  answer,             \* what the last query or select returned
  performed,          \* history: times the server performed this statement
  tries               \* history: times PQexec was called for this statement

conn == <<args, connection_handle, reconnect_enabled>>
vars == <<conn, select_result, retry_count, at, call, again, db, unfreed, answer,
          performed, tries>>

Busy == {"login", "path", "exec"}    \* in PQsetdbLogin, SET search_path, the statement

TypeOK ==
  /\ args \in {"incomplete", "noSchema", "schema"}
  /\ connection_handle \in {"null", "good", "bad", "finished"}
  /\ reconnect_enabled \in BOOLEAN
  /\ select_result \in {"null", "result"}
  /\ retry_count \in 0 .. RetryCount
  /\ at \in Busy \union {"idle", "crashed", "deleted"}
  /\ call \in {"none", "connect", "query", "select"}
  /\ again \in BOOLEAN
  /\ db \in {"up", "down"}
  /\ unfreed \in Nat
  /\ answer \in BOOLEAN
  /\ performed \in Nat
  /\ tries \in Nat

Init == /\ args \in {"incomplete", "noSchema", "schema"}
        /\ connection_handle = "null"
        /\ reconnect_enabled = FALSE
        /\ select_result = "null"
        /\ retry_count = 0
        /\ at = "idle"
        /\ call = "none"
        /\ again = FALSE
        /\ db \in {"up", "down"}
        /\ unfreed = 0
        /\ answer = FALSE
        /\ performed = 0
        /\ tries = 0
-----------------------------------------------------------------------------
(* What connect, query and select do when they are done.                   *)

Returns(value) == at' = "idle" /\ answer' = value

ExecutesTheRest(second) ==   \* faulty: the repetition has only the tries that are left
  /\ at' = "exec"
  /\ again' = second
  /\ retry_count' = IF second THEN retry_count ELSE RetryCount
  /\ UNCHANGED answer

\* The statement of the caller is (re)executed from its first try.
Executes(second) ==
  /\ at' = "exec"
  /\ again' = second
  /\ retry_count' = RetryCount
  /\ UNCHANGED answer

ConnectEndsDangling(h) ==   \* faulty: a failed connect leaves the finished handle
  /\ connection_handle' = IF h = "null" THEN "finished" ELSE h
  /\ reconnect_enabled' = TRUE
  /\ IF call = "connect" THEN at' = "idle" /\ UNCHANGED <<again, retry_count, answer>>
     ELSE Executes(TRUE)

\* connect() ends with the handle h; within reconnect(), query and select go on.
ConnectEnds(h) ==
  /\ connection_handle' = h
  /\ reconnect_enabled' = (reconnect_enabled \/ h # "null")
  /\ IF call = "connect" THEN at' = "idle" /\ UNCHANGED <<again, retry_count, answer>>
     ELSE IF h # "null" THEN Executes(TRUE)
     ELSE Returns(FALSE) /\ UNCHANGED <<again, retry_count>>

\* PQclear of the pending result, in free_result, disconnect and ~pg_driver.
clear_result ==
  /\ select_result' = "null"
  /\ unfreed' = IF select_result = "null" THEN unfreed ELSE unfreed - 1

(***************************************************************************)
(* reconnect(): disconnect, then connect; a driver that had a connection   *)
(* has an address and a database.  A second PQfinish of the same handle    *)
(* ends the process or goes unnoticed.                                     *)
(***************************************************************************)
Reconnects ==
  /\ clear_result
  /\ connection_handle' = "null"
  /\ \/ at' = "login"
     \/ connection_handle = "finished" /\ at' = "crashed"
  /\ UNCHANGED <<args, reconnect_enabled, call, again, retry_count, answer>>

\* unsafe_query or unsafe_select returned false, PQstatus is now st.
FailedForever(st) ==   \* faulty: reconnects as long as the connection is bad
  /\ connection_handle' = st
  /\ IF st = "bad" /\ reconnect_enabled
     THEN /\ at' = "login" /\ UNCHANGED <<select_result, unfreed, answer>>
     ELSE /\ Returns(FALSE) /\ UNCHANGED <<select_result, unfreed>>
  /\ UNCHANGED <<args, reconnect_enabled, call, again, retry_count>>

FailedGivesUp(st) ==   \* faulty: a lost connection is not replaced
  /\ Returns(FALSE)
  /\ connection_handle' = st
  /\ UNCHANGED <<args, reconnect_enabled, call, again, retry_count,
                 select_result, unfreed>>

Failed(st) ==
  IF st = "bad" /\ reconnect_enabled /\ ~again
  THEN Reconnects
  ELSE /\ Returns(FALSE)
       /\ connection_handle' = st
       /\ UNCHANGED <<args, reconnect_enabled, call, again, retry_count,
                      select_result, unfreed>>
-----------------------------------------------------------------------------
(* The public methods, called when no other is executing.                  *)

\* connect() is called once, or again after disconnect().
connect ==
  /\ at = "idle" /\ connection_handle = "null"
  /\ call' = "connect"
  /\ at' = IF args = "incomplete" THEN "idle" ELSE "login"
  /\ UNCHANGED <<conn, select_result, retry_count, again, db, unfreed, answer,
                 performed, tries>>

\* query() and select() alike: without a connection they return false at once.
Statement(method) ==
  /\ at = "idle"
  /\ method = "select" => select_result = "null"
  /\ call' = method
  /\ performed' = 0 /\ tries' = 0
  /\ IF connection_handle = "null"
     THEN Returns(FALSE) /\ again' = FALSE /\ UNCHANGED retry_count
     ELSE Executes(FALSE)
  /\ UNCHANGED <<conn, select_result, db, unfreed>>

query  == Statement("query")
select == Statement("select")

free_result ==
  /\ at = "idle" /\ select_result # "null"
  /\ clear_result
  /\ UNCHANGED <<conn, retry_count, at, call, again, db, answer, performed, tries>>

enable_reconnect(state) ==
  /\ at = "idle" /\ reconnect_enabled # state
  /\ reconnect_enabled' = state
  /\ UNCHANGED <<args, connection_handle, select_result, retry_count, at, call, again,
                 db, unfreed, answer, performed, tries>>

\* disconnect() and the destructor; they differ in what may follow.
Closes(next) ==
  /\ at = "idle"
  /\ clear_result
  /\ connection_handle' = "null"
  /\ \/ at' = next
     \/ connection_handle = "finished" /\ at' = "crashed"
  /\ call' = "none"
  /\ UNCHANGED <<args, reconnect_enabled, retry_count, again, db, answer, performed,
                 tries>>

disconnect == Closes("idle")
destructor == Closes("deleted")
-----------------------------------------------------------------------------
(* Inside the methods.                                                     *)

\* PQsetdbLogin.  The results of the two SET statements that follow are not
\* looked at, so the connection may be lost again by then.
Login ==
  /\ at = "login"
  /\ \/ ConnectEnds("null")
     \/ /\ db = "up"
        /\ \E h \in {"good", "bad"} :
             IF args = "schema"
             THEN /\ connection_handle' = h
                  /\ at' = "path" /\ retry_count' = RetryCount
                  /\ UNCHANGED <<reconnect_enabled, again, answer>>
             ELSE ConnectEnds(h)
  /\ UNCHANGED <<args, select_result, call, db, unfreed, performed, tries>>

\* What PQexec may do: on a handle that was finished, anything a bad
\* connection does, or end the process.
Outcomes ==
  {"lostBefore"}
  \union (IF connection_handle = "finished" THEN {"crash"} ELSE {})
  \union (IF connection_handle = "good" /\ db = "up"
          THEN {"ok", "noResources", "error", "lostAfter"} ELSE {})

RetriesOnceMore(outcome) ==   \* faulty: retry_count >= 0
  outcome = "noResources" /\ retry_count >= 0

Retries(outcome) == outcome = "noResources" /\ retry_count > 0

SearchPathForever(outcome) ==   \* faulty: connects again until the path is set
  /\ at = "path" /\ outcome \in Outcomes
  /\ IF outcome = "ok" THEN ConnectEnds("good")
     ELSE /\ at' = "login" /\ connection_handle' = "null"
          /\ UNCHANGED <<reconnect_enabled, again, retry_count, answer>>
  /\ UNCHANGED <<args, select_result, call, db, unfreed, performed, tries>>

\* SET search_path by unsafe_query.  When it fails the handle is finished and
\* kept, and connect goes on as if it had not failed.
SearchPath(outcome) ==
  /\ at = "path" /\ outcome \in Outcomes
  /\ IF Retries(outcome)
     THEN /\ retry_count' = retry_count - 1
          /\ UNCHANGED <<connection_handle, reconnect_enabled, at, again, answer>>
     ELSE ConnectEnds(IF outcome = "ok" THEN "good" ELSE "finished")
  /\ UNCHANGED <<args, select_result, call, db, unfreed, performed, tries>>

ExecRetryKeepsResult ==   \* faulty: goto retry without PQclear
  /\ retry_count' = retry_count - 1
  /\ UNCHANGED <<conn, select_result, at, call, again, answer>>
  /\ unfreed' = unfreed + 1

ExecRetry ==
  /\ retry_count' = retry_count - 1
  /\ UNCHANGED <<conn, select_result, at, call, again, unfreed, answer>>

\* One PQexec of the caller's statement in unsafe_query or unsafe_select.
Exec(outcome) ==
  /\ at = "exec" /\ outcome \in Outcomes
  /\ tries' = tries + 1
  /\ performed' = IF outcome \in {"ok", "lostAfter"} THEN performed + 1 ELSE performed
  /\ CASE outcome = "crash" ->
            /\ at' = "crashed"
            /\ UNCHANGED <<conn, select_result, retry_count, call, again, unfreed, answer>>
       [] outcome = "ok" ->
            /\ Returns(TRUE)
            /\ IF call = "select" THEN select_result' = "result" /\ unfreed' = unfreed + 1
               ELSE UNCHANGED <<select_result, unfreed>>
            /\ UNCHANGED <<conn, retry_count, call, again>>
       [] Retries(outcome) -> ExecRetry
       [] outcome \in {"lostBefore", "lostAfter"} ->
            IF connection_handle = "finished"
            THEN Failed("bad") \/ Failed("finished")
            ELSE Failed("bad")
       [] OTHER -> Failed("good")
  /\ UNCHANGED db

\* External: the server goes down or comes back.
DbChanges == /\ db' = IF db = "up" THEN "down" ELSE "up"
             /\ UNCHANGED <<conn, select_result, retry_count, at, call, again, unfreed,
                            answer, performed, tries>>

Outcome == {"ok", "noResources", "error", "lostBefore", "lostAfter", "crash"}

DriverStep == Login \/ \E o \in Outcome : SearchPath(o) \/ Exec(o)

Next == \/ connect \/ query \/ select \/ free_result \/ disconnect \/ destructor
        \/ \E state \in BOOLEAN : enable_reconnect(state)
        \/ DriverStep
        \/ DbChanges

Spec == Init /\ [][Next]_vars

\* A method that has been called goes on; nothing is owed by caller or database.
FairSpec == Spec /\ WF_vars(DriverStep)
-----------------------------------------------------------------------------
(***************************************************************************)
(* The PGresult objects alive are those the driver still points to: none   *)
(* leaks and none is cleared twice, across retries, lost connections and   *)
(* reconnects in the middle of a call.                                     *)
(***************************************************************************)
ResultsAccounted == unfreed = IF select_result = "null" THEN 0 ELSE 1

(***************************************************************************)
(* How often the server performs a statement: a call that returned true    *)
(* had it performed; it is performed at most twice, and twice only when it *)
(* was repeated after a reconnect (a reply lost on the way is not told     *)
(* from a statement lost on the way, so twice does happen).                *)
(***************************************************************************)
PerformedAsReported ==
  /\ performed <= 2
  /\ performed = 2 => again
  /\ at = "idle" /\ call \in {"query", "select"} /\ answer => performed > 0

\* PQexec is called at most RetryCount + 1 times for a statement, and as often
\* again after a reconnect.
TriesBounded == tries <= (IF again THEN 2 ELSE 1) * (RetryCount + 1)

(***************************************************************************)
(* query and select do not return with a lost connection they have not     *)
(* tried to replace, unless reconnecting is disabled.                      *)
(***************************************************************************)
LostConnectionReplaced ==
  [][(at \in Busy /\ at' = "idle" /\ call \in {"query", "select"}
        /\ connection_handle' = "bad")
       => again' \/ ~reconnect_enabled']_vars

(***************************************************************************)
(* A finished handle that is kept, and the end of the process it can lead  *)
(* to, come from SET search_path alone (driver.cpp:52): a driver without a *)
(* schema, whatever fails and however often it reconnects, never uses or   *)
(* finishes a handle twice.                                                *)
(***************************************************************************)
OnlySchemaFinishes == connection_handle = "finished" \/ at = "crashed" => args = "schema"

\* Every call returns: the retry loops and the reconnect are bounded.
CallReturns == (at \in Busy) ~> (at \notin Busy)
=============================================================================
