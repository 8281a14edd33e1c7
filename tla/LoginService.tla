---------------------------- MODULE LoginService ----------------------------
(***************************************************************************)
(* What the join server promises the main server, without processes,       *)
(* queues or a database: a login is answered once, with the verdict its    *)
(* account and password deserve or as an invalid account (a database that  *)
(* cannot be asked looks like an unknown account), or its call fails.      *)
(* JoinServer implements it.                                               *)
(***************************************************************************)
CONSTANTS Requests,    \* login requests, each a call of its own
          Verdict      \* what the accounts table says of each, one of Results

Results == {"SUCCESS", "INVALID", "WRONG_PASSWORD"}

VARIABLE outcome       \* the call of each request, as the main server sees it

vars == <<outcome>>

Init == outcome = [r \in Requests |-> "new"]

Ask(r) == /\ outcome[r] = "new"
          /\ outcome' = [outcome EXCEPT ![r] = "waiting"]

Answer(r) == /\ outcome[r] = "waiting"
             /\ \E result \in {Verdict[r], "INVALID"} :
                  outcome' = [outcome EXCEPT ![r] = result]

\* The service is not there, the call times out, or its process dies.
Fail(r) == /\ outcome[r] \in {"new", "waiting"}
           /\ outcome' = [outcome EXCEPT ![r] = "failed"]

Next == \E r \in Requests : Ask(r) \/ Answer(r) \/ Fail(r)

Safety == Init /\ [][Next]_vars

\* The main server does not wait for ever.
Ends(r) == outcome[r] = "waiting" /\ (Answer(r) \/ Fail(r))

Spec == Safety /\ \A r \in Requests : WF_vars(Ends(r))
=============================================================================
