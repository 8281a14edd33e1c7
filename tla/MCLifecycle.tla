----------------------------- MODULE MCLifecycle -----------------------------
(***************************************************************************)
(* Lifecycle with two parser threads, one thread in each of the other      *)
(* pools, and a message of each kind.                                      *)
(***************************************************************************)
EXTENDS Lifecycle
CONSTANTS login, chars, other
MCMessages == {login, chars, other}
MCTarget == [m \in MCMessages |-> CASE m = login -> "join"
                                    [] m = chars -> "data"
                                    [] OTHER     -> "none"]
=============================================================================
