---------------------------- MODULE MCJoinServer ----------------------------
(***************************************************************************)
(* JoinServer with one request of each kind that takes its own way through *)
(* the handler.                                                            *)
(***************************************************************************)
EXTENDS JoinServer
CONSTANTS malformed, right, wrong, null

MCRequests == {malformed, right, wrong, null}
MCKind == [r \in MCRequests |-> CASE r = malformed -> "malformed"
                                 [] r = right     -> "right"
                                 [] r = wrong     -> "wrong"
                                 [] r = null      -> "null"]
=============================================================================
