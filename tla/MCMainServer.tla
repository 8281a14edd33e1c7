---------------------------- MODULE MCMainServer ----------------------------
(***************************************************************************)
(* MainServer on small instances.                                          *)
(***************************************************************************)
EXTENDS MainServer, TLC
CONSTANTS c1, c2, a1, a2, p1, p2, j1, j2

Hello     == [kind |-> "hello", account |-> NoAccount, valid |-> TRUE]
Filtered  == [kind |-> "filtered", account |-> NoAccount, valid |-> TRUE]
Chars     == [kind |-> "chars", account |-> NoAccount, valid |-> TRUE]
Other     == [kind |-> "other", account |-> NoAccount, valid |-> TRUE]
Login(a)  == [kind |-> "login", account |-> a, valid |-> TRUE]
BadLogin  == [kind |-> "login", account |-> a1, valid |-> FALSE]

MCSlots == {1}
MCParsers == {p1, p2}
Symmetry == Permutations(MCParsers) \union Permutations({j1, j2})

\* One slot that two connections use one after the other.
Reused == {c1, c2}
ReusedSlot == [c \in Reused |-> 1]
\* One connection alone.
Single == {c1}
SingleSlot == [c \in Single |-> 1]

AllRequests   == {Hello, Filtered, Chars, Login(a1), BadLogin}
LoginRequests == {Hello, Login(a1)}
OtherRequests == LoginRequests \union {Other}
=============================================================================
