--------------------------- MODULE MCConnectServer ---------------------------
(***************************************************************************)
(* ConnectServer with indexes of two bits and files that repeat an id,     *)
(* hide a server, leave out an attribute, or have ids beyond the index.    *)
(***************************************************************************)
EXTENDS ConnectServer
CONSTANTS a, b, c1

Element(id, port, address, visible) ==
  [id |-> id, port |-> port, address |-> address, visible |-> visible, complete |-> TRUE]

Repeats == <<Element(2, 1, a, TRUE), Element(1, 2, a, FALSE), Element(2, 3, b, FALSE),
             Element(1, 2, b, TRUE)>>
Edited  == <<Element(3, 1, b, TRUE), Element(2, 5, b, TRUE)>>
Beyond  == <<Element(1, 1, a, TRUE), Element(5, 2, b, TRUE), Element(-1, -1, b, TRUE)>>
Partial == <<Element(2, 1, a, TRUE), [Element(1, 1, b, TRUE) EXCEPT !.complete = FALSE]>>

MCFiles == {Repeats, Edited, Beyond, Partial}
=============================================================================
