--------------------------- MODULE ConnectServer ---------------------------
(***************************************************************************)
(* The connect server: at its start it loads the list of servers from      *)
(* settings/serverlist.xml, and then it answers clients who ask for the    *)
(* list or for the address of a server on it, which they name by index.    *)
(* Only the list a client was given ties its two requests together, and    *)
(* the server may be restarted with an edited file in between.             *)
(*                                                                         *)
(* A file is its sequence of server elements.  Addresses are dotted quads, *)
(* so the 16 bytes of an answer hold them.  A request that is too short    *)
(* for an index is read from a zeroed buffer, so it asks for index 0.      *)
(***************************************************************************)
EXTENDS Integers, Sequences, FiniteSets

CONSTANTS Files,       \* what serverlist.xml may hold
          Addresses,
          Clients,
          IndexRange,  \* 2^16: indexes and ports are sent in 16 bits
          MaxQueue,    \* bound: requests that wait
          None         \* nothing yet, or a file that is no XML

\* complete: has a name, an address and a status.  id is an int, and -1 when
\* the attribute is missing; so is port.
Server == [id : Int, port : Int, address : Addresses, visible : BOOLEAN, complete : BOOLEAN]

ASSUME RangeAssumption == IndexRange \in Nat \ {0}
ASSUME MaxQueueAssumption == MaxQueue \in Nat
ASSUME FilesAssumption ==
  /\ None \notin Files
  /\ \A f \in Files : f \in Seq(Server)

VARIABLES
  file,     \* what is on the disk
  at,       \* the process is down, loading or up
  doc,      \* the file as it was read
  loaded,   \* how many of its elements have been parsed
  M_server_list,
  queue,    \* requests the gateway passed on
  list,     \* the last list each client was given
  answer    \* how the last request of each client for an address ended

vars == <<file, at, doc, loaded, M_server_list, queue, list, answer>>

Index == 0 .. IndexRange - 1
Request == [from : Clients, kind : {"list", "other"}]
             \union [from : Clients, kind : {"info"}, index : Index]

NoServers == [id \in {} |-> None]

TypeOK ==
  /\ file \in Files \union {None}
  /\ at \in {"down", "loading", "up"}
  /\ doc \in Files
  /\ loaded \in 0 .. Len(doc)
  /\ \A id \in DOMAIN M_server_list : id \in Int /\ M_server_list[id] \in Server
  /\ queue \in Seq(Request)
  /\ list \in [Clients -> [doc : Files, indexes : SUBSET Index] \union {None}]
  /\ answer \in [Clients -> [doc : Files, index : Index, server : {None}]
                    \union [doc : Files, index : Index,
                            server : [address : Addresses, port : Index]] \union {None}]

Init == /\ file \in Files
        /\ at = "down"
        /\ doc = file /\ loaded = 0
        /\ M_server_list = NoServers
        /\ queue = <<>>
        /\ list = [c \in Clients |-> None]
        /\ answer = [c \in Clients |-> None]
-----------------------------------------------------------------------------
(* The environment.                                                        *)

Edit(f) == /\ file # f /\ file' = f
           /\ UNCHANGED <<at, doc, loaded, M_server_list, queue, list, answer>>

Stop == /\ at # "down" /\ at' = "down"
        /\ UNCHANGED <<file, doc, loaded, M_server_list, queue, list, answer>>

Ask(r) ==
  /\ Len(queue) < MaxQueue
  /\ queue' = Append(queue, r)
  /\ UNCHANGED <<file, at, doc, loaded, M_server_list, list, answer>>
-----------------------------------------------------------------------------
(* tpsvrinit.                                                              *)

\* A new process reads the file, or gives up on one that is not XML.
LoadFile ==
  /\ at = "down" /\ file # None
  /\ at' = "loading" /\ doc' = file /\ loaded' = 0
  /\ M_server_list' = NoServers
  /\ UNCHANGED <<file, queue, list, answer>>

insert_or_assign(map, s) ==   \* faulty: the last element of an id counts
  [id \in DOMAIN map \union {s.id} |-> IF id = s.id THEN s ELSE map[id]]

\* std::map::insert: the first element of an id counts.
insert(map, s) ==
  [id \in DOMAIN map \union {s.id} |-> IF id \in DOMAIN map THEN map[id] ELSE s]

\* One turn of the loop; a missing text attribute ends the process.
LoadServer ==
  /\ at = "loading" /\ loaded < Len(doc)
  /\ LET s == doc[loaded + 1]
     IN IF s.complete
        THEN /\ M_server_list' = insert(M_server_list, s)
             /\ loaded' = loaded + 1
             /\ UNCHANGED at
        ELSE at' = "down" /\ UNCHANGED <<M_server_list, loaded>>
  /\ UNCHANGED <<file, doc, queue, list, answer>>

Advertise == /\ at = "loading" /\ loaded = Len(doc)
             /\ at' = "up"
             /\ UNCHANGED <<file, doc, loaded, M_server_list, queue, list, answer>>
-----------------------------------------------------------------------------
(* MUCS_MESSAGE_SVC.                                                       *)

Shown == {id \in DOMAIN M_server_list : M_server_list[id].visible}

ListedPositions ==   \* faulty: the position in the list for the id
  {Cardinality({j \in Shown : j < id}) % IndexRange : id \in Shown}

ListedUncut == Shown   \* faulty: ids as they are

\* The indexes of get_server_list: ids, cut to 16 bits.
Listed == {id % IndexRange : id \in Shown}

Serves(kind) == at = "up" /\ queue # <<>> /\ Head(queue).kind = kind

get_server_list ==
  /\ Serves("list")
  /\ list' = [list EXCEPT ![Head(queue).from] = [doc |-> doc, indexes |-> Listed]]
  /\ queue' = Tail(queue)
  /\ UNCHANGED <<file, at, doc, loaded, M_server_list, answer>>

\* The index is looked up as it came; a server that is not shown is answered
\* too, and one that is not found is only logged.
get_server_info ==
  /\ Serves("info")
  /\ LET i == Head(queue).index
         server == IF i \in DOMAIN M_server_list
                   THEN [address |-> M_server_list[i].address,
                         port |-> M_server_list[i].port % IndexRange]
                   ELSE None
     IN answer' = [answer EXCEPT ![Head(queue).from] =
                     [doc |-> doc, index |-> i, server |-> server]]
  /\ queue' = Tail(queue)
  /\ UNCHANGED <<file, at, doc, loaded, M_server_list, list>>

\* Another head code or subcode, or a C2 message, whose head code is taken
\* for its subcode as well.
Ignores ==
  /\ Serves("other")
  /\ queue' = Tail(queue)
  /\ UNCHANGED <<file, at, doc, loaded, M_server_list, list, answer>>

MUCS_MESSAGE_SVC == get_server_list \/ get_server_info \/ Ignores

Next == \/ \E f \in Files \union {None} : Edit(f)
        \/ Stop
        \/ \E r \in Request : Ask(r)
        \/ LoadFile \/ LoadServer \/ Advertise
        \/ MUCS_MESSAGE_SVC

Spec == Init /\ [][Next]_vars
-----------------------------------------------------------------------------
\* The first element of each id, in one look at the whole file.
FirstOf(f, id) ==
  CHOOSE k \in DOMAIN f : f[k].id = id /\ \A j \in 1 .. k - 1 : f[j].id # id

Offered(f, id) == /\ \E k \in DOMAIN f : f[k].id = id
                  /\ f[FirstOf(f, id)].visible

FitsIndexes(f) == \A k \in DOMAIN f : f[k].id \in Index

(***************************************************************************)
(* A client that picks a server from its list and asks a server process    *)
(* that read the same file is answered, with the address and port of the   *)
(* first element of that id, and that element is shown.  List and lookup   *)
(* share nothing but the id, which is an int in the file and the table and *)
(* 16 bits on the wire: with an id beyond them the lookup finds nothing,   *)
(* or another server.                                                      *)
(***************************************************************************)
ListedIsReached ==
  \A c \in Clients :
    (/\ list[c] # None /\ answer[c] # None
     /\ list[c].doc = answer[c].doc /\ FitsIndexes(list[c].doc)
     /\ answer[c].index \in list[c].indexes) =>
       LET f == answer[c].doc
           id == answer[c].index
       IN /\ Offered(f, id)
          /\ answer[c].server = [address |-> f[FirstOf(f, id)].address,
                                 port |-> f[FirstOf(f, id)].port % IndexRange]

\* The indexes that a whole file offers.
Whole(f) == {f[k].id % IndexRange : k \in {j \in DOMAIN f : Offered(f, f[j].id)}}

(***************************************************************************)
(* No client is given less than what one whole file offers: a list is made *)
(* of all shown elements of the file its process read, never of a table    *)
(* that is still being filled or of the one of the process before.         *)
(***************************************************************************)
ListsAreWhole ==
  \A c \in Clients : list[c] # None => list[c].indexes = Whole(list[c].doc)
=============================================================================
