------------------------- MODULE ConnectServerProofs -------------------------
(***************************************************************************)
(* Proofs about ConnectServer for any files, any number of clients and any *)
(* width of an index: lists are whole, and a listed server is reached.     *)
(***************************************************************************)
EXTENDS ConnectServer, TLAPS

\* The table holds the first element of each id among those parsed.
TableOK ==
  /\ DOMAIN M_server_list = {doc[k].id : k \in 1 .. loaded}
  /\ \A id \in DOMAIN M_server_list : \E k \in 1 .. loaded :
       /\ doc[k].id = id
       /\ \A j \in 1 .. k - 1 : doc[j].id # id
       /\ M_server_list[id] = doc[k]

LoadOK ==
  /\ file \in Files \union {None}
  /\ at \in {"down", "loading", "up"}
  /\ doc \in Files
  /\ loaded \in 0 .. Len(doc)
  /\ at = "up" => loaded = Len(doc)

\* What a client was told about index i by a process that read f.
Told(f, i) ==
  IF \E k \in DOMAIN f : f[k].id = i
  THEN [address |-> f[FirstOf(f, i)].address, port |-> f[FirstOf(f, i)].port % IndexRange]
  ELSE None

AnswersOK ==
  \A c \in Clients : answer[c] # None =>
    answer[c].server = Told(answer[c].doc, answer[c].index)

Shapes == /\ DOMAIN list = Clients /\ DOMAIN answer = Clients
             /\ queue \in Seq(Request)
             /\ \A c \in Clients : list[c] # None => list[c].doc \in Files

IInv == LoadOK /\ TableOK /\ AnswersOK /\ ListsAreWhole /\ Shapes
-----------------------------------------------------------------------------
\* The first element of an id is the one FirstOf chooses.
LEMMA FirstIsChosen ==
  ASSUME NEW f \in Seq(Server), NEW k \in DOMAIN f, NEW id, f[k].id = id,
         \A j \in 1 .. k - 1 : f[j].id # id
  PROVE  FirstOf(f, id) = k
<1>1. DOMAIN f = 1 .. Len(f) /\ Len(f) \in Nat
  OBVIOUS
<1>2. ASSUME NEW n \in DOMAIN f, f[n].id = id, \A j \in 1 .. n - 1 : f[j].id # id
      PROVE  n = k
  <2>1. n \in Nat /\ k \in Nat /\ n >= 1 /\ k >= 1
    BY <1>1
  <2>2. ~ (n < k) /\ ~ (k < n)
    <3>1. n < k => n \in 1 .. k - 1
      BY <2>1
    <3>2. k < n => k \in 1 .. n - 1
      BY <2>1
    <3> QED BY <1>2, <3>1, <3>2
  <2> QED BY <2>1, <2>2
<1> QED BY <1>2 DEF FirstOf

\* The table of a process that is up answers for the whole file.
LEMMA TableIsFile ==
  ASSUME IInv, at = "up"
  PROVE  /\ DOMAIN M_server_list = {doc[k].id : k \in DOMAIN doc}
         /\ \A id \in DOMAIN M_server_list : M_server_list[id] = doc[FirstOf(doc, id)]
<1>1. doc \in Seq(Server) /\ loaded = Len(doc) /\ DOMAIN doc = 1 .. loaded
  BY FilesAssumption DEF IInv, LoadOK
<1>2. ASSUME NEW id \in DOMAIN M_server_list
      PROVE  M_server_list[id] = doc[FirstOf(doc, id)]
  <2>1. PICK k \in 1 .. loaded : /\ doc[k].id = id
                                 /\ \A j \in 1 .. k - 1 : doc[j].id # id
                                 /\ M_server_list[id] = doc[k]
    BY DEF IInv, TableOK
  <2> QED BY <1>1, <2>1, FirstIsChosen
<1> QED BY <1>1, <1>2 DEF IInv, TableOK

\* An index that ids fit in is the id.
LEMMA FitsUncut ==
  ASSUME NEW id \in Index
  PROVE  id % IndexRange = id
BY RangeAssumption DEF Index

\* What a step that leaves the variables of a conjunct alone keeps.
LEMMA Frame ==
  /\ TableOK /\ UNCHANGED <<doc, loaded, M_server_list>> => TableOK'
  /\ AnswersOK /\ UNCHANGED answer => AnswersOK'
  /\ ListsAreWhole /\ UNCHANGED list => ListsAreWhole'
  /\ Shapes /\ UNCHANGED <<list, answer, queue>> => Shapes'
<1>1. TableOK /\ UNCHANGED <<doc, loaded, M_server_list>> => TableOK'
  BY DEF TableOK
<1>2. AnswersOK /\ UNCHANGED answer => AnswersOK'
  BY DEF AnswersOK, Told, FirstOf
<1>3. ListsAreWhole /\ UNCHANGED list => ListsAreWhole'
  BY DEF ListsAreWhole
<1>4. Shapes /\ UNCHANGED <<list, answer, queue>> => Shapes'
  BY DEF Shapes
<1> QED BY <1>1, <1>2, <1>3, <1>4
-----------------------------------------------------------------------------
LEMMA Initially == Init => IInv
<1> SUFFICES ASSUME Init
             PROVE  IInv
  OBVIOUS
<1>1. doc \in Seq(Server) /\ Len(doc) \in Nat
  BY FilesAssumption DEF Init
<1>2. LoadOK
  BY <1>1 DEF Init, LoadOK
<1>3. TableOK
  BY DEF Init, TableOK, NoServers
<1>4. AnswersOK /\ ListsAreWhole /\ Shapes
  BY DEF Init, AnswersOK, ListsAreWhole, Shapes
<1> QED BY <1>2, <1>3, <1>4 DEF IInv

LEMMA StepServer ==
  ASSUME IInv, LoadServer
  PROVE  LoadOK' /\ TableOK'
<1>1. /\ at = "loading" /\ loaded < Len(doc) /\ doc' = doc /\ file' = file
      /\ doc \in Seq(Server) /\ Len(doc) \in Nat /\ loaded \in 0 .. Len(doc)
  BY FilesAssumption DEF IInv, LoadOK, LoadServer
<1>2. CASE doc[loaded + 1].complete
  <2> DEFINE s == doc[loaded + 1]
  <2>1. M_server_list' = insert(M_server_list, s) /\ loaded' = loaded + 1 /\ at' = at
    BY <1>2 DEF LoadServer
  <2>2. LoadOK'
    BY <1>1, <2>1 DEF IInv, LoadOK
  <2>3. 1 .. loaded' = 1 .. loaded \union {loaded + 1}
    BY <1>1, <2>1
  <2>4. DOMAIN M_server_list' = DOMAIN M_server_list \union {s.id}
    BY <2>1 DEF insert
  <2>5. DOMAIN M_server_list' = {doc'[k].id : k \in 1 .. loaded'}
    BY <1>1, <2>3, <2>4 DEF IInv, TableOK
  <2>6. ASSUME NEW id \in DOMAIN M_server_list'
        PROVE  \E k \in 1 .. loaded' : /\ doc'[k].id = id
                                       /\ \A j \in 1 .. k - 1 : doc'[j].id # id
                                       /\ M_server_list'[id] = doc'[k]
    <3>1. CASE id \in DOMAIN M_server_list
      <4>1. M_server_list'[id] = M_server_list[id]
        BY <2>1, <2>4, <3>1 DEF insert
      <4>2. PICK k \in 1 .. loaded : /\ doc[k].id = id
                                     /\ \A j \in 1 .. k - 1 : doc[j].id # id
                                     /\ M_server_list[id] = doc[k]
        BY <3>1 DEF IInv, TableOK
      <4> QED BY <1>1, <2>3, <4>1, <4>2
    <3>2. CASE id \notin DOMAIN M_server_list
      <4>1. id = s.id /\ M_server_list'[id] = s
        BY <2>1, <2>4, <3>2 DEF insert
      <4>2. \A j \in 1 .. loaded : doc[j].id # id
        BY <3>2 DEF IInv, TableOK
      <4>3. (loaded + 1) - 1 = loaded /\ loaded + 1 \in 1 .. loaded'
        BY <1>1, <2>1
      <4> QED BY <1>1, <4>1, <4>2, <4>3
    <3> QED BY <3>1, <3>2
  <2>7. TableOK'
    BY <2>5, <2>6 DEF TableOK
  <2> QED BY <2>2, <2>7
<1>3. CASE ~ doc[loaded + 1].complete
  <2>1. at' = "down" /\ UNCHANGED <<M_server_list, loaded>>
    BY <1>3 DEF LoadServer
  <2>2. LoadOK'
    BY <1>1, <2>1 DEF IInv, LoadOK
  <2> QED BY <1>1, <2>1, <2>2, Frame DEF IInv
<1> QED BY <1>2, <1>3

LEMMA StepList ==
  ASSUME IInv, get_server_list
  PROVE  IInv'
<1> DEFINE c == Head(queue).from
<1>1. /\ at = "up" /\ queue # <<>>
      /\ list' = [list EXCEPT ![c] = [doc |-> doc, indexes |-> Listed]]
      /\ queue' = Tail(queue)
      /\ UNCHANGED <<file, at, doc, loaded, M_server_list, answer>>
  BY DEF get_server_list, Serves
<1>2. Listed = Whole(doc)
  <2>1. ASSUME NEW k \in DOMAIN doc
        PROVE  doc[k].id \in Shown <=> Offered(doc, doc[k].id)
    BY <1>1, TableIsFile DEF Shown, Offered
  <2>2. Shown = {doc[k].id : k \in {j \in DOMAIN doc : Offered(doc, doc[j].id)}}
    BY <1>1, <2>1, TableIsFile DEF Shown
  <2> QED BY <2>2 DEF Listed, Whole
<1>3. ListsAreWhole'
  <2> SUFFICES ASSUME NEW d \in Clients, list'[d] # None
               PROVE  list'[d].indexes = Whole(list'[d].doc)
    BY DEF ListsAreWhole
  <2>1. CASE d = c
    BY <1>1, <1>2, <2>1 DEF IInv, Shapes
  <2>2. CASE d # c
    <3>1. list'[d] = list[d] /\ list[d] # None
      BY <1>1, <2>2 DEF IInv, Shapes
    <3>2. list[d].indexes = Whole(list[d].doc)
      BY <3>1 DEF IInv, ListsAreWhole
    <3> QED BY <3>1, <3>2
  <2> QED BY <2>1, <2>2
<1>4. Shapes'
  <2>1. queue' \in Seq(Request) /\ DOMAIN list' = Clients /\ DOMAIN answer' = Clients
    BY <1>1 DEF IInv, Shapes
  <2>2. \A d \in Clients : list'[d] # None => list'[d].doc \in Files
    BY <1>1 DEF IInv, Shapes, LoadOK
  <2> QED BY <2>1, <2>2 DEF Shapes
<1>5. LoadOK'
  BY <1>1 DEF IInv, LoadOK
<1> QED BY <1>1, <1>3, <1>4, <1>5, Frame DEF IInv

LEMMA StepInfo ==
  ASSUME IInv, get_server_info
  PROVE  IInv'
<1> DEFINE c == Head(queue).from
           i == Head(queue).index
<1>1. /\ at = "up" /\ queue # <<>> /\ queue' = Tail(queue)
      /\ answer' = [answer EXCEPT ![c] =
           [doc |-> doc, index |-> i,
            server |-> IF i \in DOMAIN M_server_list
                       THEN [address |-> M_server_list[i].address,
                             port |-> M_server_list[i].port % IndexRange]
                       ELSE None]]
      /\ UNCHANGED <<file, at, doc, loaded, M_server_list, list>>
  BY DEF get_server_info, Serves
<1>2. (IF i \in DOMAIN M_server_list
       THEN [address |-> M_server_list[i].address,
             port |-> M_server_list[i].port % IndexRange]
       ELSE None) = Told(doc, i)
  BY <1>1, TableIsFile DEF Told
<1>3. AnswersOK'
  <2> SUFFICES ASSUME NEW d \in Clients, answer'[d] # None
               PROVE  answer'[d].server = Told(answer'[d].doc, answer'[d].index)
    BY DEF AnswersOK, Told, FirstOf
  <2>1. CASE d = c
    BY <1>1, <1>2, <2>1 DEF IInv, Shapes
  <2>2. CASE d # c
    <3>1. answer'[d] = answer[d] /\ answer[d] # None
      BY <1>1, <2>2 DEF IInv, Shapes
    <3>2. answer[d].server = Told(answer[d].doc, answer[d].index)
      BY <3>1 DEF IInv, AnswersOK
    <3> QED BY <3>1, <3>2
  <2> QED BY <2>1, <2>2
<1>4. Shapes'
  BY <1>1 DEF IInv, Shapes
<1>5. LoadOK'
  BY <1>1 DEF IInv, LoadOK
<1> QED BY <1>1, <1>3, <1>4, <1>5, Frame DEF IInv

LEMMA Steps == IInv /\ [Next]_vars => IInv'
<1> SUFFICES ASSUME IInv, [Next]_vars
             PROVE  IInv'
  OBVIOUS
<1> USE Frame DEF IInv
<1>1. ASSUME NEW f \in Files \union {None}, Edit(f)
      PROVE  IInv'
  BY <1>1 DEF Edit, LoadOK
<1>2. CASE Stop
  BY <1>2 DEF Stop, LoadOK
<1>3. ASSUME NEW r \in Request, Ask(r)
      PROVE  IInv'
  <2>1. Shapes'
    BY <1>3 DEF Ask, Shapes
  <2> QED BY <1>3, <2>1 DEF Ask, LoadOK
<1>4. CASE LoadFile
  <2>1. file \in Files /\ file \in Seq(Server)
    BY <1>4, FilesAssumption DEF LoadFile, LoadOK
  <2>2. LoadOK'
    BY <1>4, <2>1 DEF LoadFile, LoadOK
  <2>3. TableOK'
    BY <1>4 DEF LoadFile, TableOK, NoServers
  <2> QED BY <1>4, <2>2, <2>3 DEF LoadFile
<1>5. CASE LoadServer
  <2>1. UNCHANGED <<queue, list, answer>>
    BY <1>5 DEF LoadServer
  <2> QED BY <1>5, <2>1, StepServer
<1>6. CASE Advertise
  BY <1>6 DEF Advertise, LoadOK
<1>7. CASE get_server_list
  BY <1>7, StepList
<1>8. CASE get_server_info
  BY <1>8, StepInfo
<1>9. CASE Ignores
  <2>1. Shapes'
    BY <1>9 DEF Ignores, Serves, Shapes
  <2> QED BY <1>9, <2>1 DEF Ignores, LoadOK
<1>10. CASE UNCHANGED vars
  BY <1>10 DEF vars, LoadOK
<1> HIDE Frame DEF IInv
<1> QED
  BY <1>1, <1>2, <1>3, <1>4, <1>5, <1>6, <1>7, <1>8, <1>9, <1>10
     DEF Next, MUCS_MESSAGE_SVC

LEMMA Inductive == Spec => []IInv
BY Initially, Steps, PTL DEF Spec
-----------------------------------------------------------------------------
\* Cut to 16 bits, an id or a port is an index.
LEMMA CutToIndex ==
  ASSUME NEW n \in Int
  PROVE  n % IndexRange \in Index
BY RangeAssumption DEF Index

LEMMA TypeInit == Init => TypeOK
<1> SUFFICES ASSUME Init
             PROVE  TypeOK
  OBVIOUS
<1>1. doc \in Seq(Server) /\ Len(doc) \in Nat
  BY FilesAssumption DEF Init
<1> QED BY <1>1 DEF Init, TypeOK, NoServers

\* The loop that loads the file puts servers into the table.
LEMMA TypeServer ==
  ASSUME TypeOK, LoadServer
  PROVE  TypeOK'
<1>1. /\ loaded < Len(doc) /\ doc' = doc /\ doc \in Seq(Server)
      /\ Len(doc) \in Nat /\ loaded \in 0 .. Len(doc)
  BY FilesAssumption DEF TypeOK, LoadServer
<1> DEFINE s == doc[loaded + 1]
<1>2. s \in Server /\ s.id \in Int
  <2>1. loaded + 1 \in 1 .. Len(doc)
    BY <1>1
  <2>2. s \in Server
    BY <1>1, <2>1
  <2> HIDE DEF s
  <2> QED BY <2>2 DEF Server
<1>3. CASE s.complete
  <2>1. /\ M_server_list' = insert(M_server_list, s)
        /\ loaded' = loaded + 1 /\ at' = at
    BY <1>3 DEF LoadServer
  <2>2. \A id \in DOMAIN M_server_list' : id \in Int /\ M_server_list'[id] \in Server
    BY <1>2, <2>1 DEF insert, TypeOK
  <2>3. loaded' \in 0 .. Len(doc)
    BY <1>1, <2>1
  <2> QED BY <1>1, <2>1, <2>2, <2>3 DEF TypeOK, LoadServer
<1>4. CASE ~ s.complete
  BY <1>1, <1>4 DEF TypeOK, LoadServer
<1> QED BY <1>3, <1>4

\* What clients are given fits the messages.
LEMMA TypeList ==
  ASSUME TypeOK, get_server_list
  PROVE  TypeOK'
<1> DEFINE c == Head(queue).from
<1>1. /\ queue # <<>> /\ queue' = Tail(queue)
      /\ list' = [list EXCEPT ![c] = [doc |-> doc, indexes |-> Listed]]
      /\ UNCHANGED <<file, at, doc, loaded, M_server_list, answer>>
  BY DEF get_server_list, Serves
<1>2. Listed \in SUBSET Index
  <2>1. \A id \in Shown : id \in Int
    BY DEF Shown, TypeOK
  <2> QED BY <2>1, CutToIndex DEF Listed
<1>3. queue' \in Seq(Request)
  BY <1>1 DEF TypeOK
<1>4. list' \in [Clients -> [doc : Files, indexes : SUBSET Index] \union {None}]
  BY <1>1, <1>2 DEF TypeOK
<1> QED BY <1>1, <1>3, <1>4 DEF TypeOK

LEMMA TypeInfo ==
  ASSUME TypeOK, get_server_info
  PROVE  TypeOK'
<1> DEFINE c == Head(queue).from
           i == Head(queue).index
           server == IF i \in DOMAIN M_server_list
                     THEN [address |-> M_server_list[i].address,
                           port |-> M_server_list[i].port % IndexRange]
                     ELSE None
<1>1. /\ queue # <<>> /\ queue' = Tail(queue) /\ Head(queue).kind = "info"
      /\ answer' = [answer EXCEPT ![c] = [doc |-> doc, index |-> i, server |-> server]]
      /\ UNCHANGED <<file, at, doc, loaded, M_server_list, list>>
  BY DEF get_server_info, Serves
<1>2. queue' \in Seq(Request) /\ Head(queue) \in Request
  BY <1>1 DEF TypeOK
<1>3. i \in Index
  BY <1>1, <1>2 DEF Request
<1>4. server \in {None} \union [address : Addresses, port : Index]
  <2>1. CASE i \in DOMAIN M_server_list
    <3>1. M_server_list[i].address \in Addresses /\ M_server_list[i].port \in Int
      BY <2>1 DEF TypeOK, Server
    <3>2. M_server_list[i].port % IndexRange \in Index
      BY <3>1, CutToIndex
    <3> QED BY <2>1, <3>1, <3>2
  <2>2. CASE i \notin DOMAIN M_server_list
    BY <2>2
  <2> QED BY <2>1, <2>2
<1> DEFINE told == [doc |-> doc, index |-> i, server |-> server]
<1>5. told \in [doc : Files, index : Index, server : {None}]
              \union [doc : Files, index : Index, server : [address : Addresses, port : Index]]
  <2>1. doc \in Files
    BY DEF TypeOK
  <2> HIDE DEF i, server
  <2> QED BY <1>3, <1>4, <2>1
<1>6. answer' = [answer EXCEPT ![c] = told]
  BY <1>1
<1>7. answer' \in [Clients -> [doc : Files, index : Index, server : {None}]
                    \union [doc : Files, index : Index,
                            server : [address : Addresses, port : Index]] \union {None}]
  <2> HIDE DEF told, c
  <2> QED BY <1>5, <1>6 DEF TypeOK
<1> QED BY <1>1, <1>2, <1>7 DEF TypeOK

LEMMA TypeStep == TypeOK /\ [Next]_vars => TypeOK'
<1> SUFFICES ASSUME TypeOK, [Next]_vars
             PROVE  TypeOK'
  OBVIOUS
<1>1. ASSUME NEW f \in Files \union {None}, Edit(f)
      PROVE  TypeOK'
  BY <1>1 DEF Edit, TypeOK
<1>2. CASE Stop
  BY <1>2 DEF Stop, TypeOK
<1>3. ASSUME NEW r \in Request, Ask(r)
      PROVE  TypeOK'
  <2>1. queue' \in Seq(Request)
    BY <1>3 DEF Ask, TypeOK
  <2> QED BY <1>3, <2>1 DEF Ask, TypeOK
<1>4. CASE LoadFile
  <2>1. file \in Files /\ file \in Seq(Server)
    BY <1>4, FilesAssumption DEF LoadFile, TypeOK
  <2>2. loaded' \in 0 .. Len(doc')
    BY <1>4, <2>1 DEF LoadFile
  <2> QED BY <1>4, <2>1, <2>2 DEF LoadFile, TypeOK, NoServers
<1>5. CASE LoadServer
  BY <1>5, TypeServer
<1>6. CASE Advertise
  BY <1>6 DEF Advertise, TypeOK
<1>7. CASE get_server_list
  BY <1>7, TypeList
<1>8. CASE get_server_info
  BY <1>8, TypeInfo
<1>9. CASE Ignores
  <2>1. queue' \in Seq(Request)
    BY <1>9 DEF Ignores, Serves, TypeOK
  <2> QED BY <1>9, <2>1 DEF Ignores, TypeOK
<1>10. CASE UNCHANGED vars
  BY <1>10 DEF vars, TypeOK
<1> QED
  BY <1>1, <1>2, <1>3, <1>4, <1>5, <1>6, <1>7, <1>8, <1>9, <1>10
     DEF Next, MUCS_MESSAGE_SVC

\* Table, requests and answers keep their types: whatever ids and ports a file
\* has, what goes out fits 16 bits.
THEOREM TypeCorrect == Spec => []TypeOK
BY TypeInit, TypeStep, PTL DEF Spec
-----------------------------------------------------------------------------
\* No client is ever given a list of a table that is still being filled, or
\* that mixes two files.
THEOREM ListsAreWholeSafe == Spec => []ListsAreWhole
<1>1. IInv => ListsAreWhole
  BY DEF IInv
<1> QED BY <1>1, Inductive, PTL

\* A server picked from a list is reached by a process that read the same
\* file, for any file whose ids fit the index.
THEOREM ListedIsReachedSafe == Spec => []ListedIsReached
<1>1. IInv => ListedIsReached
  <2> SUFFICES ASSUME IInv, NEW c \in Clients, list[c] # None, answer[c] # None,
                      list[c].doc = answer[c].doc, FitsIndexes(list[c].doc),
                      answer[c].index \in list[c].indexes
               PROVE  LET f == answer[c].doc
                          id == answer[c].index
                      IN /\ Offered(f, id)
                         /\ answer[c].server = [address |-> f[FirstOf(f, id)].address,
                                                port |-> f[FirstOf(f, id)].port % IndexRange]
    BY DEF ListedIsReached
  <2> DEFINE f == answer[c].doc
             id == answer[c].index
  <2>1. PICK k \in DOMAIN f : Offered(f, f[k].id) /\ id = f[k].id % IndexRange
    BY DEF IInv, ListsAreWhole, Whole
  <2>2. f[k].id \in Index
    BY DEF FitsIndexes
  <2>3. id = f[k].id
    BY <2>1, <2>2, FitsUncut
  <2>4. answer[c].server = Told(f, id)
    BY DEF IInv, AnswersOK
  <2> QED BY <2>1, <2>3, <2>4 DEF Told
<1> QED BY <1>1, Inductive, PTL
=============================================================================
