# EnduroXMU_server in TLA+

A verification development for this repository, a proof-of-concept MuOnline
server on the Enduro/X middleware. It holds TLA+ modules translated from the
C++ sources, TLC configurations that check them on small instances, and proofs
of the main results for every size of the parameters, checked by TLAPS. Paths
below are relative to the root of the repository.

## 1. The system

Enduro/X runs each service as a single-threaded process that takes requests
from queues. Clients connect to TCP gateways (part of Enduro/X), which call the
services below with a UBF buffer and send what they get back to the client.

| Component | State it keeps | Operations | What is hard, and what makes it correct |
|---|---|---|---|
| Worker pools: `libmucore/thread_manager`, `libmucore/reply_manager` | a FIFO queue, `quit`, a mutex and a condition variable; N threads | `dispatch` (three overloads), the thread loop, the destructor | wakeups against pushes, ownership of copied job data, destruction while jobs run. Every queued job gets an awake thread, data has one owner, destruction ends and leaves nothing running |
| Main server, sessions: `services/mainserver` (`main.cpp`, `protocol`, `jsprotocol`, `dsprotocol`, `client_info`) | `M_clients`, one slot per plain connection number, with a mutex each; three pools | `MAIN_MESSAGE_SVC`, `MAIN_STATUS_SVC`, hello, login, character list, join server answer, close | handlers call several slot methods with nothing held in between; four parser and two join server threads; disconnects bypass the queue; slot numbers are reused. No login may be stuck, a slot belongs to its own connection, the login limit holds |
| Main server, start and shutdown: `main.cpp` | the three pool pointers | `tpsvrinit`, `tpsvrdone` | parsers dispatch into the other pools while pools are deleted. No dispatch into a deleted pool, shutdown ends |
| Database driver: `libpgdrv` | connection handle, reconnect flag, pending result | `connect`, `disconnect`, `reconnect`, `query`, `select`, `free_result`, `enable_reconnect`, getters | lost connections in the middle of a call, retries, one repetition. Results are cleared once, tries are bounded, nothing is performed unboundedly often |
| Join server: `services/joinserver` | the driver, one thread | `tpsvrinit`, `tpsvrdone`, `join_id_pass_request` | database errors, NULL columns that end the process, restarts, callers that gave up waiting. Each login is answered once, from its own rows, with its own verdict or as an invalid account |
| Message framing: `packet_engine.h`, C1 to C4 in `recv_data_parser` and `data_send` | none between messages | xor filter, lengths, serial numbers | lengths of one and two bytes, loops that stop on equality, in-place changes. What arrives is what was written |
| Block encryption: `simple_modulus` | keys | `encrypt`, `decrypt`, bit shifting, key files | checksums over several blocks, partial blocks, residues across byte boundaries |
| Connect server: `services/connectserver` | the server list, constant after start | server list, server info | ids wider than indexes, repeated ids, files edited between restarts. A listed server is the one that is reached |
| Data server, world server | none | logging only; empty stub | - |
| `muprotocol.h`, `config`, `utils` | constants | getters, setters, string helpers | - |

Interactions: the gateway calls `MAIN_MESSAGE_SVC` and `MAIN_STATUS_SVC` through
two queues. `MAIN_MESSAGE_SVC` copies the buffer into the parser pool; a status
call with flag `D` resets the slot at once, in the main thread. A parser runs
`recv_data_parser`, which for a login changes the slot and dispatches
`joinserver_send_req` into the join server pool, and for a character list
dispatches `dataserver_send_req` into the data server pool. A join server thread
calls `JOINSERVER` synchronously and handles the answer itself, changing the
slot again. Everything sent to clients goes out by `tpacall` to the gateway.

## 2. The modules

| Module | What it is |
|---|---|
| `TaskPool` | abstract specification: what a worker pool promises its callers |
| `WorkerPool` | the pool in detail; implements `TaskPool` |
| `WorkerPoolProofs` | theorems about it |
| `MainServer` | client slots, services, parser and join server handlers |
| `MainServerProofs` | theorems about it |
| `Lifecycle` | three instances of `WorkerPool` and the main thread: dispatch between pools, shutdown |
| `LifecycleProofs` | theorems about it, from those of `WorkerPool` |
| `PgDriver`, `PgDriverProofs` | the database driver and theorems about it |
| `LoginService` | abstract specification: what the join server promises the main server |
| `JoinServer`, `JoinServerProofs` | the join server on top of an instance of `PgDriver`; implements `LoginService`; theorems |
| `Bytes` | exclusive or, or, shifts and the bytes of a word, bit by bit |
| `PacketEngine` | the client's filter and `packet_engine` |
| `SimpleModulus`, `SimpleModulusProofs` | encryption and decryption of blocks, as operators; theorems about them |
| `Reception`, `ReceptionProofs` | a packet from the client to `protocol_core`: composes the two above with the C3 and C4 paths; theorems |
| `ConnectServer`, `ConnectServerProofs` | the server list and the requests for it; theorems |
| `MCWorkerPool`, `MCMainServer`, `MCLifecycle`, `MCJoinServer`, `MCReception`, `MCConnectServer` | the instances TLC checks |

Each module also holds a few operators marked *faulty*: plausible bugs of one
definition, used to confirm that a property would notice them.

**WorkerPool.** The state is that of the class: `queue`, `quit`, and for each
thread where it is (`pc`) and its local `op` (`held`). One action is one
critical section of `mlock`: `Dispatch`, `Wait` (predicate false), `Take`,
`Exit`, the destructor's `Quit`; outside the mutex `RunOp`, `FreeData` and
`Join`. `notify_one` wakes any one sleeping thread, `notify_all` all of them, a
sleeping thread may also wake for no reason. `buf` is the heap copy that
`dispatch` makes; `ran` and `joined` record history and the destructor's
progress. `reply_manager` is the same code with another type of job data.
Callers do not dispatch while the pool is being destroyed; `Lifecycle` checks
that the main server keeps to that.

**MainServer.** `client` is `M_clients`; one action is one method of
`client_info`, each under the slot's mutex, with what the handler does up to
the next method. `parser[t].at` and `js[t].at` say which method thread `t`
calls next. The pools appear as FIFO queues with threads, which is what
`WorkerPool` is proved to provide. The gateway opens and closes connections;
connections that map to the same slot are open one after the other, and the
disconnect reaches `MAIN_STATUS_SVC` at any later time (`statusDue`). A message
is one of hello, filtered hello (an F4/06 that comes through the engine, filtered
or encrypted, and is welcomed without a look at the slot), login (with an account,
valid or not), character list, other; "other" stands for everything that changes
nothing, among it messages that do not decode. `lost`, `everBound`, `counted` and `answers` are history. `out` is
what the last step sent. `user_index` and `world_id` are never read and left
out; so are `LOGGED` and `PLAYING`, which nothing sets, except in the tests the
code makes for them.

**Lifecycle.** `phase` is the main thread: serving, in the destructor of each
pool in turn, terminated. Each pool is `INSTANCE WorkerPool`; a parser inside
`op.function` dispatches its message on into the pool `Target` gives before the
function returns.

**PgDriver.** The fields of `pg_driver` and where the call in progress is
(`at`). A step is one libpq call to the server. `Outcomes` is the external part:
`PQexec` succeeds, reports exhausted resources (53000, 53200), fails, or loses
the connection before or after the server performed the statement. A finished
handle that is used again behaves as a bad connection or ends the process.
`performed`, `tries` and `unfreed` count what happened outside the driver. The
driver is used by one caller at a time, which frees a result before it selects
again, as the join server does.

**JoinServer.** The variables of `M_db_handle` are those of `PgDriver`, whose
actions the handler uses: `Take` begins a `select`, `Drives` is a step of the
driver in it, and `Unanswered`, `Evaluate` and `Throws` are the ways the handler
goes on, `free_result` included. `process` follows the Enduro/X process:
`tpsvrinit` up to the end of `connect`, serving, `tpsvrdone` in its two calls,
and the death by an exception that nobody catches, after which Enduro/X may start
a new process with a new driver. `queue` is the service's queue, which outlives
the process. `outcome` is each call as the main server's join server threads
see it (at most `Callers` at a time); a call may time out at any point, and its
request is then executed for nobody. What a request's account and row look like
is its `Kind`: malformed, unknown, wrong or right password, blocked, or a row with
a NULL where a number is read. `holds` and `met` are history: the request
whose rows are pending, and what the database did to the select of the request
being handled (an error, lost connections, tries without resources) or to the
login of this process.

**PacketEngine, SimpleModulus, Reception.** A packet is a function from its byte
positions to bytes, and the operations work on the bytes themselves: the filter's
table and every shift of `add_bits` are those of the code, the keys are parameters.
`PacketEngine` has one action per turn of the in-place loop of `xor_data`. A
packet may give any length; it has its type and length bytes in any case. A length
that does not reach behind the header, written so by a client or left by damaged
blocks, makes the loop run out of the buffer, which is undefined:
`at = "undefined"`. `SimpleModulus` is pure: blocks of 8 bytes to
blocks of 11 and back. `Reception` follows `recv_data_parser`: one turn of the
loop of `decrypt` per action, with the sum it tests, then the frame made of the
decrypted bytes and the engine. External are the client, which writes, filters and
encrypts with the same operators, and a transport that may change the checksum of
a block. `Bytes` defines `^`, `|` and the shifts by the bits of a byte, in tables
that are not recursive: TLC computes each entry once, and the proofs can derive
the laws of exclusive or that both ciphers live on.

**ConnectServer.** `file` is `serverlist.xml` on the disk, edited at any time;
`doc` is what the running process read, `loaded` how far its loop is. `list` and
`answer` are what each client was told last, and by a process that read which
file: nothing else ties a client's two requests together. `IndexRange` is 2^16 in
the code; ids and ports are integers in the file and are cut to it on the wire.

## 3. What TLC checks

| Run | Instance | Properties | States |
|---|---|---|---|
| `pool` | 3 threads, 4 jobs (one without data), fair | `TypeOK`, `NoLostWakeup`, `DataOwned`, `CleanDestruction`, `ImplementsTaskPool`, `DestructionTerminates` | 17 thousand |
| `session` | 2 connections on one slot, 2 parsers, 1 join server thread, 3 messages (hellos plain and filtered, logins valid and not, character lists), fair | `TypeOK`, `NoStuckLogin`, `BoundSlotInUse`, `LoginEnds` | 919 thousand |
| `login_limit` | 1 connection, 2 join server threads, 5 messages (hello, logins) | `NoStuckLogin`, `LoginLimitHolds` | 3 million |
| `lifecycle` | 2 parsers, 1 + 1 threads, one message of each kind, fair | `TypeOK`, `NoDispatchToDyingPool`, `NothingHalfDone`, `ShutdownTerminates` | 20 thousand |
| `driver` | retry count 10 as in the code, with and without a schema, fair | `TypeOK`, `ResultsAccounted`, `PerformedAsReported`, `TriesBounded`, `LostConnectionReplaced`, `OnlySchemaFinishes`, `CallReturns` | 90 thousand |
| `join` | 4 logins (malformed, right, wrong, NULL), 2 callers, retry count 1, fair | `TypeOK`, `OwnRows`, `NoCallForgotten`, `RefusedForCause`, `ImplementsLoginService`, `QueueServed` | 347 thousand |
| `codec` | 28 packets with lengths from 0 to 516, 14 of them encrypted; any blocks damaged in messages of up to 4 blocks, some sets of them in one of 12 | `TypeOK`, `XorInPlace`, `Delivered`, `NothingLost`, `FirstBlockChecked` | 6 thousand |
| `connect` | 4 files, 1 client, indexes of 2 bits, 2 waiting requests | `TypeOK`, `ListedIsReached`, `ListsAreWhole` | 347 thousand |

Bounds. Each client message is an instance of its own, and `MaxMsgs` bounds
them: three messages give a hello and two racing logins, or two hellos and a
login, on a slot two connections use in turn ("other" messages, which change
nothing, are left to the `welcome` run); five reach the third and fourth
login with others in flight, where the two tests of the counter (`>= 3`, `> 3`)
matter. Two threads in a pool are enough for every pair of handlers to
interleave; three in `pool` separate waking one thread from waking all. The
theorems of section 5 lift the bounds for safety; they also cover connections
beyond the table (`SlotOf` 0), which no run has. In `driver` the retry count is the
constant of the code; in `join` it is 1, which is one retry and its end, since
`driver` and the proofs cover the count itself. Four logins of different kinds are
enough for a late one to be executed before, between and after others, and for a
death with requests waiting; "unknown" and "blocked" take the ways of "malformed"
and "right" through what `JoinServer` can observe. The packets of `codec` have the
lengths around which something changes: one block, its last byte and the next
(encrypted C1 of 9, 10, 17, 18), one turn of the table of 32, 255 and 256, lengths
that end below, with and just behind the header (C1 of 0 to 3, C2 of 0, 3 and 4),
equal and different length bytes (257 and 514; 12, 256 and 513), and `Capacity`
(516 for the 2048 of the code, which only `TooLong` uses) and one below it, for the
plain C2 packets of 516 and 515 bytes and for the frame of the encrypted one of 514,
which is a byte longer. Blocks damaged behind an
intact first one leave the size at 1, at 0 or below, by how many they are: these
are the sets chosen for the message of 12 blocks. The keys give residues of up to
18 bits, whose two highest are packed apart from the rest, with products that fit
32 bits as they do in the code. Indexes of two bits make
ids beyond the index (5 and -1) and repeated ids possible with a few servers.
Symmetry is used for the
threads of `login_limit` only. Deadlock is not checked where the system really stops: a
destroyed pool, a terminated process, clients that have sent all their
messages.

Fairness. Pool threads are weakly fair: the scheduler runs a thread that can
run, critical sections are short, and the functions they call return (`tpcall`
is bounded by the Enduro/X timeout, `tpacall` with `TPNOREPLY` waits for no
answer). The destructor, once begun, and a started `tpsvrdone` go on. The
transport delivers a disconnect. In `PgDriver` a libpq call returns. In
`JoinServer` the serving process goes on (a service is a loop over its queue) and
a waiting call ends, at the latest by the Enduro/X timeout; starting a process
again is not owed, so `QueueServed` is about a process that lives. Clients,
callers, the database, spurious wakeups and the decision to shut down are never
owed.

What the properties say, beyond types:

- `NoLostWakeup`: while a thread sleeps, every queued job has an awake thread of
  its own.
- `DataOwned`: job data is live exactly while its job is queued once or held by
  one thread.
- `CleanDestruction`, `DestructionTerminates`: what a destructor leaves behind, and
  that it ends.
- `ImplementsTaskPool`: the refinement, with fairness; among the rest no job starts
  after the destructor has begun.
- `NoStuckLogin`, `LoginEnds`: a slot in LOGGING has a login on its way; the
  exception, and the only one, is a failed join server call.
- `BoundSlotInUse`: a slot with a connection is in use, by a connection of its
  own that registered.
- `LoginLimitHolds`: of the logins counted between two resets, at most two get
  the join server's verdict, in every interleaving.
- `NoDispatchToDyingPool`, `NothingHalfDone`, `ShutdownTerminates`: the order of
  deletions in `tpsvrdone` is what makes the parsers' dispatches safe.
- `ResultsAccounted`, `PerformedAsReported`, `TriesBounded`,
  `LostConnectionReplaced`, `CallReturns`: the driver across failures.
  `OnlySchemaFinishes`: the finished handle that `connect` keeps after a failed
  `SET search_path` is out of reach of a driver without a schema.
- `OwnRows`: a login is judged by its own rows, across reconnects in its select
  and logins executed for nobody, and they are freed before the next.
- `NoCallForgotten`: a request whose caller waits leaves the process only by an
  answer or with the process, and none is executed twice.
- `RefusedForCause`: a good login is refused only if a connection or reconnection of
  this process failed (it has none from then on), or the database reported an error,
  lost the connection a second time after a reconnect, or was short of resources for the first try and every
  retry. One lost connection, or what happened to another login, costs nobody a login.
- `ImplementsLoginService`: every login is answered once, with its own verdict or
  as an invalid account, or its call fails; with the fairness that it ends.
- `QueueServed`: a live service works off its queue.
- `XorInPlace`: for a frame whose length reaches behind its header, the loop that
  unfilters in place reads only bytes it has not changed, and computes what one look
  at the frame would.
- `Delivered`: of an undamaged message that is plain, C3, or C4 with two equal length
  bytes, what `protocol_core` gets is what the client wrote. Damaged messages and
  other C4 messages may get there cut.
- `NothingLost`: what does not get there was damaged, has a C4 length with two
  different bytes, does not fit, or gave a length that does not reach behind its
  header, which the engine does not refuse.
- `FirstBlockChecked`: a message whose first block is damaged does not get there.
- `ListsAreWhole`, `ListedIsReached`: a list is all of one file and never of a
  half filled table; the server a client picks from
  it is the one whose address it is told.

## 4. Where code and text disagree

Four runs check a statement that the source makes about itself, and TLC shows
an execution that contradicts it.

| Run | The text | What the code does |
|---|---|---|
| `welcome` | `protocol.cpp:327`, "Connection (%ld) already exists. Disconnecting..." | disconnects nothing; the connection gets the same positive answer as a registered one |
| `gone_connection` | `main.cpp:65`, "Reset connection ... in client list" | a disconnect overtakes the connection's own hello in the parser queue, which then binds the slot to the gone connection; no later event of its own releases it, only the disconnect of a later connection with the same number would |
| `checksum` | `protocol.cpp:206`, "Decrypt failed, checksum failed" | `decrypt` tests the sum of the blocks before (`simple_modulus.cpp:77`): only a bad first block is noticed, a bad later one adds -1 in place of its size, so the message is parsed shorter: a C3 message of 10 bytes with its second block damaged has 7 bytes of data instead of 9, and a full block damaged takes nine |
| `c4_length` | `muprotocol.h:301`, a 16-bit size for C2 and C4 | the frame of a decrypted C4 message gets the low byte of its length twice (`protocol.cpp:268`): the message is then dropped, cut short, or, for multiples of 256, unfiltered below its buffer |

Remarks, met while modelling and checked by no run of their own:

- `protocol.cpp:93-97`, "client already logging-in", is unreachable: line 86 has
  taken every state but CONNECTED, so a second login resets and closes the client.
- `jsprotocol.cpp:64`, "failed to login more than 3 times", counts login
  requests: a client with correct passwords is refused from its third login on.
- `driver.cpp:56`, "PG connection successful.", is also logged after a failed
  `SET search_path`, with the connection finished and the handle kept. No service
  of the repository passes a schema, and `OnlySchemaFinishes` shows what that saves.
- The join server reads the flags of an account and refuses nothing by them
  (`joinserver/protocol/protocol.cpp:66-73`; `FULL_BLOCK` is never tested).
- The account name stored by `set_account_id` may be that of a login whose slot
  was reset meanwhile (`protocol.cpp:106`).

## 5. What is proved

For every number of threads, jobs, slots, connections, accounts, messages and
retries, from the assumptions each module names about its constants
(`NThreadsAssumption`, `SlotOfAssumption`, ...; they say only that counts are
naturals, that special values are not ordinary ones, that the maps are functions,
that client packets are well formed, and that the keys are a pair):

- **WorkerPool**: `TypeCorrect`, `WakeupSafe`, `DataSafe`, `DestructionSafe`,
  and `RefinesTaskPool` (the safety part of the refinement).
  `NoLostWakeup` needs a counting argument: a push adds one job and, if a thread
  sleeps, one awake thread; a take removes one of each; a thread goes to sleep
  only on an empty queue. The inductive invariant adds to it where a job may be
  (queue, one thread, or finished), that only threads in `running` or `freeing`
  hold one, and that the first `joined` threads are done.
- **MainServer**: `TypeCorrect`, `NoStuckLoginSafe`, `BoundSafe`, `LimitSafe`.
  The inductive invariant `IInv` adds to the properties `WorkOK` (a thread in a
  handler has the message or job it works on, from a connection with a slot)
  and `LedgerOK` (only counted logins have answers). `StepEffect` first shows
  that every step changes the slots by one of the `client_info` methods or by an
  answer; `BoundSafe` and `LimitSafe` then need one case per method.
  `LimitSafe` rests on the counter never falling behind the logins it stands
  for: an answer other than a refusal is given only while fewer than three are
  counted. `NoStuckLoginSafe` follows each login through parser, queue and join
  server thread.
- **PgDriver**: `TypeCorrect`, `ResultsSafe`, `PerformedSafe`, `TriesSafe`,
  `OnlySchemaSafe`, `LostReplacedSafe`. The invariant relates the tries already made to
  `retry_count` and to whether the statement is being repeated, and says that a
  select starts without a pending result.
- **JoinServer**: `TypeCorrect`, `OwnRowsSafe`, `NoCallForgottenSafe`,
  `RefusedForCauseSafe` and `RefinesLoginService` (the safety part of the
  refinement). `JInv` takes the invariant of the driver from `PgDriverProofs`
  and adds, for each phase of the process, what the driver may be doing then, and
  whose rows are pending. A death leaves the driver as it was, and the new
  process replaces all of it, so each step is a step of the driver, leaves it
  alone, or starts it anew. `Causes` ties what the database did (`met`) to where the
  driver is: how often it lost the connection, how many tries it used up, and why it
  has no connection.
- **SimpleModulus**: `RoundTrip` (a block decrypts to the bytes and the size it was
  encrypted with) and `WrongChecksum` (with any other checksum it is refused, but
  its bytes are written all the same), for all 8 bytes, all sizes from 1 to 8 and all keys
  that satisfy `KeysAssumption`: each product of a word and its key fits the 32 bits
  the code computes in, and the two keys of a word are inverse to the modulus. The argument
  goes through the four words of a block. Packing and unpacking: what `add_bits`
  puts in the 18 bits of a word, 16 and then 2, is what the decryption takes out,
  whatever lies in the block beside them (`HeldIsUnpacked`, `PackHolds`). The chain: each word is
  xored with the residue before it, so the decryption undoes it from the last word
  (`ChainTwice`). The residue: times the other key it is the word again
  (`PlainOfResidue`). Below that are the laws of exclusive or, from its bits.
- **Reception**: `TypeOKSafe`, `XorInPlaceSafe`, `DeliveredSafe`, `NothingLostSafe`,
  `FirstBlockCheckedSafe`, for packets, keys, capacities and sets of damaged blocks
  of any size. The properties look at both ends only, so `IInv` says what is in
  between, phase by phase: up to which byte the wire is filtered (`OnWire`); that
  each block is the one encrypted of the wire's bytes, or that one damaged
  (`Ciphered`); that after m turns of `decrypt` there are the bytes of m blocks,
  and the sum of sizes is theirs if none was damaged and negative if the first was
  (`Turned`); that the frame says what is on the wire, if nothing was damaged and the
  length survives (`Framed`, also for packets whose length is too short); and down to which byte the buffer is unfiltered
  (`InEngine`). The step of `DecryptBlock` rests on the two theorems of
  `SimpleModulus`. `InEngine` speaks of the frame alone, true or not, because a damaged
  message reaches the engine too. Each byte meets the same neighbour on both ways
  because the client goes up and the engine goes down.
- **Lifecycle**: `TypeCorrect`, `NoDispatchSafe`, `NothingHalfDoneSafe`. The
  invariants of the three pools come from `WorkerPoolProofs`, as do the lemmas that a
  destroyed pool stays so and that a dispatched job stays in a pool's books. `LInv`
  adds the order of deletion (a pool quits only when those before it in
  `DeletionOrder` are destroyed) and that a message whose handler returned was
  passed on.
- **ConnectServer**: `TypeCorrect`, `ListsAreWholeSafe`, `ListedIsReachedSafe`. The
  invariant says that the table holds the first element of each id among those parsed, and that
  every answer is what a process that read that file has to say.

So every invariant and action property of the passing runs is a theorem. Only
model-checked is what depends on fairness, which the prover does not handle:
`DestructionTerminates`, `LoginEnds`, `ShutdownTerminates`, `CallReturns`,
`QueueServed`, and the fairness half of `ImplementsTaskPool` and
`ImplementsLoginService`. No definition is recursive, so nothing needs induction over
data: the loops of the code are actions, or functions of a position, or written
out for the constant number of turns they have.

## 6. What is not modelled

- The contents of messages beyond what handlers test, and the getters of the
  driver and of the message structures: no state.
- The framing of encrypted answers in `data_send`: no answer the main server sends
  is encrypted. `MainServer` models what `data_send` is used for.
- Key files (`load_key`, `save_key`) and configuration: file access, once, at the
  start. The keys are constants, with the condition that makes a pair of them
  inverse.
- Start-up failures, which end the process, except where a process starts again
  (`JoinServer`, `ConnectServer`).
- The data server, whose handler logs and answers nothing, and the world server, an
  empty stub: there is no behaviour to model.
- The limit of the connect server's list buffer (16,383 shown servers).

`MainServer` takes every answer of the join server as possible, and `JoinServer`
any order and number of calls, so neither rests on the other; `LoginService` is
what would compose them. `MainServer` likewise takes messages as decoded or not,
which is what `Reception` is about.

## 7. Plan

The components are done in the order in which they matter: worker pools, main
server, lifecycle, driver, join server, framing and encryption, connect server.
What is left, in order of importance:

1. An abstract session (per connection: absent, registered, logging in) that
   `MainServer` implements when hellos and disconnects do not race, composed with
   `LoginService` in place of arbitrary answers.
2. What the account name of a slot may be, once the code says what it should be.
3. `data_send` with encrypted answers, when there are any.
4. A theorem that `MainServer`, given the session of 1, implements it.
