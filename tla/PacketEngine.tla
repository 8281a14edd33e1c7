---------------------------- MODULE PacketEngine ----------------------------
(***************************************************************************)
(* packet_engine of libmucore: a client filters its packets by xoring each *)
(* byte with the byte before it and with a table, and the server undoes    *)
(* the filter in place, from the last byte down to the header.             *)
(*                                                                         *)
(* A packet is a function from 0 .. n-1 to bytes: its type, its length     *)
(* (one byte for C1, two for C2), its head code and the rest.  The client  *)
(* is external.  The engine is created for one packet and then dropped, so *)
(* its buffer is the data added to it.                                     *)
(***************************************************************************)
EXTENDS Bytes, FiniteSets

CONSTANTS Packets,       \* what clients have to say
          Capacity       \* the 2048 of add_data

C1 == 193
C2 == 194

\* The length a packet's header gives.
HeaderSize(p) == IF p[0] = C1 THEN p[1] ELSE p[1] * 256 + p[2]

\* The last byte that is not filtered, the end_ of xor_data.
HeadEnd(p) == IF p[0] = C1 THEN 2 ELSE 3

\* The length says that there is a byte behind type and length.
ReachesBehind(p) == HeaderSize(p) > HeadEnd(p)

\* As many bytes as the header says, but type and length in any case.
Span(p) == IF ReachesBehind(p) THEN HeaderSize(p) ELSE HeadEnd(p)

WellFormed(p) == /\ p[0] \in {C1, C2}
                 /\ Span(p) \in Nat /\ p \in [0 .. Span(p) - 1 -> Byte]

ASSUME CapacityAssumption == Capacity \in Nat

ASSUME PacketsAssumption == \A p \in Packets : WellFormed(p)

VARIABLES
  packet,   \* what the client says
  wire,     \* the client's copy, filtered up to i
  added,    \* what add_data was given
  buffer,   \* the engine's copy of it, unfiltered down to i
  i,        \* the index of the loop that runs
  at,       \* what is being done with the packet
  target    \* what extract_packet returned

vars == <<packet, wire, added, buffer, i, at, target>>

NoBytes == [k \in {} |-> 0]

EngineInit == /\ packet = NoBytes /\ wire = NoBytes /\ added = NoBytes
              /\ buffer = NoBytes /\ target = NoBytes
              /\ i = 0
              /\ at = "idle"

xor_filter ==
  <<231, 109,  58, 137, 188, 178, 159, 115,  35, 168, 254, 182,  73,  93,  57,  93,
    138, 203,  99, 141, 234, 125,  43,  95, 195, 177, 233, 131,  41,  81, 232,  86>>

\* The byte at k xored with the byte before it and with the table.
Xored(b, k) == ByteXor(b[k], ByteXor(b[k - 1], xor_filter[(k % 32) + 1]))

-----------------------------------------------------------------------------
(* The client.                                                             *)

Write(p) ==
  /\ at = "idle"
  /\ packet' = p /\ wire' = p
  /\ i' = HeadEnd(p) + 1
  /\ at' = "filter"
  /\ UNCHANGED <<added, buffer, target>>

FilterByte ==
  /\ at = "filter" /\ i \in DOMAIN wire
  /\ wire' = [wire EXCEPT ![i] = Xored(wire, i)]
  /\ i' = i + 1
  /\ UNCHANGED <<packet, added, buffer, at, target>>

Sent == /\ at = "filter" /\ i \notin DOMAIN wire
        /\ at' = "sent"
        /\ UNCHANGED <<packet, wire, added, buffer, i, target>>
-----------------------------------------------------------------------------
(* The engine.                                                             *)

TooLongByOne(size) == size >= Capacity - 1   \* faulty: off by one

TooLong(size) == size >= Capacity

\* add_data(source), in a new engine.
add_data(source) ==
  /\ IF TooLong(Cardinality(DOMAIN source)) \/ source = NoBytes
     THEN at' = "dropped" /\ UNCHANGED <<added, buffer>>
     ELSE at' = "added" /\ added' = source /\ buffer' = source
  /\ UNCHANGED <<packet, wire, i, target>>

ExtractFromNextToLast ==   \* faulty: the last byte is not unfiltered
  /\ at = "added"
  /\ LET size_ == HeaderSize(buffer)
     IN IF buffer[0] \notin {C1, C2} \/ Cardinality(DOMAIN buffer) < size_
        THEN at' = "dropped" /\ UNCHANGED i
        ELSE /\ i' = size_ - 2
             /\ at' = IF size_ - 2 < HeadEnd(buffer) THEN "undefined" ELSE "xor"
  /\ UNCHANGED <<packet, wire, added, buffer, target>>

(***************************************************************************)
(* extract_packet() up to xor_data: the type and the length of the header. *)
(* A length that does not reach behind the header is only logged: it       *)
(* starts xor_data below its end, and the loop then leaves the buffer.     *)
(***************************************************************************)
extract_packet ==
  /\ at = "added"
  /\ LET size_ == HeaderSize(buffer)
     IN IF buffer[0] \notin {C1, C2} \/ Cardinality(DOMAIN buffer) < size_
        THEN at' = "dropped" /\ UNCHANGED i
        ELSE /\ i' = size_ - 1
             /\ at' = IF size_ - 1 < HeadEnd(buffer) THEN "undefined" ELSE "xor"
  /\ UNCHANGED <<packet, wire, added, buffer, target>>

\* One turn of the loop of xor_data, downwards and in place.
xor_data ==
  /\ at = "xor" /\ i # HeadEnd(buffer)
  /\ buffer' = [buffer EXCEPT ![i] = Xored(buffer, i)]
  /\ i' = i - 1
  /\ UNCHANGED <<packet, wire, added, at, target>>

\* extract_packet() after xor_data.
Extracted ==
  /\ at = "xor" /\ i = HeadEnd(buffer)
  /\ target' = [k \in 0 .. HeaderSize(buffer) - 1 |-> buffer[k]]
  /\ at' = "extracted"
  /\ UNCHANGED <<packet, wire, added, buffer, i>>

\* recv_data_parser with a packet that is not encrypted.
AddPlain == at = "sent" /\ add_data(wire)

EngineStep == extract_packet \/ xor_data \/ Extracted
-----------------------------------------------------------------------------
(***************************************************************************)
(* What a frame is without its filter: each byte xored with the byte that  *)
(* came before it on the wire, all at once and not in place.               *)
(***************************************************************************)
Unfiltered(f) == [k \in DOMAIN f |-> IF k > HeadEnd(f) /\ k < HeaderSize(f) THEN Xored(f, k)
                                     ELSE f[k]]

(***************************************************************************)
(* xor_data works in place and reads a neighbour in every turn: at each    *)
(* point of its loop the bytes above i are unfiltered and those up to i    *)
(* are as added, so no turn reads a byte that was already changed, and     *)
(* what is extracted is the frame without its filter.  A frame whose       *)
(* length does not reach behind its header has no such loop: it is at      *)
(* "undefined".                                                            *)
(***************************************************************************)
XorInPlace ==
  /\ at = "xor" =>
       /\ i \in DOMAIN buffer /\ i >= HeadEnd(buffer)
       /\ LET unfiltered == Unfiltered(added)
          IN buffer = [k \in DOMAIN added |-> IF k > i THEN unfiltered[k] ELSE added[k]]
  /\ at = "extracted" =>
       LET unfiltered == Unfiltered(added)
       IN \A k \in DOMAIN target : target[k] = unfiltered[k]
=============================================================================
