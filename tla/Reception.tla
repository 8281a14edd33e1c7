------------------------------ MODULE Reception ------------------------------
(***************************************************************************)
(* How recv_data_parser of the main server gets a packet back that a       *)
(* client filtered and sent, in plain or encrypted in blocks behind a      *)
(* serial number: decrypt, the frame made of what was decrypted, and       *)
(* packet_engine.  The client and the transport, which may damage a block, *)
(* are external.  The connection message F4/06 is neither filtered nor     *)
(* unfiltered and is left out.                                             *)
(***************************************************************************)
EXTENDS PacketEngine, SimpleModulus

CONSTANTS Encrypted,     \* the packets a client sends encrypted, as C3 or C4
          Damages(_)     \* for a number of blocks, the sets of them that may be damaged

\* What is encrypted has the bytes that its length says.
ASSUME ReceptionAssumption ==
  Encrypted \subseteq Packets /\ \A p \in Encrypted : HeaderSize(p) >= HeadEnd(p)

Serial == 7              \* decrypted and logged, never compared

VARIABLES
  cipher,         \* the encrypted blocks
  damaged,        \* history: those the transport damaged
  result,         \* of decrypt(): the size so far, or negative
  decrypt_data    \* what decrypt() wrote, from its first byte on

rVars == <<vars, cipher, damaged, result, decrypt_data>>

Blocks == Len(cipher)
Phases == {"idle", "filter", "sent", "decrypt", "decrypted", "added", "xor",
           "extracted", "dropped", "undefined"}

IsBytes(b) == DOMAIN b = 0 .. Cardinality(DOMAIN b) - 1 /\ \A k \in DOMAIN b : b[k] \in Byte

TypeOK == /\ packet \in Packets \union {NoBytes}
          /\ IsBytes(wire) /\ IsBytes(added) /\ IsBytes(buffer) /\ IsBytes(target)
          /\ i \in Nat \union {-1}
          /\ at \in Phases
          /\ \A b \in DOMAIN cipher : IsBytes(cipher[b]) /\ DOMAIN cipher[b] = 0 .. 10
          /\ damaged \subseteq DOMAIN cipher
          /\ result \in -1 .. 8 * Blocks
          /\ IsBytes(decrypt_data)

Init == /\ EngineInit
        /\ cipher = <<>>
        /\ damaged = {}
        /\ result = 0
        /\ decrypt_data = NoBytes

Kept == UNCHANGED <<cipher, damaged, result, decrypt_data>>
-----------------------------------------------------------------------------
(* Outside.                                                                *)

\* The serial number and what follows the length of the filtered packet.
Plaintext == LET h == HeadEnd(packet)
             IN [k \in 0 .. HeaderSize(packet) - h |-> IF k = 0 THEN Serial ELSE wire[h + k - 1]]

\* The transport changes a bit of the checksum of a block.
Damage(block) == [block EXCEPT ![10] = ByteXor(@, 1)]

Encrypt ==
  /\ at = "sent" /\ packet \in Encrypted
  /\ LET blocks == encrypt(Plaintext, Cardinality(DOMAIN Plaintext))
     IN \E d \in Damages(Len(blocks)) :
          /\ d \subseteq DOMAIN blocks
          /\ cipher' = [b \in DOMAIN blocks |-> IF b \in d THEN Damage(blocks[b])
                                                ELSE blocks[b]]
          /\ damaged' = d
  /\ at' = "decrypt"
  /\ UNCHANGED <<packet, wire, added, buffer, i, target, result, decrypt_data>>
-----------------------------------------------------------------------------
(* recv_data_parser.                                                       *)

\* A negative size is a failure, inside decrypt() and for its caller.
Failed(sum) == sum < 0

(***************************************************************************)
(* One turn of the loop of decrypt().  The block is decrypted first; what  *)
(* is tested is the sum of the blocks before it.                           *)
(***************************************************************************)
DecryptBlock ==
  /\ at = "decrypt" /\ Cardinality(DOMAIN decrypt_data) < 8 * Blocks
  /\ LET n == Cardinality(DOMAIN decrypt_data)
         d == decrypt_block(cipher[n \div 8 + 1])
     IN /\ decrypt_data' = [k \in 0 .. n + 7 |-> IF k < n THEN decrypt_data[k]
                                                 ELSE d.dest[k - n]]
        /\ IF Failed(result) THEN at' = "dropped" /\ UNCHANGED result
           ELSE result' = result + d.result /\ UNCHANGED at
  /\ UNCHANGED <<packet, wire, added, buffer, i, target, cipher, damaged>>

\* "Decrypt failed, checksum failed."
DecryptEnds ==
  /\ at = "decrypt" /\ Cardinality(DOMAIN decrypt_data) = 8 * Blocks
  /\ at' = IF Failed(result) THEN "dropped" ELSE "decrypted"
  /\ UNCHANGED <<packet, wire, added, buffer, i, target>> /\ Kept

Decrypted(k) == IF k \in DOMAIN decrypt_data THEN decrypt_data[k] ELSE 0

FrameC3KeepsSerial ==   \* faulty: the serial number stays in front of the data
  [k \in 0 .. result + 1 |-> CASE k = 0 -> C1
                               [] k = 1 -> (result + 1) % 256
                               [] OTHER -> Decrypted(k - 2)]

\* The C1 frame of a C3 message; the serial makes room for the length.
FrameC3 == [k \in 0 .. result + 1 |-> CASE k = 0 -> C1
                                       [] k = 1 -> (result + 1) % 256
                                       [] OTHER -> Decrypted(k - 1)]

\* The C2 frame of a C4 message: both bytes of the length are the low one.
FrameC4 == [k \in 0 .. result + 2 |-> CASE k = 0 -> C2
                                       [] k \in {1, 2} -> (result + 2) % 256
                                       [] OTHER -> Decrypted(k - 2)]

AddDecrypted ==
  /\ at = "decrypted"
  /\ add_data(IF packet[0] = C1 THEN FrameC3 ELSE FrameC4)
  /\ Kept

\* What the parser does with a packet that is not encrypted.
AddUnencrypted == packet \notin Encrypted /\ AddPlain /\ Kept

Next == \/ \E p \in Packets : Write(p) /\ Kept
        \/ FilterByte /\ Kept
        \/ Sent /\ Kept
        \/ Encrypt
        \/ DecryptBlock \/ DecryptEnds \/ AddDecrypted \/ AddUnencrypted
        \/ EngineStep /\ Kept

Spec == Init /\ [][Next]_rVars
-----------------------------------------------------------------------------
(***************************************************************************)
(* The frame of a C4 message says its length only when both bytes of the   *)
(* length are the same (protocol.cpp:268).  Otherwise it says more than    *)
(* there is, or less, and the packet is cut.                               *)
(***************************************************************************)
LengthSurvives ==
  packet \in Encrypted /\ packet[0] = C2 => packet[1] = packet[2]

\* A frame of decrypted data is one byte longer than its packet.
FitsEngine == HeaderSize(packet) + (IF packet \in Encrypted THEN 1 ELSE 0) < Capacity

(***************************************************************************)
(* What reaches protocol_core is what the client wrote, byte for byte,     *)
(* through filter, blocks, frame and engine, unless a block was damaged or *)
(* the length of a C4 message did not survive.                             *)
(***************************************************************************)
Delivered == at = "extracted" /\ damaged = {} /\ LengthSurvives => target = packet

(***************************************************************************)
(* Nothing the client may say is dropped or leaves the buffer, but damaged *)
(* messages, C4 messages whose length does not survive, those the engine   *)
(* has no room for, and packets whose length does not reach behind their   *)
(* header, which extract_packet does not refuse.                           *)
(***************************************************************************)
NothingLost ==
  at \in {"dropped", "undefined"} =>
    damaged # {} \/ ~LengthSurvives \/ ~FitsEngine \/ ~ReachesBehind(packet)

\* A message whose first block is damaged never reaches protocol_core.
FirstBlockChecked == at = "extracted" => 1 \notin damaged

(***************************************************************************)
(* protocol.cpp:206, "Decrypt failed, checksum failed": a message that     *)
(* fails a checksum is not parsed.                                         *)
(***************************************************************************)
ChecksumChecked == at = "extracted" => damaged = {}

(***************************************************************************)
(* muprotocol.h:301, "Message header for C2/C4 packets", a length of two   *)
(* bytes for both: a C4 packet that fits the engine is parsed.             *)
(***************************************************************************)
EncryptedC2Parsed ==
  at \in {"dropped", "undefined"} /\ packet \in Encrypted /\ packet[0] = C2
    => damaged # {} \/ ~FitsEngine \/ ~ReachesBehind(packet)
=============================================================================
