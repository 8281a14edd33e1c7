--------------------------- MODULE ReceptionProofs ---------------------------
(***************************************************************************)
(* What the main server receives of what a client writes, for all packets, *)
(* keys, capacities and damages: the filter of the client is undone in     *)
(* place, the blocks are decrypted to what was encrypted, and the frame    *)
(* made of them says what is on the wire.                                  *)
(***************************************************************************)
EXTENDS Reception, SimpleModulusProofs, FiniteSetTheorems, SequenceTheorems

(***************************************************************************)
(* The wire's relation to the packet: bytes behind the header and below j  *)
(* are the packet's xored with their neighbour on the wire and the table,  *)
(* all others are the packet's own.                                        *)
(***************************************************************************)
Behind(k, j) == k > HeadEnd(packet) /\ k < j

Mask(b, k) == ByteXor(b[k - 1], xor_filter[(k % 32) + 1])

FilteredTo(j) ==
  /\ wire \in [DOMAIN packet -> Byte]
  /\ \A k \in DOMAIN packet :
       wire[k] = IF Behind(k, j) THEN ByteXor(packet[k], Mask(wire, k)) ELSE packet[k]

Size == HeaderSize(packet)

\* The bytes of the packet: more than Size if its length says too little.
ByteCount == Span(packet)

\* The bytes of Plaintext, and the blocks they are encrypted in.
TextSize == Size - HeadEnd(packet) + 1
BlockCount == (TextSize + 7) \div 8

Text(k) == IF k < TextSize THEN Plaintext[k] ELSE 0
Padded(b) == [k \in 0 .. 7 |-> Text(8 * (b - 1) + k)]
SizeOf(b) == IF TextSize - 8 * (b - 1) >= 8 THEN 8 ELSE TextSize - 8 * (b - 1)
Sealed(b) == encrypt_block(Padded(b), SizeOf(b))

Written == at # "idle" => packet \in Packets

\* Where the client's loop may be: on a byte behind the head code, or at its end.
FilterIndex == i \in Nat /\ i > HeadEnd(packet) /\ (i <= Size \/ i = HeadEnd(packet) + 1)

OnWire ==
  /\ at = "filter" => FilterIndex /\ FilteredTo(i)
  /\ at \notin {"idle", "filter"} => FilteredTo(Size)

Untouched ==
  at \in {"idle", "filter", "sent"} =>
    cipher = <<>> /\ damaged = {} /\ result = 0 /\ decrypt_data = NoBytes

Ciphered ==
  at \in {"decrypt", "decrypted"} =>
    /\ packet \in Encrypted
    /\ damaged \subseteq 1 .. BlockCount
    /\ cipher = [b \in 1 .. BlockCount |-> IF b \in damaged THEN Damage(Sealed(b))
                                           ELSE Sealed(b)]

(***************************************************************************)
(* After m turns of decrypt(): the bytes of m blocks, and their size.  An  *)
(* intact message has the size of what was encrypted.  A damaged first     *)
(* block leaves it negative; other damaged blocks may leave any size.      *)
(***************************************************************************)
Turned(m) ==
  /\ decrypt_data \in [0 .. 8 * m - 1 -> Byte]
  /\ \A k \in 0 .. 8 * m - 1 : decrypt_data[k] = Text(k)
  /\ result \in -1 .. 8 * m
  /\ damaged = {} => result = IF 8 * m < TextSize THEN 8 * m ELSE TextSize
  /\ m >= 1 /\ 1 \in damaged => result < 0

Decrypting ==
  /\ at = "decrypt" => \E m \in 0 .. BlockCount : Turned(m)
  /\ at = "decrypted" => Turned(BlockCount) /\ result >= 0

\* A frame has its header, whatever length this says.
IsFrame(f, m) ==
  /\ f \in [0 .. m - 1 -> Byte]
  /\ m >= 2
  /\ f[0] = C1 \/ (f[0] = C2 /\ m >= 3)

\* The frame says what is on the wire.
SaysWire(f) ==
  /\ HeaderSize(f) = Size /\ HeadEnd(f) = HeadEnd(packet)
  /\ \A k \in 0 .. Size - 1 : k \in DOMAIN f /\ f[k] = wire[k]

Framed ==
  at \in {"added", "xor", "extracted"} =>
    /\ \E m \in Nat : IsFrame(added, m)
    /\ damaged = {} /\ LengthSurvives => SaysWire(added)

InEngine ==
  /\ at = "added" => buffer = added
  /\ at = "xor" =>
       /\ i \in HeadEnd(added) .. HeaderSize(added) - 1
       /\ HeaderSize(added) - 1 \in DOMAIN added
       /\ buffer = [k \in DOMAIN added |-> IF k > i THEN Unfiltered(added)[k] ELSE added[k]]
  /\ at = "extracted" =>
       /\ HeaderSize(added) - 1 \in DOMAIN added
       /\ HeadEnd(added) <= HeaderSize(added) - 1
       /\ target = [k \in 0 .. HeaderSize(added) - 1 |-> Unfiltered(added)[k]]

Checked == at \in {"decrypted", "added", "xor", "extracted"} => 1 \notin damaged

IInv == /\ TypeOK /\ Written /\ OnWire /\ Untouched /\ Ciphered /\ Decrypting
        /\ Framed /\ InEngine /\ Checked /\ NothingLost

-----------------------------------------------------------------------------
(* Runs of bytes.                                                          *)

LEMMA FilterBytes == \A j \in 1 .. 32 : xor_filter[j] \in Byte
BY SMTT(60) DEF xor_filter, Byte

LEMMA XorByte ==
  ASSUME NEW a \in Byte, NEW b \in Byte
  PROVE  ByteXor(a, b) \in Byte /\ ByteXor(ByteXor(a, b), b) = a
<1>1. ByteXor(a, b) \in Byte
  <2>1. 1 \in {1, 2, 4, 8, 16, 32, 64, 128}
    OBVIOUS
  <2> QED
    BY <2>1, XorBits
<1> QED
  BY <1>1, XorAssoc, XorZero

LEMMA Run ==
  ASSUME NEW n \in Nat, NEW b \in [0 .. n - 1 -> Byte]
  PROVE  IsBytes(b) /\ Cardinality(DOMAIN b) = n
<1>1. Cardinality(0 .. n - 1) = n
  BY FS_Interval
<1>2. DOMAIN b = 0 .. n - 1
  OBVIOUS
<1> QED
  BY <1>1, <1>2 DEF IsBytes

LEMMA NoRun == IsBytes(NoBytes) /\ Cardinality(DOMAIN NoBytes) = 0 /\ DOMAIN NoBytes = {}
<1>1. DOMAIN NoBytes = {}
  BY DEF NoBytes
<1> QED
  BY <1>1, FS_EmptySet DEF IsBytes

LEMMA Shape ==
  ASSUME NEW p \in Packets
  PROVE  /\ HeaderSize(p) \in Nat
         /\ HeadEnd(p) \in {2, 3}
         /\ DOMAIN p = 0 .. Span(p) - 1
         /\ p \in [0 .. Span(p) - 1 -> Byte]
         /\ Span(p) \in Nat /\ Span(p) >= HeadEnd(p) /\ Span(p) >= HeaderSize(p)
         /\ HeaderSize(p) > HeadEnd(p) => Span(p) = HeaderSize(p)
         /\ HeaderSize(p) <= HeadEnd(p) => Span(p) = HeadEnd(p)
         /\ \/ p[0] = C1 /\ HeadEnd(p) = 2 /\ HeaderSize(p) = p[1]
            \/ p[0] = C2 /\ HeadEnd(p) = 3 /\ HeaderSize(p) = p[1] * 256 + p[2]
<1>1. /\ p[0] \in {C1, C2}
      /\ Span(p) \in Nat /\ p \in [0 .. Span(p) - 1 -> Byte]
      /\ Span(p) = IF HeaderSize(p) > HeadEnd(p) THEN HeaderSize(p) ELSE HeadEnd(p)
  BY PacketsAssumption DEF WellFormed, Span, ReachesBehind
<1>2. \/ p[0] = C1 /\ HeadEnd(p) = 2 /\ HeaderSize(p) = p[1]
      \/ p[0] = C2 /\ HeadEnd(p) = 3 /\ HeaderSize(p) = p[1] * 256 + p[2]
  BY <1>1 DEF HeadEnd, HeaderSize, C1, C2
<1>3. HeaderSize(p) \in Nat
  <2>1. HeadEnd(p) > 1 /\ Span(p) >= HeadEnd(p)
    BY <1>1, <1>2
  <2>2. p[1] \in Byte /\ (HeadEnd(p) = 3 => p[2] \in Byte)
    BY <1>1, <1>2, <2>1
  <2>3. p[1] \in Nat /\ (HeadEnd(p) = 3 => p[2] \in Nat)
    BY <2>2 DEF Byte
  <2> QED
    BY <1>2, <2>3
<1> QED
  BY <1>1, <1>2, <1>3

-----------------------------------------------------------------------------
(* The filter.                                                             *)

\* The mask of a byte behind the header is a byte.
LEMMA MaskByte ==
  ASSUME NEW n \in Nat, NEW b \in [0 .. n - 1 -> Byte], NEW k \in 1 .. n - 1
  PROVE  Mask(b, k) \in Byte
<1>1. (k % 32) + 1 \in 1 .. 32
  OBVIOUS
<1>2. xor_filter[(k % 32) + 1] \in Byte
  BY <1>1, FilterBytes
<1>3. b[k - 1] \in Byte
  OBVIOUS
<1> QED
  BY <1>2, <1>3, XorByte DEF Mask

LEMMA XoredByte ==
  ASSUME NEW n \in Nat, NEW b \in [0 .. n - 1 -> Byte], NEW k \in 1 .. n - 1
  PROVE  Xored(b, k) = ByteXor(b[k], Mask(b, k)) /\ Xored(b, k) \in Byte
<1>1. Mask(b, k) \in Byte
  BY MaskByte
<1>2. b[k] \in Byte
  OBVIOUS
<1> QED
  BY <1>1, <1>2, XorByte DEF Xored, Mask

\* Header and head code are not filtered.
LEMMA HeaderOnWire ==
  ASSUME packet \in Packets, NEW j \in Nat, FilteredTo(j)
  PROVE  /\ wire \in [0 .. ByteCount - 1 -> Byte]
         /\ \A k \in 0 .. ByteCount - 1 : k <= HeadEnd(packet) => wire[k] = packet[k]
         /\ \A k \in 0 .. HeadEnd(packet) - 1 : wire[k] = packet[k]
         /\ HeaderSize(wire) = Size
         /\ HeadEnd(wire) = HeadEnd(packet)
<1>1. /\ DOMAIN packet = 0 .. ByteCount - 1 /\ ByteCount \in Nat /\ ByteCount >= HeadEnd(packet)
      /\ \/ packet[0] = C1 /\ HeadEnd(packet) = 2 /\ Size = packet[1]
         \/ packet[0] = C2 /\ HeadEnd(packet) = 3 /\ Size = packet[1] * 256 + packet[2]
  BY Shape DEF Size, ByteCount
<1>2. \A k \in 0 .. ByteCount - 1 : k <= HeadEnd(packet) => wire[k] = packet[k]
  BY <1>1 DEF FilteredTo, Behind
<1>3. \A k \in 0 .. HeadEnd(packet) - 1 : k \in 0 .. ByteCount - 1 /\ k <= HeadEnd(packet)
  BY <1>1
<1>4. \A k \in 0 .. HeadEnd(packet) - 1 : wire[k] = packet[k]
  BY <1>2, <1>3
<1>5. wire[0] = packet[0] /\ wire[1] = packet[1]
      /\ (HeadEnd(packet) = 3 => wire[2] = packet[2])
  BY <1>1, <1>4
<1>6. HeaderSize(wire) = Size /\ HeadEnd(wire) = HeadEnd(packet)
  BY <1>1, <1>5 DEF HeaderSize, HeadEnd, C1, C2
<1> QED
  BY <1>1, <1>2, <1>4, <1>6 DEF FilteredTo

\* Xoring a wire byte with its mask again gives the packet's byte.
LEMMA Undone ==
  ASSUME packet \in Packets, FilteredTo(Size),
         NEW k \in DOMAIN packet, k > HeadEnd(packet)
  PROVE  Xored(wire, k) = packet[k]
<1>1. /\ Size \in Nat /\ DOMAIN packet = 0 .. Size - 1
      /\ packet[k] \in Byte /\ HeadEnd(packet) \in {2, 3}
  <2>1. /\ HeaderSize(packet) \in Nat /\ HeadEnd(packet) \in {2, 3}
        /\ DOMAIN packet = 0 .. Span(packet) - 1
        /\ packet \in [0 .. Span(packet) - 1 -> Byte]
        /\ HeaderSize(packet) > HeadEnd(packet) => Span(packet) = HeaderSize(packet)
        /\ HeaderSize(packet) <= HeadEnd(packet) => Span(packet) = HeadEnd(packet)
    BY Shape
  <2>2. Span(packet) = HeaderSize(packet)
    BY <2>1
  <2> QED
    BY <2>1, <2>2 DEF Size
<1>2. wire \in [0 .. Size - 1 -> Byte] /\ k \in 1 .. Size - 1
  BY <1>1 DEF FilteredTo
<1>3. Mask(wire, k) \in Byte
  BY <1>1, <1>2, MaskByte
<1>4. wire[k] = ByteXor(packet[k], Mask(wire, k))
  BY <1>1 DEF FilteredTo, Behind
<1> QED
  BY <1>1, <1>2, <1>3, <1>4, XorByte, XoredByte

-----------------------------------------------------------------------------
(* The client.                                                             *)

LEMMA Initially == Init => IInv
<1> SUFFICES ASSUME Init
             PROVE  IInv
  OBVIOUS
<1>1. /\ packet = NoBytes /\ wire = NoBytes /\ added = NoBytes /\ buffer = NoBytes
      /\ target = NoBytes /\ i = 0 /\ at = "idle"
      /\ cipher = <<>> /\ damaged = {} /\ result = 0 /\ decrypt_data = NoBytes
  BY DEF Init, EngineInit
<1>2. IsBytes(wire) /\ IsBytes(added) /\ IsBytes(buffer) /\ IsBytes(target)
      /\ IsBytes(decrypt_data)
  BY <1>1, NoRun
<1>3. result \in -1 .. 8 * Blocks
  BY <1>1 DEF Blocks
<1>4. TypeOK
  BY <1>1, <1>2, <1>3 DEF TypeOK, Phases
<1> QED
  BY <1>1, <1>4 DEF IInv, Written, OnWire, Untouched, Ciphered, Decrypting, Framed, InEngine,
                    Checked, NothingLost

LEMMA StepWrite ==
  ASSUME IInv, NEW p \in Packets, Write(p), Kept
  PROVE  IInv'
<1>1. /\ at = "idle" /\ at' = "filter"
      /\ packet' = p /\ wire' = p /\ i' = HeadEnd(p) + 1
      /\ UNCHANGED <<added, buffer, target, cipher, damaged, result, decrypt_data>>
  BY DEF Write, Kept
<1>2. /\ HeaderSize(p) \in Nat /\ HeadEnd(p) \in {2, 3} /\ Span(p) \in Nat
      /\ DOMAIN p = 0 .. Span(p) - 1 /\ p \in [0 .. Span(p) - 1 -> Byte]
  BY Shape
<1>3. FilterIndex'
  BY <1>1, <1>2 DEF FilterIndex
<1>4. FilteredTo(i)'
  <2>1. \A k \in DOMAIN p : ~ Behind(k, i)'
    BY <1>1, <1>2 DEF Behind
  <2> QED
    BY <1>1, <1>2, <2>1 DEF FilteredTo
<1>5. TypeOK'
  <2>1. IsBytes(wire')
    BY <1>1, <1>2, Run
  <2> QED
    BY <1>1, <1>2, <2>1 DEF IInv, TypeOK, Phases, IsBytes, Blocks
<1> QED
  BY <1>1, <1>3, <1>4, <1>5
     DEF IInv, Written, OnWire, Untouched, Ciphered, Decrypting, Framed, InEngine, Checked,
         NothingLost

LEMMA StepFilterByte ==
  ASSUME IInv, FilterByte, Kept
  PROVE  IInv'
<1>1. /\ at = "filter" /\ at' = "filter" /\ i \in DOMAIN wire /\ i' = i + 1
      /\ wire' = [wire EXCEPT ![i] = Xored(wire, i)]
      /\ UNCHANGED <<packet, added, buffer, target, cipher, damaged, result, decrypt_data>>
  BY DEF FilterByte, Kept
<1>2. packet \in Packets /\ FilteredTo(i) /\ FilterIndex
  BY <1>1 DEF IInv, Written, OnWire
<1>3. /\ ByteCount \in Nat /\ DOMAIN packet = 0 .. ByteCount - 1 /\ HeadEnd(packet) \in {2, 3}
      /\ packet \in [0 .. ByteCount - 1 -> Byte] /\ Size \in Nat
      /\ Size > HeadEnd(packet) => ByteCount = Size
      /\ Size <= HeadEnd(packet) => ByteCount = HeadEnd(packet)
  BY <1>2, Shape DEF Size, ByteCount
<1>4. /\ wire \in [0 .. ByteCount - 1 -> Byte] /\ i \in 1 .. ByteCount - 1
      /\ wire[i] = packet[i]
  BY <1>1, <1>2, <1>3 DEF FilteredTo, Behind, FilterIndex
<1>5. Xored(wire, i) = ByteXor(packet[i], Mask(wire, i)) /\ Xored(wire, i) \in Byte
  BY <1>3, <1>4, XoredByte
<1>6. wire' \in [0 .. ByteCount - 1 -> Byte]
  BY <1>1, <1>4, <1>5
<1>7. ASSUME NEW k \in DOMAIN packet
      PROVE  wire'[k] = IF Behind(k, i)' THEN ByteXor(packet[k], Mask(wire, k)')
                        ELSE packet[k]
  <2>1. Behind(k, i)' <=> Behind(k, i) \/ k = i
    BY <1>1, <1>2, <1>3 DEF Behind, FilterIndex
  <2>2. CASE k = i
    <3>1. Mask(wire, k)' = Mask(wire, k)
      BY <1>1, <1>4, <2>2 DEF Mask
    <3> QED
      BY <1>1, <1>4, <1>5, <2>1, <2>2, <3>1
  <2>3. CASE k # i
    <3>1. wire'[k] = wire[k]
      BY <1>1, <1>3, <1>4, <2>3
    <3>2. wire[k] = IF Behind(k, i) THEN ByteXor(packet[k], Mask(wire, k)) ELSE packet[k]
      BY <1>2 DEF FilteredTo
    <3>3. Behind(k, i) => Mask(wire, k)' = Mask(wire, k)
      <4>1. Behind(k, i) => k - 1 \in 0 .. ByteCount - 1 /\ k - 1 # i
        BY <1>2, <1>3, <1>4 DEF Behind
      <4>2. Behind(k, i) => wire'[k - 1] = wire[k - 1]
        BY <1>1, <1>4, <4>1
      <4> QED
        BY <4>2 DEF Mask
    <3> QED
      BY <2>1, <2>3, <3>1, <3>2, <3>3
  <2> QED
    BY <2>2, <2>3
<1>8. FilteredTo(i)'
  BY <1>1, <1>3, <1>6, <1>7 DEF FilteredTo
<1>9. FilterIndex'
  BY <1>1, <1>2, <1>3, <1>4 DEF Size, FilterIndex
<1>10. TypeOK'
  <2>1. IsBytes(wire')
    BY <1>3, <1>6, Run
  <2>2. i' \in Nat
    BY <1>1, <1>4
  <2> QED
    BY <1>1, <2>1, <2>2 DEF IInv, TypeOK, Phases, IsBytes, Blocks
<1> QED
  BY <1>1, <1>2, <1>8, <1>9, <1>10
     DEF IInv, Written, OnWire, Untouched, Ciphered, Decrypting, Framed, InEngine, Checked,
         NothingLost

LEMMA StepSent ==
  ASSUME IInv, Sent, Kept
  PROVE  IInv'
<1>1. /\ at = "filter" /\ at' = "sent" /\ i \notin DOMAIN wire
      /\ UNCHANGED <<packet, wire, added, buffer, i, target, cipher, damaged, result,
                     decrypt_data>>
  BY DEF Sent, Kept
<1>2. packet \in Packets /\ FilteredTo(i) /\ FilterIndex
  BY <1>1 DEF IInv, Written, OnWire
<1>3. /\ Size \in Nat /\ DOMAIN packet = 0 .. ByteCount - 1 /\ HeadEnd(packet) \in {2, 3}
      /\ Size > HeadEnd(packet) => ByteCount = Size
      /\ Size <= HeadEnd(packet) => ByteCount = HeadEnd(packet)
  BY <1>2, Shape DEF Size, ByteCount
<1>4. DOMAIN wire = 0 .. ByteCount - 1
  BY <1>2, <1>3 DEF FilteredTo
<1>5. \A k \in DOMAIN packet : Behind(k, i) <=> Behind(k, Size)
  BY <1>1, <1>2, <1>3, <1>4 DEF FilterIndex, Behind
<1>6. FilteredTo(Size)'
  <2>1. FilteredTo(Size)
    BY <1>2, <1>5 DEF FilteredTo
  <2> QED
    BY <1>1, <2>1 DEF FilteredTo, Behind, Mask, Size
<1>7. TypeOK'
  BY <1>1 DEF IInv, TypeOK, Phases, IsBytes, Blocks
<1> QED
  BY <1>1, <1>2, <1>6, <1>7
     DEF IInv, Written, OnWire, Untouched, Ciphered, Decrypting, Framed, InEngine, Checked,
         NothingLost

\* What no step of the server changes.
LEMMA WireKept ==
  ASSUME FilteredTo(Size), UNCHANGED <<packet, wire>>
  PROVE  FilteredTo(Size)'
BY DEF FilteredTo, Behind, Mask, Size

-----------------------------------------------------------------------------
(* Encryption and decryption.                                              *)

LEMMA SizeFacts ==
  ASSUME packet \in Encrypted
  PROVE  /\ packet \in Packets
         /\ Size \in Nat /\ HeadEnd(packet) \in {2, 3} /\ Size >= HeadEnd(packet)
         /\ ByteCount = Size
         /\ TextSize \in Nat /\ TextSize >= 1 /\ TextSize = Size - HeadEnd(packet) + 1
         /\ BlockCount \in Nat /\ BlockCount >= 1
         /\ \A m \in Nat : m < BlockCount <=> 8 * m < TextSize
<1>1. /\ packet \in Packets
      /\ Size \in Nat /\ HeadEnd(packet) \in {2, 3} /\ Size >= HeadEnd(packet)
      /\ ByteCount = Size
  BY Shape, ReceptionAssumption DEF Size, ByteCount
<1>2. TextSize \in Nat /\ TextSize >= 1 /\ TextSize = Size - HeadEnd(packet) + 1
  BY <1>1 DEF TextSize
<1>3. \A n \in Nat : /\ (n + 7) \div 8 \in Nat
                     /\ n >= 1 => (n + 7) \div 8 >= 1
                     /\ \A m \in Nat : m < (n + 7) \div 8 <=> 8 * m < n
  OBVIOUS
<1> QED
  BY <1>1, <1>2, <1>3 DEF BlockCount

\* What is encrypted are the serial number and bytes of the wire.
LEMMA PlainBytes ==
  ASSUME packet \in Encrypted, FilteredTo(Size)
  PROVE  /\ Plaintext \in [0 .. TextSize - 1 -> Byte]
         /\ Cardinality(DOMAIN Plaintext) = TextSize
         /\ \A k \in 1 .. TextSize - 1 : Plaintext[k] = wire[HeadEnd(packet) + k - 1]
         /\ \A k \in Nat : Text(k) \in Byte
         /\ \A k \in 0 .. TextSize - 1 : Text(k) = Plaintext[k]
<1>1. /\ packet \in Packets /\ ByteCount = Size
      /\ Size \in Nat /\ HeadEnd(packet) \in {2, 3} /\ Size >= HeadEnd(packet)
      /\ TextSize \in Nat /\ TextSize = Size - HeadEnd(packet) + 1
  BY SizeFacts
<1>2. wire \in [0 .. Size - 1 -> Byte]
  BY <1>1, HeaderOnWire
<1>3. /\ DOMAIN Plaintext = 0 .. TextSize - 1
      /\ \A k \in 0 .. TextSize - 1 :
           Plaintext[k] = IF k = 0 THEN Serial ELSE wire[HeadEnd(packet) + k - 1]
      /\ Plaintext = [k \in 0 .. TextSize - 1 |-> Plaintext[k]]
  BY <1>1 DEF Plaintext, Size
<1>4. \A k \in 0 .. TextSize - 1 : Plaintext[k] \in Byte
  <2>1. Serial \in Byte
    BY DEF Serial, Byte
  <2>2. \A k \in 1 .. TextSize - 1 : HeadEnd(packet) + k - 1 \in 0 .. Size - 1
    BY <1>1
  <2>3. \A k \in 1 .. TextSize - 1 : wire[HeadEnd(packet) + k - 1] \in Byte
    BY <1>2, <2>2
  <2> QED
    BY <1>1, <1>3, <2>1, <2>3
<1>5. Plaintext \in [0 .. TextSize - 1 -> Byte]
  BY <1>3, <1>4
<1>6. Cardinality(DOMAIN Plaintext) = TextSize
  BY <1>1, <1>5, Run
<1>7. \A k \in 0 .. TextSize - 1 : Text(k) = Plaintext[k]
  BY <1>1 DEF Text
<1>8. \A k \in Nat : Text(k) \in Byte
  <2>1. 0 \in Byte
    BY DEF Byte
  <2> QED
    BY <1>1, <1>4, <2>1 DEF Text
<1> QED
  BY <1>1, <1>3, <1>5, <1>6, <1>7, <1>8

LEMMA BlockFacts ==
  ASSUME packet \in Encrypted, FilteredTo(Size), NEW b \in 1 .. BlockCount
  PROVE  Padded(b) \in [0 .. 7 -> Byte] /\ SizeOf(b) \in 1 .. 8
<1>1. /\ TextSize \in Nat /\ BlockCount \in Nat /\ 8 * (b - 1) < TextSize /\ b \in Nat /\ b >= 1
  <2>1. /\ TextSize \in Nat /\ BlockCount \in Nat
        /\ \A m \in Nat : m < BlockCount <=> 8 * m < TextSize
    BY SizeFacts
  <2>2. b - 1 \in Nat /\ b - 1 < BlockCount
    BY <2>1
  <2> QED
    BY <2>1, <2>2
<1>2. SizeOf(b) \in 1 .. 8
  BY <1>1 DEF SizeOf
<1>3. \A k \in 0 .. 7 : 8 * (b - 1) + k \in Nat
  BY <1>1
<1>4. \A k \in 0 .. 7 : Text(8 * (b - 1) + k) \in Byte
  BY <1>3, PlainBytes
<1> QED
  BY <1>2, <1>4 DEF Padded

LEMMA SealedBlock ==
  ASSUME packet \in Encrypted, FilteredTo(Size), NEW b \in 1 .. BlockCount
  PROVE  /\ Sealed(b) \in [0 .. 10 -> Byte]
         /\ Sealed(b)[10] = check_sum(Padded(b)) /\ check_sum(Padded(b)) \in Byte
<1>1. Padded(b) \in [0 .. 7 -> Byte] /\ SizeOf(b) \in 1 .. 8
  BY BlockFacts
<1>2. SizeOf(b) \in Byte
  BY <1>1 DEF Byte
<1> QED
  BY <1>1, <1>2, EncryptedBlock, CheckByte DEF Sealed, Carries

\* The damage changes the checksum.
LEMMA DamagedByte ==
  ASSUME NEW c \in Byte
  PROVE  ByteXor(c, 1) \in Byte /\ ByteXor(c, 1) # c
<1>1. 1 \in Byte /\ 1 \in {1, 2, 4, 8, 16, 32, 64, 128}
  BY DEF Byte
<1>2. Bit(ByteXor(c, 1), 1) = IF Bit(c, 1) = Bit(1, 1) THEN 0 ELSE 1
  BY <1>1, XorBits
<1>3. Bit(1, 1) = 1
  BY DEF Bit
<1>4. Bit(c, 1) \in {0, 1}
  BY <1>1, BitIsBit
<1> QED
  BY <1>1, <1>2, <1>3, <1>4, XorByte

LEMMA DamagedBlock ==
  ASSUME packet \in Encrypted, FilteredTo(Size), NEW b \in 1 .. BlockCount
  PROVE  /\ Damage(Sealed(b)) \in [0 .. 10 -> Byte]
         /\ decrypt_block(Damage(Sealed(b))) = [dest |-> Padded(b), result |-> -1]
<1> DEFINE p == Padded(b)
           n == SizeOf(b)
           s == Sealed(b)
           c == ByteXor(s[10], 1)
<1>1. /\ s \in [0 .. 10 -> Byte] /\ s[10] = check_sum(Padded(b)) /\ s[10] \in Byte
  BY SealedBlock
<1>2. c \in Byte /\ c # check_sum(Padded(b))
  BY <1>1, DamagedByte
<1>3. Damage(s) = [s EXCEPT ![10] = c]
  BY DEF Damage
<1>4. p \in [0 .. 7 -> Byte] /\ n \in 1 .. 8
  BY BlockFacts
<1>5. s = encrypt_block(p, n)
  BY DEF Sealed
<1>6. c # check_sum(p)
  BY <1>2
<1> HIDE DEF p, n, s, c
<1>7. Damage(s) \in [0 .. 10 -> Byte]
  BY <1>1, <1>2, <1>3
<1>8. decrypt_block([encrypt_block(p, n) EXCEPT ![10] = c]) = [dest |-> p, result |-> -1]
  BY <1>2, <1>4, <1>6, WrongChecksum
<1>9. decrypt_block(Damage(s)) = [dest |-> p, result |-> -1]
  BY <1>3, <1>5, <1>8
<1> QED
  BY <1>7, <1>9 DEF p, s

LEMMA IntactBlock ==
  ASSUME packet \in Encrypted, FilteredTo(Size), NEW b \in 1 .. BlockCount
  PROVE  decrypt_block(Sealed(b)) = [dest |-> Padded(b), result |-> SizeOf(b)]
<1>1. Padded(b) \in [0 .. 7 -> Byte] /\ SizeOf(b) \in 1 .. 8
  BY BlockFacts
<1> QED
  BY <1>1, RoundTrip DEF Sealed

LEMMA LenOfBlocks ==
  ASSUME NEW n \in Nat, NEW e, e = [b \in 1 .. n |-> e[b]]
  PROVE  Len(e) = n /\ DOMAIN e = 1 .. n
<1> DEFINE S == {e[b] : b \in 1 .. n}
<1>1. e \in [1 .. n -> S]
  OBVIOUS
<1> HIDE DEF S
<1>2. e \in Seq(S)
  BY <1>1, SeqDef
<1>3. Len(e) \in Nat /\ DOMAIN e = 1 .. Len(e)
  BY <1>2, LenProperties
<1> QED
  BY <1>1, <1>3

\* The blocks of encrypt() are those sealed.
LEMMA EncryptedBlocks ==
  ASSUME packet \in Encrypted, FilteredTo(Size)
  PROVE  encrypt(Plaintext, Cardinality(DOMAIN Plaintext)) = [b \in 1 .. BlockCount |-> Sealed(b)]
<1>1. Cardinality(DOMAIN Plaintext) = TextSize
  BY PlainBytes
<1>2. ASSUME NEW b \in 1 .. BlockCount
      PROVE  encrypt_block([k \in 0 .. 7 |-> IF 8 * (b - 1) + k < TextSize
                                             THEN Plaintext[8 * (b - 1) + k] ELSE 0],
                           IF TextSize - 8 * (b - 1) >= 8 THEN 8 ELSE TextSize - 8 * (b - 1))
               = Sealed(b)
  BY DEF Sealed, SizeOf, Padded, Text
<1> QED
  BY <1>1, <1>2 DEF encrypt, BlockCount

LEMMA StepEncrypt ==
  ASSUME IInv, Encrypt
  PROVE  IInv'
<1>1. /\ at = "sent" /\ at' = "decrypt" /\ packet \in Encrypted
      /\ UNCHANGED <<packet, wire, added, buffer, i, target, result, decrypt_data>>
  BY DEF Encrypt
<1>2. /\ packet \in Packets /\ packet \in Encrypted /\ FilteredTo(Size)
      /\ result = 0 /\ decrypt_data = NoBytes
  BY <1>1 DEF IInv, Written, OnWire, Untouched
<1> DEFINE blocks == encrypt(Plaintext, Cardinality(DOMAIN Plaintext))
<1>3. blocks = [b \in 1 .. BlockCount |-> Sealed(b)]
  BY <1>2, EncryptedBlocks
<1>4. /\ damaged' \subseteq DOMAIN blocks
      /\ cipher' = [b \in DOMAIN blocks |-> IF b \in damaged' THEN Damage(blocks[b])
                                            ELSE blocks[b]]
  BY DEF Encrypt
<1> HIDE DEF blocks
<1>5. /\ damaged' \subseteq 1 .. BlockCount
      /\ cipher' = [b \in 1 .. BlockCount |-> IF b \in damaged' THEN Damage(Sealed(b))
                                              ELSE Sealed(b)]
  BY <1>3, <1>4
<1>6. BlockCount \in Nat /\ TextSize \in Nat /\ TextSize >= 1
  BY <1>2, SizeFacts
<1>7. Len(cipher') = BlockCount /\ DOMAIN cipher' = 1 .. BlockCount
  BY <1>5, <1>6, LenOfBlocks
<1>8. \A b \in 1 .. BlockCount : cipher'[b] \in [0 .. 10 -> Byte]
  BY <1>2, <1>5, SealedBlock, DamagedBlock
<1>9. TypeOK'
  <2>1. \A b \in 1 .. BlockCount : IsBytes(cipher'[b]) /\ DOMAIN cipher'[b] = 0 .. 10
    <3>1. \A c \in [0 .. 11 - 1 -> Byte] : IsBytes(c)
      BY Run
    <3> QED
      BY <1>8, <3>1
  <2>2. result' \in -1 .. 8 * Len(cipher')
    BY <1>1, <1>2, <1>6, <1>7
  <2> QED
    BY <1>1, <1>5, <1>7, <2>1, <2>2 DEF IInv, TypeOK, Phases, IsBytes, Blocks
<1>10. Ciphered'
  BY <1>1, <1>5 DEF Ciphered, BlockCount, TextSize, Size, Sealed, Padded, SizeOf, Text, Plaintext
<1>11. Turned(0)'
  <2>1. decrypt_data \in [0 .. 8 * 0 - 1 -> Byte]
    BY <1>2 DEF NoBytes
  <2>2. TextSize' = TextSize
    BY <1>1 DEF TextSize, Size
  <2> QED
    BY <1>1, <1>2, <1>6, <2>1, <2>2 DEF Turned
<1>12. Decrypting'
  BY <1>1, <1>6, <1>11 DEF Decrypting, BlockCount, TextSize, Size
<1>13. FilteredTo(Size)'
  BY <1>1, <1>2, WireKept
<1> QED
  BY <1>1, <1>2, <1>9, <1>10, <1>12, <1>13
     DEF IInv, Written, OnWire, Untouched, Framed, InEngine, Checked, NothingLost

LEMMA StepDecryptBlock ==
  ASSUME IInv, DecryptBlock
  PROVE  IInv'
<1>1. /\ at = "decrypt" /\ Cardinality(DOMAIN decrypt_data) < 8 * Blocks
      /\ at' \in {"decrypt", "dropped"}
      /\ UNCHANGED <<packet, wire, added, buffer, i, target, cipher, damaged>>
  BY DEF DecryptBlock
<1>2. packet \in Packets /\ packet \in Encrypted /\ FilteredTo(Size)
  BY <1>1 DEF IInv, Written, OnWire, Ciphered
<1>3. /\ packet \in Encrypted /\ damaged \subseteq 1 .. BlockCount
      /\ cipher = [b \in 1 .. BlockCount |-> IF b \in damaged THEN Damage(Sealed(b))
                                             ELSE Sealed(b)]
  BY <1>1 DEF IInv, Ciphered
<1>4. /\ BlockCount \in Nat /\ TextSize \in Nat
      /\ \A m \in Nat : m < BlockCount <=> 8 * m < TextSize
  BY <1>2, SizeFacts
<1>5. Blocks = BlockCount
  BY <1>3, <1>4, LenOfBlocks DEF Blocks
<1>6. PICK m \in 0 .. BlockCount : Turned(m)
  BY <1>1 DEF IInv, Decrypting
<1>7. Cardinality(DOMAIN decrypt_data) = 8 * m
  BY <1>6, <1>4, Run DEF Turned
<1>8. m < BlockCount /\ 8 * m < TextSize /\ m \in Nat /\ (8 * m) \div 8 = m
  <2>1. m \in Nat /\ 8 * m < 8 * BlockCount
    BY <1>1, <1>4, <1>5, <1>7
  <2>2. m < BlockCount /\ (8 * m) \div 8 = m
    BY <1>4, <2>1
  <2> QED
    BY <1>4, <2>1, <2>2
<1> DEFINE d == decrypt_block(cipher[m + 1])
<1>9. /\ decrypt_data' = [k \in 0 .. 8 * m + 7 |-> IF k < 8 * m THEN decrypt_data[k]
                                                   ELSE d.dest[k - 8 * m]]
      /\ IF result < 0 THEN at' = "dropped" /\ result' = result
         ELSE result' = result + d.result /\ at' = "decrypt"
  BY <1>1, <1>7, <1>8 DEF DecryptBlock, Failed
<1>10. d = [dest |-> Padded(m + 1),
            result |-> IF m + 1 \in damaged THEN -1 ELSE SizeOf(m + 1)]
  <2>1. m + 1 \in 1 .. BlockCount
    BY <1>4, <1>8
  <2>2. cipher[m + 1] = IF m + 1 \in damaged THEN Damage(Sealed(m + 1)) ELSE Sealed(m + 1)
    BY <1>3, <2>1
  <2> QED
    BY <1>2, <2>1, <2>2, DamagedBlock, IntactBlock
<1> HIDE DEF d
<1>11. \A k \in Nat : Text(k)' = Text(k)
  BY <1>1 DEF Text, TextSize, Plaintext, Size
<1>12. TextSize' = TextSize /\ BlockCount' = BlockCount
  BY <1>1 DEF TextSize, Size, BlockCount
<1>13. \A k \in 0 .. 8 * m + 7 : decrypt_data'[k] = Text(k)
  <2>1. ASSUME NEW k \in 0 .. 8 * m + 7, k >= 8 * m
        PROVE  d.dest[k - 8 * m] = Text(k)
    <3>1. k - 8 * m \in 0 .. 7 /\ 8 * (m + 1 - 1) + (k - 8 * m) = k
      BY <1>8, <2>1
    <3>2. Padded(m + 1)[k - 8 * m] = Text(8 * (m + 1 - 1) + (k - 8 * m))
      BY <3>1 DEF Padded
    <3> QED
      BY <1>10, <3>1, <3>2
  <2>2. ASSUME NEW k \in 0 .. 8 * m + 7, k < 8 * m
        PROVE  decrypt_data[k] = Text(k)
    BY <1>6, <1>8, <2>2 DEF Turned
  <2> QED
    BY <1>8, <1>9, <2>1, <2>2
<1>14. decrypt_data' \in [0 .. 8 * m + 7 -> Byte]
  <2>1. \A k \in 0 .. 8 * m + 7 : k \in Nat /\ Text(k) \in Byte
    BY <1>2, <1>8, PlainBytes
  <2>2. decrypt_data' = [k \in 0 .. 8 * m + 7 |-> decrypt_data'[k]]
    BY <1>9
  <2> QED
    BY <1>13, <2>1, <2>2
<1>15. /\ result \in -1 .. 8 * m
       /\ damaged = {} => result = 8 * m
       /\ m >= 1 /\ 1 \in damaged => result < 0
  BY <1>6, <1>8 DEF Turned
<1>16. at' = "decrypt" => Turned(m + 1)'
  <2> SUFFICES ASSUME at' = "decrypt"
               PROVE  Turned(m + 1)'
    OBVIOUS
  <2>1. result >= 0 /\ result' = result + (IF m + 1 \in damaged THEN -1 ELSE SizeOf(m + 1))
    BY <1>9, <1>10, <1>15
  <2>2. SizeOf(m + 1) = IF TextSize - 8 * m >= 8 THEN 8 ELSE TextSize - 8 * m
    BY <1>8 DEF SizeOf
  <2>3. result' \in -1 .. 8 * (m + 1)
    BY <1>4, <1>8, <1>15, <2>1, <2>2
  <2>4. damaged = {} => result' = IF 8 * (m + 1) < TextSize THEN 8 * (m + 1) ELSE TextSize
    BY <1>4, <1>8, <1>15, <2>1, <2>2
  <2>5. 1 \in damaged => result' < 0
    <3>1. CASE m = 0
      BY <1>15, <2>1, <3>1
    <3>2. CASE m >= 1
      BY <1>15, <2>1, <3>2
    <3> QED
      BY <1>8, <3>1, <3>2
  <2>6. 8 * (m + 1) - 1 = 8 * m + 7
    BY <1>8
  <2>7. \A k \in 0 .. 8 * m + 7 : decrypt_data'[k] = Text(k)'
    BY <1>8, <1>11, <1>13
  <2> QED
    BY <1>1, <1>12, <1>14, <2>3, <2>4, <2>5, <2>6, <2>7 DEF Turned
<1>17. result' \in -1 .. 8 * Blocks'
  <2>1. Blocks' = BlockCount
    BY <1>1, <1>5 DEF Blocks
  <2>2. at' = "dropped" => result' = result
    BY <1>9
  <2>3. at' = "decrypt" => result' \in -1 .. 8 * (m + 1)
    BY <1>16 DEF Turned
  <2>4. 8 * m <= 8 * BlockCount /\ 8 * (m + 1) <= 8 * BlockCount
    BY <1>4, <1>8
  <2> QED
    BY <1>1, <1>4, <1>8, <1>15, <2>1, <2>2, <2>3, <2>4
<1>18. TypeOK'
  <2>1. IsBytes(decrypt_data')
    <3>1. 8 * (m + 1) \in Nat /\ 8 * m + 7 = 8 * (m + 1) - 1
      BY <1>8
    <3> QED
      BY <1>14, <3>1, Run
  <2> QED
    BY <1>1, <1>17, <2>1 DEF IInv, TypeOK, Phases, IsBytes
<1>19. Ciphered'
  BY <1>1, <1>3
     DEF Ciphered, BlockCount, TextSize, Size, Sealed, Padded, SizeOf, Text, Plaintext
<1>20. Decrypting'
  <2>1. m + 1 \in 0 .. BlockCount
    BY <1>4, <1>8
  <2> QED
    BY <1>1, <1>12, <1>16, <2>1 DEF Decrypting
<1>21. NothingLost'
  <2>1. at' = "dropped" => damaged # {}
    BY <1>8, <1>9, <1>15
  <2> QED
    BY <1>1, <2>1 DEF NothingLost
<1>22. FilteredTo(Size)'
  BY <1>1, <1>2, WireKept
<1> QED
  BY <1>1, <1>2, <1>18, <1>19, <1>20, <1>21, <1>22
     DEF IInv, Written, OnWire, Untouched, Framed, InEngine, Checked

LEMMA StepDecryptEnds ==
  ASSUME IInv, DecryptEnds
  PROVE  IInv'
<1>1. /\ at = "decrypt" /\ Cardinality(DOMAIN decrypt_data) = 8 * Blocks
      /\ at' = IF result < 0 THEN "dropped" ELSE "decrypted"
      /\ UNCHANGED <<packet, wire, added, buffer, i, target, cipher, damaged, result,
                     decrypt_data>>
  BY DEF DecryptEnds, Failed, Kept
<1>2. packet \in Packets /\ packet \in Encrypted /\ FilteredTo(Size)
  BY <1>1 DEF IInv, Written, OnWire, Ciphered
<1>3. cipher = [b \in 1 .. BlockCount |-> IF b \in damaged THEN Damage(Sealed(b))
                                          ELSE Sealed(b)]
  BY <1>1 DEF IInv, Ciphered
<1>4. BlockCount \in Nat /\ BlockCount >= 1 /\ TextSize \in Nat
      /\ ~ (8 * BlockCount < TextSize)
  BY <1>2, SizeFacts
<1>5. Blocks = BlockCount
  BY <1>3, <1>4, LenOfBlocks DEF Blocks
<1>6. PICK m \in 0 .. BlockCount : Turned(m)
  BY <1>1 DEF IInv, Decrypting
<1>7. m = BlockCount
  <2>1. Cardinality(DOMAIN decrypt_data) = 8 * m
    BY <1>4, <1>6, Run DEF Turned
  <2> QED
    BY <1>1, <1>4, <1>5, <2>1
<1>8. Turned(BlockCount)
  BY <1>6, <1>7
<1>9. /\ result \in Int
      /\ damaged = {} => result = TextSize
      /\ 1 \in damaged => result < 0
  BY <1>4, <1>8 DEF Turned
<1>10. TypeOK'
  BY <1>1 DEF IInv, TypeOK, Phases, IsBytes, Blocks
<1>11. Ciphered'
  BY <1>1
     DEF IInv, Ciphered, BlockCount, TextSize, Size, Sealed, Padded, SizeOf, Text, Plaintext
<1>12. Decrypting'
  <2>1. Turned(BlockCount)'
    BY <1>1, <1>8 DEF Turned, Text, BlockCount, TextSize, Size, Plaintext
  <2>2. at' = "decrypted" => result' >= 0
    BY <1>1, <1>9
  <2> QED
    BY <1>1, <2>1, <2>2 DEF Decrypting
<1>13. Checked'
  BY <1>1, <1>9 DEF Checked
<1>14. NothingLost'
  BY <1>1, <1>4, <1>9 DEF NothingLost
<1>15. FilteredTo(Size)'
  BY <1>1, <1>2, WireKept
<1> QED
  BY <1>1, <1>2, <1>10, <1>11, <1>12, <1>13, <1>14, <1>15
     DEF IInv, Written, OnWire, Untouched, Framed, InEngine

-----------------------------------------------------------------------------
(* The frame, and the engine.                                              *)

\* Where the blocks go with a packet and what happens to it before the engine.
BeforeEngine ==
  /\ packet \in Packets /\ FilteredTo(Size)
  /\ UNCHANGED <<packet, wire, i, target, cipher, damaged, result, decrypt_data>>
  /\ 1 \notin damaged

(***************************************************************************)
(* A frame of m bytes goes into the engine; intact, it says what is on the *)
(* wire and is as long as FitsEngine says.                                 *)
(***************************************************************************)
LEMMA StepAddData ==
  ASSUME IInv, BeforeEngine, NEW m \in Nat, NEW f, IsFrame(f, m), add_data(f),
         damaged = {} /\ LengthSurvives => SaysWire(f),
         damaged = {} /\ LengthSurvives /\ ReachesBehind(packet) =>
           m = Size + (IF packet \in Encrypted THEN 1 ELSE 0)
  PROVE  IInv'
<1>1. f \in [0 .. m - 1 -> Byte] /\ m >= 2
  BY DEF IsFrame
<1>2. Cardinality(DOMAIN f) = m /\ IsBytes(f)
  BY <1>1, Run
<1>3. f # NoBytes
  BY <1>1, NoRun
<1>4. /\ at' \in {"dropped", "added"}
      /\ at' = "added" => added' = f /\ buffer' = f
      /\ at' = "dropped" => m >= Capacity /\ UNCHANGED <<added, buffer>>
  BY <1>2, <1>3 DEF add_data, TooLong
<1>5. UNCHANGED <<packet, wire, i, target, cipher, damaged, result, decrypt_data>>
  BY DEF BeforeEngine
<1>6. TypeOK'
  BY <1>2, <1>4, <1>5 DEF IInv, TypeOK, Phases, IsBytes, Blocks
<1>7. Written' /\ OnWire'
  <2>1. FilteredTo(Size)'
    BY <1>5, WireKept DEF BeforeEngine
  <2> QED
    BY <1>4, <1>5, <2>1 DEF Written, OnWire, BeforeEngine
<1>8. Framed'
  <2>1. at' = "added" => IsFrame(added, m)'
    BY <1>4 DEF IsFrame
  <2>2. LengthSurvives' = LengthSurvives
    BY <1>5 DEF LengthSurvives
  <2>3. at' = "added" /\ damaged = {} /\ LengthSurvives => SaysWire(added)'
    BY <1>4, <1>5 DEF SaysWire, Size
  <2> QED
    BY <1>4, <1>5, <2>1, <2>2, <2>3 DEF Framed
<1>9. InEngine' /\ Checked' /\ Untouched' /\ Ciphered' /\ Decrypting'
  BY <1>4, <1>5 DEF InEngine, Checked, Untouched, Ciphered, Decrypting, BeforeEngine
<1>10. NothingLost'
  <2>1. ASSUME at' = "dropped", damaged = {}, LengthSurvives, ReachesBehind(packet)
        PROVE  ~ FitsEngine
    BY <1>4, <2>1, CapacityAssumption DEF FitsEngine, Size
  <2>2. LengthSurvives' = LengthSurvives /\ FitsEngine' = FitsEngine
        /\ ReachesBehind(packet)' = ReachesBehind(packet)
    BY <1>5 DEF LengthSurvives, FitsEngine
  <2> QED
    BY <1>4, <1>5, <2>1, <2>2 DEF NothingLost
<1> QED
  BY <1>6, <1>7, <1>8, <1>9, <1>10 DEF IInv

LEMMA StepAddUnencrypted ==
  ASSUME IInv, AddUnencrypted
  PROVE  IInv'
<1>1. at = "sent" /\ packet \notin Encrypted /\ add_data(wire)
      /\ UNCHANGED <<packet, wire, i, target, cipher, damaged, result, decrypt_data>>
  BY DEF AddUnencrypted, AddPlain, add_data, Kept
<1>2. packet \in Packets /\ FilteredTo(Size) /\ damaged = {}
  BY <1>1 DEF IInv, Written, OnWire, Untouched
<1>3. BeforeEngine
  BY <1>1, <1>2 DEF BeforeEngine
<1>4. /\ wire \in [0 .. ByteCount - 1 -> Byte] /\ ByteCount \in Nat /\ ByteCount >= HeadEnd(packet)
      /\ Size \in Nat /\ Size <= ByteCount /\ (ReachesBehind(packet) => ByteCount = Size)
      /\ \/ packet[0] = C1 /\ HeadEnd(packet) = 2
         \/ packet[0] = C2 /\ HeadEnd(packet) = 3
      /\ wire[0] = packet[0]
      /\ HeaderSize(wire) = Size /\ HeadEnd(wire) = HeadEnd(packet)
  <2>1. /\ Size \in Nat /\ ByteCount \in Nat /\ ByteCount >= HeadEnd(packet) /\ Size <= ByteCount
        /\ (ReachesBehind(packet) => ByteCount = Size)
        /\ \/ packet[0] = C1 /\ HeadEnd(packet) = 2
           \/ packet[0] = C2 /\ HeadEnd(packet) = 3
    BY <1>2, Shape DEF Size, ByteCount, ReachesBehind
  <2>2. /\ wire \in [0 .. ByteCount - 1 -> Byte]
        /\ \A k \in 0 .. HeadEnd(packet) - 1 : wire[k] = packet[k]
        /\ HeaderSize(wire) = Size /\ HeadEnd(wire) = HeadEnd(packet)
    BY <1>2, <2>1, HeaderOnWire
  <2> QED
    BY <2>1, <2>2
<1>5. IsFrame(wire, ByteCount)
  BY <1>4 DEF IsFrame
<1>6. SaysWire(wire)
  BY <1>4 DEF SaysWire
<1> QED
  BY <1>1, <1>3, <1>4, <1>5, <1>6, StepAddData

LEMMA FrameC3ByteCount ==
  ASSUME result \in Nat
  PROVE  /\ DOMAIN FrameC3 = 0 .. result + 1
         /\ FrameC3[0] = C1 /\ FrameC3[1] = (result + 1) % 256
         /\ \A k \in 2 .. result + 1 : FrameC3[k] = Decrypted(k - 1)
         /\ FrameC3 = [k \in 0 .. result + 1 |-> FrameC3[k]]
<1>1. 0 \in 0 .. result + 1 /\ 1 \in 0 .. result + 1
  OBVIOUS
<1>2. ASSUME NEW k \in 2 .. result + 1
      PROVE  k \in 0 .. result + 1 /\ k # 0 /\ k # 1
  OBVIOUS
<1> QED
  BY <1>1, <1>2 DEF FrameC3

LEMMA FrameC4ByteCount ==
  ASSUME result \in Nat
  PROVE  /\ DOMAIN FrameC4 = 0 .. result + 2
         /\ FrameC4[0] = C2
         /\ FrameC4[1] = (result + 2) % 256 /\ FrameC4[2] = (result + 2) % 256
         /\ \A k \in 3 .. result + 2 : FrameC4[k] = Decrypted(k - 2)
         /\ FrameC4 = [k \in 0 .. result + 2 |-> FrameC4[k]]
<1>1. 0 \in 0 .. result + 2 /\ 1 \in 0 .. result + 2 /\ 2 \in 0 .. result + 2
  OBVIOUS
<1>2. ASSUME NEW k \in 3 .. result + 2
      PROVE  k \in 0 .. result + 2 /\ k # 0 /\ k \notin {1, 2}
  OBVIOUS
<1> QED
  BY <1>1, <1>2 DEF FrameC4

\* The frame made of what decrypt() left.
LEMMA DecryptedFrame ==
  ASSUME packet \in Encrypted, FilteredTo(Size), Turned(BlockCount), result >= 0,
         NEW f, f = IF packet[0] = C1 THEN FrameC3 ELSE FrameC4,
         NEW m, m = result + (IF packet[0] = C1 THEN 2 ELSE 3)
  PROVE  /\ m \in Nat /\ IsFrame(f, m)
         /\ damaged = {} /\ (packet[0] = C2 => packet[1] = packet[2]) =>
              SaysWire(f) /\ m = Size + 1
<1>1. /\ packet \in Packets /\ ByteCount = Size /\ Size >= HeadEnd(packet)
      /\ Size \in Nat /\ HeadEnd(packet) \in {2, 3} /\ BlockCount \in Nat
      /\ TextSize \in Nat /\ TextSize >= 1 /\ TextSize = Size - HeadEnd(packet) + 1
      /\ ~ (8 * BlockCount < TextSize)
  BY SizeFacts
<1>2. /\ packet \in [0 .. Size - 1 -> Byte]
      /\ \/ packet[0] = C1 /\ HeadEnd(packet) = 2 /\ Size = packet[1]
         \/ packet[0] = C2 /\ HeadEnd(packet) = 3 /\ Size = packet[1] * 256 + packet[2]
  BY <1>1, Shape DEF Size, ByteCount
<1>3. result \in Nat
  BY <1>1 DEF Turned
<1>4. damaged = {} => result = TextSize
  BY <1>1 DEF Turned
<1>5. \A k \in Int : Decrypted(k) \in Byte
  <2>1. 0 \in Byte
    BY DEF Byte
  <2> QED
    BY <2>1 DEF Turned, Decrypted
<1>6. \A k \in 1 .. TextSize - 1 : Decrypted(k) = wire[HeadEnd(packet) + k - 1]
  <2>1. ASSUME NEW k \in 1 .. TextSize - 1
        PROVE  Decrypted(k) = Text(k)
    BY <1>1 DEF Turned, Decrypted
  <2> QED
    BY <1>1, <2>1, PlainBytes
<1>7. HeaderSize(wire) = Size /\ \A k \in 0 .. HeadEnd(packet) - 1 : wire[k] = packet[k]
  BY <1>1, HeaderOnWire
<1>8. C1 \in Byte /\ C2 \in Byte /\ C1 # C2 /\ \A n \in Nat : n % 256 \in Byte
  BY DEF C1, C2, Byte
<1>9. CASE packet[0] = C1
  <2>1. /\ HeadEnd(packet) = 2 /\ Size = packet[1] /\ m = result + 2 /\ f = FrameC3
    BY <1>2, <1>8, <1>9
  <2>2. /\ DOMAIN f = 0 .. m - 1
        /\ f[0] = C1 /\ f[1] = (result + 1) % 256
        /\ \A k \in 2 .. m - 1 : f[k] = Decrypted(k - 1)
        /\ f = [k \in 0 .. m - 1 |-> f[k]]
    <3>1. m - 1 = result + 1
      BY <1>3, <2>1
    <3> QED
      BY <1>3, <2>1, <3>1, FrameC3ByteCount
  <2>3. \A k \in 0 .. m - 1 : f[k] \in Byte
    <3>1. result + 1 \in Nat /\ \A k \in 2 .. m - 1 : k - 1 \in Int
      BY <1>3
    <3>2. f[0] \in Byte /\ f[1] \in Byte /\ \A k \in 2 .. m - 1 : f[k] \in Byte
      BY <1>5, <1>8, <2>2, <3>1
    <3>3. \A k \in 0 .. m - 1 : k = 0 \/ k = 1 \/ k \in 2 .. m - 1
      OBVIOUS
    <3> QED
      BY <3>2, <3>3
  <2>4. IsFrame(f, m)
    BY <1>3, <2>1, <2>2, <2>3 DEF IsFrame
  <2>5. ASSUME damaged = {}
        PROVE  SaysWire(f) /\ m = Size + 1
    <3>1. result = Size - 1 /\ m = Size + 1
      BY <1>1, <1>4, <2>1, <2>5
    <3>2. f[1] = Size
      <4>1. Size \in Byte
        <5>1. 1 \in 0 .. Size - 1
          BY <1>1
        <5> QED
          BY <1>2, <2>1, <5>1
      <4>2. Size % 256 = Size
        BY <4>1 DEF Byte
      <4> QED
        BY <1>1, <2>2, <3>1, <4>2
    <3>3. HeaderSize(f) = Size /\ HeadEnd(f) = HeadEnd(packet)
      BY <1>9, <2>2, <3>2 DEF HeaderSize, HeadEnd
    <3>4. ASSUME NEW k \in 0 .. Size - 1
          PROVE  k \in DOMAIN f /\ f[k] = wire[k]
      <4>1. k \in 0 .. m - 1
        BY <1>1, <3>1
      <4>2. wire[0] = packet[0] /\ wire[1] = packet[1]
        BY <1>7, <2>1
      <4>3. CASE k = 0 \/ k = 1
        BY <1>9, <2>1, <2>2, <3>2, <4>1, <4>2, <4>3
      <4>4. CASE k >= 2
        <5>1. k - 1 \in 1 .. TextSize - 1 /\ 2 + (k - 1) - 1 = k /\ k \in 2 .. m - 1
          BY <1>1, <2>1, <3>1, <4>4
        <5>2. Decrypted(k - 1) = wire[k]
          BY <1>6, <2>1, <5>1
        <5> QED
          BY <2>2, <4>1, <5>1, <5>2
      <4> QED
        BY <1>1, <4>3, <4>4
    <3> QED
      BY <3>1, <3>3, <3>4 DEF SaysWire
  <2> QED
    BY <1>3, <2>1, <2>4, <2>5
<1>10. CASE packet[0] = C2
  <2>1. /\ HeadEnd(packet) = 3 /\ Size = packet[1] * 256 + packet[2]
        /\ m = result + 3 /\ f = FrameC4
    BY <1>2, <1>8, <1>10
  <2>2. /\ DOMAIN f = 0 .. m - 1
        /\ f[0] = C2 /\ f[1] = (result + 2) % 256 /\ f[2] = (result + 2) % 256
        /\ \A k \in 3 .. m - 1 : f[k] = Decrypted(k - 2)
        /\ f = [k \in 0 .. m - 1 |-> f[k]]
    <3>1. m - 1 = result + 2
      BY <1>3, <2>1
    <3> QED
      BY <1>3, <2>1, <3>1, FrameC4ByteCount
  <2>3. \A k \in 0 .. m - 1 : f[k] \in Byte
    <3>1. result + 2 \in Nat /\ \A k \in 3 .. m - 1 : k - 2 \in Int
      BY <1>3
    <3>2. f[0] \in Byte /\ f[1] \in Byte /\ f[2] \in Byte /\ \A k \in 3 .. m - 1 : f[k] \in Byte
      BY <1>5, <1>8, <2>2, <3>1
    <3>3. \A k \in 0 .. m - 1 : k = 0 \/ k = 1 \/ k = 2 \/ k \in 3 .. m - 1
      OBVIOUS
    <3> QED
      BY <3>2, <3>3
  <2>4. IsFrame(f, m)
    BY <1>3, <2>1, <2>2, <2>3 DEF IsFrame
  <2>5. ASSUME damaged = {}, packet[1] = packet[2]
        PROVE  SaysWire(f) /\ m = Size + 1
    <3>1. result = Size - 2 /\ m = Size + 1
      BY <1>1, <1>4, <2>1, <2>5
    <3>2. f[1] = packet[1] /\ f[2] = packet[2]
      <4>1. packet[1] \in Byte /\ packet[2] \in Byte
        <5>1. 1 \in 0 .. Size - 1 /\ 2 \in 0 .. Size - 1
          BY <1>1, <2>1
        <5> QED
          BY <1>2, <5>1
      <4>2. (packet[2] * 256 + packet[2]) % 256 = packet[2]
        BY <4>1 DEF Byte
      <4> QED
        BY <1>1, <2>1, <2>2, <2>5, <3>1, <4>1, <4>2
    <3>3. HeaderSize(f) = Size /\ HeadEnd(f) = HeadEnd(packet)
      BY <1>8, <1>10, <2>1, <2>2, <3>2 DEF HeaderSize, HeadEnd
    <3>4. ASSUME NEW k \in 0 .. Size - 1
          PROVE  k \in DOMAIN f /\ f[k] = wire[k]
      <4>1. k \in 0 .. m - 1
        BY <1>1, <3>1
      <4>2. wire[0] = packet[0] /\ wire[1] = packet[1] /\ wire[2] = packet[2]
        BY <1>7, <2>1
      <4>3. CASE k = 0 \/ k = 1 \/ k = 2
        BY <1>10, <2>1, <2>2, <3>2, <4>1, <4>2, <4>3
      <4>4. CASE k >= 3
        <5>1. k - 2 \in 1 .. TextSize - 1 /\ 3 + (k - 2) - 1 = k /\ k \in 3 .. m - 1
          BY <1>1, <2>1, <3>1, <4>4
        <5>2. Decrypted(k - 2) = wire[k]
          BY <1>6, <2>1, <5>1
        <5> QED
          BY <2>2, <4>1, <5>1, <5>2
      <4> QED
        BY <1>1, <4>3, <4>4
    <3> QED
      BY <3>1, <3>3, <3>4 DEF SaysWire
  <2> QED
    BY <1>3, <1>10, <2>1, <2>4, <2>5
<1> QED
  BY <1>2, <1>9, <1>10

LEMMA StepAddDecrypted ==
  ASSUME IInv, AddDecrypted
  PROVE  IInv'
<1> DEFINE f == IF packet[0] = C1 THEN FrameC3 ELSE FrameC4
           m == result + (IF packet[0] = C1 THEN 2 ELSE 3)
<1>1. at = "decrypted" /\ add_data(f)
      /\ UNCHANGED <<packet, wire, i, target, cipher, damaged, result, decrypt_data>>
  BY DEF AddDecrypted, add_data, Kept
<1>2. /\ packet \in Packets /\ FilteredTo(Size) /\ packet \in Encrypted
      /\ Turned(BlockCount) /\ result >= 0 /\ 1 \notin damaged
  BY <1>1 DEF IInv, Written, OnWire, Ciphered, Decrypting, Checked
<1>3. BeforeEngine
  BY <1>1, <1>2 DEF BeforeEngine
<1>4. /\ m \in Nat /\ IsFrame(f, m)
      /\ damaged = {} /\ (packet[0] = C2 => packet[1] = packet[2]) =>
           SaysWire(f) /\ m = Size + 1
  BY <1>2, DecryptedFrame
<1> HIDE DEF f, m
<1>5. /\ damaged = {} /\ LengthSurvives => SaysWire(f)
      /\ damaged = {} /\ LengthSurvives => m = Size + (IF packet \in Encrypted THEN 1 ELSE 0)
  BY <1>2, <1>4 DEF LengthSurvives
<1> QED
  BY <1>1, <1>3, <1>4, <1>5, StepAddData

\* What the engine leaves alone.
OutsideEngine == UNCHANGED <<packet, wire, added, cipher, damaged, result, decrypt_data>>

\* The header of a frame is there, and its length is a number.
LEMMA FrameHeader ==
  ASSUME NEW m \in Nat, NEW f, IsFrame(f, m)
  PROVE  /\ f \in [0 .. m - 1 -> Byte] /\ DOMAIN f = 0 .. m - 1 /\ m >= 2
         /\ HeaderSize(f) \in Nat /\ f[0] \in {C1, C2}
         /\ HeadEnd(f) = 2 \/ (HeadEnd(f) = 3 /\ m >= 3 /\ f[0] = C2)
         /\ \A g : (\A k \in 0 .. HeadEnd(f) - 1 : g[k] = f[k]) =>
              HeaderSize(g) = HeaderSize(f) /\ HeadEnd(g) = HeadEnd(f)
<1>1. f \in [0 .. m - 1 -> Byte] /\ DOMAIN f = 0 .. m - 1 /\ m >= 2
  BY DEF IsFrame
<1>2. f[1] \in Nat /\ (m >= 3 => f[2] \in Nat)
  <2>1. f[1] \in Byte /\ (m >= 3 => f[2] \in Byte)
    BY <1>1
  <2> QED
    BY <2>1 DEF Byte
<1>3. CASE f[0] = C1
  <2>1. HeaderSize(f) = f[1] /\ HeadEnd(f) = 2
    BY <1>3 DEF HeaderSize, HeadEnd
  <2>2. ASSUME NEW g, \A k \in 0 .. HeadEnd(f) - 1 : g[k] = f[k]
        PROVE  HeaderSize(g) = HeaderSize(f) /\ HeadEnd(g) = HeadEnd(f)
    <3>1. g[0] = f[0] /\ g[1] = f[1]
      BY <2>1, <2>2
    <3> QED
      BY <1>3, <3>1 DEF HeaderSize, HeadEnd
  <2>3. HeaderSize(f) \in Nat /\ f[0] \in {C1, C2}
    BY <1>2, <1>3, <2>1
  <2> QED
    BY <1>1, <2>1, <2>2, <2>3
<1>4. CASE f[0] = C2 /\ m >= 3
  <2>1. HeaderSize(f) = f[1] * 256 + f[2] /\ HeadEnd(f) = 3
    BY <1>4 DEF HeaderSize, HeadEnd, C1, C2
  <2>2. ASSUME NEW g, \A k \in 0 .. HeadEnd(f) - 1 : g[k] = f[k]
        PROVE  HeaderSize(g) = HeaderSize(f) /\ HeadEnd(g) = HeadEnd(f)
    <3>1. g[0] = f[0] /\ g[1] = f[1] /\ g[2] = f[2]
      BY <2>1, <2>2
    <3> QED
      BY <3>1 DEF HeaderSize, HeadEnd
  <2>3. HeaderSize(f) \in Nat
    BY <1>2, <1>4, <2>1
  <2> QED
    BY <1>1, <1>4, <2>1, <2>2, <2>3
<1> QED
  BY <1>3, <1>4 DEF IsFrame

LEMMA UnfilteredByte ==
  ASSUME NEW m \in Nat, NEW f, IsFrame(f, m), NEW k \in 0 .. m - 1
  PROVE  /\ Unfiltered(f)[k] \in Byte
         /\ Unfiltered(f)[k] = IF k > HeadEnd(f) /\ k < HeaderSize(f) THEN Xored(f, k) ELSE f[k]
<1>1. /\ f \in [0 .. m - 1 -> Byte] /\ DOMAIN f = 0 .. m - 1
      /\ HeadEnd(f) \in {2, 3} /\ HeaderSize(f) \in Nat
  BY FrameHeader
<1>2. k > HeadEnd(f) => k \in 1 .. m - 1
  BY <1>1
<1>3. k > HeadEnd(f) => Xored(f, k) \in Byte
  BY <1>1, <1>2, XoredByte
<1>4. Unfiltered(f)[k] = IF k > HeadEnd(f) /\ k < HeaderSize(f) THEN Xored(f, k) ELSE f[k]
  BY <1>1 DEF Unfiltered
<1> QED
  BY <1>1, <1>3, <1>4

\* What a step of the engine has to show, behind what it leaves alone.
LEMMA EngineKeeps ==
  ASSUME IInv, at \in {"added", "xor"},
         at' \in {"added", "xor", "extracted", "dropped", "undefined"},
         OutsideEngine, IsBytes(buffer)', IsBytes(target)', i' \in Nat \union {-1},
         InEngine', at' \in {"dropped", "undefined"} =>
                      damaged # {} \/ ~ LengthSurvives \/ ~ ReachesBehind(packet)
  PROVE  IInv'
<1>1. UNCHANGED <<packet, wire, added, cipher, damaged, result, decrypt_data>>
  BY DEF OutsideEngine
<1>2. packet \in Packets /\ FilteredTo(Size)
  BY DEF IInv, Written, OnWire
<1>3. FilteredTo(Size)'
  BY <1>1, <1>2, WireKept
<1>4. TypeOK'
  BY <1>1 DEF IInv, TypeOK, Phases, IsBytes, Blocks
<1>5. LengthSurvives' = LengthSurvives /\ ReachesBehind(packet)' = ReachesBehind(packet)
  BY <1>1 DEF LengthSurvives
<1>6. Framed'
  <2>1. (\E m \in Nat : IsFrame(added, m)) /\ (damaged = {} /\ LengthSurvives => SaysWire(added))
    BY DEF IInv, Framed
  <2> QED
    BY <1>1, <1>5, <2>1 DEF Framed, SaysWire, Size
<1>7. Checked'
  BY <1>1 DEF IInv, Checked
<1>8. NothingLost'
  BY <1>1, <1>5 DEF NothingLost
<1> QED
  BY <1>1, <1>2, <1>3, <1>4, <1>6, <1>7, <1>8
     DEF IInv, Written, OnWire, Untouched, Ciphered, Decrypting

LEMMA StepExtract ==
  ASSUME IInv, extract_packet, Kept
  PROVE  IInv'
<1>1. at = "added" /\ UNCHANGED <<packet, wire, added, buffer, target>> /\ OutsideEngine
  BY DEF extract_packet, Kept, OutsideEngine
<1>2. /\ packet \in Packets /\ buffer = added
      /\ damaged = {} /\ LengthSurvives => SaysWire(added)
      /\ i \in Nat \union {-1}
  BY <1>1 DEF IInv, Written, InEngine, Framed, TypeOK
<1>3. PICK m \in Nat : IsFrame(added, m)
  BY <1>1 DEF IInv, Framed
<1>4. /\ added \in [0 .. m - 1 -> Byte] /\ DOMAIN added = 0 .. m - 1 /\ m >= 2
      /\ HeaderSize(added) \in Nat /\ added[0] \in {C1, C2} /\ HeadEnd(added) \in {2, 3}
  BY <1>3, FrameHeader
<1>5. Cardinality(DOMAIN added) = m
  BY <1>4, Run
<1> DEFINE n == HeaderSize(added)
<1>6. \/ m < n /\ at' = "dropped" /\ i' = i
      \/ m >= n /\ i' = n - 1 /\ n - 1 < HeadEnd(added) /\ at' = "undefined"
      \/ m >= n /\ i' = n - 1 /\ n - 1 >= HeadEnd(added) /\ at' = "xor"
  BY <1>2, <1>4, <1>5 DEF extract_packet
<1>7. damaged = {} /\ LengthSurvives /\ ReachesBehind(packet) =>
        m >= n /\ n - 1 >= HeadEnd(added)
  <2> SUFFICES ASSUME damaged = {}, LengthSurvives, ReachesBehind(packet)
               PROVE  m >= n /\ n - 1 >= HeadEnd(added)
    OBVIOUS
  <2>1. Size \in Nat /\ HeadEnd(packet) \in {2, 3} /\ HeadEnd(packet) < Size
    BY <1>2, Shape DEF Size, ReachesBehind
  <2>2. Size - 1 \in 0 .. Size - 1
    BY <2>1
  <2>3. n = Size /\ HeadEnd(added) = HeadEnd(packet) /\ Size - 1 \in 0 .. m - 1
    BY <1>2, <1>4, <2>2 DEF SaysWire
  <2> QED
    BY <1>3, <2>1, <2>3
<1>8. at' \in {"dropped", "undefined"} =>
        damaged # {} \/ ~ LengthSurvives \/ ~ ReachesBehind(packet)
  BY <1>4, <1>6, <1>7
<1>9. i' \in Nat \union {-1}
  BY <1>2, <1>4, <1>6
<1>10. InEngine'
  <2>1. CASE at' = "xor"
    <3>1. m >= n /\ i' = n - 1 /\ n - 1 >= HeadEnd(added)
      BY <1>6, <2>1
    <3>2. i' \in HeadEnd(added) .. n - 1 /\ n - 1 \in DOMAIN added
      BY <1>4, <3>1
    <3>3. \A k \in 0 .. m - 1 : k > i' => Unfiltered(added)[k] = added[k]
      BY <1>3, <1>4, <3>1, UnfilteredByte
    <3>4. added = [k \in DOMAIN added |-> IF k > i' THEN Unfiltered(added)[k] ELSE added[k]]
      BY <1>4, <3>3
    <3>5. HeaderSize(added)' = n /\ HeadEnd(added)' = HeadEnd(added)
          /\ Unfiltered(added)' = Unfiltered(added)
      BY <1>1
    <3> QED
      BY <1>1, <1>2, <2>1, <3>2, <3>4, <3>5 DEF InEngine
  <2>2. CASE at' \in {"dropped", "undefined"}
    BY <2>2 DEF InEngine
  <2> QED
    BY <1>6, <2>1, <2>2
<1>11. IsBytes(buffer)' /\ IsBytes(target)'
  BY <1>1 DEF IInv, TypeOK, IsBytes
<1> QED
  BY <1>1, <1>6, <1>8, <1>9, <1>10, <1>11, EngineKeeps

\* In the loop the header of the buffer still is the frame's.
LEMMA InLoop ==
  ASSUME IInv, at = "xor", NEW m \in Nat, IsFrame(added, m)
  PROVE  /\ HeaderSize(buffer) = HeaderSize(added) /\ HeadEnd(buffer) = HeadEnd(added)
         /\ i \in HeadEnd(added) .. HeaderSize(added) - 1 /\ HeaderSize(added) <= m
         /\ buffer \in [0 .. m - 1 -> Byte]
         /\ \A k \in 0 .. m - 1 : buffer[k] = IF k > i THEN Unfiltered(added)[k] ELSE added[k]
<1>1. /\ i \in HeadEnd(added) .. HeaderSize(added) - 1
      /\ HeaderSize(added) - 1 \in DOMAIN added
      /\ buffer = [k \in DOMAIN added |-> IF k > i THEN Unfiltered(added)[k] ELSE added[k]]
  BY DEF IInv, InEngine
<1>2. /\ added \in [0 .. m - 1 -> Byte] /\ DOMAIN added = 0 .. m - 1
      /\ HeaderSize(added) \in Nat /\ HeadEnd(added) \in {2, 3}
      /\ \A g : (\A k \in 0 .. HeadEnd(added) - 1 : g[k] = added[k]) =>
           HeaderSize(g) = HeaderSize(added) /\ HeadEnd(g) = HeadEnd(added)
  BY FrameHeader
<1>3. HeaderSize(added) <= m /\ i \in 0 .. m - 1
  BY <1>1, <1>2
<1>4. \A k \in 0 .. m - 1 : buffer[k] = IF k > i THEN Unfiltered(added)[k] ELSE added[k]
  BY <1>1, <1>2
<1>5. \A k \in 0 .. HeadEnd(added) - 1 : k \in 0 .. m - 1 /\ ~ (k > i)
  BY <1>1, <1>2, <1>3
<1>6. \A k \in 0 .. HeadEnd(added) - 1 : buffer[k] = added[k]
  BY <1>4, <1>5
<1>7. \A k \in 0 .. m - 1 : Unfiltered(added)[k] \in Byte
  BY UnfilteredByte
<1>8. buffer \in [0 .. m - 1 -> Byte]
  BY <1>1, <1>2, <1>7
<1> QED
  BY <1>1, <1>2, <1>3, <1>4, <1>6, <1>8

LEMMA StepXorData ==
  ASSUME IInv, xor_data, Kept
  PROVE  IInv'
<1>1. /\ at = "xor" /\ at' = "xor" /\ i # HeadEnd(buffer) /\ i' = i - 1
      /\ buffer' = [buffer EXCEPT ![i] = Xored(buffer, i)]
      /\ UNCHANGED <<packet, wire, added, target>> /\ OutsideEngine
  BY DEF xor_data, Kept, OutsideEngine
<1>2. PICK m \in Nat : IsFrame(added, m)
  BY <1>1 DEF IInv, Framed
<1>3. /\ HeaderSize(buffer) = HeaderSize(added) /\ HeadEnd(buffer) = HeadEnd(added)
      /\ i \in HeadEnd(added) .. HeaderSize(added) - 1 /\ HeaderSize(added) <= m
      /\ buffer \in [0 .. m - 1 -> Byte]
      /\ \A k \in 0 .. m - 1 : buffer[k] = IF k > i THEN Unfiltered(added)[k] ELSE added[k]
  BY <1>1, <1>2, InLoop
<1>4. /\ added \in [0 .. m - 1 -> Byte] /\ DOMAIN added = 0 .. m - 1
      /\ HeaderSize(added) \in Nat /\ HeadEnd(added) \in {2, 3}
  BY <1>2, FrameHeader
<1>5. i > HeadEnd(added) /\ i \in 1 .. m - 1 /\ i \in 0 .. m - 1 /\ i - 1 \in 0 .. m - 1
      /\ i < HeaderSize(added)
  BY <1>1, <1>3, <1>4
<1>6. Xored(buffer, i) = Unfiltered(added)[i]
  <2>1. buffer[i] = added[i] /\ buffer[i - 1] = added[i - 1]
    BY <1>3, <1>5
  <2>2. Xored(buffer, i) = Xored(added, i)
    BY <2>1 DEF Xored
  <2> QED
    BY <1>2, <1>5, <2>2, UnfilteredByte
<1>7. Xored(buffer, i) \in Byte
  BY <1>3, <1>5, XoredByte
<1>8. buffer' \in [0 .. m - 1 -> Byte]
  BY <1>1, <1>3, <1>5, <1>7
<1>9. \A k \in 0 .. m - 1 : buffer'[k] = IF k > i - 1 THEN Unfiltered(added)[k] ELSE added[k]
  <2>1. ASSUME NEW k \in 0 .. m - 1, k # i
        PROVE  buffer'[k] = buffer[k] /\ (k > i - 1 <=> k > i)
    BY <1>1, <1>3, <1>5, <2>1
  <2>2. buffer'[i] = Unfiltered(added)[i] /\ i > i - 1
    BY <1>1, <1>3, <1>5, <1>6
  <2> QED
    BY <1>3, <2>1, <2>2
<1>10. buffer' = [k \in DOMAIN added |-> IF k > i - 1 THEN Unfiltered(added)[k] ELSE added[k]]
  BY <1>4, <1>8, <1>9
<1>11. InEngine'
  <2>1. i - 1 \in HeadEnd(added) .. HeaderSize(added) - 1 /\ HeaderSize(added) - 1 \in DOMAIN added
    BY <1>3, <1>4, <1>5
  <2>2. HeaderSize(added)' = HeaderSize(added) /\ HeadEnd(added)' = HeadEnd(added)
        /\ Unfiltered(added)' = Unfiltered(added)
    BY <1>1
  <2> QED
    BY <1>1, <1>10, <2>1, <2>2 DEF InEngine
<1>12. i' \in Nat \union {-1} /\ IsBytes(buffer)' /\ IsBytes(target)'
  <2>1. IsBytes(buffer')
    BY <1>8, Run
  <2> QED
    BY <1>1, <1>5, <2>1 DEF IInv, TypeOK, IsBytes
<1> QED
  BY <1>1, <1>11, <1>12, EngineKeeps

LEMMA StepExtracted ==
  ASSUME IInv, Extracted, Kept
  PROVE  IInv'
<1>1. /\ at = "xor" /\ at' = "extracted" /\ i = HeadEnd(buffer)
      /\ target' = [k \in 0 .. HeaderSize(buffer) - 1 |-> buffer[k]]
      /\ UNCHANGED <<packet, wire, added, buffer, i>> /\ OutsideEngine
  BY DEF Extracted, Kept, OutsideEngine
<1>2. PICK m \in Nat : IsFrame(added, m)
  BY <1>1 DEF IInv, Framed
<1>3. /\ HeaderSize(buffer) = HeaderSize(added) /\ HeadEnd(buffer) = HeadEnd(added)
      /\ i \in HeadEnd(added) .. HeaderSize(added) - 1 /\ HeaderSize(added) <= m
      /\ \A k \in 0 .. m - 1 : buffer[k] = IF k > i THEN Unfiltered(added)[k] ELSE added[k]
  BY <1>1, <1>2, InLoop
<1>4. DOMAIN added = 0 .. m - 1 /\ HeaderSize(added) \in Nat /\ HeadEnd(added) \in {2, 3}
  BY <1>2, FrameHeader
<1> DEFINE n == HeaderSize(added)
<1>5. ASSUME NEW k \in 0 .. n - 1
      PROVE  buffer[k] = Unfiltered(added)[k] /\ Unfiltered(added)[k] \in Byte
  <2>1. k \in 0 .. m - 1
    BY <1>3, <1>4
  <2>2. k > i \/ Unfiltered(added)[k] = added[k]
    BY <1>1, <1>2, <1>3, <2>1, UnfilteredByte
  <2> QED
    BY <1>2, <1>3, <2>1, <2>2, UnfilteredByte
<1>6. target' = [k \in 0 .. n - 1 |-> Unfiltered(added)[k]]
  BY <1>1, <1>3, <1>5
<1>7. target' \in [0 .. n - 1 -> Byte]
  BY <1>5, <1>6
<1>8. InEngine'
  <2>1. n - 1 \in DOMAIN added /\ HeadEnd(added) <= n - 1
    BY <1>3, <1>4
  <2>2. HeaderSize(added)' = n /\ HeadEnd(added)' = HeadEnd(added)
        /\ Unfiltered(added)' = Unfiltered(added)
    BY <1>1
  <2> QED
    BY <1>1, <1>6, <2>1, <2>2 DEF InEngine
<1>9. i' \in Nat \union {-1} /\ IsBytes(buffer)' /\ IsBytes(target)'
  <2>1. IsBytes(target')
    BY <1>4, <1>7, Run
  <2> QED
    BY <1>1, <2>1 DEF IInv, TypeOK, IsBytes
<1> QED
  BY <1>1, <1>8, <1>9, EngineKeeps

-----------------------------------------------------------------------------
(* The invariant, and what follows from it.                                *)

LEMMA Steps == IInv /\ [Next]_rVars => IInv'
<1> SUFFICES ASSUME IInv, [Next]_rVars
             PROVE  IInv'
  OBVIOUS
<1>1. CASE UNCHANGED rVars
  <2>1. /\ UNCHANGED <<packet, wire, added, buffer, i, at, target>>
        /\ UNCHANGED <<cipher, damaged, result, decrypt_data>>
    BY <1>1 DEF rVars, vars
  <2>2. TypeOK' /\ Written' /\ OnWire' /\ Untouched'
    BY <2>1 DEF IInv, TypeOK, IsBytes, Blocks, Written, OnWire, FilterIndex, Untouched,
                FilteredTo, Behind, Mask, Size
  <2>3. Ciphered'
    BY <2>1 DEF IInv, Ciphered, BlockCount, TextSize, Size, Sealed, Padded, SizeOf, Text, Plaintext
  <2>4. Decrypting'
    <3>1. BlockCount' = BlockCount /\ \A m \in 0 .. BlockCount : Turned(m)' <=> Turned(m)
      BY <2>1 DEF Turned, BlockCount, TextSize, Size, Text, Plaintext
    <3>2. BlockCount \in 0 .. BlockCount \/ at # "decrypted"
      BY SizeFacts DEF IInv, Ciphered
    <3> QED
      BY <2>1, <3>1, <3>2 DEF IInv, Decrypting
  <2>5. Framed' /\ InEngine' /\ Checked' /\ NothingLost'
    BY <2>1 DEF IInv, Framed, SaysWire, Size, LengthSurvives, InEngine, Checked, NothingLost,
                FitsEngine, ReachesBehind
  <2> QED
    BY <2>2, <2>3, <2>4, <2>5 DEF IInv
<1>2. ASSUME NEW p \in Packets, Write(p) /\ Kept
      PROVE  IInv'
  BY <1>2, StepWrite
<1>3. CASE (FilterByte \/ Sent) /\ Kept
  BY <1>3, StepFilterByte, StepSent
<1>4. CASE Encrypt \/ DecryptBlock \/ DecryptEnds \/ AddDecrypted
  BY <1>4, StepEncrypt, StepDecryptBlock, StepDecryptEnds, StepAddDecrypted
<1>5. CASE AddUnencrypted
  BY <1>5, StepAddUnencrypted
<1>6. CASE EngineStep /\ Kept
  BY <1>6, StepExtract, StepXorData, StepExtracted DEF EngineStep
<1> QED
  BY <1>1, <1>2, <1>3, <1>4, <1>5, <1>6 DEF Next

LEMMA Inductive == Spec => []IInv
BY Initially, Steps, PTL DEF Spec

(***************************************************************************)
(* Every run of bytes of recv_data_parser and of the engine starts at 0    *)
(* and has bytes only, blocks are 11 bytes, and the size that decrypt()    *)
(* sums up is never more than the bytes it has written.                    *)
(***************************************************************************)
THEOREM TypeOKSafe == Spec => []TypeOK
<1>1. IInv => TypeOK
  BY DEF IInv
<1> QED
  BY <1>1, Inductive, PTL

(***************************************************************************)
(* The loop of xor_data, for a frame whose length reaches behind its       *)
(* header, works in place without reading a byte it has changed, and what  *)
(* is extracted is the frame without its filter, also when the frame is    *)
(* what damaged blocks left.                                               *)
(***************************************************************************)
THEOREM XorInPlaceSafe == Spec => []XorInPlace
<1>1. IInv => XorInPlace
  <2> SUFFICES ASSUME IInv
               PROVE  XorInPlace
    OBVIOUS
  <2>1. ASSUME at = "xor"
        PROVE  /\ i \in DOMAIN buffer /\ i >= HeadEnd(buffer)
               /\ buffer = [k \in DOMAIN added |-> IF k > i THEN Unfiltered(added)[k]
                                                   ELSE added[k]]
    <3>1. PICK m \in Nat : IsFrame(added, m)
      BY <2>1 DEF IInv, Framed
    <3>2. /\ HeadEnd(buffer) = HeadEnd(added) /\ buffer \in [0 .. m - 1 -> Byte]
          /\ i \in HeadEnd(added) .. HeaderSize(added) - 1 /\ HeaderSize(added) <= m
      BY <2>1, <3>1, InLoop
    <3>3. HeadEnd(added) \in {2, 3} /\ HeaderSize(added) \in Nat
      BY <3>1, FrameHeader
    <3>4. i \in 0 .. m - 1 /\ i >= HeadEnd(buffer)
      BY <3>2, <3>3
    <3> QED
      BY <2>1, <3>2, <3>4 DEF IInv, InEngine
  <2>2. ASSUME at = "extracted"
        PROVE  \A k \in DOMAIN target : target[k] = Unfiltered(added)[k]
    BY <2>2 DEF IInv, InEngine
  <2> QED
    BY <2>1, <2>2 DEF XorInPlace
<1> QED
  BY <1>1, Inductive, PTL

(***************************************************************************)
(* Of an undamaged message that is plain, C3, or C4 with equal length      *)
(* bytes, protocol_core gets what the client wrote or nothing, byte for    *)
(* byte: for all packets and keys, through the client's filter, the        *)
(* blocks, the frame and the engine.  Other C4 messages may arrive cut.    *)
(***************************************************************************)
THEOREM DeliveredSafe == Spec => []Delivered
<1>1. IInv => Delivered
  <2> SUFFICES ASSUME IInv, at = "extracted", damaged = {}, LengthSurvives
               PROVE  target = packet
    BY DEF Delivered
  <2>1. /\ packet \in Packets /\ FilteredTo(Size) /\ SaysWire(added)
        /\ target = [k \in 0 .. HeaderSize(added) - 1 |-> Unfiltered(added)[k]]
    BY DEF IInv, Written, OnWire, Framed, InEngine
  <2>2. PICK m \in Nat : IsFrame(added, m)
    BY DEF IInv, Framed
  <2>3. /\ HeaderSize(added) = Size /\ HeadEnd(added) = HeadEnd(packet)
        /\ \A k \in 0 .. Size - 1 : k \in DOMAIN added /\ added[k] = wire[k]
        /\ DOMAIN added = 0 .. m - 1
    BY <2>1, <2>2, FrameHeader DEF SaysWire
  <2>4. /\ Size \in Nat /\ HeadEnd(packet) \in {2, 3} /\ ByteCount = Size
        /\ packet \in [0 .. Size - 1 -> Byte]
    <3>1. HeadEnd(added) <= HeaderSize(added) - 1
      BY DEF IInv, InEngine
    <3> QED
      BY <2>1, <2>3, <3>1, Shape DEF Size, ByteCount
  <2>5. ASSUME NEW k \in 0 .. Size - 1
        PROVE  Unfiltered(added)[k] = packet[k]
    <3>1. /\ k \in 0 .. m - 1 /\ added[k] = wire[k]
          /\ Unfiltered(added)[k] = IF k > HeadEnd(packet) /\ k < Size THEN Xored(added, k)
                                    ELSE added[k]
      BY <2>2, <2>3, UnfilteredByte
    <3>2. CASE k > HeadEnd(packet)
      <4>1. k - 1 \in 0 .. Size - 1
        BY <2>4, <3>2
      <4>2. Xored(added, k) = Xored(wire, k)
        BY <2>3, <3>1, <4>1 DEF Xored
      <4>3. Xored(wire, k) = packet[k]
        BY <2>1, <2>4, <3>2, Undone
      <4> QED
        BY <2>4, <3>1, <3>2, <4>2, <4>3
    <3>3. CASE ~ (k > HeadEnd(packet))
      <4>1. k \in 0 .. ByteCount - 1 /\ k <= HeadEnd(packet)
        BY <2>4, <3>3
      <4>2. wire[k] = packet[k]
        BY <2>1, <2>4, <4>1, HeaderOnWire
      <4> QED
        BY <3>1, <3>3, <4>2
    <3> QED
      BY <3>2, <3>3
  <2> QED
    BY <2>1, <2>3, <2>4, <2>5
<1> QED
  BY <1>1, Inductive, PTL

(***************************************************************************)
(* Of what a client may say, the parser drops nothing, and the loop of     *)
(* xor_data is entered below its end for nothing, but damaged messages, C4 *)
(* messages whose length does not survive, those the engine has no room    *)
(* for and packets whose length does not reach behind their header.        *)
(***************************************************************************)
THEOREM NothingLostSafe == Spec => []NothingLost
<1>1. IInv => NothingLost
  BY DEF IInv
<1> QED
  BY <1>1, Inductive, PTL

(***************************************************************************)
(* A message whose first block fails its checksum is not parsed: the sum   *)
(* of the sizes starts negative and no later block is added to it.         *)
(***************************************************************************)
THEOREM FirstBlockCheckedSafe == Spec => []FirstBlockChecked
<1>1. IInv => FirstBlockChecked
  BY DEF IInv, Checked, FirstBlockChecked
<1> QED
  BY <1>1, Inductive, PTL
=============================================================================
