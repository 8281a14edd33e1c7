------------------------------- MODULE Bytes -------------------------------
(***************************************************************************)
(* Bytes and the operators ^ and | of C++ on them, bit by bit.  They are   *)
(* tables, so that TLC computes each entry once, and none is recursive, so *)
(* that their laws can be proved (the operators of the community module    *)
(* Bitwise are, and cannot be reasoned about).                             *)
(*                                                                         *)
(* A run of bytes is a function from 0 .. n-1.                             *)
(***************************************************************************)
EXTENDS Integers

Byte == 0 .. 255

\* The bit of a that is worth k, a power of two.
Bit(a, k) == (a \div k) % 2

Differ(a, b, k) == IF Bit(a, k) = Bit(b, k) THEN 0 ELSE k
Either(a, b, k) == IF Bit(a, k) = 0 /\ Bit(b, k) = 0 THEN 0 ELSE k

XorTable == [a \in Byte |-> [b \in Byte |->
  Differ(a, b, 1) + Differ(a, b, 2) + Differ(a, b, 4) + Differ(a, b, 8)
    + Differ(a, b, 16) + Differ(a, b, 32) + Differ(a, b, 64) + Differ(a, b, 128)]]

OrTable == [a \in Byte |-> [b \in Byte |->
  Either(a, b, 1) + Either(a, b, 2) + Either(a, b, 4) + Either(a, b, 8)
    + Either(a, b, 16) + Either(a, b, 32) + Either(a, b, 64) + Either(a, b, 128)]]

ByteXor(a, b) == XorTable[a][b]
ByteOr(a, b) == OrTable[a][b]

\* 2 ^ k, for the shifts of a byte.
TwoTo(k) == <<1, 2, 4, 8, 16, 32, 64, 128, 256>>[k + 1]

ShiftLeft(a, k) == (a * TwoTo(k)) % 256
ShiftRight(a, k) == a \div TwoTo(k)

\* Byte k of a word in memory, which is little-endian.
Low(word, k) == (word \div <<1, 256, 256 * 256>>[k + 1]) % 256
BytesOf(word) == [k \in 0 .. 2 |-> Low(word, k)]

\* Words of 16 and of 18 bits.
Word16 == {a \in Nat : a < 256 * 256}
Word18 == {a \in Nat : a < 4 * 256 * 256}

\* Exclusive or of words of up to 24 bits.
WordXor(a, b) == ByteXor(Low(a, 0), Low(b, 0)) + 256 * ByteXor(Low(a, 1), Low(b, 1))
                   + 256 * 256 * ByteXor(Low(a, 2), Low(b, 2))
=============================================================================
