--------------------------- MODULE SimpleModulus ---------------------------
(***************************************************************************)
(* simple_modulus of libmucore: blocks of 8 bytes are encrypted into       *)
(* blocks of 11.  Four words of 16 bits become four residues of up to 18   *)
(* bits, packed bit by bit, followed by the size of the block and a        *)
(* checksum.  Bits are counted from the highest of each byte.  The loops   *)
(* over the four words are written out.                                    *)
(***************************************************************************)
EXTENDS Bytes, Sequences

CONSTANTS modulus, encryption_key, decryption_key, xor_key   \* of the four words

Words == 0 .. 3

\* The products of 32 bits do not overflow.
KeysFit == \A w \in Words :
  /\ modulus[w] \in Word18 \ Word16
  /\ xor_key[w] \in Word16
  /\ encryption_key[w] \in Nat /\ encryption_key[w] <= 256 * 256 + 1
  /\ decryption_key[w] \in Nat \ {0}
  /\ modulus[w] - 1 <= 2 * (2147483647 \div decryption_key[w])

ASSUME KeysAssumption ==
  /\ KeysFit
  /\ \A w \in Words : (encryption_key[w] * decryption_key[w]) % modulus[w] = 1

Xor3(a, b, c) == WordXor(WordXor(a, b), c)
Zeros(n) == [k \in 0 .. n - 1 |-> 0]
-----------------------------------------------------------------------------
(* Bits.                                                                   *)

\* shift(): a buffer as one long number, right by a positive len, else left.
shift(b, len) ==
  LET byte(k) == IF k \in DOMAIN b THEN b[k] ELSE 0
  IN IF len >= 0
     THEN [k \in DOMAIN b |-> ByteOr(ShiftLeft(byte(k - 1), 8 - len), ShiftRight(b[k], len))]
     ELSE [k \in DOMAIN b |-> ByteOr(ShiftRight(byte(k + 1), 8 + len), ShiftLeft(b[k], 0 - len))]

(***************************************************************************)
(* The first part of add_bits(): the bytes that hold the len bits of       *)
(* source from bit from on, cut behind the last bit, and one byte more for *)
(* what the shift to the right carries.                                    *)
(***************************************************************************)
Copied(source, from, len) ==
  LET first == from \div 8
      n     == (from + len - 1) \div 8 + 1 - first
      over  == (8 - ((from + len) % 8)) % 8                   \* bits behind the last
      byte(k) == source[first + k]
  IN [k \in 0 .. n |-> IF k = n THEN 0
                       ELSE IF k = n - 1 THEN byte(k) - (byte(k) % TwoTo(over))
                       ELSE byte(k)]

(***************************************************************************)
(* The last part of add_bits(): the bytes moved to their place are or-ed   *)
(* into dest.  The one behind those copied is left out unless all are      *)
(* wanted.                                                                 *)
(***************************************************************************)
OrInto(dest, place, moved, all) ==
  LET written(k) == k \in DOMAIN moved /\ (k + 1 \in DOMAIN moved \/ all)
  IN [k \in DOMAIN dest |-> IF written(k - place) THEN ByteOr(dest[k], moved[k - place])
                            ELSE dest[k]]

\* add_bits(): len bits of source, from bit from on, into dest from bit to on.
add_bits(dest, to, source, from, len) ==
  OrInto(dest, to \div 8,
         shift(shift(Copied(source, from, len), 0 - (from % 8)), to % 8),
         to % 8 > from % 8)

\* 18 bits of a word of a block, to and from their place.
Pack(dest, w, word) ==
  add_bits(add_bits(dest, 18 * w, BytesOf(word), 0, 16),
           18 * w + 16, BytesOf(word), 22, 2)

\* The word that four bytes hold, of 24 bits as the fourth is never used.
InMemory(b) == b[0] + 256 * b[1] + 256 * 256 * b[2]

Unpack(block, w) ==
  InMemory(add_bits(add_bits(Zeros(4), 0, block, 18 * w, 16), 22, block, 18 * w + 16, 2))
-----------------------------------------------------------------------------
(* Blocks.                                                                 *)

\* The checksum of 8 bytes.
check_sum(b) ==
  LET sum4 == ByteXor(ByteXor(ByteXor(ByteXor(248, b[0]), b[1]), b[2]), b[3])
  IN ByteXor(ByteXor(ByteXor(ByteXor(sum4, b[4]), b[5]), b[6]), b[7])

\* Word w of 8 bytes.
Word(b, w) == b[2 * w] + 256 * b[2 * w + 1]

Residue(w, word, before) ==
  (Xor3(xor_key[w], word, before % (256 * 256)) * encryption_key[w]) % modulus[w]

\* What is before word w, and nothing before the first.
Before(w, r) == IF w = 0 THEN 0 ELSE r[w - 1]

AndResidue(w, source, r) == [r EXCEPT ![w] = Residue(w, Word(source, w), Before(w, r))]

\* The residues of the words of 8 bytes, from the first word on.
Residues(source) ==
  AndResidue(3, source, AndResidue(2, source, AndResidue(1, source,
    AndResidue(0, source, Zeros(4)))))

\* A residue and the one behind it.
Chain(w, word, next) == Xor3(word, xor_key[w], next % (256 * 256))

HiddenSize(check, size) == ByteXor(ByteXor(check, size), 61)

\* The residues, chained, in the first 9 bytes of a block.
Packed(r) == Pack(Pack(Pack(Pack(Zeros(11), 0, Chain(0, r[0], r[1])),
                                            1, Chain(1, r[1], r[2])),
                                            2, Chain(2, r[2], r[3])),
                                            3, r[3])

\* What is behind the words: the size of the block and its checksum.
Trailer(check, size) == [k \in 0 .. 1 |-> IF k = 0 THEN HiddenSize(check, size) ELSE check]

\* encrypt_block(): 8 bytes of which size count.
encrypt_block(source, size) ==
  add_bits(Packed(Residues(source)), 72, Trailer(check_sum(source), size), 0, 16)

Unchain(w, r) == [r EXCEPT ![w] = Chain(w, r[w], r[w + 1])]

\* What decrypt_block() multiplies: the residues, from the last word on.
Unchained(block) ==
  Unchain(0, Unchain(1, Unchain(2, [w \in Words |-> Unpack(block, w)])))

PlainWord(w, residue, before) ==
  Xor3((decryption_key[w] * residue) % modulus[w], xor_key[w], before % (256 * 256)) % (256 * 256)

SizeUnmasked(trailer) == ByteXor(trailer[1], trailer[0])   \* faulty: without the 0x3D

SizeSaid(trailer) == ByteXor(ByteXor(trailer[1], trailer[0]), 61)

MismatchNever(sum, sent) == FALSE   \* faulty: the checksum is not compared

Mismatch(sum, sent) == sum # sent

\* The words that the residues were, and their bytes.
PlainWords(r) == [w \in Words |-> PlainWord(w, r[w], Before(w, r))]

BytesOfWords(words) == [k \in 0 .. 7 |-> Low(words[k \div 2], k % 2)]

\* The bytes, and their size or -1.
Judged(dest, trailer) ==
  [dest |-> dest,
   result |-> IF Mismatch(check_sum(dest), trailer[1]) THEN -1 ELSE SizeSaid(trailer)]

\* decrypt_block(), from a block of 11 bytes.
decrypt_block(block) ==
  Judged(BytesOfWords(PlainWords(Unchained(block))), add_bits(Zeros(4), 0, block, 72, 16))

\* encrypt(): the data in blocks of 8, the last filled up.
encrypt(data, n) ==
  [b \in 1 .. (n + 7) \div 8 |->
     encrypt_block([k \in 0 .. 7 |-> IF 8 * (b - 1) + k < n THEN data[8 * (b - 1) + k] ELSE 0],
                   IF n - 8 * (b - 1) >= 8 THEN 8 ELSE n - 8 * (b - 1))]
=============================================================================
