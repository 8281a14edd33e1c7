------------------------ MODULE SimpleModulusProofs ------------------------
(***************************************************************************)
(* decrypt_block() undoes encrypt_block(), for every block and all keys    *)
(* that KeysAssumption allows: the shifted and or-ed bits of four words    *)
(* come back from where they were packed, the chain of exclusive ors is    *)
(* undone from the last word on, and a residue is multiplied back by the   *)
(* inverse of its key.                                                     *)
(***************************************************************************)
EXTENDS SimpleModulus, TLAPS

-----------------------------------------------------------------------------
(* Exclusive or of bytes, bit by bit.                                      *)

LEMMA FromBits ==
  ASSUME NEW a \in Byte
  PROVE  a = Bit(a, 1) + 2 * Bit(a, 2) + 4 * Bit(a, 4) + 8 * Bit(a, 8)
               + 16 * Bit(a, 16) + 32 * Bit(a, 32) + 64 * Bit(a, 64) + 128 * Bit(a, 128)
BY SMTT(30) DEF Bit, Byte

LEMMA BitIsBit ==
  ASSUME NEW a \in Byte, NEW k \in {1, 2, 4, 8, 16, 32, 64, 128}
  PROVE  Bit(a, k) \in {0, 1}
BY SMTT(30) DEF Bit, Byte

Sum8(a, b, c, d, e, f, g, h) == a + 2 * b + 4 * c + 8 * d + 16 * e + 32 * f + 64 * g + 128 * h

LEMMA BitsOf ==
  ASSUME NEW a \in {0, 1}, NEW b \in {0, 1}, NEW c \in {0, 1}, NEW d \in {0, 1},
         NEW e \in {0, 1}, NEW f \in {0, 1}, NEW g \in {0, 1}, NEW h \in {0, 1},
         NEW x, x = Sum8(a, b, c, d, e, f, g, h)
  PROVE  /\ x \in Byte
         /\ Bit(x, 1) = a /\ Bit(x, 2) = b /\ Bit(x, 4) = c /\ Bit(x, 8) = d
         /\ Bit(x, 16) = e /\ Bit(x, 32) = f /\ Bit(x, 64) = g /\ Bit(x, 128) = h
BY SMTT(30) DEF Bit, Byte, Sum8

LEMMA XorDef ==
  ASSUME NEW a \in Byte, NEW b \in Byte
  PROVE  ByteXor(a, b) = Differ(a, b, 1) + Differ(a, b, 2) + Differ(a, b, 4) + Differ(a, b, 8)
    + Differ(a, b, 16) + Differ(a, b, 32) + Differ(a, b, 64) + Differ(a, b, 128)
BY DEF ByteXor, XorTable

LEMMA XorBits ==
  ASSUME NEW a \in Byte, NEW b \in Byte, NEW k \in {1, 2, 4, 8, 16, 32, 64, 128}
  PROVE  /\ ByteXor(a, b) \in Byte
         /\ Bit(ByteXor(a, b), k) = IF Bit(a, k) = Bit(b, k) THEN 0 ELSE 1
<1> DEFINE d(j) == IF Bit(a, j) = Bit(b, j) THEN 0 ELSE 1
<1>1. \A j \in {1, 2, 4, 8, 16, 32, 64, 128} : d(j) \in {0, 1} /\ Differ(a, b, j) = j * d(j)
  BY DEF Differ
<1>2. ByteXor(a, b) = Sum8(d(1), d(2), d(4), d(8), d(16), d(32), d(64), d(128))
  BY XorDef DEF Differ, Sum8
<1> HIDE DEF d
<1>3. /\ ByteXor(a, b) \in Byte
      /\ \A j \in {1, 2, 4, 8, 16, 32, 64, 128} : Bit(ByteXor(a, b), j) = d(j)
  BY <1>1, <1>2, BitsOf
<1> QED
  BY <1>3 DEF d

\* A byte is its bits.
LEMMA SameBits ==
  ASSUME NEW a \in Byte, NEW b \in Byte,
         \A k \in {1, 2, 4, 8, 16, 32, 64, 128} : Bit(a, k) = Bit(b, k)
  PROVE  a = b
BY FromBits

LEMMA XorAssoc ==
  ASSUME NEW a \in Byte, NEW b \in Byte, NEW c \in Byte
  PROVE  ByteXor(ByteXor(a, b), c) = ByteXor(a, ByteXor(b, c))
<1>1. ByteXor(a, b) \in Byte /\ ByteXor(b, c) \in Byte /\ ByteXor(ByteXor(a, b), c) \in Byte
        /\ ByteXor(a, ByteXor(b, c)) \in Byte
  BY XorBits
<1>2. ASSUME NEW k \in {1, 2, 4, 8, 16, 32, 64, 128}
      PROVE  Bit(ByteXor(ByteXor(a, b), c), k) = Bit(ByteXor(a, ByteXor(b, c)), k)
  BY <1>1, XorBits, BitIsBit
<1> QED
  BY <1>1, <1>2, SameBits

LEMMA XorComm ==
  ASSUME NEW a \in Byte, NEW b \in Byte
  PROVE  ByteXor(a, b) = ByteXor(b, a)
BY XorBits, SameBits

LEMMA XorZero ==
  ASSUME NEW a \in Byte
  PROVE  ByteXor(a, 0) = a /\ ByteXor(a, a) = 0
<1>1. 0 \in Byte /\ \A k \in {1, 2, 4, 8, 16, 32, 64, 128} : Bit(0, k) = 0
  BY DEF Bit, Byte
<1> QED
  BY <1>1, XorBits, SameBits, BitIsBit

-----------------------------------------------------------------------------
(* Or of bytes, powers of two, and inverses in a modulus.                  *)

LEMMA OrDef ==
  ASSUME NEW a \in Byte, NEW b \in Byte
  PROVE  ByteOr(a, b) = Either(a, b, 1) + Either(a, b, 2) + Either(a, b, 4) + Either(a, b, 8)
    + Either(a, b, 16) + Either(a, b, 32) + Either(a, b, 64) + Either(a, b, 128)
BY DEF ByteOr, OrTable

LEMMA OrDisjoint ==
  ASSUME NEW a \in Byte, NEW b \in Byte,
         \A k \in {1, 2, 4, 8, 16, 32, 64, 128} : Bit(a, k) = 0 \/ Bit(b, k) = 0
  PROVE  ByteOr(a, b) = a + b
<1>1. \A k \in {1, 2, 4, 8, 16, 32, 64, 128} : Either(a, b, k) = k * (Bit(a, k) + Bit(b, k))
  BY BitIsBit DEF Either
<1> QED
  BY <1>1, OrDef, FromBits, BitIsBit

LEMMA OrHighLow ==
  ASSUME NEW a \in Byte, NEW b \in Byte, NEW k \in {1, 4, 16, 64, 256},
         a % k = 0, b < k
  PROVE  ByteOr(a, b) = a + b /\ ByteOr(b, a) = a + b
<1>1. \A j \in {1, 2, 4, 8, 16, 32, 64, 128} : Bit(a, j) = 0 \/ Bit(b, j) = 0
  <2>1. CASE k = 1
    BY <2>1 DEF Bit, Byte
  <2>2. CASE k = 4
    BY <2>2 DEF Bit, Byte
  <2>3. CASE k = 16
    BY <2>3 DEF Bit, Byte
  <2>4. CASE k = 64
    BY <2>4 DEF Bit, Byte
  <2>5. CASE k = 256
    BY <2>5 DEF Bit, Byte
  <2> QED
    BY <2>1, <2>2, <2>3, <2>4, <2>5
<1>2. a + b = b + a
  BY DEF Byte
<1> QED
  BY <1>1, <1>2, OrDisjoint

LEMMA Powers == TwoTo(0) = 1 /\ TwoTo(2) = 4 /\ TwoTo(4) = 16 /\ TwoTo(6) = 64 /\ TwoTo(8) = 256
BY DEF TwoTo

LEMMA KeysInverse ==
  ASSUME NEW m \in Nat \ {0}, NEW x \in 0 .. m - 1, NEW e \in Nat, NEW d \in Nat,
         (e * d) % m = 1
  PROVE  (d * ((x * e) % m)) % m = x
<1> DEFINE q == (x * e) \div m
           r == (x * e) % m
           p == (e * d) \div m
<1>1. q \in Int /\ r \in 0 .. m - 1 /\ p \in Int
  OBVIOUS
<1>2. x * e = q * m + r
  OBVIOUS
<1>3. e * d = p * m + 1
  OBVIOUS
<1> HIDE DEF q, r, p
<1>4. d * r = x + m * (x * p - d * q)
  <2>1. d * r = d * (x * e) - d * (q * m)
    BY <1>1, <1>2
  <2>2. d * (x * e) = x * (p * m + 1)
    BY <1>1, <1>3
  <2> QED
    BY <1>1, <2>1, <2>2
<1>5. ASSUME NEW t \in Int
      PROVE  (x + m * t) % m = x
  OBVIOUS
<1>6. x * p - d * q \in Int
  BY <1>1
<1> QED
  BY <1>4, <1>5, <1>6 DEF r

-----------------------------------------------------------------------------
(* Exclusive or of words.                                                  *)

LEMMA SmallXor ==
  ASSUME NEW a \in 0 .. 3, NEW b \in 0 .. 3
  PROVE  ByteXor(a, b) \in 0 .. 3
<1>1. a \in Byte /\ b \in Byte
  BY DEF Byte
<1>2. \A k \in {4, 8, 16, 32, 64, 128} : Bit(a, k) = 0 /\ Bit(b, k) = 0
  BY DEF Bit
<1>3. ByteXor(a, b) \in Byte /\ \A k \in {4, 8, 16, 32, 64, 128} : Bit(ByteXor(a, b), k) = 0
  BY <1>1, <1>2, XorBits
<1>4. ASSUME NEW x \in Byte, \A k \in {4, 8, 16, 32, 64, 128} : Bit(x, k) = 0
      PROVE  x \in 0 .. 3
  BY <1>4, FromBits, BitIsBit
<1> QED
  BY <1>3, <1>4

LEMMA LowDef ==
  ASSUME NEW a \in Nat
  PROVE  /\ Low(a, 0) = a % 256 /\ Low(a, 1) = (a \div 256) % 256
         /\ Low(a, 2) = (a \div (256 * 256)) % 256
BY DEF Low

LEMMA Lows ==
  ASSUME NEW a \in Word18
  PROVE  /\ Low(a, 0) \in Byte /\ Low(a, 1) \in Byte /\ Low(a, 2) \in Byte
         /\ Low(a, 2) \in 0 .. 3
         /\ a = Low(a, 0) + 256 * Low(a, 1) + 256 * 256 * Low(a, 2)
         /\ a \in Word16 <=> Low(a, 2) = 0
<1>1. a \in Nat
  BY DEF Word18
<1>2. /\ Low(a, 0) = a % 256 /\ Low(a, 1) = (a \div 256) % 256
      /\ Low(a, 2) = (a \div (256 * 256)) % 256
  BY <1>1, LowDef
<1> QED
  BY <1>1, <1>2 DEF Byte, Word16, Word18

LEMMA FromLows ==
  ASSUME NEW p \in Byte, NEW q \in Byte, NEW r \in 0 .. 3, NEW x \in Nat
  PROVE  x = p + 256 * q + 256 * 256 * r
           => /\ x \in Word18 /\ (r = 0 => x \in Word16)
              /\ Low(x, 0) = p /\ Low(x, 1) = q /\ Low(x, 2) = r
<1>1. /\ Low(x, 0) = x % 256 /\ Low(x, 1) = (x \div 256) % 256
      /\ Low(x, 2) = (x \div (256 * 256)) % 256
  BY LowDef
<1> HAVE x = p + 256 * q + 256 * 256 * r
<1>2. x \in Word18 /\ (r = 0 => x \in Word16)
  BY DEF Byte, Word18, Word16
<1>3. x \div 256 = q + 256 * r /\ x \div (256 * 256) = r /\ x % 256 = p
  BY DEF Byte
<1>4. (q + 256 * r) % 256 = q /\ r % 256 = r
  BY DEF Byte
<1> QED
  BY <1>1, <1>2, <1>3, <1>4

LEMMA WordXorLows ==
  ASSUME NEW a \in Word18, NEW b \in Word18
  PROVE  /\ WordXor(a, b) \in Word18
         /\ Low(WordXor(a, b), 0) = ByteXor(Low(a, 0), Low(b, 0))
         /\ Low(WordXor(a, b), 1) = ByteXor(Low(a, 1), Low(b, 1))
         /\ Low(WordXor(a, b), 2) = ByteXor(Low(a, 2), Low(b, 2))
         /\ a \in Word16 /\ b \in Word16 => WordXor(a, b) \in Word16
<1> DEFINE p == ByteXor(Low(a, 0), Low(b, 0))
           q == ByteXor(Low(a, 1), Low(b, 1))
           r == ByteXor(Low(a, 2), Low(b, 2))
<1>1. p \in Byte /\ q \in Byte /\ r \in 0 .. 3
  BY Lows, XorBits, SmallXor
<1>2. WordXor(a, b) = p + 256 * q + 256 * 256 * r
  BY DEF WordXor
<1>3. a \in Word16 /\ b \in Word16 => r = 0
  BY Lows, XorZero DEF Byte
<1> HIDE DEF p, q, r
<1>4. /\ WordXor(a, b) \in Word18 /\ (r = 0 => WordXor(a, b) \in Word16)
      /\ Low(WordXor(a, b), 0) = p /\ Low(WordXor(a, b), 1) = q /\ Low(WordXor(a, b), 2) = r
  <2>1. p + 256 * q + 256 * 256 * r \in Nat
    BY <1>1 DEF Byte
  <2> QED
    BY <1>1, <1>2, <2>1, FromLows
<1> QED
  BY <1>3, <1>4 DEF p, q, r

\* Words with the same bytes are the same.
LEMMA SameLows ==
  ASSUME NEW a \in Word18, NEW b \in Word18, Low(a, 0) = Low(b, 0),
         Low(a, 1) = Low(b, 1), Low(a, 2) = Low(b, 2)
  PROVE  a = b
BY Lows

LEMMA WordXorAssoc ==
  ASSUME NEW a \in Word18, NEW b \in Word18, NEW c \in Word18
  PROVE  WordXor(WordXor(a, b), c) = WordXor(a, WordXor(b, c))
<1>1. WordXor(a, b) \in Word18 /\ WordXor(b, c) \in Word18
  BY WordXorLows
<1>2. WordXor(WordXor(a, b), c) \in Word18 /\ WordXor(a, WordXor(b, c)) \in Word18
  BY <1>1, WordXorLows
<1>3. ASSUME NEW k \in 0 .. 2, NEW x \in Word18
      PROVE  Low(x, k) \in Byte
  BY Lows
<1>4. ASSUME NEW k \in 0 .. 2, NEW x \in Word18, NEW y \in Word18
      PROVE  Low(WordXor(x, y), k) = ByteXor(Low(x, k), Low(y, k))
  BY WordXorLows
<1>5. ASSUME NEW k \in 0 .. 2
      PROVE  Low(WordXor(WordXor(a, b), c), k) = Low(WordXor(a, WordXor(b, c)), k)
  BY <1>1, <1>3, <1>4, XorAssoc
<1> QED
  BY <1>2, <1>5, SameLows

LEMMA WordXorComm ==
  ASSUME NEW a \in Word18, NEW b \in Word18
  PROVE  WordXor(a, b) = WordXor(b, a)
<1>1. /\ Low(a, 0) \in Byte /\ Low(a, 1) \in Byte /\ Low(a, 2) \in Byte
      /\ Low(b, 0) \in Byte /\ Low(b, 1) \in Byte /\ Low(b, 2) \in Byte
  BY Lows
<1>2. /\ ByteXor(Low(a, 0), Low(b, 0)) = ByteXor(Low(b, 0), Low(a, 0))
      /\ ByteXor(Low(a, 1), Low(b, 1)) = ByteXor(Low(b, 1), Low(a, 1))
      /\ ByteXor(Low(a, 2), Low(b, 2)) = ByteXor(Low(b, 2), Low(a, 2))
  BY <1>1, XorComm
<1> QED
  BY <1>2 DEF WordXor

LEMMA WordXorSelf ==
  ASSUME NEW a \in Word18
  PROVE  WordXor(a, a) = 0 /\ WordXor(a, 0) = a
<1>1. Low(0, 0) = 0 /\ Low(0, 1) = 0 /\ Low(0, 2) = 0
  BY LowDef
<1>2. /\ Low(a, 0) \in Byte /\ Low(a, 1) \in Byte /\ Low(a, 2) \in Byte
      /\ a = Low(a, 0) + 256 * Low(a, 1) + 256 * 256 * Low(a, 2)
  BY Lows
<1>3. ASSUME NEW k \in 0 .. 2
      PROVE  ByteXor(Low(a, k), Low(a, k)) = 0 /\ ByteXor(Low(a, k), 0) = Low(a, k)
  BY <1>2, XorZero
<1>4. /\ WordXor(a, a) = 0 + 256 * 0 + 256 * 256 * 0
      /\ WordXor(a, 0) = Low(a, 0) + 256 * Low(a, 1) + 256 * 256 * Low(a, 2)
  BY <1>1, <1>3 DEF WordXor
<1> QED
  BY <1>2, <1>4

-----------------------------------------------------------------------------
(* shift(), and what add_bits() copies.                                    *)

\* The shifts that occur: by r bits, p = 2 ^ r and q = 2 ^ (8 - r).
Shifts == {0, 2, 4, 6}

LEMMA TwoTos ==
  ASSUME NEW r \in Shifts
  PROVE  /\ TwoTo(r) \in {1, 4, 16, 64} /\ TwoTo(8 - r) \in {4, 16, 64, 256}
         /\ TwoTo(r) * TwoTo(8 - r) = 256
         /\ r = 0 => TwoTo(r) = 1 /\ TwoTo(8 - r) = 256
         /\ r = 2 => TwoTo(r) = 4 /\ TwoTo(8 - r) = 64
         /\ r = 4 => TwoTo(r) = 16 /\ TwoTo(8 - r) = 16
         /\ r = 6 => TwoTo(r) = 64 /\ TwoTo(8 - r) = 4
<1>1. 8 - 0 = 8 /\ 8 - 2 = 6 /\ 8 - 4 = 4 /\ 8 - 6 = 2
  OBVIOUS
<1> QED
  BY <1>1, Powers DEF Shifts

LEMMA ShiftedOr ==
  ASSUME NEW r \in Shifts, NEW a \in Byte, NEW b \in Byte
  PROVE  /\ ByteOr(ShiftLeft(a, 8 - r), ShiftRight(b, r))
              = (a % TwoTo(r)) * TwoTo(8 - r) + b \div TwoTo(r)
         /\ ByteOr(ShiftRight(a, 8 - r), ShiftLeft(b, r))
              = a \div TwoTo(8 - r) + (b % TwoTo(8 - r)) * TwoTo(r)
<1>1. ASSUME NEW p \in {1, 4, 16, 64}, NEW q \in {4, 16, 64, 256}, p * q = 256
      PROVE  /\ (a * q) % 256 \in Byte /\ b \div p \in Byte
             /\ ((a * q) % 256) % q = 0 /\ b \div p < q
             /\ (a * q) % 256 = (a % p) * q
             /\ (b * p) % 256 \in Byte /\ a \div q \in Byte
             /\ ((b * p) % 256) % p = 0 /\ a \div q < p
             /\ (b * p) % 256 = (b % q) * p
  <2>1. CASE p = 1 /\ q = 256
    BY <2>1 DEF Byte
  <2>2. CASE p = 4 /\ q = 64
    BY <2>2 DEF Byte
  <2>3. CASE p = 16 /\ q = 16
    BY <2>3 DEF Byte
  <2>4. CASE p = 64 /\ q = 4
    BY <2>4 DEF Byte
  <2>5. \/ p = 1 /\ q = 256
        \/ p = 4 /\ q = 64
        \/ p = 16 /\ q = 16
        \/ p = 64 /\ q = 4
    BY <1>1
  <2> QED
    BY <2>1, <2>2, <2>3, <2>4, <2>5
<1> DEFINE p == TwoTo(r)
           q == TwoTo(8 - r)
<1>2. p \in {1, 4, 16, 64} /\ q \in {4, 16, 64, 256} /\ p * q = 256
  BY TwoTos
<1>3. /\ ShiftLeft(a, 8 - r) = (a * q) % 256 /\ ShiftRight(b, r) = b \div p
      /\ ShiftRight(a, 8 - r) = a \div q /\ ShiftLeft(b, r) = (b * p) % 256
  BY DEF ShiftLeft, ShiftRight
<1> HIDE DEF p, q
<1>4. /\ ByteOr((a * q) % 256, b \div p) = ((a * q) % 256) + b \div p
      /\ ByteOr(a \div q, (b * p) % 256) = a \div q + ((b * p) % 256)
  <2>1. /\ (a * q) % 256 \in Byte /\ b \div p \in Byte /\ (b * p) % 256 \in Byte
        /\ a \div q \in Byte
        /\ ((a * q) % 256) % q = 0 /\ b \div p < q /\ ((b * p) % 256) % p = 0 /\ a \div q < p
    BY <1>1, <1>2
  <2>2. p \in {1, 4, 16, 64, 256} /\ q \in {1, 4, 16, 64, 256}
    BY <1>2
  <2>3. \A x, y \in Byte : x + y = y + x
    BY DEF Byte
  <2> QED
    BY <2>1, <2>2, <2>3, OrHighLow
<1>5. (a * q) % 256 = (a % p) * q /\ (b * p) % 256 = (b % q) * p
  BY <1>1, <1>2
<1>6. /\ ByteOr(ShiftLeft(a, 8 - r), ShiftRight(b, r)) = (a % p) * q + b \div p
      /\ ByteOr(ShiftRight(a, 8 - r), ShiftLeft(b, r)) = a \div q + (b % q) * p
  BY <1>3, <1>4, <1>5
<1> QED
  BY <1>6 DEF p, q

\* 2 to the powers r, 8 - r and 6 - r.
LEMMA Triple ==
  ASSUME NEW r \in Shifts
  PROVE  \/ TwoTo(r) = 1 /\ TwoTo(8 - r) = 256 /\ TwoTo(6 - r) = 64
         \/ TwoTo(r) = 4 /\ TwoTo(8 - r) = 64 /\ TwoTo(6 - r) = 16
         \/ TwoTo(r) = 16 /\ TwoTo(8 - r) = 16 /\ TwoTo(6 - r) = 4
         \/ TwoTo(r) = 64 /\ TwoTo(8 - r) = 4 /\ TwoTo(6 - r) = 1
<1>1. 6 - 0 = 6 /\ 6 - 2 = 4 /\ 6 - 4 = 2 /\ 6 - 6 = 0 /\ 8 - 0 = 8 /\ 8 - 2 = 6 /\ 8 - 4 = 4
        /\ 8 - 6 = 2
  OBVIOUS
<1> QED
  BY <1>1, Powers DEF Shifts

LEMMA ShiftedBytes ==
  ASSUME NEW r \in Shifts, NEW a \in Byte, NEW b \in Byte
  PROVE  /\ (a % TwoTo(r)) * TwoTo(8 - r) + b \div TwoTo(r) \in Byte
         /\ a \div TwoTo(8 - r) + (b % TwoTo(8 - r)) * TwoTo(r) \in Byte
         /\ b \div TwoTo(r) \in Byte
         /\ (a % TwoTo(r)) * TwoTo(8 - r) \in Byte
         /\ (b % TwoTo(8 - r)) * TwoTo(r) \in Byte
<1> DEFINE p == TwoTo(r)
           q == TwoTo(8 - r)
<1>1. \/ p = 1 /\ q = 256
      \/ p = 4 /\ q = 64
      \/ p = 16 /\ q = 16
      \/ p = 64 /\ q = 4
  BY Triple
<1> HIDE DEF p, q
<1>2. /\ (a % p) * q + b \div p \in Byte /\ a \div q + (b % q) * p \in Byte
      /\ b \div p \in Byte /\ (a % p) * q \in Byte /\ (b % q) * p \in Byte
  <2>1. CASE p = 1 /\ q = 256
    BY <2>1 DEF Byte
  <2>2. CASE p = 4 /\ q = 64
    BY <2>2 DEF Byte
  <2>3. CASE p = 16 /\ q = 16
    BY <2>3 DEF Byte
  <2>4. CASE p = 64 /\ q = 4
    BY <2>4 DEF Byte
  <2> QED
    BY <1>1, <2>1, <2>2, <2>3, <2>4
<1> QED
  BY <1>2 DEF p, q

\* shift() of a buffer of n + 1 bytes, to the right and to the left.
LEMMA ShiftsRight ==
  ASSUME NEW r \in Shifts, NEW n \in Nat, NEW b \in [0 .. n -> Byte]
  PROVE  /\ shift(b, r) \in [0 .. n -> Byte]
         /\ shift(b, r)[0] = b[0] \div TwoTo(r)
         /\ \A k \in 0 .. n : k # 0 =>
              shift(b, r)[k] = (b[k - 1] % TwoTo(r)) * TwoTo(8 - r) + b[k] \div TwoTo(r)
<1>1. r >= 0 /\ DOMAIN b = 0 .. n /\ 0 \in Byte /\ 0 \in 0 .. n
  BY DEF Shifts, Byte
<1>2. shift(b, r) = [k \in 0 .. n |->
         ByteOr(ShiftLeft(IF k - 1 \in 0 .. n THEN b[k - 1] ELSE 0, 8 - r), ShiftRight(b[k], r))]
  BY <1>1 DEF shift
<1>3. ASSUME NEW k \in 1 .. n
      PROVE  /\ shift(b, r)[k] = (b[k - 1] % TwoTo(r)) * TwoTo(8 - r) + b[k] \div TwoTo(r)
             /\ shift(b, r)[k] \in Byte
  <2>1. k - 1 \in 0 .. n /\ k \in 0 .. n /\ b[k - 1] \in Byte /\ b[k] \in Byte
    OBVIOUS
  <2> QED
    BY <1>2, <2>1, ShiftedOr, ShiftedBytes
<1>4. shift(b, r)[0] = b[0] \div TwoTo(r) /\ shift(b, r)[0] \in Byte
  <2>1. 0 - 1 \notin 0 .. n /\ b[0] \in Byte
    BY <1>1
  <2>2. shift(b, r)[0] = (0 % TwoTo(r)) * TwoTo(8 - r) + b[0] \div TwoTo(r)
    BY <1>1, <1>2, <2>1, ShiftedOr
  <2>3. \A x \in Byte : (0 % TwoTo(r)) * TwoTo(8 - r) + x \div TwoTo(r) = x \div TwoTo(r)
    BY Triple DEF Byte
  <2> QED
    BY <2>1, <2>2, <2>3, ShiftedBytes
<1>5. \A k \in 0 .. n : k # 0 => k \in 1 .. n
  OBVIOUS
<1> QED
  BY <1>2, <1>3, <1>4, <1>5

LEMMA ShiftNone ==
  ASSUME NEW n \in Nat, NEW b \in [0 .. n -> Byte]
  PROVE  shift(b, 0) = b
<1>1. 0 \in Shifts /\ TwoTo(0) = 1
  BY Powers DEF Shifts
<1>2. /\ shift(b, 0) \in [0 .. n -> Byte]
      /\ shift(b, 0)[0] = b[0] \div 1
      /\ \A k \in 0 .. n : k # 0 => shift(b, 0)[k] = (b[k - 1] % 1) * TwoTo(8 - 0) + b[k] \div 1
  BY <1>1, ShiftsRight
<1>3. TwoTo(8 - 0) = 256
  BY Powers
<1>4. \A x, y \in Byte : x \div 1 = x /\ (y % 1) * 256 + x \div 1 = x
  BY DEF Byte
<1>5. ASSUME NEW k \in 0 .. n
      PROVE  shift(b, 0)[k] = b[k]
  <2>1. CASE k = 0
    BY <1>2, <1>4, <2>1
  <2>2. CASE k # 0
    <3>1. k \in 0 .. n /\ b[k] \in Byte /\ b[k - 1] \in Byte
      BY <2>2
    <3> QED
      BY <1>2, <1>3, <1>4, <3>1
  <2> QED
    BY <2>1, <2>2
<1> QED
  BY <1>2, <1>5

LEMMA ShiftsLeft ==
  ASSUME NEW r \in Shifts, NEW n \in Nat, NEW b \in [0 .. n -> Byte]
  PROVE  /\ shift(b, 0 - r) \in [0 .. n -> Byte]
         /\ shift(b, 0 - r)[n] = (b[n] % TwoTo(8 - r)) * TwoTo(r)
         /\ \A k \in 0 .. n : k # n =>
              shift(b, 0 - r)[k] = b[k + 1] \div TwoTo(8 - r) + (b[k] % TwoTo(8 - r)) * TwoTo(r)
<1>1. DOMAIN b = 0 .. n /\ n \in 0 .. n /\ 0 \in Byte
  BY DEF Byte
<1>2. CASE r = 0
  <2>1. 0 - r = 0 /\ shift(b, 0) = b
    BY <1>2, ShiftNone
  <2>2. r = 0 => TwoTo(r) = 1 /\ TwoTo(8 - r) = 256
    BY TwoTos
  <2>3. \A x, y \in Byte : (x % 256) * 1 = x /\ y \div 256 + (x % 256) * 1 = x
    BY DEF Byte
  <2>4. ASSUME NEW k \in 0 .. n, k # n
        PROVE  b[k] = b[k + 1] \div 256 + (b[k] % 256) * 1
    <3>1. b[k + 1] \in Byte /\ b[k] \in Byte
      BY <2>4
    <3> QED
      BY <2>3, <3>1
  <2>5. b[n] = (b[n] % 256) * 1
    BY <1>1, <2>3
  <2> QED
    BY <1>2, <2>1, <2>2, <2>4, <2>5
<1>3. CASE r # 0
  <2>1. ~ (0 - r >= 0) /\ 8 + (0 - r) = 8 - r /\ 0 - (0 - r) = r
    BY <1>3 DEF Shifts
  <2>2. shift(b, 0 - r) = [k \in 0 .. n |->
           ByteOr(ShiftRight(IF k + 1 \in 0 .. n THEN b[k + 1] ELSE 0, 8 - r), ShiftLeft(b[k], r))]
    BY <1>1, <2>1 DEF shift
  <2>3. ASSUME NEW k \in 0 .. n - 1
        PROVE  /\ shift(b, 0 - r)[k]
                    = b[k + 1] \div TwoTo(8 - r) + (b[k] % TwoTo(8 - r)) * TwoTo(r)
               /\ shift(b, 0 - r)[k] \in Byte
    <3>1. k + 1 \in 0 .. n /\ k \in 0 .. n /\ b[k + 1] \in Byte /\ b[k] \in Byte
      OBVIOUS
    <3>2. shift(b, 0 - r)[k] = ByteOr(ShiftRight(b[k + 1], 8 - r), ShiftLeft(b[k], r))
      BY <2>2, <3>1
    <3>3. ByteOr(ShiftRight(b[k + 1], 8 - r), ShiftLeft(b[k], r))
            = b[k + 1] \div TwoTo(8 - r) + (b[k] % TwoTo(8 - r)) * TwoTo(r)
      BY <3>1, ShiftedOr
    <3>4. b[k + 1] \div TwoTo(8 - r) + (b[k] % TwoTo(8 - r)) * TwoTo(r) \in Byte
      BY <3>1, ShiftedBytes
    <3> QED
      BY <3>2, <3>3, <3>4
  <2>4. /\ shift(b, 0 - r)[n] = (b[n] % TwoTo(8 - r)) * TwoTo(r)
        /\ shift(b, 0 - r)[n] \in Byte
    <3>1. n + 1 \notin 0 .. n /\ b[n] \in Byte
      BY <1>1
    <3>2. shift(b, 0 - r)[n] = 0 \div TwoTo(8 - r) + (b[n] % TwoTo(8 - r)) * TwoTo(r)
      BY <1>1, <2>2, <3>1, ShiftedOr
    <3>3. \A x \in Byte : 0 \div TwoTo(8 - r) + (x % TwoTo(8 - r)) * TwoTo(r)
                             = (x % TwoTo(8 - r)) * TwoTo(r)
      BY Triple DEF Byte
    <3> QED
      BY <3>1, <3>2, <3>3, ShiftedBytes
  <2>5. \A k \in 0 .. n : k # n => k \in 0 .. n - 1
    OBVIOUS
  <2> QED
    BY <2>2, <2>3, <2>4, <2>5
<1> QED
  BY <1>2, <1>3

\* What the four kinds of calls copy.
LEMMA CopiedFromWord ==
  ASSUME NEW e, e[0] \in Byte, e[1] \in Byte
  PROVE  Copied(e, 0, 16) = [k \in 0 .. 2 |-> IF k = 2 THEN 0 ELSE e[k]]
<1>1. /\ 0 \div 8 = 0 /\ (0 + 16 - 1) \div 8 + 1 - 0 = 2 /\ (8 - ((0 + 16) % 8)) % 8 = 0
  OBVIOUS
<1>2. \A x \in Byte : x - (x % TwoTo(0)) = x
  BY Powers DEF Byte
<1>3. ASSUME NEW k \in 0 .. 2
      PROVE  (IF k = 2 THEN 0 ELSE IF k = 2 - 1 THEN e[0 + k] - (e[0 + k] % TwoTo(0)) ELSE e[0 + k])
               = IF k = 2 THEN 0 ELSE e[k]
  BY <1>2
<1> QED
  BY <1>1, <1>3 DEF Copied

LEMMA CopiedTwoFromWord ==
  ASSUME NEW e, e[2] \in Byte
  PROVE  Copied(e, 22, 2) = [k \in 0 .. 1 |-> IF k = 1 THEN 0 ELSE e[2]]
<1>1. /\ 22 \div 8 = 2 /\ (22 + 2 - 1) \div 8 + 1 - 2 = 1 /\ (8 - ((22 + 2) % 8)) % 8 = 0
  OBVIOUS
<1>2. \A x \in Byte : x - (x % TwoTo(0)) = x
  BY Powers DEF Byte
<1>3. ASSUME NEW k \in 0 .. 1
      PROVE  (IF k = 1 THEN 0 ELSE IF k = 1 - 1 THEN e[2 + k] - (e[2 + k] % TwoTo(0)) ELSE e[2 + k])
               = IF k = 1 THEN 0 ELSE e[2]
  BY <1>2
<1> QED
  BY <1>1, <1>3 DEF Copied

LEMMA CopiedWhole ==
  ASSUME NEW f \in Nat, NEW b, b[f] \in Byte, b[f + 1] \in Byte
  PROVE  /\ Copied(b, 8 * f, 16) \in [0 .. 2 -> Byte]
         /\ Copied(b, 8 * f, 16)[0] = b[f] /\ Copied(b, 8 * f, 16)[1] = b[f + 1]
         /\ Copied(b, 8 * f, 16)[2] = 0
<1> DEFINE from == 8 * f
<1>1. /\ from \div 8 = f /\ (from + 16 - 1) \div 8 + 1 - f = 2 /\ (8 - ((from + 16) % 8)) % 8 = 0
      /\ f + 0 = f /\ 0 \in Byte
  BY DEF Byte
<1>2. \A x \in Byte : x - (x % TwoTo(0)) = x
  BY Powers DEF Byte
<1> HIDE DEF from
<1>3. Copied(b, from, 16) =
        [k \in 0 .. 2 |-> IF k = 2 THEN 0
                          ELSE IF k = 2 - 1 THEN b[f + k] - (b[f + k] % TwoTo(0)) ELSE b[f + k]]
  BY <1>1 DEF Copied
<1>4. \A k \in 0 .. 2 : k = 0 \/ k = 1 \/ k = 2
  OBVIOUS
<1>5. /\ Copied(b, from, 16) \in [0 .. 2 -> Byte]
      /\ Copied(b, from, 16)[0] = b[f] /\ Copied(b, from, 16)[1] = b[f + 1]
      /\ Copied(b, from, 16)[2] = 0
  BY <1>1, <1>2, <1>3, <1>4
<1> QED
  BY <1>5 DEF from

LEMMA CopiedFromBlock ==
  ASSUME NEW r \in Shifts, r # 0, NEW f \in Nat, NEW b,
         b[f] \in Byte, b[f + 1] \in Byte, b[f + 2] \in Byte
  PROVE  /\ Copied(b, 8 * f + r, 16) \in [0 .. 3 -> Byte]
         /\ Copied(b, 8 * f + r, 16)[0] = b[f] /\ Copied(b, 8 * f + r, 16)[1] = b[f + 1]
         /\ Copied(b, 8 * f + r, 16)[2] = b[f + 2] - (b[f + 2] % TwoTo(8 - r))
         /\ Copied(b, 8 * f + r, 16)[3] = 0
<1> DEFINE from == 8 * f + r
<1>1. /\ from \div 8 = f /\ (from + 16 - 1) \div 8 + 1 - f = 3
      /\ (8 - ((from + 16) % 8)) % 8 = 8 - r
      /\ f + 0 = f
  BY DEF Shifts
<1>2. b[f + 2] - (b[f + 2] % TwoTo(8 - r)) \in Byte /\ 0 \in Byte
  BY Triple DEF Byte
<1> HIDE DEF from
<1>3. Copied(b, from, 16) =
        [k \in 0 .. 3 |-> IF k = 3 THEN 0
                          ELSE IF k = 3 - 1 THEN b[f + k] - (b[f + k] % TwoTo(8 - r)) ELSE b[f + k]]
  BY <1>1 DEF Copied
<1>4. \A k \in 0 .. 3 : k = 0 \/ k = 1 \/ k = 2 \/ k = 3
  OBVIOUS
<1>5. /\ Copied(b, from, 16) \in [0 .. 3 -> Byte]
      /\ Copied(b, from, 16)[0] = b[f] /\ Copied(b, from, 16)[1] = b[f + 1]
      /\ Copied(b, from, 16)[2] = b[f + 2] - (b[f + 2] % TwoTo(8 - r))
      /\ Copied(b, from, 16)[3] = 0
  BY <1>1, <1>2, <1>3, <1>4
<1> QED
  BY <1>5 DEF from

LEMMA CopiedTwoFromBlock ==
  ASSUME NEW r \in Shifts, NEW f \in Nat, NEW b, b[f] \in Byte
  PROVE  /\ Copied(b, 8 * f + r, 2) \in [0 .. 1 -> Byte]
         /\ Copied(b, 8 * f + r, 2)[0] = b[f] - (b[f] % TwoTo(6 - r))
         /\ Copied(b, 8 * f + r, 2)[1] = 0
<1> DEFINE from == 8 * f + r
<1>1. /\ from \div 8 = f /\ (from + 2 - 1) \div 8 + 1 - f = 1 
      /\ (8 - ((from + 2) % 8)) % 8 = 6 - r /\ f + 0 = f
  BY DEF Shifts
<1>2. b[f] - (b[f] % TwoTo(6 - r)) \in Byte /\ 0 \in Byte
  BY Triple DEF Byte
<1> HIDE DEF from
<1>3. Copied(b, from, 2) = [k \in 0 .. 1 |-> IF k = 1 THEN 0
             ELSE IF k = 1 - 1 THEN b[f + k] - (b[f + k] % TwoTo(6 - r)) ELSE b[f + k]]
  BY <1>1 DEF Copied
<1>4. \A k \in 0 .. 1 : k = 0 \/ k = 1
  OBVIOUS
<1>5. /\ Copied(b, from, 2) \in [0 .. 1 -> Byte]
      /\ Copied(b, from, 2)[0] = b[f] - (b[f] % TwoTo(6 - r))
      /\ Copied(b, from, 2)[1] = 0
  BY <1>1, <1>2, <1>3, <1>4
<1> QED
  BY <1>5 DEF from

-----------------------------------------------------------------------------
(* add_bits() from a word into a block.                                    *)

LEMMA OrZero ==
  ASSUME NEW a \in Byte
  PROVE  ByteOr(0, a) = a /\ ByteOr(a, 0) = a
<1>1. 0 \in Byte /\ 256 \in {1, 4, 16, 64, 256} /\ 0 % 256 = 0 /\ a < 256 /\ 0 + a = a
  BY DEF Byte
<1> QED
  BY <1>1, OrHighLow

LEMMA PlaceOf ==
  ASSUME NEW r \in Shifts, NEW q \in Nat
  PROVE  (8 * q + r) \div 8 = q /\ (8 * q + r) % 8 = r
BY DEF Shifts

(***************************************************************************)
(* The byte behind those that are copied is left out unless the shift to   *)
(* the right is the larger one; it is 0 then, so it does not matter.       *)
(***************************************************************************)
LEMMA LastByte ==
  ASSUME NEW n \in Nat, NEW a \in Byte, NEW v, NEW j \in Int, NEW larger \in BOOLEAN,
         larger \/ (j = n => v = 0)
  PROVE  (IF j \in 0 .. n /\ (j + 1 \in 0 .. n \/ larger) THEN ByteOr(a, v) ELSE a)
           = IF j \in 0 .. n THEN ByteOr(a, v) ELSE a
<1>1. j \in 0 .. n => j + 1 \in 0 .. n \/ j = n
  OBVIOUS
<1> QED
  BY <1>1, OrZero

LEMMA AddFromWord ==
  ASSUME NEW r \in Shifts, NEW q \in Nat, NEW n \in Nat, NEW dest \in [0 .. n -> Byte],
         NEW e, e[0] \in Byte, e[1] \in Byte
  PROVE  add_bits(dest, 8 * q + r, e, 0, 16) = [k \in 0 .. n |->
           IF k = q THEN ByteOr(dest[k], e[0] \div TwoTo(r))
           ELSE IF k = q + 1
             THEN ByteOr(dest[k], (e[0] % TwoTo(r)) * TwoTo(8 - r) + e[1] \div TwoTo(r))
           ELSE IF k = q + 2 THEN ByteOr(dest[k], (e[1] % TwoTo(r)) * TwoTo(8 - r))
           ELSE dest[k]]
<1> DEFINE c == [k \in 0 .. 2 |-> IF k = 2 THEN 0 ELSE e[k]]
           moved == shift(c, r)
<1>1. c \in [0 .. 2 -> Byte]
  BY DEF Byte
<1>2. Copied(e, 0, 16) = c
  BY CopiedFromWord
<1>3. c[0] = e[0] /\ c[1] = e[1] /\ c[2] = 0
  OBVIOUS
<1> HIDE DEF c
<1>4. shift(c, 0 - (0 % 8)) = c
  <2>1. 0 - (0 % 8) = 0
    OBVIOUS
  <2> QED
    BY <1>1, <2>1, ShiftNone
<1>5. /\ moved \in [0 .. 2 -> Byte] /\ moved[0] = c[0] \div TwoTo(r)
      /\ \A k \in 0 .. 2 : k # 0 => moved[k] = (c[k - 1] % TwoTo(r)) * TwoTo(8 - r)
             + c[k] \div TwoTo(r)
  <2>1. 2 \in Nat
    OBVIOUS
  <2> QED
    BY <1>1, <2>1, ShiftsRight, Zenon
<1>6. /\ DOMAIN moved = 0 .. 2
      /\ moved[0] = e[0] \div TwoTo(r)
      /\ moved[1] = (e[0] % TwoTo(r)) * TwoTo(8 - r) + e[1] \div TwoTo(r)
      /\ moved[2] = (e[1] % TwoTo(r)) * TwoTo(8 - r)
  <2>2. moved[1] = (c[0] % TwoTo(r)) * TwoTo(8 - r) + c[1] \div TwoTo(r)
    BY <1>5
  <2>3. moved[2] = (c[1] % TwoTo(r)) * TwoTo(8 - r) + 0 \div TwoTo(r)
    BY <1>3, <1>5
  <2>4. \A x \in Byte : (x % TwoTo(r)) * TwoTo(8 - r) + 0 \div TwoTo(r)
                           = (x % TwoTo(r)) * TwoTo(8 - r)
    BY Triple DEF Byte
  <2> QED
    BY <1>3, <1>5, <2>2, <2>3, <2>4
<1> HIDE DEF moved
<1>7. shift(shift(Copied(e, 0, 16), 0 - (0 % 8)), (8 * q + r) % 8) = moved
  BY <1>2, <1>4, PlaceOf DEF moved
<1>8. add_bits(dest, 8 * q + r, e, 0, 16) =
        [k \in 0 .. n |-> IF k - q \in 0 .. 2 THEN ByteOr(dest[k], moved[k - q]) ELSE dest[k]]
  <2>1. add_bits(dest, 8 * q + r, e, 0, 16) =
          [k \in 0 .. n |-> IF k - q \in 0 .. 2 /\ (k - q + 1 \in 0 .. 2 \/ r > 0)
                            THEN ByteOr(dest[k], moved[k - q]) ELSE dest[k]]
    <3> DEFINE to == 8 * q + r
               from == 0
    <3>1. /\ to \div 8 = q /\ to % 8 = r /\ from % 8 = 0
      <4>1. (8 * q + r) \div 8 = q /\ (8 * q + r) % 8 = r
        BY PlaceOf
      <4>2. 0 % 8 = 0
        OBVIOUS
      <4> QED
        BY <4>1, <4>2
    <3>3. shift(shift(Copied(e, from, 16), 0 - (from % 8)), to % 8) = moved
      BY <1>7
    <3> HIDE DEF to, from
    <3>2. add_bits(dest, to, e, from, 16) =
            [k \in 0 .. n |-> IF k - q \in 0 .. 2 /\ (k - q + 1 \in 0 .. 2 \/ r > 0)
                              THEN ByteOr(dest[k], moved[k - q]) ELSE dest[k]]
      BY <1>6, <3>1, <3>3 DEF add_bits, OrInto
    <3> QED
      BY <3>2 DEF to, from
  <2>2. r > 0 \/ moved[2] = 0
    <3>1. CASE r = 0
      <4>1. TwoTo(r) = 1 /\ \A x \in Byte : x % 1 = 0
        BY <3>1, Powers DEF Byte
      <4>2. 0 * TwoTo(8 - r) = 0
        BY Triple
      <4> QED
        BY <1>6, <4>1, <4>2
    <3>2. CASE r # 0
      BY <3>2 DEF Shifts
    <3> QED
      BY <3>1, <3>2
  <2>3. ASSUME NEW k \in 0 .. n
        PROVE  (IF k - q \in 0 .. 2 /\ (k - q + 1 \in 0 .. 2 \/ r > 0)
                THEN ByteOr(dest[k], moved[k - q]) ELSE dest[k])
                 = IF k - q \in 0 .. 2 THEN ByteOr(dest[k], moved[k - q]) ELSE dest[k]
    <3> DEFINE j == k - q
               v == moved[j]
               a == dest[k]
               m == 2
    <3>1. /\ j \in Int /\ a \in Byte /\ m \in Nat /\ (r > 0) \in BOOLEAN
          /\ r > 0 \/ (j = m => v = 0)
      BY <2>2
    <3> HIDE DEF j, v, a, m
    <3>2. (IF j \in 0 .. m /\ (j + 1 \in 0 .. m \/ r > 0) THEN ByteOr(a, v) ELSE a)
            = IF j \in 0 .. m THEN ByteOr(a, v) ELSE a
      BY <3>1, LastByte
    <3> QED
      BY <3>2 DEF j, v, a, m
  <2> QED
    BY <2>1, <2>3
<1>9. ASSUME NEW k \in 0 .. n
      PROVE  k - q \in 0 .. 2 <=> k = q \/ k = q + 1 \/ k = q + 2
  OBVIOUS
<1>10. ASSUME NEW k \in 0 .. n
       PROVE  /\ k = q => k - q = 0
              /\ k = q + 1 => k - q = 1
              /\ k = q + 2 => k - q = 2
  OBVIOUS
<1> QED
  BY <1>6, <1>8, <1>9, <1>10

LEMMA AddTwoFromWord ==
  ASSUME NEW r \in Shifts, NEW q \in Nat, NEW n \in Nat, NEW dest \in [0 .. n -> Byte],
         NEW e, e[2] \in 0 .. 3
  PROVE  add_bits(dest, 8 * q + r, e, 22, 2) = [k \in 0 .. n |->
           IF k = q THEN ByteOr(dest[k], (e[2] * 64) \div TwoTo(r)) ELSE dest[k]]
<1> DEFINE c == [k \in 0 .. 1 |-> IF k = 1 THEN 0 ELSE e[2]]
           left == shift(c, 0 - 6)
           moved == shift(left, r)
<1>1. c \in [0 .. 1 -> Byte] /\ c[0] = e[2] /\ c[1] = 0 /\ e[2] \in Byte
  BY DEF Byte
<1>2. Copied(e, 22, 2) = c
  BY <1>1, CopiedTwoFromWord
<1> HIDE DEF c
<1>3. left \in [0 .. 1 -> Byte] /\ left[0] = e[2] * 64 /\ left[1] = 0
  <2>1. 6 \in Shifts /\ TwoTo(8 - 6) = 4 /\ TwoTo(6) = 64
    BY Powers DEF Shifts
  <2>2. /\ left \in [0 .. 1 -> Byte] /\ left[1] = (c[1] % TwoTo(8 - 6)) * TwoTo(6)
        /\ \A k \in 0 .. 1 : k # 1 => left[k] = c[k + 1] \div TwoTo(8 - 6)
               + (c[k] % TwoTo(8 - 6)) * TwoTo(6)
    <3>1. 1 \in Nat
      OBVIOUS
    <3> QED
      BY <1>1, <2>1, <3>1, ShiftsLeft, Zenon
  <2>3. left[0] = c[0 + 1] \div 4 + (c[0] % 4) * 64 /\ left[1] = (c[1] % 4) * 64
    BY <2>1, <2>2
  <2>4. left[0] = e[2] * 64 /\ left[1] = 0
    BY <1>1, <2>3
  <2> QED
    BY <2>2, <2>4
<1> HIDE DEF left
<1>4. /\ moved \in [0 .. 1 -> Byte] /\ moved[0] = (e[2] * 64) \div TwoTo(r) /\ moved[1] = 0
  <2>1. /\ moved \in [0 .. 1 -> Byte] /\ moved[0] = left[0] \div TwoTo(r)
        /\ \A k \in 0 .. 1 : k # 0 => moved[k] = (left[k - 1] % TwoTo(r)) * TwoTo(8 - r)
               + left[k] \div TwoTo(r)
    <3>1. 1 \in Nat
      OBVIOUS
    <3> QED
      BY <1>3, <3>1, ShiftsRight, Zenon
  <2>2. moved[1] = ((e[2] * 64) % TwoTo(r)) * TwoTo(8 - r) + 0 \div TwoTo(r)
    BY <1>3, <2>1
  <2>3. ((e[2] * 64) % TwoTo(r)) * TwoTo(8 - r) + 0 \div TwoTo(r) = 0
    BY Triple
  <2> QED
    BY <1>3, <2>1, <2>2, <2>3
<1> HIDE DEF moved
<1>5. shift(shift(Copied(e, 22, 2), 0 - (22 % 8)), (8 * q + r) % 8) = moved
  <2>1. 22 % 8 = 6
    OBVIOUS
  <2> QED
    BY <1>2, <2>1, PlaceOf DEF moved, left
<1>6. add_bits(dest, 8 * q + r, e, 22, 2) =
        [k \in 0 .. n |-> IF k - q \in 0 .. 1 THEN ByteOr(dest[k], moved[k - q]) ELSE dest[k]]
  <2> DEFINE to == 8 * q + r
             from == 22
             larger == to % 8 > from % 8
  <2>1. to \div 8 = q
    BY PlaceOf
  <2>2. shift(shift(Copied(e, from, 2), 0 - (from % 8)), to % 8) = moved
    BY <1>5
  <2> HIDE DEF to, from
  <2>3. add_bits(dest, to, e, from, 2) =
          [k \in 0 .. n |-> IF k - q \in 0 .. 1 /\ (k - q + 1 \in 0 .. 1 \/ larger)
                            THEN ByteOr(dest[k], moved[k - q]) ELSE dest[k]]
    BY <1>4, <2>1, <2>2 DEF add_bits, OrInto
  <2>4. larger \in BOOLEAN
    OBVIOUS
  <2> HIDE DEF larger
  <2>5. ASSUME NEW k \in 0 .. n
        PROVE  (IF k - q \in 0 .. 1 /\ (k - q + 1 \in 0 .. 1 \/ larger)
                THEN ByteOr(dest[k], moved[k - q]) ELSE dest[k])
                 = IF k - q \in 0 .. 1 THEN ByteOr(dest[k], moved[k - q]) ELSE dest[k]
    <3> DEFINE j == k - q
               v == moved[j]
               a == dest[k]
               m == 1
    <3>1. j \in Int /\ a \in Byte /\ m \in Nat /\ (j = m => v = 0)
      BY <1>4
    <3> HIDE DEF j, v, a, m
    <3>2. (IF j \in 0 .. m /\ (j + 1 \in 0 .. m \/ larger) THEN ByteOr(a, v) ELSE a)
            = IF j \in 0 .. m THEN ByteOr(a, v) ELSE a
      BY <2>4, <3>1, LastByte
    <3> QED
      BY <3>2 DEF j, v, a, m
  <2>6. add_bits(dest, to, e, from, 2) =
          [k \in 0 .. n |-> IF k - q \in 0 .. 1 THEN ByteOr(dest[k], moved[k - q]) ELSE dest[k]]
    BY <2>3, <2>5
  <2> QED
    BY <2>6 DEF to, from
<1>7. ASSUME NEW k \in 0 .. n
      PROVE  /\ k - q \in 0 .. 1 <=> k = q \/ k = q + 1
             /\ k = q => k - q = 0
             /\ k = q + 1 => k - q = 1 /\ k # q
  OBVIOUS
<1>8. \A k \in 0 .. n : ByteOr(dest[k], 0) = dest[k]
  BY OrZero
<1> QED
  BY <1>4, <1>6, <1>7, <1>8

-----------------------------------------------------------------------------
(* add_bits() from a block into a word.                                    *)

\* A copy of two bytes, at the front of a word.
LEMMA AddMoved ==
  ASSUME NEW from, from % 8 \in 0 .. 7, NEW b, NEW n \in {2, 3}, NEW left \in [0 .. n -> Byte],
         shift(Copied(b, from, 16), 0 - (from % 8)) = left, left[2] = 0, n = 3 => left[3] = 0
  PROVE  /\ add_bits(Zeros(4), 0, b, from, 16) \in [0 .. 3 -> Byte]
         /\ add_bits(Zeros(4), 0, b, from, 16)[0] = left[0]
         /\ add_bits(Zeros(4), 0, b, from, 16)[1] = left[1]
         /\ add_bits(Zeros(4), 0, b, from, 16)[2] = 0
         /\ add_bits(Zeros(4), 0, b, from, 16)[3] = 0
<1>1. shift(left, 0) = left
  BY ShiftNone
<1>2. 0 % 8 = 0 /\ 0 \div 8 = 0 /\ 0 \in Byte
  BY DEF Byte
<1>3. shift(shift(Copied(b, from, 16), 0 - (from % 8)), 0 % 8) = left
  BY <1>1, <1>2
<1>4. add_bits(Zeros(4), 0, b, from, 16) =
        [k \in 0 .. 3 |-> IF k \in 0 .. n THEN ByteOr(0, left[k]) ELSE 0]
  <2>1. DOMAIN Zeros(4) = 0 .. 3 /\ \A k \in 0 .. 3 : Zeros(4)[k] = 0 /\ k - 0 = k
    BY DEF Zeros
  <2> DEFINE larger == 0 % 8 > from % 8
  <2>2. add_bits(Zeros(4), 0, b, from, 16) =
          [k \in 0 .. 3 |-> IF k \in 0 .. n /\ (k + 1 \in 0 .. n \/ larger)
                            THEN ByteOr(0, left[k]) ELSE 0]
    BY <1>2, <1>3, <2>1 DEF add_bits, OrInto
  <2>3. larger \in BOOLEAN
    OBVIOUS
  <2> HIDE DEF larger
  <2>4. ASSUME NEW k \in 0 .. 3
        PROVE  (IF k \in 0 .. n /\ (k + 1 \in 0 .. n \/ larger) THEN ByteOr(0, left[k]) ELSE 0)
                 = IF k \in 0 .. n THEN ByteOr(0, left[k]) ELSE 0
    <3> DEFINE a == 0
               v == left[k]
    <3>1. a \in Byte /\ k \in Int /\ n \in Nat /\ (k = n => v = 0)
      BY <1>2
    <3> HIDE DEF a, v
    <3>2. (IF k \in 0 .. n /\ (k + 1 \in 0 .. n \/ larger) THEN ByteOr(a, v) ELSE a)
            = IF k \in 0 .. n THEN ByteOr(a, v) ELSE a
      BY <2>3, <3>1, LastByte
    <3> QED
      BY <3>2 DEF a, v
  <2> QED
    BY <2>2, <2>4
<1>5. \A k \in 0 .. n : ByteOr(0, left[k]) = left[k]
  BY OrZero
<1> QED
  BY <1>2, <1>4, <1>5

LEMMA AddWhole ==
  ASSUME NEW f \in Nat, NEW b, b[f] \in Byte, b[f + 1] \in Byte
  PROVE  /\ add_bits(Zeros(4), 0, b, 8 * f, 16) \in [0 .. 3 -> Byte]
         /\ add_bits(Zeros(4), 0, b, 8 * f, 16)[0] = b[f]
         /\ add_bits(Zeros(4), 0, b, 8 * f, 16)[1] = b[f + 1]
         /\ add_bits(Zeros(4), 0, b, 8 * f, 16)[2] = 0
         /\ add_bits(Zeros(4), 0, b, 8 * f, 16)[3] = 0
<1> DEFINE from == 8 * f
           c == Copied(b, from, 16)
<1>1. c \in [0 .. 2 -> Byte] /\ c[0] = b[f] /\ c[1] = b[f + 1] /\ c[2] = 0
  BY CopiedWhole
<1>2. from % 8 = 0 /\ 0 - 0 = 0 /\ 2 \in {2, 3} /\ 2 # 3 /\ 2 \in Nat /\ 0 \in 0 .. 7
  OBVIOUS
<1> HIDE DEF from
<1>4. shift(c, 0 - (from % 8)) = c
  <2> HIDE DEF c
  <2> QED
    BY <1>1, <1>2, ShiftNone, Zenon
<1>5. /\ add_bits(Zeros(4), 0, b, from, 16) \in [0 .. 3 -> Byte]
      /\ add_bits(Zeros(4), 0, b, from, 16)[0] = c[0]
      /\ add_bits(Zeros(4), 0, b, from, 16)[1] = c[1]
      /\ add_bits(Zeros(4), 0, b, from, 16)[2] = 0
      /\ add_bits(Zeros(4), 0, b, from, 16)[3] = 0
  BY <1>1, <1>2, <1>4, AddMoved, Zenon
<1> HIDE DEF c
<1>6. /\ add_bits(Zeros(4), 0, b, from, 16) \in [0 .. 3 -> Byte]
      /\ add_bits(Zeros(4), 0, b, from, 16)[0] = b[f]
      /\ add_bits(Zeros(4), 0, b, from, 16)[1] = b[f + 1]
      /\ add_bits(Zeros(4), 0, b, from, 16)[2] = 0
      /\ add_bits(Zeros(4), 0, b, from, 16)[3] = 0
  BY <1>1, <1>5, Zenon
<1> QED
  BY <1>6 DEF from

LEMMA AddFromBlock ==
  ASSUME NEW r \in Shifts, NEW f \in Nat, NEW b, b[f] \in Byte, b[f + 1] \in Byte, b[f + 2] \in Byte
  PROVE  LET a == add_bits(Zeros(4), 0, b, 8 * f + r, 16)
         IN  /\ a \in [0 .. 3 -> Byte]
             /\ a[0] = (b[f] % TwoTo(8 - r)) * TwoTo(r) + b[f + 1] \div TwoTo(8 - r)
             /\ a[1] = (b[f + 1] % TwoTo(8 - r)) * TwoTo(r) + b[f + 2] \div TwoTo(8 - r)
             /\ a[2] = 0 /\ a[3] = 0
<1> DEFINE from == 8 * f + r
           a == add_bits(Zeros(4), 0, b, from, 16)
           x == b[f]
           y == b[f + 1]
           z == b[f + 2]
           p == TwoTo(r)
           q == TwoTo(8 - r)
<1>1. /\ \/ p = 1 /\ q = 256
         \/ p = 4 /\ q = 64
         \/ p = 16 /\ q = 16
         \/ p = 64 /\ q = 4
      /\ r = 0 => p = 1 /\ q = 256
      /\ x \in Byte /\ y \in Byte /\ z \in Byte
  BY Triple, TwoTos
<1>2. from % 8 = r /\ r \in 0 .. 7
  BY PlaceOf DEF Shifts
<1>3. r = 0 => from = 8 * f
  OBVIOUS
<1>4. /\ a \in [0 .. 3 -> Byte]
      /\ a[0] = (x % q) * p + y \div q
      /\ a[1] = (y % q) * p + z \div q
      /\ a[2] = 0 /\ a[3] = 0
  <2>1. CASE r = 0
    <3> DEFINE w == add_bits(Zeros(4), 0, b, 8 * f, 16)
    <3>1. w \in [0 .. 3 -> Byte] /\ w[0] = x /\ w[1] = y /\ w[2] = 0 /\ w[3] = 0
      BY AddWhole
    <3>3. from = 8 * f => a = w
      <4> HIDE DEF from
      <4> QED
        OBVIOUS
    <3> HIDE DEF from, a, x, y, z, p, q, w
    <3>2. x = (x % q) * p + y \div q /\ y = (y % q) * p + z \div q
      <4>1. p = 1 /\ q = 256
        BY <1>1, <2>1
      <4> QED
        BY <1>1, <4>1 DEF Byte
    <3> QED
      BY <1>3, <2>1, <3>1, <3>2, <3>3
  <2>2. CASE r # 0
    <3> DEFINE c == Copied(b, from, 16)
               left == shift(c, 0 - r)
    <3>1. /\ c \in [0 .. 3 -> Byte] /\ c[0] = x /\ c[1] = y
          /\ c[2] = z - (z % q) /\ c[3] = 0
      BY <2>2, CopiedFromBlock
    <3> HIDE DEF c
    <3>2. /\ left \in [0 .. 3 -> Byte] /\ left[3] = (c[3] % q) * p
          /\ \A k \in 0 .. 3 : k # 3 => left[k] = c[k + 1] \div q + (c[k] % q) * p
      <4>1. 3 \in Nat
        OBVIOUS
      <4> QED
        BY <3>1, <4>1, ShiftsLeft, Zenon
    <3> HIDE DEF left, from, a, x, y, z, p, q
    <3>3. /\ left[0] = y \div q + (x % q) * p
          /\ left[1] = (z - (z % q)) \div q + (y % q) * p
          /\ left[2] = 0 \div q + ((z - (z % q)) % q) * p
          /\ left[3] = (0 % q) * p
      BY <3>1, <3>2
    <3>4. /\ left[0] = (x % q) * p + y \div q
          /\ left[1] = (y % q) * p + z \div q
          /\ left[2] = 0 /\ left[3] = 0
      <4>1. CASE p = 1 /\ q = 256
        BY <1>1, <3>3, <4>1 DEF Byte
      <4>2. CASE p = 4 /\ q = 64
        BY <1>1, <3>3, <4>2 DEF Byte
      <4>3. CASE p = 16 /\ q = 16
        BY <1>1, <3>3, <4>3 DEF Byte
      <4>4. CASE p = 64 /\ q = 4
        BY <1>1, <3>3, <4>4 DEF Byte
      <4> QED
        BY <1>1, <4>1, <4>2, <4>3, <4>4
    <3>5. /\ a \in [0 .. 3 -> Byte] /\ a[0] = left[0] /\ a[1] = left[1] /\ a[2] = 0 /\ a[3] = 0
      <4>1. 3 \in {2, 3} /\ from % 8 \in 0 .. 7
        BY <1>2
      <4>2. shift(Copied(b, from, 16), 0 - (from % 8)) = left
        BY <1>2 DEF left, c
      <4> QED
        BY <3>2, <3>4, <4>1, <4>2, AddMoved DEF a
    <3> QED
      BY <3>4, <3>5
  <2> QED
    BY <2>1, <2>2
<1> HIDE DEF a
<1> QED
  BY <1>4 DEF a

LEMMA AddTwoFromBlock ==
  ASSUME NEW r \in Shifts, NEW f \in Nat, NEW b, b[f] \in Byte,
         NEW dest \in [0 .. 3 -> Byte], dest[2] = 0, dest[3] = 0
  PROVE  LET a == add_bits(dest, 22, b, 8 * f + r, 2)
         IN  /\ a \in [0 .. 3 -> Byte] /\ a[0] = dest[0] /\ a[1] = dest[1]
             /\ a[2] = (b[f] \div TwoTo(6 - r)) % 4
<1> DEFINE from == 8 * f + r
           a == add_bits(dest, 22, b, from, 2)
           c == Copied(b, from, 2)
           left == shift(c, 0 - r)
           moved == shift(left, 6)
           x == b[f]
           p == TwoTo(r)
           q == TwoTo(8 - r)
           s == TwoTo(6 - r)
           v == (x \div s) % 4
<1>1. /\ \/ p = 1 /\ q = 256 /\ s = 64
         \/ p = 4 /\ q = 64 /\ s = 16
         \/ p = 16 /\ q = 16 /\ s = 4
         \/ p = 64 /\ q = 4 /\ s = 1
      /\ x \in Byte
  BY Triple
<1>2. from % 8 = r
  BY PlaceOf
<1>3. c \in [0 .. 1 -> Byte] /\ c[0] = x - (x % s) /\ c[1] = 0
  BY CopiedTwoFromBlock
<1> HIDE DEF c
<1>4. /\ left \in [0 .. 1 -> Byte] /\ left[1] = (c[1] % q) * p
      /\ \A k \in 0 .. 1 : k # 1 => left[k] = c[k + 1] \div q + (c[k] % q) * p
  <2>1. 1 \in Nat
    OBVIOUS
  <2> QED
    BY <1>3, <2>1, ShiftsLeft, Zenon
<1> HIDE DEF left, x, p, q, s
<1>5. left[0] = v * 64 /\ left[1] = 0 /\ v \in 0 .. 3
  <2>1. left[0] = 0 \div q + ((x - (x % s)) % q) * p /\ left[1] = (0 % q) * p
    BY <1>3, <1>4
  <2>2. CASE p = 1 /\ q = 256 /\ s = 64
    BY <1>1, <2>1, <2>2 DEF Byte
  <2>3. CASE p = 4 /\ q = 64 /\ s = 16
    BY <1>1, <2>1, <2>3 DEF Byte
  <2>4. CASE p = 16 /\ q = 16 /\ s = 4
    BY <1>1, <2>1, <2>4 DEF Byte
  <2>5. CASE p = 64 /\ q = 4 /\ s = 1
    BY <1>1, <2>1, <2>5 DEF Byte
  <2> QED
    BY <1>1, <2>2, <2>3, <2>4, <2>5
<1>6. /\ moved \in [0 .. 1 -> Byte] /\ moved[0] = left[0] \div 64
      /\ \A k \in 0 .. 1 : k # 0 => moved[k] = (left[k - 1] % 64) * 4 + left[k] \div 64
  <2>1. 1 \in Nat /\ 6 \in Shifts
    BY DEF Shifts
  <2>3. TwoTo(6) = 64 /\ TwoTo(8 - 6) = 4
    BY Powers
  <2>2. /\ moved \in [0 .. 1 -> Byte] /\ moved[0] = left[0] \div TwoTo(6)
        /\ \A k \in 0 .. 1 : k # 0 => moved[k] = (left[k - 1] % TwoTo(6)) * TwoTo(8 - 6)
               + left[k] \div TwoTo(6)
    BY <1>4, <2>1, ShiftsRight, Zenon
  <2> QED
    BY <2>2, <2>3
<1> HIDE DEF moved, v
<1>7. moved[0] = v /\ moved[1] = 0
  <2>1. moved[1] = ((v * 64) % 64) * 4 + 0 \div 64 /\ moved[0] = (v * 64) \div 64
    BY <1>5, <1>6
  <2> QED
    BY <1>5, <2>1
<1> HIDE DEF from
<1>8. a = [k \in 0 .. 3 |-> IF k - 2 \in 0 .. 1 THEN ByteOr(dest[k], moved[k - 2]) ELSE dest[k]]
  <2>1. 22 % 8 = 6 /\ 22 \div 8 = 2
    OBVIOUS
  <2>2. shift(shift(Copied(b, from, 2), 0 - (from % 8)), 22 % 8) = moved
    BY <1>2, <2>1 DEF moved, left, c
  <2> DEFINE larger == 22 % 8 > from % 8
  <2>3. a = [k \in 0 .. 3 |-> IF k - 2 \in 0 .. 1 /\ (k - 2 + 1 \in 0 .. 1 \/ larger)
                              THEN ByteOr(dest[k], moved[k - 2]) ELSE dest[k]]
    BY <1>6, <2>1, <2>2 DEF add_bits, OrInto
  <2>4. larger \in BOOLEAN
    OBVIOUS
  <2> HIDE DEF a, larger
  <2>5. ASSUME NEW k \in 0 .. 3
        PROVE  (IF k - 2 \in 0 .. 1 /\ (k - 2 + 1 \in 0 .. 1 \/ larger)
                THEN ByteOr(dest[k], moved[k - 2]) ELSE dest[k])
                 = IF k - 2 \in 0 .. 1 THEN ByteOr(dest[k], moved[k - 2]) ELSE dest[k]
    <3> DEFINE j == k - 2
               w == moved[j]
               g == dest[k]
               m == 1
    <3>1. j \in Int /\ g \in Byte /\ m \in Nat /\ (j = m => w = 0)
      BY <1>7
    <3> HIDE DEF j, w, g, m
    <3>2. (IF j \in 0 .. m /\ (j + 1 \in 0 .. m \/ larger) THEN ByteOr(g, w) ELSE g)
            = IF j \in 0 .. m THEN ByteOr(g, w) ELSE g
      BY <2>4, <3>1, LastByte
    <3> QED
      BY <3>2 DEF j, w, g, m
  <2> QED
    BY <2>3, <2>5
<1>9. a \in [0 .. 3 -> Byte] /\ a[0] = dest[0] /\ a[1] = dest[1] /\ a[2] = v
  <2>1. ByteOr(dest[2], moved[0]) = moved[0] /\ ByteOr(dest[3], moved[1]) = 0
          /\ moved[0] \in Byte /\ 0 \in Byte
    <3>1. moved[0] \in Byte /\ moved[1] \in Byte /\ moved[1] = 0
      BY <1>6, <1>7
    <3> QED
      BY <3>1, OrZero
  <2> QED
    BY <1>6, <1>7, <1>8, <2>1
<1> HIDE DEF a
<1> QED
  BY <1>9 DEF a, v, x, s, from

LEMMA UnpackBytes ==
  ASSUME NEW w \in Words, NEW b, \A k \in 0 .. 2 : b[2 * w + k] \in Byte
  PROVE  Unpack(b, w) =
           (b[2 * w] % TwoTo(8 - 2 * w)) * TwoTo(2 * w) + b[2 * w + 1] \div TwoTo(8 - 2 * w)
           + 256 * ((b[2 * w + 1] % TwoTo(8 - 2 * w)) * TwoTo(2 * w)
                      + b[2 * w + 2] \div TwoTo(8 - 2 * w))
           + 256 * 256 * ((b[2 * w + 2] \div TwoTo(6 - 2 * w)) % 4)
<1> DEFINE r == 2 * w
           f == 2 * w
           a == add_bits(Zeros(4), 0, b, 18 * w, 16)
           g == f + 2
           c == add_bits(a, 22, b, 8 * g + r, 2)
           u0 == (b[f] % TwoTo(8 - r)) * TwoTo(r) + b[f + 1] \div TwoTo(8 - r)
           u1 == (b[f + 1] % TwoTo(8 - r)) * TwoTo(r) + b[g] \div TwoTo(8 - r)
           u2 == (b[g] \div TwoTo(6 - r)) % 4
<1>1. /\ r \in Shifts /\ f \in Nat /\ 18 * w = 8 * f + r /\ 18 * w + 16 = 8 * g + r
      /\ f + 0 = f /\ g \in Nat
  BY DEF Words, Shifts
<1>2. b[f] \in Byte /\ b[f + 1] \in Byte /\ b[g] \in Byte
  BY <1>1
<1> HIDE DEF r, f
<1>3. /\ a \in [0 .. 3 -> Byte]
      /\ a[0] = (b[f] % TwoTo(8 - r)) * TwoTo(r) + b[f + 1] \div TwoTo(8 - r)
      /\ a[1] = (b[f + 1] % TwoTo(8 - r)) * TwoTo(r) + b[f + 2] \div TwoTo(8 - r)
      /\ a[2] = 0 /\ a[3] = 0
  BY <1>1, <1>2, AddFromBlock
<1>4. a[0] = u0 /\ a[1] = u1
  BY <1>3
<1> HIDE DEF a, u0, u1, g
<1>5. /\ c[0] = a[0] /\ c[1] = a[1] /\ c[2] = u2
  <2>1. r \in Shifts /\ g \in Nat
    BY <1>1
  <2> QED
    BY <1>2, <1>3, <2>1, AddTwoFromBlock, ZenonT(30)
<1>6. Unpack(b, w) = c[0] + 256 * c[1] + 256 * 256 * c[2]
  BY <1>1 DEF Unpack, InMemory, a
<1> HIDE DEF c, u2
<1>7. Unpack(b, w) = u0 + 256 * u1 + 256 * 256 * u2
  BY <1>4, <1>5, <1>6
<1> QED
  BY <1>7 DEF u0, u1, u2, g, r, f

-----------------------------------------------------------------------------
(* Words in a block.                                                       *)

\* Word w of a block, as its three bytes hold it.
Holds(b, w, word) ==
  /\ b[2 * w] % TwoTo(8 - 2 * w) = Low(word, 0) \div TwoTo(2 * w)
  /\ b[2 * w + 1] = (Low(word, 0) % TwoTo(2 * w)) * TwoTo(8 - 2 * w)
         + Low(word, 1) \div TwoTo(2 * w)
  /\ b[2 * w + 2] \div TwoTo(6 - 2 * w) = (Low(word, 1) % TwoTo(2 * w)) * 4 + Low(word, 2)

\* A block of which the first w words are packed.
PackedTo(b, w) ==
  /\ b \in [0 .. 10 -> Byte]
  /\ b[2 * w] % TwoTo(8 - 2 * w) = 0
  /\ \A k \in 0 .. 10 : k > 2 * w => b[k] = 0

LEMMA HeldIsUnpacked ==
  ASSUME NEW w \in Words, NEW b, \A k \in 0 .. 2 : b[2 * w + k] \in Byte,
         NEW word \in Word18, Holds(b, w, word)
  PROVE  Unpack(b, w) = word
<1> DEFINE f == 2 * w
           p == TwoTo(2 * w)
           q == TwoTo(8 - 2 * w)
           s == TwoTo(6 - 2 * w)
           x == Low(word, 0)
           y == Low(word, 1)
           z == Low(word, 2)
           b0 == b[2 * w]
           b1 == b[2 * w + 1]
           b2 == b[2 * w + 2]
<1>1. /\ \/ p = 1 /\ q = 256 /\ s = 64
         \/ p = 4 /\ q = 64 /\ s = 16
         \/ p = 16 /\ q = 16 /\ s = 4
         \/ p = 64 /\ q = 4 /\ s = 1
      /\ b0 \in Byte /\ b1 \in Byte /\ b2 \in Byte
  <2>1. 2 * w \in Shifts /\ 2 * w + 0 = 2 * w
    BY DEF Words, Shifts
  <2> HIDE DEF p, q, s
  <2>2. b0 \in Byte /\ b1 \in Byte /\ b2 \in Byte
    BY <2>1
  <2> QED
    BY <2>1, <2>2, Triple DEF p, q, s
<1>2. x \in Byte /\ y \in Byte /\ z \in 0 .. 3 /\ word = x + 256 * y + 256 * 256 * z
  BY Lows
<1>3. /\ b0 % q = x \div p
      /\ b1 = (x % p) * q + y \div p
      /\ b2 \div s = (y % p) * 4 + z
  BY DEF Holds
<1>4. Unpack(b, w) = (b0 % q) * p + b1 \div q + 256 * ((b1 % q) * p + b2 \div q)
                       + 256 * 256 * ((b2 \div s) % 4)
  BY UnpackBytes
<1> HIDE DEF p, q, s, x, y, z, b0, b1, b2
<1>5. /\ (b0 % q) * p + b1 \div q = x
      /\ (b1 % q) * p + b2 \div q = y
      /\ (b2 \div s) % 4 = z
  <2>1. CASE p = 1 /\ q = 256 /\ s = 64
    BY <1>1, <1>2, <1>3, <2>1 DEF Byte
  <2>2. CASE p = 4 /\ q = 64 /\ s = 16
    BY <1>1, <1>2, <1>3, <2>2 DEF Byte
  <2>3. CASE p = 16 /\ q = 16 /\ s = 4
    <3>1. /\ b0 % 16 = x \div 16 /\ b1 = (x % 16) * 16 + y \div 16
          /\ b2 \div 4 = (y % 16) * 4 + z
      BY <1>3, <2>3
    <3>2. /\ y \div 16 \in 0 .. 15 /\ y % 16 \in 0 .. 15 /\ (y \div 16) * 16 + (y % 16) = y
          /\ x \div 16 \in 0 .. 15 /\ x % 16 \in 0 .. 15 /\ (x \div 16) * 16 + (x % 16) = x
      BY <1>2 DEF Byte
    <3>3. ASSUME NEW i \in 0 .. 15, NEW j \in 0 .. 15
          PROVE  (i * 16 + j) \div 16 = i /\ (i * 16 + j) % 16 = j
      OBVIOUS
    <3>4. ASSUME NEW i \in 0 .. 15
          PROVE  (i * 4 + z) \div 4 = i /\ (i * 4 + z) % 4 = z
      BY <1>2
    <3>5. b2 \div 16 = (b2 \div 4) \div 4
      BY <1>1 DEF Byte
    <3>6. /\ b1 \div 16 = x % 16 /\ b1 % 16 = y \div 16
          /\ b2 \div 16 = y % 16 /\ (b2 \div 4) % 4 = z
      <4> DEFINE i1 == x % 16
                 j1 == y \div 16
                 i2 == y % 16
                 c2 == b2 \div 4
      <4>1. /\ i1 \in 0 .. 15 /\ j1 \in 0 .. 15 /\ i2 \in 0 .. 15
            /\ b1 = i1 * 16 + j1 /\ c2 = i2 * 4 + z /\ b2 \div 16 = c2 \div 4
        BY <3>1, <3>2, <3>5
      <4> HIDE DEF i1, j1, i2, c2
      <4>2. b1 \div 16 = i1 /\ b1 % 16 = j1 /\ c2 \div 4 = i2 /\ c2 % 4 = z
        BY <3>3, <3>4, <4>1
      <4>3. b2 \div 16 = i2
        BY <4>1, <4>2
      <4> QED
        BY <4>2, <4>3 DEF i1, j1, i2, c2
    <3> QED
      BY <2>3, <3>1, <3>2, <3>6
  <2>4. CASE p = 64 /\ q = 4 /\ s = 1
    <3>1. b0 % 4 = x \div 64 /\ b1 = (x % 64) * 4 + y \div 64 /\ b2 = (y % 64) * 4 + z
      BY <1>1, <1>3, <2>4 DEF Byte
    <3>2. y \div 64 \in 0 .. 3 /\ y % 64 \in 0 .. 63 /\ (y \div 64) * 64 + (y % 64) = y
          /\ x \div 64 \in 0 .. 3 /\ x % 64 \in 0 .. 63 /\ (x \div 64) * 64 + (x % 64) = x
      BY <1>2 DEF Byte
    <3>3. ASSUME NEW i \in 0 .. 63, NEW j \in 0 .. 3
          PROVE  (i * 4 + j) \div 4 = i /\ (i * 4 + j) % 4 = j
      OBVIOUS
    <3>4. /\ b1 \div 4 = x % 64 /\ b1 % 4 = y \div 64
          /\ b2 \div 4 = y % 64 /\ b2 % 4 = z
      <4> DEFINE i1 == x % 64
                 j1 == y \div 64
                 i2 == y % 64
      <4>1. i1 \in 0 .. 63 /\ j1 \in 0 .. 3 /\ i2 \in 0 .. 63 /\ b1 = i1 * 4 + j1 /\ b2 = i2 * 4 + z
        BY <3>1, <3>2
      <4> HIDE DEF i1, j1, i2
      <4>2. b1 \div 4 = i1 /\ b1 % 4 = j1 /\ b2 \div 4 = i2 /\ b2 % 4 = z
        BY <1>2, <3>3, <4>1
      <4> QED
        BY <4>2 DEF i1, j1, i2
    <3>5. b2 \div 1 = b2
      BY <1>1 DEF Byte
    <3> QED
      BY <2>4, <3>1, <3>2, <3>4, <3>5
  <2> QED
    BY <1>1, <2>1, <2>2, <2>3, <2>4
<1>6. Unpack(b, w) = x + 256 * y + 256 * 256 * z
  BY <1>4, <1>5
<1> QED
  BY <1>2, <1>6

LEMMA HighLowByte ==
  ASSUME NEW a \in Byte, NEW b \in Byte, NEW k \in {1, 4, 16, 64, 256}, a % k = 0, b < k
  PROVE  ByteOr(a, b) = a + b /\ a + b \in Byte
<1>1. a + b \in Byte
  <2>1. CASE k = 1
    BY <2>1 DEF Byte
  <2>2. CASE k = 4
    BY <2>2 DEF Byte
  <2>3. CASE k = 16
    BY <2>3 DEF Byte
  <2>4. CASE k = 64
    BY <2>4 DEF Byte
  <2>5. CASE k = 256
    BY <2>5 DEF Byte
  <2> QED
    BY <2>1, <2>2, <2>3, <2>4, <2>5
<1> QED
  BY <1>1, OrHighLow

LEMMA PackBytes ==
  ASSUME NEW w \in Words, NEW dest, PackedTo(dest, w), NEW word \in Word18
  PROVE  LET d == Pack(dest, w, word)
         IN  /\ d \in [0 .. 10 -> Byte]
             /\ \A k \in 0 .. 10 : k # 2 * w /\ k # 2 * w + 1 /\ k # 2 * w + 2 => d[k] = dest[k]
             /\ d[2 * w] = dest[2 * w] + Low(word, 0) \div TwoTo(2 * w)
             /\ d[2 * w + 1] = (Low(word, 0) % TwoTo(2 * w)) * TwoTo(8 - 2 * w)
                                  + Low(word, 1) \div TwoTo(2 * w)
             /\ d[2 * w + 2] = ((Low(word, 1) % TwoTo(2 * w)) * 4 + Low(word, 2)) * TwoTo(6 - 2 * w)
<1> DEFINE r == 2 * w
           f == 2 * w
           g == f + 2
           p == TwoTo(r)
           q == TwoTo(8 - r)
           s == TwoTo(6 - r)
           n == 10
           e == BytesOf(word)
           x == Low(word, 0)
           y == Low(word, 1)
           z == Low(word, 2)
           d1 == add_bits(dest, 8 * f + r, e, 0, 16)
           d == add_bits(d1, 8 * g + r, e, 22, 2)
<1>1. /\ r \in Shifts /\ f \in Nat /\ g \in Nat /\ 18 * w = 8 * f + r /\ 18 * w + 16 = 8 * g + r
      /\ f \in 0 .. n /\ f + 1 \in 0 .. n /\ g \in 0 .. n /\ n \in Nat
      /\ f + 1 # f /\ f + 1 # g /\ g # f /\ f + 1 > f /\ g > f
  BY DEF Words, Shifts
<1>2. d = Pack(dest, w, word)
  BY <1>1 DEF Pack
<1>3. /\ dest \in [0 .. n -> Byte] /\ dest[f] % q = 0 /\ dest[f + 1] = 0 /\ dest[g] = 0
      /\ dest[f] \in Byte
  BY <1>1 DEF PackedTo
<1>4. x \in Byte /\ y \in Byte /\ z \in 0 .. 3
  BY Lows
<1>5. e[0] = x /\ e[1] = y /\ e[2] = z
  BY DEF BytesOf
<1>6. \/ p = 1 /\ q = 256 /\ s = 64
      \/ p = 4 /\ q = 64 /\ s = 16
      \/ p = 16 /\ q = 16 /\ s = 4
      \/ p = 64 /\ q = 4 /\ s = 1
  BY <1>1, Triple
<1> HIDE DEF e, x, y, z, f, r, g, n
<1>7. d1 = [k \in 0 .. n |->
           IF k = f THEN ByteOr(dest[k], x \div p)
           ELSE IF k = f + 1 THEN ByteOr(dest[k], (x % p) * q + y \div p)
           ELSE IF k = f + 2 THEN ByteOr(dest[k], (y % p) * q)
           ELSE dest[k]]
  <2>2. e[0] \in Byte /\ e[1] \in Byte
    BY <1>4, <1>5
  <2>3. d1 = [k \in 0 .. n |->
           IF k = f THEN ByteOr(dest[k], e[0] \div p)
           ELSE IF k = f + 1 THEN ByteOr(dest[k], (e[0] % p) * q + e[1] \div p)
           ELSE IF k = f + 2 THEN ByteOr(dest[k], (e[1] % p) * q)
           ELSE dest[k]]
    <3>1. r \in Shifts /\ f \in Nat /\ n \in Nat
      BY <1>1
    <3> QED
      BY <1>3, <2>2, <3>1, AddFromWord
  <2> QED
    BY <1>5, <2>3
<1> HIDE DEF d1, p, q, s
<1>8. /\ x \div p \in Byte /\ (x % p) * q + y \div p \in Byte /\ (y % p) * q \in Byte
      /\ x \div p < q
      /\ ((y % p) * q) % q = 0
      /\ (z * 64) \div p = z * s /\ z * s \in Byte /\ z * s < q
      /\ (y % p) * q + z * s = ((y % p) * 4 + z) * s
      /\ q \in {1, 4, 16, 64, 256}
  <2>1. CASE p = 1 /\ q = 256 /\ s = 64
    BY <1>4, <2>1 DEF Byte
  <2>2. CASE p = 4 /\ q = 64 /\ s = 16
    BY <1>4, <2>2 DEF Byte
  <2>3. CASE p = 16 /\ q = 16 /\ s = 4
    BY <1>4, <2>3 DEF Byte
  <2>4. CASE p = 64 /\ q = 4 /\ s = 1
    BY <1>4, <2>4 DEF Byte
  <2> QED
    BY <1>6, <2>1, <2>2, <2>3, <2>4
<1>9. /\ d1 \in [0 .. n -> Byte]
      /\ d1[f] = dest[f] + x \div p
      /\ d1[f + 1] = (x % p) * q + y \div p
      /\ d1[g] = (y % p) * q
      /\ \A k \in 0 .. n : k # f /\ k # f + 1 /\ k # g => d1[k] = dest[k]
  <2>1. /\ ByteOr(dest[f], x \div p) = dest[f] + x \div p
        /\ dest[f] + x \div p \in Byte
    BY <1>3, <1>8, HighLowByte
  <2>2. /\ ByteOr(dest[f + 1], (x % p) * q + y \div p) = (x % p) * q + y \div p
        /\ ByteOr(dest[g], (y % p) * q) = (y % p) * q
    BY <1>3, <1>8, OrZero
  <2>3. f + 2 = g
    BY DEF g
  <2> QED
    BY <1>1, <1>3, <1>7, <1>8, <2>1, <2>2, <2>3
<1>10. d = [k \in 0 .. n |-> IF k = g THEN ByteOr(d1[k], (z * 64) \div p) ELSE d1[k]]
  <2>2. e[2] \in 0 .. 3
    BY <1>4, <1>5
  <2>3. d1 \in [0 .. n -> Byte]
    BY <1>9
  <2>4. r \in Shifts /\ g \in Nat /\ n \in Nat
    BY <1>1
  <2>5. d = [k \in 0 .. n |-> IF k = g THEN ByteOr(d1[k], (e[2] * 64) \div p) ELSE d1[k]]
    BY <2>2, <2>3, <2>4, AddTwoFromWord DEF p
  <2> QED
    BY <1>5, <2>5
<1>11. ByteOr(d1[g], (z * 64) \div p) = ((y % p) * 4 + z) * s /\ ((y % p) * 4 + z) * s \in Byte
  <2>1. /\ ByteOr((y % p) * q, z * s) = (y % p) * q + z * s
        /\ (y % p) * q + z * s \in Byte
    BY <1>8, HighLowByte
  <2> QED
    BY <1>8, <1>9, <2>1
<1> HIDE DEF d
<1>12. /\ d \in [0 .. n -> Byte]
       /\ \A k \in 0 .. n : k # f /\ k # f + 1 /\ k # g => d[k] = dest[k]
       /\ d[f] = dest[f] + x \div p
       /\ d[f + 1] = (x % p) * q + y \div p
       /\ d[g] = ((y % p) * 4 + z) * s
  BY <1>1, <1>9, <1>10, <1>11
<1> QED
  BY <1>2, <1>12 DEF d, n, f, g, r, p, q, s, x, y, z

LEMMA PackHolds ==
  ASSUME NEW w \in Words, NEW dest, PackedTo(dest, w), NEW word \in Word18
  PROVE  /\ PackedTo(Pack(dest, w, word), w + 1)
         /\ Holds(Pack(dest, w, word), w, word)
         /\ \A v \in Words : \A u : v < w /\ Holds(dest, v, u) => Holds(Pack(dest, w, word), v, u)
<1> DEFINE p == TwoTo(2 * w)
           q == TwoTo(8 - 2 * w)
           s == TwoTo(6 - 2 * w)
           x == Low(word, 0)
           y == Low(word, 1)
           z == Low(word, 2)
           d == Pack(dest, w, word)
           b0 == dest[2 * w]
           d2 == d[2 * w + 2]
<1>1. /\ d \in [0 .. 10 -> Byte]
      /\ \A k \in 0 .. 10 : k # 2 * w /\ k # 2 * w + 1 /\ k # 2 * w + 2 => d[k] = dest[k]
      /\ d[2 * w] = b0 + x \div p
      /\ d[2 * w + 1] = (x % p) * q + y \div p
      /\ d2 = ((y % p) * 4 + z) * s
  BY PackBytes
<1> HIDE DEF d
<1>2. \/ p = 1 /\ q = 256 /\ s = 64
      \/ p = 4 /\ q = 64 /\ s = 16
      \/ p = 16 /\ q = 16 /\ s = 4
      \/ p = 64 /\ q = 4 /\ s = 1
  <2>1. 2 * w \in Shifts
    BY DEF Words, Shifts
  <2> HIDE DEF p, q, s
  <2> QED
    BY <2>1, Triple DEF p, q, s
<1>3. x \in Byte /\ y \in Byte /\ z \in 0 .. 3
  BY Lows
<1>4. b0 \in Byte /\ b0 % q = 0
  BY DEF PackedTo, Words
<1> HIDE DEF p, q, s, x, y, z, b0, d2
<1>5. /\ (b0 + x \div p) % q = x \div p
      /\ (b0 + x \div p) \div q = b0 \div q
      /\ (((y % p) * 4 + z) * s) \div s = (y % p) * 4 + z
      /\ (((y % p) * 4 + z) * s) % s = 0
  <2>1. CASE p = 1 /\ q = 256 /\ s = 64
    BY <1>3, <1>4, <2>1 DEF Byte
  <2>2. CASE p = 4 /\ q = 64 /\ s = 16
    BY <1>3, <1>4, <2>2 DEF Byte
  <2>3. CASE p = 16 /\ q = 16 /\ s = 4
    BY <1>3, <1>4, <2>3 DEF Byte
  <2>4. CASE p = 64 /\ q = 4 /\ s = 1
    BY <1>3, <1>4, <2>4 DEF Byte
  <2> QED
    BY <1>2, <2>1, <2>2, <2>3, <2>4
<1>6. Holds(d, w, word)
  BY <1>1, <1>5 DEF Holds, p, q, s, x, y, z, d2
<1>7. PackedTo(d, w + 1)
  <2>1. 2 * (w + 1) = 2 * w + 2 /\ 8 - 2 * (w + 1) = 6 - 2 * w
    BY DEF Words
  <2>2. d[2 * (w + 1)] % TwoTo(8 - 2 * (w + 1)) = 0
    BY <1>1, <1>5, <2>1 DEF d2, s
  <2>3. ASSUME NEW k \in 0 .. 10, k > 2 * (w + 1)
        PROVE  d[k] = 0
    <3>1. k # 2 * w /\ k # 2 * w + 1 /\ k # 2 * w + 2 /\ k > 2 * w
      BY <2>3 DEF Words
    <3> QED
      BY <1>1, <3>1 DEF PackedTo
  <2> QED
    BY <1>1, <2>2, <2>3 DEF PackedTo
<1>8. ASSUME NEW v \in Words, NEW u, v < w, Holds(dest, v, u)
      PROVE  Holds(d, v, u)
  <2>1. d[2 * v] = dest[2 * v] /\ d[2 * v + 1] = dest[2 * v + 1]
    <3>1. /\ 2 * v \in 0 .. 10 /\ 2 * v # 2 * w /\ 2 * v # 2 * w + 1 /\ 2 * v # 2 * w + 2
          /\ 2 * v + 1 \in 0 .. 10 /\ 2 * v + 1 # 2 * w /\ 2 * v + 1 # 2 * w + 1
          /\ 2 * v + 1 # 2 * w + 2
      BY <1>8 DEF Words
    <3> QED
      BY <1>1, <3>1
  <2>2. d[2 * v + 2] \div TwoTo(6 - 2 * v) = dest[2 * v + 2] \div TwoTo(6 - 2 * v)
    <3>1. CASE v + 1 = w
      <4>1. 2 * v + 2 = 2 * w /\ 6 - 2 * v = 8 - 2 * w
        BY <3>1 DEF Words
      <4> QED
        BY <1>1, <1>5, <4>1 DEF q, b0
    <3>2. CASE v + 1 # w
      <4>1. /\ 2 * v + 2 \in 0 .. 10 /\ 2 * v + 2 # 2 * w /\ 2 * v + 2 # 2 * w + 1
            /\ 2 * v + 2 # 2 * w + 2
        BY <1>8, <3>2 DEF Words
      <4> QED
        BY <1>1, <4>1
    <3> QED
      BY <3>1, <3>2
  <2> QED
    BY <1>8, <2>1, <2>2 DEF Holds
<1> QED
  BY <1>6, <1>7, <1>8 DEF d

\* The last two bytes of a block.
LEMMA TrailerHolds ==
  ASSUME NEW dest, PackedTo(dest, 4), NEW e, e[0] \in Byte, e[1] \in Byte
  PROVE  LET d == add_bits(dest, 72, e, 0, 16)
         IN  /\ d \in [0 .. 10 -> Byte] /\ d[9] = e[0] /\ d[10] = e[1]
             /\ \A v \in Words : \A u : Holds(dest, v, u) => Holds(d, v, u)
<1> DEFINE d == add_bits(dest, 72, e, 0, 16)
           n == 10
           r == 0
           i == 9
           a == add_bits(dest, 8 * i + r, e, 0, 16)
<1>1. /\ dest \in [0 .. n -> Byte] /\ dest[9] = 0 /\ dest[10] = 0 /\ e[0] \in Byte /\ e[1] \in Byte
  BY DEF PackedTo
<1>2. TwoTo(r) = 1 /\ TwoTo(8 - r) = 256 /\ r \in Shifts /\ n \in Nat /\ i \in Nat
  BY Powers DEF Shifts
<1>3. d = a
  OBVIOUS
<1> HIDE DEF n, i, r
<1>5. a = [k \in 0 .. n |->
           IF k = i THEN ByteOr(dest[k], e[0] \div TwoTo(r))
           ELSE IF k = i + 1
             THEN ByteOr(dest[k], (e[0] % TwoTo(r)) * TwoTo(8 - r) + e[1] \div TwoTo(r))
           ELSE IF k = i + 2 THEN ByteOr(dest[k], (e[1] % TwoTo(r)) * TwoTo(8 - r))
           ELSE dest[k]]
  <2>1. r \in Shifts /\ n \in Nat /\ i \in Nat
    BY <1>2
  <2>2. dest \in [0 .. n -> Byte] /\ e[0] \in Byte /\ e[1] \in Byte
    BY <1>1
  <2> QED
    BY <2>1, <2>2, AddFromWord
<1>6. /\ e[0] \div 1 = e[0] /\ (e[0] % 1) * 256 + e[1] \div 1 = e[1]
  <2>1. \A x, y \in Byte : x \div 1 = x /\ (x % 1) * 256 + y \div 1 = y
    BY DEF Byte
  <2> QED
    BY <1>1, <2>1
<1> HIDE DEF d, a
<1>7. d = [k \in 0 .. 10 |-> IF k = 9 THEN e[0] ELSE IF k = 10 THEN e[1] ELSE dest[k]]
  <2>1. ByteOr(dest[9], e[0]) = e[0] /\ ByteOr(dest[10], e[1]) = e[1]
    BY <1>1, OrZero
  <2>2. n = 10 /\ i = 9 /\ i + 1 = 10 /\ i + 2 = 11
    BY DEF n, i
  <2>4. \A k \in 0 .. 10 : k # 11
    OBVIOUS
  <2> QED
    BY <1>2, <1>3, <1>5, <1>6, <2>1, <2>2, <2>4
<1>8. d \in [0 .. 10 -> Byte] /\ d[9] = e[0] /\ d[10] = e[1]
  <2>1. n = 10 /\ 9 \in 0 .. n /\ 10 \in 0 .. n /\ 9 # 10
    BY DEF n
  <2> QED
    BY <1>1, <1>7, <2>1
<1>9. ASSUME NEW v \in Words, NEW u, Holds(dest, v, u)
      PROVE  Holds(d, v, u)
  <2>1. /\ 2 * v \in 0 .. 10 /\ 2 * v # 9 /\ 2 * v # 10
        /\ 2 * v + 1 \in 0 .. 10 /\ 2 * v + 1 # 9 /\ 2 * v + 1 # 10
        /\ 2 * v + 2 \in 0 .. 10 /\ 2 * v + 2 # 9 /\ 2 * v + 2 # 10
    BY DEF Words
  <2>2. d[2 * v] = dest[2 * v] /\ d[2 * v + 1] = dest[2 * v + 1] /\ d[2 * v + 2] = dest[2 * v + 2]
    BY <1>7, <2>1
  <2> QED
    BY <1>9, <2>2 DEF Holds
<1> QED
  BY <1>8, <1>9 DEF d

-----------------------------------------------------------------------------
(* Residues, the chain of words, and the hidden size.                      *)

LEMMA WordsFit ==
  /\ Word16 \subseteq Word18
  /\ \A a \in Nat : a % (256 * 256) \in Word16
  /\ \A a \in Word16 : a % (256 * 256) = a
  /\ \A w \in Words : xor_key[w] \in Word18 /\ xor_key[w] \in Word16
<1>1. \A w \in Words : xor_key[w] \in Word16
  <2>1. KeysFit
    BY KeysAssumption
  <2> QED
    BY <2>1, SMT DEF KeysFit
<1>2. Word16 \subseteq Word18
  BY DEF Word16, Word18
<1>3. \A a \in Nat : a % (256 * 256) \in Word16
  BY SMT DEF Word16
<1>4. \A a \in Word16 : a % (256 * 256) = a
  BY SMT DEF Word16
<1> QED
  BY <1>1, <1>2, <1>3, <1>4, SMT

LEMMA Xor3Fits ==
  ASSUME NEW a \in Word18, NEW b \in Word18, NEW c \in Word18
  PROVE  /\ Xor3(a, b, c) \in Word18
         /\ a \in Word16 /\ b \in Word16 /\ c \in Word16 => Xor3(a, b, c) \in Word16
<1>1. WordXor(a, b) \in Word18 /\ (a \in Word16 /\ b \in Word16 => WordXor(a, b) \in Word16)
  BY WordXorLows
<1> QED
  BY <1>1, WordXorLows DEF Xor3

\* What was exclusive-or-ed in twice is gone.
LEMMA Xor3Twice ==
  ASSUME NEW a \in Word18, NEW b \in Word18, NEW c \in Word18
  PROVE  Xor3(Xor3(a, b, c), b, c) = a
<1> DEFINE bc == WordXor(b, c)
<1>1. bc \in Word18 /\ WordXor(a, b) \in Word18 /\ WordXor(a, bc) \in Word18
  BY WordXorLows
<1>2. Xor3(a, b, c) = WordXor(a, bc)
  BY WordXorAssoc DEF Xor3
<1>3. Xor3(WordXor(a, bc), b, c) = WordXor(WordXor(a, bc), bc)
  BY <1>1, WordXorAssoc DEF Xor3
<1>4. WordXor(WordXor(a, bc), bc) = WordXor(a, WordXor(bc, bc))
  BY <1>1, WordXorAssoc
<1> HIDE DEF bc
<1>5. WordXor(bc, bc) = 0 /\ WordXor(a, 0) = a
  BY <1>1, WordXorSelf
<1> QED
  BY <1>2, <1>3, <1>4, <1>5

LEMMA Xor3Swap ==
  ASSUME NEW a \in Word18, NEW b \in Word18, NEW c \in Word18
  PROVE  Xor3(Xor3(a, b, c), a, c) = b
<1>1. Xor3(a, b, c) = Xor3(b, a, c)
  BY WordXorComm DEF Xor3
<1> QED
  BY <1>1, Xor3Twice

LEMMA ChainTwice ==
  ASSUME NEW w \in Words, NEW a \in Word18, NEW next \in Word18
  PROVE  Chain(w, a, next) \in Word18 /\ Chain(w, Chain(w, a, next), next) = a
<1> DEFINE t == next % (256 * 256)
           k == xor_key[w]
<1>1. t \in Word18 /\ k \in Word18
  BY WordsFit, SMT DEF Word18
<1>2. Chain(w, a, next) = Xor3(a, k, t)
        /\ Chain(w, Chain(w, a, next), next) = Xor3(Xor3(a, k, t), k, t)
  BY SMT DEF Chain
<1> HIDE DEF t, k
<1>3. Xor3(a, k, t) \in Word18 /\ Xor3(Xor3(a, k, t), k, t) = a
  BY <1>1, Xor3Fits, Xor3Twice
<1> QED
  BY <1>2, <1>3

LEMMA PlainOfResidue ==
  ASSUME NEW w \in Words, NEW word \in Word16, NEW before \in Word18
  PROVE  /\ Residue(w, word, before) \in Word18
         /\ PlainWord(w, Residue(w, word, before), before) = word
<1> DEFINE k == xor_key[w]
           t == before % (256 * 256)
           m == modulus[w]
           e == encryption_key[w]
           d == decryption_key[w]
           x == Xor3(k, word, t)
<1>1. k \in Word16 /\ t \in Word16 /\ word \in Word18 /\ k \in Word18 /\ t \in Word18
  BY WordsFit, SMT DEF Word18
<1>2. x \in Word16
  BY <1>1, Xor3Fits
<1>3. m \in Word18 /\ m \notin Word16 /\ e \in Nat /\ d \in Nat /\ (e * d) % m = 1
  <2>1. KeysFit /\ (e * d) % m = 1
    BY KeysAssumption
  <2>2. m \in Word18 /\ m \notin Word16 /\ e \in Nat /\ d \in Nat
    BY <2>1, SMT DEF KeysFit
  <2> QED
    BY <2>1, <2>2
<1> HIDE DEF k, t, m, e, d, x
<1>4. m \in Nat \ {0} /\ x \in 0 .. m - 1
  BY <1>2, <1>3 DEF Word16, Word18
<1>5. (d * ((x * e) % m)) % m = x
  BY <1>3, <1>4, KeysInverse
<1>6. (x * e) % m \in Word18
  <2>1. x * e \in Nat
    BY <1>3, <1>4
  <2> DEFINE y == x * e
  <2> HIDE DEF y
  <2>2. y % m \in 0 .. m - 1
    BY <1>4, <2>1 DEF y
  <2>3. y % m \in Word18
    BY <1>3, <2>2 DEF Word18
  <2> QED
    BY <2>3 DEF y
<1>7. Xor3(x, k, t) = word
  BY <1>1, Xor3Swap DEF x
<1>8. Residue(w, word, before) = (x * e) % m
  BY SMT DEF Residue, x, k, t, e, m
<1>9. PlainWord(w, (x * e) % m, before) = Xor3(x, k, t) % (256 * 256)
  BY <1>5, SMT DEF PlainWord, k, t, m, d
<1>10. word % (256 * 256) = word
  BY WordsFit, SMT
<1> QED
  BY <1>6, <1>7, <1>8, <1>9, <1>10, SMT

LEMMA HiddenTwice ==
  ASSUME NEW c \in Byte, NEW n \in Byte
  PROVE  HiddenSize(c, n) \in Byte /\ HiddenSize(c, HiddenSize(c, n)) = n
<1>0. 61 \in Byte
  BY DEF Byte
<1>1. /\ ByteXor(c, n) \in Byte /\ ByteXor(ByteXor(c, n), 61) \in Byte
      /\ ByteXor(c, c) = 0 /\ ByteXor(61, 61) = 0 /\ 0 \in Byte
      /\ ByteXor(0, n) = n /\ ByteXor(n, 61) \in Byte
  <2>1. 0 \in Byte
    BY DEF Byte
  <2>2. ByteXor(c, n) \in Byte /\ ByteXor(n, 61) \in Byte
    BY <1>0, XorBits
  <2>3. ByteXor(ByteXor(c, n), 61) \in Byte
    BY <1>0, <2>2, XorBits
  <2>4. ByteXor(c, c) = 0 /\ ByteXor(61, 61) = 0 /\ ByteXor(n, 0) = n
          /\ ByteXor(0, n) = ByteXor(n, 0)
    BY <1>0, <2>1, XorZero, XorComm
  <2> QED
    BY <2>1, <2>2, <2>3, <2>4
<1>2. ByteXor(c, ByteXor(ByteXor(c, n), 61)) = ByteXor(n, 61)
  <2>1. ByteXor(ByteXor(c, n), 61) = ByteXor(c, ByteXor(n, 61))
    BY <1>0, XorAssoc
  <2>2. ByteXor(c, ByteXor(c, ByteXor(n, 61))) = ByteXor(ByteXor(c, c), ByteXor(n, 61))
    BY <1>1, XorAssoc
  <2>3. ByteXor(0, ByteXor(n, 61)) = ByteXor(n, 61)
    BY <1>1, XorZero, XorComm
  <2> QED
    BY <1>1, <2>1, <2>2, <2>3
<1>3. ByteXor(ByteXor(n, 61), 61) = n
  <2>1. ByteXor(ByteXor(n, 61), 61) = ByteXor(n, ByteXor(61, 61))
    BY <1>0, XorAssoc
  <2>2. ByteXor(n, 0) = n
    BY XorZero
  <2> QED
    BY <1>1, <2>1, <2>2
<1> QED
  BY <1>1, <1>2, <1>3 DEF HiddenSize

-----------------------------------------------------------------------------
(* Blocks.                                                                 *)

LEMMA WordOfBytes ==
  ASSUME NEW s \in [0 .. 7 -> Byte], NEW w \in Words
  PROVE  /\ Word(s, w) \in Word16
         /\ Low(Word(s, w), 0) = s[2 * w] /\ Low(Word(s, w), 1) = s[2 * w + 1]
<1> DEFINE x == s[2 * w]
           y == s[2 * w + 1]
           v == Word(s, w)
<1>1. x \in Byte /\ y \in Byte
  BY DEF Words
<1>0. v = x + 256 * y
  BY DEF Word
<1> HIDE DEF x, y, v
<1>2. v = x + 256 * y + 256 * 256 * 0
  BY <1>0, <1>1 DEF Byte
<1>3. v \in Nat /\ 0 \in 0 .. 3
  BY <1>1, <1>2 DEF Byte
<1>4. v \in Word16 /\ Low(v, 0) = x /\ Low(v, 1) = y
  BY <1>1, <1>2, <1>3, FromLows
<1> QED
  BY <1>4 DEF x, y, v

LEMMA ResiduesFit ==
  ASSUME NEW s \in [0 .. 7 -> Byte]
  PROVE  LET r == Residues(s)
         IN  /\ r[0] \in Word18 /\ r[1] \in Word18 /\ r[2] \in Word18 /\ r[3] \in Word18
             /\ PlainWord(0, r[0], 0) = Word(s, 0) /\ PlainWord(1, r[1], r[0]) = Word(s, 1)
             /\ PlainWord(2, r[2], r[1]) = Word(s, 2) /\ PlainWord(3, r[3], r[2]) = Word(s, 3)
<1> DEFINE r0 == Residue(0, Word(s, 0), 0)
           r1 == Residue(1, Word(s, 1), r0)
           r2 == Residue(2, Word(s, 2), r1)
           r3 == Residue(3, Word(s, 3), r2)
<1>1. 0 \in Words /\ 1 \in Words /\ 2 \in Words /\ 3 \in Words /\ 0 \in Word18
  BY DEF Words, Word18
<1>2. /\ Word(s, 0) \in Word16 /\ Word(s, 1) \in Word16 /\ Word(s, 2) \in Word16
      /\ Word(s, 3) \in Word16
  BY <1>1, WordOfBytes
<1>3. r0 \in Word18 /\ PlainWord(0, r0, 0) = Word(s, 0)
  BY <1>1, <1>2, PlainOfResidue
<1>4. r1 \in Word18 /\ PlainWord(1, r1, r0) = Word(s, 1)
  <2> HIDE DEF r0
  <2> QED
    BY <1>1, <1>2, <1>3, PlainOfResidue
<1>5. r2 \in Word18 /\ PlainWord(2, r2, r1) = Word(s, 2)
  <2> HIDE DEF r1
  <2> QED
    BY <1>1, <1>2, <1>4, PlainOfResidue
<1>6. r3 \in Word18 /\ PlainWord(3, r3, r2) = Word(s, 3)
  <2> HIDE DEF r2
  <2> QED
    BY <1>1, <1>2, <1>5, PlainOfResidue
<1> DEFINE t0 == AndResidue(0, s, Zeros(4))
           t1 == AndResidue(1, s, t0)
           t2 == AndResidue(2, s, t1)
           t3 == AndResidue(3, s, t2)
<1>7. Residues(s) = t3
  BY DEF Residues
<1>8. DOMAIN Zeros(4) = 0 .. 3
  BY DEF Zeros
<1>9. DOMAIN t0 = 0 .. 3 /\ t0[0] = r0
  BY <1>8 DEF AndResidue, Before
<1> HIDE DEF t0, r0
<1>10. DOMAIN t1 = 0 .. 3 /\ t1[0] = r0 /\ t1[1] = r1
  BY <1>9 DEF AndResidue, Before
<1> HIDE DEF t1, r1
<1>11. DOMAIN t2 = 0 .. 3 /\ t2[0] = r0 /\ t2[1] = r1 /\ t2[2] = r2
  BY <1>10 DEF AndResidue, Before
<1> HIDE DEF t2, r2
<1>12. t3[0] = r0 /\ t3[1] = r1 /\ t3[2] = r2 /\ t3[3] = r3
  BY <1>11 DEF AndResidue, Before
<1> HIDE DEF t3, r3
<1> QED
  BY <1>3, <1>4, <1>5, <1>6, <1>7, <1>12

\* A block of 11 bytes that holds the residues of 8.
Carries(b, s) ==
  LET r == Residues(s)
  IN  /\ b \in [0 .. 10 -> Byte]
      /\ Holds(b, 0, Chain(0, r[0], r[1])) /\ Holds(b, 1, Chain(1, r[1], r[2]))
      /\ Holds(b, 2, Chain(2, r[2], r[3])) /\ Holds(b, 3, r[3])

LEMMA CheckByte ==
  ASSUME NEW s \in [0 .. 7 -> Byte]
  PROVE  check_sum(s) \in Byte
<1> DEFINE c0 == ByteXor(248, s[0])
           c1 == ByteXor(c0, s[1])
           c2 == ByteXor(c1, s[2])
           c3 == ByteXor(c2, s[3])
           c4 == ByteXor(c3, s[4])
           c5 == ByteXor(c4, s[5])
           c6 == ByteXor(c5, s[6])
<1>1. ASSUME NEW a \in Byte, NEW k \in 0 .. 7
      PROVE  ByteXor(a, s[k]) \in Byte
  <2>1. s[k] \in Byte
    OBVIOUS
  <2> QED
    BY <2>1, XorBits
<1>2. 248 \in Byte
  BY DEF Byte
<1>3. c0 \in Byte
  BY <1>1, <1>2
<1>4. c1 \in Byte
  BY <1>1, <1>3
<1>5. c2 \in Byte
  BY <1>1, <1>4
<1>6. c3 \in Byte
  BY <1>1, <1>5
<1>7. c4 \in Byte
  BY <1>1, <1>6
<1>8. c5 \in Byte
  BY <1>1, <1>7
<1>9. c6 \in Byte
  BY <1>1, <1>8
<1>10. ByteXor(c6, s[7]) \in Byte
  BY <1>1, <1>9
<1> QED
  BY <1>10 DEF check_sum

LEMMA EncryptedBlock ==
  ASSUME NEW s \in [0 .. 7 -> Byte], NEW n \in Byte
  PROVE  LET b == encrypt_block(s, n)
         IN  Carries(b, s) /\ b[9] = HiddenSize(check_sum(s), n) /\ b[10] = check_sum(s)
<1> DEFINE r == Residues(s)
           u0 == Chain(0, r[0], r[1])
           u1 == Chain(1, r[1], r[2])
           u2 == Chain(2, r[2], r[3])
           u3 == r[3]
           b1 == Pack(Zeros(11), 0, u0)
           b2 == Pack(b1, 1, u1)
           b3 == Pack(b2, 2, u2)
           b4 == Pack(b3, 3, u3)
           e == [k \in 0 .. 1 |-> IF k = 0 THEN HiddenSize(check_sum(s), n) ELSE check_sum(s)]
           b == add_bits(b4, 72, e, 0, 16)
<1>1. 0 \in Words /\ 1 \in Words /\ 2 \in Words /\ 3 \in Words
  BY DEF Words
<1>2. u0 \in Word18 /\ u1 \in Word18 /\ u2 \in Word18 /\ u3 \in Word18
  <2>1. r[0] \in Word18 /\ r[1] \in Word18 /\ r[2] \in Word18 /\ r[3] \in Word18
    BY ResiduesFit
  <2> HIDE DEF r
  <2> QED
    BY <1>1, <2>1, ChainTwice
<1>3. encrypt_block(s, n) = b
  BY DEF encrypt_block, Packed, Trailer
<1>4. Carries(b, s) <=> b \in [0 .. 10 -> Byte] /\ Holds(b, 0, u0) /\ Holds(b, 1, u1)
                          /\ Holds(b, 2, u2) /\ Holds(b, 3, u3)
  BY DEF Carries
<1> HIDE DEF u0, u1, u2, u3
<1>5. PackedTo(Zeros(11), 0)
  <2>1. Zeros(11) = [k \in 0 .. 10 |-> 0] /\ TwoTo(8 - 2 * 0) = 256
    <3>1. 11 - 1 = 10 /\ 8 - 2 * 0 = 8
      OBVIOUS
    <3> QED
      BY <3>1, Powers DEF Zeros
  <2>2. 0 % 256 = 0 /\ 2 * 0 = 0 /\ 0 \in Byte
    BY DEF Byte
  <2> QED
    BY <2>1, <2>2 DEF PackedTo
<1>6. PackedTo(b1, 1) /\ Holds(b1, 0, u0)
  <2>1. PackedTo(b1, 0 + 1) /\ Holds(b1, 0, u0)
    BY <1>1, <1>2, <1>5, PackHolds
  <2> QED
    BY <2>1
<1> HIDE DEF b1
<1>7. PackedTo(b2, 2) /\ Holds(b2, 0, u0) /\ Holds(b2, 1, u1)
  <2>1. PackedTo(b2, 1 + 1) /\ Holds(b2, 1, u1)
    BY <1>1, <1>2, <1>6, PackHolds
  <2>2. Holds(b2, 0, u0)
    BY <1>1, <1>2, <1>6, PackHolds
  <2> QED
    BY <2>1, <2>2
<1> HIDE DEF b2
<1>8. PackedTo(b3, 3) /\ Holds(b3, 0, u0) /\ Holds(b3, 1, u1) /\ Holds(b3, 2, u2)
  <2>1. PackedTo(b3, 2 + 1) /\ Holds(b3, 2, u2)
    BY <1>1, <1>2, <1>7, PackHolds
  <2>2. Holds(b3, 0, u0) /\ Holds(b3, 1, u1)
    BY <1>1, <1>2, <1>7, PackHolds
  <2> QED
    BY <2>1, <2>2
<1> HIDE DEF b3
<1>9. PackedTo(b4, 4) /\ Holds(b4, 0, u0) /\ Holds(b4, 1, u1) /\ Holds(b4, 2, u2)
        /\ Holds(b4, 3, u3)
  <2>1. PackedTo(b4, 3 + 1) /\ Holds(b4, 3, u3)
    BY <1>1, <1>2, <1>8, PackHolds
  <2>2. Holds(b4, 0, u0) /\ Holds(b4, 1, u1) /\ Holds(b4, 2, u2)
    BY <1>1, <1>2, <1>8, PackHolds
  <2> QED
    BY <2>1, <2>2
<1> HIDE DEF b4
<1>10. e[0] = HiddenSize(check_sum(s), n) /\ e[1] = check_sum(s) /\ e[0] \in Byte /\ e[1] \in Byte
  BY CheckByte, HiddenTwice
<1> HIDE DEF e
<1>11. /\ b \in [0 .. 10 -> Byte] /\ b[9] = e[0] /\ b[10] = e[1]
       /\ \A v \in Words : \A u : Holds(b4, v, u) => Holds(b, v, u)
  BY <1>9, <1>10, TrailerHolds
<1> HIDE DEF b
<1>12. Carries(b, s)
  BY <1>1, <1>4, <1>9, <1>11
<1> QED
  BY <1>3, <1>10, <1>11, <1>12

LEMMA DecryptedBlock ==
  ASSUME NEW s \in [0 .. 7 -> Byte], NEW b, Carries(b, s)
  PROVE  decrypt_block(b) =
           [dest |-> s,
            result |-> IF check_sum(s) # b[10] THEN -1 ELSE HiddenSize(b[10], b[9])]
<1> DEFINE r == Residues(s)
           u0 == Chain(0, r[0], r[1])
           u1 == Chain(1, r[1], r[2])
           u2 == Chain(2, r[2], r[3])
<1>1. 0 \in Words /\ 1 \in Words /\ 2 \in Words /\ 3 \in Words
  BY DEF Words
<1>2. /\ r[0] \in Word18 /\ r[1] \in Word18 /\ r[2] \in Word18 /\ r[3] \in Word18
      /\ PlainWord(0, r[0], 0) = Word(s, 0) /\ PlainWord(1, r[1], r[0]) = Word(s, 1)
      /\ PlainWord(2, r[2], r[1]) = Word(s, 2) /\ PlainWord(3, r[3], r[2]) = Word(s, 3)
  BY ResiduesFit
<1>3. /\ b \in [0 .. 10 -> Byte]
      /\ Holds(b, 0, u0) /\ Holds(b, 1, u1) /\ Holds(b, 2, u2) /\ Holds(b, 3, r[3])
  BY DEF Carries
<1> HIDE DEF r
<1>4. /\ u0 \in Word18 /\ u1 \in Word18 /\ u2 \in Word18
      /\ Chain(2, u2, r[3]) = r[2] /\ Chain(1, u1, r[2]) = r[1] /\ Chain(0, u0, r[1]) = r[0]
  BY <1>1, <1>2, ChainTwice
<1>5. \A w \in Words : \A k \in 0 .. 2 : b[2 * w + k] \in Byte
  <2>1. \A w \in Words : \A k \in 0 .. 2 : 2 * w + k \in 0 .. 10
    BY DEF Words
  <2> QED
    BY <1>3, <2>1
<1> HIDE DEF u0, u1, u2
<1>6. Unpack(b, 0) = u0 /\ Unpack(b, 1) = u1 /\ Unpack(b, 2) = u2 /\ Unpack(b, 3) = r[3]
  BY <1>1, <1>2, <1>3, <1>4, <1>5, HeldIsUnpacked
<1> DEFINE t3 == [w \in Words |-> Unpack(b, w)]
           t2 == Unchain(2, t3)
           t1 == Unchain(1, t2)
           q == Unchain(0, t1)
<1>7. q[0] = r[0] /\ q[1] = r[1] /\ q[2] = r[2] /\ q[3] = r[3]
  <2>1. DOMAIN t3 = 0 .. 3 /\ t3[0] = u0 /\ t3[1] = u1 /\ t3[2] = u2 /\ t3[3] = r[3]
    BY <1>6 DEF Words
  <2> HIDE DEF t3
  <2>2. DOMAIN t2 = 0 .. 3 /\ t2[0] = u0 /\ t2[1] = u1 /\ t2[2] = r[2] /\ t2[3] = r[3]
    BY <1>4, <2>1 DEF Unchain
  <2> HIDE DEF t2
  <2>3. DOMAIN t1 = 0 .. 3 /\ t1[0] = u0 /\ t1[1] = r[1] /\ t1[2] = r[2] /\ t1[3] = r[3]
    BY <1>4, <2>2 DEF Unchain
  <2> HIDE DEF t1
  <2> QED
    BY <1>4, <2>3 DEF Unchain
<1> DEFINE words == PlainWords(q)
           dest == BytesOfWords(words)
           trailer == add_bits(Zeros(4), 0, b, 72, 16)
<1>8. /\ words[0] = Word(s, 0) /\ words[1] = Word(s, 1)
      /\ words[2] = Word(s, 2) /\ words[3] = Word(s, 3)
  <2> HIDE DEF q
  <2> QED
    BY <1>1, <1>2, <1>7 DEF PlainWords, Before
<1> HIDE DEF words
<1>9. dest = s
  <2>1. ASSUME NEW k \in 0 .. 7
        PROVE  Low(words[k \div 2], k % 2) = s[k]
    <3>1. /\ Low(Word(s, 0), 0) = s[2 * 0] /\ Low(Word(s, 0), 1) = s[2 * 0 + 1]
          /\ Low(Word(s, 1), 0) = s[2 * 1] /\ Low(Word(s, 1), 1) = s[2 * 1 + 1]
          /\ Low(Word(s, 2), 0) = s[2 * 2] /\ Low(Word(s, 2), 1) = s[2 * 2 + 1]
          /\ Low(Word(s, 3), 0) = s[2 * 3] /\ Low(Word(s, 3), 1) = s[2 * 3 + 1]
      BY <1>1, WordOfBytes
    <3>2. \/ k = 0 \/ k = 1 \/ k = 2 \/ k = 3 \/ k = 4 \/ k = 5 \/ k = 6 \/ k = 7
      OBVIOUS
    <3> QED
      BY <1>8, <3>1, <3>2
  <2> QED
    BY <2>1 DEF BytesOfWords
<1>10. trailer[0] = b[9] /\ trailer[1] = b[10]
  <2> DEFINE f == 9
  <2>1. f \in Nat /\ 8 * f = 72 /\ f + 1 = 10
    OBVIOUS
  <2>2. b[f] \in Byte /\ b[f + 1] \in Byte
    BY <1>3
  <2> HIDE DEF f
  <2>3. /\ add_bits(Zeros(4), 0, b, 8 * f, 16)[0] = b[f]
        /\ add_bits(Zeros(4), 0, b, 8 * f, 16)[1] = b[f + 1]
    BY <2>1, <2>2, AddWhole
  <2> QED
    BY <2>1, <2>3 DEF f
<1>11. decrypt_block(b) =
         [dest |-> dest,
          result |-> IF Mismatch(check_sum(dest), trailer[1]) THEN -1 ELSE SizeSaid(trailer)]
  <2>1. Unchained(b) = q
    BY DEF Unchained
  <2> HIDE DEF q, dest, trailer
  <2>2. decrypt_block(b) = Judged(dest, trailer)
    BY <2>1 DEF decrypt_block, dest, words, trailer
  <2> QED
    BY <2>2 DEF Judged
<1> HIDE DEF dest, trailer
<1> QED
  BY <1>9, <1>10, <1>11 DEF Mismatch, SizeSaid, HiddenSize

(***************************************************************************)
(* What encrypt_block() makes of 8 bytes, decrypt_block() makes into them  *)
(* again, with the size it was given.                                      *)
(***************************************************************************)
THEOREM RoundTrip ==
  ASSUME NEW s \in [0 .. 7 -> Byte], NEW n \in 1 .. 8
  PROVE  decrypt_block(encrypt_block(s, n)) = [dest |-> s, result |-> n]
<1>1. n \in Byte
  BY DEF Byte
<1> DEFINE b == encrypt_block(s, n)
<1>2. Carries(b, s) /\ b[9] = HiddenSize(check_sum(s), n) /\ b[10] = check_sum(s)
  BY <1>1, EncryptedBlock
<1>3. HiddenSize(check_sum(s), HiddenSize(check_sum(s), n)) = n
  BY <1>1, CheckByte, HiddenTwice
<1> HIDE DEF b
<1>4. decrypt_block(b) = [dest |-> s,
            result |-> IF check_sum(s) # b[10] THEN -1 ELSE HiddenSize(b[10], b[9])]
  BY <1>2, DecryptedBlock
<1> QED
  BY <1>2, <1>3, <1>4 DEF b

(***************************************************************************)
(* With another checksum in its last byte, a block is refused, whatever    *)
(* the checksum; its bytes are those that were encrypted all the same.     *)
(***************************************************************************)
THEOREM WrongChecksum ==
  ASSUME NEW s \in [0 .. 7 -> Byte], NEW n \in 1 .. 8, NEW c \in Byte, c # check_sum(s)
  PROVE  decrypt_block([encrypt_block(s, n) EXCEPT ![10] = c]) = [dest |-> s, result |-> -1]
<1> DEFINE b == encrypt_block(s, n)
           d == [b EXCEPT ![10] = c]
<1>1. n \in Byte
  BY DEF Byte
<1>2. Carries(b, s)
  BY <1>1, EncryptedBlock
<1> HIDE DEF b
<1>3. b \in [0 .. 10 -> Byte]
  BY <1>2 DEF Carries
<1>4. d \in [0 .. 10 -> Byte] /\ d[10] = c /\ \A k \in 0 .. 10 : k # 10 => d[k] = b[k]
  BY <1>3
<1> HIDE DEF d
<1>5. ASSUME NEW v \in Words, NEW u, Holds(b, v, u)
      PROVE  Holds(d, v, u)
  <2>1. /\ 2 * v \in 0 .. 10 /\ 2 * v # 10 /\ 2 * v + 1 \in 0 .. 10 /\ 2 * v + 1 # 10
        /\ 2 * v + 2 \in 0 .. 10 /\ 2 * v + 2 # 10
    BY DEF Words
  <2>2. d[2 * v] = b[2 * v] /\ d[2 * v + 1] = b[2 * v + 1] /\ d[2 * v + 2] = b[2 * v + 2]
    BY <1>4, <2>1
  <2> QED
    BY <1>5, <2>2 DEF Holds
<1>6. Carries(d, s)
  <2>1. 0 \in Words /\ 1 \in Words /\ 2 \in Words /\ 3 \in Words
    BY DEF Words
  <2> QED
    BY <1>2, <1>4, <1>5, <2>1 DEF Carries
<1>7. decrypt_block(d) = [dest |-> s,
            result |-> IF check_sum(s) # d[10] THEN -1 ELSE HiddenSize(d[10], d[9])]
  BY <1>6, DecryptedBlock
<1> QED
  BY <1>4, <1>7 DEF d, b
=============================================================================
