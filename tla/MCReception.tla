---------------------------- MODULE MCReception ----------------------------
(***************************************************************************)
(* Reception with packets of the lengths where blocks, tables and lengths  *)
(* begin and end, and with small keys.                                     *)
(***************************************************************************)
EXTENDS Reception, FiniteSetsExt

\* Some bytes, different from their neighbours.
Body(k) == (k * 73 + 29) % 256

\* Packets with n for their length, and at least their header.
PacketC1(n) == [k \in 0 .. Max({n, 2}) - 1 |-> CASE k = 0 -> C1 [] k = 1 -> n
                                                 [] OTHER -> Body(k)]
PacketC2(n) == [k \in 0 .. Max({n, 3}) - 1 |-> CASE k = 0 -> C2 [] k = 1 -> n \div 256
                                                 [] k = 2 -> n % 256 [] OTHER -> Body(k)]

MCEncrypted == {PacketC1(n) : n \in {2, 3, 9, 10, 17, 18, 26, 90}}
                 \union {PacketC2(n) : n \in {4, 12, 256, 257, 513, 514}}
\* Head codes differ, so that no packet is both plain and encrypted.
Plain(p) == [k \in DOMAIN p |-> IF k = HeadEnd(p) THEN 0 ELSE p[k]]
MCPackets == MCEncrypted
               \union {Plain(PacketC1(n)) : n \in {0, 1, 3, 4, 10, 36, 255}}
               \union {Plain(PacketC2(n)) : n \in {0, 3, 4, 5, 257, 515, 516}}

\* Any blocks of a short message; of one of 12 blocks so many behind the
\* first that the sum of the sizes is 1, 0 or negative; longer ones are intact.
MCDamages(n) == IF n <= 4 THEN SUBSET (1 .. n)
                ELSE IF n = 12 THEN {{}, 2 .. 8, 2 .. 9, 2 .. 10, 4 .. 12} ELSE {{}}

\* Residues of up to 18 bits, so that the two highest, packed apart, count.
MCModulus == [w \in Words |-> <<262142, 262134, 249999, 257999>>[w + 1]]
MCEncryptionKey == [w \in Words |-> <<511, 509, 500, 430>>[w + 1]]
MCDecryptionKey == [w \in Words |-> <<513, 515, 500, 600>>[w + 1]]
MCXorKey == [w \in Words |-> <<48413, 46165, 15171, 37433>>[w + 1]]
=============================================================================
