------------------------------- MODULE MCCrc16 -------------------------------
(* Instances of Crc16 for TLC. *)
EXTENDS Crc16

(* 0x8005 *)
Generator == {0, 2, 15}

(* A packet's first bytes (aa 55 01 00), all ones, all zeros with a bit at *)
(* each end.                                                               *)
ShortData == {<<{1, 3, 5, 7}, {0, 2, 4, 6}, {0}, {}>>, <<0 .. 7, 0 .. 7>>, <<{0}, {}, {7}>>}

(* The k-th bit sent. *)
BitAt(k) == <<(k - 1) \div 8 + 1, (k - 1) % 8>>
Longest == 48

(* Bounds: no more than two bits, three bits of the first two bytes, any   *)
(* five bits in a row, all bits of up to sixteen in a row, the multiples   *)
(* of the generator by one power of x, and four bits across the edge of    *)
(* the data and the CRC of a packet of 4, 5 or 6 bytes.                    *)
SomeNoise ==
    {{}} \cup {{BitAt(j), BitAt(k)} : j \in 1 .. Longest, k \in 1 .. Longest}
         \cup {{BitAt(i), BitAt(j), BitAt(k)} : i \in 1 .. 16, j \in 1 .. 16, k \in 1 .. 16}
         \cup {{BitAt(k + i) : i \in S} : k \in 1 .. Longest - 4, S \in SUBSET (0 .. 4)}
         \cup {{BitAt(i) : i \in k .. k + n} : k \in 1 .. Longest - 15, n \in 1 .. 15}
         \cup {{BitAt(k + i) : i \in {0, 1, 14, 16}} : k \in 1 .. Longest - 16}
         \cup {{<<n, 6>>, <<n, 7>>, <<n + 1, 4>>, <<n + 1, 6>>} : n \in 2 .. 4}
=============================================================================
