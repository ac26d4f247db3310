-------------------------------- MODULE Crc16 --------------------------------
(***************************************************************************)
(* crc16_compute and the two functions of easn_package that use it: a      *)
(* sender fills in the CRC of a packet, bits are flipped on the way, the   *)
(* server checks.  A byte, and a 16-bit register, is the set of the        *)
(* positions of its ones: exclusive or is the symmetric difference.        *)
(***************************************************************************)
EXTENDS Integers, Sequences, FiniteSets

CONSTANTS
    CRC16_GENERATOR,  \* the generator polynomial without x^16
    Data,             \* packets without their CRC: sequences of bytes
    Noise             \* what the network may do: sets of bits <<byte, bit>>

Byte == SUBSET (0 .. 7)
Odd(S) == Cardinality(S) % 2 = 1

(* With x^16 the generator 0x8005 has four terms, one of them 1. *)
ASSUME GeneratorAssumption ==
    CRC16_GENERATOR \subseteq 0 .. 15 /\ 0 \in CRC16_GENERATOR /\ Odd(CRC16_GENERATOR)
ASSUME DataAssumption == Data \subseteq Seq(Byte)

VARIABLES
    buf,       \* the packet
    flipped,   \* bits flipped
    pc,        \* "new", "filled", "sent", "checked"
    accepted   \* what check_crc has returned

vars == <<buf, flipped, pc, accepted>>

Xor(a, b) == (a \ b) \cup (b \ a)

-----------------------------------------------------------------------------
(* Faults of the operators below, for the mutants of PROJECT.json.         *)

ShiftNewTop(reg, bit) ==
    LET next == {i + 1 : i \in reg \ {15}} \cup bit
    IN  IF 15 \in next THEN Xor(next, CRC16_GENERATOR) ELSE next
NoMask(crc) == crc \ (0 .. 7)

-----------------------------------------------------------------------------
(* One bit, {} or {0}, goes into the register (inner loop). *)
ShiftIn(reg, bit) ==
    LET next == {i + 1 : i \in reg \ {15}} \cup bit
    IN  IF 15 \in reg THEN Xor(next, CRC16_GENERATOR) ELSE next

(* The bits of the data, least significant first, and sixteen zeros. *)
Steps(data) == 8 * Len(data) + 16
Input(data, k) ==
    {i \in {0} : k <= 8 * Len(data) /\ (k - 1) % 8 \in data[(k - 1) \div 8 + 1]}

(* The register after each step. *)
Register(data) ==
    LET reg[k \in 0 .. Steps(data)] ==
            IF k = 0 THEN {} ELSE ShiftIn(reg[k - 1], Input(data, k))
    IN  reg

(* reverse(uint16_t) *)
reverse(value) == {15 - i : i \in value}

crc16_compute(data) == reverse(Register(data)[Steps(data)])

Low(crc)  == crc \cap (0 .. 7)
High(crc) == {i - 8 : i \in crc \ (0 .. 7)}

Payload(b) == SubSeq(b, 1, Len(b) - 2)

(* fill_crc: the CRC of all but the last two bytes goes into those. *)
fill_crc(b) == LET crc == crc16_compute(Payload(b)) IN
    [b EXCEPT ![Len(b)] = Low(crc), ![Len(b) - 1] = High(crc)]

(* A fault of the next one. *)
LowByteOnly(b) == b[Len(b)] = Low(crc16_compute(Payload(b)))

check_crc(b) == LET crc == crc16_compute(Payload(b)) IN
    b[Len(b)] = Low(crc) /\ b[Len(b) - 1] = High(crc)

-----------------------------------------------------------------------------
Init ==
    /\ buf \in {d \o <<{}, {}>> : d \in Data}
    /\ flipped = {} /\ pc = "new" /\ accepted = FALSE

FillCrc ==
    /\ pc = "new"
    /\ buf' = fill_crc(buf)
    /\ pc' = "filled"
    /\ UNCHANGED <<flipped, accepted>>

(* The network. *)
BitsOf(b) == (1 .. Len(b)) \X (0 .. 7)

Flip(b, E) == [k \in 1 .. Len(b) |-> Xor(b[k], {i \in 0 .. 7 : <<k, i>> \in E})]

Transmit(E) ==
    /\ pc = "filled"
    /\ E \subseteq BitsOf(buf)
    /\ buf' = Flip(buf, E)
    /\ flipped' = E
    /\ pc' = "sent"
    /\ UNCHANGED accepted

CheckCrc ==
    /\ pc = "sent"
    /\ accepted' = check_crc(buf)
    /\ pc' = "checked"
    /\ UNCHANGED <<buf, flipped>>

Next == FillCrc \/ (\E E \in Noise : Transmit(E)) \/ CheckCrc

Spec == Init /\ [][Next]_vars

-----------------------------------------------------------------------------
(* Reference: a packet is a polynomial over the integers modulo two.  Each *)
(* bit stands for a power of x, its place; as sent, the powers go down by  *)
(* one from bit to bit, but for the two bytes of the CRC, which fill_crc   *)
(* stores the other way round.                                             *)

Place(size, p) == LET byte == CASE p[1] = size - 1 -> size
                                []   p[1] = size     -> size - 1
                                []   OTHER           -> p[1]
                  IN  8 * (size - byte) + 7 - p[2]
Places(size, E) == {Place(size, p) : p \in E}

Ones(b) == {p \in BitsOf(b) : p[2] \in b[p[1]]}

(* The remainder of x times a remainder, and of the powers of x. *)
TimesX(r) == LET next == {i + 1 : i \in r}
             IN  IF 16 \in next THEN Xor(next \ {16}, CRC16_GENERATOR) ELSE next

Power[n \in Nat] == IF n = 0 THEN {0} ELSE TimesX(Power[n - 1])

(* The remainder of a sum of powers of x: coefficient by coefficient, the  *)
(* parity of the number of powers whose remainder has it.                  *)
Remainder(S) == {i \in 0 .. 15 : Odd({n \in S : i \in Power[n]})}

(* No power of x below that of a packet's number of bits has remainder 1.  *)
WithinPeriod(b) == \A n \in 1 .. 8 * Len(b) - 1 : Power[n] # {0}

-----------------------------------------------------------------------------
(* Properties.                                                             *)

TypeOK ==
    /\ buf \in Seq(Byte) /\ Len(buf) >= 2
    /\ flipped \subseteq BitsOf(buf)
    /\ pc \in {"new", "filled", "sent", "checked"}
    /\ accepted \in BOOLEAN

(* The shift register of crc16_compute divides by the generator: the two   *)
(* bytes a packet leaves with are the remainder of what precedes them.     *)
IsRemainder == pc = "filled" =>
    LET size == Len(buf)
        ones == Ones(buf)
    IN  Places(size, {p \in ones : p[1] > size - 2})
            = Remainder(Places(size, {p \in ones : p[1] <= size - 2}))

(* check_crc takes a packet exactly when the bits that were flipped, in    *)
(* the CRC or not, make a multiple of the generator.                       *)
ExactVerdict == pc = "checked" =>
    (accepted <=> Remainder(Places(Len(buf), flipped)) = {})

(* A packet that arrives as it was sent passes check_crc; one with an odd  *)
(* number of bits flipped, or with two within the generator's period, does *)
(* not.                                                                    *)
Detects == pc = "checked" =>
    /\ flipped = {} => accepted
    /\ Odd(flipped) \/ (Cardinality(flipped) = 2 /\ WithinPeriod(buf)) => ~accepted

(* Nor does one damaged in any way within sixteen powers of x in a row,    *)
(* which in the data are sixteen bits in a row.                            *)
Burst(size, E) == \E n \in 0 .. 8 * size : Places(size, E) \subseteq n .. n + 15

DetectsBurst == pc = "checked" /\ Burst(Len(buf), flipped) =>
    (accepted <=> flipped = {})
=============================================================================
