------------------------------ MODULE Crc16Proofs ------------------------------
(***************************************************************************)
(* Proofs about Crc16, for every generator with an odd number of terms     *)
(* after x^16 and the term 1, every packet and every set of flipped bits.  *)
(*                                                                         *)
(* Remainder is additive (RemainderXor) and goes from a set of powers to   *)
(* the same set shifted by TimesX (RemainderUp).  So the register after k  *)
(* bits is the remainder of the bits fed in, each at the power of x it has *)
(* been shifted to (RegisterIs), and crc16_compute returns that of the     *)
(* whole packet (CrcIs).  check_crc then accepts a packet exactly when the *)
(* remainder of all of its bits is zero (CheckIs); fill_crc makes it zero  *)
(* (FillIs), and the network adds that of the flipped bits (FlipIs), which *)
(* is the invariant IInv.                                                  *)
(*                                                                         *)
(* What is detected is then said of Remainder alone: the generator has an  *)
(* even number of terms with x^16, so parity survives the division         *)
(* (RemainderOdd); multiplication by x loses nothing because the generator *)
(* has the term 1 (TimesXInjective), so two powers with the same remainder *)
(* are a period apart (TwoBits), and a burst is a remainder multiplied by  *)
(* a power of x (BurstIs).                                                 *)
(***************************************************************************)
EXTENDS Crc16, Recursion, FiniteSetTheorems, SequenceTheorems

-----------------------------------------------------------------------------
(* The two recursive functions of the specification. *)

(* TimesX stays within the register. *)
LEMMA TimesXType ==
  ASSUME NEW r \in SUBSET (0 .. 15)
  PROVE  TimesX(r) \in SUBSET (0 .. 15)
  <1> DEFINE next == {i + 1 : i \in r}
  <1>1. next \subseteq 0 .. 16
    OBVIOUS
  <1> HIDE DEF next
  <1>2. next \ {16} \subseteq 0 .. 15 /\ (16 \notin next => next \subseteq 0 .. 15)
    BY <1>1
  <1>3. TimesX(r) = IF 16 \in next THEN Xor(next \ {16}, CRC16_GENERATOR) ELSE next
    BY DEF TimesX, next
  <1> QED BY <1>2, <1>3, GeneratorAssumption DEF Xor

(* Power is the function its recursion describes. *)
LEMMA PowerDef ==
  /\ Power \in [Nat -> SUBSET (0 .. 15)]
  /\ Power[0] = {0}
  /\ \A n \in Nat : Power[n + 1] = TimesX(Power[n])
  <1> DEFINE R == SUBSET (0 .. 15)
             next == [n \in Nat |-> [r \in R |-> TimesX(r)]]
  <1>1. {0} \in R /\ next \in [Nat -> [R -> R]]
    BY TimesXType
  <1>2. \A n \in Nat, r \in R : next[n][r] = TimesX(r)
    OBVIOUS
  <1> HIDE DEF next, R
  <1>0. PICK f : Follows(f, R, {0}, next)
    BY <1>1, RecursionExists
  <1>3. f \in [Nat -> R] /\ f[0] = {0} /\ \A n \in Nat : f[n + 1] = next[n][f[n]]
    BY <1>0 DEF Follows
  <1>4. \A n \in Nat : f[n + 1] = TimesX(f[n])
    BY <1>2, <1>3
  <1>5. f = [n \in Nat |-> IF n = 0 THEN {0} ELSE TimesX(f[n - 1])]
    <2> SUFFICES ASSUME NEW n \in Nat PROVE f[n] = IF n = 0 THEN {0} ELSE TimesX(f[n - 1])
      BY <1>3
    <2>1. CASE n = 0
      BY <1>3, <2>1
    <2>2. CASE n # 0
      <3>1. n - 1 \in Nat /\ (n - 1) + 1 = n
        BY <2>2
      <3> QED BY <3>1, <1>4, <2>2
    <2> QED BY <2>1, <2>2
  <1>6. Power = [n \in Nat |-> IF n = 0 THEN {0} ELSE TimesX(Power[n - 1])]
    BY <1>5, Zenon DEF Power
  <1> DEFINE Q == Power
  <1>7. Q = [n \in Nat |-> IF n = 0 THEN {0} ELSE TimesX(Q[n - 1])]
    BY <1>6
  <1> HIDE DEF Q
  <1>8. Q[0] = {0}
    BY <1>7
  <1>9. ASSUME NEW n \in Nat PROVE Q[n + 1] = TimesX(Q[n])
    <2>1. n + 1 \in Nat /\ n + 1 # 0 /\ (n + 1) - 1 = n
      OBVIOUS
    <2>2. Q[n + 1] = IF n + 1 = 0 THEN {0} ELSE TimesX(Q[(n + 1) - 1])
      BY <1>7, <2>1
    <2> QED BY <2>1, <2>2
  <1>10. \A n \in Nat : Q[n] \in R
    <2> DEFINE T == {n \in Nat : Q[n] \in R}
    <2>1. 0 \in T
      BY <1>8, <1>1
    <2>2. ASSUME NEW n \in Nat, n \in T PROVE n + 1 \in T
      BY <2>2, <1>9, TimesXType DEF R
    <2> HIDE DEF T
    <2>3. Nat \subseteq T
      BY <2>1, <2>2, Induct
    <2> QED BY <2>3 DEF T
  <1>11. Q \in [Nat -> R]
    BY <1>7, <1>10
  <1> QED BY <1>8, <1>9, <1>11 DEF Q, R

(* The register stays within sixteen bits. *)
LEMMA ShiftInType ==
  ASSUME NEW r \in SUBSET (0 .. 15), NEW bit \in SUBSET {0}
  PROVE  ShiftIn(r, bit) \in SUBSET (0 .. 15)
  <1> DEFINE next == {i + 1 : i \in r \ {15}} \cup bit
  <1>1. next \subseteq 0 .. 15
    <2>1. \A i \in r \ {15} : i + 1 \in 0 .. 15
      OBVIOUS
    <2>2. bit \subseteq 0 .. 15
      OBVIOUS
    <2> QED BY <2>1, <2>2
  <1>2. ShiftIn(r, bit) = IF 15 \in r THEN Xor(next, CRC16_GENERATOR) ELSE next
    BY DEF ShiftIn
  <1> HIDE DEF next
  <1> QED BY <1>1, <1>2, GeneratorAssumption DEF Xor

(* Register is the sequence of values its recursion describes. *)
LEMMA RegisterDef ==
  ASSUME NEW data \in Seq(Byte)
  PROVE  /\ Steps(data) \in Nat
         /\ Register(data)[0] = {}
         /\ \A k \in 0 .. Steps(data) - 1 :
                Register(data)[k + 1] = ShiftIn(Register(data)[k], Input(data, k + 1))
  <1> DEFINE R == SUBSET (0 .. 15)
             N == Steps(data)
             next == [n \in Nat |-> [r \in R |-> ShiftIn(r, Input(data, n + 1))]]
  <1>0. N \in Nat
    BY DEF Steps
  <1>1. {} \in R /\ next \in [Nat -> [R -> R]]
    BY ShiftInType DEF Input
  <1>2. \A n \in Nat, r \in R : next[n][r] = ShiftIn(r, Input(data, n + 1))
    OBVIOUS
  <1> HIDE DEF next, R, N
  <1>3. PICK f : Follows(f, R, {}, next)
    BY <1>1, RecursionExists
  <1>4. f[0] = {} /\ \A n \in Nat : f[n] \in R
    BY <1>3 DEF Follows
  <1>5. \A n \in Nat : f[n + 1] = ShiftIn(f[n], Input(data, n + 1))
    BY <1>2, <1>3, <1>4 DEF Follows
  <1> DEFINE g == [k \in 0 .. N |-> f[k]]
             step(h, k) == IF k = 0 THEN {} ELSE ShiftIn(h[k - 1], Input(data, k))
  <1>6. g = [k \in 0 .. N |-> step(g, k)]
    <2> SUFFICES ASSUME NEW k \in 0 .. N PROVE f[k] = step(g, k)
      OBVIOUS
    <2>1. CASE k = 0
      BY <1>4, <2>1
    <2>2. CASE k # 0
      <3>1. k - 1 \in Nat /\ k - 1 \in 0 .. N /\ (k - 1) + 1 = k
        BY <2>2, <1>0
      <3>2. g[k - 1] = f[k - 1]
        BY <3>1
      <3>3. f[k] = ShiftIn(f[k - 1], Input(data, k))
        BY <3>1, <1>5
      <3> QED BY <2>2, <3>2, <3>3
    <2> QED BY <2>1, <2>2
  <1> DEFINE Q == Register(data)
  <1>7. Q = [k \in 0 .. N |-> step(Q, k)]
    <2> HIDE DEF g
    <2>1. Q = CHOOSE reg : reg = [k \in 0 .. N |-> step(reg, k)]
      BY DEF Register, N
    <2> QED BY <1>6, <2>1, Zenon
  <1> HIDE DEF Q
  <1>8. Q[0] = {}
    BY <1>0, <1>7
  <1>9. ASSUME NEW k \in 0 .. N - 1 PROVE Q[k + 1] = ShiftIn(Q[k], Input(data, k + 1))
    <2>1. k + 1 \in 0 .. N /\ k + 1 # 0 /\ (k + 1) - 1 = k
      BY <1>0
    <2>2. Q[k + 1] = step(Q, k + 1)
      BY <1>7, <2>1
    <2> QED BY <2>1, <2>2
  <1> QED BY <1>0, <1>8, <1>9 DEF Q, N

-----------------------------------------------------------------------------
(* Parity, and remainders of sums. *)

(* The size of a symmetric difference is odd when that of one of two is. *)
LEMMA OddXor ==
  ASSUME NEW A, NEW B, IsFiniteSet(A), IsFiniteSet(B)
  PROVE  /\ IsFiniteSet(Xor(A, B))
         /\ Odd(Xor(A, B)) <=> (Odd(A) <=> ~Odd(B))
  <1> DEFINE a == Cardinality(A \ B)
             b == Cardinality(B \ A)
             c == Cardinality(A \cap B)
  <1>1. IsFiniteSet(A \ B) /\ IsFiniteSet(B \ A) /\ IsFiniteSet(A \cap B)
    BY FS_Difference, FS_Intersection
  <1>2. a \in Nat /\ b \in Nat /\ c \in Nat
    BY <1>1, FS_CardinalityType
  <1>3. Cardinality(A) = a + c
    <2>1. Cardinality(A) \in Nat /\ Cardinality(A \ B) = Cardinality(A) - Cardinality(A \cap B)
      BY FS_Difference, FS_CardinalityType
    <2> QED BY <2>1, <1>2
  <1>4. Cardinality(B) = b + c
    <2>1. Cardinality(B) \in Nat /\ Cardinality(B \ A) = Cardinality(B) - Cardinality(B \cap A)
      BY FS_Difference, FS_CardinalityType
    <2>2. B \cap A = A \cap B
      OBVIOUS
    <2> QED BY <2>1, <2>2, <1>2
  <1>5. IsFiniteSet(Xor(A, B)) /\ Cardinality(Xor(A, B)) = a + b
    <2>1. (A \ B) \cap (B \ A) = {}
      OBVIOUS
    <2>2. Cardinality((A \ B) \cap (B \ A)) = 0
      BY <2>1, FS_EmptySet
    <2>3. Cardinality((A \ B) \cup (B \ A)) = a + b - 0 /\ IsFiniteSet((A \ B) \cup (B \ A))
      BY <1>1, <2>2, FS_Union
    <2> QED BY <1>2, <2>3 DEF Xor
  <1>6. Odd(Xor(A, B)) = ((a + b) % 2 = 1) /\ Odd(A) = ((a + c) % 2 = 1)
          /\ Odd(B) = ((b + c) % 2 = 1)
    BY <1>3, <1>4, <1>5 DEF Odd
  <1> HIDE DEF a, b, c
  <1>7. ((a + b) % 2 = 1) <=> (((a + c) % 2 = 1) <=> ~((b + c) % 2 = 1))
    BY <1>2
  <1> QED BY <1>5, <1>6, <1>7

(* Parity of the smallest sets. *)
LEMMA OddOne ==
  /\ ~Odd({})
  /\ \A x : Odd({x})
  <1>1. Cardinality({}) = 0 /\ \A x : Cardinality({x}) = 1
    BY FS_EmptySet, FS_Singleton
  <1>2. 0 % 2 = 0 /\ 1 % 2 = 1
    OBVIOUS
  <1> QED BY <1>1, <1>2 DEF Odd

(* A remainder has coefficient i when an odd number of its terms have. *)
LEMMA RemainderXor ==
  ASSUME NEW S, NEW T, IsFiniteSet(S), IsFiniteSet(T)
  PROVE  Remainder(Xor(S, T)) = Xor(Remainder(S), Remainder(T))
  <1> DEFINE With(U, i) == {n \in U : i \in Power[n]}
  <1>1. ASSUME NEW i \in 0 .. 15
        PROVE  Odd(With(Xor(S, T), i)) <=> (Odd(With(S, i)) <=> ~Odd(With(T, i)))
    <2>1. With(Xor(S, T), i) = Xor(With(S, i), With(T, i))
      BY DEF Xor
    <2>2. IsFiniteSet(With(S, i)) /\ IsFiniteSet(With(T, i))
      BY FS_Subset
    <2> HIDE DEF With
    <2> QED BY <2>1, <2>2, OddXor
  <1>2. \A U : Remainder(U) = {i \in 0 .. 15 : Odd(With(U, i))}
    BY DEF Remainder
  <1> HIDE DEF With
  <1> QED BY <1>1, <1>2 DEF Xor

(* The remainder of no power of x, and of one. *)
LEMMA RemainderOne ==
  /\ Remainder({}) = {}
  /\ \A n \in Nat : Remainder({n}) = Power[n]
  <1>1. Remainder({}) = {}
    <2>1. \A i \in 0 .. 15 : {n \in {} : i \in Power[n]} = {}
      OBVIOUS
    <2> QED BY <2>1, OddOne DEF Remainder
  <1>2. ASSUME NEW n \in Nat PROVE Remainder({n}) = Power[n]
    <2>1. \A i \in 0 .. 15 :
             {m \in {n} : i \in Power[m]} = IF i \in Power[n] THEN {n} ELSE {}
      OBVIOUS
    <2>2. Power[n] \subseteq 0 .. 15
      BY PowerDef
    <2>3. \A i \in 0 .. 15 : Odd({m \in {n} : i \in Power[m]}) <=> i \in Power[n]
      BY <2>1, OddOne
    <2> QED BY <2>2, <2>3 DEF Remainder
  <1> QED BY <1>1, <1>2
-----------------------------------------------------------------------------
(* Multiplying by x. *)

Up(S) == {n + 1 : n \in S}

(* Shifting a set of powers does not change how many there are. *)
LEMMA UpOdd ==
  ASSUME NEW S \in SUBSET Nat, IsFiniteSet(S)
  PROVE  IsFiniteSet(Up(S)) /\ (Odd(Up(S)) <=> Odd(S))
  <1> DEFINE f == [n \in S |-> n + 1]
  <1>1. f \in Bijection(S, Up(S))
    <2>1. f \in [S -> Up(S)] /\ \A m \in Up(S) : \E n \in S : f[n] = m
      BY DEF Up
    <2>2. \A m, n \in S : f[m] = f[n] => m = n
      OBVIOUS
    <2> HIDE DEF f
    <2> QED BY <2>1, <2>2 DEF Bijection, Injection, Surjection, IsInjective
  <1>2. IsFiniteSet(Up(S)) /\ Cardinality(Up(S)) = Cardinality(S)
    <2> HIDE DEF f
    <2>1. ExistsBijection(S, Up(S))
      BY <1>1 DEF ExistsBijection
    <2> QED BY <2>1, FS_Bijection
  <1> QED BY <1>2 DEF Odd

(* TimesX coefficient by coefficient. *)
LEMMA TimesXMember ==
  ASSUME NEW r \in SUBSET (0 .. 15), NEW i \in 0 .. 15
  PROVE  i \in TimesX(r) <=>
             ((i > 0 /\ i - 1 \in r) <=> ~(15 \in r /\ i \in CRC16_GENERATOR))
  <1> DEFINE next == {j + 1 : j \in r}
  <1>1. i \in next <=> i > 0 /\ i - 1 \in r
    <2>1. ASSUME i \in next PROVE i > 0 /\ i - 1 \in r
      <3>1. PICK j \in r : i = j + 1
        BY <2>1
      <3> QED BY <3>1
    <2>2. ASSUME i > 0, i - 1 \in r PROVE i \in next
      <3>1. i = (i - 1) + 1
        OBVIOUS
      <3> QED BY <2>2, <3>1
    <2> QED BY <2>1, <2>2
  <1>2. 16 \in next <=> 15 \in r
    <2>1. \A j \in r : j + 1 = 16 <=> j = 15
      OBVIOUS
    <2> QED BY <2>1
  <1>3. TimesX(r) = IF 16 \in next THEN Xor(next \ {16}, CRC16_GENERATOR) ELSE next
    BY DEF TimesX
  <1> HIDE DEF next
  <1> QED BY <1>1, <1>2, <1>3 DEF Xor

(* A remainder has no term from x^16 on. *)
LEMMA RemainderType ==
  ASSUME NEW S
  PROVE  Remainder(S) \in SUBSET (0 .. 15)
  BY DEF Remainder

(* The remainder of a sum of powers times x is that of the sum, times x. *)
LEMMA RemainderUp ==
  ASSUME NEW S \in SUBSET Nat, IsFiniteSet(S)
  PROVE  Remainder(Up(S)) = TimesX(Remainder(S))
  <1> DEFINE With(i) == {n \in S : i \in Power[n]}
             Next_(i) == {n \in S : i \in Power[n + 1]}
  <1>1. ASSUME NEW i \in 0 .. 15
        PROVE  i \in Remainder(Up(S)) <=> Odd(Next_(i))
    <2>1. {m \in Up(S) : i \in Power[m]} = Up(Next_(i))
      BY DEF Up
    <2>2. Next_(i) \in SUBSET Nat /\ IsFiniteSet(Next_(i))
      BY FS_Subset
    <2>3. i \in Remainder(Up(S)) <=> Odd({m \in Up(S) : i \in Power[m]})
      BY DEF Remainder
    <2> HIDE DEF Next_
    <2> QED BY <2>1, <2>2, <2>3, UpOdd
  <1>2. ASSUME NEW i \in 0 .. 15
        PROVE  i \in Remainder(S) <=> Odd(With(i))
    BY DEF Remainder
  <1>3. ASSUME NEW i \in 0 .. 15
        PROVE  Odd(Next_(i)) <=>
                 ((i > 0 /\ i - 1 \in Remainder(S))
                     <=> ~(15 \in Remainder(S) /\ i \in CRC16_GENERATOR))
    <2> DEFINE A == IF i > 0 THEN With(i - 1) ELSE {}
               B == IF i \in CRC16_GENERATOR THEN With(15) ELSE {}
    <2>1. \A n \in S : i \in Power[n + 1] <=>
             ((i > 0 /\ i - 1 \in Power[n]) <=> ~(15 \in Power[n] /\ i \in CRC16_GENERATOR))
      BY PowerDef, TimesXMember
    <2>2. \A n \in S : /\ n \in A <=> i > 0 /\ i - 1 \in Power[n]
                       /\ n \in B <=> 15 \in Power[n] /\ i \in CRC16_GENERATOR
      OBVIOUS
    <2>3. A \subseteq S /\ B \subseteq S
      OBVIOUS
    <2>4. IsFiniteSet(A) /\ IsFiniteSet(B)
      BY <2>3, FS_Subset
    <2>5. Odd(A) <=> i > 0 /\ i - 1 \in Remainder(S)
      <3>1. CASE i > 0
        <4>1. i - 1 \in 0 .. 15 /\ A = With(i - 1)
          BY <3>1
        <4> HIDE DEF With, A
        <4> QED BY <3>1, <4>1, <1>2
      <3>2. CASE ~(i > 0)
        <4>1. A = {}
          BY <3>2
        <4> QED BY <3>2, <4>1, OddOne
      <3> QED BY <3>1, <3>2
    <2>6. Odd(B) <=> 15 \in Remainder(S) /\ i \in CRC16_GENERATOR
      <3>1. CASE i \in CRC16_GENERATOR
        <4>1. 15 \in 0 .. 15 /\ B = With(15)
          BY <3>1
        <4> HIDE DEF With, B
        <4> QED BY <3>1, <4>1, <1>2
      <3>2. CASE i \notin CRC16_GENERATOR
        <4>1. B = {}
          BY <3>2
        <4> QED BY <3>2, <4>1, OddOne
      <3> QED BY <3>1, <3>2
    <2> HIDE DEF A, B
    <2>7. Next_(i) = Xor(A, B)
      BY <2>1, <2>2, <2>3 DEF Xor
    <2> HIDE DEF Next_
    <2> QED BY <2>4, <2>5, <2>6, <2>7, OddXor
  <1> HIDE DEF With, Next_
  <1>4. \A i \in 0 .. 15 : i \in Remainder(Up(S)) <=> i \in TimesX(Remainder(S))
    BY <1>1, <1>3, RemainderType, TimesXMember
  <1> QED BY <1>4, RemainderType, TimesXType

-----------------------------------------------------------------------------
(* Powers below x^16 are their own remainders, and so are their sums. *)

(* Powers below the generator's are their own remainders, ... *)
LEMMA PowerSmall ==
  ASSUME NEW n \in 0 .. 15
  PROVE  Power[n] = {n}
  <1> DEFINE T == {k \in Nat : k <= 15 => Power[k] = {k}}
  <1>1. 0 \in T
    BY PowerDef
  <1>2. ASSUME NEW k \in Nat, k \in T PROVE k + 1 \in T
    <2>1. SUFFICES ASSUME k + 1 <= 15 PROVE Power[k + 1] = {k + 1}
      OBVIOUS
    <2>2. Power[k + 1] = TimesX({k})
      <3>1. Power[k] = {k}
        BY <1>2, <2>1
      <3> QED BY <3>1, PowerDef
    <2>3. {j + 1 : j \in {k}} = {k + 1}
      OBVIOUS
    <2> QED BY <2>1, <2>2, <2>3 DEF TimesX
  <1> HIDE DEF T
  <1>3. n \in T
    BY <1>1, <1>2, Induct
  <1> QED BY <1>3 DEF T

(* ... and so are sums of them. *)
LEMMA RemainderSmall ==
  ASSUME NEW S \in SUBSET (0 .. 15)
  PROVE  Remainder(S) = S
  <1>1. \A i \in 0 .. 15 : {n \in S : i \in Power[n]} = IF i \in S THEN {i} ELSE {}
    <2>1. \A n \in S : Power[n] = {n}
      BY PowerSmall
    <2> QED BY <2>1
  <1>2. \A i \in 0 .. 15 : Odd({n \in S : i \in Power[n]}) <=> i \in S
    BY <1>1, OddOne
  <1> QED BY <1>2 DEF Remainder
-----------------------------------------------------------------------------
(* The shift register: after k bits it holds the remainder of what has     *)
(* been fed in, the bit fed in j steps ago standing for x to the j.        *)

(* A step of the inner loop multiplies by x and adds the bit. *)
LEMMA ShiftInIs ==
  ASSUME NEW r \in SUBSET (0 .. 15), NEW bit \in SUBSET {0}
  PROVE  ShiftIn(r, bit) = Xor(TimesX(r), bit)
  <1> DEFINE kept == {i + 1 : i \in r \ {15}}
             next == {i + 1 : i \in r}
  <1>1. kept = next \ {16} /\ (16 \in next <=> 15 \in r)
    <2>1. \A i \in r : i + 1 = 16 <=> i = 15
      OBVIOUS
    <2> QED BY <2>1
  <1>2. 0 \notin next
    OBVIOUS
  <1>3. ShiftIn(r, bit) =
          IF 15 \in r THEN Xor(kept \cup bit, CRC16_GENERATOR) ELSE kept \cup bit
    BY DEF ShiftIn
  <1>4. TimesX(r) = IF 16 \in next THEN Xor(next \ {16}, CRC16_GENERATOR) ELSE next
    BY DEF TimesX
  <1> HIDE DEF kept, next
  <1>5. kept \cup bit = Xor(kept, bit)
    BY <1>1, <1>2 DEF Xor
  <1>6. CASE 15 \in r
    <2>1. Xor(Xor(kept, bit), CRC16_GENERATOR) = Xor(Xor(kept, CRC16_GENERATOR), bit)
      BY DEF Xor
    <2> QED BY <1>1, <1>3, <1>4, <1>5, <1>6, <2>1
  <1>7. CASE 15 \notin r
    <2>1. kept = next
      BY <1>1, <1>7
    <2> QED BY <1>1, <1>3, <1>4, <1>5, <1>7, <2>1
  <1> QED BY <1>6, <1>7

(* The steps up to k that have fed in a one, and how long ago that was. *)
Fed(data, k) == {j \in 1 .. k : Input(data, j) # {}}
Ago(data, k) == {k - j : j \in Fed(data, k)}

(* The bits fed in so far, by how long ago each of them was. *)
LEMMA AgoType ==
  ASSUME NEW data, NEW k \in Nat
  PROVE  Ago(data, k) \in SUBSET Nat /\ IsFiniteSet(Ago(data, k))
  <1>1. Ago(data, k) \subseteq 0 .. k
    BY DEF Ago, Fed
  <1>2. IsFiniteSet(0 .. k) /\ 0 .. k \subseteq Nat
    BY FS_Interval
  <1> QED BY <1>1, <1>2, FS_Subset

(* With the next step everything is one step longer ago. *)
LEMMA AgoNext ==
  ASSUME NEW data, NEW k \in Nat
  PROVE  Ago(data, k + 1) = Xor(Up(Ago(data, k)), Input(data, k + 1))
  <1> DEFINE bit == Input(data, k + 1)
             old == {(k + 1) - j : j \in Fed(data, k)}
  <1>1. bit = {} \/ bit = {0}
    BY DEF Input
  <1>2. Up(Ago(data, k)) = old
    <2>1. \A j \in Fed(data, k) : (k - j) + 1 = (k + 1) - j
      BY DEF Fed
    <2> QED BY <2>1 DEF Up, Ago
  <1>3. 0 \notin old
    BY DEF Fed
  <1>4. Fed(data, k + 1) = Fed(data, k) \cup {j \in {k + 1} : bit # {}}
    <2>1. 1 .. k + 1 = (1 .. k) \cup {k + 1}
      OBVIOUS
    <2> QED BY <2>1 DEF Fed
  <1>5. Ago(data, k + 1) = old \cup {(k + 1) - j : j \in {i \in {k + 1} : bit # {}}}
    BY <1>4 DEF Ago
  <1>6. {(k + 1) - j : j \in {i \in {k + 1} : bit # {}}} = bit
    <2>1. (k + 1) - (k + 1) = 0
      OBVIOUS
    <2> HIDE DEF bit
    <2> QED BY <1>1, <2>1
  <1> HIDE DEF old
  <1> QED BY <1>1, <1>2, <1>3, <1>5, <1>6 DEF Xor

(* The register is the remainder of the bits fed in so far. *)
LEMMA RegisterIs ==
  ASSUME NEW data \in Seq(Byte), NEW n \in 0 .. Steps(data)
  PROVE  Register(data)[n] = Remainder(Ago(data, n))
  <1> DEFINE reg == Register(data)
             T == {k \in Nat : k <= Steps(data) => reg[k] = Remainder(Ago(data, k))}
  <1>1. 0 \in T
    <2>1. Ago(data, 0) = {}
      BY DEF Ago, Fed
    <2>2. reg[0] = {}
      BY RegisterDef
    <2> QED BY <2>1, <2>2, RemainderOne
  <1>2. ASSUME NEW k \in Nat, k \in T PROVE k + 1 \in T
    <2> SUFFICES ASSUME k + 1 <= Steps(data)
                 PROVE  reg[k + 1] = Remainder(Ago(data, k + 1))
      OBVIOUS
    <2> DEFINE bit == Input(data, k + 1)
    <2>1. k \in 0 .. Steps(data) - 1 /\ reg[k] = Remainder(Ago(data, k))
      BY <1>2, RegisterDef
    <2>2. reg[k + 1] = ShiftIn(Remainder(Ago(data, k)), bit)
      BY <2>1, RegisterDef
    <2>3. bit = {} \/ bit = {0}
      BY DEF Input
    <2> HIDE DEF bit, reg
    <2>4. reg[k + 1] = Xor(TimesX(Remainder(Ago(data, k))), bit)
      BY <2>2, <2>3, RemainderType, ShiftInIs
    <2>5. TimesX(Remainder(Ago(data, k))) = Remainder(Up(Ago(data, k)))
      BY AgoType, RemainderUp
    <2>6. Remainder(bit) = bit
      BY <2>3, RemainderSmall
    <2>7. IsFiniteSet(Up(Ago(data, k))) /\ IsFiniteSet(bit)
      <3>1. IsFiniteSet(bit)
        <4>1. IsFiniteSet({}) /\ IsFiniteSet({0})
          BY FS_EmptySet, FS_Singleton
        <4> QED BY <2>3, <4>1
      <3> QED BY <3>1, AgoType, UpOdd
    <2>8. Remainder(Xor(Up(Ago(data, k)), bit)) = Xor(Remainder(Up(Ago(data, k))), Remainder(bit))
      BY <2>7, RemainderXor
    <2> QED BY <2>4, <2>5, <2>6, <2>8, AgoNext DEF bit
  <1> HIDE DEF T
  <1>3. n \in T
    <2>1. n \in Nat
      BY RegisterDef
    <2> QED BY <1>1, <1>2, <2>1, Induct
  <1> QED BY <1>3 DEF T
-----------------------------------------------------------------------------
(* Places. *)

(* The place of a bit, in the data and in either byte of the CRC. *)
LEMMA PlaceType ==
  ASSUME NEW b \in Seq(Byte), Len(b) >= 2, NEW p \in BitsOf(b)
  PROVE  /\ p[1] \in 1 .. Len(b) /\ p[2] \in 0 .. 7 /\ p = <<p[1], p[2]>>
         /\ Place(Len(b), p) \in 0 .. 8 * Len(b) - 1
         /\ p[1] = Len(b) - 1 => Place(Len(b), p) = 7 - p[2]
         /\ p[1] = Len(b) => Place(Len(b), p) = 15 - p[2]
         /\ p[1] <= Len(b) - 2 => Place(Len(b), p) = 8 * (Len(b) - p[1]) + 7 - p[2]
  <1> DEFINE n == Len(b)
  <1>1. n \in Nat /\ n >= 2
    OBVIOUS
  <1>2. p[1] \in 1 .. n /\ p[2] \in 0 .. 7 /\ p = <<p[1], p[2]>>
    BY DEF BitsOf
  <1> HIDE DEF n
  <1>3. CASE p[1] = n - 1
    <2>1. Place(n, p) = 8 * (n - n) + 7 - p[2]
      BY <1>1, <1>3 DEF Place
    <2> QED BY <1>1, <1>2, <1>3, <2>1 DEF n
  <1>4. CASE p[1] = n
    <2>1. Place(n, p) = 8 * (n - (n - 1)) + 7 - p[2]
      BY <1>1, <1>4 DEF Place
    <2> QED BY <1>1, <1>2, <1>4, <2>1 DEF n
  <1>5. CASE p[1] <= n - 2
    <2>1. Place(n, p) = 8 * (n - p[1]) + 7 - p[2]
      BY <1>1, <1>2, <1>5 DEF Place
    <2> QED BY <1>1, <1>2, <1>5, <2>1 DEF n
  <1> QED BY <1>1, <1>2, <1>3, <1>4, <1>5

(* No two bits of a packet have the same place. *)
LEMMA PlaceInjective ==
  ASSUME NEW b \in Seq(Byte), Len(b) >= 2, NEW p \in BitsOf(b), NEW q \in BitsOf(b),
         Place(Len(b), p) = Place(Len(b), q)
  PROVE  p = q
  <1> DEFINE n == Len(b)
  <1>1. n \in Nat /\ n >= 2
    OBVIOUS
  <1>2. /\ p[1] \in 1 .. n /\ p[2] \in 0 .. 7 /\ p = <<p[1], p[2]>>
        /\ q[1] \in 1 .. n /\ q[2] \in 0 .. 7 /\ q = <<q[1], q[2]>>
    BY PlaceType
  <1> DEFINE row(k) == CASE k = n - 1 -> n [] k = n -> n - 1 [] OTHER -> k
  <1>3. Place(n, p) = 8 * (n - row(p[1])) + 7 - p[2] /\ Place(n, q) = 8 * (n - row(q[1])) + 7 - q[2]
    BY DEF Place
  <1>4. row(p[1]) \in Int /\ row(q[1]) \in Int
    BY <1>1, <1>2
  <1>5. row(p[1]) = row(q[1]) => p[1] = q[1]
    BY <1>1, <1>2
  <1> HIDE DEF n, row
  <1>6. row(p[1]) = row(q[1]) /\ p[2] = q[2]
    <2> DEFINE r == row(p[1])
               s == row(q[1])
               x == p[2]
               y == q[2]
    <2>1. 8 * (n - r) + 7 - x = 8 * (n - s) + 7 - y
      BY <1>3 DEF n
    <2>2. n \in Int /\ r \in Int /\ s \in Int /\ x \in 0 .. 7 /\ y \in 0 .. 7
      BY <1>1, <1>2, <1>4
    <2> HIDE DEF r, s, x, y
    <2>3. r = s /\ x = y
      BY <2>1, <2>2
    <2> QED BY <2>3 DEF r, s, x, y
  <1> QED BY <1>2, <1>5, <1>6

(* Places are finitely many numbers below the number of bits. *)
LEMMA PlacesType ==
  ASSUME NEW b \in Seq(Byte), Len(b) >= 2, NEW E \in SUBSET BitsOf(b)
  PROVE  /\ Places(Len(b), E) \in SUBSET Nat
         /\ Places(Len(b), E) \subseteq 0 .. 8 * Len(b) - 1
         /\ IsFiniteSet(Places(Len(b), E))
  <1>1. Places(Len(b), E) \subseteq 0 .. 8 * Len(b) - 1
    BY PlaceType DEF Places
  <1>2. IsFiniteSet(0 .. 8 * Len(b) - 1) /\ 0 .. 8 * Len(b) - 1 \subseteq Nat
    BY FS_Interval
  <1> QED BY <1>1, <1>2, FS_Subset

(* The places of a symmetric difference. *)
LEMMA PlacesXor ==
  ASSUME NEW b \in Seq(Byte), Len(b) >= 2, NEW E \in SUBSET BitsOf(b), NEW F \in SUBSET BitsOf(b)
  PROVE  Places(Len(b), Xor(E, F)) = Xor(Places(Len(b), E), Places(Len(b), F))
  <1> DEFINE pl(p) == Place(Len(b), p)
  <1>1. \A p, q \in BitsOf(b) : pl(p) = pl(q) => p = q
    BY PlaceInjective
  <1>2. \A G : Places(Len(b), G) = {pl(p) : p \in G}
    BY DEF Places
  <1> HIDE DEF pl
  <1> QED BY <1>1, <1>2 DEF Xor
-----------------------------------------------------------------------------
(* The CRC of a packet, and the check of it. *)

Front(b) == {p \in Ones(b) : p[1] <= Len(b) - 2}
Back(b)  == {p \in Ones(b) : p[1] > Len(b) - 2}

(* The payload, and the number of steps it takes. *)
LEMMA PayloadType ==
  ASSUME NEW b \in Seq(Byte), Len(b) >= 2
  PROVE  /\ Payload(b) \in Seq(Byte)
         /\ Len(Payload(b)) = Len(b) - 2
         /\ Steps(Payload(b)) = 8 * Len(b)
         /\ \A k \in 1 .. Len(b) - 2 : Payload(b)[k] = b[k]
  <1> DEFINE n == Len(b) - 2
             data == Payload(b)
  <1>1. n \in Nat /\ 1 \in 1 .. Len(b) + 1 /\ n \in 0 .. Len(b)
    OBVIOUS
  <1>2. /\ data \in Seq(Byte)
        /\ Len(data) = IF 1 <= n THEN n - 1 + 1 ELSE 0
        /\ \A i \in 1 .. n - 1 + 1 : data[i] = b[1 + i - 1]
    BY <1>1, SubSeqProperties DEF Payload
  <1> HIDE DEF data, n
  <1>3. Len(data) = n
    BY <1>1, <1>2
  <1>4. \A i \in 1 .. n : data[i] = b[i]
    BY <1>1, <1>2
  <1> QED BY <1>1, <1>2, <1>3, <1>4 DEF Steps, n, data

(* The bit fed in at step j is bit (j - 1) % 8 of byte (j - 1) \div 8 + 1. *)
LEMMA FedIs ==
  ASSUME NEW b \in Seq(Byte), Len(b) >= 2
  PROVE  /\ \A p \in Front(b) :
               8 * (p[1] - 1) + p[2] + 1 \in Fed(Payload(b), Steps(Payload(b)))
         /\ \A j \in Fed(Payload(b), Steps(Payload(b))) :
               \E p \in Front(b) : j = 8 * (p[1] - 1) + p[2] + 1
  <1> DEFINE data == Payload(b)
             n == Len(data)
  <1>0. n \in Nat /\ Steps(data) = 8 * n + 16 /\ n = Len(b) - 2
        /\ \A k \in 1 .. n : data[k] = b[k]
    BY PayloadType DEF Steps
  <1> HIDE DEF data, n
  <1>1. ASSUME NEW p \in Front(b)
        PROVE  8 * (p[1] - 1) + p[2] + 1 \in Fed(data, Steps(data))
    <2> DEFINE byte == p[1]
               bit == p[2]
               j == 8 * (byte - 1) + bit + 1
    <2>1. byte \in 1 .. n /\ bit \in 0 .. 7 /\ bit \in b[byte]
      BY <1>0, PlaceType DEF Front, Ones
    <2>2. bit \in data[byte]
      BY <1>0, <2>1
    <2> HIDE DEF byte, bit
    <2>3. j \in 1 .. Steps(data) /\ j <= 8 * n
      BY <1>0, <2>1
    <2>4. (j - 1) % 8 = bit /\ (j - 1) \div 8 + 1 = byte
      BY <2>1
    <2> HIDE DEF j
    <2>5. Input(data, j) = {0}
      BY <2>2, <2>3, <2>4 DEF Input, n
    <2> QED BY <2>3, <2>5 DEF Fed, j, byte, bit
  <1>2. ASSUME NEW j \in Fed(data, Steps(data))
        PROVE  \E p \in Front(b) : j = 8 * (p[1] - 1) + p[2] + 1
    <2> DEFINE byte == (j - 1) \div 8 + 1
               bit == (j - 1) % 8
    <2>1. j \in Nat /\ j >= 1 /\ Input(data, j) # {}
      BY <1>0 DEF Fed
    <2>2. j <= 8 * n /\ bit \in data[byte]
      BY <2>1 DEF Input, n
    <2>3. byte \in 1 .. n /\ bit \in 0 .. 7 /\ j = 8 * (byte - 1) + bit + 1
      <3> DEFINE m == j - 1
      <3>2. m \in Nat
        BY <2>1
      <3> HIDE DEF m
      <3>1. m \div 8 \in Nat /\ m % 8 \in 0 .. 7 /\ m = 8 * (m \div 8) + (m % 8)
        BY <3>2
      <3>5. byte = (m \div 8) + 1 /\ bit = m % 8 /\ m = j - 1
        BY DEF m
      <3>6. byte - 1 = m \div 8
        BY <3>1, <3>5
      <3>3. byte - 1 \in Nat /\ bit \in 0 .. 7 /\ j - 1 = 8 * (byte - 1) + bit
        BY <3>1, <3>5, <3>6
      <3>4. byte \in Int
        BY <3>1, <3>5
      <3> HIDE DEF byte, bit
      <3> QED BY <1>0, <2>1, <2>2, <3>3, <3>4
    <2> HIDE DEF byte, bit
    <2>4. bit \in b[byte] /\ byte \in 1 .. Len(b) /\ byte <= Len(b) - 2
      BY <1>0, <2>2, <2>3
    <2>5. <<byte, bit>> \in Front(b)
      BY <2>3, <2>4 DEF Front, Ones, BitsOf
    <2> QED BY <2>3, <2>5
  <1> QED BY <1>1, <1>2 DEF data

(* crc16_compute returns the remainder of the data at their places. *)
LEMMA CrcIs ==
  ASSUME NEW b \in Seq(Byte), Len(b) >= 2
  PROVE  crc16_compute(Payload(b)) = reverse(Remainder(Places(Len(b), Front(b))))
  <1> DEFINE data == Payload(b)
             fed == Fed(data, Steps(data))
             size == Len(b)
  <1>1. size \in Nat /\ Steps(data) = 8 * size /\ Steps(data) \in Nat /\ data \in Seq(Byte)
    BY PayloadType
  <1>2. Ago(data, Steps(data)) = {8 * size - j : j \in fed}
    BY <1>1 DEF Ago
  <1>3. ASSUME NEW p \in Front(b)
        PROVE  Place(size, p) = 8 * size - (8 * (p[1] - 1) + p[2] + 1)
    <2> DEFINE byte == p[1]
               bit == p[2]
    <2>1. byte \in Nat /\ bit \in 0 .. 7 /\ Place(size, p) = 8 * (size - byte) + 7 - bit
      BY PlaceType DEF Front, Ones
    <2> HIDE DEF byte, bit
    <2>2. Place(size, p) = 8 * size - (8 * (byte - 1) + bit + 1)
      BY <1>1, <2>1
    <2> QED BY <2>2 DEF byte, bit
  <1>4. {8 * size - j : j \in fed} = Places(size, Front(b))
    <2>1. ASSUME NEW j \in fed PROVE 8 * size - j \in Places(size, Front(b))
      <3>1. PICK p \in Front(b) : j = 8 * (p[1] - 1) + p[2] + 1
        BY FedIs
      <3> QED BY <3>1, <1>3 DEF Places
    <2>2. ASSUME NEW p \in Front(b) PROVE Place(size, p) \in {8 * size - j : j \in fed}
      BY <1>3, FedIs
    <2> QED BY <2>1, <2>2 DEF Places
  <1>5. Register(data)[Steps(data)] = Remainder(Places(size, Front(b)))
    <2>1. Steps(data) \in 0 .. Steps(data)
      BY <1>1
    <2> QED BY <1>1, <1>2, <1>4, <2>1, RegisterIs
  <1> QED BY <1>5 DEF crc16_compute

(* The places of the bits in the last two bytes. *)
LEMMA BackIs ==
  ASSUME NEW b \in Seq(Byte), Len(b) >= 2
  PROVE  /\ Places(Len(b), Back(b)) \subseteq 0 .. 15
         /\ \A i \in 0 .. 7 : i \in Places(Len(b), Back(b)) <=> 7 - i \in b[Len(b) - 1]
         /\ \A i \in 8 .. 15 : i \in Places(Len(b), Back(b)) <=> 15 - i \in b[Len(b)]
  <1> DEFINE n == Len(b)
  <1>1. n \in Nat /\ n >= 2
    OBVIOUS
  <1>2. \A p \in Back(b) :
          \/ p[1] = n - 1 /\ p[2] \in 0 .. 7 /\ p[2] \in b[n - 1] /\ Place(n, p) = 7 - p[2]
          \/ p[1] = n /\ p[2] \in 0 .. 7 /\ p[2] \in b[n] /\ Place(n, p) = 15 - p[2]
    BY <1>1, PlaceType DEF Back, Ones
  <1>3. ASSUME NEW i \in b[n - 1], i \in 0 .. 7
        PROVE  7 - i \in Places(n, Back(b))
    <2>1. <<n - 1, i>> \in Back(b)
      BY <1>1, <1>3 DEF Back, Ones, BitsOf
    <2> QED BY <1>1, <1>2, <2>1 DEF Places
  <1>4. ASSUME NEW i \in b[n], i \in 0 .. 7
        PROVE  15 - i \in Places(n, Back(b))
    <2>1. <<n, i>> \in Back(b)
      BY <1>1, <1>4 DEF Back, Ones, BitsOf
    <2> QED BY <1>1, <1>2, <2>1 DEF Places
  <1>5. Places(n, Back(b)) \subseteq 0 .. 15
    BY <1>2 DEF Places
  <1>6. ASSUME NEW i \in 0 .. 7 PROVE i \in Places(n, Back(b)) <=> 7 - i \in b[n - 1]
    <2>1. ASSUME i \in Places(n, Back(b)) PROVE 7 - i \in b[n - 1]
      <3>1. PICK p \in Back(b) : i = Place(n, p)
        BY <2>1 DEF Places
      <3>2. i = 7 - p[2] /\ p[2] \in 0 .. 7 /\ p[2] \in b[n - 1]
        BY <3>1, <1>2
      <3>3. 7 - i = p[2]
        BY <3>2
      <3> QED BY <3>2, <3>3
    <2>2. ASSUME 7 - i \in b[n - 1] PROVE i \in Places(n, Back(b))
      <3>1. 7 - i \in 0 .. 7 /\ 7 - (7 - i) = i
        OBVIOUS
      <3> QED BY <2>2, <3>1, <1>3
    <2> QED BY <2>1, <2>2
  <1>7. ASSUME NEW i \in 8 .. 15 PROVE i \in Places(n, Back(b)) <=> 15 - i \in b[n]
    <2>1. ASSUME i \in Places(n, Back(b)) PROVE 15 - i \in b[n]
      <3>1. PICK p \in Back(b) : i = Place(n, p)
        BY <2>1 DEF Places
      <3>2. i = 15 - p[2] /\ p[2] \in 0 .. 7 /\ p[2] \in b[n]
        BY <3>1, <1>2
      <3>3. 15 - i = p[2]
        BY <3>2
      <3> QED BY <3>2, <3>3
    <2>2. ASSUME 15 - i \in b[n] PROVE i \in Places(n, Back(b))
      <3>1. 15 - i \in 0 .. 7 /\ 15 - (15 - i) = i
        OBVIOUS
      <3> QED BY <2>2, <3>1, <1>4
    <2> QED BY <2>1, <2>2
  <1> QED BY <1>5, <1>6, <1>7
(* What check_crc compares, said of the places of the packet's bits. *)
LEMMA TrailerIs ==
  ASSUME NEW b \in Seq(Byte), Len(b) >= 2, NEW r \in SUBSET (0 .. 15)
  PROVE  (b[Len(b)] = Low(reverse(r)) /\ b[Len(b) - 1] = High(reverse(r)))
             <=> Places(Len(b), Back(b)) = r
  <1> DEFINE low == b[Len(b)]
             high == b[Len(b) - 1]
             back == Places(Len(b), Back(b))
  <1>1. low \subseteq 0 .. 7 /\ high \subseteq 0 .. 7
    BY DEF Byte
  <1>2. \A i \in 0 .. 15 : i \in reverse(r) <=> 15 - i \in r
    BY DEF reverse
  <1>3. reverse(r) \subseteq 0 .. 15
    BY DEF reverse
  <1>4. /\ Low(reverse(r)) \subseteq 0 .. 7
        /\ \A i \in 0 .. 7 : i \in Low(reverse(r)) <=> 15 - i \in r
    BY <1>2 DEF Low
  <1>5. /\ High(reverse(r)) \subseteq 0 .. 7
        /\ \A i \in 0 .. 7 : i \in High(reverse(r)) <=> 7 - i \in r
    <2>1. High(reverse(r)) \subseteq 0 .. 7
      BY <1>3 DEF High
    <2>2. ASSUME NEW i \in 0 .. 7 PROVE i \in High(reverse(r)) <=> i + 8 \in reverse(r)
      <3>1. ASSUME i \in High(reverse(r)) PROVE i + 8 \in reverse(r)
        <4>1. PICK k \in reverse(r) \ (0 .. 7) : i = k - 8
          BY <3>1 DEF High
        <4>2. i + 8 = k
          BY <1>3, <4>1
        <4> QED BY <4>1, <4>2
      <3>2. ASSUME i + 8 \in reverse(r) PROVE i \in High(reverse(r))
        <4>1. i + 8 \in reverse(r) \ (0 .. 7) /\ i = (i + 8) - 8
          BY <3>2
        <4> QED BY <4>1 DEF High
      <3> QED BY <3>1, <3>2
    <2>3. \A i \in 0 .. 7 : i + 8 \in 0 .. 15 /\ 15 - (i + 8) = 7 - i
      OBVIOUS
    <2>4. ASSUME NEW i \in 0 .. 7 PROVE i \in High(reverse(r)) <=> 7 - i \in r
      BY <1>2, <2>2, <2>3
    <2> QED BY <2>1, <2>4
  <1>6. /\ back \subseteq 0 .. 15
        /\ \A i \in 0 .. 7 : i \in back <=> 7 - i \in high
        /\ \A i \in 8 .. 15 : i \in back <=> 15 - i \in low
    BY BackIs
  <1> HIDE DEF low, high, back
  <1>7. low = Low(reverse(r)) <=> \A i \in 8 .. 15 : i \in back <=> i \in r
    <2>1. low = Low(reverse(r)) <=> \A i \in 0 .. 7 : i \in low <=> 15 - i \in r
      BY <1>1, <1>4
    <2>2. ASSUME \A i \in 0 .. 7 : i \in low <=> 15 - i \in r, NEW i \in 8 .. 15
          PROVE  i \in back <=> i \in r
      <3>1. 15 - i \in 0 .. 7 /\ 15 - (15 - i) = i
        OBVIOUS
      <3>2. 15 - i \in low <=> 15 - (15 - i) \in r
        BY <2>2, <3>1
      <3> QED BY <3>1, <3>2, <1>6
    <2>3. ASSUME \A i \in 8 .. 15 : i \in back <=> i \in r, NEW i \in 0 .. 7
          PROVE  i \in low <=> 15 - i \in r
      <3>1. 15 - i \in 8 .. 15 /\ 15 - (15 - i) = i
        OBVIOUS
      <3>2. 15 - i \in back <=> 15 - (15 - i) \in low
        BY <1>6, <3>1
      <3> QED BY <3>1, <3>2, <2>3
    <2> QED BY <2>1, <2>2, <2>3
  <1>8. high = High(reverse(r)) <=> \A i \in 0 .. 7 : i \in back <=> i \in r
    <2>1. high = High(reverse(r)) <=> \A i \in 0 .. 7 : i \in high <=> 7 - i \in r
      BY <1>1, <1>5
    <2>2. ASSUME \A i \in 0 .. 7 : i \in high <=> 7 - i \in r, NEW i \in 0 .. 7
          PROVE  i \in back <=> i \in r
      <3>1. 7 - i \in 0 .. 7 /\ 7 - (7 - i) = i
        OBVIOUS
      <3>2. 7 - i \in high <=> 7 - (7 - i) \in r
        BY <2>2, <3>1
      <3> QED BY <3>1, <3>2, <1>6
    <2>3. ASSUME \A i \in 0 .. 7 : i \in back <=> i \in r, NEW i \in 0 .. 7
          PROVE  i \in high <=> 7 - i \in r
      <3>1. 7 - i \in 0 .. 7 /\ 7 - (7 - i) = i
        OBVIOUS
      <3>2. 7 - i \in back <=> 7 - (7 - i) \in high
        BY <1>6, <3>1
      <3> QED BY <3>1, <3>2, <2>3
    <2> QED BY <2>1, <2>2, <2>3
  <1>9. (\A i \in 0 .. 15 : i \in back <=> i \in r) <=> back = r
    BY <1>6
  <1>10. 0 .. 15 = (0 .. 7) \cup (8 .. 15)
    OBVIOUS
  <1> QED BY <1>7, <1>8, <1>9, <1>10 DEF low, high, back

(* The remainder of a packet: that of its data, and its last two bytes. *)
LEMMA WholeIs ==
  ASSUME NEW b \in Seq(Byte), Len(b) >= 2
  PROVE  Remainder(Places(Len(b), Ones(b)))
             = Xor(Remainder(Places(Len(b), Front(b))), Places(Len(b), Back(b)))
  <1> DEFINE front == Places(Len(b), Front(b))
             back == Places(Len(b), Back(b))
  <1>1. Front(b) \in SUBSET BitsOf(b) /\ Back(b) \in SUBSET BitsOf(b)
    BY DEF Front, Back, Ones
  <1>2. Ones(b) = Xor(Front(b), Back(b))
    <2>1. ASSUME NEW p \in Ones(b) PROVE p[1] <= Len(b) - 2 <=> ~(p[1] > Len(b) - 2)
      BY PlaceType DEF Ones
    <2> QED BY <2>1 DEF Front, Back, Xor
  <1>3. Places(Len(b), Ones(b)) = Xor(front, back)
    BY <1>1, <1>2, PlacesXor
  <1>4. IsFiniteSet(front) /\ IsFiniteSet(back) /\ back \in SUBSET (0 .. 15)
    BY <1>1, PlacesType, BackIs
  <1> HIDE DEF front, back
  <1>5. Remainder(Places(Len(b), Ones(b))) = Xor(Remainder(front), back)
    BY <1>3, <1>4, RemainderXor, RemainderSmall
  <1> QED BY <1>5 DEF front, back

(* check_crc takes the multiples of the generator. *)
LEMMA CheckIs ==
  ASSUME NEW b \in Seq(Byte), Len(b) >= 2
  PROVE  check_crc(b) <=> Remainder(Places(Len(b), Ones(b))) = {}
  <1> DEFINE front == Places(Len(b), Front(b))
             back == Places(Len(b), Back(b))
  <1>1. check_crc(b) <=> back = Remainder(front)
    <2>1. crc16_compute(Payload(b)) = reverse(Remainder(front))
      BY CrcIs
    <2>2. Remainder(front) \in SUBSET (0 .. 15)
      BY RemainderType
    <2> HIDE DEF front
    <2> QED BY <2>1, <2>2, TrailerIs DEF check_crc
  <1>2. Remainder(Places(Len(b), Ones(b))) = Xor(Remainder(front), back)
    BY WholeIs
  <1> HIDE DEF front, back
  <1> QED BY <1>1, <1>2 DEF Xor

(* fill_crc makes a packet a multiple of the generator. *)
LEMMA FillIs ==
  ASSUME NEW b \in Seq(Byte), Len(b) >= 2
  PROVE  /\ fill_crc(b) \in Seq(Byte) /\ Len(fill_crc(b)) = Len(b)
         /\ Remainder(Places(Len(b), Ones(fill_crc(b)))) = {}
  <1> DEFINE crc == crc16_compute(Payload(b))
             c == fill_crc(b)
             n == Len(b)
  <1>1. crc \subseteq 0 .. 15
    BY CrcIs, RemainderType DEF reverse
  <1>2. Low(crc) \in Byte /\ High(crc) \in Byte
    BY <1>1 DEF Low, High, Byte
  <1>3. c = [b EXCEPT ![n] = Low(crc), ![n - 1] = High(crc)]
    BY DEF fill_crc
  <1> HIDE DEF crc, c
  <1>4. c \in Seq(Byte) /\ Len(c) = n
    BY <1>2, <1>3
  <1>5. c[n] = Low(crc) /\ c[n - 1] = High(crc) /\ \A k \in 1 .. n - 2 : c[k] = b[k]
    BY <1>3
  <1>6. Payload(c) = Payload(b)
    <2>1. Len(Payload(c)) = Len(Payload(b)) /\ Payload(c) \in Seq(Byte) /\ Payload(b) \in Seq(Byte)
      BY <1>4, PayloadType
    <2>2. \A k \in 1 .. Len(Payload(b)) : Payload(c)[k] = Payload(b)[k]
      BY <1>4, <1>5, PayloadType
    <2> QED BY <2>1, <2>2, SeqEqual
  <1>7. check_crc(c)
    BY <1>4, <1>5, <1>6 DEF check_crc, crc
  <1> QED BY <1>4, <1>7, CheckIs DEF c

(* Flipping bits adds them to the packet's. *)
LEMMA FlipIs ==
  ASSUME NEW b \in Seq(Byte), NEW E \in SUBSET BitsOf(b)
  PROVE  /\ Flip(b, E) \in Seq(Byte) /\ Len(Flip(b, E)) = Len(b)
         /\ Ones(Flip(b, E)) = Xor(Ones(b), E)
  <1> DEFINE c == Flip(b, E)
             hit(k) == {i \in 0 .. 7 : <<k, i>> \in E}
  <1>1. \A k \in 1 .. Len(b) : Xor(b[k], hit(k)) \in Byte
    BY DEF Xor, Byte
  <1>2. c = [k \in 1 .. Len(b) |-> Xor(b[k], hit(k))]
    BY DEF Flip
  <1> HIDE DEF c, hit
  <1>3. c \in Seq(Byte) /\ Len(c) = Len(b)
    BY <1>1, <1>2
  <1>4. BitsOf(c) = BitsOf(b)
    BY <1>3 DEF BitsOf
  <1>5. ASSUME NEW k \in 1 .. Len(b), NEW i \in 0 .. 7
        PROVE  <<k, i>> \in Ones(c) <=> <<k, i>> \in Xor(Ones(b), E)
    <2>1. i \in c[k] <=> i \in Xor(b[k], hit(k))
      BY <1>2
    <2>2. i \in hit(k) <=> <<k, i>> \in E
      BY DEF hit
    <2>3. <<k, i>> \in BitsOf(b)
      BY DEF BitsOf
    <2>4. /\ <<k, i>> \in Ones(c) <=> i \in c[k]
          /\ <<k, i>> \in Ones(b) <=> i \in b[k]
      BY <1>4, <2>3 DEF Ones
    <2> QED BY <2>1, <2>2, <2>4 DEF Xor
  <1>6. Ones(c) \subseteq BitsOf(b) /\ Xor(Ones(b), E) \subseteq BitsOf(b)
    BY <1>4 DEF Ones, Xor
  <1>7. \A p \in BitsOf(b) : p \in Ones(c) <=> p \in Xor(Ones(b), E)
    <2> SUFFICES ASSUME NEW p \in BitsOf(b) PROVE p \in Ones(c) <=> p \in Xor(Ones(b), E)
      OBVIOUS
    <2>1. p[1] \in 1 .. Len(b) /\ p[2] \in 0 .. 7 /\ p = <<p[1], p[2]>>
      BY DEF BitsOf
    <2>2. <<p[1], p[2]>> \in Ones(c) <=> <<p[1], p[2]>> \in Xor(Ones(b), E)
      BY <2>1, <1>5
    <2> QED BY <2>1, <2>2
  <1>8. Ones(c) = Xor(Ones(b), E)
    BY <1>6, <1>7
  <1> QED BY <1>3, <1>8 DEF c

-----------------------------------------------------------------------------
(* The inductive invariant: what is left of the packet after division.     *)

Residue == Remainder(Places(Len(buf), Ones(buf)))

IInv ==
    /\ TypeOK
    /\ pc \in {"new", "filled"} => flipped = {}
    /\ pc = "filled" => Residue = {}
    /\ pc = "sent" => Residue = Remainder(Places(Len(buf), flipped))
    /\ ExactVerdict

(* The invariant holds when nothing has been sent, ... *)
LEMMA InitIInv == Init => IInv
  <1> SUFFICES ASSUME Init PROVE IInv
    OBVIOUS
  <1>1. PICK d \in Data : buf = d \o <<{}, {}>>
    BY DEF Init
  <1>2. d \in Seq(Byte) /\ <<{}, {}>> \in Seq(Byte) /\ Len(<<{}, {}>>) = 2
    BY DataAssumption DEF Byte
  <1>3. buf \in Seq(Byte) /\ Len(buf) = Len(d) + 2
    BY <1>1, <1>2, ConcatProperties
  <1>4. Len(buf) >= 2
    BY <1>2, <1>3
  <1> QED BY <1>3, <1>4 DEF Init, IInv, TypeOK, ExactVerdict

(* ... is what fill_crc is for, ... *)
LEMMA FillStep == IInv /\ FillCrc => IInv'
  <1> SUFFICES ASSUME IInv, FillCrc PROVE IInv'
    OBVIOUS
  <1>1. buf \in Seq(Byte) /\ Len(buf) >= 2 /\ flipped = {} /\ accepted \in BOOLEAN
    BY DEF IInv, TypeOK, FillCrc
  <1>2. buf' = fill_crc(buf) /\ flipped' = {} /\ pc' = "filled" /\ accepted' = accepted
    BY <1>1 DEF FillCrc
  <1>3. buf' \in Seq(Byte) /\ Len(buf') = Len(buf) /\ Residue' = {}
    BY <1>1, <1>2, FillIs DEF Residue
  <1> QED BY <1>1, <1>2, <1>3 DEF IInv, TypeOK, ExactVerdict

(* ... says what the network has added, ... *)
LEMMA TransmitStep == ASSUME NEW E PROVE IInv /\ Transmit(E) => IInv'
  <1> SUFFICES ASSUME IInv, Transmit(E) PROVE IInv'
    OBVIOUS
  <1>1. buf \in Seq(Byte) /\ Len(buf) >= 2 /\ Residue = {} /\ accepted \in BOOLEAN
    BY DEF IInv, TypeOK, Transmit
  <1>2. buf' = Flip(buf, E) /\ flipped' = E /\ pc' = "sent" /\ accepted' = accepted
        /\ E \in SUBSET BitsOf(buf)
    BY DEF Transmit
  <1>3. buf' \in Seq(Byte) /\ Len(buf') = Len(buf) /\ Ones(buf') = Xor(Ones(buf), E)
    BY <1>1, <1>2, FlipIs
  <1>4. BitsOf(buf') = BitsOf(buf)
    BY <1>3 DEF BitsOf
  <1>5. Ones(buf) \in SUBSET BitsOf(buf)
    BY DEF Ones
  <1>6. Residue' = Xor(Residue, Remainder(Places(Len(buf), E)))
    <2>1. Residue' = Remainder(Places(Len(buf), Xor(Ones(buf), E)))
      BY <1>3 DEF Residue
    <2>2. Places(Len(buf), Xor(Ones(buf), E))
             = Xor(Places(Len(buf), Ones(buf)), Places(Len(buf), E))
      BY <1>1, <1>2, <1>5, PlacesXor
    <2>3. IsFiniteSet(Places(Len(buf), Ones(buf))) /\ IsFiniteSet(Places(Len(buf), E))
      BY <1>1, <1>2, <1>5, PlacesType
    <2> QED BY <2>1, <2>2, <2>3, RemainderXor DEF Residue
  <1>7. Residue' = Remainder(Places(Len(buf), E))
    BY <1>1, <1>6 DEF Xor
  <1> QED BY <1>1, <1>2, <1>3, <1>4, <1>7 DEF IInv, TypeOK, ExactVerdict

(* ... and what check_crc finds. *)
LEMMA CheckStep == IInv /\ CheckCrc => IInv'
  <1> SUFFICES ASSUME IInv, CheckCrc PROVE IInv'
    OBVIOUS
  <1>1. buf \in Seq(Byte) /\ Len(buf) >= 2 /\ flipped \subseteq BitsOf(buf)
        /\ Residue = Remainder(Places(Len(buf), flipped))
    BY DEF IInv, TypeOK, CheckCrc
  <1>2. buf' = buf /\ flipped' = flipped /\ pc' = "checked" /\ accepted' = check_crc(buf)
    BY DEF CheckCrc
  <1>3. accepted' \in BOOLEAN
    BY <1>2 DEF check_crc
  <1>4. accepted' <=> Remainder(Places(Len(buf), flipped)) = {}
    BY <1>1, <1>2, CheckIs DEF Residue
  <1> QED BY <1>1, <1>2, <1>3, <1>4 DEF IInv, TypeOK, ExactVerdict

(* The packet is well formed, what is left of it is what has been flipped, *)
(* and check_crc finds exactly that.                                       *)
THEOREM InductiveInvariant == Spec => []IInv
  <1>1. IInv /\ UNCHANGED vars => IInv'
    BY DEF IInv, TypeOK, ExactVerdict, Residue, vars
  <1>2. IInv /\ [Next]_vars => IInv'
    BY <1>1, FillStep, TransmitStep, CheckStep DEF Next
  <1> QED BY InitIInv, <1>2, PTL DEF Spec
(* The packet and what is known of it have the shape the code gives them.  *)
THEOREM TypeCorrect == Spec => []TypeOK
  <1>1. IInv => TypeOK
    BY DEF IInv
  <1> QED BY <1>1, InductiveInvariant, PTL

(* crc16_compute divides, and fill_crc appends what is left. *)
THEOREM RemainderCorrect == Spec => []IsRemainder
  <1>1. IInv => IsRemainder
    <2> SUFFICES ASSUME IInv, pc = "filled"
                 PROVE  Places(Len(buf), Back(buf)) = Remainder(Places(Len(buf), Front(buf)))
      BY DEF IsRemainder, Front, Back
    <2>1. buf \in Seq(Byte) /\ Len(buf) >= 2 /\ Residue = {}
      BY DEF IInv, TypeOK
    <2>2. Xor(Remainder(Places(Len(buf), Front(buf))), Places(Len(buf), Back(buf))) = {}
      BY <2>1, WholeIs DEF Residue
    <2> QED BY <2>2 DEF Xor
  <1> QED BY <1>1, InductiveInvariant, PTL

(* check_crc takes a packet exactly when the damage is a multiple of the   *)
(* generator.                                                              *)
THEOREM VerdictCorrect == Spec => []ExactVerdict
  <1>1. IInv => ExactVerdict
    BY DEF IInv
  <1> QED BY <1>1, InductiveInvariant, PTL

-----------------------------------------------------------------------------
(* Which damage is no multiple of the generator. *)

(* Multiplication by x loses nothing: the generator has the term 1. *)
LEMMA TimesXInjective ==
  ASSUME NEW r \in SUBSET (0 .. 15), NEW s \in SUBSET (0 .. 15), TimesX(r) = TimesX(s)
  PROVE  r = s
  <1>1. 15 \in r <=> 15 \in s
    <2>1. 0 \in 0 .. 15 /\ ~(0 > 0) /\ 0 \in CRC16_GENERATOR
      BY GeneratorAssumption
    <2>2. (0 \in TimesX(r) <=> 15 \in r) /\ (0 \in TimesX(s) <=> 15 \in s)
      BY <2>1, TimesXMember
    <2> QED BY <2>2
  <1>2. ASSUME NEW j \in 0 .. 14 PROVE j \in r <=> j \in s
    <2>1. j + 1 \in 0 .. 15 /\ j + 1 > 0 /\ (j + 1) - 1 = j
      OBVIOUS
    <2>2. /\ j + 1 \in TimesX(r) <=> (j \in r <=> ~(15 \in r /\ j + 1 \in CRC16_GENERATOR))
          /\ j + 1 \in TimesX(s) <=> (j \in s <=> ~(15 \in s /\ j + 1 \in CRC16_GENERATOR))
      BY <2>1, TimesXMember
    <2> QED BY <2>2, <1>1
  <1>3. \A j \in 0 .. 15 : j \in r <=> j \in s
    <2>1. \A j \in 0 .. 15 : j \in 0 .. 14 \/ j = 15
      OBVIOUS
    <2> QED BY <1>1, <1>2, <2>1
  <1> QED BY <1>3

(* Nothing times x. *)
LEMMA TimesXEmpty == TimesX({}) = {}
  <1>1. {i + 1 : i \in {}} = {}
    OBVIOUS
  <1> QED BY <1>1 DEF TimesX

(* Intervals are finite, ... *)
LEMMA IntervalFinite ==
  ASSUME NEW m \in Int, NEW n \in Int
  PROVE  IsFiniteSet(m .. n)
  BY FS_Interval

(* ... so registers are, ... *)
LEMMA RegisterFinite ==
  ASSUME NEW r \in SUBSET (0 .. 15)
  PROVE  IsFiniteSet(r) /\ r \in SUBSET Nat
  <1>1. IsFiniteSet(0 .. 15)
    <2>1. 0 \in Int /\ 15 \in Int
      OBVIOUS
    <2> QED BY <2>1, IntervalFinite, Zenon
  <1>2. IsFiniteSet(r)
    BY <1>1, FS_Subset, Zenon
  <1>3. r \in SUBSET Nat
    OBVIOUS
  <1> QED BY <1>2, <1>3

(* Multiplication by x keeps the parity: with x^16 the generator has an    *)
(* even number of terms.                                                   *)
LEMMA TimesXOdd ==
  ASSUME NEW r \in SUBSET (0 .. 15)
  PROVE  Odd(TimesX(r)) <=> Odd(r)
  <1>1. IsFiniteSet(r) /\ r \in SUBSET Nat /\ IsFiniteSet(CRC16_GENERATOR)
    BY RegisterFinite, GeneratorAssumption
  <1>2. IsFiniteSet(Up(r)) /\ (Odd(Up(r)) <=> Odd(r))
    BY <1>1, UpOdd
  <1>3. TimesX(r) = IF 16 \in Up(r) THEN Xor(Up(r) \ {16}, CRC16_GENERATOR) ELSE Up(r)
    BY DEF TimesX, Up
  <1>4. CASE 16 \in Up(r)
    <2>1. Up(r) \ {16} = Xor(Up(r), {16})
      BY <1>4 DEF Xor
    <2>2. IsFiniteSet({16}) /\ Odd({16})
      BY FS_Singleton, OddOne
    <2>3. IsFiniteSet(Xor(Up(r), {16})) /\ (Odd(Xor(Up(r), {16})) <=> ~Odd(r))
      BY <1>2, <2>2, OddXor
    <2>4. Odd(Xor(Xor(Up(r), {16}), CRC16_GENERATOR)) <=> Odd(r)
      BY <1>1, <2>3, OddXor, GeneratorAssumption
    <2> QED BY <1>3, <1>4, <2>1, <2>4
  <1>5. CASE 16 \notin Up(r)
    BY <1>2, <1>3, <1>5
  <1> QED BY <1>4, <1>5

(* The remainder of a power of x has an odd number of terms, ... *)
LEMMA PowerOdd ==
  ASSUME NEW n \in Nat
  PROVE  Odd(Power[n])
  <1> DEFINE T == {k \in Nat : Odd(Power[k])}
  <1>1. 0 \in T
    BY PowerDef, OddOne
  <1>2. ASSUME NEW k \in Nat, k \in T PROVE k + 1 \in T
    <2>1. Power[k] \in SUBSET (0 .. 15) /\ Power[k + 1] = TimesX(Power[k])
      BY PowerDef
    <2> QED BY <1>2, <2>1, TimesXOdd
  <1> HIDE DEF T
  <1>3. n \in T
    BY <1>1, <1>2, Induct
  <1> QED BY <1>3 DEF T

(* ... and that of a sum as many, modulo two, as the sum. *)
LEMMA RemainderOdd ==
  ASSUME NEW S \in SUBSET Nat, IsFiniteSet(S)
  PROVE  Odd(Remainder(S)) <=> Odd(S)
  <1> DEFINE Good(U) == Odd(Remainder(U)) <=> Odd(U)
             T == {k \in Nat : \A U \in SUBSET Nat :
                                  IsFiniteSet(U) /\ Cardinality(U) = k => Good(U)}
  <1>1. 0 \in T
    <2> SUFFICES ASSUME NEW U \in SUBSET Nat, IsFiniteSet(U), Cardinality(U) = 0
                 PROVE  Good(U)
      OBVIOUS
    <2>1. U = {}
      BY FS_EmptySet
    <2> QED BY <2>1, RemainderOne
  <1>2. ASSUME NEW k \in Nat, k \in T PROVE k + 1 \in T
    <2> SUFFICES ASSUME NEW U \in SUBSET Nat, IsFiniteSet(U), Cardinality(U) = k + 1
                 PROVE  Good(U)
      OBVIOUS
    <2>1. PICK n \in U : TRUE
      <3>1. U # {}
        BY FS_EmptySet
      <3> QED BY <3>1
    <2> DEFINE V == U \ {n}
    <2>2. IsFiniteSet(V) /\ Cardinality(V) = k /\ V \in SUBSET Nat
      BY <2>1, FS_RemoveElement
    <2>3. Good(V)
      BY <1>2, <2>2
    <2>4. U = Xor(V, {n})
      BY <2>1 DEF Xor
    <2>5. IsFiniteSet({n}) /\ Odd({n})
      BY FS_Singleton, OddOne
    <2>6. Odd(U) <=> ~Odd(V)
      BY <2>2, <2>4, <2>5, OddXor
    <2>7. Remainder(U) = Xor(Remainder(V), Power[n])
      BY <2>1, <2>2, <2>4, <2>5, RemainderXor, RemainderOne
    <2>8. IsFiniteSet(Remainder(V)) /\ IsFiniteSet(Power[n])
      <3>1. Remainder(V) \in SUBSET (0 .. 15) /\ Power[n] \in SUBSET (0 .. 15)
        BY <2>1, RemainderType, PowerDef
      <3> QED BY <3>1, RegisterFinite
    <2>9. Odd(Remainder(U)) <=> ~Odd(Remainder(V))
      BY <2>1, <2>7, <2>8, OddXor, PowerOdd
    <2> QED BY <2>3, <2>6, <2>9
  <1> HIDE DEF T, Good
  <1>3. Cardinality(S) \in T
    BY <1>1, <1>2, Induct, FS_CardinalityType
  <1>4. Good(S)
    BY <1>3 DEF T
  <1> QED BY <1>4 DEF Good

(* Only so many bits can be flipped. *)
LEMMA FlippedFinite ==
  ASSUME NEW b \in Seq(Byte), NEW E \in SUBSET BitsOf(b)
  PROVE  IsFiniteSet(E)
  <1>1. IsFiniteSet(1 .. Len(b)) /\ IsFiniteSet(0 .. 7)
    <2>1. 0 \in Int /\ 7 \in Int /\ 1 \in Int /\ Len(b) \in Int
      OBVIOUS
    <2> QED BY <2>1, IntervalFinite, Zenon
  <1>2. IsFiniteSet(BitsOf(b))
    BY <1>1, FS_Product DEF BitsOf
  <1> QED BY <1>2, FS_Subset

(* As many places as bits. *)
LEMMA PlacesOdd ==
  ASSUME NEW b \in Seq(Byte), Len(b) >= 2, NEW E \in SUBSET BitsOf(b)
  PROVE  Odd(Places(Len(b), E)) <=> Odd(E)
  <1> DEFINE P == Places(Len(b), E)
             f == [p \in E |-> Place(Len(b), p)]
  <1>1. f \in Bijection(E, P)
    <2>1. f \in [E -> P] /\ \A m \in P : \E p \in E : f[p] = m
      BY DEF Places
    <2>2. \A p, q \in E : f[p] = f[q] => p = q
      BY PlaceInjective
    <2> HIDE DEF f, P
    <2> QED BY <2>1, <2>2 DEF Bijection, Injection, Surjection, IsInjective
  <1>2. IsFiniteSet(E)
    BY FlippedFinite
  <1>3. Cardinality(P) = Cardinality(E)
    <2> HIDE DEF f, P
    <2>1. ExistsBijection(E, P)
      BY <1>1 DEF ExistsBijection
    <2> QED BY <1>2, <2>1, FS_Bijection
  <1> QED BY <1>3 DEF Odd

(* Two powers with one remainder are a period of the generator apart. *)
LEMMA PowerAgain ==
  ASSUME NEW m \in Nat, NEW d \in Nat, Power[m] = Power[m + d]
  PROVE  Power[d] = {0}
  <1> DEFINE T == {k \in Nat : Power[k] = Power[k + d] => Power[d] = {0}}
  <1>1. 0 \in T
    BY PowerDef
  <1>2. ASSUME NEW k \in Nat, k \in T PROVE k + 1 \in T
    <2> SUFFICES ASSUME Power[k + 1] = Power[(k + 1) + d] PROVE Power[k] = Power[k + d]
      BY <1>2
    <2>1. (k + 1) + d = (k + d) + 1 /\ k + d \in Nat
      OBVIOUS
    <2>2. TimesX(Power[k]) = TimesX(Power[k + d])
      BY <2>1, PowerDef
    <2>3. Power[k] \in SUBSET (0 .. 15) /\ Power[k + d] \in SUBSET (0 .. 15)
      BY <2>1, PowerDef
    <2> QED BY <2>2, <2>3, TimesXInjective
  <1> HIDE DEF T
  <1>3. m \in T
    BY <1>1, <1>2, Induct
  <1> QED BY <1>3 DEF T

(* Two bits within the period are no multiple of the generator. *)
LEMMA TwoBits ==
  ASSUME NEW b \in Seq(Byte), Len(b) >= 2, NEW E \in SUBSET BitsOf(b),
         Cardinality(E) = 2, IsFiniteSet(E), WithinPeriod(b)
  PROVE  Remainder(Places(Len(b), E)) # {}
  <1>1. PICK p \in E : TRUE
    <2>1. E # {}
      BY FS_EmptySet
    <2> QED BY <2>1
  <1>2. PICK q : E \ {p} = {q}
    <2>1. IsFiniteSet(E \ {p}) /\ Cardinality(E \ {p}) = 1
      BY <1>1, FS_RemoveElement
    <2> QED BY <2>1, FS_Singleton
  <1>3. E = {p, q} /\ p # q /\ p \in BitsOf(b) /\ q \in BitsOf(b)
    BY <1>1, <1>2
  <1> DEFINE i == Place(Len(b), p)
             j == Place(Len(b), q)
             last == 8 * Len(b) - 1
  <1>4. i # j /\ i \in 0 .. last /\ j \in 0 .. last
    BY <1>3, PlaceInjective, PlaceType
  <1>5. last \in Nat /\ \A n \in 1 .. last : Power[n] # {0}
    BY DEF WithinPeriod
  <1> HIDE DEF i, j, last
  <1>6. Power[i] # Power[j]
    <2>1. \A k, l \in 0 .. last : k < l => Power[k] # Power[l]
      <3> SUFFICES ASSUME NEW k \in 0 .. last, NEW l \in 0 .. last, k < l, Power[k] = Power[l]
                   PROVE  FALSE
        OBVIOUS
      <3>1. l - k \in 1 .. last /\ l - k \in Nat /\ k \in Nat /\ k + (l - k) = l
        BY <1>5
      <3>2. Power[l - k] = {0}
        BY <3>1, PowerAgain
      <3> QED BY <3>1, <3>2, <1>5
    <2>2. i < j \/ j < i
      BY <1>4, <1>5
    <2> QED BY <1>4, <2>1, <2>2
  <1>7. Remainder(Places(Len(b), E)) = Xor(Power[i], Power[j])
    <2>1. Places(Len(b), E) = {i, j}
      BY <1>3 DEF Places, i, j
    <2>2. {i, j} = Xor({i}, {j})
      BY <1>4 DEF Xor
    <2>3. IsFiniteSet({i}) /\ IsFiniteSet({j})
      BY FS_Singleton
    <2>4. i \in Nat /\ j \in Nat
      BY <1>4, <1>5
    <2>5. Remainder(Xor({i}, {j})) = Xor(Remainder({i}), Remainder({j}))
      BY <2>3, RemainderXor
    <2>6. Remainder({i}) = Power[i] /\ Remainder({j}) = Power[j]
      BY <2>4, RemainderOne
    <2> QED BY <2>1, <2>2, <2>5, <2>6
  <1> QED BY <1>6, <1>7 DEF Xor

(* Of the sums of sixteen powers in a row only the empty one is a multiple *)
(* of the generator.                                                       *)
LEMMA BurstIs ==
  ASSUME NEW n \in Nat, NEW S \in SUBSET (n .. n + 15), Remainder(S) = {}
  PROVE  S = {}
  <1> DEFINE T == {k \in Nat : \A U \in SUBSET (k .. k + 15) : Remainder(U) = {} => U = {}}
  <1>1. 0 \in T
    BY RemainderSmall
  <1>2. ASSUME NEW k \in Nat, k \in T PROVE k + 1 \in T
    <2> SUFFICES ASSUME NEW U \in SUBSET (k + 1 .. (k + 1) + 15), Remainder(U) = {}
                 PROVE  U = {}
      OBVIOUS
    <2> DEFINE V == {m \in k .. k + 15 : m + 1 \in U}
    <2>1. U = Up(V)
      <3>1. ASSUME NEW u \in U PROVE u \in Up(V)
        <4>1. u - 1 \in V /\ (u - 1) + 1 = u
          OBVIOUS
        <4> QED BY <4>1 DEF Up
      <3> QED BY <3>1 DEF Up
    <2>2. V \in SUBSET Nat /\ IsFiniteSet(V)
      <3>1. IsFiniteSet(k .. k + 15) /\ k .. k + 15 \subseteq Nat
        BY IntervalFinite
      <3> QED BY <3>1, FS_Subset
    <2>3. V \in SUBSET (k .. k + 15)
      OBVIOUS
    <2> HIDE DEF V
    <2>4. TimesX(Remainder(V)) = TimesX({})
      BY <2>1, <2>2, RemainderUp, TimesXEmpty
    <2>5. Remainder(V) = {}
      BY <2>4, RemainderType, TimesXInjective
    <2>6. V = {}
      BY <1>2, <2>3, <2>5
    <2> QED BY <2>1, <2>6 DEF Up
  <1> HIDE DEF T
  <1>3. n \in T
    BY <1>1, <1>2, Induct
  <1> QED BY <1>3 DEF T

(* An odd number of flipped bits is found, because every power of x leaves *)
(* an odd number of bits; two are, because no two powers within the period *)
(* leave the same.                                                         *)
THEOREM DetectsCorrect == Spec => []Detects
  <1>1. IInv => Detects
    <2> SUFFICES ASSUME IInv, pc = "checked"
                 PROVE  /\ flipped = {} => accepted
                        /\ Odd(flipped) => ~accepted
                        /\ Cardinality(flipped) = 2 /\ WithinPeriod(buf) => ~accepted
      BY DEF Detects
    <2> DEFINE S == Places(Len(buf), flipped)
    <2>1. buf \in Seq(Byte) /\ Len(buf) >= 2 /\ flipped \in SUBSET BitsOf(buf)
      BY DEF IInv, TypeOK
    <2>2. accepted <=> Remainder(S) = {}
      BY DEF IInv, ExactVerdict
    <2>3. ASSUME flipped = {} PROVE Remainder(S) = {}
      <3>1. S = {}
        BY <2>3 DEF Places
      <3> QED BY <3>1, RemainderOne
    <2>4. ASSUME Odd(flipped) PROVE Remainder(S) # {}
      <3>1. S \in SUBSET Nat /\ IsFiniteSet(S)
        BY <2>1, PlacesType
      <3>2. Odd(S)
        BY <2>1, <2>4, PlacesOdd
      <3>3. Odd(Remainder(S))
        BY <3>1, <3>2, RemainderOdd
      <3> QED BY <3>3, OddOne
    <2>5. ASSUME Cardinality(flipped) = 2, WithinPeriod(buf) PROVE Remainder(S) # {}
      BY <2>1, <2>5, FlippedFinite, TwoBits
    <2> HIDE DEF S
    <2> QED BY <2>2, <2>3, <2>4, <2>5
  <1> QED BY <1>1, InductiveInvariant, PTL

(* Damage within sixteen powers in a row is found, because the generator   *)
(* has the term 1: division never loses the remainder of such a burst.     *)
THEOREM DetectsBurstCorrect == Spec => []DetectsBurst
  <1>1. IInv => DetectsBurst
    <2> SUFFICES ASSUME IInv, pc = "checked", NEW n \in 0 .. 8 * Len(buf),
                        Places(Len(buf), flipped) \subseteq n .. n + 15
                 PROVE  accepted <=> flipped = {}
      BY DEF DetectsBurst, Burst
    <2> DEFINE S == Places(Len(buf), flipped)
    <2>1. n \in Nat /\ S \in SUBSET (n .. n + 15)
      BY DEF IInv, TypeOK
    <2>2. accepted <=> Remainder(S) = {}
      BY DEF IInv, ExactVerdict
    <2>3. S = {} <=> flipped = {}
      BY DEF Places
    <2> HIDE DEF S
    <2>4. Remainder(S) = {} <=> S = {}
      BY <2>1, BurstIs, RemainderOne
    <2> QED BY <2>2, <2>3, <2>4
  <1> QED BY <1>1, InductiveInvariant, PTL
-----------------------------------------------------------------------------
(* What is not found: fill_crc stores the high byte first, so that the     *)
(* bits at the edge of the data and the CRC are not powers of x in a row.  *)

AcrossEdge(size) == {<<size - 2, 6>>, <<size - 2, 7>>, <<size - 1, 4>>, <<size - 1, 6>>}

(* 0x8005 divides what the last two bits of the data and two of the high   *)
(* byte of the CRC stand for.                                              *)
LEMMA EdgeIs ==
  ASSUME CRC16_GENERATOR = {0, 2, 15}, NEW size \in Nat, size >= 3
  PROVE  Remainder(Places(size, AcrossEdge(size))) = {}
  <1>1. Places(size, AcrossEdge(size)) = {16, 17, 1, 3}
    <2>1. /\ Place(size, <<size - 2, 6>>) = 17
          /\ Place(size, <<size - 2, 7>>) = 16
          /\ Place(size, <<size - 1, 4>>) = 3
          /\ Place(size, <<size - 1, 6>>) = 1
      BY DEF Place
    <2> QED BY <2>1 DEF Places, AcrossEdge
  <1>2. Power[16] = {0, 2, 15}
    <2>1. Power[16] = TimesX({15})
      <3>1. Power[15 + 1] = TimesX(Power[15])
        BY PowerDef
      <3> QED BY <3>1, PowerSmall
    <2>2. {i + 1 : i \in {15}} = {16}
      OBVIOUS
    <2> QED BY <2>1, <2>2 DEF TimesX, Xor
  <1>3. Power[17] = {0, 1, 2, 3, 15}
    <2>1. Power[16 + 1] = TimesX(Power[16])
      BY PowerDef
    <2>2. {i + 1 : i \in {0, 2, 15}} = {1, 3, 16}
      OBVIOUS
    <2>3. TimesX({0, 2, 15}) = Xor({1, 3, 16} \ {16}, CRC16_GENERATOR)
      BY <2>2 DEF TimesX
    <2>4. {1, 3, 16} \ {16} = {1, 3}
      OBVIOUS
    <2>5. Xor({1, 3}, {0, 2, 15}) = {0, 1, 2, 3, 15}
      BY DEF Xor
    <2> QED BY <1>2, <2>1, <2>3, <2>4, <2>5
  <1>4. IsFiniteSet({16}) /\ IsFiniteSet({17}) /\ IsFiniteSet({1, 3})
    <2>1. IsFiniteSet({16}) /\ IsFiniteSet({17})
      BY FS_Singleton
    <2>2. {1, 3} \in SUBSET (0 .. 15)
      OBVIOUS
    <2> QED BY <2>1, <2>2, RegisterFinite
  <1>5. {16, 17, 1, 3} = Xor(Xor({16}, {17}), {1, 3})
    BY DEF Xor
  <1>6. IsFiniteSet(Xor({16}, {17})) /\ Remainder(Xor({16}, {17})) = Xor(Power[16], Power[17])
    BY <1>4, OddXor, RemainderXor, RemainderOne
  <1>7. Xor(Power[16], Power[17]) = {1, 3}
    BY <1>2, <1>3 DEF Xor
  <1>8. Remainder({1, 3}) = {1, 3}
    BY RemainderSmall
  <1>9. Remainder({16, 17, 1, 3}) = Xor({1, 3}, {1, 3})
    BY <1>4, <1>5, <1>6, <1>7, <1>8, RemainderXor
  <1> QED BY <1>1, <1>9 DEF Xor

(* Four bits, at most nine bits apart, across the edge of the data and the *)
(* CRC go unnoticed with the generator 0x8005, whatever the packet.        *)
THEOREM EdgeMissed ==
  ASSUME CRC16_GENERATOR = {0, 2, 15}
  PROVE  Spec => [](pc = "checked" /\ Len(buf) >= 3 /\ flipped = AcrossEdge(Len(buf))
                        => accepted)
  <1>1. IInv => (pc = "checked" /\ Len(buf) >= 3 /\ flipped = AcrossEdge(Len(buf)) => accepted)
    BY EdgeIs DEF IInv, TypeOK, ExactVerdict
  <1> QED BY <1>1, InductiveInvariant, PTL
=============================================================================
