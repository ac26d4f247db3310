------------------------------- MODULE Recursion -------------------------------
(***************************************************************************)
(* Induction and recursion over the natural numbers, as the proofs of the  *)
(* other modules need them: induction says that a set which contains 0     *)
(* and the successor of each of its numbers contains all, and recursion    *)
(* that a function given by its first value and by the step from a value   *)
(* to the next exists.                                                     *)
(***************************************************************************)
EXTENDS Integers, WellFoundedInduction, TLAPS

(* A set of numbers that is not empty has a least one. *)
LEMMA Least ==
  ASSUME NEW T \in SUBSET Nat, T # {}
  PROVE  \E n \in T : \A m \in T : ~(m < n)
  <1>1. PICK n \in T : \A m \in T : <<m, n>> \notin OpToRel(<, Nat)
    BY NatLessThanWellFounded, WFMin
  <1>2. ASSUME NEW m \in T PROVE ~(m < n)
    <2>1. ASSUME m < n PROVE <<m, n>> \in OpToRel(<, Nat)
      BY <2>1 DEF OpToRel
    <2> QED BY <2>1, <1>1
  <1> QED BY <1>2

(* Induction on a set of numbers. *)
LEMMA Induct ==
  ASSUME NEW S, 0 \in S, \A n \in Nat : n \in S => n + 1 \in S
  PROVE  Nat \subseteq S
  <1>1. ASSUME Nat \ S # {} PROVE FALSE
    <2>1. PICK n \in Nat \ S : \A m \in Nat \ S : ~(m < n)
      BY <1>1, Least
    <2>2. n # 0
      OBVIOUS
    <2>3. n - 1 \in Nat /\ n - 1 < n /\ (n - 1) + 1 = n
      BY <2>2
    <2>4. n - 1 \in S
      BY <2>1, <2>3
    <2> QED BY <2>3, <2>4
  <1> QED BY <1>1

-----------------------------------------------------------------------------
(* Recursion: a function of the numbers is determined by its first value   *)
(* and by what makes the next value from a value.                          *)

IsRun(f, n, S, s, next) ==
    /\ f \in [0 .. n -> S]
    /\ f[0] = s
    /\ \A k \in 0 .. n - 1 : f[k + 1] = next[k][f[k]]

Follows(f, S, s, next) ==
    /\ f \in [Nat -> S]
    /\ f[0] = s
    /\ \A k \in Nat : f[k + 1] = next[k][f[k]]

(* There is such a function on every initial segment, ... *)
LEMMA RunExists ==
  ASSUME NEW S, NEW s \in S, NEW next \in [Nat -> [S -> S]], NEW n \in Nat
  PROVE  \E f : IsRun(f, n, S, s, next)
  <1> DEFINE T == {m \in Nat : \E f : IsRun(f, m, S, s, next)}
  <1>1. 0 \in T
    <2>1. IsRun([k \in 0 .. 0 |-> s], 0, S, s, next)
      BY DEF IsRun
    <2> QED BY <2>1
  <1>2. ASSUME NEW m \in Nat, m \in T PROVE m + 1 \in T
    <2>1. PICK f : IsRun(f, m, S, s, next)
      BY <1>2
    <2> DEFINE g == [k \in 0 .. m + 1 |-> IF k = m + 1 THEN next[m][f[m]] ELSE f[k]]
    <2>2. f[m] \in S /\ next[m][f[m]] \in S
      BY <2>1 DEF IsRun
    <2>3. \A k \in 0 .. m : g[k] = f[k] /\ f[k] \in S
      BY <2>1 DEF IsRun
    <2>4. g[m + 1] = next[m][f[m]]
      OBVIOUS
    <2>5. g \in [0 .. m + 1 -> S]
      BY <2>1, <2>2 DEF IsRun
    <2> HIDE DEF g
    <2>6. \A k \in 0 .. m : g[k + 1] = next[k][g[k]]
      <3> SUFFICES ASSUME NEW k \in 0 .. m PROVE g[k + 1] = next[k][g[k]]
        OBVIOUS
      <3>1. CASE k = m
        BY <3>1, <2>3, <2>4
      <3>2. CASE k # m
        BY <3>2, <2>3, <2>1 DEF IsRun
      <3> QED BY <3>1, <3>2
    <2>7. g[0] = s
      BY <2>3, <2>1 DEF IsRun
    <2>8. IsRun(g, m + 1, S, s, next)
      BY <2>5, <2>6, <2>7 DEF IsRun
    <2> QED BY <2>8
  <1> HIDE DEF T
  <1>3. n \in T
    BY <1>1, <1>2, Induct
  <1> QED BY <1>3 DEF T

(* ... two of them agree where both are defined, ... *)
LEMMA RunsAgree ==
  ASSUME NEW S, NEW s \in S, NEW next \in [Nat -> [S -> S]],
         NEW m \in Nat, NEW n \in Nat, NEW f, NEW g,
         IsRun(f, m, S, s, next), IsRun(g, n, S, s, next),
         NEW i \in Nat, i <= m, i <= n
  PROVE  f[i] = g[i]
  <1> DEFINE T == {k \in Nat : k <= m /\ k <= n => f[k] = g[k]}
  <1>1. 0 \in T
    BY DEF IsRun
  <1>2. ASSUME NEW k \in Nat, k \in T PROVE k + 1 \in T
    BY <1>2 DEF IsRun
  <1> HIDE DEF T
  <1>3. i \in T
    BY <1>1, <1>2, Induct
  <1> QED BY <1>3 DEF T

(* ... and so there is one on all numbers. *)
LEMMA RecursionExists ==
  ASSUME NEW S, NEW s \in S, NEW next \in [Nat -> [S -> S]]
  PROVE  \E f : Follows(f, S, s, next)
  <1> DEFINE run(n) == CHOOSE f : IsRun(f, n, S, s, next)
  <1>1. \A n \in Nat : IsRun(run(n), n, S, s, next)
    BY RunExists
  <1> HIDE DEF run
  <1> DEFINE h == [n \in Nat |-> run(n)[n]]
  <1>2. h \in [Nat -> S]
    BY <1>1 DEF IsRun
  <1>3. h[0] = s
    BY <1>1 DEF IsRun
  <1>4. ASSUME NEW n \in Nat PROVE h[n + 1] = next[n][h[n]]
    <2>1. run(n + 1)[n + 1] = next[n][run(n + 1)[n]]
      BY <1>1 DEF IsRun
    <2>2. run(n + 1)[n] = run(n)[n]
      BY <1>1, RunsAgree
    <2> QED BY <2>1, <2>2
  <1> HIDE DEF h
  <1>5. Follows(h, S, s, next)
    BY <1>2, <1>3, <1>4 DEF Follows
  <1> QED BY <1>5
=============================================================================
