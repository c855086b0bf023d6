----------------------------- MODULE Recursion -----------------------------
(***************************************************************************)
(* Induction over the naturals, with sets in place of predicates, and the  *)
(* existence of the functions that loops are modelled with: defined at 0,  *)
(* and from n - 1 at n.                                                    *)
(***************************************************************************)
EXTENDS WellFoundedInduction, TLAPS

\* A set of naturals that is not empty has a least element.
LEMMA LeastNat ==
  ASSUME NEW S \in SUBSET Nat, S # {}
  PROVE  \E n \in S : \A m \in S : n <= m
  <1> DEFINE R == {p \in Nat \X Nat : p[1] < p[2]}
  <1>1. IsWellFoundedOn(R, Nat)
    BY NatLessThanWellFounded DEF OpToRel
  <1>2. PICK n \in S : \A m \in S : <<m, n>> \notin R
    <2> HIDE DEF R
    <2> QED
      BY <1>1, WFMin
  <1>3. \A m \in S : ~ (m < n)
    BY <1>2
  <1> QED
    BY <1>3

\* Induction: what holds of 0, and of n + 1 whenever it holds of n, holds of
\* every natural.
LEMMA Induction ==
  ASSUME NEW S, 0 \in S, \A n \in Nat : n \in S => n + 1 \in S
  PROVE  \A n \in Nat : n \in S
  <1> SUFFICES ASSUME Nat \ S # {} PROVE FALSE
    OBVIOUS
  <1>1. PICK n \in Nat \ S : \A m \in Nat \ S : n <= m
    BY LeastNat
  <1>2. n # 0 /\ n - 1 \in Nat
    BY <1>1
  <1>3. n - 1 \in S
    BY <1>1, <1>2
  <1>4. (n - 1) + 1 \in S
    BY <1>2, <1>3
  <1> QED
    BY <1>1, <1>4

\* A set of naturals with a bound that is not empty has a greatest element.
LEMMA Greatest ==
  ASSUME NEW n \in Nat, NEW S \in SUBSET (0 .. n), S # {}
  PROVE  \E m \in S : \A k \in S : k <= m
  <1> DEFINE T == {n - m : m \in S}
  <1>1. T \in SUBSET Nat /\ T # {}
    <2>1. \A m \in S : n - m \in Nat
      OBVIOUS
    <2> QED
      BY <2>1
  <1>2. PICK d \in T : \A e \in T : d <= e
    <2> HIDE DEF T
    <2> QED
      BY <1>1, LeastNat
  <1>3. PICK m \in S : d = n - m
    BY <1>2
  <1>4. ASSUME NEW k \in S PROVE k <= m
    <2>1. n - m <= n - k
      BY <1>2, <1>3
    <2>2. k \in Int /\ m \in Int
      OBVIOUS
    <2> QED
      BY <2>1, <2>2
  <1> QED
    BY <1>4

\* f is what a loop of size steps computes, step by step.
Loops(f, size, base, step) ==
    f = [n \in 0 .. size |-> IF n = 0 THEN base ELSE step[n][f[n - 1]]]

\* Every step of the loop stays in S.
StaysIn(S, size, step) == \A n \in 1 .. size : \A x \in S : step[n][x] \in S

\* There is such a function, and its values stay where the steps stay.
LEMMA RecursiveFunction ==
  ASSUME NEW size \in Nat, NEW S, NEW base \in S, NEW step, StaysIn(S, size, step)
  PROVE  \E f : Loops(f, size, base, step) /\ \A n \in 0 .. size : f[n] \in S
  <1> DEFINE Upto(m) == \E f \in [0 .. m -> S] :
                          f[0] = base /\ \A n \in 1 .. m : f[n] = step[n][f[n - 1]]
             Good == {m \in Nat : m <= size => Upto(m)}
  <1>1. 0 \in Good
    <2>1. [i \in 0 .. 0 |-> base] \in [0 .. 0 -> S] /\ [i \in 0 .. 0 |-> base][0] = base
      OBVIOUS
    <2>2. 1 .. 0 = {}
      OBVIOUS
    <2> QED
      BY <2>1, <2>2
  <1>2. ASSUME NEW m \in Nat, m \in Good PROVE m + 1 \in Good
    <2> SUFFICES ASSUME m + 1 <= size PROVE Upto(m + 1)
      OBVIOUS
    <2>1. PICK f \in [0 .. m -> S] : f[0] = base /\ \A n \in 1 .. m : f[n] = step[n][f[n - 1]]
      BY <1>2
    <2> DEFINE next == step[m + 1][f[m]]
               g == [i \in 0 .. m + 1 |-> IF i = m + 1 THEN next ELSE f[i]]
    <2>2. next \in S
      <3>1. f[m] \in S /\ m + 1 \in 1 .. size
        BY <2>1
      <3> QED
        BY <3>1 DEF StaysIn
    <2>3. g \in [0 .. m + 1 -> S]
      <3> HIDE DEF next
      <3> QED
        BY <2>1, <2>2
    <2>4. \A i \in 0 .. m : g[i] = f[i]
      <3> HIDE DEF next
      <3> QED
        BY <2>1
    <2>5. g[m + 1] = step[m + 1][g[m]]
      BY <2>4
    <2>6. ASSUME NEW n \in 1 .. m + 1 PROVE g[n] = step[n][g[n - 1]]
      <3>1. CASE n = m + 1
        <4>1. n - 1 = m
          BY <3>1
        <4> HIDE DEF g
        <4> QED
          BY <4>1, <3>1, <2>5
      <3>2. CASE n # m + 1
        <4>1. n \in 1 .. m /\ n \in 0 .. m /\ n - 1 \in 0 .. m
          BY <3>2
        <4> HIDE DEF g
        <4> QED
          BY <4>1, <2>4, <2>1
      <3> QED
        BY <3>1, <3>2
    <2> HIDE DEF g
    <2> QED
      BY <2>1, <2>3, <2>4, <2>6
  <1>3. size \in Good
    <2> HIDE DEF Good
    <2> QED
      BY <1>1, <1>2, Induction
  <1>4. PICK f \in [0 .. size -> S] : f[0] = base /\ \A n \in 1 .. size : f[n] = step[n][f[n - 1]]
    BY <1>3
  <1>5. Loops(f, size, base, step)
    <2>1. \A n \in 0 .. size : n # 0 => n \in 1 .. size
      OBVIOUS
    <2> QED
      BY <1>4, <2>1 DEF Loops
  <1> QED
    BY <1>5

\* What a loop starts with and does at each step.
LEMMA LoopSteps ==
  ASSUME NEW size \in Nat, NEW base, NEW step, NEW f, Loops(f, size, base, step)
  PROVE  f[0] = base /\ \A n \in 1 .. size : f[n] = step[n][f[n - 1]]
  <1>1. 0 \in 0 .. size /\ \A n \in 1 .. size : n \in 0 .. size /\ n # 0
    OBVIOUS
  <1> QED
    BY <1>1 DEF Loops
=============================================================================
