-------------------------------- MODULE Loops --------------------------------
(***************************************************************************)
(* Counting loops, for proofs about them.  A model writes                  *)
(*    for (i = 0; i < k; i++) s = F(s, i)                                  *)
(* as a function acc on 0 .. k with acc[0] the state before the loop and   *)
(* acc[n] = F(acc[n - 1], n - 1).  TLA+ makes that a CHOOSE; the lemmas    *)
(* here give what a proof needs: such a function exists, and what every    *)
(* round keeps holds at the end.                                           *)
(***************************************************************************)
EXTENDS Integers, WellFoundedInduction, TLAPS

\* Every set of natural numbers has a least one.
LEMMA LeastNumber ==
    ASSUME NEW T \in SUBSET Nat, T # {}
    PROVE  \E x \in T : \A y \in T : x =< y
<1> DEFINE R == OpToRel(<, Nat)
<1>1. IsWellFoundedOn(R, Nat)
  BY NatLessThanWellFounded
<1>2. \A x, y \in Nat : x < y <=> <<x, y>> \in R
  BY DEF OpToRel
<1> HIDE DEF R
<1>3. \E x \in T : \A y \in T : ~(<<y, x>> \in R)
  BY <1>1, WFMin
<1>4. PICK x \in T : \A y \in T : ~(<<y, x>> \in R)
  BY <1>3
<1>5. \A y \in T : ~(y < x)
  BY <1>2, <1>4
<1>6. QED
  BY <1>5

\* Induction, for a set in place of a predicate.
LEMMA SetInduction ==
    ASSUME NEW S, 0 \in S, \A n \in Nat : n \in S => n + 1 \in S
    PROVE  Nat \subseteq S
<1> SUFFICES ASSUME Nat \ S # {} PROVE FALSE
  OBVIOUS
<1>1. PICK x \in Nat \ S : \A y \in Nat \ S : x =< y
  BY LeastNumber
<1>2. x # 0 /\ x - 1 \in Nat /\ x - 1 \in S
  BY <1>1
<1>3. QED
  BY <1>1, <1>2

\* Round i of a loop leads from state x in S to F[x, i] in S.
Rounds(F, S, k) == \A x \in S : \A i \in 0 .. k - 1 : F[<<x, i>>] \in S

\* The states the loop goes through.
Passes(F, S, k, s0) ==
    {g \in [0 .. k -> S] : g[0] = s0 /\ \A n \in 1 .. k : g[n] = F[<<g[n - 1], n - 1>>]}

\* A loop can be run.
LEMMA LoopExists ==
    ASSUME NEW S, NEW s0 \in S, NEW k \in Nat, NEW F, Rounds(F, S, k)
    PROVE  Passes(F, S, k, s0) # {}
<1> USE DEF Rounds, Passes
<1> DEFINE Runs(n, g) == g[0] = s0 /\ \A i \in 1 .. n : g[i] = F[<<g[i - 1], i - 1>>]
           T == {n \in Nat : n =< k => \E g \in [0 .. n -> S] : Runs(n, g)}
<1>1. 0 \in T
  <2>1. [i \in 0 .. 0 |-> s0] \in [0 .. 0 -> S] /\ Runs(0, [i \in 0 .. 0 |-> s0])
    OBVIOUS
  <2>2. QED
    BY <2>1
<1>2. ASSUME NEW n \in Nat, n \in T PROVE n + 1 \in T
  <2> SUFFICES ASSUME n + 1 =< k PROVE \E g \in [0 .. n + 1 -> S] : Runs(n + 1, g)
    OBVIOUS
  <2>1. PICK f \in [0 .. n -> S] : Runs(n, f)
    BY <1>2
  <2>2. F[<<f[n], n>>] \in S
    OBVIOUS
  <2>3. DEFINE g == [i \in 0 .. n + 1 |-> IF i = n + 1 THEN F[<<f[n], n>>] ELSE f[i]]
  <2>4. g \in [0 .. n + 1 -> S]
    BY <2>2
  <2>5. g[0] = s0
    BY <2>1
  <2>6. ASSUME NEW i \in 1 .. n + 1 PROVE g[i] = F[<<g[i - 1], i - 1>>]
    <3>1. CASE i = n + 1
      <4>1. g[i] = F[<<f[n], n>>] /\ i - 1 = n /\ g[i - 1] = f[n]
        BY <3>1
      <4>2. QED
        BY <4>1
    <3>2. CASE i \in 1 .. n
      <4>1. g[i] = f[i] /\ g[i - 1] = f[i - 1]
        BY <3>2
      <4>2. QED
        BY <2>1, <3>2, <4>1
    <3>3. QED
      BY <3>1, <3>2
  <2> HIDE DEF g
  <2>7. QED
    BY <2>4, <2>5, <2>6
<1>3. k \in T
  <2> HIDE DEF T
  <2>1. QED
    BY <1>1, <1>2, SetInduction
<1>4. QED
  BY <1>3

\* What holds before a loop and is kept by every round holds after it.
LEMMA LoopStays ==
    ASSUME NEW S, NEW k \in Nat, NEW g, g[0] \in S,
           \A n \in 1 .. k : g[n - 1] \in S => g[n] \in S
    PROVE  g[k] \in S
<1> DEFINE T == {n \in Nat : n =< k => g[n] \in S}
<1>1. 0 \in T
  OBVIOUS
<1>2. ASSUME NEW n \in Nat, n \in T PROVE n + 1 \in T
  BY <1>2
<1> HIDE DEF T
<1>3. k \in T
  BY <1>1, <1>2, SetInduction
<1>4. QED
  BY <1>3 DEF T

\* The same for what depends on the number of rounds: S[n] after n of them.
LEMMA LoopCounts ==
    ASSUME NEW S, NEW k \in Nat, NEW g, g[0] \in S[0],
           \A n \in 1 .. k : g[n - 1] \in S[n - 1] => g[n] \in S[n]
    PROVE  g[k] \in S[k]
<1> DEFINE T == {n \in Nat : n =< k => g[n] \in S[n]}
<1>1. 0 \in T
  OBVIOUS
<1>2. ASSUME NEW n \in Nat, n \in T PROVE n + 1 \in T
  <2> SUFFICES ASSUME n + 1 =< k PROVE g[n + 1] \in S[n + 1]
    OBVIOUS
  <2>1. n + 1 \in 1 .. k /\ (n + 1) - 1 = n /\ g[n] \in S[n]
    BY <1>2
  <2>2. QED
    BY <2>1
<1> HIDE DEF T
<1>3. k \in T
  BY <1>1, <1>2, SetInduction
<1>4. QED
  BY <1>3 DEF T
=============================================================================
