---------------------------- MODULE NumberLemmas ----------------------------
(***************************************************************************)
(* What the proofs need of the natural numbers: extremes of sets, and      *)
(* induction for a set of numbers.                                         *)
(***************************************************************************)
EXTENDS Integers, WellFoundedInduction, TLAPS

(* A non-empty set of naturals has a least element, and a bounded one a     *)
(* greatest.                                                                *)
LEMMA NatLeast ==
    ASSUME NEW T \in SUBSET Nat, T # {}
    PROVE  \E x \in T : \A y \in T : x <= y
<1> DEFINE R == OpToRel(<, Nat)
<1>1. IsWellFoundedOn(R, Nat)
  BY NatLessThanWellFounded
<1>2. \A x, y \in Nat : y < x => <<y, x>> \in R
  BY Zenon DEF OpToRel
<1> HIDE DEF R
<1>3. \E x \in T : \A y \in T : ~ (<<y, x>> \in R)
  BY <1>1, WFMin
<1>4. \E x \in T : \A y \in T : ~(y < x)
  BY <1>2, <1>3, Zenon
<1> QED
  BY <1>4

LEMMA NatGreatest ==
    ASSUME NEW T \in SUBSET Nat, T # {}, NEW n \in Nat, \A x \in T : x <= n
    PROVE  \E x \in T : \A y \in T : y <= x
<1> DEFINE U == {k \in Nat : \A x \in T : x <= k}
<1>1. PICK k \in U : \A y \in U : k <= y
  <2>1. U \in SUBSET Nat /\ U # {}
    OBVIOUS
  <2> HIDE DEF U
  <2> QED
    BY <2>1, NatLeast
<1>2. k \in T
  <2>1. SUFFICES ASSUME k \notin T PROVE FALSE
    OBVIOUS
  <2>2. \A x \in T : x < k
    BY <1>1, <2>1
  <2>3. k - 1 \in Nat
    <3>1. PICK x \in T : x < k
      BY <2>2
    <3>2. x \in Nat /\ k \in Nat
      BY <1>1
    <3> QED
      BY <3>1, <3>2
  <2>4. k - 1 \in U
    BY <2>2, <2>3
  <2> QED
    BY <1>1, <2>3, <2>4
<1> QED
  BY <1>1, <1>2

(* What holds of 0 and of the successor of each number it holds of, holds   *)
(* of all up to n: induction for a set of numbers.                          *)
LEMMA UpTo ==
    ASSUME NEW S, NEW n \in Nat, 0 \in S, \A m \in 1..n : m - 1 \in S => m \in S
    PROVE  0..n \subseteq S
<1> DEFINE T == {m \in 0..n : m \notin S}
<1>1. SUFFICES ASSUME T # {} PROVE FALSE
  OBVIOUS
<1>2. PICK m \in T : \A k \in T : m <= k
  <2>1. T \in SUBSET Nat
    OBVIOUS
  <2> HIDE DEF T
  <2> QED
    BY <1>1, <2>1, NatLeast
<1>3. m \in 1..n /\ m - 1 \in 0..n
  OBVIOUS
<1>4. m - 1 \notin T
  BY <1>2, <1>3
<1> QED
  BY <1>3, <1>4

(* A recursion over the numbers up to n has a solution.                     *)
IsRecursion(n, V, base, step, f) ==
    f \in [0..n -> V] /\ f[0] = base /\ \A m \in 1..n : f[m] = step[m][f[m - 1]]

LEMMA RecursionExists ==
    ASSUME NEW n \in Nat, NEW V, NEW base \in V, NEW step \in [1..n -> [V -> V]]
    PROVE  \E f : IsRecursion(n, V, base, step, f)
<1> DEFINE S == {k \in 0..n : \E h \in [0..k -> V] :
                    h[0] = base /\ \A m \in 1..k : h[m] = step[m][h[m - 1]]}
<1>1. 0 \in S
  <2> DEFINE f == [k \in 0..0 |-> base]
  <2>1. f \in [0..0 -> V] /\ f[0] = base /\ \A m \in 1..0 : f[m] = step[m][f[m - 1]]
    OBVIOUS
  <2> HIDE DEF f
  <2>2. \E g \in [0..0 -> V] : g[0] = base /\ \A m \in 1..0 : g[m] = step[m][g[m - 1]]
    BY <2>1
  <2> QED
    BY <2>2
<1>2. ASSUME NEW k \in 1..n, k - 1 \in S PROVE k \in S
  <2>1. PICK f \in [0..(k - 1) -> V] : f[0] = base /\ \A m \in 1..(k - 1) : f[m] = step[m][f[m - 1]]
    BY <1>2
  <2> DEFINE g == [m \in 0..k |-> IF m = k THEN step[k][f[k - 1]] ELSE f[m]]
  <2>2. f[k - 1] \in V
    BY <2>1
  <2>3. step[k][f[k - 1]] \in V
    BY <2>2
  <2>4. g \in [0..k -> V] /\ g[0] = base
    BY <2>1, <2>3
  <2>5. \A m \in 1..k : g[m] = step[m][g[m - 1]]
    BY <2>1
  <2> HIDE DEF g
  <2>6. \E h \in [0..k -> V] : h[0] = base /\ \A m \in 1..k : h[m] = step[m][h[m - 1]]
    BY <2>4, <2>5
  <2>7. k \in 0..n
    OBVIOUS
  <2> QED
    BY <2>6, <2>7, Zenon
<1>3. n \in S
  <2> HIDE DEF S
  <2>1. 0..n \subseteq S
    BY <1>1, <1>2, UpTo
  <2> QED
    BY <2>1
<1>4. PICK h \in [0..n -> V] : h[0] = base /\ \A m \in 1..n : h[m] = step[m][h[m - 1]]
  BY <1>3
<1> QED
  BY <1>4 DEF IsRecursion
=============================================================================
