------------------------------ MODULE Induction ------------------------------
(***************************************************************************)
(* Induction over the natural numbers, and what it gives: functions that   *)
(* are defined by recursion exist, and a fold computes what its step says.  *)
(*                                                                         *)
(* The facts are stated about sets and functions instead of predicates and *)
(* operators: a proof by induction on n of P(n) names the set of the n of  *)
(* which P(n) holds.                                                       *)
(***************************************************************************)
EXTENDS Integers, FiniteSetTheorems, FiniteSetsExt, TLAPS

(* A set of numbers that holds 0 and the successor of each of its numbers   *)
(* holds them all: otherwise, with n not in it, the successor would map the *)
(* part of it below n into less than itself, one to one.                   *)
LEMMA SetInduction ==
  ASSUME NEW S, 0 \in S, \A n \in Nat : n \in S => n + 1 \in S
  PROVE  Nat \subseteq S
<1> SUFFICES ASSUME NEW n \in Nat, n \notin S PROVE FALSE
  OBVIOUS
<1> DEFINE T == {k \in 0 .. n : k \in S}
           f == [k \in T |-> k + 1]
<1>1. IsFiniteSet(T)
  <2>1. IsFiniteSet(0 .. n)
    BY FS_Interval
  <2> QED BY <2>1, FS_Subset
<1>2. 0 \in T /\ Cardinality(T) \in Nat
  BY <1>1, FS_CardinalityType
<1>3. IsFiniteSet(T \ {0}) /\ Cardinality(T \ {0}) = Cardinality(T) - 1
  BY <1>1, <1>2, FS_RemoveElement
<1>4. f \in [T -> T \ {0}]
  <2> SUFFICES ASSUME NEW k \in T PROVE k + 1 \in T \ {0}
    OBVIOUS
  <2>1. k \in Nat /\ k + 1 \in S
    OBVIOUS
  <2>2. k # n
    OBVIOUS
  <2> QED BY <2>1, <2>2
<1>5. \A j, k \in T : f[j] = f[k] => j = k
  OBVIOUS
<1> HIDE DEF T, f
<1>6. Cardinality(T \ {0}) < Cardinality(T)
  BY <1>2, <1>3
<1> QED BY <1>1, <1>3, <1>4, <1>5, <1>6, FS_PigeonHole

(* The same up to a bound. *)
LEMMA BoundedInduction ==
  ASSUME NEW n \in Nat, NEW S, 0 \in S,
         \A i \in 0 .. n - 1 : i \in S => i + 1 \in S
  PROVE  0 .. n \subseteq S
<1> DEFINE T == {i \in Nat : i <= n => i \in S}
<1>1. Nat \subseteq T
  <2>1. 0 \in T
    OBVIOUS
  <2>2. \A i \in Nat : i \in T => i + 1 \in T
    OBVIOUS
  <2> HIDE DEF T
  <2> QED BY <2>1, <2>2, SetInduction
<1> QED BY <1>1
-----------------------------------------------------------------------------
(* A function defined by recursion on an index exists, and so the recursive *)
(* definition says what it seems to say.                                   *)
Recurs(n, a, step, f) == f[0] = a /\ \A i \in 1 .. n : f[i] = step[i][f[i - 1]]

LEMMA RecursionExists ==
  ASSUME NEW n \in Nat, NEW X, NEW a \in X, NEW step \in [1 .. n -> [X -> X]]
  PROVE  \E f \in [0 .. n -> X] : Recurs(n, a, step, f)
<1> DEFINE Upto(m, f) == f[0] = a /\ \A i \in 1 .. m : f[i] = step[i][f[i - 1]]
           S == {m \in 0 .. n : \E f \in [0 .. n -> X] : Upto(m, f)}
<1>1. 0 \in S
  <2> DEFINE f == [i \in 0 .. n |-> a]
  <2>1. f \in [0 .. n -> X] /\ Upto(0, f)
    OBVIOUS
  <2> HIDE DEF f, Upto
  <2> QED BY <2>1
<1>2. ASSUME NEW m \in 0 .. n - 1, m \in S PROVE m + 1 \in S
  <2>1. PICK f \in [0 .. n -> X] : Upto(m, f)
    BY <1>2
  <2> DEFINE g == [f EXCEPT ![m + 1] = step[m + 1][f[m]]]
  <2>2. step[m + 1][f[m]] \in X /\ m + 1 \in 0 .. n
    OBVIOUS
  <2>3. /\ g \in [0 .. n -> X] /\ g[m + 1] = step[m + 1][f[m]]
        /\ \A i \in 0 .. m : g[i] = f[i]
    BY <2>2
  <2> HIDE DEF g
  <2>4. Upto(m + 1, g)
    <3>1. g[0] = a
      BY <2>1, <2>3
    <3>2. ASSUME NEW i \in 1 .. m + 1 PROVE g[i] = step[i][g[i - 1]]
      <4>1. CASE i = m + 1
        BY <2>3, <4>1
      <4>2. CASE i # m + 1
        BY <2>1, <2>3, <4>2
      <4> QED BY <4>1, <4>2
    <3> QED BY <3>1, <3>2
  <2> QED BY <2>2, <2>3, <2>4
<1> HIDE DEF S
<1>3. n \in S
  <2>1. \A m \in 0 .. n - 1 : m \in S => m + 1 \in S
    BY <1>2
  <2>2. 0 .. n \subseteq S
    BY <1>1, <2>1, BoundedInduction
  <2> QED BY <2>2
<1>4. PICK f \in [0 .. n -> X] : Upto(n, f)
  BY <1>3 DEF S
<1> QED BY <1>4 DEF Recurs

(* The iteration by which the community modules define FoldLeft: over the   *)
(* sets of indices, each time taking the largest away.                     *)
LEMMA LargestIndex ==
  ASSUME NEW k \in Nat \ {0}
  PROVE  Max(1 .. k) = k /\ (1 .. k) \ {k} = 1 .. k - 1 /\ 1 .. k # {}
<1>1. k \in 1 .. k /\ \A y \in 1 .. k : k >= y
  OBVIOUS
<1>2. Max(1 .. k) \in 1 .. k /\ \A y \in 1 .. k : Max(1 .. k) >= y
  BY <1>1 DEF Max
<1> QED BY <1>1, <1>2

(* A set of indices that is not empty has a largest one. *)
LEMMA LargestOfSet ==
  ASSUME NEW n \in Nat, NEW s \in SUBSET (1 .. n), s # {}
  PROVE  Max(s) \in s /\ \A y \in s : y <= Max(s)
<1> DEFINE S == {k \in 0 .. n : \A t \in SUBSET (1 .. k) :
                    t # {} => \E x \in t : \A y \in t : x >= y}
<1>1. 0 \in S
  <2> SUFFICES ASSUME NEW t \in SUBSET (1 .. 0), t # {}
               PROVE  \E x \in t : \A y \in t : x >= y
    OBVIOUS
  <2>1. PICK x \in t : TRUE
    OBVIOUS
  <2> QED BY <2>1
<1>2. ASSUME NEW k \in 0 .. n - 1, k \in S PROVE k + 1 \in S
  <2> SUFFICES ASSUME NEW t \in SUBSET (1 .. k + 1), t # {}
               PROVE  \E x \in t : \A y \in t : x >= y
    OBVIOUS
  <2>1. CASE k + 1 \in t
    BY <2>1
  <2>2. CASE k + 1 \notin t
    <3>1. t \in SUBSET (1 .. k)
      BY <2>2
    <3> QED BY <1>2, <3>1
  <2> QED BY <2>1, <2>2
<1>3. n \in S
  <2> HIDE DEF S
  <2>1. \A k \in 0 .. n - 1 : k \in S => k + 1 \in S
    BY <1>2
  <2>2. 0 .. n \subseteq S
    BY <1>1, <2>1, BoundedInduction
  <2> QED BY <2>2
<1>4. \E x \in s : \A y \in s : x >= y
  BY <1>3
<1>5. Max(s) \in s /\ \A y \in s : Max(s) >= y
  BY <1>4 DEF Max
<1> QED BY <1>5

(* A set of numbers that is not empty has a least one. *)
LEMMA LeastOfSet ==
  ASSUME NEW T \in SUBSET Nat, T # {}
  PROVE  Min(T) \in T /\ \A y \in T : Min(T) <= y
<1> DEFINE S == {n \in Nat : \A k \in 0 .. n : k \notin T}
<1>1. ASSUME \A x \in T : \E y \in T : ~(x <= y) PROVE FALSE
  <2>1. 0 \in S
    <3>1. 0 \notin T
      <4> SUFFICES ASSUME 0 \in T PROVE FALSE
        OBVIOUS
      <4>1. PICK y \in T : ~(0 <= y)
        BY <1>1
      <4> QED BY <4>1
    <3> QED BY <3>1
  <2>2. ASSUME NEW n \in Nat, n \in S PROVE n + 1 \in S
    <3>1. n + 1 \notin T
      <4> SUFFICES ASSUME n + 1 \in T PROVE FALSE
        OBVIOUS
      <4>1. PICK y \in T : ~(n + 1 <= y)
        BY <1>1
      <4>2. y \in 0 .. n
        BY <4>1
      <4> QED BY <2>2, <4>1, <4>2
    <3> QED BY <2>2, <3>1
  <2>3. Nat \subseteq S
    <3> HIDE DEF S
    <3> QED BY <2>1, <2>2, SetInduction
  <2>4. PICK x \in T : TRUE
    OBVIOUS
  <2>5. x \in S /\ x \in 0 .. x
    BY <2>3
  <2> QED BY <2>5
<1>2. \E x \in T : \A y \in T : x <= y
  BY <1>1
<1> QED BY <1>2 DEF Min

(* What the fold of the community modules computes on the way: a on no      *)
(* index, and on a set of indices the step of its largest one after the    *)
(* others.                                                                 *)
Iterates(n, a, step, iter) ==
  /\ iter[{}] = a
  /\ \A s \in SUBSET (1 .. n) : s # {} => iter[s] = step[Max(s)][iter[s \ {Max(s)}]]

(* Such an iteration exists whatever the steps are, so that a fold over a   *)
(* sequence is its steps one after the other.                              *)
LEMMA IterationExists ==
  ASSUME NEW n \in Nat, NEW X, NEW a \in X, NEW step \in [1 .. n -> [X -> X]]
  PROVE  \E iter \in [SUBSET (1 .. n) -> X] : Iterates(n, a, step, iter)
<1> DEFINE D == SUBSET (1 .. n)
           Upto(m, f) == /\ f[{}] = a
                         /\ \A s \in D : s # {} /\ s \subseteq 1 .. m =>
                              f[s] = step[Max(s)][f[s \ {Max(s)}]]
           S == {m \in 0 .. n : \E f \in [D -> X] : Upto(m, f)}
<1>1. 0 \in S
  <2> DEFINE f == [s \in D |-> a]
  <2>1. f \in [D -> X] /\ Upto(0, f)
    <3>1. f \in [D -> X] /\ f[{}] = a
      OBVIOUS
    <3>2. ASSUME NEW s \in D, s # {}, s \subseteq 1 .. 0 PROVE FALSE
      <4>1. PICK x \in s : TRUE
        BY <3>2
      <4> QED BY <3>2, <4>1
    <3> HIDE DEF f
    <3> QED BY <3>1, <3>2
  <2> HIDE DEF f, Upto
  <2> QED BY <2>1
<1>2. ASSUME NEW m \in 0 .. n - 1, m \in S PROVE m + 1 \in S
  <2>1. PICK f \in [D -> X] : Upto(m, f)
    BY <1>2
  <2> DEFINE New(s) == s # {} /\ s \subseteq 1 .. m + 1 /\ m + 1 \in s
             g == [s \in D |-> IF New(s) THEN step[m + 1][f[s \ {m + 1}]] ELSE f[s]]
  <2>2. g \in [D -> X]
    <3>1. ASSUME NEW s \in D PROVE s \ {m + 1} \in D
      <4>1. s \ {m + 1} \subseteq s
        OBVIOUS
      <4> QED BY <4>1, Zenon
    <3>2. m + 1 \in 1 .. n /\ step[m + 1] \in [X -> X]
      OBVIOUS
    <3> HIDE DEF D, New
    <3>3. \A s \in D : f[s] \in X /\ f[s \ {m + 1}] \in X
      BY <3>1
    <3> QED BY <3>2, <3>3
  <2>3. g[{}] = a
    BY <2>1
  <2>4. ASSUME NEW s \in D, s # {}, s \subseteq 1 .. m + 1
        PROVE  g[s] = step[Max(s)][g[s \ {Max(s)}]]
    <3>1. Max(s) \in s /\ (\A y \in s : y <= Max(s)) /\ s \ {Max(s)} \in D
      BY <2>4, LargestOfSet
    <3>2. CASE m + 1 \in s
      <4>1. Max(s) = m + 1
        <5>1. Max(s) \in 1 .. m + 1 /\ m + 1 <= Max(s)
          BY <2>4, <3>1, <3>2
        <5> QED BY <5>1
      <4>2. g[s] = step[m + 1][f[s \ {m + 1}]]
        BY <2>4, <3>2
      <4>3. g[s \ {m + 1}] = f[s \ {m + 1}]
        BY <3>1, <4>1
      <4> QED BY <4>1, <4>2, <4>3
    <3>3. CASE m + 1 \notin s
      <4>1. s \subseteq 1 .. m /\ m + 1 \notin s \ {Max(s)}
        BY <2>4, <3>3
      <4>2. g[s] = f[s] /\ g[s \ {Max(s)}] = f[s \ {Max(s)}]
        BY <3>1, <3>3
      <4> QED BY <2>1, <2>4, <4>1, <4>2
    <3> QED BY <3>2, <3>3
  <2> HIDE DEF g
  <2>5. Upto(m + 1, g)
    BY <2>3, <2>4
  <2> HIDE DEF Upto, D
  <2> QED BY <2>2, <2>5
<1>3. n \in S
  <2> HIDE DEF S
  <2>1. \A m \in 0 .. n - 1 : m \in S => m + 1 \in S
    BY <1>2
  <2>2. 0 .. n \subseteq S
    BY <1>1, <2>1, BoundedInduction
  <2> QED BY <2>2
<1>4. PICK f \in [D -> X] : Upto(n, f)
  BY <1>3
<1>5. \A s \in D : s # {} => f[s] = step[Max(s)][f[s \ {Max(s)}]]
  BY <1>4
<1> QED BY <1>4, <1>5 DEF Iterates
=============================================================================
