----------------------------- MODULE Recursion -----------------------------
(***************************************************************************)
(* Induction and recursion over the naturals, stated with sets and          *)
(* functions instead of operators, so that the provers can apply them.      *)
(***************************************************************************)
EXTENDS Integers, WellFoundedInduction, TLAPS

(* A non-empty set of naturals has a least element.                         *)
LEMMA LeastElement ==
  ASSUME NEW T, T \subseteq Nat, T # {}
  PROVE  \E n \in T : \A m \in T : n <= m
<1>. DEFINE R == OpToRel(<, Nat)
<1>1. IsWellFoundedOn(R, Nat)
  BY NatLessThanWellFounded
<1>2. \A x, y \in Nat : x < y => << x, y >> \in R
  BY DEF OpToRel
<1>. HIDE DEF R
<1>3. PICK x \in T : \A y \in T : ~ (<< y, x >> \in R)
  BY <1>1, WFMin, Zenon
<1>4. \A y \in T : ~ (y < x)
  BY <1>2, <1>3
<1>. QED
  BY <1>4

(* A set that has 0 and with each number below N the next has 0 .. N.       *)
LEMMA SetInduction ==
  ASSUME NEW N \in Nat, NEW S, 0 \in S,
         \A n \in 0 .. N - 1 : n \in S => n + 1 \in S
  PROVE  \A n \in 0 .. N : n \in S
<1>. DEFINE Bad == {n \in 0 .. N : n \notin S}
<1>. SUFFICES ASSUME Bad # {} PROVE FALSE
  OBVIOUS
<1>1. Bad \subseteq Nat
  OBVIOUS
<1>2. PICK n \in Bad : \A m \in Bad : n <= m
  BY <1>1, LeastElement
<1>3. n \in 0 .. N /\ n \notin S
  OBVIOUS
<1>4. n # 0 /\ n - 1 \in 0 .. N - 1 /\ ~ (n <= n - 1) /\ n - 1 + 1 = n /\ n - 1 \in 0 .. N
  BY <1>3
<1>5. n - 1 \in S
  BY <1>2, <1>4
<1>. QED
  BY <1>3, <1>4, <1>5

(* f runs through A from a on, by the steps g.                              *)
Steps(g, N, A) == g \in [1 .. N -> [A -> A]]
Iterates(f, N, A, a, g) ==
    f \in [0 .. N -> A] /\ f[0] = a /\ \A n \in 1 .. N : f[n] = g[n][f[n - 1]]

(* There is such an f, ...                                                  *)
LEMMA Iteration ==
  ASSUME NEW N \in Nat, NEW A, NEW a \in A, NEW g, Steps(g, N, A)
  PROVE  \E f : Iterates(f, N, A, a, g)
<1>. DEFINE S == {k \in 0 .. N : \E f : Iterates(f, k, A, a, g)}
<1>1. 0 \in S
  <2>. DEFINE f == [n \in 0 .. 0 |-> a]
  <2>1. Iterates(f, 0, A, a, g)
    BY DEF Iterates
  <2>. QED
    BY <2>1
<1>2. ASSUME NEW k \in 0 .. N - 1, k \in S PROVE k + 1 \in S
  <2>1. PICK f : Iterates(f, k, A, a, g)
    BY <1>2
  <2>. DEFINE h == [n \in 0 .. k + 1 |-> IF n <= k THEN f[n] ELSE g[k + 1][f[k]]]
  <2>2. k + 1 \in 1 .. N /\ k \in 0 .. k /\ k + 1 \in 0 .. N
    OBVIOUS
  <2>3. h \in [0 .. k + 1 -> A]
    <3>1. g[k + 1] \in [A -> A] /\ f[k] \in A
      BY <2>1, <2>2 DEF Iterates, Steps
    <3>2. g[k + 1][f[k]] \in A
      BY <3>1
    <3>. QED
      BY <2>1, <3>2 DEF Iterates
  <2>4. h[0] = a
    BY <2>1 DEF Iterates
  <2>5. ASSUME NEW n \in 1 .. k + 1 PROVE h[n] = g[n][h[n - 1]]
    <3>1. h[n - 1] = f[n - 1]
      OBVIOUS
    <3>2. CASE n <= k
      BY <2>1, <3>1, <3>2 DEF Iterates
    <3>3. CASE n = k + 1
      BY <3>1, <3>3
    <3>. QED
      BY <3>2, <3>3
  <2>. HIDE DEF h
  <2>6. Iterates(h, k + 1, A, a, g)
    BY <2>3, <2>4, <2>5 DEF Iterates
  <2>. QED
    BY <2>2, <2>6
<1>. HIDE DEF S
<1>3. \A k \in 0 .. N - 1 : k \in S => k + 1 \in S
  BY <1>2
<1>4. N \in S
  BY <1>1, <1>3, SetInduction
<1>. QED
  BY <1>4 DEF S

(* ... and a function that starts with a and follows the steps is one.      *)
LEMMA IterationType ==
  ASSUME NEW N \in Nat, NEW A, NEW a \in A, NEW g, Steps(g, N, A),
         NEW f, f = [n \in 0 .. N |-> f[n]], f[0] = a,
         \A n \in 1 .. N : f[n - 1] \in A => f[n] = g[n][f[n - 1]]
  PROVE  Iterates(f, N, A, a, g)
<1>. DEFINE S == {n \in 0 .. N : f[n] \in A}
<1>1. 0 \in S
  OBVIOUS
<1>2. ASSUME NEW n \in 0 .. N - 1, n \in S PROVE n + 1 \in S
  <2>1. PICK m \in 1 .. N : m = n + 1 /\ m - 1 = n /\ m \in 0 .. N
    OBVIOUS
  <2>2. f[n] \in A /\ g[m] \in [A -> A]
    BY <1>2, <2>1 DEF Steps
  <2>3. f[m] = g[m][f[n]]
    BY <2>1, <2>2
  <2>. QED
    BY <2>1, <2>2, <2>3
<1>. HIDE DEF S
<1>3. \A n \in 0 .. N - 1 : n \in S => n + 1 \in S
  BY <1>2
<1>4. \A n \in 0 .. N : n \in S
  BY <1>1, <1>3, SetInduction
<1>5. \A n \in 0 .. N : f[n] \in A
  BY <1>4 DEF S
<1>6. f \in [0 .. N -> A]
  BY <1>5, Zenon
<1>7. \A n \in 1 .. N : n - 1 \in 0 .. N
  OBVIOUS
<1>. QED
  BY <1>5, <1>6, <1>7 DEF Iterates
=============================================================================
