-------------------------------- MODULE Numbers --------------------------------
(***************************************************************************)
(* Induction over the natural numbers in a form the provers can apply: as  *)
(* facts about sets of numbers.  What is to be proved of every n becomes   *)
(* the set of the n of which it holds.                                     *)
(***************************************************************************)
EXTENDS Naturals, WellFoundedInduction, TLAPS

\* A set of numbers that is not empty has a least one.
LEMMA LeastNumber ==
  ASSUME NEW S \in SUBSET Nat, S # {}
  PROVE  \E m \in S : \A n \in S : m <= n
<1>1. PICK m \in S : \A n \in S : <<n, m>> \notin OpToRel(<, Nat)
  BY WFMin, NatLessThanWellFounded, Zenon
<1>2. \A n \in S : ~(n < m) BY <1>1, Zenon DEF OpToRel
<1> QED BY <1>2

\* A set that holds 0, and the successor of each number it holds, holds them all.
LEMMA InductiveSet ==
  ASSUME NEW S, 0 \in S, \A n \in Nat : n \in S => n + 1 \in S
  PROVE  \A n \in Nat : n \in S
<1> SUFFICES ASSUME Nat \ S # {} PROVE FALSE
  OBVIOUS
<1>1. PICK m \in Nat \ S : \A n \in Nat \ S : m <= n
  BY LeastNumber
<1>2. m # 0 /\ m - 1 \in Nat
  BY <1>1
<1>3. m - 1 \in S
  BY <1>1, <1>2
<1> QED BY <1>1, <1>2, <1>3

\* A set that holds each number up to N of which it holds the larger ones, holds them all.
LEMMA Descends ==
  ASSUME NEW N \in Nat, NEW S, \A i \in 1 .. N : (\A j \in i + 1 .. N : j \in S) => i \in S
  PROVE  \A i \in 1 .. N : i \in S
<1> DEFINE D == {d \in Nat : \A i \in 1 .. N : i > N - d => i \in S}
<1>1. 0 \in D
  OBVIOUS
<1>2. ASSUME NEW d \in Nat, d \in D PROVE d + 1 \in D
  <2> SUFFICES ASSUME NEW i \in 1 .. N, i > N - (d + 1) PROVE i \in S
    OBVIOUS
  <2>1. \A j \in i + 1 .. N : j \in 1 .. N /\ j > N - d
    OBVIOUS
  <2>2. \A j \in i + 1 .. N : j \in S
    BY <1>2, <2>1
  <2>3. QED BY <2>2
<1>3. \A d \in Nat : d \in D
  <2> HIDE DEF D
  <2>1. QED BY <1>1, <1>2, InductiveSet
<1>4. N \in D
  BY <1>3
<1>5. \A i \in 1 .. N : i > N - N
  OBVIOUS
<1>6. QED BY <1>4, <1>5

\* What is in A to begin with, and stays in it from each number to the next, is in A.
LEMMA StaysIn ==
  ASSUME NEW N \in Nat, NEW A, NEW f, f[0] \in A,
         \A n \in 1 .. N : f[n - 1] \in A => f[n] \in A
  PROVE  \A n \in 0 .. N : f[n] \in A
<1> DEFINE S == {n \in Nat : n <= N => f[n] \in A}
<1>1. 0 \in S
  OBVIOUS
<1>2. ASSUME NEW n \in Nat, n \in S PROVE n + 1 \in S
  <2>1. n + 1 <= N => n + 1 \in 1 .. N /\ (n + 1) - 1 = n /\ f[n] \in A
    BY <1>2
  <2>2. n + 1 <= N => f[n + 1] \in A
    BY <2>1
  <2>3. QED BY <2>2
<1>3. \A n \in Nat : n \in S
  <2> HIDE DEF S
  <2>1. QED BY <1>1, <1>2, InductiveSet
<1>4. QED BY <1>3

\* f steps from a through A.
IsIteration(f, N, A, a, step) ==
  f \in [0 .. N -> A] /\ f[0] = a /\ \A n \in 1 .. N : f[n] = step[n][f[n - 1]]

\* There is such a function.
LEMMA Iterates ==
  ASSUME NEW N \in Nat, NEW A, NEW a \in A, NEW step \in [1 .. N -> [A -> A]]
  PROVE  \E f : IsIteration(f, N, A, a, step)
<1> DEFINE Solves(f, m) == \A n \in 0 .. m : f[n] = IF n = 0 THEN a ELSE step[n][f[n - 1]]
           solved == {m \in Nat : m <= N => \E f \in [0 .. m -> A] : Solves(f, m)}
<1>1. 0 \in solved
  <2>1. [n \in 0 .. 0 |-> a] \in [0 .. 0 -> A] /\ Solves([n \in 0 .. 0 |-> a], 0)
    OBVIOUS
  <2>2. QED BY <2>1
<1>2. ASSUME NEW m \in Nat, m \in solved PROVE m + 1 \in solved
  <2> SUFFICES ASSUME m + 1 <= N PROVE \E g \in [0 .. m + 1 -> A] : Solves(g, m + 1)
    OBVIOUS
  <2>1. m <= N /\ m + 1 \in 1 .. N
    OBVIOUS
  <2>2. PICK f \in [0 .. m -> A] : Solves(f, m)
    BY <1>2, <2>1
  <2> DEFINE g == [n \in 0 .. m + 1 |-> IF n = m + 1 THEN step[m + 1][f[m]] ELSE f[n]]
  <2>3. f[m] \in A /\ step[m + 1][f[m]] \in A
    <3>1. f[m] \in A
      OBVIOUS
    <3>2. step[m + 1] \in [A -> A]
      BY <2>1
    <3>3. QED BY <3>1, <3>2
  <2>4. g \in [0 .. m + 1 -> A]
    BY <2>3
  <2>5. g[m + 1] = step[m + 1][f[m]] /\ \A n \in 0 .. m : g[n] = f[n]
    OBVIOUS
  <2> HIDE DEF g
  <2>6. ASSUME NEW n \in 0 .. m + 1 PROVE g[n] = IF n = 0 THEN a ELSE step[n][g[n - 1]]
    <3>1. CASE n = m + 1
      <4>1. n # 0 /\ n - 1 = m /\ m \in 0 .. m
        BY <3>1
      <4>2. QED BY <2>5, <3>1, <4>1
    <3>2. CASE n # m + 1
      <4>1. n \in 0 .. m /\ (n # 0 => n - 1 \in 0 .. m)
        BY <3>2
      <4>2. f[n] = IF n = 0 THEN a ELSE step[n][f[n - 1]]
        BY <2>2, <4>1
      <4>3. QED BY <2>5, <4>1, <4>2
    <3>3. QED BY <3>1, <3>2
  <2>7. QED BY <2>4, <2>6
<1>3. \A m \in Nat : m \in solved
  <2> HIDE DEF solved
  <2>1. QED BY <1>1, <1>2, InductiveSet
<1>4. PICK f \in [0 .. N -> A] : Solves(f, N)
  BY <1>3
<1>5. f[0] = a /\ \A n \in 1 .. N : f[n] = step[n][f[n - 1]]
  BY <1>4
<1>6. QED BY <1>4, <1>5 DEF IsIteration

\* As the recursive definition it answers.
LEMMA IterationSolves ==
  ASSUME NEW N \in Nat, NEW A, NEW a, NEW step, NEW f, IsIteration(f, N, A, a, step)
  PROVE  f = [n \in 0 .. N |-> IF n = 0 THEN a ELSE step[n][f[n - 1]]]
<1>1. f \in [0 .. N -> A] /\ f[0] = a /\ \A n \in 1 .. N : f[n] = step[n][f[n - 1]]
  BY DEF IsIteration
<1>2. ASSUME NEW n \in 0 .. N PROVE f[n] = IF n = 0 THEN a ELSE step[n][f[n - 1]]
  <2>1. n # 0 => n \in 1 .. N
    OBVIOUS
  <2>2. QED BY <1>1, <2>1
<1>3. f = [n \in 0 .. N |-> f[n]]
  BY <1>1
<1>4. QED BY <1>2, <1>3

\* What step makes of f at x is settled by the values of f where m is smaller.
Settles(S, A, N, m, step) ==
  /\ m \in [S -> 0 .. N] /\ step \in [[S -> A] -> [S -> A]]
  /\ \A f, g \in [S -> A], x \in S :
       (\A y \in S : m[y] < m[x] => f[y] = g[y]) => step[f][x] = step[g][x]

\* A recursive definition whose measure goes down defines something.
LEMMA RecursionSolves ==
  ASSUME NEW S, NEW A, NEW a \in A, NEW N \in Nat, NEW m, NEW step, Settles(S, A, N, m, step)
  PROVE  \E f \in [S -> A] : step[f] = f
<1> DEFINE F == [S -> A]
           M == N + 2
           steps == [n \in 1 .. M |-> step]
<1>0. m \in [S -> 0 .. N] /\ step \in [[S -> A] -> [S -> A]]
  BY DEF Settles
<1>1. [x \in S |-> a] \in F /\ M \in Nat /\ steps \in [1 .. M -> [F -> F]]
  BY <1>0
<1> HIDE DEF F, steps, M
<1>2. PICK h : IsIteration(h, M, F, [x \in S |-> a], steps)
  BY <1>1, Iterates
<1>3. h \in [0 .. M -> F] /\ \A n \in 1 .. M : h[n] = step[h[n - 1]]
  BY <1>2 DEF IsIteration, steps
<1>4. \A n \in 0 .. M : h[n] \in F
  BY <1>3
<1> DEFINE Agrees == {n \in Nat : n < M => \A x \in S : m[x] < n => h[n][x] = h[n + 1][x]}
<1>5. 0 \in Agrees
  BY <1>0
<1>6. ASSUME NEW n \in Nat, n \in Agrees PROVE n + 1 \in Agrees
  <2> SUFFICES ASSUME n + 1 < M, NEW x \in S, m[x] < n + 1
               PROVE  h[n + 1][x] = h[(n + 1) + 1][x]
    OBVIOUS
  <2>1. n \in 0 .. M /\ n + 1 \in 0 .. M /\ n + 1 \in 1 .. M /\ n + 2 \in 1 .. M /\ n < M
    BY <1>1
  <2>2. h[n + 1] = step[h[n]] /\ h[n + 2] = step[h[n + 1]]
    <3>1. (n + 1) - 1 = n /\ (n + 2) - 1 = n + 1
      OBVIOUS
    <3>2. QED BY <1>3, <2>1, <3>1
  <2>3. \A y \in S : m[y] < m[x] => h[n][y] = h[n + 1][y]
    <3>1. \A y \in S : m[y] \in Nat
      BY <1>0
    <3>2. \A y \in S : m[y] < m[x] => m[y] < n
      BY <3>1
    <3>3. QED BY <1>6, <2>1, <3>2
  <2>4. h[n] \in F /\ h[n + 1] \in F
    BY <1>4, <2>1
  <2>5. step[h[n]][x] = step[h[n + 1]][x]
    BY <2>3, <2>4, Zenon DEF Settles, F
  <2>6. (n + 1) + 1 = n + 2
    OBVIOUS
  <2>7. QED BY <2>2, <2>5, <2>6
<1>7. \A n \in Nat : n \in Agrees
  <2> HIDE DEF Agrees
  <2>1. QED BY <1>5, <1>6, InductiveSet
<1>8. N + 1 \in Agrees /\ N + 1 < M /\ (N + 1) + 1 = M /\ N + 1 \in 0 .. M /\ M \in 1 .. M /\ M - 1 = N + 1
  BY <1>7 DEF M
<1>9. \A x \in S : h[N + 1][x] = h[M][x]
  <2>1. \A x \in S : m[x] < N + 1
    BY <1>0
  <2>2. QED BY <1>8, <2>1
<1>10. h[N + 1] \in F /\ h[M] \in F
  BY <1>1, <1>4, <1>8
<1>11. h[N + 1] = h[M]
  BY <1>9, <1>10 DEF F
<1>12. h[M] = step[h[N + 1]]
  BY <1>3, <1>8
<1>13. QED BY <1>10, <1>11, <1>12 DEF F

=============================================================================
