----------------------------- MODULE NumberLemmas -----------------------------
(***************************************************************************)
(* Facts about numbers that the SMT solver does not find by itself: about  *)
(* % when the modulus is not a literal, for the circuits that address      *)
(* their memories circularly; induction, from the library's theorem that   *)
(* the natural numbers are well founded; and powers of two, for registers  *)
(* of any width.                                                           *)
(***************************************************************************)
EXTENDS Integers, FiniteSetTheorems, WellFoundedInduction, TLAPS

-----------------------------------------------------------------------------
(* Remainders. *)

\* Division with remainder: every integer is a multiple of M plus its residue
\* (a read or write pointer is the residue of an unbounded count).
LEMMA DivMod ==
    ASSUME NEW M \in Nat \ {0}, NEW a \in Int
    PROVE  /\ a \div M \in Int
           /\ a % M \in 0 .. M - 1
           /\ a = M * (a \div M) + (a % M)
OBVIOUS

\* The remainder is unique: two counts in the same memory of M cells that
\* agree as multiples of M plus a residue agree in the residue.
LEMMA ModUnique ==
    ASSUME NEW M \in Nat \ {0}, NEW a \in Int,
           NEW q \in Int, NEW r \in 0 .. M - 1, a = M * q + r
    PROVE  a % M = r
<1> DEFINE p == a \div M
           s == a % M
<1>1. p \in Int /\ s \in 0 .. M - 1 /\ a = M * p + s
  BY DivMod
<1> HIDE DEF p, s
<1>2. M * (q - p) = s - r
  BY <1>1
<1>3. q - p > 0 => M * (q - p) >= M
  BY <1>1
<1>4. q - p < 0 => M * (q - p) <= -M
  BY <1>1
<1>5. s = r
  BY <1>1, <1>2, <1>3, <1>4
<1> QED
  BY <1>5 DEF s

\* A pointer is not changed by going round the memory k times.
LEMMA ModAddMultiple ==
    ASSUME NEW M \in Nat \ {0}, NEW a \in Int, NEW k \in Int
    PROVE  (a + M * k) % M = a % M
<1> DEFINE p == a \div M
           s == a % M
<1>1. p \in Int /\ s \in 0 .. M - 1 /\ a = M * p + s
  BY DivMod
<1> HIDE DEF p, s
<1>2. a + M * k = M * (p + k) + s
  BY <1>1
<1>3. p + k \in Int /\ a + M * k \in Int
  BY <1>1
<1>4. (a + M * k) % M = s
  BY <1>1, <1>2, <1>3, ModUnique
<1> QED
  BY <1>4 DEF s

\* Offsetting a wrapped pointer gives the wrapped offset count: the write
\* pointer is computed from readPtr, which is already reduced.
LEMMA ModAdd ==
    ASSUME NEW M \in Nat \ {0}, NEW a \in Int, NEW b \in Int
    PROVE  ((a % M) + b) % M = (a + b) % M
<1> DEFINE p == a \div M
           s == a % M
<1>1. p \in Int /\ s \in 0 .. M - 1 /\ a = M * p + s
  BY DivMod
<1> HIDE DEF p, s
<1>2. a + b = (s + b) + M * p /\ s + b \in Int
  BY <1>1
<1>3. (a + b) % M = (s + b) % M
  BY <1>1, <1>2, ModAddMultiple
<1> QED
  BY <1>3 DEF s

\* Counts less than M apart use different cells: the newest M entries of a
\* circular memory do not overwrite each other.
LEMMA ModDistinct ==
    ASSUME NEW M \in Nat \ {0}, NEW a \in Int, NEW b \in Int,
           a < b, b - a < M
    PROVE  a % M # b % M
<1> DEFINE p == a \div M
           s == a % M
           q == b \div M
           t == b % M
<1>1. p \in Int /\ s \in 0 .. M - 1 /\ a = M * p + s
  BY DivMod
<1>2. q \in Int /\ t \in 0 .. M - 1 /\ b = M * q + t
  BY DivMod
<1> HIDE DEF p, s, q, t
<1>3. SUFFICES ASSUME s = t PROVE FALSE
  BY DEF s, t
<1>4. M * (q - p) = b - a
  BY <1>1, <1>2, <1>3
<1>5. q - p > 0 => M * (q - p) >= M
  BY <1>1, <1>2
<1>6. q - p <= 0 => M * (q - p) <= 0
  BY <1>1, <1>2
<1> QED
  BY <1>1, <1>2, <1>4, <1>5, <1>6

\* How far a circular counter is past a target, after one more step.
LEMMA ModNext ==
    ASSUME NEW M \in Nat \ {0}, NEW c \in Int, NEW t \in Int
    PROVE  /\ (c - t) % M \in 0 .. M - 1
           /\ (c - t) % M < M - 1 => (((c + 1) % M) - t) % M = ((c - t) % M) + 1
           /\ (c - t) % M = M - 1 => (((c + 1) % M) - t) % M = 0
<1> DEFINE q == (c - t) \div M
           r == (c - t) % M
           k == (c + 1) \div M
           s == (c + 1) % M
<1>0. c - t \in Int /\ c + 1 \in Int
  OBVIOUS
<1>1. q \in Int /\ r \in 0 .. M - 1 /\ c - t = M * q + r
  BY <1>0, DivMod
<1>2. k \in Int /\ s \in 0 .. M - 1 /\ c + 1 = M * k + s
  BY <1>0, DivMod
<1> HIDE DEF q, r, k, s
<1>3. s - t = M * (q - k) + (r + 1)
  BY <1>1, <1>2
<1>4. s - t = M * (q - k + 1) + (r + 1 - M)
  BY <1>1, <1>2, <1>3
<1>5. s - t \in Int /\ q - k \in Int /\ q - k + 1 \in Int
  BY <1>1, <1>2
<1>6. r < M - 1 => (s - t) % M = r + 1
  <2> SUFFICES ASSUME r < M - 1 PROVE (s - t) % M = r + 1
    OBVIOUS
  <2>1. r + 1 \in 0 .. M - 1
    BY <1>1
  <2> QED BY <1>3, <1>5, <2>1, ModUnique
<1>7. r = M - 1 => (s - t) % M = 0
  <2> SUFFICES ASSUME r = M - 1 PROVE (s - t) % M = 0
    OBVIOUS
  <2>1. r + 1 - M = 0 /\ 0 \in 0 .. M - 1
    BY <1>1
  <2>2. s - t = M * (q - k + 1) + 0
    BY <1>4, <2>1
  <2> QED BY <1>5, <2>1, <2>2, ModUnique
<1> QED BY <1>1, <1>6, <1>7 DEF r, s

\* A target d steps ahead, seen from the next step.
LEMMA ModAhead ==
    ASSUME NEW M \in Nat \ {0}, NEW c \in Int, NEW d \in 1 .. M
    PROVE  /\ d = 1 => (((c + 1) % M) - ((c + d) % M)) % M = 0
           /\ d > 1 => (((c + 1) % M) - ((c + d) % M)) % M = M - (d - 1)
<1> DEFINE k == (c + 1) \div M
           s == (c + 1) % M
           j == (c + d) \div M
           t == (c + d) % M
<1>0. c + d \in Int /\ c + 1 \in Int /\ d \in Int
  OBVIOUS
<1>1. k \in Int /\ s \in 0 .. M - 1 /\ c + 1 = M * k + s
  BY <1>0, DivMod
<1>2. j \in Int /\ t \in 0 .. M - 1 /\ c + d = M * j + t
  BY <1>0, DivMod
<1> HIDE DEF k, s, j, t
<1>3. s - t = M * (j - k) + (1 - d)
  BY <1>1, <1>2
<1>4. s - t = M * (j - k - 1) + (M - (d - 1))
  BY <1>1, <1>2, <1>3
<1>5. s - t \in Int /\ j - k \in Int /\ j - k - 1 \in Int
  BY <1>1, <1>2
<1>6. d = 1 => (s - t) % M = 0
  <2> SUFFICES ASSUME d = 1 PROVE (s - t) % M = 0
    OBVIOUS
  <2>1. s - t = M * (j - k) + 0 /\ 0 \in 0 .. M - 1
    BY <1>3
  <2> QED BY <1>5, <2>1, ModUnique
<1>7. d > 1 => (s - t) % M = M - (d - 1)
  <2> SUFFICES ASSUME d > 1 PROVE (s - t) % M = M - (d - 1)
    OBVIOUS
  <2>1. M - (d - 1) \in 0 .. M - 1
    OBVIOUS
  <2> QED BY <1>4, <1>5, <2>1, ModUnique
<1> QED BY <1>6, <1>7 DEF s, t

\* A number put together from the high part of one and the low part of another.
LEMMA DivModParts ==
    ASSUME NEW W \in Nat \ {0}, NEW a \in Int, NEW b \in Int
    PROVE  /\ (a \div W) * W + (b % W) \in Int
           /\ ((a \div W) * W + (b % W)) % W = b % W
           /\ ((a \div W) * W + (b % W)) \div W = a \div W
           /\ (b \div W) * W + (b % W) = b
<1> DEFINE p == a \div W
           r == b % W
           s == b \div W
           v == p * W + r
<1>1. p \in Int /\ r \in 0 .. W - 1 /\ s \in Int /\ b = W * s + r
  BY DivMod
<1> HIDE DEF p, r, s
<1>2. v \in Int /\ v = W * p + r
  BY <1>1
<1>3. v % W = r
  <2> HIDE DEF v
  <2> QED BY <1>1, <1>2, ModUnique
<1>4. v \div W = p
  <2> HIDE DEF v
  <2>1. v \div W \in Int /\ v = W * (v \div W) + r
    BY <1>2, <1>3, DivMod
  <2>2. W * (v \div W) = W * p
    BY <1>1, <1>2, <2>1
  <2>3. \A x \in Int, y \in Int : W * x = W * y => x = y
    OBVIOUS
  <2> QED BY <1>1, <2>1, <2>2, <2>3
<1>5. s * W + r = b
  BY <1>1
<1> QED BY <1>2, <1>3, <1>4, <1>5 DEF v, p, r, s

-----------------------------------------------------------------------------
(* Induction. *)

\* A set of natural numbers that is not empty has a least element.
LEMMA Least ==
    ASSUME NEW T \in SUBSET Nat, T # {}
    PROVE  \E x \in T : \A y \in T : x <= y
<1> DEFINE R == OpToRel(<, Nat)
<1>1. IsWellFoundedOn(R, Nat)
  BY NatLessThanWellFounded
<1>2. \A x, y \in Nat : <<y, x>> \in R <=> y < x
  BY DEF OpToRel
<1> HIDE DEF R
<1>3. PICK x \in T : \A y \in T : ~(<<y, x>> \in R)
  BY <1>1, WFMin
<1>4. \A y \in T : y \in Nat /\ ~(y < x)
  BY <1>2, <1>3
<1> QED BY <1>3, <1>4

\* Induction, with the set of the numbers that have the property in the place of
\* the property.
LEMMA Induction ==
    ASSUME NEW S, 0 \in S, \A n \in Nat : n \in S => n + 1 \in S
    PROVE  Nat \subseteq S
<1> SUFFICES ASSUME Nat \ S # {} PROVE FALSE
  OBVIOUS
<1>1. PICK x \in Nat \ S : \A y \in Nat \ S : x <= y
  BY Least
<1>2. x - 1 \in Nat /\ x - 1 \in S
  BY <1>1
<1>3. (x - 1) + 1 \in S /\ (x - 1) + 1 = x
  BY <1>2
<1> QED BY <1>1, <1>3

\* Induction from a to n.
LEMMA InductionTo ==
    ASSUME NEW a \in Int, NEW n \in Int, NEW P,
           a <= n => a \in P,
           \A k \in a + 1 .. n : k - 1 \in P => k \in P
    PROVE  a .. n \subseteq P
<1> DEFINE Q == {m \in Nat : a + m <= n => a + m \in P}
<1>1. 0 \in Q
  OBVIOUS
<1>2. ASSUME NEW m \in Nat, m \in Q PROVE m + 1 \in Q
  <2>1. SUFFICES ASSUME a + (m + 1) <= n PROVE a + (m + 1) \in P
    OBVIOUS
  <2>2. a + (m + 1) \in a + 1 .. n /\ (a + (m + 1)) - 1 = a + m /\ a + m <= n
    BY <2>1
  <2>3. a + m \in P
    BY <1>2, <2>2
  <2> QED BY <2>2, <2>3
<1>3. Nat \subseteq Q
  <2> HIDE DEF Q
  <2> QED BY <1>1, <1>2, Induction
<1>4. ASSUME NEW k \in a .. n PROVE k \in P
  <2>1. k - a \in Q /\ a + (k - a) = k /\ k <= n
    BY <1>3
  <2> QED BY <2>1
<1> QED BY <1>4

\* A set of natural numbers that has a bound has a largest element.
LEMMA Greatest ==
    ASSUME NEW T \in SUBSET Nat, T # {}, NEW b \in Nat, \A x \in T : x <= b
    PROVE  \E x \in T : \A y \in T : y <= x
<1> DEFINE D == {b - x : x \in T}
<1>1. D \in SUBSET Nat /\ D # {}
  <2>1. \A x \in T : x \in Nat /\ x <= b /\ b - x \in Nat
    OBVIOUS
  <2> QED BY <2>1
<1>2. PICK d \in D : \A e \in D : d <= e
  <2> HIDE DEF D
  <2> QED BY <1>1, Least
<1>3. PICK x \in T : d = b - x
  OBVIOUS
<1>4. ASSUME NEW y \in T PROVE y <= x
  <2>1. b - y \in D
    OBVIOUS
  <2>2. b - x <= b - y
    BY <1>2, <1>3, <2>1
  <2> QED BY <2>2
<1> QED BY <1>4

\* The first n values of a sequence of natural numbers have a bound.
LEMMA Bounded ==
    ASSUME NEW n \in Nat, NEW f, \A k \in 1 .. n : f[k] \in Nat
    PROVE  \E b \in Nat : \A k \in 1 .. n : f[k] <= b
<1> DEFINE P == {m \in 0 .. n : \E b \in Nat : \A k \in 1 .. m : f[k] <= b}
<1>1. 0 \in P
  OBVIOUS
<1>2. ASSUME NEW m \in 0 + 1 .. n, m - 1 \in P PROVE m \in P
  <2>1. PICK b \in Nat : \A k \in 1 .. m - 1 : f[k] <= b
    BY <1>2
  <2>2. m \in 1 .. n /\ f[m] \in Nat
    OBVIOUS
  <2>3. \A k \in 1 .. m : k \in 1 .. m - 1 \/ k = m
    OBVIOUS
  <2>4. \A k \in 1 .. m : f[k] \in Nat /\ f[k] <= b + f[m]
    BY <2>1, <2>2, <2>3
  <2>5. b + f[m] \in Nat
    BY <2>2
  <2> QED BY <2>2, <2>4, <2>5
<1>3. 0 .. n \subseteq P
  <2> HIDE DEF P
  <2> QED BY <1>1, <1>2, InductionTo
<1>4. n \in 0 .. n
  OBVIOUS
<1> QED BY <1>3, <1>4

\* There is a function that begins with a value and goes on by a rule: the
\* rule for k is the function step[k] of the value before.
IsRecursive(f, a, n, first, step) ==
    f = [k \in a .. n |-> IF k = a THEN first ELSE step[k][f[k - 1]]]

LEMMA Recursion ==
    ASSUME NEW a \in Int, NEW n \in Int, a <= n, NEW first, NEW step
    PROVE  \E f : IsRecursive(f, a, n, first, step)
<1> DEFINE Is(f, m) == f = [k \in a .. m |-> IF k = a THEN first ELSE step[k][f[k - 1]]]
           P == {m \in a .. n : \E f : Is(f, m)}
<1>1. a \in P
  <2> DEFINE f == [k \in a .. a |-> first]
  <2>1. Is(f, a)
    <3>1. \A k \in a .. a : k = a
      OBVIOUS
    <3> QED BY <3>1
  <2>2. a \in a .. n
    OBVIOUS
  <2> HIDE DEF Is
  <2> QED BY <2>1, <2>2
<1>2. ASSUME NEW m \in a + 1 .. n, m - 1 \in P PROVE m \in P
  <2>1. PICK f : f = [k \in a .. m - 1 |-> IF k = a THEN first ELSE step[k][f[k - 1]]]
    BY <1>2
  <2> DEFINE g == [k \in a .. m |-> IF k = m THEN step[m][f[m - 1]] ELSE f[k]]
  <2>2. ASSUME NEW k \in a .. m
        PROVE  g[k] = IF k = a THEN first ELSE step[k][g[k - 1]]
    <3>1. CASE k = a
      <4>1. k \in a .. m - 1 /\ g[k] = f[k]
        BY <3>1
      <4> QED BY <2>1, <3>1, <4>1
    <3>2. CASE k # a
      <4>1. k - 1 \in a .. m /\ k - 1 # m /\ g[k - 1] = f[k - 1]
        BY <3>2
      <4>2. g[k] = step[k][f[k - 1]]
        <5>1. CASE k = m
          BY <5>1
        <5>2. CASE k # m
          <6>1. k \in a .. m - 1 /\ g[k] = f[k]
            BY <5>2
          <6> QED BY <2>1, <3>2, <6>1
        <5> QED BY <5>1, <5>2
      <4> QED BY <3>2, <4>1, <4>2
    <3> QED BY <3>1, <3>2
  <2>3. g = [k \in a .. m |-> g[k]]
    OBVIOUS
  <2>4. Is(g, m)
    <3> HIDE DEF g
    <3> QED BY <2>2, <2>3
  <2>5. m \in a .. n
    OBVIOUS
  <2> QED BY <2>4, <2>5
<1>3. a .. n \subseteq P
  <2> HIDE DEF P
  <2>1. \A k \in a + 1 .. n : k - 1 \in P => k \in P
    BY <1>2
  <2> QED BY ONLY a \in Int, n \in Int, <1>1, <2>1, InductionTo
<1>4. n \in a .. n
  OBVIOUS
<1> HIDE DEF Is
<1> QED BY <1>3, <1>4 DEF Is, IsRecursive

-----------------------------------------------------------------------------
(* Powers of two. *)

\* A power of two is the number of subsets of a set.
LEMMA PowerOfTwo ==
    ASSUME NEW n \in Nat
    PROVE  /\ IsFiniteSet(1 .. n) /\ Cardinality(1 .. n) = n
           /\ IsFiniteSet(SUBSET (1 .. n)) /\ Cardinality(SUBSET (1 .. n)) = 2 ^ n
           /\ 2 ^ n \in Nat \ {0}
<1>1. IsFiniteSet(1 .. n) /\ Cardinality(1 .. n) = n
  BY FS_Interval
<1>2. IsFiniteSet(SUBSET (1 .. n)) /\ Cardinality(SUBSET (1 .. n)) = 2 ^ n
  BY <1>1, FS_SUBSET
<1>3. Cardinality(SUBSET (1 .. n)) \in Nat
  BY <1>2, FS_CardinalityType
<1>4. Cardinality(SUBSET (1 .. n)) # 0
  <2>1. {} \in SUBSET (1 .. n)
    OBVIOUS
  <2> QED BY <1>2, <2>1, FS_EmptySet
<1> QED BY <1>1, <1>2, <1>3, <1>4

\* Half of the subsets of 1 .. n + 1 hold n + 1.
LEMMA PowerNext ==
    ASSUME NEW n \in Nat
    PROVE  2 ^ (n + 1) = 2 ^ n + 2 ^ n
<1> DEFINE S == SUBSET (1 .. n)
           T == {A \cup {n + 1} : A \in S}
           f == [A \in S |-> A \cup {n + 1}]
<1>1. IsFiniteSet(S) /\ Cardinality(S) = 2 ^ n
  BY PowerOfTwo
<1>2. \A A \in S : n + 1 \notin A
  OBVIOUS
<1>3. f \in Bijection(S, T)
  <2>1. f \in [S -> T] /\ \A B \in T : \E A \in S : f[A] = B
    OBVIOUS
  <2>2. \A A, B \in S : f[A] = f[B] => A = B
    BY <1>2
  <2> HIDE DEF f, S, T
  <2> QED BY <2>1, <2>2 DEF Bijection, Injection, Surjection, IsInjective
<1>4. IsFiniteSet(T) /\ Cardinality(T) = 2 ^ n
  <2> HIDE DEF f, S, T
  <2>1. ExistsBijection(S, T)
    BY <1>3 DEF ExistsBijection
  <2> QED BY <1>1, <2>1, FS_Bijection
<1>5. S \cup T = SUBSET (1 .. n + 1)
  <2>1. ASSUME NEW B \in SUBSET (1 .. n + 1) PROVE B \in S \cup T
    <3>1. CASE n + 1 \in B
      <4>1. B \ {n + 1} \in S /\ B = (B \ {n + 1}) \cup {n + 1}
        <5>1. \A x \in B : x # n + 1 => x \in 1 .. n
          OBVIOUS
        <5> QED BY <3>1, <5>1
      <4> QED BY <4>1
    <3>2. CASE n + 1 \notin B
      <4>1. \A x \in B : x \in 1 .. n
        BY <3>2
      <4> QED BY <4>1
    <3> QED BY <3>1, <3>2
  <2>2. ASSUME NEW A \in S PROVE A \in SUBSET (1 .. n + 1) /\ A \cup {n + 1} \in SUBSET (1 .. n + 1)
    OBVIOUS
  <2>3. \A B \in T : B \in SUBSET (1 .. n + 1)
    BY <2>2
  <2>4. \A A \in S : A \in SUBSET (1 .. n + 1)
    BY <2>2
  <2> HIDE DEF S, T
  <2> QED BY <2>1, <2>3, <2>4
<1>6. S \cap T = {}
  BY <1>2
<1>7. Cardinality(S \cup T) = 2 ^ n + 2 ^ n - Cardinality(S \cap T)
  <2> HIDE DEF S, T
  <2> QED BY <1>1, <1>4, FS_Union
<1>8. Cardinality(S \cap T) = 0
  BY <1>6, FS_EmptySet
<1>9. Cardinality(SUBSET (1 .. n + 1)) = 2 ^ (n + 1)
  BY PowerOfTwo, n + 1 \in Nat
<1>10. 2 ^ (n + 1) = 2 ^ n + 2 ^ n - 0
  BY <1>5, <1>7, <1>8, <1>9
<1>11. 2 ^ n \in Nat
  BY PowerOfTwo
<1> QED
  BY <1>10, <1>11

\* 2 ^ (m + n), for widths that are added.
LEMMA PowerSum ==
    ASSUME NEW m \in Nat, NEW n \in Nat
    PROVE  2 ^ (m + n) = 2 ^ m * 2 ^ n
<1> DEFINE P == {k \in Nat : 2 ^ (m + k) = 2 ^ m * 2 ^ k}
<1>1. 0 \in P
  <2>1. 2 ^ m \in Nat
    BY PowerOfTwo
  <2>2. 2 ^ 0 = 1 /\ m + 0 = m
    OBVIOUS
  <2> QED BY <2>1, <2>2
<1>2. ASSUME NEW k \in Nat, k \in P PROVE k + 1 \in P
  <2>1. 2 ^ (m + k) = 2 ^ m * 2 ^ k
    BY <1>2
  <2>2. 2 ^ (k + 1) = 2 ^ k + 2 ^ k /\ 2 ^ m \in Nat /\ 2 ^ k \in Nat
    BY PowerNext, PowerOfTwo
  <2>3. 2 ^ ((m + k) + 1) = 2 ^ (m + k) + 2 ^ (m + k)
    BY PowerNext, m + k \in Nat
  <2>4. 2 ^ m * (2 ^ k + 2 ^ k) = 2 ^ m * 2 ^ k + 2 ^ m * 2 ^ k
    BY <2>2
  <2>5. (m + k) + 1 = m + (k + 1)
    OBVIOUS
  <2> QED BY <2>1, <2>2, <2>3, <2>4, <2>5
<1>3. Nat \subseteq P
  <2> HIDE DEF P
  <2> QED BY <1>1, <1>2, Induction
<1> QED BY <1>3
=============================================================================
