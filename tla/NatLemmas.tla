------------------------------ MODULE NatLemmas ------------------------------
(***************************************************************************)
(* Induction and recursion over the natural numbers, in the form in which  *)
(* the other proofs use them: for sets of numbers and for functions.       *)
(***************************************************************************)
EXTENDS Integers, FiniteSetsExt, TLAPS

LOCAL INSTANCE WellFoundedInduction

\* Every leaf is tried with Zenon, with the SMT solver, and with Zenon for longer.
USE ZenonT(2), SMTT(30), ZenonT(30)

\* A set of natural numbers that is not empty has a least element.
LEMMA LeastNat ==
  ASSUME NEW S \in SUBSET Nat, S # {}
  PROVE  \E m \in S : \A n \in S : m <= n
<1>1. \E x \in S : \A y \in S : ~ (<<y, x>> \in OpToRel(<, Nat))
  BY NatLessThanWellFounded, WFMin, Zenon
<1>2. \A x, y \in S : ~ (<<y, x>> \in OpToRel(<, Nat)) => x <= y
  BY DEF OpToRel
<1>. QED BY <1>1, <1>2, Zenon

\* Min is that element.
LEMMA MinIsLeast ==
  ASSUME NEW S \in SUBSET Nat, S # {}
  PROVE  Min(S) \in S /\ \A n \in S : Min(S) <= n
BY LeastNat, Zenon DEF Min

\* Max is the greatest element of a set with a bound.
LEMMA MaxIsGreatest ==
  ASSUME NEW b \in Nat, NEW S \in SUBSET (0 .. b), S # {}
  PROVE  Max(S) \in S /\ \A n \in S : n <= Max(S)
<1>. DEFINE T == {b - n : n \in S}
<1>1. T \in SUBSET Nat /\ T # {}
  <2>1. \A n \in S : b - n \in Nat
    OBVIOUS
  <2>. QED BY <2>1, Zenon
<1>2. PICK t \in T : \A u \in T : t <= u
  BY <1>1, LeastNat
<1>3. PICK m \in S : t = b - m
  BY <1>2
<1>4. \A n \in S : m >= n
  <2>. SUFFICES ASSUME NEW n \in S PROVE m >= n
    OBVIOUS
  <2>1. b - n \in T
    OBVIOUS
  <2>2. b - m <= b - n
    BY <1>2, <1>3, <2>1
  <2>3. n \in Nat /\ m \in Nat
    OBVIOUS
  <2>. QED BY <2>2, <2>3
<1>5. Max(S) \in S /\ \A n \in S : Max(S) >= n
  BY <1>3, <1>4, Zenon DEF Max
<1>6. \A n \in S : n \in Nat
  OBVIOUS
<1>. QED BY <1>5, <1>6

\* A set that has 0, and with a number the next one, has all numbers.
LEMMA NatInduct ==
  ASSUME NEW S, 0 \in S, \A n \in Nat : n \in S => n + 1 \in S
  PROVE  \A n \in Nat : n \in S
<1>. DEFINE T == Nat \ S
<1>. SUFFICES ASSUME T # {} PROVE FALSE
  OBVIOUS
<1>1. PICK m \in T : \A n \in T : m <= n
  BY LeastNat
<1>2. m \in Nat /\ m # 0 /\ m \notin S
  OBVIOUS
<1>3. m - 1 \in Nat /\ m - 1 < m /\ (m - 1) + 1 = m
  BY <1>2
<1>4. m - 1 \in S
  BY <1>1, <1>3
<1>. QED BY <1>2, <1>3, <1>4

\* The sequence of values that starts with c and goes on with a step of its own at each
\* place.
Iterates(g, T, c, s) == g \in [Nat -> T] /\ g[0] = c /\ \A n \in Nat : g[n + 1] = s[n][g[n]]

LEMMA Recursion ==
  ASSUME NEW T, NEW c \in T, NEW s \in [Nat -> [T -> T]]
  PROVE  \E g : Iterates(g, T, c, s)
<1>. DEFINE Fits(g, k) == /\ g \in [0 .. k -> T] /\ g[0] = c
                          /\ \A n \in Nat : n < k => g[n + 1] = s[n][g[n]]
            S == {k \in Nat : \E g : Fits(g, k)}
<1>1. 0 \in S
  <2>1. Fits([i \in 0 .. 0 |-> c], 0)
    OBVIOUS
  <2>. QED BY <2>1
<1>2. ASSUME NEW k \in Nat, k \in S PROVE k + 1 \in S
  <2>1. PICK g : Fits(g, k)
    BY <1>2
  <2>. DEFINE h == [i \in 0 .. k + 1 |-> IF i = k + 1 THEN s[k][g[k]] ELSE g[i]]
  <2>2. h \in [0 .. k + 1 -> T] /\ h[0] = c
    BY <2>1
  <2>3. \A n \in Nat : n < k + 1 => h[n + 1] = s[n][h[n]]
    <3>. SUFFICES ASSUME NEW n \in Nat, n < k + 1 PROVE h[n + 1] = s[n][h[n]]
      OBVIOUS
    <3>1. n \in 0 .. k /\ n + 1 \in 0 .. k + 1 /\ h[n] = g[n]
      OBVIOUS
    <3>2. CASE n = k
      BY <3>1, <3>2
    <3>3. CASE n < k
      BY <2>1, <3>1, <3>3
    <3>. QED BY <3>2, <3>3
  <2>. HIDE DEF h
  <2>4. Fits(h, k + 1)
    BY <2>2, <2>3
  <2>. QED BY <2>4
<1>3. \A k \in Nat : k \in S
  <2>. HIDE DEF S
  <2>. QED BY <1>1, <1>2, NatInduct
<1>4. \A k \in Nat : \E g : Fits(g, k)
  BY <1>3
<1>. DEFINE G(k) == CHOOSE g : Fits(g, k)
<1>5. \A k \in Nat : Fits(G(k), k)
  BY <1>4
<1>6. ASSUME NEW k \in Nat, NEW l \in Nat, k <= l PROVE \A i \in Nat : i <= k => G(k)[i] = G(l)[i]
  <2>. DEFINE I == {i \in Nat : i <= k => G(k)[i] = G(l)[i]}
  <2>1. 0 \in I
    BY <1>5
  <2>2. ASSUME NEW i \in Nat, i \in I PROVE i + 1 \in I
    <3>. SUFFICES ASSUME i + 1 <= k PROVE G(k)[i + 1] = G(l)[i + 1]
      OBVIOUS
    <3>1. i < k /\ i < l /\ G(k)[i] = G(l)[i]
      BY <1>6, <2>2
    <3>. HIDE DEF G
    <3>. QED BY <1>5, <3>1
  <2>3. \A i \in Nat : i \in I
    <3>. HIDE DEF I
    <3>. QED BY <2>1, <2>2, NatInduct
  <2>. QED BY <2>3
<1>. DEFINE f == [n \in Nat |-> G(n)[n]]
<1>. HIDE DEF G
<1>7. f \in [Nat -> T] /\ f[0] = c
  BY <1>5
<1>8. ASSUME NEW n \in Nat PROVE f[n + 1] = s[n][f[n]]
  <2>1. n + 1 \in Nat /\ n <= n + 1 /\ n < n + 1
    OBVIOUS
  <2>2. G(n + 1)[n + 1] = s[n][G(n + 1)[n]]
    BY <1>5, <2>1
  <2>3. G(n)[n] = G(n + 1)[n]
    BY <1>6, <2>1
  <2>. QED BY <2>1, <2>2, <2>3
<1>. HIDE DEF f
<1>9. Iterates(f, T, c, s)
  BY <1>7, <1>8 DEF Iterates
<1>. QED BY <1>9

LEMMA Divided ==
  ASSUME NEW d \in Nat, d # 0, NEW q \in Nat, NEW r \in 0 .. d - 1
  PROVE  (q * d + r) \div d = q /\ (q * d + r) % d = r
OBVIOUS

LEMMA Product == ASSUME NEW a \in Nat, NEW b \in Nat PROVE a * b \in Nat
OBVIOUS

LEMMA Times == ASSUME NEW d \in Nat, NEW a \in Nat, NEW b \in Nat, a <= b PROVE a * d <= b * d
<1>1. PICK c \in Nat : b = a + c
  OBVIOUS
<1>2. b * d = a * d + c * d
  BY <1>1
<1>3. c * d \in Nat /\ a * d \in Nat
  OBVIOUS
<1>. QED BY <1>2, <1>3

=============================================================================
