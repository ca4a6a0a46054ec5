----------------------------- MODULE LoopLemmas -----------------------------
(***************************************************************************)
(* What proofs about loops need: induction over the naturals as a lemma    *)
(* about sets, and that a function defined by recursion over the rounds of *)
(* a loop exists.                                                          *)
(***************************************************************************)
EXTENDS Integers, WellFoundedInduction, TLAPS

\* A nonempty set of naturals has a least member.
LEMMA LeastNat ==
  ASSUME NEW T, T \subseteq Nat, T # {}
  PROVE  \E x \in T : \A y \in T : ~ (y < x)
<1>1. \E x \in T : \A y \in T : ~ (<<y, x>> \in OpToRel(<, Nat))
  BY NatLessThanWellFounded, WFMin, Zenon
<1>2. \A x \in T, y \in T : y < x => <<y, x>> \in OpToRel(<, Nat)
  BY DEF OpToRel
<1> QED
  BY <1>1, <1>2

\* Induction, for a set.
LEMMA AllNat ==
  ASSUME NEW T, 0 \in T, \A n \in Nat : n \in T => n + 1 \in T
  PROVE  Nat \subseteq T
<1> SUFFICES ASSUME Nat \ T # {} PROVE FALSE
  OBVIOUS
<1>1. PICK x \in Nat \ T : \A y \in Nat \ T : ~ (y < x)
  BY LeastNat
<1>2. x # 0 /\ x - 1 \in Nat /\ x - 1 < x /\ (x - 1) + 1 = x
  BY <1>1
<1>3. x - 1 \in T
  BY <1>1, <1>2
<1> QED
  BY <1>1, <1>2, <1>3

\* Some function into S starts with base and goes on, up to m, as step says.
Computed(S, base, step, m) ==
  \E f \in [0 .. m -> S] : f[0] = base /\ \A k \in 1 .. m : f[k] = step[k][f[k - 1]]

\* A function defined by recursion exists: base at 0, and from one place to the
\* next what step says.
LEMMA Recursion ==
  ASSUME NEW S, NEW base, NEW step, NEW m,
         base \in S, m \in Nat, \A k \in Nat, r \in S : step[k][r] \in S
  PROVE  Computed(S, base, step, m)
<1> DEFINE Good == {n \in Nat : \E f \in [0 .. n -> S] :
                        f[0] = base /\ \A k \in 1 .. n : f[k] = step[k][f[k - 1]]}
<1>1. 0 \in Good
  <2>1. [k \in 0 .. 0 |-> base] \in [0 .. 0 -> S]
    OBVIOUS
  <2>2. [k \in 0 .. 0 |-> base][0] = base /\ 1 .. 0 = {}
    OBVIOUS
  <2> QED
    BY <2>1, <2>2
<1>2. ASSUME NEW n \in Nat, n \in Good PROVE n + 1 \in Good
  <2>1. PICK f \in [0 .. n -> S] : f[0] = base /\ \A k \in 1 .. n : f[k] = step[k][f[k - 1]]
    BY <1>2
  <2> DEFINE new == step[n + 1][f[n]]
             g == [k \in 0 .. n + 1 |-> IF k = n + 1 THEN new ELSE f[k]]
  <2>2. new \in S
    <3>1. n \in 0 .. n /\ n + 1 \in Nat
      OBVIOUS
    <3>2. f[n] \in S
      BY <3>1
    <3> QED
      BY <3>1, <3>2
  <2>3. \A k \in 0 .. n + 1 : k # n + 1 => k \in 0 .. n
    OBVIOUS
  <2>4. g \in [0 .. n + 1 -> S]
    BY <2>2, <2>3
  <2>5. g[n + 1] = new /\ g[n] = f[n] /\ \A k \in 0 .. n : g[k] = f[k]
    OBVIOUS
  <2> HIDE DEF g
  <2>6. g[0] = base
    BY <2>1, <2>5
  <2>7. ASSUME NEW k \in 1 .. n + 1 PROVE g[k] = step[k][g[k - 1]]
    <3>1. CASE k = n + 1
      <4>1. k - 1 = n
        BY <3>1
      <4> QED
        BY <2>5, <3>1, <4>1, Zenon
    <3>2. CASE k # n + 1
      <4>1. k \in 1 .. n /\ k \in 0 .. n /\ k - 1 \in 0 .. n
        BY <3>2
      <4> QED
        BY <2>1, <2>5, <4>1, Zenon
    <3> QED
      BY <3>1, <3>2
  <2> QED
    BY <2>4, <2>6, <2>7
<1>3. m \in Good
  <2> HIDE DEF Good
  <2> QED
    BY <1>1, <1>2, AllNat
<1> QED
  BY <1>3 DEF Computed

\* A product grows with its factor.
LEMMA Times ==
  ASSUME NEW a \in Nat, NEW b \in Nat, NEW F \in Nat
  PROVE  /\ a * F \in Nat /\ (a + 1) * F = a * F + F
         /\ a <= b => a * F <= b * F
         /\ a < b => a * F + F <= b * F
<1>1. \A x, y \in Nat : x * y \in Nat
  OBVIOUS
<1>2. (a + 1) * F = a * F + F
  OBVIOUS
<1>3. ASSUME NEW x \in Nat, NEW y \in Nat, x <= y PROVE x * F <= y * F
  <2>1. PICK d \in Nat : y = x + d
    <3>1. y - x \in Nat /\ y = x + (y - x)
      BY <1>3
    <3> QED
      BY <3>1
  <2>2. y * F = x * F + d * F /\ d * F \in Nat /\ x * F \in Nat
    BY <2>1
  <2> QED
    BY <2>2
<1>4. a < b => (a + 1) * F <= b * F
  <2>1. a + 1 \in Nat /\ (a < b => a + 1 <= b)
    OBVIOUS
  <2> QED
    BY <1>3, <2>1
<1> QED
  BY <1>1, <1>2, <1>3, <1>4

\* What is below the modulus stays.
LEMMA SmallMod ==
  ASSUME NEW w \in Nat, NEW x \in 0 .. w - 1
  PROVE  x % w = x
OBVIOUS

\* Each of the four bytes of a number is a byte.
LEMMA BytesOfNumber ==
  ASSUME NEW v \in Int, NEW k \in 0 .. 3
  PROVE  (v \div 256 ^ k) % 256 \in 0 .. 255
<1> DEFINE p == 256 ^ k
<1>1. k = 0 => p = 1
  OBVIOUS
<1>2. k = 1 => p = 256
  OBVIOUS
<1>3. k = 2 => p = 65536
  OBVIOUS
<1>4. k = 3 => p = 16777216
  OBVIOUS
<1>5. k = 0 \/ k = 1 \/ k = 2 \/ k = 3
  OBVIOUS
<1> HIDE DEF p
<1>6. p \in {1, 256, 65536, 16777216}
  BY <1>1, <1>2, <1>3, <1>4, <1>5
<1>7. (v \div p) % 256 \in 0 .. 255
  BY <1>6
<1> QED
  BY <1>7 DEF p

\* The lowest one is the number itself, but for what is above it.
LEMMA ByteOfAll == 256 ^ 0 = 1
OBVIOUS

\* How often a number is in another.
LEMMA QuotientIs ==
  ASSUME NEW D \in Nat, NEW k \in Nat, NEW t \in Nat, t < D
  PROVE  (k * D + t) \div D = k
<1> DEFINE v == k * D + t
           q == v \div D
<1>1. v \in Nat /\ q \in Nat /\ v % D \in Nat /\ v % D < D /\ v = q * D + (v % D)
  <2>1. k * D \in Nat
    BY Times
  <2>2. v \in Nat /\ D # 0
    BY <2>1
  <2> HIDE DEF v
  <2>3. q \in Nat /\ v % D \in Nat /\ v % D < D /\ v = D * q + (v % D)
    BY <2>2
  <2> QED
    BY <2>2, <2>3
<1> HIDE DEF q
<1>2. CASE q < k
  <2>1. q * D + D <= k * D /\ q * D \in Nat /\ k * D \in Nat
    BY <1>1, <1>2, Times
  <2> QED
    BY <1>1, <2>1
<1>3. CASE k < q
  <2>1. k * D + D <= q * D /\ q * D \in Nat /\ k * D \in Nat
    BY <1>1, <1>3, Times
  <2> QED
    BY <1>1, <2>1
<1> QED
  BY <1>1, <1>2, <1>3 DEF q

\* To divide twice is to divide by the product.
LEMMA Quotients ==
  ASSUME NEW v \in Nat, NEW r \in Nat \ {0}, NEW Q \in Nat \ {0}
  PROVE  /\ v \div r \in Nat /\ v % r \in 0 .. r - 1
         /\ v \div r < Q <=> v < r * Q
         /\ (v \div r) \div Q = v \div (r * Q)
<1> DEFINE q == v \div r
           m == v % r
           k == q \div Q
           l == q % Q
<1>1. q \in Nat /\ m \in 0 .. r - 1 /\ v = q * r + m
  OBVIOUS
<1> HIDE DEF q, m
<1>2. k \in Nat /\ l \in Nat /\ l < Q /\ q = k * Q + l
  BY <1>1
<1> HIDE DEF k, l
<1>3. r \in Nat /\ Q \in Nat /\ m \in Nat /\ m < r /\ r # 0 /\ Q # 0
  BY <1>1
<1>4. q < Q <=> v < r * Q
  <2>1. CASE q < Q
    <3>1. q * r + r <= Q * r /\ q * r \in Nat /\ Q * r \in Nat
      BY <1>1, <1>3, <2>1, Times
    <3>2. Q * r = r * Q
      BY <1>3
    <3> QED
      BY <1>1, <1>3, <2>1, <3>1, <3>2
  <2>2. CASE Q <= q
    <3>1. Q * r <= q * r /\ q * r \in Nat /\ Q * r \in Nat
      BY <1>1, <1>3, <2>2, Times
    <3>2. Q * r = r * Q
      BY <1>3
    <3> QED
      BY <1>1, <1>3, <2>2, <3>1, <3>2
  <2> QED
    BY <1>1, <1>3, <2>1, <2>2
<1>5. k = v \div (r * Q)
  <2> DEFINE D == r * Q
             t == l * r + m
  <2>1. l * r + r <= Q * r /\ l * r \in Nat /\ Q * r \in Nat /\ Q * r = D
    BY <1>2, <1>3, Times
  <2>2. t \in Nat /\ t < D /\ D \in Nat
    BY <1>3, <2>1
  <2>3. v = k * D + t
    <3>1. (k * Q + l) * r = k * (r * Q) + l * r
      BY <1>2, <1>3
    <3> QED
      BY <1>1, <1>2, <1>3, <2>1, <3>1
  <2> HIDE DEF D, t
  <2>4. (k * D + t) \div D = k
    BY <1>2, <2>2, QuotientIs
  <2> QED
    BY <2>3, <2>4 DEF D
<1> QED
  BY <1>1, <1>4, <1>5 DEF q, m, k
=============================================================================
