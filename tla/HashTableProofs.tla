-------------------------- MODULE HashTableProofs --------------------------
(***************************************************************************)
(* Proofs about the hash table, for every set of records.                  *)
(***************************************************************************)
EXTENDS HashTable, FiniteSetTheorems, NaturalsInduction, TLAPS

-----------------------------------------------------------------------------
(* Probing                                                                 *)

LEMMA BucketsLemma ==
  ASSUME NEW n \in Nat
  PROVE  /\ \A i : i \in Buckets(n) <=> i \in Nat /\ i < n
         /\ n \notin Buckets(n)
         /\ Cardinality(Buckets(n)) = n
<1>1. \A i : i \in Buckets(n) <=> i \in Nat /\ i < n
  BY DEF Buckets
<1>2. Cardinality(0 .. n - 1) = n
  BY FS_Interval
<1> QED
  BY <1>1, <1>2 DEF Buckets

LEMMA ProbeInside ==
  ASSUME NEW k \in Nat, NEW t \in Nat, NEW n \in Nat, n > 0
  PROVE  Probe(k, t, n) \in Buckets(n)
<1>1. k + (t * (t + 1)) \div 2 \in Int
  OBVIOUS
<1>2. \A a \in Int : a % n \in 0 .. n - 1
  OBVIOUS
<1> QED
  BY <1>1, <1>2 DEF Probe, Buckets

First(k, n, S, t) == Probe(k, t, n) \in S /\ \A u \in 0 .. t - 1 : Probe(k, u, n) \notin S

(* Probing ends at the first bucket of S, and there is only one first. *)
LEMMA ReachedFirst ==
  ASSUME NEW k, NEW n \in Nat, NEW S, NEW t \in 0 .. 2 * n - 1, First(k, n, S, t)
  PROVE  Reached(k, n, S) = Probe(k, t, n)
<1> DEFINE t0 == CHOOSE v \in 0 .. 2 * n - 1 : First(k, n, S, v)
<1>1. t0 \in 0 .. 2 * n - 1 /\ First(k, n, S, t0)
  OBVIOUS
<1>2. Reached(k, n, S) = Probe(k, t0, n)
  BY DEF Reached, First
<1> HIDE DEF t0
<1>3. t0 \in Int /\ t \in Int /\ 0 <= t0 /\ 0 <= t
  BY <1>1
<1>4. ~ (t0 < t)
  <2>1. t0 < t => t0 \in 0 .. t - 1
    BY <1>3
  <2> QED
    BY <1>1, <2>1 DEF First
<1>5. ~ (t < t0)
  <2>1. t < t0 => t \in 0 .. t0 - 1
    BY <1>3
  <2> QED
    BY <1>1, <2>1 DEF First
<1>6. t0 = t
  BY <1>3, <1>4, <1>5
<1> QED
  BY <1>2, <1>6

LEMMA ReachedSome ==
  ASSUME NEW k, NEW n \in Nat, NEW S, Reached(k, n, S) # n
  PROVE  \E t \in 0 .. 2 * n - 1 : First(k, n, S, t) /\ Reached(k, n, S) = Probe(k, t, n)
<1>1. \E t \in 0 .. 2 * n - 1 : First(k, n, S, t)
  BY DEF Reached, First
<1> QED
  BY <1>1, ReachedFirst

(* A set of numbers has a least one. *)
LEMMA Least ==
  ASSUME NEW T, T \subseteq Nat, T # {}
  PROVE  \E m \in T : \A x \in T : m <= x
<1>1. IsWellFoundedOn(OpToRel(<, Nat), Nat)
  BY NatLessThanWellFounded
<1>2. PICK m \in T : \A y \in T : <<y, m>> \notin OpToRel(<, Nat)
  BY <1>1, WFMin
<1>3. \A y \in T : ~ (y < m)
  BY <1>2 DEF OpToRel
<1> QED
  BY <1>3

Sizes ==
  {4, 8, 16, 32, 64, 128, 256, 512, 1024, 2048, 4096, 8192, 16384, 32768,
   65536, 131072, 262144, 524288, 1048576, 2097152, 4194304, 8388608,
   16777216, 33554432, 67108864, 134217728, 268435456, 536870912,
   1073741824}

LEMMA PowersListed == Powers = Sizes
<1>1.    /\ 2 ^ 2 = 4 /\ 2 ^ 3 = 8 /\ 2 ^ 4 = 16 /\ 2 ^ 5 = 32
         /\ 2 ^ 6 = 64 /\ 2 ^ 7 = 128 /\ 2 ^ 8 = 256 /\ 2 ^ 9 = 512
         /\ 2 ^ 10 = 1024 /\ 2 ^ 11 = 2048 /\ 2 ^ 12 = 4096 /\ 2 ^ 13 = 8192
         /\ 2 ^ 14 = 16384 /\ 2 ^ 15 = 32768 /\ 2 ^ 16 = 65536 /\ 2 ^ 17 = 131072
         /\ 2 ^ 18 = 262144 /\ 2 ^ 19 = 524288 /\ 2 ^ 20 = 1048576 /\ 2 ^ 21 = 2097152
         /\ 2 ^ 22 = 4194304 /\ 2 ^ 23 = 8388608 /\ 2 ^ 24 = 16777216 /\ 2 ^ 25 = 33554432
         /\ 2 ^ 26 = 67108864 /\ 2 ^ 27 = 134217728 /\ 2 ^ 28 = 268435456 /\ 2 ^ 29 = 536870912
         /\ 2 ^ 30 = 1073741824
  OBVIOUS
<1>2. ASSUME NEW e \in 2 .. 30
      PROVE  2 ^ e \in Sizes
  <2>1. CASE e = 2 \/ e = 3 \/ e = 4 \/ e = 5 \/ e = 6 \/ e = 7
    <3>1. /\ 2 ^ 2 \in Sizes /\ 2 ^ 3 \in Sizes /\ 2 ^ 4 \in Sizes
          /\ 2 ^ 5 \in Sizes /\ 2 ^ 6 \in Sizes /\ 2 ^ 7 \in Sizes
      BY <1>1 DEF Sizes
    <3> QED
      BY <2>1, <3>1, Zenon
  <2>2. CASE e = 8 \/ e = 9 \/ e = 10 \/ e = 11 \/ e = 12 \/ e = 13
    <3>1. /\ 2 ^ 8 \in Sizes /\ 2 ^ 9 \in Sizes /\ 2 ^ 10 \in Sizes
          /\ 2 ^ 11 \in Sizes /\ 2 ^ 12 \in Sizes /\ 2 ^ 13 \in Sizes
      BY <1>1 DEF Sizes
    <3> QED
      BY <2>2, <3>1, Zenon
  <2>3. CASE e = 14 \/ e = 15 \/ e = 16 \/ e = 17 \/ e = 18 \/ e = 19
    <3>1. /\ 2 ^ 14 \in Sizes /\ 2 ^ 15 \in Sizes /\ 2 ^ 16 \in Sizes
          /\ 2 ^ 17 \in Sizes /\ 2 ^ 18 \in Sizes /\ 2 ^ 19 \in Sizes
      BY <1>1 DEF Sizes
    <3> QED
      BY <2>3, <3>1, Zenon
  <2>4. CASE e = 20 \/ e = 21 \/ e = 22 \/ e = 23 \/ e = 24 \/ e = 25
    <3>1. /\ 2 ^ 20 \in Sizes /\ 2 ^ 21 \in Sizes /\ 2 ^ 22 \in Sizes
          /\ 2 ^ 23 \in Sizes /\ 2 ^ 24 \in Sizes /\ 2 ^ 25 \in Sizes
      BY <1>1 DEF Sizes
    <3> QED
      BY <2>4, <3>1, Zenon
  <2>5. CASE e = 26 \/ e = 27 \/ e = 28 \/ e = 29 \/ e = 30
    <3>1. /\ 2 ^ 26 \in Sizes /\ 2 ^ 27 \in Sizes
          /\ 2 ^ 28 \in Sizes /\ 2 ^ 29 \in Sizes /\ 2 ^ 30 \in Sizes
      BY <1>1 DEF Sizes
    <3> QED
      BY <2>5, <3>1, Zenon
  <2> QED
    BY <2>1, <2>2, <2>3, <2>4, <2>5
<1>3. \A m \in Sizes : \E e \in 2 .. 30 : m = 2 ^ e
  BY <1>1 DEF Sizes
<1> QED
  BY <1>2, <1>3 DEF Powers

LEMMA PowersLemma ==
  /\ 4 \in Powers /\ 8 \in Powers
  /\ \A m \in Powers : m \in Nat /\ m >= 4 /\ m % 4 = 0
  /\ \A m \in Powers : m = 4 \/ \E p \in Powers : m = 2 * p
BY PowersListed DEF Sizes

(* An odd number has no factor in common with m. *)
Coprime(m) ==
  \A a, b, c \in Int : (2 * a + 1) * b = m * c => \E d \in Int : b = m * d

LEMMA Coprimality ==
  ASSUME NEW m, Coprime(m), NEW a \in Int, NEW b \in Int, NEW c \in Int,
         (2 * a + 1) * b = m * c
  PROVE  \E d \in Int : b = m * d
BY Zenon DEF Coprime

LEMMA Doubling ==
  ASSUME NEW m \in Nat, Coprime(m)
  PROVE  Coprime(2 * m)
<1> SUFFICES ASSUME NEW a \in Int, NEW b \in Int, NEW c \in Int,
                    (2 * a + 1) * b = (2 * m) * c
             PROVE  \E d \in Int : b = (2 * m) * d
  BY DEF Coprime
<1> DEFINE h == m * c - a * b
<1>1. h \in Int /\ b = 2 * h
  OBVIOUS
<1> HIDE DEF h
<1>2. (2 * a + 1) * h = m * c
  <2>1. (2 * a + 1) * (2 * h) = 2 * ((2 * a + 1) * h)
    BY <1>1
  <2>2. (2 * m) * c = 2 * (m * c)
    OBVIOUS
  <2>3. (2 * a + 1) * h \in Int /\ m * c \in Int
    BY <1>1
  <2>4. \A x, y \in Int : 2 * x = 2 * y => x = y
    OBVIOUS
  <2> HIDE DEF h
  <2> QED
    BY <1>1, <2>1, <2>2, <2>3, <2>4
<1>3. PICK d \in Int : h = m * d
  BY <1>1, <1>2, Coprimality, Zenon
<1> QED
  BY <1>1, <1>3

LEMMA PowersCoprime ==
  ASSUME NEW m \in Powers
  PROVE  Coprime(2 * m)
<1> DEFINE Bad == {p \in Powers : ~ Coprime(2 * p)}
<1>1. Coprime(1)
  BY DEF Coprime
<1>2. Coprime(2)
  BY <1>1, Doubling
<1>3. Coprime(4)
  BY <1>2, Doubling
<1>4. Coprime(8)
  BY <1>3, Doubling
<1>5. SUFFICES ASSUME Bad # {}
               PROVE  FALSE
  OBVIOUS
<1>6. PICK p \in Bad : \A q \in Bad : p <= q
  BY <1>5, PowersLemma, Least
<1>7. p # 4
  BY <1>4, <1>6
<1>8. PICK q \in Powers : p = 2 * q
  BY <1>6, <1>7, PowersLemma
<1>9. q \in Nat /\ q < p
  BY <1>8, PowersLemma
<1>10. Coprime(p)
  BY <1>6, <1>8, <1>9
<1>11. Coprime(2 * p)
  BY <1>6, <1>10, PowersLemma, Doubling
<1> QED
  BY <1>6, <1>11

(* The product of two neighbours is even. *)
LEMMA Triangle ==
  ASSUME NEW t \in Nat
  PROVE  /\ (t * (t + 1)) \div 2 \in Nat
         /\ 2 * ((t * (t + 1)) \div 2) = t * (t + 1)
<1>1. \E h \in Nat : t = 2 * h \/ t = 2 * h + 1
  <2>1. t \div 2 \in Nat /\ (t = 2 * (t \div 2) \/ t = 2 * (t \div 2) + 1)
    OBVIOUS
  <2> QED
    BY <2>1
<1>2. PICK h \in Nat : t = 2 * h \/ t = 2 * h + 1
  BY <1>1
<1>3. \E x \in Nat : t * (t + 1) = 2 * x
  <2>1. CASE t = 2 * h
    <3>1. t * (t + 1) = 2 * (h * (t + 1)) /\ h * (t + 1) \in Nat
      BY <2>1
    <3> QED
      BY <3>1
  <2>2. CASE t = 2 * h + 1
    <3>1. t * (t + 1) = 2 * (t * (h + 1)) /\ t * (h + 1) \in Nat
      BY <2>2
    <3> QED
      BY <3>1
  <2> QED
    BY <1>2, <2>1, <2>2
<1>4. PICK x \in Nat : t * (t + 1) = 2 * x
  BY <1>3
<1>5. (2 * x) \div 2 = x
  OBVIOUS
<1> QED
  BY <1>4, <1>5

(* Numbers with the same remainder differ by a multiple. *)
LEMMA SameRemainder ==
  ASSUME NEW x \in Int, NEW y \in Int, NEW n \in Nat, n > 0, x % n = y % n
  PROVE  \E q \in Int : y - x = n * q
<1>1. x = n * (x \div n) + (x % n) /\ y = n * (y \div n) + (y % n)
  OBVIOUS
<1>2. x \div n \in Int /\ y \div n \in Int /\ x % n \in Int /\ y % n \in Int
  OBVIOUS
<1> DEFINE a == x \div n
           b == y \div n
<1>3. y - x = n * (b - a)
  <2> HIDE DEF a, b
  <2>1. a \in Int /\ b \in Int /\ \E r \in Int : x = n * a + r /\ y = n * b + r
    BY <1>1, <1>2 DEF a, b
  <2> QED
    BY <2>1
<1>4. b - a \in Int
  BY <1>2
<1> HIDE DEF a, b
<1> QED
  BY <1>3, <1>4

(* In a table of n buckets, a power of two, the first n steps of the       *)
(* probing for k come to different buckets, so they come to all of them.   *)
LEMMA ProbesApart ==
  ASSUME NEW k \in Nat, NEW n \in Powers, NEW s \in Nat, NEW t \in Nat, s < t, t < n
  PROVE  Probe(k, s, n) # Probe(k, t, n)
<1> DEFINE x == (s * (s + 1)) \div 2
           y == (t * (t + 1)) \div 2
<1>1. n \in Nat /\ n > 0
  BY PowersLemma
<1>2. /\ x \in Nat /\ 2 * x = s * (s + 1)
      /\ y \in Nat /\ 2 * y = t * (t + 1)
  BY Triangle
<1>3. SUFFICES ASSUME (k + x) % n = (k + y) % n
               PROVE  FALSE
  BY DEF Probe
<1> HIDE DEF x, y
<1>4. PICK q \in Int : (k + y) - (k + x) = n * q
  BY <1>1, <1>2, <1>3, SameRemainder
<1>5. (t - s) * (t + s + 1) = (2 * n) * q
  <2>1. 2 * y - 2 * x = 2 * (n * q)
    <3>1. n * q \in Int
      BY <1>1
    <3>2. \A p \in Int : (k + y) - (k + x) = p => 2 * y - 2 * x = 2 * p
      BY <1>2
    <3> QED
      BY <1>4, <3>1, <3>2
  <2>2. (t - s) * (t + s + 1) = t * (t + 1) - s * (s + 1)
    OBVIOUS
  <2>3. 2 * (n * q) = (2 * n) * q
    BY <1>1
  <2> QED
    BY <1>2, <2>1, <2>2, <2>3
<1>6. \A d \in Int : ~ (t - s = (2 * n) * d) /\ ~ (t + s + 1 = (2 * n) * d)
  <2>1. ASSUME NEW d \in Int
        PROVE  (2 * n) * d <= 0 \/ (2 * n) * d >= 2 * n
    BY <1>1
  <2>2. 0 < t - s /\ t - s < 2 * n /\ 0 < t + s + 1 /\ t + s + 1 < 2 * n
    BY <1>1
  <2>3. \A d \in Int : (2 * n) * d \in Int
    BY <1>1
  <2>4. \A z \in Int : z <= 0 \/ z >= 2 * n => ~ (t - s = z) /\ ~ (t + s + 1 = z)
    BY <1>1, <2>2
  <2> QED
    BY <2>1, <2>3, <2>4
<1>7. Coprime(2 * n)
  BY PowersCoprime
<1>8. (t - s) \div 2 \in Int /\ (t - s = 2 * ((t - s) \div 2) \/ t - s = 2 * ((t - s) \div 2) + 1)
  OBVIOUS
<1>9. PICK h \in Int : t - s = 2 * h \/ t - s = 2 * h + 1
  BY <1>8
<1>10. CASE t - s = 2 * h + 1
  <2>1. (2 * h + 1) * (t + s + 1) = (2 * n) * q
    BY <1>5, <1>10
  <2>2. t + s + 1 \in Int
    OBVIOUS
  <2>3. \E d \in Int : t + s + 1 = (2 * n) * d
    <3> DEFINE m == 2 * n
               u == t + s + 1
    <3>1. Coprime(m) /\ (2 * h + 1) * u = m * q /\ u \in Int /\ h \in Int /\ q \in Int
      BY <1>4, <1>7, <1>9, <2>1, <2>2
    <3> HIDE DEF m, u
    <3>2. \E d \in Int : u = m * d
      BY <3>1, Coprimality, ZenonT(60)
    <3> QED
      BY <3>2 DEF m, u
  <2> QED
    BY <1>6, <2>3
<1>11. CASE t - s = 2 * h
  <2>1. t + s + 1 = 2 * (h + s) + 1 /\ h + s \in Int
    BY <1>11
  <2>2. (2 * (h + s) + 1) * (t - s) = (2 * n) * q
    <3>1. (t + s + 1) * (t - s) = (t - s) * (t + s + 1)
      OBVIOUS
    <3> QED
      BY <1>5, <2>1, <3>1
  <2>3. t - s \in Int /\ h + s \in Int /\ q \in Int
    BY <1>11
  <2>4. \E d \in Int : t - s = (2 * n) * d
    <3> DEFINE m == 2 * n
               u == t - s
               a == h + s
    <3>1. Coprime(m) /\ (2 * a + 1) * u = m * q /\ u \in Int /\ a \in Int /\ q \in Int
      BY <1>7, <2>2, <2>3
    <3> HIDE DEF m, u, a
    <3>2. \E d \in Int : u = m * d
      BY <3>1, Coprimality, ZenonT(60)
    <3> QED
      BY <3>2 DEF m, u
  <2> QED
    BY <1>6, <2>4
<1> QED
  BY <1>9, <1>10, <1>11

LEMMA ProbesCover ==
  ASSUME NEW k \in Nat, NEW n \in Powers, NEW i \in Buckets(n)
  PROVE  \E t \in 0 .. n - 1 : Probe(k, t, n) = i
<1> SUFFICES ASSUME \A t \in 0 .. n - 1 : Probe(k, t, n) # i
             PROVE  FALSE
  OBVIOUS
<1> DEFINE f == [t \in 0 .. n - 1 |-> Probe(k, t, n)]
           T == Buckets(n) \ {i}
<1>1. n \in Nat /\ n > 0
  BY PowersLemma
<1>2. IsFiniteSet(0 .. n - 1) /\ Cardinality(0 .. n - 1) = n
  BY <1>1, FS_Interval
<1>3. IsFiniteSet(T) /\ Cardinality(T) = n - 1
  BY <1>2, FS_RemoveElement DEF Buckets
<1>4. f \in [0 .. n - 1 -> T]
  BY <1>1, ProbeInside
<1> HIDE DEF f, T
<1>5. PICK s, t \in 0 .. n - 1 : s # t /\ f[s] = f[t]
  BY <1>1, <1>2, <1>3, <1>4, FS_PigeonHole
<1>6. Probe(k, s, n) = Probe(k, t, n)
  BY <1>5 DEF f
<1>7. /\ s \in Nat /\ t \in Nat /\ s < n /\ t < n
      /\ s < t \/ t < s
  BY <1>1, <1>5
<1> QED
  BY <1>6, <1>7, ProbesApart

(* So the probing for k comes to S, when there is anything in it. *)
LEMMA ReachedInside ==
  ASSUME NEW k \in Nat, NEW n \in Powers, NEW S, S \subseteq Buckets(n), S # {}
  PROVE  Reached(k, n, S) \in S /\ Reached(k, n, S) # n
<1> DEFINE T == {t \in 0 .. n - 1 : Probe(k, t, n) \in S}
<1>1. n \in Nat /\ n > 0
  BY PowersLemma
<1>2. PICK i \in S : i \in Buckets(n)
  OBVIOUS
<1>3. PICK t \in 0 .. n - 1 : Probe(k, t, n) = i
  BY <1>2, ProbesCover
<1>4. T # {} /\ T \subseteq Nat
  BY <1>1, <1>2, <1>3
<1>5. PICK u \in T : \A v \in T : u <= v
  BY <1>4, Least
<1>6. u \in 0 .. 2 * n - 1 /\ First(k, n, S, u)
  <2>1. \A v \in 0 .. u - 1 : v \in 0 .. n - 1 /\ ~ (u <= v)
    BY <1>1
  <2>2. \A v \in 0 .. u - 1 : v \notin T
    BY <1>5, <2>1
  <2>3. u \in 0 .. 2 * n - 1
    BY <1>1
  <2> QED
    BY <2>1, <2>2, <2>3 DEF First
<1>7. Reached(k, n, S) = Probe(k, u, n)
  BY <1>1, <1>6, ReachedFirst
<1>8. Reached(k, n, S) \in S
  BY <1>7
<1> QED
  BY <1>1, <1>8, BucketsLemma

(* The probing for k comes to i before any other bucket outside F. *)
Chain(k, i, F, n) ==
  \E t \in 0 .. 2 * n - 1 :
    Probe(k, t, n) = i /\ \A u \in 0 .. t - 1 : Probe(k, u, n) \in F \ {i}

LEMMA ChainGrows ==
  ASSUME NEW k, NEW i, NEW F, NEW n, NEW G, F \subseteq G, Chain(k, i, F, n)
  PROVE  Chain(k, i, G, n)
BY DEF Chain

(* An element whose chain leads to it is found, when none on the chain is. *)
LEMMA ChainFound ==
  ASSUME NEW k, NEW n \in Nat, NEW F, NEW S, NEW a \in S,
         \A i \in F \ {a} : i \notin S, Chain(k, a, F, n)
  PROVE  Reached(k, n, S) = a
<1>1. PICK t \in 0 .. 2 * n - 1 :
        Probe(k, t, n) = a /\ \A u \in 0 .. t - 1 : Probe(k, u, n) \in F \ {a}
  BY DEF Chain
<1>2. First(k, n, S, t)
  BY <1>1 DEF First
<1> QED
  BY <1>1, <1>2, ReachedFirst

(* The bucket at which probing ends has a chain of the buckets that are    *)
(* not among those it looks for.                                           *)
LEMMA ReachedChain ==
  ASSUME NEW k \in Nat, NEW n \in Nat, NEW F, NEW S, NEW i,
         i = Reached(k, n, S), i # n,
         \A b \in Buckets(n) : b \in S \/ b \in F
  PROVE  i \in S /\ Chain(k, i, F, n)
<1>1. PICK t \in 0 .. 2 * n - 1 : First(k, n, S, t) /\ i = Probe(k, t, n)
  BY ReachedSome
<1>2. i \in S
  BY <1>1 DEF First
<1>3. ASSUME NEW u \in 0 .. t - 1
      PROVE  Probe(k, u, n) \in F \ {i}
  <2>1. u \in Nat /\ n > 0
    OBVIOUS
  <2>2. Probe(k, u, n) \in Buckets(n)
    BY <2>1, ProbeInside
  <2>3. Probe(k, u, n) \notin S
    BY <1>1 DEF First
  <2> QED
    BY <1>2, <2>2, <2>3
<1> QED
  BY <1>1, <1>2, <1>3 DEF Chain

-----------------------------------------------------------------------------
(* The invariant.  That no key is in two buckets is not inductive: a put   *)
(* must find the bucket of its key, so every element has a chain of full   *)
(* buckets to it, in the table that is used or in the one being built, and *)
(* the elements of both, with the one in hand, have different keys.        *)

Old == Full(flags)
New == Full(new_flags)

Typed ==
  /\ n_buckets \in Nat /\ size \in Nat /\ j \in Nat
  /\ flags \in [Buckets(n_buckets) -> {"empty", "full", "deleted"}]
  /\ Room(new_flags) \in Nat
  /\ new_flags \in [Buckets(Room(new_flags)) -> {"empty", "full"}]
  /\ keys = [i \in DOMAIN keys |-> keys[i]]
  /\ DOMAIN flags \cup DOMAIN new_flags \subseteq DOMAIN keys
  /\ pc \in {"idle", "scan", "kick", "place"}
  /\ pc # "idle" => arg.id \in Key

Distinct ==
  /\ \A i \in Old \cup New : keys[i] \in Key
  /\ \A a, b \in Old \cup New : keys[a] = keys[b] => a = b
  /\ Old \cap New = {}

(* Between the rehashes, and in one. *)
Settled ==
  /\ New = {} /\ j = 0
  /\ \A i \in DOMAIN flags : flags[i] # "deleted"
  /\ \A i \in Old : Chain(keys[i], i, Old, n_buckets)

Moving ==
  /\ \A i \in New : Chain(keys[i], i, New, Room(new_flags))
  /\ \A i \in Old : j <= i
  /\ pc = "kick" => /\ hand.key \in Key
                    /\ \A i \in Old \cup New : keys[i] # hand.key
                    /\ \A i \in Old : j < i

Inv ==
  /\ Typed /\ Distinct
  /\ pc \in {"idle", "place"} => Settled
  /\ pc \in {"scan", "kick"} => Moving

LEMMA EmptyLemma ==
  ASSUME NEW n \in Nat
  PROVE  /\ Room(Empty(n)) = n /\ Full(Empty(n)) = {}
         /\ DOMAIN Empty(n) = Buckets(n)
         /\ Empty(n) \in [Buckets(n) -> {"empty", "full"}]
         /\ \A i \in DOMAIN Empty(n) : Empty(n)[i] = "empty"
BY BucketsLemma DEF Room, Empty, Full

LEMMA InitInv ==
  ASSUME Init
  PROVE  Inv
<1>1. /\ n_buckets = 0 /\ flags = Empty(0) /\ keys = Empty(0) /\ new_flags = Empty(0)
      /\ j = 0 /\ pc = "idle" /\ size = 0
  BY DEF Init
<1>2. /\ Room(Empty(0)) = 0 /\ Full(Empty(0)) = {}
      /\ Empty(0) \in [Buckets(0) -> {"empty", "full"}]
      /\ \A i \in DOMAIN Empty(0) : Empty(0)[i] = "empty"
  BY EmptyLemma
<1>3. Typed
  BY <1>1, <1>2 DEF Typed
<1>4. Distinct /\ Settled
  BY <1>1, <1>2 DEF Distinct, Settled, Old, New
<1> QED
  BY <1>1, <1>3, <1>4 DEF Inv

(* A block that is extended keeps what it holds. *)
LEMMA ExtendLemma ==
  ASSUME NEW f, NEW n
  PROVE  /\ DOMAIN Extend(f, n) = DOMAIN f \cup Buckets(n)
         /\ \A i \in DOMAIN f : Extend(f, n)[i] = f[i]
         /\ Extend(f, n) = [i \in DOMAIN Extend(f, n) |-> Extend(f, n)[i]]
BY DEF Extend

(* When there is memory for the table kh_put asks for, it gets the         *)
(* smallest power of two that is large enough.                             *)
LEMMA NewBucketsRight ==
  ASSUME n_buckets \in Nat, size \in Nat, NEW m \in Powers, m >= Asked
  PROVE  NewBuckets \in Powers /\ NewBuckets >= Asked /\ NewBuckets \in Nat
<1> DEFINE T == {p \in Powers : p >= Asked}
<1>1. T \subseteq Nat /\ T # {}
  BY PowersLemma
<1>2. PICK p \in T : \A q \in T : p <= q
  BY <1>1, Least
<1>3. p \in Powers /\ p >= Asked /\ \A q \in Powers : q >= Asked => p <= q
  BY <1>2
<1>4. NewBuckets \in Powers /\ NewBuckets >= Asked
  BY <1>3 DEF NewBuckets, RoundUp
<1> QED
  BY <1>4, PowersLemma

LEMMA BeginInv ==
  ASSUME Inv, NEW r \in Record, Begin(r)
  PROVE  Inv'
<1>1. /\ pc = "idle" /\ arg' = r /\ r.id \in Key
      /\ n_buckets' = n_buckets /\ size' = size /\ flags' = flags /\ j' = j /\ hand' = hand
  BY DEF Begin, Key
<1>2. Typed /\ Distinct /\ Settled
  BY <1>1 DEF Inv
<1>3. CASE MustResize /\ size < UpperBound(NewBuckets)
  <2>1. /\ new_flags' = Empty(NewBuckets) /\ keys' = Extend(keys, NewBuckets)
        /\ pc' = "scan" /\ NewBuckets \in Nat
    BY <1>2, <1>3, NewBucketsRight DEF Begin, Typed
  <2>2. /\ Room(new_flags') = NewBuckets /\ Full(new_flags') = {}
        /\ DOMAIN new_flags' = Buckets(NewBuckets)
        /\ new_flags' \in [Buckets(NewBuckets) -> {"empty", "full"}]
    BY <2>1, EmptyLemma
  <2>3. /\ DOMAIN keys' = DOMAIN keys \cup Buckets(NewBuckets)
        /\ \A i \in DOMAIN keys : keys'[i] = keys[i]
        /\ keys' = [i \in DOMAIN keys' |-> keys'[i]]
    BY <2>1, ExtendLemma, Zenon
  <2>4. Typed'
    BY <1>1, <1>2, <2>1, <2>2, <2>3 DEF Typed
  <2>5. Old' = Old /\ New' = {} /\ Old \subseteq DOMAIN keys
    BY <1>1, <1>2, <2>2 DEF Old, New, Full, Typed
  <2>6. Distinct'
    BY <1>2, <2>3, <2>5 DEF Distinct
  <2>7. Moving'
    <3>1. \A i \in Old : 0 <= i
      BY <1>2, BucketsLemma DEF Typed, Old, Full
    <3> QED
      BY <1>1, <1>2, <2>1, <2>5, <3>1 DEF Moving, Settled
  <2> QED
    BY <2>1, <2>4, <2>6, <2>7 DEF Inv
<1>4. CASE ~ (MustResize /\ size < UpperBound(NewBuckets))
  <2>1. pc' = "place" /\ new_flags' = new_flags /\ keys' = keys
    BY <1>4 DEF Begin
  <2>2. Typed' /\ Distinct' /\ Settled'
    BY <1>1, <1>2, <2>1 DEF Typed, Distinct, Settled, Old, New
  <2> QED
    BY <2>1, <2>2 DEF Inv
<1> QED
  BY <1>3, <1>4

LEMMA ScanInv ==
  ASSUME Inv, Scan
  PROVE  Inv'
<1>1. /\ pc = "scan" /\ j # n_buckets
      /\ n_buckets' = n_buckets /\ size' = size /\ keys' = keys /\ new_flags' = new_flags
      /\ arg' = arg
  BY DEF Scan
<1>2. Typed /\ Distinct /\ Moving
  BY <1>1 DEF Inv
<1>3. \A i \in Old : i \in Nat
  BY <1>2, BucketsLemma DEF Typed, Old, Full
<1>4. CASE j \in Old
  <2>1. /\ hand'.key = keys[j] /\ flags' = [flags EXCEPT ![j] = "deleted"]
        /\ pc' = "kick" /\ j' = j
    BY <1>4 DEF Scan, Pair, Old
  <2>2. Old' = Old \ {j} /\ New' = New
    BY <1>1, <1>2, <1>4, <2>1 DEF Typed, Old, New, Full
  <2>3. Typed'
    BY <1>1, <1>2, <2>1 DEF Typed
  <2>4. Distinct'
    BY <1>1, <1>2, <2>2 DEF Distinct
  <2>5. Moving'
    <3>1. /\ hand'.key \in Key
          /\ \A i \in Old' \cup New' : keys'[i] # hand'.key
      <4>1. keys[j] \in Key /\ \A i \in (Old \ {j}) \cup New : keys[i] # keys[j]
        BY <1>2, <1>4 DEF Distinct
      <4> QED
        BY <1>1, <2>1, <2>2, <4>1, Zenon
    <3>2. \A i \in Old' : j' <= i /\ j' < i
      BY <1>2, <1>3, <2>1, <2>2 DEF Moving, Typed
    <3>3. \A i \in New' : Chain(keys'[i], i, New', Room(new_flags'))
      BY <1>1, <1>2, <2>2 DEF Moving
    <3> QED
      BY <3>1, <3>2, <3>3 DEF Moving
  <2> QED
    BY <2>1, <2>3, <2>4, <2>5 DEF Inv
<1>5. CASE j \notin Old
  <2>1. j' = j + 1 /\ flags' = flags /\ hand' = hand /\ pc' = pc
    BY <1>5 DEF Scan, Old
  <2>2. Typed' /\ Distinct'
    BY <1>1, <1>2, <2>1 DEF Typed, Distinct, Old, New
  <2>3. \A i \in Old : j + 1 <= i
    BY <1>2, <1>3, <1>5 DEF Moving, Typed
  <2>4. Moving'
    BY <1>1, <1>2, <2>1, <2>3 DEF Moving, Old, New
  <2> QED
    BY <1>1, <2>1, <2>2, <2>4 DEF Inv
<1> QED
  BY <1>4, <1>5

LEMMA ResizedInv ==
  ASSUME Inv, Resized
  PROVE  Inv'
<1>1. /\ pc = "scan" /\ j = n_buckets
      /\ flags' = new_flags /\ new_flags' = Empty(0)
      /\ n_buckets' = Room(new_flags) /\ j' = 0 /\ pc' = "place"
      /\ size' = size /\ keys' = keys /\ arg' = arg
  BY DEF Resized
<1>2. Typed /\ Distinct /\ Moving
  BY <1>1 DEF Inv
<1>3. /\ Room(Empty(0)) = 0 /\ Full(Empty(0)) = {} /\ DOMAIN Empty(0) = Buckets(0)
      /\ Buckets(0) = {}
      /\ Empty(0) \in [Buckets(0) -> {"empty", "full"}]
  <2>1. Buckets(0) = {}
    BY BucketsLemma
  <2> QED
    BY <2>1, EmptyLemma
<1>4. Old' = New /\ New' = {}
  BY <1>1, <1>3 DEF Old, New
<1>5. Typed'
  <2>1. flags' \in [Buckets(n_buckets') -> {"empty", "full", "deleted"}]
    BY <1>1, <1>2 DEF Typed
  <2> QED
    BY <1>1, <1>2, <1>3, <2>1 DEF Typed
<1>6. Distinct'
  BY <1>1, <1>2, <1>4 DEF Distinct
<1>7. Settled'
  <2>1. \A i \in DOMAIN flags' : flags'[i] # "deleted"
    BY <1>1, <1>2 DEF Typed
  <2> QED
    BY <1>1, <1>2, <1>4, <2>1 DEF Settled, Moving
<1> QED
  BY <1>1, <1>5, <1>6, <1>7 DEF Inv

(* Where the element in hand is placed: in a bucket of the new table that  *)
(* is free, whatever it still holds of the old one.                        *)
LEMMA KickFacts ==
  ASSUME Inv, Kick
  PROVE  /\ NewSite \in DOMAIN new_flags /\ NewSite \in DOMAIN keys /\ NewSite \notin New
         /\ Chain(hand.key, NewSite, New, Room(new_flags))
         /\ New' = New \cup {NewSite} /\ DOMAIN new_flags' = DOMAIN new_flags
         /\ Old' = Old \ {NewSite}
         /\ Kicks(NewSite) <=> NewSite \in Old
         /\ Old \subseteq DOMAIN flags /\ Old \subseteq DOMAIN keys /\ New \subseteq DOMAIN keys
         /\ \A i \in Old : i \in Nat /\ i < n_buckets
<1> DEFINE b == NewSite
           m == Room(new_flags)
<1>1. /\ pc = "kick" /\ b \in DOMAIN new_flags
      /\ new_flags' = [new_flags EXCEPT ![b] = "full"]
  BY DEF Kick
<1>2. Typed /\ Moving /\ hand.key \in Nat
  BY <1>1, HashTableAssumption DEF Inv, Moving
<1>3. /\ m \in Nat /\ DOMAIN new_flags = Buckets(m) /\ b \in Buckets(m) /\ b # m
      /\ b \in DOMAIN keys
  BY <1>1, <1>2, BucketsLemma DEF Typed
<1>4. b = Reached(hand.key, m, DOMAIN new_flags \ New)
  BY DEF NewSite, New
<1> HIDE DEF b, m
<1>5. b \notin New /\ Chain(hand.key, b, New, m)
  BY <1>2, <1>3, <1>4, ReachedChain
<1>6. New' = New \cup {b} /\ DOMAIN new_flags' = DOMAIN new_flags
  BY <1>1, <1>2 DEF New, Full, Typed
<1>7. /\ Old \subseteq DOMAIN flags /\ Old \subseteq DOMAIN keys /\ New \subseteq DOMAIN keys
      /\ \A i \in Old : i \in Nat /\ i < n_buckets
  BY <1>2, BucketsLemma DEF Typed, Old, New, Full
<1>8. Kicks(b) <=> b \in Old
  BY <1>7 DEF Kicks, Old
<1>9. Old' = Old \ {b}
  <2>1. CASE Kicks(b)
    BY <1>2, <2>1 DEF Kick, Kicks, Old, Full, Typed, b
  <2>2. CASE ~ Kicks(b)
    <3>1. flags' = flags
      BY <2>2 DEF Kick, b
    <3> QED
      BY <1>8, <2>2, <3>1 DEF Old
  <2> QED
    BY <2>1, <2>2
<1> QED
  BY <1>1, <1>3, <1>5, <1>6, <1>7, <1>8, <1>9 DEF b, m

(* The element in hand is placed; what was in its bucket is taken in hand. *)
LEMMA KickInv ==
  ASSUME Inv, Kick
  PROVE  Inv'
<1> DEFINE b == NewSite
           m == Room(new_flags)
<1>1. /\ pc = "kick" /\ b \in DOMAIN new_flags
      /\ new_flags' = [new_flags EXCEPT ![b] = "full"]
      /\ keys' = [keys EXCEPT ![b] = hand.key]
      /\ n_buckets' = n_buckets /\ size' = size /\ arg' = arg
  BY DEF Kick
<1>2. Typed /\ Distinct /\ Moving /\ hand.key \in Key /\ hand.key \in Nat
  BY <1>1, HashTableAssumption DEF Inv, Moving
<1>3. m \in Nat
  BY <1>2 DEF Typed
<1>4. b \in DOMAIN keys
  BY KickFacts
<1>5. Chain(hand.key, b, New, m)
  BY KickFacts
<1>6. New' = New \cup {b} /\ DOMAIN new_flags' = DOMAIN new_flags
  BY KickFacts
<1>7. /\ Old \subseteq DOMAIN keys /\ New \subseteq DOMAIN keys
      /\ \A i \in Old : i \in Nat
  BY KickFacts
<1>8. Old' = Old \ {b} /\ (Kicks(b) <=> b \in Old)
  BY KickFacts
<1> HIDE DEF b, m
<1>9. /\ new_flags' \in [Buckets(Room(new_flags')) -> {"empty", "full"}]
      /\ Room(new_flags') = m /\ Room(new_flags') \in Nat
  <2>1. Room(new_flags') = m
    BY <1>6 DEF Room, m
  <2>2. new_flags' \in [Buckets(m) -> {"empty", "full"}]
    BY <1>1, <1>2 DEF Typed, m
  <2> QED
    BY <1>3, <2>1, <2>2
<1>10. /\ DOMAIN keys' = DOMAIN keys /\ keys' = [i \in DOMAIN keys' |-> keys'[i]]
      /\ keys'[b] = hand.key /\ \A i \in DOMAIN keys : i # b => keys'[i] = keys[i]
  BY <1>1, <1>2, <1>4 DEF Typed
<1>11. flags' \in [Buckets(n_buckets) -> {"empty", "full", "deleted"}]
  BY <1>2 DEF Kick, Typed
<1>12. pc' \in {"scan", "kick"} /\ j' \in Nat
  BY <1>2 DEF Kick, Typed
<1>13. Typed'
  <2>1. pc' # "idle" => arg'.id \in Key
    BY <1>1, <1>2 DEF Typed
  <2>2. DOMAIN flags' = DOMAIN flags
    BY <1>2, <1>11 DEF Typed
  <2> QED
    BY <1>1, <1>2, <1>6, <1>9, <1>10, <1>11, <1>12, <2>1, <2>2 DEF Typed
<1>14. Distinct'
  <2>1. ASSUME NEW i \in Old' \cup New', i # b
        PROVE  /\ i \in Old \cup New /\ keys'[i] = keys[i] /\ keys[i] # hand.key
    BY <1>1, <1>2, <1>6, <1>10, <1>7, <1>8, <2>1 DEF Moving
  <2>2. \A i \in Old' \cup New' : keys'[i] \in Key
    BY <1>2, <1>10, <2>1 DEF Distinct
  <2>3. \A p, q \in Old' \cup New' : keys'[p] = keys'[q] => p = q
    BY <1>2, <1>10, <2>1 DEF Distinct
  <2>4. Old' \cap New' = {}
    BY <1>2, <1>6, <1>8 DEF Distinct
  <2> QED
    BY <2>2, <2>3, <2>4 DEF Distinct
<1>15. \A i \in New' : Chain(keys'[i], i, New', Room(new_flags'))
  <2>1. ASSUME NEW i \in New, i # b
        PROVE  Chain(keys'[i], i, New', Room(new_flags'))
    <3>1. Chain(keys[i], i, New, m) /\ keys'[i] = keys[i]
      BY <1>2, <1>10, <1>7, <2>1 DEF Moving, m
    <3> QED
      BY <1>6, <1>9, <3>1, ChainGrows
  <2>2. Chain(keys'[b], b, New', Room(new_flags'))
    BY <1>5, <1>6, <1>9, <1>10, ChainGrows
  <2> QED
    BY <1>6, <2>1, <2>2
<1>16. CASE Kicks(b)
  <2>1. /\ hand'.key = keys[b] /\ j' = j /\ pc' = pc
    BY <1>16 DEF Kick, Pair, b
  <2>2. b \in Old
    BY <1>8, <1>16
  <2>3. \A i \in Old' : j' <= i /\ j' < i
    BY <1>1, <1>2, <1>7, <1>8, <2>1 DEF Moving, Typed
  <2>4. ASSUME NEW i \in Old' \cup New'
        PROVE  keys'[i] # keys[b]
    <3>1. CASE i = b
      BY <1>1, <1>2, <1>10, <2>2, <3>1 DEF Moving
    <3>2. CASE i # b
      BY <1>2, <1>6, <1>10, <1>7, <1>8, <2>2, <3>2 DEF Distinct
    <3> QED
      BY <3>1, <3>2
  <2>5. keys[b] \in Key
    BY <1>2, <2>2 DEF Distinct
  <2>6. /\ hand'.key \in Key
        /\ \A i \in Old' \cup New' : keys'[i] # hand'.key
    BY <2>1, <2>4, <2>5, Zenon
  <2>7. Moving'
    BY <1>15, <2>3, <2>6 DEF Moving
  <2> QED
    BY <1>12, <1>13, <1>14, <2>7 DEF Inv
<1>17. CASE ~ Kicks(b)
  <2>1. j' = j + 1 /\ pc' = "scan"
    BY <1>17 DEF Kick, b
  <2>2. \A i \in Old' : j' <= i
    <3>1. \A i \in Old : j + 1 <= i
      BY <1>1, <1>2, <1>7 DEF Moving, Typed
    <3> QED
      BY <1>8, <2>1, <3>1
  <2>3. Moving'
    BY <1>15, <2>1, <2>2 DEF Moving
  <2> QED
    BY <1>12, <1>13, <1>14, <2>3 DEF Inv
<1> QED
  BY <1>16, <1>17

(* A put finds the bucket of its key, or makes a chain to an empty one. *)
LEMMA PlaceInv ==
  ASSUME Inv, Place
  PROVE  Inv'
<1> DEFINE k == arg.id
           x == PutSite(k)
           S == {i \in DOMAIN flags : flags[i] = "empty" \/ (flags[i] = "full" /\ keys[i] = k)}
<1>1. /\ pc = "place" /\ pc' = "idle"
      /\ flags' = [flags EXCEPT ![x] = "full"]
      /\ Occupy(x)
      /\ n_buckets' = n_buckets /\ new_flags' = new_flags /\ j' = j
  BY DEF Place
<1>2. Typed /\ Distinct /\ Settled /\ k \in Key /\ k \in Nat
  BY <1>1, HashTableAssumption DEF Inv, Typed
<1>3. /\ DOMAIN flags = Buckets(n_buckets) /\ n_buckets \notin DOMAIN flags
      /\ n_buckets \in Nat /\ Old \subseteq DOMAIN flags /\ Old \subseteq DOMAIN keys
      /\ \A i \in DOMAIN flags : flags[i] = "empty" \/ i \in Old
  BY <1>2, BucketsLemma DEF Typed, Settled, Old, Full
<1>4. Site(k) = Reached(k, n_buckets, S)
  BY DEF Site
<1>5. x = IF Site(k) = n_buckets THEN Probe(k, 0, n_buckets) ELSE Site(k)
  BY DEF PutSite
<1>6. /\ \A i \in DOMAIN flags : i \in S <=> (i \notin Old \/ keys[i] = k)
      /\ S \subseteq DOMAIN flags
  BY <1>3 DEF Old, Full
<1>7. keys' = IF x \in Old THEN keys ELSE [keys EXCEPT ![x] = k]
  BY <1>1 DEF Occupy, Old
<1>8. size' \in Nat
  BY <1>1, <1>2 DEF Occupy, Typed
<1> HIDE DEF k, x, S
<1>9. /\ keys' = [i \in DOMAIN keys' |-> keys'[i]] /\ DOMAIN keys' = DOMAIN keys
      /\ \A i \in DOMAIN keys : i # x => keys'[i] = keys[i]
      /\ x \in DOMAIN keys /\ x \notin Old => keys'[x] = k
      /\ x \in Old => keys'[x] = keys[x]
  BY <1>2, <1>7 DEF Typed
<1>10. Typed'
  <2>1. flags' \in [Buckets(n_buckets) -> {"empty", "full", "deleted"}]
    BY <1>1, <1>2 DEF Typed
  <2> QED
    BY <1>1, <1>2, <1>3, <1>8, <1>9, <2>1 DEF Typed
<1>11. Old' = IF x \in DOMAIN flags THEN Old \cup {x} ELSE Old
  BY <1>1, <1>2 DEF Old, Full, Typed
<1>12. New' = {} /\ New = {}
  BY <1>1, <1>2 DEF Settled, New
<1>13. \A i \in DOMAIN flags' : flags'[i] # "deleted"
  BY <1>1, <1>2 DEF Settled, Typed
<1>14. CASE x \in Old \/ x \notin DOMAIN flags
  <2>1. Old' = Old /\ \A i \in Old : keys'[i] = keys[i]
    BY <1>3, <1>9, <1>11, <1>14
  <2>2. Distinct'
    BY <1>2, <1>12, <2>1 DEF Distinct
  <2>3. Settled'
    BY <1>1, <1>2, <1>12, <1>13, <2>1 DEF Settled
  <2> QED
    BY <1>1, <1>10, <2>2, <2>3 DEF Inv
<1>15. CASE x \notin Old /\ x \in DOMAIN flags
  <2>1. x \in S /\ Chain(k, x, Old, n_buckets) /\ x = Site(k)
    <3>1. CASE Site(k) = n_buckets
      <4>1. x = Probe(k, 0, n_buckets) /\ x \in S /\ n_buckets > 0
        BY <1>3, <1>5, <1>6, <1>15, <3>1, BucketsLemma
      <4>2. 0 \in 0 .. 2 * n_buckets - 1 /\ 0 .. 0 - 1 = {}
        BY <1>3, <4>1
      <4>3. First(k, n_buckets, S, 0)
        BY <4>1, <4>2 DEF First
      <4>4. Site(k) = x
        BY <1>3, <1>4, <4>1, <4>2, <4>3, ReachedFirst
      <4> QED
        BY <1>3, <1>15, <3>1, <4>4
    <3>2. CASE Site(k) # n_buckets
      BY <1>2, <1>3, <1>4, <1>5, <1>6, <3>2, ReachedChain
    <3> QED
      BY <3>1, <3>2
  <2>2. ASSUME NEW a \in Old, keys[a] = k
        PROVE  FALSE
    <3>1. a \in S /\ \A i \in Old \ {a} : i \notin S
      BY <1>2, <1>3, <1>6, <2>2 DEF Distinct
    <3>2. Chain(k, a, Old, n_buckets)
      BY <1>2, <2>2 DEF Settled
    <3>3. Site(k) = a
      BY <1>3, <1>4, <3>1, <3>2, ChainFound
    <3> QED
      BY <1>15, <2>1, <3>3
  <2>3. /\ Old' = Old \cup {x} /\ keys'[x] = k
        /\ \A i \in Old : i # x /\ keys'[i] = keys[i] /\ keys[i] # k
    BY <1>2, <1>3, <1>9, <1>11, <1>15, <2>2 DEF Typed
  <2>4. Distinct'
    BY <1>2, <1>12, <2>3 DEF Distinct
  <2>5. \A i \in Old' : Chain(keys'[i], i, Old', n_buckets')
    BY <1>1, <1>2, <2>1, <2>3, ChainGrows DEF Settled
  <2>6. Settled'
    BY <1>1, <1>2, <1>12, <1>13, <2>5 DEF Settled
  <2> QED
    BY <1>1, <1>10, <2>4, <2>6 DEF Inv
<1> QED
  BY <1>14, <1>15

LEMMA NextInv ==
  ASSUME Inv, [Next]_vars
  PROVE  Inv'
<1>1. CASE UNCHANGED vars
  BY <1>1 DEF vars, Inv, Typed, Distinct, Settled, Moving, Old, New
<1> QED
  BY <1>1, BeginInv, ScanInv, KickInv, ResizedInv, PlaceInv DEF Next

LEMMA InvUnique ==
  ASSUME Inv
  PROVE  EachKeyOnce
BY DEF Inv, Distinct, EachKeyOnce, Old

(* However the ids collide and however often the table is rehashed in      *)
(* place, between two puts each id is in one bucket only: delete_scope,    *)
(* which frees the record of every full bucket, frees none of them twice.  *)
THEOREM NoKeyTwice == Spec => []EachKeyOnce
<1>1. Init => Inv
  BY InitInv
<1>2. Inv /\ [Next]_vars => Inv'
  BY NextInv
<1>3. Inv => EachKeyOnce
  BY InvUnique
<1> QED
  BY <1>1, <1>2, <1>3, PTL DEF Spec

-----------------------------------------------------------------------------
(* Room.  The counters are right between the rehashes only; in one, size   *)
(* counts the elements not moved yet, those moved and the one in hand, and *)
(* is below the bound of the table being built.                            *)

Shape ==
  /\ TypeOK /\ Room(keys) \in Nat
  /\ n_buckets \in {0} \cup Powers /\ upper_bound = UpperBound(n_buckets)
  /\ pc \in {"scan", "kick"} => Room(new_flags) \in Powers
  /\ pc # "idle" => arg \in Record
  /\ pc = "kick" => j < n_buckets /\ hand.val \in Record /\ hand.val.id = hand.key

Recorded == \A i \in Old \cup New : vals[i] \in Record /\ vals[i].id = keys[i]

Counted ==
  /\ pc \in {"idle", "place"} =>
       n_occupied = size /\ size = Cardinality(Old) /\ size <= upper_bound
  /\ pc = "place" => size < upper_bound
  /\ pc \in {"scan", "kick"} =>
       /\ size < UpperBound(Room(new_flags))
       /\ Cardinality(Old) + Cardinality(New) + (IF pc = "kick" THEN 1 ELSE 0) = size

Whole == Inv /\ Shape /\ Recorded /\ Counted

LEMMA UpperBoundLemma ==
  /\ UpperBound(0) = 0
  /\ \A n \in Powers : /\ UpperBound(n) \in Nat /\ 0 < UpperBound(n)
                       /\ UpperBound(n) < n /\ n <= 2 * UpperBound(n)
  /\ \A n \in Powers : \A m \in {0} \cup Powers : m < n => UpperBound(m) < UpperBound(n)
<1>1. \A n \in Nat : n >= 4 => /\ (77 * n + 50) \div 100 \in Nat
                               /\ 0 < (77 * n + 50) \div 100
                               /\ (77 * n + 50) \div 100 < n
                               /\ n <= 2 * ((77 * n + 50) \div 100)
  OBVIOUS
<1>2. \A m, n \in Nat : m + 4 <= n => (77 * m + 50) \div 100 < (77 * n + 50) \div 100
  OBVIOUS
<1>3. \A n \in Powers : \A m \in {0} \cup Powers : m < n => m \in Nat /\ n \in Nat /\ m + 4 <= n
  <2>1. \A n, m \in Nat : n % 4 = 0 /\ m % 4 = 0 /\ m < n => m + 4 <= n
    OBVIOUS
  <2> QED
    BY <2>1, PowersLemma
<1>4. (77 * 0 + 50) \div 100 = 0
  OBVIOUS
<1> QED
  BY <1>1, <1>2, <1>3, <1>4, PowersLemma DEF UpperBound

(* A full table is followed by a larger one, with room for what it holds.  *)
LEMMA Grows ==
  ASSUME Shape, Counted, pc = "idle", MustResize, \E m \in Powers : m >= Asked
  PROVE  NewBuckets \in Powers /\ size < UpperBound(NewBuckets)
<1>1. /\ n_buckets \in {0} \cup Powers /\ size = UpperBound(n_buckets)
      /\ size \in Nat /\ n_buckets \in Nat
  BY DEF Shape, Counted, MustResize, TypeOK
<1>2. n_buckets <= 2 * size
  BY <1>1, UpperBoundLemma
<1>3. Asked = n_buckets + 1
  BY <1>1, <1>2 DEF Asked
<1>4. NewBuckets \in Powers /\ NewBuckets \in Nat /\ NewBuckets >= n_buckets + 1
  BY <1>1, <1>3, NewBucketsRight
<1>5. n_buckets < NewBuckets
  BY <1>1, <1>4
<1> QED
  BY <1>1, <1>4, <1>5, UpperBoundLemma

LEMMA FullFinite ==
  ASSUME Typed
  PROVE  IsFiniteSet(Old) /\ IsFiniteSet(New)
<1>1. \A n \in Nat : IsFiniteSet(Buckets(n))
  <2>1. \A n \in Nat : n - 1 \in Int
    OBVIOUS
  <2> QED
    BY <2>1, FS_Interval DEF Buckets
<1>2. Old \subseteq Buckets(n_buckets) /\ New \subseteq Buckets(Room(new_flags))
  BY DEF Typed, Old, New, Full
<1> QED
  BY <1>1, <1>2, FS_Subset DEF Typed

LEMMA InitWhole ==
  ASSUME Init
  PROVE  Whole
<1>1. /\ n_buckets = 0 /\ size = 0 /\ n_occupied = 0 /\ upper_bound = 0
      /\ flags = Empty(0) /\ keys = Empty(0) /\ vals = Empty(0) /\ new_flags = Empty(0)
      /\ j = 0 /\ hand = NoPair /\ arg = None /\ pc = "idle"
  BY DEF Init
<1>2. /\ Room(Empty(0)) = 0 /\ Full(Empty(0)) = {}
      /\ DOMAIN Empty(0) = {} /\ Buckets(0) = {}
      /\ Empty(0) = [i \in {} |-> "empty"]
  BY EmptyLemma, BucketsLemma DEF Empty
<1>3. Old = {} /\ New = {}
  BY <1>1, <1>2 DEF Old, New
<1>4. NoPair \in Element
  BY DEF NoPair, Pair, Element
<1>5. TypeOK
  <2>1. Empty(0) \in [{} -> {"empty", "full", "deleted"}]
        /\ Empty(0) \in [{} -> {"empty", "full"}]
        /\ Empty(0) \in [{} -> Key \cup {None}] /\ Empty(0) \in [{} -> Record \cup {None}]
    BY <1>2
  <2>2. /\ Buckets(n_buckets) = {} /\ Buckets(Room(new_flags)) = {} /\ Buckets(Room(keys)) = {}
        /\ DOMAIN flags = {} /\ DOMAIN new_flags = {}
    BY <1>1, <1>2
  <2>3. /\ flags \in [Buckets(n_buckets) -> {"empty", "full", "deleted"}]
        /\ new_flags \in [Buckets(Room(new_flags)) -> {"empty", "full"}]
        /\ keys \in [Buckets(Room(keys)) -> Key \cup {None}]
        /\ vals \in [Buckets(Room(keys)) -> Record \cup {None}]
    BY <1>1, <2>1, <2>2, Zenon
  <2>4. hand \in Element /\ arg \in Record \cup {None}
    BY <1>1, <1>4
  <2>5. n_buckets \in Nat /\ j \in 0 .. n_buckets
    BY <1>1
  <2> QED
    BY <1>1, <2>2, <2>3, <2>4, <2>5 DEF TypeOK
<1>6. Shape
  BY <1>1, <1>2, <1>5, UpperBoundLemma DEF Shape
<1>7. Recorded /\ Counted
  BY <1>1, <1>3, FS_EmptySet DEF Recorded, Counted
<1> QED
  BY <1>6, <1>7, InitInv DEF Whole

(* A block of cells, extended. *)
LEMMA ExtendTyped ==
  ASSUME NEW S, NEW m \in Nat, NEW n \in Nat, NEW f \in [Buckets(m) -> S \cup {None}]
  PROVE  /\ Room(Extend(f, n)) \in Nat
         /\ DOMAIN Extend(f, n) = Buckets(Room(Extend(f, n)))
         /\ Extend(f, n) \in [Buckets(Room(Extend(f, n))) -> S \cup {None}]
         /\ DOMAIN Extend(f, n) = Buckets(m) \cup Buckets(n)
<1> DEFINE l == IF m < n THEN n ELSE m
<1>1. l \in Nat /\ Buckets(m) \cup Buckets(n) = Buckets(l)
  BY DEF Buckets
<1>2. Extend(f, n) \in [Buckets(l) -> S \cup {None}] /\ DOMAIN Extend(f, n) = Buckets(l)
  BY <1>1 DEF Extend
<1>3. Room(Extend(f, n)) = l
  BY <1>1, <1>2, BucketsLemma DEF Room
<1> QED
  BY <1>1, <1>2, <1>3

LEMMA BeginWhole ==
  ASSUME Whole, NEW r \in Record, Begin(r)
  PROVE  Whole'
<1>1. /\ pc = "idle" /\ arg' = r
      /\ n_buckets' = n_buckets /\ size' = size /\ n_occupied' = n_occupied
      /\ upper_bound' = upper_bound /\ flags' = flags /\ j' = j /\ hand' = hand
  BY DEF Begin
<1>2. Shape /\ TypeOK /\ Recorded /\ Counted /\ Typed /\ New = {}
  BY <1>1 DEF Whole, Shape, Inv, Settled
<1>3. Inv'
  BY BeginInv DEF Whole
<1>4. CASE MustResize
  <2>1. NewBuckets \in Powers /\ NewBuckets \in Nat /\ size < UpperBound(NewBuckets)
    BY <1>1, <1>2, <1>4, Grows, PowersLemma DEF Begin
  <2>2. /\ new_flags' = Empty(NewBuckets)
        /\ keys' = Extend(keys, NewBuckets) /\ vals' = Extend(vals, NewBuckets)
        /\ pc' = "scan"
    BY <1>4, <2>1 DEF Begin
  <2>3. /\ Room(new_flags') = NewBuckets /\ Full(new_flags') = {}
        /\ DOMAIN new_flags' = Buckets(NewBuckets)
        /\ new_flags' \in [Buckets(NewBuckets) -> {"empty", "full"}]
    BY <2>1, <2>2, EmptyLemma
  <2>4. /\ Room(keys') \in Nat
        /\ keys' \in [Buckets(Room(keys')) -> Key \cup {None}]
        /\ vals' \in [Buckets(Room(keys')) -> Record \cup {None}]
        /\ DOMAIN keys' = DOMAIN keys \cup Buckets(NewBuckets)
    <3> DEFINE m == Room(keys)
    <3>1. m \in Nat /\ keys \in [Buckets(m) -> Key \cup {None}] /\ vals \in [Buckets(m) -> Record \cup {None}]
      BY <1>2 DEF Shape, TypeOK
    <3> HIDE DEF m
    <3>2. /\ Room(keys') \in Nat
          /\ DOMAIN keys' = Buckets(Room(keys')) /\ keys' \in [Buckets(Room(keys')) -> Key \cup {None}]
          /\ DOMAIN keys' = Buckets(m) \cup Buckets(NewBuckets)
      <4> DEFINE e == Extend(keys, NewBuckets)
      <4>1. /\ Room(e) \in Nat
            /\ DOMAIN e = Buckets(Room(e)) /\ e \in [Buckets(Room(e)) -> Key \cup {None}]
            /\ DOMAIN e = Buckets(m) \cup Buckets(NewBuckets)
        <5>1. \A f : f \in [Buckets(m) -> Key \cup {None}] =>
                /\ Room(Extend(f, NewBuckets)) \in Nat
                /\ DOMAIN Extend(f, NewBuckets) = Buckets(Room(Extend(f, NewBuckets)))
                /\ Extend(f, NewBuckets) \in [Buckets(Room(Extend(f, NewBuckets))) -> Key \cup {None}]
                /\ DOMAIN Extend(f, NewBuckets) = Buckets(m) \cup Buckets(NewBuckets)
          BY <2>1, <3>1, ExtendTyped
        <5> QED
          BY <3>1, <5>1
      <4>2. keys' = e
        BY <2>2
      <4> HIDE DEF e
      <4> QED
        BY <4>1, <4>2
    <3>3. /\ vals' \in [Buckets(Room(vals')) -> Record \cup {None}]
          /\ DOMAIN vals' = Buckets(Room(vals'))
          /\ DOMAIN vals' = Buckets(m) \cup Buckets(NewBuckets)
      BY <2>1, <2>2, <3>1, ExtendTyped
    <3> QED
      BY <3>1, <3>2, <3>3
  <2>5. TypeOK'
    BY <1>1, <1>2, <2>2, <2>3, <2>4 DEF TypeOK
  <2>6. Shape'
    BY <1>1, <1>2, <2>1, <2>2, <2>3, <2>4, <2>5 DEF Shape
  <2>7. Old' = Old /\ New' = {} /\ Old \subseteq DOMAIN keys /\ Old \subseteq DOMAIN vals
    BY <1>1, <1>2, <2>3 DEF Old, New, Full, TypeOK
  <2>8. Recorded'
    <3>1. \A i \in Old : keys'[i] = keys[i] /\ vals'[i] = vals[i]
      BY <2>2, <2>7, ExtendLemma
    <3> QED
      BY <1>2, <2>7, <3>1 DEF Recorded
  <2>9. Counted'
    <3>1. Cardinality(New') = 0 /\ Cardinality(Old') = size
      BY <1>1, <1>2, <2>7, FS_EmptySet DEF Counted
    <3> QED
      BY <1>1, <1>2, <2>1, <2>2, <2>3, <3>1 DEF Counted, TypeOK
  <2> QED
    BY <1>3, <2>6, <2>8, <2>9 DEF Whole
<1>5. CASE ~ MustResize
  <2>1. pc' = "place" /\ new_flags' = new_flags /\ keys' = keys /\ vals' = vals
    BY <1>5 DEF Begin
  <2>2. Shape'
    BY <1>1, <1>2, <2>1 DEF Shape, TypeOK
  <2>3. Recorded'
    BY <1>1, <1>2, <2>1 DEF Recorded, Old, New
  <2>4. n_occupied < upper_bound
    BY <1>2, <1>5 DEF MustResize, TypeOK
  <2>5. Counted'
    BY <1>1, <1>2, <2>1, <2>4 DEF Counted, Old
  <2> QED
    BY <1>3, <2>2, <2>3, <2>5 DEF Whole
<1> QED
  BY <1>4, <1>5

LEMMA ScanWhole ==
  ASSUME Whole, Scan
  PROVE  Whole'
<1>1. /\ pc = "scan" /\ j # n_buckets
      /\ n_buckets' = n_buckets /\ size' = size /\ n_occupied' = n_occupied
      /\ upper_bound' = upper_bound /\ keys' = keys /\ vals' = vals
      /\ new_flags' = new_flags /\ arg' = arg
  BY DEF Scan
<1>2. Shape /\ TypeOK /\ Recorded /\ Counted /\ Typed
  BY DEF Whole, Shape, Inv
<1>3. Inv'
  BY ScanInv DEF Whole
<1>4. /\ j \in Nat /\ j < n_buckets /\ n_buckets \in Nat
      /\ Old \subseteq DOMAIN flags /\ Old \subseteq DOMAIN keys /\ DOMAIN vals = DOMAIN keys
  BY <1>1, <1>2 DEF TypeOK, Old, Full
<1>5. CASE j \in Old
  <2>1. /\ hand' = Pair(keys[j], vals[j]) /\ flags' = [flags EXCEPT ![j] = "deleted"]
        /\ pc' = "kick" /\ j' = j
    BY <1>5 DEF Scan, Old
  <2>2. Old' = Old \ {j} /\ New' = New
    BY <1>1, <1>2, <1>5, <2>1 DEF TypeOK, Old, New, Full
  <2>3. /\ keys[j] \in Key \cup {None} /\ vals[j] \in Record /\ vals[j].id = keys[j]
    BY <1>2, <1>4, <1>5 DEF TypeOK, Recorded
  <2>4. hand' \in Element /\ hand'.val \in Record /\ hand'.val.id = hand'.key
    BY <2>1, <2>3 DEF Pair, Element
  <2>5. TypeOK'
    <3>1. flags' \in [Buckets(n_buckets) -> {"empty", "full", "deleted"}] /\ DOMAIN flags' = DOMAIN flags
      BY <1>2, <2>1 DEF TypeOK
    <3> QED
      BY <1>1, <1>2, <2>1, <2>4, <3>1 DEF TypeOK
  <2>6. Shape'
    BY <1>1, <1>2, <1>4, <2>1, <2>4, <2>5 DEF Shape
  <2>7. Recorded'
    BY <1>1, <1>2, <2>2 DEF Recorded
  <2>8. Cardinality(Old') = Cardinality(Old) - 1 /\ Cardinality(Old) \in Nat /\ Cardinality(New) \in Nat
    BY <1>2, <1>5, <2>2, FullFinite, FS_RemoveElement, FS_CardinalityType
  <2>9. Counted'
    BY <1>1, <1>2, <2>1, <2>2, <2>8 DEF Counted
  <2> QED
    BY <1>3, <2>6, <2>7, <2>9 DEF Whole
<1>6. CASE j \notin Old
  <2>1. j' = j + 1 /\ flags' = flags /\ hand' = hand /\ pc' = pc
    BY <1>6 DEF Scan, Old
  <2>2. j' \in 0 .. n_buckets
    BY <1>4, <2>1
  <2>3. TypeOK'
    BY <1>1, <1>2, <2>1, <2>2 DEF TypeOK
  <2>4. Shape'
    BY <1>1, <1>2, <2>1, <2>3 DEF Shape
  <2>5. Recorded' /\ Counted'
    BY <1>1, <1>2, <2>1 DEF Recorded, Counted, Old, New
  <2> QED
    BY <1>3, <2>4, <2>5 DEF Whole
<1> QED
  BY <1>5, <1>6

LEMMA KickWhole ==
  ASSUME Whole, Kick
  PROVE  Whole'
<1> DEFINE b == NewSite
<1>1. /\ pc = "kick"
      /\ new_flags' = [new_flags EXCEPT ![b] = "full"]
      /\ keys' = [keys EXCEPT ![b] = hand.key] /\ vals' = [vals EXCEPT ![b] = hand.val]
      /\ n_buckets' = n_buckets /\ size' = size /\ n_occupied' = n_occupied
      /\ upper_bound' = upper_bound /\ arg' = arg
  BY DEF Kick
<1>2. /\ Shape /\ TypeOK /\ Recorded /\ Counted /\ Typed /\ Moving
      /\ hand.key \in Key /\ hand.val \in Record /\ hand.val.id = hand.key
      /\ j < n_buckets /\ Room(new_flags) \in Powers
  BY <1>1 DEF Whole, Shape, Inv, Moving
<1>3. Inv'
  BY KickInv DEF Whole
<1>4. /\ b \in DOMAIN new_flags /\ b \in DOMAIN keys /\ b \notin New
      /\ New' = New \cup {b} /\ DOMAIN new_flags' = DOMAIN new_flags
      /\ Old' = Old \ {b} /\ (Kicks(b) <=> b \in Old)
      /\ Old \subseteq DOMAIN keys /\ New \subseteq DOMAIN keys
  BY KickFacts DEF Whole
<1>5. IF b \in Old
      THEN hand' = Pair(keys[b], vals[b]) /\ j' = j /\ pc' = "kick"
           /\ flags' = [flags EXCEPT ![b] = "deleted"]
      ELSE hand' = NoPair /\ j' = j + 1 /\ pc' = "scan" /\ flags' = flags
  BY <1>1, <1>4 DEF Kick
<1> HIDE DEF b
<1>6. /\ DOMAIN vals = DOMAIN keys /\ DOMAIN keys' = DOMAIN keys
      /\ keys' \in [DOMAIN keys -> Key \cup {None}] /\ vals' \in [DOMAIN keys -> Record \cup {None}]
      /\ Room(keys') = Room(keys) /\ Room(new_flags') = Room(new_flags)
  BY <1>1, <1>2, <1>4 DEF TypeOK, Room
<1>7. /\ keys'[b] = hand.key /\ vals'[b] = hand.val
      /\ \A i \in DOMAIN keys : i # b => keys'[i] = keys[i] /\ vals'[i] = vals[i]
  BY <1>1, <1>2, <1>4, <1>6 DEF TypeOK
<1>8. /\ hand' \in Element
      /\ pc' = "kick" => hand'.val \in Record /\ hand'.val.id = hand'.key
  <2>1. CASE b \in Old
    <3>1. keys[b] \in Key \cup {None} /\ vals[b] \in Record /\ vals[b].id = keys[b]
      BY <1>2, <1>4, <2>1 DEF TypeOK, Recorded
    <3>2. hand' = Pair(keys[b], vals[b])
      BY <1>5, <2>1
    <3> QED
      BY <3>1, <3>2 DEF Pair, Element
  <2>2. CASE b \notin Old
    BY <1>5, <2>2 DEF NoPair, Pair, Element
  <2> QED
    BY <2>1, <2>2
<1>9. /\ flags' \in [Buckets(n_buckets) -> {"empty", "full", "deleted"}]
      /\ DOMAIN flags' = DOMAIN flags
  BY <1>2, <1>5 DEF TypeOK
<1>10. j' \in 0 .. n_buckets /\ pc' \in {"scan", "kick"} /\ (pc' = "kick" => j' < n_buckets)
  <2>1. j \in Nat /\ n_buckets \in Nat
    BY <1>2 DEF TypeOK
  <2> QED
    BY <1>2, <1>5, <2>1
<1>11. TypeOK'
  <2>1. keys' \in [Buckets(Room(keys')) -> Key \cup {None}] /\ vals' \in [Buckets(Room(keys')) -> Record \cup {None}]
    BY <1>2, <1>6 DEF TypeOK
  <2>2. new_flags' \in [Buckets(Room(new_flags')) -> {"empty", "full"}]
    BY <1>1, <1>2, <1>6 DEF TypeOK
  <2>3. DOMAIN flags' \cup DOMAIN new_flags' \subseteq DOMAIN keys'
    BY <1>2, <1>4, <1>6, <1>9 DEF TypeOK
  <2> QED
    BY <1>1, <1>2, <1>8, <1>9, <1>10, <2>1, <2>2, <2>3 DEF TypeOK
<1>12. Shape'
  BY <1>1, <1>2, <1>6, <1>8, <1>10, <1>11 DEF Shape
<1>13. Recorded'
  BY <1>2, <1>4, <1>7 DEF Recorded
<1>14. Counted'
  <2>1. /\ Cardinality(New') = Cardinality(New) + 1
        /\ Cardinality(Old') = IF b \in Old THEN Cardinality(Old) - 1 ELSE Cardinality(Old)
        /\ Cardinality(Old) \in Nat /\ Cardinality(New) \in Nat
    BY <1>2, <1>4, FullFinite, FS_AddElement, FS_RemoveElement, FS_CardinalityType
  <2>2. size \in Nat
    BY <1>2 DEF TypeOK
  <2>3. /\ size < UpperBound(Room(new_flags))
        /\ Cardinality(Old) + Cardinality(New) + 1 = size
    BY <1>1, <1>2 DEF Counted
  <2>4. Cardinality(Old') + Cardinality(New') + (IF pc' = "kick" THEN 1 ELSE 0) = size
    BY <1>5, <2>1, <2>3
  <2> QED
    BY <1>1, <1>6, <1>10, <2>3, <2>4 DEF Counted
<1> QED
  BY <1>3, <1>12, <1>13, <1>14 DEF Whole

(* When every bucket has been come to, every element has been moved. *)
LEMMA AllMoved ==
  ASSUME Inv, Resized
  PROVE  Old = {}
<1>1. Typed /\ Moving /\ j = n_buckets
  BY DEF Inv, Resized
<1>2. \A i \in Old : i \in Nat /\ i < n_buckets
  BY <1>1, BucketsLemma DEF Typed, Old, Full
<1> QED
  BY <1>1, <1>2 DEF Typed, Moving

LEMMA ResizedWhole ==
  ASSUME Whole, Resized
  PROVE  Whole'
<1>1. /\ pc = "scan"
      /\ flags' = new_flags /\ new_flags' = Empty(0)
      /\ n_buckets' = Room(new_flags) /\ n_occupied' = size
      /\ upper_bound' = UpperBound(Room(new_flags)) /\ j' = 0 /\ pc' = "place"
      /\ size' = size /\ keys' = keys /\ vals' = vals /\ hand' = hand /\ arg' = arg
  BY DEF Resized
<1>2. /\ Shape /\ TypeOK /\ Recorded /\ Counted /\ Old = {}
      /\ Room(new_flags) \in Powers /\ Room(new_flags) \in Nat /\ arg \in Record
  BY <1>1, AllMoved, PowersLemma DEF Whole, Shape
<1>3. Inv'
  BY ResizedInv DEF Whole
<1>4. /\ Room(Empty(0)) = 0 /\ Full(Empty(0)) = {} /\ DOMAIN Empty(0) = {}
      /\ Empty(0) \in [Buckets(0) -> {"empty", "full"}]
  BY EmptyLemma, BucketsLemma
<1>5. Old' = New /\ New' = {}
  BY <1>1, <1>4 DEF Old, New
<1>6. TypeOK'
  <2>1. flags' \in [Buckets(n_buckets') -> {"empty", "full", "deleted"}]
    BY <1>1, <1>2 DEF TypeOK
  <2>2. new_flags' \in [Buckets(Room(new_flags')) -> {"empty", "full"}]
    BY <1>1, <1>4, Zenon
  <2>3. upper_bound' \in Nat /\ j' \in 0 .. n_buckets'
    BY <1>1, <1>2, UpperBoundLemma
  <2>4. DOMAIN flags' \cup DOMAIN new_flags' \subseteq DOMAIN keys'
    BY <1>1, <1>2, <1>4 DEF TypeOK
  <2> QED
    BY <1>1, <1>2, <2>1, <2>2, <2>3, <2>4 DEF TypeOK
<1>7. Shape'
  BY <1>1, <1>2, <1>6 DEF Shape
<1>8. Recorded'
  BY <1>1, <1>2, <1>5 DEF Recorded
<1>9. Counted'
  <2>1. /\ size = Cardinality(New) /\ size < UpperBound(Room(new_flags))
    <3>1. /\ Cardinality(Old) + Cardinality(New) + 0 = size
          /\ size < UpperBound(Room(new_flags))
      BY <1>1, <1>2 DEF Counted
    <3>2. Cardinality(Old) = 0
      BY <1>2, FS_EmptySet
    <3>3. Cardinality(New) \in Nat
      BY FullFinite, FS_CardinalityType DEF Whole, Inv
    <3> QED
      BY <3>1, <3>2, <3>3
  <2>2. size \in Nat /\ UpperBound(Room(new_flags)) \in Nat
    BY <1>2, UpperBoundLemma DEF TypeOK
  <2> QED
    BY <1>1, <1>5, <2>1, <2>2 DEF Counted
<1> QED
  BY <1>3, <1>7, <1>8, <1>9 DEF Whole

(* In a table with room the probing for any id ends, at an empty bucket or *)
(* at the bucket of the id.                                                *)
LEMMA SiteFound ==
  ASSUME Whole, pc = "place", NEW k \in Key
  PROVE  /\ n_buckets \in Powers /\ Site(k) \in DOMAIN flags /\ Site(k) # n_buckets
         /\ Site(k) \in Old => keys[Site(k)] = k
         /\ \A a \in Old : keys[a] = k => Site(k) = a
<1> DEFINE S == {i \in DOMAIN flags : flags[i] = "empty" \/ (flags[i] = "full" /\ keys[i] = k)}
<1>1. /\ TypeOK /\ Typed /\ Distinct /\ Settled /\ Counted /\ k \in Nat
      /\ n_buckets \in {0} \cup Powers /\ upper_bound = UpperBound(n_buckets)
  BY HashTableAssumption DEF Whole, Inv, Shape
<1>2. size < upper_bound /\ size \in Nat /\ size = Cardinality(Old)
  BY <1>1 DEF Counted, TypeOK
<1>3. n_buckets \in Powers /\ size < n_buckets /\ n_buckets \in Nat
  <2>1. n_buckets # 0
    BY <1>1, <1>2, UpperBoundLemma
  <2>2. n_buckets \in Powers
    BY <1>1, <2>1
  <2> QED
    BY <1>1, <1>2, <2>2, UpperBoundLemma, PowersLemma
<1>4. /\ DOMAIN flags = Buckets(n_buckets) /\ Old \subseteq Buckets(n_buckets)
      /\ Cardinality(Buckets(n_buckets)) = n_buckets
      /\ \A i \in DOMAIN flags : flags[i] = "empty" \/ i \in Old
      /\ n_buckets \notin Buckets(n_buckets)
  BY <1>1, <1>3, BucketsLemma DEF TypeOK, Settled, Old, Full
<1>5. Old # Buckets(n_buckets)
  BY <1>2, <1>3, <1>4
<1>6. S # {} /\ S \subseteq Buckets(n_buckets)
  <2>1. PICK i \in Buckets(n_buckets) : i \notin Old
    BY <1>4, <1>5
  <2> QED
    BY <1>4, <2>1
<1>7. Site(k) = Reached(k, n_buckets, S)
  BY DEF Site
<1>8. \A i \in DOMAIN flags : i \in S <=> (i \notin Old \/ keys[i] = k)
  BY <1>4 DEF Old, Full
<1> HIDE DEF S
<1>9. Site(k) \in S /\ Site(k) # n_buckets
  BY <1>1, <1>3, <1>6, <1>7, ReachedInside
<1>10. ASSUME NEW a \in Old, keys[a] = k
       PROVE  Site(k) = a
  <2>1. a \in S /\ \A i \in Old \ {a} : i \notin S
    BY <1>1, <1>4, <1>8, <1>10 DEF Distinct
  <2>2. Chain(k, a, Old, n_buckets)
    BY <1>1, <1>10 DEF Settled
  <2> QED
    BY <1>3, <1>7, <2>1, <2>2, ChainFound
<1> QED
  BY <1>3, <1>4, <1>6, <1>8, <1>9, <1>10

(* What a put changes. *)
LEMMA PlaceFacts ==
  ASSUME Whole, Place
  PROVE  LET x == Site(arg.id)
         IN  /\ arg \in Record /\ arg.id \in Key
             /\ x \in DOMAIN flags /\ x \in DOMAIN keys
             /\ flags' = [flags EXCEPT ![x] = "full"] /\ vals' = [vals EXCEPT ![x] = arg]
             /\ Old' = Old \cup {x} /\ New = {} /\ New' = {}
             /\ x \in Old => /\ keys[x] = arg.id
                             /\ UNCHANGED <<size, n_occupied, keys>>
             /\ x \notin Old => /\ keys' = [keys EXCEPT ![x] = arg.id]
                                /\ size' = size + 1 /\ n_occupied' = n_occupied + 1
             /\ \A a \in Old : keys[a] = arg.id => a = x
<1> DEFINE x == Site(arg.id)
<1>1. /\ pc = "place" /\ arg \in Record /\ TypeOK /\ Settled
      /\ arg.id \in Key
  BY DEF Place, Whole, Shape, Inv, Key
<1>2. /\ x \in DOMAIN flags /\ x # n_buckets
      /\ x \in Old => keys[x] = arg.id
      /\ \A a \in Old : keys[a] = arg.id => x = a
  BY <1>1, SiteFound
<1>3. PutSite(arg.id) = x
  BY <1>2 DEF PutSite
<1>4. /\ flags' = [flags EXCEPT ![x] = "full"] /\ vals' = [vals EXCEPT ![x] = arg]
      /\ Occupy(x) /\ new_flags' = new_flags
  BY <1>3 DEF Place
<1> HIDE DEF x
<1>5. x \in DOMAIN keys
  BY <1>1, <1>2 DEF TypeOK
<1>6. Old' = Old \cup {x}
  BY <1>1, <1>2, <1>4 DEF Old, Full, TypeOK
<1>7. New = {} /\ New' = {}
  BY <1>1, <1>4 DEF Settled, New
<1>8. /\ x \in Old => UNCHANGED <<size, n_occupied, keys>>
      /\ x \notin Old => /\ keys' = [keys EXCEPT ![x] = arg.id]
                         /\ size' = size + 1 /\ n_occupied' = n_occupied + 1
  BY <1>4 DEF Occupy, Old
<1> QED
  BY <1>1, <1>2, <1>4, <1>5, <1>6, <1>7, <1>8 DEF x

LEMMA PlaceWhole ==
  ASSUME Whole, Place
  PROVE  Whole'
<1> DEFINE x == Site(arg.id)
           k == arg.id
<1>1. /\ pc = "place" /\ arg' = None /\ pc' = "idle"
      /\ n_buckets' = n_buckets /\ upper_bound' = upper_bound /\ new_flags' = new_flags
      /\ j' = j /\ hand' = hand
  BY DEF Place
<1>2. /\ Shape /\ TypeOK /\ Recorded /\ Counted
  BY DEF Whole, Shape
<1>3. Inv'
  BY PlaceInv DEF Whole
<1>4. /\ arg \in Record /\ k \in Key
      /\ x \in DOMAIN flags /\ x \in DOMAIN keys
      /\ flags' = [flags EXCEPT ![x] = "full"] /\ vals' = [vals EXCEPT ![x] = arg]
      /\ Old' = Old \cup {x} /\ New = {} /\ New' = {}
      /\ x \in Old => keys[x] = k /\ UNCHANGED <<size, n_occupied, keys>>
      /\ x \notin Old => /\ keys' = [keys EXCEPT ![x] = k]
                         /\ size' = size + 1 /\ n_occupied' = n_occupied + 1
  BY PlaceFacts
<1>5. arg.id = k
  OBVIOUS
<1> HIDE DEF x, k
<1>6. /\ DOMAIN vals = DOMAIN keys /\ DOMAIN keys' = DOMAIN keys
      /\ keys' \in [DOMAIN keys -> Key \cup {None}] /\ vals' \in [DOMAIN keys -> Record \cup {None}]
      /\ Room(keys') = Room(keys)
  <2>1. keys \in [DOMAIN keys -> Key \cup {None}] /\ vals \in [DOMAIN keys -> Record \cup {None}]
    BY <1>2 DEF TypeOK
  <2>2. keys' \in [DOMAIN keys -> Key \cup {None}] /\ vals' \in [DOMAIN keys -> Record \cup {None}]
    BY <1>4, <2>1
  <2> QED
    BY <2>1, <2>2 DEF Room
<1>7. /\ keys'[x] = k /\ vals'[x] = arg
      /\ \A i \in DOMAIN keys : i # x => keys'[i] = keys[i] /\ vals'[i] = vals[i]
  BY <1>4, <1>6, <1>2 DEF TypeOK
<1>8. /\ flags' \in [Buckets(n_buckets) -> {"empty", "full", "deleted"}]
      /\ DOMAIN flags' = DOMAIN flags
  BY <1>2, <1>4 DEF TypeOK
<1>9. size' \in Nat /\ n_occupied' \in Nat
  BY <1>2, <1>4 DEF TypeOK
<1>10. TypeOK'
  <2>1. keys' \in [Buckets(Room(keys')) -> Key \cup {None}] /\ vals' \in [Buckets(Room(keys')) -> Record \cup {None}]
    BY <1>2, <1>6 DEF TypeOK
  <2>2. DOMAIN flags' \cup DOMAIN new_flags' \subseteq DOMAIN keys'
    BY <1>1, <1>2, <1>6, <1>8 DEF TypeOK
  <2> QED
    BY <1>1, <1>2, <1>8, <1>9, <2>1, <2>2 DEF TypeOK
<1>11. Shape'
  BY <1>1, <1>2, <1>6, <1>10 DEF Shape
<1>12. Recorded'
  <2>1. Old \subseteq DOMAIN keys
    BY <1>2 DEF TypeOK, Old, Full
  <2> QED
    BY <1>2, <1>4, <1>5, <1>7, <2>1 DEF Recorded
<1>13. Counted'
  <2>1. /\ n_occupied = size /\ size = Cardinality(Old) /\ size < upper_bound
        /\ size \in Nat /\ upper_bound \in Nat
    BY <1>1, <1>2 DEF Counted, TypeOK
  <2>2. Cardinality(Old') = IF x \in Old THEN size ELSE size + 1
    BY <1>4, <2>1, FullFinite, FS_AddElement DEF Whole, Inv
  <2>3. n_occupied' = size' /\ size' = Cardinality(Old') /\ size' <= upper_bound
    BY <1>4, <2>1, <2>2
  <2> QED
    BY <1>1, <2>3 DEF Counted
<1> QED
  BY <1>3, <1>11, <1>12, <1>13 DEF Whole

LEMMA NextWhole ==
  ASSUME Whole, [Next]_vars
  PROVE  Whole'
<1>1. CASE UNCHANGED vars
  <2>1. Inv'
    BY <1>1, NextInv DEF Whole
  <2>2. Shape' /\ Recorded' /\ Counted'
    BY <1>1 DEF vars, Whole, Shape, TypeOK, Recorded, Counted, Old, New
  <2> QED
    BY <2>1, <2>2 DEF Whole
<1> QED
  BY <1>1, BeginWhole, ScanWhole, KickWhole, ResizedWhole, PlaceWhole DEF Next

LEMMA WholeRoom ==
  ASSUME Whole
  PROVE  RoomForProbing
<1>1. TypeOK /\ Shape /\ Counted
  BY DEF Whole, Shape
<1>2. ASSUME pc \in {"idle", "place"}
      PROVE  /\ size = Cardinality(Full(flags)) /\ n_occupied = size
             /\ n_buckets > 0 => size < n_buckets
  <2>1. n_occupied = size /\ size = Cardinality(Old) /\ size <= UpperBound(n_buckets)
    BY <1>1, <1>2 DEF Counted, Shape
  <2>2. n_buckets > 0 => n_buckets \in Powers /\ n_buckets \in Nat
    BY <1>1, PowersLemma DEF Shape, TypeOK
  <2>3. size \in Nat
    BY <1>1 DEF TypeOK
  <2> QED
    BY <2>1, <2>2, <2>3, UpperBoundLemma DEF Old
<1>3. pc = "place" => \A k \in Key : Site(k) # n_buckets
  BY SiteFound
<1> QED
  BY <1>2, <1>3 DEF RoomForProbing

LEMMA AlwaysWhole == Spec => []Whole
<1>1. Init => Whole
  BY InitWhole
<1>2. Whole /\ [Next]_vars => Whole'
  BY NextWhole
<1> QED
  BY <1>1, <1>2, PTL DEF Spec

(* Every variable of the table keeps its type; the blocks of keys and of   *)
(* records always have a cell for every bucket of both tables.             *)
THEOREM TypesRight == Spec => []TypeOK
<1>1. Whole => TypeOK
  BY DEF Whole, Shape
<1> QED
  BY <1>1, AlwaysWhole, PTL

(* Between rehashes the counters tell what is in the buckets, and the      *)
(* probing of kh_put for any id ends: the table always keeps an empty      *)
(* bucket, and since its size is a power of two the steps 1, 2, 3, ... of  *)
(* the probing come to every bucket.                                       *)
THEOREM ProbingEnds == Spec => []RoomForProbing
<1>1. Whole => RoomForProbing
  BY WholeRoom
<1> QED
  BY <1>1, AlwaysWhole, PTL

-----------------------------------------------------------------------------
(* The map.  What a search finds is what the table holds; no step of a     *)
(* rehash changes what it holds, and a put is one step of the map.         *)

LEMMA HeldLemma ==
  \A p : p \in Held <=> \/ \E i \in Old \cup New : p = Pair(keys[i], vals[i])
                        \/ pc = "kick" /\ p = hand
BY DEF Held, Old, New

Holds(k, v) == \E p \in Held : p.key = k /\ p.val = v

HoldsIs ==
  \A k, v : Holds(k, v) <=>
    \/ \E i \in Old \cup New : keys[i] = k /\ vals[i] = v
    \/ pc = "kick" /\ hand.key = k /\ hand.val = v

LEMMA HoldsLemma == HoldsIs
<1> SUFFICES ASSUME NEW k, NEW v
             PROVE  Holds(k, v) <=>
                      \/ \E i \in Old \cup New : keys[i] = k /\ vals[i] = v
                      \/ pc = "kick" /\ hand.key = k /\ hand.val = v
  BY DEF HoldsIs
<1>1. \A i : Pair(keys[i], vals[i]).key = keys[i] /\ Pair(keys[i], vals[i]).val = vals[i]
  BY DEF Pair
<1>2. ASSUME NEW i \in Old \cup New, keys[i] = k, vals[i] = v
      PROVE  Holds(k, v)
  <2>1. Pair(keys[i], vals[i]) \in Held
    BY HeldLemma
  <2> QED
    BY <1>1, <1>2, <2>1 DEF Holds
<1>3. pc = "kick" /\ hand.key = k /\ hand.val = v => Holds(k, v)
  BY HeldLemma DEF Holds
<1>4. ASSUME NEW p \in Held, p.key = k, p.val = v
      PROVE  \/ \E i \in Old \cup New : keys[i] = k /\ vals[i] = v
             \/ pc = "kick" /\ hand.key = k /\ hand.val = v
  BY <1>1, <1>4, HeldLemma
<1> QED
  BY <1>2, <1>3, <1>4 DEF Holds

(* The searches between the rehashes. *)
LEMMA SearchRight ==
  ASSUME Whole, pc \in {"idle", "place"}, NEW k \in Key
  PROVE  /\ \A a \in Old : keys[a] = k => Lookup(k) = vals[a]
         /\ (\A a \in Old : keys[a] # k) => Lookup(k) = None
<1> DEFINE S == {i \in DOMAIN flags : flags[i] = "empty" \/ (flags[i] = "full" /\ keys[i] = k)}
<1>1. Typed /\ Distinct /\ Settled
  BY DEF Whole, Inv
<1>2. /\ n_buckets \in Nat /\ Old \subseteq DOMAIN flags /\ n_buckets \notin DOMAIN flags
      /\ \A i \in DOMAIN flags : i \in Old <=> flags[i] = "full"
      /\ \A i \in DOMAIN flags : flags[i] = "empty" \/ i \in Old
  BY <1>1, BucketsLemma DEF Typed, Settled, Old, Full
<1>3. Site(k) = Reached(k, n_buckets, S)
  BY DEF Site
<1>4. \A i \in DOMAIN flags : i \in S <=> (i \notin Old \/ keys[i] = k)
  BY <1>2
<1>5. S \subseteq DOMAIN flags
  OBVIOUS
<1> HIDE DEF S
<1>6. Lookup(k) = IF Site(k) \in Old THEN vals[Site(k)] ELSE None
  <2>1. kh_get(k) = IF Site(k) \in Old THEN Site(k) ELSE n_buckets
    BY DEF kh_get, Old
  <2> QED
    BY <1>2, <2>1 DEF Lookup
<1>7. ASSUME NEW a \in Old, keys[a] = k
      PROVE  Site(k) = a
  <2>1. a \in S /\ \A i \in Old \ {a} : i \notin S
    BY <1>1, <1>2, <1>4, <1>7 DEF Distinct
  <2>2. Chain(k, a, Old, n_buckets)
    BY <1>1, <1>7 DEF Settled
  <2> QED
    BY <1>2, <1>3, <2>1, <2>2, ChainFound
<1>8. ASSUME Site(k) \in Old
      PROVE  keys[Site(k)] = k
  <2>1. Site(k) # n_buckets
    BY <1>2, <1>8
  <2>2. Site(k) \in S
    BY <1>2, <1>3, <2>1, ReachedSome DEF First
  <2> QED
    BY <1>2, <1>4, <1>8, <2>2
<1> QED
  BY <1>6, <1>7, <1>8

(* An id is in one bucket or in hand. *)
LEMMA HoldsOne ==
  ASSUME Whole, NEW p \in Held, NEW q \in Held, p.key = q.key
  PROVE  p = q
<1>1. Distinct /\ (pc = "kick" => \A i \in Old \cup New : keys[i] # hand.key)
  BY DEF Whole, Inv, Moving
<1>2. \A i : Pair(keys[i], vals[i]).key = keys[i]
  BY DEF Pair
<1> QED
  BY <1>1, <1>2, HeldLemma DEF Distinct

LookupIs ==
  \A k \in Key : /\ \A v : Holds(k, v) => Lookup(k) = v
                 /\ (\A v : ~ Holds(k, v)) => Lookup(k) = None

LEMMA LookupHolds == Whole => LookupIs
<1> SUFFICES ASSUME Whole, NEW k \in Key
             PROVE  /\ \A v : Holds(k, v) => Lookup(k) = v
                    /\ (\A v : ~ Holds(k, v)) => Lookup(k) = None
  BY DEF LookupIs
<1>1. CASE pc \in {"idle", "place"}
  <2>1. New = {}
    BY <1>1 DEF Whole, Inv, Settled
  <2>2. \A v : Holds(k, v) <=> \E i \in Old : keys[i] = k /\ vals[i] = v
    BY <1>1, <2>1, HoldsLemma DEF HoldsIs
  <2> QED
    BY <1>1, <2>2, SearchRight
<1>2. CASE pc \in {"scan", "kick"}
  <2>1. Lookup(k) = IF \E p \in Held : p.key = k
                    THEN (CHOOSE p \in Held : p.key = k).val ELSE None
    BY <1>2 DEF Lookup
  <2>2. ASSUME NEW v, Holds(k, v)
        PROVE  Lookup(k) = v
    <3>1. PICK p \in Held : p.key = k /\ p.val = v
      BY <2>2 DEF Holds
    <3>2. (CHOOSE q \in Held : q.key = k) = p
      <4> DEFINE c == CHOOSE q \in Held : q.key = k
      <4>1. c \in Held /\ c.key = k
        BY <3>1
      <4> HIDE DEF c
      <4>2. c = p
        BY <3>1, <4>1, HoldsOne
      <4> QED
        BY <4>2 DEF c
    <3> QED
      BY <2>1, <3>1, <3>2
  <2>3. (\A v : ~ Holds(k, v)) => ~ \E p \in Held : p.key = k
    BY DEF Holds
  <2> QED
    BY <2>1, <2>2, <2>3
<1> QED
  BY <1>1, <1>2 DEF Whole, Inv, Typed

(* The steps of a rehash. *)
SameHolds == \A k, v : Holds(k, v)' <=> Holds(k, v)

LEMMA BeginHolds ==
  ASSUME Whole, NEW r \in Record, Begin(r)
  PROVE  SameHolds
<1>1. HoldsIs /\ HoldsIs'
  BY HoldsLemma, PTL
<1>2. /\ pc = "idle" /\ pc' # "kick" /\ flags' = flags /\ New = {} /\ TypeOK
  BY DEF Begin, Whole, Inv, Settled, Shape
<1>3. Old' = Old /\ Old \subseteq DOMAIN keys /\ Old \subseteq DOMAIN vals
  BY <1>2 DEF Old, Full, TypeOK
<1>4. New' = {} /\ \A i \in Old : keys'[i] = keys[i] /\ vals'[i] = vals[i]
  <2>1. CASE MustResize /\ size < UpperBound(NewBuckets)
    <3>1. /\ new_flags' = Empty(NewBuckets) /\ NewBuckets \in Nat
          /\ keys' = Extend(keys, NewBuckets) /\ vals' = Extend(vals, NewBuckets)
      BY <1>2, <2>1, NewBucketsRight DEF Begin, TypeOK
    <3>2. New' = {}
      BY <3>1, EmptyLemma DEF New
    <3>3. /\ \A i \in DOMAIN keys : Extend(keys, NewBuckets)[i] = keys[i]
          /\ \A i \in DOMAIN vals : Extend(vals, NewBuckets)[i] = vals[i]
      BY ExtendLemma, Zenon
    <3> QED
      BY <1>3, <3>1, <3>2, <3>3
  <2>2. CASE ~ (MustResize /\ size < UpperBound(NewBuckets))
    BY <1>2, <2>2 DEF Begin, New
  <2> QED
    BY <2>1, <2>2
<1> QED
  BY <1>1, <1>2, <1>3, <1>4 DEF HoldsIs, SameHolds

LEMMA ScanHolds ==
  ASSUME Whole, Scan
  PROVE  SameHolds
<1>1. HoldsIs /\ HoldsIs'
  BY HoldsLemma, PTL
<1>2. pc = "scan" /\ keys' = keys /\ vals' = vals /\ new_flags' = new_flags /\ New' = New
  BY DEF Scan, New
<1>3. CASE j \in Old
  <2>1. /\ hand' = Pair(keys[j], vals[j]) /\ flags' = [flags EXCEPT ![j] = "deleted"]
        /\ pc' = "kick"
    BY <1>3 DEF Scan, Old
  <2>2. hand'.key = keys[j] /\ hand'.val = vals[j]
    BY <2>1 DEF Pair
  <2>3. Old' = Old \ {j}
    BY <1>2, <1>3, <2>1 DEF Whole, Shape, TypeOK, Old, Full
  <2>4. Old \cap New = {}
    BY DEF Whole, Inv, Distinct
  <2> QED
    BY <1>1, <1>2, <1>3, <2>1, <2>2, <2>3, <2>4 DEF HoldsIs, SameHolds
<1>4. CASE j \notin Old
  <2>1. flags' = flags /\ pc' = pc /\ Old' = Old
    BY <1>4 DEF Scan, Old
  <2> QED
    BY <1>1, <1>2, <2>1 DEF HoldsIs, SameHolds
<1> QED
  BY <1>3, <1>4

LEMMA KickHolds ==
  ASSUME Whole, Kick
  PROVE  SameHolds
<1> DEFINE b == NewSite
<1>1. HoldsIs /\ HoldsIs'
  BY HoldsLemma, PTL
<1>2. /\ pc = "kick"
      /\ keys' = [keys EXCEPT ![b] = hand.key] /\ vals' = [vals EXCEPT ![b] = hand.val]
  BY DEF Kick
<1>3. /\ b \in DOMAIN keys /\ b \notin New
      /\ New' = New \cup {b} /\ Old' = Old \ {b} /\ (Kicks(b) <=> b \in Old)
      /\ Old \subseteq DOMAIN keys /\ New \subseteq DOMAIN keys
  BY KickFacts DEF Whole
<1>4. IF b \in Old
      THEN hand' = Pair(keys[b], vals[b]) /\ pc' = "kick"
      ELSE pc' = "scan"
  BY <1>2, <1>3 DEF Kick
<1> HIDE DEF b
<1>5. /\ keys'[b] = hand.key /\ vals'[b] = hand.val
      /\ \A i \in DOMAIN keys : i # b => keys'[i] = keys[i] /\ vals'[i] = vals[i]
  <2>1. DOMAIN vals = DOMAIN keys
    BY DEF Whole, Shape, TypeOK
  <2> QED
    BY <1>2, <1>3, <2>1 DEF Whole, Shape, TypeOK
<1>6. \A k, v : Holds(k, v)' <=> \/ hand.key = k /\ hand.val = v
                                 \/ \E i \in (Old \cup New) \ {b} : keys[i] = k /\ vals[i] = v
                                 \/ pc' = "kick" /\ hand'.key = k /\ hand'.val = v
  <2>1. \A k, v : (\E i \in Old' \cup New' : keys'[i] = k /\ vals'[i] = v) <=>
                    \/ hand.key = k /\ hand.val = v
                    \/ \E i \in (Old \cup New) \ {b} : keys[i] = k /\ vals[i] = v
    BY <1>3, <1>5
  <2> QED
    BY <1>1, <2>1 DEF HoldsIs
<1>7. CASE b \in Old
  <2>1. hand'.key = keys[b] /\ hand'.val = vals[b] /\ pc' = "kick"
    BY <1>4, <1>7 DEF Pair
  <2> QED
    BY <1>1, <1>2, <1>6, <1>7, <2>1 DEF HoldsIs, SameHolds
<1>8. CASE b \notin Old
  <2>1. pc' # "kick" /\ (Old \cup New) \ {b} = Old \cup New
    BY <1>3, <1>4, <1>8
  <2> QED
    BY <1>1, <1>2, <1>6, <2>1 DEF HoldsIs, SameHolds
<1> QED
  BY <1>7, <1>8

LEMMA ResizedHolds ==
  ASSUME Whole, Resized
  PROVE  SameHolds
<1>1. HoldsIs /\ HoldsIs'
  BY HoldsLemma, PTL
<1>2. /\ pc = "scan" /\ pc' = "place" /\ flags' = new_flags /\ new_flags' = Empty(0)
      /\ keys' = keys /\ vals' = vals
  BY DEF Resized
<1>3. Old = {} /\ Old' = New /\ New' = {}
  BY <1>2, AllMoved, EmptyLemma DEF Whole, Old, New
<1> QED
  BY <1>1, <1>2, <1>3 DEF HoldsIs, SameHolds

LEMMA PlaceHolds ==
  ASSUME Whole, Place
  PROVE  \A k, v : Holds(k, v)' <=> IF k = arg.id THEN v = arg ELSE Holds(k, v)
<1> DEFINE x == Site(arg.id)
<1>1. HoldsIs /\ HoldsIs'
  BY HoldsLemma, PTL
<1>2. /\ x \in DOMAIN keys /\ vals' = [vals EXCEPT ![x] = arg]
      /\ Old' = Old \cup {x} /\ New = {} /\ New' = {}
      /\ x \in Old => keys[x] = arg.id /\ keys' = keys
      /\ x \notin Old => keys' = [keys EXCEPT ![x] = arg.id]
      /\ \A a \in Old : keys[a] = arg.id => a = x
  BY PlaceFacts
<1>3. pc = "place" /\ pc' = "idle"
  BY DEF Place
<1>4. TypeOK
  BY DEF Whole, Shape
<1> HIDE DEF x
<1>5. Old \subseteq DOMAIN keys /\ DOMAIN vals = DOMAIN keys
  BY <1>4 DEF TypeOK, Old, Full
<1>6. /\ keys'[x] = arg.id /\ vals'[x] = arg
      /\ \A i \in DOMAIN keys : i # x => keys'[i] = keys[i] /\ vals'[i] = vals[i]
  BY <1>2, <1>4, <1>5 DEF TypeOK
<1>7. \A k, v : Holds(k, v) <=> \E i \in Old : keys[i] = k /\ vals[i] = v
  BY <1>1, <1>2, <1>3 DEF HoldsIs
<1>8. \A k, v : Holds(k, v)' <=> \E i \in Old \cup {x} : keys'[i] = k /\ vals'[i] = v
  BY <1>1, <1>2, <1>3 DEF HoldsIs
<1>9. \A k, v : Holds(k, v)' <=> \/ arg.id = k /\ arg = v
                                 \/ \E i \in Old \ {x} : keys[i] = k /\ vals[i] = v
  BY <1>5, <1>6, <1>8
<1>10. \A i \in Old \ {x} : keys[i] # arg.id
  BY <1>2
<1>11. \A k, v : k # arg.id /\ Holds(k, v) => \E i \in Old \ {x} : keys[i] = k /\ vals[i] = v
  BY <1>2, <1>7
<1> QED
  BY <1>7, <1>9, <1>10, <1>11

LEMMA SameContents ==
  ASSUME Whole, Whole', SameHolds
  PROVE  UNCHANGED contents
<1>1. LookupIs /\ LookupIs'
  <2>1. (Whole => LookupIs)'
    BY LookupHolds, PTL
  <2> QED
    BY <2>1, LookupHolds
<1>2. \A k \in Key : Lookup(k)' = Lookup(k)
  BY <1>1 DEF LookupIs, SameHolds
<1> QED
  BY <1>2 DEF contents

LEMMA PutContents ==
  ASSUME Whole, Whole', Place
  PROVE  Contents!Next
<1>1. LookupIs /\ LookupIs'
  <2>1. (Whole => LookupIs)'
    BY LookupHolds, PTL
  <2> QED
    BY <2>1, LookupHolds
<1>2. arg \in Record /\ arg.id \in Key
  BY PlaceFacts
<1>3. \A k \in Key : Lookup(k)' = IF k = arg.id THEN arg ELSE Lookup(k)
  BY <1>1, PlaceHolds DEF LookupIs
<1>4. contents' = [contents EXCEPT ![arg.id] = arg]
  BY <1>2, <1>3 DEF contents
<1> QED
  BY <1>2, <1>4 DEF Contents!Next, Contents!Put

LEMMA ContentsInit ==
  ASSUME Init
  PROVE  Contents!Init
<1>1. Whole /\ pc = "idle"
  BY InitWhole DEF Init
<1>2. Old = {}
  <2>1. flags = Empty(0)
    BY DEF Init
  <2> QED
    BY <2>1, EmptyLemma DEF Old
<1>3. \A k \in Key : Lookup(k) = None
  BY <1>1, <1>2, SearchRight
<1> QED
  BY <1>3 DEF contents, Contents!Init, Key

LEMMA ContentsStep ==
  ASSUME Whole, Whole', [Next]_vars
  PROVE  [Contents!Next]_contents
<1>1. ASSUME UNCHANGED vars
      PROVE  SameHolds
  BY <1>1 DEF vars, SameHolds, Holds, Held
<1> QED
  BY <1>1, BeginHolds, ScanHolds, KickHolds, ResizedHolds, PutContents, SameContents DEF Next

(* The searches of symrec.c find, under each id, the record put last,      *)
(* whatever ids collided and whenever the table was rehashed: every run of *)
(* the table is a run of a map.                                            *)
THEOREM TableIsMap == Spec => ImplementsMap
<1>1. Init => Contents!Init
  BY ContentsInit
<1>2. Whole /\ Whole' /\ [Next]_vars => [Contents!Next]_contents
  BY ContentsStep
<1> QED
  BY <1>1, <1>2, AlwaysWhole, PTL DEF Spec, ImplementsMap, Contents!Spec

=============================================================================
