-------------------------- MODULE TokenizerProofs --------------------------
(***************************************************************************)
(* Proofs about Tokenizer, for every pair of tables of which what the      *)
(* construction needs is true, and texts of any length.                    *)
(***************************************************************************)
EXTENDS Tokenizer, SequenceTheorems, FiniteSetTheorems, WellFoundedInduction,
        TLAPS

-----------------------------------------------------------------------------
(* Sequences in an order                                                   *)

LEMMA Least ==
  ASSUME NEW T \in SUBSET Nat, T # {}
  PROVE  \E m \in T : \A x \in T : m <= x
<1>1. IsWellFoundedOn(OpToRel(<, Nat), Nat)
  BY NatLessThanWellFounded
<1>2. PICK m \in T : \A x \in T : ~ (<<x, m>> \in OpToRel(<, Nat))
  BY <1>1, WFMin
<1>3. \A x \in T : ~ (x < m)
  BY <1>2 DEF OpToRel
<1> QED
  BY <1>3

(* R is a total order of S. *)
Orders(R, S) ==
  /\ \A n \in S : <<n, n>> \in R
  /\ \A m, n \in S : <<m, n>> \in R /\ <<n, m>> \in R => m = n
  /\ \A k, m, n \in S : <<k, m>> \in R /\ <<m, n>> \in R => <<k, n>> \in R
  /\ \A m, n \in S : <<m, n>> \in R \/ <<n, m>> \in R

LEMMA OrderedIs ==
  ASSUME NEW S, IsFiniteSet(S), NEW R, Orders(R, S)
  PROVE  /\ Cardinality(S) \in Nat /\ DOMAIN Ordered(S, R) = 1 .. Cardinality(S)
         /\ \A k \in 1 .. Cardinality(S) : Ordered(S, R)[k] \in S
         /\ \A n \in S : \E k \in 1 .. Cardinality(S) : Ordered(S, R)[k] = n
         /\ \A j, k \in 1 .. Cardinality(S) :
              j < k => <<Ordered(S, R)[j], Ordered(S, R)[k]>> \in R
<1> DEFINE N == Cardinality(S)
           B(n) == {m \in S : <<m, n>> \in R}
           f == [n \in S |-> Cardinality(B(n))]
           o == Ordered(S, R)
<1>1. N \in Nat
  BY FS_CardinalityType
<1>2. ASSUME NEW n \in S
      PROVE  IsFiniteSet(B(n)) /\ Cardinality(B(n)) \in 1 .. N
  <2>1. B(n) \in SUBSET S /\ n \in B(n)
    BY DEF Orders
  <2> HIDE DEF B
  <2>2. IsFiniteSet(B(n)) /\ Cardinality(B(n)) <= N
    BY <2>1, FS_Subset
  <2>3. Cardinality(B(n)) \in Nat /\ Cardinality(B(n)) # 0
    BY <2>1, <2>2, FS_CardinalityType, FS_EmptySet
  <2> QED
    BY <1>1, <2>2, <2>3
<1>3. ASSUME NEW m \in S, NEW n \in S, m # n, <<m, n>> \in R
      PROVE  Cardinality(B(m)) < Cardinality(B(n))
  <2>1. B(m) \in SUBSET B(n)
    BY <1>3 DEF Orders
  <2>2. n \in B(n) /\ n \notin B(m)
    BY <1>3 DEF Orders
  <2> HIDE DEF B
  <2>3. Cardinality(B(m)) <= Cardinality(B(n)) /\ Cardinality(B(m)) # Cardinality(B(n))
    BY <1>2, <2>1, <2>2, FS_Subset
  <2> QED
    BY <1>1, <1>2, <2>3
<1> HIDE DEF B
<1>4. f \in [S -> 1 .. N]
  BY <1>2
<1>5. ASSUME NEW m \in S, NEW n \in S, f[m] = f[n]
      PROVE  m = n
  <2>1. Cardinality(B(m)) = Cardinality(B(n)) /\ Cardinality(B(m)) \in Int
    BY <1>1, <1>2, <1>5
  <2>2. <<m, n>> \in R \/ <<n, m>> \in R
    BY DEF Orders
  <2> QED
    BY <1>3, <2>1, <2>2
<1>6. f \in Injection(S, 1 .. N)
  <2> HIDE DEF f
  <2> QED
    BY <1>4, <1>5 DEF Injection, IsInjective
<1>7. IsFiniteSet(1 .. N) /\ Cardinality(1 .. N) = N
  BY <1>1, FS_Interval
<1>8. f \in Surjection(S, 1 .. N)
  BY <1>6, <1>7, FS_Injection
<1>9. \A k \in 1 .. N : \E n \in S : f[n] = k
  <2> HIDE DEF f
  <2> QED
    BY <1>8 DEF Surjection
<1>10. o = [k \in 1 .. N |-> CHOOSE n \in S : Cardinality(B(n)) = k]
  BY DEF Ordered, B
<1> HIDE DEF o
<1>11. \A k \in 1 .. N : o[k] \in S /\ Cardinality(B(o[k])) = k
  BY <1>9, <1>10
<1>12. DOMAIN o = 1 .. N
  BY <1>10
<1>13. ASSUME NEW n \in S
       PROVE  \E k \in 1 .. N : o[k] = n
  <2>1. Cardinality(B(n)) \in 1 .. N
    BY <1>2
  <2>2. o[Cardinality(B(n))] = n
    BY <1>5, <1>11, <2>1
  <2> QED
    BY <2>1, <2>2
<1>14. ASSUME NEW j \in 1 .. N, NEW k \in 1 .. N, j < k
       PROVE  <<o[j], o[k]>> \in R
  <2>1. o[j] \in S /\ o[k] \in S /\ Cardinality(B(o[j])) = j /\ Cardinality(B(o[k])) = k
    BY <1>11
  <2>2. ~ (k < j) /\ j # k
    BY <1>14
  <2>3. <<o[j], o[k]>> \in R \/ <<o[k], o[j]>> \in R
    BY <2>1 DEF Orders
  <2>4. ~ (<<o[k], o[j]>> \in R)
    BY <1>3, <2>1, <2>2
  <2> QED
    BY <2>3, <2>4
<1> QED
  BY <1>1, <1>11, <1>12, <1>13, <1>14 DEF o

LEMMA UpTo == \A n \in Nat : IsFiniteSet(1 .. n) /\ Cardinality(1 .. n) = n
BY FS_Interval

LEMMA InOrderIs ==
  ASSUME NEW N \in Nat, NEW S \in SUBSET (1 .. N)
  PROVE  /\ Cardinality(S) \in Nat /\ DOMAIN InOrder(S) = 1 .. Cardinality(S)
         /\ \A k \in 1 .. Cardinality(S) : InOrder(S)[k] \in S
         /\ \A n \in S : \E k \in 1 .. Cardinality(S) : InOrder(S)[k] = n
<1> DEFINE R == {r \in S \X S : r[1] <= r[2]}
<1>1. IsFiniteSet(S)
  <2>1. IsFiniteSet(1 .. N)
    BY FS_Interval
  <2> QED
    BY <2>1, FS_Subset
<1>2. \A m, n \in S : <<m, n>> \in R <=> m <= n
  OBVIOUS
<1> HIDE DEF R
<1>3. Orders(R, S)
  BY <1>2 DEF Orders
<1>4. InOrder(S) = Ordered(S, R)
  BY DEF InOrder, R
<1> QED
  BY <1>1, <1>3, <1>4, OrderedIs

-----------------------------------------------------------------------------
(* Texts and what begins them                                              *)

Symbols == STRING \cup Char \cup Letters \cup {"."}
Word    == Seq(Symbols)

LEMMA Characters ==
  /\ Letters \subseteq Symbols /\ Digits \subseteq Symbols
  /\ Char \subseteq Symbols /\ "." \in Symbols
BY DEF Symbols, Char

LEMMA WordIs ==
  ASSUME NEW w \in Word
  PROVE  /\ Len(w) \in Nat /\ DOMAIN w = 1 .. Len(w)
         /\ \A k \in 1 .. Len(w) : w[k] \in Symbols
         /\ w # <<>> => Len(w) > 0 /\ w[1] \in Symbols /\ Head(w) = w[1]
BY EmptySeq, LenProperties, ElementOfSeq, HeadTailProperties DEF Word

LEMMA SameWord ==
  ASSUME NEW v \in Word, NEW w \in Word, Len(v) = Len(w),
         \A k \in 1 .. Len(v) : v[k] = w[k]
  PROVE  v = w
BY SeqEqual DEF Word

LEMMA Beginning ==
  ASSUME NEW w \in Word, NEW k \in 0 .. Len(w)
  PROVE  /\ SubSeq(w, 1, k) \in Word /\ Len(SubSeq(w, 1, k)) = k
         /\ \A j \in 1 .. k : SubSeq(w, 1, k)[j] = w[j]
<1>1. \A j \in 1 .. k : w[j] \in Symbols
  BY WordIs
<1>2. Len(w) \in Nat /\ 1 \in Int /\ k \in Int
  BY WordIs
<1>3. SubSeq(w, 1, k) \in Word
  BY <1>1, <1>2, SubSeqProperties, WordIs DEF Word
<1>4. Len(SubSeq(w, 1, k)) = k
  BY <1>2, SubSeqProperties, WordIs DEF Word
<1>5. \A j \in 1 .. k : SubSeq(w, 1, k)[j] = w[j]
  BY <1>2, SubSeqProperties, WordIs DEF Word
<1> QED
  BY <1>3, <1>4, <1>5

LEMMA Longer ==
  ASSUME NEW p \in Word, NEW c \in Symbols
  PROVE  /\ Append(p, c) \in Word /\ Len(Append(p, c)) = Len(p) + 1
         /\ \A k \in 1 .. Len(p) : Append(p, c)[k] = p[k]
         /\ Append(p, c)[Len(p) + 1] = c /\ Append(p, c) # <<>>
BY AppendProperties DEF Word

LEMMA PrefixIs ==
  ASSUME NEW p \in Word, NEW w \in Word
  PROVE  IsPrefix(p, w) <=> /\ Len(p) <= Len(w)
                            /\ \A k \in 1 .. Len(p) : p[k] = w[k]
<1>1. Len(p) \in Nat /\ Len(w) \in Nat
  BY WordIs
<1>2. SUFFICES ASSUME Len(p) <= Len(w)
               PROVE  SubSeq(p, 1, Len(p)) = SubSeq(w, 1, Len(p)) <=>
                        \A k \in 1 .. Len(p) : p[k] = w[k]
  BY DEF IsPrefix
<1> DEFINE u == SubSeq(p, 1, Len(p))
           v == SubSeq(w, 1, Len(p))
<1>3. /\ u \in Word /\ Len(u) = Len(p) /\ \A k \in 1 .. Len(p) : u[k] = p[k]
      /\ v \in Word /\ Len(v) = Len(p) /\ \A k \in 1 .. Len(p) : v[k] = w[k]
  BY <1>1, <1>2, Beginning
<1> HIDE DEF u, v
<1>4. u = v <=> \A k \in 1 .. Len(p) : u[k] = v[k]
  BY <1>3, SameWord
<1>5. u = v <=> \A k \in 1 .. Len(p) : p[k] = w[k]
  BY <1>3, <1>4
<1> QED
  BY <1>5 DEF u, v

LEMMA LongerPrefix ==
  ASSUME NEW p \in Word, NEW c \in Symbols, NEW w \in Word
  PROVE  IsPrefix(Append(p, c), w) <=>
           IsPrefix(p, w) /\ Len(p) < Len(w) /\ w[Len(p) + 1] = c
<1> DEFINE q == Append(p, c)
<1>1. /\ q \in Word /\ Len(q) = Len(p) + 1 /\ q[Len(p) + 1] = c
      /\ \A k \in 1 .. Len(p) : q[k] = p[k]
  BY Longer
<1>2. Len(p) \in Nat /\ Len(w) \in Nat
  BY WordIs
<1> HIDE DEF q
<1>3. IsPrefix(q, w) <=> Len(q) <= Len(w) /\ \A k \in 1 .. Len(q) : q[k] = w[k]
  BY <1>1, PrefixIs
<1>4. \A k \in 1 .. Len(q) : k \in 1 .. Len(p) \/ k = Len(p) + 1
  BY <1>1, <1>2
<1>5. \A k \in 1 .. Len(p) : k \in 1 .. Len(q)
  BY <1>1, <1>2
<1>6. Len(p) + 1 \in 1 .. Len(q)
  BY <1>1, <1>2
<1>7. (\A k \in 1 .. Len(q) : q[k] = w[k]) <=>
        (\A k \in 1 .. Len(p) : p[k] = w[k]) /\ w[Len(p) + 1] = c
  BY <1>1, <1>4, <1>5, <1>6
<1>8. Len(q) <= Len(w) <=> Len(p) < Len(w)
  BY <1>1, <1>2
<1>9. IsPrefix(p, w) <=> Len(p) <= Len(w) /\ \A k \in 1 .. Len(p) : p[k] = w[k]
  BY PrefixIs
<1>10. Len(p) < Len(w) => Len(p) <= Len(w)
  BY <1>2
<1> QED
  BY <1>3, <1>7, <1>8, <1>9, <1>10 DEF q

(* The text one character longer than a p that begins w. *)
LEMMA NextText ==
  ASSUME NEW p \in Word, NEW w \in Word, IsPrefix(p, w), Len(p) < Len(w)
  PROVE  /\ w[Len(p) + 1] \in Symbols
         /\ SubSeq(w, 1, Len(p) + 1) = Append(p, w[Len(p) + 1])
<1>1. Len(p) \in Nat /\ Len(w) \in Nat /\ Len(p) + 1 \in 1 .. Len(w) /\ Len(p) + 1 \in 0 .. Len(w)
  BY WordIs
<1>2. w[Len(p) + 1] \in Symbols
  BY <1>1, WordIs
<1> DEFINE u == SubSeq(w, 1, Len(p) + 1)
           v == Append(p, w[Len(p) + 1])
<1>3. u \in Word /\ Len(u) = Len(p) + 1 /\ \A k \in 1 .. Len(p) + 1 : u[k] = w[k]
  BY <1>1, Beginning
<1>4. /\ v \in Word /\ Len(v) = Len(p) + 1 /\ v[Len(p) + 1] = w[Len(p) + 1]
      /\ \A k \in 1 .. Len(p) : v[k] = p[k]
  BY <1>2, Longer
<1>5. \A k \in 1 .. Len(p) : p[k] = w[k]
  BY PrefixIs
<1> HIDE DEF u, v
<1>6. \A k \in 1 .. Len(p) + 1 : k \in 1 .. Len(p) \/ k = Len(p) + 1
  BY <1>1
<1>7. \A k \in 1 .. Len(u) : u[k] = v[k]
  BY <1>3, <1>4, <1>5, <1>6
<1>8. u = v
  BY <1>3, <1>4, <1>7, SameWord
<1> QED
  BY <1>2, <1>8 DEF u, v

LEMMA WholePrefix ==
  ASSUME NEW p \in Word, NEW w \in Word
  PROVE  /\ IsPrefix(p, w) => Len(p) <= Len(w)
         /\ IsPrefix(p, w) /\ ~ (Len(p) < Len(w)) => p = w
         /\ IsPrefix(p, p)
<1>1. Len(p) \in Nat /\ Len(w) \in Nat
  BY WordIs
<1>2. IsPrefix(p, w) => Len(p) <= Len(w) /\ \A k \in 1 .. Len(p) : p[k] = w[k]
  BY PrefixIs
<1>3. ASSUME IsPrefix(p, w), ~ (Len(p) < Len(w)) PROVE p = w
  <2>1. Len(p) = Len(w)
    BY <1>1, <1>2, <1>3
  <2> QED
    BY <1>2, <1>3, <2>1, SameWord
<1>4. IsPrefix(p, p)
  BY <1>1, PrefixIs
<1> QED
  BY <1>2, <1>3, <1>4

-----------------------------------------------------------------------------
(* Tables                                                                  *)

Tables == Seq([token : Word \ {<<>>}, type : STRING])

(* An entry of t begins with p. *)
Begins(t, p) == \E n \in DOMAIN t : IsPrefix(p, t[n].token)

(* Entries of one text have one type. *)
OneType(t) ==
  \A m, n \in DOMAIN t : t[m].token = t[n].token => t[m].type = t[n].type

LEMMA TableIs ==
  ASSUME NEW t \in Tables
  PROVE  /\ Len(t) \in Nat /\ DOMAIN t = 1 .. Len(t)
         /\ \A n \in DOMAIN t : /\ t[n] \in [token : Word \ {<<>>}, type : STRING]
                                /\ t[n].token \in Word /\ t[n].token # <<>>
                                /\ n \in Int
<1>1. Len(t) \in Nat /\ DOMAIN t = 1 .. Len(t)
  BY LenProperties DEF Tables
<1>2. \A n \in DOMAIN t : t[n] \in [token : Word \ {<<>>}, type : STRING]
  BY <1>1, ElementOfSeq DEF Tables
<1> QED
  BY <1>1, <1>2

LEMMA TablesAre == tokens \in Tables /\ keywords \in Tables
<1>1. Seq(STRING) \subseteq Word
  <2> SUFFICES ASSUME NEW w \in Seq(STRING)
               PROVE  w \in Word
    OBVIOUS
  <2>1. Len(w) \in Nat /\ w \in [1 .. Len(w) -> STRING]
    OBVIOUS
  <2>2. w \in [1 .. Len(w) -> Symbols]
    BY <2>1 DEF Symbols
  <2> QED
    BY <2>1, <2>2 DEF Word
<1> DEFINE D == [token : Seq(STRING) \ {<<>>}, type : STRING]
           E == [token : Word \ {<<>>}, type : STRING]
<1>2. D \subseteq E
  BY <1>1
<1>3. tokens \in Seq(D) /\ keywords \in Seq(D)
  BY TokenizerAssumption
<1> HIDE DEF D, E
<1>4. ASSUME NEW t \in Seq(D) PROVE t \in Seq(E)
  <2>1. Len(t) \in Nat /\ t \in [1 .. Len(t) -> D]
    OBVIOUS
  <2>2. t \in [1 .. Len(t) -> E]
    BY <1>2, <2>1
  <2> QED
    BY <2>1, <2>2
<1> QED
  BY <1>3, <1>4 DEF Tables, E

LEMMA PassedIs ==
  /\ Passed \in Tables /\ DOMAIN Passed = 1 .. num_keywords
  /\ \A n \in 1 .. num_keywords : n \in DOMAIN keywords /\ Passed[n] = keywords[n]
<1>1. keywords \in Tables /\ num_keywords \in Nat /\ num_keywords <= Len(keywords)
  BY TablesAre, TokenizerAssumption, TableIs
<1>2. \A n \in 1 .. num_keywords : n \in DOMAIN keywords
  BY <1>1, TableIs
<1>3. \A n \in 1 .. num_keywords :
        keywords[n] \in [token : Word \ {<<>>}, type : STRING]
  BY <1>1, <1>2, TableIs
<1>4. Len(keywords) \in Nat /\ 1 \in Int /\ num_keywords \in Int
  BY <1>1, TableIs
<1>5. Len(Passed) = num_keywords
  BY <1>1, <1>4, SubSeqProperties DEF Passed, Tables
<1>6. Passed \in Tables
  BY <1>1, <1>3, <1>4, SubSeqProperties DEF Passed, Tables
<1>7. \A n \in 1 .. num_keywords : Passed[n] = keywords[n]
  BY <1>1, <1>4, SubSeqProperties DEF Passed, Tables
<1> QED
  BY <1>2, <1>5, <1>6, <1>7, TableIs

LEMMA SizesOrder ==
  ASSUME NEW t \in Tables
  PROVE  Orders(BySize(t), DOMAIN t)
<1> DEFINE L(n) == Len(t[n].token)
<1>1. \A n \in DOMAIN t : n \in Int /\ L(n) \in Nat
  BY TableIs, WordIs
<1>2. \A m, n \in DOMAIN t : <<m, n>> \in BySize(t) <=> L(m) < L(n) \/ (L(m) = L(n) /\ m <= n)
  BY DEF BySize
<1> HIDE DEF L
<1> QED
  BY <1>1, <1>2 DEF Orders

LEMMA SortedIs ==
  ASSUME NEW t \in Tables
  PROVE  /\ Sorted(t) \in Tables /\ DOMAIN Sorted(t) = DOMAIN t
         /\ \A k \in DOMAIN t : \E n \in DOMAIN t : Sorted(t)[k] = t[n]
         /\ \A n \in DOMAIN t : \E k \in DOMAIN t : Sorted(t)[k] = t[n]
         /\ \A j, k \in DOMAIN t :
              j < k => Len(Sorted(t)[j].token) <= Len(Sorted(t)[k].token)
<1> DEFINE o == Ordered(DOMAIN t, BySize(t))
           s == [k \in DOMAIN t |-> t[o[k]]]
<1>1. Len(t) \in Nat /\ DOMAIN t = 1 .. Len(t)
  BY TableIs
<1>2. IsFiniteSet(DOMAIN t) /\ Cardinality(DOMAIN t) = Len(t)
  <2>1. IsFiniteSet(1 .. Len(t)) /\ Cardinality(1 .. Len(t)) = Len(t)
    BY <1>1, UpTo
  <2> QED
    BY <1>1, <2>1
<1>3. /\ \A k \in DOMAIN t : o[k] \in DOMAIN t
      /\ \A n \in DOMAIN t : \E k \in DOMAIN t : o[k] = n
      /\ \A j, k \in DOMAIN t : j < k => <<o[j], o[k]>> \in BySize(t)
  <2> DEFINE N == Cardinality(DOMAIN t)
  <2>1. /\ \A k \in 1 .. N : o[k] \in DOMAIN t
        /\ \A n \in DOMAIN t : \E k \in 1 .. N : o[k] = n
        /\ \A j, k \in 1 .. N : j < k => <<o[j], o[k]>> \in BySize(t)
    BY <1>2, SizesOrder, OrderedIs
  <2>2. 1 .. N = DOMAIN t
    BY <1>1, <1>2
  <2> HIDE DEF N, o
  <2> QED
    BY <2>1, <2>2
<1>4. Sorted(t) = s
  BY DEF Sorted
<1> HIDE DEF o
<1>5. \A k \in DOMAIN t : s[k] = t[o[k]] /\ o[k] \in DOMAIN t
  BY <1>3
<1>6. s \in Tables /\ DOMAIN s = DOMAIN t
  <2>1. \A k \in 1 .. Len(t) : t[o[k]] \in [token : Word \ {<<>>}, type : STRING]
    BY <1>1, <1>3, TableIs
  <2>2. s = [k \in 1 .. Len(t) |-> t[o[k]]]
    BY <1>1
  <2> QED
    BY <1>1, <2>1, <2>2 DEF Tables
<1> HIDE DEF s
<1>7. \A n \in DOMAIN t : \E k \in DOMAIN t : s[k] = t[n]
  BY <1>3, <1>5
<1>8. ASSUME NEW j \in DOMAIN t, NEW k \in DOMAIN t, j < k
      PROVE  Len(s[j].token) <= Len(s[k].token)
  <2>1. o[j] \in DOMAIN t /\ o[k] \in DOMAIN t /\ <<o[j], o[k]>> \in BySize(t)
    BY <1>3, <1>8
  <2>2. Len(t[o[j]].token) \in Nat /\ Len(t[o[k]].token) \in Nat
    BY <2>1, TableIs, WordIs
  <2>3. Len(t[o[j]].token) <= Len(t[o[k]].token)
    BY <2>1, <2>2 DEF BySize
  <2> QED
    BY <1>5, <2>3
<1> QED
  BY <1>4, <1>5, <1>6, <1>7, <1>8

LEMMA SortedBegins ==
  ASSUME NEW t \in Tables, NEW p
  PROVE  Begins(Sorted(t), p) <=> Begins(t, p)
<1> DEFINE s == Sorted(t)
<1>1. /\ DOMAIN s = DOMAIN t
      /\ \A k \in DOMAIN t : \E n \in DOMAIN t : s[k] = t[n]
      /\ \A n \in DOMAIN t : \E k \in DOMAIN t : s[k] = t[n]
  BY SortedIs
<1> HIDE DEF s
<1>2. Begins(s, p) <=> Begins(t, p)
  BY <1>1 DEF Begins
<1> QED
  BY <1>2 DEF s

LEMMA FirstWithIs ==
  ASSUME NEW t \in Tables, NEW p \in Word, Begins(t, p)
  PROVE  \E n \in DOMAIN t :
           /\ FirstWith(t, p) = t[n] /\ IsPrefix(p, t[n].token)
           /\ \A m \in 1 .. n - 1 : ~ IsPrefix(p, t[m].token)
<1> DEFINE T == {n \in DOMAIN t : IsPrefix(p, t[n].token)}
           F(n) == /\ IsPrefix(p, t[n].token)
                   /\ \A m \in 1 .. n - 1 : ~ IsPrefix(p, t[m].token)
<1>1. T \in SUBSET Nat /\ T # {}
  BY TableIs DEF Begins
<1>2. PICK n \in T : \A x \in T : n <= x
  BY <1>1, Least
<1>3. F(n) /\ n \in DOMAIN t
  <2>1. n \in Nat /\ n <= Len(t) /\ Len(t) \in Nat /\ DOMAIN t = 1 .. Len(t)
    BY <1>2, TableIs
  <2>2. \A m \in 1 .. n - 1 : m \in DOMAIN t /\ ~ (n <= m)
    BY <2>1
  <2> QED
    BY <1>2, <2>2
<1> HIDE DEF F
<1>4. FirstWith(t, p) = t[CHOOSE m \in DOMAIN t : F(m)]
  BY DEF FirstWith, F
<1>5. (CHOOSE m \in DOMAIN t : F(m)) \in DOMAIN t /\ F(CHOOSE m \in DOMAIN t : F(m))
  BY <1>3
<1> QED
  BY <1>4, <1>5 DEF F

(* The type of the state of p is that of the entry p, when there is one.   *)
LEMMA TypeOfIs ==
  ASSUME NEW t \in Tables, OneType(t), NEW p \in Word, Begins(t, p), NEW incomplete
  PROVE  TypeOf(Sorted(t), p, incomplete) =
           IF Listed(t, p) THEN TypeIn(t, p) ELSE incomplete
<1> DEFINE s == Sorted(t)
<1>1. /\ s \in Tables /\ DOMAIN s = DOMAIN t
      /\ \A k \in DOMAIN t : \E n \in DOMAIN t : s[k] = t[n]
      /\ \A n \in DOMAIN t : \E k \in DOMAIN t : s[k] = t[n]
      /\ \A j, k \in DOMAIN t : j < k => Len(s[j].token) <= Len(s[k].token)
  BY SortedIs
<1>2. Begins(s, p)
  BY SortedBegins
<1> HIDE DEF s
<1>3. PICK n \in DOMAIN s :
         /\ FirstWith(s, p) = s[n] /\ IsPrefix(p, s[n].token)
         /\ \A m \in 1 .. n - 1 : ~ IsPrefix(p, s[m].token)
  BY <1>1, <1>2, FirstWithIs
<1>4. /\ s[n].token \in Word /\ Len(s[n].token) \in Nat /\ Len(p) \in Nat
      /\ \A k \in DOMAIN s : k \in Int /\ k \in 1 .. Len(s)
      /\ n \in Int
  BY <1>1, TableIs, WordIs
<1>5. TypeOf(s, p, incomplete) = IF Len(p) < Len(s[n].token) THEN incomplete ELSE s[n].type
  BY <1>3, <1>4 DEF TypeOf
<1>6. ASSUME Listed(t, p)
      PROVE  TypeOf(s, p, incomplete) = TypeIn(t, p)
  <2>1. PICK m \in DOMAIN t : t[m].token = p
    BY <1>6 DEF Listed
  <2>2. PICK k \in DOMAIN t : s[k] = t[m]
    BY <1>1
  <2>3. IsPrefix(p, s[k].token)
    BY <2>1, <2>2, WholePrefix
  <2>4. ~ (k < n)
    <3>1. k \in Int /\ k >= 1
      BY <1>1, <1>4
    <3>2. k < n => k \in 1 .. n - 1
      BY <1>4, <3>1
    <3> QED
      BY <1>3, <2>3, <3>2
  <2>5. Len(s[n].token) <= Len(p)
    <3>1. n < k \/ n = k
      BY <1>1, <1>4, <2>4
    <3>2. s[k].token = p
      BY <2>1, <2>2
    <3>3. CASE n = k
      BY <1>4, <3>2, <3>3
    <3>4. CASE n < k
      <4>1. n \in DOMAIN t /\ k \in DOMAIN t
        BY <1>1
      <4>2. Len(s[n].token) <= Len(s[k].token)
        BY <1>1, <3>4, <4>1
      <4> QED
        BY <3>2, <4>2
    <3> QED
      BY <3>1, <3>3, <3>4
  <2>6. ~ (Len(p) < Len(s[n].token))
    BY <1>4, <2>5
  <2>7. s[n].token = p
    BY <1>3, <1>4, <2>6, WholePrefix
  <2>8. PICK l \in DOMAIN t : s[n] = t[l]
    BY <1>1
  <2> DEFINE c == CHOOSE x \in DOMAIN t : t[x].token = p
  <2>9. c \in DOMAIN t /\ t[c].token = p
    BY <2>1
  <2>10. t[c].type = t[l].type
    BY <2>7, <2>8, <2>9 DEF OneType
  <2>11. TypeIn(t, p) = t[c].type
    BY DEF TypeIn
  <2> HIDE DEF c
  <2> QED
    BY <1>5, <2>6, <2>8, <2>10, <2>11
<1>7. ASSUME ~ Listed(t, p)
      PROVE  TypeOf(s, p, incomplete) = incomplete
  <2>1. s[n].token # p
    BY <1>1, <1>7 DEF Listed
  <2>2. Len(p) < Len(s[n].token)
    BY <1>3, <1>4, <2>1, WholePrefix
  <2> QED
    BY <1>5, <2>2
<1>8. TypeOf(s, p, incomplete) = IF Listed(t, p) THEN TypeIn(t, p) ELSE incomplete
  BY <1>6, <1>7
<1> QED
  BY <1>8 DEF s

(* The texts the branches lead to are the beginnings of entries that are   *)
(* one character longer.                                                   *)
LEMMA BranchesAre ==
  ASSUME NEW t \in Tables, NEW p \in Word
  PROVE  /\ Len(Branches(t, p)) \in Nat
         /\ DOMAIN Branches(t, p) = 1 .. Len(Branches(t, p))
         /\ \A k \in DOMAIN Branches(t, p) : \E c \in Symbols :
              Branches(t, p)[k] = Append(p, c) /\ Begins(t, Append(p, c))
         /\ \A c \in Symbols : Begins(t, Append(p, c)) =>
              \E k \in DOMAIN Branches(t, p) : Branches(t, p)[k] = Append(p, c)
<1> DEFINE text(n) == SubSeq(t[n].token, 1, Len(p) + 1)
           S == {n \in DOMAIN t : /\ Extends(t[n], p)
                                  /\ \A m \in 1 .. n - 1 : ~ IsPrefix(text(n), t[m].token)}
           found == InOrder(S)
           b == [k \in DOMAIN found |-> text(found[k])]
<1>1. Branches(t, p) = b
  BY DEF Branches
<1>2. Len(t) \in Nat /\ DOMAIN t = 1 .. Len(t) /\ \A n \in DOMAIN t : t[n].token \in Word /\ n \in Nat
  BY TableIs
<1>3. S \in SUBSET (1 .. Len(t))
  BY <1>2
<1>4. \A n \in S : /\ n \in DOMAIN t /\ t[n].token \in Word
                    /\ IsPrefix(p, t[n].token) /\ Len(p) < Len(t[n].token)
  <2>1. \A n \in S : n \in DOMAIN t /\ Extends(t[n], p)
    OBVIOUS
  <2> HIDE DEF S
  <2>2. \A n \in DOMAIN t : Len(t[n].token) \in Nat /\ Len(p) \in Nat
    BY <1>2, WordIs
  <2> QED
    BY <1>2, <2>1, <2>2 DEF Extends
<1>5. ASSUME NEW c \in Symbols, Begins(t, Append(p, c))
      PROVE  \E n \in S : text(n) = Append(p, c)
  <2> DEFINE T == {n \in DOMAIN t : IsPrefix(Append(p, c), t[n].token)}
  <2>1. T \in SUBSET Nat /\ T # {}
    BY <1>2, <1>5 DEF Begins
  <2>2. PICK n \in T : \A x \in T : n <= x
    BY <2>1, Least
  <2>3. n \in DOMAIN t /\ t[n].token \in Word /\ IsPrefix(Append(p, c), t[n].token)
    BY <1>2, <2>2
  <2>4. IsPrefix(p, t[n].token) /\ Len(p) < Len(t[n].token) /\ t[n].token[Len(p) + 1] = c
    BY <2>3, LongerPrefix
  <2>5. text(n) = Append(p, c)
    BY <2>3, <2>4, NextText
  <2>6. Extends(t[n], p)
    <3>1. Len(t[n].token) \in Nat /\ Len(p) \in Nat
      BY <2>3, WordIs
    <3> QED
      BY <2>4, <3>1 DEF Extends
  <2>7. \A m \in 1 .. n - 1 : m \in DOMAIN t /\ ~ (n <= m)
    BY <1>2, <2>3
  <2>8. \A m \in 1 .. n - 1 : ~ IsPrefix(Append(p, c), t[m].token)
    BY <2>2, <2>7
  <2>9. n \in S
    BY <2>3, <2>5, <2>6, <2>8
  <2> QED
    BY <2>5, <2>9
<1> HIDE DEF S
<1>6. /\ Cardinality(S) \in Nat /\ DOMAIN found = 1 .. Cardinality(S)
      /\ \A k \in DOMAIN found : found[k] \in S
      /\ \A n \in S : \E k \in DOMAIN found : found[k] = n
  BY <1>2, <1>3, InOrderIs
<1> HIDE DEF found
<1>7. \A k \in DOMAIN found : b[k] = text(found[k])
  OBVIOUS
<1>8. DOMAIN b = 1 .. Cardinality(S) /\ Len(b) = Cardinality(S)
  <2>1. DOMAIN b = 1 .. Cardinality(S)
    BY <1>6
  <2>2. b = [k \in 1 .. Cardinality(S) |-> b[k]]
    BY <1>6
  <2> HIDE DEF b
  <2>3. b \in Seq({b[k] : k \in 1 .. Cardinality(S)})
    BY <1>6, <2>2
  <2> QED
    BY <1>6, <2>1, <2>3
<1>9. ASSUME NEW k \in DOMAIN b
      PROVE  \E c \in Symbols : b[k] = Append(p, c) /\ Begins(t, Append(p, c))
  <2> DEFINE n == found[k]
             c == t[n].token[Len(p) + 1]
  <2>1. n \in S
    BY <1>6
  <2>2. n \in DOMAIN t /\ t[n].token \in Word /\ IsPrefix(p, t[n].token) /\ Len(p) < Len(t[n].token)
    BY <1>4, <2>1
  <2>3. c \in Symbols /\ text(n) = Append(p, c)
    BY <2>2, NextText
  <2>4. IsPrefix(Append(p, c), t[n].token)
    BY <2>2, <2>3, LongerPrefix
  <2>5. Begins(t, Append(p, c))
    BY <2>2, <2>4 DEF Begins
  <2>6. b[k] = text(n)
    BY <1>7
  <2> HIDE DEF b, c
  <2> QED
    BY <2>3, <2>5, <2>6
<1>10. ASSUME NEW c \in Symbols, Begins(t, Append(p, c))
       PROVE  \E k \in DOMAIN b : b[k] = Append(p, c)
  <2>1. PICK n \in S : text(n) = Append(p, c)
    BY <1>5, <1>10
  <2>2. PICK k \in DOMAIN found : found[k] = n
    BY <1>6
  <2>3. k \in DOMAIN b /\ b[k] = text(n)
    BY <1>7, <2>2
  <2> HIDE DEF b
  <2> QED
    BY <2>1, <2>3
<1> HIDE DEF b
<1> QED
  BY <1>1, <1>6, <1>8, <1>9, <1>10

LEMMA TextsAre ==
  ASSUME NEW t \in Tables, NEW w
  PROVE  w \in Texts(t) <=> w \in Word /\ w # <<>> /\ Begins(t, w)
<1>1. \A n \in DOMAIN t : t[n].token \in Word
  BY TableIs
<1>2. ASSUME w \in Texts(t)
      PROVE  w \in Word /\ w # <<>> /\ Begins(t, w)
  <2>1. PICK n \in DOMAIN t : \E k \in 1 .. Len(t[n].token) : w = SubSeq(t[n].token, 1, k)
    BY <1>2 DEF Texts
  <2> DEFINE e == t[n].token
  <2>2. PICK k \in 1 .. Len(e) : w = SubSeq(e, 1, k)
    BY <2>1
  <2>3. e \in Word /\ Len(e) \in Nat
    BY <1>1, WordIs
  <2> HIDE DEF e
  <2>4. k \in 0 .. Len(e) /\ k <= Len(e) /\ k # 0
    BY <2>3
  <2>5. w \in Word /\ Len(w) = k /\ \A j \in 1 .. k : w[j] = e[j]
    BY <2>2, <2>3, <2>4, Beginning
  <2>6. IsPrefix(w, e)
    BY <2>3, <2>4, <2>5, PrefixIs
  <2>7. w # <<>>
    BY <2>4, <2>5, EmptySeq
  <2> QED
    BY <2>5, <2>6, <2>7 DEF Begins, e
<1>3. ASSUME w \in Word, w # <<>>, Begins(t, w)
      PROVE  w \in Texts(t)
  <2>1. PICK n \in DOMAIN t : IsPrefix(w, t[n].token)
    BY <1>3 DEF Begins
  <2> DEFINE e == t[n].token
             k == Len(w)
  <2>2. e \in Word /\ Len(e) \in Nat /\ k \in Nat /\ k > 0
    BY <1>1, <1>3, WordIs
  <2>3. k <= Len(e) /\ \A j \in 1 .. k : w[j] = e[j]
    BY <1>3, <2>1, <2>2, PrefixIs
  <2>4. k \in 0 .. Len(e) /\ k \in 1 .. Len(e)
    BY <2>2, <2>3
  <2> HIDE DEF e
  <2>5. /\ SubSeq(e, 1, k) \in Word /\ Len(SubSeq(e, 1, k)) = k
        /\ \A j \in 1 .. k : SubSeq(e, 1, k)[j] = e[j]
    BY <2>2, <2>4, Beginning
  <2>6. w = SubSeq(e, 1, k)
    BY <1>3, <2>3, <2>5, SameWord
  <2> HIDE DEF k
  <2>7. w \in {SubSeq(e, 1, j) : j \in 1 .. Len(e)}
    BY <2>4, <2>6
  <2> QED
    BY <2>7 DEF Texts, e
<1> QED
  BY <1>2, <1>3

LEMMA Concatenations ==
  ASSUME NEW X, NEW A \in Seq(X), NEW B \in Seq(X)
  PROVE  /\ A \o B \in Seq(X) /\ Len(A) \in Nat /\ Len(B) \in Nat
         /\ DOMAIN A = 1 .. Len(A) /\ DOMAIN B = 1 .. Len(B)
         /\ DOMAIN (A \o B) = 1 .. Len(A) + Len(B)
         /\ \A n \in 1 .. Len(A) : (A \o B)[n] = A[n]
         /\ \A n \in 1 .. Len(B) : (A \o B)[Len(A) + n] = B[n]
         /\ \A n \in 1 .. Len(A) + Len(B) :
              n \in 1 .. Len(A) \/ \E m \in 1 .. Len(B) : n = Len(A) + m
<1>1. /\ A \o B \in Seq(X) /\ Len(A \o B) = Len(A) + Len(B)
      /\ \A i \in 1 .. Len(A) + Len(B) :
           (A \o B)[i] = IF i <= Len(A) THEN A[i] ELSE B[i - Len(A)]
  BY ConcatProperties
<1>2. Len(A) \in Nat /\ Len(B) \in Nat /\ DOMAIN A = 1 .. Len(A) /\ DOMAIN B = 1 .. Len(B)
  BY LenProperties
<1>3. DOMAIN (A \o B) = 1 .. Len(A) + Len(B)
  BY <1>1, LenProperties
<1> DEFINE C == A \o B
           a == Len(A)
           b == Len(B)
<1>4. \A i \in 1 .. a + b : C[i] = IF i <= a THEN A[i] ELSE B[i - a]
  BY <1>1
<1> HIDE DEF C, a, b
<1>5. a \in Nat /\ b \in Nat
  BY <1>2 DEF a, b
<1>6. \A n \in 1 .. a : C[n] = A[n]
  BY <1>4, <1>5
<1>7. ASSUME NEW n \in 1 .. b PROVE C[a + n] = B[n]
  <2>1. a + n \in 1 .. a + b /\ ~ (a + n <= a) /\ (a + n) - a = n
    BY <1>5
  <2> QED
    BY <1>4, <2>1
<1>8. ASSUME NEW n \in 1 .. a + b, n \notin 1 .. a
      PROVE  \E m \in 1 .. b : n = a + m
  <2>1. n - a \in 1 .. b /\ n = a + (n - a)
    BY <1>5, <1>8
  <2> QED
    BY <2>1
<1> QED
  BY <1>1, <1>2, <1>3, <1>6, <1>7, <1>8 DEF C, a, b

LEMMA WiderSeq ==
  ASSUME NEW X, NEW Y, X \subseteq Y, NEW A \in Seq(X)
  PROVE  A \in Seq(Y)
<1>1. Len(A) \in Nat /\ A \in [1 .. Len(A) -> X]
  OBVIOUS
<1>2. A \in [1 .. Len(A) -> Y]
  BY <1>1
<1> QED
  BY <1>1, <1>2

LEMMA Single ==
  ASSUME NEW X, NEW x \in X
  PROVE  <<x>> \in Seq(X)
OBVIOUS

LEMMA ConcatSet ==
  ASSUME NEW X, NEW A \in Seq(X), NEW B \in Seq(X)
  PROVE  ToSet(A \o B) = ToSet(A) \cup ToSet(B)
<1> DEFINE C == A \o B
           a == Len(A)
           b == Len(B)
<1>1. /\ a \in Nat /\ b \in Nat /\ DOMAIN A = 1 .. a /\ DOMAIN B = 1 .. b
      /\ DOMAIN C = 1 .. a + b
      /\ \A n \in 1 .. a : C[n] = A[n]
      /\ \A n \in 1 .. b : C[a + n] = B[n]
      /\ \A n \in 1 .. a + b : n \in 1 .. a \/ \E m \in 1 .. b : n = a + m
  BY Concatenations
<1> HIDE DEF C, a, b
<1>2. ASSUME NEW x \in ToSet(C)
      PROVE  x \in ToSet(A) \/ x \in ToSet(B)
  <2>1. PICK n \in 1 .. a + b : x = C[n]
    BY <1>1 DEF ToSet
  <2>2. CASE n \in 1 .. a
    <3>1. x = A[n]
      BY <1>1, <2>1, <2>2
    <3> QED
      BY <1>1, <2>2, <3>1 DEF ToSet
  <2>3. CASE \E m \in 1 .. b : n = a + m
    <3>1. PICK m \in 1 .. b : n = a + m
      BY <2>3
    <3>2. x = B[m]
      BY <1>1, <2>1, <3>1
    <3> QED
      BY <1>1, <3>2 DEF ToSet
  <2> QED
    BY <1>1, <2>2, <2>3
<1>3. \A n \in 1 .. a : n \in 1 .. a + b
  BY <1>1
<1>4. \A n \in 1 .. b : a + n \in 1 .. a + b
  BY <1>1
<1>5. \A x \in ToSet(A) : x \in ToSet(C)
  BY <1>1, <1>3 DEF ToSet
<1>6. \A x \in ToSet(B) : x \in ToSet(C)
  BY <1>1, <1>4 DEF ToSet
<1>7. ToSet(C) = ToSet(A) \cup ToSet(B)
  BY <1>2, <1>5, <1>6
<1> QED
  BY <1>7 DEF C

LEMMA Alphabets ==
  /\ alpha \in Seq(Symbols) /\ numerics \in Seq(Symbols)
  /\ alphanumerics \in Seq(Symbols) /\ ToSet(alphanumerics) = Letters \cup Digits
<1> DEFINE L == ToSet(lower) \cup ToSet(upper) \cup {"_"}
<1>1. lower \in Seq(ToSet(lower))
  BY DEF lower, ToSet
<1>2. upper \in Seq(ToSet(upper))
  BY DEF upper, ToSet
<1>3. numerics \in Seq(Digits)
  BY DEF numerics, Digits, ToSet
<1> HIDE DEF L
<1> DEFINE us == <<"_">>
<1>4. lower \in Seq(L) /\ upper \in Seq(L) /\ us \in Seq(L)
  <2>1. ToSet(lower) \subseteq L /\ ToSet(upper) \subseteq L /\ "_" \in L
    BY DEF L
  <2>2. us \in Seq(L)
    BY <2>1, Single
  <2> QED
    BY <1>1, <1>2, <2>1, <2>2, WiderSeq
<1> DEFINE lu == lower \o upper
<1>5. lu \in Seq(L) /\ ToSet(lu) = ToSet(lower) \cup ToSet(upper)
  <2>1. lower \o upper \in Seq(L)
    BY <1>4, Concatenations
  <2>2. ToSet(lower \o upper) = ToSet(lower) \cup ToSet(upper)
    BY <1>4, ConcatSet
  <2> QED
    BY <2>1, <2>2
<1>6. ToSet(us) = {"_"}
  <2>1. DOMAIN us = {1} /\ us[1] = "_"
    OBVIOUS
  <2> QED
    BY <2>1 DEF ToSet
<1>7. alpha = lu \o us
  BY DEF alpha
<1> HIDE DEF lu, us
<1>8. alpha \in Seq(L) /\ Letters = L
  <2>1. alpha \in Seq(L)
    BY <1>4, <1>5, <1>7, Concatenations
  <2>2. ToSet(alpha) = ToSet(lu) \cup ToSet(us)
    BY <1>4, <1>5, <1>7, ConcatSet
  <2> QED
    BY <1>5, <1>6, <2>1, <2>2 DEF Letters, L
<1>9. alpha \in Seq(Symbols) /\ numerics \in Seq(Symbols)
  BY <1>3, <1>8, Characters, WiderSeq
<1>10. alphanumerics \in Seq(Symbols)
  BY <1>9, Concatenations DEF alphanumerics
<1>11. ToSet(alphanumerics) = Letters \cup Digits
  BY <1>9, ConcatSet DEF alphanumerics, Letters, Digits
<1> QED
  BY <1>9, <1>10, <1>11

-----------------------------------------------------------------------------
(* Arcs                                                                    *)

Kinds  == {"initial", "token", "keyword", "int", "real", "name"}
Ends   == [kind : Kinds, at : Word]
Arrows == [on : Symbols, to : Ends]

(* The first of the arcs for c leads to s. *)
Leads(arcs, c, s) ==
  \E n \in DOMAIN arcs :
    /\ arcs[n].on = c /\ arcs[n].to = s
    /\ \A m \in DOMAIN arcs : arcs[m].on = c => n <= m

LEMMA ArcsAre ==
  ASSUME NEW arcs \in Seq(Arrows)
  PROVE  /\ Len(arcs) \in Nat /\ DOMAIN arcs = 1 .. Len(arcs)
         /\ \A n \in DOMAIN arcs : /\ arcs[n].on \in Symbols /\ arcs[n].to \in Ends
                                   /\ n \in Nat /\ arcs[n].on \in ArcsOn(arcs)
         /\ \A c \in ArcsOn(arcs) : c \in Symbols /\ \E n \in DOMAIN arcs : arcs[n].on = c
<1>1. Len(arcs) \in Nat /\ DOMAIN arcs = 1 .. Len(arcs)
  BY LenProperties
<1>2. \A n \in DOMAIN arcs : arcs[n] \in Arrows /\ n \in Nat
  BY <1>1, ElementOfSeq
<1>3. \A n \in DOMAIN arcs : arcs[n].on \in Symbols /\ arcs[n].to \in Ends
  BY <1>2 DEF Arrows
<1> QED
  BY <1>1, <1>2, <1>3 DEF ArcsOn

(* Where all arcs for c lead to one state. *)
LEMMA Uniform ==
  ASSUME NEW arcs \in Seq(Arrows), NEW c \in ArcsOn(arcs), NEW s,
         \A n \in DOMAIN arcs : arcs[n].on = c => arcs[n].to = s
  PROVE  Leads(arcs, c, s)
<1> DEFINE T == {n \in DOMAIN arcs : arcs[n].on = c}
<1>1. T \in SUBSET Nat /\ T # {}
  BY ArcsAre
<1>2. PICK n \in T : \A m \in T : n <= m
  BY <1>1, Least
<1> QED
  BY <1>2 DEF Leads

(* Arcs behind those of A matter for the characters A has no arc for.      *)
LEMMA ArcsBehind ==
  ASSUME NEW A \in Seq(Arrows), NEW B \in Seq(Arrows)
  PROVE  /\ A \o B \in Seq(Arrows)
         /\ ArcsOn(A \o B) = ArcsOn(A) \cup ArcsOn(B)
         /\ \A c, s : Leads(A, c, s) => Leads(A \o B, c, s)
         /\ \A c, s : c \notin ArcsOn(A) /\ Leads(B, c, s) => Leads(A \o B, c, s)
<1> DEFINE C == A \o B
           a == Len(A)
           b == Len(B)
<1>1. /\ C \in Seq(Arrows)
      /\ a \in Nat /\ b \in Nat /\ DOMAIN A = 1 .. a /\ DOMAIN B = 1 .. b
      /\ DOMAIN C = 1 .. a + b
      /\ \A n \in 1 .. a : C[n] = A[n]
      /\ \A n \in 1 .. b : C[a + n] = B[n]
      /\ \A n \in 1 .. a + b : n \in 1 .. a \/ \E m \in 1 .. b : n = a + m
  BY Concatenations
<1> HIDE DEF C, a, b
<1>2. \A n \in 1 .. a : n \in 1 .. a + b /\ \A m \in 1 .. b : n <= a + m
  BY <1>1
<1>3. \A n \in 1 .. b : a + n \in 1 .. a + b /\ \A m \in 1 .. b : n <= m => a + n <= a + m
  BY <1>1
<1>4. ArcsOn(C) = ArcsOn(A) \cup ArcsOn(B)
  <2>1. ASSUME NEW x \in ArcsOn(C) PROVE x \in ArcsOn(A) \/ x \in ArcsOn(B)
    <3>1. PICK n \in 1 .. a + b : x = C[n].on
      BY <1>1 DEF ArcsOn
    <3>2. CASE n \in 1 .. a
      <4>1. x = A[n].on
        BY <1>1, <3>1, <3>2
      <4> QED
        BY <1>1, <3>2, <4>1 DEF ArcsOn
    <3>3. CASE \E m \in 1 .. b : n = a + m
      <4>1. PICK m \in 1 .. b : n = a + m
        BY <3>3
      <4>2. x = B[m].on
        BY <1>1, <3>1, <4>1
      <4> QED
        BY <1>1, <4>2 DEF ArcsOn
    <3> QED
      BY <1>1, <3>2, <3>3
  <2>2. ASSUME NEW x \in ArcsOn(A) PROVE x \in ArcsOn(C)
    <3>1. PICK n \in 1 .. a : x = A[n].on
      BY <1>1 DEF ArcsOn
    <3>2. x = C[n].on /\ n \in DOMAIN C
      BY <1>1, <1>2, <3>1
    <3> QED
      BY <3>2 DEF ArcsOn
  <2>3. ASSUME NEW x \in ArcsOn(B) PROVE x \in ArcsOn(C)
    <3>1. PICK n \in 1 .. b : x = B[n].on
      BY <1>1 DEF ArcsOn
    <3>2. x = C[a + n].on /\ a + n \in DOMAIN C
      BY <1>1, <1>3, <3>1
    <3> QED
      BY <3>2 DEF ArcsOn
  <2> QED
    BY <2>1, <2>2, <2>3
<1>5. ASSUME NEW c, NEW s, Leads(A, c, s)
      PROVE  Leads(C, c, s)
  <2>1. PICK n \in 1 .. a : /\ A[n].on = c /\ A[n].to = s
                            /\ \A m \in 1 .. a : A[m].on = c => n <= m
    BY <1>1, <1>5 DEF Leads
  <2>2. n \in DOMAIN C /\ C[n].on = c /\ C[n].to = s
    BY <1>1, <1>2, <2>1
  <2>3. ASSUME NEW m \in DOMAIN C, C[m].on = c PROVE n <= m
    <3>1. CASE m \in 1 .. a
      BY <1>1, <2>1, <2>3, <3>1
    <3>2. CASE \E k \in 1 .. b : m = a + k
      BY <1>2, <3>2
    <3> QED
      BY <1>1, <3>1, <3>2
  <2> QED
    BY <2>2, <2>3 DEF Leads
<1>6. ASSUME NEW c, NEW s, c \notin ArcsOn(A), Leads(B, c, s)
      PROVE  Leads(C, c, s)
  <2>1. PICK n \in 1 .. b : /\ B[n].on = c /\ B[n].to = s
                            /\ \A m \in 1 .. b : B[m].on = c => n <= m
    BY <1>1, <1>6 DEF Leads
  <2>2. a + n \in DOMAIN C /\ C[a + n].on = c /\ C[a + n].to = s
    BY <1>1, <1>3, <2>1
  <2>3. ASSUME NEW m \in DOMAIN C, C[m].on = c PROVE a + n <= m
    <3>1. CASE m \in 1 .. a
      <4>1. A[m].on = c
        BY <1>1, <2>3, <3>1
      <4> QED
        BY <1>1, <1>6, <3>1, <4>1 DEF ArcsOn
    <3>2. CASE \E k \in 1 .. b : m = a + k
      <4>1. PICK k \in 1 .. b : m = a + k
        BY <3>2
      <4>2. n <= k
        BY <1>1, <2>1, <2>3, <4>1
      <4> QED
        BY <1>3, <4>1, <4>2
    <3> QED
      BY <1>1, <3>1, <3>2
  <2> QED
    BY <2>2, <2>3 DEF Leads
<1> QED
  BY <1>1, <1>4, <1>5, <1>6 DEF C

LEMMA ListIs ==
  ASSUME NEW X, NEW n \in Nat, NEW A, A = [k \in 1 .. n |-> A[k]],
         \A k \in 1 .. n : A[k] \in X
  PROVE  A \in Seq(X) /\ Len(A) = n /\ DOMAIN A = 1 .. n
<1>1. A \in Seq(X) /\ DOMAIN A = 1 .. n
  OBVIOUS
<1> QED
  BY <1>1

LEMMA ArcsTyped ==
  ASSUME NEW c \in Symbols, NEW s \in Ends
  PROVE  Arc(c, s) \in Arrows /\ Arc(c, s).on = c /\ Arc(c, s).to = s
BY DEF Arc, Arrows

LEMMA StateTyped ==
  ASSUME NEW kind \in Kinds, NEW p \in Word
  PROVE  State(kind, p) \in Ends /\ State(kind, p).kind = kind /\ State(kind, p).at = p
BY DEF State, Ends

LEMMA ArcsIs ==
  ASSUME NEW chars \in Seq(Symbols), NEW s \in Ends
  PROVE  /\ Arcs(chars, s) \in Seq(Arrows)
         /\ ArcsOn(Arcs(chars, s)) = ToSet(chars)
         /\ \A c \in ToSet(chars) : Leads(Arcs(chars, s), c, s)
<1> DEFINE A == Arcs(chars, s)
<1>1. /\ Len(chars) \in Nat /\ DOMAIN chars = 1 .. Len(chars)
      /\ \A n \in DOMAIN chars : chars[n] \in Symbols
  BY LenProperties, ElementOfSeq
<1>2. A = [n \in 1 .. Len(chars) |-> Arc(chars[n], s)]
  BY <1>1 DEF Arcs
<1> HIDE DEF A
<1>3. \A n \in DOMAIN chars : A[n] \in Arrows /\ A[n].on = chars[n] /\ A[n].to = s
  BY <1>1, <1>2, ArcsTyped
<1>4. A \in Seq(Arrows) /\ DOMAIN A = DOMAIN chars
  BY <1>1, <1>2, <1>3, ListIs
<1>5. ArcsOn(A) = ToSet(chars)
  BY <1>3, <1>4 DEF ArcsOn, ToSet
<1>6. \A c \in ToSet(chars) : Leads(A, c, s)
  BY <1>3, <1>4, <1>5, Uniform
<1> QED
  BY <1>4, <1>5, <1>6 DEF A

(* The arcs along a tree of a table. *)
LEMMA ArcsToIs ==
  ASSUME NEW t \in Tables, NEW p \in Word, NEW kind \in Kinds
  PROVE  LET A == ArcsTo(kind, Branches(t, p))
         IN  /\ A \in Seq(Arrows) /\ Len(A) = Len(Branches(t, p))
             /\ \A n \in DOMAIN A : A[n].to.kind = kind
             /\ \A c \in Symbols : c \in ArcsOn(A) <=> Begins(t, Append(p, c))
             /\ \A c \in ArcsOn(A) : Leads(A, c, State(kind, Append(p, c)))
             /\ \A n \in DOMAIN A : A[n].to = State(kind, Append(p, A[n].on))
<1> DEFINE b == Branches(t, p)
           A == ArcsTo(kind, b)
<1>1. /\ Len(b) \in Nat /\ DOMAIN b = 1 .. Len(b)
      /\ \A k \in DOMAIN b : \E c \in Symbols : b[k] = Append(p, c) /\ Begins(t, Append(p, c))
      /\ \A c \in Symbols : Begins(t, Append(p, c)) => \E k \in DOMAIN b : b[k] = Append(p, c)
  BY BranchesAre
<1> HIDE DEF b
<1>2. A = [k \in 1 .. Len(b) |-> Arc(Last(b[k]), State(kind, b[k]))]
  BY <1>1 DEF ArcsTo
<1> HIDE DEF A
<1>3. \A c \in Symbols : Append(p, c) \in Word /\ Last(Append(p, c)) = c
  BY Longer DEF Last
<1>4. \A c \in Symbols : State(kind, Append(p, c)) \in Ends /\ State(kind, Append(p, c)).kind = kind
  BY <1>3, StateTyped
<1>5. ASSUME NEW k \in DOMAIN b
      PROVE  \E c \in Symbols : /\ b[k] = Append(p, c) /\ Begins(t, Append(p, c))
                                /\ A[k] \in Arrows /\ A[k].on = c
                                /\ A[k].to = State(kind, Append(p, c))
  <2>1. PICK c \in Symbols : b[k] = Append(p, c) /\ Begins(t, Append(p, c))
    BY <1>1
  <2>2. A[k] = Arc(c, State(kind, Append(p, c)))
    BY <1>1, <1>2, <1>3, <2>1
  <2>3. A[k] \in Arrows /\ A[k].on = c /\ A[k].to = State(kind, Append(p, c))
    BY <1>4, <2>2, ArcsTyped
  <2> QED
    BY <2>1, <2>3
<1>6. A \in Seq(Arrows) /\ DOMAIN A = DOMAIN b /\ Len(A) = Len(b)
  <2>1. \A k \in 1 .. Len(b) : A[k] \in Arrows
    BY <1>1, <1>5
  <2> QED
    BY <1>1, <1>2, <2>1, ListIs
<1>7. \A n \in DOMAIN A : /\ A[n].to.kind = kind
                           /\ A[n].to = State(kind, Append(p, A[n].on))
                           /\ A[n].on \in Symbols /\ Begins(t, Append(p, A[n].on))
  BY <1>4, <1>5, <1>6
<1>8. ASSUME NEW c \in Symbols
      PROVE  c \in ArcsOn(A) <=> Begins(t, Append(p, c))
  <2>1. ASSUME c \in ArcsOn(A) PROVE Begins(t, Append(p, c))
    BY <1>7, <2>1 DEF ArcsOn
  <2>2. ASSUME Begins(t, Append(p, c)) PROVE c \in ArcsOn(A)
    <3>1. PICK k \in DOMAIN b : b[k] = Append(p, c)
      BY <1>1, <2>2
    <3>2. PICK d \in Symbols : b[k] = Append(p, d) /\ A[k].on = d
      BY <1>5
    <3>3. c = d
      BY <1>3, <3>1, <3>2
    <3> QED
      BY <1>6, <3>2, <3>3 DEF ArcsOn
  <2> QED
    BY <2>1, <2>2
<1>9. \A c \in ArcsOn(A) : Leads(A, c, State(kind, Append(p, c)))
  BY <1>6, <1>7, Uniform
<1> QED
  BY <1>6, <1>7, <1>8, <1>9 DEF A, b

LEMMA NameArcsIs ==
  ASSUME NEW chars \in Seq(Symbols), NEW arcs \in Seq(Arrows)
  PROVE  LET A == NameArcs(chars, arcs)
         IN  /\ A \in Seq(Arrows)
             /\ ArcsOn(A) = ToSet(chars) \ ArcsOn(arcs)
             /\ \A c \in ArcsOn(A) : Leads(A, c, State("name", <<>>))
<1> DEFINE S == {n \in DOMAIN chars : chars[n] \notin ArcsOn(arcs)}
           o == InOrder(S)
           s == State("name", <<>>)
           A == NameArcs(chars, arcs)
<1>1. /\ Len(chars) \in Nat /\ DOMAIN chars = 1 .. Len(chars)
      /\ \A n \in DOMAIN chars : chars[n] \in Symbols
  BY LenProperties, ElementOfSeq
<1>2. s \in Ends
  <2>1. <<>> \in Word /\ "name" \in Kinds
    BY DEF Word, Kinds
  <2> QED
    BY <2>1, StateTyped
<1>3. \A n \in DOMAIN chars : n \in S <=> chars[n] \notin ArcsOn(arcs)
  OBVIOUS
<1>4. S \in SUBSET (1 .. Len(chars))
  BY <1>1
<1>5. A = [k \in DOMAIN o |-> Arc(chars[o[k]], s)]
  BY DEF NameArcs
<1> HIDE DEF S, s, A
<1>6. /\ Cardinality(S) \in Nat /\ DOMAIN o = 1 .. Cardinality(S)
      /\ \A k \in DOMAIN o : o[k] \in S
      /\ \A n \in S : \E k \in DOMAIN o : o[k] = n
  BY <1>1, <1>4, InOrderIs
<1> HIDE DEF o
<1>7. \A k \in DOMAIN o : /\ o[k] \in DOMAIN chars /\ o[k] \in S
                          /\ A[k] \in Arrows /\ A[k].on = chars[o[k]] /\ A[k].to = s
  BY <1>1, <1>2, <1>4, <1>5, <1>6, ArcsTyped
<1>8. A \in Seq(Arrows) /\ DOMAIN A = DOMAIN o
  BY <1>5, <1>6, <1>7, ListIs
<1>9. \A c \in ArcsOn(A) : c \in ToSet(chars) /\ c \notin ArcsOn(arcs)
  BY <1>3, <1>7, <1>8 DEF ArcsOn, ToSet
<1>10. ASSUME NEW c \in ToSet(chars), c \notin ArcsOn(arcs)
       PROVE  c \in ArcsOn(A)
  <2>1. PICK n \in DOMAIN chars : c = chars[n]
    BY DEF ToSet
  <2>2. n \in S
    BY <1>3, <1>10, <2>1
  <2>3. PICK k \in DOMAIN o : o[k] = n
    BY <1>6, <2>2
  <2> QED
    BY <1>7, <1>8, <2>1, <2>3 DEF ArcsOn
<1>11. \A c \in ArcsOn(A) : Leads(A, c, s)
  BY <1>7, <1>8, Uniform
<1>12. ArcsOn(A) = ToSet(chars) \ ArcsOn(arcs)
  BY <1>9, <1>10
<1> QED
  BY <1>8, <1>11, <1>12 DEF A, s

-----------------------------------------------------------------------------
(* Kinds of texts                                                          *)

LEMMA Classes ==
  /\ \A c : c \in Letters => c \notin Digits
  /\ "." \notin Letters /\ "." \notin Digits
BY TablesAssumption

LEMMA OneTypes == OneType(tokens) /\ OneType(Passed)
<1>1. OneType(tokens) /\ OneType(keywords)
  BY TablesAssumption DEF OneType
<1> QED
  BY <1>1, PassedIs DEF OneType

LEMMA TokenWords ==
  ASSUME NEW w \in TokenTexts
  PROVE  /\ w \in Word /\ w # <<>> /\ w[1] \notin Letters /\ w[1] \notin Digits
         /\ Begins(tokens, w)
         /\ Len(w) = 1 => Listed(tokens, w)
         /\ Len(w) # 1 => Len(w) > 1
<1>1. w \in Word /\ w # <<>> /\ Begins(tokens, w)
  BY TablesAre, TextsAre DEF TokenTexts
<1>2. PICK n \in DOMAIN tokens : IsPrefix(w, tokens[n].token)
  BY <1>1 DEF Begins
<1> DEFINE e == tokens[n].token
<1>3. e \in Word /\ e[1] \notin Letters /\ e[1] \notin Digits /\ Listed(tokens, <<e[1]>>)
  BY TablesAre, TableIs, TablesAssumption
<1> HIDE DEF e
<1>4. 1 \in 1 .. Len(w)
  BY <1>1, WordIs
<1>5. w[1] = e[1]
  BY <1>1, <1>2, <1>3, <1>4, PrefixIs DEF e
<1>6. ASSUME Len(w) = 1 PROVE w = <<e[1]>>
  <2>1. e[1] \in Symbols
    BY <1>1, <1>5, WordIs
  <2> DEFINE v == <<e[1]>>
  <2>2. v \in Word /\ Len(v) = 1 /\ v[1] = e[1]
    BY <2>1, Single DEF Word
  <2> HIDE DEF v
  <2>3. w = v
    BY <1>1, <1>5, <1>6, <2>2, SameWord
  <2> QED
    BY <2>3 DEF v
<1>7. Len(w) # 1 => Len(w) > 1
  <2> DEFINE k == Len(w)
  <2>1. k \in Nat /\ k > 0
    BY <1>1, WordIs
  <2> HIDE DEF k
  <2>2. k # 1 => k > 1
    BY <2>1
  <2> QED
    BY <2>2 DEF k
<1> QED
  BY <1>1, <1>3, <1>5, <1>6, <1>7

LEMMA KeywordWords ==
  ASSUME NEW w \in KeywordTexts
  PROVE  /\ w \in Word /\ w # <<>> /\ \A k \in 1 .. Len(w) : w[k] \in Letters
         /\ Begins(Passed, w)
<1>1. w \in Word /\ w # <<>> /\ Begins(Passed, w)
  BY PassedIs, TextsAre DEF KeywordTexts
<1>2. PICK n \in DOMAIN Passed : IsPrefix(w, Passed[n].token)
  BY <1>1 DEF Begins
<1>3. n \in DOMAIN keywords /\ Passed[n] = keywords[n]
  BY PassedIs
<1> DEFINE e == keywords[n].token
<1>4. e \in Word /\ ToSet(e) \subseteq Letters /\ IsPrefix(w, e)
  BY <1>2, <1>3, TablesAre, TableIs, TablesAssumption
<1> HIDE DEF e
<1>5. Len(w) <= Len(e) /\ \A k \in 1 .. Len(w) : w[k] = e[k]
  BY <1>1, <1>4, PrefixIs
<1>6. DOMAIN e = 1 .. Len(e) /\ Len(e) \in Nat /\ Len(w) \in Nat
  BY <1>1, <1>4, WordIs
<1>7. \A k \in 1 .. Len(w) : k \in DOMAIN e
  BY <1>5, <1>6
<1>8. \A k \in 1 .. Len(w) : w[k] \in Letters
  BY <1>4, <1>5, <1>7 DEF ToSet
<1> QED
  BY <1>1, <1>8

(* The beginning of a beginning is one. *)
LEMMA Shorter ==
  ASSUME NEW t \in Tables, NEW p \in Word, p # <<>>, NEW c \in Symbols,
         Append(p, c) \in Texts(t)
  PROVE  p \in Texts(t)
<1>1. Begins(t, Append(p, c))
  BY TextsAre
<1>2. PICK n \in DOMAIN t : IsPrefix(Append(p, c), t[n].token)
  BY <1>1 DEF Begins
<1>3. IsPrefix(p, t[n].token)
  BY <1>2, TableIs, LongerPrefix
<1> QED
  BY <1>3, TextsAre DEF Begins

LEMMA AppendSet ==
  ASSUME NEW p \in Word, NEW c \in Symbols
  PROVE  ToSet(Append(p, c)) = ToSet(p) \cup {c}
<1> DEFINE q == Append(p, c)
<1>1. /\ q \in Word /\ Len(q) = Len(p) + 1 /\ q[Len(p) + 1] = c
      /\ \A k \in 1 .. Len(p) : q[k] = p[k]
  BY Longer
<1> HIDE DEF q
<1>2. Len(p) \in Nat /\ DOMAIN p = 1 .. Len(p) /\ DOMAIN q = 1 .. Len(p) + 1
  BY <1>1, WordIs
<1>3. \A k \in 1 .. Len(p) + 1 : k \in 1 .. Len(p) \/ k = Len(p) + 1
  BY <1>2
<1>4. \A k \in 1 .. Len(p) : k \in 1 .. Len(p) + 1
  BY <1>2
<1>5. Len(p) + 1 \in 1 .. Len(p) + 1
  BY <1>2
<1>6. \A x \in ToSet(q) : x \in ToSet(p) \/ x = c
  BY <1>1, <1>2, <1>3 DEF ToSet
<1>7. \A x \in ToSet(p) : x \in ToSet(q)
  BY <1>1, <1>2, <1>4 DEF ToSet
<1>8. c \in ToSet(q)
  BY <1>1, <1>2, <1>5 DEF ToSet
<1> QED
  BY <1>6, <1>7, <1>8 DEF q

(* How names and numbers begin, and go on. *)
LEMMA TextBegins ==
  ASSUME NEW w \in Word, w # <<>>
  PROVE  /\ IsWord(w) => w[1] \in Letters
         /\ IsInteger(w) => w[1] \in Digits /\ ~ IsReal(w)
         /\ IsReal(w) => w[1] \in Digits
<1>1. Head(w) = w[1] /\ DOMAIN w = 1 .. Len(w) /\ Len(w) \in Nat /\ 1 \in DOMAIN w
  BY WordIs
<1>2. IsInteger(w) => \A k \in DOMAIN w : w[k] \in Digits
  BY DEF IsInteger, ToSet
<1>3. ASSUME IsReal(w)
      PROVE  w[1] \in Digits /\ ~ IsInteger(w)
  <2>1. PICK k \in 2 .. Len(w) : w[k] = "." /\ \A m \in DOMAIN w \ {k} : w[m] \in Digits
    BY <1>3 DEF IsReal
  <2>2. 1 # k /\ k \in DOMAIN w
    BY <1>1
  <2> QED
    BY <1>1, <1>2, <2>1, <2>2, Classes
<1> QED
  BY <1>1, <1>2, <1>3 DEF IsWord

LEMMA TextGrows ==
  ASSUME NEW p \in Word, p # <<>>, NEW c \in Symbols
  PROVE  /\ IsWord(Append(p, c)) <=> IsWord(p) /\ c \in Letters \cup Digits
         /\ IsInteger(Append(p, c)) <=> IsInteger(p) /\ c \in Digits
         /\ IsReal(Append(p, c)) <=> ((IsReal(p) /\ c \in Digits) \/ (IsInteger(p) /\ c = "."))
<1> DEFINE q == Append(p, c)
<1>1. /\ q \in Word /\ Len(q) = Len(p) + 1 /\ q[Len(p) + 1] = c /\ q # <<>>
      /\ \A k \in 1 .. Len(p) : q[k] = p[k]
  BY Longer
<1>2. ToSet(q) = ToSet(p) \cup {c}
  BY AppendSet
<1> HIDE DEF q
<1>3. /\ Len(p) \in Nat /\ Len(p) > 0 /\ DOMAIN p = 1 .. Len(p) /\ DOMAIN q = 1 .. Len(p) + 1
      /\ Head(p) = p[1] /\ Head(q) = q[1]
  BY <1>1, WordIs
<1>4. Head(q) = Head(p)
  <2>1. 1 \in 1 .. Len(p)
    BY <1>3
  <2> QED
    BY <1>1, <1>3, <2>1
<1>5. IsWord(q) <=> IsWord(p) /\ c \in Letters \cup Digits
  BY <1>2, <1>4 DEF IsWord
<1>6. IsInteger(q) <=> IsInteger(p) /\ c \in Digits
  BY <1>2 DEF IsInteger
<1>7. /\ \A k \in 1 .. Len(p) + 1 : k \in 1 .. Len(p) \/ k = Len(p) + 1
      /\ \A k \in 1 .. Len(p) : k \in 1 .. Len(p) + 1 /\ k # Len(p) + 1
      /\ Len(p) + 1 \in 2 .. Len(p) + 1
      /\ \A k \in 2 .. Len(p) : k \in 2 .. Len(p) + 1 /\ k \in 1 .. Len(p)
      /\ \A k \in 2 .. Len(p) + 1 : k \in 2 .. Len(p) \/ k = Len(p) + 1
  BY <1>3
<1>8. ASSUME IsReal(q)
      PROVE  (IsReal(p) /\ c \in Digits) \/ (IsInteger(p) /\ c = ".")
  <2>1. PICK k \in 2 .. Len(p) + 1 : q[k] = "." /\ \A m \in DOMAIN q \ {k} : q[m] \in Digits
    BY <1>1, <1>8 DEF IsReal
  <2>2. CASE k = Len(p) + 1
    <3>1. c = "."
      BY <1>1, <2>1, <2>2
    <3>2. \A m \in DOMAIN p : p[m] \in Digits
      BY <1>1, <1>3, <1>7, <2>1, <2>2
    <3> QED
      BY <3>1, <3>2 DEF IsInteger, ToSet
  <2>3. CASE k \in 2 .. Len(p)
    <3>1. k # Len(p) + 1
      BY <1>7, <2>3
    <3>2. c \in Digits
      <4>1. Len(p) + 1 \in DOMAIN q
        BY <1>3
      <4> QED
        BY <1>1, <2>1, <3>1, <4>1
    <3>3. p[k] = "." /\ \A m \in DOMAIN p \ {k} : p[m] \in Digits
      BY <1>1, <1>3, <1>7, <2>1, <2>3
    <3> QED
      BY <2>3, <3>2, <3>3 DEF IsReal
  <2> QED
    BY <1>7, <2>2, <2>3
<1>9. ASSUME IsReal(p), c \in Digits PROVE IsReal(q)
  <2>1. PICK k \in 2 .. Len(p) : p[k] = "." /\ \A m \in DOMAIN p \ {k} : p[m] \in Digits
    BY <1>9 DEF IsReal
  <2>2. k \in 2 .. Len(q) /\ q[k] = "."
    BY <1>1, <1>7, <2>1
  <2>3. \A m \in DOMAIN q \ {k} : q[m] \in Digits
    BY <1>1, <1>3, <1>7, <1>9, <2>1
  <2> QED
    BY <2>2, <2>3 DEF IsReal
<1>10. ASSUME IsInteger(p), c = "." PROVE IsReal(q)
  <2> DEFINE k == Len(p) + 1
  <2>1. \A m \in DOMAIN p : p[m] \in Digits
    BY <1>10 DEF IsInteger, ToSet
  <2>2. k \in 2 .. Len(q) /\ q[k] = "."
    BY <1>1, <1>7, <1>10
  <2>3. \A m \in DOMAIN q \ {k} : q[m] \in Digits
    BY <1>1, <1>3, <1>7, <2>1
  <2> HIDE DEF k
  <2> QED
    BY <2>2, <2>3 DEF IsReal
<1>11. IsReal(q) <=> ((IsReal(p) /\ c \in Digits) \/ (IsInteger(p) /\ c = "."))
  BY <1>8, <1>9, <1>10
<1> QED
  BY <1>5, <1>6, <1>11 DEF q

LEMMA TextStarts ==
  ASSUME NEW c \in Symbols
  PROVE  /\ IsWord(Append(<<>>, c)) <=> c \in Letters
         /\ IsInteger(Append(<<>>, c)) <=> c \in Digits
         /\ ~ IsReal(Append(<<>>, c))
         /\ Append(<<>>, c) \in Word /\ Append(<<>>, c) # <<>>
         /\ Append(<<>>, c)[1] = c /\ Len(Append(<<>>, c)) = 1
<1> DEFINE q == Append(<<>>, c)
<1>1. <<>> \in Word /\ Len(<<>>) = 0
  BY DEF Word
<1>2. q \in Word /\ Len(q) = 1 /\ q[1] = c /\ q # <<>>
  <2>1. q \in Word /\ Len(q) = Len(<<>>) + 1 /\ q[Len(<<>>) + 1] = c /\ q # <<>>
    BY <1>1, Longer
  <2> HIDE DEF q
  <2> QED
    BY <1>1, <2>1
<1>3. ToSet(q) = {c}
  <2>1. ToSet(q) = ToSet(<<>>) \cup {c}
    BY <1>1, AppendSet
  <2>2. ToSet(<<>>) = {}
    BY DEF ToSet
  <2> QED
    BY <2>1, <2>2
<1> HIDE DEF q
<1>4. Head(q) = c
  BY <1>2, WordIs
<1>5. ~ IsReal(q)
  BY <1>2 DEF IsReal
<1>6. IsWord(q) <=> c \in Letters
  BY <1>3, <1>4 DEF IsWord
<1>7. IsInteger(q) <=> c \in Digits
  BY <1>3 DEF IsInteger
<1> QED
  BY <1>2, <1>5, <1>6, <1>7 DEF q

-----------------------------------------------------------------------------
(* The arcs of the states                                                  *)

LEMMA TokenArcs ==
  ASSUME NEW p \in Word
  PROVE  LET A == ArcsTo("token", Branches(SortedTokens, p))
         IN  /\ A \in Seq(Arrows)
             /\ \A c \in Symbols : c \in ArcsOn(A) <=> Append(p, c) \in TokenTexts
             /\ \A c \in ArcsOn(A) : Leads(A, c, State("token", Append(p, c)))
<1> DEFINE A == ArcsTo("token", Branches(SortedTokens, p))
<1>1. SortedTokens \in Tables /\ tokens \in Tables
  BY TablesAre, SortedIs DEF SortedTokens
<1>2. /\ A \in Seq(Arrows)
      /\ \A c \in Symbols : c \in ArcsOn(A) <=> Begins(SortedTokens, Append(p, c))
      /\ \A c \in ArcsOn(A) : Leads(A, c, State("token", Append(p, c)))
  BY <1>1, ArcsToIs DEF Kinds
<1> HIDE DEF A
<1>3. ASSUME NEW c \in Symbols
      PROVE  Begins(SortedTokens, Append(p, c)) <=> Append(p, c) \in TokenTexts
  <2>1. Append(p, c) \in Word /\ Append(p, c) # <<>>
    BY Longer
  <2>2. Begins(SortedTokens, Append(p, c)) <=> Begins(tokens, Append(p, c))
    BY <1>1, SortedBegins DEF SortedTokens
  <2> QED
    BY <1>1, <2>1, <2>2, TextsAre DEF TokenTexts
<1> QED
  BY <1>2, <1>3 DEF A

LEMMA KeywordArcsAre ==
  ASSUME NEW p \in Word
  PROVE  LET A == KeywordArcs(p)
         IN  /\ A \in Seq(Arrows)
             /\ \A c \in Symbols : c \in ArcsOn(A) <=> Append(p, c) \in KeywordTexts
             /\ \A c \in ArcsOn(A) : Leads(A, c, State("keyword", Append(p, c)))
             /\ \A n \in DOMAIN A : A[n].to = State("keyword", Append(p, A[n].on))
<1> DEFINE A == KeywordArcs(p)
<1>1. SortedKeywords \in Tables /\ Passed \in Tables
  BY PassedIs, SortedIs DEF SortedKeywords
<1>2. /\ A \in Seq(Arrows)
      /\ \A c \in Symbols : c \in ArcsOn(A) <=> Begins(SortedKeywords, Append(p, c))
      /\ \A c \in ArcsOn(A) : Leads(A, c, State("keyword", Append(p, c)))
      /\ \A n \in DOMAIN A : A[n].to = State("keyword", Append(p, A[n].on))
  BY <1>1, ArcsToIs DEF Kinds, KeywordArcs
<1> HIDE DEF A
<1>3. ASSUME NEW c \in Symbols
      PROVE  Begins(SortedKeywords, Append(p, c)) <=> Append(p, c) \in KeywordTexts
  <2>1. Append(p, c) \in Word /\ Append(p, c) # <<>>
    BY Longer
  <2>2. Begins(SortedKeywords, Append(p, c)) <=> Begins(Passed, Append(p, c))
    BY <1>1, SortedBegins DEF SortedKeywords
  <2> QED
    BY <1>1, <2>1, <2>2, TextsAre DEF KeywordTexts
<1> QED
  BY <1>2, <1>3 DEF A

(* A full stop is a token. *)
LEMMA FullStop == Append(<<>>, ".") \in TokenTexts
<1>1. "." \in Symbols
  BY Characters
<1> DEFINE q == Append(<<>>, ".")
           d == <<".">>
<1>2. q \in Word /\ q # <<>> /\ q[1] = "." /\ Len(q) = 1
  BY <1>1, TextStarts
<1>3. d \in Word /\ d[1] = "." /\ Len(d) = 1
  BY <1>1, Single DEF Word
<1>4. Listed(tokens, d)
  BY TablesAssumption
<1> HIDE DEF q, d
<1>5. q = d
  BY <1>2, <1>3, SameWord
<1>6. PICK n \in DOMAIN tokens : tokens[n].token = q
  BY <1>4, <1>5 DEF Listed
<1>7. IsPrefix(q, tokens[n].token)
  BY <1>2, <1>6, WordIs, PrefixIs
<1> QED
  BY <1>2, <1>7, TablesAre, TextsAre DEF TokenTexts, Begins, q

LEMMA FirstArcsAre ==
  /\ FirstArcs \in Seq(Arrows)
  /\ \A c \in Symbols :
       c \in ArcsOn(FirstArcs) <=> \/ Append(<<>>, c) \in TokenTexts
                                  \/ c \in Digits
                                  \/ Append(<<>>, c) \in KeywordTexts
  /\ \A c \in Symbols : Append(<<>>, c) \in TokenTexts =>
       Leads(FirstArcs, c, State("token", Append(<<>>, c)))
  /\ \A c \in Digits : Leads(FirstArcs, c, State("int", <<>>))
  /\ \A c \in Symbols : Append(<<>>, c) \in KeywordTexts =>
       Leads(FirstArcs, c, State("keyword", Append(<<>>, c)))
<1> DEFINE T == ArcsTo("token", Branches(SortedTokens, <<>>))
           N == Arcs(numerics, State("int", <<>>))
           r == Arc(".", State("real", <<>>))
           D == <<r>>
           K == ArcsTo("keyword", Branches(SortedKeywords, <<>>))
           TN == T \o N
           TND == TN \o D
           F == TND \o K
<1>1. <<>> \in Word
  BY DEF Word
<1>2. /\ T \in Seq(Arrows)
      /\ \A c \in Symbols : c \in ArcsOn(T) <=> Append(<<>>, c) \in TokenTexts
      /\ \A c \in ArcsOn(T) : Leads(T, c, State("token", Append(<<>>, c)))
  BY <1>1, TokenArcs
<1>3. State("int", <<>>) \in Ends /\ State("real", <<>>) \in Ends
  BY <1>1, StateTyped DEF Kinds
<1>4. /\ N \in Seq(Arrows) /\ ArcsOn(N) = Digits
      /\ \A c \in Digits : Leads(N, c, State("int", <<>>))
  BY <1>3, Alphabets, ArcsIs DEF Digits
<1>5. r \in Arrows /\ r.on = "."
  BY <1>3, Characters, ArcsTyped
<1> HIDE DEF r
<1>6. D \in Seq(Arrows) /\ ArcsOn(D) = {"."}
  BY <1>5 DEF ArcsOn
<1>7. K = KeywordArcs(<<>>)
  BY DEF KeywordArcs
<1>8. /\ K \in Seq(Arrows)
      /\ \A c \in Symbols : c \in ArcsOn(K) <=> Append(<<>>, c) \in KeywordTexts
      /\ \A c \in ArcsOn(K) : Leads(K, c, State("keyword", Append(<<>>, c)))
  BY <1>1, <1>7, KeywordArcsAre
<1>9. FirstArcs = F
  BY DEF FirstArcs, r
<1> HIDE DEF T, N, D, K
<1>10. /\ TN \in Seq(Arrows) /\ ArcsOn(TN) = ArcsOn(T) \cup Digits
       /\ \A c, s : Leads(T, c, s) => Leads(TN, c, s)
       /\ \A c, s : c \notin ArcsOn(T) /\ Leads(N, c, s) => Leads(TN, c, s)
  BY <1>2, <1>4, ArcsBehind
<1> HIDE DEF TN
<1>11. /\ TND \in Seq(Arrows) /\ ArcsOn(TND) = ArcsOn(T) \cup Digits \cup {"."}
       /\ \A c, s : Leads(TN, c, s) => Leads(TND, c, s)
  BY <1>6, <1>10, ArcsBehind
<1> HIDE DEF TND
<1>12. /\ F \in Seq(Arrows) /\ ArcsOn(F) = ArcsOn(T) \cup Digits \cup {"."} \cup ArcsOn(K)
       /\ \A c, s : Leads(TND, c, s) => Leads(F, c, s)
       /\ \A c, s : c \notin ArcsOn(TND) /\ Leads(K, c, s) => Leads(F, c, s)
  BY <1>8, <1>11, ArcsBehind
<1> HIDE DEF F
<1>13. \A c \in Symbols :
         c \in ArcsOn(F) <=> \/ Append(<<>>, c) \in TokenTexts
                            \/ c \in Digits
                            \/ Append(<<>>, c) \in KeywordTexts
  BY <1>2, <1>8, <1>12, FullStop, Characters
<1>14. \A c \in Symbols : Append(<<>>, c) \in TokenTexts => c \notin Digits /\ c \notin Letters
  BY TokenWords, TextStarts
<1>15. \A c \in Symbols : Append(<<>>, c) \in KeywordTexts => c \in Letters
  BY KeywordWords, TextStarts
<1>16. \A c \in Digits : Leads(F, c, State("int", <<>>))
  BY <1>2, <1>4, <1>10, <1>11, <1>12, <1>14, Characters
<1>17. ASSUME NEW c \in Symbols, Append(<<>>, c) \in KeywordTexts
       PROVE  Leads(F, c, State("keyword", Append(<<>>, c)))
  <2>1. c \notin ArcsOn(T) /\ c \notin Digits /\ c # "."
    BY <1>2, <1>14, <1>15, <1>17, Classes
  <2>2. c \notin ArcsOn(TND)
    BY <1>11, <2>1
  <2> QED
    BY <1>8, <1>12, <1>17, <2>2
<1>18. \A c \in Symbols : Append(<<>>, c) \in TokenTexts =>
         Leads(F, c, State("token", Append(<<>>, c)))
  BY <1>2, <1>10, <1>11, <1>12
<1> QED
  BY <1>9, <1>12, <1>13, <1>16, <1>17, <1>18

-----------------------------------------------------------------------------
(* How the states of keywords are completed                                *)

LEMMA Beginnings ==
  ASSUME NEW t \in Tables, NEW w \in Texts(t), NEW k \in 1 .. Len(w)
  PROVE  SubSeq(w, 1, k) \in Texts(t)
<1> DEFINE v == SubSeq(w, 1, k)
<1>1. w \in Word /\ w # <<>> /\ Begins(t, w)
  BY TextsAre
<1>2. PICK n \in DOMAIN t : IsPrefix(w, t[n].token)
  BY <1>1 DEF Begins
<1>3. k \in 0 .. Len(w) /\ Len(w) \in Nat /\ \A j \in 1 .. k : j \in 1 .. Len(w)
  BY <1>1, WordIs
<1>4. v \in Word /\ Len(v) = k /\ \A j \in 1 .. k : v[j] = w[j]
  BY <1>1, <1>3, Beginning
<1> HIDE DEF v
<1>5. v # <<>>
  BY <1>3, <1>4
<1> DEFINE e == t[n].token
<1>6. e \in Word
  BY TableIs
<1> HIDE DEF e
<1>7. Len(w) <= Len(e) /\ \A j \in 1 .. Len(w) : w[j] = e[j]
  BY <1>1, <1>2, <1>6, PrefixIs DEF e
<1>8. Len(e) \in Nat
  BY <1>6, WordIs
<1>9. Len(v) <= Len(e) /\ \A j \in 1 .. Len(v) : v[j] = e[j]
  BY <1>3, <1>4, <1>7, <1>8
<1>10. IsPrefix(v, e)
  BY <1>4, <1>6, <1>9, PrefixIs
<1> QED
  BY <1>4, <1>5, <1>10, TextsAre DEF Begins, e, v

LEMMA Parent ==
  ASSUME NEW w \in Word, NEW n \in 1 .. Len(w)
  PROVE  /\ w[n] \in Symbols /\ SubSeq(w, 1, n - 1) \in Word
         /\ SubSeq(w, 1, n) = Append(SubSeq(w, 1, n - 1), w[n])
         /\ SubSeq(w, 1, n - 1) = <<>> <=> n = 1
<1> DEFINE u == SubSeq(w, 1, n - 1)
           v == SubSeq(w, 1, n)
           q == Append(u, w[n])
<1>1. /\ n - 1 \in 0 .. Len(w) /\ n \in 0 .. Len(w) /\ Len(w) \in Nat /\ n \in Nat
      /\ \A j \in 1 .. n : j \in 1 .. n - 1 \/ j = n
      /\ n - 1 + 1 = n
  BY WordIs
<1>2. w[n] \in Symbols
  BY WordIs
<1>3. u \in Word /\ Len(u) = n - 1 /\ \A j \in 1 .. n - 1 : u[j] = w[j]
  BY <1>1, Beginning
<1>4. v \in Word /\ Len(v) = n /\ \A j \in 1 .. n : v[j] = w[j]
  BY <1>1, Beginning
<1> HIDE DEF u, v
<1>5. /\ q \in Word /\ Len(q) = Len(u) + 1 /\ q[Len(u) + 1] = w[n]
      /\ \A j \in 1 .. Len(u) : q[j] = u[j]
  BY <1>2, <1>3, Longer
<1> HIDE DEF q
<1>6. Len(q) = n /\ \A j \in 1 .. n : q[j] = w[j]
  BY <1>1, <1>3, <1>5
<1>7. v = q
  BY <1>4, <1>5, <1>6, SameWord
<1>8. u = <<>> <=> Len(u) = 0
  BY <1>3 DEF Word
<1>9. u = <<>> <=> n = 1
  BY <1>1, <1>3, <1>8
<1> QED
  BY <1>2, <1>3, <1>7, <1>9 DEF u, v, q

LEMMA AlphabetsMeet ==
  /\ Len(numerics) \in Nat /\ Len(alphanumerics) \in Nat /\ Len(alpha) \in Nat
  /\ DOMAIN alpha = 1 .. Len(alpha)
  /\ Len(numerics) <= Len(alphanumerics)
  /\ \A m \in 1 .. Len(numerics) : alphanumerics[m] \in Digits
<1>1. alpha \in Seq(Symbols) /\ numerics \in Seq(Symbols) /\ alphanumerics \in Seq(Symbols)
  BY Alphabets
<1>2. /\ Len(numerics) \in Nat /\ Len(alphanumerics) \in Nat /\ Len(alpha) \in Nat
      /\ DOMAIN alpha = 1 .. Len(alpha) /\ DOMAIN numerics = 1 .. Len(numerics)
  BY <1>1, LenProperties
<1>3. Len(alphanumerics) = Len(numerics) + Len(alpha)
  BY <1>1, ConcatProperties DEF alphanumerics
<1>4. \A m \in 1 .. Len(numerics) : alphanumerics[m] = numerics[m]
  BY <1>1, Concatenations DEF alphanumerics
<1>5. \A m \in 1 .. Len(numerics) : numerics[m] \in Digits
  BY <1>2 DEF Digits, ToSet
<1> QED
  BY <1>2, <1>3, <1>4, <1>5

(* The luck of the construction: every state of a keyword's text is come to. *)
LEMMA AllCompleted ==
  ASSUME NEW p \in KeywordTexts
  PROVE  Completed(p)
<1>1. p \in Word /\ Passed \in Tables /\ KeywordTexts = Texts(Passed)
  BY KeywordWords, PassedIs DEF KeywordTexts
<1> SUFFICES ASSUME NEW n \in 1 .. Len(p)
             PROVE  LET u == SubSeq(p, 1, n - 1) IN
                    IF u = <<>> THEN State("keyword", SubSeq(p, 1, 1)) \in Visited(alpha, FirstArcs)
                    ELSE State("keyword", SubSeq(p, 1, n)) \in Visited(alphanumerics, KeywordArcs(u))
  BY DEF Completed
<1> DEFINE u == SubSeq(p, 1, n - 1)
           c == p[n]
           q == SubSeq(p, 1, n)
<1>2. c \in Symbols /\ u \in Word /\ q = Append(u, c) /\ (u = <<>> <=> n = 1)
  BY <1>1, Parent
<1>3. q \in KeywordTexts
  BY <1>1, Beginnings
<1>4. n # 1 => u \in KeywordTexts
  <2>1. n # 1 => n - 1 \in 1 .. Len(p)
    BY <1>1, WordIs
  <2> QED
    BY <1>1, <2>1, Beginnings
<1>5. n = 1 => q = SubSeq(p, 1, 1)
  OBVIOUS
<1> HIDE DEF u, c, q
<1>6. ASSUME n = 1
      PROVE  State("keyword", q) \in Visited(alpha, FirstArcs)
  <2>1. FirstArcs \in Seq(Arrows) /\ Leads(FirstArcs, c, State("keyword", q))
    BY <1>2, <1>3, <1>6, FirstArcsAre
  <2>2. PICK m \in DOMAIN FirstArcs : FirstArcs[m].to = State("keyword", q)
    BY <2>1 DEF Leads
  <2>3. State("keyword", q).kind = "keyword"
    BY DEF State
  <2>4. m \in DOMAIN alpha /\ alpha[m] \notin ArcsOn(FirstArcs)
    BY <2>2, <2>3, CompletionAssumption
  <2>5. m <= Len(alpha)
    BY <2>4, AlphabetsMeet
  <2> QED
    BY <2>2, <2>4, <2>5 DEF Visited
<1>7. ASSUME n # 1
      PROVE  State("keyword", q) \in Visited(alphanumerics, KeywordArcs(u))
  <2> DEFINE A == KeywordArcs(u)
  <2>1. /\ A \in Seq(Arrows)
        /\ \A x \in Symbols : x \in ArcsOn(A) <=> Append(u, x) \in KeywordTexts
        /\ \A x \in ArcsOn(A) : Leads(A, x, State("keyword", Append(u, x)))
    BY <1>2, KeywordArcsAre
  <2>2. Len(A) <= Len(numerics)
    BY <1>4, <1>7, CompletionAssumption
  <2> HIDE DEF A
  <2>3. \A x \in ArcsOn(A) : x \in Letters
    <3> SUFFICES ASSUME NEW x \in ArcsOn(A)
                 PROVE  x \in Letters
      OBVIOUS
    <3> DEFINE v == Append(u, x)
    <3>1. x \in Symbols
      BY <2>1, ArcsAre
    <3>2. v \in KeywordTexts /\ v[Len(u) + 1] = x /\ Len(v) = Len(u) + 1
      BY <1>2, <2>1, <3>1, Longer
    <3> HIDE DEF v
    <3>3. Len(u) + 1 \in 1 .. Len(v)
      BY <1>2, <3>2, WordIs
    <3> QED
      BY <3>2, <3>3, KeywordWords
  <2>4. Leads(A, c, State("keyword", q))
    BY <1>2, <1>3, <2>1
  <2>5. PICK m \in DOMAIN A : A[m].to = State("keyword", q)
    BY <2>4 DEF Leads
  <2>6. m \in 1 .. Len(numerics) /\ m <= Len(alphanumerics)
    BY <2>1, <2>2, AlphabetsMeet, ArcsAre
  <2>7. alphanumerics[m] \notin ArcsOn(A)
    BY <2>3, <2>6, AlphabetsMeet, Classes
  <2> QED
    BY <2>5, <2>6, <2>7 DEF Visited, A
<1> QED
  BY <1>2, <1>5, <1>6, <1>7 DEF u, q

-----------------------------------------------------------------------------
(* What a state says of the text read                                      *)

Means(s, text) ==
  \/ s = Initial /\ text = <<>>
  \/ s = State("token", text) /\ text \in TokenTexts
  \/ s = State("keyword", text) /\ text \in KeywordTexts
  \/ s = State("int", <<>>) /\ text # <<>> /\ IsInteger(text)
  \/ s = State("real", <<>>) /\ text # <<>> /\ IsReal(text)
  \/ s = State("name", <<>>) /\ text # <<>> /\ IsWord(text) /\ text \notin KeywordTexts

Inv == buffer \in Word /\ Means(current_state, buffer)

(* A takes c exactly when p goes on to some token with it, and the state it *)
(* leads to is one of the longer text.                                     *)
Follows(A, p, c) ==
  /\ A \in Seq(Arrows)
  /\ c \in ArcsOn(A) <=> Lexeme(Append(p, c))
  /\ c \in ArcsOn(A) => \E s : Leads(A, c, s) /\ Means(s, Append(p, c))

LEMMA StatesAre ==
  ASSUME NEW s, NEW p, Means(s, p)
  PROVE  s \in States
<1>1. CASE s = Initial
  BY <1>1 DEF States
<1>2. CASE s = State("token", p) /\ p \in TokenTexts
  BY <1>2 DEF States
<1>3. CASE s = State("keyword", p) /\ p \in KeywordTexts
  BY <1>3 DEF States
<1>4. CASE s = State("int", <<>>)
  BY <1>4 DEF States
<1>5. CASE s = State("real", <<>>)
  BY <1>5 DEF States
<1>6. CASE s = State("name", <<>>)
  BY <1>6 DEF States
<1> QED
  BY <1>1, <1>2, <1>3, <1>4, <1>5, <1>6 DEF Means

LEMMA Kept ==
  ASSUME NEW s \in States
  PROVE  allowed_transitions[s] = Transitions(s) /\ return_token[s] = ReturnToken(s)
BY DEF allowed_transitions, return_token

(* The choices Transitions and ReturnToken make. *)
LEMMA InitialIs ==
  /\ Transitions(Initial) = FirstArcs \o NameArcs(alpha, FirstArcs)
  /\ ReturnToken(Initial) = "T_INVALID"
<1>1. Initial.kind = "initial"
  BY DEF Initial, State
<1> QED
  BY <1>1, ZenonT(60) DEF Transitions, ReturnToken

LEMMA TokenIs ==
  ASSUME NEW p
  PROVE  /\ Transitions(State("token", p)) = ArcsTo("token", Branches(SortedTokens, p))
         /\ ReturnToken(State("token", p)) = TokenType(p)
<1> DEFINE s == State("token", p)
<1>1. s.kind = "token" /\ s.at = p
  BY DEF State
<1> HIDE DEF s
<1>2. Transitions(s) = ArcsTo("token", Branches(SortedTokens, s.at))
  BY <1>1, ZenonT(60) DEF Transitions
<1>3. ReturnToken(s) = TokenType(s.at)
  BY <1>1, ZenonT(60) DEF ReturnToken
<1> QED
  BY <1>1, <1>2, <1>3 DEF s

LEMMA IntIs ==
  LET s == State("int", <<>>)
  IN  /\ Transitions(s) = Arcs(numerics, s) \o <<Arc(".", State("real", <<>>))>>
      /\ ReturnToken(s) = "T_INT_CONST"
<1> DEFINE s == State("int", <<>>)
<1>1. s.kind = "int"
  BY DEF State
<1> HIDE DEF s
<1>2. Transitions(s) = Arcs(numerics, s) \o <<Arc(".", State("real", <<>>))>>
  BY <1>1, ZenonT(60) DEF Transitions
<1>3. ReturnToken(s) = "T_INT_CONST"
  BY <1>1, ZenonT(60) DEF ReturnToken
<1> QED
  BY <1>2, <1>3 DEF s

LEMMA RealIs ==
  LET s == State("real", <<>>)
  IN  Transitions(s) = Arcs(numerics, s) /\ ReturnToken(s) = "T_REAL_CONST"
<1> DEFINE s == State("real", <<>>)
<1>1. s.kind = "real"
  BY DEF State
<1> HIDE DEF s
<1>2. Transitions(s) = Arcs(numerics, s)
  BY <1>1, ZenonT(60) DEF Transitions
<1>3. ReturnToken(s) = "T_REAL_CONST"
  BY <1>1, ZenonT(60) DEF ReturnToken
<1> QED
  BY <1>2, <1>3 DEF s

LEMMA NameIs ==
  LET s == State("name", <<>>)
  IN  Transitions(s) = Arcs(alphanumerics, s) /\ ReturnToken(s) = "T_ID"
<1> DEFINE s == State("name", <<>>)
<1>1. s.kind = "name"
  BY DEF State
<1> HIDE DEF s
<1>2. Transitions(s) = Arcs(alphanumerics, s)
  BY <1>1, ZenonT(60) DEF Transitions
<1>3. ReturnToken(s) = "T_ID"
  BY <1>1, ZenonT(60) DEF ReturnToken
<1> QED
  BY <1>2, <1>3 DEF s

LEMMA KeywordIs ==
  ASSUME NEW p \in KeywordTexts
  PROVE  /\ Transitions(State("keyword", p)) =
              KeywordArcs(p) \o NameArcs(alphanumerics, KeywordArcs(p))
         /\ ReturnToken(State("keyword", p)) = KeywordType(p)
<1> DEFINE s == State("keyword", p)
<1>1. s.kind = "keyword" /\ s.at = p
  BY DEF State
<1>2. Completed(p)
  BY AllCompleted
<1> HIDE DEF s
<1>3. Transitions(s) =
        KeywordArcs(s.at) \o
          IF Completed(s.at) THEN NameArcs(alphanumerics, KeywordArcs(s.at)) ELSE <<>>
  BY <1>1, ZenonT(60) DEF Transitions
<1>4. ReturnToken(s) = KeywordType(s.at)
  BY <1>1, ZenonT(60) DEF ReturnToken
<1> QED
  BY <1>1, <1>2, <1>3, <1>4 DEF s

LEMMA NumbersAndNames ==
  /\ State("int", <<>>) \in Ends /\ State("real", <<>>) \in Ends
  /\ State("name", <<>>) \in Ends
<1>1. <<>> \in Word
  BY DEF Word
<1> QED
  BY <1>1, StateTyped DEF Kinds

LEMMA FirstSymbol ==
  ASSUME NEW p \in Word, p # <<>>, NEW c \in Symbols
  PROVE  /\ Append(p, c) \in Word /\ Append(p, c) # <<>>
         /\ Append(p, c)[1] = p[1]
         /\ Append(p, c) \in TokenTexts => p[1] \notin Letters \cup Digits
<1> DEFINE q == Append(p, c)
<1>1. /\ q \in Word /\ q # <<>>
      /\ \A k \in 1 .. Len(p) : q[k] = p[k]
  BY Longer
<1> HIDE DEF q
<1>2. 1 \in 1 .. Len(p)
  BY WordIs
<1>3. q[1] = p[1]
  BY <1>1, <1>2
<1> QED
  BY <1>1, <1>3, TokenWords DEF q

LEMMA InitialFollows ==
  ASSUME NEW c \in Symbols
  PROVE  Follows(Transitions(Initial), <<>>, c)
<1> DEFINE q == Append(<<>>, c)
           F == FirstArcs
           N == NameArcs(alpha, F)
           A == F \o N
<1>1. A = Transitions(Initial)
  BY InitialIs
<1>2. /\ F \in Seq(Arrows)
      /\ c \in ArcsOn(F) <=> q \in TokenTexts \/ c \in Digits \/ q \in KeywordTexts
      /\ q \in TokenTexts => Leads(F, c, State("token", q))
      /\ c \in Digits => Leads(F, c, State("int", <<>>))
      /\ q \in KeywordTexts => Leads(F, c, State("keyword", q))
  BY FirstArcsAre
<1> HIDE DEF F
<1>3. /\ N \in Seq(Arrows) /\ ArcsOn(N) = Letters \ ArcsOn(F)
      /\ \A x \in ArcsOn(N) : Leads(N, x, State("name", <<>>))
  BY <1>2, NameArcsIs, Alphabets DEF Letters
<1> HIDE DEF N
<1>4. /\ A \in Seq(Arrows) /\ ArcsOn(A) = ArcsOn(F) \cup ArcsOn(N)
      /\ \A s : Leads(F, c, s) => Leads(A, c, s)
      /\ \A s : c \notin ArcsOn(F) /\ Leads(N, c, s) => Leads(A, c, s)
  BY <1>2, <1>3, ArcsBehind
<1> HIDE DEF A
<1>5. /\ IsWord(q) <=> c \in Letters
      /\ IsInteger(q) <=> c \in Digits
      /\ ~ IsReal(q) /\ q # <<>> /\ q[1] = c /\ Len(q) = 1
  BY TextStarts
<1> HIDE DEF q
<1>6. q \in KeywordTexts => c \in Letters
  BY <1>5, KeywordWords
<1>7. c \in ArcsOn(A) <=> Lexeme(q)
  BY <1>2, <1>3, <1>4, <1>5, <1>6 DEF Lexeme
<1>8. c \in ArcsOn(A) => \E s : Leads(A, c, s) /\ Means(s, q)
  <2>1. CASE q \in TokenTexts
    BY <1>2, <1>4, <2>1 DEF Means
  <2>2. CASE c \in Digits
    BY <1>2, <1>4, <1>5, <2>2 DEF Means
  <2>3. CASE q \in KeywordTexts
    BY <1>2, <1>4, <2>3 DEF Means
  <2>4. CASE c \in Letters /\ c \notin ArcsOn(F)
    <3>1. Leads(A, c, State("name", <<>>))
      BY <1>3, <1>4, <2>4
    <3>2. q \notin KeywordTexts
      BY <1>2, <2>4
    <3> QED
      BY <1>5, <2>4, <3>1, <3>2 DEF Means
  <2> QED
    BY <1>2, <1>3, <1>4, <2>1, <2>2, <2>3, <2>4
<1> QED
  BY <1>1, <1>4, <1>7, <1>8 DEF Follows, q

LEMMA TokenFollows ==
  ASSUME NEW p \in TokenTexts, NEW c \in Symbols
  PROVE  Follows(Transitions(State("token", p)), p, c)
<1> DEFINE q == Append(p, c)
           A == ArcsTo("token", Branches(SortedTokens, p))
<1>1. A = Transitions(State("token", p))
  BY TokenIs
<1>2. p \in Word /\ p # <<>> /\ p[1] \notin Letters /\ p[1] \notin Digits
  BY TokenWords
<1>3. /\ A \in Seq(Arrows)
      /\ c \in ArcsOn(A) <=> q \in TokenTexts
      /\ c \in ArcsOn(A) => Leads(A, c, State("token", q))
  BY <1>2, TokenArcs
<1> HIDE DEF A
<1>4. q \in Word /\ q # <<>> /\ q[1] = p[1]
  BY <1>2, FirstSymbol
<1> HIDE DEF q
<1>5. ~ IsWord(q) /\ ~ IsInteger(q) /\ ~ IsReal(q)
  BY <1>2, <1>4, TextBegins
<1>6. c \in ArcsOn(A) <=> Lexeme(q)
  BY <1>3, <1>5 DEF Lexeme
<1>7. c \in ArcsOn(A) => Leads(A, c, State("token", q)) /\ Means(State("token", q), q)
  BY <1>3 DEF Means
<1> QED
  BY <1>1, <1>3, <1>6, <1>7 DEF Follows, q

LEMMA KeywordFollows ==
  ASSUME NEW p \in KeywordTexts, NEW c \in Symbols
  PROVE  Follows(Transitions(State("keyword", p)), p, c)
<1> DEFINE q == Append(p, c)
           K == KeywordArcs(p)
           N == NameArcs(alphanumerics, K)
           A == K \o N
<1>1. A = Transitions(State("keyword", p))
  BY KeywordIs
<1>2. p \in Word /\ p # <<>> /\ \A k \in 1 .. Len(p) : p[k] \in Letters
  BY KeywordWords
<1>3. /\ K \in Seq(Arrows)
      /\ c \in ArcsOn(K) <=> q \in KeywordTexts
      /\ c \in ArcsOn(K) => Leads(K, c, State("keyword", q))
  BY <1>2, KeywordArcsAre
<1> HIDE DEF K
<1>4. /\ N \in Seq(Arrows) /\ ArcsOn(N) = (Letters \cup Digits) \ ArcsOn(K)
      /\ \A x \in ArcsOn(N) : Leads(N, x, State("name", <<>>))
  BY <1>3, NameArcsIs, Alphabets
<1> HIDE DEF N
<1>5. /\ A \in Seq(Arrows) /\ ArcsOn(A) = ArcsOn(K) \cup ArcsOn(N)
      /\ \A s : Leads(K, c, s) => Leads(A, c, s)
      /\ \A s : c \notin ArcsOn(K) /\ Leads(N, c, s) => Leads(A, c, s)
  BY <1>3, <1>4, ArcsBehind
<1> HIDE DEF A
<1>6. /\ q \in Word /\ q # <<>> /\ q[1] = p[1]
      /\ q[Len(p) + 1] = c /\ Len(q) = Len(p) + 1
  BY <1>2, FirstSymbol, Longer
<1>7. Len(p) \in Nat /\ Len(p) > 0 /\ Head(p) = p[1] /\ DOMAIN p = 1 .. Len(p)
  BY <1>2, WordIs
<1>8. IsWord(p)
  BY <1>2, <1>7 DEF IsWord, ToSet
<1>9. IsWord(q) <=> c \in Letters \cup Digits
  BY <1>2, <1>8, TextGrows
<1> HIDE DEF q
<1>10. q[1] \in Letters
  BY <1>2, <1>6, <1>7
<1>11. ~ IsInteger(q) /\ ~ IsReal(q) /\ q \notin TokenTexts
  BY <1>6, <1>10, TextBegins, TokenWords, Classes
<1>12. q \in KeywordTexts => c \in Letters
  <2>1. Len(p) + 1 \in 1 .. Len(q)
    BY <1>6, <1>7
  <2> QED
    BY <1>6, <2>1, KeywordWords
<1>13. c \in ArcsOn(A) <=> Lexeme(q)
  BY <1>3, <1>4, <1>5, <1>9, <1>11, <1>12 DEF Lexeme
<1>14. CASE c \in ArcsOn(K)
  <2>1. Leads(A, c, State("keyword", q)) /\ Means(State("keyword", q), q)
    BY <1>3, <1>5, <1>14 DEF Means
  <2> QED
    BY <1>1, <1>5, <1>13, <2>1 DEF Follows, q
<1>15. CASE c \notin ArcsOn(K)
  <2>1. c \in ArcsOn(A) => Leads(A, c, State("name", <<>>))
    BY <1>4, <1>5, <1>15
  <2>2. c \in ArcsOn(A) => Means(State("name", <<>>), q)
    BY <1>3, <1>4, <1>5, <1>6, <1>9, <1>15 DEF Means
  <2> QED
    BY <1>1, <1>5, <1>13, <2>1, <2>2 DEF Follows, q
<1> QED
  BY <1>14, <1>15

LEMMA IntFollows ==
  ASSUME NEW p \in Word, p # <<>>, IsInteger(p), NEW c \in Symbols
  PROVE  Follows(Transitions(State("int", <<>>)), p, c)
<1> DEFINE q == Append(p, c)
           s == State("int", <<>>)
           n == State("real", <<>>)
           r == Arc(".", n)
           N == Arcs(numerics, s)
           D == <<r>>
           A == N \o D
<1>1. A = Transitions(s)
  BY IntIs
<1>2. s \in Ends /\ n \in Ends
  BY NumbersAndNames
<1>3. /\ N \in Seq(Arrows) /\ ArcsOn(N) = Digits
      /\ \A x \in Digits : Leads(N, x, s)
  BY <1>2, Alphabets, ArcsIs DEF Digits
<1>4. r \in Arrows /\ r.on = "." /\ r.to = n
  BY <1>2, Characters, ArcsTyped
<1> HIDE DEF r
<1>5. D \in Seq(Arrows) /\ ArcsOn(D) = {"."} /\ Leads(D, ".", n)
  BY <1>4 DEF ArcsOn, Leads
<1> HIDE DEF N, D
<1>6. /\ A \in Seq(Arrows) /\ ArcsOn(A) = Digits \cup {"."}
      /\ \A x, y : Leads(N, x, y) => Leads(A, x, y)
      /\ \A x, y : x \notin ArcsOn(N) /\ Leads(D, x, y) => Leads(A, x, y)
  BY <1>3, <1>5, ArcsBehind
<1> HIDE DEF A
<1>7. p[1] \in Digits /\ ~ IsReal(p) /\ ~ IsWord(p)
  BY TextBegins, Classes
<1>8. /\ IsWord(q) <=> IsWord(p) /\ c \in Letters \cup Digits
      /\ IsInteger(q) <=> IsInteger(p) /\ c \in Digits
      /\ IsReal(q) <=> ((IsReal(p) /\ c \in Digits) \/ (IsInteger(p) /\ c = "."))
  BY TextGrows
<1>9. q # <<>> /\ q \notin TokenTexts
  BY <1>7, FirstSymbol
<1> HIDE DEF q
<1>10. c \in ArcsOn(A) <=> Lexeme(q)
  BY <1>6, <1>7, <1>8, <1>9 DEF Lexeme
<1>11. c \in Digits => Leads(A, c, s) /\ Means(s, q)
  BY <1>3, <1>6, <1>8, <1>9 DEF Means
<1>12. c = "." => Leads(A, c, n) /\ Means(n, q)
  BY <1>3, <1>5, <1>6, <1>8, <1>9, Classes DEF Means
<1> QED
  BY <1>1, <1>6, <1>10, <1>11, <1>12 DEF Follows, q

LEMMA RealFollows ==
  ASSUME NEW p \in Word, p # <<>>, IsReal(p), NEW c \in Symbols
  PROVE  Follows(Transitions(State("real", <<>>)), p, c)
<1> DEFINE q == Append(p, c)
           s == State("real", <<>>)
           A == Arcs(numerics, s)
<1>1. A = Transitions(s)
  BY RealIs
<1>2. s \in Ends
  BY NumbersAndNames
<1>3. /\ A \in Seq(Arrows) /\ ArcsOn(A) = Digits
      /\ \A x \in Digits : Leads(A, x, s)
  BY <1>2, Alphabets, ArcsIs DEF Digits
<1> HIDE DEF A
<1>4. p[1] \in Digits /\ ~ IsInteger(p) /\ ~ IsWord(p)
  BY TextBegins, Classes
<1>5. /\ IsWord(q) <=> IsWord(p) /\ c \in Letters \cup Digits
      /\ IsInteger(q) <=> IsInteger(p) /\ c \in Digits
      /\ IsReal(q) <=> ((IsReal(p) /\ c \in Digits) \/ (IsInteger(p) /\ c = "."))
  BY TextGrows
<1>6. q # <<>> /\ q \notin TokenTexts
  BY <1>4, FirstSymbol
<1> HIDE DEF q
<1>7. c \in ArcsOn(A) <=> Lexeme(q)
  BY <1>3, <1>4, <1>5, <1>6 DEF Lexeme
<1>8. c \in Digits => Leads(A, c, s) /\ Means(s, q)
  BY <1>3, <1>5, <1>6 DEF Means
<1> QED
  BY <1>1, <1>3, <1>7, <1>8 DEF Follows, q

LEMMA NameFollows ==
  ASSUME NEW p \in Word, p # <<>>, IsWord(p), p \notin KeywordTexts, NEW c \in Symbols
  PROVE  Follows(Transitions(State("name", <<>>)), p, c)
<1> DEFINE q == Append(p, c)
           s == State("name", <<>>)
           A == Arcs(alphanumerics, s)
<1>1. A = Transitions(s)
  BY NameIs
<1>2. s \in Ends
  BY NumbersAndNames
<1>3. /\ A \in Seq(Arrows) /\ ArcsOn(A) = Letters \cup Digits
      /\ \A x \in Letters \cup Digits : Leads(A, x, s)
  BY <1>2, Alphabets, ArcsIs
<1> HIDE DEF A
<1>4. p[1] \in Letters /\ ~ IsInteger(p) /\ ~ IsReal(p)
  BY TextBegins, Classes
<1>5. /\ IsWord(q) <=> IsWord(p) /\ c \in Letters \cup Digits
      /\ IsInteger(q) <=> IsInteger(p) /\ c \in Digits
      /\ IsReal(q) <=> ((IsReal(p) /\ c \in Digits) \/ (IsInteger(p) /\ c = "."))
  BY TextGrows
<1>6. q # <<>> /\ q \notin TokenTexts
  BY <1>4, FirstSymbol
<1>7. q \notin KeywordTexts
  BY PassedIs, Shorter DEF KeywordTexts
<1> HIDE DEF q
<1>8. c \in ArcsOn(A) <=> Lexeme(q)
  BY <1>3, <1>4, <1>5, <1>6 DEF Lexeme
<1>9. c \in Letters \cup Digits => Leads(A, c, s) /\ Means(s, q)
  BY <1>3, <1>5, <1>6, <1>7 DEF Means
<1> QED
  BY <1>1, <1>3, <1>8, <1>9 DEF Follows, q

-----------------------------------------------------------------------------
(* The invariant                                                           *)

LEMMA StateFollows ==
  ASSUME Inv, NEW c \in Symbols
  PROVE  Follows(allowed_transitions[current_state], buffer, c)
<1>1. buffer \in Word /\ Means(current_state, buffer)
  BY DEF Inv
<1>2. current_state \in States
  BY <1>1, StatesAre
<1>3. allowed_transitions[current_state] = Transitions(current_state)
  BY <1>2, Kept
<1> SUFFICES Follows(Transitions(current_state), buffer, c)
  BY <1>3
<1>4. CASE current_state = Initial /\ buffer = <<>>
  BY <1>4, InitialFollows
<1>5. CASE current_state = State("token", buffer) /\ buffer \in TokenTexts
  BY <1>5, TokenFollows
<1>6. CASE current_state = State("keyword", buffer) /\ buffer \in KeywordTexts
  BY <1>6, KeywordFollows
<1>7. CASE current_state = State("int", <<>>) /\ buffer # <<>> /\ IsInteger(buffer)
  BY <1>1, <1>7, IntFollows
<1>8. CASE current_state = State("real", <<>>) /\ buffer # <<>> /\ IsReal(buffer)
  BY <1>1, <1>8, RealFollows
<1>9. CASE /\ current_state = State("name", <<>>) /\ buffer # <<>>
           /\ IsWord(buffer) /\ buffer \notin KeywordTexts
  BY <1>1, <1>9, NameFollows
<1> QED
  BY <1>1, <1>4, <1>5, <1>6, <1>7, <1>8, <1>9 DEF Means

(* There is an arc to take exactly when one is for c, and the one taken is *)
(* the first.                                                              *)
LEMMA TargetsAre ==
  ASSUME NEW c, allowed_transitions[current_state] \in Seq(Arrows)
  PROVE  LET A == allowed_transitions[current_state]
         IN  /\ Targets(c) # {} <=> c \in ArcsOn(A)
             /\ \A s : Leads(A, c, s) => A[Min(Targets(c))].to = s
<1> DEFINE A == allowed_transitions[current_state]
           T == {n \in DOMAIN A : A[n].on = c}
<1>1. Targets(c) = T
  BY DEF Targets
<1>2. A \in Seq(Arrows)
  OBVIOUS
<1> HIDE DEF A
<1>3. T # {} <=> c \in ArcsOn(A)
  BY DEF ArcsOn
<1>4. T \subseteq Nat
  BY <1>2, ArcsAre
<1> HIDE DEF T
<1>5. ASSUME NEW s, Leads(A, c, s)
      PROVE  A[Min(T)].to = s
  <2>1. PICK n \in DOMAIN A : /\ A[n].on = c /\ A[n].to = s
                              /\ \A m \in DOMAIN A : A[m].on = c => n <= m
    BY <1>5 DEF Leads
  <2>2. n \in T /\ \A m \in T : n <= m
    BY <2>1 DEF T
  <2>3. \A x \in T : (\A m \in T : x <= m) => x = n
    BY <1>4, <2>2
  <2>4. Min(T) = n
    BY <2>2, <2>3 DEF Min
  <2> QED
    BY <2>1, <2>4
<1> QED
  BY <1>1, <1>3, <1>5 DEF A

(* The state the automaton is in says what the text read is: the beginning *)
(* of a token or of a keyword, a number, or a name that begins no keyword. *)
THEOREM StatesMeanTexts == Spec => []Inv
<1>1. Init => Inv
  <2>1. <<>> \in Word
    BY DEF Word
  <2> QED
    BY <2>1 DEF Init, Inv, Means
<1>2. Inv /\ [Next]_vars => Inv'
  <2> SUFFICES ASSUME Inv, [Next]_vars
               PROVE  Inv'
    OBVIOUS
  <2>1. ASSUME NEW c \in Char, Character(c)
        PROVE  Inv'
    <3> DEFINE A == allowed_transitions[current_state]
               q == Append(buffer, c)
    <3>1. c \in Symbols /\ buffer \in Word
      BY Characters DEF Inv
    <3>2. /\ A \in Seq(Arrows)
          /\ c \in ArcsOn(A) => \E s : Leads(A, c, s) /\ Means(s, q)
      BY <3>1, StateFollows DEF Follows
    <3>3. /\ Targets(c) # {} <=> c \in ArcsOn(A)
          /\ \A s : Leads(A, c, s) => A[Min(Targets(c))].to = s
      BY <3>2, TargetsAre
    <3>4. /\ Targets(c) # {} /\ current_state' = A[Min(Targets(c))].to
          /\ buffer' = q
      BY <2>1 DEF Character
    <3>5. q \in Word
      BY <3>1, Longer
    <3> HIDE DEF A, q
    <3>6. PICK s : Leads(A, c, s) /\ Means(s, q)
      BY <3>2, <3>3, <3>4
    <3>7. current_state' = s
      BY <3>3, <3>4, <3>6
    <3>8. Means(current_state', buffer')
      BY <3>4, <3>6, <3>7
    <3> QED
      BY <3>4, <3>5, <3>8 DEF Inv, Means
  <2>2. ASSUME NEW c \in Char, TokenEnds(c)
        PROVE  Inv'
    <3>1. <<>> \in Word
      BY DEF Word
    <3> QED
      BY <2>2, <3>1 DEF TokenEnds, Inv, Means
  <2>3. CASE UNCHANGED vars
    BY <2>3 DEF vars, Inv, Means
  <2> QED
    BY <2>1, <2>2, <2>3 DEF Next
<1> QED
  BY <1>1, <1>2, PTL DEF Spec

(* A token is as long as it can be: the automaton takes a character exactly *)
(* when the text goes on to some token with it.                            *)
THEOREM TokensAreLongest == Spec => []LongestMatch
<1>1. Inv => LongestMatch
  <2> SUFFICES ASSUME Inv, NEW c \in Char
               PROVE  Targets(c) # {} <=> Lexeme(Append(buffer, c))
    BY DEF LongestMatch
  <2>1. c \in Symbols
    BY Characters
  <2>2. /\ allowed_transitions[current_state] \in Seq(Arrows)
        /\ c \in ArcsOn(allowed_transitions[current_state]) <=> Lexeme(Append(buffer, c))
    BY <2>1, StateFollows DEF Follows
  <2> QED
    BY <2>2, TargetsAre
<1> QED
  BY <1>1, StatesMeanTexts, PTL

LEMMA ListedAre ==
  ASSUME NEW w \in Word, w # <<>>
  PROVE  /\ Listed(tokens, w) => w \in TokenTexts
         /\ Listed(Passed, w) => w \in KeywordTexts
<1>1. ASSUME NEW t \in Tables, Listed(t, w)
      PROVE  w \in Texts(t)
  <2>1. PICK n \in DOMAIN t : t[n].token = w
    BY <1>1 DEF Listed
  <2>2. IsPrefix(w, t[n].token)
    BY <2>1, WholePrefix
  <2> QED
    BY <2>2, TextsAre DEF Begins
<1> QED
  BY <1>1, TablesAre, PassedIs DEF TokenTexts, KeywordTexts

(* The type of the token the automaton would return is that of the text:   *)
(* its own in the tables, that of names and numbers, or none.              *)
THEOREM TokensAreTyped == Spec => []TypedByTables
<1>1. Inv => TypedByTables
  <2> DEFINE b == buffer
             s == current_state
             type == return_token[s]
  <2> SUFFICES ASSUME Inv, b # <<>>
               PROVE  type = IF Listed(tokens, b) THEN TypeIn(tokens, b)
                             ELSE IF Listed(Passed, b) THEN TypeIn(Passed, b)
                             ELSE IF IsWord(b) THEN "T_ID"
                             ELSE IF IsInteger(b) THEN "T_INT_CONST"
                             ELSE IF IsReal(b) THEN "T_REAL_CONST"
                             ELSE "T_INVALID"
    BY DEF TypedByTables
  <2>1. b \in Word /\ Means(s, b)
    BY DEF Inv
  <2>2. type = ReturnToken(s)
    BY <2>1, StatesAre, Kept
  <2> HIDE DEF b, s, type
  <2>3. /\ IsWord(b) => b[1] \in Letters
        /\ IsInteger(b) => b[1] \in Digits /\ ~ IsReal(b)
        /\ IsReal(b) => b[1] \in Digits
    BY <2>1, TextBegins
  <2>4. Listed(tokens, b) => b[1] \notin Letters /\ b[1] \notin Digits
    BY <2>1, ListedAre, TokenWords
  <2>5. Listed(Passed, b) => b[1] \in Letters /\ b \in KeywordTexts
    <3>1. Listed(Passed, b) => b \in KeywordTexts
      BY <2>1, ListedAre
    <3>2. 1 \in 1 .. Len(b)
      BY <2>1, WordIs
    <3> QED
      BY <3>1, <3>2, KeywordWords
  <2>6. CASE s = State("token", b) /\ b \in TokenTexts
    <3>1. /\ b[1] \notin Letters /\ b[1] \notin Digits /\ Begins(tokens, b)
          /\ Len(b) = 1 => Listed(tokens, b)
      BY <2>6, TokenWords
    <3> DEFINE none == IF Len(b) > 1 THEN "T_INVALID" ELSE FirstWith(SortedTokens, b).type
    <3>2. type = TypeOf(SortedTokens, b, none)
      BY <2>2, <2>6, TokenIs DEF TokenType
    <3>3. ~ Listed(tokens, b) => none = "T_INVALID"
      <4>1. Len(b) # 1 => Len(b) > 1
        BY <2>6, TokenWords
      <4> QED
        BY <3>1, <4>1
    <3> HIDE DEF none
    <3>4. type = IF Listed(tokens, b) THEN TypeIn(tokens, b) ELSE none
      BY <2>1, <3>1, <3>2, TypeOfIs, OneTypes, TablesAre DEF SortedTokens
    <3> QED
      BY <2>3, <2>5, <3>1, <3>3, <3>4
  <2>7. CASE s = State("keyword", b) /\ b \in KeywordTexts
    <3>1. b[1] \in Letters /\ Begins(Passed, b) /\ IsWord(b)
      <4>1. /\ Begins(Passed, b) /\ \A k \in 1 .. Len(b) : b[k] \in Letters
        BY <2>7, KeywordWords
      <4>2. Head(b) = b[1] /\ DOMAIN b = 1 .. Len(b) /\ 1 \in 1 .. Len(b)
        BY <2>1, WordIs
      <4> QED
        BY <4>1, <4>2 DEF IsWord, ToSet
    <3>2. type = TypeOf(SortedKeywords, b, "T_ID")
      BY <2>2, <2>7, KeywordIs DEF KeywordType
    <3>3. type = IF Listed(Passed, b) THEN TypeIn(Passed, b) ELSE "T_ID"
      BY <2>1, <3>1, <3>2, TypeOfIs, OneTypes, PassedIs DEF SortedKeywords
    <3> QED
      BY <2>4, <3>1, <3>3
  <2>8. CASE s = State("int", <<>>) /\ IsInteger(b)
    <3>1. type = "T_INT_CONST"
      BY <2>2, <2>8, IntIs
    <3> QED
      BY <2>3, <2>4, <2>5, <2>8, <3>1, Classes
  <2>9. CASE s = State("real", <<>>) /\ IsReal(b)
    <3>1. type = "T_REAL_CONST"
      BY <2>2, <2>9, RealIs
    <3> QED
      BY <2>3, <2>4, <2>5, <2>9, <3>1, Classes
  <2>10. CASE s = State("name", <<>>) /\ IsWord(b) /\ b \notin KeywordTexts
    <3>1. type = "T_ID"
      BY <2>2, <2>10, NameIs
    <3> QED
      BY <2>3, <2>4, <2>5, <2>10, <3>1
  <2> QED
    BY <2>1, <2>6, <2>7, <2>8, <2>9, <2>10 DEF Means, b
<1> QED
  BY <1>1, StatesMeanTexts, PTL

(* The only text whose type is that of truth values is true, and its value *)
(* is 0.                                                                   *)
THEOREM TrueIsNought == Spec => []NoLiteralIsTrue
<1>1. Inv /\ TypedByTables => NoLiteralIsTrue
  <2> DEFINE true == <<"t", "r", "u", "e">>
  <2> SUFFICES ASSUME Inv, TypedByTables, return_token[current_state] = "T_BOOLEAN_CONST"
               PROVE  buffer = true
    BY DEF NoLiteralIsTrue, BooleanValue
  <2> HIDE DEF true
  <2>1. buffer # <<>>
    <3>1. ASSUME buffer = <<>>
          PROVE  current_state = Initial
      BY <3>1, TokenWords, KeywordWords DEF Inv, Means
    <3>2. return_token[Initial] = "T_INVALID"
      BY Kept, InitialIs DEF States
    <3> QED
      BY <3>1, <3>2
  <2>2. ASSUME Listed(tokens, buffer)
        PROVE  TypeIn(tokens, buffer) # "T_BOOLEAN_CONST"
    <3>1. \E n \in DOMAIN tokens : TypeIn(tokens, buffer) = tokens[n].type
      BY <2>2 DEF Listed, TypeIn
    <3> QED
      BY <3>1, LiteralsAssumption
  <2>3. ASSUME Listed(Passed, buffer), TypeIn(Passed, buffer) = "T_BOOLEAN_CONST"
        PROVE  buffer = true
    <3>1. \E n \in DOMAIN Passed : /\ TypeIn(Passed, buffer) = Passed[n].type
                                   /\ Passed[n].token = buffer
      BY <2>3 DEF Listed, TypeIn
    <3>2. PICK n \in 1 .. num_keywords : /\ keywords[n].type = "T_BOOLEAN_CONST"
                                         /\ keywords[n].token = buffer
      BY <2>3, <3>1, PassedIs
    <3> QED
      BY <3>2, LiteralsAssumption DEF true
  <2> QED
    BY <2>1, <2>2, <2>3 DEF TypedByTables
<1> QED
  BY <1>1, StatesMeanTexts, TokensAreTyped, PTL

=============================================================================
