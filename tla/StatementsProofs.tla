-------------------------- MODULE StatementsProofs --------------------------
(***************************************************************************)
(* Proofs about the code of statements, for programs of every size.        *)
(***************************************************************************)
EXTENDS StatementsRun, SequenceTheorems, TLAPS

-----------------------------------------------------------------------------
(* Code                                                                    *)

Instructions ==
  [op : {"EXEC", "EVAL", "RETURN_ES", "LABEL"} \cup Jumps, n : Nat]

Codes == Seq(Instructions)

IsLabel(x) == x.op = "LABEL"

LabelsOf(c) == {c[i].n : i \in {i \in DOMAIN c : IsLabel(c[i])}}

UniqueIn(c) ==
  \A i, j \in DOMAIN c : IsLabel(c[i]) /\ IsLabel(c[j]) /\ c[i].n = c[j].n => i = j

(* The numbers in c are of the first s sources and of the first l labels. *)
Numbered(c, s, l) ==
  \A i \in DOMAIN c :
    /\ c[i].op \in {"EXEC", "EVAL"} => c[i].n < s
    /\ c[i].op \in Jumps \cup {"LABEL"} => c[i].n < l

(* The jumps of c find their labels in c, in F behind it or in B before it. *)
Resolves(c, F, B) ==
  \A i \in DOMAIN c :
    /\ c[i].op \in {"TJUMP_FW_W", "JUMP_FW_W"} =>
         \/ c[i].n \in F
         \/ \E j \in DOMAIN c : j > i /\ IsLabel(c[j]) /\ c[j].n = c[i].n
    /\ c[i].op = "JUMP_BW_W" =>
         \/ c[i].n \in B
         \/ \E j \in DOMAIN c : j < i /\ IsLabel(c[j]) /\ c[j].n = c[i].n

WellFormed(c, s, l, F, B) ==
  c \in Codes /\ Numbered(c, s, l) /\ UniqueIn(c) /\ Resolves(c, F, B)

LEMMA CodeDomain ==
  ASSUME NEW c \in Codes
  PROVE  /\ Len(c) \in Nat /\ DOMAIN c = 1 .. Len(c)
         /\ \A i \in DOMAIN c : c[i] \in Instructions
BY LenProperties, ElementOfSeq DEF Codes

LEMMA Concatenation ==
  ASSUME NEW a \in Codes, NEW b \in Codes
  PROVE  /\ a \o b \in Codes
         /\ \A i \in DOMAIN a : i \in DOMAIN (a \o b) /\ (a \o b)[i] = a[i]
         /\ \A i \in DOMAIN b :
              Len(a) + i \in DOMAIN (a \o b) /\ (a \o b)[Len(a) + i] = b[i]
         /\ \A i \in DOMAIN (a \o b) :
              \/ i \in DOMAIN a /\ (a \o b)[i] = a[i]
              \/ \E j \in DOMAIN b : i = Len(a) + j /\ (a \o b)[i] = b[j]
<1>1. /\ a \o b \in Codes /\ Len(a \o b) = Len(a) + Len(b)
      /\ \A i \in 1 .. Len(a) + Len(b) :
           (a \o b)[i] = IF i <= Len(a) THEN a[i] ELSE b[i - Len(a)]
  BY ConcatProperties DEF Codes
<1>2. /\ Len(a) \in Nat /\ Len(b) \in Nat
      /\ DOMAIN a = 1 .. Len(a) /\ DOMAIN b = 1 .. Len(b)
      /\ DOMAIN (a \o b) = 1 .. Len(a) + Len(b)
  BY <1>1, CodeDomain
<1>3. ASSUME NEW i \in DOMAIN b
      PROVE  Len(a) + i \in DOMAIN (a \o b) /\ (a \o b)[Len(a) + i] = b[i]
  BY <1>1, <1>2
<1>4. ASSUME NEW i \in DOMAIN (a \o b)
      PROVE  \/ i \in DOMAIN a /\ (a \o b)[i] = a[i]
             \/ \E j \in DOMAIN b : i = Len(a) + j /\ (a \o b)[i] = b[j]
  <2>1. CASE i <= Len(a)
    BY <1>1, <1>2, <2>1
  <2>2. CASE ~ (i <= Len(a))
    <3>1. i - Len(a) \in DOMAIN b /\ i = Len(a) + (i - Len(a))
      BY <1>2, <2>2
    <3>2. (a \o b)[i] = b[i - Len(a)]
      BY <1>1, <1>2, <2>2
    <3> QED
      BY <3>1, <3>2
  <2> QED
    BY <2>1, <2>2
<1> QED
  BY <1>1, <1>2, <1>3, <1>4

LEMMA Weaken ==
  ASSUME NEW c, NEW s \in Nat, NEW l \in Nat, NEW F, NEW B, WellFormed(c, s, l, F, B),
         NEW t \in Nat, NEW m \in Nat, s <= t, l <= m,
         NEW G, NEW C, F \subseteq G, B \subseteq C
  PROVE  WellFormed(c, t, m, G, C)
<1>1. \A i \in DOMAIN c : c[i].n \in Nat
  BY CodeDomain DEF WellFormed, Instructions
<1>2. Numbered(c, t, m)
  BY <1>1 DEF WellFormed, Numbered
<1>3. Resolves(c, G, C)
  BY DEF WellFormed, Resolves
<1> QED
  BY <1>2, <1>3 DEF WellFormed

LEMMA LabelsBelow ==
  ASSUME NEW c, NEW s, NEW l \in Nat, NEW F, NEW B, WellFormed(c, s, l, F, B)
  PROVE  \A k \in LabelsOf(c) : k \in Nat /\ k < l
BY CodeDomain DEF WellFormed, Numbered, LabelsOf, IsLabel, Instructions

LEMMA Compose ==
  ASSUME NEW a, NEW b, NEW s \in Nat, NEW l \in Nat, NEW F, NEW B,
         WellFormed(a, s, l, F \cup LabelsOf(b), B),
         WellFormed(b, s, l, F, B \cup LabelsOf(a)),
         LabelsOf(a) \cap LabelsOf(b) = {}
  PROVE  /\ WellFormed(a \o b, s, l, F, B)
         /\ LabelsOf(a \o b) = LabelsOf(a) \cup LabelsOf(b)
<1> DEFINE r == a \o b
<1>1. a \in Codes /\ b \in Codes
  BY DEF WellFormed
<1>2. /\ r \in Codes
      /\ \A i \in DOMAIN a : i \in DOMAIN r /\ r[i] = a[i]
      /\ \A i \in DOMAIN b : Len(a) + i \in DOMAIN r /\ r[Len(a) + i] = b[i]
      /\ \A i \in DOMAIN r : \/ i \in DOMAIN a /\ r[i] = a[i]
                             \/ \E j \in DOMAIN b : i = Len(a) + j /\ r[i] = b[j]
  BY <1>1, Concatenation
<1>3. /\ Len(a) \in Nat /\ Len(b) \in Nat
      /\ DOMAIN a = 1 .. Len(a) /\ DOMAIN b = 1 .. Len(b)
  BY <1>1, CodeDomain
<1> HIDE DEF r
<1>4. LabelsOf(r) = LabelsOf(a) \cup LabelsOf(b)
  <2>1. LabelsOf(r) \subseteq LabelsOf(a) \cup LabelsOf(b)
    BY <1>2 DEF LabelsOf
  <2>2. LabelsOf(a) \subseteq LabelsOf(r)
    BY <1>2 DEF LabelsOf
  <2>3. LabelsOf(b) \subseteq LabelsOf(r)
    BY <1>2 DEF LabelsOf
  <2> QED
    BY <2>1, <2>2, <2>3
<1>5. Numbered(r, s, l)
  BY <1>2 DEF WellFormed, Numbered
<1>6. UniqueIn(r)
  <2> SUFFICES ASSUME NEW i \in DOMAIN r, NEW j \in DOMAIN r,
                      IsLabel(r[i]), IsLabel(r[j]), r[i].n = r[j].n
               PROVE  i = j
    BY DEF UniqueIn
  <2>1. CASE i \in DOMAIN a /\ r[i] = a[i] /\ j \in DOMAIN a /\ r[j] = a[j]
    BY <2>1 DEF WellFormed, UniqueIn
  <2>2. ASSUME NEW k \in DOMAIN b, NEW m \in DOMAIN b,
               i = Len(a) + k, r[i] = b[k], j = Len(a) + m, r[j] = b[m]
        PROVE  i = j
    BY <2>2 DEF WellFormed, UniqueIn
  <2>3. ASSUME NEW k \in DOMAIN a, NEW m \in DOMAIN b,
               IsLabel(a[k]), IsLabel(b[m]), a[k].n = b[m].n
        PROVE  FALSE
    BY <2>3 DEF LabelsOf
  <2> QED
    BY <1>2, <2>1, <2>2, <2>3
<1>7. Resolves(r, F, B)
  <2>1. ASSUME NEW i \in DOMAIN a, r[i] = a[i],
               a[i].op \in {"TJUMP_FW_W", "JUMP_FW_W"}
        PROVE  \/ r[i].n \in F
               \/ \E j \in DOMAIN r : j > i /\ IsLabel(r[j]) /\ r[j].n = r[i].n
    <3>1. CASE a[i].n \in F
      BY <2>1, <3>1
    <3>2. CASE \E j \in DOMAIN a : j > i /\ IsLabel(a[j]) /\ a[j].n = a[i].n
      BY <1>2, <2>1, <3>2
    <3>3. CASE a[i].n \in LabelsOf(b)
      <4>1. PICK m \in DOMAIN b : IsLabel(b[m]) /\ b[m].n = a[i].n
        BY <3>3 DEF LabelsOf
      <4>2. Len(a) + m \in DOMAIN r /\ r[Len(a) + m] = b[m] /\ Len(a) + m > i
        BY <1>2, <1>3
      <4> QED
        BY <2>1, <4>1, <4>2
    <3> QED
      BY <2>1, <3>1, <3>2, <3>3 DEF WellFormed, Resolves
  <2>2. ASSUME NEW i \in DOMAIN a, r[i] = a[i], a[i].op = "JUMP_BW_W"
        PROVE  \/ r[i].n \in B
               \/ \E j \in DOMAIN r : j < i /\ IsLabel(r[j]) /\ r[j].n = r[i].n
    BY <1>2, <2>2 DEF WellFormed, Resolves
  <2>3. ASSUME NEW k \in DOMAIN b, NEW i, i = Len(a) + k, r[i] = b[k],
               b[k].op \in {"TJUMP_FW_W", "JUMP_FW_W"}
        PROVE  \/ r[i].n \in F
               \/ \E j \in DOMAIN r : j > i /\ IsLabel(r[j]) /\ r[j].n = r[i].n
    <3>1. CASE b[k].n \in F
      BY <2>3, <3>1
    <3>2. CASE \E j \in DOMAIN b : j > k /\ IsLabel(b[j]) /\ b[j].n = b[k].n
      <4>1. PICK j \in DOMAIN b : j > k /\ IsLabel(b[j]) /\ b[j].n = b[k].n
        BY <3>2
      <4>2. Len(a) + j \in DOMAIN r /\ r[Len(a) + j] = b[j] /\ Len(a) + j > i
        BY <1>2, <1>3, <2>3, <4>1
      <4> QED
        BY <2>3, <4>1, <4>2
    <3> QED
      BY <2>3, <3>1, <3>2 DEF WellFormed, Resolves
  <2>4. ASSUME NEW k \in DOMAIN b, NEW i, i = Len(a) + k, r[i] = b[k],
               b[k].op = "JUMP_BW_W"
        PROVE  \/ r[i].n \in B
               \/ \E j \in DOMAIN r : j < i /\ IsLabel(r[j]) /\ r[j].n = r[i].n
    <3>1. CASE b[k].n \in B
      BY <2>4, <3>1
    <3>2. CASE \E j \in DOMAIN b : j < k /\ IsLabel(b[j]) /\ b[j].n = b[k].n
      <4>1. PICK j \in DOMAIN b : j < k /\ IsLabel(b[j]) /\ b[j].n = b[k].n
        BY <3>2
      <4>2. Len(a) + j \in DOMAIN r /\ r[Len(a) + j] = b[j] /\ Len(a) + j < i
        BY <1>2, <1>3, <2>4, <4>1
      <4> QED
        BY <2>4, <4>1, <4>2
    <3>3. CASE b[k].n \in LabelsOf(a)
      <4>1. PICK m \in DOMAIN a : IsLabel(a[m]) /\ a[m].n = b[k].n
        BY <3>3 DEF LabelsOf
      <4>2. m \in DOMAIN r /\ r[m] = a[m] /\ m < i
        BY <1>2, <1>3, <2>4
      <4> QED
        BY <2>4, <4>1, <4>2
    <3> QED
      BY <2>4, <3>1, <3>2, <3>3 DEF WellFormed, Resolves
  <2> QED
    BY <1>2, <2>1, <2>2, <2>3, <2>4 DEF Resolves
<1> QED
  BY <1>2, <1>4, <1>5, <1>6, <1>7 DEF WellFormed, r

LEMMA Single ==
  ASSUME NEW x \in Instructions, NEW s \in Nat, NEW l \in Nat, NEW F, NEW B,
         x.op \in {"EXEC", "EVAL"} => x.n < s,
         x.op \in Jumps \cup {"LABEL"} => x.n < l,
         x.op \in {"TJUMP_FW_W", "JUMP_FW_W"} => x.n \in F,
         x.op = "JUMP_BW_W" => x.n \in B
  PROVE  /\ WellFormed(<<x>>, s, l, F, B)
         /\ LabelsOf(<<x>>) = IF x.op = "LABEL" THEN {x.n} ELSE {}
<1> DEFINE c == <<x>>
<1>1. c \in Codes /\ DOMAIN c = {1} /\ c[1] = x
  BY DEF Codes
<1> HIDE DEF c
<1>2. LabelsOf(c) = IF x.op = "LABEL" THEN {x.n} ELSE {}
  BY <1>1 DEF LabelsOf, IsLabel
<1>3. Numbered(c, s, l) /\ UniqueIn(c)
  BY <1>1 DEF Numbered, UniqueIn
<1>4. Resolves(c, F, B)
  BY <1>1 DEF Resolves
<1> QED
  BY <1>1, <1>2, <1>3, <1>4 DEF WellFormed, c

-----------------------------------------------------------------------------
(* The code of each statement                                              *)

LEMMA InstrFields ==
  ASSUME NEW op \in {"EXEC", "EVAL", "RETURN_ES", "LABEL"} \cup Jumps, NEW n \in Nat
  PROVE  Instr(op, n) \in Instructions /\ Instr(op, n).op = op /\ Instr(op, n).n = n
BY DEF Instr, Instructions

(* Two codes joined, one of which may lead into the other. *)
LEMMA Join ==
  ASSUME NEW a, NEW b, NEW s \in Nat, NEW l \in Nat, NEW F, NEW B, NEW G, NEW C,
         WellFormed(a, s, l, G, B), G \subseteq F \cup LabelsOf(b),
         WellFormed(b, s, l, F, C), C \subseteq B \cup LabelsOf(a),
         \A k \in LabelsOf(b) : k \notin LabelsOf(a)
  PROVE  /\ WellFormed(a \o b, s, l, F, B)
         /\ LabelsOf(a \o b) = LabelsOf(a) \cup LabelsOf(b)
<1>1. WellFormed(a, s, l, F \cup LabelsOf(b), B)
  BY Weaken
<1>2. WellFormed(b, s, l, F, B \cup LabelsOf(a))
  BY Weaken
<1>3. LabelsOf(a) \cap LabelsOf(b) = {}
  OBVIOUS
<1> QED
  BY <1>1, <1>2, <1>3, Compose

(* A condition and its jump. *)
LEMMA Condition ==
  ASSUME NEW n \in Nat, NEW s \in Nat, n < s, NEW k \in Nat, NEW l \in Nat, k < l
  PROVE  /\ WellFormed(<<Eval(n), Instr("TJUMP_FW_W", k)>>, s, l, {k}, {})
         /\ LabelsOf(<<Eval(n), Instr("TJUMP_FW_W", k)>>) = {}
<1> DEFINE e == Eval(n)
           j == Instr("TJUMP_FW_W", k)
<1>1. e \in Instructions /\ e.op = "EVAL" /\ e.n = n
  BY InstrFields DEF Eval
<1>2. j \in Instructions /\ j.op = "TJUMP_FW_W" /\ j.n = k
  BY InstrFields DEF Jumps
<1>3. <<e, j>> = <<e>> \o <<j>>
  OBVIOUS
<1> HIDE DEF e, j
<1>4. WellFormed(<<e>>, s, l, {k}, {}) /\ LabelsOf(<<e>>) = {}
  BY <1>1, Single DEF Jumps
<1>5. WellFormed(<<j>>, s, l, {k}, {}) /\ LabelsOf(<<j>>) = {}
  BY <1>2, Single DEF Jumps
<1>6. WellFormed(<<e>> \o <<j>>, s, l, {k}, {}) /\ LabelsOf(<<e>> \o <<j>>) = {}
  BY <1>4, <1>5, Join
<1> QED
  BY <1>3, <1>6 DEF e, j

(* A label, and a jump with a label behind it. *)
LEMMA LabelCode ==
  ASSUME NEW s \in Nat, NEW k \in Nat, NEW l \in Nat, k < l
  PROVE  /\ WellFormed(<<Instr("LABEL", k)>>, s, l, {}, {})
         /\ LabelsOf(<<Instr("LABEL", k)>>) = {k}
<1>1. /\ Instr("LABEL", k) \in Instructions
      /\ Instr("LABEL", k).op = "LABEL" /\ Instr("LABEL", k).n = k
  BY InstrFields
<1> QED
  BY <1>1, Single DEF Jumps

LEMMA JumpLabel ==
  ASSUME NEW s \in Nat, NEW j \in Nat, NEW k \in Nat, NEW l \in Nat, j < l, k < l,
         NEW op \in {"JUMP_FW_W", "JUMP_BW_W"}, NEW F, NEW B,
         op = "JUMP_FW_W" => j \in F, op = "JUMP_BW_W" => j \in B
  PROVE  /\ WellFormed(<<Instr(op, j), Instr("LABEL", k)>>, s, l, F, B)
         /\ LabelsOf(<<Instr(op, j), Instr("LABEL", k)>>) = {k}
<1> DEFINE x == Instr(op, j)
           y == Instr("LABEL", k)
<1>1. x \in Instructions /\ x.op = op /\ x.n = j
  BY InstrFields DEF Jumps
<1>2. <<x, y>> = <<x>> \o <<y>>
  OBVIOUS
<1>3. WellFormed(<<y>>, s, l, {}, {}) /\ LabelsOf(<<y>>) = {k}
  BY LabelCode
<1> HIDE DEF x, y
<1>4. WellFormed(<<x>>, s, l, F, B) /\ LabelsOf(<<x>>) = {}
  BY <1>1, Single DEF Jumps
<1>5. WellFormed(<<y>>, s, l, F, B)
  BY <1>3, Weaken
<1>6. WellFormed(<<x>> \o <<y>>, s, l, F, B) /\ LabelsOf(<<x>> \o <<y>>) = {k}
  BY <1>3, <1>4, <1>5, Join
<1> QED
  BY <1>2, <1>6 DEF x, y

(* The code of a statement is well formed in itself: its jumps find their  *)
(* labels inside, and its labels are those of its parts and new ones.      *)
LEMMA IfCode ==
  ASSUME NEW n \in Nat, NEW s \in Nat, n < s, NEW l \in Nat, NEW m \in Nat, l < m,
         NEW code, WellFormed(code, n, l, {}, {})
  PROVE  /\ WellFormed(start_if(n, code, l), s, m, {}, {})
         /\ LabelsOf(start_if(n, code, l)) = LabelsOf(code) \cup {l}
<1> DEFINE a == <<Eval(n), Instr("TJUMP_FW_W", l)>>
           z == <<Instr("LABEL", l)>>
<1>1. WellFormed(a, s, m, {l}, {}) /\ LabelsOf(a) = {}
  BY Condition
<1>2. WellFormed(z, s, m, {}, {}) /\ LabelsOf(z) = {l}
  BY LabelCode
<1> HIDE DEF a, z
<1>3. WellFormed(code, s, m, {l}, {}) /\ l \notin LabelsOf(code)
  BY Weaken, LabelsBelow
<1>4. WellFormed(a \o code, s, m, {l}, {}) /\ LabelsOf(a \o code) = LabelsOf(code)
  BY <1>1, <1>3, Join
<1>5. /\ WellFormed((a \o code) \o z, s, m, {}, {})
      /\ LabelsOf((a \o code) \o z) = LabelsOf(code) \cup {l}
  BY <1>2, <1>3, <1>4, Join
<1> QED
  BY <1>5 DEF start_if, a, z

LEMMA IfElseCode ==
  ASSUME NEW n \in Nat, NEW s \in Nat, n < s, NEW l \in Nat, NEW m \in Nat, l + 1 < m,
         NEW code, NEW other,
         WellFormed(code, n, l, {}, {}), WellFormed(other, n, l, {}, {}),
         \A i \in LabelsOf(other) : i \notin LabelsOf(code)
  PROVE  /\ WellFormed(start_if_else(n, code, other, l), s, m, {}, {})
         /\ LabelsOf(start_if_else(n, code, other, l)) =
              (LabelsOf(code) \cup LabelsOf(other)) \cup {l, l + 1}
<1> DEFINE k == l + 1
           a == <<Eval(n), Instr("TJUMP_FW_W", l)>>
           y == <<Instr("JUMP_FW_W", k), Instr("LABEL", l)>>
           z == <<Instr("LABEL", k)>>
<1>1. k \in Nat /\ k < m /\ l < m /\ l # k /\ l < k /\ k = l + 1
  OBVIOUS
<1> HIDE DEF k
<1>2. WellFormed(a, s, m, {l}, {}) /\ LabelsOf(a) = {}
  BY <1>1, Condition
<1>3. WellFormed(y, s, m, {k}, {}) /\ LabelsOf(y) = {l}
  BY <1>1, JumpLabel
<1>4. WellFormed(z, s, m, {}, {}) /\ LabelsOf(z) = {k}
  BY <1>1, LabelCode
<1> HIDE DEF a, y, z
<1>5. /\ WellFormed(code, s, m, {l}, {}) /\ WellFormed(other, s, m, {k}, {})
      /\ l \notin LabelsOf(code) /\ l \notin LabelsOf(other)
      /\ k \notin LabelsOf(code) /\ k \notin LabelsOf(other)
  BY <1>1, Weaken, LabelsBelow
<1>6. WellFormed(a \o code, s, m, {l}, {}) /\ LabelsOf(a \o code) = LabelsOf(code)
  BY <1>2, <1>5, Join
<1>7. /\ WellFormed((a \o code) \o y, s, m, {k}, {})
      /\ LabelsOf((a \o code) \o y) = LabelsOf(code) \cup {l}
  BY <1>3, <1>5, <1>6, Join
<1>8. /\ WellFormed(((a \o code) \o y) \o other, s, m, {k}, {})
      /\ LabelsOf(((a \o code) \o y) \o other) =
           (LabelsOf(code) \cup {l}) \cup LabelsOf(other)
  BY <1>5, <1>7, Join
<1>9. /\ WellFormed((((a \o code) \o y) \o other) \o z, s, m, {}, {})
      /\ LabelsOf((((a \o code) \o y) \o other) \o z) =
           ((LabelsOf(code) \cup {l}) \cup LabelsOf(other)) \cup {k}
  BY <1>1, <1>4, <1>5, <1>8, Join
<1>10. start_if_else(n, code, other, l) = (((a \o code) \o y) \o other) \o z
  BY <1>1 DEF start_if_else, a, y, z
<1> QED
  BY <1>1, <1>9, <1>10

LEMMA WhileCode ==
  ASSUME NEW n \in Nat, NEW s \in Nat, n < s, NEW l \in Nat, NEW m \in Nat, l + 1 < m,
         NEW code, WellFormed(code, n, l, {}, {})
  PROVE  /\ WellFormed(start_while(n, code, l), s, m, {}, {})
         /\ LabelsOf(start_while(n, code, l)) = LabelsOf(code) \cup {l, l + 1}
<1> DEFINE k == l + 1
           x == <<Instr("LABEL", l)>>
           a == <<Eval(n), Instr("TJUMP_FW_W", k)>>
           y == <<Instr("JUMP_BW_W", l), Instr("LABEL", k)>>
<1>1. k \in Nat /\ k < m /\ l < m /\ l # k /\ l < k /\ k = l + 1
  OBVIOUS
<1> HIDE DEF k
<1>2. WellFormed(x, s, m, {}, {}) /\ LabelsOf(x) = {l}
  BY <1>1, LabelCode
<1>3. WellFormed(a, s, m, {k}, {}) /\ LabelsOf(a) = {}
  BY <1>1, Condition
<1>4. WellFormed(y, s, m, {}, {l}) /\ LabelsOf(y) = {k}
  BY <1>1, JumpLabel
<1>5. <<Instr("LABEL", l), Eval(n), Instr("TJUMP_FW_W", k)>> = x \o a
  OBVIOUS
<1> HIDE DEF x, a, y
<1>6. /\ WellFormed(x, s, m, {k}, {}) /\ WellFormed(code, s, m, {k}, {})
      /\ l \notin LabelsOf(code) /\ k \notin LabelsOf(code)
  BY <1>1, <1>2, Weaken, LabelsBelow
<1>7. WellFormed(x \o a, s, m, {k}, {}) /\ LabelsOf(x \o a) = {l}
  BY <1>2, <1>3, <1>6, Join
<1>8. /\ WellFormed((x \o a) \o code, s, m, {k}, {})
      /\ LabelsOf((x \o a) \o code) = {l} \cup LabelsOf(code)
  BY <1>6, <1>7, Join
<1>9. /\ WellFormed(((x \o a) \o code) \o y, s, m, {}, {})
      /\ LabelsOf(((x \o a) \o code) \o y) = ({l} \cup LabelsOf(code)) \cup {k}
  BY <1>1, <1>4, <1>6, <1>8, Join
<1>10. start_while(n, code, l) = ((x \o a) \o code) \o y
  BY <1>1, <1>5 DEF start_while, y
<1> QED
  BY <1>1, <1>9, <1>10

LEMMA EmptyCode ==
  ASSUME NEW s \in Nat, NEW l \in Nat
  PROVE  WellFormed(<<>>, s, l, {}, {}) /\ LabelsOf(<<>>) = {}
BY EmptySeq DEF WellFormed, Codes, Numbered, UniqueIn, Resolves, LabelsOf

LEMMA BasicCode ==
  ASSUME NEW n \in Nat, NEW s \in Nat, n < s, NEW l \in Nat
  PROVE  WellFormed(<<Exec(n)>>, s, l, {}, {}) /\ LabelsOf(<<Exec(n)>>) = {}
<1>1. Exec(n) \in Instructions /\ Exec(n).op = "EXEC" /\ Exec(n).n = n
  BY InstrFields DEF Exec
<1> QED
  BY <1>1, Single DEF Jumps

LEMMA BodyCode ==
  ASSUME NEW s \in Nat, NEW l \in Nat, NEW code, WellFormed(code, s, l, {}, {})
  PROVE  /\ WellFormed(Append(code, Instr("RETURN_ES", 0)), s, l, {}, {})
         /\ LabelsOf(Append(code, Instr("RETURN_ES", 0))) = LabelsOf(code)
<1> DEFINE x == Instr("RETURN_ES", 0)
<1>1. x \in Instructions /\ x.op = "RETURN_ES"
  BY InstrFields
<1>2. Append(code, x) = code \o <<x>>
  BY <1>1, AppendIsConcat DEF WellFormed, Codes
<1> HIDE DEF x
<1>3. WellFormed(<<x>>, s, l, {}, {}) /\ LabelsOf(<<x>>) = {}
  BY <1>1, Single DEF Jumps
<1>4. WellFormed(code \o <<x>>, s, l, {}, {}) /\ LabelsOf(code \o <<x>>) = LabelsOf(code)
  BY <1>3, Join
<1> QED
  BY <1>2, <1>4 DEF x

-----------------------------------------------------------------------------
(* Lists of fragments: the parser stack and the finished functions         *)

IsSequence(s) == \E S : s \in Seq(S)

Shares(a, b) == \E k \in LabelsOf(a) : k \in LabelsOf(b)

Good(s, src, l) ==
  /\ IsSequence(s)
  /\ \A i \in DOMAIN s : WellFormed(s[i].code, src, l, {}, {})
  /\ \A i, j \in DOMAIN s : i # j => ~ Shares(s[i].code, s[j].code)

Apart(s, t) == \A i \in DOMAIN s, j \in DOMAIN t : ~ Shares(s[i].code, t[j].code)

LEMMA SequenceDomain ==
  ASSUME NEW s, IsSequence(s)
  PROVE  Len(s) \in Nat /\ DOMAIN s = 1 .. Len(s)
BY LenProperties DEF IsSequence

LEMMA AppendDomain ==
  ASSUME NEW s, IsSequence(s), NEW e
  PROVE  /\ IsSequence(Append(s, e))
         /\ Len(Append(s, e)) = Len(s) + 1
         /\ \A i \in DOMAIN s : i \in DOMAIN Append(s, e) /\ Append(s, e)[i] = s[i]
         /\ Append(s, e)[Len(s) + 1] = e
         /\ \A i \in DOMAIN Append(s, e) : i \in DOMAIN s \/ i = Len(s) + 1
<1>1. PICK S : s \in Seq(S)
  BY DEF IsSequence
<1>2. s \in Seq(S \cup {e}) /\ e \in S \cup {e}
  <2>1. Len(s) \in Nat /\ DOMAIN s = 1 .. Len(s) /\ s = [i \in 1 .. Len(s) |-> s[i]]
    BY <1>1, LenProperties
  <2>2. \A i \in 1 .. Len(s) : s[i] \in S \cup {e}
    BY <1>1, ElementOfSeq
  <2> QED
    BY <2>1, <2>2, IsASeq
<1>3. /\ Append(s, e) \in Seq(S \cup {e})
      /\ Len(Append(s, e)) = Len(s) + 1
      /\ \A i \in 1 .. Len(s) : Append(s, e)[i] = s[i]
      /\ Append(s, e)[Len(s) + 1] = e
  BY <1>2, AppendProperties
<1>4. /\ Len(s) \in Nat /\ DOMAIN s = 1 .. Len(s)
      /\ DOMAIN Append(s, e) = 1 .. Len(s) + 1
  BY <1>2, <1>3, LenProperties
<1> QED
  BY <1>3, <1>4 DEF IsSequence

LEMMA CutDomain ==
  ASSUME NEW s, IsSequence(s), NEW m \in Nat, m <= Len(s)
  PROVE  /\ IsSequence(SubSeq(s, 1, m))
         /\ Len(SubSeq(s, 1, m)) = m
         /\ \A i \in DOMAIN SubSeq(s, 1, m) : i \in DOMAIN s /\ SubSeq(s, 1, m)[i] = s[i]
<1>1. PICK S : s \in Seq(S)
  BY DEF IsSequence
<1>2. Len(s) \in Nat /\ DOMAIN s = 1 .. Len(s)
  BY SequenceDomain
<1>3. \A i \in 1 .. m : s[i] \in S
  BY <1>1, <1>2, ElementOfSeq
<1>4. 1 \in Int /\ m \in Int /\ (IF 1 <= m THEN m - 1 + 1 ELSE 0) = m /\ m - 1 + 1 = m
  OBVIOUS
<1>5. /\ SubSeq(s, 1, m) \in Seq(S)
      /\ Len(SubSeq(s, 1, m)) = IF 1 <= m THEN m - 1 + 1 ELSE 0
      /\ \A i \in 1 .. m - 1 + 1 : SubSeq(s, 1, m)[i] = s[1 + i - 1]
  BY <1>3, <1>4, SubSeqProperties
<1>6. /\ Len(SubSeq(s, 1, m)) = m
      /\ \A i \in 1 .. m : SubSeq(s, 1, m)[i] = s[i]
  <2>1. \A i \in 1 .. m : 1 + i - 1 = i
    OBVIOUS
  <2> QED
    BY <1>4, <1>5, <2>1, Zenon
<1>7. DOMAIN SubSeq(s, 1, m) = 1 .. m
  BY <1>5, <1>6, LenProperties, Zenon
<1>8. \A i \in DOMAIN SubSeq(s, 1, m) : i \in DOMAIN s
  BY <1>2, <1>7
<1> QED
  BY <1>5, <1>6, <1>7, <1>8, Zenon DEF IsSequence

(* Labels numbered later are new to a well formed code. *)
LEMMA GoodWeaken ==
  ASSUME NEW s, NEW src \in Nat, NEW l \in Nat, Good(s, src, l),
         NEW src2 \in Nat, NEW l2 \in Nat, src <= src2, l <= l2
  PROVE  Good(s, src2, l2)
BY Weaken DEF Good

(* A fragment is appended whose labels are of no other. *)
LEMMA AppendGood ==
  ASSUME NEW s, NEW src \in Nat, NEW l \in Nat, Good(s, src, l),
         NEW e, WellFormed(e.code, src, l, {}, {}),
         \A i \in DOMAIN s : ~ Shares(s[i].code, e.code)
  PROVE  Good(Append(s, e), src, l)
<1> DEFINE r == Append(s, e)
<1>1. /\ IsSequence(r)
      /\ \A i \in DOMAIN r : (i \in DOMAIN s /\ r[i] = s[i]) \/ (i = Len(s) + 1 /\ r[i] = e)
  BY AppendDomain DEF Good
<1> HIDE DEF r
<1>2. \A i \in DOMAIN r : WellFormed(r[i].code, src, l, {}, {})
  BY <1>1 DEF Good
<1>3. ASSUME NEW i \in DOMAIN r, NEW j \in DOMAIN r, i # j
      PROVE  ~ Shares(r[i].code, r[j].code)
  BY <1>1, <1>3 DEF Good, Shares
<1> QED
  BY <1>1, <1>2, <1>3 DEF Good, r

(* The n last fragments are reduced to one, whose labels are theirs or new. *)
LEMMA ReduceGood ==
  ASSUME NEW st, NEW fn, NEW src \in Nat, NEW l \in Nat,
         Good(st, src, l), Good(fn, src, l), Apart(st, fn),
         NEW n \in Nat, n <= Len(st),
         NEW src2 \in Nat, NEW l2 \in Nat, src <= src2, l <= l2,
         NEW e, WellFormed(e.code, src2, l2, {}, {}),
         \A k \in LabelsOf(e.code) :
           \/ k \in Nat /\ k >= l
           \/ \E i \in Len(st) - n + 1 .. Len(st) : k \in LabelsOf(st[i].code)
  PROVE  /\ Good(Append(SubSeq(st, 1, Len(st) - n), e), src2, l2)
         /\ Good(fn, src2, l2)
         /\ Apart(Append(SubSeq(st, 1, Len(st) - n), e), fn)
         /\ Len(Append(SubSeq(st, 1, Len(st) - n), e)) = Len(st) - n + 1
<1> DEFINE m == Len(st) - n
           cut == SubSeq(st, 1, m)
<1>1. Len(st) \in Nat /\ DOMAIN st = 1 .. Len(st)
  BY SequenceDomain DEF Good
<1>m. m \in Nat /\ m <= Len(st) /\ m = Len(st) - n
  BY <1>1
<1> HIDE DEF m
<1>2. /\ IsSequence(cut) /\ Len(cut) = m
      /\ DOMAIN cut = 1 .. m
      /\ \A i \in DOMAIN cut : i \in DOMAIN st /\ cut[i] = st[i]
  <2>1. /\ IsSequence(cut) /\ Len(cut) = m
        /\ \A i \in DOMAIN cut : i \in DOMAIN st /\ cut[i] = st[i]
    BY <1>m, CutDomain DEF Good
  <2> QED
    BY <2>1, SequenceDomain
<1> HIDE DEF cut
<1>3. Good(st, src2, l2) /\ Good(fn, src2, l2)
  BY GoodWeaken
<1>4. Good(cut, src2, l2)
  BY <1>2, <1>3 DEF Good
<1>5. ASSUME NEW i \in DOMAIN cut
      PROVE  ~ Shares(cut[i].code, e.code)
  <2> SUFFICES ASSUME NEW k \in LabelsOf(cut[i].code), k \in LabelsOf(e.code)
               PROVE  FALSE
    BY DEF Shares
  <2>1. i \in DOMAIN st /\ cut[i] = st[i] /\ WellFormed(st[i].code, src, l, {}, {})
    BY <1>2 DEF Good
  <2>2. k \in Nat /\ k < l
    BY <2>1, LabelsBelow
  <2>3. PICK j \in Len(st) - n + 1 .. Len(st) : k \in LabelsOf(st[j].code)
    BY <2>2
  <2>4. j \in DOMAIN st /\ i # j
    BY <1>1, <1>2, <1>m
  <2> QED
    BY <2>1, <2>3, <2>4 DEF Good, Shares
<1>6. ASSUME NEW j \in DOMAIN fn
      PROVE  ~ Shares(e.code, fn[j].code)
  <2> SUFFICES ASSUME NEW k \in LabelsOf(e.code), k \in LabelsOf(fn[j].code)
               PROVE  FALSE
    BY DEF Shares
  <2>1. k \in Nat /\ k < l
    <3>1. WellFormed(fn[j].code, src, l, {}, {})
      BY DEF Good
    <3> QED
      BY <3>1, LabelsBelow
  <2>2. PICK i \in Len(st) - n + 1 .. Len(st) : k \in LabelsOf(st[i].code)
    BY <2>1
  <2>3. i \in DOMAIN st
    BY <1>1
  <2> QED
    BY <2>2, <2>3 DEF Apart, Shares
<1>7. Good(Append(cut, e), src2, l2)
  BY <1>4, <1>5, AppendGood
<1>8. /\ Len(Append(cut, e)) = Len(cut) + 1
      /\ \A i \in DOMAIN Append(cut, e) :
           \/ i \in DOMAIN cut /\ Append(cut, e)[i] = cut[i]
           \/ Append(cut, e)[i] = e
  BY <1>2, AppendDomain
<1>9. Apart(Append(cut, e), fn)
  BY <1>2, <1>6, <1>8 DEF Apart
<1> QED
  BY <1>2, <1>3, <1>7, <1>8, <1>9 DEF cut, m

-----------------------------------------------------------------------------
(* The invariant: every fragment is well formed in itself, and no label of *)
(* one is a label of another.  The properties of a single program text are *)
(* not inductive: a jump that leaves its fragment, or two fragments that   *)
(* share a label, would be caught only when they are put together.         *)

StInv ==
  /\ label_counter \in Nat
  /\ sources \in Nat /\ sources <= MaxSources
  /\ Good(stack, sources, label_counter)
  /\ Good(functions, sources, label_counter)
  /\ Apart(stack, functions)
  /\ Len(stack) <= MaxPending /\ Len(functions) <= MaxFunctions
  /\ status \in {"parsing", "accepted", "rejected"}

Inv == StInv /\ f \in 0 .. Len(functions) /\ pc \in Nat /\ deviates \in BOOLEAN

LEMMA InitInv ==
  ASSUME Init
  PROVE  Inv
<1>1. IsSequence(<<>>) /\ Len(<<>>) = 0 /\ DOMAIN <<>> = {}
  BY EmptySeq DEF IsSequence
<1>2. Good(<<>>, 0, 0) /\ Apart(<<>>, <<>>)
  BY <1>1 DEF Good, Apart
<1>3. /\ label_counter = 0 /\ sources = 0 /\ stack = <<>> /\ functions = <<>>
      /\ status = "parsing" /\ f = 0 /\ pc = 0 /\ deviates = FALSE
  BY DEF Init, StInit
<1>4. 0 \in Nat /\ 0 <= MaxSources /\ 0 <= MaxPending /\ 0 <= MaxFunctions /\ 0 \in 0 .. 0
  BY StatementsAssumption
<1>5. StInv
  BY <1>1, <1>2, <1>3, <1>4, Zenon DEF StInv
<1> QED
  BY <1>1, <1>3, <1>4, <1>5, Zenon DEF Inv

LEMMA ReduceKeeps ==
  ASSUME StInv, NEW n \in Nat, n <= Len(stack), Len(stack) - n + 1 <= MaxPending,
         NEW code, NEW tree, Reduce(n, code, tree),
         sources' \in Nat, sources <= sources', sources' <= MaxSources,
         label_counter' \in Nat, label_counter <= label_counter',
         WellFormed(code, sources', label_counter', {}, {}),
         \A k \in LabelsOf(code) :
           \/ k \in Nat /\ k >= label_counter
           \/ \E i \in Len(stack) - n + 1 .. Len(stack) : k \in LabelsOf(stack[i].code)
  PROVE  StInv' /\ functions' = functions
<1> DEFINE e == [code |-> code, tree |-> tree]
<1>1. /\ stack' = Append(SubSeq(stack, 1, Len(stack) - n), e)
      /\ functions' = functions /\ status' = status
      /\ e.code = code
  BY DEF Reduce
<1> HIDE DEF e
<1>2. /\ Good(stack', sources', label_counter')
      /\ Good(functions, sources', label_counter')
      /\ Apart(stack', functions)
      /\ Len(stack') = Len(stack) - n + 1
  <2>1. /\ WellFormed(e.code, sources', label_counter', {}, {})
        /\ \A k \in LabelsOf(e.code) :
             \/ k \in Nat /\ k >= label_counter
             \/ \E i \in Len(stack) - n + 1 .. Len(stack) : k \in LabelsOf(stack[i].code)
    BY <1>1, Zenon
  <2>2. /\ sources \in Nat /\ label_counter \in Nat
        /\ Good(stack, sources, label_counter)
        /\ Good(functions, sources, label_counter)
        /\ Apart(stack, functions)
    BY DEF StInv
  <2>3. /\ Good(Append(SubSeq(stack, 1, Len(stack) - n), e), sources', label_counter')
        /\ Good(functions, sources', label_counter')
        /\ Apart(Append(SubSeq(stack, 1, Len(stack) - n), e), functions)
        /\ Len(Append(SubSeq(stack, 1, Len(stack) - n), e)) = Len(stack) - n + 1
    BY <2>1, <2>2, ReduceGood
  <2> QED
    BY <1>1, <2>3, Zenon
<1> QED
  BY <1>1, <1>2 DEF StInv

LEMMA TopFragments ==
  ASSUME StInv, stack # <<>>
  PROVE  /\ Len(stack) \in Nat /\ Len(stack) >= 1
         /\ WellFormed(Top.code, sources, label_counter, {}, {})
         /\ Len(stack) > 1 =>
              /\ WellFormed(Second.code, sources, label_counter, {}, {})
              /\ ~ Shares(Top.code, Second.code)
<1>1. Len(stack) \in Nat /\ DOMAIN stack = 1 .. Len(stack) /\ Len(stack) # 0
  <2>1. PICK S : stack \in Seq(S)
    BY DEF StInv, Good, IsSequence
  <2> QED
    BY <2>1, LenProperties, EmptySeq
<1>2. Len(stack) \in DOMAIN stack
  BY <1>1
<1>3. \A L \in Nat : L > 1 => L - 1 \in 1 .. L /\ L - 1 # L
  OBVIOUS
<1>4. Len(stack) > 1 => Len(stack) - 1 \in DOMAIN stack /\ Len(stack) - 1 # Len(stack)
  BY <1>1, <1>3
<1>5. Len(stack) >= 1
  BY <1>1
<1>6. /\ \A i \in DOMAIN stack : WellFormed(stack[i].code, sources, label_counter, {}, {})
      /\ \A i, j \in DOMAIN stack : i # j => ~ Shares(stack[i].code, stack[j].code)
  BY DEF StInv, Good
<1> QED
  BY <1>1, <1>2, <1>4, <1>5, <1>6 DEF Top, Second

LEMMA EmptyKeeps ==
  ASSUME StInv, EmptyStatement
  PROVE  StInv' /\ functions' = functions
<1>1. /\ sources' \in Nat /\ sources <= sources' /\ sources' <= MaxSources
      /\ label_counter' = label_counter /\ label_counter \in Nat
      /\ Reduce(0, <<>>, Empty)
  BY StatementsAssumption DEF EmptyStatement, Source, StInv
<1>2. Len(stack) \in Nat /\ Len(stack) - 0 + 1 <= MaxPending /\ 0 <= Len(stack)
  BY StatementsAssumption, SequenceDomain DEF EmptyStatement, StInv, Good
<1>3. WellFormed(<<>>, sources', label_counter', {}, {}) /\ LabelsOf(<<>>) = {}
  BY <1>1, EmptyCode
<1> QED
  BY <1>1, <1>2, <1>3, ReduceKeeps

LEMMA BasicKeeps ==
  ASSUME StInv, BasicStatement
  PROVE  StInv' /\ functions' = functions
<1> DEFINE code == <<Exec(sources)>>
           tree == Basic(sources)
<1>1. /\ sources' \in Nat /\ sources < sources' /\ sources <= sources' /\ sources \in Nat
      /\ sources' <= MaxSources /\ label_counter' = label_counter /\ label_counter \in Nat
      /\ Reduce(0, code, tree)
  BY StatementsAssumption DEF BasicStatement, Source, StInv
<1>2. Len(stack) \in Nat /\ Len(stack) - 0 + 1 <= MaxPending /\ 0 <= Len(stack)
  BY StatementsAssumption, SequenceDomain DEF BasicStatement, StInv, Good
<1>3. WellFormed(code, sources', label_counter', {}, {}) /\ LabelsOf(code) = {}
  BY <1>1, BasicCode
<1> HIDE DEF code, tree
<1> QED
  BY <1>1, <1>2, <1>3, ReduceKeeps

LEMMA IfKeeps ==
  ASSUME StInv, IfStatement
  PROVE  StInv' /\ functions' = functions
<1> DEFINE code == start_if(sources, Top.code, label_counter)
           tree == If(sources, Top.tree)
<1>1. /\ sources' \in Nat /\ sources < sources' /\ sources <= sources' /\ sources \in Nat
      /\ sources' <= MaxSources
      /\ label_counter' \in Nat /\ label_counter < label_counter'
      /\ label_counter <= label_counter' /\ label_counter \in Nat
      /\ stack # <<>> /\ Reduce(1, code, tree)
  BY StatementsAssumption DEF IfStatement, Source, Number, StInv
<1>2. /\ Len(stack) \in Nat /\ 1 <= Len(stack) /\ Len(stack) - 1 + 1 <= MaxPending
      /\ Len(stack) - 1 + 1 = Len(stack)
      /\ WellFormed(Top.code, sources, label_counter, {}, {})
  BY <1>1, TopFragments, StatementsAssumption DEF StInv
<1>3. /\ WellFormed(code, sources', label_counter', {}, {})
      /\ LabelsOf(code) = LabelsOf(Top.code) \cup {label_counter}
  BY <1>1, <1>2, IfCode
<1> HIDE DEF code, tree
<1>4. \A k \in LabelsOf(code) :
        \/ k \in Nat /\ k >= label_counter
        \/ \E i \in Len(stack) - 1 + 1 .. Len(stack) : k \in LabelsOf(stack[i].code)
  BY <1>1, <1>2, <1>3 DEF Top
<1> QED
  BY <1>1, <1>2, <1>3, <1>4, ReduceKeeps

LEMMA IfElseKeeps ==
  ASSUME StInv, IfElseStatement
  PROVE  StInv' /\ functions' = functions
<1> DEFINE code == start_if_else(sources, Second.code, Top.code, label_counter)
           tree == IfElse(sources, Second.tree, Top.tree)
<1>1. /\ sources' \in Nat /\ sources < sources' /\ sources <= sources' /\ sources \in Nat
      /\ sources' <= MaxSources
      /\ label_counter' \in Nat /\ label_counter + 1 < label_counter'
      /\ label_counter <= label_counter' /\ label_counter \in Nat
      /\ Len(stack) > 1 /\ Reduce(2, code, tree)
  BY StatementsAssumption DEF IfElseStatement, Source, Number, StInv
<1>2. stack # <<>>
  BY <1>1, EmptySeq
<1>3. /\ Len(stack) \in Nat /\ 2 <= Len(stack) /\ Len(stack) - 2 + 1 <= MaxPending
      /\ WellFormed(Top.code, sources, label_counter, {}, {})
      /\ WellFormed(Second.code, sources, label_counter, {}, {})
      /\ ~ Shares(Top.code, Second.code)
  BY <1>1, <1>2, TopFragments, StatementsAssumption DEF StInv
<1>4. \A k \in LabelsOf(Top.code) : k \notin LabelsOf(Second.code)
  BY <1>3 DEF Shares
<1>5. /\ WellFormed(code, sources', label_counter', {}, {})
      /\ LabelsOf(code) = (LabelsOf(Second.code) \cup LabelsOf(Top.code))
                            \cup {label_counter, label_counter + 1}
  BY <1>1, <1>3, <1>4, IfElseCode
<1> HIDE DEF code, tree
<1>6. \A k \in LabelsOf(code) :
        \/ k \in Nat /\ k >= label_counter
        \/ \E i \in Len(stack) - 2 + 1 .. Len(stack) : k \in LabelsOf(stack[i].code)
  BY <1>1, <1>3, <1>5 DEF Top, Second
<1> QED
  BY <1>1, <1>3, <1>5, <1>6, ReduceKeeps

LEMMA WhileKeeps ==
  ASSUME StInv, WhileStatement
  PROVE  StInv' /\ functions' = functions
<1> DEFINE code == start_while(sources, Top.code, label_counter)
           tree == While(sources, Top.tree)
<1>1. /\ sources' \in Nat /\ sources < sources' /\ sources <= sources' /\ sources \in Nat
      /\ sources' <= MaxSources
      /\ label_counter' \in Nat /\ label_counter + 1 < label_counter'
      /\ label_counter <= label_counter' /\ label_counter \in Nat
      /\ stack # <<>> /\ Reduce(1, code, tree)
  BY StatementsAssumption DEF WhileStatement, Source, Number, StInv
<1>2. /\ Len(stack) \in Nat /\ 1 <= Len(stack) /\ Len(stack) - 1 + 1 <= MaxPending
      /\ Len(stack) - 1 + 1 = Len(stack)
      /\ WellFormed(Top.code, sources, label_counter, {}, {})
  BY <1>1, TopFragments, StatementsAssumption DEF StInv
<1>3. /\ WellFormed(code, sources', label_counter', {}, {})
      /\ LabelsOf(code) = LabelsOf(Top.code) \cup {label_counter, label_counter + 1}
  BY <1>1, <1>2, WhileCode
<1> HIDE DEF code, tree
<1>4. \A k \in LabelsOf(code) :
        \/ k \in Nat /\ k >= label_counter
        \/ \E i \in Len(stack) - 1 + 1 .. Len(stack) : k \in LabelsOf(stack[i].code)
  BY <1>1, <1>2, <1>3 DEF Top
<1> QED
  BY <1>1, <1>2, <1>3, <1>4, ReduceKeeps

LEMMA CompoundKeeps ==
  ASSUME StInv, CompoundStatement
  PROVE  StInv' /\ functions' = functions
<1> DEFINE code == Second.code \o Top.code
           tree == Compound(Second.tree, Top.tree)
<1>1. /\ sources' = sources /\ sources \in Nat /\ sources <= MaxSources
      /\ label_counter' = label_counter /\ label_counter \in Nat
      /\ Len(stack) > 1 /\ Reduce(2, code, tree)
  BY DEF CompoundStatement, StInv
<1>2. stack # <<>>
  BY <1>1, EmptySeq
<1>3. /\ Len(stack) \in Nat /\ 2 <= Len(stack) /\ Len(stack) - 2 + 1 <= MaxPending
      /\ WellFormed(Top.code, sources, label_counter, {}, {})
      /\ WellFormed(Second.code, sources, label_counter, {}, {})
      /\ ~ Shares(Top.code, Second.code)
  BY <1>1, <1>2, TopFragments, StatementsAssumption DEF StInv
<1>4. \A k \in LabelsOf(Top.code) : k \notin LabelsOf(Second.code)
  BY <1>3 DEF Shares
<1>5. /\ WellFormed(code, sources, label_counter, {}, {})
      /\ LabelsOf(code) = LabelsOf(Second.code) \cup LabelsOf(Top.code)
  BY <1>1, <1>3, <1>4, Join
<1> HIDE DEF code, tree
<1>6. \A k \in LabelsOf(code) :
        \/ k \in Nat /\ k >= label_counter
        \/ \E i \in Len(stack) - 2 + 1 .. Len(stack) : k \in LabelsOf(stack[i].code)
  BY <1>1, <1>3, <1>5 DEF Top, Second
<1> QED
  BY <1>1, <1>3, <1>5, <1>6, ReduceKeeps

LEMMA BodyKeeps ==
  ASSUME StInv, BlockBody
  PROVE  StInv' /\ Len(functions') >= Len(functions)
<1> DEFINE code == Append(Top.code, Instr("RETURN_ES", 0))
           e == [code |-> code, tree |-> Top.tree]
<1>1. /\ functions' = Append(functions, e) /\ stack' = <<>>
      /\ label_counter' = label_counter /\ sources' = sources /\ status' = status
      /\ e.code = code /\ Len(stack) = 1 /\ Len(functions) < MaxFunctions
  BY DEF BlockBody
<1>2. stack # <<>>
  <2>1. Len(stack) = 1
    BY <1>1
  <2> QED
    BY <2>1, EmptySeq
<1>3. /\ label_counter \in Nat /\ sources \in Nat
      /\ WellFormed(Top.code, sources, label_counter, {}, {})
  BY <1>2, TopFragments DEF StInv
<1>4. /\ WellFormed(code, sources, label_counter, {}, {})
      /\ LabelsOf(code) = LabelsOf(Top.code)
  BY <1>3, BodyCode
<1> HIDE DEF code, e
<1>5. \A i \in DOMAIN functions : ~ Shares(functions[i].code, e.code)
  <2>1. 1 \in DOMAIN stack /\ Top = stack[1]
    BY <1>1, SequenceDomain DEF StInv, Good, Top
  <2>2. \A i \in DOMAIN functions : ~ Shares(Top.code, functions[i].code)
    BY <2>1 DEF StInv, Apart
  <2> QED
    BY <1>1, <1>4, <2>2 DEF Shares
<1>6. Good(functions', sources, label_counter)
  BY <1>1, <1>3, <1>4, <1>5, AppendGood DEF StInv
<1>7. Len(functions') = Len(functions) + 1 /\ Len(functions) \in Nat
  BY <1>1, AppendDomain, SequenceDomain DEF StInv, Good
<1>8. /\ IsSequence(<<>>) /\ Len(<<>>) = 0 /\ DOMAIN <<>> = {}
  BY EmptySeq DEF IsSequence
<1>9. Good(stack', sources, label_counter) /\ Apart(stack', functions') /\ Len(stack') = 0
  BY <1>1, <1>8 DEF Good, Apart
<1>10. 0 <= MaxPending /\ Len(functions') <= MaxFunctions /\ Len(functions') >= Len(functions)
  BY <1>1, <1>7, StatementsAssumption
<1> QED
  BY <1>1, <1>6, <1>9, <1>10 DEF StInv

(* Each reduction keeps the invariant, and no finished function is lost. *)
LEMMA StStep ==
  ASSUME StInv, StNext
  PROVE  StInv' /\ Len(functions') >= Len(functions)
<1>1. Len(functions) \in Nat
  BY SequenceDomain DEF StInv, Good
<1>2. CASE EmptyStatement
  BY <1>1, <1>2, EmptyKeeps
<1>3. CASE BasicStatement
  BY <1>1, <1>3, BasicKeeps
<1>4. CASE IfStatement
  BY <1>1, <1>4, IfKeeps
<1>5. CASE IfElseStatement
  BY <1>1, <1>5, IfElseKeeps
<1>6. CASE WhileStatement
  BY <1>1, <1>6, WhileKeeps
<1>7. CASE CompoundStatement
  BY <1>1, <1>7, CompoundKeeps
<1>8. CASE ConditionRejected
  BY <1>1, <1>8 DEF ConditionRejected, StInv
<1>9. CASE BlockBody
  BY <1>9, BodyKeeps
<1>10. CASE Program
  BY <1>1, <1>10 DEF Program, StInv
<1> QED
  BY <1>2, <1>3, <1>4, <1>5, <1>6, <1>7, <1>8, <1>9, <1>10 DEF StNext

LEMMA SameStatements ==
  ASSUME StInv, UNCHANGED stVars
  PROVE  StInv' /\ functions' = functions
BY DEF StInv, stVars

(* The instruction the machine goes to is one of the code, or none. *)
LEMMA MachineInv ==
  ASSUME Inv, MachineStep
  PROVE  Inv'
<1> USE DEF Inv
<1>1. UNCHANGED <<stVars, f>>
  BY DEF MachineStep, UnfoldStatement, ExecInstruction, EvalAndJump, Jump, Label, Return,
         Continue
<1>2. StInv' /\ functions' = functions /\ f' = f
  BY <1>1, SameStatements
<1>3. \A l : \A i \in ForwardTargets(l) \cup BackwardTargets(l) : i \in Nat
  BY DEF ForwardTargets, BackwardTargets
<1>4. pc + 1 \in Nat /\ pc + 2 \in Nat /\ 0 \in Nat
  OBVIOUS
<1>5. ASSUME NEW to, NEW r, NEW wrong, Continue(to, r, wrong)
      PROVE  pc' = to /\ deviates' \in BOOLEAN
  BY <1>5, Zenon DEF Continue
<1>6. pc' \in Nat /\ deviates' \in BOOLEAN
  <2>1. CASE UnfoldStatement
    BY <2>1 DEF UnfoldStatement
  <2>2. CASE ExecInstruction
    BY <1>4, <2>2, Zenon DEF ExecInstruction, Continue
  <2>3. CASE EvalAndJump
    <3>1. PICK v \in BOOLEAN :
            /\ \/ \E to \in IF v THEN {pc + 2} ELSE ForwardTargets(Code[pc + 1].n) : pc' = to
               \/ pc' = pc + 1
            /\ deviates' \in BOOLEAN
      BY <2>3, Zenon DEF EvalAndJump, Continue
    <3>2. \A to \in IF v THEN {pc + 2} ELSE ForwardTargets(Code[pc + 1].n) : to \in Nat
      BY <1>3, <1>4, Zenon
    <3> QED
      BY <1>4, <3>1, <3>2, Zenon
  <2>4. CASE Jump
    <3>1. \E to, r, wrong : /\ Continue(to, r, wrong)
                            /\ \E l : to \in {0} \cup ForwardTargets(l) \cup BackwardTargets(l)
      BY <2>4, Zenon DEF Jump
    <3> QED
      BY <1>3, <1>4, <1>5, <3>1, Zenon
  <2>5. CASE Label
    BY <1>4, <2>5, Zenon DEF Label, Continue
  <2>6. CASE Return
    BY <1>4, <2>6, Zenon DEF Return, Continue
  <2> QED
    BY <2>1, <2>2, <2>3, <2>4, <2>5, <2>6 DEF MachineStep
<1> QED
  BY <1>2, <1>6

LEMMA NextInv ==
  ASSUME Inv, [Next]_vars
  PROVE  Inv'
<1>1. CASE StNext /\ UNCHANGED runVars
  <2>1. StInv' /\ Len(functions') >= Len(functions)
    BY <1>1, StStep DEF Inv
  <2>2. f' = f /\ pc' = pc /\ deviates' = deviates
    BY <1>1 DEF runVars
  <2>3. Len(functions) \in Nat /\ Len(functions') \in Nat
    BY <2>1, SequenceDomain DEF Inv, StInv, Good
  <2> QED
    BY <2>1, <2>2, <2>3 DEF Inv
<1>2. CASE Call
  <2>1. StInv' /\ functions' = functions
    BY <1>2, SameStatements DEF Call, Inv
  <2>2. f' \in 1 .. Len(functions) /\ pc' = 1 /\ deviates' = deviates
    BY <1>2 DEF Call
  <2>3. Len(functions) \in Nat
    BY SequenceDomain DEF Inv, StInv, Good
  <2> QED
    BY <2>1, <2>2, <2>3 DEF Inv
<1>3. CASE MachineStep
  BY <1>3, MachineInv
<1>4. CASE UNCHANGED vars
  BY <1>4, SameStatements DEF Inv, vars, runVars
<1> QED
  BY <1>1, <1>2, <1>3, <1>4 DEF Next

LEMMA SpecInv == Spec => []Inv
BY InitInv, NextInv, PTL DEF Spec

-----------------------------------------------------------------------------
(* What the invariant gives for the text of the program.                   *)

LEMMA FragmentsGood ==
  ASSUME Inv
  PROVE  /\ \A c \in Fragments : WellFormed(c, sources, label_counter, {}, {})
         /\ Len(stack) \in Nat /\ Len(functions) \in Nat
<1>1. /\ Len(stack) \in Nat /\ DOMAIN stack = 1 .. Len(stack)
      /\ Len(functions) \in Nat /\ DOMAIN functions = 1 .. Len(functions)
  BY SequenceDomain DEF Inv, StInv, Good
<1> QED
  BY <1>1 DEF Inv, StInv, Good, Fragments

LEMMA InvTyped ==
  ASSUME Inv
  PROVE  TypeOK
<1>1. ASSUME NEW c \in Fragments, NEW i \in DOMAIN c
      PROVE  \/ c[i].op \in {"EXEC", "EVAL"} /\ c[i].n \in 0 .. sources - 1
             \/ c[i].op \in Jumps \cup {"LABEL"} /\ c[i].n \in 0 .. label_counter - 1
             \/ c[i].op = "RETURN_ES"
  <2>1. c \in Codes /\ Numbered(c, sources, label_counter)
    BY FragmentsGood DEF WellFormed
  <2>2. /\ c[i].n \in Nat
        /\ c[i].op \in {"EXEC", "EVAL", "RETURN_ES", "LABEL"} \cup Jumps
    BY <2>1, CodeDomain DEF Instructions
  <2>3. sources \in Nat /\ label_counter \in Nat
    BY DEF Inv, StInv
  <2> QED
    BY <2>1, <2>2, <2>3 DEF Numbered
<1> QED
  BY <1>1, StatementsAssumption DEF TypeOK, Inv, StInv

LEMMA InvResolves ==
  ASSUME Inv
  PROVE  JumpsResolve
<1> SUFFICES ASSUME NEW c \in Fragments, NEW i \in DOMAIN c
             PROVE  /\ c[i].op \in {"TJUMP_FW_W", "JUMP_FW_W"} =>
                         \E j \in i + 1 .. Len(c) : c[j] = Instr("LABEL", c[i].n)
                    /\ c[i].op = "JUMP_BW_W" =>
                         \E j \in 1 .. i - 1 : c[j] = Instr("LABEL", c[i].n)
  BY DEF JumpsResolve
<1>1. c \in Codes /\ Resolves(c, {}, {})
  BY FragmentsGood DEF WellFormed
<1>2. /\ Len(c) \in Nat /\ DOMAIN c = 1 .. Len(c)
      /\ \A j \in DOMAIN c : c[j] \in Instructions
  BY <1>1, CodeDomain
<1>3. ASSUME NEW j \in DOMAIN c, IsLabel(c[j]), c[j].n = c[i].n
      PROVE  c[j] = Instr("LABEL", c[i].n)
  BY <1>2, <1>3 DEF Instructions, Instr, IsLabel
<1>4. \A j \in DOMAIN c : /\ j > i => j \in i + 1 .. Len(c)
                          /\ j < i => j \in 1 .. i - 1
  BY <1>2
<1> QED
  BY <1>1, <1>3, <1>4 DEF Resolves

LEMMA InvUnique ==
  ASSUME Inv
  PROVE  LabelsUnique
<1> DEFINE N == Len(stack) + Len(functions)
           all == [i \in 1 .. N |->
                     IF i <= Len(stack) THEN stack[i].code
                     ELSE functions[i - Len(stack)].code]
<1>1. /\ Len(stack) \in Nat /\ DOMAIN stack = 1 .. Len(stack)
      /\ Len(functions) \in Nat /\ DOMAIN functions = 1 .. Len(functions)
  BY SequenceDomain DEF Inv, StInv, Good
<1>2. DOMAIN all = 1 .. N
  OBVIOUS
<1>3. ASSUME NEW i \in 1 .. N
      PROVE  \/ i \in DOMAIN stack /\ all[i] = stack[i].code
             \/ i - Len(stack) \in DOMAIN functions
                /\ all[i] = functions[i - Len(stack)].code
  BY <1>1
<1> HIDE DEF all
<1>4. \A i \in 1 .. N : UniqueIn(all[i])
  BY <1>3 DEF Inv, StInv, Good, WellFormed
<1>5. ASSUME NEW i \in 1 .. N, NEW j \in 1 .. N, i # j
      PROVE  \/ ~ Shares(all[i], all[j])
             \/ ~ Shares(all[j], all[i])
  <2>1. CASE /\ i - Len(stack) \in DOMAIN functions
             /\ all[i] = functions[i - Len(stack)].code
             /\ j - Len(stack) \in DOMAIN functions
             /\ all[j] = functions[j - Len(stack)].code
    <3>1. i - Len(stack) # j - Len(stack)
      BY <1>1, <1>5
    <3> QED
      BY <2>1, <3>1 DEF Inv, StInv, Good
  <2> QED
    BY <1>3, <1>5, <2>1 DEF Inv, StInv, Good, Apart
<1>6. ASSUME NEW i \in 1 .. N, NEW j \in 1 .. N,
             NEW k \in DOMAIN all[i], NEW m \in DOMAIN all[j],
             all[i][k].op = "LABEL", all[i][k] = all[j][m]
      PROVE  <<i, k>> = <<j, m>>
  <2>1. /\ IsLabel(all[i][k]) /\ IsLabel(all[j][m])
        /\ all[i][k].n = all[j][m].n
    BY <1>6 DEF IsLabel
  <2>2. Shares(all[i], all[j]) /\ Shares(all[j], all[i])
    BY <2>1 DEF Shares, LabelsOf
  <2>3. i = j
    BY <1>5, <2>2
  <2>4. k = m
    BY <1>4, <2>1, <2>3 DEF UniqueIn
  <2> QED
    BY <2>3, <2>4
<1>7. \A i, j \in DOMAIN all : \A k \in DOMAIN all[i], m \in DOMAIN all[j] :
        all[i][k].op = "LABEL" /\ all[i][k] = all[j][m] => <<i, k>> = <<j, m>>
  BY <1>2, <1>6
<1> QED
  BY <1>7 DEF LabelsUnique, all

(* Every fragment of code on the parser stack and every finished function   *)
(* holds only instructions of the generator, with labels that it numbered;  *)
(* the machine that runs a function is always at an instruction number.     *)
THEOREM StatementsTyped == Spec => []TypeOK
BY SpecInv, InvTyped, PTL

(* However statements nest and whatever the order of the reductions, no     *)
(* label is defined twice in the text: start_if, start_if_else and          *)
(* start_while take numbers that no fragment built before them holds.       *)
THEOREM LabelsDefinedOnce == Spec => []LabelsUnique
BY SpecInv, InvUnique, PTL

(* Every jump of a fragment finds its label in the same fragment, forwards  *)
(* or backwards as its instruction goes: what bubbles up to the next        *)
(* reduction, and in the end into a function, is closed.                    *)
THEOREM JumpsFindLabels == Spec => []JumpsResolve
BY SpecInv, InvResolves, PTL

-----------------------------------------------------------------------------
(* What the machine does with code and statement                           *)

(* The machine at p of the code w, with r to execute, goes to members of H *)
(* only, and does nothing the language would not.                           *)
Wants(r, kinds, n) == r # <<>> /\ Head(r).kind \in kinds /\ Head(r).n = n

Ahead(w, p, l)  == {i \in p + 1 .. Len(w) : w[i] = Instr("LABEL", l)}
Behind(w, p, l) == {i \in 1 .. p - 1 : w[i] = Instr("LABEL", l)}

Executes(w, p, r, H) ==
  /\ w[p].op = "EXEC" => Wants(r, {"basic"}, w[p].n) /\ <<p + 1, Tail(r)>> \in H
  /\ w[p].op = "EVAL" =>
       /\ Wants(r, {"if", "ifelse", "while"}, w[p].n)
       /\ w[p + 1].op = "TJUMP_FW_W" /\ Ahead(w, p, w[p + 1].n) # {}
       /\ <<p + 2, Decide(Head(r), TRUE) \o Tail(r)>> \in H
       /\ \A to \in Ahead(w, p, w[p + 1].n) :
            <<to, Decide(Head(r), FALSE) \o Tail(r)>> \in H
  /\ w[p].op = "JUMP_FW_W" =>
       Ahead(w, p, w[p].n) # {} /\ \A to \in Ahead(w, p, w[p].n) : <<to, r>> \in H
  /\ w[p].op = "JUMP_BW_W" =>
       Behind(w, p, w[p].n) # {} /\ \A to \in Behind(w, p, w[p].n) : <<to, r>> \in H
  /\ w[p].op = "LABEL" => <<p + 1, r>> \in H
  /\ w[p].op = "RETURN_ES" => r = <<>>

Advances(w, p, r, H) ==
  /\ ~ Unfolded(r) => <<p, Unfold(r)>> \in H
  /\ Unfolded(r) => Executes(w, p, r, H)

(* From the members of G the machine goes to members of G and of X. *)
Within(w, G, X) == \A p, r : <<p, r>> \in G => Advances(w, p, r, G \cup X)

(* From p with r the machine stays within the code before e, until it is   *)
(* at e with a member of K to execute.                                      *)
Exits(e, K) == {<<e, r>> : r \in K}

Reaches(w, p, r, e, K) ==
  \E G : Within(w, G, Exits(e, K)) /\ <<p, r>> \in G \cup Exits(e, K)

(* What is unfolded is in K as well. *)
Unfolds(K) == \A r \in K : ~ Unfolded(r) => Unfold(r) \in K

(* c stands behind the first o instructions of w. *)
Placed(c, w, o) == \A i \in 1 .. Len(c) : o + i \in 1 .. Len(w) /\ w[o + i] = c[i]

(* The code c executes the statement t, wherever it stands and whatever    *)
(* remains to be executed after it.                                         *)
Implements(c, t) ==
  \A w \in Codes, o \in Nat : UniqueIn(w) /\ Placed(c, w, o) =>
    \A K, S : Unfolds(K) =>
      \A k \in K : k \in Seq(S) => Reaches(w, o + 1, <<t>> \o k, o + Len(c) + 1, K)

-----------------------------------------------------------------------------
LEMMA AdvancesMore ==
  ASSUME NEW w, NEW p, NEW r, NEW H, NEW J, H \subseteq J, Advances(w, p, r, H)
  PROVE  Advances(w, p, r, J)
<1>1. Executes(w, p, r, H) => Executes(w, p, r, J)
  BY DEF Executes
<1> QED
  BY <1>1 DEF Advances

LEMMA ExitIn ==
  ASSUME NEW e, NEW K
  PROVE  \A p, r : <<p, r>> \in Exits(e, K) <=> p = e /\ r \in K
<1> SUFFICES ASSUME NEW p, NEW r PROVE <<p, r>> \in Exits(e, K) <=> p = e /\ r \in K
  OBVIOUS
<1>1. ASSUME p = e, r \in K PROVE <<p, r>> \in Exits(e, K)
  BY <1>1 DEF Exits
<1>2. ASSUME <<p, r>> \in Exits(e, K) PROVE p = e /\ r \in K
  <2>1. PICK q \in K : <<p, r>> = <<e, q>>
    BY <1>2 DEF Exits
  <2> QED
    BY <2>1
<1> QED
  BY <1>1, <1>2

(* The statement to be executed first. *)
LEMMA FirstOf ==
  ASSUME NEW S, NEW k \in Seq(S), NEW t
  PROVE  /\ <<t>> \o k # <<>> /\ Head(<<t>> \o k) = t /\ Tail(<<t>> \o k) = k
         /\ <<t>> \o k \in Seq(S \cup {t}) /\ k \in Seq(S \cup {t})
<1> DEFINE R == S \cup {t}
<1>1. k \in Seq(R) /\ <<t>> \in Seq(R) /\ Len(<<t>>) = 1 /\ <<t>>[1] = t
  OBVIOUS
<1> HIDE DEF R
<1>2. <<t>> \o k \in Seq(R) /\ Len(<<t>> \o k) = Len(k) + 1 /\ Len(k) \in Nat
  BY <1>1
<1>3. (<<t>> \o k)[1] = t /\ \A i \in 1 .. Len(k) : (<<t>> \o k)[i + 1] = k[i]
  BY <1>1
<1>4. <<t>> \o k # <<>> /\ Head(<<t>> \o k) = t
  BY <1>2, <1>3
<1>5. Tail(<<t>> \o k) = k
  <2>1. Tail(<<t>> \o k) \in Seq(R) /\ Len(Tail(<<t>> \o k)) = Len(k)
    BY <1>2, <1>4
  <2>2. \A i \in 1 .. Len(k) : Tail(<<t>> \o k)[i] = k[i]
    BY <1>2, <1>3, <1>4
  <2> QED
    BY <1>1, <2>1, <2>2
<1> QED
  BY <1>1, <1>2, <1>4, <1>5 DEF R

LEMMA EmptyBefore ==
  ASSUME NEW S, NEW k \in Seq(S)
  PROVE  <<>> \o k = k
OBVIOUS

LEMMA TwoBefore ==
  ASSUME NEW S, NEW k \in Seq(S), NEW s, NEW t
  PROVE  <<s, t>> \o k = <<s>> \o (<<t>> \o k)
<1> DEFINE R == S \cup {s, t}
           y == <<s, t>> \o k
           z == <<s>> \o (<<t>> \o k)
<1>1. k \in Seq(R) /\ s \in R /\ t \in R
  OBVIOUS
<1> HIDE DEF R
<1>2. /\ <<s, t>> \in Seq(R) /\ Len(<<s, t>>) = 2 /\ <<s, t>>[1] = s /\ <<s, t>>[2] = t
      /\ <<s>> \in Seq(R) /\ Len(<<s>>) = 1 /\ <<s>>[1] = s
      /\ <<t>> \in Seq(R) /\ Len(<<t>>) = 1 /\ <<t>>[1] = t
  BY <1>1
<1>3. /\ y \in Seq(R) /\ Len(y) = 2 + Len(k) /\ Len(k) \in Nat
      /\ \A i \in 1 .. 2 + Len(k) : y[i] = IF i <= 2 THEN <<s, t>>[i] ELSE k[i - 2]
  BY <1>1, <1>2, ConcatProperties, LenProperties
<1>4. /\ <<t>> \o k \in Seq(R) /\ Len(<<t>> \o k) = 1 + Len(k)
      /\ \A i \in 1 .. 1 + Len(k) : (<<t>> \o k)[i] = IF i <= 1 THEN <<t>>[i] ELSE k[i - 1]
  BY <1>1, <1>2, ConcatProperties, LenProperties
<1>5. /\ z \in Seq(R) /\ Len(z) = 1 + (1 + Len(k))
      /\ \A i \in 1 .. 1 + (1 + Len(k)) : z[i] = IF i <= 1 THEN <<s>>[i] ELSE (<<t>> \o k)[i - 1]
  BY <1>2, <1>4, ConcatProperties
<1> HIDE DEF y, z
<1>6. Len(y) = Len(z)
  BY <1>3, <1>5
<1>7. \A i \in 1 .. Len(y) : y[i] = z[i]
  <2> TAKE i \in 1 .. Len(y)
  <2>1. CASE i = 1
    BY <1>2, <1>3, <1>5, <2>1
  <2>2. CASE i = 2
    <3>1. z[2] = (<<t>> \o k)[1]
      BY <1>3, <1>5
    <3>2. (<<t>> \o k)[1] = t
      BY <1>2, <1>3, <1>4
    <3> QED
      BY <1>2, <1>3, <2>2, <3>1, <3>2
  <2>3. CASE i > 2
    <3>1. z[i] = (<<t>> \o k)[i - 1]
      BY <1>3, <1>5, <2>3
    <3>2. i - 1 \in 1 .. 1 + Len(k) /\ i - 1 > 1 /\ (i - 1) - 1 = i - 2
      BY <1>3, <2>3
    <3>3. (<<t>> \o k)[i - 1] = k[i - 2]
      BY <1>4, <3>2
    <3> QED
      BY <1>3, <2>3, <3>1, <3>3
  <2> QED
    BY <1>3, <2>1, <2>2, <2>3
<1>8. y = z
  BY <1>3, <1>5, <1>6, <1>7
<1> QED
  BY <1>8 DEF y, z

LEMMA LenJoined ==
  ASSUME NEW a \in Codes, NEW b \in Codes
  PROVE  a \o b \in Codes /\ Len(a \o b) = Len(a) + Len(b) /\ Len(a) \in Nat /\ Len(b) \in Nat
BY ConcatProperties, LenProperties DEF Codes

LEMMA PlacedParts ==
  ASSUME NEW a \in Codes, NEW b \in Codes, NEW w \in Codes, NEW o \in Nat, Placed(a \o b, w, o)
  PROVE  /\ Placed(a, w, o) /\ Placed(b, w, o + Len(a))
         /\ o + Len(a) \in Nat /\ Len(a \o b) = Len(a) + Len(b)
<1>1. /\ Len(a) \in Nat /\ Len(b) \in Nat /\ Len(a \o b) = Len(a) + Len(b)
      /\ \A i \in 1 .. Len(a) : (a \o b)[i] = a[i]
      /\ \A i \in 1 .. Len(b) : (a \o b)[Len(a) + i] = b[i]
  BY ConcatProperties DEF Codes
<1>2. Placed(a, w, o)
  BY <1>1 DEF Placed
<1>3. Placed(b, w, o + Len(a))
  <2>1. ASSUME NEW i \in 1 .. Len(b)
        PROVE  /\ Len(a) + i \in 1 .. Len(a \o b)
               /\ o + Len(a) + i = o + (Len(a) + i)
    BY <1>1
  <2> QED
    BY <1>1, <2>1 DEF Placed
<1> QED
  BY <1>1, <1>2, <1>3

LEMMA PlacedOne ==
  ASSUME NEW x, NEW w, NEW o \in Nat, Placed(<<x>>, w, o)
  PROVE  o + 1 \in 1 .. Len(w) /\ w[o + 1] = x /\ Len(<<x>>) = 1
<1>1. Len(<<x>>) = 1 /\ <<x>>[1] = x
  OBVIOUS
<1> QED
  BY <1>1 DEF Placed

(* A label that stands ahead or behind is the only one of its number. *)
LEMMA OneLabel ==
  ASSUME NEW w \in Codes, UniqueIn(w), NEW l \in Nat, NEW e \in 1 .. Len(w),
         w[e] = Instr("LABEL", l)
  PROVE  /\ \A p \in Nat : p < e => Ahead(w, p, l) = {e}
         /\ \A p \in 1 .. Len(w) : p > e => Behind(w, p, l) = {e}
<1>1. Len(w) \in Nat /\ DOMAIN w = 1 .. Len(w)
  BY CodeDomain
<1>2. Instr("LABEL", l).op = "LABEL" /\ Instr("LABEL", l).n = l
  BY DEF Instr
<1>3. \A i \in 1 .. Len(w) : w[i] = Instr("LABEL", l) => i = e
  BY <1>1, <1>2 DEF UniqueIn, IsLabel
<1>4. ASSUME NEW p \in Nat, p < e PROVE Ahead(w, p, l) = {e}
  <2>1. e \in p + 1 .. Len(w) /\ \A i \in p + 1 .. Len(w) : i \in 1 .. Len(w)
    BY <1>1, <1>4
  <2> QED
    BY <1>3, <2>1 DEF Ahead
<1>5. ASSUME NEW p \in 1 .. Len(w), p > e PROVE Behind(w, p, l) = {e}
  <2>1. e \in 1 .. p - 1 /\ \A i \in 1 .. p - 1 : i \in 1 .. Len(w)
    BY <1>1, <1>5
  <2> QED
    BY <1>3, <2>1 DEF Behind
<1> QED
  BY <1>4, <1>5

(* One instruction at a time.                                              *)
LEMMA PassUnfold ==
  ASSUME NEW w, NEW p, NEW r, NEW H, ~ Unfolded(r), <<p, Unfold(r)>> \in H
  PROVE  Advances(w, p, r, H)
BY DEF Advances

LEMMA PassLabel ==
  ASSUME NEW w, NEW p, NEW r, NEW H, w[p].op = "LABEL", <<p + 1, r>> \in H,
         ~ Unfolded(r) => <<p, Unfold(r)>> \in H
  PROVE  Advances(w, p, r, H)
BY DEF Advances, Executes

LEMMA PassJump ==
  ASSUME NEW w, NEW p, NEW r, NEW H, NEW e, <<e, r>> \in H,
         \/ w[p].op = "JUMP_FW_W" /\ Ahead(w, p, w[p].n) = {e}
         \/ w[p].op = "JUMP_BW_W" /\ Behind(w, p, w[p].n) = {e},
         ~ Unfolded(r) => <<p, Unfold(r)>> \in H
  PROVE  Advances(w, p, r, H)
BY DEF Advances, Executes

LEMMA PassExec ==
  ASSUME NEW w, NEW p, NEW r, NEW H, w[p].op = "EXEC", Wants(r, {"basic"}, w[p].n),
         <<p + 1, Tail(r)>> \in H
  PROVE  Advances(w, p, r, H)
BY DEF Advances, Executes, Wants, Unfolded

LEMMA PassEval ==
  ASSUME NEW w, NEW p, NEW r, NEW H, w[p].op = "EVAL",
         Wants(r, {"if", "ifelse", "while"}, w[p].n),
         NEW e, w[p + 1].op = "TJUMP_FW_W", Ahead(w, p, w[p + 1].n) = {e},
         <<p + 2, Decide(Head(r), TRUE) \o Tail(r)>> \in H,
         <<e, Decide(Head(r), FALSE) \o Tail(r)>> \in H
  PROVE  Advances(w, p, r, H)
<1>1. Executes(w, p, r, H)
  BY DEF Executes
<1>2. Unfolded(r)
  BY DEF Wants, Unfolded
<1> QED
  BY <1>1, <1>2 DEF Advances

LEMMA Decisions ==
  ASSUME NEW n, NEW s, NEW t
  PROVE  /\ Decide(If(n, s), TRUE) = <<s>> /\ Decide(If(n, s), FALSE) = <<>>
         /\ Decide(IfElse(n, s, t), TRUE) = <<s>> /\ Decide(IfElse(n, s, t), FALSE) = <<t>>
         /\ Decide(While(n, s), TRUE) = <<s, While(n, s)>> /\ Decide(While(n, s), FALSE) = <<>>
<1>1. /\ If(n, s).kind = "if" /\ If(n, s).then = s
      /\ IfElse(n, s, t).kind = "ifelse" /\ IfElse(n, s, t).then = s /\ IfElse(n, s, t).else = t
      /\ While(n, s).kind = "while" /\ While(n, s).do = s
  BY DEF If, IfElse, While
<1>2. Decide(If(n, s), TRUE) = <<s>> /\ Decide(If(n, s), FALSE) = <<>>
  BY <1>1, ZenonT(60) DEF Decide
<1>3. Decide(IfElse(n, s, t), TRUE) = <<s>> /\ Decide(IfElse(n, s, t), FALSE) = <<t>>
  BY <1>1, ZenonT(60) DEF Decide
<1>4. Decide(While(n, s), TRUE) = <<s, While(n, s)>> /\ Decide(While(n, s), FALSE) = <<>>
  BY <1>1, ZenonT(60) DEF Decide
<1> QED
  BY <1>2, <1>3, <1>4

LEMMA Kinds ==
  ASSUME NEW n, NEW s, NEW t
  PROVE  /\ If(n, s).kind = "if" /\ If(n, s).n = n
         /\ IfElse(n, s, t).kind = "ifelse" /\ IfElse(n, s, t).n = n
         /\ While(n, s).kind = "while" /\ While(n, s).n = n
         /\ Basic(n).kind = "basic" /\ Basic(n).n = n
         /\ Compound(s, t).kind = "compound"
         /\ Compound(s, t).first = s /\ Compound(s, t).rest = t
         /\ Empty.kind = "empty"
BY DEF If, IfElse, While, Basic, Compound, Empty

LEMMA FieldsOf ==
  \A op, n : Instr(op, n).op = op /\ Instr(op, n).n = n
BY DEF Instr

LEMMA UnfoldsCompound ==
  ASSUME NEW s, NEW t, NEW r, r # <<>>, Head(r) = Compound(s, t)
  PROVE  Unfold(r) = <<s, t>> \o Tail(r) /\ ~ Unfolded(r)
<1>1. Head(r).kind = "compound" /\ Head(r).first = s /\ Head(r).rest = t
  BY Kinds
<1> QED
  BY <1>1 DEF Unfold, Unfolded

(* What is known of the place of a fragment and of what follows it.        *)
Context(c, w, o, K, S, k) ==
  /\ w \in Codes /\ o \in Nat /\ UniqueIn(w) /\ Placed(c, w, o)
  /\ Unfolds(K) /\ k \in K /\ k \in Seq(S)

LEMMA ImplementsIs ==
  ASSUME NEW c, NEW t,
         \A w, o, K, S, k : Context(c, w, o, K, S, k)
           => Reaches(w, o + 1, <<t>> \o k, o + Len(c) + 1, K)
  PROVE  Implements(c, t)
BY DEF Implements, Context

LEMMA ImplementsIn ==
  ASSUME NEW c, NEW t, Implements(c, t), NEW w, NEW o, NEW K, NEW S, NEW k,
         Context(c, w, o, K, S, k)
  PROVE  Reaches(w, o + 1, <<t>> \o k, o + Len(c) + 1, K)
BY DEF Implements, Context

LEMMA EmptyImplements == Implements(<<>>, Empty)
<1> SUFFICES ASSUME NEW w, NEW o, NEW K, NEW S, NEW k, Context(<<>>, w, o, K, S, k)
             PROVE  Reaches(w, o + 1, <<Empty>> \o k, o + Len(<<>>) + 1, K)
  BY ImplementsIs
<1> DEFINE r0 == <<Empty>> \o k
           G == {<<o + 1, r0>>}
           X == Exits(o + 1, K)
<1>1. o \in Nat /\ k \in Seq(S) /\ k \in K /\ o + Len(<<>>) + 1 = o + 1
  BY DEF Context
<1>2. r0 # <<>> /\ Head(r0) = Empty /\ Tail(r0) = k
  BY <1>1, FirstOf
<1>3. ~ Unfolded(r0) /\ Unfold(r0) = k
  BY <1>2, Kinds DEF Unfolded, Unfold
<1>4. <<o + 1, k>> \in X
  BY <1>1, ExitIn
<1> HIDE DEF r0, X
<1>5. Within(w, G, X)
  <2> SUFFICES ASSUME NEW p, NEW r, <<p, r>> \in G PROVE Advances(w, p, r, G \cup X)
    BY DEF Within
  <2>1. p = o + 1 /\ r = r0
    OBVIOUS
  <2> QED
    BY <1>3, <1>4, <2>1, PassUnfold
<1> QED
  BY <1>1, <1>5 DEF Reaches, r0, X

LEMMA BasicImplements == \A n : Implements(<<Exec(n)>>, Basic(n))
<1> SUFFICES ASSUME NEW n, NEW w, NEW o, NEW K, NEW S, NEW k, Context(<<Exec(n)>>, w, o, K, S, k)
             PROVE  Reaches(w, o + 1, <<Basic(n)>> \o k, o + Len(<<Exec(n)>>) + 1, K)
  BY ImplementsIs
<1> DEFINE r0 == <<Basic(n)>> \o k
           G == {<<o + 1, r0>>}
           X == Exits(o + 2, K)
<1>1. o \in Nat /\ k \in Seq(S) /\ k \in K /\ Placed(<<Exec(n)>>, w, o)
  BY DEF Context
<1>2. r0 # <<>> /\ Head(r0) = Basic(n) /\ Tail(r0) = k
  BY <1>1, FirstOf
<1>3. w[o + 1] = Exec(n) /\ Len(<<Exec(n)>>) = 1
  BY <1>1, PlacedOne
<1>4. w[o + 1].op = "EXEC" /\ Wants(r0, {"basic"}, w[o + 1].n)
  BY <1>2, <1>3, Kinds DEF Wants, Exec, Instr
<1>5. <<o + 2, k>> \in X
  BY <1>1, ExitIn
<1>6. o + 1 + 1 = o + 2 /\ o + Len(<<Exec(n)>>) + 1 = o + 2
  BY <1>1, <1>3
<1> HIDE DEF r0, X
<1>7. Within(w, G, X)
  <2> SUFFICES ASSUME NEW p, NEW r, <<p, r>> \in G PROVE Advances(w, p, r, G \cup X)
    BY DEF Within
  <2>1. p = o + 1 /\ r = r0
    OBVIOUS
  <2>2. <<p + 1, Tail(r)>> \in G \cup X
    BY <1>2, <1>5, <1>6, <2>1
  <2> QED
    BY <1>4, <2>1, <2>2, PassExec
<1> QED
  BY <1>6, <1>7 DEF Reaches, r0, X

(* Wherever the machine is, what is unfolded is there as well. *)
LEMMA UnfoldedToo ==
  ASSUME NEW w, NEW G, NEW e, NEW K, Within(w, G, Exits(e, K)), Unfolds(K),
         NEW p, NEW r, <<p, r>> \in G \cup Exits(e, K), ~ Unfolded(r)
  PROVE  <<p, Unfold(r)>> \in G \cup Exits(e, K)
<1>1. CASE <<p, r>> \in G
  BY <1>1 DEF Within, Advances
<1>2. CASE <<p, r>> \in Exits(e, K)
  BY <1>2, ExitIn DEF Unfolds
<1> QED
  BY <1>1, <1>2

LEMMA WithinMore ==
  ASSUME NEW w, NEW G, NEW X, Within(w, G, X), NEW H, G \cup X \subseteq H,
         NEW p, NEW r, <<p, r>> \in G
  PROVE  Advances(w, p, r, H)
BY AdvancesMore DEF Within

(* What is to be executed at p. *)
At(p, H) == {r \in {q[2] : q \in H} : <<p, r>> \in H}

LEMMA AtIs ==
  ASSUME NEW p, NEW H
  PROVE  \A r : r \in At(p, H) <=> <<p, r>> \in H
<1> SUFFICES ASSUME NEW r, <<p, r>> \in H PROVE r \in At(p, H)
  BY DEF At
<1>1. <<p, r>>[2] = r
  OBVIOUS
<1> QED
  BY <1>1 DEF At

LEMMA CompoundImplements ==
  ASSUME NEW a \in Codes, NEW s, Implements(a, s), NEW b \in Codes, NEW t, Implements(b, t)
  PROVE  Implements(a \o b, Compound(s, t))
<1> SUFFICES ASSUME NEW w, NEW o, NEW K, NEW S, NEW k, Context(a \o b, w, o, K, S, k)
             PROVE  Reaches(w, o + 1, <<Compound(s, t)>> \o k, o + Len(a \o b) + 1, K)
  BY ImplementsIs
<1> DEFINE m == Len(a)
           r0 == <<Compound(s, t)>> \o k
           mid == o + m + 1
           e == o + m + Len(b) + 1
           X == Exits(e, K)
<1>1. /\ w \in Codes /\ o \in Nat /\ k \in Seq(S) /\ k \in K /\ Unfolds(K) /\ UniqueIn(w)
      /\ Placed(a \o b, w, o)
  BY DEF Context
<1>2. /\ Placed(a, w, o) /\ Placed(b, w, o + m) /\ o + m \in Nat
      /\ Len(a \o b) = m + Len(b) /\ m \in Nat /\ Len(b) \in Nat
  BY <1>1, PlacedParts, CodeDomain
<1>3. Reaches(w, mid, <<t>> \o k, e, K)
  <2>1. Context(b, w, o + m, K, S, k)
    BY <1>1, <1>2 DEF Context
  <2> QED
    BY <2>1, ImplementsIn
<1>4. PICK Gb : Within(w, Gb, X) /\ <<mid, <<t>> \o k>> \in Gb \cup X
  BY <1>3 DEF Reaches
<1> DEFINE Hb == Gb \cup X
           K2 == At(mid, Hb)
<1>5. /\ <<t>> \o k \in Seq(S \cup {t}) /\ r0 # <<>> /\ Head(r0) = Compound(s, t) /\ Tail(r0) = k
  BY <1>1, FirstOf
<1>6. ~ Unfolded(r0) /\ Unfold(r0) = <<s>> \o (<<t>> \o k)
  <2>1. Unfold(r0) = <<s, t>> \o k /\ ~ Unfolded(r0)
    BY <1>5, UnfoldsCompound
  <2>2. <<s, t>> \o k = <<s>> \o (<<t>> \o k)
    BY <1>1, TwoBefore
  <2> QED
    BY <2>1, <2>2
<1>7. Unfolds(K2) /\ <<t>> \o k \in K2
  <2>1. \A p, r : <<p, r>> \in Hb /\ ~ Unfolded(r) => <<p, Unfold(r)>> \in Hb
    BY <1>1, <1>4, UnfoldedToo
  <2> HIDE DEF Hb
  <2>2. <<t>> \o k \in K2
    BY <1>4, AtIs DEF Hb
  <2> QED
    BY <2>1, <2>2, AtIs DEF Unfolds
<1>8. Reaches(w, o + 1, <<s>> \o (<<t>> \o k), mid, K2)
  <2>1. Context(a, w, o, K2, S \cup {t}, <<t>> \o k)
    BY <1>1, <1>2, <1>5, <1>7 DEF Context
  <2> QED
    BY <2>1, ImplementsIn
<1>9. PICK Ga : /\ Within(w, Ga, Exits(mid, K2))
                /\ <<o + 1, <<s>> \o (<<t>> \o k)>> \in Ga \cup Exits(mid, K2)
  BY <1>8 DEF Reaches
<1>10. Exits(mid, K2) \subseteq Hb
  <2> SUFFICES ASSUME NEW q \in Exits(mid, K2) PROVE q \in Hb
    OBVIOUS
  <2>1. PICK r \in K2 : q = <<mid, r>>
    BY DEF Exits
  <2> QED
    BY <2>1, AtIs
<1> DEFINE G == Ga \cup Gb \cup {<<o + 1, r0>>}
<1> HIDE DEF r0, X, K2
<1>11. Within(w, G, X)
  <2> SUFFICES ASSUME NEW p, NEW r, <<p, r>> \in G PROVE Advances(w, p, r, G \cup X)
    BY DEF Within
  <2>1. CASE <<p, r>> \in Ga
    BY <1>9, <1>10, <2>1, WithinMore
  <2>2. CASE <<p, r>> \in Gb
    BY <1>4, <2>2, WithinMore
  <2>3. CASE <<p, r>> = <<o + 1, r0>>
    BY <1>6, <1>9, <1>10, <2>3, PassUnfold
  <2> QED
    BY <2>1, <2>2, <2>3
<1>12. o + Len(a \o b) + 1 = e
  BY <1>1, <1>2
<1> QED
  BY <1>11, <1>12 DEF Reaches, r0, X

LEMMA IfImplements ==
  ASSUME NEW a \in Codes, NEW t, Implements(a, t), NEW n \in Nat, NEW l \in Nat
  PROVE  Implements(start_if(n, a, l), If(n, t))
<1> DEFINE c == start_if(n, a, l)
           m == Len(a)
<1> SUFFICES ASSUME NEW w, NEW o, NEW K, NEW S, NEW k, Context(c, w, o, K, S, k)
             PROVE  Reaches(w, o + 1, <<If(n, t)>> \o k, o + Len(c) + 1, K)
  BY ImplementsIs
<1> DEFINE r0 == <<If(n, t)>> \o k
           e == o + m + 3
           X == Exits(e + 1, K)
           Y == Exits(e, K)
<1>1. /\ w \in Codes /\ o \in Nat /\ k \in Seq(S) /\ k \in K /\ Unfolds(K) /\ UniqueIn(w)
      /\ Placed(c, w, o) /\ m \in Nat
  BY CodeDomain DEF Context
<1>2. /\ w[o + 1] = Eval(n) /\ w[o + 2] = Instr("TJUMP_FW_W", l)
      /\ Placed(a, w, o + 2) /\ e \in 1 .. Len(w) /\ w[e] = Instr("LABEL", l)
      /\ Len(c) = m + 3 /\ o + 1 \in Nat /\ o + 1 < e
  <2> DEFINE x == <<Eval(n)>>
             y == <<Instr("TJUMP_FW_W", l)>>
             z == <<Instr("LABEL", l)>>
  <2>1. x \in Codes /\ y \in Codes /\ z \in Codes /\ Len(x) = 1 /\ Len(y) = 1 /\ Len(z) = 1
    BY InstrFields DEF Codes, Instructions, Jumps, Eval
  <2>2. c = (x \o y) \o a \o z
    BY DEF start_if
  <2>3. x \o y \in Codes /\ (x \o y) \o a \in Codes
    BY <2>1 DEF Codes
  <2> HIDE DEF c, x, y, z
  <2>4. Placed((x \o y) \o a, w, o) /\ Placed(z, w, o + Len((x \o y) \o a))
    BY <1>1, <2>1, <2>2, <2>3, PlacedParts
  <2>5. Placed(x \o y, w, o) /\ Placed(a, w, o + Len(x \o y))
    BY <1>1, <2>3, <2>4, PlacedParts
  <2>6. Placed(x, w, o) /\ Placed(y, w, o + 1)
    BY <1>1, <2>1, <2>5, PlacedParts
  <2>7. Len(x \o y) = 2 /\ Len((x \o y) \o a) = m + 2 /\ Len(c) = m + 3
    <3>1. Len(x \o y) = Len(x) + Len(y)
      BY <2>1, LenJoined
    <3>2. Len((x \o y) \o a) = Len(x \o y) + m
      BY <2>3, LenJoined
    <3>3. Len(c) = Len((x \o y) \o a) + Len(z)
      BY <2>1, <2>2, <2>3, LenJoined
    <3> QED
      BY <1>1, <2>1, <3>1, <3>2, <3>3
  <2>8. /\ o + (m + 2) \in Nat /\ o + (m + 2) + 1 = e /\ o + 1 + 1 = o + 2
        /\ o + 1 \in Nat /\ o + 1 < e
    BY <1>1
  <2>9. Placed(z, w, o + (m + 2)) /\ Placed(a, w, o + 2)
    BY <2>4, <2>5, <2>7
  <2>10. o + (m + 2) + 1 \in 1 .. Len(w) /\ w[o + (m + 2) + 1] = Instr("LABEL", l)
    BY <2>8, <2>9, PlacedOne DEF z
  <2>11. w[o + 1] = Eval(n) /\ w[o + 1 + 1] = Instr("TJUMP_FW_W", l)
    BY <1>1, <2>6, <2>8, PlacedOne DEF x, y
  <2> QED
    BY <2>7, <2>8, <2>9, <2>10, <2>11
<1> HIDE DEF c
<1>3. Reaches(w, o + 3, <<t>> \o k, e, K)
  <2>1. Context(a, w, o + 2, K, S, k)
    BY <1>1, <1>2 DEF Context
  <2>2. o + 2 + 1 = o + 3 /\ o + 2 + m + 1 = e
    BY <1>1
  <2> QED
    BY <2>1, <2>2, ImplementsIn
<1>4. PICK Ga : Within(w, Ga, Y) /\ <<o + 3, <<t>> \o k>> \in Ga \cup Y
  BY <1>3 DEF Reaches
<1>5. /\ r0 # <<>> /\ Head(r0) = If(n, t) /\ Tail(r0) = k
  BY <1>1, FirstOf
<1> HIDE DEF r0
<1>6. /\ w[o + 1].op = "EVAL" /\ w[o + 1 + 1].op = "TJUMP_FW_W"
      /\ Wants(r0, {"if", "ifelse", "while"}, w[o + 1].n)
      /\ Ahead(w, o + 1, w[o + 1 + 1].n) = {e}
  <2>1. o + 1 + 1 = o + 2
    BY <1>1
  <2>2. Ahead(w, o + 1, l) = {e}
    BY <1>1, <1>2, OneLabel
  <2>3. w[o + 1].op = "EVAL" /\ w[o + 1].n = n
    <3>1. w[o + 1] = Instr("EVAL", n)
      BY <1>2 DEF Eval
    <3> QED
      BY <3>1, FieldsOf
  <2>4. w[o + 1 + 1].op = "TJUMP_FW_W" /\ w[o + 1 + 1].n = l
    <3>1. w[o + 2] = Instr("TJUMP_FW_W", l)
      BY <1>2
    <3>2. w[o + 1 + 1] = Instr("TJUMP_FW_W", l)
      BY <2>1, <3>1
    <3> QED
      BY <3>2, FieldsOf
  <2>5. Head(r0).kind = "if" /\ Head(r0).n = n
    BY <1>5, Kinds
  <2> QED
    BY <1>5, <2>2, <2>3, <2>4, <2>5 DEF Wants
<1>7. /\ Decide(Head(r0), TRUE) \o Tail(r0) = <<t>> \o k
      /\ Decide(Head(r0), FALSE) \o Tail(r0) = k
  <2>1. Decide(If(n, t), TRUE) = <<t>> /\ Decide(If(n, t), FALSE) = <<>>
    BY Decisions
  <2> QED
    BY <1>1, <1>5, <2>1, EmptyBefore
<1>8. w[e].op = "LABEL"
  BY <1>2 DEF Instr
<1> DEFINE G == Ga \cup Y \cup {<<o + 1, r0>>}
<1>9. o + 1 + 2 = o + 3 /\ o + Len(c) + 1 = e + 1
  BY <1>1, <1>2
<1> HIDE DEF r0, X, Y, e
<1>10. Within(w, G, X)
  <2> SUFFICES ASSUME NEW p, NEW r, <<p, r>> \in G PROVE Advances(w, p, r, G \cup X)
    BY DEF Within
  <2>1. CASE <<p, r>> \in Ga
    BY <1>4, <2>1, WithinMore
  <2>2. CASE <<p, r>> \in Y
    <3>1. p = e /\ r \in K
      BY <2>2, ExitIn DEF Y
    <3>2. <<e + 1, r>> \in X /\ (~ Unfolded(r) => <<e, Unfold(r)>> \in Y)
      BY <1>1, <3>1, ExitIn DEF X, Y, Unfolds
    <3> QED
      BY <1>8, <3>1, <3>2, PassLabel
  <2>3. CASE <<p, r>> = <<o + 1, r0>>
    <3>1. p = o + 1 /\ r = r0
      BY <2>3
    <3>2. <<p + 2, Decide(Head(r), TRUE) \o Tail(r)>> \in G \cup X
      BY <1>4, <1>7, <1>9, <3>1
    <3>3. <<e, Decide(Head(r), FALSE) \o Tail(r)>> \in G \cup X
      <4>1. <<e, k>> \in Y
        BY <1>1, ExitIn DEF Y
      <4> QED
        BY <1>7, <3>1, <4>1
    <3> HIDE DEF G
    <3> QED
      BY <1>6, <3>1, <3>2, <3>3, PassEval
  <2> QED
    BY <2>1, <2>2, <2>3
<1> QED
  BY <1>9, <1>10 DEF Reaches, r0, X

LEMMA SmallCodes ==
  ASSUME NEW x \in Instructions, NEW y \in Instructions, NEW z \in Instructions
  PROVE  /\ <<x>> \in Codes /\ <<x, y>> \in Codes /\ <<x, y, z>> \in Codes
         /\ Len(<<x>>) = 1 /\ Len(<<x, y>>) = 2 /\ Len(<<x, y, z>>) = 3
BY DEF Codes

LEMMA PlacedTwo ==
  ASSUME NEW x, NEW y, NEW w, NEW o \in Nat, Placed(<<x, y>>, w, o)
  PROVE  /\ o + 1 \in 1 .. Len(w) /\ w[o + 1] = x
         /\ o + 2 \in 1 .. Len(w) /\ w[o + 2] = y
<1>1. Len(<<x, y>>) = 2 /\ <<x, y>>[1] = x /\ <<x, y>>[2] = y
  OBVIOUS
<1> QED
  BY <1>1 DEF Placed

LEMMA PlacedThree ==
  ASSUME NEW x, NEW y, NEW z, NEW w, NEW o \in Nat, Placed(<<x, y, z>>, w, o)
  PROVE  /\ o + 1 \in 1 .. Len(w) /\ w[o + 1] = x
         /\ o + 2 \in 1 .. Len(w) /\ w[o + 2] = y
         /\ o + 3 \in 1 .. Len(w) /\ w[o + 3] = z
<1>1. Len(<<x, y, z>>) = 3 /\ <<x, y, z>>[1] = x /\ <<x, y, z>>[2] = y /\ <<x, y, z>>[3] = z
  OBVIOUS
<1> QED
  BY <1>1 DEF Placed

(* Where the parts of the code of an if with an else, and of a while, stand. *)
IfElseAt(w, o, a, b, n, l, m, q) ==
  /\ m \in Nat /\ q \in Nat /\ Len(start_if_else(n, a, b, l)) = m + q + 5
  /\ w[o + 1] = Eval(n) /\ w[o + 2] = Instr("TJUMP_FW_W", l)
  /\ Placed(a, w, o + 2)
  /\ o + m + 3 \in 1 .. Len(w) /\ w[o + m + 3] = Instr("JUMP_FW_W", l + 1)
  /\ o + m + 4 \in 1 .. Len(w) /\ w[o + m + 4] = Instr("LABEL", l)
  /\ Placed(b, w, o + m + 4)
  /\ o + m + q + 5 \in 1 .. Len(w) /\ w[o + m + q + 5] = Instr("LABEL", l + 1)

LEMMA IfElsePlaces ==
  ASSUME NEW a \in Codes, NEW b \in Codes, NEW n \in Nat, NEW l \in Nat,
         NEW w \in Codes, NEW o \in Nat, Placed(start_if_else(n, a, b, l), w, o)
  PROVE  IfElseAt(w, o, a, b, n, l, Len(a), Len(b))
<1> DEFINE m == Len(a)
           q == Len(b)
           c == start_if_else(n, a, b, l)
           P == <<Eval(n), Instr("TJUMP_FW_W", l)>>
           Q == <<Instr("JUMP_FW_W", l + 1), Instr("LABEL", l)>>
           Z == <<Instr("LABEL", l + 1)>>
<1>1. /\ P \in Codes /\ Q \in Codes /\ Z \in Codes
      /\ Len(P) = 2 /\ Len(Q) = 2 /\ Len(Z) = 1
  <2>1. /\ Eval(n) \in Instructions /\ Instr("TJUMP_FW_W", l) \in Instructions
        /\ Instr("JUMP_FW_W", l + 1) \in Instructions /\ Instr("LABEL", l) \in Instructions
        /\ Instr("LABEL", l + 1) \in Instructions
    BY InstrFields DEF Eval, Jumps
  <2> QED
    BY <2>1, SmallCodes
<1>2. c = (((P \o a) \o Q) \o b) \o Z
  BY DEF start_if_else
<1> HIDE DEF c, P, Q, Z
<1>3. /\ P \o a \in Codes /\ (P \o a) \o Q \in Codes /\ ((P \o a) \o Q) \o b \in Codes
      /\ Len(P \o a) = 2 + m /\ Len((P \o a) \o Q) = 4 + m
      /\ Len(((P \o a) \o Q) \o b) = 4 + m + q
      /\ Len(c) = m + q + 5 /\ m \in Nat /\ q \in Nat
  <2>1. P \o a \in Codes /\ Len(P \o a) = 2 + m /\ m \in Nat
    <3>1. P \o a \in Codes /\ Len(P \o a) = Len(P) + Len(a) /\ Len(a) \in Nat
      BY <1>1, LenJoined
    <3> QED
      BY <1>1, <3>1
  <2>2. (P \o a) \o Q \in Codes /\ Len((P \o a) \o Q) = 4 + m
    <3>1. (P \o a) \o Q \in Codes /\ Len((P \o a) \o Q) = Len(P \o a) + Len(Q)
      BY <1>1, <2>1, LenJoined
    <3> QED
      BY <1>1, <2>1, <3>1
  <2>3. ((P \o a) \o Q) \o b \in Codes /\ Len(((P \o a) \o Q) \o b) = 4 + m + q /\ q \in Nat
    BY <2>2, LenJoined
  <2>4. Len(c) = m + q + 5
    <3>1. Len(c) = Len(((P \o a) \o Q) \o b) + Len(Z)
      BY <1>1, <1>2, <2>3, LenJoined
    <3> QED
      BY <1>1, <2>1, <2>3, <3>1
  <2> QED
    BY <2>1, <2>2, <2>3, <2>4
<1>4. Placed(c, w, o)
  BY DEF c
<1>5. Placed(((P \o a) \o Q) \o b, w, o) /\ Placed(Z, w, o + (4 + m + q))
  BY <1>1, <1>2, <1>3, <1>4, PlacedParts
<1>6. Placed((P \o a) \o Q, w, o) /\ Placed(b, w, o + (4 + m))
  BY <1>3, <1>5, PlacedParts
<1>7. Placed(P \o a, w, o) /\ Placed(Q, w, o + (2 + m))
  BY <1>1, <1>3, <1>6, PlacedParts
<1>8. Placed(P, w, o) /\ Placed(a, w, o + 2)
  BY <1>1, <1>7, PlacedParts
<1>9. /\ o + (4 + m + q) + 1 = o + m + q + 5 /\ o + (4 + m) = o + m + 4
      /\ o + (2 + m) + 1 = o + m + 3 /\ o + (2 + m) + 2 = o + m + 4
      /\ o + (2 + m) \in Nat /\ o + (4 + m + q) \in Nat
  BY <1>3
<1>10. /\ o + (2 + m) + 1 \in 1 .. Len(w) /\ w[o + (2 + m) + 1] = Instr("JUMP_FW_W", l + 1)
       /\ o + (2 + m) + 2 \in 1 .. Len(w) /\ w[o + (2 + m) + 2] = Instr("LABEL", l)
  BY <1>7, <1>9, PlacedTwo DEF Q
<1>11. /\ o + (4 + m + q) + 1 \in 1 .. Len(w)
       /\ w[o + (4 + m + q) + 1] = Instr("LABEL", l + 1)
  BY <1>5, <1>9, PlacedOne DEF Z
<1>12. w[o + 1] = Eval(n) /\ w[o + 2] = Instr("TJUMP_FW_W", l)
  BY <1>8, PlacedTwo DEF P
<1> QED
  BY <1>3, <1>6, <1>8, <1>9, <1>10, <1>11, <1>12 DEF c, IfElseAt

WhileAt(w, o, a, n, l, m) ==
  /\ m \in Nat /\ Len(start_while(n, a, l)) = m + 5
  /\ o + 1 \in 1 .. Len(w) /\ w[o + 1] = Instr("LABEL", l)
  /\ w[o + 2] = Eval(n) /\ w[o + 3] = Instr("TJUMP_FW_W", l + 1)
  /\ Placed(a, w, o + 3)
  /\ o + m + 4 \in 1 .. Len(w) /\ w[o + m + 4] = Instr("JUMP_BW_W", l)
  /\ o + m + 5 \in 1 .. Len(w) /\ w[o + m + 5] = Instr("LABEL", l + 1)

LEMMA WhilePlaces ==
  ASSUME NEW a \in Codes, NEW n \in Nat, NEW l \in Nat,
         NEW w \in Codes, NEW o \in Nat, Placed(start_while(n, a, l), w, o)
  PROVE  WhileAt(w, o, a, n, l, Len(a))
<1> DEFINE m == Len(a)
           c == start_while(n, a, l)
           P == <<Instr("LABEL", l), Eval(n), Instr("TJUMP_FW_W", l + 1)>>
           Q == <<Instr("JUMP_BW_W", l), Instr("LABEL", l + 1)>>
<1>1. P \in Codes /\ Q \in Codes /\ Len(P) = 3 /\ Len(Q) = 2
  <2>1. /\ Eval(n) \in Instructions /\ Instr("TJUMP_FW_W", l + 1) \in Instructions
        /\ Instr("JUMP_BW_W", l) \in Instructions /\ Instr("LABEL", l) \in Instructions
        /\ Instr("LABEL", l + 1) \in Instructions
    BY InstrFields DEF Eval, Jumps
  <2> QED
    BY <2>1, SmallCodes
<1>2. c = (P \o a) \o Q
  BY DEF start_while
<1> HIDE DEF c, P, Q
<1>3. /\ P \o a \in Codes /\ Len(P \o a) = 3 + m /\ Len(c) = m + 5 /\ m \in Nat
  <2>1. P \o a \in Codes /\ Len(P \o a) = 3 + m /\ m \in Nat
    BY <1>1, LenJoined
  <2>2. Len(c) = Len(P \o a) + Len(Q)
    BY <1>1, <1>2, <2>1, LenJoined
  <2> QED
    BY <1>1, <2>1, <2>2
<1>4. Placed(c, w, o)
  BY DEF c
<1>5. Placed(P \o a, w, o) /\ Placed(Q, w, o + (3 + m))
  BY <1>1, <1>2, <1>3, <1>4, PlacedParts
<1>6. Placed(P, w, o) /\ Placed(a, w, o + 3)
  BY <1>1, <1>5, PlacedParts
<1>7. /\ o + (3 + m) + 1 = o + m + 4 /\ o + (3 + m) + 2 = o + m + 5 /\ o + (3 + m) \in Nat
  BY <1>3
<1>8. /\ o + (3 + m) + 1 \in 1 .. Len(w) /\ w[o + (3 + m) + 1] = Instr("JUMP_BW_W", l)
      /\ o + (3 + m) + 2 \in 1 .. Len(w) /\ w[o + (3 + m) + 2] = Instr("LABEL", l + 1)
  BY <1>5, <1>7, PlacedTwo DEF Q
<1>9. /\ o + 1 \in 1 .. Len(w) /\ w[o + 1] = Instr("LABEL", l)
      /\ w[o + 2] = Eval(n) /\ w[o + 3] = Instr("TJUMP_FW_W", l + 1)
  BY <1>6, PlacedThree DEF P
<1> QED
  BY <1>3, <1>6, <1>7, <1>8, <1>9 DEF c, WhileAt

LEMMA IfElseImplements ==
  ASSUME NEW a \in Codes, NEW s, Implements(a, s), NEW b \in Codes, NEW t, Implements(b, t),
         NEW n \in Nat, NEW l \in Nat
  PROVE  Implements(start_if_else(n, a, b, l), IfElse(n, s, t))
<1> DEFINE c == start_if_else(n, a, b, l)
           m == Len(a)
           q == Len(b)
<1> SUFFICES ASSUME NEW w, NEW o, NEW K, NEW S, NEW k, Context(c, w, o, K, S, k)
             PROVE  Reaches(w, o + 1, <<IfElse(n, s, t)>> \o k, o + Len(c) + 1, K)
  BY ImplementsIs
<1> DEFINE r0 == <<IfElse(n, s, t)>> \o k
           over == o + m + 3        \* the jump over the else part
           other == o + m + 4       \* its label
           e == o + m + q + 5       \* the label at the end
           X == Exits(e + 1, K)
           Y == Exits(e, K)
           J == Exits(over, K)
<1>1. /\ w \in Codes /\ o \in Nat /\ k \in Seq(S) /\ k \in K /\ Unfolds(K) /\ UniqueIn(w)
      /\ Placed(c, w, o)
  BY DEF Context
<1>2. /\ m \in Nat /\ q \in Nat /\ Len(c) = m + q + 5
      /\ w[o + 1] = Eval(n) /\ w[o + 2] = Instr("TJUMP_FW_W", l)
      /\ Placed(a, w, o + 2)
      /\ over \in 1 .. Len(w) /\ w[over] = Instr("JUMP_FW_W", l + 1)
      /\ other \in 1 .. Len(w) /\ w[other] = Instr("LABEL", l)
      /\ Placed(b, w, other)
      /\ e \in 1 .. Len(w) /\ w[e] = Instr("LABEL", l + 1)
  <2>1. Placed(start_if_else(n, a, b, l), w, o)
    BY <1>1
  <2> HIDE DEF c
  <2>2. IfElseAt(w, o, a, b, n, l, Len(a), Len(b))
    BY <1>1, <2>1, IfElsePlaces
  <2> QED
    BY <2>2 DEF IfElseAt, c
<1> HIDE DEF c
<1>3. Reaches(w, o + 3, <<s>> \o k, over, K)
  <2>1. Context(a, w, o + 2, K, S, k)
    BY <1>1, <1>2 DEF Context
  <2>2. o + 2 + 1 = o + 3 /\ o + 2 + m + 1 = over
    BY <1>1, <1>2
  <2> QED
    BY <2>1, <2>2, ImplementsIn
<1>4. Reaches(w, other + 1, <<t>> \o k, e, K)
  <2>1. Context(b, w, other, K, S, k)
    BY <1>1, <1>2 DEF Context
  <2>2. other + q + 1 = e
    BY <1>1, <1>2
  <2> QED
    BY <2>1, <2>2, ImplementsIn
<1>5. PICK Ga : Within(w, Ga, J) /\ <<o + 3, <<s>> \o k>> \in Ga \cup J
  BY <1>3 DEF Reaches
<1>6. PICK Gb : Within(w, Gb, Y) /\ <<other + 1, <<t>> \o k>> \in Gb \cup Y
  BY <1>4 DEF Reaches
<1>7. /\ r0 # <<>> /\ Head(r0) = IfElse(n, s, t) /\ Tail(r0) = k
  BY <1>1, FirstOf
<1> HIDE DEF r0
<1>8. /\ w[o + 1].op = "EVAL" /\ w[o + 1 + 1].op = "TJUMP_FW_W"
      /\ Wants(r0, {"if", "ifelse", "while"}, w[o + 1].n)
      /\ Ahead(w, o + 1, w[o + 1 + 1].n) = {other}
  <2>1. o + 1 + 1 = o + 2 /\ o + 1 < other /\ o + 1 \in Nat
    BY <1>1, <1>2
  <2>2. Ahead(w, o + 1, l) = {other}
    BY <1>1, <1>2, <2>1, OneLabel
  <2>3. w[o + 1].op = "EVAL" /\ w[o + 1].n = n
    <3>1. w[o + 1] = Instr("EVAL", n)
      BY <1>2 DEF Eval
    <3> QED
      BY <3>1, FieldsOf
  <2>4. w[o + 1 + 1].op = "TJUMP_FW_W" /\ w[o + 1 + 1].n = l
    <3>1. w[o + 2] = Instr("TJUMP_FW_W", l)
      BY <1>2
    <3>2. w[o + 1 + 1] = Instr("TJUMP_FW_W", l)
      BY <2>1, <3>1
    <3> QED
      BY <3>2, FieldsOf
  <2>5. Head(r0).kind = "ifelse" /\ Head(r0).n = n
    BY <1>7, Kinds
  <2> QED
    BY <1>7, <2>2, <2>3, <2>4, <2>5 DEF Wants
<1>9. /\ Decide(Head(r0), TRUE) \o Tail(r0) = <<s>> \o k
      /\ Decide(Head(r0), FALSE) \o Tail(r0) = <<t>> \o k
  <2>1. Decide(Head(r0), TRUE) = <<s>> /\ Decide(Head(r0), FALSE) = <<t>>
    <3>1. Head(r0).kind = "ifelse" /\ Head(r0).then = s /\ Head(r0).else = t
      BY <1>7 DEF IfElse
    <3> QED
      BY <3>1, ZenonT(60) DEF Decide
  <2> QED
    BY <1>7, <2>1
<1>10. w[over].op = "JUMP_FW_W" /\ Ahead(w, over, w[over].n) = {e}
  <2>1. over \in Nat /\ over < e /\ l + 1 \in Nat
    BY <1>1, <1>2
  <2>2. Ahead(w, over, l + 1) = {e}
    BY <1>1, <1>2, <2>1, OneLabel
  <2>3. w[over] = Instr("JUMP_FW_W", l + 1)
    BY <1>2
  <2> HIDE DEF over, e
  <2> QED
    BY <2>2, <2>3, FieldsOf
<1>11. w[other].op = "LABEL" /\ w[e].op = "LABEL"
  BY <1>2 DEF Instr
<1> DEFINE M == At(other + 1, Gb \cup Y)      \* what may remain at the else label
           L == Exits(other, M)
           G == Ga \cup Gb \cup J \cup L \cup Y \cup {<<o + 1, r0>>}
<1>12. o + 1 + 2 = o + 3 /\ o + Len(c) + 1 = e + 1
  BY <1>1, <1>2
<1>13. \A p, r : <<p, r>> \in Gb \cup Y /\ ~ Unfolded(r) => <<p, Unfold(r)>> \in Gb \cup Y
  BY <1>1, <1>6, UnfoldedToo
<1> HIDE DEF X, Y, J, e, over, other
<1>14. \A p, r : <<p, r>> \in L <=> p = other /\ <<other + 1, r>> \in Gb \cup Y
  <2>1. \A r : r \in M <=> <<other + 1, r>> \in Gb \cup Y
    BY AtIs
  <2> HIDE DEF M
  <2>2. \A p, r : <<p, r>> \in L <=> p = other /\ r \in M
    BY ExitIn
  <2> QED
    BY <2>1, <2>2
<1>15. /\ \A p, r : <<p, r>> \in Y <=> p = e /\ r \in K
       /\ \A p, r : <<p, r>> \in J <=> p = over /\ r \in K
       /\ \A p, r : <<p, r>> \in X <=> p = e + 1 /\ r \in K
  BY ExitIn DEF X, Y, J
<1> HIDE DEF L, M
<1>16. Within(w, G, X)
  <2> SUFFICES ASSUME NEW p, NEW r, <<p, r>> \in G PROVE Advances(w, p, r, G \cup X)
    BY DEF Within
  <2>1. CASE <<p, r>> \in Ga
    BY <1>5, <2>1, WithinMore
  <2>2. CASE <<p, r>> \in Gb
    BY <1>6, <2>2, WithinMore
  <2>3. CASE <<p, r>> \in J
    <3>1. p = over /\ r \in K
      BY <1>15, <2>3
    <3>2. <<e, r>> \in Y /\ (~ Unfolded(r) => <<over, Unfold(r)>> \in J)
      BY <1>1, <1>15, <3>1 DEF Unfolds
    <3> QED
      BY <1>10, <3>1, <3>2, PassJump
  <2>4. CASE <<p, r>> \in L
    <3>1. p = other /\ <<other + 1, r>> \in Gb \cup Y
      BY <1>14, <2>4
    <3>2. ~ Unfolded(r) => <<other, Unfold(r)>> \in L
      BY <1>13, <1>14, <3>1
    <3> QED
      BY <1>11, <3>1, <3>2, PassLabel
  <2>5. CASE <<p, r>> \in Y
    <3>1. p = e /\ r \in K
      BY <1>15, <2>5
    <3>2. <<e + 1, r>> \in X /\ (~ Unfolded(r) => <<e, Unfold(r)>> \in Y)
      BY <1>1, <1>15, <3>1 DEF Unfolds
    <3> QED
      BY <1>11, <3>1, <3>2, PassLabel
  <2>6. CASE <<p, r>> = <<o + 1, r0>>
    <3>1. p = o + 1 /\ r = r0
      BY <2>6
    <3>2. <<p + 2, Decide(Head(r), TRUE) \o Tail(r)>> \in G \cup X
      BY <1>5, <1>9, <1>12, <3>1
    <3>3. <<other, Decide(Head(r), FALSE) \o Tail(r)>> \in G \cup X
      BY <1>6, <1>9, <1>14, <3>1
    <3> HIDE DEF G
    <3> QED
      BY <1>8, <3>1, <3>2, <3>3, PassEval
  <2> QED
    BY <2>1, <2>2, <2>3, <2>4, <2>5, <2>6
<1> QED
  BY <1>12, <1>16 DEF Reaches, r0, X

LEMMA WhileImplements ==
  ASSUME NEW a \in Codes, NEW t, Implements(a, t), NEW n \in Nat, NEW l \in Nat
  PROVE  Implements(start_while(n, a, l), While(n, t))
<1> DEFINE c == start_while(n, a, l)
           m == Len(a)
<1> SUFFICES ASSUME NEW w, NEW o, NEW K, NEW S, NEW k, Context(c, w, o, K, S, k)
             PROVE  Reaches(w, o + 1, <<While(n, t)>> \o k, o + Len(c) + 1, K)
  BY ImplementsIs
<1> DEFINE r0 == <<While(n, t)>> \o k
           back == o + m + 4        \* the jump back to the condition
           e == o + m + 5           \* the label at the end
           X == Exits(e + 1, K)
           Y == Exits(e, K)
           J == Exits(back, {r0})
<1>1. /\ w \in Codes /\ o \in Nat /\ k \in Seq(S) /\ k \in K /\ Unfolds(K) /\ UniqueIn(w)
      /\ Placed(c, w, o)
  BY DEF Context
<1>2. /\ m \in Nat /\ Len(c) = m + 5
      /\ o + 1 \in 1 .. Len(w) /\ w[o + 1] = Instr("LABEL", l)
      /\ w[o + 2] = Eval(n) /\ w[o + 3] = Instr("TJUMP_FW_W", l + 1)
      /\ Placed(a, w, o + 3)
      /\ back \in 1 .. Len(w) /\ w[back] = Instr("JUMP_BW_W", l)
      /\ e \in 1 .. Len(w) /\ w[e] = Instr("LABEL", l + 1)
  <2>1. Placed(start_while(n, a, l), w, o)
    BY <1>1
  <2> HIDE DEF c
  <2>2. WhileAt(w, o, a, n, l, Len(a))
    BY <1>1, <2>1, WhilePlaces
  <2> QED
    BY <2>2 DEF WhileAt, c
<1> HIDE DEF c
<1>3. /\ r0 # <<>> /\ Head(r0) = While(n, t) /\ Tail(r0) = k
      /\ r0 \in Seq(S \cup {While(n, t)})
  BY <1>1, FirstOf
<1>4. Unfolded(r0)
  BY <1>3, Kinds DEF Unfolded
<1>5. <<t, While(n, t)>> \o k = <<t>> \o r0
  BY <1>1, TwoBefore
<1> HIDE DEF r0
<1>6. Reaches(w, o + 4, <<t>> \o r0, back, {r0})
  <2>1. Context(a, w, o + 3, {r0}, S \cup {While(n, t)}, r0)
    BY <1>1, <1>2, <1>3, <1>4 DEF Context, Unfolds
  <2>2. o + 3 + 1 = o + 4 /\ o + 3 + m + 1 = back
    BY <1>1, <1>2
  <2> QED
    BY <2>1, <2>2, ImplementsIn
<1>7. PICK Ga : Within(w, Ga, J) /\ <<o + 4, <<t>> \o r0>> \in Ga \cup J
  BY <1>6 DEF Reaches
<1>8. /\ w[o + 2].op = "EVAL" /\ w[o + 2 + 1].op = "TJUMP_FW_W"
      /\ Wants(r0, {"if", "ifelse", "while"}, w[o + 2].n)
      /\ Ahead(w, o + 2, w[o + 2 + 1].n) = {e}
  <2>1. o + 2 + 1 = o + 3 /\ o + 2 < e /\ o + 2 \in Nat /\ l + 1 \in Nat
    BY <1>1, <1>2
  <2>2. Ahead(w, o + 2, l + 1) = {e}
    BY <1>1, <1>2, <2>1, OneLabel
  <2>3. w[o + 2].op = "EVAL" /\ w[o + 2].n = n
    <3>1. w[o + 2] = Instr("EVAL", n)
      BY <1>2 DEF Eval
    <3> QED
      BY <3>1, FieldsOf
  <2>4. w[o + 2 + 1].op = "TJUMP_FW_W" /\ w[o + 2 + 1].n = l + 1
    <3>1. w[o + 3] = Instr("TJUMP_FW_W", l + 1)
      BY <1>2
    <3>2. w[o + 2 + 1] = Instr("TJUMP_FW_W", l + 1)
      BY <2>1, <3>1
    <3> QED
      BY <3>2, FieldsOf
  <2>5. Head(r0).kind = "while" /\ Head(r0).n = n
    BY <1>3, Kinds
  <2> QED
    BY <1>3, <2>2, <2>3, <2>4, <2>5 DEF Wants
<1>9. /\ Decide(Head(r0), TRUE) \o Tail(r0) = <<t>> \o r0
      /\ Decide(Head(r0), FALSE) \o Tail(r0) = k
  <2>1. Decide(While(n, t), TRUE) = <<t, While(n, t)>> /\ Decide(While(n, t), FALSE) = <<>>
    BY Decisions
  <2> QED
    BY <1>1, <1>3, <1>5, <2>1, EmptyBefore
<1>10. w[back].op = "JUMP_BW_W" /\ Behind(w, back, w[back].n) = {o + 1}
  <2>1. back > o + 1
    BY <1>1, <1>2
  <2>2. Behind(w, back, l) = {o + 1}
    BY <1>1, <1>2, <2>1, OneLabel
  <2>3. w[back] = Instr("JUMP_BW_W", l)
    BY <1>2
  <2> HIDE DEF back, e
  <2> QED
    BY <2>2, <2>3, FieldsOf
<1>11. w[o + 1].op = "LABEL" /\ w[e].op = "LABEL"
  BY <1>2 DEF Instr
<1> DEFINE G == Ga \cup J \cup Y \cup {<<o + 1, r0>>, <<o + 2, r0>>}
<1>12. o + 2 + 2 = o + 4 /\ o + 1 + 1 = o + 2 /\ o + Len(c) + 1 = e + 1
  BY <1>1, <1>2
<1>13. /\ \A p, r : <<p, r>> \in Y <=> p = e /\ r \in K
       /\ \A p, r : <<p, r>> \in J <=> p = back /\ r = r0
       /\ \A p, r : <<p, r>> \in X <=> p = e + 1 /\ r \in K
  BY ExitIn
<1> HIDE DEF X, Y, J, e, back
<1>14. Within(w, G, X)
  <2> SUFFICES ASSUME NEW p, NEW r, <<p, r>> \in G PROVE Advances(w, p, r, G \cup X)
    BY DEF Within
  <2>1. CASE <<p, r>> \in Ga
    BY <1>7, <2>1, WithinMore
  <2>2. CASE <<p, r>> \in J
    <3>1. p = back /\ r = r0
      BY <1>13, <2>2
    <3> QED
      BY <1>4, <1>10, <3>1, PassJump
  <2>3. CASE <<p, r>> \in Y
    <3>1. p = e /\ r \in K
      BY <1>13, <2>3
    <3>2. <<e + 1, r>> \in X /\ (~ Unfolded(r) => <<e, Unfold(r)>> \in Y)
      BY <1>1, <1>13, <3>1 DEF Unfolds
    <3> QED
      BY <1>11, <3>1, <3>2, PassLabel
  <2>4. CASE <<p, r>> = <<o + 1, r0>>
    BY <1>4, <1>11, <1>12, <2>4, PassLabel
  <2>5. CASE <<p, r>> = <<o + 2, r0>>
    <3>1. p = o + 2 /\ r = r0
      BY <2>5
    <3>2. <<p + 2, Decide(Head(r), TRUE) \o Tail(r)>> \in G \cup X
      BY <1>7, <1>9, <1>12, <3>1
    <3>3. <<e, Decide(Head(r), FALSE) \o Tail(r)>> \in G \cup X
      BY <1>1, <1>9, <1>13, <3>1
    <3> HIDE DEF G
    <3> QED
      BY <1>8, <3>1, <3>2, <3>3, PassEval
  <2> QED
    BY <2>1, <2>2, <2>3, <2>4, <2>5
<1> QED
  BY <1>12, <1>14 DEF Reaches, r0, X

(* The code of a function, called with its body to execute.                *)
Returning(c, t) ==
  \E code \in Codes : c = Append(code, Instr("RETURN_ES", 0)) /\ Implements(code, t)

LEMMA FunctionRuns ==
  ASSUME NEW c \in Codes, UniqueIn(c), NEW t, Returning(c, t)
  PROVE  \E G : Within(c, G, {}) /\ <<1, <<t>>>> \in G
<1>1. PICK a \in Codes : c = Append(a, Instr("RETURN_ES", 0)) /\ Implements(a, t)
  BY DEF Returning
<1> DEFINE e == Len(a) + 1
           K == {<<>>}
           X == Exits(e, K)
<1>2. Instr("RETURN_ES", 0) \in Instructions /\ Instr("RETURN_ES", 0).op = "RETURN_ES"
  BY InstrFields
<1>3. /\ Len(a) \in Nat /\ Len(c) = Len(a) + 1
      /\ \A i \in 1 .. Len(a) : c[i] = a[i]
      /\ c[e] = Instr("RETURN_ES", 0)
  BY <1>1, <1>2, AppendProperties, LenProperties DEF Codes
<1>4. Placed(a, c, 0)
  BY <1>3 DEF Placed
<1>5. Unfolded(<<>>)
  BY DEF Unfolded
<1>6. /\ 0 \in Nat /\ Unfolds(K) /\ <<>> \in K /\ <<>> \in Seq({})
  BY <1>5, EmptySeq DEF Unfolds
<1>7. 0 + 1 = 1 /\ 0 + Len(a) + 1 = e /\ <<t>> \o <<>> = <<t>>
  BY <1>3
<1>8. Reaches(c, 1, <<t>>, e, K)
  <2>1. Context(a, c, 0, K, {}, <<>>)
    BY <1>4, <1>6 DEF Context
  <2>2. Reaches(c, 0 + 1, <<t>> \o <<>>, 0 + Len(a) + 1, K)
    BY <1>1, <2>1, ImplementsIn
  <2> QED
    BY <1>7, <2>2
<1>9. PICK G : Within(c, G, X) /\ <<1, <<t>>>> \in G \cup X
  BY <1>8 DEF Reaches
<1>10. c[e].op = "RETURN_ES"
  BY <1>2, <1>3
<1> DEFINE H == G \cup X
<1>11. \A p, r : <<p, r>> \in X <=> p = e /\ r \in K
  BY ExitIn
<1> HIDE DEF e, X
<1>12. Within(c, H, {})
  <2> SUFFICES ASSUME NEW p, NEW r, <<p, r>> \in H PROVE Advances(c, p, r, H)
    BY DEF Within
  <2>1. CASE <<p, r>> \in G
    BY <1>9, <2>1, WithinMore
  <2>2. CASE <<p, r>> \in X
    <3>1. p = e /\ r = <<>>
      BY <1>11, <2>2
    <3> QED
      BY <1>5, <1>10, <3>1 DEF Advances, Executes
  <2> QED
    BY <2>1, <2>2
<1> QED
  BY <1>9, <1>12

-----------------------------------------------------------------------------
(* The invariant of the machine: the fragments on the parser stack and the  *)
(* functions implement their trees, and a function that runs is within its *)
(* code.  That the machine has not deviated is not inductive: what it does *)
(* next depends on how the code in front of it and the statements that     *)
(* remain belong together.                                                 *)

Built ==
  /\ \A i \in DOMAIN stack : Implements(stack[i].code, stack[i].tree)
  /\ \A i \in DOMAIN functions : Returning(functions[i].code, functions[i].tree)

OnCourse ==
  /\ f # 0 => status = "accepted"
  /\ f # 0 /\ pc # 0 => \E G : Within(Code, G, {}) /\ <<pc, rest>> \in G
  /\ ~ deviates

FollowInv == Inv /\ Built /\ OnCourse

LEMMA ReduceBuilt ==
  ASSUME StInv, Built, NEW n \in Nat, n <= Len(stack), NEW code, NEW tree,
         Reduce(n, code, tree), Implements(code, tree)
  PROVE  Built'
<1> DEFINE e == [code |-> code, tree |-> tree]
           m == Len(stack) - n
           cut == SubSeq(stack, 1, m)
<1>1. /\ stack' = Append(cut, e) /\ functions' = functions
      /\ e.code = code /\ e.tree = tree
  BY DEF Reduce
<1> HIDE DEF e
<1>2. IsSequence(stack) /\ Len(stack) \in Nat
  BY SequenceDomain DEF StInv, Good
<1>3. m \in Nat /\ m <= Len(stack)
  BY <1>2
<1> HIDE DEF m
<1>4. /\ IsSequence(cut)
      /\ \A i \in DOMAIN cut : i \in DOMAIN stack /\ cut[i] = stack[i]
  BY <1>2, <1>3, CutDomain
<1> HIDE DEF cut
<1>5. /\ \A i \in DOMAIN cut : Append(cut, e)[i] = cut[i]
      /\ Append(cut, e)[Len(cut) + 1] = e
      /\ \A i \in DOMAIN Append(cut, e) : i \in DOMAIN cut \/ i = Len(cut) + 1
  BY <1>4, AppendDomain
<1> HIDE DEF Built
<1>6. \A i \in DOMAIN stack' : Implements(stack'[i].code, stack'[i].tree)
  BY <1>1, <1>4, <1>5 DEF Built
<1> QED
  BY <1>1, <1>6 DEF Built

LEMMA TopBuilt ==
  ASSUME StInv, Built, stack # <<>>
  PROVE  /\ Top.code \in Codes /\ Implements(Top.code, Top.tree) /\ 1 <= Len(stack)
         /\ Len(stack) > 1 =>
              Second.code \in Codes /\ Implements(Second.code, Second.tree) /\ 2 <= Len(stack)
         /\ Len(stack) \in Nat
<1>1. /\ Len(stack) \in Nat /\ Len(stack) >= 1 /\ Top.code \in Codes
      /\ Len(stack) > 1 => Second.code \in Codes
  BY TopFragments DEF WellFormed
<1>2. DOMAIN stack = 1 .. Len(stack)
  BY SequenceDomain DEF StInv, Good
<1>3. \A L \in Nat : L >= 1 => L \in 1 .. L /\ (L > 1 => L - 1 \in 1 .. L /\ 2 <= L)
  OBVIOUS
<1>4. Implements(Top.code, Top.tree)
  BY <1>1, <1>2, <1>3 DEF Top, Built
<1>5. Len(stack) > 1 => Implements(Second.code, Second.tree)
  BY <1>1, <1>2, <1>3 DEF Second, Built
<1> QED
  BY <1>1, <1>3, <1>4, <1>5

LEMMA StatementBuilt ==
  ASSUME StInv, Built,
         \/ EmptyStatement \/ BasicStatement
         \/ IfStatement \/ IfElseStatement \/ WhileStatement \/ CompoundStatement
  PROVE  Built'
<1>1. sources \in Nat /\ label_counter \in Nat /\ Len(stack) \in Nat /\ 0 \in Nat
  BY SequenceDomain DEF StInv, Good
<1>2. CASE EmptyStatement
  <2>1. Reduce(0, <<>>, Empty)
    BY <1>2 DEF EmptyStatement
  <2> QED
    BY <1>1, <2>1, EmptyImplements, ReduceBuilt
<1>3. CASE BasicStatement
  <2>1. Reduce(0, <<Exec(sources)>>, Basic(sources))
    BY <1>3 DEF BasicStatement
  <2>2. Implements(<<Exec(sources)>>, Basic(sources))
    BY BasicImplements
  <2> QED
    BY <1>1, <2>1, <2>2, ReduceBuilt
<1>4. CASE IfStatement
  <2>1. /\ stack # <<>>
        /\ Reduce(1, start_if(sources, Top.code, label_counter), If(sources, Top.tree))
    BY <1>4 DEF IfStatement
  <2>2. Top.code \in Codes /\ Implements(Top.code, Top.tree) /\ 1 <= Len(stack)
    BY <2>1, TopBuilt
  <2>3. Implements(start_if(sources, Top.code, label_counter), If(sources, Top.tree))
    BY <1>1, <2>2, IfImplements
  <2> QED
    BY <2>1, <2>2, <2>3, ReduceBuilt
<1>5. CASE IfElseStatement
  <2>1. /\ Len(stack) > 1
        /\ Reduce(2, start_if_else(sources, Second.code, Top.code, label_counter),
                  IfElse(sources, Second.tree, Top.tree))
    BY <1>5 DEF IfElseStatement
  <2>2. stack # <<>>
    BY <2>1, EmptySeq
  <2>3. /\ Top.code \in Codes /\ Implements(Top.code, Top.tree) /\ 2 <= Len(stack)
        /\ Second.code \in Codes /\ Implements(Second.code, Second.tree)
    BY <2>1, <2>2, TopBuilt
  <2>4. Implements(start_if_else(sources, Second.code, Top.code, label_counter),
                   IfElse(sources, Second.tree, Top.tree))
    BY <1>1, <2>3, IfElseImplements
  <2> QED
    BY <2>1, <2>3, <2>4, ReduceBuilt
<1>6. CASE WhileStatement
  <2>1. /\ stack # <<>>
        /\ Reduce(1, start_while(sources, Top.code, label_counter), While(sources, Top.tree))
    BY <1>6 DEF WhileStatement
  <2>2. Top.code \in Codes /\ Implements(Top.code, Top.tree) /\ 1 <= Len(stack)
    BY <2>1, TopBuilt
  <2>3. Implements(start_while(sources, Top.code, label_counter), While(sources, Top.tree))
    BY <1>1, <2>2, WhileImplements
  <2> QED
    BY <2>1, <2>2, <2>3, ReduceBuilt
<1>7. CASE CompoundStatement
  <2>1. /\ Len(stack) > 1
        /\ Reduce(2, Second.code \o Top.code, Compound(Second.tree, Top.tree))
    BY <1>7 DEF CompoundStatement
  <2>2. stack # <<>>
    BY <2>1, EmptySeq
  <2>3. /\ Top.code \in Codes /\ Implements(Top.code, Top.tree) /\ 2 <= Len(stack)
        /\ Second.code \in Codes /\ Implements(Second.code, Second.tree)
    BY <2>1, <2>2, TopBuilt
  <2>4. Implements(Second.code \o Top.code, Compound(Second.tree, Top.tree))
    BY <2>3, CompoundImplements
  <2> QED
    BY <2>1, <2>3, <2>4, ReduceBuilt
<1> QED
  BY <1>2, <1>3, <1>4, <1>5, <1>6, <1>7

LEMMA BodyBuilt ==
  ASSUME StInv, Built, BlockBody
  PROVE  Built'
<1> DEFINE e == [code |-> Append(Top.code, Instr("RETURN_ES", 0)), tree |-> Top.tree]
<1>1. /\ functions' = Append(functions, e) /\ stack' = <<>> /\ Len(stack) = 1
      /\ e.code = Append(Top.code, Instr("RETURN_ES", 0)) /\ e.tree = Top.tree
  BY DEF BlockBody
<1>2. stack # <<>>
  <2>1. Len(stack) = 1
    BY <1>1
  <2> QED
    BY <2>1, EmptySeq
<1>3. Returning(e.code, e.tree)
  BY <1>1, <1>2, TopBuilt DEF Returning
<1> HIDE DEF e
<1>4. /\ IsSequence(functions)
      /\ \A i \in DOMAIN functions : Append(functions, e)[i] = functions[i]
      /\ Append(functions, e)[Len(functions) + 1] = e
      /\ \A i \in DOMAIN Append(functions, e) :
           i \in DOMAIN functions \/ i = Len(functions) + 1
  BY AppendDomain DEF StInv, Good
<1>5. DOMAIN <<>> = {}
  OBVIOUS
<1>6. \A i \in DOMAIN functions' : Returning(functions'[i].code, functions'[i].tree)
  BY <1>1, <1>3, <1>4 DEF Built
<1> QED
  BY <1>1, <1>5, <1>6 DEF Built

LEMMA ParsingBuilt ==
  ASSUME StInv, Built, StNext
  PROVE  Built' /\ status = "parsing"
<1>1. status = "parsing"
  BY DEF StNext, EmptyStatement, BasicStatement, IfStatement, IfElseStatement,
         WhileStatement, CompoundStatement, ConditionRejected, BlockBody, Program, Parsing
<1>2. CASE ConditionRejected \/ Program
  BY <1>1, <1>2 DEF ConditionRejected, Program, Built
<1>3. CASE BlockBody
  BY <1>1, <1>3, BodyBuilt
<1>4. CASE \/ EmptyStatement \/ BasicStatement
           \/ IfStatement \/ IfElseStatement \/ WhileStatement \/ CompoundStatement
  BY <1>1, <1>4, StatementBuilt
<1> QED
  BY <1>1, <1>2, <1>3, <1>4 DEF StNext

LEMMA CallOnCourse ==
  ASSUME FollowInv, Call
  PROVE  OnCourse'
<1>1. /\ status' = "accepted" /\ functions' = functions /\ f' \in 1 .. Len(functions)
      /\ pc' = 1 /\ rest' = <<functions[f'].tree>> /\ ~ deviates'
  BY DEF Call, stVars, FollowInv, OnCourse
<1> DEFINE c == functions[f'].code
           t == functions[f'].tree
<1>2. f' \in DOMAIN functions
  BY <1>1, SequenceDomain DEF FollowInv, Inv, StInv, Good
<1>3. c \in Codes /\ UniqueIn(c) /\ Returning(c, t)
  BY <1>2 DEF FollowInv, Inv, StInv, Good, Built, WellFormed
<1> HIDE DEF c, t
<1>4. \E G : Within(c, G, {}) /\ <<1, <<t>>>> \in G
  BY <1>3, FunctionRuns
<1>5. Code' = c
  BY <1>1 DEF Code, c
<1>6. rest' = <<t>>
  BY <1>1 DEF t
<1> QED
  BY <1>1, <1>4, <1>5, <1>6 DEF OnCourse

(* One step of the machine: it goes to a member of G or returns. *)
LEMMA MachineGoes ==
  ASSUME Running, pc \in Nat, NEW G, Advances(Code, pc, rest, G), ~ deviates, MachineStep
  PROVE  (pc' = 0 \/ <<pc', rest'>> \in G) /\ ~ deviates'
<1>1. /\ \A l : ForwardTargets(l) = Ahead(Code, pc, l)
      /\ \A l : BackwardTargets(l) = Behind(Code, pc, l)
      /\ \A kinds, n : Expects(kinds, n) = Wants(rest, kinds, n)
      /\ \A l : 0 \notin ForwardTargets(l) /\ 0 \notin BackwardTargets(l)
  BY DEF ForwardTargets, BackwardTargets, Ahead, Behind, Expects, Wants
<1>2. CASE UnfoldStatement
  BY <1>2 DEF UnfoldStatement, Advances
<1>3. CASE Unfolded(rest)
  <2>1. Executes(Code, pc, rest, G)
    BY <1>3 DEF Advances
  <2>2. CASE ExecInstruction
    <3>1. Wants(rest, {"basic"}, Here.n) /\ <<pc + 1, Tail(rest)>> \in G
      BY <2>1, <2>2 DEF Executes, ExecInstruction, Here
    <3>2. Continue(pc + 1, Tail(rest), FALSE)
      BY <1>1, <2>2, <3>1 DEF ExecInstruction
    <3> QED
      BY <3>1, <3>2 DEF Continue
  <2>3. CASE EvalAndJump
    <3> DEFINE l == Code[pc + 1].n
    <3>1. /\ Wants(rest, {"if", "ifelse", "while"}, Here.n)
          /\ Code[pc + 1].op = "TJUMP_FW_W" /\ Ahead(Code, pc, l) # {}
          /\ <<pc + 2, Decide(Head(rest), TRUE) \o Tail(rest)>> \in G
          /\ \A to \in Ahead(Code, pc, l) :
               <<to, Decide(Head(rest), FALSE) \o Tail(rest)>> \in G
      BY <2>1, <2>3 DEF Executes, EvalAndJump, Here
    <3>2. Expects({"if", "ifelse", "while"}, Here.n) /\ ForwardTargets(l) = Ahead(Code, pc, l)
      BY <1>1, <3>1
    <3>3. \E v \in BOOLEAN : \E to \in IF v THEN {pc + 2} ELSE Ahead(Code, pc, l) :
            Continue(to, Decide(Head(rest), v) \o Tail(rest), FALSE)
      BY <2>3, <3>1, <3>2 DEF EvalAndJump
    <3>4. PICK v \in BOOLEAN : \E to \in IF v THEN {pc + 2} ELSE Ahead(Code, pc, l) :
            Continue(to, Decide(Head(rest), v) \o Tail(rest), FALSE)
      BY <3>3
    <3>5. CASE v = TRUE
      BY <3>1, <3>4, <3>5 DEF Continue
    <3>6. CASE v = FALSE
      BY <3>1, <3>4, <3>6 DEF Continue
    <3> QED
      BY <3>5, <3>6
  <2>4. CASE Jump
    <3>1. PICK to : /\ Continue(to, rest, to = 0)
                    /\ <<to, rest>> \in G /\ to # 0
      <4>1. CASE Here.op = "JUMP_FW_W"
        BY <1>1, <2>1, <2>4, <4>1 DEF Executes, Jump, Here
      <4>2. CASE Here.op = "JUMP_BW_W"
        BY <1>1, <2>1, <2>4, <4>2 DEF Executes, Jump, Here
      <4> QED
        BY <2>4, <4>1, <4>2 DEF Jump
    <3> QED
      BY <3>1 DEF Continue
  <2>5. CASE Label
    BY <2>1, <2>5 DEF Executes, Label, Here, Continue
  <2>6. CASE Return
    BY <2>1, <2>6 DEF Executes, Return, Here, Continue
  <2> QED
    BY <1>3, <2>2, <2>3, <2>4, <2>5, <2>6 DEF MachineStep, UnfoldStatement
<1> QED
  BY <1>2, <1>3 DEF MachineStep, ExecInstruction, EvalAndJump, Jump, Label, Return

LEMMA MachineOnCourse ==
  ASSUME FollowInv, MachineStep
  PROVE  OnCourse'
<1>1. /\ Running /\ UNCHANGED <<stVars, f>>
  BY DEF MachineStep, UnfoldStatement, ExecInstruction, EvalAndJump, Jump, Label, Return,
         Continue
<1>2. /\ f' = f /\ functions' = functions /\ status' = status
      /\ pc \in Nat /\ ~ deviates /\ status = "accepted"
  BY <1>1 DEF stVars, FollowInv, Inv, OnCourse, Running
<1>3. PICK G : Within(Code, G, {}) /\ <<pc, rest>> \in G
  BY <1>1 DEF FollowInv, OnCourse, Running
<1>4. Advances(Code, pc, rest, G)
  <2>1. G \cup {} = G
    OBVIOUS
  <2>2. Advances(Code, pc, rest, G \cup {})
    BY <1>3 DEF Within
  <2> QED
    BY <2>1, <2>2
<1>5. (pc' = 0 \/ <<pc', rest'>> \in G) /\ ~ deviates'
  BY <1>1, <1>2, <1>4, MachineGoes
<1>6. Code' = Code
  BY <1>2 DEF Code
<1> QED
  BY <1>2, <1>3, <1>5, <1>6 DEF OnCourse

LEMMA InitFollow ==
  ASSUME Init
  PROVE  FollowInv
<1>1. Inv
  BY InitInv
<1>2. stack = <<>> /\ functions = <<>> /\ f = 0 /\ ~ deviates
  BY DEF Init, StInit
<1>3. Built
  BY <1>2 DEF Built
<1> QED
  BY <1>1, <1>2, <1>3 DEF FollowInv, OnCourse

LEMMA NextFollow ==
  ASSUME FollowInv, [Next]_vars
  PROVE  FollowInv'
<1>1. Inv /\ StInv /\ Built /\ OnCourse
  BY DEF FollowInv, Inv
<1>2. Inv'
  BY <1>1, NextInv
<1>3. CASE StNext /\ UNCHANGED runVars
  <2>1. Built' /\ status = "parsing"
    BY <1>1, <1>3, ParsingBuilt
  <2>2. f = 0 /\ f' = f /\ deviates' = deviates
    BY <1>1, <1>3, <2>1 DEF OnCourse, runVars
  <2>3. OnCourse'
    BY <1>1, <2>2 DEF OnCourse
  <2> QED
    BY <1>2, <2>1, <2>3 DEF FollowInv
<1>4. ASSUME UNCHANGED stVars PROVE Built'
  BY <1>1, <1>4 DEF Built, stVars
<1>5. CASE Call
  <2>1. UNCHANGED stVars
    BY <1>5 DEF Call
  <2>2. OnCourse'
    BY <1>5, CallOnCourse
  <2> QED
    BY <1>2, <1>4, <2>1, <2>2 DEF FollowInv
<1>6. CASE MachineStep
  <2>1. UNCHANGED stVars
    BY <1>6 DEF MachineStep, UnfoldStatement, ExecInstruction, EvalAndJump, Jump, Label,
                Return, Continue
  <2>2. OnCourse'
    BY <1>6, MachineOnCourse
  <2> QED
    BY <1>2, <1>4, <2>1, <2>2 DEF FollowInv
<1>7. CASE UNCHANGED vars
  <2>1. UNCHANGED stVars /\ Built'
    BY <1>4, <1>7 DEF vars
  <2>2. OnCourse'
    BY <1>1, <1>7 DEF OnCourse, vars, stVars, runVars, Code
  <2> QED
    BY <1>2, <2>1, <2>2 DEF FollowInv
<1> QED
  BY <1>3, <1>5, <1>6, <1>7 DEF Next

(* Whatever the statements of a program and however they nest, whatever     *)
(* the values of its conditions and for however long its loops go on: a    *)
(* function executes the assignments, calls and conditions of its block    *)
(* body in the order of the language, and returns when they are done.      *)
THEOREM FunctionsFollow == Spec => []FollowsProgram
<1>1. Init => FollowInv
  BY InitFollow
<1>2. FollowInv /\ [Next]_vars => FollowInv'
  BY NextFollow
<1>3. FollowInv => FollowsProgram
  BY DEF FollowInv, OnCourse, FollowsProgram
<1> QED
  BY <1>1, <1>2, <1>3, PTL DEF Spec

=============================================================================
