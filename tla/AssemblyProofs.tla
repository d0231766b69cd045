--------------------------- MODULE AssemblyProofs ---------------------------
(***************************************************************************)
(* Proofs about Assembly, for programs of every size.                      *)
(***************************************************************************)
EXTENDS Assembly, SequenceTheorems, FiniteSetTheorems, NaturalsInduction,
        WellFoundedInduction, TLAPS

-----------------------------------------------------------------------------
(* Types                                                                   *)

Ops == {"\n", "%s", "CONST", "LOAD_CONST_S", "ADD", "STORE_VAR_S", "CALL_S",
        "RETURN_ES", "EXTERN FUNCTION", "FUNCVARS"}

Lines == [op : Ops, nr : Nat, of : Nat \X Nat, left : Nat \ {0}]
Texts == Seq(Lines)

LEMMA LineType ==
  ASSUME NEW op \in Ops, NEW nr \in Nat, NEW of \in Nat \X Nat
  PROVE  /\ Line(op, nr, of) \in Lines
         /\ Line(op, nr, of).op = op /\ Line(op, nr, of).nr = nr
         /\ Line(op, nr, of).of = of
BY AssemblyAssumption DEF Line, Lines

LEMMA MarksType ==
  /\ newline \in Lines /\ newline.op = "\n" /\ newline.left = 1
  /\ percent \in Lines /\ percent.op = "%s"
  /\ nl \in Texts /\ Len(nl) = 1 /\ nl[1] = newline /\ Range(nl) = {newline}
<1> DEFINE z == <<0, 0>>
<1>1. z \in Nat \X Nat
  OBVIOUS
<1> HIDE DEF z
<1>2. /\ newline = [op |-> "\n", nr |-> 0, of |-> z, left |-> 1]
      /\ percent = Line("%s", 0, z)
  BY DEF newline, percent, z
<1>3. /\ newline \in Lines /\ newline.left = 1 /\ percent \in Lines
      /\ newline.op = "\n" /\ percent.op = "%s"
  <2>1. "\n" \in Ops /\ "%s" \in Ops
    BY DEF Ops
  <2>2. newline \in Lines /\ newline.left = 1 /\ newline.op = "\n"
    BY <1>1, <1>2, <2>1 DEF Lines
  <2>3. percent \in Lines /\ percent.op = "%s"
    BY <1>1, <1>2, <2>1, LineType
  <2> QED
    BY <2>2, <2>3
<1>4. nl \in Texts /\ Len(nl) = 1 /\ nl[1] = newline /\ DOMAIN nl = {1}
  BY <1>3 DEF nl, Texts
<1> QED
  BY <1>3, <1>4 DEF Range

(* A text of two parts.                                                    *)
LEMMA Joined ==
  ASSUME NEW t \in Texts, NEW u \in Texts
  PROVE  /\ t \o u \in Texts
         /\ Range(t \o u) = Range(t) \cup Range(u)
         /\ Len(t) \in Nat /\ Len(u) \in Nat /\ Len(t \o u) = Len(t) + Len(u)
         /\ DOMAIN t = 1 .. Len(t) /\ DOMAIN u = 1 .. Len(u)
         /\ DOMAIN (t \o u) = 1 .. Len(t) + Len(u)
         /\ \A n \in 1 .. Len(t) : (t \o u)[n] = t[n]
         /\ \A n \in 1 .. Len(u) : (t \o u)[Len(t) + n] = u[n]
<1>1. /\ t \o u \in Texts /\ Len(t \o u) = Len(t) + Len(u)
      /\ Len(t) \in Nat /\ Len(u) \in Nat
      /\ DOMAIN t = 1 .. Len(t) /\ DOMAIN u = 1 .. Len(u)
      /\ DOMAIN (t \o u) = 1 .. Len(t \o u)
  BY ConcatProperties, LenProperties DEF Texts
<1>2. \A n \in 1 .. Len(t) + Len(u) :
        (t \o u)[n] = IF n <= Len(t) THEN t[n] ELSE u[n - Len(t)]
  BY ConcatProperties DEF Texts
<1>3. \A n \in 1 .. Len(t) : (t \o u)[n] = t[n]
  BY <1>1, <1>2
<1>4. ASSUME NEW n \in 1 .. Len(u) PROVE (t \o u)[Len(t) + n] = u[n]
  <2>1. /\ Len(t) + n \in 1 .. Len(t) + Len(u) /\ ~ (Len(t) + n <= Len(t))
        /\ (Len(t) + n) - Len(t) = n
    BY <1>1
  <2> QED
    BY <1>2, <2>1
<1> QED
  BY <1>1, <1>3, <1>4, RangeConcatenation DEF Texts

LEMMA OneLine ==
  ASSUME NEW x \in Lines
  PROVE  <<x>> \in Texts /\ Len(<<x>>) = 1 /\ <<x>>[1] = x /\ Range(<<x>>) = {x}
<1>1. <<x>> \in Texts /\ Len(<<x>>) = 1 /\ <<x>>[1] = x /\ DOMAIN <<x>> = {1}
  BY DEF Texts
<1> QED
  BY <1>1 DEF Range

LEMMA TwoLines ==
  ASSUME NEW x \in Lines, NEW y \in Lines
  PROVE  /\ <<x, y>> \in Texts /\ Len(<<x, y>>) = 2 /\ <<x, y>>[2] = y
         /\ Range(<<x, y>>) = {x, y}
<1>1. /\ <<x, y>> \in Texts /\ Len(<<x, y>>) = 2 /\ DOMAIN <<x, y>> = {1, 2}
      /\ <<x, y>>[1] = x /\ <<x, y>>[2] = y
  BY DEF Texts
<1>2. Range(<<x, y>>) = {x, y}
  BY <1>1 DEF Range
<1> QED
  BY <1>1, <1>2

LEMMA ThreeLines ==
  ASSUME NEW x \in Lines, NEW y \in Lines, NEW z \in Lines
  PROVE  <<x, y, z>> \in Texts /\ Range(<<x, y, z>>) = {x, y, z}
<1>1. /\ <<x, y, z>> \in Texts /\ DOMAIN <<x, y, z>> = {1, 2, 3}
      /\ <<x, y, z>>[1] = x /\ <<x, y, z>>[2] = y /\ <<x, y, z>>[3] = z
  BY DEF Texts
<1> QED
  BY <1>1 DEF Range

LEMMA EmptyText == <<>> \in Texts /\ Len(<<>>) = 0 /\ Range(<<>>) = {}
<1>1. <<>> \in Texts /\ Len(<<>>) = 0 /\ DOMAIN <<>> = {}
  BY DEF Texts
<1> QED
  BY <1>1 DEF Range

LEMMA CutType ==
  ASSUME NEW text \in Texts
  PROVE  Cut(text) \in Texts
<1> DEFINE k == Len(text)
           x == text[k]
           y == [x EXCEPT !.left = @ - 1]
           f == SubSeq(text, 1, k - 1)
<1>1. CASE text = <<>>
  BY <1>1 DEF Cut
<1>2. CASE text # <<>>
  <2>1. k \in Nat /\ k > 0 /\ \A n \in 1 .. k : text[n] \in Lines
    BY <1>2, EmptySeq, LenProperties, ElementOfSeq DEF Texts
  <2>2. f \in Texts
    BY <2>1, SubSeqProperties DEF Texts
  <2>3. x.left # 1 => y \in Lines
    <3>1. x \in Lines
      BY <2>1
    <3> QED
      BY <3>1 DEF Lines
  <2>4. Cut(text) = IF x.left = 1 THEN f ELSE Append(f, y)
    BY <1>2 DEF Cut, Front, Last
  <2> HIDE DEF f, y, x
  <2>5. x.left # 1 => Append(f, y) \in Texts
    BY <2>2, <2>3, AppendProperties DEF Texts
  <2> QED
    BY <2>2, <2>4, <2>5
<1> QED
  BY <1>1, <1>2

LEMMA FormatType ==
  ASSUME NEW text \in Texts
  PROVE  format(text) \in Texts /\ (library = "fills" => format(text) = text)
BY CutType DEF format

-----------------------------------------------------------------------------
(* Texts whose lines come in the order the properties ask for.             *)

IsHeader(x) == x.op = "EXTERN FUNCTION"
IsReturn(x) == x.op = "RETURN_ES"
IsConst(x)  == x.op = "CONST"

(* Constants that are exchanged are arguments of one call.                 *)
Sorted(t) ==
  \A m, n \in DOMAIN t :
    m < n /\ IsConst(t[m]) /\ IsConst(t[n]) /\ t[m].nr > t[n].nr =>
      /\ t[m].of = t[n].of
      /\ \E k \in DOMAIN t : t[k].op = "CALL_S" /\ t[k].of = t[m].of

(* Headers come in the order of their numbers.                             *)
Rising(t) ==
  \A m, n \in DOMAIN t : m < n /\ IsHeader(t[m]) /\ IsHeader(t[n]) => t[m].nr < t[n].nr

(* The lines from n to the first return behind it, at m, are of one function. *)
Segment(t, n, m) ==
  /\ n < m /\ IsReturn(t[m])
  /\ \A k \in n .. m :
       /\ k < m => ~ IsReturn(t[k])
       /\ t[k] = newline \/ t[k].of[1] = t[n].of[1]

Apart(t) == \A n \in DOMAIN t : IsHeader(t[n]) => \E m \in DOMAIN t : Segment(t, n, m)

Clean(x) == x.op # "%s"

Fine(t) ==
  /\ t \in Texts /\ Sorted(t) /\ Rising(t) /\ Apart(t)
  /\ \A x \in Range(t) : Clean(x)

(* The lines of a statement or a constant of the function fn.              *)
Plain(t, fn) ==
  \A x \in Range(t) : /\ ~ IsHeader(x) /\ ~ IsReturn(x)
                      /\ x = newline \/ x.of[1] = fn

(* The numbers of u follow those of t.                                     *)
Before(t, u) ==
  \A x \in Range(t), y \in Range(u) :
    /\ IsConst(x) /\ IsConst(y) => x.nr <= y.nr
    /\ IsHeader(x) /\ IsHeader(y) => x.nr < y.nr

LEMMA InRange ==
  ASSUME NEW t \in Texts
  PROVE  /\ Len(t) \in Nat /\ DOMAIN t = 1 .. Len(t)
         /\ \A n \in DOMAIN t : t[n] \in Range(t) /\ t[n] \in Lines /\ t[n].nr \in Nat
         /\ \A x \in Range(t) : \E n \in DOMAIN t : x = t[n]
         /\ \A x \in Range(t) : x \in Lines
<1>1. Len(t) \in Nat /\ DOMAIN t = 1 .. Len(t) /\ \A n \in DOMAIN t : t[n] \in Lines
  BY LenProperties, ElementOfSeq DEF Texts
<1>2. \A n \in DOMAIN t : t[n].nr \in Nat
  BY <1>1 DEF Lines
<1> QED
  BY <1>1, <1>2 DEF Range

(* Where a position of a text of two parts is.                             *)
LEMMA Halves ==
  ASSUME NEW t \in Texts, NEW u \in Texts
  PROVE  /\ Len(t) \in Nat /\ Len(u) \in Nat
         /\ DOMAIN t = 1 .. Len(t) /\ DOMAIN u = 1 .. Len(u)
         /\ DOMAIN (t \o u) = 1 .. Len(t) + Len(u)
         /\ \A n \in DOMAIN t : (t \o u)[n] = t[n] /\ n \in DOMAIN (t \o u)
         /\ \A n \in DOMAIN u : /\ (t \o u)[Len(t) + n] = u[n]
                                /\ Len(t) + n \in DOMAIN (t \o u)
         /\ \A n \in DOMAIN (t \o u) :
              \/ n \in DOMAIN t /\ (t \o u)[n] = t[n]
              \/ n - Len(t) \in DOMAIN u /\ n > Len(t) /\ (t \o u)[n] = u[n - Len(t)]
<1> DEFINE w == t \o u
           a == Len(t)
           b == Len(u)
<1>1. /\ a \in Nat /\ b \in Nat /\ DOMAIN t = 1 .. a /\ DOMAIN u = 1 .. b
      /\ DOMAIN w = 1 .. a + b
      /\ \A n \in 1 .. a : w[n] = t[n]
      /\ \A n \in 1 .. b : w[a + n] = u[n]
  BY Joined
<1> HIDE DEF w, a, b
<1>2. \A n \in DOMAIN t : w[n] = t[n] /\ n \in DOMAIN w
  BY <1>1
<1>3. \A n \in DOMAIN u : w[a + n] = u[n] /\ a + n \in DOMAIN w
  BY <1>1
<1>4. ASSUME NEW n \in DOMAIN w
      PROVE  \/ n \in DOMAIN t /\ w[n] = t[n]
             \/ n - a \in DOMAIN u /\ n > a /\ w[n] = u[n - a]
  <2>1. CASE n <= a
    BY <1>1, <2>1
  <2>2. CASE n > a
    <3>1. n - a \in 1 .. b /\ n = a + (n - a)
      BY <1>1, <2>2
    <3>2. w[a + (n - a)] = u[n - a]
      BY <1>1, <3>1
    <3> QED
      BY <1>1, <2>2, <3>1, <3>2
  <2> QED
    BY <1>1, <2>1, <2>2
<1> QED
  BY <1>1, <1>2, <1>3, <1>4 DEF w, a, b

LEMMA SortedJoined ==
  ASSUME NEW t \in Texts, NEW u \in Texts, Sorted(t), Sorted(u), Before(t, u)
  PROVE  Sorted(t \o u)
<1> DEFINE w == t \o u
           a == Len(t)
<1>1. /\ a \in Nat /\ DOMAIN t = 1 .. a /\ DOMAIN u = 1 .. Len(u) /\ Len(u) \in Nat
      /\ DOMAIN w = 1 .. a + Len(u)
      /\ \A n \in DOMAIN t : w[n] = t[n] /\ n \in DOMAIN w
      /\ \A n \in DOMAIN u : w[a + n] = u[n] /\ a + n \in DOMAIN w
  BY Halves
<1>2. \A n \in DOMAIN w : \/ n \in DOMAIN t /\ w[n] = t[n]
                          \/ n - a \in DOMAIN u /\ n > a /\ w[n] = u[n - a]
  BY Halves
<1> HIDE DEF w, a
<1> SUFFICES ASSUME NEW m \in DOMAIN w, NEW n \in DOMAIN w, m < n,
                    IsConst(w[m]), IsConst(w[n]), w[m].nr > w[n].nr
             PROVE  /\ w[m].of = w[n].of
                    /\ \E k \in DOMAIN w : w[k].op = "CALL_S" /\ w[k].of = w[m].of
  BY DEF Sorted, w
<1>3. CASE m \in DOMAIN t /\ w[m] = t[m] /\ n \in DOMAIN t /\ w[n] = t[n]
  <2>1. /\ t[m].of = t[n].of
        /\ \E k \in DOMAIN t : t[k].op = "CALL_S" /\ t[k].of = t[m].of
    BY <1>3 DEF Sorted
  <2> QED
    BY <1>1, <1>3, <2>1
<1>4. CASE /\ m - a \in DOMAIN u /\ m > a /\ w[m] = u[m - a]
           /\ n - a \in DOMAIN u /\ n > a /\ w[n] = u[n - a]
  <2>1. m - a < n - a
    BY <1>1
  <2>2. /\ u[m - a].of = u[n - a].of
        /\ \E k \in DOMAIN u : u[k].op = "CALL_S" /\ u[k].of = u[m - a].of
    BY <1>4, <2>1 DEF Sorted
  <2> QED
    BY <1>1, <1>4, <2>2
<1>5. CASE m \in DOMAIN t /\ w[m] = t[m] /\ n - a \in DOMAIN u /\ w[n] = u[n - a]
  <2>1. t[m] \in Range(t) /\ u[n - a] \in Range(u) /\ t[m].nr \in Nat /\ u[n - a].nr \in Nat
    BY <1>5, InRange
  <2>2. t[m].nr <= u[n - a].nr
    BY <1>5, <2>1 DEF Before
  <2> QED
    BY <1>5, <2>1, <2>2
<1>6. ~ (m > a /\ n \in DOMAIN t)
  BY <1>1
<1> QED
  BY <1>2, <1>3, <1>4, <1>5, <1>6

LEMMA RisingJoined ==
  ASSUME NEW t \in Texts, NEW u \in Texts, Rising(t), Rising(u), Before(t, u)
  PROVE  Rising(t \o u)
<1> DEFINE w == t \o u
           a == Len(t)
<1>1. a \in Nat /\ DOMAIN t = 1 .. a /\ DOMAIN w = 1 .. a + Len(u) /\ Len(u) \in Nat
  BY Halves
<1>2. \A n \in DOMAIN w : \/ n \in DOMAIN t /\ w[n] = t[n]
                          \/ n - a \in DOMAIN u /\ n > a /\ w[n] = u[n - a]
  BY Halves
<1> HIDE DEF w, a
<1> SUFFICES ASSUME NEW m \in DOMAIN w, NEW n \in DOMAIN w, m < n,
                    IsHeader(w[m]), IsHeader(w[n])
             PROVE  w[m].nr < w[n].nr
  BY DEF Rising, w
<1>3. CASE m \in DOMAIN t /\ w[m] = t[m] /\ n \in DOMAIN t /\ w[n] = t[n]
  BY <1>3 DEF Rising
<1>4. CASE /\ m - a \in DOMAIN u /\ m > a /\ w[m] = u[m - a]
           /\ n - a \in DOMAIN u /\ n > a /\ w[n] = u[n - a]
  <2>1. m - a < n - a
    BY <1>1
  <2> QED
    BY <1>4, <2>1 DEF Rising
<1>5. CASE m \in DOMAIN t /\ w[m] = t[m] /\ n - a \in DOMAIN u /\ w[n] = u[n - a]
  <2>1. t[m] \in Range(t) /\ u[n - a] \in Range(u)
    BY <1>5, InRange
  <2> QED
    BY <1>5, <2>1 DEF Before
<1>6. ~ (m > a /\ n \in DOMAIN t)
  BY <1>1
<1> QED
  BY <1>2, <1>3, <1>4, <1>5, <1>6

LEMMA ApartJoined ==
  ASSUME NEW t \in Texts, NEW u \in Texts, Apart(t), Apart(u)
  PROVE  Apart(t \o u)
<1> DEFINE w == t \o u
           a == Len(t)
<1>1. /\ a \in Nat /\ DOMAIN t = 1 .. a /\ DOMAIN u = 1 .. Len(u) /\ Len(u) \in Nat
      /\ DOMAIN w = 1 .. a + Len(u)
      /\ \A n \in DOMAIN t : w[n] = t[n] /\ n \in DOMAIN w
      /\ \A n \in DOMAIN u : w[a + n] = u[n] /\ a + n \in DOMAIN w
  BY Halves
<1>2. \A n \in DOMAIN w : \/ n \in DOMAIN t /\ w[n] = t[n]
                          \/ n - a \in DOMAIN u /\ n > a /\ w[n] = u[n - a]
  BY Halves
<1> HIDE DEF w, a
<1> SUFFICES ASSUME NEW n \in DOMAIN w, IsHeader(w[n])
             PROVE  \E m \in DOMAIN w : Segment(w, n, m)
  BY DEF Apart, w
<1>3. CASE n \in DOMAIN t /\ w[n] = t[n]
  <2>1. PICK m \in DOMAIN t : Segment(t, n, m)
    BY <1>3 DEF Apart
  <2>2. \A k \in n .. m : k \in DOMAIN t /\ w[k] = t[k]
    BY <1>1, <1>3, <2>1
  <2>3. n < m /\ IsReturn(w[m]) /\ m \in DOMAIN w
    BY <1>1, <2>1 DEF Segment
  <2> QED
    BY <1>3, <2>1, <2>2, <2>3 DEF Segment
<1>4. CASE n - a \in DOMAIN u /\ n > a /\ w[n] = u[n - a]
  <2>1. PICK m \in DOMAIN u : Segment(u, n - a, m)
    BY <1>4 DEF Apart
  <2>2. /\ m \in Nat /\ n \in Nat /\ a + m \in DOMAIN w /\ w[a + m] = u[m]
        /\ n - a < m /\ IsReturn(u[m])
    BY <1>1, <1>4, <2>1 DEF Segment
  <2>3. ASSUME NEW k \in n .. a + m
        PROVE  /\ w[k] = u[k - a] /\ k - a \in (n - a) .. m
               /\ k < a + m => k - a < m
    <3>1. k - a \in (n - a) .. m /\ k - a \in DOMAIN u /\ a + (k - a) = k
      BY <1>1, <1>4, <2>1, <2>2
    <3>2. w[a + (k - a)] = u[k - a]
      BY <1>1, <3>1
    <3> QED
      BY <1>1, <2>2, <3>1, <3>2
  <2>4. n < a + m
    BY <1>1, <2>2
  <2>5. Segment(w, n, a + m)
    BY <1>4, <2>1, <2>2, <2>3, <2>4 DEF Segment
  <2> QED
    BY <2>2, <2>5
<1> QED
  BY <1>2, <1>3, <1>4

LEMMA FineJoined ==
  ASSUME NEW t, NEW u, Fine(t), Fine(u), Before(t, u)
  PROVE  Fine(t \o u)
BY Joined, SortedJoined, RisingJoined, ApartJoined DEF Fine

(* Texts without headers and returns.                                      *)
LEMMA PlainFine ==
  ASSUME NEW t \in Texts, NEW fn, Plain(t, fn), Sorted(t), \A x \in Range(t) : Clean(x)
  PROVE  Fine(t)
<1>1. \A n \in DOMAIN t : ~ IsHeader(t[n])
  BY InRange DEF Plain
<1> QED
  BY <1>1 DEF Fine, Rising, Apart

LEMMA PlainJoined ==
  ASSUME NEW t \in Texts, NEW u \in Texts, NEW fn, Plain(t, fn), Plain(u, fn)
  PROVE  Plain(t \o u, fn)
BY Joined DEF Plain

(* Texts without constants, and with constants of one call.                *)
LEMMA SortedEmpty ==
  ASSUME NEW t \in Texts, \A x \in Range(t) : ~ IsConst(x)
  PROVE  Sorted(t)
BY InRange DEF Sorted

LEMMA SortedCall ==
  ASSUME NEW t \in Texts, NEW of, NEW y \in Range(t), y.op = "CALL_S", y.of = of,
         \A x \in Range(t) : IsConst(x) => x.of = of
  PROVE  Sorted(t)
<1>1. PICK k \in DOMAIN t : t[k] = y
  BY InRange
<1>2. \A n \in DOMAIN t : IsConst(t[n]) => t[n].of = of
  BY InRange
<1> QED
  BY <1>1, <1>2 DEF Sorted

LEMMA SortedOne ==
  ASSUME NEW t \in Texts, NEW nr, \A x \in Range(t) : IsConst(x) => x.nr = nr
  PROVE  Sorted(t)
<1>1. \A n \in DOMAIN t : IsConst(t[n]) => t[n].nr = nr
  BY InRange
<1>2. \A m, n \in DOMAIN t : t[m].nr \in Nat /\ t[n].nr \in Nat /\ t[m].nr = t[n].nr => ~ (t[m].nr > t[n].nr)
  OBVIOUS
<1>3. \A n \in DOMAIN t : t[n].nr \in Nat
  BY InRange
<1> QED
  BY <1>1, <1>2, <1>3 DEF Sorted

LEMMA NewlineFine ==
  /\ nl \in Texts /\ Fine(nl) /\ Range(nl) = {newline}
  /\ ~ IsConst(newline) /\ ~ IsHeader(newline) /\ ~ IsReturn(newline) /\ Clean(newline)
  /\ \A fn : Plain(nl, fn)
<1>1. ~ IsConst(newline) /\ ~ IsHeader(newline) /\ ~ IsReturn(newline) /\ Clean(newline)
  BY MarksType DEF IsConst, IsHeader, IsReturn, Clean
<1>2. \A fn : Plain(nl, fn)
  BY <1>1, MarksType DEF Plain
<1>3. Sorted(nl)
  BY <1>1, MarksType, SortedEmpty
<1> QED
  BY <1>1, <1>2, <1>3, MarksType, PlainFine

LEMMA EmptyFine == <<>> \in Texts /\ Fine(<<>>) /\ \A fn : Plain(<<>>, fn)
<1>1. \A fn : Plain(<<>>, fn)
  BY EmptyText DEF Plain
<1>2. Sorted(<<>>)
  BY EmptyText, SortedEmpty
<1> QED
  BY <1>1, <1>2, EmptyText, PlainFine

(* A newline has no number: it may stand between any texts.                *)
LEMMA BeforeNewline ==
  ASSUME NEW t
  PROVE  Before(t, nl) /\ Before(nl, t)
BY NewlineFine DEF Before

LEMMA BeforeJoined ==
  ASSUME NEW t \in Texts, NEW u \in Texts, NEW w
  PROVE  /\ Before(w, t) /\ Before(w, u) => Before(w, t \o u)
         /\ Before(t, w) /\ Before(u, w) => Before(t \o u, w)
<1>1. Range(t \o u) = Range(t) \cup Range(u)
  BY Joined
<1> DEFINE v == t \o u
<1> HIDE DEF v
<1>2. Range(v) = Range(t) \cup Range(u)
  BY <1>1 DEF v
<1>3. /\ Before(w, t) /\ Before(w, u) => Before(w, v)
      /\ Before(t, w) /\ Before(u, w) => Before(v, w)
  BY <1>2 DEF Before
<1> QED
  BY <1>3 DEF v

(* Two texts with a newline between them.                                  *)
LEMMA Lined ==
  ASSUME NEW t, NEW u, Fine(t), Fine(u), Before(t, u)
  PROVE  /\ Fine(t \o nl \o u)
         /\ Range(t \o nl \o u) = Range(t) \cup Range(u) \cup {newline}
<1>1. t \in Texts /\ u \in Texts
  BY DEF Fine
<1>2. Fine(t \o nl) /\ t \o nl \in Texts /\ Range(t \o nl) = Range(t) \cup {newline}
  BY <1>1, NewlineFine, BeforeNewline, FineJoined, Joined
<1>3. Before(t \o nl, u)
  BY <1>1, NewlineFine, BeforeNewline, BeforeJoined
<1> DEFINE v == t \o nl
<1>4. Fine(v) /\ v \in Texts /\ Range(v) = Range(t) \cup {newline} /\ Before(v, u)
  BY <1>2, <1>3
<1> HIDE DEF v
<1>5. Fine(v \o u)
  BY <1>1, <1>4, FineJoined
<1>6. Range(v \o u) = Range(t) \cup {newline} \cup Range(u)
  BY <1>1, <1>4, Joined
<1> QED
  BY <1>5, <1>6 DEF v

-----------------------------------------------------------------------------
(* The lists of the grammar                                                *)

(* A set of numbers has a least one.                                       *)
LEMMA Least ==
  ASSUME NEW T, T \subseteq Nat, T # {}
  PROVE  \E m \in T : \A x \in T : m <= x
<1>1. IsWellFoundedOn(OpToRel(<, Nat), Nat)
  BY NatLessThanWellFounded
<1>2. PICK m \in T : \A y \in T : <<y, m>> \notin OpToRel(<, Nat)
  BY <1>1, WFMin
<1>3. \A y \in T : ~ (y < m)
  BY <1>2 DEF OpToRel
<1> QED
  BY <1>3

(* f[n] is the text of the last n of the list, for n up to b.              *)
IsList(f, texts, end, b) ==
  f = [n \in 0 .. b |-> IF n = 0 THEN end ELSE concatenate(texts[Len(texts) - n + 1], f[n - 1])]

ListOf(texts, end, b) == CHOOSE f : IsList(f, texts, end, b)

LEMMA ListGrows ==
  ASSUME NEW texts, NEW end, NEW b \in Nat, NEW f, IsList(f, texts, end, b)
  PROVE  \E g : IsList(g, texts, end, b + 1)
<1> DEFINE v(n) == texts[Len(texts) - n + 1]
           g == [n \in 0 .. b + 1 |-> IF n = b + 1 THEN concatenate(v(b + 1), f[b]) ELSE f[n]]
<1>1. \A n \in 0 .. b : f[n] = IF n = 0 THEN end ELSE concatenate(v(n), f[n - 1])
  BY DEF IsList
<1>2. \A n \in 0 .. b + 1 : n \in 0 .. b \/ (n = b + 1 /\ n # 0 /\ n - 1 = b)
  OBVIOUS
<1>3. \A n \in 0 .. b : n = 0 \/ n - 1 \in 0 .. b
  OBVIOUS
<1>4. /\ \A n \in 0 .. b : g[n] = f[n] /\ n # b + 1
      /\ b \in 0 .. b /\ g[b + 1] = concatenate(v(b + 1), f[b])
  OBVIOUS
<1>5. g = [n \in 0 .. b + 1 |-> g[n]]
  OBVIOUS
<1> HIDE DEF g, v
<1>6. ASSUME NEW n \in 0 .. b + 1
      PROVE  g[n] = IF n = 0 THEN end ELSE concatenate(v(n), g[n - 1])
  <2>1. CASE n \in 0 .. b
    BY <1>1, <1>3, <1>4, <2>1
  <2>2. CASE n = b + 1 /\ n # 0 /\ n - 1 = b
    BY <1>4, <2>2
  <2> QED
    BY <1>2, <2>1, <2>2
<1> QED
  BY <1>5, <1>6 DEF IsList, v

LEMMA ListExists ==
  ASSUME NEW texts, NEW end, NEW b \in Nat
  PROVE  IsList(ListOf(texts, end, b), texts, end, b)
<1> DEFINE T == {m \in Nat : ~ \E f : IsList(f, texts, end, m)}
<1>1. SUFFICES T = {}
  BY DEF ListOf
<1>2. SUFFICES ASSUME T # {}
               PROVE  FALSE
  OBVIOUS
<1>3. PICK m \in T : \A x \in T : m <= x
  BY <1>2, Least
<1>4. m # 0
  <2>1. IsList([n \in 0 .. 0 |-> end], texts, end, 0)
    BY DEF IsList
  <2> QED
    BY <1>3, <2>1
<1>5. m - 1 \in Nat /\ m - 1 \notin T /\ (m - 1) + 1 = m
  BY <1>3, <1>4
<1>6. PICK f : IsList(f, texts, end, m - 1)
  BY <1>5
<1>7. \E g : IsList(g, texts, end, m)
  BY <1>5, <1>6, ListGrows
<1> QED
  BY <1>3, <1>7

LEMMA ConcatenatedIs ==
  ASSUME NEW texts, NEW end, Len(texts) \in Nat
  PROVE  LET f == ListOf(texts, end, Len(texts))
             k == Len(texts)
         IN  /\ Concatenated(texts, end) = f[k] /\ f[0] = end
             /\ \A n \in 1 .. k : f[n] = concatenate(texts[k - n + 1], f[n - 1])
<1> DEFINE k == Len(texts)
           f == ListOf(texts, end, k)
<1>1. Concatenated(texts, end) = f[k]
  BY DEF Concatenated, ListOf, IsList
<1>2. IsList(f, texts, end, k)
  BY ListExists
<1> HIDE DEF f
<1>3. \A n \in 0 .. k : f[n] = IF n = 0 THEN end ELSE concatenate(texts[k - n + 1], f[n - 1])
  BY <1>2 DEF IsList
<1>4. f[0] = end /\ \A n \in 1 .. k : f[n] = concatenate(texts[k - n + 1], f[n - 1])
  BY <1>3
<1> QED
  BY <1>1, <1>4 DEF f

LEMMA ConcatenateType ==
  ASSUME NEW t \in Texts, NEW u \in Texts
  PROVE  concatenate(t, u) \in Texts /\ (library = "fills" => concatenate(t, u) = t \o nl \o u)
<1>1. t \o nl \o u \in Texts
  BY Joined, MarksType
<1> QED
  BY <1>1, FormatType DEF concatenate

(* What concatenate stays in, a list stays in.                             *)
LEMMA ListIn ==
  ASSUME NEW S, \A t, u \in S : concatenate(t, u) \in S, NEW end \in S,
         NEW texts, Len(texts) \in Nat, \A n \in 1 .. Len(texts) : texts[n] \in S
  PROVE  /\ Concatenated(texts, end) \in S
         /\ \A n \in 0 .. Len(texts) : ListOf(texts, end, Len(texts))[n] \in S
<1> DEFINE k == Len(texts)
           f == ListOf(texts, end, k)
<1>1. k \in Nat
  OBVIOUS
<1>2. /\ Concatenated(texts, end) = f[k] /\ f[0] = end
      /\ \A n \in 1 .. k : f[n] = concatenate(texts[k - n + 1], f[n - 1])
  BY <1>1, ConcatenatedIs
<1>3. \A n \in 1 .. k : texts[k - n + 1] \in S
  <2>1. \A n \in 1 .. k : k - n + 1 \in 1 .. k
    BY <1>1
  <2> QED
    BY <2>1
<1> HIDE DEF f, k
<1> DEFINE T == {n \in 0 .. k : f[n] \notin S}
<1>4. ASSUME T # {} PROVE FALSE
  <2>1. T \subseteq Nat
    BY <1>1
  <2>2. PICK m \in T : \A x \in T : m <= x
    BY <1>4, <2>1, Least
  <2>3. m # 0
    BY <1>2, <2>2
  <2>4. m - 1 \in 0 .. k /\ m - 1 \notin T /\ m \in 1 .. k
    BY <1>1, <2>2, <2>3
  <2>5. f[m - 1] \in S
    BY <2>4
  <2>6. f[m] \in S
    BY <1>2, <1>3, <2>4, <2>5
  <2> QED
    BY <2>2, <2>6
<1>5. \A n \in 0 .. k : f[n] \in S
  BY <1>4
<1> QED
  BY <1>1, <1>2, <1>5 DEF f, k

LEMMA ListType ==
  ASSUME NEW texts \in Seq(Texts), NEW end \in Texts
  PROVE  /\ Concatenated(texts, end) \in Texts
         /\ \A n \in 0 .. Len(texts) : ListOf(texts, end, Len(texts))[n] \in Texts
<1>1. Len(texts) \in Nat /\ \A n \in 1 .. Len(texts) : texts[n] \in Texts
  BY LenProperties, ElementOfSeq
<1>2. \A t, u \in Texts : concatenate(t, u) \in Texts
  BY ConcatenateType
<1> QED
  BY <1>1, <1>2, ListIn

(* The lines of w are newlines and those of end and of the texts from the  *)
(* a-th on.                                                                *)
Holds(w, texts, end, a) ==
  /\ \A x \in Range(w) : \/ x = newline \/ x \in Range(end)
                         \/ \E j \in a .. Len(texts) : x \in Range(texts[j])
  /\ Range(end) \subseteq Range(w)
  /\ \A j \in a .. Len(texts) : Range(texts[j]) \subseteq Range(w)

LEMMA HoldsBefore ==
  ASSUME NEW w, NEW texts, NEW end, NEW a, Holds(w, texts, end, a), NEW t,
         Before(t, end), \A j \in a .. Len(texts) : Before(t, texts[j])
  PROVE  Before(t, w)
<1>1. \A y \in Range(w) : \/ y = newline \/ y \in Range(end)
                          \/ \E j \in a .. Len(texts) : y \in Range(texts[j])
  BY DEF Holds
<1> QED
  BY <1>1, NewlineFine DEF Before

(* The texts of a list that come in order make a text in order.            *)
LEMMA ListFine ==
  ASSUME library = "fills", NEW texts \in Seq(Texts), NEW end, Fine(end),
         \A j \in 1 .. Len(texts) : Fine(texts[j]) /\ Before(texts[j], end),
         \A i, j \in 1 .. Len(texts) : i < j => Before(texts[i], texts[j])
  PROVE  /\ Fine(Concatenated(texts, end))
         /\ Holds(Concatenated(texts, end), texts, end, 1)
<1> DEFINE k == Len(texts)
           f == ListOf(texts, end, k)
           Good(n) == Fine(f[n]) /\ Holds(f[n], texts, end, k - n + 1)
<1>1. k \in Nat /\ end \in Texts
  BY LenProperties DEF Fine
<1>2. /\ Concatenated(texts, end) = f[k] /\ f[0] = end
      /\ \A n \in 1 .. k : f[n] = concatenate(texts[k - n + 1], f[n - 1])
      /\ \A n \in 0 .. k : f[n] \in Texts
  BY <1>1, ConcatenatedIs, ListType
<1> HIDE DEF f
<1>3. Good(0)
  <2>1. \A j \in k - 0 + 1 .. k : FALSE
    BY <1>1
  <2> QED
    BY <1>2, <2>1 DEF Holds
<1>4. ASSUME NEW n \in 1 .. k, Good(n - 1) PROVE Good(n)
  <2> DEFINE a == k - n + 1
             t == texts[a]
             u == f[n - 1]
  <2>1. /\ a \in 1 .. k /\ k - (n - 1) + 1 = a + 1 /\ n - 1 \in 0 .. k
        /\ \A j \in a + 1 .. k : j \in 1 .. k /\ a < j
        /\ \A j \in a .. k : j = a \/ j \in a + 1 .. k
        /\ \A j \in a + 1 .. k : j \in a .. k
        /\ a \in a .. k
    BY <1>1
  <2>2. Fine(u) /\ Holds(u, texts, end, a + 1) /\ u \in Texts /\ Fine(t) /\ t \in Texts
    BY <1>2, <1>4, <2>1 DEF Fine
  <2>3. f[n] = t \o nl \o u
    BY <1>2, <2>2, ConcatenateType
  <2> HIDE DEF a, t, u
  <2>4. Before(t, u)
    BY <2>1, <2>2, HoldsBefore DEF t
  <2>5. Fine(f[n]) /\ Range(f[n]) = Range(t) \cup Range(u) \cup {newline}
    BY <2>2, <2>3, <2>4, Lined
  <2>6. Holds(f[n], texts, end, a)
    BY <2>1, <2>2, <2>5 DEF Holds, t
  <2> QED
    BY <2>5, <2>6 DEF a
<1> DEFINE T == {n \in 0 .. k : ~ Good(n)}
<1> HIDE DEF Good
<1>5. ASSUME T # {} PROVE FALSE
  <2>1. T \subseteq Nat
    BY <1>1
  <2>2. PICK m \in T : \A x \in T : m <= x
    BY <1>5, <2>1, Least
  <2>3. m # 0
    BY <1>3, <2>2
  <2>4. m - 1 \in 0 .. k /\ m - 1 \notin T /\ m \in 1 .. k
    BY <1>1, <2>2, <2>3
  <2> QED
    BY <1>4, <2>2, <2>4
<1>6. k \in 0 .. k /\ k - k + 1 = 1
  BY <1>1
<1>7. Good(k)
  BY <1>5, <1>6
<1> QED
  BY <1>2, <1>6, <1>7 DEF Good

-----------------------------------------------------------------------------
(* The header of a function goes where the %s is.                          *)

(* f[n] is what is made of the first n lines, for n up to b.               *)
IsFilling(f, text, insert, b) ==
  f = [n \in 0 .. b |-> IF n = 0 THEN <<>>
                        ELSE f[n - 1] \o (IF text[n] = percent THEN insert ELSE <<text[n]>>)]

Filling(text, insert, b) == CHOOSE f : IsFilling(f, text, insert, b)

LEMMA FillingGrows ==
  ASSUME NEW text, NEW insert, NEW b \in Nat, NEW f, IsFilling(f, text, insert, b)
  PROVE  \E g : IsFilling(g, text, insert, b + 1)
<1> DEFINE v(n) == IF text[n] = percent THEN insert ELSE <<text[n]>>
           g == [n \in 0 .. b + 1 |-> IF n = b + 1 THEN f[b] \o v(b + 1) ELSE f[n]]
<1>1. \A n \in 0 .. b : f[n] = IF n = 0 THEN <<>> ELSE f[n - 1] \o v(n)
  BY DEF IsFilling
<1>2. \A n \in 0 .. b + 1 : n \in 0 .. b \/ (n = b + 1 /\ n # 0 /\ n - 1 = b)
  OBVIOUS
<1>3. \A n \in 0 .. b : n = 0 \/ n - 1 \in 0 .. b
  OBVIOUS
<1> HIDE DEF v
<1>4. /\ \A n \in 0 .. b : g[n] = f[n] /\ n # b + 1
      /\ b \in 0 .. b /\ g[b + 1] = f[b] \o v(b + 1)
  OBVIOUS
<1>5. g = [n \in 0 .. b + 1 |-> g[n]]
  OBVIOUS
<1> HIDE DEF g
<1>6. ASSUME NEW n \in 0 .. b + 1
      PROVE  g[n] = IF n = 0 THEN <<>> ELSE g[n - 1] \o v(n)
  <2>1. CASE n \in 0 .. b
    BY <1>1, <1>3, <1>4, <2>1
  <2>2. CASE n = b + 1 /\ n # 0 /\ n - 1 = b
    BY <1>4, <2>2
  <2> QED
    BY <1>2, <2>1, <2>2
<1> QED
  BY <1>5, <1>6 DEF IsFilling, v

LEMMA FillingExists ==
  ASSUME NEW text, NEW insert, NEW b \in Nat
  PROVE  LET f == Filling(text, insert, b)
         IN  /\ f[0] = <<>>
             /\ \A n \in 1 .. b :
                  f[n] = f[n - 1] \o (IF text[n] = percent THEN insert ELSE <<text[n]>>)
<1> DEFINE T == {m \in Nat : ~ \E f : IsFilling(f, text, insert, m)}
           f == Filling(text, insert, b)
           v(n) == IF text[n] = percent THEN insert ELSE <<text[n]>>
<1>1. ASSUME T # {} PROVE FALSE
  <2>1. PICK m \in T : \A x \in T : m <= x
    BY <1>1, Least
  <2>2. m # 0
    <3>1. IsFilling([n \in 0 .. 0 |-> <<>>], text, insert, 0)
      BY DEF IsFilling
    <3> QED
      BY <2>1, <3>1
  <2>3. m - 1 \in Nat /\ m - 1 \notin T /\ (m - 1) + 1 = m
    BY <2>1, <2>2
  <2>4. PICK h : IsFilling(h, text, insert, m - 1)
    BY <2>3
  <2>5. \E g : IsFilling(g, text, insert, m)
    BY <2>3, <2>4, FillingGrows
  <2> QED
    BY <2>1, <2>5
<1>2. IsFilling(f, text, insert, b)
  BY <1>1 DEF Filling
<1> HIDE DEF f
<1>3. \A n \in 0 .. b : f[n] = IF n = 0 THEN <<>> ELSE f[n - 1] \o v(n)
  BY <1>2 DEF IsFilling
<1> HIDE DEF v
<1>4. 0 \in 0 .. b /\ \A n \in 1 .. b : n \in 0 .. b /\ n # 0
  OBVIOUS
<1>5. f[0] = <<>> /\ \A n \in 1 .. b : f[n] = f[n - 1] \o v(n)
  BY <1>3, <1>4, Zenon
<1> QED
  BY <1>5 DEF f, v

LEMMA FilledIs ==
  \A text, insert : Filled(text, insert) = Filling(text, insert, Len(text))[Len(text)]
BY DEF Filled, Filling, IsFilling

LEMMA FillingType ==
  ASSUME NEW text \in Texts, NEW insert \in Texts, NEW b \in 0 .. Len(text)
  PROVE  Filling(text, insert, b)[b] \in Texts
<1> DEFINE f == Filling(text, insert, b)
           v(n) == IF text[n] = percent THEN insert ELSE <<text[n]>>
           T == {n \in 0 .. b : f[n] \notin Texts}
<1>1. Len(text) \in Nat /\ DOMAIN text = 1 .. Len(text) /\ b \in Nat
  BY InRange
<1>2. f[0] = <<>> /\ \A n \in 1 .. b : f[n] = f[n - 1] \o v(n)
  BY <1>1, FillingExists
<1>3. ASSUME NEW n \in 1 .. b PROVE v(n) \in Texts
  <2>1. text[n] \in Lines
    BY <1>1, InRange
  <2> QED
    BY <2>1, OneLine
<1> HIDE DEF f, v
<1>4. ASSUME T # {} PROVE FALSE
  <2>1. T \subseteq Nat
    BY <1>1
  <2>2. PICK m \in T : \A x \in T : m <= x
    BY <1>4, <2>1, Least
  <2>3. m # 0
    BY <1>2, <2>2, EmptyText
  <2>4. m - 1 \in 0 .. b /\ m - 1 \notin T /\ m \in 1 .. b
    BY <1>1, <2>2, <2>3
  <2>5. f[m - 1] \in Texts
    BY <2>4
  <2>6. f[m] = f[m - 1] \o v(m) /\ v(m) \in Texts
    BY <1>2, <1>3, <2>4
  <2>7. f[m] \in Texts
    BY <2>5, <2>6, Joined
  <2> QED
    BY <2>2, <2>7
<1>5. f[b] \in Texts
  BY <1>1, <1>4
<1> QED
  BY <1>5 DEF f

(* Texts that begin alike are filled alike that far.                       *)
LEMMA FillingsAgree ==
  ASSUME NEW s, NEW t, NEW insert, NEW b \in Nat, NEW d \in Nat, b <= d,
         \A n \in 1 .. b : s[n] = t[n]
  PROVE  Filling(s, insert, b)[b] = Filling(t, insert, d)[b]
<1> DEFINE f == Filling(s, insert, b)
           g == Filling(t, insert, d)
           v(n) == IF s[n] = percent THEN insert ELSE <<s[n]>>
           u(n) == IF t[n] = percent THEN insert ELSE <<t[n]>>
           T == {n \in 0 .. b : f[n] # g[n]}
<1>1. f[0] = <<>> /\ \A n \in 1 .. b : f[n] = f[n - 1] \o v(n)
  BY FillingExists
<1>2. g[0] = <<>> /\ \A n \in 1 .. b : g[n] = g[n - 1] \o v(n)
  <2>1. \A n \in 1 .. b : n \in 1 .. d
    OBVIOUS
  <2>2. g[0] = <<>> /\ \A n \in 1 .. d : g[n] = g[n - 1] \o u(n)
    BY FillingExists
  <2>3. \A n \in 1 .. b : u(n) = v(n)
    OBVIOUS
  <2> HIDE DEF f, g, u, v
  <2> QED
    BY <2>1, <2>2, <2>3, Zenon
<1> HIDE DEF f, g, u, v
<1>3. ASSUME T # {} PROVE FALSE
  <2>1. PICK m \in T : \A x \in T : m <= x
    <3>1. T \subseteq Nat
      OBVIOUS
    <3> QED
      BY <1>3, <3>1, Least
  <2>2. m # 0
    BY <1>1, <1>2, <2>1
  <2>3. m - 1 \in 0 .. b /\ m - 1 \notin T /\ m \in 1 .. b
    BY <2>1, <2>2
  <2>4. f[m - 1] = g[m - 1]
    BY <2>3
  <2> QED
    BY <1>1, <1>2, <2>1, <2>3, <2>4
<1>4. f[b] = g[b]
  BY <1>3
<1> QED
  BY <1>4 DEF f, g

(* One line more.                                                          *)
LEMMA FilledLine ==
  ASSUME NEW t \in Texts, NEW x \in Lines, NEW insert \in Texts
  PROVE  /\ Filled(t, insert) \in Texts
         /\ Filled(t \o <<x>>, insert) =
              Filled(t, insert) \o (IF x = percent THEN insert ELSE <<x>>)
<1> DEFINE w == t \o <<x>>
           k == Len(t)
           v(z) == IF z = percent THEN insert ELSE <<z>>
<1>1. /\ k \in Nat /\ Len(w) = k + 1 /\ w \in Texts
      /\ \A n \in 1 .. k : t[n] = w[n]
      /\ w[k + 1] = x
  <2>1. <<x>> \in Texts /\ Len(<<x>>) = 1 /\ <<x>>[1] = x /\ 1 \in 1 .. 1
    BY OneLine
  <2> QED
    BY <2>1, Joined
<1>2. Filled(t, insert) = Filling(t, insert, k)[k]
  BY FilledIs
<1>3. Filled(t, insert) \in Texts
  <2>1. k \in 0 .. k
    BY <1>1
  <2> QED
    BY <1>2, <2>1, FillingType
<1>4. Filled(w, insert) = Filling(w, insert, k + 1)[k + 1]
  BY <1>1, FilledIs
<1> HIDE DEF w, k
<1>5. Filling(w, insert, k + 1)[k + 1] = Filling(w, insert, k + 1)[k] \o v(w[k + 1])
  <2>1. k + 1 \in Nat /\ k + 1 \in 1 .. k + 1 /\ (k + 1) - 1 = k
    BY <1>1
  <2> DEFINE b == k + 1
             f == Filling(w, insert, b)
  <2>2. \A n \in 1 .. b : f[n] = f[n - 1] \o v(w[n])
    <3>1. b \in Nat
      BY <2>1
    <3> HIDE DEF b
    <3> QED
      BY <3>1, FillingExists
  <2>3. b \in 1 .. b /\ b - 1 = k
    BY <2>1
  <2> HIDE DEF b, f, v
  <2>4. f[b] = f[k] \o v(w[b])
    BY <2>2, <2>3
  <2> QED
    BY <2>4 DEF b, f
<1>6. Filling(t, insert, k)[k] = Filling(w, insert, k + 1)[k]
  <2>1. k + 1 \in Nat /\ k <= k + 1
    BY <1>1
  <2> QED
    BY <1>1, <2>1, FillingsAgree
<1> QED
  BY <1>1, <1>2, <1>3, <1>4, <1>5, <1>6 DEF w

LEMMA FilledType ==
  ASSUME NEW t \in Texts, NEW insert \in Texts
  PROVE  Filled(t, insert) \in Texts
BY FilledLine, MarksType

(* What has no %s of its own stays as it is.                               *)
LEMMA FilledPlain ==
  ASSUME NEW t \in Texts, NEW u \in Texts, NEW insert \in Texts,
         \A x \in Range(u) : x.op # "%s"
  PROVE  Filled(t \o u, insert) = Filled(t, insert) \o u
<1> DEFINE k == Len(u)
           s(n) == SubSeq(u, 1, n)
           T == {n \in 0 .. k : Filled(t \o s(n), insert) # Filled(t, insert) \o s(n)}
<1>1. k \in Nat /\ DOMAIN u = 1 .. k /\ \A n \in 1 .. k : u[n] \in Lines /\ u[n] # percent
  BY InRange, MarksType
<1>2. ASSUME NEW n \in 0 .. k PROVE s(n) \in Texts
  <2>1. \A i \in 1 .. n : u[i] \in Lines
    BY <1>1
  <2> QED
    BY <1>1, <2>1, SubSeqProperties DEF Texts
<1>3. s(0) = <<>>
  BY SubSeqEmpty
<1>4. ASSUME NEW n \in 1 .. k PROVE s(n) = s(n - 1) \o <<u[n]>>
  <2>1. 1 \in 1 .. Len(u) /\ n \in 1 .. Len(u)
    BY <1>1
  <2> QED
    BY <2>1, SubSeqRecursiveSecond DEF Texts
<1>5. s(k) = u
  BY SubSeqFull DEF Texts
<1>6. Filled(t, insert) \in Texts
  BY FilledType
<1> HIDE DEF s, k
<1>7. ASSUME T # {} PROVE FALSE
  <2>1. PICK m \in T : \A x \in T : m <= x
    <3>1. T \subseteq Nat
      BY <1>1
    <3> QED
      BY <1>7, <3>1, Least
  <2>2. m # 0
    <3>1. t \o <<>> = t /\ Filled(t, insert) \o <<>> = Filled(t, insert)
      BY <1>6, ConcatEmptySeq DEF Texts
    <3>2. 0 \notin T
      BY <1>3, <3>1
    <3> QED
      BY <2>1, <3>2
  <2>3. m - 1 \in 0 .. k /\ m - 1 \notin T /\ m \in 1 .. k
    BY <1>1, <2>1, <2>2
  <2> DEFINE v == s(m - 1)
             x == u[m]
  <2>4. /\ Filled(t \o v, insert) = Filled(t, insert) \o v
        /\ v \in Texts /\ x \in Lines /\ x # percent /\ s(m) = v \o <<x>> /\ <<x>> \in Texts
    BY <1>1, <1>2, <1>4, <2>3, OneLine
  <2> HIDE DEF v, x
  <2>5. t \o (v \o <<x>>) = (t \o v) \o <<x>>
    <3> DEFINE y == <<x>>
    <3>1. t \in Seq(Lines) /\ v \in Seq(Lines) /\ y \in Seq(Lines)
      BY <2>4 DEF Texts
    <3> HIDE DEF y
    <3>2. t \o (v \o y) = (t \o v) \o y
      BY <3>1, ConcatAssociative, SMTT(20)
    <3> QED
      BY <3>2 DEF y
  <2>6. Filled((t \o v) \o <<x>>, insert) = Filled(t \o v, insert) \o <<x>>
    <3>1. t \o v \in Texts
      BY <2>4, Joined
    <3> QED
      BY <2>4, <3>1, FilledLine
  <2>7. (Filled(t, insert) \o v) \o <<x>> = Filled(t, insert) \o (v \o <<x>>)
    <3> DEFINE z == Filled(t, insert)
               y == <<x>>
    <3>1. z \in Seq(Lines) /\ v \in Seq(Lines) /\ y \in Seq(Lines)
      BY <1>6, <2>4 DEF Texts
    <3> HIDE DEF z, y
    <3>2. (z \o v) \o y = z \o (v \o y)
      BY <3>1, ConcatAssociative, SMTT(20)
    <3> QED
      BY <3>2 DEF z, y
  <2> QED
    BY <2>1, <2>4, <2>5, <2>6, <2>7
<1>8. k \in 0 .. k
  BY <1>1
<1> QED
  BY <1>5, <1>7, <1>8

LEMMA FilledWhole ==
  ASSUME NEW u \in Texts, NEW insert \in Texts, \A x \in Range(u) : x.op # "%s"
  PROVE  Filled(u, insert) = u
<1>1. Filled(<<>>, insert) = <<>>
  <2>1. Filling(<<>>, insert, 0)[0] = <<>>
    BY FillingExists
  <2> QED
    BY <2>1, EmptyText, FilledIs
<1>2. <<>> \o u = u
  BY ConcatEmptySeq DEF Texts
<1>3. <<>> \in Texts
  BY EmptyText
<1>4. Filled(<<>> \o u, insert) = Filled(<<>>, insert) \o u
  BY <1>3, FilledPlain
<1> QED
  BY <1>1, <1>2, <1>4

-----------------------------------------------------------------------------
(* The body of a function                                                  *)

LEMMA MarkLine ==
  ASSUME NEW op \in Ops, NEW nr \in Nat, NEW of \in Nat \X Nat
  PROVE  /\ Line(op, nr, of) \in Lines
         /\ Line(op, nr, of).nr = nr /\ Line(op, nr, of).of = of
         /\ op # "%s" => Clean(Line(op, nr, of))
         /\ IsHeader(Line(op, nr, of)) <=> op = "EXTERN FUNCTION"
         /\ IsReturn(Line(op, nr, of)) <=> op = "RETURN_ES"
         /\ IsConst(Line(op, nr, of)) <=> op = "CONST"
<1> DEFINE x == Line(op, nr, of)
<1>1. x \in Lines /\ x.nr = nr /\ x.of = of /\ x.op = op
  BY AssemblyAssumption DEF Line, Lines
<1> HIDE DEF x
<1>2. op # "%s" => Clean(x)
  BY <1>1 DEF Clean
<1>3. /\ IsHeader(x) <=> op = "EXTERN FUNCTION"
      /\ IsReturn(x) <=> op = "RETURN_ES"
      /\ IsConst(x) <=> op = "CONST"
  BY <1>1 DEF IsHeader, IsReturn, IsConst
<1> QED
  BY <1>1, <1>2, <1>3 DEF x

LEMMA OpsAre ==
  /\ "CONST" \in Ops /\ "LOAD_CONST_S" \in Ops /\ "ADD" \in Ops /\ "STORE_VAR_S" \in Ops
  /\ "CALL_S" \in Ops /\ "RETURN_ES" \in Ops /\ "EXTERN FUNCTION" \in Ops /\ "FUNCVARS" \in Ops
BY DEF Ops
(* The lines of a statement, and of a constant: those of a function, with   *)
(* the constants from lo to hi, hi excluded.                               *)
Simple(t, of, lo, hi) ==
  /\ t \in Texts
  /\ \A x \in Range(t) : /\ Clean(x) /\ ~ IsHeader(x) /\ ~ IsReturn(x)
                         /\ x = newline \/ x.of = of
                         /\ IsConst(x) => lo <= x.nr /\ x.nr < hi

LEMMA SimpleJoined ==
  ASSUME NEW t, NEW u, NEW of, NEW lo, NEW hi, Simple(t, of, lo, hi), Simple(u, of, lo, hi)
  PROVE  Simple(t \o u, of, lo, hi) /\ Range(t \o u) = Range(t) \cup Range(u)
BY Joined DEF Simple

LEMMA SimpleGrows ==
  ASSUME NEW t, NEW of, NEW lo \in Nat, NEW hi \in Nat, Simple(t, of, lo, hi),
         NEW a \in Nat, NEW b \in Nat, a <= lo, hi <= b
  PROVE  Simple(t, of, a, b)
<1>1. ASSUME NEW x \in Range(t), IsConst(x)
      PROVE  a <= x.nr /\ x.nr < b
  <2>1. x.nr \in Nat /\ lo <= x.nr /\ x.nr < hi
    BY <1>1, InRange DEF Simple, Lines
  <2> QED
    BY <2>1
<1> QED
  BY <1>1 DEF Simple

LEMMA SimpleNewline ==
  ASSUME NEW of, NEW lo, NEW hi
  PROVE  Simple(nl, of, lo, hi)
BY NewlineFine DEF Simple

LEMMA SimpleEmpty ==
  ASSUME NEW of, NEW lo, NEW hi
  PROVE  Simple(<<>>, of, lo, hi)
BY EmptyText DEF Simple

(* A line, and a line with a newline.                                      *)
LEMMA SimpleLine ==
  ASSUME NEW op \in Ops \ {"%s", "EXTERN FUNCTION", "RETURN_ES"}, NEW nr \in Nat,
         NEW of \in Nat \X Nat, NEW lo, NEW hi, op = "CONST" => lo <= nr /\ nr < hi
  PROVE  LET x == Line(op, nr, of)
         IN  /\ Simple(<<x>>, of, lo, hi) /\ Simple(<<x, newline>>, of, lo, hi)
             /\ Range(<<x>>) = {x} /\ Range(<<x, newline>>) = {x, newline}
<1> DEFINE x == Line(op, nr, of)
<1>1. /\ x \in Lines /\ x.nr = nr /\ x.of = of /\ Clean(x) /\ ~ IsHeader(x) /\ ~ IsReturn(x)
      /\ IsConst(x) => lo <= nr /\ nr < hi
  <2>1. op \in Ops /\ op # "%s" /\ op # "EXTERN FUNCTION" /\ op # "RETURN_ES"
    OBVIOUS
  <2>2. x \in Lines /\ x.nr = nr /\ x.of = of
    BY <2>1, AssemblyAssumption DEF Line, Lines
  <2>3. Clean(x)
    BY <2>1, MarkLine
  <2>4. IsHeader(x) <=> op = "EXTERN FUNCTION"
    BY <2>1, MarkLine
  <2>5. IsReturn(x) <=> op = "RETURN_ES"
    BY <2>1, MarkLine
  <2>6. IsConst(x) <=> op = "CONST"
    BY <2>1, MarkLine
  <2> QED
    BY <2>1, <2>2, <2>3, <2>4, <2>5, <2>6
<1> HIDE DEF x
<1>2. newline \in Lines /\ ~ IsConst(newline) /\ ~ IsHeader(newline) /\ ~ IsReturn(newline) /\ Clean(newline)
  BY MarksType, NewlineFine
<1>3. <<x>> \in Texts /\ Range(<<x>>) = {x}
  BY <1>1, OneLine
<1>4. <<x, newline>> \in Texts /\ Range(<<x, newline>>) = {x, newline}
  BY <1>1, <1>2, TwoLines
<1>5. Simple(<<x>>, of, lo, hi)
  BY <1>1, <1>3 DEF Simple
<1>6. Simple(<<x, newline>>, of, lo, hi)
  BY <1>1, <1>2, <1>4 DEF Simple
<1> QED
  BY <1>3, <1>4, <1>5, <1>6 DEF x

LEMMA SimpleFine ==
  ASSUME NEW t, NEW of, NEW lo, NEW hi, Simple(t, of, lo, hi)
  PROVE  Plain(t, of[1]) /\ (Sorted(t) => Fine(t))
<1>1. Plain(t, of[1])
  BY DEF Simple, Plain
<1> QED
  BY <1>1, PlainFine DEF Simple

(* Texts with at most one constant.                                        *)
LEMMA SimpleSorted ==
  ASSUME NEW t, NEW of, NEW lo \in Nat, Simple(t, of, lo, lo + 1)
  PROVE  Sorted(t)
<1>1. ASSUME NEW x \in Range(t), IsConst(x) PROVE x.nr = lo
  <2>1. x.nr \in Nat /\ lo <= x.nr /\ x.nr < lo + 1
    BY <1>1, InRange DEF Simple, Lines
  <2> QED
    BY <2>1
<1> QED
  BY <1>1, SortedOne DEF Simple

LEMMA SimpleNone ==
  ASSUME NEW t, NEW of, NEW lo \in Nat, Simple(t, of, lo, lo)
  PROVE  Sorted(t) /\ \A x \in Range(t) : ~ IsConst(x)
<1>1. ASSUME NEW x \in Range(t), IsConst(x) PROVE FALSE
  <2>1. x.nr \in Nat /\ lo <= x.nr /\ x.nr < lo
    BY <1>1, InRange DEF Simple, Lines
  <2> QED
    BY <2>1
<1> QED
  BY <1>1, SortedEmpty DEF Simple

(* What is appended to a block: a text with the constants from lo on.      *)
New(t, of, lo, hi) ==
  t \in Texts /\ (library = "fills" => Fine(t) /\ Simple(t, of, lo, hi))

LEMMA ConstantNew ==
  ASSUME NEW nr \in Nat, NEW of \in Nat \X Nat
  PROVE  New(generate_constant_def(nr, of), of, nr, nr + 1)
<1> DEFINE t == <<Line("CONST", nr, of)>>
<1>1. Simple(t, of, nr, nr + 1)
  <2>1. "CONST" \in Ops \ {"%s", "EXTERN FUNCTION", "RETURN_ES"}
    BY DEF Ops
  <2>2. nr <= nr /\ nr < nr + 1
    OBVIOUS
  <2> QED
    BY <2>1, <2>2, SimpleLine, Zenon
<1> HIDE DEF t
<1>2. generate_constant_def(nr, of) = format(t)
  BY DEF generate_constant_def, t
<1>3. Fine(t) /\ t \in Texts
  BY <1>1, SimpleSorted, SimpleFine DEF Simple
<1> QED
  BY <1>1, <1>2, <1>3, FormatType DEF New

LEMMA LiteralText ==
  ASSUME NEW nr \in Nat, NEW of \in Nat \X Nat
  PROVE  /\ declare_const_and_use_code(nr, of) \in Texts
         /\ library = "fills" => Simple(declare_const_and_use_code(nr, of), of, nr, nr + 1)
<1> DEFINE x == Line("CONST", nr, of)
           y == Line("LOAD_CONST_S", nr, of)
           t == <<x, newline, y>>
<1>1. /\ x \in Lines /\ x.nr = nr /\ x.of = of /\ Clean(x) /\ ~ IsHeader(x) /\ ~ IsReturn(x)
      /\ y \in Lines /\ y.of = of /\ Clean(y) /\ ~ IsHeader(y) /\ ~ IsReturn(y) /\ ~ IsConst(y)
  <2>1. /\ "CONST" \in Ops /\ "CONST" # "%s"
        /\ "LOAD_CONST_S" \in Ops /\ "LOAD_CONST_S" # "%s"
    BY OpsAre
  <2>2. x \in Lines /\ x.nr = nr /\ x.of = of /\ y \in Lines /\ y.of = of
    BY <2>1, LineType
  <2>3. Clean(x) /\ Clean(y)
    BY <2>1, MarkLine
  <2>4. ~ IsHeader(x) /\ ~ IsHeader(y)
    BY <2>1, MarkLine
  <2>5. ~ IsReturn(x) /\ ~ IsReturn(y)
    BY <2>1, MarkLine
  <2>6. ~ IsConst(y)
    BY <2>1, MarkLine
  <2> QED
    BY <2>2, <2>3, <2>4, <2>5, <2>6
<1>2. newline \in Lines /\ ~ IsConst(newline) /\ ~ IsHeader(newline) /\ ~ IsReturn(newline) /\ Clean(newline)
  BY MarksType, NewlineFine
<1> HIDE DEF x, y
<1>3. t \in Texts /\ Range(t) = {x, newline, y}
  BY <1>1, <1>2, ThreeLines
<1> HIDE DEF t
<1>4. Simple(t, of, nr, nr + 1)
  <2>1. nr <= nr /\ nr < nr + 1
    OBVIOUS
  <2> QED
    BY <1>1, <1>2, <1>3, <2>1 DEF Simple
<1>5. declare_const_and_use_code(nr, of) = format(t)
  BY DEF declare_const_and_use_code, t, x, y
<1> QED
  BY <1>3, <1>4, <1>5, FormatType

(* The texts of the statements.                                            *)
CallText(k) ==
  IF k = 0 THEN call_void_procedure(Of) ELSE call_procedure(Parameters(k), Of)

AssignmentText(k) ==
  generate_assignment(
    IF k = 1 THEN Literal(1) ELSE generate_expression_code(Literal(1), Literal(2), Of), Of)

LEMMA LiteralNew ==
  ASSUME constant_counter \in Nat, Of \in Nat \X Nat, NEW n \in 1 .. 2
  PROVE  /\ Literal(n) \in Texts
         /\ library = "fills" => Simple(Literal(n), Of, constant_counter + n - 1, constant_counter + n)
<1> DEFINE nr == constant_counter + n - 1
<1>1. nr \in Nat /\ nr + 1 = constant_counter + n
  OBVIOUS
<1>2. Literal(n) = declare_const_and_use_code(nr, Of)
  BY DEF Literal
<1> HIDE DEF nr
<1>3. /\ Literal(n) \in Texts
      /\ library = "fills" => Simple(Literal(n), Of, nr, nr + 1)
  BY <1>1, <1>2, LiteralText
<1> QED
  BY <1>1, <1>3 DEF nr

(* The parameters are those of one call: they may be in any order.         *)
LEMMA ParametersText ==
  ASSUME constant_counter \in Nat, Of \in Nat \X Nat, NEW k \in 1 .. 2
  PROVE  /\ Parameters(k) \in Texts
         /\ library = "fills" => Simple(Parameters(k), Of, constant_counter, constant_counter + k)
<1> DEFINE c == constant_counter
           S(t) == t \in Texts /\ (library = "fills" => Simple(t, Of, c, c + k))
<1>1. ASSUME NEW t, NEW u, S(t), S(u) PROVE S(concatenate_parameter(t, u))
  <2>1. u \o nl \o t \o nl \in Texts
    BY <1>1, Joined, MarksType
  <2>2. library = "fills" => Simple(u \o nl \o t \o nl, Of, c, c + k)
    BY <1>1, SimpleJoined, SimpleNewline
  <2> QED
    BY <2>1, <2>2, FormatType DEF concatenate_parameter
<1>2. S(<<>>)
  BY EmptyText, SimpleEmpty
<1>3. ASSUME NEW n \in 1 .. k PROVE S(Literal(n))
  <2>1. /\ c + n - 1 \in Nat /\ c + n \in Nat /\ c + k \in Nat /\ n \in 1 .. 2
        /\ c <= c + n - 1 /\ c + n <= c + k
    OBVIOUS
  <2> QED
    BY <2>1, LiteralNew, SimpleGrows
<1> HIDE DEF S
<1>4. S(Parameters(k))
  <2>1. CASE k = 1
    <3>1. Parameters(k) = concatenate_parameter(Literal(1), <<>>)
      BY <2>1 DEF Parameters
    <3> QED
      BY <1>1, <1>2, <1>3, <2>1, <3>1
  <2>2. CASE k = 2
    <3>1. Parameters(k) = concatenate_parameter(Literal(1), concatenate_parameter(Literal(2), <<>>))
      BY <2>2 DEF Parameters
    <3>2. S(Literal(1)) /\ S(Literal(2))
      BY <1>3, <2>2
    <3>3. S(concatenate_parameter(Literal(2), <<>>))
      BY <1>1, <1>2, <3>2
    <3> QED
      BY <1>1, <3>1, <3>2, <3>3
  <2> QED
    BY <2>1, <2>2
<1> QED
  BY <1>4 DEF S

LEMMA CallNew ==
  ASSUME constant_counter \in Nat, Of \in Nat \X Nat, NEW k \in 0 .. 2
  PROVE  New(CallText(k), Of, constant_counter, constant_counter + k)
<1> DEFINE c == constant_counter
           y == Line("CALL_S", 0, Of)
           end == <<y, newline>>
<1>1. /\ Simple(end, Of, c, c + k) /\ Range(end) = {y, newline}
      /\ y.op = "CALL_S" /\ y.of = Of
  <2>1. "CALL_S" \in Ops \ {"%s", "EXTERN FUNCTION", "RETURN_ES"} /\ 0 \in Nat /\ "CALL_S" # "CONST"
    BY DEF Ops
  <2>2. Simple(end, Of, c, c + k) /\ Range(end) = {y, newline}
    BY <2>1, SimpleLine
  <2>3. y.op = "CALL_S" /\ y.of = Of
    BY DEF Line
  <2> QED
    BY <2>2, <2>3
<1> HIDE DEF y, end
<1>2. ASSUME NEW t, Simple(t, Of, c, c + k), y \in Range(t)
      PROVE  Fine(t) /\ t \in Texts
  <2>1. t \in Texts /\ \A x \in Range(t) : IsConst(x) => x.of = Of
    BY <1>2, NewlineFine DEF Simple
  <2>2. Sorted(t)
    BY <1>1, <1>2, <2>1, SortedCall
  <2> QED
    BY <1>2, <2>1, <2>2, SimpleFine
<1>3. CASE k = 0
  <2>1. CallText(k) = format(end)
    BY <1>3 DEF CallText, call_void_procedure, end, y
  <2>2. Fine(end) /\ end \in Texts
    BY <1>1, <1>2
  <2> QED
    BY <1>1, <2>1, <2>2, FormatType DEF New
<1>4. CASE k \in 1 .. 2
  <2> DEFINE p == Parameters(k)
             t == p \o nl \o end
  <2>1. p \in Texts /\ (library = "fills" => Simple(p, Of, c, c + k))
    BY <1>4, ParametersText
  <2>2. CallText(k) = format(t)
    BY <1>4 DEF CallText, call_procedure, end, y
  <2> HIDE DEF p
  <2>3. t \in Texts
    BY <1>1, <2>1, Joined, MarksType DEF Simple
  <2>4. ASSUME library = "fills"
        PROVE  Simple(t, Of, c, c + k) /\ y \in Range(t)
    <3>1. Simple(p \o nl, Of, c, c + k)
      BY <2>1, <2>4, SimpleJoined, SimpleNewline
    <3> QED
      BY <1>1, <3>1, SimpleJoined
  <2> HIDE DEF t
  <2>5. library = "fills" => Fine(t)
    BY <1>2, <2>4
  <2> QED
    BY <2>2, <2>3, <2>4, <2>5, FormatType DEF New
<1> QED
  BY <1>3, <1>4

LEMMA AssignmentNew ==
  ASSUME constant_counter \in Nat, Of \in Nat \X Nat, NEW k \in 1 .. 2
  PROVE  New(AssignmentText(k), Of, constant_counter, constant_counter + k)
<1> DEFINE c == constant_counter
           add == <<Line("ADD", 0, Of), newline>>
           store == <<Line("STORE_VAR_S", 0, Of), newline>>
           Good(t, n) == /\ t \in Texts
                         /\ library = "fills" => Simple(t, Of, c, c + n) /\ Sorted(t)
<1>1. ASSUME NEW lo \in Nat, NEW hi \in Nat
      PROVE  /\ Simple(add, Of, lo, hi) /\ Sorted(add) /\ \A x \in Range(add) : ~ IsConst(x)
             /\ Simple(store, Of, lo, hi) /\ Sorted(store) /\ \A x \in Range(store) : ~ IsConst(x)
  <2>1. /\ "ADD" \in Ops \ {"%s", "EXTERN FUNCTION", "RETURN_ES"} /\ "ADD" # "CONST"
        /\ "STORE_VAR_S" \in Ops \ {"%s", "EXTERN FUNCTION", "RETURN_ES"}
        /\ "STORE_VAR_S" # "CONST" /\ 0 \in Nat
    BY DEF Ops
  <2>2. ASSUME NEW l, NEW h PROVE Simple(add, Of, l, h) /\ Simple(store, Of, l, h)
    BY <2>1, SimpleLine
  <2> HIDE DEF add, store
  <2>3. Simple(add, Of, 0, 0) /\ Simple(store, Of, 0, 0)
    BY <2>2
  <2> QED
    BY <2>1, <2>2, <2>3, SimpleNone
<1> HIDE DEF add, store
<1>2. Good(Literal(1), 1)
  <2>1. 1 \in 1 .. 2 /\ c + 1 - 1 = c
    OBVIOUS
  <2>2. /\ Literal(1) \in Texts
        /\ library = "fills" => Simple(Literal(1), Of, c, c + 1)
    BY <2>1, LiteralNew
  <2> QED
    BY <2>2, SimpleSorted
<1>3. /\ Literal(2) \in Texts
      /\ library = "fills" => Simple(Literal(2), Of, c + 1, c + 2)
  <2>1. 2 \in 1 .. 2 /\ c + 2 - 1 = c + 1
    OBVIOUS
  <2> QED
    BY <2>1, LiteralNew
(* Nothing of what follows has a constant.                                 *)
<1>4. ASSUME NEW t, NEW n \in 1 .. 2, Good(t, n), NEW z \in {add, store}
      PROVE  Good(t \o nl \o z, n)
  <2>1. z \in Texts /\ Simple(z, Of, c, c + n) /\ Sorted(z) /\ \A x \in Range(z) : ~ IsConst(x) /\ ~ IsHeader(x)
    BY <1>1 DEF Simple
  <2>2. t \o nl \in Texts /\ t \o nl \o z \in Texts
    BY <1>4, <2>1, Joined, MarksType
  <2>3. ASSUME library = "fills"
        PROVE  Simple(t \o nl \o z, Of, c, c + n) /\ Sorted(t \o nl \o z)
    <3>1. Simple(t \o nl, Of, c, c + n) /\ Simple(t \o nl \o z, Of, c, c + n)
      BY <1>4, <2>1, <2>3, SimpleJoined, SimpleNewline
    <3>2. Sorted(t \o nl)
      BY <1>4, <2>3, BeforeNewline, NewlineFine, SortedJoined DEF Fine
    <3>3. Before(t \o nl, z)
      BY <2>1 DEF Before
    <3> QED
      BY <2>1, <2>2, <3>1, <3>2, <3>3, SortedJoined
  <2> QED
    BY <2>2, <2>3
<1>5. ASSUME NEW e, Good(e, k), AssignmentText(k) = generate_assignment(e, Of)
      PROVE  New(AssignmentText(k), Of, c, c + k)
  <2> DEFINE t == e \o nl \o store
  <2>1. Good(t, k)
    BY <1>4, <1>5
  <2>2. AssignmentText(k) = format(t)
    BY <1>5 DEF generate_assignment, store
  <2> HIDE DEF t
  <2> QED
    BY <2>1, <2>2, FormatType, SimpleFine DEF New
<1>6. CASE k = 1
  BY <1>2, <1>5, <1>6 DEF AssignmentText
<1>7. CASE k = 2
  <2> DEFINE a == Literal(1)
             b == Literal(2)
             t == a \o nl \o b
             u == t \o nl \o add
  <2>1. a \in Texts /\ b \in Texts /\ t \in Texts
    BY <1>2, <1>3, Joined, MarksType
  <2>2. /\ AssignmentText(k) = generate_assignment(generate_expression_code(a, b, Of), Of)
        /\ generate_expression_code(a, b, Of) = format(u)
    BY <1>7 DEF AssignmentText, generate_expression_code, add
  <2> HIDE DEF a, b
  <2>3. ASSUME library = "fills"
        PROVE  Simple(t, Of, c, c + 2) /\ Sorted(t)
    <3>1. Simple(a, Of, c, c + 1) /\ Sorted(a) /\ Simple(b, Of, c + 1, c + 2)
      BY <1>2, <1>3, <2>3 DEF a, b
    <3>2. Sorted(b)
      <4>1. c + 1 \in Nat /\ (c + 1) + 1 = c + 2
        OBVIOUS
      <4> QED
        BY <3>1, <4>1, SimpleSorted
    <3>3. Before(a, b)
      <4>1. ASSUME NEW x \in Range(a), NEW y \in Range(b), IsConst(x), IsConst(y)
            PROVE  x.nr <= y.nr
        <5>1. x.nr \in Nat /\ y.nr \in Nat /\ x.nr < c + 1 /\ c + 1 <= y.nr
          BY <2>1, <3>1, <4>1, InRange DEF Simple, Lines
        <5> QED
          BY <5>1
      <4> QED
        BY <3>1, <4>1 DEF Before, Simple
    <3>4. Simple(a, Of, c, c + 2) /\ Simple(b, Of, c, c + 2)
      <4>1. c + 1 \in Nat /\ c + 2 \in Nat /\ c <= c + 1 /\ c + 1 <= c + 2 /\ c <= c /\ c + 2 <= c + 2
        OBVIOUS
      <4> QED
        BY <3>1, <4>1, SimpleGrows
    <3>5. Simple(a \o nl, Of, c, c + 2) /\ Simple(t, Of, c, c + 2)
      BY <3>4, SimpleJoined, SimpleNewline
    <3>6. Sorted(a \o nl) /\ a \o nl \in Texts
      BY <2>1, <3>1, BeforeNewline, NewlineFine, SortedJoined, Joined DEF Fine
    <3>7. Before(a \o nl, b)
      BY <2>1, <3>3, BeforeNewline, BeforeJoined, NewlineFine
    <3> QED
      BY <2>1, <3>2, <3>5, <3>6, <3>7, SortedJoined
  <2>4. Good(t, 2)
    BY <2>1, <2>3
  <2> HIDE DEF t
  <2>5. Good(u, 2)
    BY <1>4, <2>4
  <2> HIDE DEF u
  <2>6. u \in Texts /\ format(u) \in Texts /\ (library = "fills" => format(u) = u)
    BY <2>5, FormatType
  <2>7. Good(format(u), k)
    BY <1>7, <2>5, <2>6
  <2> QED
    BY <1>5, <2>2, <2>7
<1> QED
  BY <1>6, <1>7

-----------------------------------------------------------------------------
(* The body of a function                                                  *)

(* From a header to a return.                                              *)
Enclosed(h, u, r) == (<<h>> \o u) \o <<r>>

LEMMA SegmentFine ==
  ASSUME NEW fn, NEW h \in Lines, IsHeader(h), Clean(h), h.of[1] = fn,
         NEW r \in Lines, IsReturn(r), Clean(r), r.of[1] = fn,
         NEW u, Fine(u), Plain(u, fn)
  PROVE  /\ Fine(Enclosed(h, u, r))
         /\ Range(Enclosed(h, u, r)) = {h, r} \cup Range(u)
<1> DEFINE a == <<h>>
           c == <<r>>
           t == a \o u
           w == t \o c
<1>1. /\ a \in Texts /\ Len(a) = 1 /\ a[1] = h /\ Range(a) = {h}
      /\ c \in Texts /\ Len(c) = 1 /\ c[1] = r /\ Range(c) = {r}
  BY OneLine
<1>2. u \in Texts /\ ~ IsConst(h) /\ ~ IsReturn(h) /\ ~ IsConst(r) /\ ~ IsHeader(r)
  BY DEF Fine, IsConst, IsReturn, IsHeader
<1> HIDE DEF a, c
<1>3. t \in Texts /\ Range(t) = {h} \cup Range(u) /\ w \in Texts /\ Range(w) = {h, r} \cup Range(u)
  <2>0. a \in Texts /\ c \in Texts /\ u \in Texts
    BY <1>1, <1>2
  <2>1. a \o u \in Texts /\ Range(a \o u) = Range(a) \cup Range(u)
    BY <2>0, Joined
  <2>2. t \in Texts /\ Range(t) = {h} \cup Range(u)
    BY <1>1, <2>1
  <2> HIDE DEF t
  <2>3. t \o c \in Texts /\ Range(t \o c) = Range(t) \cup Range(c)
    BY <2>0, <2>2, Joined
  <2> QED
    BY <1>1, <2>2, <2>3
<1>4. \A x \in Range(u) : ~ IsHeader(x) /\ ~ IsReturn(x) /\ (x = newline \/ x.of[1] = fn)
  BY DEF Plain
<1>5. Before(a, u) /\ Before(t, c)
  BY <1>1, <1>2, <1>3, <1>4 DEF Before
<1>6. Sorted(a) /\ Sorted(c)
  BY <1>1, <1>2, SortedEmpty
<1>7. Sorted(w)
  <2>1. Sorted(a \o u)
    BY <1>1, <1>2, <1>5, <1>6, SortedJoined DEF Fine
  <2> HIDE DEF t
  <2>2. Sorted(t \o c)
    <3>1. Sorted(t)
      BY <2>1 DEF t
    <3> QED
      BY <1>1, <1>3, <1>5, <1>6, <3>1, SortedJoined
  <2> QED
    BY <2>2
<1>8. /\ Len(u) \in Nat /\ DOMAIN w = 1 .. Len(u) + 2
      /\ w[1] = h /\ w[Len(u) + 2] = r
      /\ \A n \in 2 .. Len(u) + 1 : w[n] \in Range(u)
  <2>1. /\ Len(u) \in Nat /\ DOMAIN u = 1 .. Len(u) /\ DOMAIN a = 1 .. 1
        /\ Len(t) = 1 + Len(u) /\ t[1] = h
        /\ \A n \in DOMAIN u : t[1 + n] = u[n]
    <3>1. /\ Len(a \o u) = Len(a) + Len(u) /\ Len(u) \in Nat
          /\ DOMAIN u = 1 .. Len(u) /\ DOMAIN a = 1 .. Len(a)
          /\ \A n \in 1 .. Len(a) : (a \o u)[n] = a[n]
          /\ \A n \in 1 .. Len(u) : (a \o u)[Len(a) + n] = u[n]
      BY <1>1, <1>2, Joined
    <3>2. 1 \in 1 .. Len(a)
      BY <1>1
    <3> QED
      BY <1>1, <3>1, <3>2
  <2> HIDE DEF t
  <2>2. /\ Len(t) \in Nat /\ DOMAIN t = 1 .. Len(t) /\ DOMAIN w = 1 .. Len(t) + 1
        /\ w[Len(t) + 1] = r
        /\ \A n \in DOMAIN t : w[n] = t[n]
    <3>1. /\ Len(t) \in Nat /\ DOMAIN t = 1 .. Len(t)
          /\ DOMAIN (t \o c) = 1 .. Len(t) + Len(c)
          /\ \A n \in 1 .. Len(t) : (t \o c)[n] = t[n]
          /\ \A n \in 1 .. Len(c) : (t \o c)[Len(t) + n] = c[n]
      BY <1>1, <1>3, Joined
    <3>2. 1 \in 1 .. Len(c)
      BY <1>1
    <3> QED
      BY <1>1, <3>1, <3>2
  <2>3. DOMAIN w = 1 .. Len(u) + 2
    BY <2>1, <2>2
  <2> HIDE DEF t, w
  <2>4. ASSUME NEW n \in 2 .. Len(u) + 1 PROVE w[n] \in Range(u)
    <3>1. n - 1 \in DOMAIN u /\ n = 1 + (n - 1) /\ n \in DOMAIN t
      BY <2>1, <2>2
    <3>2. w[n] = u[n - 1]
      BY <2>1, <2>2, <3>1
    <3> QED
      BY <1>2, <3>1, <3>2, InRange
  <2>5. Len(t) + 1 = Len(u) + 2 /\ 1 \in DOMAIN t
    BY <2>1, <2>2
  <2> QED
    BY <2>1, <2>2, <2>3, <2>4, <2>5
<1> HIDE DEF w, t
<1>9. \A n \in DOMAIN w : IsHeader(w[n]) => n = 1
  <2>1. \A n \in 1 .. Len(u) + 2 : n = 1 \/ n = Len(u) + 2 \/ n \in 2 .. Len(u) + 1
    BY <1>8
  <2> QED
    BY <1>2, <1>4, <1>8, <2>1
<1>10. Rising(w)
  BY <1>8, <1>9 DEF Rising
<1>11. Segment(w, 1, Len(u) + 2)
  <2>1. 1 < Len(u) + 2 /\ \A n \in 1 .. Len(u) + 2 : n = 1 \/ n = Len(u) + 2 \/ n \in 2 .. Len(u) + 1
    BY <1>8
  <2>2. \A n \in 1 .. Len(u) + 2 : n < Len(u) + 2 => n = 1 \/ n \in 2 .. Len(u) + 1
    BY <1>8
  <2> QED
    BY <1>2, <1>4, <1>8, <2>1, <2>2 DEF Segment
<1>12. Apart(w)
  <2>1. Len(u) + 2 \in DOMAIN w
    BY <1>8
  <2> QED
    BY <1>9, <1>11, <2>1 DEF Apart
<1>13. \A x \in Range(w) : Clean(x)
  BY <1>3 DEF Fine
<1> QED
  BY <1>3, <1>7, <1>10, <1>12, <1>13 DEF Fine, Enclosed, w, t, a, c

LEMMA Associative ==
  ASSUME NEW t \in Texts, NEW u \in Texts, NEW w \in Texts
  PROVE  (t \o u) \o w = t \o (u \o w)
BY ConcatAssociative DEF Texts

(* The templates of a function, without what vsnprintf may cut off.        *)
HeaderText(nr, of) ==
  nl \o <<Line("EXTERN FUNCTION", nr, of)>> \o nl \o <<Line("FUNCVARS", 0, of)>> \o nl

Template(const_part, proc_part, block_code, of) ==
  const_part \o nl \o nl \o proc_part \o nl \o <<percent>> \o nl
    \o block_code \o nl \o <<Line("RETURN_ES", 0, of)>>

LEMMA TemplatesType ==
  ASSUME NEW nr \in Nat, NEW of \in Nat \X Nat,
         NEW cp \in Texts, NEW pp \in Texts, NEW bc \in Texts
  PROVE  /\ HeaderText(nr, of) \in Texts /\ Template(cp, pp, bc, of) \in Texts
         /\ header(nr, of) \in Texts /\ generate_block_body(cp, pp, bc, of) \in Texts
         /\ library = "fills" => /\ header(nr, of) = HeaderText(nr, of)
                                 /\ generate_block_body(cp, pp, bc, of) = Template(cp, pp, bc, of)
<1> DEFINE h == <<Line("EXTERN FUNCTION", nr, of)>>
           v == <<Line("FUNCVARS", 0, of)>>
           r == <<Line("RETURN_ES", 0, of)>>
           m == <<percent>>
<1>1. h \in Texts /\ v \in Texts /\ r \in Texts /\ m \in Texts
  <2>1. /\ Line("EXTERN FUNCTION", nr, of) \in Lines /\ Line("FUNCVARS", 0, of) \in Lines
        /\ Line("RETURN_ES", 0, of) \in Lines /\ percent \in Lines
    BY OpsAre, LineType, MarksType
  <2> QED
    BY <2>1, OneLine
<1>2. /\ HeaderText(nr, of) = nl \o h \o nl \o v \o nl
      /\ Template(cp, pp, bc, of) = cp \o nl \o nl \o pp \o nl \o m \o nl \o bc \o nl \o r
      /\ header(nr, of) = format(nl \o h \o nl \o v \o nl)
      /\ generate_block_body(cp, pp, bc, of) =
           format(cp \o nl \o nl \o pp \o nl \o m \o nl \o bc \o nl \o r)
  BY DEF HeaderText, Template, header, generate_block_body
<1> HIDE DEF h, v, r, m
<1>3. nl \o h \o nl \o v \o nl \in Texts
  BY <1>1, Joined, MarksType
<1>4. cp \o nl \o nl \o pp \o nl \in Texts
  BY Joined, MarksType
<1>5. cp \o nl \o nl \o pp \o nl \o m \o nl \o bc \o nl \o r \in Texts
  BY <1>1, <1>4, Joined, MarksType
<1> QED
  BY <1>2, <1>3, <1>5, FormatType

Join(t, u) == t \o u

LEMMA Joining ==
  ASSUME NEW t \in Texts, NEW u \in Texts
  PROVE  Join(t, u) \in Texts
BY Joined DEF Join

LEMMA JoinAssociative ==
  ASSUME NEW t \in Texts, NEW u \in Texts, NEW w \in Texts
  PROVE  Join(Join(t, u), w) = Join(t, Join(u, w))
BY Associative DEF Join

LEMMA Longer ==
  ASSUME NEW t \in Texts, NEW u \in Texts, NEW w \in Texts, NEW z \in Texts
  PROVE  Join(Join(t, Join(u, w)), z) = Join(t, Join(u, Join(w, z)))
<1>1. Join(u, w) \in Texts
  BY Joining
<1> QED
  BY <1>1, JoinAssociative

(* The lines of a function after a, and the same taken together.           *)
After(a, i, n, bc, r) == a \o i \o n \o bc \o n \o r

Heading(n, h, v) == n \o h \o n \o v \o n

Together(a, n, h, v, bc, r) == (a \o n) \o ((h \o (n \o v \o n \o n \o bc \o n)) \o r)

LEMMA Regrouped ==
  ASSUME NEW a \in Texts, NEW n \in Texts, NEW h \in Texts, NEW v \in Texts,
         NEW bc \in Texts, NEW r \in Texts
  PROVE  After(a, Heading(n, h, v), n, bc, r) = Together(a, n, h, v, bc, r)
<1> DEFINE x  == Join(a, n)
           i1 == Join(n, h)
           i2 == Join(i1, n)
           i3 == Join(i2, v)
           b1 == Join(n, v)
           b2 == Join(b1, n)
           b3 == Join(b2, n)
           b4 == Join(b3, bc)
           b  == Join(b4, n)
<1>1. x \in Texts /\ i1 \in Texts /\ i2 \in Texts /\ i3 \in Texts
  BY Joining
<1>2. b1 \in Texts /\ b2 \in Texts /\ b3 \in Texts
  BY Joining
<1>3. b4 \in Texts /\ b \in Texts /\ Join(h, b) \in Texts
  BY <1>2, Joining
<1>4. /\ Join(a, Join(i3, n)) = Join(Join(a, i3), n)
      /\ Join(a, i3) = Join(Join(a, i2), v)
      /\ Join(a, i2) = Join(Join(a, i1), n)
      /\ Join(a, i1) = Join(x, h)
  <2> HIDE DEF x, i1, i2, i3
  <2>1. Join(a, Join(i3, n)) = Join(Join(a, i3), n)
    BY <1>1, JoinAssociative
  <2>2. Join(a, i3) = Join(Join(a, i2), v)
    BY <1>1, JoinAssociative DEF i3
  <2>3. Join(a, i2) = Join(Join(a, i1), n)
    BY <1>1, JoinAssociative DEF i2
  <2>4. Join(a, i1) = Join(x, h)
    BY JoinAssociative DEF i1, x
  <2> QED
    BY <2>1, <2>2, <2>3, <2>4
<1>5. b2 = Join(b1, n) /\ b3 = Join(b2, n) /\ b4 = Join(b3, bc) /\ b = Join(b4, n) /\ b1 = Join(n, v)
  OBVIOUS
<1> HIDE DEF x, i1, i2, i3, b1, b2, b3, b4, b
<1>6. Join(Join(x, h), n) = Join(x, Join(h, n))
  BY <1>1, JoinAssociative
<1>7. Join(Join(x, Join(h, n)), v) = Join(x, Join(h, b1))
  BY <1>1, <1>5, Longer
<1>8. Join(Join(x, Join(h, b1)), n) = Join(x, Join(h, b2))
  BY <1>1, <1>2, <1>5, Longer
<1>9. Join(Join(x, Join(h, b2)), n) = Join(x, Join(h, b3))
  BY <1>1, <1>2, <1>5, Longer
<1>10. Join(Join(x, Join(h, b3)), bc) = Join(x, Join(h, b4))
  BY <1>1, <1>2, <1>5, Longer
<1>11. Join(Join(x, Join(h, b4)), n) = Join(x, Join(h, b))
  BY <1>1, <1>3, <1>5, Longer
<1>12. Join(Join(x, Join(h, b)), r) = Join(x, Join(Join(h, b), r))
  BY <1>1, <1>3, JoinAssociative
<1>13. Join(Join(Join(Join(Join(a, Join(i3, n)), n), bc), n), r) = Join(x, Join(Join(h, b), r))
  BY <1>4, <1>6, <1>7, <1>8, <1>9, <1>10, <1>11, <1>12
<1> QED
  BY <1>13 DEF After, Heading, Together, Join, x, i1, i2, i3, b1, b2, b3, b4, b

(* What is inserted: the header, between the procedures and the code.      *)
LEMMA InsertedIs ==
  ASSUME NEW a \in Texts, NEW n \in Texts, NEW bc \in Texts, NEW r \in Texts, NEW i \in Texts,
         \A x \in Range(a) \cup Range(n) \cup Range(bc) \cup Range(r) : x.op # "%s"
  PROVE  Filled(After(a, <<percent>>, n, bc, r), i) = After(a, i, n, bc, r)
<1> DEFINE m == <<percent>>
           F(t) == Filled(t, i)
<1>1. F(a) = a
  BY FilledWhole
<1>2. a \o m \in Texts /\ F(a \o m) = a \o i
  <2>1. m \in Texts /\ percent \in Lines
    BY MarksType, OneLine
  <2>2. F(a \o m) = F(a) \o i
    BY <2>1, FilledLine
  <2> QED
    BY <1>1, <2>1, <2>2, Joined
<1> HIDE DEF m, F
<1>3. ASSUME NEW t \in Texts, NEW u \in {n, bc, r}
      PROVE  t \o u \in Texts /\ F(t \o u) = F(t) \o u
  <2>1. u \in Texts /\ \A x \in Range(u) : x.op # "%s"
    OBVIOUS
  <2>2. t \o u \in Texts
    BY <2>1, Joined
  <2> QED
    BY <2>1, <2>2, FilledPlain DEF F
<1>4. a \o m \o n \in Texts /\ F(a \o m \o n) = a \o i \o n
  BY <1>2, <1>3
<1>5. a \o m \o n \o bc \in Texts /\ F(a \o m \o n \o bc) = a \o i \o n \o bc
  BY <1>3, <1>4
<1>6. a \o m \o n \o bc \o n \in Texts /\ F(a \o m \o n \o bc \o n) = a \o i \o n \o bc \o n
  BY <1>3, <1>5
<1>7. F(a \o m \o n \o bc \o n \o r) = a \o i \o n \o bc \o n \o r
  BY <1>3, <1>6
<1> QED
  BY <1>7 DEF After, m, F

LEMMA FinePlus ==
  ASSUME NEW t, NEW u, Fine(t), Fine(u), Before(t, u)
  PROVE  /\ Fine(t \o u) /\ Range(t \o u) = Range(t) \cup Range(u)
         /\ \A fn : Plain(t, fn) /\ Plain(u, fn) => Plain(t \o u, fn)
<1>1. t \in Texts /\ u \in Texts
  BY DEF Fine
<1>2. Fine(t \o u)
  BY FineJoined
<1>3. Range(t \o u) = Range(t) \cup Range(u)
  BY <1>1, Joined
<1>4. \A fn : Plain(t, fn) /\ Plain(u, fn) => Plain(t \o u, fn)
  BY <1>1, PlainJoined
<1> QED
  BY <1>2, <1>3, <1>4

LEMMA FineNewline ==
  ASSUME NEW t, Fine(t)
  PROVE  /\ Fine(t \o nl) /\ Range(t \o nl) = Range(t) \cup {newline}
         /\ \A fn : Plain(t, fn) => Plain(t \o nl, fn)
<1>1. t \in Texts
  BY DEF Fine
<1> QED
  BY <1>1, NewlineFine, BeforeNewline, FineJoined, PlainJoined, Joined

(* A text without constants and headers may stand before any other.        *)
LEMMA BeforeAny ==
  ASSUME NEW t, NEW u, \A x \in Range(t) : ~ IsConst(x) /\ ~ IsHeader(x)
  PROVE  Before(t, u) /\ Before(u, t)
BY DEF Before

(* The lines of a function without its header and its return.              *)
LEMMA InsideFine ==
  ASSUME NEW of \in Nat \X Nat, NEW bc, Fine(bc), Plain(bc, of[1])
  PROVE  LET y == Line("FUNCVARS", 0, of)
             u == nl \o <<y>> \o nl \o nl \o bc \o nl
         IN  /\ Fine(u) /\ Plain(u, of[1])
             /\ Range(u) = {newline, y} \cup Range(bc)
             /\ ~ IsConst(y) /\ ~ IsHeader(y)
<1> DEFINE y == Line("FUNCVARS", 0, of)
           v == <<y>>
           a == nl \o v
           b == a \o nl
           c == b \o nl
           d == c \o bc
           u == d \o nl
<1>1. Fine(v) /\ v \in Texts /\ Plain(v, of[1]) /\ Range(v) = {y} /\ ~ IsConst(y) /\ ~ IsHeader(y)
  <2>1. /\ "FUNCVARS" \in Ops \ {"%s", "EXTERN FUNCTION", "RETURN_ES"} /\ "FUNCVARS" # "CONST"
        /\ 0 \in Nat
    BY DEF Ops
  <2>2. Simple(v, of, 0, 0) /\ Range(v) = {y}
    BY <2>1, SimpleLine
  <2>3. Plain(v, of[1]) /\ Fine(v) /\ \A x \in Range(v) : ~ IsConst(x)
    BY <2>2, SimpleNone, SimpleFine
  <2> QED
    BY <2>2, <2>3 DEF Simple
<1> HIDE DEF y, v
<1>2. Fine(a) /\ Plain(a, of[1]) /\ Range(a) = {newline, y}
  <2>1. Fine(nl) /\ nl \in Texts /\ Range(nl) = {newline} /\ Plain(nl, of[1])
    BY NewlineFine
  <2>2. Before(nl, v)
    BY BeforeNewline
  <2>3. Fine(nl \o v) /\ Range(nl \o v) = Range(nl) \cup Range(v) /\ Plain(nl \o v, of[1])
    BY <1>1, <2>1, <2>2, FinePlus
  <2> QED
    BY <1>1, <2>1, <2>3
<1> HIDE DEF a
<1>3. Fine(b) /\ Plain(b, of[1]) /\ Range(b) = {newline, y}
  BY <1>2, FineNewline
<1> HIDE DEF b
<1>4. Fine(c) /\ Plain(c, of[1]) /\ Range(c) = {newline, y}
  BY <1>3, FineNewline
<1> HIDE DEF c
<1>5. Fine(d) /\ Plain(d, of[1]) /\ Range(d) = {newline, y} \cup Range(bc)
  <2>2. Before(c, bc)
    BY <1>1, <1>4, NewlineFine, BeforeAny
  <2>3. Fine(c \o bc) /\ Range(c \o bc) = Range(c) \cup Range(bc) /\ Plain(c \o bc, of[1])
    BY <1>4, <2>2, FinePlus
  <2> QED
    BY <1>4, <2>3
<1> HIDE DEF d
<1>6. Fine(u) /\ Plain(u, of[1]) /\ Range(u) = {newline, y} \cup Range(bc)
  BY <1>5, FineNewline
<1> HIDE DEF u
<1> QED
  BY <1>1, <1>6 DEF u, d, c, b, a, v, y

(* The text of a function is in order if its parts are, and if its number  *)
(* follows those of the procedures in it.                                  *)
Put(cp, pp, bc, nr, of) == Inserted(generate_block_body(cp, pp, bc, of), header(nr, of))

(* w is in order, has the header h and the lines of parts, and no other     *)
(* header or constant.                                                     *)
Result(w, h, parts, nr) ==
  /\ Fine(w) /\ IsHeader(h) /\ ~ IsConst(h) /\ h.nr = nr
  /\ parts \cup {h} \subseteq Range(w)
  /\ \A x \in Range(w) : x \in parts \/ x = h \/ (~ IsConst(x) /\ ~ IsHeader(x))

LEMMA InsertedFine ==
  ASSUME library = "fills", NEW nr \in Nat, NEW of \in Nat \X Nat,
         NEW cp, NEW pp, NEW bc, Fine(cp), Fine(pp), Fine(bc), Plain(bc, of[1]),
         Before(cp, pp), Before(cp, bc), Before(pp, bc),
         \A x \in Range(cp) \cup Range(pp) : IsHeader(x) => x.nr < nr
  PROVE  Result(Put(cp, pp, bc, nr, of), Line("EXTERN FUNCTION", nr, of),
                Range(cp) \cup Range(pp) \cup Range(bc), nr)
<1> DEFINE h == Line("EXTERN FUNCTION", nr, of)
           r == Line("RETURN_ES", 0, of)
           y == Line("FUNCVARS", 0, of)
           w == Inserted(generate_block_body(cp, pp, bc, of), header(nr, of))
           parts == Range(cp) \cup Range(pp) \cup Range(bc)
           a1 == cp \o nl
           a2 == a1 \o nl \o pp
           a == a2 \o nl
           u == nl \o <<y>> \o nl \o nl \o bc \o nl
           s == (<<h>> \o u) \o <<r>>
           x1 == a \o nl
<1>1. cp \in Texts /\ pp \in Texts /\ bc \in Texts
  BY DEF Fine
<1>2. /\ h \in Lines /\ IsHeader(h) /\ ~ IsConst(h) /\ Clean(h) /\ h.of = of /\ h.nr = nr
      /\ r \in Lines /\ IsReturn(r) /\ ~ IsConst(r) /\ ~ IsHeader(r) /\ Clean(r) /\ r.of = of
      /\ y \in Lines
  <2>1. /\ "EXTERN FUNCTION" \in Ops /\ "EXTERN FUNCTION" # "%s" /\ 0 \in Nat
        /\ "RETURN_ES" \in Ops /\ "RETURN_ES" # "%s" /\ "FUNCVARS" \in Ops
    BY DEF Ops
  <2>2. h \in Lines /\ h.of = of /\ h.nr = nr /\ r \in Lines /\ r.of = of /\ y \in Lines
    BY <2>1, AssemblyAssumption DEF Line, Lines
  <2>3. Clean(h) /\ Clean(r)
    BY <2>1, MarkLine
  <2>4. IsHeader(h) /\ ~ IsHeader(r)
    BY <2>1, MarkLine
  <2>5. IsReturn(r)
    BY <2>1, MarkLine
  <2>6. ~ IsConst(h) /\ ~ IsConst(r)
    BY <2>1, MarkLine
  <2> QED
    BY <2>2, <2>3, <2>4, <2>5, <2>6
<1>3. Fine(a) /\ Range(a) = Range(cp) \cup Range(pp) \cup {newline} /\ a \in Texts
  <2>1. Fine(a1) /\ Range(a1) = Range(cp) \cup {newline} /\ a1 \in Texts
    BY FineNewline DEF Fine
  <2>2. Before(a1, pp)
    BY <1>1, NewlineFine, BeforeNewline, BeforeJoined
  <2> HIDE DEF a1
  <2>3. Fine(a2) /\ Range(a2) = Range(cp) \cup Range(pp) \cup {newline}
    BY <2>1, <2>2, Lined
  <2> HIDE DEF a2
  <2> QED
    BY <2>3, FineNewline DEF Fine
<1>4. /\ Fine(u) /\ Plain(u, of[1]) /\ Range(u) = {newline, y} \cup Range(bc)
      /\ ~ IsConst(y) /\ ~ IsHeader(y)
  BY InsideFine
<1>5. a = cp \o nl \o nl \o pp \o nl
  OBVIOUS
<1> HIDE DEF u, a, a1, a2
<1>6. Fine(s) /\ Range(s) = {h, r} \cup Range(u)
  <2> HIDE DEF h, r
  <2>1. h.of[1] = of[1] /\ r.of[1] = of[1]
    BY <1>2
  <2>2. /\ Fine(Enclosed(h, u, r))
        /\ Range(Enclosed(h, u, r)) = {h, r} \cup Range(u)
    <3>1. h \in Lines /\ IsHeader(h) /\ Clean(h) /\ r \in Lines /\ IsReturn(r) /\ Clean(r)
      BY <1>2
    <3>2. Fine(u) /\ Plain(u, of[1])
      BY <1>4
    <3> QED
      BY <2>1, <3>1, <3>2, SegmentFine
  <2> QED
    BY <2>2 DEF Enclosed
<1>7. Fine(x1) /\ Range(x1) = Range(cp) \cup Range(pp) \cup {newline}
  BY <1>3, FineNewline
<1>8. w = x1 \o s
  <2> DEFINE hh == <<h>>
             yy == <<y>>
             rr == <<r>>
             i == nl \o hh \o nl \o yy \o nl
             t == a \o <<percent>> \o nl \o bc \o nl \o rr
  <2>1. /\ header(nr, of) = i /\ i \in Texts
        /\ generate_block_body(cp, pp, bc, of) = t /\ t \in Texts
    <3>1. header(nr, of) = HeaderText(nr, of) /\ HeaderText(nr, of) \in Texts
      BY <1>1, TemplatesType
    <3>2. /\ generate_block_body(cp, pp, bc, of) = Template(cp, pp, bc, of)
          /\ Template(cp, pp, bc, of) \in Texts
      BY <1>1, TemplatesType
    <3>3. HeaderText(nr, of) = i
      BY DEF HeaderText
    <3>4. Template(cp, pp, bc, of) = t
      BY <1>5 DEF Template
    <3> QED
      BY <3>1, <3>2, <3>3, <3>4
  <2>2. /\ hh \in Texts /\ yy \in Texts /\ rr \in Texts /\ Range(rr) = {r}
        /\ nl \in Texts /\ Range(nl) = {newline}
    BY <1>2, OneLine, NewlineFine
  <2>3. \A x \in Range(a) \cup Range(nl) \cup Range(bc) \cup Range(rr) : x.op # "%s"
    BY <1>2, <1>3, <2>2, NewlineFine DEF Fine, Clean
  <2>4. u = nl \o yy \o nl \o nl \o bc \o nl /\ s = (hh \o u) \o rr
    BY DEF u
  <2> HIDE DEF hh, yy, rr
  <2>5. i = Heading(nl, hh, yy) /\ t = After(a, <<percent>>, nl, bc, rr)
    BY DEF Heading, After
  <2> HIDE DEF i, t
  <2>6. Filled(t, i) = After(a, i, nl, bc, rr)
    <3>1. a \in Texts /\ nl \in Texts /\ bc \in Texts /\ rr \in Texts /\ i \in Texts
      BY <1>1, <1>3, <2>1, <2>2
    <3>2. Filled(After(a, <<percent>>, nl, bc, rr), i) = After(a, i, nl, bc, rr)
      BY <2>3, <3>1, InsertedIs
    <3> QED
      BY <2>5, <3>2
  <2>8. After(a, i, nl, bc, rr) = x1 \o s
    <3>1. After(a, Heading(nl, hh, yy), nl, bc, rr) = Together(a, nl, hh, yy, bc, rr)
      <4>1. a \in Texts /\ nl \in Texts /\ hh \in Texts /\ yy \in Texts /\ bc \in Texts /\ rr \in Texts
        BY <1>1, <1>3, <2>2
      <4> QED
        BY <4>1, Regrouped
    <3> QED
      BY <2>4, <2>5, <3>1 DEF Together
  <2>7. w = Filled(t, i)
    <3> HIDE DEF i, t
    <3> QED
      BY <2>1, FilledType, FormatType DEF Inserted
  <2> QED
    BY <2>6, <2>7, <2>8
<1> HIDE DEF x1, s, w
<1>9. Before(x1, s)
  <2>1. \A x \in Range(s) : \/ x = h \/ x = r \/ x = newline \/ x = y \/ x \in Range(bc)
    BY <1>4, <1>6
  <2>2. \A x \in Range(x1) : x = newline \/ x \in Range(cp) \/ x \in Range(pp)
    BY <1>7
  <2>3. \A x \in Range(bc) : ~ IsHeader(x)
    BY DEF Plain
  <2> HIDE DEF h, r, y
  <2>4. ASSUME NEW x \in Range(x1), NEW z \in Range(s), IsConst(x), IsConst(z)
        PROVE  x.nr <= z.nr
    <3>1. z \in Range(bc)
      BY <1>2, <1>4, <2>1, <2>4, NewlineFine
    <3>2. x \in Range(cp) \/ x \in Range(pp)
      BY <2>2, <2>4, NewlineFine
    <3> QED
      BY <2>4, <3>1, <3>2 DEF Before
  <2>5. ASSUME NEW x \in Range(x1), NEW z \in Range(s), IsHeader(x), IsHeader(z)
        PROVE  x.nr < z.nr
    <3>1. z = h
      BY <1>2, <1>4, <2>1, <2>3, <2>5, NewlineFine
    <3>2. x \in Range(cp) \/ x \in Range(pp)
      BY <2>2, <2>5, NewlineFine
    <3> QED
      BY <1>2, <2>5, <3>1, <3>2
  <2> QED
    BY <2>4, <2>5 DEF Before
<1>10. Fine(w) /\ Range(w) = Range(x1) \cup Range(s)
  BY <1>6, <1>7, <1>8, <1>9, FineJoined, Joined DEF Fine
<1>11. parts \cup {h} \subseteq Range(w)
  BY <1>4, <1>6, <1>7, <1>10
<1>12. \A x \in Range(w) : x \in parts \/ x = h \/ (~ IsConst(x) /\ ~ IsHeader(x))
  <2> HIDE DEF h, r, y
  <2> QED
    BY <1>2, <1>4, <1>6, <1>7, <1>10, NewlineFine
<1> HIDE DEF h, r, y, parts
<1>13. Result(w, h, parts, nr)
  BY <1>2, <1>10, <1>11, <1>12 DEF Result
<1> QED
  BY <1>13 DEF Put, parts, w, h

LEMMA InsertedType ==
  ASSUME NEW nr \in Nat, NEW of \in Nat \X Nat,
         NEW cp \in Texts, NEW pp \in Texts, NEW bc \in Texts
  PROVE  Put(cp, pp, bc, nr, of) \in Texts
<1> DEFINE t == generate_block_body(cp, pp, bc, of)
           i == header(nr, of)
<1>1. t \in Texts /\ i \in Texts /\ Filled(t, i) \in Texts
  BY TemplatesType, FilledType
<1> QED
  BY <1>1, FormatType DEF Inserted, Put

-----------------------------------------------------------------------------
(* The blocks                                                              *)

Blocks == [fn : Nat, consts : Seq(Texts), procs : Seq(Texts), stmts : Seq(Texts)]

Items(b) == Range(b.consts) \cup Range(b.procs) \cup Range(b.stmts)

(* The texts of a list come in order, and those of S come before those of T. *)
Row(ts)   == \A i, j \in DOMAIN ts : i < j => Before(ts[i], ts[j])
All(S, T) == \A t \in S, u \in T : Before(t, u)

(* The texts of a block, with the numbers up to c and p, not included.     *)
Bounded(t, c, p) ==
  \A x \in Range(t) : /\ IsConst(x) => x.nr < c
                      /\ IsHeader(x) => x.nr < p

BlockFine(b, c, p) ==
  /\ \A t \in Items(b) : Fine(t) /\ Bounded(t, c, p)
  /\ \A t \in Range(b.stmts) : Plain(t, b.fn)
  /\ Row(b.consts) /\ Row(b.procs) /\ Row(b.stmts)
  /\ All(Range(b.consts), Range(b.procs))
  /\ All(Range(b.consts), Range(b.stmts))
  /\ All(Range(b.procs), Range(b.stmts))

(* The text w is made of the texts of S.                                   *)
PartOf(w, S) ==
  /\ Fine(w)
  /\ \A x \in Range(w) : x = newline \/ \E t \in S : x \in Range(t)
  /\ \A t \in S : Range(t) \subseteq Range(w)

LEMMA ListPart ==
  ASSUME library = "fills", NEW texts \in Seq(Texts), NEW end, Fine(end),
         \A t \in Range(texts) : Fine(t) /\ Before(t, end), Row(texts)
  PROVE  PartOf(Concatenated(texts, end), Range(texts) \cup {end})
<1> DEFINE w == Concatenated(texts, end)
<1>1. /\ Len(texts) \in Nat /\ DOMAIN texts = 1 .. Len(texts)
      /\ \A j \in 1 .. Len(texts) : texts[j] \in Range(texts)
      /\ \A t \in Range(texts) : \E j \in 1 .. Len(texts) : t = texts[j]
  BY LenProperties DEF Range
<1>2. Fine(w) /\ Holds(w, texts, end, 1)
  <2>1. \A j \in 1 .. Len(texts) : Fine(texts[j]) /\ Before(texts[j], end)
    BY <1>1
  <2>2. \A i, j \in 1 .. Len(texts) : i < j => Before(texts[i], texts[j])
    BY <1>1 DEF Row
  <2> QED
    BY <2>1, <2>2, ListFine
<1> HIDE DEF w
<1>3. \A x \in Range(w) : x = newline \/ \E t \in Range(texts) \cup {end} : x \in Range(t)
  BY <1>1, <1>2 DEF Holds
<1>4. \A t \in Range(texts) \cup {end} : Range(t) \subseteq Range(w)
  BY <1>1, <1>2 DEF Holds
<1> QED
  BY <1>2, <1>3, <1>4 DEF PartOf, w

LEMMA BlockType ==
  ASSUME NEW b \in Blocks
  PROVE  /\ b.fn \in Nat /\ b.consts \in Seq(Texts) /\ b.procs \in Seq(Texts)
         /\ b.stmts \in Seq(Texts) /\ Items(b) \subseteq Texts
<1>1. /\ b.fn \in Nat /\ b.consts \in Seq(Texts) /\ b.procs \in Seq(Texts)
      /\ b.stmts \in Seq(Texts)
  BY DEF Blocks
<1>2. ASSUME NEW s \in Seq(Texts) PROVE Range(s) \subseteq Texts
  BY ElementOfSeq, LenProperties DEF Range
<1> QED
  BY <1>1, <1>2 DEF Items

LEMMA BeforeEmpty ==
  ASSUME NEW t
  PROVE  Before(t, <<>>) /\ Before(<<>>, t)
BY EmptyText DEF Before

LEMMA ProcsPart ==
  ASSUME library = "fills", NEW b \in Blocks, NEW c, NEW p, BlockFine(b, c, p)
  PROVE  PartOf(ProcPart(b), Range(b.procs))
<1>1. PartOf(ProcPart(b), Range(b.procs) \cup { <<>> })
  <2>1. b.procs \in Seq(Texts) /\ Fine(<<>>) /\ Row(b.procs)
    BY BlockType, EmptyFine DEF BlockFine
  <2>2. \A t \in Range(b.procs) : Fine(t) /\ Before(t, <<>>)
    BY BeforeEmpty DEF BlockFine, Items
  <2> QED
    BY <2>1, <2>2, ListPart DEF ProcPart
<1> QED
  BY <1>1, EmptyText DEF PartOf

LEMMA CodePart ==
  ASSUME library = "fills", NEW b \in Blocks, NEW c, NEW p, BlockFine(b, c, p)
  PROVE  PartOf(Code(b), Range(b.stmts))
<1> DEFINE e == <<>>
           one == << <<>> >>
<1>1. CASE b.stmts # e
  <2>1. b.stmts \in Seq(Texts) /\ Fine(<<>>) /\ Row(b.stmts)
    BY BlockType, EmptyFine DEF BlockFine
  <2>2. \A t \in Range(b.stmts) : Fine(t) /\ Before(t, <<>>)
    BY BeforeEmpty DEF BlockFine, Items
  <2>3. PartOf(Code(b), Range(b.stmts) \cup { <<>> })
    BY <1>1, <2>1, <2>2, ListPart DEF Code
  <2> QED
    BY <2>3, EmptyText DEF PartOf
<1>2. CASE b.stmts = e
  <2>1. one \in Seq(Texts) /\ Range(one) = { <<>> } /\ Row(one)
    <3>1. DOMAIN one = {1} /\ one[1] = <<>> /\ one \in Seq(Texts)
      BY EmptyText
    <3> HIDE DEF one
    <3> QED
      BY <3>1 DEF Row, Range
  <2>2. Fine(<<>>) /\ \A t \in Range(one) : Fine(t) /\ Before(t, <<>>)
    BY <2>1, BeforeEmpty, EmptyFine
  <2>3. Code(b) = Concatenated(one, <<>>)
    BY <1>2 DEF Code
  <2> HIDE DEF one
  <2>4. PartOf(Code(b), Range(one) \cup { <<>> })
    BY <2>1, <2>2, <2>3, ListPart
  <2>5. \A x \in Range(Code(b)) : x = newline
    BY <2>1, <2>4, EmptyText DEF PartOf
  <2>6. Range(b.stmts) = {}
    BY <1>2, EmptyText
  <2> QED
    BY <2>4, <2>5, <2>6 DEF PartOf
<1> QED
  BY <1>1, <1>2

(* The last constant is what the list of them ends with.                   *)
LEMMA ConstsPart ==
  ASSUME library = "fills", NEW b \in Blocks, NEW c, NEW p, BlockFine(b, c, p)
  PROVE  PartOf(ConstPart(b), Range(b.consts))
<1> DEFINE s == b.consts
           k == Len(s)
           f == SubSeq(s, 1, k - 1)
<1>1. s \in Seq(Texts) /\ Row(s) /\ \A t \in Range(s) : Fine(t)
  BY BlockType DEF BlockFine, Items
<1>2. CASE s = <<>>
  <2>1. ConstPart(b) = <<>> /\ Range(s) = {}
    BY <1>2, EmptyText DEF ConstPart
  <2> QED
    BY <2>1, EmptyFine, EmptyText DEF PartOf
<1>3. CASE s # <<>>
  <2>1. /\ k \in Nat /\ k > 0 /\ DOMAIN s = 1 .. k
        /\ \A n \in 1 .. k : s[n] \in Texts /\ s[n] \in Range(s)
        /\ \A t \in Range(s) : \E n \in 1 .. k : t = s[n]
    BY <1>1, <1>3, EmptySeq, LenProperties, ElementOfSeq DEF Range
  <2>2. /\ f \in Seq(Texts) /\ Len(f) = k - 1 /\ DOMAIN f = 1 .. k - 1
        /\ \A n \in 1 .. k - 1 : f[n] = s[n]
    <3>1. /\ f \in Seq(Texts)
          /\ Len(f) = IF 1 <= k - 1 THEN (k - 1) - 1 + 1 ELSE 0
          /\ \A n \in 1 .. (k - 1) - 1 + 1 : f[n] = s[1 + n - 1]
      BY <2>1, SubSeqProperties
    <3> HIDE DEF f
    <3>2. Len(f) = k - 1
      BY <2>1, <3>1
    <3> QED
      BY <2>1, <3>1, <3>2, LenProperties
  <2>3. ConstPart(b) = Concatenated(f, s[k])
    BY <1>3 DEF ConstPart, Front, Last
  <2>4. k \in Nat /\ k > 0
    BY <2>1
  <2> HIDE DEF f, s, k
  <2>5. Range(s) = Range(f) \cup {s[k]}
    <3>1. \A n \in 1 .. k : n = k \/ n \in 1 .. k - 1
      BY <2>4
    <3>2. \A n \in 1 .. k - 1 : n \in 1 .. k
      BY <2>4
    <3>3. k \in 1 .. k
      BY <2>4
    <3>4. \A t \in Range(f) : \E n \in 1 .. k - 1 : t = f[n]
      BY <2>2 DEF Range
    <3>5. \A n \in 1 .. k - 1 : f[n] \in Range(f)
      BY <2>2 DEF Range
    <3>6. \A t \in Range(s) : t \in Range(f) \/ t = s[k]
      BY <2>1, <2>2, <3>1, <3>5
    <3>7. \A t \in Range(f) : t \in Range(s)
      BY <2>1, <2>2, <3>2, <3>4
    <3>8. s[k] \in Range(s)
      BY <2>1, <3>3
    <3> QED
      BY <3>6, <3>7, <3>8
  <2>6. Row(f) /\ \A t \in Range(f) : Before(t, s[k])
    <3>1. \A n \in 1 .. k - 1 : n \in 1 .. k /\ n < k
      BY <2>4
    <3>2. k \in 1 .. k
      BY <2>4
    <3>3. Row(f)
      BY <1>1, <2>1, <2>2, <3>1 DEF Row
    <3>4. \A n \in 1 .. k - 1 : Before(f[n], s[k])
      BY <1>1, <2>1, <2>2, <3>1, <3>2 DEF Row
    <3> QED
      BY <2>2, <3>3, <3>4 DEF Range
  <2>7. Fine(s[k]) /\ \A t \in Range(f) : Fine(t)
    BY <1>1, <2>5
  <2>8. PartOf(Concatenated(f, s[k]), Range(f) \cup {s[k]})
    BY <2>2, <2>6, <2>7, ListPart
  <2> QED
    BY <2>3, <2>5, <2>8 DEF s
<1> QED
  BY <1>2, <1>3

LEMMA PartsBefore ==
  ASSUME NEW u, NEW w, NEW S, NEW T, PartOf(u, S), PartOf(w, T), All(S, T)
  PROVE  Before(u, w)
<1>1. \A x \in Range(u) : x = newline \/ \E t \in S : x \in Range(t)
  BY DEF PartOf
<1>2. \A x \in Range(w) : x = newline \/ \E t \in T : x \in Range(t)
  BY DEF PartOf
<1>3. \A x, y : (x = newline \/ y = newline) => ~ (IsConst(x) /\ IsConst(y)) /\ ~ (IsHeader(x) /\ IsHeader(y))
  BY NewlineFine
<1>4. ASSUME NEW x \in Range(u), NEW y \in Range(w), x # newline, y # newline
      PROVE  /\ IsConst(x) /\ IsConst(y) => x.nr <= y.nr
             /\ IsHeader(x) /\ IsHeader(y) => x.nr < y.nr
  <2>1. PICK t \in S : x \in Range(t)
    BY <1>1, <1>4
  <2>2. PICK v \in T : y \in Range(v)
    BY <1>2, <1>4
  <2>3. Before(t, v)
    BY DEF All
  <2> QED
    BY <2>1, <2>2, <2>3 DEF Before
<1> QED
  BY <1>3, <1>4 DEF Before

(* The text of the function of a block, with its number p.                 *)
Text(b, p) == Inserted(Body(b), header(p, <<b.fn, statements>>))

LEMMA TextType ==
  ASSUME NEW b \in Blocks, NEW p \in Nat, statements \in Nat
  PROVE  Text(b, p) \in Texts
<1> DEFINE of == <<b.fn, statements>>
           cp == ConstPart(b)
           pp == ProcPart(b)
           bc == Code(b)
<1>1. of \in Nat \X Nat
  BY BlockType
<1>2. pp \in Texts
  BY BlockType, EmptyText, ListType DEF ProcPart
<1>3. bc \in Texts
  <2> DEFINE one == << <<>> >>
  <2>1. one \in Seq(Texts)
    BY EmptyText
  <2> HIDE DEF one
  <2>2. Code(b) = Concatenated(IF b.stmts = <<>> THEN one ELSE b.stmts, <<>>)
    BY DEF Code, one
  <2>3. (IF b.stmts = <<>> THEN one ELSE b.stmts) \in Seq(Texts)
    BY <2>1, BlockType
  <2> QED
    BY <2>2, <2>3, EmptyText, ListType
<1>4. cp \in Texts
  <2> DEFINE s == b.consts
             k == Len(s)
             f == SubSeq(s, 1, k - 1)
  <2>1. CASE s = <<>>
    BY <2>1, EmptyText DEF ConstPart
  <2>2. CASE s # <<>>
    <3>1. s \in Seq(Texts)
      BY BlockType
    <3>2. k \in Nat /\ k > 0 /\ \A n \in 1 .. k : s[n] \in Texts
      BY <2>2, <3>1, EmptySeq, LenProperties, ElementOfSeq
    <3>3. f \in Seq(Texts) /\ s[k] \in Texts
      BY <3>2, SubSeqProperties
    <3>4. cp = Concatenated(f, s[k])
      BY <2>2 DEF ConstPart, Front, Last
    <3> HIDE DEF f
    <3> QED
      BY <3>3, <3>4, ListType
  <2> QED
    BY <2>1, <2>2
<1>5. Text(b, p) = Put(cp, pp, bc, p, of)
  BY DEF Text, Body, Put
<1> HIDE DEF of, cp, pp, bc
<1> QED
  BY <1>1, <1>2, <1>3, <1>4, <1>5, InsertedType

LEMMA TextFine ==
  ASSUME library = "fills", NEW b \in Blocks, NEW c, NEW p \in Nat, BlockFine(b, c, p),
         statements \in Nat
  PROVE  LET h == Line("EXTERN FUNCTION", p, <<b.fn, statements>>)
         IN  /\ Fine(Text(b, p)) /\ IsHeader(h) /\ ~ IsConst(h) /\ h.nr = p
             /\ h \in Range(Text(b, p))
             /\ \A t \in Items(b) : Range(t) \subseteq Range(Text(b, p))
             /\ \A x \in Range(Text(b, p)) :
                  \/ \E t \in Items(b) : x \in Range(t)
                  \/ x = h
                  \/ ~ IsConst(x) /\ ~ IsHeader(x)
<1> DEFINE of == <<b.fn, statements>>
           h == Line("EXTERN FUNCTION", p, of)
           cp == ConstPart(b)
           pp == ProcPart(b)
           bc == Code(b)
           w == Text(b, p)
<1>1. of \in Nat \X Nat /\ of[1] = b.fn
  BY BlockType
<1>2. PartOf(cp, Range(b.consts)) /\ PartOf(pp, Range(b.procs)) /\ PartOf(bc, Range(b.stmts))
  BY ConstsPart, ProcsPart, CodePart
<1>3. w = Put(cp, pp, bc, p, of)
  BY DEF Text, Body, Put
<1> HIDE DEF of, cp, pp, bc
<1>4. Before(cp, pp) /\ Before(cp, bc) /\ Before(pp, bc)
  BY <1>2, PartsBefore DEF BlockFine
<1>5. Plain(bc, of[1])
  <2>1. \A t \in Range(b.stmts) : Plain(t, b.fn)
    BY DEF BlockFine
  <2>2. \A x \in Range(bc) : x = newline \/ \E t \in Range(b.stmts) : x \in Range(t)
    BY <1>2 DEF PartOf
  <2> QED
    BY <1>1, <2>1, <2>2, NewlineFine DEF Plain
<1>6. \A x \in Range(cp) \cup Range(pp) : IsHeader(x) => x.nr < p
  <2>1. \A t \in Range(b.consts) \cup Range(b.procs) : Bounded(t, c, p)
    BY DEF BlockFine, Items
  <2>2. \A x \in Range(cp) \cup Range(pp) :
          x = newline \/ \E t \in Range(b.consts) \cup Range(b.procs) : x \in Range(t)
    BY <1>2 DEF PartOf
  <2> QED
    BY <2>1, <2>2, NewlineFine DEF Bounded
<1>7. Fine(cp) /\ Fine(pp) /\ Fine(bc)
  BY <1>2 DEF PartOf
<1> DEFINE parts == Range(cp) \cup Range(pp) \cup Range(bc)
<1>8. /\ Fine(w) /\ IsHeader(h) /\ ~ IsConst(h) /\ h.nr = p
      /\ parts \cup {h} \subseteq Range(w)
      /\ \A x \in Range(w) : x \in parts \/ x = h \/ (~ IsConst(x) /\ ~ IsHeader(x))
  <2>1. Result(Put(cp, pp, bc, p, of), h, parts, p)
    BY <1>1, <1>4, <1>5, <1>6, <1>7, InsertedFine
  <2> HIDE DEF h, w, parts
  <2> QED
    BY <1>3, <2>1 DEF Result
<1> HIDE DEF h, w
<1>9. \A t \in Items(b) : Range(t) \subseteq Range(w)
  <2>1. \A t \in Items(b) : Range(t) \subseteq parts
    BY <1>2 DEF PartOf, Items
  <2> QED
    BY <1>8, <2>1
<1>10. \A x \in Range(w) :
         (\E t \in Items(b) : x \in Range(t)) \/ x = h \/ (~ IsConst(x) /\ ~ IsHeader(x))
  <2>1. \A x \in parts : x = newline \/ \E t \in Items(b) : x \in Range(t)
    BY <1>2 DEF PartOf, Items
  <2> QED
    BY <1>8, <2>1, NewlineFine
<1> QED
  BY <1>8, <1>9, <1>10 DEF h, w, of

-----------------------------------------------------------------------------
(* What a block gets                                                       *)

LEMMA AppendType ==
  ASSUME NEW s \in Seq(Texts), NEW u \in Texts
  PROVE  /\ Append(s, u) \in Seq(Texts) /\ Range(Append(s, u)) = Range(s) \cup {u}
         /\ Row(s) /\ (\A t \in Range(s) : Before(t, u)) => Row(Append(s, u))
<1> DEFINE w == Append(s, u)
           k == Len(s)
<1>1. /\ w \in Seq(Texts) /\ Len(w) = k + 1 /\ \A n \in 1 .. k : w[n] = s[n]
      /\ w[k + 1] = u
  BY AppendProperties
<1>2. k \in Nat /\ DOMAIN s = 1 .. k /\ DOMAIN w = 1 .. k + 1
  BY <1>1, LenProperties
<1> HIDE DEF w, k
<1>3. /\ \A n \in 1 .. k + 1 : n = k + 1 \/ n \in 1 .. k
      /\ \A n \in 1 .. k : n \in 1 .. k + 1
      /\ k + 1 \in 1 .. k + 1
  BY <1>2
<1>4. Range(w) = Range(s) \cup {u}
  BY <1>1, <1>2, <1>3 DEF Range
<1>5. ASSUME Row(s), \A t \in Range(s) : Before(t, u)
      PROVE  Row(w)
  <2> SUFFICES ASSUME NEW i \in 1 .. k + 1, NEW j \in 1 .. k + 1, i < j
               PROVE  Before(w[i], w[j])
    BY <1>2 DEF Row
  <2>1. i \in 1 .. k /\ s[i] \in Range(s)
    BY <1>2 DEF Range
  <2>2. CASE j \in 1 .. k
    BY <1>1, <1>2, <1>5, <2>1, <2>2 DEF Row
  <2>3. CASE j = k + 1
    BY <1>1, <1>5, <2>1, <2>3
  <2> QED
    BY <1>3, <2>2, <2>3
<1> QED
  BY <1>1, <1>4, <1>5 DEF w

LEMMA ConstsGrow ==
  ASSUME NEW b \in Blocks, NEW s \in Seq(Texts)
  PROVE  LET d == [b EXCEPT !.consts = s]
         IN  /\ d \in Blocks /\ d.fn = b.fn /\ d.consts = s
             /\ d.procs = b.procs /\ d.stmts = b.stmts
BY DEF Blocks

LEMMA ProcsGrow ==
  ASSUME NEW b \in Blocks, NEW s \in Seq(Texts)
  PROVE  LET d == [b EXCEPT !.procs = s]
         IN  /\ d \in Blocks /\ d.fn = b.fn /\ d.procs = s
             /\ d.consts = b.consts /\ d.stmts = b.stmts
BY DEF Blocks

LEMMA StmtsGrow ==
  ASSUME NEW b \in Blocks, NEW s \in Seq(Texts)
  PROVE  LET d == [b EXCEPT !.stmts = s]
         IN  /\ d \in Blocks /\ d.fn = b.fn /\ d.stmts = s
             /\ d.procs = b.procs /\ d.consts = b.consts
BY DEF Blocks

LEMMA NewBlock ==
  ASSUME NEW fn \in Nat
  PROVE  /\ Block(fn) \in Blocks /\ Items(Block(fn)) = {} /\ Block(fn).stmts = <<>>
         /\ \A c, p : BlockFine(Block(fn), c, p)
<1> DEFINE b == Block(fn)
<1>1. b.fn = fn /\ b.consts = <<>> /\ b.procs = <<>> /\ b.stmts = <<>>
  BY DEF Block
<1>2. b \in Blocks
  <2> DEFINE e == <<>>
  <2>1. e \in Seq(Texts)
    OBVIOUS
  <2>2. b = [fn |-> fn, consts |-> e, procs |-> e, stmts |-> e]
    BY DEF Block
  <2> HIDE DEF e, b
  <2> QED
    BY <2>1, <2>2 DEF Blocks
<1> HIDE DEF b
<1>3. Items(b) = {} /\ Range(b.consts) = {} /\ Range(b.procs) = {} /\ Range(b.stmts) = {}
  BY <1>1, EmptyText DEF Items
<1>4. Row(b.consts) /\ Row(b.procs) /\ Row(b.stmts)
  BY <1>1 DEF Row
<1> QED
  BY <1>1, <1>2, <1>3, <1>4 DEF BlockFine, All, b

(* A text with the constants from c on, and no header, may follow any text *)
(* of the blocks.                                                          *)
LEMMA NewFollows ==
  ASSUME library = "fills", NEW t \in Texts, NEW c \in Nat, NEW p, Bounded(t, c, p),
         NEW u, NEW of, NEW d, New(u, of, c, d)
  PROVE  Before(t, u)
<1>1. ASSUME NEW x \in Range(t), NEW y \in Range(u), IsConst(x), IsConst(y)
      PROVE  x.nr <= y.nr
  <2>1. x.nr \in Nat /\ y.nr \in Nat /\ x.nr < c /\ c <= y.nr
    BY <1>1, InRange DEF New, Simple, Bounded, Lines
  <2> QED
    BY <2>1
<1>2. \A y \in Range(u) : ~ IsHeader(y)
  BY DEF New, Simple
<1> QED
  BY <1>1, <1>2 DEF Before

LEMMA NewBounded ==
  ASSUME library = "fills", NEW u, NEW of, NEW c, NEW d, New(u, of, c, d)
  PROVE  \A p : Bounded(u, d, p)
BY DEF New, Simple, Bounded

LEMMA BoundedGrows ==
  ASSUME NEW t \in Texts, NEW c \in Nat, NEW p \in Nat, Bounded(t, c, p),
         NEW d \in Nat, NEW q \in Nat, c <= d, p <= q
  PROVE  Bounded(t, d, q)
<1>1. ASSUME NEW x \in Range(t)
      PROVE  /\ IsConst(x) => x.nr < d
             /\ IsHeader(x) => x.nr < q
  <2>1. x.nr \in Nat /\ (IsConst(x) => x.nr < c) /\ (IsHeader(x) => x.nr < p)
    BY InRange DEF Bounded, Lines
  <2> QED
    BY <2>1
<1> QED
  BY <1>1 DEF Bounded

LEMMA BlockGrows ==
  ASSUME NEW b \in Blocks, NEW c \in Nat, NEW p \in Nat, BlockFine(b, c, p),
         NEW d \in Nat, NEW q \in Nat, c <= d, p <= q
  PROVE  BlockFine(b, d, q)
<1>1. \A t \in Items(b) : Bounded(t, d, q)
  BY BlockType, BoundedGrows DEF BlockFine
<1> QED
  BY <1>1 DEF BlockFine

(* A constant, a statement or a procedure more.                            *)
WithConst(b, u) == [b EXCEPT !.consts = Append(b.consts, u)]
WithStmt(b, u)  == [b EXCEPT !.stmts = Append(b.stmts, u)]
WithProc(b, u)  == [b EXCEPT !.procs = Append(b.procs, u)]

(* e is b with the text u, and numbers up to d and q.                      *)
Grown(e, b, u, d, q) ==
  /\ BlockFine(e, d, q) /\ Items(e) = Items(b) \cup {u}
  /\ e \in Blocks /\ Range(b.procs) \subseteq Range(e.procs)

LEMMA ConstantBlock ==
  ASSUME library = "fills", NEW b \in Blocks, NEW c \in Nat, NEW p \in Nat, BlockFine(b, c, p),
         NEW u, NEW of, NEW d \in Nat, New(u, of, c, d), c <= d,
         b.procs = <<>>, b.stmts = <<>>
  PROVE  Grown(WithConst(b, u), b, u, d, p)
<1> DEFINE s == Append(b.consts, u)
           e == [b EXCEPT !.consts = s]
<1>1. u \in Texts /\ Fine(u) /\ Bounded(u, d, p)
  BY NewBounded DEF New
<1>2. b.consts \in Seq(Texts)
  BY BlockType
<1>3. \A t \in Items(b) : Before(t, u)
  BY BlockType, NewFollows DEF BlockFine
<1>4. s \in Seq(Texts) /\ Range(s) = Range(b.consts) \cup {u} /\ Row(s)
  BY <1>1, <1>2, <1>3, AppendType DEF BlockFine, Items
<1> HIDE DEF s
<1>5. /\ e \in Blocks /\ e.fn = b.fn /\ e.consts = s /\ e.procs = b.procs /\ e.stmts = b.stmts
  BY <1>4, ConstsGrow
<1> HIDE DEF e
<1>6. BlockFine(b, d, p)
  BY BlockGrows
<1>7. Items(e) = Items(b) \cup {u}
  BY <1>4, <1>5 DEF Items
<1>8. Range(b.procs) = {} /\ Range(b.stmts) = {}
  BY EmptyText
<1>9. BlockFine(e, d, p)
  BY <1>1, <1>4, <1>5, <1>6, <1>7, <1>8 DEF BlockFine, All
<1> QED
  BY <1>5, <1>7, <1>9 DEF Grown, WithConst, e, s

LEMMA StatementBlock ==
  ASSUME library = "fills", NEW b \in Blocks, NEW c \in Nat, NEW p \in Nat, BlockFine(b, c, p),
         NEW u, NEW of, NEW d \in Nat, New(u, of, c, d), c <= d, of[1] = b.fn
  PROVE  Grown(WithStmt(b, u), b, u, d, p)
<1> DEFINE s == Append(b.stmts, u)
           e == [b EXCEPT !.stmts = s]
<1>1. u \in Texts /\ Fine(u) /\ Bounded(u, d, p) /\ Plain(u, b.fn)
  BY NewBounded, SimpleFine DEF New
<1>2. b.stmts \in Seq(Texts)
  BY BlockType
<1>3. \A t \in Items(b) : Before(t, u)
  BY BlockType, NewFollows DEF BlockFine
<1>4. s \in Seq(Texts) /\ Range(s) = Range(b.stmts) \cup {u} /\ Row(s)
  BY <1>1, <1>2, <1>3, AppendType DEF BlockFine, Items
<1> HIDE DEF s
<1>5. /\ e \in Blocks /\ e.fn = b.fn /\ e.stmts = s /\ e.procs = b.procs /\ e.consts = b.consts
  BY <1>4, StmtsGrow
<1> HIDE DEF e
<1>6. BlockFine(b, d, p)
  BY BlockGrows
<1>7. Items(e) = Items(b) \cup {u}
  BY <1>4, <1>5 DEF Items
<1>8. All(Range(b.consts), Range(s)) /\ All(Range(b.procs), Range(s))
  BY <1>3, <1>4, <1>6 DEF BlockFine, All, Items
<1>9. BlockFine(e, d, p)
  BY <1>1, <1>4, <1>5, <1>6, <1>7, <1>8 DEF BlockFine
<1> QED
  BY <1>5, <1>7, <1>9 DEF Grown, WithStmt, e, s

LEMMA ProcedureBlock ==
  ASSUME NEW b \in Blocks, NEW c \in Nat, NEW p \in Nat, BlockFine(b, c, p),
         NEW u \in Texts, Fine(u), NEW q \in Nat, p <= q, Bounded(u, c, q),
         \A t \in Items(b) : Before(t, u), b.stmts = <<>>
  PROVE  Grown(WithProc(b, u), b, u, c, q) /\ u \in Range(WithProc(b, u).procs)
<1> DEFINE s == Append(b.procs, u)
           e == [b EXCEPT !.procs = s]
<1>1. b.procs \in Seq(Texts)
  BY BlockType
<1>2. s \in Seq(Texts) /\ Range(s) = Range(b.procs) \cup {u} /\ Row(s)
  BY <1>1, AppendType DEF BlockFine, Items
<1> HIDE DEF s
<1>3. /\ e \in Blocks /\ e.fn = b.fn /\ e.procs = s /\ e.consts = b.consts /\ e.stmts = b.stmts
  BY <1>2, ProcsGrow
<1> HIDE DEF e
<1>4. BlockFine(b, c, q)
  BY BlockGrows
<1>5. Items(e) = Items(b) \cup {u}
  BY <1>2, <1>3 DEF Items
<1>6. All(Range(b.consts), Range(s)) /\ Range(b.stmts) = {}
  BY <1>2, <1>4, EmptyText DEF BlockFine, All, Items
<1>7. BlockFine(e, c, q)
  BY <1>2, <1>3, <1>4, <1>5, <1>6 DEF BlockFine, All
<1> QED
  BY <1>2, <1>3, <1>5, <1>7 DEF Grown, WithProc, e, s

-----------------------------------------------------------------------------
(* The blocks that are open                                                *)

Stack(o, c, p) ==
  /\ \A i \in DOMAIN o : BlockFine(o[i], c, p)
  /\ \A i, j \in DOMAIN o : i < j => All(Items(o[i]), Items(o[j])) /\ o[i].stmts = <<>>

(* Every number below p is that of a procedure in some block.              *)
HasHeader(t, v) == \E x \in Range(t) : IsHeader(x) /\ x.nr = v

Numbered(o, p) ==
  \A v \in Nat : v < p => \E i \in DOMAIN o : \E t \in Range(o[i].procs) : HasHeader(t, v)

LEMMA OpenType ==
  ASSUME NEW o \in Seq(Blocks), o # <<>>
  PROVE  /\ Len(o) \in Nat /\ Len(o) > 0 /\ DOMAIN o = 1 .. Len(o)
         /\ \A i \in DOMAIN o : o[i] \in Blocks
         /\ Last(o) = o[Len(o)] /\ Last(o) \in Blocks /\ Len(o) \in DOMAIN o
<1>1. Len(o) \in Nat /\ Len(o) > 0 /\ DOMAIN o = 1 .. Len(o) /\ \A i \in 1 .. Len(o) : o[i] \in Blocks
  BY EmptySeq, LenProperties, ElementOfSeq
<1>2. Len(o) \in 1 .. Len(o)
  BY <1>1
<1> QED
  BY <1>1, <1>2 DEF Last

(* Another top.                                                            *)
LEMMA Replaced ==
  ASSUME NEW o \in Seq(Blocks), o # <<>>, NEW e \in Blocks
  PROVE  LET w == Append(Front(o), e)
         IN  /\ w \in Seq(Blocks) /\ Len(w) = Len(o) /\ w # <<>>
             /\ DOMAIN w = 1 .. Len(o) /\ w[Len(o)] = e
             /\ \A i \in 1 .. Len(o) - 1 : w[i] = o[i]
<1> DEFINE k == Len(o)
           f == SubSeq(o, 1, k - 1)
           w == Append(f, e)
<1>1. k \in Nat /\ k > 0 /\ DOMAIN o = 1 .. k /\ \A i \in 1 .. k : o[i] \in Blocks
  BY OpenType
<1>2. f \in Seq(Blocks) /\ Len(f) = k - 1 /\ \A i \in 1 .. k - 1 : f[i] = o[i]
  <2>1. /\ f \in Seq(Blocks)
        /\ Len(f) = IF 1 <= k - 1 THEN (k - 1) - 1 + 1 ELSE 0
        /\ \A n \in 1 .. (k - 1) - 1 + 1 : f[n] = o[1 + n - 1]
    BY <1>1, SubSeqProperties
  <2>2. k \in Int /\ k > 0
    BY <1>1
  <2> HIDE DEF f, k
  <2>3. Len(f) = k - 1
    BY <2>1, <2>2
  <2>4. \A n \in 1 .. k - 1 : n \in 1 .. (k - 1) - 1 + 1 /\ 1 + n - 1 = n
    BY <2>2
  <2>5. \A n \in 1 .. k - 1 : f[n] = o[n]
    BY <2>1, <2>4
  <2> QED
    BY <2>1, <2>3, <2>5
<1>3. Front(o) = f
  BY DEF Front
<1> HIDE DEF f, k
<1>4. /\ w \in Seq(Blocks) /\ w # <<>> /\ Len(w) = Len(f) + 1
      /\ \A i \in 1 .. Len(f) : w[i] = f[i]
      /\ w[Len(f) + 1] = e
  BY <1>2, AppendProperties
<1>5. Len(f) + 1 = k
  BY <1>1, <1>2
<1> HIDE DEF w
<1>6. DOMAIN w = 1 .. k
  BY <1>4, <1>5, LenProperties
<1>7. \A i \in 1 .. k - 1 : w[i] = o[i]
  BY <1>2, <1>4
<1> QED
  BY <1>3, <1>4, <1>5, <1>6, <1>7 DEF w, k

LEMMA StackReplaced ==
  ASSUME NEW o \in Seq(Blocks), o # <<>>, NEW c \in Nat, NEW p \in Nat, Stack(o, c, p),
         NEW d \in Nat, NEW q \in Nat, c <= d, p <= q,
         NEW e \in Blocks, BlockFine(e, d, q),
         \A u \in Items(e) : \/ u \in Items(Last(o))
                             \/ \A i \in 1 .. Len(o) - 1 : \A t \in Items(o[i]) : Before(t, u)
  PROVE  Stack(Append(Front(o), e), d, q)
<1> DEFINE w == Append(Front(o), e)
           k == Len(o)
<1>1. /\ k \in Nat /\ k > 0 /\ DOMAIN o = 1 .. k /\ \A i \in 1 .. k : o[i] \in Blocks
      /\ Last(o) = o[k]
  BY OpenType
<1>2. DOMAIN w = 1 .. k /\ w[k] = e /\ \A i \in 1 .. k - 1 : w[i] = o[i]
  BY Replaced
<1> HIDE DEF w, k
<1>3. \A i \in 1 .. k : i = k \/ i \in 1 .. k - 1
  BY <1>1
<1>4. \A i \in 1 .. k - 1 : i \in 1 .. k /\ i < k
  BY <1>1
<1>5. \A i, j \in 1 .. k : i < j => i \in 1 .. k - 1
  BY <1>1
<1>6. k \in 1 .. k
  BY <1>1
<1>7. \A i \in 1 .. k : BlockFine(w[i], d, q)
  BY <1>1, <1>2, <1>3, <1>4, BlockGrows DEF Stack
<1>8. ASSUME NEW i \in 1 .. k, NEW j \in 1 .. k, i < j
      PROVE  All(Items(w[i]), Items(w[j])) /\ w[i].stmts = <<>>
  <2>1. i \in 1 .. k - 1 /\ w[i] = o[i] /\ o[i].stmts = <<>> /\ All(Items(o[i]), Items(o[j]))
    BY <1>1, <1>2, <1>5, <1>8 DEF Stack
  <2>2. CASE j \in 1 .. k - 1
    BY <1>2, <2>1, <2>2
  <2>3. CASE j = k
    <3>1. ASSUME NEW t \in Items(o[i]), NEW u \in Items(e) PROVE Before(t, u)
      BY <1>1, <2>1, <2>3, <3>1 DEF All, k
    <3> QED
      BY <1>2, <2>1, <2>3, <3>1 DEF All
  <2> QED
    BY <1>3, <2>2, <2>3
<1> QED
  BY <1>2, <1>7, <1>8 DEF Stack, w

LEMMA NumberedReplaced ==
  ASSUME NEW o \in Seq(Blocks), o # <<>>, NEW p, Numbered(o, p), NEW e \in Blocks,
         Range(Last(o).procs) \subseteq Range(e.procs)
  PROVE  Numbered(Append(Front(o), e), p)
<1> DEFINE w == Append(Front(o), e)
           k == Len(o)
<1>1. k \in Nat /\ k > 0 /\ DOMAIN o = 1 .. k /\ Last(o) = o[k]
  BY OpenType
<1>2. DOMAIN w = 1 .. k /\ w[k] = e /\ \A i \in 1 .. k - 1 : w[i] = o[i]
  BY Replaced
<1> HIDE DEF w, k
<1>3. \A i \in 1 .. k : i = k \/ i \in 1 .. k - 1
  BY <1>1
<1>4. ASSUME NEW i \in 1 .. k PROVE Range(o[i].procs) \subseteq Range(w[i].procs)
  BY <1>1, <1>2, <1>3
<1> QED
  BY <1>1, <1>2, <1>4 DEF Numbered, w

LEMMA Pushed ==
  ASSUME NEW o \in Seq(Blocks), o # <<>>, NEW e \in Blocks
  PROVE  LET w == Append(o, e)
         IN  /\ w \in Seq(Blocks) /\ Len(w) = Len(o) + 1 /\ w # <<>>
             /\ DOMAIN w = 1 .. Len(o) + 1 /\ w[Len(o) + 1] = e
             /\ \A i \in 1 .. Len(o) : w[i] = o[i]
<1> DEFINE w == Append(o, e)
<1>1. /\ w \in Seq(Blocks) /\ Len(w) = Len(o) + 1 /\ w # <<>> /\ w[Len(o) + 1] = e
      /\ \A i \in 1 .. Len(o) : w[i] = o[i]
  BY AppendProperties
<1>2. DOMAIN w = 1 .. Len(w)
  BY <1>1, LenProperties
<1> QED
  BY <1>1, <1>2

LEMMA StackPushed ==
  ASSUME NEW o \in Seq(Blocks), o # <<>>, NEW c \in Nat, NEW p \in Nat, Stack(o, c, p),
         Numbered(o, p), NEW fn \in Nat, Last(o).stmts = <<>>
  PROVE  Stack(Append(o, Block(fn)), c, p) /\ Numbered(Append(o, Block(fn)), p)
<1> DEFINE e == Block(fn)
           w == Append(o, e)
           k == Len(o)
<1>1. k \in Nat /\ k > 0 /\ DOMAIN o = 1 .. k /\ Last(o) = o[k]
  BY OpenType
<1>2. e \in Blocks /\ Items(e) = {} /\ BlockFine(e, c, p)
  BY NewBlock
<1> HIDE DEF e
<1>3. DOMAIN w = 1 .. k + 1 /\ w[k + 1] = e /\ \A i \in 1 .. k : w[i] = o[i]
  BY <1>2, Pushed
<1> HIDE DEF w, k
<1>4. \A i \in 1 .. k + 1 : i = k + 1 \/ i \in 1 .. k
  BY <1>1
<1>5. \A i, j \in 1 .. k + 1 : i < j => i \in 1 .. k
  BY <1>1
<1>6. \A i \in 1 .. k : i = k \/ i < k
  BY <1>1
<1>7. \A i \in 1 .. k + 1 : BlockFine(w[i], c, p)
  BY <1>1, <1>2, <1>3, <1>4 DEF Stack
<1>8. ASSUME NEW i \in 1 .. k + 1, NEW j \in 1 .. k + 1, i < j
      PROVE  All(Items(w[i]), Items(w[j])) /\ w[i].stmts = <<>>
  <2>1. i \in 1 .. k /\ w[i] = o[i] /\ k \in 1 .. k
    BY <1>1, <1>3, <1>5, <1>8
  <2>2. o[i].stmts = <<>>
    BY <1>1, <1>6, <2>1 DEF Stack
  <2>3. CASE j \in 1 .. k
    BY <1>1, <1>3, <1>8, <2>1, <2>3 DEF Stack
  <2>4. CASE j = k + 1
    BY <1>2, <1>3, <2>1, <2>2, <2>4 DEF All
  <2> QED
    BY <1>4, <2>3, <2>4
<1>9. \A i \in 1 .. k : i \in 1 .. k + 1
  BY <1>1
<1>10. Numbered(w, p)
  BY <1>1, <1>3, <1>9 DEF Numbered
<1> QED
  BY <1>3, <1>7, <1>8, <1>10 DEF Stack, w, e

LEMMA Popped ==
  ASSUME NEW o \in Seq(Blocks), Len(o) > 1
  PROVE  LET f == Front(o)
             k == Len(o)
         IN  /\ f \in Seq(Blocks) /\ f # <<>> /\ Len(f) = k - 1 /\ DOMAIN f = 1 .. k - 1
             /\ \A i \in 1 .. k - 1 : f[i] = o[i]
             /\ Last(f) = o[k - 1] /\ o # <<>> /\ k \in Nat /\ DOMAIN o = 1 .. k
<1> DEFINE k == Len(o)
           f == SubSeq(o, 1, k - 1)
<1>1. k \in Nat /\ k > 1 /\ DOMAIN o = 1 .. k /\ \A i \in 1 .. k : o[i] \in Blocks
  BY LenProperties, ElementOfSeq
<1>2. /\ f \in Seq(Blocks)
      /\ Len(f) = IF 1 <= k - 1 THEN (k - 1) - 1 + 1 ELSE 0
      /\ \A n \in 1 .. (k - 1) - 1 + 1 : f[n] = o[1 + n - 1]
  BY <1>1, SubSeqProperties
<1>3. o # <<>>
  BY EmptySeq
<1>4. Front(o) = f
  BY DEF Front
<1> HIDE DEF f, k
<1>5. Len(f) = k - 1
  BY <1>1, <1>2
<1>6. \A n \in 1 .. k - 1 : n \in 1 .. (k - 1) - 1 + 1 /\ 1 + n - 1 = n
  BY <1>1
<1>7. \A i \in 1 .. k - 1 : f[i] = o[i]
  BY <1>2, <1>6
<1>8. DOMAIN f = 1 .. k - 1
  BY <1>2, <1>5, LenProperties
<1>9. f # <<>>
  BY <1>1, <1>5, EmptySeq
<1>10. Last(f) = o[k - 1]
  <2>1. k - 1 \in 1 .. k - 1
    BY <1>1
  <2> QED
    BY <1>5, <1>7, <2>1 DEF Last
<1> QED
  BY <1>1, <1>2, <1>3, <1>4, <1>5, <1>7, <1>8, <1>9, <1>10 DEF k

(* The text of a procedure follows the texts of the blocks around it.      *)
LEMMA TextFollows ==
  ASSUME library = "fills", NEW b \in Blocks, NEW c \in Nat, NEW p \in Nat, BlockFine(b, c, p),
         statements \in Nat
  PROVE  /\ Bounded(Text(b, p), c, p + 1)
         /\ \A t : Bounded(t, c, p) /\ (\A u \in Items(b) : Before(t, u)) => Before(t, Text(b, p))
<1> DEFINE w == Text(b, p)
           h == Line("EXTERN FUNCTION", p, <<b.fn, statements>>)
<1>1. /\ IsHeader(h) /\ ~ IsConst(h) /\ h.nr = p
      /\ \A x \in Range(w) :
           (\E t \in Items(b) : x \in Range(t)) \/ x = h \/ (~ IsConst(x) /\ ~ IsHeader(x))
  BY TextFine
<1>2. \A t \in Items(b) : t \in Texts /\ Bounded(t, c, p)
  BY BlockType DEF BlockFine
<1> HIDE DEF w, h
<1>3. Bounded(w, c, p + 1)
  <2>1. ASSUME NEW x \in Range(w)
        PROVE  (IsConst(x) => x.nr < c) /\ (IsHeader(x) => x.nr < p + 1)
    <3>1. CASE \E t \in Items(b) : x \in Range(t)
      <4>1. PICK t \in Items(b) : x \in Range(t)
        BY <3>1
      <4>2. x.nr \in Nat /\ (IsConst(x) => x.nr < c) /\ (IsHeader(x) => x.nr < p)
        BY <1>2, <4>1, InRange DEF Bounded, Lines
      <4> QED
        BY <4>2
    <3>2. CASE x = h
      BY <1>1, <3>2
    <3> QED
      BY <1>1, <3>1, <3>2
  <2> QED
    BY <2>1 DEF Bounded
<1>4. ASSUME NEW t, Bounded(t, c, p), \A u \in Items(b) : Before(t, u)
      PROVE  Before(t, w)
  <2>1. ASSUME NEW x \in Range(t), NEW y \in Range(w)
        PROVE  /\ IsConst(x) /\ IsConst(y) => x.nr <= y.nr
               /\ IsHeader(x) /\ IsHeader(y) => x.nr < y.nr
    <3>1. CASE \E u \in Items(b) : y \in Range(u)
      BY <1>4, <3>1 DEF Before
    <3>2. CASE y = h
      BY <1>1, <1>4, <3>2 DEF Bounded
    <3> QED
      BY <1>1, <3>1, <3>2
  <2> QED
    BY <2>1 DEF Before
<1> QED
  BY <1>3, <1>4 DEF w

(* What the end of a procedure leaves open.                                *)
Ended(o, p) ==
  Append(Front(Front(o)), WithProc(o[Len(o) - 1], Text(Last(o), p)))

LEMMA StackEnded ==
  ASSUME library = "fills", statements \in Nat,
         NEW o \in Seq(Blocks), Len(o) > 1, NEW c \in Nat, NEW p \in Nat,
         Stack(o, c, p), Numbered(o, p)
  PROVE  Stack(Ended(o, p), c, p + 1) /\ Numbered(Ended(o, p), p + 1)
<1> DEFINE k == Len(o)
           f == Front(o)
           b == Last(o)
           a == o[k - 1]
           u == Text(b, p)
           e == WithProc(a, u)
           w == Append(Front(f), e)
<1>1. /\ f \in Seq(Blocks) /\ f # <<>> /\ Len(f) = k - 1 /\ DOMAIN f = 1 .. k - 1
      /\ \A i \in 1 .. k - 1 : f[i] = o[i]
      /\ Last(f) = a /\ o # <<>> /\ k \in Nat /\ DOMAIN o = 1 .. k
  BY Popped
<1>2. b = o[k] /\ \A i \in 1 .. k : o[i] \in Blocks
  BY <1>1, OpenType
<1>3. Ended(o, p) = w
  BY DEF Ended
<1>4. k > 1
  OBVIOUS
<1> HIDE DEF k, f, b
<1>5. /\ k \in 1 .. k /\ k - 1 \in 1 .. k - 1
      /\ \A i \in 1 .. k - 1 : i \in 1 .. k /\ i < k
      /\ \A i \in 1 .. k : i = k \/ i \in 1 .. k - 1
  BY <1>1, <1>4
<1>6. b \in Blocks /\ BlockFine(b, c, p) /\ a \in Blocks /\ BlockFine(a, c, p)
  BY <1>1, <1>2, <1>5 DEF Stack
<1>7. \A i \in 1 .. k - 1 : All(Items(o[i]), Items(b)) /\ o[i].stmts = <<>> /\ BlockFine(o[i], c, p)
  BY <1>1, <1>2, <1>5 DEF Stack
<1> HIDE DEF a
<1>8. u \in Texts /\ Fine(u) /\ Bounded(u, c, p + 1) /\ p + 1 \in Nat /\ p <= p + 1 /\ c <= c
  <2>1. Fine(u)
    BY <1>6, TextFine
  <2>2. Bounded(u, c, p + 1)
    BY <1>6, TextFollows
  <2> QED
    BY <2>1, <2>2 DEF Fine
<1>9. \A i \in 1 .. k - 1 : \A t \in Items(o[i]) : Before(t, u)
  BY <1>6, <1>7, TextFollows DEF All, BlockFine
<1>10. a.stmts = <<>> /\ \A t \in Items(a) : Before(t, u)
  BY <1>5, <1>7, <1>9 DEF a
<1> HIDE DEF u
<1>11. /\ BlockFine(e, c, p + 1) /\ Items(e) = Items(a) \cup {u}
       /\ e \in Blocks /\ Range(a.procs) \subseteq Range(e.procs) /\ u \in Range(e.procs)
  <2>1. Grown(e, a, u, c, p + 1) /\ u \in Range(e.procs)
    BY <1>6, <1>8, <1>10, ProcedureBlock
  <2> QED
    BY <2>1 DEF Grown
<1> HIDE DEF e
<1>12. Stack(f, c, p)
  <2>1. \A i \in 1 .. k - 1 : BlockFine(f[i], c, p)
    BY <1>1, <1>7
  <2>2. \A i, j \in 1 .. k - 1 : i < j => All(Items(f[i]), Items(f[j])) /\ f[i].stmts = <<>>
    BY <1>1, <1>5 DEF Stack
  <2> QED
    BY <1>1, <2>1, <2>2 DEF Stack
<1>13. \A z \in Items(e) : \/ z \in Items(Last(f))
                           \/ \A i \in 1 .. Len(f) - 1 : \A t \in Items(f[i]) : Before(t, z)
  <2>1. \A i \in 1 .. (k - 1) - 1 : i \in 1 .. k - 1
    BY <1>1, <1>4
  <2> QED
    BY <1>1, <1>9, <1>11, <2>1
<1>14. Stack(w, c, p + 1)
  BY <1>1, <1>8, <1>11, <1>12, <1>13, StackReplaced
<1>15. DOMAIN w = 1 .. k - 1 /\ w[k - 1] = e /\ \A i \in 1 .. (k - 1) - 1 : w[i] = o[i]
  <2>1. /\ DOMAIN w = 1 .. Len(f) /\ w[Len(f)] = e
        /\ \A i \in 1 .. Len(f) - 1 : w[i] = f[i]
    BY <1>1, <1>11, Replaced
  <2>2. \A i \in 1 .. (k - 1) - 1 : i \in 1 .. k - 1
    BY <1>1, <1>4
  <2> QED
    BY <1>1, <2>1, <2>2
<1> HIDE DEF w
<1>16. ASSUME NEW v \in Nat, v < p + 1
       PROVE  \E i \in 1 .. k - 1 : \E t \in Range(w[i].procs) : HasHeader(t, v)
  <2>1. CASE v = p
    <3>1. HasHeader(u, p)
      BY <1>6, TextFine DEF HasHeader, u
    <3> QED
      BY <1>5, <1>11, <1>15, <2>1, <3>1
  <2>2. CASE v < p
    <3>1. PICK i \in 1 .. k : \E t \in Range(o[i].procs) : HasHeader(t, v)
      BY <1>1, <2>2 DEF Numbered
    <3>2. PICK t \in Range(o[i].procs) : HasHeader(t, v)
      BY <3>1
    <3>3. CASE i = k
      <4>1. Range(t) \subseteq Range(u)
        BY <1>2, <1>6, <3>2, <3>3, TextFine DEF Items, u
      <4>2. HasHeader(u, v)
        BY <3>2, <4>1 DEF HasHeader
      <4> QED
        BY <1>5, <1>11, <1>15, <4>2
    <3>4. CASE i \in 1 .. k - 1
      <4>1. i = k - 1 \/ i \in 1 .. (k - 1) - 1
        BY <1>1, <3>4
      <4>2. Range(o[i].procs) \subseteq Range(w[i].procs)
        BY <1>11, <1>15, <4>1 DEF a
      <4> QED
        BY <3>2, <3>4, <4>2
    <3> QED
      BY <1>5, <3>3, <3>4
  <2>3. v = p \/ v < p
    BY <1>16
  <2> QED
    BY <2>1, <2>2, <2>3
<1>17. Numbered(w, p + 1)
  BY <1>15, <1>16 DEF Numbered
<1> QED
  BY <1>3, <1>14, <1>17

-----------------------------------------------------------------------------
(* Types                                                                   *)

TypeOK ==
  /\ library \in {"fills", "terminates"}
  /\ open \in Seq(Blocks)
  /\ constant_counter \in Nat /\ procedure_counter \in Nat
  /\ started \in Nat /\ statements \in Nat
  /\ output \in Texts

LEMMA WithType ==
  ASSUME NEW b \in Blocks, NEW u \in Texts
  PROVE  WithConst(b, u) \in Blocks /\ WithStmt(b, u) \in Blocks /\ WithProc(b, u) \in Blocks
<1>1. b.consts \in Seq(Texts) /\ b.stmts \in Seq(Texts) /\ b.procs \in Seq(Texts)
  BY BlockType
<1>2. Append(b.consts, u) \in Seq(Texts) /\ Append(b.stmts, u) \in Seq(Texts)
      /\ Append(b.procs, u) \in Seq(Texts)
  BY <1>1, AppendType
<1>3. WithConst(b, u) \in Blocks
  BY <1>2, ConstsGrow DEF WithConst
<1>4. WithStmt(b, u) \in Blocks
  BY <1>2, StmtsGrow DEF WithStmt
<1>5. WithProc(b, u) \in Blocks
  BY <1>2, ProcsGrow DEF WithProc
<1> QED
  BY <1>3, <1>4, <1>5

(* What the actions do to the blocks that are open.                        *)
LEMMA ConstantStep ==
  ASSUME TypeOK, Constant
  PROVE  LET u == generate_constant_def(constant_counter, Of)
         IN  /\ open # <<>> /\ Top \in Blocks /\ Top.procs = <<>> /\ Top.stmts = <<>>
             /\ open' = Append(Front(open), WithConst(Top, u))
             /\ New(u, Of, constant_counter, constant_counter + 1)
             /\ constant_counter' = constant_counter + 1
             /\ UNCHANGED <<library, procedure_counter, started, statements, output>>
<1>1. open # <<>> /\ Top \in Blocks
  BY OpenType DEF TypeOK, Constant, Top
<1>2. Of \in Nat \X Nat
  BY <1>1, BlockType DEF TypeOK, Of
<1>3. New(generate_constant_def(constant_counter, Of), Of, constant_counter, constant_counter + 1)
  BY <1>2, ConstantNew DEF TypeOK
<1>4. open' = Append(Front(open), WithConst(Top, generate_constant_def(constant_counter, Of)))
  BY DEF Constant, Replace, WithConst
<1> QED
  BY <1>1, <1>3, <1>4 DEF Constant

LEMMA StatementStep ==
  ASSUME TypeOK, NEW k \in Nat, NEW u, Statement(k, u)
  PROVE  /\ open # <<>> /\ Top \in Blocks /\ Of \in Nat \X Nat /\ Of[1] = Top.fn
         /\ open' = Append(Front(open), WithStmt(Top, u))
         /\ constant_counter' = constant_counter + k /\ statements' = statements + 1
         /\ UNCHANGED <<library, procedure_counter, started, output>>
<1>1. open # <<>> /\ Top \in Blocks
  BY OpenType DEF TypeOK, Statement, Top
<1>2. Of \in Nat \X Nat /\ Of[1] = Top.fn
  BY <1>1, BlockType DEF TypeOK, Of
<1>3. open' = Append(Front(open), WithStmt(Top, u))
  BY DEF Statement, Replace, WithStmt
<1> QED
  BY <1>1, <1>2, <1>3 DEF Statement

LEMMA StatementTexts ==
  ASSUME TypeOK,
         NEW k \in 0 .. 2, Call(k) \/ (k # 0 /\ Assignment(k))
  PROVE  \E u : Statement(k, u) /\ New(u, Of, constant_counter, constant_counter + k)
<1>1. CASE Call(k)
  <2>1. Statement(k, CallText(k))
    BY <1>1 DEF Call, CallText
  <2>2. Of \in Nat \X Nat
    BY <2>1, StatementStep
  <2> QED
    BY <2>1, <2>2, CallNew DEF TypeOK
<1>2. CASE k # 0 /\ Assignment(k)
  <2>1. Statement(k, AssignmentText(k)) /\ k \in 1 .. 2
    BY <1>2 DEF Assignment, AssignmentText
  <2>2. Of \in Nat \X Nat
    BY <2>1, StatementStep
  <2> QED
    BY <2>1, <2>2, AssignmentNew DEF TypeOK
<1> QED
  BY <1>1, <1>2

LEMMA ProcedureStep ==
  ASSUME TypeOK, Procedure
  PROVE  /\ open # <<>> /\ Last(open).stmts = <<>>
         /\ open' = Append(open, Block(started)) /\ started' = started + 1
         /\ UNCHANGED <<library, constant_counter, procedure_counter, statements, output>>
BY DEF Procedure, Top

LEMMA EndProcedureStep ==
  ASSUME TypeOK, EndProcedure
  PROVE  /\ Len(open) > 1 /\ open' = Ended(open, procedure_counter)
         /\ procedure_counter' = procedure_counter + 1
         /\ UNCHANGED <<library, constant_counter, started, statements, output>>
<1>1. open' = Ended(open, procedure_counter)
  BY DEF EndProcedure, Ended, WithProc, Text, Top
<1> QED
  BY <1>1 DEF EndProcedure

LEMMA EndProgramStep ==
  ASSUME TypeOK, EndProgram
  PROVE  /\ Len(open) = 1 /\ open # <<>> /\ open' = <<>> /\ Top = open[1] /\ Top \in Blocks
         /\ output' = Text(Top, procedure_counter)
         /\ UNCHANGED <<library, constant_counter, procedure_counter, started, statements>>
<1>1. Len(open) = 1 /\ output' = Text(Top, procedure_counter)
  BY DEF EndProgram, Text
<1>2. open # <<>>
  BY <1>1, EmptySeq DEF TypeOK
<1>3. Top = open[1] /\ Top \in Blocks
  BY <1>1, <1>2, OpenType DEF TypeOK, Top
<1> QED
  BY <1>1, <1>2, <1>3 DEF EndProgram

(* The blocks and the texts keep their form, the counters are numbers: in   *)
(* every step of wml.c and of the grammar.                                 *)
THEOREM TextsKeepForm == Spec => []TypeOK
<1>1. Init => TypeOK
  <2> SUFFICES ASSUME Init
               PROVE  TypeOK
    OBVIOUS
  <2>1. Block(0) \in Blocks
    BY NewBlock
  <2>2. <<Block(0)>> \in Seq(Blocks)
    <3> DEFINE b == Block(0)
    <3> HIDE DEF b
    <3>1. b \in Blocks => <<b>> \in Seq(Blocks)
      OBVIOUS
    <3> QED
      BY <2>1, <3>1 DEF b
  <2> QED
    BY <2>2, EmptyText DEF Init, TypeOK
<1>2. TypeOK /\ [Next]_vars => TypeOK'
  <2> SUFFICES ASSUME TypeOK, [Next]_vars
               PROVE  TypeOK'
    OBVIOUS
  <2>1. CASE Constant
    <3> DEFINE u == generate_constant_def(constant_counter, Of)
    <3>1. /\ open # <<>> /\ Top \in Blocks /\ u \in Texts
          /\ open' = Append(Front(open), WithConst(Top, u))
          /\ constant_counter' = constant_counter + 1
          /\ UNCHANGED <<library, procedure_counter, started, statements, output>>
      BY <2>1, ConstantStep DEF New
    <3> HIDE DEF u
    <3>2. open' \in Seq(Blocks)
      <4>1. WithConst(Top, u) \in Blocks
        BY <3>1, WithType
      <4> QED
        BY <3>1, <4>1, Replaced DEF TypeOK
    <3> QED
      BY <3>1, <3>2 DEF TypeOK
  <2>2. ASSUME NEW k \in 0 .. 2, Call(k) \/ (k # 0 /\ Assignment(k))
        PROVE  TypeOK'
    <3>1. PICK u : Statement(k, u) /\ u \in Texts
      BY <2>2, StatementTexts DEF New
    <3>2. /\ open # <<>> /\ Top \in Blocks
          /\ open' = Append(Front(open), WithStmt(Top, u))
          /\ constant_counter' = constant_counter + k /\ statements' = statements + 1
          /\ UNCHANGED <<library, procedure_counter, started, output>>
      BY <3>1, StatementStep
    <3>3. open' \in Seq(Blocks)
      <4>1. WithStmt(Top, u) \in Blocks
        BY <3>1, <3>2, WithType
      <4> QED
        BY <3>2, <4>1, Replaced DEF TypeOK
    <3> QED
      BY <3>2, <3>3 DEF TypeOK
  <2>3. CASE Procedure
    <3>1. Block(started) \in Blocks
      BY NewBlock DEF TypeOK
    <3>2. open' \in Seq(Blocks)
      BY <2>3, <3>1, ProcedureStep, AppendProperties DEF TypeOK
    <3> QED
      BY <2>3, <3>2, ProcedureStep DEF TypeOK
  <2>4. CASE EndProcedure
    <3> DEFINE a == open[Len(open) - 1]
               u == Text(Last(open), procedure_counter)
    <3>1. /\ Len(open) > 1 /\ open' = Append(Front(Front(open)), WithProc(a, u))
          /\ procedure_counter' = procedure_counter + 1
          /\ UNCHANGED <<library, constant_counter, started, statements, output>>
      BY <2>4, EndProcedureStep DEF Ended
    <3>2. /\ Front(open) \in Seq(Blocks) /\ Front(open) # <<>> /\ open # <<>>
          /\ Last(Front(open)) = a
      BY <3>1, Popped DEF TypeOK
    <3>3. a \in Blocks
      BY <3>2, OpenType
    <3>4. u \in Texts
      BY <3>2, OpenType, TextType DEF TypeOK
    <3> HIDE DEF a, u
    <3>5. open' \in Seq(Blocks)
      <4>1. WithProc(a, u) \in Blocks
        BY <3>3, <3>4, WithType
      <4> QED
        BY <3>1, <3>2, <4>1, Replaced
    <3> QED
      BY <3>1, <3>5 DEF TypeOK
  <2>5. CASE EndProgram
    <3>1. output' \in Texts
      BY <2>5, EndProgramStep, TextType DEF TypeOK
    <3>2. open' \in Seq(Blocks)
      BY <2>5, EndProgramStep
    <3> QED
      BY <2>5, <3>1, <3>2, EndProgramStep DEF TypeOK
  <2>6. CASE UNCHANGED vars
    BY <2>6 DEF TypeOK, vars
  <2>7. \A k \in 1 .. 2 : k \in 0 .. 2 /\ k # 0
    OBVIOUS
  <2> QED
    BY <2>1, <2>2, <2>3, <2>4, <2>5, <2>6, <2>7 DEF Next
<1> QED
  BY <1>1, <1>2, PTL DEF Spec

-----------------------------------------------------------------------------
(* Lines that stay apart                                                   *)

Strips == {t \in Texts : Separate(t)}

(* What may follow anything.                                               *)
Closed(t) == t \in Strips /\ (t # <<>> => t[Len(t)] = newline)

LEMMA StripJoined ==
  ASSUME NEW t, NEW u \in Strips, Closed(t)
  PROVE  t \o u \in Strips /\ (Closed(u) => Closed(t \o u))
<1> DEFINE w == t \o u
           a == Len(t)
           b == Len(u)
<1>1. t \in Texts /\ u \in Texts /\ Separate(t) /\ Separate(u)
  BY DEF Closed, Strips
<1>2. /\ w \in Texts /\ a \in Nat /\ b \in Nat /\ Len(w) = a + b
      /\ \A n \in 1 .. a : w[n] = t[n]
      /\ \A n \in 1 .. b : w[a + n] = u[n]
  BY <1>1, Joined
<1>3. /\ \A n \in 1 .. a - 1 : t[n] = newline \/ t[n + 1] = newline
      /\ \A n \in 1 .. b - 1 : u[n] = newline \/ u[n + 1] = newline
  BY <1>1 DEF Separate
<1>4. a # 0 => t[a] = newline
  BY <1>1, EmptyText DEF Closed
<1>5. Closed(u) /\ b # 0 => u[b] = newline
  BY EmptyText DEF Closed
<1> HIDE DEF w, a, b
<1>6. ASSUME NEW n \in 1 .. a + b - 1
      PROVE  w[n] = newline \/ w[n + 1] = newline
  <2>1. CASE n < a
    <3>1. n \in 1 .. a - 1 /\ n \in 1 .. a /\ n + 1 \in 1 .. a
      BY <1>2, <2>1
    <3> QED
      BY <1>2, <1>3, <3>1
  <2>2. CASE n = a
    BY <1>2, <1>4, <2>2
  <2>3. CASE n > a
    <3>1. /\ n - a \in 1 .. b - 1 /\ n - a \in 1 .. b /\ (n - a) + 1 \in 1 .. b
          /\ a + (n - a) = n /\ a + ((n - a) + 1) = n + 1
      BY <1>2, <2>3
    <3>2. w[a + (n - a)] = u[n - a] /\ w[a + ((n - a) + 1)] = u[(n - a) + 1]
      BY <1>2, <3>1
    <3> QED
      BY <1>3, <3>1, <3>2
  <2> QED
    BY <1>2, <2>1, <2>2, <2>3
<1>7. w \in Strips
  BY <1>2, <1>6 DEF Strips, Separate
<1>8. ASSUME Closed(u), w # <<>>
      PROVE  w[Len(w)] = newline
  <2>1. a + b # 0
    BY <1>2, <1>8, EmptySeq DEF Texts
  <2>2. CASE b = 0
    BY <1>2, <1>4, <2>1, <2>2
  <2>3. CASE b # 0
    BY <1>2, <1>5, <1>8, <2>3
  <2> QED
    BY <2>2, <2>3
<1> QED
  BY <1>7, <1>8 DEF Closed, w

LEMMA StripLine ==
  ASSUME NEW x \in Lines
  PROVE  <<x>> \in Strips
<1> DEFINE t == <<x>>
<1>1. t \in Texts /\ Len(t) = 1
  BY OneLine
<1> HIDE DEF t
<1>2. t \in Strips
  BY <1>1 DEF Strips, Separate
<1> QED
  BY <1>2 DEF t

LEMMA StripNewline ==
  /\ Closed(nl) /\ Closed(<<>>)
  /\ \A t \in Strips : Closed(t \o nl)
<1>1. Closed(nl)
  <2>1. nl \in Texts /\ Len(nl) = 1 /\ nl[1] = newline
    BY MarksType
  <2>2. nl \in Strips
    BY <2>1 DEF Strips, Separate
  <2> QED
    BY <2>1, <2>2 DEF Closed
<1>2. Closed(<<>>)
  BY EmptyText DEF Closed, Strips, Separate
<1>3. ASSUME NEW t \in Strips PROVE Closed(t \o nl)
  <2> DEFINE w == t \o nl
             a == Len(t)
  <2>1. t \in Texts /\ \A n \in 1 .. a - 1 : t[n] = newline \/ t[n + 1] = newline
    BY DEF Strips, Separate
  <2>2. /\ w \in Texts /\ a \in Nat /\ Len(w) = a + 1
        /\ \A n \in 1 .. a : w[n] = t[n]
        /\ w[a + 1] = newline
    <3>1. 1 \in 1 .. Len(nl) /\ nl[1] = newline /\ Len(nl) = 1 /\ nl \in Texts
      BY MarksType
    <3>2. /\ w \in Texts /\ a \in Nat /\ Len(w) = a + Len(nl)
          /\ \A n \in 1 .. a : w[n] = t[n]
          /\ \A n \in 1 .. Len(nl) : w[a + n] = nl[n]
      BY <2>1, <3>1, Joined
    <3> HIDE DEF w, a
    <3> QED
      BY <3>1, <3>2
  <2> HIDE DEF w, a
  <2>3. ASSUME NEW n \in 1 .. a
        PROVE  w[n] = newline \/ w[n + 1] = newline
    <3>1. CASE n = a
      BY <2>2, <3>1
    <3>2. CASE n # a
      <4>1. n \in 1 .. a - 1 /\ n + 1 \in 1 .. a
        BY <2>2, <3>2
      <4> QED
        BY <2>1, <2>2, <4>1
    <3> QED
      BY <3>1, <3>2
  <2>4. (a + 1) - 1 = a
    BY <2>2
  <2>5. Closed(w)
    BY <2>2, <2>3, <2>4 DEF Closed, Strips, Separate
  <2> QED
    BY <2>5 DEF w
<1> QED
  BY <1>1, <1>2, <1>3

(* What is cut keeps a newline before its last line.                       *)
LEMMA StripFormat ==
  ASSUME NEW text \in Strips
  PROVE  format(text) \in Strips
<1> DEFINE k == Len(text)
           x == text[k]
           y == [x EXCEPT !.left = @ - 1]
           f == SubSeq(text, 1, k - 1)
<1>1. text \in Texts /\ \A n \in 1 .. k - 1 : text[n] = newline \/ text[n + 1] = newline
  BY DEF Strips, Separate
<1>2. Cut(text) \in Texts
  BY <1>1, CutType
<1>3. CASE text = <<>> \/ library = "fills"
  BY <1>3 DEF format, Cut
<1>4. CASE text # <<>> /\ library # "fills"
  <2>1. k \in Nat /\ k > 0 /\ \A n \in 1 .. k : text[n] \in Lines
    BY <1>1, <1>4, EmptySeq, LenProperties, ElementOfSeq DEF Texts
  <2>2. /\ f \in Texts /\ Len(f) = IF 1 <= k - 1 THEN (k - 1) - 1 + 1 ELSE 0
        /\ \A n \in 1 .. (k - 1) - 1 + 1 : f[n] = text[1 + n - 1]
    BY <2>1, SubSeqProperties DEF Texts
  <2>3. format(text) = IF x.left = 1 THEN f ELSE Append(f, y)
    BY <1>4 DEF format, Cut, Front, Last
  <2>4. x.left # 1 => x # newline
    BY MarksType
  <2>5. x.left # 1 => y \in Lines
    <3>1. x \in Lines
      BY <2>1
    <3> QED
      BY <3>1 DEF Lines
  <2> HIDE DEF f, y
  <2>6. Len(f) = k - 1 /\ \A n \in 1 .. k - 1 : f[n] = text[n]
    <3> HIDE DEF k, x
    <3>1. \A n \in 1 .. k - 1 : n \in 1 .. (k - 1) - 1 + 1 /\ 1 + n - 1 = n
      BY <2>1
    <3>2. Len(f) = k - 1
      BY <2>1, <2>2
    <3> QED
      BY <2>2, <3>1, <3>2
  <2>7. CASE x.left = 1
    <3> HIDE DEF k, x
    <3>1. \A n \in 1 .. (k - 1) - 1 : n \in 1 .. k - 1 /\ n + 1 \in 1 .. k - 1
      BY <2>1
    <3>2. f \in Strips
      BY <1>1, <2>2, <2>6, <3>1 DEF Strips, Separate
    <3> QED
      BY <2>3, <2>7, <3>2
  <2>8. CASE x.left # 1
    <3> DEFINE w == Append(f, y)
    <3>1. /\ w \in Texts /\ Len(w) = (k - 1) + 1 /\ \A n \in 1 .. k - 1 : w[n] = f[n]
      BY <2>2, <2>5, <2>6, <2>8, AppendProperties DEF Texts
    <3>2. k - 1 \in 1 .. k - 1 => text[k - 1] = newline
      <4>1. text[k] # newline
        BY <2>4, <2>8
      <4> HIDE DEF k
      <4>2. (k - 1) + 1 = k
        BY <2>1
      <4> QED
        BY <1>1, <4>1, <4>2
    <3> HIDE DEF k, x, w
    <3>3. ASSUME NEW n \in 1 .. k - 1
          PROVE  w[n] = newline \/ w[n + 1] = newline
      <4>1. CASE n = k - 1
        BY <2>6, <3>1, <3>2, <4>1
      <4>2. CASE n # k - 1
        <5>1. n + 1 \in 1 .. k - 1
          BY <2>1, <4>2
        <5> QED
          BY <1>1, <2>6, <3>1, <5>1
      <4> QED
        BY <4>1, <4>2
    <3>4. Len(w) - 1 = k - 1
      BY <2>1, <3>1
    <3>5. w \in Strips
      BY <3>1, <3>3, <3>4 DEF Strips, Separate
    <3> QED
      BY <2>3, <2>8, <3>5 DEF w
  <2> QED
    BY <2>7, <2>8
<1> QED
  BY <1>3, <1>4

(* A text whose lines are apart is filled with one: what is set in place of *)
(* a %s has a newline on either side.                                       *)
LEMMA StripFilled ==
  ASSUME NEW text \in Strips, NEW insert \in Strips
  PROVE  Filled(text, insert) \in Strips
<1> DEFINE b == Len(text)
           f == Filling(text, insert, b)
           v(n) == IF text[n] = percent THEN insert ELSE <<text[n]>>
           Right(n) == f[n] \in Strips /\ (n = 0 \/ text[n] = newline => Closed(f[n]))
           T == {n \in 0 .. b : ~ Right(n)}
<1>1. /\ text \in Texts /\ insert \in Texts
      /\ \A n \in 1 .. b - 1 : text[n] = newline \/ text[n + 1] = newline
  BY DEF Strips, Separate
<1>2. b \in Nat /\ \A n \in 1 .. b : text[n] \in Lines
  BY <1>1, InRange
<1>3. f[0] = <<>> /\ \A n \in 1 .. b : f[n] = f[n - 1] \o v(n)
  BY <1>2, FillingExists
<1>4. ASSUME NEW n \in 1 .. b
      PROVE  v(n) \in Strips /\ (text[n] = newline => v(n) = nl)
  <2>1. text[n] \in Lines
    BY <1>2
  <2>2. newline # percent
    BY MarksType
  <2> QED
    BY <2>1, <2>2, StripLine DEF nl
<1> HIDE DEF f, v, b
<1>5. Right(0)
  BY <1>3, StripNewline DEF Closed
<1>6. ASSUME NEW m \in 1 .. b, Right(m - 1)
      PROVE  Right(m)
  <2>1. f[m] = f[m - 1] \o v(m) /\ v(m) \in Strips /\ f[m - 1] \in Strips
    BY <1>3, <1>4, <1>6
  <2>2. CASE text[m] = newline
    <3>1. f[m] = f[m - 1] \o nl
      BY <1>4, <2>1, <2>2
    <3>2. Closed(f[m])
      BY <2>1, <3>1, StripNewline
    <3> QED
      BY <3>2 DEF Closed
  <2>3. CASE text[m] # newline
    <3>1. Closed(f[m - 1])
      <4>1. CASE m = 1
        BY <1>3, <4>1, StripNewline
      <4>2. CASE m # 1
        <5>1. m - 1 \in 1 .. b - 1 /\ (m - 1) + 1 = m
          BY <1>2, <4>2
        <5>2. text[m - 1] = newline
          BY <1>1, <2>3, <5>1
        <5> QED
          BY <1>6, <5>2
      <4> QED
        BY <4>1, <4>2
    <3>2. f[m] \in Strips
      BY <2>1, <3>1, StripJoined
    <3>3. m # 0
      OBVIOUS
    <3> QED
      BY <2>3, <3>2, <3>3
  <2> QED
    BY <2>2, <2>3
<1> HIDE DEF Right
<1>7. ASSUME T # {} PROVE FALSE
  <2>1. PICK m \in T : \A x \in T : m <= x
    <3>1. T \subseteq Nat
      BY <1>2
    <3> QED
      BY <1>7, <3>1, Least
  <2>2. m # 0
    BY <1>5, <2>1
  <2>3. m - 1 \in 0 .. b /\ m - 1 \notin T /\ m \in 1 .. b
    BY <1>2, <2>1, <2>2
  <2>4. Right(m - 1)
    BY <2>3
  <2> QED
    BY <1>6, <2>1, <2>3, <2>4
<1>8. Right(b)
  BY <1>2, <1>7
<1>9. Filled(text, insert) = f[b]
  BY FilledIs DEF f, b
<1> QED
  BY <1>8, <1>9 DEF Right

(* The templates of two texts.                                             *)
LEMMA StripPairs ==
  ASSUME NEW t \in Strips, NEW u \in Strips
  PROVE  /\ concatenate(t, u) \in Strips
         /\ concatenate_parameter(t, u) \in Strips
<1>1. Closed(t \o nl) /\ Closed(u \o nl)
  BY StripNewline
<1>2. t \o nl \o u \in Strips
  BY <1>1, StripJoined
<1>3. u \o nl \o t \in Strips
  BY <1>1, StripJoined
<1>4. u \o nl \o t \o nl \in Strips
  BY <1>3, StripNewline DEF Closed
<1> QED
  BY <1>2, <1>4, StripFormat DEF concatenate, concatenate_parameter

LEMMA StripEmpty == <<>> \in Strips
BY StripNewline DEF Closed

(* A line that ends a template.                                            *)
LEMMA StripEnd ==
  ASSUME NEW x \in Lines
  PROVE  <<x, newline>> \in Strips
<1> DEFINE t == <<x, newline>>
<1>1. t \in Texts /\ Len(t) = 2 /\ t[2] = newline
  BY MarksType, TwoLines
<1> HIDE DEF t
<1>2. t \in Strips
  BY <1>1 DEF Strips, Separate
<1> QED
  BY <1>2 DEF t

LEMMA StripLiteral ==
  ASSUME NEW nr \in Nat, NEW of \in Nat \X Nat
  PROVE  /\ generate_constant_def(nr, of) \in Strips
         /\ declare_const_and_use_code(nr, of) \in Strips
<1> DEFINE x == Line("CONST", nr, of)
           y == Line("LOAD_CONST_S", nr, of)
           t == <<x, newline, y>>
           u == <<x>>
<1>1. x \in Lines /\ y \in Lines
  BY OpsAre, LineType
<1>2. generate_constant_def(nr, of) = format(u) /\ declare_const_and_use_code(nr, of) = format(t)
  BY DEF generate_constant_def, declare_const_and_use_code
<1> HIDE DEF x, y
<1>3. u \in Strips
  BY <1>1, StripLine
<1>4. t \in Texts /\ Len(t) = 3 /\ t[2] = newline
  BY <1>1, MarksType, ThreeLines
<1> HIDE DEF t, u
<1>5. \A n \in 1 .. 3 - 1 : n = 2 \/ n + 1 = 2
  OBVIOUS
<1>6. t \in Strips
  BY <1>4, <1>5 DEF Strips, Separate
<1> QED
  BY <1>2, <1>3, <1>6, StripFormat

(* The texts of the statements.                                            *)
LEMMA StripStatement ==
  ASSUME TypeOK, NEW k \in 0 .. 2, Call(k) \/ (k # 0 /\ Assignment(k))
  PROVE  \E u : Statement(k, u) /\ u \in Strips
<1> DEFINE s == <<Line("STORE_VAR_S", 0, Of), newline>>
           a == <<Line("ADD", 0, Of), newline>>
           c == <<Line("CALL_S", 0, Of), newline>>
<1>1. Of \in Nat \X Nat
  <2>1. \E u : Statement(k, u)
    BY StatementTexts
  <2> QED
    BY <2>1, StatementStep
<1>2. s \in Strips /\ a \in Strips /\ c \in Strips
  <2>1. /\ Line("STORE_VAR_S", 0, Of) \in Lines /\ Line("ADD", 0, Of) \in Lines
        /\ Line("CALL_S", 0, Of) \in Lines
    BY <1>1, OpsAre, LineType
  <2> QED
    BY <2>1, StripEnd
<1>3. ASSUME NEW n \in 1 .. 2 PROVE Literal(n) \in Strips
  <2>1. constant_counter + n - 1 \in Nat
    BY DEF TypeOK
  <2> QED
    BY <1>1, <2>1, StripLiteral DEF Literal
<1>4. /\ \A e : generate_assignment(e, Of) = format(e \o nl \o s)
      /\ \A e, g : generate_expression_code(e, g, Of) = format(e \o nl \o g \o nl \o a)
      /\ call_void_procedure(Of) = format(c)
      /\ \A e : call_procedure(e, Of) = format(e \o nl \o c)
  BY DEF generate_assignment, generate_expression_code, call_void_procedure, call_procedure
<1> HIDE DEF s, a, c
<1>5. ASSUME NEW e \in Strips
      PROVE  generate_assignment(e, Of) \in Strips /\ call_procedure(e, Of) \in Strips
  <2>1. Closed(e \o nl)
    BY StripNewline
  <2>2. e \o nl \o s \in Strips
    BY <1>2, <2>1, StripJoined
  <2>3. e \o nl \o c \in Strips
    BY <1>2, <2>1, StripJoined
  <2> QED
    BY <1>4, <2>2, <2>3, StripFormat
<1>6. ASSUME NEW e \in Strips, NEW g \in Strips
      PROVE  generate_expression_code(e, g, Of) \in Strips
  <2>1. Closed(e \o nl)
    BY StripNewline
  <2>2. e \o nl \o g \in Strips
    BY <2>1, StripJoined
  <2>3. Closed(e \o nl \o g \o nl)
    BY <2>2, StripNewline
  <2>4. e \o nl \o g \o nl \o a \in Strips
    BY <1>2, <2>3, StripJoined
  <2> QED
    BY <1>4, <2>4, StripFormat
<1>7. 1 \in 1 .. 2 /\ 2 \in 1 .. 2
  OBVIOUS
<1>8. Literal(1) \in Strips /\ Literal(2) \in Strips
  BY <1>3, <1>7
<1>9. CASE Call(k)
  <2>1. Statement(k, CallText(k))
    BY <1>9 DEF Call, CallText
  <2>2. Parameters(k) \in Strips
    <3>1. concatenate_parameter(Literal(2), <<>>) \in Strips
      BY <1>8, StripPairs, StripEmpty
    <3> QED
      BY <1>8, <3>1, StripPairs, StripEmpty DEF Parameters
  <2>3. CallText(k) \in Strips
    BY <1>2, <1>4, <1>5, <2>2, StripFormat DEF CallText
  <2> QED
    BY <2>1, <2>3
<1>10. CASE k # 0 /\ Assignment(k)
  <2>1. Statement(k, AssignmentText(k))
    BY <1>10 DEF Assignment, AssignmentText
  <2>2. AssignmentText(k) \in Strips
    BY <1>5, <1>6, <1>8 DEF AssignmentText
  <2> QED
    BY <2>1, <2>2
<1> QED
  BY <1>9, <1>10

LEMMA StripTemplates ==
  ASSUME NEW nr \in Nat, NEW of \in Nat \X Nat,
         NEW cp \in Strips, NEW pp \in Strips, NEW bc \in Strips
  PROVE  header(nr, of) \in Strips /\ generate_block_body(cp, pp, bc, of) \in Strips
<1> DEFINE h == <<Line("EXTERN FUNCTION", nr, of)>>
           v == <<Line("FUNCVARS", 0, of)>>
           r == <<Line("RETURN_ES", 0, of)>>
           m == <<percent>>
<1>1. h \in Strips /\ v \in Strips /\ r \in Strips /\ m \in Strips
  <2>1. /\ Line("EXTERN FUNCTION", nr, of) \in Lines /\ Line("FUNCVARS", 0, of) \in Lines
        /\ Line("RETURN_ES", 0, of) \in Lines /\ percent \in Lines
    BY OpsAre, LineType, MarksType
  <2> QED
    BY <2>1, StripLine
<1>2. /\ header(nr, of) = format(nl \o h \o nl \o v \o nl)
      /\ generate_block_body(cp, pp, bc, of) =
           format(cp \o nl \o nl \o pp \o nl \o m \o nl \o bc \o nl \o r)
  BY DEF header, generate_block_body
<1> HIDE DEF h, v, r, m
<1>3. \A t \in Strips : Closed(t \o nl) /\ t \o nl \in Strips
  BY StripNewline DEF Closed
<1>4. \A t, u \in Strips : Closed(t) => t \o u \in Strips
  BY StripJoined
<1>5. nl \o h \o nl \o v \o nl \in Strips
  <2>1. nl \o h \in Strips
    BY <1>1, <1>4, StripNewline DEF Closed
  <2>2. nl \o h \o nl \o v \in Strips
    BY <1>1, <1>3, <1>4, <2>1
  <2> QED
    BY <1>3, <2>2
<1>6. cp \o nl \o nl \o pp \in Strips
  <2>1. Closed(cp \o nl \o nl)
    BY <1>3
  <2> QED
    BY <1>4, <2>1 DEF Closed
<1>7. cp \o nl \o nl \o pp \o nl \o m \in Strips
  BY <1>1, <1>3, <1>4, <1>6
<1>8. cp \o nl \o nl \o pp \o nl \o m \o nl \o bc \in Strips
  BY <1>3, <1>4, <1>7
<1>9. cp \o nl \o nl \o pp \o nl \o m \o nl \o bc \o nl \o r \in Strips
  BY <1>1, <1>3, <1>4, <1>8
<1> QED
  BY <1>2, <1>5, <1>9, StripFormat

(* The text of a function, from the texts of its block.                    *)
LEMMA StripText ==
  ASSUME NEW b \in Blocks, NEW p \in Nat, statements \in Nat, Items(b) \subseteq Strips
  PROVE  Text(b, p) \in Strips
<1> DEFINE of == <<b.fn, statements>>
           cp == ConstPart(b)
           pp == ProcPart(b)
           bc == Code(b)
<1>1. of \in Nat \X Nat
  BY BlockType
<1>2. ASSUME NEW s \in Seq(Texts), Range(s) \subseteq Items(b)
      PROVE  Len(s) \in Nat /\ \A n \in 1 .. Len(s) : s[n] \in Strips
  <2>1. Len(s) \in Nat /\ DOMAIN s = 1 .. Len(s)
    BY LenProperties
  <2> QED
    BY <1>2, <2>1 DEF Range
<1>3. /\ b.consts \in Seq(Texts) /\ b.procs \in Seq(Texts) /\ b.stmts \in Seq(Texts)
      /\ Range(b.consts) \subseteq Items(b) /\ Range(b.procs) \subseteq Items(b)
      /\ Range(b.stmts) \subseteq Items(b)
  BY BlockType DEF Items
<1>4. \A t, u \in Strips : concatenate(t, u) \in Strips
  BY StripPairs
<1>5. pp \in Strips
  BY <1>2, <1>3, <1>4, StripEmpty, ListIn DEF ProcPart
<1>6. bc \in Strips
  <2> DEFINE one == << <<>> >>
  <2>1. Len(one) = 1 /\ one[1] = <<>>
    OBVIOUS
  <2> HIDE DEF one
  <2>2. Code(b) = Concatenated(IF b.stmts = <<>> THEN one ELSE b.stmts, <<>>)
    BY DEF Code, one
  <2>3. Len(b.stmts) \in Nat /\ \A n \in 1 .. Len(b.stmts) : b.stmts[n] \in Strips
    BY <1>2, <1>3
  <2>4. Concatenated(one, <<>>) \in Strips
    <3>1. Len(one) \in Nat /\ \A n \in 1 .. Len(one) : one[n] \in Strips
      BY <2>1, StripEmpty
    <3> QED
      BY <1>4, <3>1, StripEmpty, ListIn
  <2>5. Concatenated(b.stmts, <<>>) \in Strips
    BY <1>4, <2>3, StripEmpty, ListIn
  <2> QED
    BY <2>2, <2>4, <2>5
<1>7. cp \in Strips
  <2> DEFINE s == b.consts
             k == Len(s)
             f == SubSeq(s, 1, k - 1)
  <2>1. CASE s = <<>>
    BY <2>1, StripEmpty DEF ConstPart
  <2>2. CASE s # <<>>
    <3>1. k \in Nat /\ k > 0 /\ \A n \in 1 .. k : s[n] \in Strips
      BY <1>2, <1>3, <2>2, EmptySeq
    <3>2. /\ Len(f) = IF 1 <= k - 1 THEN (k - 1) - 1 + 1 ELSE 0
          /\ \A n \in 1 .. (k - 1) - 1 + 1 : f[n] = s[1 + n - 1]
      BY <1>3, <3>1, SubSeqProperties
    <3>3. cp = Concatenated(f, s[k])
      BY <2>2 DEF ConstPart, Front, Last
    <3> HIDE DEF f, s, k
    <3>4. Len(f) = k - 1 /\ k - 1 \in Nat
      BY <3>1, <3>2
    <3>5. ASSUME NEW n \in 1 .. Len(f) PROVE f[n] \in Strips
      <4>1. n \in 1 .. (k - 1) - 1 + 1 /\ 1 + n - 1 = n /\ n \in 1 .. k
        BY <3>1, <3>4
      <4> QED
        BY <3>1, <3>2, <4>1
    <3>6. s[k] \in Strips
      BY <3>1
    <3> QED
      BY <1>4, <3>3, <3>4, <3>5, <3>6, ListIn
  <2> QED
    BY <2>1, <2>2
<1>8. Text(b, p) = format(Filled(generate_block_body(cp, pp, bc, of), header(p, of)))
  BY DEF Text, Body, Inserted
<1> HIDE DEF of, cp, pp, bc
<1> QED
  BY <1>1, <1>5, <1>6, <1>7, <1>8, StripTemplates, StripFilled, StripFormat

(* The blocks that are open.                                               *)
Parted(o) == \A i \in DOMAIN o : Items(o[i]) \subseteq Strips

LEMMA WithItems ==
  ASSUME NEW b \in Blocks, NEW u \in Texts
  PROVE  /\ Items(WithConst(b, u)) = Items(b) \cup {u}
         /\ Items(WithStmt(b, u)) = Items(b) \cup {u}
         /\ Items(WithProc(b, u)) = Items(b) \cup {u}
<1>1. b.consts \in Seq(Texts) /\ b.stmts \in Seq(Texts) /\ b.procs \in Seq(Texts)
  BY BlockType
<1>2. /\ Append(b.consts, u) \in Seq(Texts)
      /\ Range(Append(b.consts, u)) = Range(b.consts) \cup {u}
  BY <1>1, AppendType
<1>3. /\ Append(b.stmts, u) \in Seq(Texts)
      /\ Range(Append(b.stmts, u)) = Range(b.stmts) \cup {u}
  BY <1>1, AppendType
<1>4. /\ Append(b.procs, u) \in Seq(Texts)
      /\ Range(Append(b.procs, u)) = Range(b.procs) \cup {u}
  BY <1>1, AppendType
<1>5. Items(WithConst(b, u)) = Items(b) \cup {u}
  <2>1. /\ WithConst(b, u).consts = Append(b.consts, u)
        /\ WithConst(b, u).procs = b.procs /\ WithConst(b, u).stmts = b.stmts
    BY <1>2, ConstsGrow DEF WithConst
  <2> QED
    BY <1>2, <2>1 DEF Items
<1>6. Items(WithStmt(b, u)) = Items(b) \cup {u}
  <2>1. /\ WithStmt(b, u).stmts = Append(b.stmts, u)
        /\ WithStmt(b, u).procs = b.procs /\ WithStmt(b, u).consts = b.consts
    BY <1>3, StmtsGrow DEF WithStmt
  <2> QED
    BY <1>3, <2>1 DEF Items
<1>7. Items(WithProc(b, u)) = Items(b) \cup {u}
  <2>1. /\ WithProc(b, u).procs = Append(b.procs, u)
        /\ WithProc(b, u).stmts = b.stmts /\ WithProc(b, u).consts = b.consts
    BY <1>4, ProcsGrow DEF WithProc
  <2> QED
    BY <1>4, <2>1 DEF Items
<1> QED
  BY <1>5, <1>6, <1>7

LEMMA PartedReplaced ==
  ASSUME NEW o \in Seq(Blocks), o # <<>>, Parted(o), NEW e \in Blocks, Items(e) \subseteq Strips
  PROVE  Parted(Append(Front(o), e))
<1> DEFINE w == Append(Front(o), e)
<1>1. /\ DOMAIN w = 1 .. Len(o) /\ w[Len(o)] = e
      /\ \A i \in 1 .. Len(o) - 1 : w[i] = o[i]
  BY Replaced
<1>2. Len(o) \in Nat /\ DOMAIN o = 1 .. Len(o)
  BY LenProperties
<1> HIDE DEF w
<1>3. \A k \in Nat : \A i \in 1 .. k : i = k \/ i \in 1 .. k - 1
  OBVIOUS
<1>4. \A i \in 1 .. Len(o) : i = Len(o) \/ i \in 1 .. Len(o) - 1
  BY <1>2, <1>3
<1>5. ASSUME NEW i \in 1 .. Len(o) PROVE Items(w[i]) \subseteq Strips
  <2>1. CASE i = Len(o)
    BY <1>1, <2>1
  <2>2. CASE i \in 1 .. Len(o) - 1
    <3>1. Items(o[i]) \subseteq Strips
      BY <1>2 DEF Parted
    <3> QED
      BY <1>1, <2>2, <3>1
  <2> QED
    BY <1>4, <2>1, <2>2
<1> QED
  BY <1>1, <1>5 DEF Parted, w

(* No two lines are joined, whatever the library eats: in the output and in *)
(* the texts of the open blocks, of every program.                         *)
THEOREM LinesStayApart == Spec => []LinesApart
<1> DEFINE Strip == output \in Strips /\ Parted(open)
<1>1. Init => Strip
  <2> SUFFICES ASSUME Init
               PROVE  Strip
    OBVIOUS
  <2> DEFINE b == Block(0)
             o == <<b>>
  <2>1. Items(b) = {}
    BY NewBlock
  <2>2. open = o /\ output = <<>>
    BY DEF Init
  <2> HIDE DEF b
  <2>3. DOMAIN o = {1} /\ o[1] = b
    OBVIOUS
  <2> QED
    BY <2>1, <2>2, <2>3, StripEmpty DEF Parted
<1>2. TypeOK /\ Strip /\ [Next]_vars => Strip'
  <2> SUFFICES ASSUME TypeOK, output \in Strips, Parted(open), [Next]_vars
               PROVE  output' \in Strips /\ Parted(open')
    BY DEF Parted
  <2>1. ASSUME NEW b \in Range(open)
        PROVE  b \in Blocks /\ Items(b) \subseteq Strips
    BY <2>1, ElementOfSeq, LenProperties DEF TypeOK, Parted, Range
  <2>2. open # <<>> => Last(open) \in Range(open)
    BY OpenType DEF TypeOK, Range
  <2>3. CASE Constant
    <3> DEFINE u == generate_constant_def(constant_counter, Of)
               e == WithConst(Top, u)
    <3>1. /\ open # <<>> /\ Top \in Blocks /\ open' = Append(Front(open), e)
          /\ u \in Texts /\ output' = output
      BY <2>3, ConstantStep DEF New
    <3>2. u \in Strips
      <4>1. Of \in Nat \X Nat
        BY <3>1, BlockType DEF TypeOK, Of
      <4> QED
        BY <4>1, StripLiteral DEF TypeOK
    <3> HIDE DEF u
    <3>3. e \in Blocks /\ Items(e) \subseteq Strips
      BY <2>1, <2>2, <3>1, <3>2, WithType, WithItems DEF Top
    <3> HIDE DEF e
    <3> QED
      BY <3>1, <3>3, PartedReplaced DEF TypeOK
  <2>4. ASSUME NEW k \in 0 .. 2, Call(k) \/ (k # 0 /\ Assignment(k))
        PROVE  output' \in Strips /\ Parted(open')
    <3>1. PICK u : Statement(k, u) /\ u \in Strips
      BY <2>4, StripStatement
    <3> DEFINE e == WithStmt(Top, u)
    <3>2. /\ open # <<>> /\ Top \in Blocks /\ open' = Append(Front(open), e)
          /\ u \in Texts /\ output' = output
      BY <3>1, StatementStep DEF Strips
    <3>3. e \in Blocks /\ Items(e) \subseteq Strips
      BY <2>1, <2>2, <3>1, <3>2, WithType, WithItems DEF Top
    <3> HIDE DEF e
    <3> QED
      BY <3>2, <3>3, PartedReplaced DEF TypeOK
  <2>5. CASE Procedure
    <3> DEFINE e == Block(started)
    <3>1. e \in Blocks /\ Items(e) = {}
      BY NewBlock DEF TypeOK
    <3>2. open' = Append(open, e) /\ output' = output
      BY <2>5, ProcedureStep
    <3> HIDE DEF e
    <3>3. /\ DOMAIN open' = 1 .. Len(open) + 1 /\ Len(open) \in Nat /\ DOMAIN open = 1 .. Len(open)
          /\ \A i \in 1 .. Len(open) : open'[i] = open[i]
          /\ open'[Len(open) + 1] = e
      BY <3>1, <3>2, AppendProperties, LenProperties DEF TypeOK
    <3>4. \A i \in 1 .. Len(open) + 1 : i = Len(open) + 1 \/ i \in 1 .. Len(open)
      BY <3>3
    <3> QED
      BY <3>1, <3>2, <3>3, <3>4 DEF Parted
  <2>6. CASE EndProcedure
    <3> DEFINE f == Front(open)
               a == open[Len(open) - 1]
               u == Text(Last(open), procedure_counter)
               e == WithProc(a, u)
    <3>1. Len(open) > 1 /\ open' = Append(Front(f), e) /\ output' = output
      BY <2>6, EndProcedureStep DEF Ended
    <3>2. /\ f \in Seq(Blocks) /\ f # <<>> /\ DOMAIN f = 1 .. Len(open) - 1
          /\ \A i \in 1 .. Len(open) - 1 : f[i] = open[i]
          /\ open # <<>> /\ Len(open) \in Nat /\ DOMAIN open = 1 .. Len(open)
      BY <3>1, Popped DEF TypeOK
    <3>3. /\ \A i \in 1 .. Len(open) - 1 : i \in 1 .. Len(open)
          /\ Len(open) - 1 \in 1 .. Len(open)
      BY <3>1, <3>2
    <3>4. Parted(f)
      BY <3>2, <3>3 DEF Parted
    <3>5. a \in Blocks /\ Items(a) \subseteq Strips
      BY <2>1, <3>2, <3>3 DEF Range
    <3>6. u \in Strips /\ u \in Texts
      BY <2>1, <2>2, <3>2, StripText DEF TypeOK, Strips
    <3> HIDE DEF f, a, u
    <3>7. e \in Blocks /\ Items(e) \subseteq Strips
      BY <3>5, <3>6, WithType, WithItems
    <3> HIDE DEF e
    <3> QED
      BY <3>1, <3>2, <3>4, <3>7, PartedReplaced
  <2>7. CASE EndProgram
    <3>1. /\ open # <<>> /\ open' = <<>> /\ Top \in Blocks
          /\ output' = Text(Top, procedure_counter)
      BY <2>7, EndProgramStep
    <3>2. output' \in Strips
      BY <2>1, <2>2, <3>1, StripText DEF TypeOK, Top
    <3> QED
      BY <3>1, <3>2 DEF Parted
  <2>8. CASE UNCHANGED vars
    BY <2>8 DEF vars
  <2>9. \A k \in 1 .. 2 : k \in 0 .. 2 /\ k # 0
    OBVIOUS
  <2> QED
    BY <2>3, <2>4, <2>5, <2>6, <2>7, <2>8, <2>9 DEF Next
<1>3. TypeOK /\ Strip => LinesApart
  <2> SUFFICES ASSUME TypeOK, Strip
               PROVE  LinesApart
    OBVIOUS
  <2>1. ASSUME NEW b \in Range(open) PROVE Items(b) \subseteq Strips
    BY DEF Parted, Range
  <2> QED
    BY <2>1 DEF LinesApart, Items, Strips
<1> HIDE DEF Strip
<1> QED
  BY <1>1, <1>2, <1>3, TextsKeepForm, PTL DEF Spec

-----------------------------------------------------------------------------
(* The invariant: what is open is in order, and all of it is numbered.     *)

OutputFine ==
  /\ Fine(output)
  /\ \A v \in Nat : v < started => HasHeader(output, v)
  /\ \A x \in Range(output) : IsHeader(x) => x.nr < started

Inv ==
  /\ TypeOK
  /\ open # <<>> => output = <<>> /\ started = procedure_counter + Len(open)
  /\ library = "fills" =>
       /\ open # <<>> => /\ Stack(open, constant_counter, procedure_counter)
                         /\ Numbered(open, procedure_counter)
       /\ output # <<>> => OutputFine

LEMMA InvInit == Init => Inv
<1> SUFFICES ASSUME Init
             PROVE  Inv
  OBVIOUS
<1> DEFINE b == Block(0)
           o == <<b>>
<1>1. /\ library \in {"fills", "terminates"} /\ open = o /\ started = 1
      /\ constant_counter = 0 /\ procedure_counter = 0 /\ statements = 0 /\ output = <<>>
  BY DEF Init
<1>2. b \in Blocks /\ BlockFine(b, 0, 0)
  BY NewBlock
<1> HIDE DEF b
<1>3. o \in Seq(Blocks) /\ Len(o) = 1 /\ DOMAIN o = {1} /\ o[1] = b
  BY <1>2
<1> HIDE DEF o
<1>4. Stack(o, 0, 0)
  BY <1>2, <1>3 DEF Stack
<1>5. Numbered(o, 0)
  BY DEF Numbered
<1>6. TypeOK
  BY <1>1, <1>3, EmptyText DEF TypeOK
<1> QED
  BY <1>1, <1>3, <1>4, <1>5, <1>6 DEF Inv

LEMMA InvConstant ==
  ASSUME Inv, TypeOK', Constant
  PROVE  Inv'
<1> DEFINE c == constant_counter
           p == procedure_counter
           u == generate_constant_def(c, Of)
           e == WithConst(Top, u)
<1>1. /\ open # <<>> /\ Top \in Blocks /\ Top.procs = <<>> /\ Top.stmts = <<>>
      /\ open' = Append(Front(open), e)
      /\ New(u, Of, c, c + 1) /\ c' = c + 1
      /\ UNCHANGED <<library, procedure_counter, started, statements, output>>
  BY ConstantStep DEF Inv
<1>2. /\ open \in Seq(Blocks) /\ c \in Nat /\ p \in Nat /\ c + 1 \in Nat /\ c <= c + 1 /\ p <= p
      /\ Top = Last(open) /\ Top = open[Len(open)] /\ Len(open) \in DOMAIN open
      /\ u \in Texts
  BY <1>1, OpenType DEF Inv, TypeOK, Top, New
<1> HIDE DEF u
<1>3. open' # <<>> /\ Len(open') = Len(open)
  <2>1. e \in Blocks
    BY <1>1, <1>2, WithType
  <2> HIDE DEF e
  <2> QED
    BY <1>1, <1>2, <2>1, Replaced
<1>4. ASSUME library = "fills"
      PROVE  Stack(open', c + 1, p) /\ Numbered(open', p)
  <2>1. Stack(open, c, p) /\ Numbered(open, p)
    BY <1>1, <1>4 DEF Inv
  <2>2. BlockFine(Top, c, p)
    BY <1>2, <2>1 DEF Stack
  <2>3. Grown(e, Top, u, c + 1, p)
    BY <1>1, <1>2, <1>4, <2>2, ConstantBlock
  <2>4. \A i \in DOMAIN open : \A t \in Items(open[i]) : Before(t, u)
    <3>1. \A i \in DOMAIN open : \A t \in Items(open[i]) : t \in Texts /\ Bounded(t, c, p)
      BY <1>1, <1>2, <2>1, OpenType, BlockType DEF Stack, BlockFine
    <3> QED
      BY <1>1, <1>2, <1>4, <3>1, NewFollows
  <2> HIDE DEF e
  <2>5. \A z \in Items(e) : \/ z \in Items(Last(open))
                            \/ \A i \in 1 .. Len(open) - 1 : \A t \in Items(open[i]) : Before(t, z)
    <3>1. \A i \in 1 .. Len(open) - 1 : i \in DOMAIN open
      BY <1>1, <1>2, OpenType
    <3> QED
      BY <1>2, <2>3, <2>4, <3>1 DEF Grown
  <2>6. Stack(open', c + 1, p)
    BY <1>1, <1>2, <2>1, <2>3, <2>5, StackReplaced DEF Grown
  <2>7. Numbered(open', p)
    BY <1>1, <1>2, <2>1, <2>3, NumberedReplaced DEF Grown
  <2> QED
    BY <2>6, <2>7
<1>5. output' = <<>> /\ started' = procedure_counter' + Len(open')
  BY <1>1, <1>3 DEF Inv
<1> QED
  BY <1>1, <1>3, <1>4, <1>5 DEF Inv

LEMMA InvStatement ==
  ASSUME Inv, TypeOK', NEW k \in 0 .. 2, Call(k) \/ (k # 0 /\ Assignment(k))
  PROVE  Inv'
<1> DEFINE c == constant_counter
           p == procedure_counter
<1>1. PICK u : Statement(k, u) /\ New(u, Of, c, c + k)
  BY StatementTexts DEF Inv
<1> DEFINE e == WithStmt(Top, u)
<1>2. /\ open # <<>> /\ Top \in Blocks /\ Of[1] = Top.fn
      /\ open' = Append(Front(open), e)
      /\ c' = c + k
      /\ UNCHANGED <<library, procedure_counter, started, output>>
  BY <1>1, StatementStep DEF Inv
<1>3. /\ open \in Seq(Blocks) /\ c \in Nat /\ p \in Nat /\ c + k \in Nat /\ c <= c + k /\ p <= p
      /\ Top = Last(open) /\ Top = open[Len(open)] /\ Len(open) \in DOMAIN open
      /\ u \in Texts
  BY <1>1, <1>2, OpenType DEF Inv, TypeOK, Top, New
<1>4. open' # <<>> /\ Len(open') = Len(open)
  <2>1. e \in Blocks
    BY <1>2, <1>3, WithType
  <2> HIDE DEF e
  <2> QED
    BY <1>2, <1>3, <2>1, Replaced
<1>5. ASSUME library = "fills"
      PROVE  Stack(open', c + k, p) /\ Numbered(open', p)
  <2>1. Stack(open, c, p) /\ Numbered(open, p)
    BY <1>2, <1>5 DEF Inv
  <2>2. BlockFine(Top, c, p)
    BY <1>3, <2>1 DEF Stack
  <2>3. Grown(e, Top, u, c + k, p)
    BY <1>1, <1>2, <1>3, <1>5, <2>2, StatementBlock
  <2>4. \A i \in DOMAIN open : \A t \in Items(open[i]) : Before(t, u)
    <3>1. \A i \in DOMAIN open : \A t \in Items(open[i]) : t \in Texts /\ Bounded(t, c, p)
      BY <1>2, <1>3, <2>1, OpenType, BlockType DEF Stack, BlockFine
    <3> QED
      BY <1>1, <1>3, <1>5, <3>1, NewFollows
  <2> HIDE DEF e
  <2>5. \A z \in Items(e) : \/ z \in Items(Last(open))
                            \/ \A i \in 1 .. Len(open) - 1 : \A t \in Items(open[i]) : Before(t, z)
    <3>1. \A i \in 1 .. Len(open) - 1 : i \in DOMAIN open
      BY <1>2, <1>3, OpenType
    <3> QED
      BY <1>3, <2>3, <2>4, <3>1 DEF Grown
  <2>6. Stack(open', c + k, p)
    BY <1>2, <1>3, <2>1, <2>3, <2>5, StackReplaced DEF Grown
  <2>7. Numbered(open', p)
    BY <1>2, <1>3, <2>1, <2>3, NumberedReplaced DEF Grown
  <2> QED
    BY <2>6, <2>7
<1>6. output' = <<>> /\ started' = procedure_counter' + Len(open')
  BY <1>2, <1>4 DEF Inv
<1> QED
  BY <1>2, <1>4, <1>5, <1>6 DEF Inv

LEMMA InvProcedure ==
  ASSUME Inv, TypeOK', Procedure
  PROVE  Inv'
<1> DEFINE c == constant_counter
           p == procedure_counter
<1>1. /\ open # <<>> /\ Last(open).stmts = <<>>
      /\ open' = Append(open, Block(started)) /\ started' = started + 1
      /\ UNCHANGED <<library, constant_counter, procedure_counter, statements, output>>
  BY ProcedureStep DEF Inv
<1>2. open \in Seq(Blocks) /\ c \in Nat /\ p \in Nat /\ started \in Nat
  BY DEF Inv, TypeOK
<1>3. open' # <<>> /\ Len(open') = Len(open) + 1
  BY <1>1, <1>2, NewBlock, Pushed
<1>4. library = "fills" => Stack(open', c, p) /\ Numbered(open', p)
  BY <1>1, <1>2, StackPushed DEF Inv
<1>5. output' = <<>> /\ started' = procedure_counter' + Len(open')
  <2>1. output = <<>> /\ started = p + Len(open) /\ Len(open) \in Nat
    BY <1>1, <1>2, OpenType DEF Inv
  <2> QED
    BY <1>1, <1>2, <1>3, <2>1
<1> QED
  BY <1>1, <1>3, <1>4, <1>5 DEF Inv

LEMMA InvEndProcedure ==
  ASSUME Inv, TypeOK', EndProcedure
  PROVE  Inv'
<1> DEFINE c == constant_counter
           p == procedure_counter
<1>1. /\ Len(open) > 1 /\ open' = Ended(open, p) /\ p' = p + 1
      /\ UNCHANGED <<library, constant_counter, started, statements, output>>
  BY EndProcedureStep DEF Inv
<1>2. open \in Seq(Blocks) /\ c \in Nat /\ p \in Nat /\ started \in Nat /\ statements \in Nat
  BY DEF Inv, TypeOK
<1>3. /\ Front(open) \in Seq(Blocks) /\ Front(open) # <<>> /\ Len(Front(open)) = Len(open) - 1
      /\ Last(Front(open)) = open[Len(open) - 1] /\ open # <<>> /\ Len(open) \in Nat
  BY <1>1, <1>2, Popped
<1>4. open' # <<>> /\ Len(open') = Len(open) - 1
  <2> DEFINE a == open[Len(open) - 1]
             u == Text(Last(open), p)
             e == WithProc(a, u)
  <2>1. a \in Blocks
    BY <1>3, OpenType
  <2>2. u \in Texts
    BY <1>2, <1>3, OpenType, TextType
  <2> HIDE DEF a, u
  <2>3. e \in Blocks
    BY <2>1, <2>2, WithType
  <2>4. open' = Append(Front(Front(open)), e)
    BY <1>1 DEF Ended, a, u
  <2> HIDE DEF e
  <2> QED
    BY <1>3, <2>3, <2>4, Replaced
<1>5. library = "fills" => Stack(open', c, p + 1) /\ Numbered(open', p + 1)
  <2>1. library = "fills" => Stack(open, c, p) /\ Numbered(open, p)
    BY <1>3 DEF Inv
  <2> QED
    BY <1>1, <1>2, <2>1, StackEnded
<1>6. output' = <<>> /\ started' = procedure_counter' + Len(open')
  <2>1. output = <<>> /\ started = p + Len(open)
    BY <1>3 DEF Inv
  <2> QED
    BY <1>1, <1>2, <1>3, <1>4, <2>1
<1> QED
  BY <1>1, <1>4, <1>5, <1>6 DEF Inv

LEMMA InvEndProgram ==
  ASSUME Inv, TypeOK', EndProgram
  PROVE  Inv'
<1> DEFINE c == constant_counter
           p == procedure_counter
           w == Text(Top, p)
           h == Line("EXTERN FUNCTION", p, <<Top.fn, statements>>)
<1>1. /\ Len(open) = 1 /\ open # <<>> /\ open' = <<>> /\ Top = open[1] /\ Top \in Blocks
      /\ output' = w
      /\ UNCHANGED <<library, constant_counter, procedure_counter, started, statements>>
  BY EndProgramStep DEF Inv
<1>2. /\ open \in Seq(Blocks) /\ c \in Nat /\ p \in Nat /\ statements \in Nat
      /\ started = p + 1 /\ DOMAIN open = 1 .. 1
  BY <1>1, OpenType DEF Inv, TypeOK
<1>4. ASSUME library = "fills"
      PROVE  /\ Fine(w)
             /\ \A v \in Nat : v < started => HasHeader(w, v)
             /\ \A x \in Range(w) : IsHeader(x) => x.nr < started
  <2>1. Stack(open, c, p) /\ Numbered(open, p)
    BY <1>1, <1>4 DEF Inv
  <2>2. BlockFine(Top, c, p)
    <3>1. 1 \in DOMAIN open
      BY <1>2
    <3> QED
      BY <1>1, <2>1, <3>1 DEF Stack
  <2>3. /\ Fine(w) /\ IsHeader(h) /\ h.nr = p /\ h \in Range(w)
        /\ \A t \in Items(Top) : Range(t) \subseteq Range(w)
    BY <1>1, <1>2, <1>4, <2>2, TextFine
  <2>4. Bounded(w, c, p + 1)
    BY <1>1, <1>2, <1>4, <2>2, TextFollows
  <2> HIDE DEF w, h
  <2>5. ASSUME NEW v \in Nat, v < started PROVE HasHeader(w, v)
    <3>1. CASE v = p
      BY <2>3, <3>1 DEF HasHeader
    <3>2. CASE v < p
      <4>1. \A i \in DOMAIN open : i = 1
        BY <1>2
      <4>2. PICK t \in Range(Top.procs) : HasHeader(t, v)
        BY <1>1, <2>1, <3>2, <4>1 DEF Numbered
      <4>3. Range(t) \subseteq Range(w)
        BY <2>3 DEF Items
      <4> QED
        BY <4>2, <4>3 DEF HasHeader
    <3>3. v = p \/ v < p
      BY <1>2, <2>5
    <3> QED
      BY <3>1, <3>2, <3>3
  <2>6. \A x \in Range(w) : IsHeader(x) => x.nr < started
    BY <1>2, <2>4 DEF Bounded
  <2> QED
    BY <2>3, <2>5, <2>6
<1> HIDE DEF w
<1>5. library = "fills" => OutputFine'
  BY <1>1, <1>4 DEF OutputFine, HasHeader
<1> QED
  BY <1>1, <1>5 DEF Inv

LEMMA InvHolds == Spec => []Inv
<1>1. Inv /\ TypeOK' /\ [Next]_vars => Inv'
  <2> SUFFICES ASSUME Inv, TypeOK', [Next]_vars
               PROVE  Inv'
    OBVIOUS
  <2>1. CASE Constant
    BY <2>1, InvConstant
  <2>2. ASSUME NEW k \in 0 .. 2, Call(k) \/ (k # 0 /\ Assignment(k))
        PROVE  Inv'
    BY <2>2, InvStatement
  <2>3. CASE Procedure
    BY <2>3, InvProcedure
  <2>4. CASE EndProcedure
    BY <2>4, InvEndProcedure
  <2>5. CASE EndProgram
    BY <2>5, InvEndProgram
  <2>6. CASE UNCHANGED vars
    BY <2>6 DEF Inv, OutputFine, HasHeader, vars
  <2>7. \A k \in 1 .. 2 : k \in 0 .. 2 /\ k # 0
    OBVIOUS
  <2> QED
    BY <2>1, <2>2, <2>3, <2>4, <2>5, <2>6, <2>7 DEF Next
<1> QED
  BY <1>1, InvInit, TextsKeepForm, PTL DEF Spec

-----------------------------------------------------------------------------
(* What the runs check                                                     *)

(* Headers whose numbers are 0 to v-1 are v headers.                       *)
LEMMA Counting ==
  ASSUME NEW t \in Texts, Rising(t), NEW v \in Nat, NEW S \in SUBSET DOMAIN t,
         \A n \in S : IsHeader(t[n]) /\ t[n].nr < v,
         \A u \in Nat : u < v => \E n \in S : t[n].nr = u
  PROVE  Cardinality(S) = v
<1> DEFINE f == [n \in S |-> t[n].nr + 1]
<1>1. IsFiniteSet(DOMAIN t)
  <2>1. DOMAIN t = 1 .. Len(t) /\ Len(t) \in Int
    BY InRange
  <2>2. IsFiniteSet(1 .. Len(t))
    BY <2>1, FS_Interval
  <2> QED
    BY <2>1, <2>2
<1>2. IsFiniteSet(S)
  BY <1>1, FS_Subset
<1>3. \A n \in S : n \in DOMAIN t /\ n \in Int /\ t[n].nr \in Nat
  BY InRange
<1>4. f \in [S -> 1 .. v]
  <2> SUFFICES ASSUME NEW n \in S
               PROVE  t[n].nr + 1 \in 1 .. v
    OBVIOUS
  <2> QED
    BY <1>3
<1>5. ASSUME NEW m \in S, NEW n \in S, f[m] = f[n]
      PROVE  m = n
  <2>1. t[m].nr = t[n].nr
    BY <1>3, <1>5
  <2>2. m < n => t[m].nr < t[n].nr
    BY <1>3 DEF Rising
  <2>3. n < m => t[n].nr < t[m].nr
    BY <1>3 DEF Rising
  <2> QED
    BY <1>3, <2>1, <2>2, <2>3
<1>6. ASSUME NEW u \in 1 .. v
      PROVE  \E n \in S : f[n] = u
  <2>1. u - 1 \in Nat /\ u - 1 < v
    OBVIOUS
  <2>2. PICK n \in S : t[n].nr = u - 1
    BY <2>1
  <2> QED
    BY <2>2
<1>7. f \in Bijection(S, 1 .. v)
  <2> HIDE DEF f
  <2> QED
    BY <1>4, <1>5, <1>6 DEF Bijection, Injection, Surjection, IsInjective
<1>8. ExistsBijection(S, 1 .. v)
  BY <1>7 DEF ExistsBijection
<1>9. Cardinality(1 .. v) = Cardinality(S)
  BY <1>2, <1>8, FS_Bijection
<1>10. Cardinality(1 .. v) = v
  BY FS_Interval
<1> QED
  BY <1>9, <1>10

LEMMA LeastBehind ==
  ASSUME NEW R \in SUBSET Int, NEW n \in Int, NEW m \in R, n < m,
         \A k \in R : ~ (n < k /\ k < m)
  PROVE  (CHOOSE e \in R : e > n /\ \A k \in R : k > n => e <= k) = m
<1> DEFINE E(e) == e > n /\ \A k \in R : k > n => e <= k
<1>1. \A k \in R : k \in Int /\ m \in Int
  OBVIOUS
<1>2. E(m)
  BY <1>1
<1>3. ASSUME NEW e \in R, E(e)
      PROVE  e = m
  <2>1. e <= m
    BY <1>3
  <2>2. m <= e
    BY <1>2, <1>3
  <2> QED
    BY <1>1, <2>1, <2>2
<1> HIDE DEF E
<1>4. (CHOOSE e \in R : E(e)) = m
  BY <1>2, <1>3
<1> QED
  BY <1>4 DEF E

(* Before a header there are headers of all the numbers below its own.     *)
LEMMA HeadersBefore ==
  ASSUME NEW t \in Texts, Rising(t), NEW p \in Nat, NEW H \in SUBSET DOMAIN t,
         \A n \in H : IsHeader(t[n]) /\ t[n].nr < p,
         \A u \in Nat : u < p => \E n \in H : t[n].nr = u,
         NEW n \in H
  PROVE  t[n].nr = Cardinality({m \in H : m < n})
<1> DEFINE S == {m \in H : m < n}
           v == t[n].nr
<1>1. \A m \in H : m \in DOMAIN t /\ m \in Int /\ t[m].nr \in Nat
  BY InRange
<1>2. v \in Nat /\ v < p
  BY <1>1
<1>3. S \in SUBSET DOMAIN t
  OBVIOUS
<1>4. \A m \in S : IsHeader(t[m]) /\ t[m].nr < v
  BY <1>1 DEF Rising
<1>5. ASSUME NEW u \in Nat, u < v
      PROVE  \E m \in S : t[m].nr = u
  <2>1. u < p
    BY <1>2, <1>5
  <2>2. PICK m \in H : t[m].nr = u
    BY <2>1
  <2>3. n < m => t[n].nr < t[m].nr
    BY <1>1 DEF Rising
  <2>4. m # n /\ ~ n < m
    BY <1>1, <1>5, <2>2, <2>3
  <2>5. m < n
    BY <1>1, <2>4
  <2> QED
    BY <2>2, <2>5
<1> HIDE DEF S, v
<1>6. Cardinality(S) = v
  BY <1>2, <1>3, <1>4, <1>5, Counting
<1> QED
  BY <1>6 DEF S, v

LEMMA NoneAt ==
  ASSUME output = <<>>, NEW op
  PROVE  At(op) = {}
BY DEF At

(* Constants keep the order of their numbers: the texts that are joined    *)
(* are sorted and the numbers of the second follow those of the first,     *)
(* wherever the grammar joins two, but in the arguments of a call.         *)
THEOREM ConstantsKeepOrder == Spec => []ConstantsInOrder
<1>1. Inv => ConstantsInOrder
  <2> SUFFICES ASSUME Inv, library = "fills"
               PROVE  \A m, n \in At("CONST") :
                        m < n /\ output[m].nr > output[n].nr =>
                          /\ output[m].of = output[n].of
                          /\ \E k \in At("CALL_S") : output[k].of = output[m].of
    BY DEF ConstantsInOrder
  <2>1. CASE output = <<>>
    BY <2>1, NoneAt
  <2>2. CASE output # <<>>
    <3>1. Sorted(output)
      BY <2>2 DEF Inv, OutputFine, Fine
    <3> QED
      BY <3>1 DEF Sorted, At, IsConst
  <2> QED
    BY <2>1, <2>2
<1> QED
  BY <1>1, InvHolds, PTL

(* The functions of the program are apart: the lines of each stand in one  *)
(* piece, and the headers are numbered in their order, from 0 on.          *)
THEOREM FunctionsStandApart == Spec => []FunctionsApart
<1>1. Inv => FunctionsApart
  <2> SUFFICES ASSUME Inv, library = "fills", output # <<>>
               PROVE  FunctionsApart
    BY DEF FunctionsApart
  <2> DEFINE H == At("EXTERN FUNCTION")
             R == At("RETURN_ES")
  <2>1. /\ output \in Texts /\ Rising(output) /\ Apart(output)
        /\ \A x \in Range(output) : Clean(x)
        /\ \A v \in Nat : v < started => HasHeader(output, v)
        /\ \A x \in Range(output) : IsHeader(x) => x.nr < started
        /\ started \in Nat
    BY DEF Inv, OutputFine, Fine, TypeOK
  <2>2. \A n \in H : n \in DOMAIN output /\ IsHeader(output[n])
    BY DEF At, IsHeader
  <2>3. \A n \in DOMAIN output : IsHeader(output[n]) => n \in H
    BY DEF At, IsHeader
  <2>4. \A n \in DOMAIN output : n \in R <=> IsReturn(output[n])
    BY DEF At, IsReturn
  <2>5. R \in SUBSET DOMAIN output
    BY DEF At
  <2>6. \A n \in DOMAIN output : n \in Int /\ output[n] \in Range(output) /\ output[n].nr \in Nat
    BY <2>1, InRange
  <2>7. DOMAIN output = 1 .. Len(output) /\ Len(output) \in Nat
    BY <2>1, InRange
  <2>8. ASSUME NEW n \in H
        PROVE  /\ \E m \in R : m > n
               /\ \A k \in n .. EndOf(n) : output[k] = newline \/ output[k].of[1] = output[n].of[1]
    <3>1. PICK m \in DOMAIN output : Segment(output, n, m)
      BY <2>1, <2>2 DEF Apart
    <3>2. m \in R /\ n < m /\ n \in Int /\ m \in Int /\ n \in 1 .. Len(output) /\ m \in 1 .. Len(output)
      BY <2>2, <2>4, <2>6, <2>7, <3>1 DEF Segment
    <3>3. ASSUME NEW k \in R
          PROVE  ~ (n < k /\ k < m)
      <4>1. k \in DOMAIN output /\ k \in Int /\ IsReturn(output[k])
        BY <2>4, <2>5, <2>6
      <4>2. \A j \in n .. m : j < m => ~ IsReturn(output[j])
        BY <3>1 DEF Segment
      <4>3. n \in Int /\ m \in Int /\ k \in Int
        BY <3>2, <4>1
      <4> HIDE DEF R, H
      <4>4. n < k /\ k < m => k \in n .. m
        BY <4>3
      <4> QED
        BY <4>1, <4>2, <4>4
    <3>4. EndOf(n) = m
      <4>1. R \in SUBSET Int
        BY <2>5, <2>6
      <4> HIDE DEF R
      <4>2. (CHOOSE e \in R : e > n /\ \A k \in R : k > n => e <= k) = m
        BY <3>2, <3>3, <4>1, LeastBehind
      <4> QED
        BY <4>2 DEF EndOf, R
    <3>5. \A k \in n .. m : output[k] = newline \/ output[k].of[1] = output[n].of[1]
      BY <3>1 DEF Segment
    <3> QED
      BY <3>2, <3>4, <3>5
  <2>9. ASSUME NEW v \in Nat, v < started
        PROVE  \E m \in H : output[m].nr = v
    <3>1. PICK x \in Range(output) : IsHeader(x) /\ x.nr = v
      BY <2>1, <2>9 DEF HasHeader
    <3>2. PICK m \in DOMAIN output : x = output[m]
      BY <2>1, InRange
    <3> QED
      BY <2>3, <3>1, <3>2
  <2>10. ASSUME NEW n \in H
         PROVE  output[n].nr = Cardinality({m \in H : m < n})
    <3>1. H \in SUBSET DOMAIN output /\ \A m \in H : IsHeader(output[m]) /\ output[m].nr < started
      BY <2>1, <2>2, <2>6
    <3> HIDE DEF H
    <3> QED
      BY <2>1, <2>9, <3>1, HeadersBefore
  <2>11. Cardinality(H) = started
    <3>1. H \in SUBSET DOMAIN output /\ \A n \in H : IsHeader(output[n]) /\ output[n].nr < started
      BY <2>1, <2>2, <2>6
    <3> HIDE DEF H
    <3> QED
      BY <2>1, <2>9, <3>1, Counting
  <2>12. At("%s") = {}
    <3>1. \A n \in DOMAIN output : output[n].op # "%s"
      BY <2>1, <2>6 DEF Clean
    <3> QED
      BY <3>1 DEF At
  <2> QED
    BY <2>8, <2>10, <2>11, <2>12 DEF FunctionsApart
<1> QED
  BY <1>1, InvHolds, PTL

=============================================================================
