------------------------- MODULE ExpressionsProofs -------------------------
(***************************************************************************)
(* Proofs about Expressions, for every operand, every set of operators and *)
(* every depth of nesting: the types of fragments stay within the tables   *)
(* or are those of a NOT of a number, every operator in the code finds     *)
(* operands of its kind, and the code of every fragment computes the term  *)
(* that right grouping makes of its text.                                  *)
(***************************************************************************)
EXTENDS Expressions, SequenceTheorems, NaturalsInduction, WellFoundedInduction, TLAPS

-----------------------------------------------------------------------------
(* The tables                                                              *)

Operators == AddingOperators \cup MultiplyingOperators \cup RelationalOperators

AllOperators == {"T_PLUS", "T_MINUS", "T_OR", "T_TIMES", "T_DIVIDE", "T_DIV", "T_MOD",
                 "T_AND", "T_EQ", "T_DIF", "T_LEQ", "T_GEQ", "T_LT", "T_GT"}

Connectives == {"SCAND", "SCOR"}

LEMMA OperatorsKnown == Operators \subseteq AllOperators
BY ExpressionsAssumption DEF Operators, AllOperators

LEMMA OperatorNames ==
  ASSUME NEW op \in AllOperators
  PROVE  /\ op \in {"T_PLUS", "T_MINUS", "T_TIMES", "T_MOD"}
              => OPERATOR_S(op) \in Arithmetic \ {"DIV", "IDIV"}
         /\ op = "T_DIVIDE" => OPERATOR_S(op) = "DIV"
         /\ op = "T_DIV" => OPERATOR_S(op) = "IDIV"
         /\ op = "T_AND" => OPERATOR_S(op) = "SCAND"
         /\ op = "T_OR" => OPERATOR_S(op) = "SCOR"
         /\ op \in {"T_EQ", "T_DIF", "T_LEQ", "T_GEQ", "T_LT", "T_GT"}
              => OPERATOR_S(op) \in Comparisons
<1>1. OPERATOR_S("T_PLUS") = "ADD"
  BY ZenonT(60) DEF OPERATOR_S
<1>2. OPERATOR_S("T_MINUS") = "SUB"
  BY ZenonT(60) DEF OPERATOR_S
<1>3. OPERATOR_S("T_TIMES") = "MUL"
  BY ZenonT(60) DEF OPERATOR_S
<1>4. OPERATOR_S("T_DIV") = "IDIV"
  BY ZenonT(60) DEF OPERATOR_S
<1>5. OPERATOR_S("T_DIVIDE") = "DIV"
  BY ZenonT(60) DEF OPERATOR_S
<1>6. OPERATOR_S("T_MOD") = "REM"
  BY ZenonT(60) DEF OPERATOR_S
<1>7. OPERATOR_S("T_AND") = "SCAND"
  BY ZenonT(60) DEF OPERATOR_S
<1>8. OPERATOR_S("T_OR") = "SCOR"
  BY ZenonT(60) DEF OPERATOR_S
<1>9. OPERATOR_S("T_EQ") = "EQ"
  BY ZenonT(60) DEF OPERATOR_S
<1>10. OPERATOR_S("T_DIF") = "NE"
  BY ZenonT(60) DEF OPERATOR_S
<1>11. OPERATOR_S("T_LEQ") = "LE"
  BY ZenonT(60) DEF OPERATOR_S
<1>12. OPERATOR_S("T_GEQ") = "GE"
  BY ZenonT(60) DEF OPERATOR_S
<1>13. OPERATOR_S("T_LT") = "LT"
  BY ZenonT(60) DEF OPERATOR_S
<1>14. OPERATOR_S("T_GT") = "GT"
  BY ZenonT(60) DEF OPERATOR_S
<1> QED
  BY <1>1, <1>2, <1>3, <1>4, <1>5, <1>6, <1>7, <1>8, <1>9, <1>10, <1>11, <1>12, <1>13, <1>14
     DEF Arithmetic, Comparisons, AllOperators

(* The operands' types decide the type of an operation; the index of no    *)
(* row is met, and the entry of none is left unassigned.                    *)
LEMMA ReturnTable ==
  ASSUME NEW op \in AllOperators, NEW l \in Types, NEW r \in Types
  PROVE  EXPR_RETURN(l, r, op) =
           IF op \in {"T_PLUS", "T_MINUS", "T_TIMES", "T_MOD"} THEN
             (IF {l, r} \subseteq Numeric THEN (IF T_REAL \in {l, r} THEN T_REAL ELSE T_INTEGER)
              ELSE T_INVALID)
           ELSE IF op = "T_DIVIDE" THEN (IF {l, r} \subseteq Numeric THEN T_REAL ELSE T_INVALID)
           ELSE IF op = "T_DIV" THEN (IF {l, r} \subseteq Numeric THEN T_INTEGER ELSE T_INVALID)
           ELSE IF op = "T_AND"
             THEN (IF <<l, r>> = <<T_BOOLEAN, T_INTEGER>> THEN T_BOOLEAN ELSE T_INVALID)
           ELSE IF op = "T_OR"
             THEN (IF <<l, r>> = <<T_BOOLEAN, T_BOOLEAN>> THEN T_BOOLEAN ELSE T_INVALID)
           ELSE (IF {l, r} \subseteq Numeric THEN T_BOOLEAN ELSE T_INVALID)
<1>1. op # "T_NOT" /\ ~ (T_INVALID \in {l, r})
  BY DEF AllOperators, Types, T_INVALID, T_INTEGER, T_REAL, T_BOOLEAN
<1>2. CASE op \in {"T_PLUS", "T_MINUS", "T_TIMES", "T_MOD"}
  BY <1>1, <1>2, ZenonT(60) DEF EXPR_RETURN
<1>3. CASE op = "T_DIVIDE"
  BY <1>1, <1>3, ZenonT(60) DEF EXPR_RETURN
<1>4. CASE op = "T_DIV"
  BY <1>1, <1>4, ZenonT(60) DEF EXPR_RETURN
<1>5. CASE op = "T_AND"
  BY <1>1, <1>5, ZenonT(60) DEF EXPR_RETURN
<1>6. CASE op = "T_OR"
  BY <1>1, <1>6, ZenonT(60) DEF EXPR_RETURN
<1>7. CASE ~ (op \in {"T_PLUS", "T_MINUS", "T_TIMES", "T_MOD"})
           /\ op # "T_DIVIDE" /\ op # "T_DIV" /\ op # "T_AND" /\ op # "T_OR"
  BY <1>1, <1>7, ZenonT(60) DEF EXPR_RETURN
<1> QED
  BY <1>2, <1>3, <1>4, <1>5, <1>6, <1>7

(* An operation on typed operands is rejected, or it is typed as its       *)
(* instruction is.                                                          *)
LEMMA ReturnTypes ==
  ASSUME NEW op \in AllOperators, NEW l \in Types, NEW r \in Types,
         EXPR_RETURN(l, r, op) # T_INVALID
  PROVE  /\ EXPR_RETURN(l, r, op) \in Types
         /\ EXPR_RETURN(l, r, op) = BinaryKind(OPERATOR_S(op), l, r)
<1> DEFINE name == OPERATOR_S(op)
           result == EXPR_RETURN(l, r, op)
           kind == BinaryKind(name, l, r)
<1>1. T_INTEGER \in Types /\ T_REAL \in Types /\ T_BOOLEAN \in Types
  BY DEF Types
<1>2. CASE op \in {"T_PLUS", "T_MINUS", "T_TIMES", "T_MOD"}
  <2>1. {l, r} \subseteq Numeric /\ result = IF T_REAL \in {l, r} THEN T_REAL ELSE T_INTEGER
    BY <1>2, ReturnTable
  <2>2. name \in Arithmetic /\ name # "DIV" /\ name # "IDIV"
    BY <1>2, OperatorNames
  <2>3. kind = IF T_REAL \in {l, r} THEN T_REAL ELSE T_INTEGER
    BY <2>1, <2>2, Zenon DEF BinaryKind
  <2> QED
    BY <1>1, <2>1, <2>3
<1>3. CASE op = "T_DIVIDE"
  <2>1. {l, r} \subseteq Numeric /\ result = T_REAL
    BY <1>3, ReturnTable
  <2>2. name = "DIV" /\ name \in Arithmetic /\ name # "IDIV"
    BY <1>3, OperatorNames DEF Arithmetic
  <2>3. kind = T_REAL
    BY <2>1, <2>2, Zenon DEF BinaryKind
  <2> QED
    BY <1>1, <2>1, <2>3
<1>4. CASE op = "T_DIV"
  <2>1. {l, r} \subseteq Numeric /\ result = T_INTEGER
    BY <1>4, ReturnTable
  <2>2. name = "IDIV" /\ name \in Arithmetic
    BY <1>4, OperatorNames DEF Arithmetic
  <2>3. kind = T_INTEGER
    BY <2>1, <2>2, Zenon DEF BinaryKind
  <2> QED
    BY <1>1, <2>1, <2>3
<1>5. CASE op = "T_AND"
  <2>1. l = T_BOOLEAN /\ r = T_INTEGER /\ result = T_BOOLEAN
    BY <1>5, ReturnTable
  <2>2. name = "SCAND" /\ name \notin Arithmetic
    BY <1>5, OperatorNames DEF Arithmetic
  <2>3. kind = T_BOOLEAN
    BY <2>1, <2>2, Zenon DEF BinaryKind
  <2> QED
    BY <1>1, <2>1, <2>3
<1>6. CASE op = "T_OR"
  <2>1. l = T_BOOLEAN /\ r = T_BOOLEAN /\ result = T_BOOLEAN
    BY <1>6, ReturnTable
  <2>2. name = "SCOR" /\ name \notin Arithmetic
    BY <1>6, OperatorNames DEF Arithmetic
  <2>3. kind = T_BOOLEAN
    BY <2>1, <2>2, Zenon DEF BinaryKind
  <2> QED
    BY <1>1, <2>1, <2>3
<1>7. CASE op \in {"T_EQ", "T_DIF", "T_LEQ", "T_GEQ", "T_LT", "T_GT"}
  <2>1. {l, r} \subseteq Numeric /\ result = T_BOOLEAN
    BY <1>7, ReturnTable
  <2>2. name \in Comparisons /\ name \notin Arithmetic
    BY <1>7, OperatorNames DEF Arithmetic, Comparisons
  <2>3. kind = T_BOOLEAN
    BY <2>1, <2>2, Zenon DEF BinaryKind
  <2> QED
    BY <1>1, <2>1, <2>3
<1> QED
  BY <1>2, <1>3, <1>4, <1>5, <1>6, <1>7 DEF AllOperators

LEMMA NotReturns ==
  ASSUME NEW r \in Types
  PROVE  /\ EXPR_RETURN(T_INVALID, r, "T_NOT") = IF r = T_BOOLEAN THEN T_BOOLEAN ELSE Unassigned
         /\ EXPR_RETURN(T_INVALID, r, "T_NOT") = UnaryKind("NOT", r)
<1>1. T_INVALID # T_BOOLEAN
  BY DEF T_INVALID, T_BOOLEAN
<1>2. ASSUME r = T_BOOLEAN PROVE EXPR_RETURN(T_INVALID, r, "T_NOT") = T_BOOLEAN
  BY <1>1, <1>2, ZenonT(60) DEF EXPR_RETURN
<1>3. ASSUME r # T_BOOLEAN PROVE EXPR_RETURN(T_INVALID, r, "T_NOT") = Unassigned
  BY <1>1, <1>3, ZenonT(60) DEF EXPR_RETURN
<1>4. EXPR_RETURN(T_INVALID, r, "T_NOT") = IF r = T_BOOLEAN THEN T_BOOLEAN ELSE Unassigned
  BY <1>2, <1>3
<1>5. UnaryKind("NOT", r) = IF r = T_BOOLEAN THEN T_BOOLEAN ELSE Unassigned
  <2>1. r # Misused /\ (r # T_BOOLEAN => r \in Numeric)
    BY DEF Types, Numeric, T_INTEGER, T_REAL, T_BOOLEAN, Misused
  <2> QED
    BY <2>1 DEF UnaryKind
<1> QED
  BY <1>4, <1>5

-----------------------------------------------------------------------------
(* What stands in for induction: a set of numbers has a least one. *)
LEMMA Least ==
  ASSUME NEW T, T \subseteq Nat, T # {}
  PROVE  \E m \in T : \A x \in T : m <= x
<1>1. IsWellFoundedOn(OpToRel(<, Nat), Nat)
  BY NatLessThanWellFounded
<1>2. PICK m \in T : \A y \in T : <<y, m>> \notin OpToRel(<, Nat)
  BY <1>1, WFMin
<1>3. \A y \in T : ~ (y < m)
  BY <1>2 DEF OpToRel
<1> QED
  BY <1>3

-----------------------------------------------------------------------------
(* Running code                                                            *)

Instruction == {<<"LOAD", x>> : x \in Operand}
                 \cup {<<name>> : name \in Arithmetic \cup Connectives \cup Comparisons
                                           \cup {"NOT", "UMINUS"}}

(* f holds the stacks that code leaves, step by step, from the stack s. *)
IsRun(f, s, code) ==
  f = [k \in 0 .. Len(code) |-> IF k = 0 THEN s ELSE Execute(f[k - 1], code[k])]

Runs(s, code, z) == \E f : IsRun(f, s, code) /\ f[Len(code)] = z

(* code leaves on any stack one more term, t, and touches nothing below.    *)
Pushes(code, t) == \A S : \A s \in Seq(S) : Runs(s, code, Append(s, t))

(* Two runs of one code from one stack are the same. *)
LEMMA RunsAgree ==
  ASSUME NEW code, Len(code) \in Nat, NEW s, NEW f, IsRun(f, s, code), NEW g, IsRun(g, s, code)
  PROVE  f = g
<1> DEFINE T == {k \in 0 .. Len(code) : f[k] # g[k]}
<1>1. SUFFICES T = {}
  BY <1>1 DEF IsRun
<1>2. SUFFICES ASSUME T # {} PROVE FALSE
  OBVIOUS
<1>3. T \subseteq Nat
  OBVIOUS
<1>4. PICK k \in T : \A j \in T : k <= j
  BY <1>2, <1>3, Least
<1>5. k # 0
  BY <1>4 DEF IsRun
<1>6. k - 1 \in 0 .. Len(code) /\ ~ (k <= k - 1) /\ k \in 0 .. Len(code)
  BY <1>4, <1>5
<1>7. f[k - 1] = g[k - 1]
  BY <1>4, <1>6
<1>8. f[k] = Execute(f[k - 1], code[k]) /\ g[k] = Execute(g[k - 1], code[k])
  BY <1>5, <1>6 DEF IsRun
<1> QED
  BY <1>4, <1>7, <1>8

(* Code that pushes one term on every stack computes it from the empty one. *)
LEMMA RunOfPush ==
  ASSUME NEW code, Len(code) \in Nat, NEW t, Pushes(code, t)
  PROVE  Run(code) = <<t>>
<1>1. <<>> \in Seq({}) /\ Append(<<>>, t) = <<t>>
  OBVIOUS
<1>2. PICK f : IsRun(f, <<>>, code) /\ f[Len(code)] = <<t>>
  BY <1>1 DEF Pushes, Runs
<1> DEFINE g == CHOOSE h : IsRun(h, <<>>, code)
<1>3. IsRun(g, <<>>, code)
  BY <1>2
<1>4. g = f
  BY <1>2, <1>3, RunsAgree
<1>5. Run(code) = g[Len(code)]
  BY DEF Run, IsRun
<1> QED
  BY <1>2, <1>4, <1>5

(* A run of two codes one after the other. *)
LEMMA RunsCompose ==
  ASSUME NEW C, NEW a \in Seq(C), NEW b \in Seq(C),
         NEW s, NEW y, NEW z, Runs(s, a, y), Runs(y, b, z)
  PROVE  Runs(s, a \o b, z)
<1> PICK f : IsRun(f, s, a) /\ f[Len(a)] = y
  BY DEF Runs
<1> PICK g : IsRun(g, f[Len(a)], b) /\ g[Len(b)] = z
  BY DEF Runs
<1> DEFINE m == Len(a)
           n == Len(b)
           h == [k \in 0 .. m + n |-> IF k <= m THEN f[k] ELSE g[k - m]]
<1>1. m \in Nat /\ n \in Nat /\ Len(a \o b) = m + n
  OBVIOUS
<1>2. \A k \in 1 .. m + n : (a \o b)[k] = IF k <= m THEN a[k] ELSE b[k - m]
  OBVIOUS
<1>3. g[0] = f[m]
  BY <1>1 DEF IsRun
<1>4. \A k \in 0 .. m + n : h[k] = IF k = 0 THEN s ELSE Execute(h[k - 1], (a \o b)[k])
  <2> TAKE k \in 0 .. m + n
  <2>1. CASE k = 0
    BY <1>1, <2>1 DEF IsRun
  <2>2. CASE k # 0 /\ k <= m
    <3>1. k \in 0 .. m /\ k - 1 \in 0 .. m + n /\ k - 1 <= m /\ k \in 1 .. m + n
      BY <1>1, <2>2
    <3>2. h[k] = f[k] /\ h[k - 1] = f[k - 1] /\ (a \o b)[k] = a[k]
      BY <1>2, <2>2, <3>1
    <3>3. f[k] = Execute(f[k - 1], a[k])
      BY <2>2, <3>1 DEF IsRun
    <3> QED
      BY <2>2, <3>2, <3>3
  <2>3. CASE ~ (k <= m)
    <3>1. k - m \in 0 .. n /\ k - m # 0 /\ k - 1 \in 0 .. m + n /\ k \in 1 .. m + n /\ k # 0
      BY <1>1, <2>3
    <3>2. h[k] = g[k - m] /\ (a \o b)[k] = b[k - m]
      BY <1>2, <2>3, <3>1
    <3>3. h[k - 1] = g[(k - m) - 1]
      <4>1. CASE k - 1 <= m
        <5>1. k - 1 = m /\ (k - m) - 1 = 0
          BY <1>1, <2>3, <4>1
        <5> QED
          BY <1>3, <3>1, <4>1, <5>1
      <4>2. CASE ~ (k - 1 <= m)
        <5>1. (k - m) - 1 = (k - 1) - m
          BY <1>1
        <5> QED
          BY <3>1, <4>2, <5>1
      <4> QED
        BY <4>1, <4>2
    <3>4. g[k - m] = Execute(g[(k - m) - 1], b[k - m])
      BY <3>1 DEF IsRun
    <3> QED
      BY <3>1, <3>2, <3>3, <3>4
  <2> QED
    BY <2>1, <2>2, <2>3
<1>5. h[m + n] = g[n]
  <2>1. CASE n = 0
    BY <1>1, <1>3, <2>1
  <2>2. CASE n # 0
    <3>1. m + n \in 0 .. m + n /\ ~ (m + n <= m) /\ (m + n) - m = n
      BY <1>1, <2>2
    <3> QED
      BY <3>1
  <2> QED
    BY <2>1, <2>2
<1>6. IsRun(h, s, a \o b)
  <2>1. h = [k \in 0 .. m + n |-> h[k]]
    OBVIOUS
  <2> HIDE DEF h
  <2> QED
    BY <1>1, <1>4, <2>1 DEF IsRun
<1> QED
  BY <1>1, <1>5, <1>6 DEF Runs

(* A run of one instruction. *)
LEMMA RunOne ==
  ASSUME NEW i, NEW s
  PROVE  Runs(s, <<i>>, Execute(s, i))
<1> DEFINE f == [k \in 0 .. 1 |-> IF k = 0 THEN s ELSE Execute(s, i)]
<1>1. Len(<<i>>) = 1 /\ <<i>>[1] = i
  OBVIOUS
<1>2. f[0] = s /\ f[1] = Execute(s, i)
  OBVIOUS
<1>3. \A k \in 0 .. 1 : f[k] = IF k = 0 THEN s ELSE Execute(f[k - 1], <<i>>[k])
  <2> TAKE k \in 0 .. 1
  <2>1. CASE k = 0
    BY <1>2, <2>1
  <2>2. CASE k = 1
    BY <1>1, <1>2, <2>2
  <2> QED
    BY <2>1, <2>2
<1>4. f = [k \in 0 .. 1 |-> f[k]]
  OBVIOUS
<1> HIDE DEF f
<1> QED
  BY <1>1, <1>2, <1>3, <1>4 DEF IsRun, Runs

(* The three kinds of instruction on a stack.                              *)
LEMMA LoadPushes ==
  ASSUME NEW x
  PROVE  Pushes(<<<<"LOAD", x>>>>, Load(x))
<1> SUFFICES ASSUME NEW S, NEW s \in Seq(S)
             PROVE  Runs(s, <<<<"LOAD", x>>>>, Append(s, Load(x)))
  BY DEF Pushes
<1>1. Execute(s, <<"LOAD", x>>) = Append(s, Load(x))
  BY DEF Execute
<1> QED
  BY <1>1, RunOne

LEMMA ExecuteUnary ==
  ASSUME NEW S, NEW s \in Seq(S), NEW t, NEW name \in {"NOT", "UMINUS"}
  PROVE  Execute(Append(s, t), <<name>>) = Append(s, Unary(name, t))
<1>1. /\ Len(Append(s, t)) = Len(s) + 1 /\ Len(s) \in Nat
      /\ Append(s, t)[Len(s) + 1] = t
      /\ SubSeq(Append(s, t), 1, Len(s)) = s
  <2> DEFINE R == S \cup {t}
  <2>1. s \in Seq(R) /\ t \in R
    OBVIOUS
  <2> HIDE DEF R
  <2>2. SubSeq(Append(s, t), 1, Len(s)) = s
    BY <2>1
  <2> QED
    BY <2>1, <2>2
<1>2. Len(Append(s, t)) > 0 /\ Len(Append(s, t)) - 0 = Len(s) + 1 /\ Len(Append(s, t)) - 1 = Len(s)
  BY <1>1
<1>3. <<name>>[1] = name /\ name # "LOAD"
  OBVIOUS
<1> QED
  BY <1>1, <1>2, <1>3 DEF Execute

LEMMA ExecuteBinary ==
  ASSUME NEW S, NEW s \in Seq(S), NEW t, NEW u, NEW name,
         name \notin {"LOAD", "NOT", "UMINUS"}
  PROVE  Execute(Append(Append(s, t), u), <<name>>) = Append(s, Apply(name, t, u))
<1> DEFINE R == S \cup {t, u}
           w == Append(Append(s, t), u)
<1>1. s \in Seq(R) /\ t \in R /\ u \in R
  OBVIOUS
<1> HIDE DEF R
<1>2. Append(s, t) \in Seq(R) /\ w \in Seq(R)
  BY <1>1
<1>3. /\ Len(s) \in Nat /\ Len(w) = Len(s) + 2
      /\ w[Len(s) + 2] = u /\ w[Len(s) + 1] = t
  BY <1>1
<1>4. SubSeq(w, 1, Len(s)) = s
  <2>1. SubSeq(w, 1, Len(s)) \in Seq(R) /\ Len(SubSeq(w, 1, Len(s))) = Len(s)
    BY <1>2, <1>3
  <2>2. \A k \in 1 .. Len(s) : SubSeq(w, 1, Len(s))[k] = s[k]
    BY <1>1, <1>3
  <2> QED
    BY <1>1, <2>1, <2>2
<1> HIDE DEF w
<1>5. /\ Len(w) > 0 /\ Len(w) > 1 /\ Len(w) - 0 = Len(s) + 2
      /\ Len(w) - 1 = Len(s) + 1 /\ Len(w) - 2 = Len(s)
  BY <1>3
<1>6. <<name>>[1] = name
  OBVIOUS
<1>7. Execute(w, <<name>>) = Append(s, Apply(name, t, u))
  BY <1>3, <1>4, <1>5, <1>6 DEF Execute
<1> QED
  BY <1>7 DEF w

(* What the code of an operation pushes, once its operands' codes push.    *)
LEMMA UnaryPushes ==
  ASSUME NEW C, NEW a \in Seq(C), NEW t, Pushes(a, t),
         NEW name \in {"NOT", "UMINUS"}, <<name>> \in C
  PROVE  Pushes(Append(a, <<name>>), Unary(name, t))
<1> DEFINE i == <<name>>
<1>1. <<i>> \in Seq(C) /\ Append(a, i) = a \o <<i>>
  OBVIOUS
<1> HIDE DEF i
<1> SUFFICES ASSUME NEW S, NEW s \in Seq(S)
             PROVE  Runs(s, a \o <<i>>, Append(s, Unary(name, t)))
  BY <1>1 DEF Pushes, i
<1>2. Runs(s, a, Append(s, t))
  BY DEF Pushes
<1>3. Runs(Append(s, t), <<i>>, Append(s, Unary(name, t)))
  BY RunOne, ExecuteUnary DEF i
<1> QED
  BY <1>1, <1>2, <1>3, RunsCompose

LEMMA BinaryPushes ==
  ASSUME NEW C, NEW a \in Seq(C), NEW t, Pushes(a, t),
         NEW b \in Seq(C), NEW u, Pushes(b, u),
         NEW name, name \notin {"LOAD", "NOT", "UMINUS"}, <<name>> \in C
  PROVE  Pushes(a \o b \o <<<<name>>>>, Apply(name, t, u))
<1> DEFINE i == <<name>>
<1>1. <<i>> \in Seq(C) /\ a \o b \in Seq(C)
  OBVIOUS
<1> HIDE DEF i
<1> SUFFICES ASSUME NEW S, NEW s \in Seq(S)
             PROVE  Runs(s, (a \o b) \o <<i>>, Append(s, Apply(name, t, u)))
  BY DEF Pushes, i
<1>2. Runs(s, a, Append(s, t))
  BY DEF Pushes
<1>3. Append(s, t) \in Seq(S \cup {t})
  OBVIOUS
<1>4. Runs(Append(s, t), b, Append(Append(s, t), u))
  BY <1>3 DEF Pushes
<1>5. Runs(Append(Append(s, t), u), <<i>>, Append(s, Apply(name, t, u)))
  <2>1. Execute(Append(Append(s, t), u), i) = Append(s, Apply(name, t, u))
    BY ExecuteBinary DEF i
  <2> QED
    BY <2>1, RunOne
<1>6. Runs(s, a \o b, Append(Append(s, t), u))
  BY <1>2, <1>4, RunsCompose
<1> QED
  BY <1>1, <1>5, <1>6, RunsCompose

-----------------------------------------------------------------------------
(* Code that ends in a NOT of a number                                     *)

LEMMA Appended ==
  ASSUME NEW C, NEW code \in Seq(C), NEW i \in C
  PROVE  LET w == Append(code, i) IN
         /\ Len(code) \in Nat /\ Len(w) = Len(code) + 1
         /\ DOMAIN w = 1 .. Len(code) + 1 /\ DOMAIN code = 1 .. Len(code)
         /\ w[Len(code) + 1] = i
         /\ \A k \in 1 .. Len(code) : w[k] = code[k]
         /\ \A k \in 0 .. Len(code) : SubSeq(w, 1, k) = SubSeq(code, 1, k)
         /\ SubSeq(w, 1, Len(code)) = code
<1> DEFINE w == Append(code, i)
<1>1. /\ w \in Seq(C) /\ Len(code) \in Nat /\ Len(w) = Len(code) + 1
      /\ DOMAIN w = 1 .. Len(code) + 1 /\ DOMAIN code = 1 .. Len(code)
      /\ w[Len(code) + 1] = i
      /\ \A k \in 1 .. Len(code) : w[k] = code[k]
  OBVIOUS
<1> HIDE DEF w
<1>2. ASSUME NEW k \in 0 .. Len(code) PROVE SubSeq(w, 1, k) = SubSeq(code, 1, k)
  <2>1. k <= Len(w) /\ k <= Len(code) /\ k \in Nat
    BY <1>1
  <2>2. /\ SubSeq(w, 1, k) \in Seq(C) /\ Len(SubSeq(w, 1, k)) = k
        /\ SubSeq(code, 1, k) \in Seq(C) /\ Len(SubSeq(code, 1, k)) = k
    BY <1>1, <2>1
  <2>3. \A j \in 1 .. k : SubSeq(w, 1, k)[j] = SubSeq(code, 1, k)[j]
    BY <1>1, <2>1
  <2> QED
    BY <2>2, <2>3
<1>3. SubSeq(code, 1, Len(code)) = code
  OBVIOUS
<1>4. SubSeq(w, 1, Len(code)) = code
  BY <1>1, <1>2, <1>3
<1> QED
  BY <1>1, <1>2, <1>4 DEF w

LEMMA DifferentInstructions ==
  /\ <<"NOT">> # <<"UMINUS">>
  /\ \A x : <<"LOAD", x>> # <<"NOT">> /\ <<"LOAD", x>> # <<"UMINUS">>
  /\ \A name : name \notin {"NOT", "UMINUS"} => <<name>> # <<"NOT">> /\ <<name>> # <<"UMINUS">>
<1>1. <<"NOT">>[1] = "NOT" /\ <<"UMINUS">>[1] = "UMINUS"
  OBVIOUS
<1>2. ASSUME NEW x PROVE <<"LOAD", x>>[1] = "LOAD"
  OBVIOUS
<1>3. ASSUME NEW name PROVE <<name>>[1] = name
  OBVIOUS
<1> QED
  BY <1>1, <1>2, <1>3

(* The last instruction is neither a NOT nor a sign. *)
LEMMA OtherEnds ==
  ASSUME NEW C, NEW code \in Seq(C), NEW i \in C, i # <<"NOT">>, i # <<"UMINUS">>
  PROVE  ~ NegatesNumber(Append(code, i))
<1> DEFINE w == Append(code, i)
<1>1. /\ Len(code) \in Nat /\ Len(w) = Len(code) + 1
      /\ DOMAIN w = 1 .. Len(code) + 1 /\ w[Len(code) + 1] = i
  BY Appended
<1> HIDE DEF w
<1>2. SUFFICES ASSUME NEW n \in DOMAIN w, w[n] = <<"NOT">>,
                      \A m \in n + 1 .. Len(w) : w[m] = <<"UMINUS">>
               PROVE  FALSE
  BY <1>2 DEF NegatesNumber, w
<1>3. n = Len(w) \/ Len(w) \in n + 1 .. Len(w)
  BY <1>1, <1>2
<1> QED
  BY <1>1, <1>2, <1>3

LEMMA NotEnds ==
  ASSUME NEW C, NEW code \in Seq(C), <<"NOT">> \in C, NEW t, Pushes(code, t)
  PROVE  NegatesNumber(Append(code, <<"NOT">>)) <=> Kind(t) \in Numeric
<1> DEFINE i == <<"NOT">>
           w == Append(code, i)
<1>1. /\ Len(code) \in Nat /\ Len(w) = Len(code) + 1
      /\ DOMAIN w = 1 .. Len(code) + 1 /\ w[Len(code) + 1] = i
      /\ SubSeq(w, 1, Len(code)) = code
  <2> HIDE DEF i
  <2>1. i \in C
    BY DEF i
  <2> QED
    BY <2>1, Appended
<1>2. i # <<"UMINUS">>
  BY DifferentInstructions
<1>3. Run(code) = <<t>>
  BY <1>1, RunOfPush
<1>4. Len(<<t>>) = 1 /\ <<t>>[1] = t
  OBVIOUS
<1> HIDE DEF i, w
<1>5. ASSUME Kind(t) \in Numeric PROVE NegatesNumber(w)
  <2> DEFINE n == Len(code) + 1
  <2>1. n \in DOMAIN w /\ n + 1 .. Len(w) = {} /\ n - 1 = Len(code)
    BY <1>1
  <2>2. Run(SubSeq(w, 1, n - 1)) = <<t>> /\ w[n] = <<"NOT">>
    BY <1>1, <1>3, <2>1 DEF i
  <2> HIDE DEF n
  <2> QED
    BY <1>4, <1>5, <2>1, <2>2 DEF NegatesNumber
<1>6. ASSUME NegatesNumber(w) PROVE Kind(t) \in Numeric
  <2>1. PICK n \in DOMAIN w :
          /\ \A m \in n + 1 .. Len(w) : w[m] = <<"UMINUS">>
          /\ LET s == Run(SubSeq(w, 1, n - 1)) IN Len(s) = 1 /\ Kind(s[1]) \in Numeric
    BY <1>6 DEF NegatesNumber
  <2>2. n = Len(w) \/ Len(w) \in n + 1 .. Len(w)
    BY <1>1, <2>1
  <2>3. n - 1 = Len(code)
    BY <1>1, <1>2, <2>1, <2>2
  <2>4. Run(SubSeq(w, 1, n - 1)) = <<t>>
    BY <1>1, <1>3, <2>3
  <2> QED
    BY <1>4, <2>1, <2>4
<1> QED
  BY <1>5, <1>6 DEF i, w

LEMMA SignEnds ==
  ASSUME NEW C, NEW code \in Seq(C), <<"UMINUS">> \in C
  PROVE  NegatesNumber(Append(code, <<"UMINUS">>)) <=> NegatesNumber(code)
<1> DEFINE i == <<"UMINUS">>
           w == Append(code, i)
           number(text, n) ==
             LET s == Run(SubSeq(text, 1, n - 1)) IN Len(s) = 1 /\ Kind(s[1]) \in Numeric
<1>1. /\ Len(code) \in Nat /\ Len(w) = Len(code) + 1
      /\ DOMAIN w = 1 .. Len(code) + 1 /\ DOMAIN code = 1 .. Len(code)
      /\ w[Len(code) + 1] = i
      /\ \A k \in 1 .. Len(code) : w[k] = code[k]
      /\ \A k \in 0 .. Len(code) : SubSeq(w, 1, k) = SubSeq(code, 1, k)
  <2> HIDE DEF i
  <2>1. i \in C
    BY DEF i
  <2> QED
    BY <2>1, Appended
<1>2. i # <<"NOT">>
  BY DifferentInstructions
<1> HIDE DEF i, w
<1>3. ASSUME NEW n \in 1 .. Len(code)
      PROVE  n \in DOMAIN w /\ w[n] = code[n] /\ (number(w, n) <=> number(code, n))
  <2>1. n - 1 \in 0 .. Len(code) /\ n \in DOMAIN w
    BY <1>1
  <2>2. SubSeq(w, 1, n - 1) = SubSeq(code, 1, n - 1)
    BY <1>1, <2>1
  <2> QED
    BY <1>1, <2>1, <2>2
<1> HIDE DEF number
<1>4. ASSUME NEW n \in 1 .. Len(code)
      PROVE  (\A m \in n + 1 .. Len(w) : w[m] = i) <=> (\A m \in n + 1 .. Len(code) : code[m] = i)
  <2>1. \A m \in n + 1 .. Len(code) : m \in 1 .. Len(code) /\ m \in n + 1 .. Len(w)
    BY <1>1
  <2>2. \A m \in n + 1 .. Len(w) : m \in n + 1 .. Len(code) \/ m = Len(code) + 1
    BY <1>1
  <2> QED
    BY <1>1, <2>1, <2>2
<1>5. NegatesNumber(w) <=> \E n \in DOMAIN w : /\ w[n] = <<"NOT">>
                                               /\ \A m \in n + 1 .. Len(w) : w[m] = i
                                               /\ number(w, n)
  BY DEF NegatesNumber, number, i
<1>6. NegatesNumber(code) <=> \E n \in DOMAIN code : /\ code[n] = <<"NOT">>
                                                     /\ \A m \in n + 1 .. Len(code) : code[m] = i
                                                     /\ number(code, n)
  BY DEF NegatesNumber, number, i
<1>7. \A n \in DOMAIN w : w[n] = <<"NOT">> => n \in 1 .. Len(code)
  BY <1>1, <1>2
<1>8. NegatesNumber(w) => NegatesNumber(code)
  BY <1>1, <1>3, <1>4, <1>5, <1>6, <1>7
<1>9. NegatesNumber(code) => NegatesNumber(w)
  BY <1>1, <1>3, <1>4, <1>5, <1>6
<1> QED
  BY <1>8, <1>9 DEF i, w

-----------------------------------------------------------------------------
(* Right grouping                                                          *)

(* f gives the term that the operands of chain make from each one on. *)
IsGrouping(f, chain) ==
  f = [k \in 1 .. Len(chain) |->
         IF k = Len(chain) THEN chain[k].right
         ELSE Binary(chain[k + 1].op, chain[k].right, f[k + 1])]

GroupsTo(chain, t) == \E f : IsGrouping(f, chain) /\ f[1] = t

LEMMA GroupingsAgree ==
  ASSUME NEW chain, Len(chain) \in Nat, NEW f, IsGrouping(f, chain), NEW g, IsGrouping(g, chain)
  PROVE  f = g
<1> DEFINE n == Len(chain)
           T == {j \in 0 .. n - 1 : f[n - j] # g[n - j]}
<1>1. SUFFICES T = {}
  <2>1. \A k \in 1 .. n : n - k \in 0 .. n - 1 /\ n - (n - k) = k
    OBVIOUS
  <2>2. \A k \in 1 .. n : f[k] = g[k]
    BY <1>1, <2>1
  <2> QED
    BY <2>2 DEF IsGrouping
<1>2. SUFFICES ASSUME T # {} PROVE FALSE
  OBVIOUS
<1>3. T \subseteq Nat
  OBVIOUS
<1>4. PICK j \in T : \A i \in T : j <= i
  BY <1>2, <1>3, Least
<1>5. n - j \in 1 .. n /\ j \in Nat
  BY <1>4
<1>6. j # 0
  BY <1>4, <1>5 DEF IsGrouping
<1>7. j - 1 \in 0 .. n - 1 /\ ~ (j <= j - 1) /\ n - (j - 1) = (n - j) + 1 /\ n - j # n
  BY <1>4, <1>5, <1>6
<1>8. f[(n - j) + 1] = g[(n - j) + 1]
  BY <1>4, <1>7
<1>9. f[n - j] = g[n - j]
  BY <1>5, <1>7, <1>8 DEF IsGrouping
<1> QED
  BY <1>4, <1>9

LEMMA RightTermIs ==
  ASSUME NEW chain, Len(chain) \in Nat, NEW t, GroupsTo(chain, t)
  PROVE  RightTerm(chain) = t
<1>1. PICK f : IsGrouping(f, chain) /\ f[1] = t
  BY DEF GroupsTo
<1> DEFINE g == CHOOSE h : IsGrouping(h, chain)
<1>2. IsGrouping(g, chain)
  BY <1>1
<1>3. g = f
  BY <1>1, <1>2, GroupingsAgree
<1>4. RightTerm(chain) = g[1]
  BY DEF RightTerm, IsGrouping
<1> QED
  BY <1>1, <1>3, <1>4

(* One operator and operand, and one more before a chain.                  *)
LEMMA GroupingOne ==
  ASSUME NEW link
  PROVE  GroupsTo(<<link>>, link.right)
<1> DEFINE f == [k \in 1 .. 1 |-> link.right]
<1>1. Len(<<link>>) = 1 /\ <<link>>[1] = link
  OBVIOUS
<1>2. f = [k \in 1 .. 1 |-> IF k = 1 THEN <<link>>[k].right
                           ELSE Binary(<<link>>[k + 1].op, <<link>>[k].right, f[k + 1])]
  BY <1>1
<1>3. f[1] = link.right
  OBVIOUS
<1> HIDE DEF f
<1> QED
  BY <1>1, <1>2, <1>3 DEF GroupsTo, IsGrouping

LEMMA GroupingGrows ==
  ASSUME NEW L, NEW chain \in Seq(L), chain # <<>>, NEW t, GroupsTo(chain, t), NEW link
  PROVE  GroupsTo(<<link>> \o chain, Binary(chain[1].op, link.right, t))
<1> DEFINE n == Len(chain)
           more == <<link>> \o chain
           u == Binary(chain[1].op, link.right, t)
<1>1. PICK f : IsGrouping(f, chain) /\ f[1] = t
  BY DEF GroupsTo
<1> DEFINE g == [k \in 1 .. n + 1 |-> IF k = 1 THEN u ELSE f[k - 1]]
<1>2. n \in Nat \ {0}
  OBVIOUS
<1>3. Len(more) = n + 1 /\ more[1] = link /\ \A k \in 1 .. n : more[k + 1] = chain[k]
  <2>1. Len(<<link>>) = 1 /\ <<link>>[1] = link /\ <<link>> \in Seq({link} \cup L)
    OBVIOUS
  <2>2. chain \in Seq({link} \cup L)
    OBVIOUS
  <2> QED
    BY <1>2, <2>1, <2>2
<1> HIDE DEF more, u
<1>4. g[1] = u /\ \A k \in 1 .. n : g[k + 1] = f[k]
  <2>1. 1 \in 1 .. n + 1 /\ \A k \in 1 .. n : k + 1 \in 1 .. n + 1 /\ k + 1 # 1 /\ (k + 1) - 1 = k
    BY <1>2
  <2> QED
    BY <2>1
<1>5. \A k \in 1 .. n + 1 :
        g[k] = IF k = n + 1 THEN more[k].right
               ELSE Binary(more[k + 1].op, more[k].right, g[k + 1])
  <2> TAKE k \in 1 .. n + 1
  <2> HIDE DEF g
  <2>1. CASE k = 1
    <3>1. k # n + 1 /\ 1 \in 1 .. n
      BY <1>2, <2>1
    <3>2. g[k + 1] = f[1] /\ more[k + 1] = chain[1] /\ more[k] = link /\ g[k] = u
      BY <1>3, <1>4, <2>1, <3>1
    <3> QED
      BY <1>1, <3>1, <3>2 DEF u
  <2>2. CASE k # 1
    <3> DEFINE j == k - 1
    <3>1. j \in 1 .. n /\ k = j + 1
      BY <1>2, <2>2
    <3> HIDE DEF j
    <3>2. g[k] = f[j] /\ more[k] = chain[j]
      BY <1>3, <1>4, <3>1
    <3>3. f[j] = IF j = n THEN chain[j].right ELSE Binary(chain[j + 1].op, chain[j].right, f[j + 1])
      BY <1>1, <3>1 DEF IsGrouping
    <3>4. CASE j = n
      BY <3>1, <3>2, <3>3, <3>4
    <3>5. CASE j # n
      <4>1. j + 1 \in 1 .. n /\ k # n + 1
        BY <1>2, <3>1, <3>5
      <4>2. g[k + 1] = f[j + 1] /\ more[k + 1] = chain[j + 1]
        BY <1>3, <1>4, <3>1, <4>1
      <4> QED
        BY <3>2, <3>3, <3>5, <4>1, <4>2
    <3> QED
      BY <3>4, <3>5
  <2> QED
    BY <2>1, <2>2
<1>6. g = [k \in 1 .. n + 1 |-> g[k]]
  OBVIOUS
<1> HIDE DEF g
<1>7. IsGrouping(g, more)
  BY <1>2, <1>3, <1>5, <1>6 DEF IsGrouping
<1> QED
  BY <1>4, <1>7 DEF GroupsTo, more, u

-----------------------------------------------------------------------------
(* What every fragment on the parser's stack is                            *)

ValueSyms == {"factor", "term", "simple_expression", "expression"}

MarkSyms == {"(", "not", "sign", "mulop", "addop", "relop"}

AnyType == Types \cup {Unassigned}

(* code leaves the term t, of the kind type, and is that of a NOT of a      *)
(* number exactly when the type is none of the three.                       *)
Compiles(type, code, t) ==
  /\ code \in Seq(Instruction) /\ code # <<>>
  /\ Pushes(code, t)
  /\ Kind(t) = type
  /\ type = Unassigned <=> NegatesNumber(code)

IsValue(e) ==
  /\ e.sym \in ValueSyms
  /\ e = Value(e.sym, e.type, e.code, e.left, e.right)
  /\ e.type \in AnyType
  /\ Compiles(e.type, e.code, e.right)

(* The code of a star computes the term that its operands make. *)
IsChain(chain, type, code) ==
  /\ \E L : chain \in Seq(L)
  /\ chain # <<>>
  /\ \E t : GroupsTo(chain, t) /\ Compiles(type, code, t)

IsStar(e) ==
  /\ e.sym \in {"star_mul", "star_add"}
  /\ e = Star(e.sym, e.operation, e.type, e.code, e.chain)
  /\ \/ e.operation = T_INVALID /\ e.type = T_INVALID /\ e.chain = <<>> /\ e.code = <<>>
     \/ /\ e.operation \in Operators /\ e.type \in AnyType
        /\ e.chain[1].op = e.operation
        /\ IsChain(e.chain, e.type, e.code)

IsMark(e) ==
  /\ e.sym \in MarkSyms
  /\ e.sym \in {"mulop", "addop", "relop"} => e.operation \in Operators

Element(e) == IsMark(e) \/ IsValue(e) \/ IsStar(e)

Fragments ==
  /\ \E S : stack \in Seq(S)
  /\ \A i \in 1 .. Len(stack) : Element(stack[i])

Untyped ==
  \E i \in 1 .. Len(stack) : stack[i].sym \notin MarkSyms /\ stack[i].type = Unassigned

Whole ==
  /\ Fragments
  /\ status \in {"parsing", "accepted", "rejected", "undefined"}
  /\ status = "undefined" => Untyped

Inv == operands \in 0 .. MaxOperands /\ marks \in 0 .. MaxMarks /\ Whole

LEMMA Retyped ==
  /\ \A y, t, u, code, l, r :
       [Value(y, u, code, l, r) EXCEPT !.type = t] = Value(y, t, code, l, r)
  /\ \A y, z, t, code, l, r :
       [Value(z, t, code, l, r) EXCEPT !.sym = y] = Value(y, t, code, l, r)
  /\ \A y, op, t, u, code, chain :
       [Star(y, op, u, code, chain) EXCEPT !.type = t] = Star(y, op, t, code, chain)
BY DEF Value, Star

LEMMA ValueFields ==
  ASSUME NEW y, NEW t, NEW code, NEW l, NEW r
  PROVE  LET e == Value(y, t, code, l, r) IN
         e.sym = y /\ e.type = t /\ e.code = code /\ e.left = l /\ e.right = r
BY DEF Value

LEMMA StarFields ==
  ASSUME NEW y, NEW op, NEW t, NEW code, NEW chain
  PROVE  LET e == Star(y, op, t, code, chain) IN
         e.sym = y /\ e.operation = op /\ e.type = t /\ e.code = code /\ e.chain = chain
BY DEF Star

LEMMA ValueIs ==
  ASSUME NEW y \in ValueSyms, NEW t \in AnyType, NEW code, NEW l, NEW r,
         Compiles(t, code, r)
  PROVE  Element(Value(y, t, code, l, r))
<1> DEFINE e == Value(y, t, code, l, r)
<1>1. e.sym = y /\ e.type = t /\ e.code = code /\ e.left = l /\ e.right = r
  BY ValueFields
<1>2. e = Value(y, t, code, l, r)
  OBVIOUS
<1> HIDE DEF e
<1>3. IsValue(e)
  BY <1>1, <1>2 DEF IsValue
<1> QED
  BY <1>2, <1>3 DEF Element

LEMMA StarIs ==
  ASSUME NEW y \in {"star_mul", "star_add"}, NEW op \in Operators, NEW t \in AnyType,
         NEW code, NEW chain, chain[1].op = op, IsChain(chain, t, code)
  PROVE  Element(Star(y, op, t, code, chain))
<1> DEFINE e == Star(y, op, t, code, chain)
<1>1. e.sym = y /\ e.operation = op /\ e.type = t /\ e.code = code /\ e.chain = chain
  BY StarFields
<1>2. e = Star(y, op, t, code, chain)
  OBVIOUS
<1> HIDE DEF e
<1>3. IsStar(e)
  BY <1>1, <1>2 DEF IsStar
<1> QED
  BY <1>2, <1>3 DEF Element

LEMMA NoStarIs == \A y \in {"star_mul", "star_add"} : Element(NoStar(y))
<1> SUFFICES ASSUME NEW y \in {"star_mul", "star_add"} PROVE Element(NoStar(y))
  OBVIOUS
<1> DEFINE e == NoStar(y)
<1>1. /\ e.sym = y /\ e.operation = T_INVALID /\ e.type = T_INVALID
      /\ e.chain = <<>> /\ e.code = <<>>
  BY StarFields DEF NoStar
<1>2. e = Star(e.sym, e.operation, e.type, e.code, e.chain)
  BY DEF NoStar, Star
<1> HIDE DEF e
<1>3. IsStar(e)
  BY <1>1, <1>2 DEF IsStar
<1> QED
  BY <1>3 DEF Element, e

LEMMA MarkIs ==
  ASSUME NEW y \in MarkSyms, NEW op, y \in {"mulop", "addop", "relop"} => op \in Operators
  PROVE  Element(Mark(y, op))
<1>1. Mark(y, op).sym = y /\ Mark(y, op).operation = op
  BY DEF Mark
<1> QED
  BY <1>1 DEF Element, IsMark

(* The symbol tells which kind of element it is. *)
LEMMA KindOf ==
  ASSUME NEW e, Element(e)
  PROVE  /\ e.sym \in ValueSyms => IsValue(e)
         /\ e.sym \in {"star_mul", "star_add"} => IsStar(e)
         /\ e.sym \in {"mulop", "addop", "relop"} => e.operation \in Operators
         /\ e.sym \notin MarkSyms => IsValue(e) \/ IsStar(e)
<1>1. IsValue(e) => e.sym \in ValueSyms
  BY DEF IsValue
<1>2. IsStar(e) => e.sym \in {"star_mul", "star_add"}
  BY DEF IsStar
<1>3. IsMark(e) => e.sym \in MarkSyms
                   /\ (e.sym \in {"mulop", "addop", "relop"} => e.operation \in Operators)
  BY DEF IsMark
<1> QED
  BY <1>1, <1>2, <1>3 DEF Element, ValueSyms, MarkSyms

-----------------------------------------------------------------------------
(* What the operations make of the fragments                               *)

LEMMA NamesAreCode ==
  /\ \A name \in Arithmetic \cup Connectives \cup Comparisons \cup {"NOT", "UMINUS"} :
       <<name>> \in Instruction
  /\ \A x \in Operand : <<"LOAD", x>> \in Instruction
BY DEF Instruction

LEMMA OperatorKinds ==
  ASSUME NEW op \in AllOperators
  PROVE  /\ OPERATOR_S(op) \in Arithmetic \cup Connectives \cup Comparisons
         /\ OPERATOR_S(op) \notin {"LOAD", "NOT", "UMINUS"}
<1>1. OPERATOR_S(op) \in Arithmetic \cup Connectives \cup Comparisons
  BY OperatorNames DEF AllOperators, Arithmetic, Connectives
<1> QED
  BY <1>1 DEF Arithmetic, Connectives, Comparisons

(* An operation that is not rejected. *)
LEMMA OperationIs ==
  ASSUME NEW op \in AllOperators, NEW l \in Types, NEW r \in Types,
         EXPR_RETURN(l, r, op) # T_INVALID,
         NEW lhs, NEW t, Compiles(l, lhs.code, t),
         NEW rhs, NEW u, Compiles(r, rhs.code, u)
  PROVE  /\ EXPR_RETURN(l, r, op) \in Types
         /\ Compiles(EXPR_RETURN(l, r, op), generate_code(lhs, rhs, op), Binary(op, t, u))
<1> DEFINE name == OPERATOR_S(op)
           result == EXPR_RETURN(l, r, op)
           b == Apply(name, t, u)
           i == <<name>>
           both == lhs.code \o rhs.code
           code == both \o <<i>>
<1>1. /\ name \notin {"LOAD", "NOT", "UMINUS"} /\ i \in Instruction
      /\ i # <<"NOT">> /\ i # <<"UMINUS">>
  BY OperatorKinds, NamesAreCode, DifferentInstructions
<1>2. result \in Types /\ result = BinaryKind(name, l, r)
  BY ReturnTypes
<1>3. Kind(b) = BinaryKind(name, Kind(t), Kind(u)) /\ Kind(t) = l /\ Kind(u) = r
  BY DEF Apply, Kind, Compiles
<1>4. Binary(op, t, u) = b /\ generate_code(lhs, rhs, op) = code
  BY DEF Binary, generate_code
<1>5. Pushes(code, b)
  BY <1>1, BinaryPushes DEF Compiles
<1>6. both \in Seq(Instruction)
  BY DEF Compiles
<1> HIDE DEF both, i
<1>7. code = Append(both, i) /\ code \in Seq(Instruction) /\ code # <<>>
  BY <1>1, <1>6
<1>8. ~ NegatesNumber(code)
  BY <1>1, <1>6, <1>7, OtherEnds
<1> HIDE DEF name, result, b, code
<1>9. result # Unassigned
  BY <1>2 DEF Types, T_INTEGER, T_REAL, T_BOOLEAN, Unassigned
<1>10. Compiles(result, code, b)
  BY <1>2, <1>3, <1>5, <1>7, <1>8, <1>9 DEF Compiles
<1> QED
  BY <1>2, <1>4, <1>10 DEF result

LEMMA LoadIs ==
  ASSUME NEW x \in Operand
  PROVE  Element(Value("factor", TypeOf[x], <<<<"LOAD", x>>>>, Load(x), Load(x)))
<1> DEFINE i == <<"LOAD", x>>
           t == Load(x)
<1>1. Kind(t) = TypeOf[x]
  BY DEF Load, Kind
<1>2. TypeOf[x] \in Types
  BY ExpressionsAssumption
<1>3. i \in Instruction /\ i # <<"NOT">> /\ i # <<"UMINUS">>
  BY NamesAreCode, DifferentInstructions
<1>4. Pushes(<<i>>, t)
  BY LoadPushes
<1> HIDE DEF i, t
<1>5. <<>> \in Seq(Instruction) /\ Append(<<>>, i) = <<i>>
  OBVIOUS
<1>6. ~ NegatesNumber(<<i>>)
  BY <1>3, <1>5, OtherEnds
<1>7. <<i>> \in Seq(Instruction) /\ <<i>> # <<>>
  BY <1>3
<1>8. TypeOf[x] # Unassigned
  BY <1>2 DEF Types, T_INTEGER, T_REAL, T_BOOLEAN, Unassigned
<1>9. Compiles(TypeOf[x], <<i>>, t)
  BY <1>1, <1>4, <1>6, <1>7, <1>8 DEF Compiles
<1>10. Element(Value("factor", TypeOf[x], <<i>>, t, t))
  BY <1>2, <1>9, ValueIs DEF AnyType, ValueSyms
<1> QED
  BY <1>10 DEF i, t

(* A unary operator before a term. *)
LEMMA UnaryIs ==
  ASSUME NEW name \in {"NOT", "UMINUS"}, NEW type, NEW code, NEW t, Compiles(type, code, t)
  PROVE  /\ Append(code, <<name>>) \in Seq(Instruction) /\ Append(code, <<name>>) # <<>>
         /\ Pushes(Append(code, <<name>>), Unary(name, t))
         /\ Kind(Unary(name, t)) = UnaryKind(name, type)
<1>1. <<name>> \in Instruction
  BY NamesAreCode
<1>2. Append(code, <<name>>) \in Seq(Instruction) /\ Append(code, <<name>>) # <<>>
  BY <1>1 DEF Compiles
<1>3. Pushes(Append(code, <<name>>), Unary(name, t))
  BY <1>1, UnaryPushes DEF Compiles
<1>4. Kind(Unary(name, t)) = UnaryKind(name, type)
  BY DEF Unary, Kind, Compiles
<1> QED
  BY <1>2, <1>3, <1>4

LEMMA NotIs ==
  ASSUME NEW v, IsValue(v), v.type \in Types
  PROVE  LET type == EXPR_RETURN(T_INVALID, v.type, "T_NOT") IN
         Element(Value("factor", type, Append(v.code, <<"NOT">>),
                       Unary("NOT", v.left), Unary("NOT", v.right)))
<1> DEFINE type == EXPR_RETURN(T_INVALID, v.type, "T_NOT")
           code == Append(v.code, <<"NOT">>)
           t == Unary("NOT", v.right)
<1>1. /\ type \in AnyType /\ type = UnaryKind("NOT", v.type)
      /\ type = Unassigned <=> v.type # T_BOOLEAN
  BY NotReturns DEF AnyType, Types, T_INTEGER, T_REAL, T_BOOLEAN, Unassigned
<1>2. Compiles(v.type, v.code, v.right)
  BY DEF IsValue
<1>3. code \in Seq(Instruction) /\ code # <<>> /\ Pushes(code, t) /\ Kind(t) = type
  BY <1>1, <1>2, UnaryIs
<1>4. NegatesNumber(code) <=> v.type \in Numeric
  BY <1>2, NamesAreCode, NotEnds DEF Compiles
<1>5. v.type \in Numeric <=> v.type # T_BOOLEAN
  BY DEF Types, Numeric, T_INTEGER, T_REAL, T_BOOLEAN
<1> HIDE DEF type, code, t
<1>6. Compiles(type, code, t)
  BY <1>1, <1>3, <1>4, <1>5 DEF Compiles
<1>7. Element(Value("factor", type, code, Unary("NOT", v.left), t))
  BY <1>1, <1>6, ValueIs DEF ValueSyms
<1> QED
  BY <1>7 DEF type, code, t

(* The sign of a simple expression. *)
LEMMA SignedIs ==
  ASSUME NEW sign, NEW type, NEW code, NEW t, Compiles(type, code, t)
  PROVE  Compiles(type, signed_code(code, sign), Signed(sign, t))
<1>1. CASE sign = "T_PLUS"
  BY <1>1 DEF signed_code, Signed
<1>2. CASE sign # "T_PLUS"
  <2> DEFINE more == Append(code, <<"UMINUS">>)
             u == Unary("UMINUS", t)
  <2>1. UnaryKind("UMINUS", type) = type
    BY DEF UnaryKind
  <2>2. more \in Seq(Instruction) /\ more # <<>> /\ Pushes(more, u) /\ Kind(u) = type
    BY <2>1, UnaryIs
  <2>3. NegatesNumber(more) <=> NegatesNumber(code)
    BY NamesAreCode, SignEnds DEF Compiles
  <2>4. signed_code(code, sign) = more /\ Signed(sign, t) = u
    BY <1>2 DEF signed_code, Signed
  <2> HIDE DEF more, u
  <2> QED
    BY <2>2, <2>3, <2>4 DEF Compiles
<1> QED
  BY <1>1, <1>2

(* A value before which an operator stands, and an empty star behind it.   *)
LEMMA LastLink ==
  ASSUME NEW v, IsValue(v), NEW op
  PROVE  IsChain(<<Link(op, v)>> \o <<>>, v.type, v.code)
<1> DEFINE link == Link(op, v)
<1>1. link.right = v.right
  BY DEF Link
<1> HIDE DEF link
<1>2. <<link>> \o <<>> = <<link>> /\ <<link>> # <<>> /\ <<link>>[1] = link
  OBVIOUS
<1>3. <<link>> \in Seq({link})
  OBVIOUS
<1>4. GroupsTo(<<link>>, v.right)
  BY <1>1, GroupingOne
<1>5. IsChain(<<link>>, v.type, v.code)
  BY <1>1, <1>2, <1>3, <1>4 DEF IsChain, IsValue
<1> QED
  BY <1>2, <1>5 DEF link

(* The same before a star that is not empty. *)
LEMMA MoreLinks ==
  ASSUME NEW v, IsValue(v), v.type \in Types, NEW op,
         NEW rest, rest.operation \in Operators, rest.type \in Types,
         rest.chain[1].op = rest.operation, IsChain(rest.chain, rest.type, rest.code),
         EXPR_RETURN(v.type, rest.type, rest.operation) # T_INVALID
  PROVE  /\ EXPR_RETURN(v.type, rest.type, rest.operation) \in Types
         /\ IsChain(<<Link(op, v)>> \o rest.chain,
                    EXPR_RETURN(v.type, rest.type, rest.operation),
                    generate_code(v, rest, rest.operation))
<1> DEFINE link == Link(op, v)
           chain == rest.chain
           type == EXPR_RETURN(v.type, rest.type, rest.operation)
           code == generate_code(v, rest, rest.operation)
<1>1. link.right = v.right
  BY DEF Link
<1>2. PICK L : chain \in Seq(L)
  BY DEF IsChain
<1>3. PICK t : GroupsTo(chain, t) /\ Compiles(rest.type, rest.code, t)
  BY DEF IsChain
<1> DEFINE u == Binary(rest.operation, v.right, t)
<1>4. Compiles(type, code, u) /\ type \in Types
  BY <1>3, OperatorsKnown, OperationIs DEF IsValue
<1>5. chain # <<>> /\ chain[1].op = rest.operation
  BY DEF IsChain
<1> HIDE DEF link, chain, type, code
<1>6. GroupsTo(<<link>> \o chain, u)
  BY <1>1, <1>2, <1>3, <1>5, GroupingGrows
<1> HIDE DEF u
<1>7. <<link>> \o chain \in Seq(L \cup {link}) /\ <<link>> \o chain # <<>>
  <2>1. chain \in Seq(L \cup {link}) /\ <<link>> \in Seq(L \cup {link})
    BY <1>2
  <2> QED
    BY <2>1
<1>8. IsChain(<<link>> \o chain, type, code)
  BY <1>4, <1>6, <1>7 DEF IsChain
<1> QED
  BY <1>4, <1>8 DEF link, chain, type, code

LEMMA FirstOfLinks ==
  ASSUME NEW link, NEW L, NEW chain \in Seq(L)
  PROVE  (<<link>> \o chain)[1] = link
<1>1. chain \in Seq(L \cup {link}) /\ <<link>> \in Seq(L \cup {link}) /\ Len(<<link>>) = 1
  OBVIOUS
<1> QED
  BY <1>1

(* A value and the star behind it, when the star is empty and when not.    *)
LEMMA GroupedAlone ==
  ASSUME NEW v, IsValue(v), NEW sign
  PROVE  Compiles(v.type, signed_code(v.code, sign),
                  Signed(sign, RightGrouped(v.right, <<>>)))
<1>1. RightGrouped(v.right, <<>>) = v.right
  BY DEF RightGrouped
<1> QED
  BY <1>1, SignedIs DEF IsValue

LEMMA GroupedMore ==
  ASSUME NEW v, IsValue(v), v.type \in Types, NEW sign,
         NEW rest, rest.operation \in Operators, rest.type \in Types,
         rest.chain[1].op = rest.operation, IsChain(rest.chain, rest.type, rest.code),
         EXPR_RETURN(v.type, rest.type, rest.operation) # T_INVALID
  PROVE  LET t == Signed(sign, RightGrouped(v.right, rest.chain))
             type == EXPR_RETURN(v.type, rest.type, rest.operation)
         IN
         /\ type \in Types
         /\ Compiles(type, signed_code(generate_code(v, rest, rest.operation), sign), t)
<1> DEFINE type == EXPR_RETURN(v.type, rest.type, rest.operation)
           code == generate_code(v, rest, rest.operation)
<1>1. PICK L : rest.chain \in Seq(L)
  BY DEF IsChain
<1>2. PICK t : GroupsTo(rest.chain, t) /\ Compiles(rest.type, rest.code, t)
  BY DEF IsChain
<1> DEFINE u == Binary(rest.operation, v.right, t)
<1>3. Compiles(type, code, u) /\ type \in Types
  BY <1>2, OperatorsKnown, OperationIs DEF IsValue
<1>4. RightTerm(rest.chain) = t
  <2>1. Len(rest.chain) \in Nat
    BY <1>1
  <2> QED
    BY <1>2, <2>1, RightTermIs
<1>5. RightGrouped(v.right, rest.chain) = u
  BY <1>4 DEF RightGrouped, IsChain
<1> HIDE DEF type, code, u
<1>6. Compiles(type, signed_code(code, sign), Signed(sign, u))
  BY <1>3, SignedIs
<1> QED
  BY <1>3, <1>5, <1>6 DEF type, code

-----------------------------------------------------------------------------
(* The parser's stack                                                      *)

LEMMA PushKeeps ==
  ASSUME Fragments, NEW e, Element(e), stack' = Append(stack, e)
  PROVE  Fragments'
<1>1. PICK S : stack \in Seq(S)
  BY DEF Fragments
<1>2. stack \in Seq(S \cup {e})
  BY <1>1
<1>3. stack' \in Seq(S \cup {e})
  BY <1>2
<1>4. /\ Len(stack) \in Nat /\ Len(stack') = Len(stack) + 1
      /\ stack'[Len(stack) + 1] = e
      /\ \A i \in 1 .. Len(stack) : stack'[i] = stack[i]
  BY <1>2
<1>5. \A i \in 1 .. Len(stack') : Element(stack'[i])
  <2> TAKE i \in 1 .. Len(stack')
  <2>1. i \in 1 .. Len(stack) \/ i = Len(stack) + 1
    BY <1>4
  <2> QED
    BY <1>4, <2>1 DEF Fragments
<1> QED
  BY <1>3, <1>5 DEF Fragments

LEMMA ReplaceKeeps ==
  ASSUME Fragments, NEW e, Element(e), NEW n \in 0 .. Len(stack), Replace(n, e)
  PROVE  Fragments' /\ status' = status
<1>1. PICK S : stack \in Seq(S)
  BY DEF Fragments
<1> DEFINE m == Len(stack) - n
           low == SubSeq(stack, 1, m)
<1>2. m \in 0 .. Len(stack) /\ Len(stack) \in Nat
  BY <1>1
<1>3. low \in Seq(S) /\ Len(low) = m /\ \A i \in 1 .. m : low[i] = stack[i]
  BY <1>1, <1>2
<1>4. stack' = Append(low, e) /\ status' = status
  BY DEF Replace
<1> HIDE DEF low
<1>5. low \in Seq(S \cup {e})
  BY <1>3
<1>6. stack' \in Seq(S \cup {e})
  BY <1>4, <1>5
<1>7. Len(stack') = m + 1 /\ stack'[m + 1] = e /\ \A i \in 1 .. m : stack'[i] = low[i]
  BY <1>2, <1>3, <1>4, <1>5
<1>8. \A i \in 1 .. Len(stack') : Element(stack'[i])
  <2> TAKE i \in 1 .. Len(stack')
  <2>1. i \in 1 .. m \/ i = m + 1
    BY <1>2, <1>7
  <2>2. i \in 1 .. m => i \in 1 .. Len(stack)
    BY <1>2
  <2> QED
    BY <1>3, <1>7, <2>1, <2>2 DEF Fragments
<1> QED
  BY <1>4, <1>6, <1>8 DEF Fragments

(* The topmost elements. *)
LEMMA TopIs ==
  ASSUME Fragments, NEW n \in Nat, n <= Len(stack), NEW i \in 1 .. n
  PROVE  /\ n \in 0 .. Len(stack)
         /\ Len(stack) - n + i \in 1 .. Len(stack)
         /\ Nth(n, i) = stack[Len(stack) - n + i]
         /\ Element(Nth(n, i))
<1>1. Len(stack) \in Nat
  BY DEF Fragments
<1>2. Len(stack) - n + i \in 1 .. Len(stack)
  BY <1>1
<1> QED
  BY <1>1, <1>2 DEF Fragments, Nth

LEMMA EndsOne ==
  ASSUME Fragments, NEW a, Ends(<<a>>)
  PROVE  1 \in 0 .. Len(stack) /\ Element(Nth(1, 1)) /\ Nth(1, 1).sym = a
<1>1. Len(<<a>>) = 1 /\ <<a>>[1] = a
  OBVIOUS
<1>2. 1 <= Len(stack) /\ Nth(1, 1).sym = a
  BY <1>1 DEF Ends
<1> QED
  BY <1>2, TopIs

LEMMA EndsTwo ==
  ASSUME Fragments, NEW a, NEW b, Ends(<<a, b>>)
  PROVE  /\ 2 \in 0 .. Len(stack)
         /\ Element(Nth(2, 1)) /\ Nth(2, 1).sym = a
         /\ Element(Nth(2, 2)) /\ Nth(2, 2).sym = b /\ Nth(1, 1) = Nth(2, 2)
<1>1. Len(<<a, b>>) = 2 /\ <<a, b>>[1] = a /\ <<a, b>>[2] = b
  OBVIOUS
<1>2. 2 <= Len(stack) /\ Nth(2, 1).sym = a /\ Nth(2, 2).sym = b
  BY <1>1 DEF Ends
<1>3. Nth(1, 1) = Nth(2, 2)
  <2>1. Len(stack) \in Nat
    BY DEF Fragments
  <2>2. Len(stack) - 1 + 1 = Len(stack) - 2 + 2
    BY <2>1
  <2> QED
    BY <2>2 DEF Nth
<1> QED
  BY <1>2, <1>3, TopIs

LEMMA EndsThree ==
  ASSUME Fragments, NEW a, NEW b, NEW d, Ends(<<a, b, d>>)
  PROVE  /\ 3 \in 0 .. Len(stack)
         /\ Element(Nth(3, 1)) /\ Nth(3, 1).sym = a
         /\ Element(Nth(3, 2)) /\ Nth(3, 2).sym = b
         /\ Element(Nth(3, 3)) /\ Nth(3, 3).sym = d
<1>1. Len(<<a, b, d>>) = 3 /\ <<a, b, d>>[1] = a /\ <<a, b, d>>[2] = b /\ <<a, b, d>>[3] = d
  OBVIOUS
<1>2. 3 <= Len(stack) /\ Nth(3, 1).sym = a /\ Nth(3, 2).sym = b /\ Nth(3, 3).sym = d
  BY <1>1 DEF Ends
<1> QED
  BY <1>2, TopIs

(* An element without a type is on the stack. *)
LEMMA UntypedTop ==
  ASSUME Fragments, NEW n \in Nat, n <= Len(stack), NEW i \in 1 .. n,
         Nth(n, i).sym \notin MarkSyms, Nth(n, i).type = Unassigned
  PROVE  Untyped
BY TopIs DEF Untyped

(* The end of a reduction: the type of the operation is looked up. *)
LEMMA OperateKeeps ==
  ASSUME Fragments, status = "parsing", NEW l, NEW r, NEW op, NEW n \in 0 .. Len(stack), NEW e,
         Operate(l, r, op, n, e),
         Unassigned \in {l, r} => Untyped,
         Unassigned \notin {l, r} /\ EXPR_RETURN(l, r, op) # T_INVALID
           => Element([e EXCEPT !.type = EXPR_RETURN(l, r, op)])
  PROVE  Whole'
<1>1. CASE Unassigned \in {l, r}
  <2>1. status' = "undefined" /\ stack' = stack
    BY <1>1 DEF Operate, Stop
  <2> QED
    BY <1>1, <2>1 DEF Whole, Fragments, Untyped
<1>2. CASE Unassigned \notin {l, r} /\ EXPR_RETURN(l, r, op) = T_INVALID
  <2>1. status' = "rejected" /\ stack' = stack
    BY <1>2 DEF Operate, Stop, IsRejected
  <2> QED
    BY <2>1 DEF Whole, Fragments
<1>3. CASE Unassigned \notin {l, r} /\ EXPR_RETURN(l, r, op) # T_INVALID
  <2>1. Replace(n, [e EXCEPT !.type = EXPR_RETURN(l, r, op)])
    BY <1>3 DEF Operate, IsRejected
  <2>2. Fragments' /\ status' = status
    BY <1>3, <2>1, ReplaceKeeps
  <2> QED
    BY <2>2 DEF Whole
<1> QED
  BY <1>1, <1>2, <1>3

-----------------------------------------------------------------------------
(* The actions                                                             *)

LEMMA ParsingKeeps ==
  ASSUME Fragments', status = "parsing", status' = status
  PROVE  Whole'
BY DEF Whole

LEMMA MarkKeeps ==
  ASSUME Whole, Parsing, NEW y \in MarkSyms, NEW op, Push(Mark(y, op)),
         y \in {"mulop", "addop", "relop"} => op \in Operators
  PROVE  Whole'
BY MarkIs, PushKeeps, ParsingKeeps DEF Push, Parsing, Whole

LEMMA ConstantKeeps ==
  ASSUME Whole, NEW x \in Operand, Constant(x)
  PROVE  Whole'
BY LoadIs, PushKeeps, ParsingKeeps DEF Constant, Push, Parsing, Whole

LEMMA EmptyStarKeeps ==
  ASSUME Whole, NEW y \in {"star_mul", "star_add"}, NEW after, EmptyStar(y, after)
  PROVE  Whole'
BY NoStarIs, PushKeeps, ParsingKeeps DEF EmptyStar, Reduces, Push, Parsing, Whole

(* A type that is not left out is one of the three. *)
LEMMA NotUntyped ==
  ASSUME NEW t \in AnyType, t # Unassigned
  PROVE  t \in Types
BY DEF AnyType

LEMMA NotFactorKeeps ==
  ASSUME Whole, NotFactor
  PROVE  Whole'
<1>1. /\ status = "parsing" /\ Ends(<<"not", "factor">>) /\ Fragments
      /\ Operate(T_INVALID, Nth(1, 1).type, "T_NOT", 2,
                 Value("factor", T_INVALID, Append(Nth(1, 1).code, <<"NOT">>),
                       Unary("NOT", Nth(1, 1).left), Unary("NOT", Nth(1, 1).right)))
  BY DEF NotFactor, Reduces, Parsing, Whole
<1>2. /\ 2 \in 0 .. Len(stack) /\ Element(Nth(2, 2))
      /\ Nth(2, 2).sym = "factor" /\ Nth(1, 1) = Nth(2, 2)
  BY <1>1, EndsTwo
<1> DEFINE v == Nth(1, 1)
<1>3. IsValue(v)
  BY <1>2, KindOf DEF ValueSyms
<1>4. v.type = Unassigned => Untyped
  BY <1>1, <1>2, UntypedTop DEF MarkSyms
<1> HIDE DEF v
<1> DEFINE e == Value("factor", T_INVALID, Append(v.code, <<"NOT">>),
                      Unary("NOT", v.left), Unary("NOT", v.right))
           type == EXPR_RETURN(T_INVALID, v.type, "T_NOT")
<1>5. v.type # Unassigned => Element([e EXCEPT !.type = type])
  <2> SUFFICES ASSUME v.type # Unassigned PROVE Element([e EXCEPT !.type = type])
    OBVIOUS
  <2>1. v.type \in Types
    BY <1>3, NotUntyped DEF IsValue
  <2>2. [e EXCEPT !.type = type]
          = Value("factor", type, Append(v.code, <<"NOT">>),
                  Unary("NOT", v.left), Unary("NOT", v.right))
    BY Retyped
  <2> QED
    BY <1>3, <2>1, <2>2, NotIs
<1>6. T_INVALID # Unassigned
  BY DEF T_INVALID, Unassigned
<1>7. Operate(T_INVALID, v.type, "T_NOT", 2, e)
  BY <1>1 DEF v
<1> HIDE DEF e
<1> QED
  BY <1>1, <1>2, <1>4, <1>5, <1>6, <1>7, OperateKeeps

LEMMA RenamedKeeps ==
  ASSUME Whole, status = "parsing", NEW n \in 0 .. Len(stack), NEW e, IsValue(e),
         NEW y \in ValueSyms, Replace(n, [e EXCEPT !.sym = y])
  PROVE  Whole'
<1>1. e = Value(e.sym, e.type, e.code, e.left, e.right)
  BY DEF IsValue
<1>2. [e EXCEPT !.sym = y] = Value(y, e.type, e.code, e.left, e.right)
  BY <1>1, Retyped
<1>3. Element([e EXCEPT !.sym = y])
  BY <1>2, ValueIs DEF IsValue
<1> QED
  BY <1>3, ReplaceKeeps, ParsingKeeps DEF Whole

LEMMA BracketedKeeps ==
  ASSUME Whole, Bracketed
  PROVE  Whole'
<1>1. /\ status = "parsing" /\ Ends(<<"(", "expression">>) /\ Fragments
      /\ Replace(2, [Nth(2, 2) EXCEPT !.sym = "factor"])
  BY DEF Bracketed, Reduces, Parsing, Whole
<1>2. 2 \in 0 .. Len(stack) /\ IsValue(Nth(2, 2))
  BY <1>1, EndsTwo, KindOf DEF ValueSyms
<1> QED
  BY <1>1, <1>2, RenamedKeeps DEF ValueSyms

LEMMA ExpressionKeeps ==
  ASSUME Whole, Expression
  PROVE  Whole'
<1>1. /\ status = "parsing" /\ Ends(<<"simple_expression">>) /\ Fragments
      /\ Replace(1, [Nth(1, 1) EXCEPT !.sym = "expression"])
  BY DEF Expression, Reduces, Parsing, Whole
<1>2. 1 \in 0 .. Len(stack) /\ IsValue(Nth(1, 1))
  BY <1>1, EndsOne, KindOf DEF ValueSyms
<1> QED
  BY <1>1, <1>2, RenamedKeeps DEF ValueSyms

LEMMA ComparisonKeeps ==
  ASSUME Whole, Comparison
  PROVE  Whole'
<1> DEFINE l == Nth(3, 1)
           op == Nth(3, 2).operation
           r == Nth(3, 3)
           e == Value("expression", T_INVALID, generate_code(l, r, op),
                      Binary(op, l.left, r.left), Binary(op, l.right, r.right))
           type == EXPR_RETURN(l.type, r.type, op)
<1>1. /\ status = "parsing" /\ Fragments /\ Operate(l.type, r.type, op, 3, e)
      /\ Ends(<<"simple_expression", "relop", "simple_expression">>)
  BY DEF Comparison, Reduces, Parsing, Whole
<1>2. 3 \in 0 .. Len(stack) /\ l.sym = "simple_expression" /\ r.sym = "simple_expression"
      /\ IsValue(l) /\ IsValue(r) /\ op \in Operators
  BY <1>1, EndsThree, KindOf DEF ValueSyms
<1>3. Unassigned \in {l.type, r.type} => Untyped
  BY <1>1, <1>2, UntypedTop DEF MarkSyms
<1> HIDE DEF l, r, op
<1>4. ASSUME Unassigned \notin {l.type, r.type}, type # T_INVALID
      PROVE  Element([e EXCEPT !.type = type])
  <2>1. l.type \in Types /\ r.type \in Types /\ op \in AllOperators
    BY <1>2, <1>4, NotUntyped, OperatorsKnown DEF IsValue
  <2>2. Compiles(l.type, l.code, l.right) /\ Compiles(r.type, r.code, r.right)
    BY <1>2 DEF IsValue
  <2>3. /\ Compiles(type, generate_code(l, r, op), Binary(op, l.right, r.right))
        /\ type \in Types
    BY <1>4, <2>1, <2>2, OperationIs
  <2>4. [e EXCEPT !.type = type]
          = Value("expression", type, generate_code(l, r, op),
                  Binary(op, l.left, r.left), Binary(op, l.right, r.right))
    BY Retyped
  <2> HIDE DEF type
  <2> QED
    BY <2>3, <2>4, ValueIs DEF AnyType, ValueSyms
<1> HIDE DEF e
<1> QED
  BY <1>1, <1>2, <1>3, <1>4, OperateKeeps

(* What a star is, when it is empty and when not. *)
LEMMA StarCases ==
  ASSUME NEW rest, IsStar(rest)
  PROVE  \/ /\ rest.operation = T_INVALID /\ rest.type = T_INVALID
            /\ rest.chain = <<>> /\ rest.code = <<>>
         \/ /\ rest.operation \in Operators /\ rest.type \in AnyType
            /\ rest.operation # T_INVALID /\ rest.type # T_INVALID
            /\ rest.chain[1].op = rest.operation
            /\ IsChain(rest.chain, rest.type, rest.code)
<1>1. T_INVALID \notin AllOperators /\ T_INVALID \notin AnyType
  BY DEF AllOperators, AnyType, Types, T_INVALID, T_INTEGER, T_REAL, T_BOOLEAN, Unassigned
<1> QED
  BY <1>1, OperatorsKnown DEF IsStar

LEMMA StarKeeps ==
  ASSUME Whole, NEW star \in {"star_mul", "star_add"}, NEW operator \in {"mulop", "addop"},
         NEW operand \in ValueSyms, StarReduction(star, operator, operand)
  PROVE  Whole'
<1> DEFINE op == Nth(3, 1).operation
           v == Nth(3, 2)
           rest == Nth(3, 3)
           chain == <<Link(op, v)>> \o rest.chain
           type == EXPR_RETURN(v.type, rest.type, rest.operation)
           code == generate_code(v, rest, rest.operation)
           joined == rest.operation # T_INVALID /\ rest.type # T_INVALID
<1>1. /\ status = "parsing" /\ Fragments /\ Ends(<<operator, operand, star>>)
      /\ joined => Operate(v.type, rest.type, rest.operation, 3,
                           Star(star, op, T_INVALID, code, chain))
      /\ ~ joined => Replace(3, Star(star, op, v.type, v.code, chain))
  BY DEF StarReduction, Reduces, Parsing, Whole
<1>2. /\ 3 \in 0 .. Len(stack) /\ op \in Operators
      /\ v.sym = operand /\ rest.sym = star /\ IsValue(v) /\ IsStar(rest)
  BY <1>1, EndsThree, KindOf
<1>3. v.type = Unassigned \/ rest.type = Unassigned => Untyped
  <2>1. operand \notin MarkSyms /\ star \notin MarkSyms
    BY DEF ValueSyms, MarkSyms
  <2> QED
    BY <1>1, <1>2, <2>1, UntypedTop
<1> HIDE DEF op, v, rest
<1>4. CASE joined
  <2>1. /\ rest.operation \in Operators /\ rest.type \in AnyType
        /\ rest.chain[1].op = rest.operation
        /\ IsChain(rest.chain, rest.type, rest.code)
    BY <1>2, <1>4, StarCases
  <2> DEFINE e == Star(star, op, T_INVALID, code, chain)
  <2>2. Operate(v.type, rest.type, rest.operation, 3, e)
    BY <1>1, <1>4
  <2>3. ASSUME Unassigned \notin {v.type, rest.type}, type # T_INVALID
        PROVE  Element([e EXCEPT !.type = type])
    <3>1. v.type \in Types /\ rest.type \in Types
      BY <1>2, <2>1, <2>3, NotUntyped DEF IsValue
    <3>2. type \in Types /\ IsChain(chain, type, code)
      BY <1>2, <2>1, <2>3, <3>1, MoreLinks
    <3>3. chain[1].op = op
      <4>1. PICK L : rest.chain \in Seq(L)
        BY <2>1 DEF IsChain
      <4>2. chain[1] = Link(op, v)
        BY <4>1, FirstOfLinks
      <4> QED
        BY <4>2 DEF Link
    <3>4. [e EXCEPT !.type = type] = Star(star, op, type, code, chain)
      BY Retyped
    <3> HIDE DEF type, code, chain
    <3> QED
      BY <1>2, <3>2, <3>3, <3>4, StarIs DEF AnyType
  <2>4. Unassigned \in {v.type, rest.type} => Untyped
    BY <1>3
  <2> HIDE DEF e
  <2> QED
    BY <1>1, <1>2, <2>2, <2>3, <2>4, OperateKeeps
<1>5. CASE ~ joined
  <2>1. rest.chain = <<>>
    BY <1>2, <1>5, StarCases
  <2>2. IsChain(chain, v.type, v.code)
    BY <1>2, <2>1, LastLink
  <2>3. chain[1].op = op
    <3>1. <<>> \in Seq({})
      OBVIOUS
    <3>2. chain[1] = Link(op, v)
      BY <2>1, <3>1, FirstOfLinks
    <3> QED
      BY <3>2 DEF Link
  <2> HIDE DEF chain
  <2>4. Element(Star(star, op, v.type, v.code, chain))
    BY <1>2, <2>2, <2>3, StarIs DEF IsValue
  <2> QED
    BY <1>1, <1>2, <1>5, <2>4, ReplaceKeeps, ParsingKeeps
<1> QED
  BY <1>4, <1>5

LEMMA ChainKeeps ==
  ASSUME Whole, Reduces, NEW first \in ValueSyms, NEW star \in {"star_mul", "star_add"},
         Ends(<<first, star>>), NEW n \in 2 .. 3, n <= Len(stack), NEW sign,
         NEW y \in ValueSyms, ChainReduction(y, n, sign)
  PROVE  Whole'
<1> DEFINE v == Nth(2, 1)
           rest == Nth(2, 2)
           left == LeftGrouped(Signed(sign, v.left), rest.chain)
           right == Signed(sign, RightGrouped(v.right, rest.chain))
           type == EXPR_RETURN(v.type, rest.type, rest.operation)
           code == signed_code(generate_code(v, rest, rest.operation), sign)
           joined == rest.operation # T_INVALID /\ rest.type # T_INVALID
<1>1. /\ status = "parsing" /\ Fragments
      /\ joined => Operate(v.type, rest.type, rest.operation, n,
                           Value(y, T_INVALID, code, left, right))
      /\ ~ joined => Replace(n, Value(y, v.type, signed_code(v.code, sign), left, right))
  BY DEF ChainReduction, Reduces, Parsing, Whole
<1>2. /\ n \in 0 .. Len(stack) /\ 2 \in 0 .. Len(stack)
      /\ v.sym = first /\ rest.sym = star /\ IsValue(v) /\ IsStar(rest)
  <2>1. Len(stack) \in Nat
    BY <1>1 DEF Fragments
  <2> QED
    BY <1>1, <2>1, EndsTwo, KindOf
<1>3. v.type = Unassigned \/ rest.type = Unassigned => Untyped
  <2>1. first \notin MarkSyms /\ star \notin MarkSyms
    BY DEF ValueSyms, MarkSyms
  <2> QED
    BY <1>1, <1>2, <2>1, UntypedTop
<1> HIDE DEF v, rest, left
<1>4. CASE joined
  <2>1. /\ rest.operation \in Operators /\ rest.type \in AnyType
        /\ rest.chain[1].op = rest.operation
        /\ IsChain(rest.chain, rest.type, rest.code)
    BY <1>2, <1>4, StarCases
  <2> DEFINE e == Value(y, T_INVALID, code, left, right)
  <2>2. Operate(v.type, rest.type, rest.operation, n, e)
    BY <1>1, <1>4
  <2>3. ASSUME Unassigned \notin {v.type, rest.type}, type # T_INVALID
        PROVE  Element([e EXCEPT !.type = type])
    <3>1. v.type \in Types /\ rest.type \in Types
      BY <1>2, <2>1, <2>3, NotUntyped DEF IsValue
    <3>2. type \in Types /\ Compiles(type, code, right)
      BY <1>2, <2>1, <2>3, <3>1, GroupedMore
    <3>3. [e EXCEPT !.type = type] = Value(y, type, code, left, right)
      BY Retyped
    <3> HIDE DEF type, code, right
    <3> QED
      BY <3>2, <3>3, ValueIs DEF AnyType
  <2>4. Unassigned \in {v.type, rest.type} => Untyped
    BY <1>3
  <2> HIDE DEF e
  <2> QED
    BY <1>1, <1>2, <2>2, <2>3, <2>4, OperateKeeps
<1>5. CASE ~ joined
  <2>1. rest.chain = <<>>
    BY <1>2, <1>5, StarCases
  <2>2. Compiles(v.type, signed_code(v.code, sign), right)
    BY <1>2, <2>1, GroupedAlone
  <2> HIDE DEF right
  <2>3. Element(Value(y, v.type, signed_code(v.code, sign), left, right))
    BY <1>2, <2>2, ValueIs DEF IsValue
  <2> QED
    BY <1>1, <1>2, <1>5, <2>3, ReplaceKeeps, ParsingKeeps
<1> QED
  BY <1>4, <1>5

LEMMA TermKeeps ==
  ASSUME Whole, Term
  PROVE  Whole'
<1>1. Reduces /\ Ends(<<"factor", "star_mul">>) /\ ChainReduction("term", 2, "T_PLUS")
  BY DEF Term
<1>2. 2 <= Len(stack)
  BY <1>1, EndsTwo DEF Whole
<1> QED
  BY <1>1, <1>2, ChainKeeps DEF ValueSyms

LEMMA SimpleExpressionKeeps ==
  ASSUME Whole, SimpleExpression
  PROVE  Whole'
<1>1. Reduces /\ Ends(<<"term", "star_add">>)
  BY DEF SimpleExpression
<1>2. CASE Ends(<<"sign", "term", "star_add">>)
  <2>1. ChainReduction("simple_expression", 3, Nth(3, 1).operation)
    BY <1>2 DEF SimpleExpression
  <2>2. 3 <= Len(stack)
    BY <1>2, EndsThree DEF Whole
  <2> QED
    BY <1>1, <2>1, <2>2, ChainKeeps DEF ValueSyms
<1>3. CASE ~ Ends(<<"sign", "term", "star_add">>)
  <2>1. ChainReduction("simple_expression", 2, "T_PLUS")
    BY <1>3 DEF SimpleExpression
  <2>2. 2 <= Len(stack)
    BY <1>1, EndsTwo DEF Whole
  <2> QED
    BY <1>1, <2>1, <2>2, ChainKeeps DEF ValueSyms
<1> QED
  BY <1>2, <1>3

LEMMA ConditionKeeps ==
  ASSUME Whole, Condition
  PROVE  Whole'
<1>1. stack' = stack /\ status' \in {"accepted", "rejected"}
  BY DEF Condition, Stop
<1> QED
  BY <1>1 DEF Whole, Fragments

LEMMA CoerceKeeps ==
  ASSUME Whole, NEW t \in Types, Coerce(t)
  PROVE  Whole'
<1>1. Fragments /\ Ends(<<"expression">>)
  BY DEF Whole, Coerce, Complete
<1>2. 1 \in 0 .. Len(stack) /\ Nth(1, 1).sym = "expression"
  BY <1>1, EndsOne
<1>3. Nth(1, 1).type = Unassigned => Untyped
  BY <1>1, <1>2, UntypedTop DEF MarkSyms
<1>4. stack' = stack /\ status' \in {"accepted", "rejected", "undefined"}
      /\ (status' = "undefined" => Nth(1, 1).type = Unassigned)
  BY DEF Coerce, Stop
<1> QED
  BY <1>1, <1>3, <1>4 DEF Whole, Fragments, Untyped

LEMMA WholeStep == Whole /\ Next => Whole'
<1> SUFFICES ASSUME Whole, Next PROVE Whole'
  OBVIOUS
<1>1. ASSUME NEW y \in MarkSyms \ {"mulop", "addop", "relop"}, NEW op, ShiftMark(y, op)
      PROVE  Whole'
  BY <1>1, MarkKeeps DEF ShiftMark
<1>2. ASSUME NEW y \in {"mulop", "addop", "relop"}, NEW op \in Operators, NEW after,
             ShiftOperator(y, op, after)
      PROVE  Whole'
  BY <1>2, MarkKeeps DEF ShiftOperator, Reduces, MarkSyms
<1>3. CASE LeftBracket \/ NotOperator \/ \E sign \in {"T_PLUS", "T_MINUS"} : SignOperator(sign)
  BY <1>1, <1>3 DEF LeftBracket, NotOperator, SignOperator, MarkSyms
<1>4. CASE \E op \in MultiplyingOperators : MultiplyingOperator(op)
  BY <1>2, <1>4 DEF MultiplyingOperator, Operators
<1>5. CASE \E op \in AddingOperators : AddingOperator(op)
  BY <1>2, <1>5 DEF AddingOperator, Operators
<1>6. CASE \E op \in RelationalOperators : RelationalOperator(op)
  BY <1>2, <1>6 DEF RelationalOperator, Operators
<1>7. CASE \E x \in Operand : Constant(x)
  BY <1>7, ConstantKeeps
<1>8. CASE NotFactor \/ Bracketed \/ Comparison \/ Expression
  BY <1>8, NotFactorKeeps, BracketedKeeps, ComparisonKeeps, ExpressionKeeps
<1>9. CASE EmptyMultiplying \/ EmptyAdding
  BY <1>9, EmptyStarKeeps DEF EmptyMultiplying, EmptyAdding
<1>10. CASE StarMultiplyingOperatorFactor \/ StarAddingOperatorTerm
  BY <1>10, StarKeeps DEF StarMultiplyingOperatorFactor, StarAddingOperatorTerm, ValueSyms
<1>11. CASE Term \/ SimpleExpression
  BY <1>11, TermKeeps, SimpleExpressionKeeps
<1>12. CASE Condition \/ \E t \in Types : Coerce(t)
  BY <1>12, ConditionKeeps, CoerceKeeps
<1> QED
  BY <1>3, <1>4, <1>5, <1>6, <1>7, <1>8, <1>9, <1>10, <1>11, <1>12 DEF Next

(* The bounds of the model. *)
LEMMA BoundsStep ==
  operands \in 0 .. MaxOperands /\ marks \in 0 .. MaxMarks /\ Next
    => operands' \in 0 .. MaxOperands /\ marks' \in 0 .. MaxMarks
<1> SUFFICES ASSUME operands \in 0 .. MaxOperands, marks \in 0 .. MaxMarks, Next
             PROVE  operands' \in 0 .. MaxOperands /\ marks' \in 0 .. MaxMarks
  OBVIOUS
<1>1. MaxOperands \in Nat /\ MaxMarks \in Nat
  BY ExpressionsAssumption
<1>2. ASSUME NEW y, NEW op, ShiftMark(y, op) PROVE operands' = operands /\ marks' \in 0 .. MaxMarks
  BY <1>1, <1>2 DEF ShiftMark
<1>3. CASE LeftBracket \/ NotOperator \/ \E sign \in {"T_PLUS", "T_MINUS"} : SignOperator(sign)
  BY <1>2, <1>3 DEF LeftBracket, NotOperator, SignOperator
<1>4. CASE \E x \in Operand : Constant(x)
  BY <1>1, <1>4 DEF Constant
<1>5. CASE ~ (LeftBracket \/ NotOperator \/ (\E sign \in {"T_PLUS", "T_MINUS"} : SignOperator(sign))
              \/ \E x \in Operand : Constant(x))
  <2>1. Reduces
    BY <1>5 DEF Next, MultiplyingOperator, AddingOperator, RelationalOperator, ShiftOperator,
         NotFactor, Bracketed, EmptyMultiplying, EmptyAdding, EmptyStar,
         StarMultiplyingOperatorFactor, StarAddingOperatorTerm, StarReduction,
         Term, SimpleExpression, Comparison, Expression, Condition, Coerce, Complete
  <2> QED
    BY <2>1 DEF Reduces
<1> QED
  BY <1>3, <1>4, <1>5

-----------------------------------------------------------------------------
LEMMA InitInv == Init => Inv
<1>1. <<>> \in Seq({}) /\ Len(<<>>) = 0
  OBVIOUS
<1> QED
  BY <1>1, ExpressionsAssumption DEF Init, Inv, Whole, Fragments

LEMMA NextInv == Inv /\ [Next]_vars => Inv'
<1>1. Inv /\ Next => Inv'
  BY WholeStep, BoundsStep DEF Inv
<1>2. Inv /\ UNCHANGED vars => Inv'
  BY DEF Inv, Whole, Fragments, Untyped, vars
<1> QED
  BY <1>1, <1>2

LEMMA AlwaysInv == Spec => []Inv
BY InitInv, NextInv, PTL DEF Spec

(* What the invariant says of the elements the properties name. *)
LEMMA ValuesAre ==
  ASSUME Inv, NEW v \in Values
  PROVE  IsValue(v)
<1>1. PICK i \in DOMAIN stack : v = stack[i]
  BY DEF Values, Range
<1>2. i \in 1 .. Len(stack) /\ Element(v)
  BY <1>1 DEF Inv, Whole, Fragments
<1> QED
  BY <1>2, KindOf DEF Values, ValueSyms

(* Every fragment of an expression has one of the three types or the entry *)
(* the tables leave unassigned, in whatever order operators are nested.    *)
THEOREM TypesOfFragments == Spec => []TypeOK
<1>1. Inv => TypeOK
  BY ValuesAre DEF Inv, Whole, TypeOK, IsValue, AnyType
<1> QED
  BY <1>1, AlwaysInv, PTL

(* A fragment with code has what the invariant says of values and stars. *)
LEMMA CodedAre ==
  ASSUME Inv, NEW e \in Coded
  PROVE  e.type \in AnyType /\ \E t : Compiles(e.type, e.code, t)
<1>1. PICK i \in DOMAIN stack : e = stack[i]
  BY DEF Coded, Range
<1>2. Element(e) /\ e.sym \notin MarkSyms /\ e.code # <<>>
  BY <1>1 DEF Inv, Whole, Fragments, Coded, Marks, Range, MarkSyms
<1>3. CASE IsValue(e)
  BY <1>3 DEF IsValue
<1>4. CASE IsStar(e)
  BY <1>2, <1>4, StarCases DEF IsChain
<1> QED
  BY <1>2, <1>3, <1>4, KindOf

LEMMA CompiledRuns ==
  ASSUME NEW type, NEW code, NEW t, Compiles(type, code, t)
  PROVE  LET s == Run(code) IN Len(s) = 1 /\ Kind(s[1]) = type
<1>1. Len(code) \in Nat /\ Pushes(code, t) /\ Kind(t) = type
  BY DEF Compiles
<1>2. Run(code) = <<t>>
  BY <1>1, RunOfPush
<1>3. Len(<<t>>) = 1 /\ <<t>>[1] = t
  OBVIOUS
<1> QED
  BY <1>1, <1>2, <1>3

(* In the code of every fragment each operator finds operands of its kind, *)
(* at every depth, and the type that the actions gave the fragment is the  *)
(* kind of what the code leaves.                                           *)
THEOREM OperatorsFindTheirKind == Spec => []OperandsHaveTheirKind
<1>1. Misused \notin AnyType
  BY DEF AnyType, Types, T_INTEGER, T_REAL, T_BOOLEAN, Unassigned, Misused
<1>2. Inv => OperandsHaveTheirKind
  BY <1>1, CodedAre, CompiledRuns DEF OperandsHaveTheirKind
<1> QED
  BY <1>2, AlwaysInv, PTL

(* Exactly the code of a number, with a NOT and then signs behind it,      *)
(* leaves the types, and the tables are read out of bounds with such a     *)
(* fragment on the stack only.                                             *)
THEOREM NotAlone == Spec => []OnlyNotLeavesTheTypes
<1>1. ASSUME Inv, NEW e \in Coded PROVE e.type = Unassigned <=> NegatesNumber(e.code)
  BY <1>1, CodedAre DEF Compiles
<1>2. ASSUME Inv, status = "undefined" PROVE \E e \in Coded : e.type = Unassigned
  <2>1. PICK i \in 1 .. Len(stack) : stack[i].sym \notin MarkSyms /\ stack[i].type = Unassigned
    BY <1>2 DEF Inv, Whole, Untyped
  <2>2. stack[i] \in Range(stack) /\ Element(stack[i])
    BY <1>2, <2>1 DEF Inv, Whole, Fragments, Range
  <2>3. stack[i].code # <<>>
    <3>1. CASE IsValue(stack[i])
      BY <3>1 DEF IsValue, Compiles
    <3>2. CASE IsStar(stack[i])
      BY <2>1, <3>2, StarCases DEF IsChain, Compiles, T_INVALID, Unassigned
    <3> QED
      BY <2>1, <2>2, <3>1, <3>2, KindOf
  <2>4. stack[i] \in Coded
    BY <2>1, <2>2, <2>3 DEF Coded, Marks, MarkSyms
  <2> QED
    BY <2>1, <2>4
<1>3. Inv => OnlyNotLeavesTheTypes
  BY <1>1, <1>2 DEF OnlyNotLeavesTheTypes
<1> QED
  BY <1>3, AlwaysInv, PTL

(* The code of every fragment, run on the empty stack of the machine,      *)
(* leaves the one term that right grouping makes of the fragment's text:   *)
(* nothing underflows, nothing stays behind, no operand is swapped.        *)
THEOREM CodeIsRight == Spec => []CodeComputesRightGrouping
<1>1. ASSUME Inv, NEW v \in Values PROVE Run(v.code) = <<v.right>>
  <2>1. v.code \in Seq(Instruction) /\ Pushes(v.code, v.right)
    BY <1>1, ValuesAre DEF IsValue, Compiles
  <2>2. Len(v.code) \in Nat
    BY <2>1
  <2> QED
    BY <2>1, <2>2, RunOfPush
<1>2. Inv => CodeComputesRightGrouping
  BY <1>1 DEF CodeComputesRightGrouping
<1> QED
  BY <1>2, AlwaysInv, PTL

=============================================================================
