---------------------------- MODULE Expressions ----------------------------
(***************************************************************************)
(* Expressions: the reductions of parser/base_parser.y from constant to    *)
(* expression, the tables of scope/type.c they consult, and the code that  *)
(* code_gen/wml.c makes of them.  One action is one shift of an operator   *)
(* or one reduction.  The parser's choices depend on the next token, which *)
(* is any token the grammar allows.                                        *)
(*                                                                         *)
(* Each fragment carries two ghosts: the term that right grouping makes of *)
(* its text, and the term that Pascal's left grouping makes of it.         *)
(***************************************************************************)
EXTENDS Naturals, Sequences, SequencesExt

CONSTANTS
  Operand,       (* the constants and variables an expression can name    *)
  TypeOf,        (* their types                                           *)
  AddingOperators, MultiplyingOperators, RelationalOperators,  (* in use   *)
  MaxOperands,   (* bound: operands of the expression                      *)
  MaxMarks       (* bound: signs, NOTs and opening brackets of it          *)

T_INTEGER == "T_INTEGER"
T_REAL    == "T_REAL"
T_BOOLEAN == "T_BOOLEAN"
T_INVALID == "T_INVALID"
Types     == {T_INTEGER, T_REAL, T_BOOLEAN}
Numeric   == {T_INTEGER, T_REAL}

(* An entry of the tables that no assignment fills holds 0, which is no    *)
(* type; its own row of type_table is -1.                                  *)
Unassigned == "0"

ASSUME ExpressionsAssumption ==
  /\ TypeOf \in [Operand -> Types]
  /\ AddingOperators \subseteq {"T_PLUS", "T_MINUS", "T_OR"}
  /\ MultiplyingOperators \subseteq {"T_TIMES", "T_DIVIDE", "T_DIV", "T_MOD", "T_AND"}
  /\ RelationalOperators \subseteq {"T_EQ", "T_DIF", "T_LEQ", "T_GEQ", "T_LT", "T_GT"}
  /\ MaxOperands \in Nat /\ MaxMarks \in Nat

VARIABLES
  stack,      (* the parser stack of the expression *)
  operands,   (* operands shifted so far            *)
  marks,      (* signs, NOTs and brackets so far    *)
  status

vars == <<stack, operands, marks, status>>

-----------------------------------------------------------------------------
(* type.c *)

(* Mutant: + is defined on truth values as well. *)
EXPR_RETURN_loose(l, r, op) ==
  IF op = "T_PLUS" /\ l = r THEN l
  ELSE IF {l, r} \subseteq Numeric THEN T_REAL ELSE T_INVALID

(* Mutant: the row of the comparison operators is left out. *)
EXPR_RETURN_partial(l, r, op) ==
  IF {l, r} \subseteq Numeric /\ op \in {"T_PLUS", "T_MINUS"} THEN l
  ELSE IF l = T_INVALID /\ r = T_BOOLEAN THEN T_BOOLEAN ELSE Unassigned

EXPR_RETURN(l, r, op) ==
  LET numbers == {l, r} \subseteq Numeric
      given(defined, t) == IF defined THEN t ELSE T_INVALID
  IN
  IF op = "T_NOT" THEN
       CASE l = T_INVALID /\ r = T_BOOLEAN -> T_BOOLEAN
         [] l = T_INVALID /\ r # T_BOOLEAN -> Unassigned
         [] l = T_BOOLEAN /\ r = T_BOOLEAN -> Unassigned
         [] OTHER                          -> T_INVALID
  ELSE IF T_INVALID \in {l, r} THEN Unassigned
  ELSE CASE op \in {"T_PLUS", "T_MINUS", "T_TIMES", "T_MOD"} ->
              given(numbers, IF T_REAL \in {l, r} THEN T_REAL ELSE T_INTEGER)
         [] op = "T_DIVIDE" -> given(numbers, T_REAL)
         [] op = "T_DIV"    -> given(numbers, T_INTEGER)
         [] op = "T_AND"    -> given(<<l, r>> = <<T_BOOLEAN, T_INTEGER>>, T_BOOLEAN)
         [] op = "T_OR"     -> given(<<l, r>> = <<T_BOOLEAN, T_BOOLEAN>>, T_BOOLEAN)
         [] OTHER           -> given(numbers, T_BOOLEAN)

COMPATIBLE(l, r) == l = r \/ <<l, r>> = <<T_REAL, T_INTEGER>>

-----------------------------------------------------------------------------
(* wml.c *)

OPERATOR_S(op) ==
  CASE op = "T_PLUS" -> "ADD"  [] op = "T_MINUS"  -> "SUB" [] op = "T_TIMES" -> "MUL"
    [] op = "T_DIV"  -> "IDIV" [] op = "T_DIVIDE" -> "DIV" [] op = "T_MOD"   -> "REM"
    [] op = "T_AND"  -> "SCAND" [] op = "T_OR"    -> "SCOR" [] op = "T_NOT"  -> "NOT"
    [] op = "T_EQ"   -> "EQ"   [] op = "T_DIF"    -> "NE"  [] op = "T_LEQ"   -> "LE"
    [] op = "T_GEQ"  -> "GE"   [] op = "T_LT"     -> "LT"  [] op = "T_GT"    -> "GT"

(* Mutant: the right operand is pushed first. *)
generate_code_swapped(lhs, rhs, op) == rhs.code \o lhs.code \o <<<<OPERATOR_S(op)>>>>

generate_code(lhs, rhs, op) == lhs.code \o rhs.code \o <<<<OPERATOR_S(op)>>>>

signed_code(code, sign) ==
  IF sign = "T_PLUS" THEN code ELSE Append(code, <<"UMINUS">>)

-----------------------------------------------------------------------------
(* Terms: <<"LOAD", kind, x>>, <<unary, kind, term>> and                   *)
(* <<binary, kind, term, term>>.  The kind of a term is what its           *)
(* instruction leaves of the kinds it pops, whatever type.c says:          *)
(* arithmetic and comparisons are for numbers, SCOR is for truth values,   *)
(* SCAND for a truth value and an integer, as type.c:142 has it, and       *)
(* UMINUS keeps the kind.  A NOT of a number is left untyped; any other    *)
(* operand is Misused, and so is all that is made of it.                   *)
Misused == "misused"

Arithmetic  == {"ADD", "SUB", "MUL", "DIV", "IDIV", "REM"}
Comparisons == {"EQ", "NE", "LE", "GE", "LT", "GT"}

Kind(t) == t[2]

UnaryKind(name, k) ==
  IF name = "UMINUS" \/ k = Misused THEN k
  ELSE IF k = T_BOOLEAN THEN T_BOOLEAN
  ELSE IF k \in Numeric THEN Unassigned ELSE Misused

BinaryKind(name, k, l) ==
  LET numbers == {k, l} \subseteq Numeric IN
  IF numbers /\ name \in Arithmetic THEN
       IF name # "IDIV" /\ (name = "DIV" \/ T_REAL \in {k, l}) THEN T_REAL ELSE T_INTEGER
  ELSE IF \/ numbers /\ name \in Comparisons
          \/ name = "SCOR" /\ k = T_BOOLEAN /\ l = T_BOOLEAN
          \/ name = "SCAND" /\ k = T_BOOLEAN /\ l = T_INTEGER
       THEN T_BOOLEAN ELSE Misused

Load(x)           == <<"LOAD", TypeOf[x], x>>
Unary(name, t)    == <<name, UnaryKind(name, Kind(t)), t>>
Apply(name, s, t) == <<name, BinaryKind(name, Kind(s), Kind(t)), s, t>>

Binary(op, s, t) == Apply(OPERATOR_S(op), s, t)

Signed(sign, t) == IF sign = "T_PLUS" THEN t ELSE Unary("UMINUS", t)

(* first op1 t1 op2 t2 ..., grouped to the left and to the right, where    *)
(* chain is <<<<op1, t1>>, <<op2, t2>>, ...>>.                             *)
LeftGrouped(first, chain) ==
  FoldLeft(LAMBDA t, link : Binary(link.op, t, link.left), first, chain)

(* The term that the operands of chain make, without the first operator.   *)
RightTerm(chain) ==
  LET from[k \in 1 .. Len(chain)] ==
        IF k = Len(chain) THEN chain[k].right
        ELSE Binary(chain[k + 1].op, chain[k].right, from[k + 1])
  IN  from[1]

RightGrouped(first, chain) ==
  IF chain = <<>> THEN first ELSE Binary(chain[1].op, first, RightTerm(chain))

-----------------------------------------------------------------------------
(* The parser stack.                                                       *)

Mark(sym, op) == [sym |-> sym, operation |-> op]

Value(sym, type, code, left, right) ==
  [sym |-> sym, operation |-> T_INVALID, type |-> type, code |-> code,
   left |-> left, right |-> right]

(* A star_..._operator_... symbol: an operator with all that follows it.   *)
Star(sym, op, type, code, chain) ==
  [sym |-> sym, operation |-> op, type |-> type, code |-> code, chain |-> chain]

NoStar(sym) == Star(sym, T_INVALID, T_INVALID, <<>>, <<>>)

Link(op, v) == [op |-> op, left |-> v.left, right |-> v.right]

Nth(n, i) == stack[Len(stack) - n + i]     \* the i-th of the n topmost

Ends(syms) ==
  /\ Len(stack) >= Len(syms)
  /\ \A i \in 1 .. Len(syms) : Nth(Len(syms), i).sym = syms[i]

Parsing == status = "parsing"

Push(e) == stack' = Append(stack, e) /\ UNCHANGED status

Replace(n, e) ==
  /\ stack' = Append(SubSeq(stack, 1, Len(stack) - n), e)
  /\ UNCHANGED status

Reduces == Parsing /\ UNCHANGED <<operands, marks>>

Stop(how) == status' = how /\ UNCHANGED stack

(* Mutant: the wrong constant is compared with. *)
IsRejected_as_zero(t) == t = Unassigned

IsRejected(t) == t = T_INVALID

(* Reduce to e, once the type of the operation is looked up.  Unassigned as *)
(* the type of an operand is an index -1; T_INVALID is a YYERROR.           *)
Operate(l, r, op, n, e) ==
  IF Unassigned \in {l, r} THEN Stop("undefined")
  ELSE IF IsRejected(EXPR_RETURN(l, r, op)) THEN Stop("rejected")
  ELSE Replace(n, [e EXCEPT !.type = EXPR_RETURN(l, r, op)])

AtOperand ==
  \/ stack = <<>>
  \/ stack # <<>> /\ Nth(1, 1).sym \in {"(", "mulop", "addop", "relop", "not", "sign"}

AtSimpleExpression ==
  \/ stack = <<>>
  \/ stack # <<>> /\ Nth(1, 1).sym \in {"(", "relop"}

-----------------------------------------------------------------------------
(* Shifts *)

ShiftMark(sym, op) ==
  /\ Parsing /\ marks < MaxMarks
  /\ Push(Mark(sym, op))
  /\ marks' = marks + 1
  /\ UNCHANGED operands

LeftBracket == AtOperand /\ ShiftMark("(", "T_LBRACKET")

NotOperator == AtOperand /\ ShiftMark("not", "T_NOT")

SignOperator(sign) == AtSimpleExpression /\ ShiftMark("sign", sign)

ShiftOperator(sym, op, after) ==
  /\ Reduces /\ operands < MaxOperands
  /\ Ends(<<after>>)
  /\ ~ Ends(<<"not", after>>)
  /\ Push(Mark(sym, op))

MultiplyingOperator(op) == ShiftOperator("mulop", op, "factor")

AddingOperator(op) == ShiftOperator("addop", op, "term")

RelationalOperator(op) ==
  /\ ~ Ends(<<"relop", "simple_expression">>)
  /\ ShiftOperator("relop", op, "simple_expression")

-----------------------------------------------------------------------------
(* Reductions *)

(* factor: constant, for a literal or a variable. *)
Constant(x) ==
  /\ Parsing /\ AtOperand /\ operands < MaxOperands
  /\ Push(Value("factor", TypeOf[x], <<<<"LOAD", x>>>>, Load(x), Load(x)))
  /\ operands' = operands + 1
  /\ UNCHANGED marks

NotFactor ==
  /\ Reduces /\ Ends(<<"not", "factor">>)
  /\ LET v == Nth(1, 1) IN
     Operate(T_INVALID, v.type, "T_NOT", 2,
             Value("factor", T_INVALID, Append(v.code, <<"NOT">>),
                   Unary("NOT", v.left), Unary("NOT", v.right)))

(* factor: T_LBRACKET expression T_RBRACKET *)
Bracketed ==
  /\ Reduces /\ Ends(<<"(", "expression">>)
  /\ Replace(2, [Nth(2, 2) EXCEPT !.sym = "factor"])

(* The empty star, when no further operator of the level follows. *)
EmptyStar(star, after) ==
  /\ Reduces /\ Ends(<<after>>)
  /\ ~ Ends(<<"not", after>>)
  /\ Push(NoStar(star))

(* operator operand star: the operand is combined with what follows it, and *)
(* the operator before it is kept for the reduction to come.                *)
StarReduction(star, operator, operand) ==
  /\ Reduces /\ Ends(<<operator, operand, star>>)
  /\ LET op    == Nth(3, 1).operation
         v     == Nth(3, 2)
         rest  == Nth(3, 3)
         chain == <<Link(op, v)>> \o rest.chain
     IN  IF rest.operation # T_INVALID /\ rest.type # T_INVALID
         THEN Operate(v.type, rest.type, rest.operation, 3,
                      Star(star, op, T_INVALID,
                           generate_code(v, rest, rest.operation), chain))
         ELSE Replace(3, Star(star, op, v.type, v.code, chain))

(* first star, with the sign the expression begins with.  A star has no     *)
(* operation exactly if it has no type: simple_expression tests the one     *)
(* twice where term tests both.                                             *)
ChainReduction(sym, n, sign) ==
  LET v     == Nth(2, 1)
      rest  == Nth(2, 2)
      left  == LeftGrouped(Signed(sign, v.left), rest.chain)
      right == Signed(sign, RightGrouped(v.right, rest.chain))
  IN  IF rest.operation # T_INVALID /\ rest.type # T_INVALID
      THEN Operate(v.type, rest.type, rest.operation, n,
                   Value(sym, T_INVALID,
                         signed_code(generate_code(v, rest, rest.operation), sign),
                         left, right))
      ELSE Replace(n, Value(sym, v.type, signed_code(v.code, sign), left, right))

EmptyMultiplying == EmptyStar("star_mul", "factor")

StarMultiplyingOperatorFactor == StarReduction("star_mul", "mulop", "factor")

Term ==
  /\ Reduces /\ Ends(<<"factor", "star_mul">>)
  /\ ~ Ends(<<"mulop", "factor", "star_mul">>)
  /\ ChainReduction("term", 2, "T_PLUS")

EmptyAdding == EmptyStar("star_add", "term")

StarAddingOperatorTerm == StarReduction("star_add", "addop", "term")

SimpleExpression ==
  /\ Reduces /\ Ends(<<"term", "star_add">>)
  /\ ~ Ends(<<"addop", "term", "star_add">>)
  /\ IF Ends(<<"sign", "term", "star_add">>)
     THEN ChainReduction("simple_expression", 3, Nth(3, 1).operation)
     ELSE ChainReduction("simple_expression", 2, "T_PLUS")

(* expression: a comparison, or a simple expression that none follows. *)
Comparison ==
  /\ Reduces /\ Ends(<<"simple_expression", "relop", "simple_expression">>)
  /\ LET l  == Nth(3, 1)
         op == Nth(3, 2).operation
         r  == Nth(3, 3)
     IN  Operate(l.type, r.type, op, 3,
                 Value("expression", T_INVALID, generate_code(l, r, op),
                       Binary(op, l.left, r.left), Binary(op, l.right, r.right)))

Expression ==
  /\ Reduces /\ Ends(<<"simple_expression">>)
  /\ ~ Ends(<<"relop", "simple_expression">>)
  /\ Replace(1, [Nth(1, 1) EXCEPT !.sym = "expression"])

-----------------------------------------------------------------------------
(* What a statement does with the type of its expression.                  *)

Complete == Reduces /\ Len(stack) = 1 /\ Ends(<<"expression">>)

(* if_statement, while_statement *)
Condition ==
  /\ Complete
  /\ Stop(IF Nth(1, 1).type = T_BOOLEAN THEN "accepted" ELSE "rejected")

(* assignment_statement to a variable of type t, procedure_statement with a *)
(* parameter of type t.                                                     *)
Coerce(t) ==
  /\ Complete
  /\ Stop(IF Nth(1, 1).type = Unassigned THEN "undefined"
          ELSE IF COMPATIBLE(t, Nth(1, 1).type) THEN "accepted" ELSE "rejected")

-----------------------------------------------------------------------------
Init == stack = <<>> /\ operands = 0 /\ marks = 0 /\ status = "parsing"

Next ==
  \/ LeftBracket \/ NotOperator
  \/ \E sign \in {"T_PLUS", "T_MINUS"} : SignOperator(sign)
  \/ \E op \in MultiplyingOperators : MultiplyingOperator(op)
  \/ \E op \in AddingOperators : AddingOperator(op)
  \/ \E op \in RelationalOperators : RelationalOperator(op)
  \/ \E x \in Operand : Constant(x)
  \/ NotFactor \/ Bracketed
  \/ EmptyMultiplying \/ StarMultiplyingOperatorFactor \/ Term
  \/ EmptyAdding \/ StarAddingOperatorTerm \/ SimpleExpression
  \/ Comparison \/ Expression
  \/ Condition
  \/ \E t \in Types : Coerce(t)

Spec == Init /\ [][Next]_vars

-----------------------------------------------------------------------------
(* One instruction on the machine's stack of terms; a pop from the empty    *)
(* stack gives the term <<"UNDERFLOW", Misused>>.                           *)
Execute(s, i) ==
  LET pop(k)  == IF Len(s) > k THEN s[Len(s) - k] ELSE <<"UNDERFLOW", Misused>>
      rest(n) == SubSeq(s, 1, Len(s) - n)
  IN  IF i[1] = "LOAD" THEN Append(s, Load(i[2]))
      ELSE IF i[1] \in {"NOT", "UMINUS"} THEN Append(rest(1), Unary(i[1], pop(0)))
      ELSE Append(rest(2), Apply(i[1], pop(1), pop(0)))

(* The stack that code leaves. *)
Run(code) ==
  LET after[k \in 0 .. Len(code)] ==
        IF k = 0 THEN <<>> ELSE Execute(after[k - 1], code[k])
  IN  after[Len(code)]

Values == {e \in Range(stack) :
             e.sym \in {"factor", "term", "simple_expression", "expression"}}

Marks == {e \in Range(stack) :
            e.sym \in {"(", "not", "sign", "mulop", "addop", "relop"}}

TypeOK ==
  /\ operands \in 0 .. MaxOperands /\ marks \in 0 .. MaxMarks
  /\ \A v \in Values : v.type \in Types \cup {Unassigned}
  /\ status \in {"parsing", "accepted", "rejected", "undefined"}

(* The code of every fragment pushes one value and pops what it pushed:    *)
(* the operands in the order of the text, the operators grouped from the   *)
(* right, and a leading minus applied to the whole sum.                    *)
CodeComputesRightGrouping ==
  \A v \in Values : Run(v.code) = <<v.right>>

(* The fragments that have code: all but marks and empty stars.            *)
Coded == {e \in Range(stack) \ Marks : e.code # <<>>}

(* code ends in a NOT whose operand is a number, and signs after it.       *)
NegatesNumber(code) ==
  \E n \in DOMAIN code :
    /\ code[n] = <<"NOT">>
    /\ \A m \in n + 1 .. Len(code) : code[m] = <<"UMINUS">>
    /\ LET s == Run(SubSeq(code, 1, n - 1)) IN Len(s) = 1 /\ Kind(s[1]) \in Numeric

(* A fragment has a type outside the tables exactly when its code is that  *)
(* of a number with NOT and then only signs put behind it: no other code   *)
(* leaves the types, and none that is built around such a NOT is typed     *)
(* (type.c:168).  The tables are read out of bounds only where a fragment  *)
(* of this kind is on the stack.                                           *)
OnlyNotLeavesTheTypes ==
  /\ \A e \in Coded : e.type = Unassigned <=> NegatesNumber(e.code)
  /\ status = "undefined" => \E e \in Coded : e.type = Unassigned

(* The code of every fragment, of a star too, leaves a term of the very    *)
(* type that the actions gave the fragment, and never a Misused one: at    *)
(* no depth is arithmetic or a comparison generated for a truth value or   *)
(* for something untyped, a connective for other operands than its table   *)
(* names, or a NOT for something untyped.  A sign is the exception: the    *)
(* grammar puts it before a truth value and before something untyped as    *)
(* well (base_parser.y:665-668), which keep their kind.                    *)
OperandsHaveTheirKind ==
  \A e \in Coded :
    LET s == Run(e.code) IN Len(s) = 1 /\ Kind(s[1]) = e.type /\ Kind(s[1]) # Misused

-----------------------------------------------------------------------------
(* What the repository says, and the code does not do                      *)

(* README.md:6 calls the language a restricted subset of Pascal, in which  *)
(* operators of one level group from the left and a sign belongs to the    *)
(* first term.                                                              *)
GroupsAsPascal == \A v \in Values : Run(v.code) = <<v.left>>

=============================================================================
