---------------------------- MODULE Statements ----------------------------
(***************************************************************************)
(* How code bubbles up: the reductions of parser/base_parser.y that build  *)
(* the code of a statement from the code of its parts, and the functions   *)
(* of code_gen/wml.c that number the labels.  The text of the expressions, *)
(* assignments and calls is left out; what is kept is the order of the     *)
(* instructions and every jump and label.                                  *)
(*                                                                         *)
(* Each fragment carries, as a ghost, the statement it was generated for,  *)
(* so that module StatementsRun can execute both.                          *)
(***************************************************************************)
EXTENDS Naturals, Sequences

CONSTANTS
  MaxSources,    (* bound: statements of a program, empty ones included   *)
  MaxPending,    (* bound: statements waiting on the parser stack         *)
  MaxFunctions   (* bound: block bodies of a program                      *)

ASSUME StatementsAssumption ==
  MaxSources \in Nat /\ MaxPending \in Nat /\ MaxFunctions \in Nat

VARIABLES
  label_counter,
  sources,     (* ghost: statements parsed so far                            *)
  stack,       (* the parser stack: the code and the tree of each statement  *)
  functions,   (* the block bodies completed                                 *)
  status

stVars == <<label_counter, sources, stack, functions, status>>

-----------------------------------------------------------------------------
(* Instructions.  EXEC n stands for the code of the n-th assignment or     *)
(* call, EVAL n for that of the n-th condition.                            *)

Instr(op, n) == [op |-> op, n |-> n]

Exec(n) == Instr("EXEC", n)
Eval(n) == Instr("EVAL", n)

Empty         == [kind |-> "empty"]
Basic(n)      == [kind |-> "basic", n |-> n]
If(n, s)      == [kind |-> "if", n |-> n, then |-> s]
IfElse(n, s, t) == [kind |-> "ifelse", n |-> n, then |-> s, else |-> t]
While(n, s)   == [kind |-> "while", n |-> n, do |-> s]
Compound(s, t) == [kind |-> "compound", first |-> s, rest |-> t]

-----------------------------------------------------------------------------
(* wml.c: the code of a statement with condition number n, whose labels    *)
(* start at l.                                                             *)

start_if(n, code, l) ==
  <<Eval(n), Instr("TJUMP_FW_W", l)>> \o code \o <<Instr("LABEL", l)>>

(* Mutant: nothing skips the else part. *)
start_if_else_falling(n, code, else_code, l) ==
  <<Eval(n), Instr("TJUMP_FW_W", l)>> \o code
    \o <<Instr("LABEL", l)>> \o else_code \o <<Instr("LABEL", l + 1)>>

start_if_else(n, code, else_code, l) ==
  <<Eval(n), Instr("TJUMP_FW_W", l)>> \o code
    \o <<Instr("JUMP_FW_W", l + 1), Instr("LABEL", l)>> \o else_code
    \o <<Instr("LABEL", l + 1)>>

(* Mutant: the two labels of the loop are mixed up. *)
start_while_crossed(n, code, l) ==
  <<Instr("LABEL", l), Eval(n), Instr("TJUMP_FW_W", l)>> \o code
    \o <<Instr("JUMP_BW_W", l), Instr("LABEL", l + 1)>>

(* Mutant: the loop goes back to behind its condition. *)
start_while_late(n, code, l) ==
  <<Eval(n), Instr("TJUMP_FW_W", l + 1), Instr("LABEL", l)>> \o code
    \o <<Instr("JUMP_BW_W", l), Instr("LABEL", l + 1)>>

start_while(n, code, l) ==
  <<Instr("LABEL", l), Eval(n), Instr("TJUMP_FW_W", l + 1)>> \o code
    \o <<Instr("JUMP_BW_W", l), Instr("LABEL", l + 1)>>

-----------------------------------------------------------------------------
Parsing == status = "parsing"

Top      == stack[Len(stack)]
Second   == stack[Len(stack) - 1]

(* Reduce the n topmost fragments to one. *)
Reduce(n, code, tree) ==
  /\ stack' = Append(SubSeq(stack, 1, Len(stack) - n), [code |-> code, tree |-> tree])
  /\ UNCHANGED <<functions, status>>

(* Mutant: one number is taken where two labels are written. *)
NumberOnce(labels) == label_counter' = label_counter + 1

Number(labels) == label_counter' = label_counter + labels

Source == sources < MaxSources /\ sources' = sources + 1

(* statement, star_comma_statement: nothing. *)
EmptyStatement ==
  /\ Parsing /\ Source /\ Len(stack) < MaxPending
  /\ Reduce(0, <<>>, Empty)
  /\ UNCHANGED label_counter

(* assignment_statement, procedure_statement *)
BasicStatement ==
  /\ Parsing /\ Source /\ Len(stack) < MaxPending
  /\ Reduce(0, <<Exec(sources)>>, Basic(sources))
  /\ UNCHANGED label_counter

(* if_statement without else *)
IfStatement ==
  /\ Parsing /\ Source
  /\ stack # <<>>
  /\ Reduce(1, start_if(sources, Top.code, label_counter), If(sources, Top.tree))
  /\ Number(1)

(* if_statement with else *)
IfElseStatement ==
  /\ Parsing /\ Source
  /\ Len(stack) > 1
  /\ Reduce(2, start_if_else(sources, Second.code, Top.code, label_counter),
            IfElse(sources, Second.tree, Top.tree))
  /\ Number(2)

WhileStatement ==
  /\ Parsing /\ Source
  /\ stack # <<>>
  /\ Reduce(1, start_while(sources, Top.code, label_counter), While(sources, Top.tree))
  /\ Number(2)

(* compound_statement, star_comma_statement: concatenate_statements. *)
CompoundStatement ==
  /\ Parsing /\ Len(stack) > 1
  /\ Reduce(2, Second.code \o Top.code, Compound(Second.tree, Top.tree))
  /\ UNCHANGED <<label_counter, sources>>

(* A condition whose type is not T_BOOLEAN. *)
ConditionRejected ==
  /\ Parsing /\ stack # <<>>
  /\ status' = "rejected"
  /\ UNCHANGED <<label_counter, sources, stack, functions>>

(* block_body: the compound statement becomes the body of a function, whose *)
(* code is written after that of the functions before it.                  *)
BlockBody ==
  /\ Parsing /\ Len(stack) = 1 /\ Len(functions) < MaxFunctions
  /\ functions' = Append(functions, [code |-> Append(Top.code, Instr("RETURN_ES", 0)),
                                     tree |-> Top.tree])
  /\ stack' = <<>>
  /\ UNCHANGED <<label_counter, sources, status>>

(* input: the last body was the program's. *)
Program ==
  /\ Parsing /\ stack = <<>> /\ functions # <<>>
  /\ status' = "accepted"
  /\ UNCHANGED <<label_counter, sources, stack, functions>>

-----------------------------------------------------------------------------
StInit ==
  /\ label_counter = 0
  /\ sources = 0
  /\ stack = <<>>
  /\ functions = <<>>
  /\ status = "parsing"

StNext ==
  \/ EmptyStatement \/ BasicStatement
  \/ IfStatement \/ IfElseStatement \/ WhileStatement \/ CompoundStatement
  \/ ConditionRejected
  \/ BlockBody \/ Program

StSpec == StInit /\ [][StNext]_stVars

=============================================================================
