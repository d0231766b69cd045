------------------------------ MODULE Assembly ------------------------------
(***************************************************************************)
(* The text of the assembly: the templates of code_gen/wml.c, filled by    *)
(* format() of code_gen/stringbuilder.c in the order in which the grammar  *)
(* reduces blocks, procedures and statements.                              *)
(*                                                                         *)
(* A text is a sequence of lines and of the newlines between them; the     *)
(* wording of a line is its operation and its number, and how many of its  *)
(* characters are left.  A statement is a call or an assignment of         *)
(* literals: what the order of the text depends on.  Jumps, types and slots *)
(* are in Statements, Expressions and Declarations, and so are the numbers *)
(* that calls use, which differ from those of the headers when procedures  *)
(* are nested (SomeOfHeaderRight of Declarations).                         *)
(***************************************************************************)
EXTENDS Integers, Sequences, FiniteSets, SequencesExt

CONSTANTS
  MaxFunctions,    (* bound: functions, the program included *)
  MaxConstants,    (* bound: named constants and literals    *)
  MaxStatements,   (* bound: statements                      *)
  Length           (* the characters of a line               *)

ASSUME AssemblyAssumption ==
  /\ MaxFunctions \in Nat /\ MaxConstants \in Nat /\ MaxStatements \in Nat
  /\ Length \in Nat \ {0}

VARIABLES
  library,         (* what its vsnprintf does with a block of n characters:  *)
                   (* "fills" it (MSVC), or "terminates" the text in it      *)
                   (* (C99), so that one character less is written           *)
  open,            (* the blocks being parsed, the program first             *)
  constant_counter, procedure_counter,
  started,         (* ghost: functions whose parsing has begun               *)
  statements,      (* ghost: statements parsed                               *)
  output           (* what is written to stdout                              *)

vars == <<library, open, constant_counter, procedure_counter, started,
          statements, output>>

-----------------------------------------------------------------------------
(* "nr" is the number of the function or of the constant, "of" the function *)
(* and the statement a line is for.                                        *)
Line(op, nr, of) == [op |-> op, nr |-> nr, of |-> of, left |-> Length]

newline == [op |-> "\n", nr |-> 0, of |-> <<0, 0>>, left |-> 1]
percent == Line("%s", 0, <<0, 0>>)
nl      == <<newline>>

(* A text without its last character. *)
Cut(text) ==
  IF text = <<>> THEN text
  ELSE IF Last(text).left = 1 THEN Front(text)
  ELSE Append(Front(text), [Last(text) EXCEPT !.left = @ - 1])

(* format, of a template that is filled: the second vsnprintf is given the *)
(* length of the text for the size of the block.                           *)
format(text) == IF library = "fills" THEN text ELSE Cut(text)

(* vsnprintf, of a text with a %s of its own: the first n of its lines. *)
Filled(text, insert) ==
  LET upto[n \in 0 .. Len(text)] ==
        IF n = 0 THEN <<>>
        ELSE upto[n - 1] \o (IF text[n] = percent THEN insert ELSE <<text[n]>>)
  IN  upto[Len(text)]

Inserted(text, insert) == format(Filled(text, insert))

-----------------------------------------------------------------------------
(* wml.c: the templates.                                                   *)

generate_constant_def(nr, of) == format(<<Line("CONST", nr, of)>>)

declare_const_and_use_code(nr, of) ==
  format(<<Line("CONST", nr, of), newline, Line("LOAD_CONST_S", nr, of)>>)

generate_expression_code_swapped(e1, e2, of) ==         \* mutant
  format(e2 \o nl \o e1 \o nl \o <<Line("ADD", 0, of), newline>>)

generate_expression_code(e1, e2, of) ==
  format(e1 \o nl \o e2 \o nl \o <<Line("ADD", 0, of), newline>>)

generate_assignment(e, of) == format(e \o nl \o <<Line("STORE_VAR_S", 0, of), newline>>)

call_void_procedure(of) == format(<<Line("CALL_S", 0, of), newline>>)

(* mutant: the newline that ends the parameters is trusted *)
call_procedure_joined(params, of) == format(params \o <<Line("CALL_S", 0, of), newline>>)

call_procedure(params, of) == format(params \o nl \o <<Line("CALL_S", 0, of), newline>>)

(* From right to left. *)
concatenate_parameter(c1, c2) == format(c2 \o nl \o c1 \o nl)

(* Constants, variables, procedures and statements. *)
concatenate(c1, c2) == format(c1 \o nl \o c2)

generate_block_body_inside(const_part, proc_part, block_code, of) ==  \* mutant
  format(const_part \o nl \o nl \o <<percent>> \o nl \o proc_part \o nl
           \o block_code \o nl \o <<Line("RETURN_ES", 0, of)>>)

(* The header goes where the %s is, behind the procedures; the text of the *)
(* variables is empty.                                                     *)
generate_block_body(const_part, proc_part, block_code, of) ==
  format(const_part \o nl \o nl \o proc_part \o nl \o <<percent>> \o nl
           \o block_code \o nl \o <<Line("RETURN_ES", 0, of)>>)

header(nr, of) ==
  format(nl \o <<Line("EXTERN FUNCTION", nr, of)>> \o nl \o <<Line("FUNCVARS", 0, of)>> \o nl)

-----------------------------------------------------------------------------
(* The grammar.                                                            *)

Block(fn) == [fn |-> fn, consts |-> <<>>, procs |-> <<>>, stmts |-> <<>>]

Top       == Last(open)
Of        == <<Top.fn, statements>>
Replace(b) == Append(Front(open), b)

(* A list is reduced from its end: its last n texts and what ends it.      *)
Concatenated(texts, end) ==
  LET last[n \in 0 .. Len(texts)] ==
        IF n = 0 THEN end ELSE concatenate(texts[Len(texts) - n + 1], last[n - 1])
  IN  last[Len(texts)]

(* plus_constant_definition ends with a constant, the other lists with an  *)
(* empty text.                                                             *)
ConstPart(b) ==
  IF b.consts = <<>> THEN <<>> ELSE Concatenated(Front(b.consts), Last(b.consts))

ProcPart(b) == Concatenated(b.procs, <<>>)

Code(b) == Concatenated(IF b.stmts = <<>> THEN << <<>> >> ELSE b.stmts, <<>>)

Body(b) == generate_block_body(ConstPart(b), ProcPart(b), Code(b), <<b.fn, statements>>)

(* constant_definition *)
Constant ==
  /\ open # <<>> /\ Top.procs = <<>> /\ Top.stmts = <<>>
  /\ constant_counter < MaxConstants
  /\ open' = Replace([Top EXCEPT !.consts = Append(@, generate_constant_def(constant_counter, Of))])
  /\ constant_counter' = constant_counter + 1
  /\ UNCHANGED <<library, procedure_counter, started, statements, output>>

(* procedure_block *)
Procedure ==
  /\ open # <<>> /\ Top.stmts = <<>>
  /\ started < MaxFunctions
  /\ open' = Append(open, Block(started))
  /\ started' = started + 1
  /\ UNCHANGED <<library, constant_counter, procedure_counter, statements, output>>

(* The code of the n-th literal of a statement, numbered as it is parsed. *)
Literal(n) == declare_const_and_use_code(constant_counter + n - 1, Of)

(* actual_parameter_list, of k of them. *)
Parameters(k) ==
  concatenate_parameter(Literal(1),
    IF k = 1 THEN <<>> ELSE concatenate_parameter(Literal(2), <<>>))

Statement(k, code) ==
  /\ open # <<>>
  /\ statements < MaxStatements
  /\ constant_counter + k <= MaxConstants
  /\ open' = Replace([Top EXCEPT !.stmts = Append(@, code)])
  /\ constant_counter' = constant_counter + k
  /\ statements' = statements + 1
  /\ UNCHANGED <<library, procedure_counter, started, output>>

(* procedure_statement, with k literals for arguments. *)
Call(k) ==
  Statement(k, IF k = 0 THEN call_void_procedure(Of)
               ELSE call_procedure(Parameters(k), Of))

(* assignment_statement, of one literal or of a sum of two. *)
Assignment(k) ==
  Statement(k, generate_assignment(
                 IF k = 1 THEN Literal(1)
                 ELSE generate_expression_code(Literal(1), Literal(2), Of), Of))

(* procedure_definition: the number is that of the order of the ends. *)
EndProcedure ==
  /\ Len(open) > 1
  /\ open' =
       LET outer == open[Len(open) - 1]
           text  == Inserted(Body(Top), header(procedure_counter, <<Top.fn, statements>>))
       IN  Append(Front(Front(open)), [outer EXCEPT !.procs = Append(@, text)])
  /\ procedure_counter' = procedure_counter + 1
  /\ UNCHANGED <<library, constant_counter, started, statements, output>>

(* input: the program has the number after the last. *)
EndProgram ==
  /\ Len(open) = 1
  /\ output' = Inserted(Body(Top), header(procedure_counter, <<Top.fn, statements>>))
  /\ open' = <<>>
  /\ UNCHANGED <<library, constant_counter, procedure_counter, started, statements>>

-----------------------------------------------------------------------------
Init ==
  /\ library \in {"fills", "terminates"}
  /\ open = <<Block(0)>> /\ started = 1
  /\ constant_counter = 0 /\ procedure_counter = 0 /\ statements = 0
  /\ output = <<>>

Next ==
  \/ Constant \/ Procedure
  \/ \E k \in 0 .. 2 : Call(k)
  \/ \E k \in 1 .. 2 : Assignment(k)
  \/ EndProcedure \/ EndProgram

Spec == Init /\ [][Next]_vars

-----------------------------------------------------------------------------
(* Properties                                                              *)

(* Where the lines of an operation are in the output. *)
At(op) == {n \in DOMAIN output : output[n].op = op}

(* The lines of a function: from its header to the next return. *)
EndOf(n) == CHOOSE m \in At("RETURN_ES") : m > n /\ \A k \in At("RETURN_ES") : k > n => m <= k

(* "nested functions do not appear inside the parent function code, which  *)
(* is illegal in WMLScript" (wml.c:72): from each header to its return     *)
(* there are lines of one function only, every function has one header,    *)
(* and the headers come in the order of the numbers written in them, from  *)
(* 0 on.                                                                   *)
FunctionsApart ==
  library = "fills" /\ output # <<>> =>
    /\ \A n \in At("EXTERN FUNCTION") : \E m \in At("RETURN_ES") : m > n
    /\ \A n \in At("EXTERN FUNCTION") : \A m \in n .. EndOf(n) :
         output[m] = newline \/ output[m].of[1] = output[n].of[1]
    /\ \A n \in At("EXTERN FUNCTION") :
         output[n].nr = Cardinality({m \in At("EXTERN FUNCTION") : m < n})
    /\ Cardinality(At("EXTERN FUNCTION")) = started
    /\ At("%s") = {}

(* Lines that declare constants come in the order of the numbers that load *)
(* them, except within the arguments of one call, which are written last   *)
(* first: nothing but two literals of a call can be exchanged by an        *)
(* assembler that counts the lines.  (A named constant has the "of" of the *)
(* statement parsed next and is not told from an argument of that one.)    *)
ConstantsInOrder ==
  library = "fills" =>
    \A m, n \in At("CONST") :
      m < n /\ output[m].nr > output[n].nr =>
        /\ output[m].of = output[n].of
        /\ \E k \in At("CALL_S") : output[k].of = output[m].of

(* Every template sets its parts apart by a newline of its own: with the   *)
(* C99 library, whose format eats the end of each text it makes, newlines  *)
(* and all, and eats further into the last statement of a list with every  *)
(* concatenation, no two lines are ever joined, in the text that is        *)
(* written or in those that still wait to be put into a template.          *)
Separate(text) ==
  \A n \in 1 .. Len(text) - 1 : text[n] = newline \/ text[n + 1] = newline

LinesApart ==
  /\ Separate(output)
  /\ \A b \in Range(open) :
       \A text \in Range(b.consts) \cup Range(b.procs) \cup Range(b.stmts) : Separate(text)

=============================================================================
