--------------------------- MODULE Declarations ---------------------------
(***************************************************************************)
(* The semantic actions the parser runs on the declarations of a program   *)
(* and on the statements that name a symbol: the symbol table of           *)
(* scope/symrec.c, the numbering done by code_gen/wml.c and the reductions *)
(* of parser/base_parser.y that call both.  One action is one reduction.   *)
(*                                                                         *)
(* The program text is not a state: every action chooses the names it      *)
(* needs, so a behaviour is one text, and all texts within the bounds are  *)
(* explored.  Types are left out (module Expressions has them): a type      *)
(* error, like any syntax error, is the action SyntaxError.                *)
(***************************************************************************)
EXTENDS Integers, Sequences, Functions

CONSTANTS
  Id,                  (* indices into secondary_tokens                    *)
  PrintId, Arg,          (* ids 0 and 1, entered by main for the builtin     *)
  NULL,
  VariableStackCells,  (* cells malloc'ed for variable_stack (15 in wml.c) *)
  MaxSymrecs,          (* bound: symrecs allocated by one run              *)
  MaxConstants,        (* bound: constants numbered by one run             *)
  MaxGroup             (* bound: names in a variable group or a signature  *)

ASSUME DeclarationsAssumption ==
  /\ PrintId \in Id /\ Arg \in Id /\ PrintId # Arg
  /\ NULL \notin Nat /\ NULL \notin Seq(Nat)
  /\ VariableStackCells \in Nat \ {0}
  /\ MaxSymrecs \in Nat /\ MaxConstants \in Nat
  /\ MaxGroup \in Nat

VARIABLES
  heap,               (* every symrec malloc'ed so far; an address is an index *)
  live,               (* the addresses not freed                               *)
  scope_stack,        (* the hash tables, outermost first                      *)
  variable_stack,     (* the cells of variable_stack up to the pointer         *)
  procedure_counter,
  constant_counter,
  blocks,             (* the parser stack: one entry per open block_body       *)
  functions,          (* ghost: the EXTERN FUNCTION headers generated so far   *)
  code,               (* the instruction generated by the last reduction       *)
  status

vars == <<heap, live, scope_stack, variable_stack, procedure_counter,
          constant_counter, blocks, functions, code, status>>

-----------------------------------------------------------------------------
(* Data                                                                    *)

Species == {"CONST", "VAR", "PROCEDURE", "PARAM"}
Phases  == {"const", "var", "proc", "body"}
Address == 1 .. Len(heap)
Operations == {"", "CONST", "FUNCTION", "LOAD_CONST_S", "LOAD_VAR_S",
               "STORE_VAR_S", "CALL_S", "CALL_LIB_S"}
IdLists == UNION {[1 .. n -> Id] : n \in 0 .. MaxGroup}

(* bp_off of a record nobody numbered: malloc leaves it uninitialised. *)
Uninitialised == -1

NewSymrecUnnumbered(spec, id, params, off) ==       \* mutant: no ++
  [spec |-> spec, id |-> id, parameter_list |-> params,
   bp_off |-> IF spec = "CONST" THEN 0 ELSE off]

NewSymrec(spec, id, params, off) ==
  [spec |-> spec, id |-> id, parameter_list |-> params, bp_off |-> off]

NewGroupStuck(spec, ids, off) ==                    \* mutant: no ++
  [i \in 1 .. Len(ids) |-> NewSymrec(spec, ids[i], NULL, off)]

(* Consecutive symrecs for ids, numbered off, off + 1, ... *)
NewGroup(spec, ids, off) ==
  [i \in 1 .. Len(ids) |-> NewSymrec(spec, ids[i], NULL, off + i - 1)]

ParameterReversed(params, k) ==                     \* mutant: last name first
  NewSymrec("PARAM", params[k], NULL, Len(params) - k)

(* start_procedure numbers the parameters from 0. *)
Parameter(params, k) == NewSymrec("PARAM", params[k], NULL, k - 1)

EmptyTable == [x \in Id |-> NULL]

(* add_to_scope for each of ids in turn, the i-th record at address base + i. *)
PutAll(table, ids, base) ==
  [x \in Id |-> IF x \in Range(ids)
                THEN base + (CHOOSE i \in DOMAIN ids : ids[i] = x)
                ELSE table[x]]

Instruction(op, arg, sym) == [op |-> op, arg |-> arg, sym |-> sym]
NoCode == Instruction("", 0, NULL)

NewBlock(proc) == [proc |-> proc, phase |-> "const", vars |-> 0, nested |-> 0]

(* The block b after a reduction of its part phase that declared variables *)
(* or a nested procedure.                                                  *)
Advance(b, phase, variables, procedures) ==
  [proc |-> b.proc, phase |-> phase, vars |-> b.vars + variables,
   nested |-> b.nested + procedures]

-----------------------------------------------------------------------------
(* Reading the state                                                       *)

Depth   == Len(scope_stack)
TopScope == scope_stack[Depth]
Block   == blocks[Len(blocks)]
Counter == variable_stack[Len(variable_stack)]    \* *variable_stack

InPhase(S) == status = "parsing" /\ Block.phase \in S

search_in_current_scope(id) == TopScope[id]

search_outermost_first(id) ==                       \* mutant: wrong direction
  LET first(i) == /\ scope_stack[i][id] # NULL
                  /\ \A j \in 1 .. i - 1 : scope_stack[j][id] = NULL
  IN  IF \E i \in 1 .. Depth : first(i)
      THEN scope_stack[CHOOSE i \in 1 .. Depth : first(i)][id] ELSE NULL

(* The record of id in the innermost table that has one. *)
search_in_any_scope(id) ==
  LET found(i) == /\ scope_stack[i][id] # NULL
                  /\ \A j \in i + 1 .. Depth : scope_stack[j][id] = NULL
  IN  IF \E i \in 1 .. Depth : found(i)
      THEN scope_stack[CHOOSE i \in 1 .. Depth : found(i)][id] ELSE NULL

HasSpec(a, S) == a # NULL /\ heap[a].spec \in S

(* The number of parameters of the procedure whose block is b. *)
NumParams(b) ==
  IF b.proc = NULL THEN 0 ELSE Len(heap[b.proc].parameter_list)

(* What delete_scope frees of one table: every record that has a parameter *)
(* list, with the records in it.  Other records are never freed.           *)
Freed(table) ==
  UNION {{table[x]} \cup Range(heap[table[x]].parameter_list) :
           x \in {y \in Id : /\ table[y] # NULL
                             /\ heap[table[y]].parameter_list # NULL}}

IsLibraryCallNever(s) == FALSE                      \* mutant: builtin as any other

(* wml_call_procedure compares the name, not the record. *)
IsLibraryCall(s) == heap[s].id = PrintId

-----------------------------------------------------------------------------
(* Effects                                                                 *)

Stop(how) ==
  /\ status' = how
  /\ code' = NoCode
  /\ UNCHANGED <<heap, live, scope_stack, variable_stack, procedure_counter,
                 constant_counter, blocks, functions>>

YYERROR == Stop("rejected")

Malloc(records) ==
  /\ Len(heap) + Len(records) <= MaxSymrecs
  /\ heap' = heap \o records
  /\ live' = live \cup (Len(heap) + 1 .. Len(heap) + Len(records))

SetBottomScope(table) == scope_stack' = [scope_stack EXCEPT ![1] = table]  \* mutant

SetTopScope(table) == scope_stack' = [scope_stack EXCEPT ![Depth] = table]

SetBlock(b) == blocks' = [blocks EXCEPT ![Len(blocks)] = b]

delete_scope_popped_first ==                        \* mutant: pop, then free
  /\ live' = live \ (IF Depth > 1 THEN Freed(scope_stack[Depth - 1]) ELSE {})
  /\ scope_stack' = SubSeq(scope_stack, 1, Depth - 1)

delete_scope_outermost ==                           \* mutant: frees the wrong table
  /\ live' = live \ Freed(scope_stack[1])
  /\ scope_stack' = SubSeq(scope_stack, 1, Depth - 1)

delete_scope ==
  /\ live' = live \ Freed(TopScope)
  /\ scope_stack' = SubSeq(scope_stack, 1, Depth - 1)

-----------------------------------------------------------------------------
(* Declarations                                                            *)

(* force_initialization: initialize_stack declares print(arg). *)
ForceInitialization ==
  /\ status = "start"
  /\ Malloc(<<NewSymrec("PROCEDURE", PrintId, <<2>>, Uninitialised),
              NewSymrec("PARAM", Arg, NULL, Uninitialised)>>)
  /\ scope_stack' = <<[EmptyTable EXCEPT ![PrintId] = 1]>>
  /\ blocks' = <<NewBlock(NULL)>>
  /\ status' = "parsing"
  /\ code' = NoCode
  /\ UNCHANGED <<variable_stack, procedure_counter, constant_counter, functions>>

(* constant_definition, with const_declare and wml_generate_constant_def. *)
ConstantDefinition(id) ==
  /\ InPhase({"const"}) /\ constant_counter < MaxConstants
  /\ search_in_current_scope(id) = NULL
  /\ Malloc(<<NewSymrec("CONST", id, NULL, constant_counter)>>)
  /\ SetTopScope([TopScope EXCEPT ![id] = Len(heap) + 1])
  /\ constant_counter' = constant_counter + 1
  /\ code' = Instruction("CONST", constant_counter, Len(heap) + 1)
  /\ UNCHANGED <<variable_stack, procedure_counter, blocks, functions, status>>

ConstantRedefinition(id) ==
  /\ InPhase({"const"})
  /\ search_in_current_scope(id) # NULL
  /\ YYERROR

(* variable_definition: every record of the group becomes a VAR, replaces  *)
(* whatever the table held for its name, and gets the next slot.           *)
VariableDefinition(ids) ==
  /\ InPhase({"const", "var"})
  /\ ids # <<>> /\ IsInjective(ids)
  /\ Malloc(NewGroup("VAR", ids, Counter))
  /\ SetTopScope(PutAll(TopScope, ids, Len(heap)))
  /\ variable_stack' =
       [variable_stack EXCEPT ![Len(variable_stack)] = @ + Len(ids)]
  /\ SetBlock(Advance(Block, "var", Len(ids), 0))
  /\ code' = NoCode
  /\ UNCHANGED <<procedure_counter, constant_counter, functions, status>>

(* variable_group, star_comma_id and the parameter lists look a name up    *)
(* with darray_find_id before they add it.                                 *)
DuplicateInGroup(ids) ==
  /\ status = "parsing" /\ Block.phase # "body"
  /\ ~ IsInjective(ids)
  /\ YYERROR

(* The records allocated for a procedure: the n parameters of its list, its *)
(* own, and copies of the parameters.                                      *)
ProcedureRecords(id, params) ==
  LET n    == Len(params)
      list == [i \in 1 .. n |-> Len(heap) + i]
  IN  [k \in 1 .. 2 * n + 1 |->
         IF k <= n THEN Parameter(params, k)
         ELSE IF k > n + 1 THEN Parameter(params, k - n - 1)
         ELSE NewSymrec("PROCEDURE", id, list, procedure_counter)]

(* procedure_block: proc_declare in the enclosing scope, create_scope,     *)
(* start_procedure (a new counter cell, slots for the parameters), then    *)
(* the copies go into the new scope.                                       *)
ProcedureBlock(id, params) ==
  LET s == Len(heap) + Len(params) + 1 IN
  /\ InPhase({"const", "var", "proc"})
  /\ IsInjective(params)
  /\ search_in_current_scope(id) = NULL
  /\ Len(variable_stack) < VariableStackCells
  /\ Malloc(ProcedureRecords(id, params))
  /\ scope_stack' = Append([scope_stack EXCEPT ![Depth] = [TopScope EXCEPT ![id] = s]],
                           PutAll(EmptyTable, params, s))
  /\ variable_stack' = Append(variable_stack, Len(params))
  /\ blocks' = Append([blocks EXCEPT ![Len(blocks)] = Advance(Block, "proc", 0, 1)],
                      NewBlock(s))
  /\ code' = NoCode
  /\ UNCHANGED <<procedure_counter, constant_counter, functions, status>>

(* The result of proc_declare is used unchecked: for a name the scope      *)
(* already holds it is NULL, and s->parameter_list is a NULL dereference.  *)
ProcedureRedeclared(id, params) ==
  /\ InPhase({"const", "var", "proc"})
  /\ IsInjective(params)
  /\ search_in_current_scope(id) # NULL
  /\ Stop("undefined")

(* start_procedure moves the pointer past the cells init_wml allocated. *)
VariableStackOverflow(id, params) ==
  /\ InPhase({"const", "var", "proc"})
  /\ IsInjective(params)
  /\ search_in_current_scope(id) = NULL
  /\ Len(variable_stack) >= VariableStackCells
  /\ Stop("undefined")

HeaderFromRecord(b) ==                              \* mutant: the number of the calls
  [proc |-> b.proc, vars |-> b.vars, nested |-> b.nested,
   index |-> IF b.proc = NULL THEN procedure_counter ELSE heap[b.proc].bp_off,
   funcvars |-> Counter - NumParams(b)]

HeaderPreDecrement(b) ==                            \* mutant: --procedure_counter
  [proc |-> b.proc, vars |-> b.vars, nested |-> b.nested,
   index |-> procedure_counter - 1, funcvars |-> Counter - NumParams(b)]

HeaderWithParams(b) ==                              \* mutant: parameters counted
  [proc |-> b.proc, vars |-> b.vars, nested |-> b.nested,
   index |-> procedure_counter, funcvars |-> Counter]

(* The header of the function of block b. *)
Header(b) ==
  [proc |-> b.proc, index |-> procedure_counter,
   funcvars |-> Counter - NumParams(b), vars |-> b.vars, nested |-> b.nested]

(* procedure_definition: the header is generated when the body is complete, *)
(* from the counter the pointer is at now.  The pointer does not move back. *)
ProcedureDefinition ==
  /\ status = "parsing" /\ Len(blocks) > 1
  /\ functions' = Append(functions, Header(Block))
  /\ procedure_counter' = procedure_counter + 1
  /\ code' = Instruction("FUNCTION", procedure_counter, Block.proc)
  /\ delete_scope
  /\ blocks' = SubSeq(blocks, 1, Len(blocks) - 1)
  /\ UNCHANGED <<heap, variable_stack, constant_counter, status>>

(* input: generate_program, then the last scope is deleted. *)
Program ==
  /\ status = "parsing" /\ Len(blocks) = 1
  /\ functions' = Append(functions, Header(Block))
  /\ code' = Instruction("FUNCTION", procedure_counter, NULL)
  /\ delete_scope
  /\ blocks' = <<>>
  /\ status' = "accepted"
  /\ UNCHANGED <<heap, variable_stack, procedure_counter, constant_counter>>

-----------------------------------------------------------------------------
(* Statements and operands that name a symbol                              *)

Emit(op, arg, sym) ==
  /\ code' = Instruction(op, arg, sym)
  /\ SetBlock(Advance(Block, "body", 0, 0))
  /\ UNCHANGED <<heap, live, scope_stack, variable_stack, procedure_counter,
                 functions, status>>

Generate(op, arg, sym) == Emit(op, arg, sym) /\ UNCHANGED constant_counter

AssignmentStatement(id) ==
  LET s == search_in_any_scope(id) IN
  /\ status = "parsing"
  /\ \/ /\ HasSpec(s, {"VAR", "PARAM"})
        /\ Generate("STORE_VAR_S", heap[s].bp_off, s)
     \/ /\ ~ HasSpec(s, {"VAR", "PARAM"})
        /\ YYERROR

(* constant: variable_access, with wml_get_accessor_code.  For a procedure *)
(* that function ends without a return, and its caller uses the value.     *)
Operand(id) ==
  LET s == search_in_any_scope(id) IN
  /\ status = "parsing"
  /\ \/ /\ HasSpec(s, {"CONST"})
        /\ Generate("LOAD_CONST_S", heap[s].bp_off, s)
     \/ /\ HasSpec(s, {"VAR", "PARAM"})
        /\ Generate("LOAD_VAR_S", heap[s].bp_off, s)
     \/ /\ HasSpec(s, {"PROCEDURE"})
        /\ Stop("undefined")
     \/ /\ s = NULL
        /\ YYERROR

(* constant: T_INT_CONST and T_BOOLEAN_CONST declare the constant they load. *)
Literal ==
  /\ status = "parsing" /\ constant_counter < MaxConstants
  /\ Emit("LOAD_CONST_S", constant_counter, NULL)
  /\ constant_counter' = constant_counter + 1

(* constant: T_REAL_CONST; wml_declare_real_const_and_use_code is exit(1). *)
RealLiteral == status = "parsing" /\ Stop("exited")

(* procedure_statement with n actual parameters. *)
ProcedureStatement(id, n) ==
  LET s == search_in_any_scope(id) IN
  /\ status = "parsing"
  /\ IF /\ HasSpec(s, {"PROCEDURE"})
        /\ n = Len(heap[s].parameter_list)
     THEN \/ /\ n > 0 /\ IsLibraryCall(s)
             /\ Generate("CALL_LIB_S", 0, s)
          \/ /\ n = 0 \/ ~ IsLibraryCall(s)
             /\ Generate("CALL_S", heap[s].bp_off, s)
     ELSE YYERROR

(* Any other YYERROR, and the parser's own syntax errors. *)
SyntaxError == status \in {"start", "parsing"} /\ YYERROR

Stopped == status \notin {"start", "parsing"} /\ UNCHANGED vars

-----------------------------------------------------------------------------
Init ==
  /\ heap = <<>>
  /\ live = {}
  /\ scope_stack = <<>>
  /\ variable_stack = <<0>>
  /\ procedure_counter = 0
  /\ constant_counter = 0
  /\ blocks = <<>>
  /\ functions = <<>>
  /\ code = NoCode
  /\ status = "start"

Next ==
  \/ ForceInitialization
  \/ \E id \in Id :
       \/ ConstantDefinition(id)
       \/ ConstantRedefinition(id)
       \/ AssignmentStatement(id)
       \/ Operand(id)
       \/ \E n \in 0 .. MaxGroup : ProcedureStatement(id, n)
       \/ \E params \in IdLists :
            \/ ProcedureBlock(id, params)
            \/ ProcedureRedeclared(id, params)
            \/ VariableStackOverflow(id, params)
  \/ \E ids \in IdLists : VariableDefinition(ids) \/ DuplicateInGroup(ids)
  \/ ProcedureDefinition
  \/ Program
  \/ Literal
  \/ RealLiteral
  \/ SyntaxError
  \/ Stopped

Spec == Init /\ [][Next]_vars

-----------------------------------------------------------------------------
(* Properties                                                              *)

Symrec == [spec : Species, id : Id, parameter_list : Seq(Nat) \cup {NULL},
           bp_off : Int]

Pointer == Address \cup {NULL}

BlockRecord == [proc : Pointer, phase : Phases, vars : Nat, nested : Nat]

FunctionRecord == [proc : Pointer, index : Nat, funcvars : Int, vars : Nat,
                   nested : Nat]

InstructionRecord == [op : Operations, arg : Int, sym : Pointer]

Statuses == {"start", "parsing", "accepted", "rejected", "undefined", "exited"}

(* Every variable has its type; a NULL entry of a table is kh_get's kh_end. *)
TypeOK ==
  /\ heap \in Seq(Symrec)
  /\ live \subseteq Address
  /\ scope_stack \in Seq([Id -> Pointer])
  /\ variable_stack \in Seq(Nat) /\ variable_stack # <<>>
  /\ procedure_counter \in Nat
  /\ constant_counter \in Nat
  /\ blocks \in Seq(BlockRecord)
  /\ functions \in Seq(FunctionRecord)
  /\ code \in InstructionRecord
  /\ status \in Statuses

(* The records that hang on the entry of x in the i-th table. *)
Owned(i, x) ==
  LET a == scope_stack[i][x] IN
  IF a = NULL THEN {}
  ELSE {a} \cup (IF heap[a].parameter_list = NULL THEN {}
                 ELSE Range(heap[a].parameter_list))

(* delete_scope never frees what another table still reaches, and nothing  *)
(* is reached twice, so no lookup returns freed memory and no record is     *)
(* freed twice, however the procedures nest and names are redeclared.       *)
MemorySafe ==
  /\ \A i \in 1 .. Depth : \A x \in Id : Owned(i, x) \subseteq live
  /\ \A i, j \in 1 .. Depth : \A x, y \in Id :
       <<i, x>> # <<j, y>> => Owned(i, x) \cap Owned(j, y) = {}
  /\ \A i \in 1 .. Depth : \A x \in Id :
       LET a == scope_stack[i][x] IN
       HasSpec(a, {"PROCEDURE"}) =>
         /\ IsInjective(heap[a].parameter_list)
         /\ a \notin Range(heap[a].parameter_list)

(* The symrec that procedure_definition finds in $1 after a whole body was *)
(* parsed is still allocated, and still the one its scope declares.        *)
OpenProceduresDeclared ==
  status = "parsing" =>
    /\ Len(blocks) = Depth
    /\ \A i \in 2 .. Depth :
         /\ HasSpec(blocks[i].proc, {"PROCEDURE"}) /\ blocks[i].proc \in live
         /\ scope_stack[i - 1][heap[blocks[i].proc].id] = blocks[i].proc

FrameSize(b) == NumParams(b) + b.vars

IsVariable(a) == HasSpec(a, {"VAR", "PARAM"})

(* In every open block the variables of its table have distinct slots      *)
(* within the frame of its function, although parameters are numbered by    *)
(* start_procedure, copied afterwards, and variables counted elsewhere.     *)
FrameSlots ==
  status = "parsing" =>
    \A i \in 1 .. Depth : \A x, y \in Id :
      LET a == scope_stack[i][x]
          b == scope_stack[i][y]
      IN IsVariable(a) =>
           /\ heap[a].bp_off \in 0 .. FrameSize(blocks[i]) - 1
           /\ (x # y /\ IsVariable(b)) => heap[a].bp_off # heap[b].bp_off

(* Inside a procedure a parameter is found at the slot in which the caller *)
(* pushes it, unless the procedure declared the name again.                 *)
ParametersAtTheirSlots ==
  status = "parsing" =>
    \A i \in 2 .. Depth :
      LET list == heap[blocks[i].proc].parameter_list IN
      \A k \in 1 .. Len(list) :
        LET a == scope_stack[i][heap[list[k]].id] IN
        /\ heap[list[k]].bp_off = k - 1
        /\ a # NULL
        /\ heap[a].spec = "PARAM" => heap[a].bp_off = k - 1

(* A constant number names one record of the run, and no number given to a *)
(* record can be given again, to a record or to a literal.                 *)
ConstantsNumberedOnce ==
  /\ \A a \in Address : heap[a].spec = "CONST" => heap[a].bp_off < constant_counter
  /\ \A a, b \in Address :
       (a # b /\ heap[a].spec = "CONST" /\ heap[b].spec = "CONST")
         => heap[a].bp_off # heap[b].bp_off

(* The headers number the functions 0, 1, 2, ... in the order in which they *)
(* are written, nested procedures before the one that contains them, and    *)
(* the main program last.                                                   *)
FunctionsNumberedInOrder ==
  \A k \in 1 .. Len(functions) :
    /\ functions[k].index = k - 1
    /\ functions[k].proc = NULL => k = Len(functions)

(* A function without nested procedures is called by the number under which *)
(* it is defined, and reserves exactly the variables it declares.           *)
LeafFunctionsExact ==
  \A k \in 1 .. Len(functions) :
    LET f == functions[k] IN
    f.nested = 0 =>
      /\ f.funcvars = f.vars
      /\ f.proc # NULL => heap[f.proc].bp_off = f.index

(* No instruction is generated from a bp_off that nobody assigned: the      *)
(* builtin's record has none, whatever redeclares or shadows its name.      *)
OperandsInitialised == code.arg # Uninitialised

(* A reduction changes only the innermost table: while a procedure is open *)
(* the enclosing scopes keep their entries, and its end gives them back.    *)
OuterScopesFrozen ==
  [][\A i \in 1 .. Depth - 1 :
       i <= Len(scope_stack') => scope_stack'[i] = scope_stack[i]]_vars

-----------------------------------------------------------------------------
(* The abstract specification                                              *)

KindOf(a) ==
  IF a = NULL THEN "none"
  ELSE IF a \notin live THEN "dangling"
  ELSE CASE heap[a].spec = "CONST"     -> "const"
         [] heap[a].spec = "PROCEDURE" -> "procedure"
         [] OTHER                      -> "variable"

(* The kind of symbol that the last instruction takes its number to be. *)
KindUsed ==
  IF code.sym = NULL THEN "none"
  ELSE CASE code.op = "LOAD_CONST_S"                    -> "const"
         [] code.op \in {"LOAD_VAR_S", "STORE_VAR_S"}   -> "variable"
         [] code.op \in {"CALL_S", "CALL_LIB_S"}        -> "procedure"
         [] OTHER                                       -> "none"

(* The kinds of the names in the open scopes. *)
open_scopes == [i \in 1 .. Depth |-> [x \in Id |-> KindOf(scope_stack[i][x])]]

Environment ==
  INSTANCE Environment WITH Builtin <- PrintId, env <- open_scopes, seen <- KindUsed

(* The hash tables, records, addresses and deletions implement nested       *)
(* scopes: every instruction treats a name as what its innermost           *)
(* declaration in a scope still open made it.                               *)
ImplementsEnvironment == Environment!Spec

-----------------------------------------------------------------------------
(* What the repository says, and the code does not do                      *)

(* base_parser.y:332 has "a separate variable stack per function", counted *)
(* "from zero again": a function reserves the variables it declares.       *)
(* wml.c:312 numbers the symrec early "to enable self-recursion": a call   *)
(* carries the number under which the procedure is defined.  Of every      *)
(* procedure at least one is so.                                           *)
SomeOfHeaderRight ==
  \A k \in 1 .. Len(functions) :
    functions[k].proc # NULL =>
      \/ functions[k].funcvars = functions[k].vars
      \/ heap[functions[k].proc].bp_off = functions[k].index

(* tests/test.pa:27 assigns the program's variable e inside a procedure    *)
(* that has variables of its own: two variables that a statement can name  *)
(* are two slots.                                                           *)
VisibleVariablesDistinct ==
  status = "parsing" =>
    \A x, y \in Id :
      LET a == search_in_any_scope(x)
          b == search_in_any_scope(y)
      IN x # y /\ IsVariable(a) /\ IsVariable(b) => heap[a].bp_off # heap[b].bp_off

=============================================================================
