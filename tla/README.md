# gp--: a verification project

gp-- compiles Pascal--, a subset of Pascal, to assembly for the WMLScript
virtual machine. It is one sequential C program: `main` reads a file name,
bison's parser pulls tokens from a hand-written scanner, and every semantic
action of the grammar looks types and symbols up and builds the text of the
output. There are no threads, no messages and nothing persistent. What makes it
hard to test is the length of the calls: the meaning of a reduction depends on
counters and pointers that many reductions before it moved, on hash tables that
others freed, and on tables in which some entries were never assigned.

These modules model the compiler's core as state machines, check them with TLC
and prove part of it with TLAPS. They are translated from the code, not from its
documentation; where the two disagree the run is listed under *Findings*.
`PROJECT.json` maps every definition to the lines it stands for.

## Inventory

| Component | State it keeps | Operations | Interacts with |
|---|---|---|---|
| driver, `main.c` | command line | open the file, build tables, `yyparse` | all |
| scanner, `lexer/lexer.c` | file position, two remembered positions, `f_line`, the lexeme buffer, `secondary_tokens` | `skip_nontokens_file`, `next_token_file`, `yylex`, `yyerror` | the two automata; called by the parser |
| automata, `lexer/lexical_state_machine.c`, `state_machine/state_machine.c` | states with their transitions, the current state | `make_nontoken_skipper`, `make_full_tokenizer`, `execute_transition`, `reset_machine` | scanner |
| token tables, `lexer/token.c` | constants | `make_token`, `print_token` | token automaton, driver |
| grammar, `parser/base_parser.y` | parser stack, `scope_stack` initialisation | the reductions | scanner, symbol table, types, generator |
| symbol table, `scope/symrec.c` | `scope_stack`, records on the heap | create/delete scope, add, search, declare, copy | grammar, generator |
| dynamic array, `scope/darray.h` | block, capacity, length | push, remove, get | symbol table, grammar |
| type tables, `scope/type.c` | `EXPR_RETURN`, `COMPATIBLE` | filled once | grammar |
| generator, `code_gen/wml.c` through `generator.c` | `constant_counter`, `procedure_counter`, `label_counter`, `variable_stack` | one function per construct | grammar |
| formatting, `code_gen/stringbuilder.c` | none | `format`, `append` | generator: every template goes through it |
| x86 generator, `code_gen/x86.c` | dead code | | |
| hash table, `scope/khash.h` (vendored) | buckets with their flags, keys and values, three counters | `kh_init`, `kh_put`, `kh_get`, `kh_resize` | one per scope of the symbol table |

What makes each correct:

* **symbol table**: a name means its innermost declaration; leaving a scope frees
  exactly what the scope owned, once, and never what something else reaches.
* **numbering**: constants, frame slots, functions and labels are numbered so that
  definition and use agree and no two things share a number.
* **statements**: jumps land on labels of their own statement, and the machine does
  what the statement says.
* **expressions**: the code of an expression computes the expression, and no
  expression the type tables do not cover gets through.
* **dynamic array**: every write is inside the block; it is a sequence.
* **hash table**: a search finds the record put last under its name, through every
  growth; between puts each name is in one bucket, since leaving the scope frees
  what every bucket holds.
* **scanner**: nothing but white space and comments is skipped, lines are counted
  once, the lexeme stays in its buffer, equal names get equal numbers, and the
  scan ends.
* **token automaton**: every text gets the type the tables give it, and a token is
  as long as it can be.
* **text**: functions do not appear inside functions, a constant is declared at the
  place its number says, and no two lines are joined.

Hard behaviours, in order of weight: nested procedures (one `variable_stack`
pointer, one `procedure_counter`, numbered at the start and again at the end);
memory shared between a procedure's record, its parameter list and the copies in
its scope; code assembled inside out while labels are counted; right recursion;
unassigned table entries; a table rehashed in place; an automaton completed while
it is walked; a scanner that reads ahead and seeks back by positions it
remembered. `PROJECT.json` lists each as a hazard at its line.

## Modules

| Module | What it is | Extends / uses |
|---|---|---|
| `Declarations` | symbol table, declarations, calls and the numbering of `wml.c` | instantiates `Environment` |
| `Environment` | abstract: nested scopes | |
| `DeclarationsProofs` | theorems: types, numbering, memory and scopes | `Declarations` |
| `DynArray` | the array of `darray.h` | instantiates `List` |
| `List` | abstract: a sequence | |
| `DynArrayProofs` | theorems | `DynArray` |
| `HashTable` | the table of a scope, `khash.h` | instantiates `Map` |
| `Map` | abstract: a map | |
| `HashTableProofs` | theorems | `HashTable` |
| `Statements` | reductions and generator of statements | |
| `StatementsRun` | composition: generator, WMLScript machine, and the statement itself | `Statements` |
| `StatementsProofs` | theorems | `StatementsRun` |
| `Expressions` | reductions, type tables and generator of expressions | |
| `ExpressionsProofs` | theorems | `Expressions` |
| `Assembly` | composition: templates, `format` and the order in which the grammar fills them | |
| `AssemblyProofs` | theorems | `Assembly` |
| `Lexer` | scanner loops with the comment automaton and the interning of names | |
| `LexerProofs` | theorems | `Lexer` |
| `Tokenizer` | the token automaton as it is built, and run | |
| `TokenizerProofs` | theorems | `Tokenizer` |
| `MCDeclarations`, `MCDynArray`, `MCExpressions`, `MCHashTable`, `MCTokenizer` | instances for TLC | |

Definitions that say *mutant* in their comment are variants with a plausible bug;
no specification uses them. Each shows that a property notices the bug when it is
put in the place of the definition of the same parameters that follows it.

### Declarations

One action is one reduction with all the calls it makes. The text is not state: an
action picks the names it needs, so each behaviour is one program and TLC explores
all programs within the bounds. `heap` is every `symrec` ever allocated (the
address is the index), `live` those not freed, `scope_stack` the khash tables,
`variable_stack` the cells up to the pointer of `wml.c` (the pointer only moves
forward), `blocks` the open `block_body` symbols of the parser stack. `functions`
and `code` are what the reduction printed: the headers and the last instruction,
with the record it was generated from.

`ProcedureBlock` is the whole mid-rule action: `proc_declare`, `create_scope`,
`start_procedure` and the copies of the parameters. `ProcedureDefinition` takes
its header from the counters as they are after the body. `ProcedureRedeclared`
(NULL result used), `VariableStackOverflow` (past the 15 cells) and an operand
that names a procedure (function without return) are undefined behaviour of the
code: from there the program may do anything, so the model stops with status
`undefined`. `RealLiteral` is `exit(1)`.

`Environment` keeps, for each open scope, the kind of each name, and the kind of
the symbol the last step used. The refinement maps a table entry to the kind of its
record, and to *dangling* when the record is freed, so that a premature free is a
step `Environment` cannot make, and maps a use to the kind found by searching the tables.

### HashTable

One table, as `add_to_scope` fills it and the searches read it. One action is one
turn of a loop of `kh_resize`, or what comes before and after it: `Scan` takes the
element out of the next old bucket, `Kick` places the element in hand, and takes in
hand the one it displaces when that was not moved yet. Probing, which is a loop
without effects, is the operator `Reached`. `flags` of the old and `new_flags` of
the new table share the blocks `keys` and `vals`, as in the code, and the blocks are
extended before anything moves.

In the middle of a rehash a search is not possible, so there the refinement to `Map`
takes for the table's contents all it holds: the elements not moved, those moved
and the one in hand. A put is then one step of `Map` and every turn of a rehash is none.

### Statements and StatementsRun

A fragment on the parser stack is its list of instructions (assignments, calls and
conditions are opaque numbered instructions) with, as a ghost, the statement it
was made for. When a program is accepted, `StatementsRun` calls any of its
functions and runs the code beside the statement; conditions take either value.
`deviates` records a difference. Compound and empty statements have no instruction of
their own: the ghost unfolds them before the machine takes its next one. A condition and the `TJUMP_FW_W` that consumes its
value, which jumps when it is not true, are one step.

### Expressions

The parser stack of one expression; `star_...` symbols are the right-recursive
lists. Each value carries its type, its code, and two ghosts, the terms of the
right and the left grouping. A term says at each of its operators what kind of value the
machine has there: arithmetic and comparisons are for numbers, `SCOR` for truth values,
`SCAND` for a truth value and an integer (as `type.c:142` has it, oddly), a NOT of a
number leaves something untyped, and what is given anything else is `Misused`, with all
that is made of it. `UMINUS` keeps the kind of whatever it is given, since the grammar
puts a sign before truth values too (`base_parser.y:665-668`). Entries of `EXPR_RETURN` that no assignment fills are
0, which is none of the types (`Unassigned`): looking one up as an operand's type
indexes the table at -1, status `undefined`.

### DynArray

`base` is the block as a function on its indices, new cells holding `Junk`. Each
operation ends in `Memcheck`, as in the macros, and writes to the cell that the
previous check left free.

### Assembly

The text as a sequence of lines and newlines. `open` has, for each block being
parsed, the texts of its constants, procedures and statements; `EndProcedure` folds
them as the right-recursive lists do, builds the body with its `%s` and fills in the
header. What a statement is made of does not matter here, except for literals,
which declare constants in the middle of the text. Calls carry no number here: theirs is
that of `start_procedure`, which `Declarations` has and which is not the header's when
procedures are nested. `library` says how `vsnprintf`
treats a text as long as its block, which decides whether `format` loses the last
character of every template it fills: MSVC, for which the repository has a
portability header, fills the block; C99 ends the text in it. A line counts the
characters it has left (all lines have `Length` at first), so that the last statement of
a list, which loses one with each concatenation, is used up and the newline before
it is eaten next.

### Lexer

One action is one turn of a loop of `skip_nontokens_file` or `next_token_file`.
Characters are classes: two kinds of space, the brackets and star of comments, and
one for all others. The last stands for printable ASCII: the comment automaton has
transitions for 0x20 to 0x7e, tabs, newlines and carriage returns only
(`lexical_state_machine.c:391-448`), so that a byte beyond these, an accented letter in a
comment for instance, is refused; such bytes are not modelled. The file is revealed as it is read. The comment automaton is
complete; of the token automaton, only what the loops depend on (a state is
reached or not, a class of one-character tokens, and names of any length).
`TokenDone` interns a name as `yylex` does: `secondary_tokens` is grown when full,
searched from its beginning, and appended to. Names differ by their lengths.

### Tokenizer

A state is its kind (part of the tree of tokens or of keywords, a number, a name)
and the text that leads to it. `Branches`, `TokenType` and `KeywordType` are the
recursive building functions as what they build: the tables sorted by length, the
first entry a text begins deciding its type. `qsort` may leave entries of one length in
any order; `Sorted` takes that of the table, by the rank of each entry in `BySize`.
`Completed` is `add_identifier_states`, which walks the keyword tree by the index of
the character it just added instead of that of the arc, and reaches every keyword
state although nothing in it says so. The run uses the tables of `token.c` themselves.

What the construction needs of its tables is in three named assumptions, which TLC
evaluates on those of `token.c`. `TablesAssumption`: tokens begin with neither a letter
nor a digit, the first character of each is a token too, the full stop is one, keywords
are made of letters, and no text is listed with two types. `CompletionAssumption` is the
luck that completes the keyword states: the arcs to keywords of the initial state have
numbers of characters that no arc is for, and a text branches at most ten times, so
that the arcs met there have the numbers of digits. `LiteralsAssumption`: of the words
passed only `true` is a truth literal.

## Runs

| Run | Bounds | Shows |
|---|---|---|
| `declarations` | 3 names (`print`, `arg` and one more), 7 records, 3 counter cells (two procedures), 2 constants, groups of up to 2 | the invariants below, that outer scopes do not change, and that the symbol table implements nested scopes |
| `headers`, `slots` | the same | findings |
| `dynarray` | 2 values, length up to 8 (capacities 1 to 16) | bounds, and the array implements a sequence |
| `hashtable` | 8 records under 7 ids that collide; tables of 4, 8 and 16 buckets | nothing is lost or doubled by a rehash, and the table implements a map |
| `statements` | 5 statements, 3 pending, 2 functions | code of statements, and liveness |
| `expressions` | 3 operands, 2 marks, one variable per type, the operators whose rows of the tables differ | code and types |
| `expressions_pascal` | the same | finding |
| `text` | 3 functions, 4 constants, 3 statements, lines of 2 characters, both libraries | the order of the text, and that its lines stay apart where `format` eats their ends |
| `lexer` | every file of up to 6 characters | the scanner, the names, and liveness |
| `lexer_comments` | the same | finding |
| `words` | the tables of `token.c`, 26 keywords; every text along their words and up to 3 characters off them | types, longest match, truth literals |

Properties:

* `MemorySafe`, `OpenProceduresDeclared` - what a table reaches is allocated and
  reached once, and the record a procedure was opened with survives its body.
* `FrameSlots`, `ParametersAtTheirSlots`, `LeafFunctionsExact` - frames; the last
  two are exactly as strong as the code: `LeafFunctionsExact` says of functions
  without nested procedures both of what `headers` refutes of the others.
* `ConstantsNumberedOnce`, `FunctionsNumberedInOrder`, `OperandsInitialised`.
* `OuterScopesFrozen` - an action property: only the innermost table changes.
* `ImplementsEnvironment`, `ImplementsList`, `ImplementsMap` - refinements.
* `SpareSlot`, `HalfUsed` - the array writes inside its block and gives memory back.
* `EachKeyOnce`, `RoomForProbing` - leaving a scope frees each record once, and the
  probing for a name that is not there ends.
* `LabelsUnique`, `JumpsResolve`, `FollowsProgram`, `KeepsDeciding`.
* `CodeComputesRightGrouping`. `OnlyNotLeavesTheTypes` - a fragment's type is outside the
  tables exactly when its code is that of a number with NOT and then only signs behind it.
  `OperandsHaveTheirKind` - the code of every fragment leaves a term of the type the
  actions gave it, in which every operator, at any depth, has operands of its kind;
  signs, which the grammar does not check, are the exception the terms make.
* `FunctionsApart` - from a header to its return there are lines of one function only,
  and the headers come in the order of the numbers written in them. `ConstantsInOrder` -
  an assembler that counts the `CONST` lines could exchange two literals of one call's
  arguments, and nothing else (a named constant has the mark of the statement parsed next,
  so the property does not tell it from an argument of that one). `LinesApart` - with a
  C99 library too, which cuts the newlines templates end with, no two lines are joined.
* `LexemeFits`, `NamesNumbered`, `LinesCounted`, `ScanningEnds`;
  `OnlyNontokensSkipped` includes that a bracket is lost nowhere but at the end of the file.
* `TypedByTables`, `LongestMatch` - the automaton against the tables, without an
  automaton in the statement. `NoLiteralIsTrue` - `false` is lexed as a name
  (`main.c:72` passes 26 of the 27 keywords) and the literal `true` has the value 0
  (`lexer.c:224`), so that no program can write 1.

*Why the bounds are enough.* Seven records are the builtin with its parameter and
five more: a procedure with a parameter (three records: list, record, copy) and a
procedure inside it, or a procedure with two parameters; with variables and
constants before, after and inside. Redeclaring, shadowing and
overwriting need two scopes and one name. Three counter cells stand for fifteen so that
the overflow happens; the proofs hold for any number. Two constants are enough
for two records to share a number. An array of eight
elements grows four times and shrinks as often. Five statements nest every
construct in every other with siblings, and two functions separate label spaces.
Three operands are the first at which grouping matters. Six characters hold a
comment with a rejected star, or two adjacent comments, or a comment and tokens at both ends;
they also hold three names, one of which is known and another not, with the block of
names growing. Seven ids that share few starting buckets in tables of 4 and of 8 fill
both, so that a rehash kicks elements out in chains, and one id has two records, so
that a put also replaces. Three characters off a table's word are enough to leave a keyword
for a name, a number for a real and a token for the next, and to stay there. Three
functions nest and follow each other, four constants and three statements give a call
two arguments beside another constant; and three statements in a row cut the last one,
of two characters, until nothing of it is left and the newline before it goes.

*Deadlock.* `Declarations` stutters explicitly when the compiler has stopped and is
checked for deadlock. So are
`HashTable`, to which a record can always be added, and `Tokenizer`, which can always go on. In
the other runs it is not checked, because the modelled thing really ends: an
expression is accepted or rejected, the text is written, a scan reaches the end of
the file, a call returns, and the bound on lengths stops the array.

*Fairness.* Two specifications state any. `StatementsRun` has weak fairness of
`MachineStep` alone: a machine with an instruction to execute executes it. The
parser need not read on. `Lexer` has weak fairness of its next-state relation: the
code is sequential, a call of `yylex` runs to its end, and bison asks for tokens
until it is told of the end or of an invalid one. Neither assumes that a
condition becomes false or a file ends: `MaxLength` is a file that is finite, and a
loop in the program may run for ever provided it evaluates its condition.

## Findings

Runs with expectation *violation*; each is quoted in `PROJECT.json`.

1. `headers` - two lines of the code give a procedure that contains another one a
   wrong header. Its variables are counted by the counter of the last procedure
   started (`wml.c:310`), and its calls, recursive ones too, carry the number of the inner
   one (`wml.c:313`). `SomeOfHeaderRight` says that at least one of the two is right.
2. `slots` - a variable of an outer block used in a procedure is addressed as a slot
   of the procedure's own frame. `tests/test.pa:27` does this.
3. `expressions_pascal` - `a - b - c` is compiled as `a - (b - c)`, and `-a + b` as
   `-(a + b)`.
4. `lexer_comments` - comments that begin with a newline, hold `**` or a star before
   a newline, or directly follow another comment are refused.

Characterised by a property that holds, rather than refuted: NOT of a number is accepted
and its type is outside the tables (`type.c:168`, `OnlyNotLeavesTheTypes`); no literal is
true (`NoLiteralIsTrue`).

Without a run: `README.md:10` asks for a C99 compiler, and `stringbuilder.h:9-10` promises
what sprintf writes, but with a C99 library `format` ends every text it fills one
character early (`stringbuilder.c:12` gives the length of the text for the size of the
block), so that the last `RETURN_ES` at least is not whole, as `Cut` models it
(`LinesApart` says what holds of the text nevertheless); the comment at `darray.h:20` promises 5 where the operations give 6; and
where a `va_list` is passed by reference, as on x86-64 with the System V convention,
the second `vsnprintf` of `format` continues behind the arguments the first one
read, which is undefined.

## Proofs

`tlapm` proves every theorem below for every value of the constants. The only
assumptions are the named ones of the modules (`DeclarationsAssumption`,
`DynArrayAssumption`, `HashTableAssumption`, `StatementsAssumption`,
`ExpressionsAssumption`, `AssemblyAssumption`, `LexerAssumption`, and the four of
`Tokenizer`); TLC evaluates them on the instances.

| Theorem | States |
|---|---|
| *`DeclarationsProofs`* | |
| `TypeSafety`, `TypeCorrect` | `TypeOK` of the compiler's state, in every program over any names |
| `OuterScopes` | `OuterScopesFrozen`: a reduction changes only the innermost table |
| `ConstantNumbers` | `ConstantsNumberedOnce` |
| `FunctionNumbers` | `FunctionsNumberedInOrder` |
| `MemoryIsSafe` | `MemorySafe`: nothing a table reaches is freed, nothing is freed twice |
| `OpenProceduresStay` | `OpenProceduresDeclared`: the record taken from the parser stack after a body is still the procedure's |
| `LeafHeaders` | `LeafFunctionsExact`: size and number of a function without procedures inside |
| `SlotsInFrames` | `FrameSlots`: distinct slots within the frame |
| `ParametersFound` | `ParametersAtTheirSlots`: where the caller pushed them |
| `OperandsNumbered` | `OperandsInitialised`: no operand is what malloc left |
| `NestedScopes` | `ImplementsEnvironment`: the symbol table implements nested scopes |
| *`DynArrayProofs`* | |
| `TypesAlways`, `SpareSlotAlways` | `TypeOK` and `SpareSlot`: no write is outside the block |
| `HalfUsedAlways` | memory is given back |
| `Refinement` | the array implements `List` |
| *`HashTableProofs`* | |
| `NoKeyTwice` | `EachKeyOnce`: a scope frees each of its records once |
| `TypesRight` | `TypeOK`: a cell for every bucket of both tables |
| `ProbingEnds` | `RoomForProbing`: probing for an absent name ends |
| `TableIsMap` | `ImplementsMap`: the table implements a map, through every rehash |
| *`StatementsProofs`* | |
| `StatementsTyped` | `TypeOK`: only instructions and numbers the generator gave out |
| `LabelsDefinedOnce` | `LabelsUnique`: no label is defined twice in a program |
| `JumpsFindLabels` | `JumpsResolve`: every jump finds its label, in its own direction |
| `FunctionsFollow` | `FollowsProgram`: the machine does what the statement says |
| *`ExpressionsProofs`* | |
| `TypesOfFragments` | `TypeOK` |
| `OperatorsFindTheirKind` | `OperandsHaveTheirKind`: a fragment's code has the type of the fragment, every operator operands of its kind |
| `NotAlone` | `OnlyNotLeavesTheTypes`: exactly NOT of a number, with nothing but signs behind it, leaves the types |
| `CodeIsRight` | `CodeComputesRightGrouping`: the code computes the right grouping |
| *`AssemblyProofs`* | |
| `TextsKeepForm` | `TypeOK`: texts and blocks keep their form |
| `ConstantsKeepOrder` | `ConstantsInOrder`: a constant is declared where its number says, up to the arguments of one call |
| `FunctionsStandApart` | `FunctionsApart`: each function in one piece, headers in the order of the numbers in them |
| `LinesStayApart` | `LinesApart`: no two lines are joined, with either library and lines of any length |
| *`LexerProofs`* | |
| `PositionsInFile` | `TypeOK`: every position the scanner seeks to is in the file |
| `LexemeInBuffer` | `LexemeFits`: the lexeme buffer has room for the next character |
| `NamesKnown` | `NamesNumbered`: a name is written within its block, each spelling once, and the parser gets its number |
| `LinesRight` | `LinesCounted`: the line counted is that of the position |
| `SkippedRight` | `OnlyNontokensSkipped`: only white space and whole comments |
| *`TokenizerProofs`* | |
| `StatesMeanTexts` | the state of the automaton says what the text read is |
| `TokensAreLongest` | `LongestMatch`: a character is taken exactly when the text goes on to some token with it |
| `TokensAreTyped` | `TypedByTables`: every text has the type of its entry, of names or of numbers, or none |
| `TrueIsNought` | `NoLiteralIsTrue`: the only truth literal has the value 0 |

*Declarations.* `TypeOK` is not inductive: the end of a procedure takes the length of
the parameter list of the record its block was opened with, and a call that of the
record it found. `TypeInv` adds `Shape` (while parsing there is a table and a
block, and they are as many) and `ProceduresHaveLists` (a record with the
species PROCEDURE, and the record of an open block, has a list). Init establishes
it and each reduction, one lemma per action, preserves it; `MallocLemma` and
`HeapGrows` say once that allocation moves no record.

*Numbering.* The three theorems use `TypeInv` and sort the reductions by what they
do to one part of the state: to the tables (four shapes), to the heap and the
constants (three), to the functions (one lets them be, two append). `OuterScopesFrozen` needs
`Started` (no table before the first reduction). `ConstantsNumberedOnce` is inductive
because it bounds the numbers by the counter. `FunctionsNumberedInOrder` is not: that
the header's number is the length so far, and that only the program's header has
no procedure, is `FunctionsSoFar`, which counts the functions while the parser runs and
says that every block but the outermost belongs to a procedure.

*Scopes.* Every reduction either keeps an entry of a table (`Kept`) or fills it with
records it has just allocated; the lemmas under *The tables after each reduction* say so of each. From it:
`MemorySafe` is inductive over `TypeInv`, because what an entry owns (its record, and a
procedure's list and parameters) is either what it owned or new, and closing a
scope frees what its own entries own and no other entry shares. That an open
procedure stays declared (`AllDeclared`, of all open blocks and not only of the
innermost) needs `MemorySafe`: its record is an entry of an enclosing table, which is
frozen. `LeafFunctionsExact` is about headers already written; what they are written
from is `Framed`: while a block has opened no procedure, the counter the pointer is
at is the size of its frame and its calls carry the number of the next function, and
all blocks around have opened one. `AllSlots` and `ParametersAtTheirSlots` then say of
every open block what `FrameSlots` says of the variables a use can find, and
`EntriesNumbered` that the builtin's record is the only entry without a number.
For `NestedScopes` the mapping takes a table to the kinds of its entries. `MemorySafe`
makes *dangling* impossible, `OuterScopesFrozen` leaves one table to compare, and each
reduction is the step of `Environment` of its name: `Bound` says what the new names of a
reduction make of the innermost scope, and a search that goes outwards through
tables is the search of `Environment` through scopes because it reads the same kinds.

*DynArray.* `Inv` is the three invariants together: the write of a push needs
`SpareSlot`, that the check restores `SpareSlot` needs `HalfUsed` (when the
length falls below half, the halved block still has room), and the refinement
needs both. `CapacityBounds` states the arithmetic of `darray_memcheck` once.

*HashTable.* That an id is in one bucket is not inductive: a put must find the bucket
its id is in, and a rehash must not leave an element behind. `Inv` adds that the
elements of the old and the new table and the one in hand have different ids, that
`j` has passed every bucket it emptied, and that every element has a `Chain`: the
probing for its id comes to it over full buckets only. A kick and a put end a chain
where probing ends (`ReachedChain`), filling a bucket breaks none (`ChainGrows`), and
an element with a chain is found (`ChainFound`). That probing reaches every bucket is
not needed for this, but for the other theorems. The step grows by one at each
turn, so that two turns t < u meet in the same bucket only when the size divides
(u - t)(t + u + 1) / 2; of the two factors one is odd, and an odd number has no
factor in common with a power of two (`Coprime`, by doubling). The first n turns are
then n different buckets, that is, all of them. `Whole` adds the counters: `size`
counts the elements not moved, those moved and the one in hand, and stays below the
bound of the table being built, so that one of its buckets is empty and a kick finds it.
In the refinement every turn of a rehash leaves unchanged what the table holds (`SameHolds`),
and a put changes it at one id.

*Statements.* That labels are unique and jumps resolve in the finished text is not
inductive: a fragment with a jump out of it, or two fragments with a label in
common, go wrong only at a later reduction. `StInv` says that each fragment is
`WellFormed` in itself (its numbers are below the counters, its labels differ, its
jumps find theirs) and that no two fragments, on the stack or finished, share a
label. `Join` is the lemma everything rests on: two codes of which one may jump forwards
into the other, or the other backwards into it, are well formed together. `IfCode`,
`IfElseCode` and `WhileCode` put the templates together from it, `ReduceGood` says
that replacing the last fragments by one with their labels and new ones keeps the
lists apart, and each reduction is then one lemma. The machine's steps leave the
fragments alone.

*Statements, executed.* `FollowsProgram` speaks of one state of the machine; the reason it
holds is in the code in front of it. `Implements(c, t)` says what a code c owes a
statement t, wherever c stands in a longer code whose labels are unique, and whatever
remains to be executed behind t: there is a set of pairs of an instruction and a rest of
statements, with the beginning of c and t in it, that the machine does not leave
except to the end of c with t done, and from no member of which it deviates
(`Within`, `Reaches`). Loops need no induction: the set holds the pairs of all
turns. The six templates have it if their parts have (`IfImplements`, ...,
`CompoundImplements`), where the place a part ends, or the jump there, is
where the next set begins; that a jump goes there, to the label of its number
and no other, is `OneLabel`, from the uniqueness proved before. `Built` says that each
fragment on the parser stack implements its tree, and `OnCourse` that a function
that runs is in such a set; the machine's actions, one by one, stay in it.

*Expressions.* Whether the code of a fragment is right cannot be told from the code
that a later reduction makes of it. `Inv` says of each value on the parser stack that
its code `Pushes` the term of its right grouping, on any stack of the machine and not only
on the empty one the property starts from, so that codes can be put one behind the
other (`RunsCompose`); and of each right-recursive list, that its code computes the
term its chain of operands and operators groups to, which extends by one
operand at the front. `Compiles(type, code, t)` adds what relates the fragment's type to its
term: the kind of t is the type and not `Misused`, and the type is outside the tables
exactly when the code `NegatesNumber`. That the tables give each operator's result the kind
that the terms give it is a lemma, proved row by row, and not their definition: the terms
are defined without `EXPR_RETURN`.

*Assembly.* `ConstantsInOrder` and `FunctionsApart` speak of the finished text; `Inv` says
what each text on the way to it is. With a library that fills the block, every text of every open block is
`Fine`: its constants are in order (`Sorted`), its headers rise (`Rising`), a function
runs from its header to its return without a line of another (`Apart`), and no `%s` is
left (`Clean`). `Stack` adds what makes their concatenation `Fine`: the numbers in the
texts of an outer block are below those of an inner one, the constants of a block below
those of its procedures and these below its statements; and that a block with an inner
one open has no statements yet, which is why the constants of a procedure come
before those of the statements around it. `Numbered` and `OutputFine` say that every
number given out is on one header. The arguments of a call are
where order is lost (`ParametersText`): they are concatenated from right to left, all
for the same statement. `LinesApart` holds with either library. `Strips` are the texts whose
lines are apart; one that ends in a newline is `Closed`, and anything may follow it
(`StripJoined`). What a cut leaves is a strip, though not a closed one
(`StripFormat`), so every template has to put a newline of its own behind each part
(`StripPairs`, `StripTemplates`), and what is set in place of a `%s` has one on either side
(`StripFilled`).

*Tokenizer.* `Means` says of each kind of state what the text read is: the beginning of a
token, of a keyword, an integer, a real, or a name that begins no keyword. A state
`Follows` a text when it has an arc for exactly the characters the text goes on to some
token with, and the first such arc, which is the one `execute_transition` takes, leads to
a state that means the longer text. One lemma per kind shows it, from what the
construction gives the kind: `BranchesAre` (the children of a text in a sorted table are
the texts one longer that entries begin with), `FirstArcsAre` (the arcs of the initial
state, of which those of tokens come first and hide the arc to reals) and
`AllCompleted`, the luck: each keyword state is visited, because its arc's number
is one of a character its parent has no arc for. `TypeOfIs` is the reason for
sorting: the first entry a text begins is the text itself, if it is one. `OrderedIs`
and `Least` give ranks and least elements their meaning.

*Lexer.* `Inv` is `TypeOK` and `LexemeFits` with `InHand`: in a token the lexeme is not
longer than the file up to its last character, the character in hand is the one
before the file position, and the state of the automaton is the class of the last
character taken. `FgetcLemma` says once what reading does (what was read only
grows, and a character stands at the position), `TypesOfStep` that a step whose
positions are the old ones or one past the character read keeps them in the file,
and `AllocatedLemma` that the buffer is doubled in time. `NamesNumbered` needs
`InHand`, to know that what is interned is the text before the position, and that
the block of names is never empty, so that doubling it makes room. `Placed` is
the invariant of the two others: it ties the automaton to the position. While text is
skipped, its state means what the reading of comments (`Scanned`) makes of the text so far
(`Meaning`), a bracket that may be given back is the character before the position, and
the lines counted are the newlines up to the position, or in a token up to the last
character taken. `ReadingGrows` is what one more character does to that reading.

Five functions are recursive in the length of their argument (`Run`, `RightTerm`,
`Scanned`, `Filled`, `Concatenated`). The induction theorems of the library take an operator as a parameter and
cannot be used; what is needed of these functions is that one function satisfies
their equation and no other does. The first is shown by giving the function,
from those for shorter arguments; the second from a least index at which two would
differ (`Least`, from the well-foundedness of the naturals). `Inv` of `Expressions` and
`Implements` quantify over all stacks and all codes: TLC cannot evaluate these
strengthenings, only their consequences, which are what the runs check.

## Only model-checked, and not modelled

Model-checked only: liveness (`KeepsDeciding`, `ScanningEnds`), which rests on fairness
and so on ENABLED, which the prover does not have. Every invariant and every action
property of the passing runs is also a theorem. Proved of any tables and
not of one pair are the theorems of `Tokenizer`; that the tables of `token.c` are such
tables is what TLC evaluates. No module uses RECURSIVE.

Not modelled: the driver and the build files (sequential I/O and configuration; the
names and the number of keywords `main.c` passes are in the Init of `Lexer` and in
`Tokenizer`), `generator.c` (a table of function pointers filled once), `x86.c`
(nothing calls it), the operations of `khash.h` nobody calls (`kh_del`, `kh_clear`,
`kh_destroy`), `append`, `darray_free` (its macro does not expand to C), `print_table` and the other
printing functions, the values of numbers (`atoi`, `atof`), columns (counted and
never read), the doubling of a state's array in `add_transition` (the same as that of
`secondary_tokens`, which is modelled), bison's tables (taken to accept the grammar
they are generated from), running out of memory.

## Plan

Done: `Declarations`/`Environment`, `DynArray`/`List`, `Statements`/`StatementsRun`,
`Expressions`, `Lexer`, in that order: the symbol table and the numbering first,
because there the meaning of a step depends on the longest past. Then
`HashTable`/`Map` under the symbol table, `Tokenizer` beside the scanner, the names
in `Lexer`, and `Assembly`, which composes the numbering with the order of the text.
Proved: the safety properties and the refinements of all of these.

Left: `Compile`, scanner, parser outcomes and exit status together, if it shows
something the parts do not.
