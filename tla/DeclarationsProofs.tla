------------------------ MODULE DeclarationsProofs ------------------------
(***************************************************************************)
(* Proofs about Declarations, for every set of names and every bound: its  *)
(* types, the numbers it gives, and what the symbol table does with        *)
(* memory, slots and names for every program over any names: nothing that  *)
(* a table reaches is freed, slots are within their frames, and the tables *)
(* implement nested scopes.                                                *)
(***************************************************************************)
EXTENDS Declarations, SequenceTheorems, TLAPS

-----------------------------------------------------------------------------
(* What the helpers return                                                 *)

LEMMA NewSymrecType ==
  ASSUME NEW spec \in Species, NEW id \in Id,
         NEW params \in Seq(Nat) \cup {NULL}, NEW off \in Int
  PROVE  NewSymrec(spec, id, params, off) \in Symrec
BY DEF NewSymrec, Symrec

LEMMA IdListsAreSeqs == IdLists \subseteq Seq(Id)
<1> SUFFICES ASSUME NEW n \in 0 .. MaxGroup, NEW f \in [1 .. n -> Id]
             PROVE  f \in Seq(Id)
  BY DEF IdLists
<1>1. n \in Nat
  BY DeclarationsAssumption DEF DeclarationsAssumption
<1> QED
  BY <1>1

LEMMA NewGroupType ==
  ASSUME NEW spec \in Species, NEW ids \in Seq(Id), NEW off \in Int
  PROVE  /\ NewGroup(spec, ids, off) \in Seq(Symrec)
         /\ Len(NewGroup(spec, ids, off)) = Len(ids)
         /\ \A i \in 1 .. Len(ids) :
              NewGroup(spec, ids, off)[i] = NewSymrec(spec, ids[i], NULL, off + i - 1)
<1>1. Len(ids) \in Nat /\ \A i \in 1 .. Len(ids) : ids[i] \in Id
  BY LenProperties
<1>2. \A i \in 1 .. Len(ids) : NewSymrec(spec, ids[i], NULL, off + i - 1) \in Symrec
  <2> SUFFICES ASSUME NEW i \in 1 .. Len(ids)
               PROVE  NewSymrec(spec, ids[i], NULL, off + i - 1) \in Symrec
    OBVIOUS
  <2>1. ids[i] \in Id /\ off + i - 1 \in Int /\ NULL \in Seq(Nat) \cup {NULL}
    BY <1>1
  <2> QED
    BY <2>1, NewSymrecType
<1> QED
  BY <1>1, <1>2 DEF NewGroup

(* Allocation keeps every old record at its address and appends the new.   *)
LEMMA MallocLemma ==
  ASSUME TypeOK, NEW records \in Seq(Symrec), Malloc(records)
  PROVE  /\ heap' \in Seq(Symrec)
         /\ Len(heap') = Len(heap) + Len(records)
         /\ Len(heap) \in Nat /\ Len(records) \in Nat
         /\ \A a \in Address : heap'[a] = heap[a]
         /\ \A k \in 1 .. Len(records) : heap'[Len(heap) + k] = records[k]
         /\ Address \subseteq Address'
         /\ live' = live \cup (Len(heap) + 1 .. Len(heap'))
         /\ live' \subseteq Address'
         /\ \A a \in Address' : \/ a \in Address
                                \/ \E k \in 1 .. Len(records) : a = Len(heap) + k
<1>1. heap \in Seq(Symrec) /\ heap' = heap \o records /\ live \subseteq 1 .. Len(heap)
  BY DEF TypeOK, Malloc, Address
<1>2. /\ heap' \in Seq(Symrec)
      /\ Len(heap') = Len(heap) + Len(records)
      /\ \A i \in 1 .. Len(heap) + Len(records) :
           heap'[i] = IF i <= Len(heap) THEN heap[i] ELSE records[i - Len(heap)]
  BY <1>1, ConcatProperties
<1>3. Len(heap) \in Nat /\ Len(records) \in Nat
  BY <1>1, LenProperties
<1>4. \A a \in 1 .. Len(heap') : a \in 1 .. Len(heap)
                               \/ (a - Len(heap) \in 1 .. Len(records) /\ a = Len(heap) + (a - Len(heap)))
  BY <1>2, <1>3
<1>5. live' = live \cup (Len(heap) + 1 .. Len(heap'))
  BY <1>2 DEF Malloc
<1>6. \A k \in 1 .. Len(records) :
        Len(heap) + k \in 1 .. Len(heap) + Len(records)
          /\ ~ (Len(heap) + k <= Len(heap)) /\ Len(heap) + k - Len(heap) = k
  BY <1>3
<1>7. \A k \in 1 .. Len(records) : heap'[Len(heap) + k] = records[k]
  BY <1>2, <1>6
<1>8. \A a \in Address : heap'[a] = heap[a]
  BY <1>2, <1>3 DEF Address
<1>9. Address \subseteq Address' /\ live' \subseteq Address'
  <2>1. 1 .. Len(heap) \subseteq 1 .. Len(heap')
    BY <1>2, <1>3
  <2>2. Len(heap) + 1 .. Len(heap') \subseteq 1 .. Len(heap')
    BY <1>3
  <2> QED
    BY <1>1, <1>5, <2>1, <2>2 DEF Address
<1>10. \A a \in Address' : \/ a \in Address
                            \/ \E k \in 1 .. Len(records) : a = Len(heap) + k
  BY <1>4 DEF Address
<1> QED
  BY <1>2, <1>3, <1>5, <1>7, <1>8, <1>9, <1>10

LEMMA PutAllType ==
  ASSUME NEW n \in Nat, NEW table \in [Id -> 1 .. n \cup {NULL}],
         NEW ids \in Seq(Id), NEW base \in Nat, base + Len(ids) <= n
  PROVE  PutAll(table, ids, base) \in [Id -> 1 .. n \cup {NULL}]
<1>1. Len(ids) \in Nat /\ DOMAIN ids = 1 .. Len(ids)
  BY LenProperties
<1> SUFFICES ASSUME NEW x \in Id, x \in Range(ids)
             PROVE  base + (CHOOSE i \in DOMAIN ids : ids[i] = x) \in 1 .. n
  BY DEF PutAll
<1>2. \E i \in DOMAIN ids : ids[i] = x
  BY DEF Range
<1>3. (CHOOSE i \in DOMAIN ids : ids[i] = x) \in 1 .. Len(ids)
  BY <1>1, <1>2
<1> QED
  BY <1>1, <1>3

LEMMA SearchType ==
  ASSUME TypeOK, NEW id \in Id
  PROVE  search_in_any_scope(id) \in Pointer
<1> DEFINE found(i) == /\ scope_stack[i][id] # NULL
                       /\ \A j \in i + 1 .. Depth : scope_stack[j][id] = NULL
<1>1. \A i \in 1 .. Depth : scope_stack[i][id] \in Pointer
  BY LenProperties DEF TypeOK, Depth, Pointer
<1>2. CASE \E i \in 1 .. Depth : found(i)
  <2> DEFINE k == CHOOSE i \in 1 .. Depth : found(i)
  <2>1. k \in 1 .. Depth
    BY <1>2
  <2> QED
    BY <1>1, <1>2, <2>1 DEF search_in_any_scope
<1>3. CASE ~ \E i \in 1 .. Depth : found(i)
  BY <1>3 DEF search_in_any_scope, Pointer
<1> QED
  BY <1>2, <1>3

-----------------------------------------------------------------------------
(* Type correctness                                                        *)

(* A record has a parameter list exactly if it is a procedure's: what      *)
(* delete_scope tests on the records of a table.                           *)
ProceduresHaveLists ==
  \A a \in Address : heap[a].spec = "PROCEDURE" <=> heap[a].parameter_list # NULL

(* While the parser runs there is one table for each open block_body.      *)
Shape ==
  /\ status = "parsing" => Len(blocks) = Depth /\ Depth > 0
  /\ \A i \in 1 .. Len(blocks) :
       blocks[i].proc # NULL => HasSpec(blocks[i].proc, {"PROCEDURE"})

TypeInv == TypeOK /\ Shape /\ ProceduresHaveLists

LEMMA ParsingTypes ==
  ASSUME TypeInv, status = "parsing"
  PROVE  /\ Len(blocks) \in Nat /\ Depth \in Nat /\ Len(blocks) = Depth
         /\ Depth \in 1 .. Len(scope_stack) /\ Len(blocks) \in 1 .. Len(blocks)
         /\ TopScope \in [Id -> Pointer]
         /\ Block \in BlockRecord
         /\ Block.proc # NULL => HasSpec(Block.proc, {"PROCEDURE"})
         /\ NumParams(Block) \in Nat
<1>1. /\ Len(blocks) = Depth /\ Depth > 0
      /\ Len(blocks) \in Nat /\ Depth \in Nat
  BY LenProperties DEF TypeInv, TypeOK, Shape, Depth
<1>2. TopScope \in [Id -> Pointer]
  BY <1>1, ElementOfSeq DEF TypeInv, TypeOK, TopScope, Depth
<1>3. Block \in BlockRecord
  BY <1>1, ElementOfSeq DEF TypeInv, TypeOK, Block
<1>4. Block.proc # NULL => HasSpec(Block.proc, {"PROCEDURE"})
  BY <1>1 DEF TypeInv, Shape, Block
<1>5. NumParams(Block) \in Nat
  <2>1. CASE Block.proc = NULL
    BY <2>1 DEF NumParams
  <2>2. CASE Block.proc # NULL
    <3>1. Block.proc \in Address /\ heap[Block.proc] \in Symrec
      BY <1>3, <2>2, ElementOfSeq DEF BlockRecord, Pointer, Address, TypeInv, TypeOK
    <3>2. heap[Block.proc].parameter_list \in Seq(Nat)
      BY <1>4, <2>2, <3>1 DEF HasSpec, TypeInv, ProceduresHaveLists, Symrec
    <3> QED
      BY <2>2, <3>2, LenProperties DEF NumParams
  <2> QED
    BY <2>1, <2>2
<1> QED
  BY <1>1, <1>2, <1>3, <1>4, <1>5 DEF Depth

LEMMA CounterType ==
  ASSUME TypeOK
  PROVE  Counter \in Nat /\ Len(variable_stack) \in Nat
         /\ Len(variable_stack) \in 1 .. Len(variable_stack)
BY EmptySeq, ElementOfSeq DEF TypeOK, Counter

(* What stays true of everything that points into the heap when it grows.  *)
LEMMA HeapGrows ==
  ASSUME TypeInv, NEW records \in Seq(Symrec), Malloc(records),
         \A k \in 1 .. Len(records) :
           records[k].spec = "PROCEDURE" <=> records[k].parameter_list # NULL
  PROVE  /\ ProceduresHaveLists'
         /\ Pointer \subseteq Pointer'
         /\ scope_stack \in Seq([Id -> Pointer'])
         /\ blocks \in Seq(BlockRecord')
         /\ functions \in Seq(FunctionRecord')
         /\ \A i \in 1 .. Len(blocks) :
              blocks[i].proc # NULL =>
                blocks[i].proc \in Address' /\ heap'[blocks[i].proc].spec = "PROCEDURE"
<1>1. TypeOK
  BY DEF TypeInv
<1>2. ProceduresHaveLists'
  <2> SUFFICES ASSUME NEW a \in Address'
               PROVE  heap'[a].spec = "PROCEDURE" <=> heap'[a].parameter_list # NULL
    BY DEF ProceduresHaveLists
  <2>1. CASE a \in Address
    BY <1>1, <2>1, MallocLemma DEF TypeInv, ProceduresHaveLists
  <2>2. ASSUME NEW k \in 1 .. Len(records), a = Len(heap) + k
        PROVE  heap'[a] = records[k]
    BY <1>1, <2>2, MallocLemma
  <2> QED
    BY <1>1, <2>1, <2>2, MallocLemma
<1>3. Pointer \subseteq Pointer'
  BY <1>1, MallocLemma DEF Pointer
<1>4. /\ [Id -> Pointer] \subseteq [Id -> Pointer']
      /\ BlockRecord \subseteq BlockRecord'
      /\ FunctionRecord \subseteq FunctionRecord'
  BY <1>3 DEF BlockRecord, FunctionRecord
<1>5. /\ scope_stack \in Seq([Id -> Pointer'])
      /\ blocks \in Seq(BlockRecord')
      /\ functions \in Seq(FunctionRecord')
  BY <1>4, SeqMonotonic DEF TypeInv, TypeOK
<1>6. ASSUME NEW i \in 1 .. Len(blocks), blocks[i].proc # NULL
      PROVE  blocks[i].proc \in Address' /\ heap'[blocks[i].proc].spec = "PROCEDURE"
  <2>1. heap[blocks[i].proc].spec = "PROCEDURE"
    BY <1>6 DEF TypeInv, Shape, HasSpec
  <2>2. blocks[i] \in BlockRecord
    BY <1>1, ElementOfSeq DEF TypeOK
  <2>3. \A a \in Address : heap'[a] = heap[a] /\ a \in Address'
    BY <1>1, MallocLemma
  <2> QED
    BY <1>6, <2>1, <2>2, <2>3 DEF BlockRecord, Pointer
<1> QED
  BY <1>2, <1>3, <1>5, <1>6

LEMMA NoCodeType ==
  ASSUME NEW P, NULL \in P
  PROVE  NoCode \in [op : Operations, arg : Int, sym : P]
BY DEF NoCode, Instruction, Operations

LEMMA InstructionType ==
  ASSUME NEW P, NEW op \in Operations, NEW arg \in Int, NEW sym \in P
  PROVE  Instruction(op, arg, sym) \in [op : Operations, arg : Int, sym : P]
BY DEF Instruction

LEMMA NewBlockType ==
  ASSUME NEW P, NEW p \in P
  PROVE  /\ NewBlock(p) \in [proc : P, phase : Phases, vars : Nat, nested : Nat]
         /\ NewBlock(p).proc = p
BY DEF NewBlock, Phases

LEMMA StopStep ==
  ASSUME TypeInv, NEW how \in Statuses \ {"parsing"}, Stop(how)
  PROVE  TypeInv'
<1>1. NoCode \in InstructionRecord
  BY NoCodeType DEF InstructionRecord, Pointer
<1> QED
  BY <1>1 DEF TypeInv, TypeOK, Shape, ProceduresHaveLists, Stop, Address, Pointer,
     Depth, HasSpec, BlockRecord, FunctionRecord, InstructionRecord

LEMMA SetBlockType ==
  ASSUME TypeInv, status = "parsing", NEW b \in BlockRecord, b.proc = Block.proc
  PROVE  LET bs == [blocks EXCEPT ![Len(blocks)] = b]
         IN  /\ bs \in Seq(BlockRecord) /\ Len(bs) = Len(blocks)
             /\ \A i \in 1 .. Len(bs) : bs[i].proc = blocks[i].proc
BY ParsingTypes, ExceptSeq DEF TypeInv, TypeOK, Block

LEMMA AdvanceType ==
  ASSUME NEW P, NEW b \in [proc : P, phase : Phases, vars : Nat, nested : Nat],
         NEW phase \in Phases, NEW n \in Nat, NEW m \in Nat
  PROVE  /\ Advance(b, phase, n, m)
              \in [proc : P, phase : Phases, vars : Nat, nested : Nat]
         /\ Advance(b, phase, n, m).proc = b.proc
<1>1. b.proc \in P /\ b.vars + n \in Nat /\ b.nested + m \in Nat
  OBVIOUS
<1> QED
  BY <1>1 DEF Advance

LEMMA EmitStep ==
  ASSUME TypeInv, status = "parsing", NEW op \in Operations, NEW arg \in Int,
         NEW sym \in Pointer, Emit(op, arg, sym), constant_counter' \in Nat
  PROVE  TypeInv'
<1> DEFINE b == Advance(Block, "body", 0, 0)
<1>1. b \in BlockRecord /\ b.proc = Block.proc
  <2>1. Block \in BlockRecord /\ "body" \in Phases
    BY ParsingTypes DEF BlockRecord, Phases
  <2> QED
    BY <2>1, AdvanceType DEF BlockRecord
<1>2. /\ blocks' \in Seq(BlockRecord) /\ Len(blocks') = Len(blocks)
      /\ \A i \in 1 .. Len(blocks') : blocks'[i].proc = blocks[i].proc
  BY <1>1, SetBlockType DEF Emit, SetBlock
<1>3. code' \in InstructionRecord
  BY DEF Emit, Instruction, InstructionRecord
<1>4. UNCHANGED <<heap, live, scope_stack, variable_stack, procedure_counter,
                  functions, status>>
  BY DEF Emit
<1>5. TypeOK'
  BY <1>2, <1>3, <1>4 DEF TypeInv, TypeOK, Address, Pointer, BlockRecord,
     FunctionRecord, InstructionRecord
<1>6. Shape'
  BY <1>2, <1>4 DEF TypeInv, Shape, Depth, HasSpec
<1> QED
  BY <1>4, <1>5, <1>6 DEF TypeInv, ProceduresHaveLists, Address

LEMMA ForceInitializationStep ==
  ASSUME TypeInv, ForceInitialization
  PROVE  TypeInv'
<1> DEFINE rs == <<NewSymrec("PROCEDURE", PrintId, <<2>>, Uninitialised),
                   NewSymrec("PARAM", Arg, NULL, Uninitialised)>>
<1>1. /\ rs[1] \in Symrec /\ rs[2] \in Symrec
      /\ rs[1].spec = "PROCEDURE" /\ rs[2].spec = "PARAM"
      /\ rs[1].parameter_list # NULL /\ rs[2].parameter_list = NULL
  <2>1. <<2>> \in Seq(Nat)
    OBVIOUS
  <2>2. <<2>> # NULL
    BY <2>1, DeclarationsAssumption, Zenon DEF DeclarationsAssumption
  <2>3. PrintId \in Id /\ Arg \in Id
    BY DeclarationsAssumption DEF DeclarationsAssumption
  <2>4. Uninitialised \in Int
    BY DEF Uninitialised
  <2> QED
    BY <2>1, <2>2, <2>3, <2>4 DEF NewSymrec, Symrec, Species
<1>2. rs \in Seq(Symrec) /\ Len(rs) = 2 /\ Malloc(rs)
  BY <1>1 DEF ForceInitialization
<1>3. \A k \in 1 .. Len(rs) : rs[k].spec = "PROCEDURE" <=> rs[k].parameter_list # NULL
  BY <1>1, <1>2
<1> HIDE DEF rs
<1>4. /\ heap' \in Seq(Symrec) /\ live' \subseteq Address'
      /\ Len(heap) \in Nat /\ Len(heap') = Len(heap) + 2
  BY <1>2, MallocLemma DEF TypeInv
<1>5. scope_stack' = <<[EmptyTable EXCEPT ![PrintId] = 1]>> /\ blocks' = <<NewBlock(NULL)>>
      /\ code' = NoCode /\ status' = "parsing"
      /\ UNCHANGED <<variable_stack, procedure_counter, constant_counter, functions>>
  BY DEF ForceInitialization
<1>6. 1 \in Address' /\ NULL \in Pointer'
  BY <1>4 DEF Address, Pointer
<1>7. [EmptyTable EXCEPT ![PrintId] = 1] \in [Id -> Pointer']
  BY <1>6 DEF EmptyTable, Pointer
<1>8. scope_stack' \in Seq([Id -> Pointer']) /\ Len(scope_stack') = 1
  BY <1>5, <1>7
<1>9. NewBlock(NULL) \in BlockRecord' /\ NewBlock(NULL).proc = NULL
  BY <1>6 DEF NewBlock, BlockRecord, Phases
<1>10. /\ blocks' \in Seq(BlockRecord') /\ Len(blocks') = 1
       /\ \A i \in 1 .. Len(blocks') : blocks'[i].proc = NULL
  BY <1>5, <1>9
<1>11. code' \in InstructionRecord'
  <2>1. InstructionRecord' = [op : Operations, arg : Int, sym : Pointer']
    BY DEF InstructionRecord, Operations
  <2> QED
    BY <1>5, <1>6, <2>1, NoCodeType
<1>12. functions' \in Seq(FunctionRecord') /\ ProceduresHaveLists'
  BY <1>2, <1>3, <1>5, HeapGrows
<1>13. TypeOK'
  BY <1>4, <1>5, <1>8, <1>10, <1>11, <1>12 DEF TypeInv, TypeOK, Statuses
<1> QED
  BY <1>8, <1>10, <1>12, <1>13 DEF TypeInv, Shape, Depth

LEMMA ConstantDefinitionStep ==
  ASSUME TypeInv, NEW id \in Id, ConstantDefinition(id)
  PROVE  TypeInv'
<1> DEFINE r  == NewSymrec("CONST", id, NULL, constant_counter)
           rs == <<r>>
           t  == [TopScope EXCEPT ![id] = Len(heap) + 1]
<1>1. status = "parsing" /\ constant_counter \in Nat
  BY DEF ConstantDefinition, InPhase, TypeInv, TypeOK
<1>2. r \in Symrec /\ r.spec = "CONST" /\ r.parameter_list = NULL
  BY <1>1 DEF NewSymrec, Symrec, Species
<1>3. rs \in Seq(Symrec) /\ Len(rs) = 1 /\ rs[1] = r /\ Malloc(rs)
  BY <1>2 DEF ConstantDefinition
<1>4. \A k \in 1 .. Len(rs) : rs[k].spec = "PROCEDURE" <=> rs[k].parameter_list # NULL
  BY <1>2, <1>3
<1>5. /\ scope_stack' = [scope_stack EXCEPT ![Depth] = t]
      /\ constant_counter' = constant_counter + 1
      /\ code' = Instruction("CONST", constant_counter, Len(heap) + 1)
      /\ UNCHANGED <<variable_stack, procedure_counter, blocks, functions, status>>
  BY DEF ConstantDefinition, SetTopScope
<1> HIDE DEF r, rs
<1>6. /\ heap' \in Seq(Symrec) /\ live' \subseteq Address'
      /\ Len(heap) \in Nat /\ Len(heap') = Len(heap) + 1
  BY <1>3, MallocLemma DEF TypeInv
<1>7. /\ ProceduresHaveLists' /\ Pointer \subseteq Pointer'
      /\ scope_stack \in Seq([Id -> Pointer'])
      /\ blocks \in Seq(BlockRecord') /\ functions \in Seq(FunctionRecord')
      /\ \A i \in 1 .. Len(blocks) :
           blocks[i].proc # NULL =>
             blocks[i].proc \in Address' /\ heap'[blocks[i].proc].spec = "PROCEDURE"
  BY <1>3, <1>4, HeapGrows
<1>8. Len(heap) + 1 \in Pointer'
  BY <1>6 DEF Address, Pointer
<1>9. t \in [Id -> Pointer']
  BY <1>1, <1>7, <1>8, ParsingTypes
<1> HIDE DEF t
<1>10. scope_stack' \in Seq([Id -> Pointer']) /\ Len(scope_stack') = Len(scope_stack)
  BY <1>1, <1>5, <1>7, <1>9, ParsingTypes, ExceptSeq
<1>11. code' \in InstructionRecord'
  BY <1>1, <1>5, <1>8 DEF Instruction, InstructionRecord, Operations
<1>12. TypeOK'
  BY <1>1, <1>5, <1>6, <1>7, <1>10, <1>11 DEF TypeInv, TypeOK
<1>13. Shape'
  BY <1>5, <1>7, <1>10 DEF TypeInv, Shape, Depth, HasSpec
<1> QED
  BY <1>7, <1>12, <1>13 DEF TypeInv

LEMMA VariableDefinitionStep ==
  ASSUME TypeInv, NEW ids \in IdLists, VariableDefinition(ids)
  PROVE  TypeInv'
<1> DEFINE rs == NewGroup("VAR", ids, Counter)
           t  == PutAll(TopScope, ids, Len(heap))
           b  == Advance(Block, "var", Len(ids), 0)
<1>1. status = "parsing" /\ ids \in Seq(Id) /\ Len(ids) \in Nat
  BY IdListsAreSeqs, LenProperties DEF VariableDefinition, InPhase
<1>2. /\ rs \in Seq(Symrec) /\ Len(rs) = Len(ids)
      /\ \A k \in 1 .. Len(ids) : rs[k] = NewSymrec("VAR", ids[k], NULL, Counter + k - 1)
  BY <1>1, CounterType, NewGroupType DEF TypeInv, Species
<1>3. \A k \in 1 .. Len(rs) : rs[k].spec = "PROCEDURE" <=> rs[k].parameter_list # NULL
  <2> SUFFICES ASSUME NEW k \in 1 .. Len(ids)
               PROVE  rs[k].spec = "VAR" /\ rs[k].parameter_list = NULL
    BY <1>2
  <2>1. rs[k] = NewSymrec("VAR", ids[k], NULL, Counter + k - 1)
    BY <1>2
  <2> QED
    BY <2>1 DEF NewSymrec
<1>4. /\ Malloc(rs)
      /\ scope_stack' = [scope_stack EXCEPT ![Depth] = t]
      /\ blocks' = [blocks EXCEPT ![Len(blocks)] = b]
      /\ code' = NoCode
      /\ UNCHANGED <<procedure_counter, constant_counter, functions, status>>
  BY DEF VariableDefinition, SetTopScope, SetBlock
<1>5. variable_stack' \in Seq(Nat) /\ variable_stack' # <<>>
  <2>1. Counter + Len(ids) \in Nat
    BY <1>1, CounterType DEF TypeInv
  <2>2. variable_stack' = [variable_stack EXCEPT ![Len(variable_stack)] = Counter + Len(ids)]
    BY DEF VariableDefinition, Counter
  <2>3. variable_stack' \in Seq(Nat) /\ Len(variable_stack') = Len(variable_stack)
    BY <2>1, <2>2, CounterType, ExceptSeq DEF TypeInv, TypeOK
  <2> QED
    BY <2>3, CounterType, EmptySeq DEF TypeInv
<1> HIDE DEF rs
<1>6. /\ heap' \in Seq(Symrec) /\ live' \subseteq Address'
      /\ Len(heap) \in Nat /\ Len(heap') = Len(heap) + Len(ids)
  BY <1>2, <1>4, MallocLemma DEF TypeInv
<1>7. /\ ProceduresHaveLists' /\ Pointer \subseteq Pointer'
      /\ scope_stack \in Seq([Id -> Pointer'])
      /\ blocks \in Seq(BlockRecord') /\ functions \in Seq(FunctionRecord')
      /\ \A i \in 1 .. Len(blocks) :
           blocks[i].proc # NULL =>
             blocks[i].proc \in Address' /\ heap'[blocks[i].proc].spec = "PROCEDURE"
  BY <1>2, <1>3, <1>4, HeapGrows
<1>8. t \in [Id -> Pointer']
  <2>1. TopScope \in [Id -> 1 .. Len(heap') \cup {NULL}]
    BY <1>1, <1>7, ParsingTypes DEF Pointer, Address
  <2> QED
    BY <1>1, <1>6, <2>1, PutAllType DEF Pointer, Address
<1> HIDE DEF t
<1>9. scope_stack' \in Seq([Id -> Pointer']) /\ Len(scope_stack') = Len(scope_stack)
  BY <1>1, <1>4, <1>7, <1>8, ParsingTypes, ExceptSeq
<1>10. b \in BlockRecord' /\ b.proc = Block.proc
  <2>1. Block \in [proc : Pointer', phase : Phases, vars : Nat, nested : Nat]
    BY <1>1, <1>7, ParsingTypes DEF BlockRecord
  <2>2. BlockRecord' = [proc : Pointer', phase : Phases, vars : Nat, nested : Nat]
    BY DEF BlockRecord, Phases
  <2>3. "var" \in Phases
    BY <2>1 DEF Phases
  <2> QED
    BY <1>1, <2>1, <2>2, <2>3, AdvanceType
<1> HIDE DEF b
<1>11. /\ blocks' \in Seq(BlockRecord') /\ Len(blocks') = Len(blocks)
       /\ \A i \in 1 .. Len(blocks) : blocks'[i].proc = blocks[i].proc
  BY <1>1, <1>4, <1>7, <1>10, ParsingTypes, ExceptSeq DEF Block
<1>12. code' \in InstructionRecord'
  BY <1>4, NoCodeType DEF InstructionRecord, Operations, Pointer
<1>13. TypeOK'
  BY <1>4, <1>5, <1>6, <1>7, <1>9, <1>11, <1>12 DEF TypeInv, TypeOK
<1>14. Shape'
  BY <1>4, <1>7, <1>9, <1>11 DEF TypeInv, Shape, Depth, HasSpec
<1> QED
  BY <1>7, <1>13, <1>14 DEF TypeInv

LEMMA ProcedureRecordsType ==
  ASSUME TypeInv, NEW id \in Id, NEW params \in Seq(Id)
  PROVE  LET rs   == ProcedureRecords(id, params)
             n    == Len(params)
             list == [i \in 1 .. n |-> Len(heap) + i]
         IN  /\ n \in Nat /\ rs \in Seq(Symrec) /\ Len(rs) = 2 * n + 1
             /\ list \in Seq(Nat) /\ Len(list) = n /\ list # NULL
             /\ rs[n + 1] = NewSymrec("PROCEDURE", id, list, procedure_counter)
             /\ \A k \in 1 .. n : rs[k] = Parameter(params, k)
             /\ \A k \in n + 2 .. 2 * n + 1 : rs[k] = Parameter(params, k - n - 1)
             /\ \A k \in 1 .. Len(rs) :
                  rs[k].spec = "PROCEDURE" <=> rs[k].parameter_list # NULL
<1> DEFINE n     == Len(params)
           list  == [i \in 1 .. n |-> Len(heap) + i]
           proc  == NewSymrec("PROCEDURE", id, list, procedure_counter)
           rs    == ProcedureRecords(id, params)
<1>1. n \in Nat /\ Len(heap) \in Nat /\ \A k \in 1 .. n : params[k] \in Id
  BY LenProperties DEF TypeInv, TypeOK
<1>2. list \in Seq(Nat) /\ Len(list) = n
  BY <1>1
<1>3. list # NULL
  BY <1>2, DeclarationsAssumption, Zenon DEF DeclarationsAssumption
<1>4. rs = [k \in 1 .. 2 * n + 1 |->
              IF k <= n THEN Parameter(params, k)
              ELSE IF k > n + 1 THEN Parameter(params, k - n - 1) ELSE proc]
  BY DEF ProcedureRecords
<1> HIDE DEF list, rs
<1>5. ASSUME NEW k \in 1 .. n
      PROVE  /\ Parameter(params, k) \in Symrec
             /\ Parameter(params, k).spec = "PARAM"
             /\ Parameter(params, k).parameter_list = NULL
  BY <1>1 DEF Parameter, NewSymrec, Symrec, Species
<1>6. proc \in Symrec /\ proc.spec = "PROCEDURE" /\ proc.parameter_list = list
  BY <1>2 DEF NewSymrec, Symrec, Species, TypeInv, TypeOK
<1> HIDE DEF proc, n
<1>7. ASSUME NEW k \in 1 .. 2 * n + 1
      PROVE  k \in 1 .. n \/ k = n + 1 \/ (k \in n + 2 .. 2 * n + 1 /\ k - n - 1 \in 1 .. n)
  BY <1>1
<1>8. ASSUME NEW k \in 1 .. 2 * n + 1
      PROVE  rs[k] \in Symrec /\ (rs[k].spec = "PROCEDURE" <=> rs[k].parameter_list # NULL)
  <2>1. CASE k \in 1 .. n
    BY <1>1, <1>4, <1>5, <2>1
  <2>2. CASE k = n + 1
    BY <1>1, <1>3, <1>4, <1>6, <2>2
  <2>3. CASE k \in n + 2 .. 2 * n + 1 /\ k - n - 1 \in 1 .. n
    BY <1>1, <1>4, <1>5, <2>3
  <2> QED
    BY <1>7, <2>1, <2>2, <2>3
<1>9. rs \in Seq(Symrec) /\ Len(rs) = 2 * n + 1
  BY <1>1, <1>4, <1>8
<1>10. rs[n + 1] = proc /\ (\A k \in 1 .. n : rs[k] = Parameter(params, k))
       /\ (\A k \in n + 2 .. 2 * n + 1 : rs[k] = Parameter(params, k - n - 1))
  BY <1>1, <1>4
<1> QED
  BY <1>1, <1>2, <1>3, <1>8, <1>9, <1>10 DEF rs, list, proc, n

LEMMA ProcedureBlockStep ==
  ASSUME TypeInv, NEW id \in Id, NEW params \in IdLists, ProcedureBlock(id, params)
  PROVE  TypeInv'
<1> DEFINE n  == Len(params)
           s  == Len(heap) + n + 1
           rs == ProcedureRecords(id, params)
           t  == [TopScope EXCEPT ![id] = s]
           u  == PutAll(EmptyTable, params, s)
           b  == Advance(Block, "proc", 0, 1)
           ss == [scope_stack EXCEPT ![Depth] = t]
           bs == [blocks EXCEPT ![Len(blocks)] = b]
<1>1. status = "parsing" /\ params \in Seq(Id) /\ n \in Nat /\ Len(heap) \in Nat
  BY IdListsAreSeqs, LenProperties DEF ProcedureBlock, InPhase, TypeInv, TypeOK
<1>2. /\ rs \in Seq(Symrec) /\ Len(rs) = 2 * n + 1
      /\ rs[n + 1].spec = "PROCEDURE"
      /\ \A k \in 1 .. Len(rs) : rs[k].spec = "PROCEDURE" <=> rs[k].parameter_list # NULL
  <2> DEFINE list == [i \in 1 .. n |-> Len(heap) + i]
  <2>1. rs[n + 1] = NewSymrec("PROCEDURE", id, list, procedure_counter)
    BY <1>1, ProcedureRecordsType
  <2>2. rs[n + 1].spec = "PROCEDURE"
    BY <2>1 DEF NewSymrec
  <2> QED
    BY <1>1, <2>2, ProcedureRecordsType
<1>3. /\ Malloc(rs)
      /\ scope_stack' = Append(ss, u)
      /\ variable_stack' = Append(variable_stack, n)
      /\ blocks' = Append(bs, NewBlock(s))
      /\ code' = NoCode
      /\ UNCHANGED <<procedure_counter, constant_counter, functions, status>>
  BY DEF ProcedureBlock
<1> HIDE DEF rs
<1>4. /\ heap' \in Seq(Symrec) /\ live' \subseteq Address'
      /\ Len(heap') = Len(heap) + (2 * n + 1)
      /\ heap'[s] = rs[n + 1]
  <2>1. n + 1 \in 1 .. Len(rs) /\ Len(heap) + (n + 1) = s
    BY <1>1, <1>2
  <2> QED
    BY <1>2, <1>3, <2>1, MallocLemma DEF TypeInv
<1>5. /\ ProceduresHaveLists' /\ Pointer \subseteq Pointer'
      /\ scope_stack \in Seq([Id -> Pointer'])
      /\ blocks \in Seq(BlockRecord') /\ functions \in Seq(FunctionRecord')
      /\ \A i \in 1 .. Len(blocks) :
           blocks[i].proc # NULL =>
             blocks[i].proc \in Address' /\ heap'[blocks[i].proc].spec = "PROCEDURE"
  BY <1>2, <1>3, HeapGrows
<1>6. s \in Address' /\ s \in Pointer'
  BY <1>1, <1>4 DEF Address, Pointer
<1>7. t \in [Id -> Pointer']
  BY <1>1, <1>5, <1>6, ParsingTypes
<1>8. u \in [Id -> Pointer']
  <2>1. EmptyTable \in [Id -> 1 .. Len(heap') \cup {NULL}]
    BY DEF EmptyTable
  <2>2. s + Len(params) <= Len(heap') /\ s \in Nat /\ Len(heap') \in Nat
    BY <1>1, <1>4
  <2> QED
    BY <1>1, <2>1, <2>2, PutAllType DEF Pointer, Address
<1> HIDE DEF t, u
<1>9. ss \in Seq([Id -> Pointer']) /\ Len(ss) = Len(scope_stack)
  BY <1>1, <1>5, <1>7, ParsingTypes, ExceptSeq
<1>10. BlockRecord' = [proc : Pointer', phase : Phases, vars : Nat, nested : Nat]
  BY DEF BlockRecord, Phases
<1>11. b \in BlockRecord' /\ b.proc = Block.proc
  <2>1. Block \in [proc : Pointer', phase : Phases, vars : Nat, nested : Nat]
    BY <1>1, <1>5, ParsingTypes DEF BlockRecord
  <2>2. "proc" \in Phases /\ 0 \in Nat /\ 1 \in Nat
    BY DEF Phases
  <2>3. /\ b \in [proc : Pointer', phase : Phases, vars : Nat, nested : Nat]
        /\ b.proc = Block.proc
    BY <2>1, <2>2 DEF Advance
  <2> QED
    BY <1>10, <2>3
<1>12. NewBlock(s) \in BlockRecord' /\ NewBlock(s).proc = s
  BY <1>6, <1>10, NewBlockType
<1> HIDE DEF b
<1>13. /\ bs \in Seq(BlockRecord') /\ Len(bs) = Len(blocks)
       /\ \A i \in 1 .. Len(blocks) : bs[i].proc = blocks[i].proc
  BY <1>1, <1>5, <1>11, ParsingTypes, ExceptSeq DEF Block
<1> HIDE DEF ss, bs
<1>14. scope_stack' \in Seq([Id -> Pointer']) /\ Len(scope_stack') = Len(scope_stack) + 1
  BY <1>3, <1>8, <1>9, AppendProperties
<1>15. /\ blocks' \in Seq(BlockRecord') /\ Len(blocks') = Len(blocks) + 1
       /\ \A i \in 1 .. Len(blocks) : blocks'[i].proc = blocks[i].proc
       /\ blocks'[Len(blocks) + 1].proc = s
  BY <1>3, <1>12, <1>13, AppendProperties
<1>16. variable_stack' \in Seq(Nat) /\ variable_stack' # <<>>
  <2>1. variable_stack \in Seq(Nat) /\ n \in Nat
    BY <1>1 DEF TypeInv, TypeOK
  <2> HIDE DEF n
  <2>2. variable_stack' = Append(variable_stack, n)
    BY <1>3
  <2> QED
    BY <2>1, <2>2, AppendProperties
<1>17. code' \in InstructionRecord'
  BY <1>3, NoCodeType DEF InstructionRecord, Operations, Pointer
<1>18. TypeOK'
  BY <1>3, <1>4, <1>5, <1>14, <1>15, <1>16, <1>17 DEF TypeInv, TypeOK
<1>19. Shape'
  <2>1. Len(blocks') = Depth' /\ Depth' > 0
    BY <1>1, <1>14, <1>15, ParsingTypes DEF Depth
  <2>2. ASSUME NEW i \in 1 .. Len(blocks'), blocks'[i].proc # NULL
        PROVE  heap'[blocks'[i].proc].spec = "PROCEDURE"
    <3>1. i \in 1 .. Len(blocks) \/ i = Len(blocks) + 1
      BY <1>1, <1>15, ParsingTypes
    <3> QED
      BY <1>2, <1>4, <1>5, <1>15, <2>2, <3>1
  <2> QED
    BY <2>1, <2>2 DEF Shape, HasSpec
<1> QED
  BY <1>5, <1>18, <1>19 DEF TypeInv

LEMMA HeaderType ==
  ASSUME TypeInv, status = "parsing"
  PROVE  Header(Block) \in FunctionRecord
<1>1. Block.proc \in Pointer /\ Block.vars \in Nat /\ Block.nested \in Nat
  BY ParsingTypes DEF BlockRecord
<1>2. procedure_counter \in Nat
  BY DEF TypeInv, TypeOK
<1>3. Counter - NumParams(Block) \in Int
  BY ParsingTypes, CounterType DEF TypeInv
<1> QED
  BY <1>1, <1>2, <1>3 DEF Header, FunctionRecord

LEMMA ProcedureDefinitionStep ==
  ASSUME TypeInv, ProcedureDefinition
  PROVE  TypeInv'
<1>1. /\ status = "parsing" /\ Len(blocks) > 1
      /\ functions' = Append(functions, Header(Block))
      /\ procedure_counter' = procedure_counter + 1
      /\ code' = Instruction("FUNCTION", procedure_counter, Block.proc)
      /\ live' \subseteq live
      /\ scope_stack' = SubSeq(scope_stack, 1, Depth - 1)
      /\ blocks' = SubSeq(blocks, 1, Len(blocks) - 1)
      /\ UNCHANGED <<heap, variable_stack, constant_counter, status>>
  BY DEF ProcedureDefinition, delete_scope
<1>2. functions' \in Seq(FunctionRecord)
  BY <1>1, HeaderType, AppendProperties DEF TypeInv, TypeOK
<1>3. code' \in InstructionRecord
  <2>1. Block.proc \in Pointer
    BY <1>1, ParsingTypes DEF BlockRecord
  <2>2. "FUNCTION" \in Operations /\ procedure_counter \in Int
    BY DEF Operations, TypeInv, TypeOK
  <2>3. Instruction("FUNCTION", procedure_counter, Block.proc)
          \in [op : Operations, arg : Int, sym : Pointer]
    BY <2>1, <2>2, InstructionType
  <2> QED
    BY <1>1, <2>3 DEF InstructionRecord
<1>4. scope_stack' \in Seq([Id -> Pointer]) /\ Len(scope_stack') = Depth - 1
  <2>1. \A i \in 1 .. Depth - 1 : scope_stack[i] \in [Id -> Pointer]
    BY <1>1, ParsingTypes, ElementOfSeq DEF TypeInv, TypeOK, Depth
  <2> QED
    BY <1>1, <2>1, ParsingTypes, SubSeqProperties
<1>5. /\ blocks' \in Seq(BlockRecord) /\ Len(blocks') = Len(blocks) - 1
      /\ \A i \in 1 .. Len(blocks') : blocks'[i] = blocks[i]
  <2>1. \A i \in 1 .. Len(blocks) - 1 : blocks[i] \in BlockRecord
    BY <1>1, ParsingTypes, ElementOfSeq DEF TypeInv, TypeOK
  <2> QED
    BY <1>1, <2>1, ParsingTypes, SubSeqProperties
<1>6. TypeOK'
  <2>1. procedure_counter' \in Nat /\ live' \subseteq Address
    BY <1>1 DEF TypeInv, TypeOK
  <2>2. /\ Address' = Address /\ Pointer' = Pointer /\ BlockRecord' = BlockRecord
        /\ FunctionRecord' = FunctionRecord /\ InstructionRecord' = InstructionRecord
    BY <1>1 DEF Address, Pointer, BlockRecord, FunctionRecord, InstructionRecord
  <2> QED
    BY <1>1, <1>2, <1>3, <1>4, <1>5, <2>1, <2>2 DEF TypeInv, TypeOK
<1>7. Shape'
  BY <1>1, <1>4, <1>5, ParsingTypes DEF TypeInv, Shape, HasSpec, Depth
<1> QED
  BY <1>1, <1>6, <1>7 DEF TypeInv, ProceduresHaveLists, Address

LEMMA ProgramStep ==
  ASSUME TypeInv, Program
  PROVE  TypeInv'
<1>1. /\ status = "parsing" /\ status' = "accepted" /\ blocks' = <<>>
      /\ functions' = Append(functions, Header(Block))
      /\ code' = Instruction("FUNCTION", procedure_counter, NULL)
      /\ live' \subseteq live
      /\ scope_stack' = SubSeq(scope_stack, 1, Depth - 1)
      /\ UNCHANGED <<heap, variable_stack, procedure_counter, constant_counter>>
  BY DEF Program, delete_scope
<1>2. functions' \in Seq(FunctionRecord)
  BY <1>1, HeaderType, AppendProperties DEF TypeInv, TypeOK
<1>3. code' \in InstructionRecord
  <2>1. "FUNCTION" \in Operations /\ procedure_counter \in Int /\ NULL \in Pointer
    BY DEF Operations, TypeInv, TypeOK, Pointer
  <2> QED
    BY <1>1, <2>1, InstructionType DEF InstructionRecord
<1>4. scope_stack' \in Seq([Id -> Pointer])
  <2>1. \A i \in 1 .. Depth - 1 : scope_stack[i] \in [Id -> Pointer]
    BY <1>1, ParsingTypes, ElementOfSeq DEF TypeInv, TypeOK, Depth
  <2> QED
    BY <1>1, <2>1, ParsingTypes, SubSeqProperties
<1>5. TypeOK'
  <2>1. /\ Address' = Address /\ Pointer' = Pointer /\ BlockRecord' = BlockRecord
        /\ FunctionRecord' = FunctionRecord /\ InstructionRecord' = InstructionRecord
    BY <1>1 DEF Address, Pointer, BlockRecord, FunctionRecord, InstructionRecord
  <2>2. blocks' \in Seq(BlockRecord) /\ status' \in Statuses /\ live' \subseteq Address
    BY <1>1, EmptySeq DEF TypeInv, TypeOK, Statuses
  <2> QED
    BY <1>1, <1>2, <1>3, <1>4, <2>1, <2>2 DEF TypeInv, TypeOK
<1>6. Shape'
  BY <1>1 DEF Shape
<1> QED
  BY <1>1, <1>5, <1>6 DEF TypeInv, ProceduresHaveLists, Address

(* The records a statement can name. *)
LEMMA FoundRecord ==
  ASSUME TypeInv, NEW id \in Id
  PROVE  LET s == search_in_any_scope(id)
         IN  /\ s \in Pointer
             /\ s # NULL => heap[s] \in Symrec /\ heap[s].bp_off \in Int
<1> DEFINE s == search_in_any_scope(id)
<1>1. s \in Pointer
  BY SearchType DEF TypeInv
<1> HIDE DEF s
<1>2. ASSUME s # NULL PROVE heap[s] \in Symrec
  BY <1>1, <1>2, ElementOfSeq DEF Pointer, Address, TypeInv, TypeOK
<1> QED
  BY <1>1, <1>2 DEF s, Symrec

LEMMA StatementStep ==
  ASSUME TypeInv, NEW id \in Id, NEW n \in 0 .. MaxGroup,
         \/ AssignmentStatement(id) \/ Operand(id) \/ ProcedureStatement(id, n)
         \/ Literal \/ RealLiteral
  PROVE  TypeInv'
<1> DEFINE s == search_in_any_scope(id)
<1>1. /\ s \in Pointer
      /\ s # NULL => heap[s].bp_off \in Int
      /\ constant_counter \in Nat /\ NULL \in Pointer
  BY FoundRecord DEF TypeInv, TypeOK, Pointer
<1>2. ASSUME NEW how \in {"rejected", "undefined", "exited"}, Stop(how)
      PROVE  TypeInv'
  BY <1>2, StopStep DEF Statuses
<1>3. ASSUME status = "parsing", s # NULL, NEW op \in Operations, Generate(op, heap[s].bp_off, s)
      PROVE  TypeInv'
  BY <1>1, <1>3, EmitStep DEF Generate
<1>4. ASSUME status = "parsing", Generate("CALL_LIB_S", 0, s)
      PROVE  TypeInv'
  <2>1. "CALL_LIB_S" \in Operations /\ constant_counter' \in Nat /\ 0 \in Int
        /\ Emit("CALL_LIB_S", 0, s)
    BY <1>1, <1>4 DEF Generate, Operations
  <2> QED
    BY <1>1, <1>4, <2>1, EmitStep
<1> HIDE DEF s
<1>5. CASE AssignmentStatement(id)
  <2>1. \/ Stop("rejected")
        \/ status = "parsing" /\ s # NULL /\ Generate("STORE_VAR_S", heap[s].bp_off, s)
    BY <1>5 DEF AssignmentStatement, s, YYERROR, HasSpec
  <2> QED
    BY <1>2, <1>3, <2>1 DEF Operations
<1>6. CASE Operand(id)
  <2>1. \/ Stop("rejected") \/ Stop("undefined")
        \/ status = "parsing" /\ s # NULL /\ Generate("LOAD_CONST_S", heap[s].bp_off, s)
        \/ status = "parsing" /\ s # NULL /\ Generate("LOAD_VAR_S", heap[s].bp_off, s)
    BY <1>6 DEF Operand, s, YYERROR, HasSpec
  <2> QED
    BY <1>2, <1>3, <2>1 DEF Operations
<1>7. CASE ProcedureStatement(id, n)
  <2>1. \/ Stop("rejected")
        \/ status = "parsing" /\ Generate("CALL_LIB_S", 0, s)
        \/ status = "parsing" /\ s # NULL /\ Generate("CALL_S", heap[s].bp_off, s)
    BY <1>7 DEF ProcedureStatement, s, YYERROR, HasSpec
  <2> QED
    BY <1>2, <1>3, <1>4, <2>1 DEF Operations
<1>8. CASE Literal
  <2>1. "LOAD_CONST_S" \in Operations /\ constant_counter' \in Nat
    BY <1>1, <1>8 DEF Literal, Operations
  <2> QED
    BY <1>1, <1>8, <2>1, EmitStep DEF Literal
<1>9. CASE RealLiteral
  BY <1>2, <1>9 DEF RealLiteral
<1> QED
  BY <1>5, <1>6, <1>7, <1>8, <1>9

LEMMA StutterStep ==
  ASSUME TypeInv, UNCHANGED vars
  PROVE  TypeInv'
BY DEF vars, TypeInv, TypeOK, Shape, ProceduresHaveLists, Depth, HasSpec, Address,
   Pointer, BlockRecord, FunctionRecord, InstructionRecord

LEMMA TypeInit == Init => TypeInv
<1> SUFFICES ASSUME Init PROVE TypeInv
  OBVIOUS
<1>1. /\ heap = <<>> /\ live = {} /\ scope_stack = <<>> /\ variable_stack = <<0>>
      /\ procedure_counter = 0 /\ constant_counter = 0 /\ blocks = <<>>
      /\ functions = <<>> /\ code = NoCode /\ status = "start"
  BY DEF Init
<1>2. code \in InstructionRecord
  BY <1>1, NoCodeType DEF InstructionRecord, Pointer
<1>3. TypeOK
  BY <1>1, <1>2, EmptySeq DEF TypeOK, Statuses
<1>4. Shape /\ ProceduresHaveLists
  BY <1>1 DEF Shape, ProceduresHaveLists, Address
<1> QED
  BY <1>3, <1>4 DEF TypeInv

(* Every reduction keeps the types of the tables, of the heap and of the   *)
(* counters, and the parallel between parser stack and scope stack.        *)
LEMMA TypeStep == TypeInv /\ [Next]_vars => TypeInv'
<1> SUFFICES ASSUME TypeInv, [Next]_vars PROVE TypeInv'
  OBVIOUS
<1>1. ASSUME NEW how \in {"rejected", "undefined", "exited"}, Stop(how)
      PROVE  TypeInv'
  BY <1>1, StopStep DEF Statuses
<1>2. 0 \in 0 .. MaxGroup
  BY DeclarationsAssumption DEF DeclarationsAssumption
<1>3. CASE ForceInitialization
  BY <1>3, ForceInitializationStep
<1>4. ASSUME NEW id \in Id, ConstantDefinition(id) PROVE TypeInv'
  BY <1>4, ConstantDefinitionStep
<1>5. ASSUME NEW id \in Id, NEW n \in 0 .. MaxGroup,
             \/ AssignmentStatement(id) \/ Operand(id) \/ ProcedureStatement(id, n)
             \/ Literal \/ RealLiteral
      PROVE  TypeInv'
  BY <1>5, StatementStep
<1>6. ASSUME NEW id \in Id, NEW params \in IdLists, ProcedureBlock(id, params)
      PROVE  TypeInv'
  BY <1>6, ProcedureBlockStep
<1>7. ASSUME NEW ids \in IdLists, VariableDefinition(ids) PROVE TypeInv'
  BY <1>7, VariableDefinitionStep
<1>8. CASE ProcedureDefinition
  BY <1>8, ProcedureDefinitionStep
<1>9. CASE Program
  BY <1>9, ProgramStep
<1>10. ASSUME \/ \E id \in Id : ConstantRedefinition(id)
              \/ \E id \in Id, params \in IdLists :
                   ProcedureRedeclared(id, params) \/ VariableStackOverflow(id, params)
              \/ \E ids \in IdLists : DuplicateInGroup(ids)
              \/ SyntaxError
       PROVE  TypeInv'
  BY <1>1, <1>10 DEF ConstantRedefinition, ProcedureRedeclared, VariableStackOverflow,
     DuplicateInGroup, SyntaxError, YYERROR
<1>11. CASE UNCHANGED vars
  BY <1>11, StutterStep
<1>12. CASE Literal \/ RealLiteral
  BY <1>2, <1>5, <1>12, DeclarationsAssumption DEF DeclarationsAssumption
<1>13. ASSUME NEW id \in Id, AssignmentStatement(id) \/ Operand(id)
       PROVE  TypeInv'
  BY <1>2, <1>5, <1>13
<1> QED
  BY <1>3, <1>4, <1>5, <1>6, <1>7, <1>8, <1>9, <1>10, <1>11, <1>12, <1>13 DEF Next, Stopped

THEOREM TypeCorrect == Spec => []TypeInv
<1> QED
  BY TypeInit, TypeStep, PTL DEF Spec

(* Every variable of the semantic actions has its type, in every parse of  *)
(* every program text.                                                     *)
THEOREM TypeSafety == Spec => []TypeOK
<1>1. TypeInv => TypeOK
  BY DEF TypeInv
<1> QED
  BY <1>1, TypeCorrect, PTL

-----------------------------------------------------------------------------
(* What Declarations keeps of its past: the scopes around the innermost,   *)
(* the numbers of constants and the numbers of functions.                  *)

(* The shapes of a step.  A reduction changes the tables in one of four    *)
(* ways, and the heap and the constants in one of three.                   *)

Same      == scope_stack' = scope_stack
Assign(t) == scope_stack' = [scope_stack EXCEPT ![Depth] = t]
Open(t, u) == scope_stack' = Append([scope_stack EXCEPT ![Depth] = t], u)
Close     == scope_stack' = SubSeq(scope_stack, 1, Depth - 1)

(* Before force_initialization there are no tables, functions or records.  *)
Started == status = "start" => scope_stack = <<>> /\ functions = <<>>

LEMMA ScopesOfStatements ==
  ASSUME NEW id \in Id, NEW n \in 0 .. MaxGroup,
         \/ AssignmentStatement(id) \/ Operand(id) \/ ProcedureStatement(id, n)
         \/ Literal \/ RealLiteral
  PROVE  /\ UNCHANGED <<heap, live, scope_stack, variable_stack, procedure_counter, functions>>
         /\ status = "parsing" /\ status' # "start"
         /\ constant_counter' = constant_counter \/ constant_counter' = constant_counter + 1
<1>1. ASSUME NEW how \in {"rejected", "undefined", "exited"}, Stop(how)
      PROVE  /\ UNCHANGED <<heap, live, scope_stack, variable_stack, procedure_counter,
                            functions, constant_counter>>
             /\ status' # "start"
  BY <1>1 DEF Stop
<1>2. ASSUME NEW op, NEW arg, NEW sym, status = "parsing", Emit(op, arg, sym)
      PROVE  /\ UNCHANGED <<heap, live, scope_stack, variable_stack, procedure_counter, functions>>
             /\ status' # "start"
  BY <1>2 DEF Emit
<1>3. CASE AssignmentStatement(id)
  BY <1>1, <1>2, <1>3 DEF AssignmentStatement, YYERROR, Generate
<1>4. CASE Operand(id)
  BY <1>1, <1>2, <1>4 DEF Operand, YYERROR, Generate
<1>5. CASE ProcedureStatement(id, n)
  BY <1>1, <1>2, <1>5 DEF ProcedureStatement, YYERROR, Generate
<1>6. CASE Literal
  BY <1>2, <1>6 DEF Literal
<1>7. CASE RealLiteral
  BY <1>1, <1>7 DEF RealLiteral
<1> QED
  BY <1>3, <1>4, <1>5, <1>6, <1>7

(* The ways in which the parse stops. *)
LEMMA Stops ==
  ASSUME \/ \E id \in Id : ConstantRedefinition(id)
         \/ \E id \in Id, params \in IdLists :
              ProcedureRedeclared(id, params) \/ VariableStackOverflow(id, params)
         \/ \E ids \in IdLists : DuplicateInGroup(ids)
         \/ SyntaxError
  PROVE  /\ UNCHANGED <<heap, live, scope_stack, variable_stack, procedure_counter,
                        functions, constant_counter, blocks>>
         /\ status' \notin {"start", "parsing"}
<1>1. ASSUME NEW how \in {"rejected", "undefined"}, Stop(how)
      PROVE  /\ UNCHANGED <<heap, live, scope_stack, variable_stack, procedure_counter,
                            functions, constant_counter, blocks>>
             /\ status' \notin {"start", "parsing"}
  BY <1>1 DEF Stop
<1> QED
  BY <1>1 DEF ConstantRedefinition, ProcedureRedeclared, VariableStackOverflow,
     DuplicateInGroup, SyntaxError, YYERROR

-----------------------------------------------------------------------------
(* Outer scopes                                                            *)

LEMMA StartedInit == Init => Started
BY DEF Init, Started

LEMMA ScopesStep ==
  ASSUME TypeInv, Started, [Next]_vars
  PROVE  /\ Started'
         /\ \/ Same
            \/ \E t : Assign(t)
            \/ \E t, u : Open(t, u)
            \/ Close
            \/ scope_stack = <<>>
<1>1. CASE ForceInitialization
  BY <1>1 DEF ForceInitialization, Started
<1>2. ASSUME NEW id \in Id, ConstantDefinition(id)
      PROVE  Started' /\ \E t : Assign(t)
  BY <1>2 DEF ConstantDefinition, InPhase, SetTopScope, Assign, Started
<1>3. ASSUME NEW ids \in IdLists, VariableDefinition(ids)
      PROVE  Started' /\ \E t : Assign(t)
  BY <1>3 DEF VariableDefinition, InPhase, SetTopScope, Assign, Started
<1>4. ASSUME NEW id \in Id, NEW params \in IdLists, ProcedureBlock(id, params)
      PROVE  Started' /\ \E t, u : Open(t, u)
  BY <1>4 DEF ProcedureBlock, InPhase, Open, Started
<1>5. CASE ProcedureDefinition
  BY <1>5 DEF ProcedureDefinition, delete_scope, Close, Started
<1>6. CASE Program
  BY <1>6 DEF Program, delete_scope, Close, Started
<1>7. ASSUME NEW id \in Id, NEW n \in 0 .. MaxGroup,
             \/ AssignmentStatement(id) \/ Operand(id) \/ ProcedureStatement(id, n)
             \/ Literal \/ RealLiteral
      PROVE  Started' /\ Same
  BY <1>7, ScopesOfStatements DEF Same, Started
<1>8. 0 \in 0 .. MaxGroup /\ PrintId \in Id
  BY DeclarationsAssumption DEF DeclarationsAssumption
<1>9. CASE Literal \/ RealLiteral
  BY <1>7, <1>8, <1>9
<1>10. ASSUME NEW id \in Id, AssignmentStatement(id) \/ Operand(id)
       PROVE  Started' /\ Same
  BY <1>7, <1>8, <1>10
<1>11. ASSUME \/ \E id \in Id : ConstantRedefinition(id)
              \/ \E id \in Id, params \in IdLists :
                   ProcedureRedeclared(id, params) \/ VariableStackOverflow(id, params)
              \/ \E ids \in IdLists : DuplicateInGroup(ids)
              \/ SyntaxError
       PROVE  Started' /\ Same
  BY <1>11, Stops DEF Same, Started
<1>12. CASE UNCHANGED vars
  BY <1>12 DEF vars, Same, Started
<1> QED
  BY <1>1, <1>2, <1>3, <1>4, <1>5, <1>6, <1>7, <1>9, <1>10, <1>11, <1>12 DEF Next, Stopped

(* Whatever a reduction does, no table below the innermost changes: what a *)
(* procedure declares cannot alter the scopes around it (symrec.c).        *)
LEMMA FrozenStep ==
  ASSUME TypeInv, Started, [Next]_vars
  PROVE  \A i \in 1 .. Depth - 1 :
           i <= Len(scope_stack') => scope_stack'[i] = scope_stack[i]
<1> SUFFICES ASSUME NEW i \in 1 .. Depth - 1, i <= Len(scope_stack')
             PROVE  scope_stack'[i] = scope_stack[i]
  OBVIOUS
<1>1. /\ scope_stack \in Seq([Id -> Pointer]) /\ Depth = Len(scope_stack) /\ Depth \in Nat
      /\ i \in 1 .. Depth /\ i # Depth
  BY LenProperties DEF TypeInv, TypeOK, Depth
<1>2. ASSUME NEW t PROVE
        LET ss == [scope_stack EXCEPT ![Depth] = t]
        IN  Len(ss) = Depth /\ ss[i] = scope_stack[i]
  BY <1>1
<1>3. CASE Same
  BY <1>3 DEF Same
<1>4. ASSUME NEW t, Assign(t) PROVE scope_stack'[i] = scope_stack[i]
  BY <1>2, <1>4 DEF Assign
<1>5. ASSUME NEW t, NEW u, Open(t, u) PROVE scope_stack'[i] = scope_stack[i]
  <2> DEFINE ss == [scope_stack EXCEPT ![Depth] = t]
  <2>1. scope_stack' = Append(ss, u) /\ Len(ss) = Depth /\ ss[i] = scope_stack[i]
    BY <1>2, <1>5 DEF Open
  <2>2. ss \in Seq(Range(scope_stack) \cup {t})
    BY <1>1 DEF Range
  <2> HIDE DEF ss
  <2> QED
    BY <1>1, <2>1, <2>2
<1>6. CASE Close
  BY <1>1, <1>6, SubSeqProperties DEF Close
<1>7. CASE scope_stack = <<>>
  BY <1>1, <1>7
<1> QED
  BY <1>3, <1>4, <1>5, <1>6, <1>7, ScopesStep

(* A reduction changes only the innermost table, in every program: while a *)
(* procedure is open, the enclosing scopes keep their entries.             *)
THEOREM OuterScopes == Spec => OuterScopesFrozen
<1>1. TypeInv /\ Started /\ [Next]_vars => Started'
  BY ScopesStep
<1>2. TypeInv /\ Started /\ [Next]_vars =>
        [\A i \in 1 .. Depth - 1 :
           i <= Len(scope_stack') => scope_stack'[i] = scope_stack[i]]_vars
  BY FrozenStep
<1> QED
  BY <1>1, <1>2, StartedInit, TypeCorrect, PTL DEF Spec, OuterScopesFrozen

-----------------------------------------------------------------------------
(* Constants                                                               *)

Keeps == heap' = heap /\ constant_counter' \in {constant_counter, constant_counter + 1}

Allocates(records) ==
  /\ Malloc(records)
  /\ \A k \in 1 .. Len(records) : records[k].spec # "CONST"
  /\ constant_counter' = constant_counter

Numbers(r) ==
  /\ Malloc(<<r>>)
  /\ r.bp_off = constant_counter
  /\ constant_counter' = constant_counter + 1

LEMMA SpecOfRecord ==
  ASSUME NEW spec, NEW id, NEW params, NEW off
  PROVE  NewSymrec(spec, id, params, off).spec = spec
BY DEF NewSymrec

LEMMA HeapStep ==
  ASSUME TypeInv, [Next]_vars
  PROVE  \/ Keeps
         \/ \E records \in Seq(Symrec) : Allocates(records)
         \/ \E r \in Symrec : Numbers(r)
<1>1. CASE ForceInitialization
  <2> DEFINE r1 == NewSymrec("PROCEDURE", PrintId, <<2>>, Uninitialised)
             r2 == NewSymrec("PARAM", Arg, NULL, Uninitialised)
  <2>1. PrintId \in Id /\ Arg \in Id /\ Uninitialised \in Int /\ <<2>> \in Seq(Nat)
    BY DeclarationsAssumption DEF DeclarationsAssumption, Uninitialised
  <2>2. r1 \in Symrec /\ r2 \in Symrec /\ r1.spec = "PROCEDURE" /\ r2.spec = "PARAM"
    BY <2>1 DEF NewSymrec, Symrec, Species
  <2>3. Malloc(<<r1, r2>>) /\ constant_counter' = constant_counter
    BY <1>1 DEF ForceInitialization
  <2> HIDE DEF r1, r2
  <2>4. <<r1, r2>> \in Seq(Symrec) /\ Allocates(<<r1, r2>>)
    BY <2>2, <2>3 DEF Allocates
  <2> QED
    BY <2>4
<1>2. ASSUME NEW id \in Id, ConstantDefinition(id)
      PROVE  \E r \in Symrec : Numbers(r)
  <2> DEFINE r == NewSymrec("CONST", id, NULL, constant_counter)
  <2>1. r \in Symrec /\ r.bp_off = constant_counter
    BY DEF NewSymrec, Symrec, Species, TypeInv, TypeOK
  <2>2. Malloc(<<r>>) /\ constant_counter' = constant_counter + 1
    BY <1>2 DEF ConstantDefinition
  <2> QED
    BY <2>1, <2>2 DEF Numbers
<1>3. ASSUME NEW ids \in IdLists, VariableDefinition(ids)
      PROVE  \E records \in Seq(Symrec) : Allocates(records)
  <2> DEFINE rs == NewGroup("VAR", ids, Counter)
  <2>1. ids \in Seq(Id) /\ Counter \in Int /\ "VAR" \in Species
    BY IdListsAreSeqs, CounterType DEF TypeInv, Species
  <2>2. /\ rs \in Seq(Symrec) /\ Len(rs) = Len(ids)
        /\ \A k \in 1 .. Len(ids) : rs[k] = NewSymrec("VAR", ids[k], NULL, Counter + k - 1)
    BY <2>1, NewGroupType
  <2>3. Malloc(rs) /\ constant_counter' = constant_counter
    BY <1>3 DEF VariableDefinition
  <2> HIDE DEF rs
  <2>4. ASSUME NEW k \in 1 .. Len(rs) PROVE rs[k].spec # "CONST"
    <3>1. rs[k] = NewSymrec("VAR", ids[k], NULL, Counter + k - 1)
      BY <2>2
    <3>2. rs[k].spec = "VAR"
      BY <3>1, SpecOfRecord
    <3> QED
      BY <3>2
  <2> QED
    BY <2>2, <2>3, <2>4 DEF Allocates
<1>4. ASSUME NEW id \in Id, NEW params \in IdLists, ProcedureBlock(id, params)
      PROVE  \E records \in Seq(Symrec) : Allocates(records)
  <2> DEFINE rs   == ProcedureRecords(id, params)
             n    == Len(params)
             list == [i \in 1 .. n |-> Len(heap) + i]
  <2>1. params \in Seq(Id)
    BY IdListsAreSeqs
  <2>2. /\ n \in Nat /\ rs \in Seq(Symrec) /\ Len(rs) = 2 * n + 1
        /\ rs[n + 1] = NewSymrec("PROCEDURE", id, list, procedure_counter)
        /\ \A k \in 1 .. n : rs[k] = Parameter(params, k)
        /\ \A k \in n + 2 .. 2 * n + 1 : rs[k] = Parameter(params, k - n - 1)
    BY <2>1, ProcedureRecordsType
  <2>3. Malloc(rs) /\ constant_counter' = constant_counter
    BY <1>4 DEF ProcedureBlock
  <2> HIDE DEF rs, n
  <2>4. ASSUME NEW k \in 1 .. 2 * n + 1 PROVE rs[k].spec # "CONST"
    <3>1. k \in 1 .. n \/ k = n + 1 \/ k \in n + 2 .. 2 * n + 1
      BY <2>2
    <3>2. \A j : Parameter(params, j).spec = "PARAM"
      BY SpecOfRecord DEF Parameter
    <3>3. rs[n + 1].spec = "PROCEDURE"
      BY <2>2, SpecOfRecord
    <3> QED
      BY <2>2, <3>1, <3>2, <3>3
  <2> QED
    BY <2>2, <2>3, <2>4 DEF Allocates
<1>5. CASE ProcedureDefinition \/ Program
  BY <1>5 DEF ProcedureDefinition, Program, Keeps
<1>6. ASSUME NEW id \in Id, NEW n \in 0 .. MaxGroup,
             \/ AssignmentStatement(id) \/ Operand(id) \/ ProcedureStatement(id, n)
             \/ Literal \/ RealLiteral
      PROVE  Keeps
  BY <1>6, ScopesOfStatements DEF Keeps
<1>7. 0 \in 0 .. MaxGroup /\ PrintId \in Id
  BY DeclarationsAssumption DEF DeclarationsAssumption
<1>8. CASE Literal \/ RealLiteral
  BY <1>6, <1>7, <1>8
<1>9. ASSUME NEW id \in Id, AssignmentStatement(id) \/ Operand(id)
      PROVE  Keeps
  BY <1>6, <1>7, <1>9
<1>10. ASSUME \/ \E id \in Id : ConstantRedefinition(id)
              \/ \E id \in Id, params \in IdLists :
                   ProcedureRedeclared(id, params) \/ VariableStackOverflow(id, params)
              \/ \E ids \in IdLists : DuplicateInGroup(ids)
              \/ SyntaxError
       PROVE  Keeps
  BY <1>10, Stops DEF Keeps
<1>11. CASE UNCHANGED vars
  BY <1>11 DEF vars, Keeps
<1> QED
  BY <1>1, <1>2, <1>3, <1>4, <1>5, <1>6, <1>8, <1>9, <1>10, <1>11 DEF Next, Stopped

LEMMA ConstantsStep ==
  ASSUME TypeInv, ConstantsNumberedOnce, [Next]_vars
  PROVE  ConstantsNumberedOnce'
<1>1. TypeOK /\ constant_counter \in Nat /\ \A a \in Address : heap[a].bp_off \in Int
  <2>1. TypeOK
    BY DEF TypeInv
  <2>2. \A a \in Address : heap[a] \in Symrec
    BY <2>1, ElementOfSeq DEF TypeOK, Address
  <2> QED
    BY <2>1, <2>2 DEF TypeOK, Symrec
<1>2. CASE Keeps
  <2>1. Address' = Address
    BY <1>2 DEF Keeps, Address
  <2> QED
    BY <1>1, <1>2, <2>1 DEF Keeps, ConstantsNumberedOnce
<1>3. ASSUME NEW records \in Seq(Symrec), Allocates(records)
      PROVE  ConstantsNumberedOnce'
  <2>1. Malloc(records) /\ constant_counter' = constant_counter
        /\ \A k \in 1 .. Len(records) : records[k].spec # "CONST"
    BY <1>3 DEF Allocates
  <2>2. ASSUME NEW a \in Address', heap'[a].spec = "CONST"
        PROVE  a \in Address /\ heap'[a] = heap[a]
    <3>1. ASSUME NEW k \in 1 .. Len(records), a = Len(heap) + k
          PROVE  FALSE
      <4>1. heap'[Len(heap) + k] = records[k]
        BY <1>1, <2>1, MallocLemma
      <4> QED
        BY <2>1, <2>2, <3>1, <4>1
    <3>2. a \in Address
      BY <1>1, <2>1, <3>1, MallocLemma
    <3> QED
      BY <1>1, <2>1, <3>2, MallocLemma
  <2> QED
    BY <2>1, <2>2 DEF ConstantsNumberedOnce
<1>4. ASSUME NEW r \in Symrec, Numbers(r)
      PROVE  ConstantsNumberedOnce'
  <2> DEFINE rs == <<r>>
  <2>1. /\ Malloc(rs) /\ rs \in Seq(Symrec) /\ Len(rs) = 1 /\ rs[1] = r
        /\ r.bp_off = constant_counter /\ constant_counter' = constant_counter + 1
    BY <1>4 DEF Numbers
  <2> HIDE DEF rs
  <2>2. ASSUME NEW a \in Address'
        PROVE  \/ a \in Address /\ heap'[a] = heap[a]
               \/ a = Len(heap) + 1 /\ heap'[a] = r
    <3>1. \/ a \in Address
          \/ \E k \in 1 .. Len(rs) : a = Len(heap) + k
      BY <1>1, <2>1, MallocLemma
    <3>2. \A k \in 1 .. Len(rs) : k = 1
      BY <2>1
    <3>3. heap'[Len(heap) + 1] = r
      <4>1. \A k \in 1 .. Len(rs) : heap'[Len(heap) + k] = rs[k]
        BY <1>1, <2>1, MallocLemma
      <4>2. 1 \in 1 .. Len(rs)
        BY <2>1
      <4> QED
        BY <2>1, <4>1, <4>2
    <3>4. a \in Address => heap'[a] = heap[a]
      BY <1>1, <2>1, MallocLemma
    <3> QED
      BY <3>1, <3>2, <3>3, <3>4
  <2>3. \A a \in Address' : heap'[a].spec = "CONST" => heap'[a].bp_off < constant_counter'
    BY <1>1, <2>1, <2>2 DEF ConstantsNumberedOnce
  <2>4. ASSUME NEW a \in Address', NEW b \in Address', a # b,
               heap'[a].spec = "CONST", heap'[b].spec = "CONST"
        PROVE  heap'[a].bp_off # heap'[b].bp_off
    <3>1. ASSUME NEW x \in Address, heap[x].spec = "CONST"
          PROVE  heap[x].bp_off # constant_counter
      BY <1>1, <3>1 DEF ConstantsNumberedOnce
    <3>2. CASE a \in Address /\ b \in Address /\ heap'[a] = heap[a] /\ heap'[b] = heap[b]
      BY <2>4, <3>2 DEF ConstantsNumberedOnce
    <3> QED
      BY <2>1, <2>2, <2>4, <3>1, <3>2
  <2> QED
    BY <2>3, <2>4 DEF ConstantsNumberedOnce
<1> QED
  BY <1>2, <1>3, <1>4, HeapStep

(* One counter numbers all constants of a program, and is never reset: no  *)
(* two declared constants share a number, and no literal takes the number  *)
(* of one.                                                                  *)
THEOREM ConstantNumbers == Spec => []ConstantsNumberedOnce
<1>1. Init => ConstantsNumberedOnce
  BY DEF Init, ConstantsNumberedOnce, Address
<1>2. TypeInv /\ ConstantsNumberedOnce /\ [Next]_vars => ConstantsNumberedOnce'
  BY ConstantsStep
<1> QED
  BY <1>1, <1>2, TypeCorrect, PTL DEF Spec

-----------------------------------------------------------------------------
(* Functions                                                               *)

(* While the parser runs, procedure_counter counts the functions written,  *)
(* all of them procedures, and every open block but the program's belongs  *)
(* to one.                                                                  *)
FunctionsSoFar ==
  /\ status \in {"start", "parsing"} =>
       /\ procedure_counter = Len(functions)
       /\ \A k \in 1 .. Len(functions) : functions[k].proc # NULL
  /\ \A i \in 2 .. Len(blocks) : blocks[i].proc # NULL

FunctionsInv == FunctionsNumberedInOrder /\ FunctionsSoFar

(* Nothing is written, and no block changes hands. *)
SameFunctions ==
  /\ UNCHANGED <<functions, procedure_counter>>
  /\ status' \in {"start", "parsing"} => status \in {"start", "parsing"}
  /\ Len(blocks') = Len(blocks)
  /\ \A i \in 1 .. Len(blocks) : blocks'[i].proc = blocks[i].proc

LEMMA BlockKept ==
  ASSUME TypeInv, status = "parsing", NEW phase \in Phases, NEW n \in Nat, NEW m \in Nat
  PROVE  LET bs == [blocks EXCEPT ![Len(blocks)] = Advance(Block, phase, n, m)]
         IN  /\ bs \in Seq(BlockRecord) /\ Len(bs) = Len(blocks)
             /\ \A i \in 1 .. Len(blocks) : bs[i].proc = blocks[i].proc
<1> DEFINE b == Advance(Block, phase, n, m)
<1>1. b \in BlockRecord /\ b.proc = Block.proc
  <2>1. Block \in [proc : Pointer, phase : Phases, vars : Nat, nested : Nat]
    BY ParsingTypes DEF BlockRecord
  <2>2. /\ b \in [proc : Pointer, phase : Phases, vars : Nat, nested : Nat]
        /\ b.proc = Block.proc
    <3>1. Block.vars + n \in Nat /\ Block.nested + m \in Nat /\ Block.proc \in Pointer
      BY <2>1
    <3> QED
      BY <3>1 DEF Advance
  <2> QED
    BY <2>2 DEF BlockRecord
<1> HIDE DEF b
<1> QED
  BY <1>1, SetBlockType DEF b

LEMMA SameFunctionsOfStatements ==
  ASSUME TypeInv, NEW id \in Id, NEW n \in 0 .. MaxGroup,
         \/ AssignmentStatement(id) \/ Operand(id) \/ ProcedureStatement(id, n)
         \/ Literal \/ RealLiteral
  PROVE  SameFunctions
<1>1. ASSUME status = "parsing", NEW how, Stop(how)
      PROVE  SameFunctions
  BY <1>1 DEF Stop, SameFunctions
<1>2. ASSUME NEW op, NEW arg, NEW sym, status = "parsing", Emit(op, arg, sym)
      PROVE  SameFunctions
  <2>1. blocks' = [blocks EXCEPT ![Len(blocks)] = Advance(Block, "body", 0, 0)]
        /\ UNCHANGED <<functions, procedure_counter, status>>
    BY <1>2 DEF Emit, SetBlock
  <2>2. "body" \in Phases
    BY DEF Phases
  <2>3. Len(blocks') = Len(blocks)
        /\ \A i \in 1 .. Len(blocks) : blocks'[i].proc = blocks[i].proc
    BY <1>2, <2>1, <2>2, BlockKept
  <2> QED
    BY <1>2, <2>1, <2>3 DEF SameFunctions
<1>3. CASE AssignmentStatement(id)
  BY <1>1, <1>2, <1>3 DEF AssignmentStatement, YYERROR, Generate
<1>4. CASE Operand(id)
  BY <1>1, <1>2, <1>4 DEF Operand, YYERROR, Generate
<1>5. CASE ProcedureStatement(id, n)
  BY <1>1, <1>2, <1>5 DEF ProcedureStatement, YYERROR, Generate
<1>6. CASE Literal
  BY <1>2, <1>6 DEF Literal
<1>7. CASE RealLiteral
  BY <1>1, <1>7 DEF RealLiteral
<1> QED
  BY <1>3, <1>4, <1>5, <1>6, <1>7

LEMMA SameFunctionsKeep ==
  ASSUME TypeInv, FunctionsInv, SameFunctions
  PROVE  FunctionsInv'
<1>1. /\ functions' = functions /\ procedure_counter' = procedure_counter
      /\ status' \in {"start", "parsing"} => status \in {"start", "parsing"}
  BY DEF SameFunctions
<1>2. FunctionsNumberedInOrder'
  BY <1>1 DEF FunctionsInv, FunctionsNumberedInOrder
<1>3. ASSUME status' \in {"start", "parsing"}
      PROVE  /\ procedure_counter' = Len(functions')
             /\ \A k \in 1 .. Len(functions') : functions'[k].proc # NULL
  BY <1>1, <1>3 DEF FunctionsInv, FunctionsSoFar
<1>4. ASSUME NEW i \in 2 .. Len(blocks') PROVE blocks'[i].proc # NULL
  <2>1. i \in 2 .. Len(blocks)
    BY DEF SameFunctions
  <2>2. i \in 1 .. Len(blocks)
    <3>1. Len(blocks) \in Nat
      BY LenProperties DEF TypeInv, TypeOK
    <3> QED
      BY <2>1, <3>1
  <2> QED
    BY <2>1, <2>2 DEF FunctionsInv, FunctionsSoFar, SameFunctions
<1> QED
  BY <1>2, <1>3, <1>4 DEF FunctionsInv, FunctionsSoFar

LEMMA FunctionsStep ==
  ASSUME TypeInv, FunctionsInv, [Next]_vars
  PROVE  FunctionsInv'
<1>1. CASE ForceInitialization
  <2>1. /\ status = "start" /\ status' = "parsing" /\ blocks' = <<NewBlock(NULL)>>
        /\ UNCHANGED <<functions, procedure_counter>>
    BY <1>1 DEF ForceInitialization
  <2>2. Len(blocks') = 1
    BY <2>1
  <2> QED
    BY <2>1, <2>2 DEF FunctionsInv, FunctionsNumberedInOrder, FunctionsSoFar
<1>2. ASSUME NEW id \in Id, ConstantDefinition(id)
      PROVE  SameFunctions
  BY <1>2 DEF ConstantDefinition, SameFunctions
<1>3. ASSUME NEW ids \in IdLists, VariableDefinition(ids)
      PROVE  SameFunctions
  <2>1. /\ status = "parsing" /\ UNCHANGED <<functions, procedure_counter, status>>
        /\ blocks' = [blocks EXCEPT ![Len(blocks)] = Advance(Block, "var", Len(ids), 0)]
    BY <1>3 DEF VariableDefinition, InPhase, SetBlock
  <2>2. Len(ids) \in Nat /\ "var" \in Phases
    BY IdListsAreSeqs, LenProperties DEF Phases
  <2> QED
    BY <2>1, <2>2, BlockKept DEF SameFunctions
<1>4. ASSUME NEW id \in Id, NEW params \in IdLists, ProcedureBlock(id, params)
      PROVE  FunctionsInv'
  <2> DEFINE s  == Len(heap) + Len(params) + 1
             bs == [blocks EXCEPT ![Len(blocks)] = Advance(Block, "proc", 0, 1)]
  <2>1. /\ status = "parsing" /\ UNCHANGED <<functions, procedure_counter, status>>
        /\ blocks' = Append(bs, NewBlock(s))
    BY <1>4 DEF ProcedureBlock, InPhase
  <2>2. s \in Nat /\ s # NULL
    <3>1. s \in Nat
      BY IdListsAreSeqs, LenProperties DEF TypeInv, TypeOK
    <3> QED
      BY <3>1, DeclarationsAssumption DEF DeclarationsAssumption
  <2>3. "proc" \in Phases
    BY DEF Phases
  <2>4. /\ bs \in Seq(BlockRecord) /\ Len(bs) = Len(blocks)
        /\ \A i \in 1 .. Len(blocks) : bs[i].proc = blocks[i].proc
    BY <2>1, <2>3, BlockKept
  <2>5. NewBlock(s).proc = s
    BY DEF NewBlock
  <2> HIDE DEF s, bs
  <2>6. /\ Len(blocks) \in Nat /\ Len(blocks') = Len(blocks) + 1
        /\ \A i \in 1 .. Len(blocks) : blocks'[i].proc = blocks[i].proc
        /\ blocks'[Len(blocks) + 1].proc = s
    BY <2>1, <2>4, <2>5, ParsingTypes
  <2>7. ASSUME NEW i \in 2 .. Len(blocks') PROVE blocks'[i].proc # NULL
    <3>1. i \in 2 .. Len(blocks) \cap 1 .. Len(blocks) \/ i = Len(blocks) + 1
      BY <2>6
    <3> QED
      BY <2>2, <2>6, <3>1 DEF FunctionsInv, FunctionsSoFar
  <2> QED
    BY <2>1, <2>7 DEF FunctionsInv, FunctionsNumberedInOrder, FunctionsSoFar
<1>5. ASSUME status = "parsing", functions' = Append(functions, Header(Block)),
             \/ procedure_counter' = procedure_counter + 1 /\ Block.proc # NULL
             \/ status' \notin {"start", "parsing"},
             \A i \in 2 .. Len(blocks') : blocks'[i].proc # NULL
      PROVE  FunctionsInv'
  <2>1. functions \in Seq(FunctionRecord) /\ Len(functions) \in Nat
    BY LenProperties DEF TypeInv, TypeOK
  <2>2. /\ Len(functions') = Len(functions) + 1
        /\ \A k \in 1 .. Len(functions) : functions'[k] = functions[k]
        /\ functions'[Len(functions) + 1] = Header(Block)
    BY <1>5, <2>1, AppendProperties
  <2>3. Header(Block).index = procedure_counter /\ Header(Block).proc = Block.proc
    BY DEF Header
  <2>4. /\ procedure_counter = Len(functions)
        /\ \A k \in 1 .. Len(functions) : functions[k].proc # NULL /\ functions[k].index = k - 1
    BY <1>5 DEF FunctionsInv, FunctionsNumberedInOrder, FunctionsSoFar
  <2>5. ASSUME NEW k \in 1 .. Len(functions')
        PROVE  \/ k \in 1 .. Len(functions) /\ functions'[k] = functions[k]
               \/ k = Len(functions') /\ k - 1 = Len(functions) /\ functions'[k] = Header(Block)
    BY <2>1, <2>2
  <2>6. FunctionsNumberedInOrder'
    BY <2>3, <2>4, <2>5 DEF FunctionsNumberedInOrder
  <2>7. FunctionsSoFar'
    BY <1>5, <2>2, <2>3, <2>4, <2>5 DEF FunctionsSoFar
  <2> QED
    BY <2>6, <2>7 DEF FunctionsInv
<1>6. CASE ProcedureDefinition
  <2>1. /\ status = "parsing" /\ Len(blocks) > 1
        /\ functions' = Append(functions, Header(Block))
        /\ procedure_counter' = procedure_counter + 1
        /\ blocks' = SubSeq(blocks, 1, Len(blocks) - 1)
    BY <1>6 DEF ProcedureDefinition
  <2>2. Len(blocks) \in 2 .. Len(blocks)
    BY <2>1, ParsingTypes
  <2>3. Block.proc # NULL
    BY <2>2 DEF FunctionsInv, FunctionsSoFar, Block
  <2>4. ASSUME NEW i \in 2 .. Len(blocks') PROVE blocks'[i].proc # NULL
    <3>1. blocks \in Seq(BlockRecord) /\ Len(blocks) \in Nat
      BY LenProperties DEF TypeInv, TypeOK
    <3>2. Len(blocks') = Len(blocks) - 1
          /\ \A j \in 1 .. Len(blocks) - 1 : blocks'[j] = blocks[j]
      BY <2>1, <3>1, SubSeqProperties
    <3>3. i \in 1 .. Len(blocks) - 1 /\ i \in 2 .. Len(blocks)
      BY <3>1, <3>2
    <3> QED
      BY <3>2, <3>3 DEF FunctionsInv, FunctionsSoFar
  <2> QED
    BY <1>5, <2>1, <2>3, <2>4
<1>7. CASE Program
  <2>1. /\ status = "parsing" /\ status' = "accepted" /\ blocks' = <<>>
        /\ functions' = Append(functions, Header(Block))
    BY <1>7 DEF Program
  <2>2. Len(blocks') = 0
    BY <2>1
  <2> QED
    BY <1>5, <2>1, <2>2
<1>8. ASSUME NEW id \in Id, NEW n \in 0 .. MaxGroup,
             \/ AssignmentStatement(id) \/ Operand(id) \/ ProcedureStatement(id, n)
             \/ Literal \/ RealLiteral
      PROVE  SameFunctions
  BY <1>8, SameFunctionsOfStatements
<1>9. 0 \in 0 .. MaxGroup /\ PrintId \in Id
  BY DeclarationsAssumption DEF DeclarationsAssumption
<1>10. CASE Literal \/ RealLiteral
  BY <1>8, <1>9, <1>10, SameFunctionsKeep
<1>11. ASSUME NEW id \in Id, AssignmentStatement(id) \/ Operand(id)
       PROVE  SameFunctions
  BY <1>8, <1>9, <1>11
<1>12. ASSUME \/ \E id \in Id : ConstantRedefinition(id)
              \/ \E id \in Id, params \in IdLists :
                   ProcedureRedeclared(id, params) \/ VariableStackOverflow(id, params)
              \/ \E ids \in IdLists : DuplicateInGroup(ids)
              \/ SyntaxError
       PROVE  SameFunctions
  BY <1>12, Stops DEF SameFunctions
<1>13. CASE UNCHANGED vars
  BY <1>13, SameFunctionsKeep DEF vars, SameFunctions
<1> QED
  BY <1>1, <1>2, <1>3, <1>4, <1>6, <1>7, <1>8, <1>10, <1>11, <1>12, <1>13,
     SameFunctionsKeep DEF Next, Stopped

(* The functions of a program are numbered 0, 1, 2, ... as they are        *)
(* written, however its procedures nest, and the program comes last.       *)
THEOREM FunctionNumbers == Spec => []FunctionsNumberedInOrder
<1>1. Init => FunctionsInv
  BY DEF Init, FunctionsInv, FunctionsNumberedInOrder, FunctionsSoFar
<1>2. TypeInv /\ FunctionsInv /\ [Next]_vars => FunctionsInv'
  BY FunctionsStep
<1>3. FunctionsInv => FunctionsNumberedInOrder
  BY DEF FunctionsInv
<1> QED
  BY <1>1, <1>2, <1>3, TypeCorrect, PTL DEF Spec

-----------------------------------------------------------------------------
(* The tables after each reduction                                         *)

(* The entry of x in the i-th table is the one of the state before. *)
Kept(i, x) == i \in 1 .. Depth /\ scope_stack'[i][x] = scope_stack[i][x]

(* The addresses of the records that a reduction allocated. *)
New == Len(heap) + 1 .. Len(heap')

LEMMA TableType ==
  ASSUME TypeOK
  PROVE  /\ scope_stack \in Seq([Id -> Pointer]) /\ Depth \in Nat /\ Len(heap) \in Nat
         /\ \A i \in 1 .. Depth : /\ scope_stack[i] \in [Id -> Pointer]
                                  /\ \A x \in Id : scope_stack[i][x] \in Pointer
         /\ \A a \in Address : heap[a] \in Symrec /\ a \in Nat /\ a # NULL
<1>1. scope_stack \in Seq([Id -> Pointer]) /\ Depth \in Nat /\ Len(heap) \in Nat
  BY LenProperties DEF TypeOK, Depth
<1>2. \A i \in 1 .. Depth : scope_stack[i] \in [Id -> Pointer]
  BY <1>1, ElementOfSeq DEF Depth
<1>3. \A a \in Address : heap[a] \in Symrec
  BY ElementOfSeq DEF TypeOK, Address
<1>4. \A a \in Address : a \in Nat /\ a # NULL
  BY <1>1, DeclarationsAssumption DEF Address, DeclarationsAssumption
<1> QED
  BY <1>1, <1>2, <1>3, <1>4

(* One entry of the innermost table is replaced. *)
LEMMA AssignedTable ==
  ASSUME TypeOK, Depth > 0, NEW t, Assign(t)
  PROVE  /\ Depth' = Depth /\ Depth \in 1 .. Depth
         /\ scope_stack'[Depth] = t
         /\ \A i \in 1 .. Depth : i # Depth => scope_stack'[i] = scope_stack[i]
BY TableType DEF Assign, Depth

LEMMA ConstantTables ==
  ASSUME TypeInv, NEW id \in Id, ConstantDefinition(id)
  PROVE  LET r == NewSymrec("CONST", id, NULL, constant_counter)
         IN  /\ r \in Symrec /\ Malloc(<<r>>) /\ status = "parsing" /\ status' = status
             /\ Len(heap') = Len(heap) + 1 /\ heap'[Len(heap) + 1] = r
             /\ Depth' = Depth /\ Depth \in 1 .. Depth
             /\ \A i \in 1 .. Depth : \A x \in Id :
                  scope_stack'[i][x] = IF i = Depth /\ x = id THEN Len(heap) + 1
                                       ELSE scope_stack[i][x]
             /\ scope_stack[Depth][id] = NULL
             /\ UNCHANGED <<blocks, variable_stack, procedure_counter, functions>>
<1> DEFINE r  == NewSymrec("CONST", id, NULL, constant_counter)
           rs == <<r>>
           t  == [TopScope EXCEPT ![id] = Len(heap) + 1]
<1>1. r \in Symrec
  BY DEF NewSymrec, Symrec, Species, TypeInv, TypeOK
<1>2. /\ status = "parsing" /\ status' = status /\ Malloc(rs) /\ Assign(t)
      /\ TopScope[id] = NULL
      /\ UNCHANGED <<blocks, variable_stack, procedure_counter, functions>>
  BY DEF ConstantDefinition, InPhase, SetTopScope, Assign, search_in_current_scope
<1>3. TypeOK /\ Depth > 0 /\ TopScope \in [Id -> Pointer]
  BY <1>2, ParsingTypes DEF TypeInv, Shape
<1> HIDE DEF r
<1>4. Len(heap') = Len(heap) + 1 /\ heap'[Len(heap) + 1] = r
  <2>1. rs \in Seq(Symrec) /\ Len(rs) = 1 /\ rs[1] = r
    BY <1>1
  <2> HIDE DEF rs
  <2>2. /\ Len(heap') = Len(heap) + Len(rs)
        /\ \A k \in 1 .. Len(rs) : heap'[Len(heap) + k] = rs[k]
    BY <1>2, <1>3, <2>1, MallocLemma
  <2>3. 1 \in 1 .. Len(rs)
    BY <2>1
  <2> QED
    BY <2>1, <2>2, <2>3
<1>5. /\ Depth' = Depth /\ Depth \in 1 .. Depth /\ scope_stack'[Depth] = t
      /\ \A i \in 1 .. Depth : i # Depth => scope_stack'[i] = scope_stack[i]
  BY <1>2, <1>3, AssignedTable
<1>6. \A x \in Id : t[x] = IF x = id THEN Len(heap) + 1 ELSE scope_stack[Depth][x]
  BY <1>3 DEF TopScope
<1> HIDE DEF t
<1>7. \A i \in 1 .. Depth : \A x \in Id :
        scope_stack'[i][x] = IF i = Depth /\ x = id THEN Len(heap) + 1
                             ELSE scope_stack[i][x]
  BY <1>5, <1>6
<1> QED
  BY <1>1, <1>2, <1>4, <1>5, <1>7 DEF r, TopScope

(* add_to_scope of names that differ gives each name its own record. *)
LEMMA PutAllEntries ==
  ASSUME NEW table, NEW ids \in Seq(Id), IsInjective(ids), NEW base \in Nat
  PROVE  /\ \A k \in 1 .. Len(ids) : PutAll(table, ids, base)[ids[k]] = base + k
         /\ \A x \in Id \ Range(ids) : PutAll(table, ids, base)[x] = table[x]
<1>1. DOMAIN ids = 1 .. Len(ids) /\ Len(ids) \in Nat /\ \A k \in 1 .. Len(ids) : ids[k] \in Id
  BY LenProperties
<1>2. ASSUME NEW k \in 1 .. Len(ids)
      PROVE  PutAll(table, ids, base)[ids[k]] = base + k
  <2>1. ids[k] \in Range(ids) /\ ids[k] \in Id
    BY <1>1 DEF Range
  <2>2. \A i \in DOMAIN ids : ids[i] = ids[k] => i = k
    BY <1>1 DEF IsInjective
  <2>3. (CHOOSE i \in DOMAIN ids : ids[i] = ids[k]) = k
    BY <1>1, <2>2
  <2> QED
    BY <2>1, <2>3 DEF PutAll
<1> QED
  BY <1>2 DEF PutAll

LEMMA VariableTables ==
  ASSUME TypeInv, NEW ids \in IdLists, VariableDefinition(ids)
  PROVE  LET rs == NewGroup("VAR", ids, Counter)
             n  == Len(ids)
         IN  /\ rs \in Seq(Symrec) /\ Malloc(rs) /\ status = "parsing" /\ status' = status
             /\ ids \in Seq(Id) /\ IsInjective(ids) /\ n \in Nat /\ Len(heap') = Len(heap) + n
             /\ \A k \in 1 .. n :
                  heap'[Len(heap) + k] = NewSymrec("VAR", ids[k], NULL, Counter + k - 1)
             /\ Depth' = Depth /\ Depth \in 1 .. Depth
             /\ \A i \in 1 .. Depth : \A x \in Id :
                  i # Depth \/ x \notin Range(ids) => scope_stack'[i][x] = scope_stack[i][x]
             /\ \A k \in 1 .. n : scope_stack'[Depth][ids[k]] = Len(heap) + k
             /\ UNCHANGED <<procedure_counter, functions>>
<1> DEFINE rs == NewGroup("VAR", ids, Counter)
           n  == Len(ids)
           t  == PutAll(TopScope, ids, Len(heap))
<1>1. /\ status = "parsing" /\ status' = status /\ Malloc(rs) /\ Assign(t)
      /\ IsInjective(ids) /\ UNCHANGED <<procedure_counter, functions>>
  BY DEF VariableDefinition, InPhase, SetTopScope, Assign
<1>2. ids \in Seq(Id) /\ n \in Nat /\ Counter \in Nat /\ TypeOK /\ Depth > 0
      /\ Len(heap) \in Nat /\ Depth \in Nat
  BY <1>1, IdListsAreSeqs, LenProperties, CounterType, TableType DEF TypeInv, Shape
<1>3. /\ rs \in Seq(Symrec) /\ Len(rs) = n
      /\ \A k \in 1 .. n : rs[k] = NewSymrec("VAR", ids[k], NULL, Counter + k - 1)
  BY <1>2, NewGroupType DEF Species
<1> HIDE DEF rs
<1>4. /\ Len(heap') = Len(heap) + n
      /\ \A k \in 1 .. n : heap'[Len(heap) + k] = rs[k]
  BY <1>1, <1>2, <1>3, MallocLemma
<1>5. /\ Depth' = Depth /\ Depth \in 1 .. Depth /\ scope_stack'[Depth] = t
      /\ \A i \in 1 .. Depth : i # Depth => scope_stack'[i] = scope_stack[i]
  BY <1>1, <1>2, AssignedTable
<1>6. /\ \A k \in 1 .. n : t[ids[k]] = Len(heap) + k
      /\ \A x \in Id \ Range(ids) : t[x] = TopScope[x]
  BY <1>1, <1>2, PutAllEntries
<1> HIDE DEF t
<1>7. \A i \in 1 .. Depth : \A x \in Id :
        i # Depth \/ x \notin Range(ids) => scope_stack'[i][x] = scope_stack[i][x]
  BY <1>5, <1>6 DEF TopScope
<1> QED
  BY <1>1, <1>2, <1>3, <1>4, <1>5, <1>6, <1>7 DEF rs

LEMMA ProcedureTables ==
  ASSUME TypeInv, NEW id \in Id, NEW params \in IdLists, ProcedureBlock(id, params)
  PROVE  LET rs   == ProcedureRecords(id, params)
             n    == Len(params)
             s    == Len(heap) + n + 1
             list == [i \in 1 .. n |-> Len(heap) + i]
         IN  /\ rs \in Seq(Symrec) /\ Malloc(rs) /\ status = "parsing" /\ status' = status
             /\ params \in Seq(Id) /\ IsInjective(params) /\ n \in Nat
             /\ Len(heap') = Len(heap) + 2 * n + 1 /\ Len(list) = n
             /\ heap'[s] = NewSymrec("PROCEDURE", id, list, procedure_counter)
             /\ \A k \in 1 .. n : heap'[Len(heap) + k] = Parameter(params, k)
             /\ \A k \in 1 .. n : heap'[s + k] = Parameter(params, k)
             /\ Depth' = Depth + 1 /\ Depth \in 1 .. Depth
             /\ \A i \in 1 .. Depth : \A x \in Id :
                  scope_stack'[i][x] = IF i = Depth /\ x = id THEN s ELSE scope_stack[i][x]
             /\ scope_stack[Depth][id] = NULL
             /\ \A k \in 1 .. n : scope_stack'[Depth + 1][params[k]] = s + k
             /\ \A x \in Id \ Range(params) : scope_stack'[Depth + 1][x] = NULL
             /\ UNCHANGED <<procedure_counter, functions>>
<1> DEFINE rs   == ProcedureRecords(id, params)
           n    == Len(params)
           s    == Len(heap) + n + 1
           list == [i \in 1 .. n |-> Len(heap) + i]
           t    == [TopScope EXCEPT ![id] = s]
           u    == PutAll(EmptyTable, params, s)
           ss   == [scope_stack EXCEPT ![Depth] = t]
<1>1. /\ status = "parsing" /\ status' = status /\ Malloc(rs)
      /\ scope_stack' = Append(ss, u)
      /\ IsInjective(params) /\ TopScope[id] = NULL
      /\ UNCHANGED <<procedure_counter, functions>>
  BY DEF ProcedureBlock, InPhase, search_in_current_scope
<1>2. /\ params \in Seq(Id) /\ n \in Nat /\ TypeOK /\ Depth > 0 /\ Len(heap) \in Nat
      /\ Depth \in Nat /\ scope_stack \in Seq([Id -> Pointer]) /\ TopScope \in [Id -> Pointer]
      /\ s \in Nat
  BY <1>1, IdListsAreSeqs, LenProperties, TableType, ParsingTypes DEF TypeInv, Shape
<1>3. /\ rs \in Seq(Symrec) /\ Len(rs) = 2 * n + 1 /\ Len(list) = n
      /\ rs[n + 1] = NewSymrec("PROCEDURE", id, list, procedure_counter)
      /\ \A k \in 1 .. n : rs[k] = Parameter(params, k)
      /\ \A k \in n + 2 .. 2 * n + 1 : rs[k] = Parameter(params, k - n - 1)
  BY <1>2, ProcedureRecordsType
<1> HIDE DEF rs
<1>4. /\ Len(heap') = Len(heap) + (2 * n + 1)
      /\ \A k \in 1 .. 2 * n + 1 : heap'[Len(heap) + k] = rs[k]
  BY <1>1, <1>2, <1>3, MallocLemma
<1>5. heap'[s] = rs[n + 1] /\ \A k \in 1 .. n : heap'[Len(heap) + k] = rs[k]
  <2>1. n + 1 \in 1 .. 2 * n + 1 /\ Len(heap) + (n + 1) = s
    BY <1>2
  <2>2. \A k \in 1 .. n : k \in 1 .. 2 * n + 1
    BY <1>2
  <2> HIDE DEF s, n
  <2> QED
    BY <1>4, <2>1, <2>2
<1>6. ASSUME NEW k \in 1 .. n PROVE heap'[s + k] = Parameter(params, k)
  <2> DEFINE j == n + 1 + k
  <2>1. j \in 1 .. 2 * n + 1 /\ j \in n + 2 .. 2 * n + 1 /\ j - n - 1 = k
        /\ Len(heap) + j = s + k
    BY <1>2
  <2> HIDE DEF j, s, n
  <2> QED
    BY <1>3, <1>4, <2>1
<1>7. /\ \A k \in 1 .. n : u[params[k]] = s + k
      /\ \A x \in Id \ Range(params) : u[x] = NULL
  <2>1. /\ \A k \in 1 .. n : u[params[k]] = s + k
        /\ \A x \in Id \ Range(params) : u[x] = EmptyTable[x]
    BY <1>1, <1>2, PutAllEntries
  <2> HIDE DEF u
  <2> QED
    BY <2>1 DEF EmptyTable
<1>8. \A x \in Id : t[x] = IF x = id THEN s ELSE scope_stack[Depth][x]
  BY <1>2 DEF TopScope
<1> HIDE DEF t, u
<1>9. /\ Depth' = Depth + 1 /\ Depth \in 1 .. Depth
      /\ scope_stack'[Depth] = t /\ scope_stack'[Depth + 1] = u
      /\ \A i \in 1 .. Depth : i # Depth => scope_stack'[i] = scope_stack[i]
  <2> DEFINE T == [Id -> Pointer] \cup {t, u}
  <2>1. scope_stack \in Seq(T) /\ t \in T /\ u \in T
    BY <1>2, SeqMonotonic
  <2> HIDE DEF T
  <2>2. /\ ss \in Seq(T) /\ Len(ss) = Depth /\ ss[Depth] = t /\ Depth \in 1 .. Depth
        /\ \A i \in 1 .. Depth : i # Depth => ss[i] = scope_stack[i]
    BY <1>2, <2>1 DEF Depth
  <2> HIDE DEF ss
  <2>3. /\ Len(scope_stack') = Depth + 1 /\ scope_stack'[Depth + 1] = u
        /\ \A i \in 1 .. Depth : scope_stack'[i] = ss[i]
    BY <1>1, <2>1, <2>2, AppendProperties
  <2> QED
    BY <2>2, <2>3 DEF Depth
<1>10. \A i \in 1 .. Depth : \A x \in Id :
         scope_stack'[i][x] = IF i = Depth /\ x = id THEN s ELSE scope_stack[i][x]
  BY <1>8, <1>9
<1>11. Len(heap') = Len(heap) + 2 * n + 1
  BY <1>2, <1>4
<1> HIDE DEF n, s, list
<1> QED
  BY <1>1, <1>2, <1>3, <1>5, <1>6, <1>7, <1>9, <1>10, <1>11 DEF TopScope, rs, n, s, list

(* The end of a procedure, or of the program. *)
LEMMA ClosedTables ==
  ASSUME TypeInv, ProcedureDefinition \/ Program
  PROVE  /\ status = "parsing" /\ heap' = heap
         /\ live' = live \ Freed(TopScope)
         /\ Depth' = Depth - 1 /\ Depth \in 1 .. Depth
         /\ \A i \in 1 .. Depth' : i \in 1 .. Depth /\ i # Depth
                                  /\ scope_stack'[i] = scope_stack[i]
<1>1. /\ status = "parsing" /\ heap' = heap /\ live' = live \ Freed(TopScope)
      /\ scope_stack' = SubSeq(scope_stack, 1, Depth - 1)
  BY DEF ProcedureDefinition, Program, delete_scope
<1>2. /\ scope_stack \in Seq([Id -> Pointer]) /\ Depth \in 1 .. Depth /\ Depth \in Nat
      /\ Depth = Len(scope_stack)
  BY <1>1, ParsingTypes DEF TypeInv, TypeOK, Depth
<1>3. /\ Len(scope_stack') = Depth - 1
      /\ \A i \in 1 .. Depth - 1 : scope_stack'[i] = scope_stack[i]
  BY <1>1, <1>2, SubSeqProperties
<1> QED
  BY <1>1, <1>2, <1>3 DEF Depth

-----------------------------------------------------------------------------
(* Memory                                                                  *)

(* Before force_initialization nothing exists. *)
Beginning ==
  status = "start" =>
    /\ heap = <<>> /\ scope_stack = <<>> /\ functions = <<>> /\ variable_stack = <<0>>

(* An entry that a reduction keeps owns what it owned. *)
LEMMA OwnedKept ==
  ASSUME TypeInv, NEW records \in Seq(Symrec), Malloc(records),
         NEW i, NEW x \in Id, Kept(i, x)
  PROVE  Owned(i, x)' = Owned(i, x) /\ scope_stack'[i][x] = scope_stack[i][x]
         /\ (scope_stack[i][x] # NULL =>
               /\ scope_stack[i][x] \in Address
               /\ heap'[scope_stack[i][x]] = heap[scope_stack[i][x]])
<1>1. scope_stack'[i][x] = scope_stack[i][x] /\ scope_stack[i][x] \in Pointer
  BY TableType DEF Kept, TypeInv
<1>2. scope_stack[i][x] # NULL =>
        /\ scope_stack[i][x] \in Address
        /\ heap'[scope_stack[i][x]] = heap[scope_stack[i][x]]
  BY <1>1, MallocLemma DEF Pointer, TypeInv
<1> QED
  BY <1>1, <1>2 DEF Owned

(* The entries a reduction makes own new records only, each its own, and   *)
(* the list of a procedure does not contain a record twice.                *)
OwnNew ==
  \A i \in 1 .. Depth' : \A x \in Id : Kept(i, x) \/ Owned(i, x)' \subseteq New

OwnApart ==
  \A i, j \in 1 .. Depth' : \A x, y \in Id :
    ~ Kept(i, x) /\ ~ Kept(j, y) /\ <<i, x>> # <<j, y>>
      => Owned(i, x)' \cap Owned(j, y)' = {}

ListsApart ==
  \A i \in 1 .. Depth' : \A x \in Id :
    LET a == scope_stack'[i][x] IN
    ~ Kept(i, x) /\ a # NULL /\ heap'[a].spec = "PROCEDURE" =>
      /\ IsInjective(heap'[a].parameter_list)
      /\ a \notin Range(heap'[a].parameter_list)

LEMMA GrownMemory ==
  ASSUME TypeInv, MemorySafe, NEW records \in Seq(Symrec), Malloc(records),
         OwnNew, OwnApart, ListsApart
  PROVE  MemorySafe'
<1>1. /\ live' = live \cup New /\ live \subseteq Address /\ Len(heap) \in Nat
      /\ live \cap New = {}
  <2>1. TypeOK /\ live' = live \cup New /\ live \subseteq Address /\ Len(heap) \in Nat
    BY MallocLemma, TableType DEF TypeInv, TypeOK, New
  <2> QED
    BY <2>1 DEF Address, New
<1>2. ASSUME NEW i \in 1 .. Depth', NEW x \in Id, Kept(i, x)
      PROVE  Owned(i, x)' = Owned(i, x) /\ Owned(i, x) \subseteq live /\ i \in 1 .. Depth
  BY <1>2, OwnedKept DEF MemorySafe, Kept
<1>3. ASSUME NEW i \in 1 .. Depth', NEW x \in Id
      PROVE  Owned(i, x)' \subseteq live'
  BY <1>1, <1>2 DEF OwnNew
<1>4. ASSUME NEW i \in 1 .. Depth', NEW j \in 1 .. Depth', NEW x \in Id, NEW y \in Id,
             <<i, x>> # <<j, y>>
      PROVE  Owned(i, x)' \cap Owned(j, y)' = {}
  <2>1. CASE Kept(i, x) /\ Kept(j, y)
    BY <1>2, <1>4, <2>1 DEF MemorySafe
  <2>2. CASE Kept(i, x) /\ ~ Kept(j, y)
    <3>1. Owned(i, x)' \subseteq live /\ Owned(j, y)' \subseteq New
      BY <1>2, <2>2 DEF OwnNew
    <3> QED
      BY <1>1, <3>1
  <2>3. CASE ~ Kept(i, x) /\ Kept(j, y)
    <3>1. Owned(j, y)' \subseteq live /\ Owned(i, x)' \subseteq New
      BY <1>2, <2>3 DEF OwnNew
    <3> QED
      BY <1>1, <3>1
  <2>4. CASE ~ Kept(i, x) /\ ~ Kept(j, y)
    BY <1>4, <2>4 DEF OwnApart
  <2> QED
    BY <2>1, <2>2, <2>3, <2>4
<1>5. ASSUME NEW i \in 1 .. Depth', NEW x \in Id, HasSpec(scope_stack[i][x], {"PROCEDURE"})'
      PROVE  /\ IsInjective(heap'[scope_stack'[i][x]].parameter_list)
             /\ scope_stack'[i][x] \notin Range(heap'[scope_stack'[i][x]].parameter_list)
  <2>1. CASE Kept(i, x)
    <3> DEFINE a == scope_stack[i][x]
    <3>1. scope_stack'[i][x] = a /\ i \in 1 .. Depth
      BY <2>1 DEF Kept
    <3>2. a # NULL /\ heap'[a] = heap[a] /\ heap[a].spec \in {"PROCEDURE"}
      BY <1>5, <2>1, <3>1, OwnedKept DEF HasSpec
    <3> QED
      BY <3>1, <3>2 DEF MemorySafe, HasSpec
  <2> QED
    BY <1>5, <2>1 DEF ListsApart, HasSpec
<1> QED
  BY <1>3, <1>4, <1>5 DEF MemorySafe

(* An entry whose record has no parameter list owns that record alone. *)
LEMMA OwnedAlone ==
  ASSUME NEW i, NEW x, NEW a, a # NULL, scope_stack'[i][x] = a,
         heap'[a].parameter_list = NULL
  PROVE  Owned(i, x)' = {a}
BY DEF Owned

LEMMA ConstantMemory ==
  ASSUME TypeInv, MemorySafe, NEW id \in Id, ConstantDefinition(id)
  PROVE  MemorySafe'
<1> DEFINE r == NewSymrec("CONST", id, NULL, constant_counter)
           a == Len(heap) + 1
<1>1. /\ <<r>> \in Seq(Symrec) /\ Malloc(<<r>>)
      /\ Len(heap') = Len(heap) + 1 /\ heap'[a] = r
      /\ Depth' = Depth /\ Depth \in 1 .. Depth
      /\ \A i \in 1 .. Depth : \A x \in Id :
           scope_stack'[i][x] = IF i = Depth /\ x = id THEN a ELSE scope_stack[i][x]
  BY ConstantTables
<1>2. r.spec = "CONST" /\ r.parameter_list = NULL
  BY DEF NewSymrec
<1>3. a # NULL /\ a \in New
  BY <1>1, TableType, DeclarationsAssumption DEF TypeInv, New, DeclarationsAssumption
<1> HIDE DEF r, a
<1>4. ASSUME NEW i \in 1 .. Depth', NEW x \in Id, ~ Kept(i, x)
      PROVE  /\ i = Depth /\ x = id /\ scope_stack'[i][x] = a
             /\ Owned(i, x)' \subseteq New /\ heap'[a].spec # "PROCEDURE"
  <2>1. i = Depth /\ x = id /\ scope_stack'[i][x] = a
    BY <1>1, <1>4 DEF Kept
  <2> QED
    BY <1>1, <1>2, <1>3, <2>1, OwnedAlone
<1>5. OwnNew /\ OwnApart /\ ListsApart
  BY <1>4 DEF OwnNew, OwnApart, ListsApart
<1>6. <<r>> \in Seq(Symrec) /\ Malloc(<<r>>)
  BY <1>1
<1> QED
  BY <1>5, <1>6, GrownMemory

LEMMA VariableMemory ==
  ASSUME TypeInv, MemorySafe, NEW ids \in IdLists, VariableDefinition(ids)
  PROVE  MemorySafe'
<1> DEFINE rs == NewGroup("VAR", ids, Counter)
           n  == Len(ids)
<1>1. /\ rs \in Seq(Symrec) /\ Malloc(rs) /\ ids \in Seq(Id) /\ IsInjective(ids)
      /\ n \in Nat /\ Len(heap') = Len(heap) + n
      /\ \A k \in 1 .. n : heap'[Len(heap) + k] = NewSymrec("VAR", ids[k], NULL, Counter + k - 1)
      /\ Depth' = Depth /\ Depth \in 1 .. Depth
      /\ \A i \in 1 .. Depth : \A x \in Id :
           i # Depth \/ x \notin Range(ids) => scope_stack'[i][x] = scope_stack[i][x]
      /\ \A k \in 1 .. n : scope_stack'[Depth][ids[k]] = Len(heap) + k
  BY VariableTables
<1>2. Len(heap) \in Nat /\ DOMAIN ids = 1 .. n
  BY <1>1, TableType, LenProperties DEF TypeInv
<1> HIDE DEF rs, n
<1>3. ASSUME NEW i \in 1 .. Depth', NEW x \in Id, ~ Kept(i, x)
      PROVE  /\ i = Depth
             /\ \E k \in 1 .. n :
                  LET a == Len(heap) + k IN
                  /\ x = ids[k] /\ scope_stack'[i][x] = a /\ a \in New
                  /\ heap'[a].spec = "VAR" /\ Owned(i, x)' = {a}
  <2>1. i = Depth /\ x \in Range(ids)
    BY <1>1, <1>3 DEF Kept
  <2>2. PICK k \in 1 .. n : x = ids[k]
    BY <1>2, <2>1 DEF Range
  <2> DEFINE a == Len(heap) + k
  <2>3. scope_stack'[i][x] = a /\ heap'[a] = NewSymrec("VAR", ids[k], NULL, Counter + k - 1)
    BY <1>1, <2>1, <2>2
  <2>4. heap'[a].spec = "VAR" /\ heap'[a].parameter_list = NULL
    BY <2>3 DEF NewSymrec
  <2>5. a \in New /\ a # NULL
    BY <1>1, <1>2, DeclarationsAssumption DEF New, DeclarationsAssumption
  <2> HIDE DEF a
  <2>6. Owned(i, x)' = {a}
    BY <2>3, <2>4, <2>5, OwnedAlone
  <2> QED
    BY <2>1, <2>2, <2>3, <2>4, <2>5, <2>6 DEF a
<1>4. OwnNew /\ ListsApart
  BY <1>3 DEF OwnNew, ListsApart
<1>5. OwnApart
  <2> SUFFICES ASSUME NEW i \in 1 .. Depth', NEW j \in 1 .. Depth', NEW x \in Id, NEW y \in Id,
                      ~ Kept(i, x), ~ Kept(j, y), <<i, x>> # <<j, y>>
               PROVE  Owned(i, x)' \cap Owned(j, y)' = {}
    BY DEF OwnApart
  <2>1. PICK k \in 1 .. n : x = ids[k] /\ Owned(i, x)' = {Len(heap) + k}
    BY <1>3
  <2>2. PICK l \in 1 .. n : y = ids[l] /\ Owned(j, y)' = {Len(heap) + l}
    BY <1>3
  <2>3. i = j
    BY <1>3
  <2>4. k # l
    BY <2>1, <2>2, <2>3
  <2> QED
    BY <1>1, <1>2, <2>1, <2>2, <2>4
<1> QED
  BY <1>1, <1>4, <1>5, GrownMemory

LEMMA ProcedureMemory ==
  ASSUME TypeInv, MemorySafe, NEW id \in Id, NEW params \in IdLists,
         ProcedureBlock(id, params)
  PROVE  MemorySafe'
<1> DEFINE rs   == ProcedureRecords(id, params)
           n    == Len(params)
           h    == Len(heap)
           s    == Len(heap) + n + 1
           list == [i \in 1 .. n |-> Len(heap) + i]
<1>1. /\ rs \in Seq(Symrec) /\ Malloc(rs) /\ params \in Seq(Id) /\ IsInjective(params)
      /\ n \in Nat /\ Len(heap') = Len(heap) + 2 * n + 1
      /\ heap'[s] = NewSymrec("PROCEDURE", id, list, procedure_counter)
      /\ \A k \in 1 .. n : heap'[s + k] = Parameter(params, k)
      /\ Depth' = Depth + 1 /\ Depth \in 1 .. Depth
      /\ \A i \in 1 .. Depth : \A x \in Id :
           scope_stack'[i][x] = IF i = Depth /\ x = id THEN s ELSE scope_stack[i][x]
      /\ \A k \in 1 .. n : scope_stack'[Depth + 1][params[k]] = s + k
      /\ \A x \in Id \ Range(params) : scope_stack'[Depth + 1][x] = NULL
  BY ProcedureTables
<1>2. /\ h \in Nat /\ Depth \in Nat /\ DOMAIN params = 1 .. n /\ s \in Nat
      /\ Range(list) = h + 1 .. h + n /\ IsInjective(list) /\ list # NULL
      /\ New = h + 1 .. h + 2 * n + 1 /\ s = h + n + 1
  <2>1. h \in Nat /\ Depth \in Nat /\ DOMAIN params = 1 .. n /\ s \in Nat
    BY <1>1, TableType, LenProperties DEF TypeInv
  <2>2. \A a \in h + 1 .. h + n : a - h \in 1 .. n /\ list[a - h] = a
    BY <1>1, <2>1
  <2>3. \A k \in 1 .. n : list[k] = h + k /\ h + k \in h + 1 .. h + n
    BY <1>1, <2>1
  <2>4. DOMAIN list = 1 .. n
    OBVIOUS
  <2>5. list \in Seq(Nat)
    BY <1>1, <2>1, <2>3
  <2> HIDE DEF list, h
  <2>6. Range(list) = h + 1 .. h + n /\ IsInjective(list)
    BY <2>1, <2>2, <2>3, <2>4 DEF Range, IsInjective
  <2>7. list # NULL
    BY <2>5, DeclarationsAssumption DEF DeclarationsAssumption
  <2> QED
    BY <1>1, <2>1, <2>6, <2>7 DEF New, h
<1>3. heap'[s].spec = "PROCEDURE" /\ heap'[s].parameter_list = list
  BY <1>1 DEF NewSymrec
<1>4. \A k \in 1 .. n : heap'[s + k].spec = "PARAM" /\ heap'[s + k].parameter_list = NULL
  <2>1. \A k : /\ Parameter(params, k).spec = "PARAM"
               /\ Parameter(params, k).parameter_list = NULL
    BY DEF Parameter, NewSymrec
  <2> QED
    BY <1>1, <2>1
<1>5. s # NULL /\ \A k \in 1 .. n : s + k # NULL /\ s + k \in Nat
  BY <1>2, DeclarationsAssumption DEF DeclarationsAssumption
<1> HIDE DEF rs, list, n, s, h
<1>6. ASSUME NEW i \in 1 .. Depth', NEW x \in Id, ~ Kept(i, x)
      PROVE  \/ /\ i = Depth /\ x = id /\ scope_stack'[i][x] = s
                /\ Owned(i, x)' = {s} \cup (h + 1 .. h + n)
             \/ /\ i = Depth + 1 /\ x \notin Range(params) /\ scope_stack'[i][x] = NULL
                /\ Owned(i, x)' = {}
             \/ /\ i = Depth + 1
                /\ \E k \in 1 .. n : /\ x = params[k] /\ scope_stack'[i][x] = s + k
                                     /\ Owned(i, x)' = {s + k}
  <2>1. CASE i \in 1 .. Depth
    <3>1. i = Depth /\ x = id /\ scope_stack'[i][x] = s
      BY <1>1, <1>6, <2>1 DEF Kept
    <3>2. Owned(i, x)' = {s} \cup (h + 1 .. h + n)
      BY <1>2, <1>3, <1>5, <3>1 DEF Owned
    <3> QED
      BY <3>1, <3>2
  <2>2. CASE i = Depth + 1 /\ x \notin Range(params)
    <3>1. scope_stack'[i][x] = NULL
      BY <1>1, <2>2
    <3>2. Owned(i, x)' = {}
      BY <3>1 DEF Owned
    <3> QED
      BY <2>2, <3>1, <3>2
  <2>3. CASE i = Depth + 1 /\ x \in Range(params)
    <3>1. PICK k \in 1 .. n : x = params[k]
      BY <1>2, <2>3 DEF Range
    <3>2. scope_stack'[i][x] = s + k
      BY <1>1, <2>3, <3>1
    <3>3. Owned(i, x)' = {s + k}
      BY <1>4, <1>5, <3>2, OwnedAlone
    <3> QED
      BY <2>3, <3>1, <3>2, <3>3
  <2> QED
    BY <1>1, <1>2, <2>1, <2>2, <2>3
<1>7. OwnNew
  <2>1. {s} \cup (h + 1 .. h + n) \subseteq New /\ \A k \in 1 .. n : s + k \in New
    BY <1>1, <1>2
  <2> QED
    BY <1>6, <2>1 DEF OwnNew
<1>8. ListsApart
  <2>1. s \notin Range(list)
    BY <1>1, <1>2
  <2> SUFFICES ASSUME NEW i \in 1 .. Depth', NEW x \in Id, ~ Kept(i, x),
                      scope_stack'[i][x] # NULL,
                      heap'[scope_stack'[i][x]].spec = "PROCEDURE"
               PROVE  scope_stack'[i][x] = s
    BY <1>2, <1>3, <2>1 DEF ListsApart
  <2>2. ASSUME NEW k \in 1 .. n PROVE scope_stack'[i][x] # s + k
    BY <1>4
  <2> QED
    BY <1>6, <2>2
<1>9. OwnApart
  <2> SUFFICES ASSUME NEW i \in 1 .. Depth', NEW j \in 1 .. Depth', NEW x \in Id, NEW y \in Id,
                      ~ Kept(i, x), ~ Kept(j, y), <<i, x>> # <<j, y>>
               PROVE  Owned(i, x)' \cap Owned(j, y)' = {}
    BY DEF OwnApart
  <2>1. \A k \in 1 .. n : s + k \notin {s} \cup (h + 1 .. h + n)
    BY <1>1, <1>2
  <2>2. \A k, l \in 1 .. n : s + k = s + l => k = l
    BY <1>1, <1>2
  <2>3. Depth # Depth + 1
    BY <1>2
  <2> QED
    BY <1>6, <2>1, <2>2, <2>3
<1> QED
  BY <1>1, <1>7, <1>8, <1>9, GrownMemory

LEMMA ClosedMemory ==
  ASSUME TypeInv, MemorySafe, ProcedureDefinition \/ Program
  PROVE  MemorySafe'
<1>1. /\ heap' = heap /\ live' = live \ Freed(TopScope) /\ Depth \in 1 .. Depth
      /\ \A i \in 1 .. Depth' : /\ i \in 1 .. Depth /\ i # Depth
                               /\ scope_stack'[i] = scope_stack[i]
  BY ClosedTables
<1>2. ASSUME NEW i \in 1 .. Depth', NEW x \in Id
      PROVE  Owned(i, x)' = Owned(i, x) /\ scope_stack'[i][x] = scope_stack[i][x]
  BY <1>1 DEF Owned
<1>3. ASSUME NEW i \in 1 .. Depth', NEW x \in Id
      PROVE  Owned(i, x)' \subseteq live'
  <2>1. ASSUME NEW y \in Id PROVE Owned(i, x) \cap Owned(Depth, y) = {}
    <3>1. i \in 1 .. Depth /\ <<i, x>> # <<Depth, y>>
      BY <1>1
    <3> QED
      BY <1>1, <3>1 DEF MemorySafe
  <2>2. ASSUME NEW f \in Freed(TopScope)
        PROVE  \E y \in Id : f \in Owned(Depth, y)
    BY DEF Freed, Owned, TopScope
  <2>3. Owned(i, x) \subseteq live
    BY <1>1 DEF MemorySafe
  <2> QED
    BY <1>1, <1>2, <2>1, <2>2, <2>3
<1>4. ASSUME NEW i \in 1 .. Depth', NEW j \in 1 .. Depth', NEW x \in Id, NEW y \in Id,
             <<i, x>> # <<j, y>>
      PROVE  Owned(i, x)' \cap Owned(j, y)' = {}
  BY <1>1, <1>2, <1>4 DEF MemorySafe
<1>5. \A i \in 1 .. Depth' : \A x \in Id :
        LET a == scope_stack'[i][x] IN
        a # NULL /\ heap'[a].spec \in {"PROCEDURE"} =>
          /\ IsInjective(heap'[a].parameter_list)
          /\ a \notin Range(heap'[a].parameter_list)
  BY <1>1, <1>2 DEF MemorySafe, HasSpec
<1> QED
  BY <1>3, <1>4, <1>5 DEF MemorySafe, HasSpec

LEMMA InitializedTables ==
  ASSUME TypeInv, Beginning, ForceInitialization
  PROVE  /\ heap' = <<NewSymrec("PROCEDURE", PrintId, <<2>>, Uninitialised),
                      NewSymrec("PARAM", Arg, NULL, Uninitialised)>>
         /\ live' = live \cup {1, 2}
         /\ Depth' = 1 /\ status = "start" /\ status' = "parsing"
         /\ \A x \in Id : scope_stack'[1][x] = IF x = PrintId THEN 1 ELSE NULL
         /\ blocks' = <<NewBlock(NULL)>> /\ variable_stack' = <<0>>
         /\ functions' = <<>>
<1> DEFINE r1 == NewSymrec("PROCEDURE", PrintId, <<2>>, Uninitialised)
           r2 == NewSymrec("PARAM", Arg, NULL, Uninitialised)
           t  == [EmptyTable EXCEPT ![PrintId] = 1]
<1>1. /\ status = "start" /\ status' = "parsing" /\ Malloc(<<r1, r2>>)
      /\ scope_stack' = <<t>> /\ blocks' = <<NewBlock(NULL)>>
      /\ UNCHANGED <<variable_stack, functions>>
  BY DEF ForceInitialization
<1>2. heap = <<>> /\ variable_stack = <<0>> /\ functions = <<>>
  BY <1>1 DEF Beginning
<1>3. \A x \in Id : t[x] = IF x = PrintId THEN 1 ELSE NULL
  BY DEF EmptyTable
<1> HIDE DEF r1, r2, t
<1>4. heap' = <<r1, r2>> /\ live' = live \cup (1 .. 2)
  <2>1. Len(<<r1, r2>>) = 2 /\ Len(heap) = 0
    BY <1>2
  <2>2. <<>> \o <<r1, r2>> = <<r1, r2>>
    OBVIOUS
  <2> QED
    BY <1>1, <1>2, <2>1, <2>2 DEF Malloc
<1>5. Depth' = 1 /\ scope_stack'[1] = t
  BY <1>1 DEF Depth
<1>6. 1 .. 2 = {1, 2}
  OBVIOUS
<1> QED
  BY <1>1, <1>2, <1>3, <1>4, <1>5, <1>6 DEF r1, r2

LEMMA InitializedMemory ==
  ASSUME TypeInv, Beginning, ForceInitialization
  PROVE  MemorySafe'
<1>1. /\ heap' = <<NewSymrec("PROCEDURE", PrintId, <<2>>, Uninitialised),
                   NewSymrec("PARAM", Arg, NULL, Uninitialised)>>
      /\ live' = live \cup {1, 2} /\ Depth' = 1
      /\ \A x \in Id : scope_stack'[1][x] = IF x = PrintId THEN 1 ELSE NULL
  BY InitializedTables
<1>2. heap'[1].parameter_list = <<2>>
  BY <1>1 DEF NewSymrec
<1>3. Range(<<2>>) = {2} /\ IsInjective(<<2>>) /\ 1 # NULL /\ <<2>> # NULL
  <2> DEFINE l == <<2>>
  <2>1. l \in Seq(Nat) /\ DOMAIN l = {1} /\ l[1] = 2
    OBVIOUS
  <2> HIDE DEF l
  <2>2. Range(l) = {2} /\ IsInjective(l)
    BY <2>1 DEF Range, IsInjective
  <2>3. 1 # NULL /\ l # NULL
    BY <2>1, DeclarationsAssumption DEF DeclarationsAssumption
  <2> QED
    BY <2>2, <2>3 DEF l
<1>4. ASSUME NEW i \in 1 .. Depth', NEW x \in Id
      PROVE  i = 1 /\ Owned(i, x)' = IF x = PrintId THEN {1, 2} ELSE {}
  BY <1>1, <1>2, <1>3, <1>4 DEF Owned
<1>5. \A i \in 1 .. Depth' : \A x \in Id :
        LET a == scope_stack'[i][x] IN
        a # NULL /\ heap'[a].spec \in {"PROCEDURE"} =>
          /\ IsInjective(heap'[a].parameter_list)
          /\ a \notin Range(heap'[a].parameter_list)
  BY <1>1, <1>2, <1>3, <1>4
<1> QED
  BY <1>1, <1>4, <1>5 DEF MemorySafe, HasSpec


LEMMA BeginningInit == Init => Beginning
BY DEF Init, Beginning

(* The steps that touch neither tables nor records. *)
Reads == UNCHANGED <<heap, live, scope_stack>>

(* One disjunct for each kind of step that the invariants below tell apart. *)
LEMMA Steps ==
  ASSUME [Next]_vars
  PROVE  \/ ForceInitialization
         \/ \E id \in Id : ConstantDefinition(id)
         \/ \E ids \in IdLists : VariableDefinition(ids)
         \/ \E id \in Id, params \in IdLists : ProcedureBlock(id, params)
         \/ ProcedureDefinition
         \/ Program
         \/ \E id \in Id, n \in 0 .. MaxGroup :
              \/ AssignmentStatement(id) \/ Operand(id) \/ ProcedureStatement(id, n)
              \/ Literal \/ RealLiteral
         \/ /\ Reads /\ UNCHANGED <<variable_stack, procedure_counter, functions, blocks>>
            /\ status' \notin {"start", "parsing"} /\ code' = NoCode
         \/ UNCHANGED vars
<1>1. 0 \in 0 .. MaxGroup /\ PrintId \in Id
  BY DeclarationsAssumption DEF DeclarationsAssumption
<1>2. ASSUME NEW how \in {"rejected", "undefined"}, Stop(how)
      PROVE  /\ Reads /\ UNCHANGED <<variable_stack, procedure_counter, functions, blocks>>
             /\ status' \notin {"start", "parsing"} /\ code' = NoCode
  BY <1>2 DEF Stop, Reads
<1>3. ASSUME \/ \E id \in Id : ConstantRedefinition(id)
             \/ \E id \in Id, params \in IdLists :
                  ProcedureRedeclared(id, params) \/ VariableStackOverflow(id, params)
             \/ \E ids \in IdLists : DuplicateInGroup(ids)
             \/ SyntaxError
      PROVE  /\ Reads /\ UNCHANGED <<variable_stack, procedure_counter, functions, blocks>>
             /\ status' \notin {"start", "parsing"} /\ code' = NoCode
  BY <1>2, <1>3 DEF ConstantRedefinition, ProcedureRedeclared, VariableStackOverflow,
     DuplicateInGroup, SyntaxError, YYERROR
<1> QED
  BY <1>1, <1>3 DEF Next, Stopped

LEMMA BeginningStep == TypeInv /\ Beginning /\ [Next]_vars => Beginning'
<1> SUFFICES ASSUME TypeInv, Beginning, [Next]_vars PROVE Beginning'
  OBVIOUS
<1>1. ASSUME NEW id \in Id, NEW n \in 0 .. MaxGroup,
             \/ AssignmentStatement(id) \/ Operand(id) \/ ProcedureStatement(id, n)
             \/ Literal \/ RealLiteral
      PROVE  status' # "start"
  BY <1>1, ScopesOfStatements
<1>2. ASSUME \/ ForceInitialization \/ ProcedureDefinition \/ Program
             \/ \E id \in Id : ConstantDefinition(id)
             \/ \E ids \in IdLists : VariableDefinition(ids)
             \/ \E id \in Id, params \in IdLists : ProcedureBlock(id, params)
      PROVE  status' # "start"
  BY <1>2 DEF ForceInitialization, ProcedureDefinition, Program, ConstantDefinition,
     VariableDefinition, ProcedureBlock, InPhase
<1>3. CASE UNCHANGED vars
  BY <1>3 DEF vars, Beginning
<1> QED
  BY <1>1, <1>2, <1>3, Steps DEF Beginning

LEMMA MemoryStep == TypeInv /\ Beginning /\ MemorySafe /\ [Next]_vars => MemorySafe'
<1> SUFFICES ASSUME TypeInv, Beginning, MemorySafe, [Next]_vars PROVE MemorySafe'
  OBVIOUS
<1>1. CASE Reads
  <2>1. heap' = heap /\ live' = live /\ scope_stack' = scope_stack /\ Depth' = Depth
    BY <1>1 DEF Reads, Depth
  <2>2. \A i, x : Owned(i, x)' = Owned(i, x)
    BY <2>1 DEF Owned
  <2>3. \A a : HasSpec(a, {"PROCEDURE"})' <=> HasSpec(a, {"PROCEDURE"})
    BY <2>1 DEF HasSpec
  <2> QED
    BY <2>1, <2>2, <2>3 DEF MemorySafe
<1>2. ASSUME NEW id \in Id, NEW n \in 0 .. MaxGroup,
             \/ AssignmentStatement(id) \/ Operand(id) \/ ProcedureStatement(id, n)
             \/ Literal \/ RealLiteral
      PROVE  Reads
  BY <1>2, ScopesOfStatements DEF Reads
<1>3. CASE UNCHANGED vars
  BY <1>1, <1>3 DEF vars, Reads
<1> QED
  BY <1>1, <1>2, <1>3, Steps, InitializedMemory, ConstantMemory, VariableMemory,
     ProcedureMemory, ClosedMemory

(* In every program: no lookup returns a record that delete_scope freed,   *)
(* and delete_scope frees no record twice (symrec.c), however procedures    *)
(* nest and whatever they redeclare.                                        *)
THEOREM MemoryIsSafe == Spec => []MemorySafe
<1>1. Init => MemorySafe
  BY DEF Init, MemorySafe, Depth
<1> QED
  BY <1>1, BeginningInit, BeginningStep, MemoryStep, TypeCorrect, PTL DEF Spec

-----------------------------------------------------------------------------
(* The blocks being parsed                                                 *)

(* Records do not change once they are made. *)
HeapKept == Address \subseteq Address' /\ \A a \in Address : heap'[a] = heap[a]

LEMMA HeapIsKept == TypeInv /\ [Next]_vars => HeapKept
<1> SUFFICES ASSUME TypeInv, [Next]_vars PROVE HeapKept
  OBVIOUS
<1>1. ASSUME NEW records \in Seq(Symrec), Malloc(records) PROVE HeapKept
  BY <1>1, MallocLemma DEF TypeInv, HeapKept
<1>2. CASE heap' = heap
  BY <1>2 DEF HeapKept, Address
<1>3. ASSUME NEW r \in Symrec, Numbers(r) PROVE HeapKept
  <2> DEFINE rs == <<r>>
  <2>1. rs \in Seq(Symrec) /\ Malloc(rs)
    BY <1>3 DEF Numbers
  <2> HIDE DEF rs
  <2> QED
    BY <1>1, <2>1
<1> QED
  BY <1>1, <1>2, <1>3, HeapStep DEF Keeps, Allocates

LEMMA BlockType ==
  ASSUME TypeInv, status = "parsing"
  PROVE  /\ Block = blocks[Depth] /\ Len(blocks) = Depth /\ Depth \in 1 .. Depth
         /\ \A i \in 1 .. Depth :
              /\ blocks[i] \in BlockRecord /\ blocks[i].vars \in Nat
              /\ blocks[i].nested \in Nat
              /\ blocks[i].proc = NULL \/ blocks[i].proc \in Address
              /\ NumParams(blocks[i]) \in Nat
<1>1. Block = blocks[Depth] /\ Len(blocks) = Depth /\ Depth \in 1 .. Depth
  BY ParsingTypes DEF Block, Depth
<1>2. ASSUME NEW i \in 1 .. Depth
      PROVE  /\ blocks[i] \in BlockRecord /\ blocks[i].vars \in Nat
             /\ blocks[i].nested \in Nat
             /\ blocks[i].proc = NULL \/ blocks[i].proc \in Address
             /\ NumParams(blocks[i]) \in Nat
  <2>1. blocks[i] \in BlockRecord
    BY <1>1, ElementOfSeq DEF TypeInv, TypeOK
  <2>2. /\ blocks[i].vars \in Nat /\ blocks[i].nested \in Nat
        /\ blocks[i].proc = NULL \/ blocks[i].proc \in Address
    BY <2>1 DEF BlockRecord, Pointer
  <2>3. ASSUME blocks[i].proc # NULL
        PROVE  heap[blocks[i].proc].parameter_list \in Seq(Nat)
    <3>1. heap[blocks[i].proc] \in Symrec /\ heap[blocks[i].proc].spec = "PROCEDURE"
      BY <1>1, <2>2, <2>3, TableType DEF TypeInv, Shape, HasSpec
    <3>2. heap[blocks[i].proc].parameter_list # NULL
      BY <2>2, <2>3, <3>1 DEF TypeInv, ProceduresHaveLists
    <3> QED
      BY <3>1, <3>2 DEF Symrec
  <2>4. NumParams(blocks[i]) \in Nat
    BY <2>3, LenProperties DEF NumParams
  <2> QED
    BY <2>1, <2>2, <2>4
<1> QED
  BY <1>1, <1>2

(* Only the innermost block advances. *)
Advances(phase, n, m) ==
  /\ Len(blocks') = Depth
  /\ \A i \in 1 .. Depth : i # Depth => blocks'[i] = blocks[i]
  /\ blocks'[Depth] = Advance(blocks[Depth], phase, n, m)

LEMMA SetBlockAdvances ==
  ASSUME TypeInv, status = "parsing", NEW phase, NEW n, NEW m,
         SetBlock(Advance(Block, phase, n, m))
  PROVE  Advances(phase, n, m)
<1> DEFINE b == Advance(Block, phase, n, m)
<1>1. blocks \in Seq(BlockRecord) /\ blocks' = [blocks EXCEPT ![Len(blocks)] = b]
  BY DEF SetBlock, TypeInv, TypeOK
<1>2. Block = blocks[Depth] /\ Len(blocks) = Depth /\ Depth \in 1 .. Depth
  BY BlockType
<1> HIDE DEF b
<1>3. /\ Len(blocks') = Depth /\ blocks'[Depth] = b
      /\ \A i \in 1 .. Depth : i # Depth => blocks'[i] = blocks[i]
  BY <1>1, <1>2
<1> QED
  BY <1>2, <1>3 DEF Advances, b

(* A statement or an operand, when it does not stop the parse. *)
LEMMA StatementBlocks ==
  ASSUME TypeInv, NEW id \in Id, NEW n \in 0 .. MaxGroup,
         \/ AssignmentStatement(id) \/ Operand(id) \/ ProcedureStatement(id, n)
         \/ Literal \/ RealLiteral,
         status' = "parsing"
  PROVE  status = "parsing" /\ Advances("body", 0, 0)
<1>1. ASSUME NEW how, Stop(how) PROVE how = "parsing"
  BY <1>1 DEF Stop
<1>2. ASSUME status = "parsing", NEW op, NEW arg, NEW sym, Emit(op, arg, sym)
      PROVE  Advances("body", 0, 0)
  BY <1>2, SetBlockAdvances DEF Emit
<1>3. CASE AssignmentStatement(id)
  BY <1>1, <1>2, <1>3 DEF AssignmentStatement, YYERROR, Generate
<1>4. CASE Operand(id)
  BY <1>1, <1>2, <1>4 DEF Operand, YYERROR, Generate
<1>5. CASE ProcedureStatement(id, n)
  BY <1>1, <1>2, <1>5 DEF ProcedureStatement, YYERROR, Generate
<1>6. CASE Literal
  BY <1>2, <1>6 DEF Literal
<1>7. CASE RealLiteral
  BY <1>1, <1>7 DEF RealLiteral
<1> QED
  BY <1>3, <1>4, <1>5, <1>6, <1>7

LEMMA ProcedureBlocks ==
  ASSUME TypeInv, NEW id \in Id, NEW params \in IdLists, ProcedureBlock(id, params)
  PROVE  LET n == Len(params)
             s == Len(heap) + n + 1
         IN  /\ Len(blocks') = Depth + 1
             /\ \A i \in 1 .. Depth : i # Depth => blocks'[i] = blocks[i]
             /\ blocks'[Depth] = Advance(blocks[Depth], "proc", 0, 1)
             /\ blocks'[Depth + 1] = NewBlock(s)
             /\ Counter' = n
<1> DEFINE n  == Len(params)
           s  == Len(heap) + n + 1
           b  == Advance(Block, "proc", 0, 1)
           c  == NewBlock(s)
           bs == [blocks EXCEPT ![Len(blocks)] = b]
<1>1. /\ status = "parsing" /\ blocks' = Append(bs, c) /\ blocks \in Seq(BlockRecord)
      /\ variable_stack' = Append(variable_stack, n) /\ variable_stack \in Seq(Nat)
  BY DEF ProcedureBlock, InPhase, TypeInv, TypeOK
<1>2. Block = blocks[Depth] /\ Len(blocks) = Depth /\ Depth \in 1 .. Depth /\ n \in Nat
  BY <1>1, BlockType, IdListsAreSeqs, LenProperties
<1> HIDE DEF n, b, c
<1>3. /\ Len(blocks') = Depth + 1 /\ blocks'[Depth + 1] = c /\ blocks'[Depth] = b
      /\ \A i \in 1 .. Depth : i # Depth => blocks'[i] = blocks[i]
  <2> DEFINE T == BlockRecord \cup {b, c}
  <2>1. blocks \in Seq(T) /\ b \in T /\ c \in T
    BY <1>1, SeqMonotonic
  <2> HIDE DEF T
  <2>2. /\ bs \in Seq(T) /\ Len(bs) = Depth /\ bs[Depth] = b
        /\ \A i \in 1 .. Depth : i # Depth => bs[i] = blocks[i]
    BY <1>2, <2>1
  <2> HIDE DEF bs
  <2>3. /\ Len(blocks') = Depth + 1 /\ blocks'[Depth + 1] = c
        /\ \A i \in 1 .. Depth : blocks'[i] = bs[i]
    BY <1>1, <2>1, <2>2, AppendProperties
  <2> QED
    BY <1>2, <2>2, <2>3
<1>4. Counter' = n
  <2>1. /\ Len(variable_stack') = Len(variable_stack) + 1
        /\ variable_stack'[Len(variable_stack) + 1] = n
    BY <1>1, <1>2, AppendProperties
  <2> QED
    BY <2>1 DEF Counter
<1> QED
  BY <1>2, <1>3, <1>4 DEF n, b, c

LEMMA VariableBlocks ==
  ASSUME TypeInv, NEW ids \in IdLists, VariableDefinition(ids)
  PROVE  /\ Advances("var", Len(ids), 0)
         /\ Counter' = Counter + Len(ids) /\ Counter \in Nat /\ Len(ids) \in Nat
<1>1. /\ status = "parsing" /\ SetBlock(Advance(Block, "var", Len(ids), 0))
      /\ variable_stack' =
           [variable_stack EXCEPT ![Len(variable_stack)] = Counter + Len(ids)]
  BY DEF VariableDefinition, InPhase, Counter
<1>2. /\ Counter \in Nat /\ Len(ids) \in Nat /\ variable_stack \in Seq(Nat)
      /\ Len(variable_stack) \in 1 .. Len(variable_stack)
  BY CounterType, IdListsAreSeqs, LenProperties DEF TypeInv, TypeOK
<1>3. Counter' = Counter + Len(ids)
  <2> DEFINE c == Counter + Len(ids)
  <2>1. variable_stack' = [variable_stack EXCEPT ![Len(variable_stack)] = c] /\ c \in Nat
    BY <1>1, <1>2
  <2> HIDE DEF c
  <2>2. Len(variable_stack') = Len(variable_stack)
        /\ variable_stack'[Len(variable_stack)] = c
    BY <1>2, <2>1, ExceptSeq
  <2> QED
    BY <2>2 DEF Counter, c
<1> QED
  BY <1>1, <1>2, <1>3, SetBlockAdvances

LEMMA ClosedBlocks ==
  ASSUME TypeInv, ProcedureDefinition
  PROVE  /\ Len(blocks') = Depth - 1 /\ status' = "parsing"
         /\ \A i \in 1 .. Depth - 1 : blocks'[i] = blocks[i]
         /\ functions' = Append(functions, Header(Block))
         /\ UNCHANGED variable_stack
<1>1. /\ status = "parsing" /\ status' = "parsing"
      /\ blocks' = SubSeq(blocks, 1, Len(blocks) - 1) /\ blocks \in Seq(BlockRecord)
      /\ functions' = Append(functions, Header(Block)) /\ UNCHANGED variable_stack
  BY DEF ProcedureDefinition, TypeInv, TypeOK
<1>2. Len(blocks) = Depth /\ Depth \in 1 .. Depth /\ Len(blocks) \in Nat
  BY <1>1, BlockType, LenProperties
<1> QED
  BY <1>1, <1>2, SubSeqProperties

-----------------------------------------------------------------------------
(* Open procedures                                                         *)

(* The procedure of the i-th block is the one its scope declares. *)
Declared(i) ==
  /\ HasSpec(blocks[i].proc, {"PROCEDURE"})
  /\ scope_stack[i - 1][heap[blocks[i].proc].id] = blocks[i].proc

AllDeclared == status = "parsing" => \A i \in 2 .. Depth : Declared(i)

LEMMA DeclaredIsLive ==
  ASSUME TypeInv, MemorySafe, AllDeclared
  PROVE  OpenProceduresDeclared
<1> SUFFICES ASSUME status = "parsing"
             PROVE  /\ Len(blocks) = Depth
                    /\ \A i \in 2 .. Depth :
                         /\ HasSpec(blocks[i].proc, {"PROCEDURE"}) /\ blocks[i].proc \in live
                         /\ scope_stack[i - 1][heap[blocks[i].proc].id] = blocks[i].proc
  BY DEF OpenProceduresDeclared
<1>1. Len(blocks) = Depth /\ Depth \in Nat
  BY BlockType, TableType DEF TypeInv
<1>2. ASSUME NEW i \in 2 .. Depth
      PROVE  blocks[i].proc \in live /\ Declared(i)
  <2> DEFINE p == blocks[i].proc
  <2>1. Declared(i) /\ p # NULL /\ i \in 1 .. Depth /\ i - 1 \in 1 .. Depth
    BY <1>1 DEF AllDeclared, Declared, HasSpec
  <2>2. p \in Address /\ heap[p].id \in Id
    BY <2>1, BlockType, TableType DEF TypeInv, Symrec
  <2>3. p \in Owned(i - 1, heap[p].id)
    BY <2>1 DEF Declared, Owned
  <2> QED
    BY <2>1, <2>2, <2>3 DEF MemorySafe
<1> QED
  BY <1>1, <1>2 DEF Declared

LEMMA DeclaredKept ==
  ASSUME TypeInv, HeapKept, status = "parsing", NEW i \in 2 .. Depth, Declared(i),
         blocks'[i].proc = blocks[i].proc,
         \A x \in Id : scope_stack'[i - 1][x] = scope_stack[i - 1][x]
  PROVE  Declared(i)'
<1>1. i \in 1 .. Depth
  BY TableType DEF TypeInv
<1>2. blocks[i].proc # NULL
  BY DEF Declared, HasSpec
<1>3. blocks[i].proc \in Address /\ heap[blocks[i].proc].id \in Id
  BY <1>1, <1>2, BlockType, TableType DEF TypeInv, Symrec
<1>4. heap'[blocks[i].proc] = heap[blocks[i].proc]
  BY <1>3 DEF HeapKept
<1> QED
  BY <1>3, <1>4 DEF Declared, HasSpec

LEMMA AdvanceKeeps ==
  ASSUME NEW phase, NEW n, NEW m, TypeInv, status = "parsing", Advances(phase, n, m)
  PROVE  /\ \A i \in 1 .. Depth : blocks'[i].proc = blocks[i].proc
         /\ blocks'[Depth].vars = blocks[Depth].vars + n
         /\ blocks'[Depth].nested = blocks[Depth].nested + m
         /\ blocks'[Depth].phase = phase
BY DEF Advances, Advance

LEMMA DeclaredStep ==
  TypeInv /\ Beginning /\ AllDeclared /\ [Next]_vars => AllDeclared'
<1> SUFFICES ASSUME TypeInv, Beginning, AllDeclared, [Next]_vars, status' = "parsing"
             PROVE  \A i \in 2 .. Depth' : Declared(i)'
  BY DEF AllDeclared
<1>1. HeapKept /\ Depth \in Nat
  BY HeapIsKept, TableType DEF TypeInv
<1>2. ASSUME status = "parsing" PROVE \A i \in 2 .. Depth : Declared(i)
  BY <1>2 DEF AllDeclared
<1>3. CASE ForceInitialization
  BY <1>3, InitializedTables
<1>4. ASSUME NEW id \in Id, ConstantDefinition(id)
      PROVE  \A i \in 2 .. Depth' : Declared(i)'
  <2>1. /\ status = "parsing" /\ blocks' = blocks /\ Depth' = Depth
        /\ \A i \in 1 .. Depth : \A x \in Id :
             i # Depth => scope_stack'[i][x] = scope_stack[i][x]
    BY <1>4, ConstantTables
  <2>2. \A i \in 2 .. Depth : i - 1 \in 1 .. Depth /\ i - 1 # Depth
    BY <1>1
  <2> QED
    BY <1>1, <1>2, <2>1, <2>2, DeclaredKept
<1>5. ASSUME NEW ids \in IdLists, VariableDefinition(ids)
      PROVE  \A i \in 2 .. Depth' : Declared(i)'
  <2>1. /\ status = "parsing" /\ Depth' = Depth
        /\ \A i \in 1 .. Depth : \A x \in Id :
             i # Depth => scope_stack'[i][x] = scope_stack[i][x]
    BY <1>5, VariableTables
  <2>2. \A i \in 2 .. Depth : i - 1 \in 1 .. Depth /\ i - 1 # Depth /\ i \in 1 .. Depth
    BY <1>1
  <2>3. \A i \in 1 .. Depth : blocks'[i].proc = blocks[i].proc
    BY <1>5, <2>1, VariableBlocks, AdvanceKeeps
  <2> QED
    BY <1>1, <1>2, <2>1, <2>2, <2>3, DeclaredKept
<1>6. ASSUME NEW id \in Id, NEW params \in IdLists, ProcedureBlock(id, params)
      PROVE  \A i \in 2 .. Depth' : Declared(i)'
  <2> DEFINE s == Len(heap) + Len(params) + 1
             list == [i \in 1 .. Len(params) |-> Len(heap) + i]
  <2>1. /\ status = "parsing" /\ Depth' = Depth + 1 /\ Depth \in 1 .. Depth
        /\ \A i \in 1 .. Depth : \A x \in Id :
             scope_stack'[i][x] = IF i = Depth /\ x = id THEN s ELSE scope_stack[i][x]
        /\ heap'[s] = NewSymrec("PROCEDURE", id, list, procedure_counter)
        /\ Len(params) \in Nat
    BY <1>6, ProcedureTables, ZenonT(60)
  <2>2. heap'[s].spec = "PROCEDURE" /\ heap'[s].id = id
    BY <2>1 DEF NewSymrec
  <2>3. s # NULL
    BY <2>1, TableType, DeclarationsAssumption DEF DeclarationsAssumption, TypeInv
  <2>4. /\ \A i \in 1 .. Depth : i # Depth => blocks'[i] = blocks[i]
        /\ blocks'[Depth] = Advance(blocks[Depth], "proc", 0, 1)
        /\ blocks'[Depth + 1] = NewBlock(s)
    BY <1>6, ProcedureBlocks
  <2> HIDE DEF s, list
  <2>5. \A i \in 1 .. Depth : blocks'[i].proc = blocks[i].proc
    BY <2>4 DEF Advance
  <2>6. blocks'[Depth + 1].proc = s
    BY <2>4 DEF NewBlock
  <2>7. ASSUME NEW i \in 2 .. Depth PROVE Declared(i)'
    <3>1. i - 1 \in 1 .. Depth /\ i - 1 # Depth /\ i \in 1 .. Depth
      BY <1>1
    <3> QED
      BY <1>1, <1>2, <2>1, <2>5, <3>1, DeclaredKept
  <2>8. ASSUME NEW i, i = Depth + 1 PROVE Declared(i)'
    <3>1. i - 1 = Depth
      BY <1>1, <2>8
    <3>2. blocks'[i].proc = s /\ scope_stack'[i - 1][id] = s
      BY <2>1, <2>6, <2>8, <3>1
    <3> QED
      BY <2>2, <2>3, <3>2 DEF Declared, HasSpec
  <2>9. \A i \in 2 .. Depth' : i \in 2 .. Depth \/ i = Depth + 1
    BY <1>1, <2>1
  <2> QED
    BY <2>7, <2>8, <2>9
<1>7. CASE ProcedureDefinition
  <2>1. /\ status = "parsing" /\ Depth' = Depth - 1
        /\ \A i \in 1 .. Depth' : scope_stack'[i] = scope_stack[i]
    BY <1>7, ClosedTables
  <2>2. \A i \in 1 .. Depth - 1 : blocks'[i] = blocks[i]
    BY <1>7, ClosedBlocks
  <2>3. \A i \in 2 .. Depth' : i \in 2 .. Depth /\ i - 1 \in 1 .. Depth' /\ i \in 1 .. Depth - 1
    BY <1>1, <2>1
  <2> QED
    BY <1>1, <1>2, <2>1, <2>2, <2>3, DeclaredKept
<1>8. CASE Program
  BY <1>8 DEF Program
<1>9. ASSUME NEW id \in Id, NEW n \in 0 .. MaxGroup,
             \/ AssignmentStatement(id) \/ Operand(id) \/ ProcedureStatement(id, n)
             \/ Literal \/ RealLiteral
      PROVE  \A i \in 2 .. Depth' : Declared(i)'
  <2>1. status = "parsing" /\ Advances("body", 0, 0) /\ scope_stack' = scope_stack
    BY <1>9, StatementBlocks, ScopesOfStatements
  <2>2. /\ \A i \in 1 .. Depth : blocks'[i].proc = blocks[i].proc
        /\ Depth' = Depth /\ \A i \in 2 .. Depth : i \in 1 .. Depth
    BY <1>1, <2>1, AdvanceKeeps DEF Depth
  <2> QED
    BY <1>1, <1>2, <2>1, <2>2, DeclaredKept
<1>10. CASE UNCHANGED vars
  BY <1>10, <1>2 DEF vars, Declared, HasSpec, Depth
<1> QED
  BY <1>3, <1>4, <1>5, <1>6, <1>7, <1>8, <1>9, <1>10, Steps

LEMMA DeclaredInit == Init => AllDeclared
BY DEF Init, AllDeclared

(* The record that procedure_definition takes from the parser stack after  *)
(* a whole body is allocated and is what the name means in the enclosing    *)
(* scope, in every program.                                                 *)
THEOREM OpenProceduresStay == Spec => []OpenProceduresDeclared
<1> QED
  BY BeginningInit, BeginningStep, DeclaredInit, DeclaredStep, DeclaredIsLive,
     MemoryIsSafe, TypeCorrect, PTL DEF Spec

-----------------------------------------------------------------------------
(* Frames                                                                  *)

(* The counter that the pointer is at is the size of b's frame, and the    *)
(* number that b's calls carry is the next to be given to a function.      *)
Exact(b) ==
  /\ Counter = FrameSize(b)
  /\ b.proc # NULL => heap[b.proc].bp_off = procedure_counter

(* Every block but the innermost contains a procedure, a block that        *)
(* contains none is exact, and a procedure ends the part of variables.     *)
Framed ==
  /\ \A i \in 1 .. Depth :
       /\ i # Depth => blocks[i].nested # 0
       /\ blocks[i].phase \in {"const", "var"} => blocks[i].nested = 0
  /\ Block.nested = 0 => Exact(Block)

Frames == status = "parsing" => Framed

LEMMA BlockParams ==
  ASSUME TypeInv, HeapKept, status = "parsing", NEW i \in 1 .. Depth,
         blocks'[i].proc = blocks[i].proc
  PROVE  /\ NumParams(blocks[i])' = NumParams(blocks[i])
         /\ blocks[i].proc # NULL => heap'[blocks[i].proc] = heap[blocks[i].proc]
<1>1. blocks[i].proc = NULL \/ blocks[i].proc \in Address
  BY BlockType
<1> QED
  BY <1>1 DEF NumParams, HeapKept

LEMMA NewProcedureBlock ==
  ASSUME TypeInv, NEW id \in Id, NEW params \in IdLists, ProcedureBlock(id, params),
         NEW i, i = Depth + 1
  PROVE  LET s == Len(heap) + Len(params) + 1
         IN  /\ blocks'[i].proc = s /\ s # NULL
             /\ blocks'[i].vars = 0 /\ blocks'[i].nested = 0
             /\ NumParams(blocks[i])' = Len(params) /\ FrameSize(blocks[i])' = Len(params)
             /\ heap'[s].bp_off = procedure_counter
<1> DEFINE s    == Len(heap) + Len(params) + 1
           list == [k \in 1 .. Len(params) |-> Len(heap) + k]
<1>1. /\ heap'[s] = NewSymrec("PROCEDURE", id, list, procedure_counter)
      /\ Len(list) = Len(params) /\ Len(params) \in Nat
  BY ProcedureTables
<1>2. heap'[s].parameter_list = list /\ heap'[s].bp_off = procedure_counter
  BY <1>1 DEF NewSymrec
<1>3. s # NULL
  BY <1>1, TableType, DeclarationsAssumption DEF DeclarationsAssumption, TypeInv
<1>4. blocks'[i] = NewBlock(s)
  BY ProcedureBlocks
<1> HIDE DEF s, list
<1>5. blocks'[i].proc = s /\ blocks'[i].vars = 0 /\ blocks'[i].nested = 0
  BY <1>4 DEF NewBlock
<1>6. NumParams(blocks[i])' = Len(params)
  BY <1>1, <1>2, <1>3, <1>5 DEF NumParams
<1>7. FrameSize(blocks[i])' = Len(params)
  BY <1>1, <1>5, <1>6 DEF FrameSize
<1> QED
  BY <1>2, <1>3, <1>5, <1>6, <1>7 DEF s

(* A block that stays keeps the size of its frame. *)
LEMMA FrameKept ==
  ASSUME TypeInv, HeapKept, status = "parsing", NEW i \in 1 .. Depth,
         blocks'[i].proc = blocks[i].proc, NEW n \in Nat,
         blocks'[i].vars = blocks[i].vars + n
  PROVE  /\ FrameSize(blocks[i])' = FrameSize(blocks[i]) + n
         /\ FrameSize(blocks[i]) \in Nat
<1>1. NumParams(blocks[i])' = NumParams(blocks[i])
  BY BlockParams
<1>2. NumParams(blocks[i]) \in Nat /\ blocks[i].vars \in Nat
  BY BlockType
<1> QED
  BY <1>1, <1>2 DEF FrameSize

LEMMA FramesStep ==
  TypeInv /\ Beginning /\ Frames /\ [Next]_vars => Frames'
<1> SUFFICES ASSUME TypeInv, Beginning, Frames, [Next]_vars, status' = "parsing"
             PROVE  Framed'
  BY DEF Frames
<1>1. HeapKept /\ Depth \in Nat
  BY HeapIsKept, TableType DEF TypeInv
<1>2. ASSUME status = "parsing"
      PROVE  /\ \A i \in 1 .. Depth :
                  /\ i # Depth => blocks[i].nested # 0
                  /\ blocks[i].phase \in {"const", "var"} => blocks[i].nested = 0
             /\ blocks[Depth].nested = 0 => Exact(blocks[Depth])
             /\ Len(blocks) = Depth /\ Depth \in 1 .. Depth
  BY <1>2, BlockType DEF Frames, Framed
<1>3. ASSUME NEW d, d = Depth', Len(blocks') = d,
             blocks'[d].nested # 0 \/ Exact(blocks[d])'
      PROVE  (Block.nested = 0 => Exact(Block))'
  BY <1>3 DEF Block, Exact, FrameSize, NumParams
<1>4. CASE ForceInitialization
  <2>1. /\ Depth' = 1 /\ blocks' = <<NewBlock(NULL)>> /\ variable_stack' = <<0>>
    BY <1>4, InitializedTables
  <2>2. /\ Len(blocks') = 1 /\ blocks'[1].proc = NULL /\ blocks'[1].vars = 0
        /\ blocks'[1].nested = 0
    BY <2>1 DEF NewBlock
  <2>3. Counter' = 0
    <3>1. Len(variable_stack') = 1 /\ variable_stack'[1] = 0
      BY <2>1
    <3> QED
      BY <3>1 DEF Counter
  <2>4. FrameSize(blocks[1])' = 0
    BY <2>2 DEF FrameSize, NumParams
  <2>5. Exact(blocks[1])'
    BY <2>2, <2>3, <2>4 DEF Exact
  <2> QED
    BY <1>3, <2>1, <2>2, <2>5 DEF Framed
<1>5. ASSUME status = "parsing", Depth' = Depth,
             NEW phase, NEW n \in Nat, Advances(phase, n, 0),
             n # 0 => blocks[Depth].nested = 0,
             phase \in {"const", "var"} => blocks[Depth].nested = 0,
             Counter' = Counter + n, procedure_counter' = procedure_counter
      PROVE  Framed'
  <2>1. /\ \A i \in 1 .. Depth : i # Depth => blocks'[i] = blocks[i]
        /\ Len(blocks') = Depth /\ Depth \in 1 .. Depth
        /\ blocks'[Depth].nested = blocks[Depth].nested
        /\ blocks'[Depth].phase = phase
        /\ blocks'[Depth].proc = blocks[Depth].proc
        /\ blocks'[Depth].vars = blocks[Depth].vars + n
    <3>1. blocks[Depth].nested \in Nat
      BY <1>5, BlockType
    <3> QED
      BY <1>2, <1>5, <3>1, AdvanceKeeps DEF Advances
  <2>2. ASSUME NEW d, d = Depth, blocks[d].nested = 0 PROVE Exact(blocks[d])'
    <3>1. d \in 1 .. Depth /\ Counter = FrameSize(blocks[d])
          /\ (blocks[d].proc # NULL => heap[blocks[d].proc].bp_off = procedure_counter)
      BY <1>2, <1>5, <2>2 DEF Exact
    <3>2. FrameSize(blocks[d])' = FrameSize(blocks[d]) + n
      BY <1>1, <1>5, <2>1, <2>2, <3>1, FrameKept
    <3>3. blocks[d].proc # NULL => heap'[blocks[d].proc] = heap[blocks[d].proc]
      BY <1>1, <1>5, <2>1, <2>2, <3>1, BlockParams
    <3> QED
      BY <1>5, <2>1, <2>2, <3>1, <3>2, <3>3 DEF Exact
  <2>3. (Block.nested = 0 => Exact(Block))'
    BY <1>3, <1>5, <2>1, <2>2
  <2> QED
    BY <1>2, <1>5, <2>1, <2>3 DEF Framed
<1>6. ASSUME status = "parsing", blocks' = blocks, Depth' = Depth,
             UNCHANGED <<variable_stack, procedure_counter>>
      PROVE  Framed'
  <2>1. ASSUME NEW d, d = Depth, blocks[d].nested = 0 PROVE Exact(blocks[d])'
    <3>1. d \in 1 .. Depth /\ Counter = FrameSize(blocks[d])
          /\ (blocks[d].proc # NULL => heap[blocks[d].proc].bp_off = procedure_counter)
      BY <1>2, <1>6, <2>1 DEF Exact
    <3>2. NumParams(blocks[d])' = NumParams(blocks[d])
          /\ (blocks[d].proc # NULL => heap'[blocks[d].proc] = heap[blocks[d].proc])
      BY <1>1, <1>6, <3>1, BlockParams
    <3> QED
      BY <1>6, <3>1, <3>2 DEF Exact, FrameSize, Counter
  <2>2. (Block.nested = 0 => Exact(Block))'
    BY <1>2, <1>3, <1>6, <2>1
  <2> QED
    BY <1>2, <1>6, <2>2 DEF Framed
<1>7. ASSUME NEW id \in Id, ConstantDefinition(id)
      PROVE  status = "parsing" /\ blocks' = blocks /\ Depth' = Depth
             /\ UNCHANGED <<variable_stack, procedure_counter>>
  BY <1>7, ConstantTables
<1>8. ASSUME NEW ids \in IdLists, VariableDefinition(ids)
      PROVE  Framed'
  <2>1. status = "parsing" /\ Depth' = Depth /\ procedure_counter' = procedure_counter
    BY <1>8, VariableTables
  <2>2. Advances("var", Len(ids), 0) /\ Counter' = Counter + Len(ids) /\ Len(ids) \in Nat
    BY <1>8, VariableBlocks
  <2>3. Block.phase \in {"const", "var"}
    BY <1>8 DEF VariableDefinition, InPhase
  <2>4. blocks[Depth].nested = 0
    BY <1>2, <2>1, <2>3, BlockType
  <2> QED
    BY <1>5, <2>1, <2>2, <2>4
<1>9. ASSUME NEW id \in Id, NEW params \in IdLists, ProcedureBlock(id, params)
      PROVE  Framed'
  <2>1. status = "parsing" /\ Depth' = Depth + 1 /\ Depth \in 1 .. Depth
        /\ procedure_counter' = procedure_counter
    BY <1>9, ProcedureTables, ZenonT(60)
  <2>2. /\ \A i \in 1 .. Depth : i # Depth => blocks'[i] = blocks[i]
        /\ blocks'[Depth] = Advance(blocks[Depth], "proc", 0, 1)
        /\ Counter' = Len(params) /\ Len(blocks') = Depth + 1
    BY <1>9, ProcedureBlocks
  <2>3. blocks'[Depth].nested # 0 /\ blocks'[Depth].phase = "proc"
    <3>1. blocks[Depth].nested \in Nat
      BY <2>1, BlockType
    <3> QED
      BY <2>2, <3>1 DEF Advance
  <2>4. ASSUME NEW d, d = Depth + 1
        PROVE  Exact(blocks[d])' /\ blocks'[d].nested = 0
    BY <1>9, <2>1, <2>2, <2>4, NewProcedureBlock DEF Exact
  <2>5. \A i \in 1 .. Depth' : (i \in 1 .. Depth /\ i # Depth') \/ i = Depth + 1
    BY <1>1, <2>1
  <2>6. (Block.nested = 0 => Exact(Block))'
    BY <1>3, <2>1, <2>2, <2>4
  <2> QED
    BY <1>2, <2>1, <2>2, <2>3, <2>4, <2>5, <2>6 DEF Framed
<1>10. CASE ProcedureDefinition
  <2>1. /\ status = "parsing" /\ Depth' = Depth - 1
        /\ \A i \in 1 .. Depth - 1 : blocks'[i] = blocks[i]
        /\ Len(blocks') = Depth - 1 /\ Len(blocks) > 1
    BY <1>10, ClosedTables, ClosedBlocks DEF ProcedureDefinition
  <2>2. \A i \in 1 .. Depth' : i \in 1 .. Depth /\ i # Depth
    BY <1>1, <2>1
  <2>3. Depth' \in 1 .. Depth'
    BY <1>1, <1>2, <2>1
  <2>4. \A i \in 1 .. Depth' :
          /\ blocks'[i].nested # 0
          /\ blocks'[i].phase \in {"const", "var"} => blocks'[i].nested = 0
    BY <1>2, <2>1, <2>2
  <2>5. (Block.nested = 0 => Exact(Block))'
    BY <1>3, <2>1, <2>3, <2>4
  <2> QED
    BY <2>4, <2>5 DEF Framed
<1>11. CASE Program
  BY <1>11 DEF Program
<1>12. ASSUME NEW id \in Id, NEW n \in 0 .. MaxGroup,
              \/ AssignmentStatement(id) \/ Operand(id) \/ ProcedureStatement(id, n)
              \/ Literal \/ RealLiteral
       PROVE  Framed'
  <2>1. /\ status = "parsing" /\ Advances("body", 0, 0) /\ scope_stack' = scope_stack
        /\ UNCHANGED <<variable_stack, procedure_counter>>
    BY <1>12, StatementBlocks, ScopesOfStatements
  <2>2. Depth' = Depth /\ Counter' = Counter + 0
    BY <2>1, CounterType DEF Depth, Counter, TypeInv
  <2> QED
    BY <1>5, <2>1, <2>2
<1>13. CASE UNCHANGED vars
  BY <1>6, <1>13 DEF vars, Depth
<1> QED
  BY <1>4, <1>6, <1>7, <1>8, <1>9, <1>10, <1>11, <1>12, <1>13, Steps

(* A header is exact when its block contains no procedure. *)
LEMMA LeafStep ==
  TypeInv /\ Frames /\ LeafFunctionsExact /\ [Next]_vars => LeafFunctionsExact'
<1> SUFFICES ASSUME TypeInv, Frames, LeafFunctionsExact, [Next]_vars
             PROVE  LeafFunctionsExact'
  OBVIOUS
<1>1. HeapKept /\ functions \in Seq(FunctionRecord) /\ Len(functions) \in Nat
  BY HeapIsKept, LenProperties DEF TypeInv, TypeOK
<1>2. ASSUME NEW k \in 1 .. Len(functions)
      PROVE  /\ functions[k].nested = 0 =>
                  /\ functions[k].funcvars = functions[k].vars
                  /\ functions[k].proc # NULL =>
                       heap'[functions[k].proc].bp_off = functions[k].index
  <2>1. functions[k] \in FunctionRecord
    BY <1>1, ElementOfSeq
  <2>2. functions[k].proc \in Pointer
    BY <2>1 DEF FunctionRecord
  <2> QED
    BY <1>1, <2>2 DEF LeafFunctionsExact, HeapKept, Pointer
<1>3. CASE functions' = functions
  BY <1>2, <1>3 DEF LeafFunctionsExact
<1>4. ASSUME status = "parsing", functions' = Append(functions, Header(Block)), heap' = heap
      PROVE  LeafFunctionsExact'
  <2> DEFINE f == Header(Block)
  <2>1. /\ Block.proc = NULL \/ Block.proc \in Address
        /\ NumParams(Block) \in Nat /\ Block.vars \in Nat
    BY <1>4, BlockType
  <2>2. Block.nested = 0 =>
          /\ Counter = NumParams(Block) + Block.vars
          /\ Block.proc # NULL => heap[Block.proc].bp_off = procedure_counter
    BY <1>4 DEF Frames, Framed, Exact, FrameSize
  <2>3. /\ f.nested = Block.nested /\ f.vars = Block.vars /\ f.proc = Block.proc
        /\ f.index = procedure_counter /\ f.funcvars = Counter - NumParams(Block)
    BY DEF Header
  <2> HIDE DEF f
  <2>4. f.nested = 0 => /\ f.funcvars = f.vars
                        /\ f.proc # NULL => heap'[f.proc].bp_off = f.index
    BY <1>4, <2>1, <2>2, <2>3
  <2>5. f \in FunctionRecord
    BY <1>4, HeaderType DEF f
  <2>6. /\ Len(functions') = Len(functions) + 1
        /\ \A k \in 1 .. Len(functions) : functions'[k] = functions[k]
        /\ functions'[Len(functions) + 1] = f
    BY <1>1, <1>4, <2>5, AppendProperties DEF f
  <2>7. \A k \in 1 .. Len(functions') : k \in 1 .. Len(functions) \/ k = Len(functions) + 1
    BY <1>1, <2>6
  <2> QED
    BY <1>2, <2>4, <2>6, <2>7 DEF LeafFunctionsExact
<1>5. CASE ProcedureDefinition \/ Program
  BY <1>4, <1>5 DEF ProcedureDefinition, Program
<1>6. ASSUME \/ ForceInitialization
             \/ \E id \in Id : ConstantDefinition(id)
             \/ \E ids \in IdLists : VariableDefinition(ids)
             \/ \E id \in Id, params \in IdLists : ProcedureBlock(id, params)
             \/ UNCHANGED vars
      PROVE  functions' = functions
  BY <1>6 DEF ForceInitialization, ConstantDefinition, VariableDefinition,
     ProcedureBlock, vars
<1>7. ASSUME NEW id \in Id, NEW n \in 0 .. MaxGroup,
             \/ AssignmentStatement(id) \/ Operand(id) \/ ProcedureStatement(id, n)
             \/ Literal \/ RealLiteral
      PROVE  functions' = functions
  BY <1>7, ScopesOfStatements
<1> QED
  BY <1>3, <1>5, <1>6, <1>7, Steps

LEMMA FramesInit == Init => Frames /\ LeafFunctionsExact
BY DEF Init, Frames, LeafFunctionsExact

(* In every program a function that contains no procedure reserves exactly *)
(* the variables it declares, and is defined under the number that calls   *)
(* of it carry (wml.c): what run headers refutes of all others.             *)
THEOREM LeafHeaders == Spec => []LeafFunctionsExact
<1> QED
  BY FramesInit, BeginningInit, BeginningStep, FramesStep, LeafStep, TypeCorrect,
     PTL DEF Spec

-----------------------------------------------------------------------------
(* Slots                                                                   *)

LEMMA OffsetOfRecord ==
  ASSUME NEW spec, NEW id, NEW params, NEW off
  PROVE  NewSymrec(spec, id, params, off).bp_off = off
BY DEF NewSymrec

(* The variables of the i-th table have distinct slots of its frame. *)
Slots(i) ==
  \A x, y \in Id :
    LET a == scope_stack[i][x]
        b == scope_stack[i][y]
    IN IsVariable(a) =>
         /\ heap[a].bp_off \in 0 .. FrameSize(blocks[i]) - 1
         /\ (x # y /\ IsVariable(b)) => heap[a].bp_off # heap[b].bp_off

(* The variables that a reduction adds to the i-th table have slots of     *)
(* their own among the next n.                                             *)
NewSlots(i, n) ==
  \A x, y \in Id :
    LET a == scope_stack'[i][x]
        b == scope_stack'[i][y]
        variable(c) == c # NULL /\ heap'[c].spec \in {"VAR", "PARAM"}
    IN ~ Kept(i, x) /\ variable(a) =>
         /\ heap'[a].bp_off \in FrameSize(blocks[i]) .. FrameSize(blocks[i]) + n - 1
         /\ (x # y /\ ~ Kept(i, y) /\ variable(b)) => heap'[a].bp_off # heap'[b].bp_off

LEMMA SlotsStay ==
  ASSUME TypeInv, HeapKept, status = "parsing", NEW i \in 1 .. Depth, Slots(i),
         blocks'[i].proc = blocks[i].proc, NEW n \in Nat,
         blocks'[i].vars = blocks[i].vars + n, NewSlots(i, n)
  PROVE  Slots(i)'
<1> DEFINE f == FrameSize(blocks[i])
<1>1. FrameSize(blocks[i])' = f + n /\ f \in Nat
  BY FrameKept
<1> SUFFICES ASSUME NEW x \in Id, NEW y \in Id, IsVariable(scope_stack[i][x])'
             PROVE  /\ heap'[scope_stack'[i][x]].bp_off \in 0 .. f + n - 1
                    /\ (x # y /\ IsVariable(scope_stack[i][y])') =>
                         heap'[scope_stack'[i][x]].bp_off # heap'[scope_stack'[i][y]].bp_off
  BY <1>1 DEF Slots
<1>2. ASSUME NEW z \in Id, IsVariable(scope_stack[i][z])'
      PROVE  /\ Kept(i, z) => /\ IsVariable(scope_stack[i][z])
                              /\ scope_stack'[i][z] = scope_stack[i][z]
                              /\ heap'[scope_stack[i][z]] = heap[scope_stack[i][z]]
                              /\ heap'[scope_stack'[i][z]].bp_off \in 0 .. f - 1
             /\ ~ Kept(i, z) => heap'[scope_stack'[i][z]].bp_off \in f .. f + n - 1
  <2>1. CASE Kept(i, z)
    <3>1. scope_stack'[i][z] = scope_stack[i][z] /\ scope_stack[i][z] # NULL
      BY <1>2, <2>1 DEF Kept, IsVariable, HasSpec
    <3>2. heap'[scope_stack[i][z]] = heap[scope_stack[i][z]]
      BY <3>1, TableType DEF HeapKept, Pointer, TypeInv
    <3>3. IsVariable(scope_stack[i][z])
      BY <1>2, <3>1, <3>2 DEF IsVariable, HasSpec
    <3> QED
      BY <2>1, <3>1, <3>2, <3>3 DEF Slots
  <2>2. CASE ~ Kept(i, z)
    BY <1>2, <2>2 DEF NewSlots, IsVariable, HasSpec
  <2> QED
    BY <2>1, <2>2
<1>3. heap'[scope_stack'[i][x]].bp_off \in 0 .. f + n - 1
  BY <1>1, <1>2
<1>4. ASSUME x # y, IsVariable(scope_stack[i][y])'
      PROVE  heap'[scope_stack'[i][x]].bp_off # heap'[scope_stack'[i][y]].bp_off
  <2>1. CASE Kept(i, x) /\ Kept(i, y)
    BY <1>2, <1>4, <2>1 DEF Slots
  <2>2. CASE ~ Kept(i, x) /\ ~ Kept(i, y)
    BY <1>4, <2>2 DEF NewSlots, IsVariable, HasSpec
  <2>3. ASSUME NEW u \in 0 .. f - 1, NEW v \in f .. f + n - 1 PROVE u # v
    BY <1>1
  <2> QED
    BY <1>2, <1>4, <2>1, <2>2, <2>3
<1> QED
  BY <1>3, <1>4

AllSlots == status = "parsing" => \A i \in 1 .. Depth : Slots(i)

LEMMA SlotsStep ==
  TypeInv /\ Beginning /\ Frames /\ AllSlots /\ [Next]_vars => AllSlots'
<1> SUFFICES ASSUME TypeInv, Beginning, Frames, AllSlots, [Next]_vars, status' = "parsing"
             PROVE  \A i \in 1 .. Depth' : Slots(i)'
  BY DEF AllSlots
<1>1. HeapKept /\ Depth \in Nat /\ Len(heap) \in Nat
  BY HeapIsKept, TableType DEF TypeInv
<1>2. ASSUME status = "parsing" PROVE \A i \in 1 .. Depth : Slots(i)
  BY <1>2 DEF AllSlots
<1>3. ASSUME NEW i \in 1 .. Depth, \A x \in Id : scope_stack'[i][x] = scope_stack[i][x]
      PROVE  NewSlots(i, 0)
  BY <1>3 DEF NewSlots, Kept
<1>4. ASSUME status = "parsing", NEW i \in 1 .. Depth, blocks'[i].proc = blocks[i].proc,
             NewSlots(i, 0), blocks'[i].vars = blocks[i].vars
      PROVE  Slots(i)'
  <2>1. blocks'[i].vars = blocks[i].vars + 0
    BY <1>4, BlockType
  <2> QED
    BY <1>1, <1>2, <1>4, <2>1, SlotsStay
<1>5. CASE ForceInitialization
  <2>1. /\ Depth' = 1
        /\ heap' = <<NewSymrec("PROCEDURE", PrintId, <<2>>, Uninitialised),
                     NewSymrec("PARAM", Arg, NULL, Uninitialised)>>
        /\ \A x \in Id : scope_stack'[1][x] = IF x = PrintId THEN 1 ELSE NULL
    BY <1>5, InitializedTables
  <2>2. heap'[1].spec = "PROCEDURE"
    BY <2>1 DEF NewSymrec
  <2> QED
    BY <2>1, <2>2 DEF Slots, IsVariable, HasSpec
<1>6. ASSUME NEW id \in Id, ConstantDefinition(id)
      PROVE  \A i \in 1 .. Depth' : Slots(i)'
  <2> DEFINE a == Len(heap) + 1
  <2>1. /\ status = "parsing" /\ Depth' = Depth /\ blocks' = blocks
        /\ heap'[a] = NewSymrec("CONST", id, NULL, constant_counter)
        /\ \A i \in 1 .. Depth : \A x \in Id :
             scope_stack'[i][x] = IF i = Depth /\ x = id THEN a ELSE scope_stack[i][x]
    BY <1>6, ConstantTables
  <2>2. heap'[a].spec = "CONST"
    BY <2>1 DEF NewSymrec
  <2> HIDE DEF a
  <2>3. \A i \in 1 .. Depth : NewSlots(i, 0)
    BY <2>1, <2>2 DEF NewSlots, Kept
  <2> QED
    BY <1>4, <2>1, <2>3
<1>7. ASSUME NEW ids \in IdLists, VariableDefinition(ids)
      PROVE  \A i \in 1 .. Depth' : Slots(i)'
  <2> DEFINE n == Len(ids)
             h == Len(heap)
  <2>1. /\ status = "parsing" /\ Depth' = Depth /\ Depth \in 1 .. Depth /\ n \in Nat
        /\ ids \in Seq(Id)
        /\ \A i \in 1 .. Depth : \A x \in Id :
             i # Depth \/ x \notin Range(ids) => scope_stack'[i][x] = scope_stack[i][x]
        /\ \A k \in 1 .. n : scope_stack'[Depth][ids[k]] = h + k
        /\ \A k \in 1 .. n : heap'[h + k] = NewSymrec("VAR", ids[k], NULL, Counter + k - 1)
    BY <1>7, VariableTables
  <2>2. /\ Advances("var", n, 0) /\ Counter \in Nat
    BY <1>7, VariableBlocks
  <2>3. \A k \in 1 .. n : heap'[h + k].bp_off = Counter + k - 1
    BY <2>1, OffsetOfRecord
  <2>4. Counter = FrameSize(blocks[Depth])
    <3>1. Block.phase \in {"const", "var"}
      BY <1>7 DEF VariableDefinition, InPhase
    <3>2. Block.nested = 0
      BY <2>1, <3>1, BlockType DEF Frames, Framed
    <3> QED
      BY <2>1, <3>2, BlockType DEF Frames, Framed, Exact
  <2>5. /\ \A i \in 1 .. Depth : blocks'[i].proc = blocks[i].proc
        /\ \A i \in 1 .. Depth : i # Depth => blocks'[i] = blocks[i]
        /\ blocks'[Depth].vars = blocks[Depth].vars + n
    BY <2>1, <2>2, AdvanceKeeps DEF Advances
  <2> HIDE DEF n, h
  <2>6. ASSUME NEW i \in 1 .. Depth, i # Depth PROVE Slots(i)'
    BY <1>3, <1>4, <2>1, <2>5, <2>6
  <2>7. ASSUME NEW d, d = Depth PROVE NewSlots(d, n)
    <3>1. ASSUME NEW x \in Id, ~ Kept(d, x)
          PROVE  \E k \in 1 .. n : /\ x = ids[k] /\ scope_stack'[d][x] = h + k
                                   /\ heap'[h + k].bp_off = FrameSize(blocks[d]) + k - 1
      <4>1. x \in Range(ids) /\ DOMAIN ids = 1 .. n
        BY <2>1, <2>7, <3>1, LenProperties DEF Kept, n
      <4>2. PICK k \in 1 .. n : x = ids[k]
        BY <4>1 DEF Range
      <4> QED
        BY <2>1, <2>3, <2>4, <2>7, <4>2
    <3>2. FrameSize(blocks[d]) \in Nat
      BY <2>2, <2>4, <2>7
    <3> HIDE <2>4
    <3>3. ASSUME NEW x \in Id, NEW y \in Id, ~ Kept(d, x)
          PROVE  /\ heap'[scope_stack'[d][x]].bp_off
                      \in FrameSize(blocks[d]) .. FrameSize(blocks[d]) + n - 1
                 /\ (x # y /\ ~ Kept(d, y)) =>
                      heap'[scope_stack'[d][x]].bp_off # heap'[scope_stack'[d][y]].bp_off
      <4>1. PICK k \in 1 .. n : /\ x = ids[k] /\ scope_stack'[d][x] = h + k
                                /\ heap'[h + k].bp_off = FrameSize(blocks[d]) + k - 1
        BY <3>1, <3>3
      <4>2. ASSUME x # y, ~ Kept(d, y)
            PROVE  heap'[scope_stack'[d][x]].bp_off # heap'[scope_stack'[d][y]].bp_off
        <5>1. PICK l \in 1 .. n : /\ y = ids[l] /\ scope_stack'[d][y] = h + l
                                  /\ heap'[h + l].bp_off = FrameSize(blocks[d]) + l - 1
          BY <3>1, <4>2
        <5>2. k # l
          BY <4>1, <4>2, <5>1
        <5> QED
          BY <2>1, <3>2, <4>1, <5>1, <5>2
      <4> QED
        BY <2>1, <3>2, <4>1, <4>2
    <3> QED
      BY <3>3 DEF NewSlots
  <2>8. ASSUME NEW d, d = Depth PROVE Slots(d)'
    BY <1>1, <1>2, <2>1, <2>5, <2>7, <2>8, SlotsStay
  <2> QED
    BY <2>1, <2>6, <2>8
<1>8. ASSUME NEW id \in Id, NEW params \in IdLists, ProcedureBlock(id, params)
      PROVE  \A i \in 1 .. Depth' : Slots(i)'
  <2> DEFINE n    == Len(params)
             s    == Len(heap) + n + 1
             list == [k \in 1 .. n |-> Len(heap) + k]
  <2>1. /\ status = "parsing" /\ Depth' = Depth + 1 /\ Depth \in 1 .. Depth
        /\ n \in Nat /\ params \in Seq(Id)
        /\ heap'[s] = NewSymrec("PROCEDURE", id, list, procedure_counter)
        /\ \A k \in 1 .. n : heap'[s + k] = Parameter(params, k)
        /\ \A i \in 1 .. Depth : \A x \in Id :
             scope_stack'[i][x] = IF i = Depth /\ x = id THEN s ELSE scope_stack[i][x]
        /\ \A k \in 1 .. n : scope_stack'[Depth + 1][params[k]] = s + k
        /\ \A x \in Id \ Range(params) : scope_stack'[Depth + 1][x] = NULL
    BY <1>8, ProcedureTables, ZenonT(60)
  <2>2. heap'[s].spec = "PROCEDURE"
    BY <2>1 DEF NewSymrec
  <2>3. \A k \in 1 .. n : heap'[s + k].bp_off = k - 1
    BY <2>1, OffsetOfRecord DEF Parameter
  <2>4. /\ \A i \in 1 .. Depth : i # Depth => blocks'[i] = blocks[i]
        /\ blocks'[Depth] = Advance(blocks[Depth], "proc", 0, 1)
    BY <1>8, ProcedureBlocks
  <2>5. ASSUME NEW d, d = Depth + 1 PROVE FrameSize(blocks[d])' = n
    BY <1>8, <2>5, NewProcedureBlock
  <2> HIDE DEF n, s, list
  <2>6. \A i \in 1 .. Depth : NewSlots(i, 0)
    BY <2>1, <2>2 DEF NewSlots, Kept
  <2>7. \A i \in 1 .. Depth :
          blocks'[i].proc = blocks[i].proc /\ blocks'[i].vars = blocks[i].vars
    <3>1. blocks[Depth].vars \in Nat
      BY <2>1, BlockType
    <3> QED
      BY <2>4, <3>1 DEF Advance
  <2>8. \A i \in 1 .. Depth : Slots(i)'
    BY <1>4, <2>1, <2>6, <2>7
  <2>9. ASSUME NEW d, d = Depth + 1 PROVE Slots(d)'
    <3>1. ASSUME NEW x \in Id, scope_stack'[d][x] # NULL
          PROVE  \E k \in 1 .. n : x = params[k] /\ heap'[scope_stack'[d][x]].bp_off = k - 1
      <4>1. x \in Range(params) /\ DOMAIN params = 1 .. n
        BY <2>1, <2>9, <3>1, LenProperties DEF n
      <4>2. PICK k \in 1 .. n : x = params[k]
        BY <4>1 DEF Range
      <4> QED
        BY <2>1, <2>3, <2>9, <4>2
    <3>2. ASSUME NEW x \in Id, NEW y \in Id, scope_stack'[d][x] # NULL
          PROVE  /\ heap'[scope_stack'[d][x]].bp_off \in 0 .. n - 1
                 /\ (x # y /\ scope_stack'[d][y] # NULL) =>
                      heap'[scope_stack'[d][x]].bp_off # heap'[scope_stack'[d][y]].bp_off
      <4>1. PICK k \in 1 .. n : x = params[k] /\ heap'[scope_stack'[d][x]].bp_off = k - 1
        BY <3>1, <3>2
      <4>2. ASSUME x # y, scope_stack'[d][y] # NULL
            PROVE  heap'[scope_stack'[d][x]].bp_off # heap'[scope_stack'[d][y]].bp_off
        <5>1. PICK l \in 1 .. n : y = params[l] /\ heap'[scope_stack'[d][y]].bp_off = l - 1
          BY <3>1, <4>2
        <5>2. k # l
          BY <4>1, <4>2, <5>1
        <5> QED
          BY <2>1, <4>1, <5>1, <5>2
      <4> QED
        BY <2>1, <4>1, <4>2
    <3>3. FrameSize(blocks[d])' = n
      BY <2>5, <2>9
    <3> QED
      BY <3>2, <3>3 DEF Slots, IsVariable, HasSpec
  <2>10. \A i \in 1 .. Depth' : i \in 1 .. Depth \/ i = Depth + 1
    BY <1>1, <2>1
  <2> QED
    BY <2>8, <2>9, <2>10
<1>9. CASE ProcedureDefinition
  <2>1. /\ status = "parsing" /\ Depth' = Depth - 1
        /\ \A i \in 1 .. Depth' : scope_stack'[i] = scope_stack[i] /\ i \in 1 .. Depth
        /\ \A i \in 1 .. Depth - 1 : blocks'[i] = blocks[i]
    BY <1>9, ClosedTables, ClosedBlocks
  <2> QED
    BY <1>3, <1>4, <2>1
<1>10. CASE Program
  BY <1>10 DEF Program
<1>11. ASSUME NEW id \in Id, NEW n \in 0 .. MaxGroup,
              \/ AssignmentStatement(id) \/ Operand(id) \/ ProcedureStatement(id, n)
              \/ Literal \/ RealLiteral
       PROVE  \A i \in 1 .. Depth' : Slots(i)'
  <2>1. status = "parsing" /\ Advances("body", 0, 0) /\ scope_stack' = scope_stack
    BY <1>11, StatementBlocks, ScopesOfStatements
  <2>2. /\ \A i \in 1 .. Depth : blocks'[i].proc = blocks[i].proc
        /\ \A i \in 1 .. Depth : blocks'[i].vars = blocks[i].vars
        /\ Depth' = Depth
    <3>1. Depth \in 1 .. Depth /\ blocks[Depth].vars \in Nat
      BY <2>1, BlockType
    <3> QED
      BY <2>1, <3>1, AdvanceKeeps DEF Depth, Advances
  <2> QED
    BY <1>3, <1>4, <2>1, <2>2
<1>12. CASE UNCHANGED vars
  BY <1>2, <1>3, <1>4, <1>12 DEF vars, Depth
<1> QED
  BY <1>5, <1>6, <1>7, <1>8, <1>9, <1>10, <1>11, <1>12, Steps

LEMMA SlotsInit == Init => AllSlots
BY DEF Init, AllSlots

(* In every program the variables of an open block have distinct slots     *)
(* within the frame of its function, although start_procedure numbers the  *)
(* parameters, the parser copies them and the variables are counted         *)
(* elsewhere.                                                               *)
THEOREM SlotsInFrames == Spec => []FrameSlots
<1>1. AllSlots => FrameSlots
  BY DEF AllSlots, Slots, FrameSlots
<1> QED
  BY <1>1, FramesInit, SlotsInit, BeginningInit, BeginningStep, FramesStep, SlotsStep,
     TypeCorrect, PTL DEF Spec

-----------------------------------------------------------------------------
(* Parameters                                                              *)

(* The parameters of the procedure of the i-th block have the slots in     *)
(* which a caller pushes them, in its list and in its table.               *)
ParamsAt(i) ==
  LET list == heap[blocks[i].proc].parameter_list IN
  \A k \in 1 .. Len(list) :
    LET a == scope_stack[i][heap[list[k]].id] IN
    /\ heap[list[k]].bp_off = k - 1
    /\ a # NULL
    /\ heap[a].spec = "PARAM" => heap[a].bp_off = k - 1

(* A reduction puts no parameter into the i-th table. *)
NoNewParams(i) ==
  \A x \in Id :
    LET a == scope_stack'[i][x] IN
    scope_stack[i][x] = a \/ (a # NULL /\ heap'[a].spec # "PARAM")

LEMMA OpenList ==
  ASSUME TypeInv, MemorySafe, AllDeclared, status = "parsing", NEW i \in 2 .. Depth
  PROVE  /\ i \in 1 .. Depth /\ blocks[i].proc \in Address
         /\ LET list == heap[blocks[i].proc].parameter_list
            IN  /\ Len(list) \in Nat
                /\ \A k \in 1 .. Len(list) : list[k] \in Address /\ heap[list[k]].id \in Id
<1> DEFINE p    == blocks[i].proc
           x    == heap[p].id
           list == heap[p].parameter_list
<1>1. Depth \in Nat /\ i \in 1 .. Depth /\ i - 1 \in 1 .. Depth
  BY TableType DEF TypeInv
<1>2. p # NULL /\ heap[p].spec = "PROCEDURE" /\ scope_stack[i - 1][x] = p
  BY DEF AllDeclared, Declared, HasSpec
<1>3. p \in Address /\ heap[p] \in Symrec
  BY <1>1, <1>2, BlockType, TableType DEF TypeInv
<1>4. x \in Id /\ list \in Seq(Nat) /\ list # NULL
  BY <1>2, <1>3 DEF TypeInv, ProceduresHaveLists, Symrec
<1>5. DOMAIN list = 1 .. Len(list) /\ Len(list) \in Nat
  BY <1>4, LenProperties
<1>6. Range(list) \subseteq Owned(i - 1, x)
  BY <1>2, <1>4 DEF Owned
<1>7. Owned(i - 1, x) \subseteq Address
  BY <1>1, <1>4 DEF MemorySafe, TypeInv, TypeOK
<1>8. ASSUME NEW k \in 1 .. Len(list)
      PROVE  list[k] \in Address /\ heap[list[k]].id \in Id
  <2>1. list[k] \in Range(list)
    BY <1>5 DEF Range
  <2>2. list[k] \in Address
    BY <1>6, <1>7, <2>1
  <2> QED
    BY <2>2, TableType DEF TypeInv, Symrec
<1> QED
  BY <1>1, <1>3, <1>5, <1>8

LEMMA ParamsKept ==
  ASSUME TypeInv, MemorySafe, AllDeclared, HeapKept, status = "parsing",
         NEW i \in 2 .. Depth, ParamsAt(i), blocks'[i].proc = blocks[i].proc,
         NoNewParams(i)
  PROVE  ParamsAt(i)'
<1> DEFINE list == heap[blocks[i].proc].parameter_list
<1>1. /\ i \in 1 .. Depth
      /\ heap'[blocks'[i].proc].parameter_list = list
      /\ \A k \in 1 .. Len(list) : /\ list[k] \in Address /\ heap[list[k]].id \in Id
                                   /\ heap'[list[k]] = heap[list[k]]
  BY OpenList DEF HeapKept
<1>2. ASSUME NEW k \in 1 .. Len(list)
      PROVE  LET a == scope_stack'[i][heap[list[k]].id]
             IN  /\ heap[list[k]].bp_off = k - 1
                 /\ a # NULL
                 /\ heap'[a].spec = "PARAM" => heap'[a].bp_off = k - 1
  <2> DEFINE x == heap[list[k]].id
             a == scope_stack[i][x]
  <2>1. /\ heap[list[k]].bp_off = k - 1 /\ a # NULL
        /\ heap[a].spec = "PARAM" => heap[a].bp_off = k - 1
    BY DEF ParamsAt
  <2>2. x \in Id
    BY <1>1
  <2>3. heap'[a] = heap[a]
    BY <1>1, <2>1, <2>2, TableType DEF HeapKept, Pointer, TypeInv
  <2>4. \/ scope_stack'[i][x] = a
        \/ scope_stack'[i][x] # NULL /\ heap'[scope_stack'[i][x]].spec # "PARAM"
    BY <2>2 DEF NoNewParams
  <2> HIDE DEF list
  <2> QED
    BY <2>1, <2>3, <2>4
<1> HIDE DEF list
<1>3. \A k \in 1 .. Len(list) : heap'[list[k]] = heap[list[k]]
  BY <1>1
<1>4. \A k \in 1 .. Len(list) :
        LET a == scope_stack'[i][heap'[list[k]].id]
        IN  /\ heap'[list[k]].bp_off = k - 1
            /\ a # NULL
            /\ heap'[a].spec = "PARAM" => heap'[a].bp_off = k - 1
  BY <1>2, <1>3
<1> QED
  BY <1>1, <1>4 DEF ParamsAt

LEMMA ParamsStep ==
  TypeInv /\ MemorySafe /\ Beginning /\ AllDeclared /\ ParametersAtTheirSlots
    /\ [Next]_vars => ParametersAtTheirSlots'
<1> SUFFICES ASSUME TypeInv, MemorySafe, Beginning, AllDeclared, ParametersAtTheirSlots,
                    [Next]_vars, status' = "parsing"
             PROVE  \A i \in 2 .. Depth' : ParamsAt(i)'
  BY DEF ParametersAtTheirSlots, ParamsAt
<1>1. HeapKept /\ Depth \in Nat
  BY HeapIsKept, TableType DEF TypeInv
<1>2. ASSUME status = "parsing" PROVE \A i \in 2 .. Depth : ParamsAt(i)
  BY <1>2 DEF ParametersAtTheirSlots, ParamsAt
<1>3. ASSUME NEW i \in 1 .. Depth, \A x \in Id : scope_stack'[i][x] = scope_stack[i][x]
      PROVE  NoNewParams(i)
  BY <1>3 DEF NoNewParams
<1>4. ASSUME status = "parsing", NEW i \in 2 .. Depth, blocks'[i].proc = blocks[i].proc,
             NoNewParams(i)
      PROVE  ParamsAt(i)'
  BY <1>1, <1>2, <1>4, ParamsKept
<1>5. CASE ForceInitialization
  BY <1>5, InitializedTables
<1>6. ASSUME NEW id \in Id, ConstantDefinition(id)
      PROVE  \A i \in 2 .. Depth' : ParamsAt(i)'
  <2> DEFINE a == Len(heap) + 1
  <2>1. /\ status = "parsing" /\ Depth' = Depth /\ blocks' = blocks
        /\ heap'[a] = NewSymrec("CONST", id, NULL, constant_counter)
        /\ \A i \in 1 .. Depth : \A x \in Id :
             scope_stack'[i][x] = IF i = Depth /\ x = id THEN a ELSE scope_stack[i][x]
    BY <1>6, ConstantTables
  <2>2. heap'[a].spec = "CONST" /\ a # NULL
    <3>1. heap'[a].spec = "CONST"
      BY <2>1 DEF NewSymrec
    <3>2. a \in Nat
      BY TableType DEF TypeInv
    <3> QED
      BY <3>1, <3>2, DeclarationsAssumption DEF DeclarationsAssumption
  <2> HIDE DEF a
  <2>3. \A i \in 1 .. Depth : NoNewParams(i)
    BY <2>1, <2>2 DEF NoNewParams
  <2>4. \A i \in 2 .. Depth : i \in 1 .. Depth
    BY <1>1
  <2> QED
    BY <1>4, <2>1, <2>3, <2>4
<1>7. ASSUME NEW ids \in IdLists, VariableDefinition(ids)
      PROVE  \A i \in 2 .. Depth' : ParamsAt(i)'
  <2> DEFINE n == Len(ids)
             h == Len(heap)
  <2>1. /\ status = "parsing" /\ Depth' = Depth /\ Depth \in 1 .. Depth /\ n \in Nat
        /\ ids \in Seq(Id)
        /\ \A i \in 1 .. Depth : \A x \in Id :
             i # Depth \/ x \notin Range(ids) => scope_stack'[i][x] = scope_stack[i][x]
        /\ \A k \in 1 .. n : scope_stack'[Depth][ids[k]] = h + k
        /\ \A k \in 1 .. n : heap'[h + k] = NewSymrec("VAR", ids[k], NULL, Counter + k - 1)
    BY <1>7, VariableTables
  <2>2. \A i \in 1 .. Depth : blocks'[i].proc = blocks[i].proc
    BY <1>7, <2>1, VariableBlocks, AdvanceKeeps
  <2>3. ASSUME NEW k \in 1 .. n PROVE heap'[h + k].spec = "VAR" /\ h + k # NULL
    <3>1. h \in Nat /\ heap'[h + k] = NewSymrec("VAR", ids[k], NULL, Counter + k - 1)
      BY <2>1, TableType DEF TypeInv
    <3>2. h + k \in Nat
      BY <2>1, <3>1
    <3> HIDE DEF h
    <3>3. heap'[h + k].spec = "VAR"
      BY <3>1 DEF NewSymrec
    <3> QED
      BY <3>2, <3>3, DeclarationsAssumption DEF DeclarationsAssumption
  <2> HIDE DEF h
  <2>4. ASSUME NEW d, d = Depth PROVE NoNewParams(d)
    <3> SUFFICES ASSUME NEW x \in Id, scope_stack'[d][x] # scope_stack[d][x]
                 PROVE  scope_stack'[d][x] # NULL /\ heap'[scope_stack'[d][x]].spec # "PARAM"
      BY DEF NoNewParams
    <3>1. x \in Range(ids) /\ DOMAIN ids = 1 .. n
      BY <2>1, <2>4, LenProperties
    <3>2. PICK k \in 1 .. n : x = ids[k]
      BY <3>1 DEF Range
    <3> HIDE DEF n
    <3> QED
      BY <2>1, <2>3, <2>4, <3>2
  <2>5. ASSUME NEW i \in 1 .. Depth PROVE NoNewParams(i)
    BY <1>3, <2>1, <2>4
  <2>6. \A i \in 2 .. Depth : i \in 1 .. Depth
    BY <1>1
  <2> QED
    BY <1>4, <2>1, <2>2, <2>5, <2>6
<1>8. ASSUME NEW id \in Id, NEW params \in IdLists, ProcedureBlock(id, params)
      PROVE  \A i \in 2 .. Depth' : ParamsAt(i)'
  <2> DEFINE n    == Len(params)
             h    == Len(heap)
             s    == Len(heap) + n + 1
             list == [k \in 1 .. n |-> Len(heap) + k]
  <2>1. /\ status = "parsing" /\ Depth' = Depth + 1 /\ Depth \in 1 .. Depth
        /\ n \in Nat /\ params \in Seq(Id) /\ Len(list) = n
        /\ heap'[s] = NewSymrec("PROCEDURE", id, list, procedure_counter)
        /\ \A k \in 1 .. n : heap'[h + k] = Parameter(params, k)
        /\ \A k \in 1 .. n : heap'[s + k] = Parameter(params, k)
        /\ \A i \in 1 .. Depth : \A x \in Id :
             scope_stack'[i][x] = IF i = Depth /\ x = id THEN s ELSE scope_stack[i][x]
        /\ \A k \in 1 .. n : scope_stack'[Depth + 1][params[k]] = s + k
    BY <1>8, ProcedureTables, ZenonT(60)
  <2>2. /\ heap'[s].spec = "PROCEDURE" /\ heap'[s].parameter_list = list
        /\ \A k \in 1 .. n : list[k] = h + k
    BY <2>1 DEF NewSymrec
  <2>3. /\ \A k \in 1 .. n : Parameter(params, k).bp_off = k - 1
        /\ \A k \in 1 .. n : Parameter(params, k).id = params[k]
    BY DEF Parameter, NewSymrec
  <2>4. s # NULL /\ \A k \in 1 .. n : s + k # NULL
    BY <2>1, TableType, DeclarationsAssumption DEF DeclarationsAssumption, TypeInv
  <2>5. /\ \A i \in 1 .. Depth : blocks'[i].proc = blocks[i].proc
        /\ \A i : i = Depth + 1 => blocks'[i].proc = s
    <3>1. /\ \A i \in 1 .. Depth : i # Depth => blocks'[i] = blocks[i]
          /\ blocks'[Depth] = Advance(blocks[Depth], "proc", 0, 1)
          /\ blocks'[Depth + 1] = NewBlock(s)
      BY <1>8, ProcedureBlocks
    <3> HIDE DEF s
    <3> QED
      BY <3>1 DEF Advance, NewBlock
  <2> HIDE DEF n, h, s, list
  <2>6. \A i \in 1 .. Depth : NoNewParams(i)
    BY <2>1, <2>2, <2>4 DEF NoNewParams
  <2>7. ASSUME NEW i \in 2 .. Depth PROVE ParamsAt(i)'
    <3>1. i \in 1 .. Depth
      BY <1>1
    <3> QED
      BY <1>4, <2>1, <2>5, <2>6, <3>1
  <2>8. ASSUME NEW d, d = Depth + 1 PROVE ParamsAt(d)'
    <3>1. heap'[blocks'[d].proc].parameter_list = list
      BY <2>2, <2>5, <2>8
    <3>2. ASSUME NEW k \in 1 .. Len(list)
          PROVE  LET a == scope_stack'[d][heap'[list[k]].id]
                 IN  /\ heap'[list[k]].bp_off = k - 1
                     /\ a # NULL
                     /\ heap'[a].bp_off = k - 1
      <4>1. k \in 1 .. n /\ list[k] = h + k
        BY <2>1, <2>2
      <4>2. heap'[list[k]].bp_off = k - 1 /\ heap'[list[k]].id = params[k]
        BY <2>1, <2>3, <4>1
      <4>3. scope_stack'[d][params[k]] = s + k /\ heap'[s + k].bp_off = k - 1 /\ s + k # NULL
        BY <2>1, <2>3, <2>4, <2>8, <4>1
      <4> QED
        BY <4>2, <4>3
    <3> QED
      BY <3>1, <3>2 DEF ParamsAt
  <2>9. \A i \in 2 .. Depth' : i \in 2 .. Depth \/ i = Depth + 1
    BY <1>1, <2>1
  <2> QED
    BY <2>7, <2>8, <2>9
<1>9. CASE ProcedureDefinition
  <2>1. /\ status = "parsing" /\ Depth' = Depth - 1
        /\ \A i \in 1 .. Depth' : scope_stack'[i] = scope_stack[i] /\ i \in 1 .. Depth
        /\ \A i \in 1 .. Depth - 1 : blocks'[i] = blocks[i]
    BY <1>9, ClosedTables, ClosedBlocks
  <2>2. \A i \in 2 .. Depth' : i \in 2 .. Depth /\ i \in 1 .. Depth' /\ i \in 1 .. Depth - 1
    BY <1>1, <2>1
  <2> QED
    BY <1>3, <1>4, <2>1, <2>2
<1>10. CASE Program
  BY <1>10 DEF Program
<1>11. ASSUME NEW id \in Id, NEW n \in 0 .. MaxGroup,
              \/ AssignmentStatement(id) \/ Operand(id) \/ ProcedureStatement(id, n)
              \/ Literal \/ RealLiteral
       PROVE  \A i \in 2 .. Depth' : ParamsAt(i)'
  <2>1. status = "parsing" /\ Advances("body", 0, 0) /\ scope_stack' = scope_stack
    BY <1>11, StatementBlocks, ScopesOfStatements
  <2>2. /\ \A i \in 1 .. Depth : blocks'[i].proc = blocks[i].proc
        /\ Depth' = Depth /\ \A i \in 2 .. Depth : i \in 1 .. Depth
    BY <1>1, <2>1, AdvanceKeeps DEF Depth
  <2> QED
    BY <1>3, <1>4, <2>1, <2>2
<1>12. CASE UNCHANGED vars
  BY <1>2, <1>12 DEF vars, Depth, ParamsAt
<1> QED
  BY <1>5, <1>6, <1>7, <1>8, <1>9, <1>10, <1>11, <1>12, Steps

LEMMA ParamsInit == Init => ParametersAtTheirSlots
BY DEF Init, ParametersAtTheirSlots

(* Inside a procedure a parameter is found where the caller pushed it,      *)
(* unless the procedure declared the name again, in every program: the two *)
(* numberings of start_procedure agree with the copies of procedure_block.  *)
THEOREM ParametersFound == Spec => []ParametersAtTheirSlots
<1> QED
  BY BeginningInit, BeginningStep, DeclaredInit, DeclaredStep, ParamsInit, ParamsStep,
     MemoryIsSafe, TypeCorrect, PTL DEF Spec

-----------------------------------------------------------------------------
(* Operands                                                                *)

(* Somebody numbered the record, or it is the builtin's. *)
Numbered(r) ==
  \/ r.bp_off \in Nat
  \/ r.spec = "PROCEDURE" /\ r.id = PrintId /\ Len(r.parameter_list) > 0

EntriesNumbered ==
  \A i \in 1 .. Depth : \A x \in Id :
    LET a == scope_stack[i][x] IN a # NULL => Numbered(heap[a])

LEMMA EntriesStay ==
  ASSUME TypeInv, HeapKept, EntriesNumbered,
         \A i \in 1 .. Depth' : \A x \in Id :
           LET a == scope_stack'[i][x] IN Kept(i, x) \/ (a # NULL => Numbered(heap'[a]))
  PROVE  EntriesNumbered'
<1> SUFFICES ASSUME NEW i \in 1 .. Depth', NEW x \in Id, scope_stack'[i][x] # NULL
             PROVE  Numbered(heap'[scope_stack'[i][x]])
  BY DEF EntriesNumbered, Numbered
<1>1. ASSUME Kept(i, x) PROVE Numbered(heap'[scope_stack'[i][x]])
  <2>1. i \in 1 .. Depth /\ scope_stack'[i][x] = scope_stack[i][x]
    BY <1>1 DEF Kept
  <2>2. scope_stack[i][x] \in Address
    BY <2>1, TableType DEF Pointer, TypeInv
  <2> QED
    BY <2>1, <2>2 DEF HeapKept, EntriesNumbered
<1> QED
  BY <1>1

LEMMA EntriesStep ==
  TypeInv /\ Beginning /\ EntriesNumbered /\ [Next]_vars => EntriesNumbered'
<1> SUFFICES ASSUME TypeInv, Beginning, EntriesNumbered, [Next]_vars
             PROVE  EntriesNumbered'
  OBVIOUS
<1>1. HeapKept
  BY HeapIsKept
<1>2. CASE scope_stack' = scope_stack
  <2>1. \A i \in 1 .. Depth' : \A x \in Id : Kept(i, x)
    BY <1>2 DEF Kept, Depth
  <2> QED
    BY <1>1, <2>1, EntriesStay
<1>3. CASE ForceInitialization
  <2>1. /\ Depth' = 1
        /\ heap' = <<NewSymrec("PROCEDURE", PrintId, <<2>>, Uninitialised),
                     NewSymrec("PARAM", Arg, NULL, Uninitialised)>>
        /\ \A x \in Id : scope_stack'[1][x] = IF x = PrintId THEN 1 ELSE NULL
    BY <1>3, InitializedTables
  <2>2. Numbered(heap'[1])
    BY <2>1 DEF Numbered, NewSymrec
  <2> QED
    BY <1>1, <2>1, <2>2, EntriesStay
<1>4. ASSUME NEW id \in Id, ConstantDefinition(id)
      PROVE  EntriesNumbered'
  <2> DEFINE a == Len(heap) + 1
  <2>1. /\ Depth' = Depth /\ constant_counter \in Nat
        /\ heap'[a] = NewSymrec("CONST", id, NULL, constant_counter)
        /\ \A i \in 1 .. Depth : \A x \in Id :
             scope_stack'[i][x] = IF i = Depth /\ x = id THEN a ELSE scope_stack[i][x]
    BY <1>4, ConstantTables DEF TypeInv, TypeOK
  <2>2. Numbered(heap'[a])
    BY <2>1, OffsetOfRecord DEF Numbered
  <2> HIDE DEF a
  <2> QED
    BY <1>1, <2>1, <2>2, EntriesStay DEF Kept
<1>5. ASSUME NEW ids \in IdLists, VariableDefinition(ids)
      PROVE  EntriesNumbered'
  <2> DEFINE n == Len(ids)
             h == Len(heap)
  <2>1. /\ Depth' = Depth /\ Depth \in 1 .. Depth /\ n \in Nat /\ ids \in Seq(Id)
        /\ \A i \in 1 .. Depth : \A x \in Id :
             i # Depth \/ x \notin Range(ids) => scope_stack'[i][x] = scope_stack[i][x]
        /\ \A k \in 1 .. n : scope_stack'[Depth][ids[k]] = h + k
        /\ \A k \in 1 .. n : heap'[h + k] = NewSymrec("VAR", ids[k], NULL, Counter + k - 1)
    BY <1>5, VariableTables
  <2>2. ASSUME NEW k \in 1 .. n PROVE Numbered(heap'[h + k])
    <3>1. Counter \in Nat
      BY CounterType DEF TypeInv
    <3> HIDE DEF n, h
    <3>2. Counter + k - 1 \in Nat
      BY <2>1, <3>1
    <3>3. heap'[h + k].bp_off = Counter + k - 1
      BY <2>1, OffsetOfRecord
    <3> QED
      BY <3>2, <3>3 DEF Numbered
  <2> HIDE DEF h
  <2>3. ASSUME NEW x \in Id, x \in Range(ids)
        PROVE  Numbered(heap'[scope_stack'[Depth][x]])
    <3>1. DOMAIN ids = 1 .. n
      BY <2>1, LenProperties
    <3>2. PICK k \in 1 .. n : x = ids[k]
      BY <2>3, <3>1 DEF Range
    <3> HIDE DEF n
    <3> QED
      BY <2>1, <2>2, <3>2
  <2> QED
    BY <1>1, <2>1, <2>3, EntriesStay DEF Kept
<1>6. ASSUME NEW id \in Id, NEW params \in IdLists, ProcedureBlock(id, params)
      PROVE  EntriesNumbered'
  <2> DEFINE n    == Len(params)
             s    == Len(heap) + n + 1
             list == [k \in 1 .. n |-> Len(heap) + k]
  <2>1. /\ Depth' = Depth + 1 /\ Depth \in 1 .. Depth /\ procedure_counter \in Nat
        /\ n \in Nat /\ params \in Seq(Id)
        /\ heap'[s] = NewSymrec("PROCEDURE", id, list, procedure_counter)
        /\ \A k \in 1 .. n : heap'[s + k] = Parameter(params, k)
        /\ \A i \in 1 .. Depth : \A x \in Id :
             scope_stack'[i][x] = IF i = Depth /\ x = id THEN s ELSE scope_stack[i][x]
        /\ \A k \in 1 .. n : scope_stack'[Depth + 1][params[k]] = s + k
        /\ \A x \in Id \ Range(params) : scope_stack'[Depth + 1][x] = NULL
    BY <1>6, ProcedureTables, ZenonT(60) DEF TypeInv, TypeOK
  <2>2. Numbered(heap'[s])
    BY <2>1, OffsetOfRecord DEF Numbered
  <2> HIDE DEF s, list
  <2>3. ASSUME NEW k \in 1 .. n PROVE Numbered(heap'[s + k])
    <3>1. heap'[s + k].bp_off = k - 1
      BY <2>1, OffsetOfRecord DEF Parameter
    <3> HIDE DEF n
    <3> QED
      BY <2>1, <3>1 DEF Numbered
  <2>4. ASSUME NEW x \in Id, scope_stack'[Depth + 1][x] # NULL
        PROVE  Numbered(heap'[scope_stack'[Depth + 1][x]])
    <3>1. DOMAIN params = 1 .. n /\ x \in Range(params)
      BY <2>1, <2>4, LenProperties
    <3>2. PICK k \in 1 .. n : x = params[k]
      BY <3>1 DEF Range
    <3> HIDE DEF n
    <3> QED
      BY <2>1, <2>3, <3>2
  <2>5. \A i \in 1 .. Depth' : i \in 1 .. Depth \/ i = Depth + 1
    BY <2>1, TableType DEF TypeInv
  <2> QED
    BY <1>1, <2>1, <2>2, <2>4, <2>5, EntriesStay DEF Kept
<1>7. CASE ProcedureDefinition \/ Program
  <2>1. \A i \in 1 .. Depth' : i \in 1 .. Depth /\ scope_stack'[i] = scope_stack[i]
    BY <1>7, ClosedTables
  <2> QED
    BY <1>1, <2>1, EntriesStay DEF Kept
<1>8. ASSUME NEW id \in Id, NEW n \in 0 .. MaxGroup,
             \/ AssignmentStatement(id) \/ Operand(id) \/ ProcedureStatement(id, n)
             \/ Literal \/ RealLiteral
      PROVE  scope_stack' = scope_stack
  BY <1>8, ScopesOfStatements
<1>9. CASE Reads \/ UNCHANGED vars
  BY <1>2, <1>9 DEF Reads, vars
<1> QED
  BY <1>2, <1>3, <1>4, <1>5, <1>6, <1>7, <1>8, <1>9, Steps

(* A name that search_in_any_scope finds is in a table, and in none inside. *)
LEMMA SearchFinds ==
  ASSUME NEW id, search_in_any_scope(id) # NULL
  PROVE  \E i \in 1 .. Depth : /\ search_in_any_scope(id) = scope_stack[i][id]
                               /\ \A j \in i + 1 .. Depth : scope_stack[j][id] = NULL
<1> DEFINE found(i) == /\ scope_stack[i][id] # NULL
                       /\ \A j \in i + 1 .. Depth : scope_stack[j][id] = NULL
           k        == CHOOSE i \in 1 .. Depth : found(i)
<1>1. \E i \in 1 .. Depth : found(i)
  BY DEF search_in_any_scope
<1>2. search_in_any_scope(id) = scope_stack[k][id]
  BY <1>1 DEF search_in_any_scope
<1>3. k \in 1 .. Depth /\ found(k)
  BY <1>1
<1> QED
  BY <1>2, <1>3

(* A declaration, or the end of a scope, uses no symbol. *)
LEMMA ChangeCodes ==
  ASSUME TypeInv,
         \/ ForceInitialization
         \/ \E id \in Id : ConstantDefinition(id)
         \/ \E ids \in IdLists : VariableDefinition(ids)
         \/ \E id \in Id, params \in IdLists : ProcedureBlock(id, params)
         \/ ProcedureDefinition
         \/ Program
  PROVE  \/ code' = NoCode
         \/ \E op \in {"CONST", "FUNCTION"}, arg \in Nat : \E sym :
              code' = Instruction(op, arg, sym)
<1>1. constant_counter \in Nat /\ procedure_counter \in Nat
  BY DEF TypeInv, TypeOK
<1>2. ASSUME \/ ForceInitialization
             \/ \E ids \in IdLists : VariableDefinition(ids)
             \/ \E id \in Id, params \in IdLists : ProcedureBlock(id, params)
      PROVE  code' = NoCode
  BY <1>2 DEF ForceInitialization, VariableDefinition, ProcedureBlock
<1>3. ASSUME NEW id \in Id, ConstantDefinition(id)
      PROVE  code' = Instruction("CONST", constant_counter, Len(heap) + 1)
  BY <1>3 DEF ConstantDefinition
<1>4. CASE ProcedureDefinition
  BY <1>1, <1>4 DEF ProcedureDefinition
<1>5. CASE Program
  BY <1>1, <1>5 DEF Program
<1> QED
  BY <1>1, <1>2, <1>3, <1>4, <1>5

LEMMA OperandsStep ==
  TypeInv /\ EntriesNumbered /\ OperandsInitialised /\ [Next]_vars => OperandsInitialised'
<1> SUFFICES ASSUME TypeInv, EntriesNumbered, OperandsInitialised, [Next]_vars
             PROVE  OperandsInitialised'
  OBVIOUS
<1>1. NoCode.arg = 0 /\ Uninitialised = -1 /\ \A op, arg, sym : Instruction(op, arg, sym).arg = arg
  BY DEF NoCode, Instruction, Uninitialised
<1>2. ASSUME NEW how, Stop(how) PROVE code'.arg = 0
  BY <1>1, <1>2 DEF Stop
<1>3. ASSUME NEW op, NEW arg, NEW sym, Emit(op, arg, sym) PROVE code'.arg = arg
  BY <1>1, <1>3 DEF Emit
<1>4. constant_counter \in Nat /\ procedure_counter \in Nat
  BY DEF TypeInv, TypeOK
<1>5. ASSUME NEW id \in Id, search_in_any_scope(id) # NULL
      PROVE  Numbered(heap[search_in_any_scope(id)])
  BY <1>5, SearchFinds DEF EntriesNumbered
<1>6. ASSUME NEW id \in Id, AssignmentStatement(id) \/ Operand(id)
      PROVE  OperandsInitialised'
  <2> DEFINE s == search_in_any_scope(id)
  <2>1. ASSUME HasSpec(s, {"VAR", "PARAM"}) \/ HasSpec(s, {"CONST"})
        PROVE  heap[s].bp_off \in Nat
    BY <1>5, <2>1 DEF HasSpec, Numbered
  <2> HIDE DEF s
  <2>2. \/ /\ HasSpec(s, {"VAR", "PARAM"}) \/ HasSpec(s, {"CONST"})
           /\ \E op : Emit(op, heap[s].bp_off, s)
        \/ \E how : Stop(how)
    BY <1>6 DEF AssignmentStatement, Operand, Generate, YYERROR, s
  <2> QED
    BY <1>1, <1>2, <1>3, <2>1, <2>2 DEF OperandsInitialised
<1>7. ASSUME NEW id \in Id, NEW n \in 0 .. MaxGroup, ProcedureStatement(id, n)
      PROVE  OperandsInitialised'
  <2> DEFINE s == search_in_any_scope(id)
  <2>1. \/ Emit("CALL_LIB_S", 0, s)
        \/ /\ HasSpec(s, {"PROCEDURE"}) /\ n = Len(heap[s].parameter_list)
           /\ n = 0 \/ heap[s].id # PrintId
           /\ Emit("CALL_S", heap[s].bp_off, s)
        \/ Stop("rejected")
    BY <1>7 DEF ProcedureStatement, IsLibraryCall, Generate, YYERROR
  <2>2. ASSUME HasSpec(s, {"PROCEDURE"}), n = Len(heap[s].parameter_list),
               n = 0 \/ heap[s].id # PrintId
        PROVE  heap[s].bp_off \in Nat
    BY <1>5, <2>2 DEF HasSpec, Numbered
  <2> HIDE DEF s
  <2> QED
    BY <1>1, <1>2, <1>3, <2>1, <2>2 DEF OperandsInitialised
<1>8. CASE Literal \/ RealLiteral
  BY <1>1, <1>2, <1>3, <1>4, <1>8 DEF Literal, RealLiteral, OperandsInitialised
<1>9. CASE \/ ForceInitialization
           \/ \E id \in Id : ConstantDefinition(id)
           \/ \E ids \in IdLists : VariableDefinition(ids)
           \/ \E id \in Id, params \in IdLists : ProcedureBlock(id, params)
           \/ ProcedureDefinition
           \/ Program
  BY <1>1, <1>9, ChangeCodes DEF OperandsInitialised
<1>10. ASSUME code' = NoCode PROVE OperandsInitialised'
  BY <1>1, <1>10 DEF OperandsInitialised
<1>11. CASE UNCHANGED vars
  BY <1>11 DEF vars, OperandsInitialised
<1> QED
  BY <1>6, <1>7, <1>8, <1>9, <1>10, <1>11, Steps

LEMMA OperandsInit == Init => EntriesNumbered /\ OperandsInitialised
<1>1. Init => EntriesNumbered
  BY DEF Init, EntriesNumbered, Depth
<1>2. NoCode.arg # Uninitialised
  BY DEF NoCode, Instruction, Uninitialised
<1>3. Init => OperandsInitialised
  BY <1>2 DEF Init, OperandsInitialised
<1> QED
  BY <1>1, <1>3

(* No instruction takes its operand from a bp_off that malloc left, in any *)
(* program: the builtin's record is the only one without a number that a    *)
(* name can reach, and calls of it are by another instruction (wml.c).      *)
THEOREM OperandsNumbered == Spec => []OperandsInitialised
<1> QED
  BY BeginningInit, BeginningStep, EntriesStep, OperandsInit, OperandsStep, TypeCorrect,
     PTL DEF Spec

-----------------------------------------------------------------------------
(* Nested scopes                                                           *)

Kinds == {"none", "dangling", "const", "procedure", "variable"}

ScopesTyped ==
  /\ Depth \in Nat
  /\ open_scopes \in Seq([Id -> Kinds]) /\ Len(open_scopes) = Depth
  /\ \A i \in 1 .. Depth : \A x \in Id : open_scopes[i][x] = KindOf(scope_stack[i][x])

LEMMA OpenScopes == TypeOK => ScopesTyped
<1> SUFFICES ASSUME TypeOK PROVE ScopesTyped
  OBVIOUS
<1>1. Depth \in Nat
  BY TableType
<1>2. \A a : KindOf(a) \in Kinds
  BY DEF KindOf, Kinds
<1>3. \A i \in 1 .. Depth : [x \in Id |-> KindOf(scope_stack[i][x])] \in [Id -> Kinds]
  BY <1>2
<1> HIDE DEF Kinds
<1>4. open_scopes \in Seq([Id -> Kinds]) /\ Len(open_scopes) = Depth
  BY <1>1, <1>3 DEF open_scopes
<1> QED
  BY <1>1, <1>4 DEF ScopesTyped, open_scopes

LEMMA OpenScopesNext == TypeInv /\ [Next]_vars => ScopesTyped /\ ScopesTyped'
<1>1. (TypeOK => ScopesTyped)'
  BY OpenScopes, PTL
<1>2. TypeInv /\ [Next]_vars => TypeOK'
  BY TypeStep DEF TypeInv
<1> QED
  BY <1>1, <1>2, OpenScopes DEF TypeInv

LEMMA KindKept ==
  ASSUME TypeInv, HeapKept, MemorySafe, MemorySafe', NEW i \in 1 .. Depth,
         i \in 1 .. Depth', NEW x \in Id, scope_stack'[i][x] = scope_stack[i][x]
  PROVE  KindOf(scope_stack[i][x])' = KindOf(scope_stack[i][x])
<1>1. CASE scope_stack[i][x] = NULL
  BY <1>1 DEF KindOf
<1>2. CASE scope_stack[i][x] # NULL
  <2>1. scope_stack[i][x] \in live
    BY <1>2 DEF MemorySafe, Owned
  <2>2. scope_stack'[i][x] \in live'
    BY <1>2 DEF MemorySafe, Owned
  <2>3. heap'[scope_stack[i][x]] = heap[scope_stack[i][x]]
    BY <1>2, TableType DEF HeapKept, Pointer, TypeInv
  <2> QED
    BY <1>2, <2>1, <2>2, <2>3 DEF KindOf
<1> QED
  BY <1>1, <1>2

LEMMA KindNew ==
  ASSUME MemorySafe', NEW i \in 1 .. Depth', NEW x \in Id
  PROVE  LET a == scope_stack'[i][x]
             k == KindOf(scope_stack[i][x])'
         IN  /\ a = NULL => k = "none"
             /\ a # NULL /\ heap'[a].spec = "CONST" => k = "const"
             /\ a # NULL /\ heap'[a].spec = "PROCEDURE" => k = "procedure"
             /\ a # NULL /\ heap'[a].spec \in {"VAR", "PARAM"} => k = "variable"
<1>1. scope_stack'[i][x] # NULL => scope_stack'[i][x] \in live'
  BY DEF MemorySafe, Owned
<1> QED
  BY <1>1 DEF KindOf

LEMMA FoundKind ==
  ASSUME MemorySafe, NEW id \in Id
  PROVE  LET a == search_in_any_scope(id)
             k == KindOf(a)
         IN  /\ HasSpec(a, {"CONST"}) => k = "const"
             /\ HasSpec(a, {"PROCEDURE"}) => k = "procedure"
             /\ HasSpec(a, {"VAR", "PARAM"}) => k = "variable"
<1> DEFINE a == search_in_any_scope(id)
<1>1. ASSUME a # NULL PROVE a \in live
  <2>1. PICK i \in 1 .. Depth : a = scope_stack[i][id]
    BY <1>1, SearchFinds
  <2>2. a \in Owned(i, id)
    BY <1>1, <2>1 DEF Owned
  <2> QED
    BY <2>2 DEF MemorySafe
<1> HIDE DEF a
<1>2. /\ HasSpec(a, {"CONST"}) => KindOf(a) = "const"
      /\ HasSpec(a, {"PROCEDURE"}) => KindOf(a) = "procedure"
      /\ HasSpec(a, {"VAR", "PARAM"}) => KindOf(a) = "variable"
  BY <1>1 DEF HasSpec, KindOf
<1> QED
  BY <1>2 DEF a

(* search_in_any_scope returns the innermost declaration. *)
LEMMA SearchMeans ==
  ASSUME ScopesTyped, NEW id \in Id
  PROVE  Environment!Meaning(id) = KindOf(search_in_any_scope(id))
<1> DEFINE found(i) == /\ scope_stack[i][id] # NULL
                       /\ \A j \in i + 1 .. Depth : scope_stack[j][id] = NULL
           innermost(i) == /\ open_scopes[i][id] # "none"
                           /\ \A j \in i + 1 .. Len(open_scopes) :
                                ~ (open_scopes[j][id] # "none")
<1>1. /\ Depth \in Nat /\ Len(open_scopes) = Depth
      /\ \A i \in 1 .. Depth : open_scopes[i][id] = KindOf(scope_stack[i][id])
  BY DEF ScopesTyped
<1>2. \A c : KindOf(c) = "none" <=> c = NULL
  BY DEF KindOf
<1>3. \A i \in 1 .. Depth : found(i) <=> innermost(i)
  <2>1. \A i \in 1 .. Depth : \A j \in i + 1 .. Depth : j \in 1 .. Depth
    BY <1>1
  <2>2. \A i \in 1 .. Depth : open_scopes[i][id] # "none" <=> scope_stack[i][id] # NULL
    BY <1>1, <1>2
  <2> QED
    BY <1>1, <2>1, <2>2
<1>4. Environment!Meaning(id) =
        IF \E i \in 1 .. Len(open_scopes) : innermost(i)
        THEN open_scopes[CHOOSE i \in 1 .. Len(open_scopes) : innermost(i)][id]
        ELSE "none"
  BY DEF Environment!Meaning
<1>5. search_in_any_scope(id) =
        IF \E i \in 1 .. Depth : found(i)
        THEN scope_stack[CHOOSE i \in 1 .. Depth : found(i)][id] ELSE NULL
  BY DEF search_in_any_scope
<1>6. ASSUME NEW i \in 1 .. Depth, NEW j \in 1 .. Depth, found(i), found(j)
      PROVE  i = j
  <2>1. ~ j \in i + 1 .. Depth /\ ~ i \in j + 1 .. Depth
    BY <1>6
  <2> QED
    BY <1>1, <2>1
<1> HIDE DEF found, innermost
<1>7. CASE \E i \in 1 .. Depth : found(i)
  <2> DEFINE k == CHOOSE i \in 1 .. Depth : found(i)
             l == CHOOSE i \in 1 .. Depth : innermost(i)
  <2>1. k \in 1 .. Depth /\ found(k)
    BY <1>7
  <2>2. l \in 1 .. Depth /\ innermost(l)
    BY <1>3, <1>7
  <2>3. k = l
    BY <1>3, <1>6, <2>1, <2>2
  <2>4. Environment!Meaning(id) = open_scopes[l][id]
    BY <1>1, <1>3, <1>4, <1>7
  <2>5. search_in_any_scope(id) = scope_stack[k][id]
    BY <1>5, <1>7
  <2> HIDE DEF k, l
  <2> QED
    BY <1>1, <2>1, <2>3, <2>4, <2>5
<1>8. CASE ~ \E i \in 1 .. Depth : found(i)
  <2>1. Environment!Meaning(id) = "none"
    BY <1>1, <1>3, <1>4, <1>8
  <2>2. search_in_any_scope(id) = NULL
    BY <1>5, <1>8
  <2> QED
    BY <1>2, <2>1, <2>2
<1> QED
  BY <1>7, <1>8

(* Two stacks of scopes with the same kinds are the same. *)
LEMMA SameScopes ==
  ASSUME NEW s \in Seq([Id -> Kinds]), NEW t \in Seq([Id -> Kinds]), Len(s) = Len(t),
         \A i \in 1 .. Len(s) : \A x \in Id : s[i][x] = t[i][x]
  PROVE  s = t
<1>1. ASSUME NEW i \in 1 .. Len(s) PROVE s[i] = t[i]
  <2>1. s[i] \in [Id -> Kinds] /\ t[i] \in [Id -> Kinds]
    BY ElementOfSeq
  <2>2. \A x \in Id : s[i][x] = t[i][x]
    OBVIOUS
  <2> QED
    BY <2>1, <2>2
<1> QED
  BY <1>1, SeqEqual

LEMMA BindType ==
  ASSUME NEW scope \in [Id -> Kinds], NEW names, NEW kind \in Kinds
  PROVE  /\ Environment!Bind(scope, names, kind) \in [Id -> Kinds]
         /\ \A x \in Id : Environment!Bind(scope, names, kind)[x] =
                          IF x \in names THEN kind ELSE scope[x]
BY DEF Environment!Bind

LEMMA EmptyType ==
  /\ Environment!Empty \in [Id -> Kinds]
  /\ \A x \in Id : Environment!Empty[x] = "none"
BY DEF Environment!Empty, Kinds

(* The stack of scopes after names are declared in the innermost. *)
Bound(names, kind) ==
  [open_scopes EXCEPT ![Depth] = Environment!Bind(open_scopes[Depth], names, kind)]

LEMMA BoundType ==
  ASSUME ScopesTyped, Depth \in 1 .. Depth, NEW names, NEW kind \in Kinds
  PROVE  /\ Bound(names, kind) \in Seq([Id -> Kinds]) /\ Len(Bound(names, kind)) = Depth
         /\ \A i \in 1 .. Depth : \A x \in Id :
              Bound(names, kind)[i][x] = IF i = Depth /\ x \in names THEN kind
                                         ELSE open_scopes[i][x]
<1> DEFINE b == Environment!Bind(open_scopes[Depth], names, kind)
<1>1. open_scopes \in Seq([Id -> Kinds]) /\ Len(open_scopes) = Depth
  BY DEF ScopesTyped
<1>2. open_scopes[Depth] \in [Id -> Kinds]
  BY <1>1, ElementOfSeq
<1>3. /\ b \in [Id -> Kinds]
      /\ \A x \in Id : b[x] = IF x \in names THEN kind ELSE open_scopes[Depth][x]
  BY <1>2, BindType
<1> HIDE DEF b
<1>4. /\ Bound(names, kind) \in Seq([Id -> Kinds]) /\ Len(Bound(names, kind)) = Depth
      /\ \A i \in 1 .. Depth :
           Bound(names, kind)[i] = IF i = Depth THEN b ELSE open_scopes[i]
  BY <1>1, <1>3, ExceptSeq DEF Bound, b
<1> QED
  BY <1>3, <1>4

LEMMA DeclareIs ==
  ASSUME ScopesTyped, ScopesTyped', Depth \in 1 .. Depth, Depth' = Depth,
         NEW names \in SUBSET Id, NEW kind \in {"const", "variable"},
         \A i \in 1 .. Depth : \A x \in Id :
           open_scopes'[i][x] = IF i = Depth /\ x \in names THEN kind ELSE open_scopes[i][x]
  PROVE  Environment!Declare(kind)
<1>1. kind \in Kinds
  BY DEF Kinds
<1>2. /\ Bound(names, kind) \in Seq([Id -> Kinds]) /\ Len(Bound(names, kind)) = Depth
      /\ \A i \in 1 .. Depth : \A x \in Id :
           Bound(names, kind)[i][x] = IF i = Depth /\ x \in names THEN kind
                                      ELSE open_scopes[i][x]
  BY <1>1, BoundType
<1>3. open_scopes' \in Seq([Id -> Kinds]) /\ Len(open_scopes') = Depth
  BY DEF ScopesTyped
<1>4. open_scopes' = Bound(names, kind)
  BY <1>2, <1>3, SameScopes
<1>5. Len(open_scopes) = Depth /\ open_scopes # <<>>
  BY DEF ScopesTyped
<1> QED
  BY <1>4, <1>5 DEF Environment!Declare, Bound

LEMMA EnterIs ==
  ASSUME ScopesTyped, ScopesTyped', Depth \in 1 .. Depth, Depth' = Depth + 1,
         NEW id \in Id, NEW params \in SUBSET Id, open_scopes[Depth][id] = "none",
         \A i \in 1 .. Depth : \A x \in Id :
           open_scopes'[i][x] = IF i = Depth /\ x = id THEN "procedure"
                                ELSE open_scopes[i][x],
         \A x \in Id :
           open_scopes'[Depth + 1][x] = IF x \in params THEN "variable" ELSE "none"
  PROVE  Environment!Enter(id)
<1> DEFINE b == Bound({id}, "procedure")
           e == Environment!Bind(Environment!Empty, params, "variable")
<1>1. "procedure" \in Kinds /\ "variable" \in Kinds
  BY DEF Kinds
<1>2. /\ b \in Seq([Id -> Kinds]) /\ Len(b) = Depth
      /\ \A i \in 1 .. Depth : \A x \in Id :
           b[i][x] = IF i = Depth /\ x \in {id} THEN "procedure" ELSE open_scopes[i][x]
  BY <1>1, BoundType
<1>3. /\ e \in [Id -> Kinds]
      /\ \A x \in Id : e[x] = IF x \in params THEN "variable" ELSE "none"
  BY <1>1, BindType, EmptyType
<1>4. /\ open_scopes' \in Seq([Id -> Kinds]) /\ Len(open_scopes') = Depth + 1
      /\ Depth \in Nat
  BY DEF ScopesTyped
<1> HIDE DEF b, e
<1>5. /\ Append(b, e) \in Seq([Id -> Kinds]) /\ Len(Append(b, e)) = Depth + 1
      /\ \A i \in 1 .. Depth : Append(b, e)[i] = b[i]
      /\ Append(b, e)[Depth + 1] = e
  BY <1>2, <1>3, AppendProperties
<1>6. ASSUME NEW i \in 1 .. Depth + 1, NEW x \in Id
      PROVE  open_scopes'[i][x] = Append(b, e)[i][x]
  <2>1. CASE i \in 1 .. Depth
    BY <1>2, <1>5, <2>1
  <2>2. CASE i = Depth + 1
    BY <1>3, <1>5, <2>2
  <2>3. i \in 1 .. Depth \/ i = Depth + 1
    BY <1>4
  <2> QED
    BY <2>1, <2>2, <2>3
<1>7. open_scopes' = Append(b, e)
  BY <1>4, <1>5, <1>6, SameScopes
<1>8. Len(open_scopes) = Depth /\ open_scopes # <<>>
  BY DEF ScopesTyped
<1> QED
  BY <1>7, <1>8 DEF Environment!Enter, Bound, b, e

LEMMA LeaveIs ==
  ASSUME ScopesTyped, ScopesTyped', Depth \in 1 .. Depth, Depth' = Depth - 1,
         \A i \in 1 .. Depth' : \A x \in Id : open_scopes'[i][x] = open_scopes[i][x]
  PROVE  Environment!Leave
<1> DEFINE r == SubSeq(open_scopes, 1, Depth - 1)
<1>1. /\ open_scopes \in Seq([Id -> Kinds]) /\ Len(open_scopes) = Depth /\ Depth \in Nat
      /\ open_scopes' \in Seq([Id -> Kinds]) /\ Len(open_scopes') = Depth - 1
      /\ open_scopes # <<>>
  BY DEF ScopesTyped
<1>2. \A i \in 1 .. Depth - 1 : open_scopes[i] \in [Id -> Kinds]
  BY <1>1, ElementOfSeq
<1>3. /\ r \in Seq([Id -> Kinds]) /\ Len(r) = Depth - 1
      /\ \A i \in 1 .. Depth - 1 : r[i] = open_scopes[i]
  BY <1>1, <1>2, SubSeqProperties
<1> HIDE DEF r
<1>4. open_scopes' = r
  BY <1>1, <1>3, SameScopes
<1>5. r = SubSeq(open_scopes, 1, Len(open_scopes) - 1)
  BY <1>1 DEF r
<1> QED
  BY <1>1, <1>4, <1>5, Zenon DEF Environment!Leave

LEMMA BeginIs ==
  ASSUME ScopesTyped, ScopesTyped', Depth = 0, Depth' = 1,
         \A x \in Id : open_scopes'[1][x] = IF x = PrintId THEN "procedure" ELSE "none"
  PROVE  Environment!Begin
<1> DEFINE b == Environment!Bind(Environment!Empty, {PrintId}, "procedure")
<1>1. "procedure" \in Kinds
  BY DEF Kinds
<1>2. /\ b \in [Id -> Kinds]
      /\ \A x \in Id : b[x] = IF x \in {PrintId} THEN "procedure" ELSE "none"
  BY <1>1, BindType, EmptyType
<1> HIDE DEF b
<1>3. <<b>> \in Seq([Id -> Kinds]) /\ Len(<<b>>) = 1 /\ <<b>>[1] = b
  BY <1>2
<1>4. open_scopes' \in Seq([Id -> Kinds]) /\ Len(open_scopes') = 1
  BY DEF ScopesTyped
<1>5. open_scopes' = <<b>>
  BY <1>2, <1>3, <1>4, SameScopes
<1>6. open_scopes = <<>>
  BY EmptySeq DEF ScopesTyped
<1> QED
  BY <1>5, <1>6 DEF Environment!Begin, b

LEMMA UsedKinds ==
  /\ code' = NoCode => KindUsed' = "none"
  /\ \A op \in {"CONST", "FUNCTION"} : \A arg, sym :
       code' = Instruction(op, arg, sym) => KindUsed' = "none"
  /\ \A op, arg : code' = Instruction(op, arg, NULL) => KindUsed' = "none"
  /\ \A arg, sym : sym # NULL =>
       /\ code' = Instruction("LOAD_CONST_S", arg, sym) => KindUsed' = "const"
       /\ \A op \in {"LOAD_VAR_S", "STORE_VAR_S"} :
            code' = Instruction(op, arg, sym) => KindUsed' = "variable"
       /\ \A op \in {"CALL_S", "CALL_LIB_S"} :
            code' = Instruction(op, arg, sym) => KindUsed' = "procedure"
<1>1. /\ NoCode.sym = NULL
      /\ \A op, arg, sym : /\ Instruction(op, arg, sym).op = op
                            /\ Instruction(op, arg, sym).sym = sym
  BY DEF NoCode, Instruction
<1> QED
  BY <1>1 DEF KindUsed

(* An instruction takes a name for what its innermost declaration made it. *)
LEMMA UseStep ==
  ASSUME TypeInv, MemorySafe, NEW id \in Id, NEW n \in 0 .. MaxGroup,
         \/ AssignmentStatement(id) \/ Operand(id) \/ ProcedureStatement(id, n)
         \/ Literal \/ RealLiteral
  PROVE  /\ UNCHANGED open_scopes
         /\ \/ KindUsed' = "none"
            \/ KindUsed' # "none" /\ KindUsed' = KindOf(search_in_any_scope(id))
<1> DEFINE s == search_in_any_scope(id)
<1>1. UNCHANGED open_scopes
  <2>1. UNCHANGED <<heap, live, scope_stack>>
    BY ScopesOfStatements
  <2> QED
    BY <2>1 DEF open_scopes, KindOf, Depth
<1>2. ASSUME NEW how, Stop(how) PROVE KindUsed' = "none"
  BY <1>2, UsedKinds DEF Stop
<1>3. /\ HasSpec(s, {"CONST"}) => KindOf(s) = "const"
      /\ HasSpec(s, {"PROCEDURE"}) => KindOf(s) = "procedure"
      /\ HasSpec(s, {"VAR", "PARAM"}) => KindOf(s) = "variable"
  BY FoundKind
<1>4. \A S : HasSpec(s, S) => s # NULL
  BY DEF HasSpec
<1>5. CASE AssignmentStatement(id)
  <2>1. \/ /\ HasSpec(s, {"VAR", "PARAM"})
           /\ code' = Instruction("STORE_VAR_S", heap[s].bp_off, s)
        \/ \E how : Stop(how)
    BY <1>5 DEF AssignmentStatement, Generate, Emit, YYERROR
  <2> HIDE DEF s
  <2>2. \/ KindUsed' = "variable" /\ KindOf(s) = "variable"
        \/ KindUsed' = "none"
    BY <1>2, <1>3, <1>4, <2>1, UsedKinds
  <2> QED
    BY <1>1, <2>2 DEF s
<1>6. CASE Operand(id)
  <2>1. \/ /\ HasSpec(s, {"CONST"})
           /\ code' = Instruction("LOAD_CONST_S", heap[s].bp_off, s)
        \/ /\ HasSpec(s, {"VAR", "PARAM"})
           /\ code' = Instruction("LOAD_VAR_S", heap[s].bp_off, s)
        \/ \E how : Stop(how)
    BY <1>6 DEF Operand, Generate, Emit, YYERROR
  <2> HIDE DEF s
  <2>2. \/ KindUsed' = "const" /\ KindOf(s) = "const"
        \/ KindUsed' = "variable" /\ KindOf(s) = "variable"
        \/ KindUsed' = "none"
    BY <1>2, <1>3, <1>4, <2>1, UsedKinds
  <2> QED
    BY <1>1, <2>2 DEF s
<1>7. CASE ProcedureStatement(id, n)
  <2>1. \/ /\ HasSpec(s, {"PROCEDURE"})
           /\ \E op \in {"CALL_S", "CALL_LIB_S"} : \E arg : code' = Instruction(op, arg, s)
        \/ \E how : Stop(how)
    BY <1>7 DEF ProcedureStatement, Generate, Emit, YYERROR
  <2> HIDE DEF s
  <2>2. \/ KindUsed' = "procedure" /\ KindOf(s) = "procedure"
        \/ KindUsed' = "none"
    BY <1>2, <1>3, <1>4, <2>1, UsedKinds
  <2> QED
    BY <1>1, <2>2 DEF s
<1>8. CASE Literal \/ RealLiteral
  <2>1. \/ code' = Instruction("LOAD_CONST_S", constant_counter, NULL)
        \/ \E how : Stop(how)
    BY <1>8 DEF Literal, RealLiteral, Emit
  <2> QED
    BY <1>1, <1>2, <2>1, UsedKinds
<1> QED
  BY <1>5, <1>6, <1>7, <1>8

LEMMA EnvironmentStep ==
  TypeInv /\ Beginning /\ MemorySafe /\ MemorySafe' /\ [Next]_vars =>
    [Environment!Next]_<<open_scopes, KindUsed>>
<1> SUFFICES ASSUME TypeInv, Beginning, MemorySafe, MemorySafe', [Next]_vars
             PROVE  Environment!Next \/ UNCHANGED <<open_scopes, KindUsed>>
  OBVIOUS
<1>1. HeapKept /\ ScopesTyped /\ ScopesTyped'
  BY HeapIsKept, OpenScopesNext
<1>2. ASSUME NEW i \in 1 .. Depth, i \in 1 .. Depth', NEW x \in Id,
             scope_stack'[i][x] = scope_stack[i][x]
      PROVE  open_scopes'[i][x] = open_scopes[i][x]
  BY <1>1, <1>2, KindKept DEF ScopesTyped
<1>3. ASSUME NEW i \in 1 .. Depth', NEW x \in Id
      PROVE  LET a == scope_stack'[i][x]
                 k == open_scopes'[i][x]
             IN  /\ a = NULL => k = "none"
                 /\ a # NULL /\ heap'[a].spec = "CONST" => k = "const"
                 /\ a # NULL /\ heap'[a].spec = "PROCEDURE" => k = "procedure"
                 /\ a # NULL /\ heap'[a].spec \in {"VAR", "PARAM"} => k = "variable"
  BY <1>1, KindNew DEF ScopesTyped
<1>4. ASSUME \/ ForceInitialization
             \/ \E id \in Id : ConstantDefinition(id)
             \/ \E ids \in IdLists : VariableDefinition(ids)
             \/ \E id \in Id, params \in IdLists : ProcedureBlock(id, params)
             \/ ProcedureDefinition
             \/ Program
      PROVE  KindUsed' = "none"
  BY <1>4, ChangeCodes, UsedKinds
<1>5. ASSUME KindUsed' = "none",
             \/ Environment!Begin \/ Environment!Leave
             \/ \E id \in Id : Environment!Enter(id)
             \/ \E kind \in {"const", "variable"} : Environment!Declare(kind)
      PROVE  Environment!Next
  BY <1>5 DEF Environment!Next, Environment!Change
<1>6. CASE ForceInitialization
  <2>1. /\ Depth = 0 /\ Depth' = 1
        /\ heap' = <<NewSymrec("PROCEDURE", PrintId, <<2>>, Uninitialised),
                     NewSymrec("PARAM", Arg, NULL, Uninitialised)>>
        /\ \A x \in Id : scope_stack'[1][x] = IF x = PrintId THEN 1 ELSE NULL
        /\ 1 # NULL
    BY <1>6, InitializedTables, DeclarationsAssumption
       DEF Beginning, Depth, DeclarationsAssumption
  <2>2. heap'[1].spec = "PROCEDURE"
    BY <2>1 DEF NewSymrec
  <2>3. \A x \in Id : open_scopes'[1][x] = IF x = PrintId THEN "procedure" ELSE "none"
    BY <1>3, <2>1, <2>2
  <2> QED
    BY <1>1, <1>4, <1>5, <1>6, <2>1, <2>3, BeginIs
<1>7. ASSUME NEW id \in Id, ConstantDefinition(id)
      PROVE  Environment!Next
  <2> DEFINE a == Len(heap) + 1
  <2>1. /\ Depth' = Depth /\ Depth \in 1 .. Depth
        /\ heap'[a] = NewSymrec("CONST", id, NULL, constant_counter)
        /\ \A i \in 1 .. Depth : \A x \in Id :
             scope_stack'[i][x] = IF i = Depth /\ x = id THEN a ELSE scope_stack[i][x]
    BY <1>7, ConstantTables
  <2>2. heap'[a].spec = "CONST" /\ a # NULL
    <3>1. heap'[a].spec = "CONST"
      BY <2>1 DEF NewSymrec
    <3>2. a \in Nat
      BY TableType DEF TypeInv
    <3> QED
      BY <3>1, <3>2, DeclarationsAssumption DEF DeclarationsAssumption
  <2> HIDE DEF a
  <2>3. \A i \in 1 .. Depth : \A x \in Id :
          open_scopes'[i][x] = IF i = Depth /\ x \in {id} THEN "const" ELSE open_scopes[i][x]
    BY <1>2, <1>3, <2>1, <2>2
  <2>4. Environment!Declare("const")
    <3>1. {id} \in SUBSET Id
      OBVIOUS
    <3> QED
      BY <1>1, <2>1, <2>3, <3>1, DeclareIs
  <2> QED
    BY <1>4, <1>5, <1>7, <2>4
<1>8. ASSUME NEW ids \in IdLists, VariableDefinition(ids)
      PROVE  Environment!Next
  <2> DEFINE n == Len(ids)
             h == Len(heap)
  <2>1. /\ Depth' = Depth /\ Depth \in 1 .. Depth /\ n \in Nat /\ ids \in Seq(Id)
        /\ \A i \in 1 .. Depth : \A x \in Id :
             i # Depth \/ x \notin Range(ids) => scope_stack'[i][x] = scope_stack[i][x]
        /\ \A k \in 1 .. n : scope_stack'[Depth][ids[k]] = h + k
        /\ \A k \in 1 .. n : heap'[h + k] = NewSymrec("VAR", ids[k], NULL, Counter + k - 1)
    BY <1>8, VariableTables
  <2>2. ASSUME NEW k \in 1 .. n PROVE heap'[h + k].spec = "VAR" /\ h + k # NULL
    <3>1. h \in Nat /\ heap'[h + k] = NewSymrec("VAR", ids[k], NULL, Counter + k - 1)
      BY <2>1, TableType DEF TypeInv
    <3>2. h + k \in Nat
      BY <2>1, <3>1
    <3> HIDE DEF h
    <3>3. heap'[h + k].spec = "VAR"
      BY <3>1 DEF NewSymrec
    <3> QED
      BY <3>2, <3>3, DeclarationsAssumption DEF DeclarationsAssumption
  <2>3. DOMAIN ids = 1 .. n /\ Range(ids) \in SUBSET Id
    BY <2>1, LenProperties DEF Range
  <2> HIDE DEF n, h
  <2>4. ASSUME NEW x \in Id, x \in Range(ids) PROVE open_scopes'[Depth][x] = "variable"
    <3>1. PICK k \in 1 .. n : x = ids[k]
      BY <2>3, <2>4 DEF Range
    <3>2. LET a == scope_stack'[Depth][x] IN a # NULL /\ heap'[a].spec = "VAR"
      BY <2>1, <2>2, <3>1
    <3> QED
      BY <1>3, <2>1, <3>2
  <2>5. \A i \in 1 .. Depth : \A x \in Id :
          open_scopes'[i][x] = IF i = Depth /\ x \in Range(ids) THEN "variable"
                               ELSE open_scopes[i][x]
    BY <1>2, <2>1, <2>4
  <2> QED
    BY <1>1, <1>4, <1>5, <1>8, <2>1, <2>3, <2>5, DeclareIs
<1>9. ASSUME NEW id \in Id, NEW params \in IdLists, ProcedureBlock(id, params)
      PROVE  Environment!Next
  <2> DEFINE n    == Len(params)
             s    == Len(heap) + n + 1
             list == [k \in 1 .. n |-> Len(heap) + k]
  <2>1. /\ Depth' = Depth + 1 /\ Depth \in 1 .. Depth /\ n \in Nat /\ params \in Seq(Id)
        /\ heap'[s] = NewSymrec("PROCEDURE", id, list, procedure_counter)
        /\ \A k \in 1 .. n : heap'[s + k] = Parameter(params, k)
        /\ \A i \in 1 .. Depth : \A x \in Id :
             scope_stack'[i][x] = IF i = Depth /\ x = id THEN s ELSE scope_stack[i][x]
        /\ scope_stack[Depth][id] = NULL
        /\ \A k \in 1 .. n : scope_stack'[Depth + 1][params[k]] = s + k
        /\ \A x \in Id \ Range(params) : scope_stack'[Depth + 1][x] = NULL
    BY <1>9, ProcedureTables, ZenonT(60)
  <2>2. heap'[s].spec = "PROCEDURE"
    <3>1. heap'[s] = NewSymrec("PROCEDURE", id, list, procedure_counter)
      BY <2>1
    <3> HIDE DEF n, s, list
    <3> QED
      BY <3>1 DEF NewSymrec
  <2>3. \A k \in 1 .. n : heap'[s + k].spec = "PARAM"
    <3>1. \A k \in 1 .. n : heap'[s + k] = Parameter(params, k)
      BY <2>1
    <3>2. \A k : Parameter(params, k).spec = "PARAM"
      BY DEF Parameter, NewSymrec
    <3> HIDE DEF n, s, list
    <3> QED
      BY <3>1, <3>2
  <2>4. s # NULL /\ \A k \in 1 .. n : s + k # NULL
    BY <2>1, TableType, DeclarationsAssumption DEF DeclarationsAssumption, TypeInv
  <2>5. DOMAIN params = 1 .. n /\ Range(params) \in SUBSET Id
    BY <2>1, LenProperties DEF Range
  <2>6. Depth + 1 \in 1 .. Depth' /\ \A i \in 1 .. Depth : i \in 1 .. Depth'
    BY <2>1, TableType DEF TypeInv
  <2> HIDE DEF n, s, list
  <2>7. open_scopes[Depth][id] = "none"
    <3>1. open_scopes[Depth][id] = KindOf(NULL)
      BY <1>1, <2>1 DEF ScopesTyped
    <3> QED
      BY <3>1 DEF KindOf
  <2>8. \A i \in 1 .. Depth : \A x \in Id :
          open_scopes'[i][x] = IF i = Depth /\ x = id THEN "procedure" ELSE open_scopes[i][x]
    BY <1>2, <1>3, <2>1, <2>2, <2>4, <2>6
  <2>9. ASSUME NEW x \in Id
        PROVE  open_scopes'[Depth + 1][x] = IF x \in Range(params) THEN "variable" ELSE "none"
    <3>1. CASE x \in Range(params)
      <4>1. PICK k \in 1 .. n : x = params[k]
        BY <2>5, <3>1 DEF Range
      <4>2. LET a == scope_stack'[Depth + 1][x] IN a # NULL /\ heap'[a].spec = "PARAM"
        BY <2>1, <2>3, <2>4, <4>1
      <4> QED
        BY <1>3, <2>6, <3>1, <4>2
    <3>2. CASE x \notin Range(params)
      BY <1>3, <2>1, <2>6, <3>2
    <3> QED
      BY <3>1, <3>2
  <2> QED
    BY <1>1, <1>4, <1>5, <1>9, <2>1, <2>5, <2>7, <2>8, <2>9, EnterIs
<1>10. CASE ProcedureDefinition \/ Program
  <2>1. /\ Depth' = Depth - 1 /\ Depth \in 1 .. Depth
        /\ \A i \in 1 .. Depth' : i \in 1 .. Depth /\ scope_stack'[i] = scope_stack[i]
    BY <1>10, ClosedTables
  <2>2. \A i \in 1 .. Depth' : \A x \in Id : open_scopes'[i][x] = open_scopes[i][x]
    BY <1>2, <2>1
  <2> QED
    BY <1>1, <1>4, <1>5, <1>10, <2>1, <2>2, LeaveIs
<1>11. ASSUME NEW id \in Id, NEW n \in 0 .. MaxGroup,
              \/ AssignmentStatement(id) \/ Operand(id) \/ ProcedureStatement(id, n)
              \/ Literal \/ RealLiteral
       PROVE  Environment!Next
  <2>1. /\ UNCHANGED open_scopes
        /\ \/ KindUsed' = "none"
           \/ KindUsed' # "none" /\ KindUsed' = Environment!Meaning(id)
    BY <1>1, <1>11, UseStep, SearchMeans
  <2>2. Environment!NoSymbol \/ (KindUsed' # "none" /\ Environment!Use(id))
    BY <2>1 DEF Environment!NoSymbol, Environment!Use
  <2> QED
    BY <2>2 DEF Environment!Next
<1>12. CASE Reads /\ code' = NoCode
  <2>1. UNCHANGED open_scopes
    BY <1>12 DEF Reads, open_scopes, KindOf, Depth
  <2>2. Environment!NoSymbol
    BY <1>12, <2>1, UsedKinds DEF Environment!NoSymbol
  <2> QED
    BY <2>2 DEF Environment!Next
<1>13. CASE UNCHANGED vars
  BY <1>13 DEF vars, open_scopes, KindOf, KindUsed, Depth
<1> QED
  BY <1>6, <1>7, <1>8, <1>9, <1>10, <1>11, <1>12, <1>13, Steps

LEMMA EnvironmentInit == Init => Environment!Init
<1> SUFFICES ASSUME Init PROVE open_scopes = <<>> /\ KindUsed = "none"
  BY DEF Environment!Init
<1>1. Depth = 0
  BY DEF Init, Depth
<1>2. ScopesTyped
  BY TypeInit, OpenScopes DEF TypeInv
<1>3. open_scopes = <<>>
  BY <1>1, <1>2, EmptySeq DEF ScopesTyped
<1>4. NoCode.sym = NULL
  BY DEF NoCode, Instruction
<1>5. KindUsed = "none"
  BY <1>4 DEF Init, KindUsed
<1> QED
  BY <1>3, <1>5

(* The hash tables, the records and the deletions implement nested scopes, *)
(* for every program: whatever is declared again, shadowed or closed, each  *)
(* instruction takes a name for what its innermost open declaration made    *)
(* of it, and no name outlives its scope (symrec.c, base_parser.y).         *)
THEOREM NestedScopes == Spec => ImplementsEnvironment
<1>1. MemorySafe /\ MemorySafe' /\ TypeInv /\ Beginning /\ [Next]_vars =>
        [Environment!Next]_<<open_scopes, KindUsed>>
  BY EnvironmentStep
<1> QED
  BY <1>1, EnvironmentInit, BeginningInit, BeginningStep, MemoryIsSafe, TypeCorrect,
     PTL DEF Spec, ImplementsEnvironment, Environment!Spec, Environment!envVars

=============================================================================
