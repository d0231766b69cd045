-------------------------- MODULE DynArrayProofs --------------------------
(***************************************************************************)
(* Proofs about DynArray: no operation writes outside the block, memory is *)
(* given back, and the array implements a sequence, for every set of       *)
(* elements and every length.                                               *)
(**************************************************************************)
EXTENDS DynArray, SequenceTheorems, TLAPS

Inv == TypeOK /\ SpareSlot /\ HalfUsed

(* One check is enough: whatever one operation did to the length, the new  *)
(* capacity has a spare slot and is at most half empty.                    *)
LEMMA CapacityBounds ==
  ASSUME NEW a \in Nat \ {0}, NEW n \in Nat, n <= a, a \div 2 <= n + 1
  PROVE  /\ Capacity(a, n) \in Nat \ {0}
         /\ n < Capacity(a, n)
         /\ Capacity(a, n) \div 2 <= n
<1> DEFINE b == IF n = a THEN 2 * a ELSE a
<1>1. b \in Nat \ {0} /\ n < b /\ b \div 2 <= n + 1 /\ b \div 2 \in Nat
  <2>1. CASE n = a
    BY <2>1
  <2>2. CASE n # a
    BY <2>2
  <2> QED
    BY <2>1, <2>2
<1> HIDE DEF b
<1>2. CASE n < b \div 2
  <2>1. Capacity(a, n) = b \div 2
    BY <1>2 DEF Capacity, b
  <2>2. b \div 2 = n + 1
    BY <1>1, <1>2
  <2> QED
    BY <1>1, <2>1, <2>2
<1>3. CASE ~ (n < b \div 2)
  BY <1>1, <1>3 DEF Capacity, b
<1> QED
  BY <1>2, <1>3

LEMMA IndexBelow ==
  ASSUME NEW m \in Nat, NEW n \in Nat, n <= m, NEW j \in 0 .. n - 1
  PROVE  j \in 0 .. m - 1
OBVIOUS

(* The end of an operation whose cells hold n elements. *)
LEMMA MemcheckStep ==
  ASSUME Inv, NEW cells \in [0 .. allocated_mem - 1 -> Cell], NEW n \in Nat,
         n <= length + 1, length <= n + 1, Memcheck(cells, n)
  PROVE  /\ Inv'
         /\ length' = n
         /\ \A j \in 0 .. n - 1 : base'[j] = cells[j]
<1>1. /\ allocated_mem \in Nat \ {0} /\ n <= allocated_mem
      /\ allocated_mem \div 2 <= n + 1 /\ allocated_mem \div 2 \in Nat
  BY DEF Inv, TypeOK, SpareSlot, HalfUsed
<1>2. /\ allocated_mem' \in Nat \ {0} /\ n < allocated_mem'
      /\ allocated_mem' \div 2 <= n
  BY <1>1, CapacityBounds DEF Memcheck
<1>3. base' = [j \in 0 .. allocated_mem' - 1 |-> IF j \in DOMAIN cells THEN cells[j] ELSE Junk]
  BY DEF Memcheck, Realloc
<1>4. base' \in [0 .. allocated_mem' - 1 -> Cell]
  BY <1>3 DEF Cell
<1>5. length' = n
  BY DEF Memcheck
<1>6. \A j \in 0 .. n - 1 : base'[j] = cells[j]
  <2> SUFFICES ASSUME NEW j \in 0 .. n - 1 PROVE base'[j] = cells[j]
    OBVIOUS
  <2>1. j \in 0 .. allocated_mem - 1 /\ j \in 0 .. allocated_mem' - 1
    <3>1. allocated_mem \in Nat /\ allocated_mem' \in Nat /\ n <= allocated_mem /\ n <= allocated_mem'
      BY <1>1, <1>2
    <3> QED
      BY <3>1, IndexBelow
  <2>2. j \in DOMAIN cells
    BY <2>1
  <2> QED
    BY <1>3, <2>1, <2>2
<1> QED
  BY <1>2, <1>4, <1>5, <1>6 DEF Inv, TypeOK, SpareSlot, HalfUsed

LEMMA ItemsType ==
  ASSUME Inv
  PROVE  Len(items) = length /\ \A k \in 1 .. length : items[k] = base[k - 1]
BY DEF Inv, TypeOK, items

(* Each operation keeps the invariant and does what the sequence does.     *)
LEMMA PushBackStep ==
  ASSUME Inv, NEW x \in Elem, PushBack(x)
  PROVE  Inv' /\ items' = Append(items, x)
<1> DEFINE cells == [base EXCEPT ![length] = x]
<1>1. cells \in [0 .. allocated_mem - 1 -> Cell] /\ length + 1 \in Nat /\ length \in Nat
  <2>1. x \in Cell
    BY DEF Cell
  <2>2. length \in Nat /\ base \in [0 .. allocated_mem - 1 -> Cell]
    BY DEF Inv, TypeOK
  <2>3. length + 1 \in Nat
    BY <2>2
  <2> QED
    BY <2>1, <2>2, <2>3
<1>2. Inv' /\ length' = length + 1 /\ \A j \in 0 .. length : base'[j] = cells[j]
  <2> PICK n \in Nat : n = length + 1
    BY <1>1
  <2>1. Memcheck(cells, n)
    BY DEF PushBack
  <2>2. n <= length + 1 /\ length <= n + 1 /\ n - 1 = length
    BY <1>1
  <2>3. Inv' /\ length' = n /\ \A j \in 0 .. n - 1 : base'[j] = cells[j]
    BY <1>1, <2>1, <2>2, MemcheckStep
  <2> QED
    BY <2>2, <2>3
<1>3. cells[length] = x /\ \A j \in 0 .. length - 1 : cells[j] = base[j]
  BY DEF Inv, TypeOK, SpareSlot
<1>4. items' = [k \in 1 .. length + 1 |-> base'[k - 1]]
  BY <1>2 DEF items
<1>5. Append(items, x) = [k \in 1 .. length + 1 |-> IF k = length + 1 THEN x ELSE items[k]]
  BY <1>1, ItemsType DEF items
<1>6. \A k \in 1 .. length + 1 : base'[k - 1] = IF k = length + 1 THEN x ELSE items[k]
  BY <1>1, <1>2, <1>3, ItemsType
<1> QED
  BY <1>2, <1>4, <1>5, <1>6

LEMMA PushFrontStep ==
  ASSUME Inv, NEW x \in Elem, PushFront(x)
  PROVE  Inv' /\ items' = <<x>> \o items
<1>1. Shifted(x) \in [0 .. allocated_mem - 1 -> Cell] /\ length + 1 \in Nat /\ length \in Nat
  BY DEF Inv, TypeOK, SpareSlot, Shifted, Cell
<1>2. Inv' /\ length' = length + 1 /\ \A j \in 0 .. length : base'[j] = Shifted(x)[j]
  <2> PICK n \in Nat : n = length + 1
    BY <1>1
  <2>1. Memcheck(Shifted(x), n)
    BY DEF PushFront
  <2>2. n <= length + 1 /\ length <= n + 1 /\ n - 1 = length
    BY <1>1
  <2>3. Inv' /\ length' = n /\ \A j \in 0 .. n - 1 : base'[j] = Shifted(x)[j]
    BY <1>1, <2>1, <2>2, MemcheckStep
  <2> QED
    BY <2>2, <2>3
<1>3. \A j \in 0 .. length : Shifted(x)[j] = IF j = 0 THEN x ELSE base[j - 1]
  BY DEF Inv, TypeOK, SpareSlot, Shifted
<1>4. items' = [k \in 1 .. length + 1 |-> base'[k - 1]]
  BY <1>2 DEF items
<1>5. <<x>> \o items = [k \in 1 .. length + 1 |-> IF k = 1 THEN x ELSE items[k - 1]]
  BY <1>1, ItemsType DEF items
<1>6. \A k \in 1 .. length + 1 : base'[k - 1] = IF k = 1 THEN x ELSE items[k - 1]
  BY <1>1, <1>2, <1>3, ItemsType
<1> QED
  BY <1>2, <1>4, <1>5, <1>6

LEMMA RemoveStep ==
  ASSUME Inv, NEW i \in 0 .. length - 1, Remove(i)
  PROVE  Inv' /\ items' = [k \in 1 .. length - 1 |-> IF k <= i THEN items[k] ELSE items[k + 1]]
<1>1. /\ Compacted(i) \in [0 .. allocated_mem - 1 -> Cell]
      /\ length - 1 \in Nat /\ length \in Nat
  BY DEF Inv, TypeOK, SpareSlot, Compacted, Cell
<1>2. Inv' /\ length' = length - 1 /\ \A j \in 0 .. length - 2 : base'[j] = Compacted(i)[j]
  <2>1. Memcheck(Compacted(i), length - 1)
    BY DEF Remove
  <2>2. length - 1 <= length + 1 /\ length <= length - 1 + 1 /\ length - 1 - 1 = length - 2
    BY <1>1
  <2> QED
    BY <1>1, <2>1, <2>2, MemcheckStep
<1>3. \A j \in 0 .. length - 2 : Compacted(i)[j] = IF j >= i THEN base[j + 1] ELSE base[j]
  BY DEF Inv, TypeOK, SpareSlot, Compacted
<1>4. items' = [k \in 1 .. length - 1 |-> base'[k - 1]]
  BY <1>2 DEF items
<1>5. ASSUME NEW k \in 1 .. length - 1
      PROVE  base'[k - 1] = IF k <= i THEN items[k] ELSE items[k + 1]
  <2>1. /\ k - 1 \in 0 .. length - 2 /\ k \in 1 .. length /\ k + 1 \in 1 .. length
        /\ k - 1 + 1 = k /\ (k - 1 >= i <=> ~ (k <= i))
    BY <1>1
  <2>2. base'[k - 1] = IF k - 1 >= i THEN base[k] ELSE base[k - 1]
    BY <1>2, <1>3, <2>1
  <2>3. items[k] = base[k - 1] /\ items[k + 1] = base[k]
    BY <2>1 DEF items
  <2> QED
    BY <2>1, <2>2, <2>3
<1> QED
  BY <1>2, <1>4, <1>5

LEMMA SetAtStep ==
  ASSUME Inv, NEW i \in 0 .. length - 1, NEW x \in Elem, SetAt(i, x)
  PROVE  Inv' /\ items' = [items EXCEPT ![i + 1] = x]
<1>1. /\ base' = [base EXCEPT ![i] = x]
      /\ length' = length /\ allocated_mem' = allocated_mem
  BY DEF SetAt
<1>2. Inv'
  BY <1>1 DEF Inv, TypeOK, SpareSlot, HalfUsed, Cell
<1>3. \A k \in 1 .. length : base'[k - 1] = IF k = i + 1 THEN x ELSE items[k]
  BY <1>1, ItemsType DEF Inv, TypeOK, SpareSlot
<1>4. items' = [k \in 1 .. length |-> base'[k - 1]]
  BY <1>1 DEF items
<1>5. [items EXCEPT ![i + 1] = x] = [k \in 1 .. length |-> IF k = i + 1 THEN x ELSE items[k]]
  BY ItemsType DEF items
<1> QED
  BY <1>2, <1>3, <1>4, <1>5

LEMMA InitStep == Init => Inv /\ List!Init
<1> SUFFICES ASSUME Init PROVE Inv /\ List!Init
  OBVIOUS
<1>1. base = [j \in {0} |-> Junk] /\ allocated_mem = 1 /\ length = 0
  BY DEF Init
<1>2. Inv
  BY <1>1 DEF Inv, TypeOK, SpareSlot, HalfUsed, Cell
<1>3. items = <<>>
  BY <1>1 DEF items
<1> QED
  BY <1>2, <1>3 DEF List!Init

LEMMA NextStep == Inv /\ [Next]_vars => Inv' /\ [List!Next]_items
<1> SUFFICES ASSUME Inv, [Next]_vars PROVE Inv' /\ [List!Next]_items
  OBVIOUS
<1>1. ASSUME NEW x \in Elem, PushBack(x) PROVE Inv' /\ List!Next
  BY <1>1, PushBackStep DEF List!Next, List!PushBack
<1>2. ASSUME NEW x \in Elem, PushFront(x) PROVE Inv' /\ List!Next
  BY <1>2, PushFrontStep DEF List!Next, List!PushFront
<1>3. ASSUME NEW i \in 0 .. length - 1, Remove(i) PROVE Inv' /\ List!Next
  <2>1. Len(items) = length /\ i < length
    BY ItemsType DEF Inv, TypeOK
  <2>2. List!RemoveAt(i) /\ Inv'
    BY <1>3, <2>1, RemoveStep DEF List!RemoveAt
  <2> QED
    BY <2>1, <2>2 DEF List!Next
<1>4. ASSUME NEW i \in 0 .. length - 1, NEW x \in Elem, SetAt(i, x) PROVE Inv' /\ List!Next
  <2>1. Len(items) = length /\ i < length
    BY ItemsType DEF Inv, TypeOK
  <2>2. List!SetAt(i, x) /\ Inv'
    BY <1>4, <2>1, SetAtStep DEF List!SetAt
  <2> QED
    BY <2>1, <2>2 DEF List!Next
<1>5. CASE UNCHANGED vars
  BY <1>5 DEF vars, Inv, TypeOK, SpareSlot, HalfUsed, items
<1> QED
  BY <1>1, <1>2, <1>3, <1>4, <1>5 DEF Next

(* The block always has its recorded size, and every element below length  *)
(* was written.                                                             *)
THEOREM TypesAlways == Spec => []TypeOK
<1>1. Inv => TypeOK
  BY DEF Inv
<1> QED
  BY <1>1, InitStep, NextStep, PTL DEF Spec

(* The block never shrinks below, nor is written beyond, what the elements *)
(* and the next push need: push_back and push_front write before they check.*)
THEOREM SpareSlotAlways == Spec => []SpareSlot
<1>1. Inv => SpareSlot
  BY DEF Inv
<1> QED
  BY <1>1, InitStep, NextStep, PTL DEF Spec

(* However many elements were removed, at most half of the block is idle.  *)
THEOREM HalfUsedAlways == Spec => []HalfUsed
<1>1. Inv => HalfUsed
  BY DEF Inv
<1> QED
  BY <1>1, InitStep, NextStep, PTL DEF Spec

(* The array behaves as the sequence of what was pushed, set and removed,  *)
(* through every growth and shrinking of its memory.                       *)
THEOREM Refinement == Spec => ImplementsList
<1> QED
  BY InitStep, NextStep, PTL DEF Spec, ImplementsList, List!Spec

=============================================================================
