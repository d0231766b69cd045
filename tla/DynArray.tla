----------------------------- MODULE DynArray -----------------------------
(***************************************************************************)
(* The generic array of scope/darray.h: parameter lists, argument lists    *)
(* and variable groups are darrays of symrecs.  Every operation ends in    *)
(* darray_memcheck, which is the only place where memory grows or shrinks; *)
(* the writes before it rely on the slot that the last check left free.    *)
(***************************************************************************)
EXTENDS Integers, Sequences

CONSTANTS
  Elem,
  Junk,        (* the contents of memory nobody wrote          *)
  MaxLength    (* bound: elements in the array                 *)

ASSUME DynArrayAssumption == Junk \notin Elem /\ MaxLength \in Nat

VARIABLES
  base,           (* the block malloc'ed: a function on 0 .. allocated_mem - 1 *)
  allocated_mem,
  length

vars == <<base, allocated_mem, length>>

Cell == Elem \cup {Junk}

-----------------------------------------------------------------------------
GrowLate(a, n) == IF n > a THEN 2 * a ELSE a              \* mutant: > for ==

ShrinkEarly(a, n) ==                                      \* mutant: <= for <
  LET b == IF n = a THEN 2 * a ELSE a
  IN  IF n <= b \div 2 THEN b \div 2 ELSE b

ShrinkNever(a, n) == IF n = a THEN 2 * a ELSE a           \* mutant: no shrinking

(* The capacity darray_memcheck leaves, given the old one and the length. *)
Capacity(a, n) ==
  LET b == IF n = a THEN 2 * a ELSE a
  IN  IF n < b \div 2 THEN b \div 2 ELSE b

(* realloc keeps what fits; new cells hold anything. *)
Realloc(cells, a) ==
  [j \in 0 .. a - 1 |-> IF j \in DOMAIN cells THEN cells[j] ELSE Junk]

(* The end of an operation that left n elements in cells. *)
Memcheck(cells, n) ==
  /\ length' = n
  /\ allocated_mem' = Capacity(allocated_mem, n)
  /\ base' = Realloc(cells, Capacity(allocated_mem, n))

-----------------------------------------------------------------------------
PushBack(x) ==
  /\ length < MaxLength
  /\ Memcheck([base EXCEPT ![length] = x], length + 1)

ShiftedShort(x) ==                                 \* mutant: i < length - 1
  [j \in DOMAIN base |-> IF j = 0 THEN x
                         ELSE IF j < length THEN base[j - 1] ELSE base[j]]

(* The loop of push_front moves each element up by one, the last of them   *)
(* into the free slot.                                                      *)
Shifted(x) ==
  [j \in DOMAIN base |-> IF j = 0 THEN x
                         ELSE IF j <= length THEN base[j - 1] ELSE base[j]]

PushFront(x) ==
  /\ length < MaxLength
  /\ Memcheck(Shifted(x), length + 1)

(* The loop of remove copies down every element but the i-th. *)
Compacted(i) ==
  [j \in DOMAIN base |-> IF j >= i /\ j < length - 1 THEN base[j + 1] ELSE base[j]]

(* That i is an index of the array is left to the caller. *)
Remove(i) ==
  /\ i < length
  /\ Memcheck(Compacted(i), length - 1)

(* darray_get is an lvalue. *)
SetAt(i, x) ==
  /\ i < length
  /\ base' = [base EXCEPT ![i] = x]
  /\ UNCHANGED <<allocated_mem, length>>

-----------------------------------------------------------------------------
Init ==
  /\ base = [j \in {0} |-> Junk]
  /\ allocated_mem = 1
  /\ length = 0

Next ==
  \/ \E x \in Elem : PushBack(x) \/ PushFront(x)
  \/ \E i \in 0 .. length - 1 : Remove(i) \/ \E x \in Elem : SetAt(i, x)

Spec == Init /\ [][Next]_vars

-----------------------------------------------------------------------------
TypeOK ==
  /\ length \in Nat
  /\ allocated_mem \in Nat \ {0}
  /\ base \in [0 .. allocated_mem - 1 -> Cell]

(* push_back and push_front write base[length] before they check: every    *)
(* operation must leave the slot behind the last element allocated.        *)
SpareSlot == length < allocated_mem

(* Removing gives memory back: at least half of the block is in use, up to *)
(* the spare slot.                                                          *)
HalfUsed == allocated_mem \div 2 <= length

items == [k \in 1 .. length |-> base[k - 1]]

List == INSTANCE List

(* Whatever memory the block moves through, the array is the sequence its  *)
(* caller pushed, set and removed.                                          *)
ImplementsList == List!Spec

=============================================================================
