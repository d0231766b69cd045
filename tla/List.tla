------------------------------- MODULE List -------------------------------
(***************************************************************************)
(* What a darray promises: a sequence of elements, indexed from 0.         *)
(***************************************************************************)
EXTENDS Integers, Sequences

CONSTANT Elem

VARIABLE items

PushBack(x) == items' = Append(items, x)

PushFront(x) == items' = <<x>> \o items

RemoveAt(i) ==
  /\ i < Len(items)
  /\ items' = [k \in 1 .. Len(items) - 1 |-> IF k <= i THEN items[k] ELSE items[k + 1]]

SetAt(i, x) ==
  /\ i < Len(items)
  /\ items' = [items EXCEPT ![i + 1] = x]

Init == items = <<>>

Next ==
  \/ \E x \in Elem : PushBack(x) \/ PushFront(x)
  \/ \E i \in 0 .. Len(items) - 1 : RemoveAt(i) \/ \E x \in Elem : SetAt(i, x)

Spec == Init /\ [][Next]_items

=============================================================================
