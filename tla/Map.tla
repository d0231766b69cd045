-------------------------------- MODULE Map --------------------------------
(***************************************************************************)
(* What the table of a scope promises: under each id, the record put last. *)
(***************************************************************************)
CONSTANTS Record, None

VARIABLE map

Put(r) == map' = [map EXCEPT ![r.id] = r]

Init == map = [k \in {r.id : r \in Record} |-> None]

Next == \E r \in Record : Put(r)

Spec == Init /\ [][Next]_map

=============================================================================
