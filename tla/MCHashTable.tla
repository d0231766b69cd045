---------------------------- MODULE MCHashTable ----------------------------
(***************************************************************************)
(* HashTable with ids that collide in tables of 4 and of 8 buckets, enough *)
(* of them for the table to grow to 8 and to 16, and two records for one.  *)
(***************************************************************************)
EXTENDS HashTable

Ids == {0, 1, 4, 5, 9, 12, 13}

MCRecord == [id : Ids, nr : {1}] \cup [id : {9}, nr : {2}]

=============================================================================
