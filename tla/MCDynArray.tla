---------------------------- MODULE MCDynArray ----------------------------
(* DynArray on a few elements, given by the configuration. *)
EXTENDS DynArray
=============================================================================
