-------------------------- MODULE MCDeclarations --------------------------
(* Declarations on a small set of names, given by the configurations. *)
EXTENDS Declarations
=============================================================================
