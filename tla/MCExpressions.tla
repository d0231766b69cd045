--------------------------- MODULE MCExpressions ---------------------------
(* Expressions over a variable of each type. *)
EXTENDS Expressions

MCOperand == {"i", "r", "b"}
MCTypeOf  == [x \in MCOperand |->
               CASE x = "i" -> T_INTEGER [] x = "r" -> T_REAL [] x = "b" -> T_BOOLEAN]
=============================================================================
