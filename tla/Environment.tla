---------------------------- MODULE Environment ----------------------------
(***************************************************************************)
(* What the symbol table promises the parser: nested scopes, in which a    *)
(* name means the kind its innermost declaration gave it, and no           *)
(* declaration outlives or escapes its scope.  No memory, no numbers.      *)
(***************************************************************************)
EXTENDS Naturals, Sequences

CONSTANTS Id, Builtin

VARIABLES
  env,    (* the open scopes, outermost first              *)
  seen    (* the kind of the symbol the last step used     *)

envVars == <<env, seen>>

Kind   == {"const", "variable", "procedure"}
Scopes == [Id -> Kind \cup {"none"}]

Empty == [x \in Id |-> "none"]

Bind(scope, names, kind) == [x \in Id |-> IF x \in names THEN kind ELSE scope[x]]

(* The kind of id in the innermost scope that declares it. *)
Meaning(id) ==
  LET declares(i) == env[i][id] # "none"
      innermost(i) == declares(i) /\ \A j \in i + 1 .. Len(env) : ~ declares(j)
  IN  IF \E i \in 1 .. Len(env) : innermost(i)
      THEN env[CHOOSE i \in 1 .. Len(env) : innermost(i)][id] ELSE "none"

-----------------------------------------------------------------------------
Begin ==
  /\ env = <<>>
  /\ env' = <<Bind(Empty, {Builtin}, "procedure")>>

Declare(kind) ==
  /\ env # <<>>
  /\ \E names \in SUBSET Id : env' = [env EXCEPT ![Len(env)] = Bind(@, names, kind)]

Enter(id) ==
  /\ env # <<>>
  /\ env[Len(env)][id] = "none"
  /\ \E params \in SUBSET Id :
       env' = Append([env EXCEPT ![Len(env)] = Bind(@, {id}, "procedure")],
                     Bind(Empty, params, "variable"))

Leave ==
  /\ env # <<>>
  /\ env' = SubSeq(env, 1, Len(env) - 1)

Use(id) ==
  /\ seen' = Meaning(id)
  /\ UNCHANGED env

(* A literal is used, or the parse stops. *)
NoSymbol == seen' = "none" /\ UNCHANGED env

Init == env = <<>> /\ seen = "none"

(* The scopes change, and no symbol is used. *)
Change ==
  /\ seen' = "none"
  /\ \/ Begin
     \/ Leave
     \/ \E id \in Id : Enter(id)
     \/ \E kind \in {"const", "variable"} : Declare(kind)

Next ==
  \/ NoSymbol
  \/ Change
  \/ /\ seen' # "none"
     /\ \E id \in Id : Use(id)

Spec == Init /\ [][Next]_envVars

=============================================================================
