--------------------------- MODULE StatementsRun ---------------------------
(***************************************************************************)
(* Statements, followed by one call of one of the generated functions: the *)
(* WMLScript machine runs the code, and beside it the statement runs as    *)
(* the language has it.  Conditions have any value.                        *)
(***************************************************************************)
EXTENDS Statements

VARIABLES
  f,        (* the function that runs, 0 before the call          *)
  pc,       (* the next instruction                               *)
  rest,     (* ghost: what the language still has to execute      *)
  deviates  (* ghost: the machine did what the language would not *)

runVars == <<f, pc, rest, deviates>>
vars    == <<stVars, runVars>>

Code == functions[f].code
Here == Code[pc]

(* A jump goes forwards or backwards in the code of its function. *)
ForwardTargets(l)  == {i \in pc + 1 .. Len(Code) : Code[i] = Instr("LABEL", l)}
BackwardTargets(l) == {i \in 1 .. pc - 1 : Code[i] = Instr("LABEL", l)}

(* What the statement on top of r leaves to be executed before its first   *)
(* assignment, call or condition. *)
Unfold(r) ==
  LET s == Head(r) IN
  IF s.kind = "compound" THEN <<s.first, s.rest>> \o Tail(r) ELSE Tail(r)

Unfolded(r) == r # <<>> => Head(r).kind \notin {"compound", "empty"}

-----------------------------------------------------------------------------
Call ==
  /\ status = "accepted" /\ f = 0
  /\ f' \in 1 .. Len(functions)
  /\ pc' = 1
  /\ rest' = <<functions[f'].tree>>
  /\ UNCHANGED <<stVars, deviates>>

Running == f # 0 /\ pc # 0

(* Compounds and empty statements take no instruction: they are unfolded   *)
(* before the next one.                                                     *)
UnfoldStatement ==
  /\ Running /\ ~ Unfolded(rest)
  /\ rest' = Unfold(rest)
  /\ UNCHANGED <<stVars, f, pc, deviates>>

Continue(to, r, wrong) ==
  /\ pc' = to
  /\ rest' = r
  /\ deviates' = (deviates \/ wrong)
  /\ UNCHANGED <<stVars, f>>

Expects(kinds, n) == rest # <<>> /\ Head(rest).kind \in kinds /\ Head(rest).n = n

ExecInstruction ==
  /\ Running /\ Unfolded(rest) /\ Here.op = "EXEC"
  /\ IF Expects({"basic"}, Here.n) THEN Continue(pc + 1, Tail(rest), FALSE)
     ELSE Continue(pc + 1, rest, TRUE)

(* What remains of the statement s when its condition is v. *)
Decide(s, v) ==
  CASE s.kind = "if"     -> IF v THEN <<s.then>> ELSE <<>>
    [] s.kind = "ifelse" -> IF v THEN <<s.then>> ELSE <<s.else>>
    [] s.kind = "while"  -> IF v THEN <<s.do, s>> ELSE <<>>

(* A condition and the conditional jump that consumes it: TJUMP_FW_W jumps *)
(* when the condition is false.                                            *)
EvalAndJump ==
  /\ Running /\ Unfolded(rest) /\ Here.op = "EVAL"
  /\ LET jump == Code[pc + 1] IN
     \E v \in BOOLEAN :
       IF /\ Expects({"if", "ifelse", "while"}, Here.n)
          /\ jump.op = "TJUMP_FW_W" /\ ForwardTargets(jump.n) # {}
       THEN \E to \in IF v THEN {pc + 2} ELSE ForwardTargets(jump.n) :
              Continue(to, Decide(Head(rest), v) \o Tail(rest), FALSE)
       ELSE Continue(pc + 1, rest, TRUE)

Jump ==
  /\ Running /\ Unfolded(rest) /\ Here.op \in {"JUMP_FW_W", "JUMP_BW_W"}
  /\ LET targets == IF Here.op = "JUMP_FW_W" THEN ForwardTargets(Here.n)
                    ELSE BackwardTargets(Here.n)
     IN  \E to \in IF targets = {} THEN {0} ELSE targets :
           Continue(to, rest, to = 0)

Label ==
  /\ Running /\ Unfolded(rest) /\ Here.op = "LABEL"
  /\ Continue(pc + 1, rest, FALSE)

Return ==
  /\ Running /\ Unfolded(rest) /\ Here.op = "RETURN_ES"
  /\ Continue(0, rest, rest # <<>>)

-----------------------------------------------------------------------------
Init == StInit /\ f = 0 /\ pc = 0 /\ rest = <<>> /\ deviates = FALSE

MachineStep ==
  \/ UnfoldStatement
  \/ ExecInstruction \/ EvalAndJump \/ Jump \/ Label \/ Return

Next ==
  \/ StNext /\ UNCHANGED runVars
  \/ Call
  \/ MachineStep

(* Once called, the machine goes on as long as it has an instruction. *)
Spec == Init /\ [][Next]_vars /\ WF_vars(MachineStep)

-----------------------------------------------------------------------------
Fragments == {stack[i].code : i \in 1 .. Len(stack)}
             \cup {functions[i].code : i \in 1 .. Len(functions)}

Jumps == {"TJUMP_FW_W", "JUMP_FW_W", "JUMP_BW_W"}

(* Instructions are well formed, and every label that code names has been  *)
(* numbered by the generator.                                              *)
TypeOK ==
  /\ label_counter \in Nat /\ sources \in 0 .. MaxSources
  /\ \A c \in Fragments : \A i \in DOMAIN c :
       \/ c[i].op \in {"EXEC", "EVAL"} /\ c[i].n \in 0 .. sources - 1
       \/ c[i].op \in Jumps \cup {"LABEL"} /\ c[i].n \in 0 .. label_counter - 1
       \/ c[i].op = "RETURN_ES"
  /\ Len(stack) <= MaxPending /\ Len(functions) <= MaxFunctions
  /\ status \in {"parsing", "accepted", "rejected"}
  /\ f \in 0 .. Len(functions) /\ pc \in Nat /\ deviates \in BOOLEAN

(* No label is defined twice in the text of the program, whatever the      *)
(* statements and however the procedures nest: the counter is never reset. *)
LabelsUnique ==
  LET all == [i \in 1 .. Len(stack) + Len(functions) |->
                IF i <= Len(stack) THEN stack[i].code ELSE functions[i - Len(stack)].code]
  IN  \A i, j \in DOMAIN all : \A k \in DOMAIN all[i], m \in DOMAIN all[j] :
        all[i][k].op = "LABEL" /\ all[i][k] = all[j][m] => <<i, k>> = <<j, m>>

(* Every jump finds its label in the code of its own statement, in the     *)
(* direction the instruction jumps.                                        *)
JumpsResolve ==
  \A c \in Fragments : \A i \in DOMAIN c :
    /\ c[i].op \in {"TJUMP_FW_W", "JUMP_FW_W"} =>
         \E j \in i + 1 .. Len(c) : c[j] = Instr("LABEL", c[i].n)
    /\ c[i].op = "JUMP_BW_W" =>
         \E j \in 1 .. i - 1 : c[j] = Instr("LABEL", c[i].n)

(* The machine executes the assignments, calls and conditions that the     *)
(* statement prescribes, in its order, and returns when it is done.        *)
FollowsProgram == ~ deviates

(* The generated jumps never go round without a decision: a called         *)
(* function returns or evaluates conditions for ever.                      *)
KeepsDeciding ==
  f # 0 ~> (pc = 0 \/ Here.op = "EVAL")

=============================================================================
