------------------------------- MODULE Lexer -------------------------------
(***************************************************************************)
(* The scanner: lexer/lexer.c reads the source file one character at a     *)
(* time, going back with fseek, and drives two automata built by           *)
(* lexer/lexical_state_machine.c, one that skips white space and comments  *)
(* and one that recognises a token.  One action is one turn of a loop.     *)
(*                                                                         *)
(* Characters are classes.  The tokens are those of the classes "a" (names *)
(* and keywords), "(", ")" and "*"; the recognising automaton proper is     *)
(* reduced to what the loops need of it.  The file is not chosen in        *)
(* advance: reading past what was read so far gives any character, or the  *)
(* end of the file.                                                        *)
(***************************************************************************)
EXTENDS Integers, Sequences, SequencesExt

CONSTANT MaxLength     (* bound: characters of the file *)

ASSUME LexerAssumption == MaxLength \in Nat

(* "nl" stands for the tabs and carriage returns too, which the automata   *)
(* treat alike; "a" for the printable characters (0x20 to 0x7e) that are   *)
(* neither space nor brackets.  Other bytes, for which the automata have no *)
(* transition (lexical_state_machine.c:391-448), are not modelled.         *)
Space    == {"sp", "nl"}
Chars    == Space \cup {"{", "}", "(", "*", ")", "a"}
EOF      == "EOF"
NoState  == "none"

(* A name is known by its length: main.c puts print and arg in the table. *)
Name(n) == [k \in 1 .. n |-> "a"]

VARIABLES
  text,          (* the characters of the file read so far                  *)
  ended,         (* the file has no more                                    *)
  pos,           (* the file position                                       *)
  last_position, penultimate_position,
  c,             (* the character in hand                                   *)
  sm,            (* the state of the automaton at work                      *)
  i, allocated,  (* the lexeme buffer                                       *)
  f_line,
  secondary_tokens, sec_alloc,   (* the names known, and the room for them  *)
  yylval,
  from,          (* ghost: where the skipping of this call began            *)
  mode

vars == <<text, ended, pos, last_position, penultimate_position, c, sm,
          i, allocated, f_line, secondary_tokens, sec_alloc, yylval, from, mode>>

names == <<secondary_tokens, sec_alloc, yylval>>

-----------------------------------------------------------------------------
(* lexical_state_machine.c: the automata.  A state is named for its        *)
(* character and the place it is in.                                       *)

Skip(s, x) ==
  CASE s \in {"initial", "whitespace"} ->
         (CASE x \in Space -> "whitespace"
            [] x = "{"     -> "brace"
            [] x = "("     -> "bracket"
            [] OTHER       -> NoState)
    [] s = "closed"  -> IF x \in Space THEN "whitespace" ELSE NoState
       (* { and what it allows *)
    [] s = "brace"    -> (CASE x = "}" -> "closed" [] x = "nl" -> NoState
                            [] OTHER -> "in_brace")
    [] s = "in_brace" -> IF x = "}" THEN "closed" ELSE "in_brace"
       (* ( and what it allows *)
    [] s = "bracket"    -> IF x = "*" THEN "starred" ELSE NoState
    [] s = "starred"    -> (CASE x = "*" -> "maybe_end" [] x = "nl" -> NoState
                              [] OTHER -> "in_bracket")
    [] s = "in_bracket" -> IF x = "*" THEN "maybe_end" ELSE "in_bracket"
    [] s = "maybe_end"  -> (CASE x = ")" -> "closed"
                              [] x \in {"*", "nl"} -> NoState
                              [] OTHER -> "in_bracket")
    [] OTHER -> NoState

SkipReturns(s) ==
  IF s \in {"initial", "whitespace", "closed"} THEN "T_ID"
  ELSE IF s = "bracket" THEN "T_REWIND_ONE"
  ELSE "T_INVALID"

(* A letter continues a name; the other tokens are one character. *)
Recognise(s, x) ==
  CASE s = "initial" /\ x \in {"a", "(", ")", "*"} -> x
    [] s = "a" /\ x = "a"                          -> "a"
    [] OTHER                                       -> NoState

RecogniseReturns(s) == IF s = "initial" THEN "T_INVALID" ELSE s

-----------------------------------------------------------------------------
(* x is what fgetc gives at the file position. *)
Fgetc(x) ==
  IF pos < Len(text)
  THEN x = text[pos + 1] /\ UNCHANGED <<text, ended>>
  ELSE \/ /\ x = EOF
          /\ ended' = TRUE /\ UNCHANGED text
       \/ /\ ~ ended /\ Len(text) < MaxLength
          /\ x \in Chars
          /\ text' = Append(text, x) /\ UNCHANGED ended

CountLine_blanks(x) == f_line' = IF x \in Space THEN f_line + 1 ELSE f_line  \* mutant

CountLine(x) == f_line' = IF x = "nl" THEN f_line + 1 ELSE f_line

(* yylex, next_token_file: the skipper starts where the last token ended.  *)
Yylex ==
  /\ mode = "idle"
  /\ mode' = "skip"
  /\ last_position' = pos
  /\ penultimate_position' = 0
  /\ from' = pos
  /\ UNCHANGED <<text, ended, pos, c, sm, i, allocated, f_line, names>>

(* skip_nontokens_file meets a character the automaton takes. *)
SkipCharacter(x) ==
  /\ mode = "skip"
  /\ x # EOF /\ Fgetc(x)
  /\ Skip(sm, x) # NoState
  /\ sm' = Skip(sm, x)
  /\ CountLine(x)
  /\ pos' = pos + 1
  /\ penultimate_position' = last_position
  /\ last_position' = pos + 1
  /\ UNCHANGED <<c, i, allocated, from, mode, names>>

SkipEnd_unrewound(s) == last_position                     \* mutant: never two back

SkipEnd_two(s) ==                                         \* mutant: three back
  IF SkipReturns(s) = "T_REWIND_ONE" THEN penultimate_position - 1 ELSE last_position

(* The position the skipper leaves, when it ends in state s. *)
SkipEnd(s) ==
  IF SkipReturns(s) = "T_REWIND_ONE" THEN penultimate_position ELSE last_position

(* It meets one the automaton does not take: back before it, and one more  *)
(* for an opening bracket that starts no comment.                          *)
SkipDone(x) ==
  /\ mode = "skip"
  /\ x # EOF /\ Fgetc(x)
  /\ Skip(sm, x) = NoState
  /\ pos' = SkipEnd(sm)
  /\ sm' = "initial"
  /\ mode' = IF SkipReturns(sm) = "T_INVALID" THEN "invalid" ELSE "skipped"
  /\ UNCHANGED <<last_position, penultimate_position, c, i, allocated, f_line, from, names>>

(* It meets the end of the file; the automaton keeps its state. *)
SkipEof ==
  /\ mode = "skip"
  /\ Fgetc(EOF)
  /\ mode' = IF SkipReturns(sm) = "T_INVALID" THEN "invalid" ELSE "skipped"
  /\ UNCHANGED <<pos, last_position, penultimate_position, c, sm, i, allocated,
                 f_line, from, names>>

(* next_token_file reads its first character. *)
TokenEof ==
  /\ mode = "skipped"
  /\ Fgetc(EOF)
  /\ mode' = "eof"
  /\ UNCHANGED <<pos, last_position, penultimate_position, c, sm, i, allocated,
                 f_line, from, names>>

TokenStart(x) ==
  /\ mode = "skipped"
  /\ x # EOF /\ Fgetc(x)
  /\ c' = x
  /\ pos' = pos + 1 /\ last_position' = pos + 1
  /\ sm' = "initial"
  /\ i' = 0 /\ allocated' = 1
  /\ mode' = "token"
  /\ UNCHANGED <<penultimate_position, f_line, from, names>>

Allocated_late(n) == IF n >= allocated THEN 2 * allocated ELSE allocated  \* mutant

(* The size of the buffer before its n-th character is written, from 0. *)
Allocated(n) == IF n + 1 >= allocated THEN 2 * allocated ELSE allocated

(* The automaton takes the character in hand, and the next one is read. *)
TokenCharacter(x) ==
  /\ mode = "token"
  /\ Recognise(sm, c) # NoState
  /\ sm' = Recognise(sm, c)
  /\ CountLine(c)
  /\ allocated' = Allocated(i)
  /\ i' = i + 1
  /\ last_position' = pos
  /\ Fgetc(x) /\ c' = x
  /\ pos' = IF x = EOF THEN pos ELSE pos + 1
  /\ UNCHANGED <<penultimate_position, from, mode, names>>

TokenEnd_restarted == from                                \* mutant: wrong mark

TokenEnd == last_position

Room_late(n) == IF sec_alloc < n THEN 2 * sec_alloc ELSE sec_alloc  \* mutant

(* The room for names, n of them being known. *)
Room(n) == IF sec_alloc <= n THEN 2 * sec_alloc ELSE sec_alloc

(* yylex, of a name: it is given the number of the one known that is       *)
(* spelled like it, or made known.                                         *)
Intern(name) ==
  LET known == {n \in DOMAIN secondary_tokens : secondary_tokens[n] = name} IN
  /\ sec_alloc' = Room(Len(secondary_tokens))
  /\ IF known = {}
     THEN /\ secondary_tokens' = Append(secondary_tokens, name)
          /\ yylval' = Len(secondary_tokens)
     ELSE /\ \E n \in known : (\A m \in known : n <= m) /\ yylval' = n - 1
          /\ UNCHANGED secondary_tokens

(* The automaton does not: back before it.  A character no token begins    *)
(* with is consumed.                                                       *)
TokenDone ==
  /\ mode = "token"
  /\ Recognise(sm, c) = NoState
  /\ pos' = TokenEnd
  /\ sm' = "initial"
  /\ mode' = IF RecogniseReturns(sm) = "T_INVALID" THEN "invalid" ELSE "idle"
  /\ IF sm = "a" THEN Intern(SubSeq(text, last_position - i + 1, last_position))
     ELSE UNCHANGED names
  /\ UNCHANGED <<text, ended, last_position, penultimate_position, c, i, allocated,
                 f_line, from>>

-----------------------------------------------------------------------------
Init ==
  /\ text = <<>> /\ ended = FALSE
  /\ pos = 0 /\ last_position = 0 /\ penultimate_position = 0
  /\ c = EOF /\ sm = "initial"
  /\ i = 0 /\ allocated = 1
  /\ f_line = 1
  /\ secondary_tokens = <<Name(5), Name(3)>> /\ sec_alloc = 3 /\ yylval = 0
  /\ from = 0
  /\ mode = "idle"

Next ==
  \/ Yylex
  \/ \E x \in Chars : SkipCharacter(x) \/ SkipDone(x) \/ TokenStart(x)
  \/ SkipEof \/ TokenEof
  \/ \E x \in Chars \cup {EOF} : TokenCharacter(x)
  \/ TokenDone

(* A call runs to its end, and the parser asks for tokens until it is told *)
(* that there are none or that one is invalid.                             *)
Spec == Init /\ [][Next]_vars /\ WF_vars(Next)

-----------------------------------------------------------------------------
(* What Pascal skips: white space, and comments of both kinds that hold    *)
(* anything but their end.                                                 *)
Reference(s, x) ==
  CASE s = "out"      -> (CASE x \in Space -> "out" [] x = "{" -> "{" [] x = "(" -> "("
                            [] OTHER -> "token")
    [] s = "{"        -> IF x = "}" THEN "out" ELSE "{"
    [] s = "("        -> IF x = "*" THEN "(*" ELSE "token"
    [] s = "(*"       -> IF x = "*" THEN "(**" ELSE "(*"
    [] s = "(**"      -> (CASE x = ")" -> "out" [] x = "*" -> "(**" [] OTHER -> "(*")
    [] s = "token"    -> "token"

(* Its state when it has read s from behind the position a to b. *)
Scanned(s, a, b) ==
  LET state[k \in a .. b] ==
        IF k = a THEN "out" ELSE Reference(state[k - 1], s[k])
  IN  state[b]

Newlines(s, b) == Cardinality({k \in 1 .. b : s[k] = "nl"})

(* File positions stay within what was read, whatever the scanner gives back. *)
TypeOK ==
  /\ text \in Seq(Chars) /\ Len(text) <= MaxLength /\ ended \in BOOLEAN
  /\ pos \in 0 .. Len(text) /\ last_position \in 0 .. Len(text)
  /\ penultimate_position \in 0 .. Len(text)
  /\ i \in Nat /\ allocated \in Nat /\ f_line \in Nat
  /\ secondary_tokens \in Seq(Seq(Chars)) /\ sec_alloc \in Nat /\ yylval \in Nat
  /\ mode \in {"idle", "skip", "skipped", "token", "eof", "invalid"}

(* next_token_file writes buffer[i] and at last a zero behind the lexeme,  *)
(* and grows the buffer only between them: both are within it.             *)
LexemeFits == mode = "token" => i < allocated

(* yylex writes a name within the block of names, knows each spelling      *)
(* once, and gives the parser the number under which the name just read is *)
(* known: equal numbers in the symbol tables are equal names.              *)
NamesNumbered ==
  /\ Len(secondary_tokens) <= sec_alloc
  /\ IsInjective(secondary_tokens)
  /\ mode = "idle" /\ pos > 0 /\ text[pos] = "a" =>
       secondary_tokens[yylval + 1] = SubSeq(text, pos - i + 1, pos)

(* An error is reported on the line on which the scanner stands, whatever  *)
(* it read and gave back.                                                  *)
LinesCounted ==
  mode \in {"idle", "skipped", "invalid", "eof"} =>
    f_line = 1 + Newlines(text, pos)

(* Between two tokens only white space and complete comments are passed    *)
(* over, and a bracket that begins none of them is given back.  One is     *)
(* lost, the last character of the file: there the skipper goes back       *)
(* nowhere.                                                                *)
OnlyNontokensSkipped ==
  mode = "skipped" =>
    \/ Scanned(text, from, pos) = "out"
    \/ ended /\ pos = Len(text) /\ Scanned(text, from, pos) = "("

(* Every token uses up part of the file: the scanner reaches the end of it *)
(* or an invalid token.                                                    *)
ScanningEnds == <>(mode \in {"eof", "invalid"})

-----------------------------------------------------------------------------
(* What the repository says, and the code does not do                      *)

(* lexical_state_machine.c:344 has the machine skip comments and white     *)
(* space, with (402, 434) tabs and newlines in them and (428) a * that no  *)
(* ) follows: only the end of the file in a comment is an error in it.     *)
OnlyUnterminatedRefused ==
  mode = "invalid" /\ ~ ended =>
    Scanned(text, from, Len(text)) = "token"

=============================================================================
