----------------------------- MODULE Tokenizer -----------------------------
(***************************************************************************)
(* The automaton that recognises tokens: make_full_tokenizer of            *)
(* lexer/lexical_state_machine.c builds it from the tables of              *)
(* lexer/token.c, and next_token_file runs it on the characters of a file. *)
(* Texts are sequences of characters, as the tables are spelled, in lower  *)
(* case, as next_token_file hands them over.                               *)
(*                                                                         *)
(* A state of the automaton is a pair of its kind and of the text that     *)
(* leads to it.  The states of one kind that are copies of each other (a   *)
(* digit of an integer, a letter of a name) are one state here.            *)
(***************************************************************************)
EXTENDS Integers, Sequences, FiniteSets, SequencesExt

CONSTANTS
  tokens, keywords,   (* the tables: sequences of [token, type]             *)
  num_keywords,       (* how many of the keywords main.c passes             *)
  Other,              (* bound: characters that may leave the tables' words *)
  MaxOther            (* bound: and how many of them a text has             *)

ASSUME TokenizerAssumption ==
  /\ tokens   \in Seq([token : Seq(STRING) \ {<<>>}, type : STRING])
  /\ keywords \in Seq([token : Seq(STRING) \ {<<>>}, type : STRING])
  /\ num_keywords \in 0 .. Len(keywords)
  /\ MaxOther \in Nat

VARIABLES
  current_state,      (* of the automaton       *)
  buffer              (* the lexeme read so far *)

vars == <<current_state, buffer>>

-----------------------------------------------------------------------------
lower == <<"a", "b", "c", "d", "e", "f", "g", "h", "i", "j", "k", "l", "m",
           "n", "o", "p", "q", "r", "s", "t", "u", "v", "w", "x", "y", "z">>
upper == <<"A", "B", "C", "D", "E", "F", "G", "H", "I", "J", "K", "L", "M",
           "N", "O", "P", "Q", "R", "S", "T", "U", "V", "W", "X", "Y", "Z">>

alpha         == lower \o upper \o <<"_">>
numerics      == <<"1", "2", "3", "4", "5", "6", "7", "8", "9", "0">>
alphanumerics == numerics \o alpha

Letters == ToSet(alpha)
Digits  == ToSet(numerics)

(* Whether a text is in a table. *)
Listed(table, text) == \E n \in DOMAIN table : table[n].token = text

(* The keywords main.c passes. *)
Passed_all == keywords                                  \* mutant: the whole table

Passed == SubSeq(keywords, 1, num_keywords)

(* The elements of S as a sequence in the order R. *)
Ordered(S, R) ==
  [k \in 1 .. Cardinality(S) |->
     CHOOSE n \in S : Cardinality({m \in S : <<m, n>> \in R}) = k]

InOrder(S) == Ordered(S, {r \in S \X S : r[1] <= r[2]})

(* The numbers of the entries, shorter ones first. *)
BySize(table) ==
  {r \in (DOMAIN table) \X (DOMAIN table) :
     \/ Len(table[r[1]].token) < Len(table[r[2]].token)
     \/ Len(table[r[1]].token) = Len(table[r[2]].token) /\ r[1] <= r[2]}

Sorted_not(table) == table                              \* mutant: as they stand

(* qsort by compare_string_size; entries of one size may come in any order, *)
(* which is here that of the table.                                        *)
Sorted(table) ==
  LET order == Ordered(DOMAIN table, BySize(table))
  IN  [k \in DOMAIN table |-> table[order[k]]]

SortedTokens   == Sorted(tokens)
SortedKeywords == Sorted(Passed)

-----------------------------------------------------------------------------
(* The trees of texts.                                                     *)

Extends(e, p) == IsPrefix(p, e.token) /\ Len(e.token) > Len(p)

(* The texts one character longer than p with which entries of the table   *)
(* begin, in the order of the entries, each once.                          *)
Branches(table, p) ==
  LET text(n)  == SubSeq(table[n].token, 1, Len(p) + 1)
      found    == InOrder({n \in DOMAIN table :
                             /\ Extends(table[n], p)
                             /\ \A m \in 1 .. n - 1 : ~ IsPrefix(text(n), table[m].token)})
  IN  [k \in DOMAIN found |-> text(found[k])]

FirstWith(table, p) ==
  table[CHOOSE n \in DOMAIN table :
          /\ IsPrefix(p, table[n].token)
          /\ \A m \in 1 .. n - 1 : ~ IsPrefix(p, table[m].token)]

TypeOf_short(table, p, incomplete) ==                   \* mutant: > for >=
  LET e == FirstWith(table, p) IN
  IF Len(e.token) > Len(p) + 1 THEN incomplete ELSE e.type

(* The token the state of p stands for: that of the first entry it begins, *)
(* unless that entry goes on.                                              *)
TypeOf(table, p, incomplete) ==
  LET e == FirstWith(table, p) IN
  IF Len(e.token) > Len(p) THEN incomplete ELSE e.type

(* add_basic_tokenizing and make_basic_tokenizer_state: the type of a      *)
(* first character is that of its entry even when that goes on.            *)
TokenType(p) ==
  TypeOf(SortedTokens, p,
         IF Len(p) > 1 THEN "T_INVALID" ELSE FirstWith(SortedTokens, p).type)

(* add_basic_keyword_tokenizing and make_basic_keyword_tokenizer_state     *)
KeywordType(p) == TypeOf(SortedKeywords, p, "T_ID")

-----------------------------------------------------------------------------
(* States and transitions.                                                 *)

State(kind, at) == [kind |-> kind, at |-> at]
Initial         == State("initial", <<>>)

Arc(c, s) == [on |-> c, to |-> s]

ArcsOn(arcs) == {arcs[n].on : n \in DOMAIN arcs}

Arcs(chars, s) == [n \in DOMAIN chars |-> Arc(chars[n], s)]

ArcsTo(kind, texts) == [n \in DOMAIN texts |-> Arc(Last(texts[n]), State(kind, texts[n]))]

(* The arcs to names, where the character has none already. *)
NameArcs(chars, arcs) ==
  LET added == InOrder({n \in DOMAIN chars : chars[n] \notin ArcsOn(arcs)})
  IN  [k \in DOMAIN added |-> Arc(chars[added[k]], State("name", <<>>))]

(* What the initial state has before names are added. *)
FirstArcs ==
  ArcsTo("token", Branches(SortedTokens, <<>>))
    \o Arcs(numerics, State("int", <<>>)) \o <<Arc(".", State("real", <<>>))>>
    \o ArcsTo("keyword", Branches(SortedKeywords, <<>>))

KeywordArcs(p) == ArcsTo("keyword", Branches(SortedKeywords, p))

Visited_firsts(chars, arcs) == {arcs[1].to}             \* mutant: the first only

(* Adding names to a state, the code goes on to the arcs with the numbers  *)
(* of the characters it added, of which the state has others.              *)
Visited(chars, arcs) ==
  {arcs[n].to : n \in {n \in DOMAIN arcs : n <= Len(chars) /\ chars[n] \notin ArcsOn(arcs)}}

(* add_keyword_recognition and add_identifier_states: whether they come to *)
(* the state of the text p.                                                *)
Completed(p) ==
  \A n \in 1 .. Len(p) :
    LET parent == SubSeq(p, 1, n - 1) IN
    IF parent = <<>> THEN State("keyword", SubSeq(p, 1, 1)) \in Visited(alpha, FirstArcs)
    ELSE State("keyword", SubSeq(p, 1, n)) \in Visited(alphanumerics, KeywordArcs(parent))

Transitions(s) ==
  CASE s.kind = "initial" -> FirstArcs \o NameArcs(alpha, FirstArcs)
    [] s.kind = "token"   -> ArcsTo("token", Branches(SortedTokens, s.at))
    [] s.kind = "int"     -> Arcs(numerics, s) \o <<Arc(".", State("real", <<>>))>>
    [] s.kind = "real"    -> Arcs(numerics, s)
    [] s.kind = "name"    -> Arcs(alphanumerics, s)
    [] s.kind = "keyword" ->
         KeywordArcs(s.at) \o
         IF Completed(s.at) THEN NameArcs(alphanumerics, KeywordArcs(s.at)) ELSE <<>>

ReturnToken(s) ==
  CASE s.kind = "initial" -> "T_INVALID"
    [] s.kind = "token"   -> TokenType(s.at)
    [] s.kind = "int"     -> "T_INT_CONST"
    [] s.kind = "real"    -> "T_REAL_CONST"
    [] s.kind = "name"    -> "T_ID"
    [] s.kind = "keyword" -> KeywordType(s.at)

(* The states next to the tables' words; TLC computes the automaton once. *)
Texts(table) == UNION {{SubSeq(table[n].token, 1, k) : k \in 1 .. Len(table[n].token)} :
                         n \in DOMAIN table}

TokenTexts   == Texts(tokens)
KeywordTexts == Texts(Passed)
TableTexts   == TokenTexts \cup Texts(keywords)

States == {Initial} \cup {State(kind, <<>>) : kind \in {"int", "real", "name"}}
            \cup {State("token", p) : p \in TokenTexts}
            \cup {State("keyword", p) : p \in KeywordTexts}

allowed_transitions == [s \in States |-> Transitions(s)]

return_token == [s \in States |-> ReturnToken(s)]

(* execute_transition: the arcs for c, the first of which is taken. *)
Targets(c) ==
  {n \in DOMAIN allowed_transitions[current_state] :
     allowed_transitions[current_state][n].on = c}

-----------------------------------------------------------------------------
(* What the construction needs of the tables, and the tables have. *)

(* Names and numbers do not begin like a token, the first character of a   *)
(* token is one itself, as the full stop is, before that of reals, and     *)
(* keywords are made of letters.                                           *)
ASSUME TablesAssumption ==
  /\ Letters \cap Digits = {} /\ "." \notin Letters \cup Digits
  /\ \A n \in DOMAIN tokens :
       /\ tokens[n].token[1] \notin Letters \cup Digits
       /\ Listed(tokens, <<tokens[n].token[1]>>)
  /\ Listed(tokens, <<".">>)
  /\ \A n \in DOMAIN keywords : ToSet(keywords[n].token) \subseteq Letters
  /\ \A table \in {tokens, keywords} : \A m, n \in DOMAIN table :
       table[m].token = table[n].token => table[m].type = table[n].type

(* The states of keywords are completed by luck: in the initial state the  *)
(* arcs to them have numbers of characters no arc is for, and no text has  *)
(* more branches than there are digits, which are the first characters.    *)
ASSUME CompletionAssumption ==
  /\ \A n \in DOMAIN FirstArcs : FirstArcs[n].to.kind = "keyword" =>
       n \in DOMAIN alpha /\ alpha[n] \notin ArcsOn(FirstArcs)
  /\ \A p \in KeywordTexts : Len(KeywordArcs(p)) <= Len(numerics)

(* The only literal of a truth value is true. *)
ASSUME LiteralsAssumption ==
  /\ \A n \in DOMAIN tokens : tokens[n].type # "T_BOOLEAN_CONST"
  /\ \A n \in 1 .. num_keywords : keywords[n].type = "T_BOOLEAN_CONST" =>
       keywords[n].token = <<"t", "r", "u", "e">>

-----------------------------------------------------------------------------
(* How many characters of the text are past the words of the tables. *)
Leaves(text) ==
  Len(text) - Max({k \in 0 .. Len(text) :
                     k = 0 \/ SubSeq(text, 1, k) \in TableTexts})

(* A character of a lexeme. *)
Character(c) ==
  /\ Leaves(Append(buffer, c)) = 0 \/ (c \in Other /\ Leaves(Append(buffer, c)) <= MaxOther)
  /\ Targets(c) # {}
  /\ current_state' = allowed_transitions[current_state][Min(Targets(c))].to
  /\ buffer' = Append(buffer, c)

(* A character that is not: the token is returned, and read again for the  *)
(* next one.                                                               *)
TokenEnds(c) ==
  /\ Targets(c) = {}
  /\ return_token[current_state] # "T_INVALID"
  /\ current_state' = Initial
  /\ buffer' = <<>>

(* yylex, of a T_BOOLEAN_CONST: stricmp is 0 for equal texts. *)
BooleanValue_meant(text) ==                             \* mutant: equal is true
  IF text = <<"t", "r", "u", "e">> THEN 1 ELSE 0

BooleanValue(text) == IF text # <<"t", "r", "u", "e">> THEN 1 ELSE 0

-----------------------------------------------------------------------------
(* What tolower leaves of the letters, and the characters of the tokens. *)
Char == ToSet(lower) \cup Digits \cup {"_"} \cup Other
          \cup UNION {ToSet(tokens[n].token) : n \in DOMAIN tokens}

Init == current_state = Initial /\ buffer = <<>>

Next == \E c \in Char : Character(c) \/ TokenEnds(c)

Spec == Init /\ [][Next]_vars

-----------------------------------------------------------------------------
(* Properties                                                              *)

(* What a text is, without any automaton.                                  *)
TypeIn(table, text) == table[CHOOSE n \in DOMAIN table : table[n].token = text].type

IsWord(text)    == Head(text) \in Letters /\ ToSet(text) \subseteq Letters \cup Digits
IsInteger(text) == ToSet(text) \subseteq Digits
IsReal(text) ==
  \E k \in 2 .. Len(text) :
    /\ text[k] = "."
    /\ \A m \in DOMAIN text \ {k} : text[m] \in Digits

Lexeme(text) == \/ IsWord(text) \/ IsInteger(text) \/ IsReal(text)
                \/ text \in TokenTexts

(* "Alphanumeric tokens that aren't keywords are signaled as identifiers"  *)
(* (README.md:22), and every keyword passed and every token has its own    *)
(* type, whatever other words begin like it.                               *)
TypedByTables ==
  buffer # <<>> =>
    return_token[current_state] =
      IF Listed(tokens, buffer) THEN TypeIn(tokens, buffer)
      ELSE IF Listed(Passed, buffer) THEN TypeIn(Passed, buffer)
      ELSE IF IsWord(buffer) THEN "T_ID"
      ELSE IF IsInteger(buffer) THEN "T_INT_CONST"
      ELSE IF IsReal(buffer) THEN "T_REAL_CONST"
      ELSE "T_INVALID"

(* A token is as long as it can be: a character is taken exactly when the  *)
(* text goes on to some token with it, inside a keyword too.               *)
LongestMatch ==
  \A c \in Char : Targets(c) # {} <=> Lexeme(Append(buffer, c))

(* No program can write the truth value 1: false is a name, since main.c   *)
(* does not pass the last keyword, and true has the value 0.               *)
NoLiteralIsTrue ==
  return_token[current_state] = "T_BOOLEAN_CONST" => BooleanValue(buffer) = 0

=============================================================================
