---------------------------- MODULE LexerProofs ----------------------------
(***************************************************************************)
(* Proofs about Lexer, for files of every length.                          *)
(***************************************************************************)
EXTENDS Lexer, SequenceTheorems, FiniteSetTheorems, NaturalsInduction,
        WellFoundedInduction, TLAPS

-----------------------------------------------------------------------------
(* Reading                                                                 *)

(* What fgetc leaves: the file read so far only grows, and a character is  *)
(* one that stands at the position.                                        *)
LEMMA FgetcLemma ==
  ASSUME text \in Seq(Chars), ended \in BOOLEAN, Len(text) <= MaxLength,
         pos \in 0 .. Len(text), NEW x, Fgetc(x)
  PROVE  /\ text' \in Seq(Chars) /\ ended' \in BOOLEAN /\ Len(text') <= MaxLength
         /\ Len(text) \in Nat /\ Len(text') \in Nat /\ Len(text) <= Len(text')
         /\ x # EOF => pos + 1 <= Len(text') /\ text'[pos + 1] = x
         /\ \A k \in 1 .. Len(text) : text'[k] = text[k]
<1>1. Len(text) \in Nat /\ MaxLength \in Nat
  BY LenProperties, LexerAssumption DEF LexerAssumption
<1>2. CASE pos < Len(text) /\ x = text[pos + 1] /\ UNCHANGED <<text, ended>>
  BY <1>1, <1>2
<1>3. CASE x = EOF /\ ended' = TRUE /\ UNCHANGED text
  BY <1>1, <1>3
<1>4. CASE /\ ~ (pos < Len(text)) /\ Len(text) < MaxLength
          /\ x \in Chars /\ text' = Append(text, x) /\ UNCHANGED ended
  <2>1. /\ text' \in Seq(Chars) /\ Len(text') = Len(text) + 1
        /\ \A k \in 1 .. Len(text) : text'[k] = text[k]
        /\ text'[Len(text) + 1] = x
    BY <1>4, AppendProperties
  <2>2. pos = Len(text)
    BY <1>1, <1>4
  <2> QED
    BY <1>1, <1>4, <2>1, <2>2
<1> QED
  BY <1>2, <1>3, <1>4 DEF Fgetc

LEMMA AllocatedLemma ==
  ASSUME NEW n \in Nat, allocated \in Nat, n < allocated
  PROVE  Allocated(n) \in Nat /\ n + 1 < Allocated(n)
BY DEF Allocated

(* The character in hand is the one before the file position, the i taken  *)
(* stand before it, and the automaton is in the state of the last of them. *)
InHand ==
  mode = "token" =>
    /\ i <= last_position
    /\ c # EOF => pos \in 1 .. Len(text) /\ text[pos] = c /\ i + 1 <= pos
    /\ sm # "initial" => last_position # 0 /\ text[last_position] = sm

Inv == TypeOK /\ LexemeFits /\ InHand

-----------------------------------------------------------------------------
(* The steps                                                               *)

(* A bound on positions survives the growth of the file.                   *)
LEMMA PositionsGrow ==
  ASSUME NEW m \in Nat, NEW n \in Nat, m <= n
  PROVE  0 .. m \subseteq 0 .. n
OBVIOUS

LEMMA TypesOfStep ==
  ASSUME TypeOK, NEW x, Fgetc(x),
         pos' \in 0 .. Len(text) \/ (x # EOF /\ pos' = pos + 1),
         last_position' \in 0 .. Len(text) \/ (x # EOF /\ last_position' = pos + 1),
         penultimate_position' \in 0 .. Len(text),
         i' \in Nat, allocated' \in Nat, f_line' \in Nat,
         secondary_tokens' = secondary_tokens, sec_alloc' = sec_alloc, yylval' = yylval,
         mode' \in {"idle", "skip", "skipped", "token", "eof", "invalid"}
  PROVE  TypeOK'
<1>1. /\ text' \in Seq(Chars) /\ ended' \in BOOLEAN /\ Len(text') <= MaxLength
      /\ Len(text) \in Nat /\ Len(text') \in Nat /\ Len(text) <= Len(text')
      /\ x # EOF => pos + 1 <= Len(text')
  BY FgetcLemma DEF TypeOK
<1>2. 0 .. Len(text) \subseteq 0 .. Len(text')
  BY <1>1, PositionsGrow
<1>3. x # EOF => pos + 1 \in 0 .. Len(text')
  BY <1>1 DEF TypeOK
<1>4. /\ pos' \in 0 .. Len(text') /\ last_position' \in 0 .. Len(text')
      /\ penultimate_position' \in 0 .. Len(text')
  BY <1>2, <1>3
<1> QED
  BY <1>1, <1>4 DEF TypeOK

LEMMA CountLineType ==
  ASSUME f_line \in Nat, NEW x, CountLine(x)
  PROVE  f_line' \in Nat
BY DEF CountLine

LEMMA SkipSteps ==
  ASSUME Inv,
         \/ \E x \in Chars : SkipCharacter(x) \/ SkipDone(x)
         \/ SkipEof \/ TokenEof
  PROVE  Inv'
<1>1. /\ TypeOK
      /\ pos \in 0 .. Len(text) /\ last_position \in 0 .. Len(text)
      /\ penultimate_position \in 0 .. Len(text)
      /\ i \in Nat /\ allocated \in Nat /\ f_line \in Nat
  BY DEF Inv, TypeOK
<1>2. ASSUME NEW x \in Chars, SkipCharacter(x) PROVE Inv'
  <2>1. /\ Fgetc(x) /\ x # EOF /\ CountLine(x) /\ mode' = "skip"
        /\ pos' = pos + 1 /\ last_position' = pos + 1
        /\ penultimate_position' = last_position
        /\ i' = i /\ allocated' = allocated
        /\ secondary_tokens' = secondary_tokens /\ sec_alloc' = sec_alloc /\ yylval' = yylval
    BY <1>2 DEF SkipCharacter, names
  <2>2. TypeOK'
    BY <1>1, <2>1, CountLineType, TypesOfStep
  <2> QED
    BY <2>1, <2>2 DEF Inv, LexemeFits, InHand
<1>3. ASSUME NEW x \in Chars, SkipDone(x) PROVE Inv'
  <2>1. /\ Fgetc(x) /\ mode' \in {"invalid", "skipped"}
        /\ pos' = penultimate_position \/ pos' = last_position
        /\ last_position' = last_position /\ penultimate_position' = penultimate_position
        /\ i' = i /\ allocated' = allocated /\ f_line' = f_line
        /\ secondary_tokens' = secondary_tokens /\ sec_alloc' = sec_alloc /\ yylval' = yylval
    BY <1>3 DEF SkipDone, SkipEnd, names
  <2>2. TypeOK'
    BY <1>1, <2>1, TypesOfStep
  <2> QED
    BY <2>1, <2>2 DEF Inv, LexemeFits, InHand
<1>4. CASE SkipEof \/ TokenEof
  <2>1. /\ Fgetc(EOF) /\ mode' \in {"invalid", "skipped", "eof"}
        /\ pos' = pos
        /\ last_position' = last_position /\ penultimate_position' = penultimate_position
        /\ i' = i /\ allocated' = allocated /\ f_line' = f_line
        /\ secondary_tokens' = secondary_tokens /\ sec_alloc' = sec_alloc /\ yylval' = yylval
    BY <1>4 DEF SkipEof, TokenEof, names
  <2>2. TypeOK'
    BY <1>1, <2>1, TypesOfStep
  <2> QED
    BY <2>1, <2>2 DEF Inv, LexemeFits, InHand
<1> QED
  BY <1>2, <1>3, <1>4

LEMMA TokenSteps ==
  ASSUME Inv,
         \/ \E x \in Chars : TokenStart(x)
         \/ \E x \in Chars \cup {EOF} : TokenCharacter(x)
  PROVE  Inv'
<1>1. /\ TypeOK
      /\ pos \in 0 .. Len(text) /\ last_position \in 0 .. Len(text)
      /\ penultimate_position \in 0 .. Len(text)
      /\ i \in Nat /\ allocated \in Nat /\ f_line \in Nat
  BY DEF Inv, TypeOK
<1>2. ASSUME NEW x \in Chars, TokenStart(x) PROVE Inv'
  <2>1. /\ Fgetc(x) /\ x # EOF /\ mode' = "token" /\ c' = x /\ sm' = "initial"
        /\ pos' = pos + 1 /\ last_position' = pos + 1
        /\ penultimate_position' = penultimate_position
        /\ i' = 0 /\ allocated' = 1 /\ f_line' = f_line
        /\ secondary_tokens' = secondary_tokens /\ sec_alloc' = sec_alloc /\ yylval' = yylval
    BY <1>2 DEF TokenStart, names
  <2>2. TypeOK'
    BY <1>1, <2>1, TypesOfStep
  <2>3. pos + 1 \in 1 .. Len(text') /\ text'[pos + 1] = x
    BY <1>1, <2>1, FgetcLemma DEF TypeOK
  <2>4. InHand'
    BY <1>1, <2>1, <2>3 DEF InHand
  <2> QED
    BY <2>1, <2>2, <2>4 DEF Inv, LexemeFits
<1>3. ASSUME NEW x \in Chars \cup {EOF}, TokenCharacter(x) PROVE Inv'
  <2>1. /\ Fgetc(x) /\ mode = "token" /\ mode' = "token" /\ CountLine(c) /\ c' = x
        /\ pos' = (IF x = EOF THEN pos ELSE pos + 1) /\ last_position' = pos
        /\ penultimate_position' = penultimate_position
        /\ i' = i + 1 /\ allocated' = Allocated(i)
        /\ secondary_tokens' = secondary_tokens /\ sec_alloc' = sec_alloc /\ yylval' = yylval
    BY <1>3 DEF TokenCharacter, names
  <2>2. Allocated(i) \in Nat /\ i + 1 < Allocated(i)
    BY <1>1, <2>1, AllocatedLemma DEF Inv, LexemeFits
  <2>3. TypeOK'
    BY <1>1, <2>1, <2>2, CountLineType, TypesOfStep
  <2>4. sm' = c /\ c # EOF
    BY <1>3 DEF TokenCharacter, Recognise, NoState, EOF
  <2>5. pos \in 1 .. Len(text) /\ text[pos] = c /\ i + 1 <= pos
    BY <2>1, <2>4 DEF Inv, InHand
  <2>6. text'[pos] = c /\ (x # EOF => pos + 1 \in 1 .. Len(text') /\ text'[pos + 1] = x)
    <3>1. /\ \A k \in 1 .. Len(text) : text'[k] = text[k]
          /\ Len(text') \in Nat
          /\ x # EOF => pos + 1 <= Len(text') /\ text'[pos + 1] = x
      BY <2>1, FgetcLemma, <1>1 DEF TypeOK
    <3> QED
      BY <1>1, <2>5, <3>1
  <2>7. InHand'
    BY <1>1, <2>1, <2>4, <2>5, <2>6 DEF InHand
  <2> QED
    BY <2>1, <2>2, <2>3, <2>7 DEF Inv, LexemeFits
<1> QED
  BY <1>2, <1>3

-----------------------------------------------------------------------------
(* Names                                                                   *)

LEMMA LexemeType ==
  ASSUME NEW s \in Seq(Chars), NEW m \in 0 .. Len(s), NEW n \in Nat, n <= m
  PROVE  SubSeq(s, m - n + 1, m) \in Seq(Chars)
<1>1. \A k \in m - n + 1 .. m : s[k] \in Chars
  BY ElementOfSeq
<1> QED
  BY <1>1, SubSeqProperties

(* What is known of the names after one was read. *)
LEMMA InternLemma ==
  ASSUME secondary_tokens \in Seq(Seq(Chars)), sec_alloc \in Nat, yylval \in Nat,
         NEW name \in Seq(Chars), Intern(name)
  PROVE  /\ secondary_tokens' \in Seq(Seq(Chars)) /\ sec_alloc' \in Nat /\ yylval' \in Nat
         /\ secondary_tokens'[yylval' + 1] = name
         /\ \/ secondary_tokens' = secondary_tokens
            \/ /\ secondary_tokens' = Append(secondary_tokens, name)
               /\ \A n \in DOMAIN secondary_tokens : secondary_tokens[n] # name
<1> DEFINE known == {n \in DOMAIN secondary_tokens : secondary_tokens[n] = name}
<1>1. sec_alloc' \in Nat
  BY DEF Intern, Room
<1>2. CASE known = {}
  <2>1. secondary_tokens' = Append(secondary_tokens, name) /\ yylval' = Len(secondary_tokens)
    BY <1>2 DEF Intern
  <2>2. /\ secondary_tokens' \in Seq(Seq(Chars)) /\ Len(secondary_tokens) \in Nat
        /\ Append(secondary_tokens, name)[Len(secondary_tokens) + 1] = name
    BY <2>1, AppendProperties, LenProperties
  <2> QED
    BY <1>1, <1>2, <2>1, <2>2
<1>3. CASE known # {}
  <2>1. PICK n \in known : yylval' = n - 1
    BY <1>3 DEF Intern
  <2>2. secondary_tokens' = secondary_tokens
    BY <1>3 DEF Intern
  <2>3. n \in 1 .. Len(secondary_tokens) /\ secondary_tokens[n] = name
    BY LenProperties
  <2>4. yylval' \in Nat /\ yylval' + 1 = n
    BY <2>1, <2>3, LenProperties
  <2> QED
    BY <1>1, <2>2, <2>3, <2>4
<1> QED
  BY <1>2, <1>3

LEMMA TokenDoneNames ==
  ASSUME Inv, TokenDone
  PROVE  \/ /\ sm = "a" /\ text[last_position] = "a"
            /\ SubSeq(text, last_position - i + 1, last_position) \in Seq(Chars)
            /\ Intern(SubSeq(text, last_position - i + 1, last_position))
         \/ /\ sm # "a" /\ UNCHANGED <<secondary_tokens, sec_alloc, yylval>>
            /\ mode' = "idle" => text[last_position] # "a"
<1>1. /\ text \in Seq(Chars) /\ last_position \in 0 .. Len(text) /\ i \in Nat
      /\ mode = "token" /\ i <= last_position
      /\ sm # "initial" => text[last_position] = sm
  BY DEF Inv, TypeOK, InHand, TokenDone
<1>2. CASE sm = "a"
  <2>1. SubSeq(text, last_position - i + 1, last_position) \in Seq(Chars)
    BY <1>1, LexemeType
  <2> QED
    BY <1>1, <1>2, <2>1 DEF TokenDone
<1>3. CASE sm # "a"
  <2>1. mode' = "idle" => sm # "initial"
    BY DEF TokenDone, RecogniseReturns
  <2> QED
    BY <1>1, <1>3, <2>1 DEF TokenDone, names
<1> QED
  BY <1>2, <1>3

(* Every turn of a loop of the scanner keeps its positions in the file and *)
(* a cell of the buffer free.                                              *)
LEMMA InvStep == Inv /\ [Next]_vars => Inv'
<1> SUFFICES ASSUME Inv, [Next]_vars PROVE Inv'
  OBVIOUS
<1>1. CASE Yylex
  <2>1. /\ mode' = "skip" /\ last_position' = pos /\ penultimate_position' = 0
        /\ UNCHANGED <<text, ended, pos, i, allocated, f_line, secondary_tokens, sec_alloc, yylval>>
    BY <1>1 DEF Yylex, names
  <2>2. 0 \in 0 .. Len(text)
    BY LenProperties DEF Inv, TypeOK
  <2> QED
    BY <2>1, <2>2 DEF Inv, TypeOK, LexemeFits, InHand
<1>2. CASE TokenDone
  <2>1. /\ mode' \in {"invalid", "idle"} /\ pos' = last_position
        /\ UNCHANGED <<text, ended, last_position, penultimate_position, i, allocated, f_line>>
    BY <1>2 DEF TokenDone, TokenEnd
  <2>2. secondary_tokens' \in Seq(Seq(Chars)) /\ sec_alloc' \in Nat /\ yylval' \in Nat
    BY <1>2, TokenDoneNames, InternLemma DEF Inv, TypeOK
  <2> QED
    BY <2>1, <2>2 DEF Inv, TypeOK, LexemeFits, InHand
<1>3. CASE UNCHANGED vars
  BY <1>3 DEF vars, Inv, TypeOK, LexemeFits, InHand
<1> QED
  BY <1>1, <1>2, <1>3, SkipSteps, TokenSteps DEF Next

LEMMA NameType ==
  ASSUME NEW n \in Nat
  PROVE  Name(n) \in Seq(Chars) /\ Len(Name(n)) = n
<1>1. Name(n) \in [1 .. n -> Chars]
  BY DEF Name, Chars
<1> QED
  BY <1>1

LEMMA InvInit == Init => Inv
<1> SUFFICES ASSUME Init PROVE Inv
  OBVIOUS
<1>1. /\ text = <<>> /\ ended = FALSE /\ mode = "idle"
      /\ pos = 0 /\ last_position = 0 /\ penultimate_position = 0
      /\ i = 0 /\ allocated = 1 /\ f_line = 1
      /\ secondary_tokens = <<Name(5), Name(3)>> /\ sec_alloc = 3 /\ yylval = 0
  BY DEF Init
<1>2. text \in Seq(Chars) /\ Len(text) = 0
  BY <1>1, EmptySeq
<1>3. Len(text) <= MaxLength
  BY <1>2, LexerAssumption DEF LexerAssumption
<1>4. 0 \in 0 .. Len(text)
  BY <1>2
<1>5. Name(5) \in Seq(Chars) /\ Name(3) \in Seq(Chars)
  BY NameType
<1>6. secondary_tokens \in Seq(Seq(Chars))
  BY <1>1, <1>5
<1>7. TypeOK
  BY <1>1, <1>2, <1>3, <1>4, <1>6 DEF TypeOK
<1>8. LexemeFits /\ InHand
  BY <1>1 DEF LexemeFits, InHand
<1> QED
  BY <1>7, <1>8 DEF Inv

-----------------------------------------------------------------------------
(* The table of names                                                      *)

Numbered == NamesNumbered /\ sec_alloc >= 1

LEMMA NewKeepsInjective ==
  ASSUME NEW S, NEW s \in Seq(S), IsInjective(s), NEW e \in S,
         \A n \in DOMAIN s : s[n] # e
  PROVE  IsInjective(Append(s, e))
<1>1. /\ DOMAIN s = 1 .. Len(s) /\ Len(s) \in Nat
      /\ DOMAIN Append(s, e) = 1 .. Len(s) + 1
      /\ \A n \in 1 .. Len(s) : Append(s, e)[n] = s[n]
      /\ Append(s, e)[Len(s) + 1] = e
  BY AppendProperties, LenProperties
<1>2. \A a, b \in 1 .. Len(s) : s[a] = s[b] => a = b
  BY <1>1 DEF IsInjective
<1>3. \A a \in 1 .. Len(s) + 1 : a \in 1 .. Len(s) \/ a = Len(s) + 1
  BY <1>1
<1>4. ASSUME NEW a \in 1 .. Len(s) + 1, NEW b \in 1 .. Len(s) + 1,
             Append(s, e)[a] = Append(s, e)[b]
      PROVE  a = b
  BY <1>1, <1>2, <1>3, <1>4
<1> QED
  BY <1>1, <1>4 DEF IsInjective

LEMMA NumberedStep == Inv /\ Numbered /\ [Next]_vars => Numbered'
<1> SUFFICES ASSUME Inv, Numbered, [Next]_vars PROVE Numbered'
  OBVIOUS
<1>1. /\ secondary_tokens \in Seq(Seq(Chars)) /\ sec_alloc \in Nat /\ yylval \in Nat
      /\ Len(secondary_tokens) \in Nat /\ Len(secondary_tokens) <= sec_alloc
      /\ sec_alloc >= 1 /\ IsInjective(secondary_tokens)
  BY LenProperties DEF Inv, TypeOK, Numbered, NamesNumbered
<1>2. CASE TokenDone
  <2>1. /\ text' = text /\ i' = i /\ last_position' = last_position
        /\ pos' = last_position
    BY <1>2 DEF TokenDone, TokenEnd
  <2>2. CASE /\ sm = "a" /\ text[last_position] = "a"
             /\ SubSeq(text, last_position - i + 1, last_position) \in Seq(Chars)
             /\ Intern(SubSeq(text, last_position - i + 1, last_position))
    <3> DEFINE name == SubSeq(text, last_position - i + 1, last_position)
    <3>1. /\ secondary_tokens'[yylval' + 1] = name
          /\ \/ secondary_tokens' = secondary_tokens
             \/ /\ secondary_tokens' = Append(secondary_tokens, name)
                /\ \A n \in DOMAIN secondary_tokens : secondary_tokens[n] # name
      BY <1>1, <2>2, InternLemma
    <3>2. name \in Seq(Chars) /\ name = SubSeq(text', pos' - i' + 1, pos')
      BY <2>1, <2>2
    <3> HIDE DEF name
    <3>3. sec_alloc' \in Nat /\ sec_alloc' >= Len(secondary_tokens) + 1
      BY <1>1, <2>2 DEF Intern, Room
    <3>4. IsInjective(secondary_tokens') /\ Len(secondary_tokens') <= sec_alloc'
      <4>1. CASE secondary_tokens' = secondary_tokens
        <5>1. IsInjective(secondary_tokens')
          BY <1>1, <4>1, Zenon
        <5>2. Len(secondary_tokens) <= sec_alloc'
          BY <1>1, <3>3
        <5> QED
          BY <4>1, <5>1, <5>2, Zenon
      <4>2. CASE /\ secondary_tokens' = Append(secondary_tokens, name)
                 /\ \A n \in DOMAIN secondary_tokens : secondary_tokens[n] # name
        <5>1. Len(Append(secondary_tokens, name)) = Len(secondary_tokens) + 1
          BY <1>1, <3>2, AppendProperties
        <5>2. IsInjective(Append(secondary_tokens, name))
          BY <1>1, <3>2, <4>2, NewKeepsInjective
        <5> QED
          BY <3>3, <4>2, <5>1, <5>2, Zenon
      <4> QED
        BY <3>1, <4>1, <4>2
    <3>5. sec_alloc' >= 1
      BY <1>1, <3>3, <2>2 DEF Intern, Room
    <3> QED
      BY <3>1, <3>2, <3>4, <3>5 DEF Numbered, NamesNumbered
  <2>3. CASE /\ sm # "a" /\ UNCHANGED <<secondary_tokens, sec_alloc, yylval>>
             /\ mode' = "idle" => text[last_position] # "a"
    BY <1>1, <2>1, <2>3 DEF Numbered, NamesNumbered
  <2> QED
    BY <1>2, <2>2, <2>3, TokenDoneNames
<1>3. CASE UNCHANGED vars
  BY <1>3 DEF vars, names, Numbered, NamesNumbered
<1>4. CASE \/ Yylex
           \/ \E x \in Chars : SkipCharacter(x) \/ SkipDone(x) \/ TokenStart(x)
           \/ SkipEof \/ TokenEof
           \/ \E x \in Chars \cup {EOF} : TokenCharacter(x)
  <2>1. mode' # "idle" /\ UNCHANGED <<secondary_tokens, sec_alloc, yylval>>
    BY <1>4 DEF Yylex, SkipCharacter, SkipDone, TokenStart, SkipEof, TokenEof,
                TokenCharacter, names
  <2> QED
    BY <1>1, <2>1 DEF Numbered, NamesNumbered
<1> QED
  BY <1>2, <1>3, <1>4 DEF Next

LEMMA NumberedInit == Init => Numbered
<1> SUFFICES ASSUME Init PROVE Numbered
  OBVIOUS
<1>1. /\ secondary_tokens = <<Name(5), Name(3)>> /\ sec_alloc = 3 /\ pos = 0
  BY DEF Init
<1>2. Len(Name(5)) = 5 /\ Len(Name(3)) = 3
  BY NameType
<1>3. Name(5) # Name(3)
  BY <1>2
<1>4. IsInjective(<<Name(5), Name(3)>>)
  BY <1>3 DEF IsInjective
<1> QED
  BY <1>1, <1>4 DEF Numbered, NamesNumbered

-----------------------------------------------------------------------------
(* What is passed over between two tokens                                  *)

(* A set of numbers has a least one. *)
LEMMA Least ==
  ASSUME NEW T, T \subseteq Nat, T # {}
  PROVE  \E m \in T : \A x \in T : m <= x
<1>1. IsWellFoundedOn(OpToRel(<, Nat), Nat)
  BY NatLessThanWellFounded
<1>2. PICK m \in T : \A y \in T : <<y, m>> \notin OpToRel(<, Nat)
  BY <1>1, WFMin
<1>3. \A y \in T : ~ (y < m)
  BY <1>2 DEF OpToRel
<1> QED
  BY <1>3

(* f gives the states of the reading of s from behind a to b. *)
IsReading(f, s, a, b) ==
  f = [k \in a .. b |-> IF k = a THEN "out" ELSE Reference(f[k - 1], s[k])]

Reading(s, a, b) == CHOOSE f : IsReading(f, s, a, b)

(* Reading one more character. *)
LEMMA ReadingGrows ==
  ASSUME NEW s, NEW a \in Nat, NEW b \in Nat, a <= b, NEW f, IsReading(f, s, a, b)
  PROVE  \E g : IsReading(g, s, a, b + 1)
<1> DEFINE g == [k \in a .. b + 1 |-> IF k = b + 1 THEN Reference(f[b], s[b + 1]) ELSE f[k]]
<1>1. \A k \in a .. b : f[k] = IF k = a THEN "out" ELSE Reference(f[k - 1], s[k])
  BY DEF IsReading
<1>2. \A k \in a .. b + 1 : k \in a .. b \/ (k = b + 1 /\ k # a /\ k - 1 = b)
  OBVIOUS
<1>3. \A k \in a .. b : k = a \/ k - 1 \in a .. b
  OBVIOUS
<1>4. /\ \A k \in a .. b : g[k] = f[k] /\ k # b + 1
      /\ b \in a .. b /\ g[b + 1] = Reference(f[b], s[b + 1])
  OBVIOUS
<1>5. g = [k \in a .. b + 1 |-> g[k]]
  OBVIOUS
<1> HIDE DEF g
<1>6. ASSUME NEW k \in a .. b + 1
      PROVE  g[k] = IF k = a THEN "out" ELSE Reference(g[k - 1], s[k])
  <2>1. CASE k \in a .. b
    BY <1>1, <1>3, <1>4, <2>1
  <2>2. CASE k = b + 1 /\ k # a /\ k - 1 = b
    BY <1>4, <2>2
  <2> QED
    BY <1>2, <2>1, <2>2
<1> QED
  BY <1>5, <1>6 DEF IsReading

LEMMA ReadingExists ==
  ASSUME NEW s, NEW a \in Nat, NEW b \in Nat, a <= b
  PROVE  IsReading(Reading(s, a, b), s, a, b)
<1> DEFINE T == {m \in Nat : a <= m /\ ~ \E f : IsReading(f, s, a, m)}
<1>1. SUFFICES T = {}
  BY DEF Reading
<1>2. SUFFICES ASSUME T # {}
               PROVE  FALSE
  OBVIOUS
<1>3. PICK m \in T : \A x \in T : m <= x
  BY <1>2, Least
<1>4. m # a
  <2>1. IsReading([k \in a .. a |-> "out"], s, a, a)
    BY DEF IsReading
  <2> QED
    BY <1>3, <2>1
<1>5. m - 1 \in Nat /\ a <= m - 1 /\ m - 1 \notin T /\ (m - 1) + 1 = m
  BY <1>3, <1>4
<1>6. PICK f : IsReading(f, s, a, m - 1)
  BY <1>5
<1>7. \E g : IsReading(g, s, a, m)
  BY <1>5, <1>6, ReadingGrows
<1> QED
  BY <1>3, <1>7

(* Two readings go through the same states while they read the same. *)
LEMMA ReadingsAgree ==
  ASSUME NEW s, NEW t, NEW a \in Nat, NEW b \in Nat, NEW d \in Nat, a <= b, b <= d,
         \A k \in a + 1 .. b : s[k] = t[k],
         NEW f, IsReading(f, s, a, b), NEW g, IsReading(g, t, a, d)
  PROVE  f[b] = g[b]
<1> DEFINE T == {k \in a .. b : f[k] # g[k]}
<1>1. /\ \A k \in a .. b : f[k] = IF k = a THEN "out" ELSE Reference(f[k - 1], s[k])
      /\ \A k \in a .. d : g[k] = IF k = a THEN "out" ELSE Reference(g[k - 1], t[k])
  BY DEF IsReading
<1>2. SUFFICES ASSUME T # {}
               PROVE  FALSE
  OBVIOUS
<1>3. T \subseteq Nat
  OBVIOUS
<1>4. PICK m \in T : \A x \in T : m <= x
  BY <1>2, <1>3, Least
<1>5. m \in a .. d
  BY <1>4
<1>6. m # a
  BY <1>1, <1>4, <1>5
<1>7. m - 1 \in a .. b /\ m - 1 \notin T /\ m \in a + 1 .. b
  BY <1>4, <1>6
<1>8. f[m - 1] = g[m - 1] /\ s[m] = t[m]
  BY <1>7
<1> QED
  BY <1>1, <1>4, <1>5, <1>6, <1>8

LEMMA ScannedIs ==
  \A s, a, b : Scanned(s, a, b) = Reading(s, a, b)[b]
BY DEF Scanned, Reading, IsReading

LEMMA ScannedLemma ==
  ASSUME NEW s, NEW a \in Nat
  PROVE  /\ Scanned(s, a, a) = "out"
         /\ \A b \in Nat : a <= b =>
              /\ Scanned(s, a, b + 1) = Reference(Scanned(s, a, b), s[b + 1])
              /\ \A t : (\A k \in a + 1 .. b : s[k] = t[k]) => Scanned(t, a, b) = Scanned(s, a, b)
<1>1. ASSUME NEW b \in Nat, a <= b
      PROVE  \A k \in a .. b : Reading(s, a, b)[k] = IF k = a THEN "out"
                                ELSE Reference(Reading(s, a, b)[k - 1], s[k])
  <2> DEFINE f == Reading(s, a, b)
  <2>1. IsReading(f, s, a, b)
    BY <1>1, ReadingExists
  <2> HIDE DEF f
  <2>2. \A k \in a .. b : f[k] = IF k = a THEN "out" ELSE Reference(f[k - 1], s[k])
    BY <2>1 DEF IsReading
  <2> QED
    BY <2>2 DEF f
<1>2. Scanned(s, a, a) = "out"
  <2>1. a \in a .. a /\ a <= a
    OBVIOUS
  <2>2. Reading(s, a, a)[a] = "out"
    BY <1>1, <2>1
  <2> QED
    BY <2>2, ScannedIs
<1>3. ASSUME NEW b \in Nat, a <= b
      PROVE  Scanned(s, a, b + 1) = Reference(Scanned(s, a, b), s[b + 1])
  <2>1. b + 1 \in Nat /\ b + 1 \in a .. b + 1 /\ b + 1 # a /\ a <= b + 1 /\ (b + 1) - 1 = b /\ b <= b + 1
    BY <1>3
  <2>2. Reading(s, a, b + 1)[b + 1] = Reference(Reading(s, a, b + 1)[b], s[b + 1])
    BY <1>1, <2>1
  <2>3. Reading(s, a, b)[b] = Reading(s, a, b + 1)[b]
    <3> DEFINE f == Reading(s, a, b)
               g == Reading(s, a, b + 1)
               d == b + 1
    <3>1. IsReading(f, s, a, b) /\ IsReading(g, s, a, d)
      BY <1>3, <2>1, ReadingExists
    <3>2. d \in Nat /\ b <= d
      BY <2>1
    <3> HIDE DEF f, g, d
    <3>3. f[b] = g[b]
      BY <1>3, <3>1, <3>2, ReadingsAgree
    <3> QED
      BY <3>3 DEF f, g
  <2> QED
    BY <2>2, <2>3, ScannedIs
<1>4. ASSUME NEW b \in Nat, a <= b, NEW t, \A k \in a + 1 .. b : s[k] = t[k]
      PROVE  Scanned(t, a, b) = Scanned(s, a, b)
  <2>1. Reading(s, a, b)[b] = Reading(t, a, b)[b]
    <3>1. b <= b
      OBVIOUS
    <3> QED
      BY <1>4, <3>1, ReadingExists, ReadingsAgree
  <2> QED
    BY <2>1, ScannedIs
<1> QED
  BY <1>2, <1>3, <1>4

LEMMA NewlinesLemma ==
  ASSUME NEW s, NEW b \in Nat
  PROVE  /\ Newlines(s, b) \in Nat
         /\ Newlines(s, b + 1) = IF s[b + 1] = "nl" THEN Newlines(s, b) + 1 ELSE Newlines(s, b)
         /\ \A t : (\A k \in 1 .. b : s[k] = t[k]) => Newlines(t, b) = Newlines(s, b)
<1> DEFINE N(t, m) == {k \in 1 .. m : t[k] = "nl"}
<1>1. IsFiniteSet(N(s, b)) /\ Cardinality(N(s, b)) \in Nat
  <2>1. IsFiniteSet(1 .. b)
    BY FS_Interval
  <2>2. N(s, b) \in SUBSET (1 .. b)
    OBVIOUS
  <2> QED
    BY <2>1, <2>2, FS_Subset, FS_CardinalityType
<1>2. N(s, b + 1) = IF s[b + 1] = "nl" THEN N(s, b) \cup {b + 1} ELSE N(s, b)
  OBVIOUS
<1>3. b + 1 \notin N(s, b)
  OBVIOUS
<1>4. \A t : (\A k \in 1 .. b : s[k] = t[k]) => N(t, b) = N(s, b)
  OBVIOUS
<1>5. \A t, m : Newlines(t, m) = Cardinality(N(t, m))
  BY DEF Newlines
<1> HIDE DEF N
<1>6. Cardinality(N(s, b) \cup {b + 1}) = Cardinality(N(s, b)) + 1
  BY <1>1, <1>3, FS_AddElement
<1> QED
  BY <1>1, <1>2, <1>4, <1>5, <1>6

(* What the skipper has read, as Pascal reads it. *)
Meaning(s) ==
  IF s \in {"initial", "whitespace", "closed"} THEN "out"
  ELSE IF s \in {"brace", "in_brace"} THEN "{"
  ELSE IF s = "bracket" THEN "("
  ELSE IF s \in {"starred", "in_bracket"} THEN "(*"
  ELSE "(**"

SkipStates == {"initial", "whitespace", "closed", "brace", "in_brace", "bracket",
               "starred", "in_bracket", "maybe_end"}

LEMMA ReferenceTable ==
  ASSUME NEW x \in Chars
  PROVE  /\ /\ x \in Space => Reference("out", x) = "out"
            /\ x = "{" => Reference("out", x) = "{"
            /\ x = "(" => Reference("out", x) = "("
         /\ Reference("{", x) = IF x = "}" THEN "out" ELSE "{"
         /\ Reference("(", x) = IF x = "*" THEN "(*" ELSE "token"
         /\ Reference("(*", x) = IF x = "*" THEN "(**" ELSE "(*"
         /\ /\ x = ")" => Reference("(**", x) = "out"
            /\ x \notin {")", "*"} => Reference("(**", x) = "(*"
<1>1. /\ x \in Space => Reference("out", x) = "out"
      /\ x = "{" => Reference("out", x) = "{"
      /\ x = "(" => Reference("out", x) = "("
  BY ZenonT(60) DEF Reference, Space
<1>2. Reference("{", x) = IF x = "}" THEN "out" ELSE "{"
  BY ZenonT(60) DEF Reference
<1>3. Reference("(", x) = IF x = "*" THEN "(*" ELSE "token"
  BY ZenonT(60) DEF Reference
<1>4. Reference("(*", x) = IF x = "*" THEN "(**" ELSE "(*"
  BY ZenonT(60) DEF Reference
<1>5. /\ x = ")" => Reference("(**", x) = "out"
      /\ x \notin {")", "*"} => Reference("(**", x) = "(*"
  BY ZenonT(60) DEF Reference
<1> QED
  BY <1>1, <1>2, <1>3, <1>4, <1>5

LEMMA MeaningTable ==
  /\ Meaning("initial") = "out" /\ Meaning("whitespace") = "out" /\ Meaning("closed") = "out"
  /\ Meaning("brace") = "{" /\ Meaning("in_brace") = "{" /\ Meaning("bracket") = "("
  /\ Meaning("starred") = "(*" /\ Meaning("in_bracket") = "(*" /\ Meaning("maybe_end") = "(**"
BY DEF Meaning

(* The skipper passes over what Pascal does. *)
LEMMA SkipLemma ==
  ASSUME NEW s \in SkipStates, NEW x \in Chars
  PROVE  /\ Skip(s, x) # NoState => /\ Skip(s, x) \in SkipStates
                                    /\ Meaning(Skip(s, x)) = Reference(Meaning(s), x)
         /\ Skip(s, x) = "bracket" => Meaning(s) = "out" /\ x = "("
<1> DEFINE y == Skip(s, x)
           Right == /\ y # NoState => y \in SkipStates /\ Meaning(y) = Reference(Meaning(s), x)
                    /\ y = "bracket" => Meaning(s) = "out" /\ x = "("
<1>1. CASE s \in {"initial", "whitespace"}
  <2>1. /\ x \in Space => y = "whitespace"
        /\ x = "{" => y = "brace"
        /\ x = "(" => y = "bracket"
        /\ x \notin Space \cup {"{", "("} => y = NoState
    BY <1>1, ZenonT(60) DEF Skip, Space
  <2>2. /\ x \in Space => Reference("out", x) = "out"
        /\ x = "{" => Reference("out", x) = "{"
        /\ x = "(" => Reference("out", x) = "("
    BY ReferenceTable, ZenonT(60)
  <2>3. Meaning(s) = "out"
    BY <1>1, MeaningTable
  <2> HIDE DEF y
  <2>4. y # NoState => y \in SkipStates
    BY <2>1 DEF SkipStates, NoState
  <2>5. y # NoState => Meaning(y) = Reference(Meaning(s), x)
    BY <2>1, <2>2, <2>3, MeaningTable DEF NoState, Space
  <2>6. y = "bracket" => Meaning(s) = "out" /\ x = "("
    BY <2>1, <2>3 DEF NoState, Space
  <2> QED
    BY <2>4, <2>5, <2>6 DEF y
<1>2. CASE s = "closed"
  <2>1. y = IF x \in Space THEN "whitespace" ELSE NoState
    BY <1>2, ZenonT(60) DEF Skip, Space
  <2>2. x \in Space => Reference("out", x) = "out"
    BY ReferenceTable, ZenonT(60)
  <2>3. Meaning(s) = "out"
    BY <1>2, MeaningTable
  <2> HIDE DEF y
  <2>4. y # NoState => y \in SkipStates
    BY <2>1 DEF SkipStates, NoState
  <2>5. y # NoState => Meaning(y) = Reference(Meaning(s), x)
    BY <2>1, <2>2, <2>3, MeaningTable DEF NoState, Space
  <2>6. y = "bracket" => Meaning(s) = "out" /\ x = "("
    BY <2>1, <2>3 DEF NoState, Space
  <2> QED
    BY <2>4, <2>5, <2>6 DEF y
<1>3. CASE s = "brace"
  <2>1. /\ x = "}" => y = "closed"
        /\ x = "nl" => y = NoState
        /\ x \notin {"}", "nl"} => y = "in_brace"
    BY <1>3, ZenonT(60) DEF Skip, Space
  <2>2. Reference("{", x) = IF x = "}" THEN "out" ELSE "{"
    BY ReferenceTable, ZenonT(60)
  <2>3. Meaning(s) = "{"
    BY <1>3, MeaningTable
  <2> HIDE DEF y
  <2>4. y # NoState => y \in SkipStates
    BY <2>1 DEF SkipStates, NoState
  <2>5. y # NoState => Meaning(y) = Reference(Meaning(s), x)
    BY <2>1, <2>2, <2>3, MeaningTable DEF NoState, Space
  <2>6. y = "bracket" => Meaning(s) = "out" /\ x = "("
    BY <2>1, <2>3 DEF NoState, Space
  <2> QED
    BY <2>4, <2>5, <2>6 DEF y
<1>4. CASE s = "in_brace"
  <2>1. y = IF x = "}" THEN "closed" ELSE "in_brace"
    BY <1>4, ZenonT(60) DEF Skip, Space
  <2>2. Reference("{", x) = IF x = "}" THEN "out" ELSE "{"
    BY ReferenceTable, ZenonT(60)
  <2>3. Meaning(s) = "{"
    BY <1>4, MeaningTable
  <2> HIDE DEF y
  <2>4. y # NoState => y \in SkipStates
    BY <2>1 DEF SkipStates, NoState
  <2>5. y # NoState => Meaning(y) = Reference(Meaning(s), x)
    BY <2>1, <2>2, <2>3, MeaningTable DEF NoState, Space
  <2>6. y = "bracket" => Meaning(s) = "out" /\ x = "("
    BY <2>1, <2>3 DEF NoState, Space
  <2> QED
    BY <2>4, <2>5, <2>6 DEF y
<1>5. CASE s = "bracket"
  <2>1. y = IF x = "*" THEN "starred" ELSE NoState
    BY <1>5, ZenonT(60) DEF Skip, Space
  <2>2. Reference("(", x) = IF x = "*" THEN "(*" ELSE "token"
    BY ReferenceTable, ZenonT(60)
  <2>3. Meaning(s) = "("
    BY <1>5, MeaningTable
  <2> HIDE DEF y
  <2>4. y # NoState => y \in SkipStates
    BY <2>1 DEF SkipStates, NoState
  <2>5. y # NoState => Meaning(y) = Reference(Meaning(s), x)
    BY <2>1, <2>2, <2>3, MeaningTable DEF NoState, Space
  <2>6. y = "bracket" => Meaning(s) = "out" /\ x = "("
    BY <2>1, <2>3 DEF NoState, Space
  <2> QED
    BY <2>4, <2>5, <2>6 DEF y
<1>6. CASE s = "starred"
  <2>1. /\ x = "*" => y = "maybe_end"
        /\ x = "nl" => y = NoState
        /\ x \notin {"*", "nl"} => y = "in_bracket"
    BY <1>6, ZenonT(60) DEF Skip, Space
  <2>2. Reference("(*", x) = IF x = "*" THEN "(**" ELSE "(*"
    BY ReferenceTable, ZenonT(60)
  <2>3. Meaning(s) = "(*"
    BY <1>6, MeaningTable
  <2> HIDE DEF y
  <2>4. y # NoState => y \in SkipStates
    BY <2>1 DEF SkipStates, NoState
  <2>5. y # NoState => Meaning(y) = Reference(Meaning(s), x)
    BY <2>1, <2>2, <2>3, MeaningTable DEF NoState, Space
  <2>6. y = "bracket" => Meaning(s) = "out" /\ x = "("
    BY <2>1, <2>3 DEF NoState, Space
  <2> QED
    BY <2>4, <2>5, <2>6 DEF y
<1>7. CASE s = "in_bracket"
  <2>1. y = IF x = "*" THEN "maybe_end" ELSE "in_bracket"
    BY <1>7, ZenonT(60) DEF Skip, Space
  <2>2. Reference("(*", x) = IF x = "*" THEN "(**" ELSE "(*"
    BY ReferenceTable, ZenonT(60)
  <2>3. Meaning(s) = "(*"
    BY <1>7, MeaningTable
  <2> HIDE DEF y
  <2>4. y # NoState => y \in SkipStates
    BY <2>1 DEF SkipStates, NoState
  <2>5. y # NoState => Meaning(y) = Reference(Meaning(s), x)
    BY <2>1, <2>2, <2>3, MeaningTable DEF NoState, Space
  <2>6. y = "bracket" => Meaning(s) = "out" /\ x = "("
    BY <2>1, <2>3 DEF NoState, Space
  <2> QED
    BY <2>4, <2>5, <2>6 DEF y
<1>8. CASE s = "maybe_end"
  <2>1. /\ x = ")" => y = "closed"
        /\ x \in {"*", "nl"} => y = NoState
        /\ x \notin {")", "*", "nl"} => y = "in_bracket"
    BY <1>8, ZenonT(60) DEF Skip, Space
  <2>2. /\ x = ")" => Reference("(**", x) = "out"
        /\ x \notin {")", "*"} => Reference("(**", x) = "(*"
    BY ReferenceTable, ZenonT(60)
  <2>3. Meaning(s) = "(**"
    BY <1>8, MeaningTable
  <2> HIDE DEF y
  <2>4. y # NoState => y \in SkipStates
    BY <2>1 DEF SkipStates, NoState
  <2>5. y # NoState => Meaning(y) = Reference(Meaning(s), x)
    BY <2>1, <2>2, <2>3, MeaningTable DEF NoState, Space
  <2>6. y = "bracket" => Meaning(s) = "out" /\ x = "("
    BY <2>1, <2>3 DEF NoState, Space
  <2> QED
    BY <2>4, <2>5, <2>6 DEF y
<1> QED
  BY <1>1, <1>2, <1>3, <1>4, <1>5, <1>6, <1>7, <1>8 DEF SkipStates

(* What the skipper returns where it stops; Pascal may not stop there, but *)
(* outside a comment it never stops at a new line.                         *)
LEMMA SkipStops ==
  ASSUME NEW s \in SkipStates
  PROVE  /\ SkipReturns(s) = "T_ID" => Meaning(s) = "out"
         /\ SkipReturns(s) = "T_REWIND_ONE" <=> s = "bracket"
         /\ SkipReturns(s) # "T_INVALID" => s = "bracket" \/ Meaning(s) = "out"
         /\ SkipReturns(s) # "T_INVALID" /\ s # "bracket" => Skip(s, "nl") # NoState
<1>1. CASE s \in {"initial", "whitespace", "closed"}
  <2>1. Skip(s, "nl") # NoState
    <3>1. CASE s \in {"initial", "whitespace"}
      <4>1. Skip(s, "nl") = "whitespace"
        BY <3>1, ZenonT(60) DEF Skip, Space
      <4> QED
        BY <4>1 DEF NoState
    <3>2. CASE s = "closed"
      <4>1. Skip(s, "nl") = "whitespace"
        BY <3>2, ZenonT(60) DEF Skip, Space
      <4> QED
        BY <4>1 DEF NoState
    <3> QED
      BY <1>1, <3>1, <3>2
  <2> QED
    BY <1>1, <2>1 DEF SkipReturns, Meaning
<1>2. CASE s = "bracket"
  BY <1>2 DEF SkipReturns
<1>3. CASE s \in {"brace", "in_brace", "starred", "in_bracket", "maybe_end"}
  BY <1>3 DEF SkipReturns
<1> QED
  BY <1>1, <1>2, <1>3 DEF SkipStates

LEMMA RecogniseLemma ==
  ASSUME NEW s, NEW x, Recognise(s, x) # NoState
  PROVE  Recognise(s, x) = x /\ x \in {"a", "(", ")", "*"}
<1>1. CASE s = "initial" /\ x \in {"a", "(", ")", "*"}
  BY <1>1, Zenon DEF Recognise
<1>2. CASE ~ (s = "initial" /\ x \in {"a", "(", ")", "*"})
  <2>1. CASE s = "a" /\ x = "a"
    BY <1>2, <2>1, Zenon DEF Recognise
  <2>2. CASE ~ (s = "a" /\ x = "a")
    BY <1>2, <2>2, Zenon DEF Recognise
  <2> QED
    BY <2>1, <2>2
<1> QED
  BY <1>1, <1>2

(* The line counted is that of the position reached, or in a token of the  *)
(* last character taken; the bracket that the skipper may give back is the *)
(* one before the position.                                                *)
Placed ==
  /\ mode = "idle" => sm = "initial"
  /\ mode = "skip" =>
       /\ last_position = pos /\ from \in Nat /\ from <= pos /\ sm \in SkipStates
       /\ Scanned(text, from, pos) = Meaning(sm)
       /\ sm = "bracket" => /\ from < pos /\ penultimate_position + 1 = pos
                            /\ text[pos] = "(" /\ Scanned(text, from, pos - 1) = "out"
  /\ mode = "skipped" => \/ pos < Len(text) /\ text[pos + 1] # "nl"
                         \/ ended /\ pos = Len(text)
  /\ mode = "token" => /\ f_line = 1 + Newlines(text, last_position)
                       /\ c # EOF => last_position = pos \/ last_position + 1 = pos
  /\ mode # "token" => f_line = 1 + Newlines(text, pos)
  /\ OnlyNontokensSkipped

(* What was read stays as it was. *)
LEMMA TextGrows ==
  ASSUME TypeOK, NEW x, Fgetc(x), NEW p \in 0 .. Len(text)
  PROVE  /\ Newlines(text', p) = Newlines(text, p)
         /\ \A a \in Nat : a <= p => Scanned(text', a, p) = Scanned(text, a, p)
<1>1. /\ \A k \in 1 .. Len(text) : text'[k] = text[k]
      /\ Len(text) \in Nat
  BY FgetcLemma DEF TypeOK
<1>2. p \in Nat /\ \A k \in 1 .. p : text[k] = text'[k]
  BY <1>1
<1>3. Newlines(text', p) = Newlines(text, p)
  BY <1>2, NewlinesLemma
<1>4. ASSUME NEW a \in Nat, a <= p
      PROVE  Scanned(text', a, p) = Scanned(text, a, p)
  <2>1. \A k \in a + 1 .. p : text[k] = text'[k]
    BY <1>2
  <2> QED
    BY <1>2, <1>4, <2>1, ScannedLemma
<1> QED
  BY <1>3, <1>4

LEMMA PlacedSkip ==
  ASSUME Inv, Placed, NEW x \in Chars, SkipCharacter(x)
  PROVE  Placed'
<1>1. /\ mode = "skip" /\ mode' = "skip" /\ Fgetc(x) /\ x # EOF /\ Skip(sm, x) # NoState
      /\ sm' = Skip(sm, x) /\ CountLine(x) /\ pos' = pos + 1
      /\ penultimate_position' = last_position /\ last_position' = pos + 1 /\ from' = from
  BY DEF SkipCharacter
<1>2. /\ TypeOK /\ pos \in Nat /\ pos \in 0 .. Len(text) /\ f_line \in Nat
      /\ last_position = pos /\ from \in Nat /\ from <= pos /\ sm \in SkipStates
      /\ Scanned(text, from, pos) = Meaning(sm)
      /\ f_line = 1 + Newlines(text, pos)
  BY <1>1 DEF Inv, TypeOK, Placed
<1>3. text'[pos + 1] = x
  BY <1>1, <1>2, FgetcLemma DEF TypeOK
<1>4. /\ Skip(sm, x) \in SkipStates /\ Meaning(Skip(sm, x)) = Reference(Meaning(sm), x)
      /\ Skip(sm, x) = "bracket" => Meaning(sm) = "out" /\ x = "("
  BY <1>1, <1>2, SkipLemma
<1>5. Scanned(text', from, pos) = Meaning(sm) /\ Newlines(text', pos) = Newlines(text, pos)
  BY <1>1, <1>2, TextGrows
<1>6. Scanned(text', from, pos + 1) = Meaning(sm')
  <2>1. Scanned(text', from, pos + 1) = Reference(Scanned(text', from, pos), text'[pos + 1])
    BY <1>2, ScannedLemma
  <2> QED
    BY <1>1, <1>3, <1>4, <1>5, <2>1
<1>7. f_line' = 1 + Newlines(text', pos + 1)
  <2>1. Newlines(text', pos + 1) = IF x = "nl" THEN Newlines(text', pos) + 1 ELSE Newlines(text', pos)
    BY <1>2, <1>3, NewlinesLemma
  <2>2. Newlines(text', pos) \in Nat
    BY <1>2, NewlinesLemma
  <2> QED
    BY <1>1, <1>2, <1>5, <2>1, <2>2 DEF CountLine
<1>8. sm' = "bracket" => /\ from' < pos' /\ penultimate_position' + 1 = pos'
                         /\ text'[pos'] = "(" /\ Scanned(text', from', pos' - 1) = "out"
  <2>1. pos' - 1 = pos /\ from' < pos'
    BY <1>1, <1>2
  <2> QED
    BY <1>1, <1>2, <1>3, <1>4, <1>5, <2>1
<1>9. from' <= pos'
  BY <1>1, <1>2
<1> QED
  BY <1>1, <1>2, <1>4, <1>6, <1>7, <1>8, <1>9 DEF Placed, OnlyNontokensSkipped

LEMMA PlacedSkipped ==
  ASSUME Inv, Placed, NEW x \in Chars, SkipDone(x)
  PROVE  Placed'
<1>1. /\ mode = "skip" /\ Fgetc(x) /\ x # EOF /\ Skip(sm, x) = NoState
      /\ pos' = SkipEnd(sm)
      /\ mode' = IF SkipReturns(sm) = "T_INVALID" THEN "invalid" ELSE "skipped"
      /\ f_line' = f_line /\ from' = from
  BY DEF SkipDone
<1>2. /\ TypeOK /\ pos \in Nat /\ pos \in 0 .. Len(text) /\ f_line \in Nat
      /\ last_position = pos /\ from \in Nat /\ from <= pos /\ sm \in SkipStates
      /\ Scanned(text, from, pos) = Meaning(sm)
      /\ sm = "bracket" => /\ from < pos /\ penultimate_position + 1 = pos
                           /\ text[pos] = "(" /\ Scanned(text, from, pos - 1) = "out"
      /\ f_line = 1 + Newlines(text, pos)
      /\ Len(text) \in Nat
  BY <1>1, LenProperties DEF Inv, TypeOK, Placed
<1>3. /\ text'[pos + 1] = x /\ pos + 1 <= Len(text') /\ Len(text') \in Nat
      /\ \A k \in 1 .. Len(text) : text'[k] = text[k]
  BY <1>1, <1>2, FgetcLemma DEF TypeOK
<1>4. CASE sm = "bracket"
  <2>1. SkipReturns(sm) = "T_REWIND_ONE"
    BY <1>2, <1>4, SkipStops
  <2>2. /\ pos' = penultimate_position /\ penultimate_position \in Nat
        /\ pos' = pos - 1 /\ pos' \in Nat /\ pos' + 1 = pos
        /\ pos' \in 0 .. Len(text) /\ from <= pos' /\ pos \in 1 .. Len(text)
    BY <1>1, <1>2, <1>4, <2>1 DEF SkipEnd, TypeOK
  <2>3. mode' = "skipped"
    BY <1>1, <2>1
  <2>4. Scanned(text', from', pos') = "out"
    BY <1>1, <1>2, <1>4, <2>2, TextGrows
  <2>5. pos' < Len(text') /\ text'[pos' + 1] # "nl"
    BY <1>2, <1>3, <1>4, <2>2
  <2>6. f_line' = 1 + Newlines(text', pos')
    <3>1. Newlines(text, pos) = Newlines(text, pos')
      BY <1>2, <1>4, <2>2, NewlinesLemma
    <3>2. Newlines(text', pos') = Newlines(text, pos')
      BY <1>1, <1>2, <2>2, TextGrows
    <3> QED
      BY <1>1, <1>2, <3>1, <3>2
  <2> QED
    BY <2>3, <2>4, <2>5, <2>6 DEF Placed, OnlyNontokensSkipped
<1>5. CASE sm # "bracket"
  <2>1. pos' = pos
    BY <1>1, <1>2, <1>5, SkipStops DEF SkipEnd
  <2>2. f_line' = 1 + Newlines(text', pos')
    BY <1>1, <1>2, <2>1, TextGrows
  <2>3. ASSUME mode' = "skipped"
        PROVE  /\ pos' < Len(text') /\ text'[pos' + 1] # "nl"
               /\ Scanned(text', from', pos') = "out"
    <3>1. SkipReturns(sm) # "T_INVALID"
      BY <1>1, <2>3
    <3>2. Meaning(sm) = "out" /\ Skip(sm, "nl") # NoState
      BY <1>2, <1>5, <3>1, SkipStops
    <3>3. x # "nl"
      BY <1>1, <3>2
    <3>4. Scanned(text', from, pos) = "out"
      BY <1>1, <1>2, <3>2, TextGrows
    <3> QED
      BY <1>1, <1>2, <1>3, <2>1, <3>3, <3>4
  <2>4. mode' \in {"skipped", "invalid"}
    BY <1>1
  <2> QED
    BY <2>2, <2>3, <2>4 DEF Placed, OnlyNontokensSkipped
<1> QED
  BY <1>4, <1>5

LEMMA PlacedEof ==
  ASSUME Inv, Placed, SkipEof \/ TokenEof
  PROVE  Placed'
<1>1. /\ Fgetc(EOF) /\ pos' = pos /\ f_line' = f_line /\ from' = from /\ sm' = sm
      /\ mode \in {"skip", "skipped"} /\ mode' \in {"skipped", "invalid", "eof"}
  BY DEF SkipEof, TokenEof
<1>2. /\ TypeOK /\ pos \in Nat /\ pos \in 0 .. Len(text) /\ f_line = 1 + Newlines(text, pos)
      /\ text \in Seq(Chars) /\ Len(text) \in Nat
  BY <1>1, LenProperties DEF Inv, TypeOK, Placed
<1>3. text' = text /\ ended' = TRUE /\ pos = Len(text)
  <2>1. \A k \in 1 .. Len(text) : text[k] # EOF
    <3>1. \A k \in 1 .. Len(text) : text[k] \in Chars
      BY <1>2, ElementOfSeq
    <3> QED
      BY <3>1 DEF Chars, Space, EOF
  <2>2. ~ (pos < Len(text))
    <3>1. pos < Len(text) => text[pos + 1] = EOF /\ pos + 1 \in 1 .. Len(text)
      BY <1>1, <1>2 DEF Fgetc
    <3> QED
      BY <2>1, <3>1
  <2>3. EOF \notin Chars
    BY DEF EOF, Chars, Space
  <2> QED
    BY <1>1, <1>2, <2>2, <2>3 DEF Fgetc
<1>4. f_line' = 1 + Newlines(text', pos')
  BY <1>1, <1>2, <1>3
<1>5. ASSUME mode' = "skipped"
      PROVE  OnlyNontokensSkipped'
  <2>1. mode = "skip" /\ SkipReturns(sm) # "T_INVALID"
    BY <1>1, <1>5 DEF SkipEof, TokenEof
  <2>2. sm \in SkipStates /\ Scanned(text, from, pos) = Meaning(sm)
    BY <2>1 DEF Placed
  <2>3. Meaning(sm) = "out" \/ Meaning(sm) = "("
    BY <2>1, <2>2, SkipStops, MeaningTable
  <2> QED
    BY <1>1, <1>3, <2>2, <2>3 DEF OnlyNontokensSkipped
<1> QED
  BY <1>1, <1>3, <1>4, <1>5 DEF Placed, OnlyNontokensSkipped

LEMMA PlacedToken ==
  ASSUME Inv, Placed,
         \/ \E x \in Chars : TokenStart(x)
         \/ \E x \in Chars \cup {EOF} : TokenCharacter(x)
  PROVE  Placed'
<1>1. /\ TypeOK /\ pos \in Nat /\ pos \in 0 .. Len(text) /\ Len(text) \in Nat
      /\ f_line \in Nat /\ last_position \in Nat
  BY LenProperties DEF Inv, TypeOK
<1>2. ASSUME NEW x \in Chars, TokenStart(x)
      PROVE  Placed'
  <2>1. /\ mode = "skipped" /\ mode' = "token" /\ x # EOF /\ Fgetc(x)
        /\ pos' = pos + 1 /\ last_position' = pos + 1 /\ f_line' = f_line
    BY <1>2 DEF TokenStart
  <2>2. x # "nl"
    <3>1. \/ pos < Len(text) /\ text[pos + 1] # "nl"
          \/ ended /\ pos = Len(text)
      BY <2>1 DEF Placed
    <3>2. CASE pos < Len(text) /\ text[pos + 1] # "nl"
      BY <2>1, <3>2 DEF Fgetc
    <3>3. CASE ended /\ pos = Len(text)
      <4>1. ~ (pos < Len(text))
        BY <1>1, <3>3
      <4>2. x = EOF \/ ~ ended
        BY <2>1, <4>1, Zenon DEF Fgetc
      <4> QED
        BY <2>1, <3>3, <4>2
    <3> QED
      BY <3>1, <3>2, <3>3
  <2>3. text'[pos + 1] = x
    BY <1>1, <2>1, FgetcLemma DEF TypeOK
  <2>4. f_line = 1 + Newlines(text, pos)
    BY <2>1 DEF Placed
  <2>5. Newlines(text', pos + 1) = Newlines(text', pos) /\ Newlines(text', pos) = Newlines(text, pos)
    BY <1>1, <2>1, <2>2, <2>3, NewlinesLemma, TextGrows
  <2> QED
    BY <2>1, <2>4, <2>5 DEF Placed, OnlyNontokensSkipped
<1>3. ASSUME NEW x \in Chars \cup {EOF}, TokenCharacter(x)
      PROVE  Placed'
  <2>1. /\ mode = "token" /\ mode' = "token" /\ Fgetc(x) /\ CountLine(c) /\ c' = x
        /\ Recognise(sm, c) # NoState
        /\ pos' = (IF x = EOF THEN pos ELSE pos + 1) /\ last_position' = pos
    BY <1>3 DEF TokenCharacter
  <2>2. c \in {"a", "(", ")", "*"} /\ c # EOF /\ c # "nl"
    <3>1. c \in {"a", "(", ")", "*"}
      BY <2>1, RecogniseLemma
    <3> QED
      BY <3>1 DEF EOF
  <2>3. /\ pos \in 1 .. Len(text) /\ text[pos] = c
        /\ last_position = pos \/ last_position + 1 = pos
        /\ f_line = 1 + Newlines(text, last_position)
    BY <2>1, <2>2 DEF Inv, InHand, Placed
  <2>4. Newlines(text, last_position) = Newlines(text, pos)
    BY <1>1, <2>2, <2>3, NewlinesLemma
  <2>5. Newlines(text', pos) = Newlines(text, pos)
    BY <1>1, <2>1, TextGrows
  <2>6. f_line' = f_line
    BY <2>1, <2>2 DEF CountLine
  <2>7. c' # EOF => last_position' + 1 = pos'
    BY <2>1
  <2> QED
    BY <2>1, <2>3, <2>4, <2>5, <2>6, <2>7 DEF Placed, OnlyNontokensSkipped
<1> QED
  BY <1>2, <1>3

LEMMA PlacedStep == Inv /\ Placed /\ [Next]_vars => Placed'
<1> SUFFICES ASSUME Inv, Placed, [Next]_vars PROVE Placed'
  OBVIOUS
<1>1. CASE Yylex
  <2>1. /\ mode = "idle" /\ mode' = "skip" /\ last_position' = pos /\ from' = pos
        /\ UNCHANGED <<text, pos, sm, f_line>>
    BY <1>1 DEF Yylex
  <2>2. pos \in Nat /\ sm = "initial" /\ f_line = 1 + Newlines(text, pos)
    BY <2>1 DEF Inv, TypeOK, Placed
  <2>3. Scanned(text, pos, pos) = Meaning(sm) /\ sm \in SkipStates
    BY <2>2, ScannedLemma, MeaningTable DEF SkipStates
  <2>4. pos <= pos
    BY <2>2
  <2> QED
    BY <2>1, <2>2, <2>3, <2>4 DEF Placed, OnlyNontokensSkipped
<1>2. CASE TokenDone
  <2>1. /\ mode = "token" /\ mode' \in {"invalid", "idle"} /\ pos' = last_position
        /\ sm' = "initial" /\ text' = text /\ f_line' = f_line
    BY <1>2 DEF TokenDone, TokenEnd
  <2>2. f_line = 1 + Newlines(text, last_position)
    BY <2>1 DEF Placed
  <2> QED
    BY <2>1, <2>2 DEF Placed, OnlyNontokensSkipped
<1>3. CASE UNCHANGED vars
  BY <1>3 DEF vars, Placed, OnlyNontokensSkipped
<1> QED
  BY <1>1, <1>2, <1>3, PlacedSkip, PlacedSkipped, PlacedEof, PlacedToken DEF Next

LEMMA PlacedInit == Init => Placed
<1> SUFFICES ASSUME Init PROVE Placed
  OBVIOUS
<1>1. mode = "idle" /\ sm = "initial" /\ pos = 0 /\ f_line = 1
  BY DEF Init
<1>2. Newlines(text, 0) = 0
  <2>1. {k \in 1 .. 0 : text[k] = "nl"} = {}
    OBVIOUS
  <2> QED
    BY <2>1, FS_EmptySet DEF Newlines
<1> QED
  BY <1>1, <1>2 DEF Placed, OnlyNontokensSkipped

-----------------------------------------------------------------------------
LEMMA InvAlways == Spec => []Inv
<1> QED
  BY InvInit, InvStep, PTL DEF Spec

(* However the scanner reads ahead and gives characters back, the position *)
(* it seeks to is within what it read, in files of every length.           *)
THEOREM PositionsInFile == Spec => []TypeOK
<1>1. Inv => TypeOK
  BY DEF Inv
<1> QED
  BY <1>1, InvAlways, PTL

(* The buffer has room for the next character, and for the zero behind the *)
(* last, in lexemes of every length.                                       *)
THEOREM LexemeInBuffer == Spec => []LexemeFits
<1>1. Inv => LexemeFits
  BY DEF Inv
<1> QED
  BY <1>1, InvAlways, PTL

(* The parser is given equal numbers for equal names and for these only,   *)
(* and the table that numbers them is never written past its end, with any *)
(* number of names of any length.                                          *)
THEOREM NamesKnown == Spec => []NamesNumbered
<1>1. Numbered => NamesNumbered
  BY DEF Numbered
<1> QED
  BY <1>1, InvAlways, NumberedInit, NumberedStep, PTL DEF Spec

(* However far the scanner reads ahead, through comments, tokens and the   *)
(* bracket it gives back, the line it reports is that of its position.     *)
THEOREM LinesRight == Spec => []LinesCounted
<1>1. Placed => LinesCounted
  BY DEF Placed, LinesCounted
<1> QED
  BY <1>1, InvAlways, PlacedInit, PlacedStep, PTL DEF Spec

(* In files of every length and with comments of every kind, what is       *)
(* passed over between two tokens is white space and whole comments.       *)
THEOREM SkippedRight == Spec => []OnlyNontokensSkipped
<1>1. Placed => OnlyNontokensSkipped
  BY DEF Placed
<1> QED
  BY <1>1, InvAlways, PlacedInit, PlacedStep, PTL DEF Spec

=============================================================================
