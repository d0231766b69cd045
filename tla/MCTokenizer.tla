---------------------------- MODULE MCTokenizer ----------------------------
(***************************************************************************)
(* Tokenizer with the tables of lexer/token.c.                             *)
(***************************************************************************)
EXTENDS Tokenizer

Entry(token, type) == [token |-> token, type |-> type]

MCtokens == <<
  Entry(<<":", "=">>, "T_ASSIGN"), Entry(<<"+">>, "T_PLUS"),
  Entry(<<"+", "=">>, "T_PLUS_EQ"), Entry(<<"-">>, "T_MINUS"),
  Entry(<<"-", "=">>, "T_MINUS_EQ"), Entry(<<"*">>, "T_TIMES"),
  Entry(<<"*", "=">>, "T_TIMES_EQ"), Entry(<<"/">>, "T_DIVIDE"),
  Entry(<<"/", "=">>, "T_DIVIDE_EQ"), Entry(<<"<", "=">>, "T_LEQ"),
  Entry(<<">", "=">>, "T_GEQ"), Entry(<<">">>, "T_GT"),
  Entry(<<"<">>, "T_LT"), Entry(<<"<", ">">>, "T_DIF"),
  Entry(<<"=">>, "T_EQ"), Entry(<<";">>, "T_SEMICOLON"),
  Entry(<<":">>, "T_COLON"), Entry(<<".">>, "T_PERIOD"),
  Entry(<<".", ".">>, "T_DOUBLE_PERIOD"), Entry(<<"(">>, "T_LBRACKET"),
  Entry(<<")">>, "T_RBRACKET"), Entry(<<",">>, "T_COMMA") >>

MCkeywords == <<
  Entry(<<"p", "r", "o", "g", "r", "a", "m">>, "T_PROGRAM"),
  Entry(<<"p", "r", "o", "c", "e", "d", "u", "r", "e">>, "T_PROCEDURE"),
  Entry(<<"b", "e", "g", "i", "n">>, "T_BEGIN"),
  Entry(<<"e", "n", "d">>, "T_END"), Entry(<<"i", "f">>, "T_IF"),
  Entry(<<"e", "l", "s", "e">>, "T_ELSE"),
  Entry(<<"w", "h", "i", "l", "e">>, "T_WHILE"), Entry(<<"d", "o">>, "T_DO"),
  Entry(<<"d", "i", "v">>, "T_DIV"), Entry(<<"m", "o", "d">>, "T_MOD"),
  Entry(<<"a", "n", "d">>, "T_AND"), Entry(<<"o", "r">>, "T_OR"),
  Entry(<<"n", "o", "t">>, "T_NOT"), Entry(<<"v", "a", "r">>, "T_VAR"),
  Entry(<<"i", "n", "t", "e", "g", "e", "r">>, "T_INTEGER"),
  Entry(<<"b", "o", "o", "l", "e", "a", "n">>, "T_BOOLEAN"),
  Entry(<<"r", "e", "a", "l">>, "T_REAL"),
  Entry(<<"c", "o", "n", "s", "t">>, "T_CONST"),
  Entry(<<"r", "e", "p", "e", "a", "t">>, "T_REPEAT"),
  Entry(<<"u", "n", "t", "i", "l">>, "T_UNTIL"), Entry(<<"i", "f">>, "T_IF"),
  Entry(<<"t", "h", "e", "n">>, "T_THEN"),
  Entry(<<"e", "l", "s", "e">>, "T_ELSE"), Entry(<<"f", "o", "r">>, "T_FOR"),
  Entry(<<"t", "o">>, "T_TO"),
  Entry(<<"t", "r", "u", "e">>, "T_BOOLEAN_CONST"),
  Entry(<<"f", "a", "l", "s", "e">>, "T_BOOLEAN_CONST") >>

=============================================================================
