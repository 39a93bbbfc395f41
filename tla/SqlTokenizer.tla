---------------------------- MODULE SqlTokenizer ----------------------------
(***************************************************************************)
(* SQLTokenizer (src/src/sql/sql_tokenizer.cpp) as an operator from texts  *)
(* to tokens.  A text is a sequence of one-character strings; letters are  *)
(* cut down to a few, enough to spell the keywords of Keywords in          *)
(* either case.  A token is its type, its value and its position.          *)
(***************************************************************************)
EXTENDS Integers, Sequences, FiniteSets, FiniteSetsExt

CONSTANTS
    Keywords   \* a function from the keywords, in capitals, to their types

Lower  == {"o", "r"}
Letter == Lower \cup {"O", "R"}
Digit  == {"1", "2"}
Quote  == {"'", "\""}

Upper(c) == CASE c = "o" -> "O" [] c = "r" -> "R" [] OTHER -> c

Token(type, value, position) == [type |-> type, value |-> value, position |-> position]

\* peek(): the character at p, or the NUL of the code behind the end.
Peek(s, p) == IF p <= Len(s) THEN s[p] ELSE "NUL"

\* The last position of the longest run of characters of C from p on.
RunEnd(s, p, C) == Max({j \in (p - 1)..Len(s) : \A k \in p..j : s[k] \in C})

KeywordType(word) ==
    LET upper == [i \in DOMAIN word |-> Upper(word[i])]
    IN  IF upper \in DOMAIN Keywords THEN Keywords[upper] ELSE "IDENTIFIER"

ReadIdentifierOrKeyword(s, p) ==
    LET e == RunEnd(s, p, Letter \cup Digit \cup {"_"})
        word == SubSeq(s, p, e)
        type == KeywordType(word)
    IN  [token |-> Token(type, IF type = "IDENTIFIER" THEN word ELSE [i \in DOMAIN word |-> Upper(word[i])], p),
         next |-> e + 1]

\* An optional minus, digits and at most one dot.
ReadNumber(s, p) ==
    LET first == IF s[p] = "-" THEN p + 1 ELSE p
        e == Max({j \in (first - 1)..Len(s) :
                    /\ \A k \in first..j : s[k] \in Digit \cup {"."}
                    /\ Cardinality({k \in first..j : s[k] = "."}) <= 1})
        dot == \E k \in first..e : s[k] = "."
    IN  [token |-> Token(IF dot THEN "FLOAT_LIT" ELSE "INTEGER_LIT", SubSeq(s, p, e), p), next |-> e + 1]

\* Mutant: a doubled quote ends the string.
ReadStringNoEscape(s, p) ==
    LET e == Min({j \in (p + 1)..Len(s) : s[j] = s[p]} \cup {Len(s) + 1})
    IN  [token |-> Token("STRING_LIT", SubSeq(s, p + 1, e - 1), p), next |-> Min({e, Len(s)}) + 1]

\* Up to the closing quote or the end of the text; a doubled quote stands for one.
ReadString(s, p) ==
    LET rest[q \in (p + 1)..(Len(s) + 2)] ==
            IF q > Len(s) THEN [val |-> <<>>, next |-> Len(s) + 1]
            ELSE IF s[q] # s[p] THEN [rest[q + 1] EXCEPT !.val = <<s[q]>> \o @]
            ELSE IF Peek(s, q + 1) = s[p] THEN [rest[q + 2] EXCEPT !.val = <<s[p]>> \o @]
            ELSE [val |-> <<>>, next |-> q + 1]
    IN  [token |-> Token("STRING_LIT", rest[p + 1].val, p), next |-> rest[p + 1].next]

\* Operators and punctuation, the longer ones first.
SymbolType(v) ==
    CASE v = <<"<", "=">> -> "OP_LE" [] v = <<">", "=">> -> "OP_GE"
      [] v \in {<<"<", ">">>, <<"!", "=">>} -> "OP_NE"
      [] v = <<"=">> -> "OP_EQ" [] v = <<"<">> -> "OP_LT" [] v = <<">">> -> "OP_GT"
      [] v = <<"(">> -> "LPAREN" [] v = <<")">> -> "RPAREN" [] v = <<",">> -> "COMMA"
      [] v = <<";">> -> "SEMICOLON" [] v = <<"*">> -> "STAR" [] v = <<".">> -> "DOT"
      [] OTHER -> "none"

NoToken == [token |-> Token("ERROR", <<>>, 0), next |-> 0]

\* One turn of the loop in tokenize(), at a character that is not white space.
ReadToken(s, p) ==
    LET c == s[p] two == SubSeq(s, p, Min({p + 1, Len(s)})) IN
    CASE c \in Letter \cup {"_"} -> ReadIdentifierOrKeyword(s, p)
      [] c \in Digit \/ (c = "-" /\ Peek(s, p + 1) \in Digit) -> ReadNumber(s, p)
      [] c \in Quote -> ReadString(s, p)
      [] SymbolType(two) # "none" -> [token |-> Token(SymbolType(two), two, p), next |-> p + Len(two)]
      [] SymbolType(two) = "none" /\ SymbolType(<<c>>) # "none" ->
             [token |-> Token(SymbolType(<<c>>), <<c>>, p), next |-> p + 1]
      [] OTHER -> NoToken

\* tokenize(): the tokens and the end mark, or <<>> where the code throws.
Tokenize(s) ==
    LET from[p \in 1..(Len(s) + 1)] ==
            LET q == RunEnd(s, p, {" "}) + 1 IN
            IF q > Len(s) THEN <<Token("END_OF_INPUT", <<>>, Len(s) + 1)>>
            ELSE LET r == ReadToken(s, q) IN
                 IF r = NoToken \/ from[r.next] = <<>> THEN <<>> ELSE <<r.token>> \o from[r.next]
    IN  from[1]

-----------------------------------------------------------------------------
(* The other direction, for the properties.                                *)

\* A string literal for v.
Quoted(v) ==
    LET double[i \in 0..Len(v)] ==
            IF i = 0 THEN <<>>
            ELSE IF v[i] = "'" THEN double[i - 1] \o <<"'", "'">> ELSE Append(double[i - 1], v[i])
    IN  <<"'">> \o double[Len(v)] \o <<"'">>

\* Tokens written one after the other with a space between them.
Spell(tokens) ==
    LET upto[i \in 0..Len(tokens)] ==
            IF i = 0 THEN <<>>
            ELSE upto[i - 1] \o (IF tokens[i].type = "STRING_LIT" THEN Quoted(tokens[i].value)
                                 ELSE tokens[i].value) \o <<" ">>
    IN  upto[Len(tokens)]

\* What a reader of the tokens sees of them.
Reading(tokens) == [i \in DOMAIN tokens |-> <<tokens[i].type, tokens[i].value>>]
=============================================================================
