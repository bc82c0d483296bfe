------------------------------- MODULE Lexer -------------------------------
(***************************************************************************)
(* src/lexer.cpp: characters become tokens.                                *)
(*                                                                         *)
(* The stream is the text, a sequence of characters, and never changes.    *)
(* The lexer holds one character, lastChar_: it is the one at the position *)
(* at, where 0 stands for the blank the constructor puts there and every   *)
(* position behind the text for EOF.  Beside it the lexer keeps one        *)
(* identifier and one number, those of the last token that had one.        *)
(***************************************************************************)
EXTENDS Integers, SequencesExt

CONSTANT MaxInt      \* the largest int; INT_MIN is -MaxInt - 1

ASSUME MaxIntAssumption == MaxInt \in Nat

\* The characters isspace, isalpha and isdigit accept.
Space  == {" ", "\n"}
Letter == {"a", "b", "c", "d", "e", "f", "g", "h", "i", "j", "k", "l", "m",
           "n", "o", "p", "q", "r", "s", "t", "u", "v", "w", "x", "y", "z"}
Numeral == <<"0", "1", "2", "3", "4", "5", "6", "7", "8", "9">>
Figure  == Range(Numeral)
AlNum   == Letter \cup Figure

\* A token is the name of an enumerator, or the character itself where the
\* code casts one to a Token.
Eof == "Eof"

\* The enumerators that are no characters: they are negative.
Enumerators == {Eof, "Number", "Identifier", "Fn", "Arrow", "If", "Then", "Else"}

CharAt(text, i) ==
    IF i = 0 THEN " " ELSE IF i > Len(text) THEN Eof ELSE text[i]

\* The position in_ has reached when the lexer has skipped characters of set.
Behind(text, i, set) ==
    CHOOSE j \in i..(Len(text) + 1) :
        CharAt(text, j) \notin set /\ \A m \in i..(j - 1) : CharAt(text, m) \in set

Keyword(word) ==
    CASE word = <<"f", "n">>           -> "Fn"
      [] word = <<"i", "f">>           -> "If"
      [] word = <<"t", "h", "e", "n">> -> "Then"
      [] word = <<"e", "l", "s", "e">> -> "Else"
      [] OTHER                         -> "Identifier"

(***************************************************************************)
(* strtod, and the conversion of its double to int.  Out of the range of   *)
(* int the conversion is undefined: x86 answers INT_MIN, ARM saturates.    *)
(***************************************************************************)
DigitOf(c) == (CHOOSE i \in 1..10 : Numeral[i] = c) - 1

Converted(word) ==
    LET value == FoldLeft(LAMBDA n, c : 10 * n + DigitOf(c), 0, word)
    IN  IF value <= MaxInt THEN {value} ELSE {-MaxInt - 1, MaxInt}

InitLexer == [at |-> 0, identifier |-> <<>>, number |-> 0]

(***************************************************************************)
(* getToken(): the token and the lexer afterwards, each pair that can come *)
(* out.                                                                    *)
(***************************************************************************)
GetToken(text, lexer) ==
    LET i       == Behind(text, lexer.at, Space)
        c       == CharAt(text, i)
        word    == SubSeq(text, i, Behind(text, i, AlNum) - 1)
        figures == SubSeq(text, i, Behind(text, i, Figure) - 1)
        To(j)   == [lexer EXCEPT !.at = j]
    IN  CASE c = "=" /\ CharAt(text, i + 1) = ">" ->
                {[token |-> "Arrow", lexer |-> To(i + 2)]}
          [] c \in Letter ->
                {[token |-> Keyword(word),
                  lexer |-> [To(i + Len(word)) EXCEPT !.identifier = word]]}
          [] c \in Figure ->
                {[token |-> "Number",
                  lexer |-> [To(i + Len(figures)) EXCEPT !.number = n]] : n \in Converted(figures)}
          [] c = Eof -> {[token |-> Eof, lexer |-> To(i)]}
          [] OTHER   -> {[token |-> c, lexer |-> To(i + 1)]}
=============================================================================
