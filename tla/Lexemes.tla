------------------------------ MODULE Lexemes ------------------------------
(***************************************************************************)
(* The tokens of a text without a lexer that walks over it: where they     *)
(* start, and how far they go.                                             *)
(***************************************************************************)
EXTENDS Lexer, FiniteSets

(***************************************************************************)
(* A numeral starts where letters and figures begin, a word where they     *)
(* begin or at the first letter after figures, and a > that follows a =    *)
(* starts nothing.                                                         *)
(***************************************************************************)
StartsToken(t, i) ==
    LET before == {m \in 1..(i - 1) : \A q \in m..(i - 1) : t[q] \in AlNum}
    IN  CASE t[i] \in Space  -> FALSE
          [] t[i] \in Figure -> before = {}
          [] t[i] \in Letter -> \A m \in before : t[m] \in Figure
          [] t[i] = ">"      -> i = 1 \/ t[i - 1] # "="
          [] OTHER           -> TRUE

Starts(t) == {i \in 1..Len(t) : StartsToken(t, i)}

\* The characters from i on that are all in a set.
Longest(t, i, set) ==
    SubSeq(t, i, Max({j \in i..Len(t) : \A m \in i..j : t[m] \in set}))

Lexeme(t, i) ==
    CASE t[i] \in Figure -> [token |-> "Number", word |-> Longest(t, i, Figure)]
      [] t[i] \in Letter ->
            [token |-> Keyword(Longest(t, i, AlNum)), word |-> Longest(t, i, AlNum)]
      [] t[i] = "=" /\ CharAt(t, i + 1) = ">" -> [token |-> "Arrow", word |-> <<>>]
      [] OTHER -> [token |-> t[i], word |-> <<>>]

\* The element of a set of numbers that is the n-th in order.
Nth(S, n) == CHOOSE i \in S : Cardinality({j \in S : j <= i}) = n

Lexemes(t) ==
    LET starts == Starts(t)
    IN  [n \in 1..Cardinality(starts) |-> Lexeme(t, Nth(starts, n))]
=============================================================================
