------------------------------- MODULE Names -------------------------------
(***************************************************************************)
(* Identifiers, and the fresh names the passes make out of them.           *)
(*                                                                         *)
(* An identifier of the lexer is letters followed by letters or digits.    *)
(* Every pass that needs a new one appends a counter in decimal to a       *)
(* prefix, so what matters of an identifier is the part up to its last     *)
(* letter (base) and its trailing digits.  Two identifiers are the same    *)
(* C++ string exactly when both parts are equal.                           *)
(***************************************************************************)
EXTENDS Integers, Sequences, FiniteSets

Digit == 0..9

\* The strings the passes make names from.  (The prover does not know what a string is.)
Stems == {"", "tmp", "closure", "proj", "entry", "then", "else", "main"}

ASSUME StemsAssumption == Stems \subseteq STRING

Ident == [base : STRING, digits : Seq(Digit)]

Name(base, digits) == [base |-> base, digits |-> digits]

\* The name of a node that stores no string.
NoName == Name("", <<>>)

-----------------------------------------------------------------------------
(***************************************************************************)
(* std::to_string of a counter.  The counters are C++ ints, so a numeral   *)
(* has at most ten digits.                                                 *)
(***************************************************************************)
IntMax == 2147483647

Pow10 == <<1, 10, 100, 1000, 10000, 100000, 1000000, 10000000, 100000000,
           1000000000>>

Width(c) == 1 + Cardinality({j \in 2..10 : Pow10[j] <= c})

Decimal(c) == [i \in 1..Width(c) |-> (c \div Pow10[Width(c) - i + 1]) % 10]

\* fresh(name): the prefix, then the counter.
Fresh(prefix, c) == Name(prefix.base, prefix.digits \o Decimal(c))
=============================================================================
