------------------------------- MODULE MCRepl -------------------------------
(***************************************************************************)
(* The loop on texts of five kinds: characters that are tokens only        *)
(* together; all short sequences of tokens; longer ones in the shape of    *)
(* sums, functions and ifs, most of them nonsense; sessions of many inputs *)
(* with and without errors; and scripts of printed trees.                  *)
(***************************************************************************)
EXTENDS ReplRefinement

\* Pieces written one behind the other, or with blanks between them.
Joined(ps) == FlattenSeq(ps)
Spaced(ps) == FlattenSeq([i \in 1..Len(ps) |-> Append(ps[i], " ")])

fn   == <<"f", "n">>
arr  == <<"=", ">">>
if   == <<"i", "f">>
then == <<"t", "h", "e", "n">>
else == <<"e", "l", "s", "e">>
C(c) == <<c>>

Chars == {fn, C("="), C(">"), C("x"), C("2"), C(" "), C("+"), C(";")}
Words == {fn, arr, if, C("x"), C("1"), C("("), C(")"), C("+"), C("*"), C(";")}
Sums  == {C("x"), C("("), C(")"), C("+"), C("*")}

Lexical == {Joined(ps) : ps \in UNION {[1..n -> Chars] : n \in 0..4}}
Short   == {Spaced(ps) : ps \in UNION {[1..n -> Words] : n \in 1..3}}
Long    == {Spaced(ps) : ps \in [1..5 -> Sums]}

Some == {<<C("x")>>, <<C("1"), C("*"), C("2")>>, <<fn, C("x"), arr, C("x")>>, <<C("x"), C("x")>>}
More == Some \cup {<<>>, <<C("+")>>}
Shaped ==
    {Spaced(<<if>> \o c \o <<then>> \o t \o <<else>> \o e) : c, t, e \in More}
      \cup {Spaced(p \o q) : p, q \in {<<fn, C("x"), arr>> \o b : b \in Some}}
      \cup {Spaced(p \o <<o>> \o q) : p, q \in Some, o \in {C("+"), C("*"), C(";"), C("(")}}

\* Inputs that are evaluated and inputs that are abandoned half way.
Sessions == {Spaced(Joined(ps)) : ps \in [1..7 -> {<<C("1"), C(";")>>, <<C("x"), C("+"), C(")")>>}]}

x == VarExp(C("x"))
Leaf  == {x, IntExp(1), IntExp(20)}
Node2(S) == {LamExp(C("x"), e) : e \in S} \cup {AppExp(d, e) : d, e \in S}
              \cup {BopExp(b, d, e) : b \in Bops, d, e \in S}
Small == Leaf \cup Node2(Leaf)
Trees5 == Small \cup {IfExp(c, t, e) : c, t, e \in {x, LamExp(C("x"), x)}}
Scripted == {<<e>> : e \in Trees5} \cup (Small \X {IntExp(1), BopExp("Plus", IntExp(1), IntExp(1)), LamExp(C("x"), x)})

MCWritten == Scripted

Typed == UNION {Lexical, Short, Long, Shaped, Sessions, {Script(trees) : trees \in Scripted}}
MCTexts == Typed
=============================================================================
