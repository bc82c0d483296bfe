----------------------------- MODULE AnfInputs -----------------------------
(***************************************************************************)
(* Small programs and their terms, for the model checker: closed programs  *)
(* of at most seven nodes, alpha renamed, and, of those that apply no      *)
(* integer literal, the conversion to A-normal form.                       *)
(***************************************************************************)
EXTENDS AnfConvert, AnfTerms

CONSTANT Variables      \* the variables in the programs

LOCAL INSTANCE AstGen

E1 == Leaves(Variables, {1})
E2 == Grow(<<E1>>, Variables, {"Minus"})
E3 == Grow(<<E1, E2>>, Variables, {"Minus"})
E4 == Grow(<<E1, E2, E3>>, Variables, {"Minus"})
E5 == Grow(<<E1, E2, E3, E4>>, Variables, {"Minus"})
E6 == Grow(<<E1, E2, E3, E4, E5>>, Variables, {"Minus"})
E7 == Grow(<<E1, E2, E3, E4, E5, E6>>, Variables, {"Minus"})

Renamed(es) == {AlphaRenamed(ToProg(e)) : e \in {e \in es : Closed(e, {})}}

Upto5 == Renamed(UNION {E1, E2, E3, E4, E5})
Upto7 == Renamed(UNION {E1, E2, E3, E4, E5, E6, E7})

(***************************************************************************)
(* Functions of three parameters that are applied to different integers,   *)
(* so that a function captures two variables and their order matters.      *)
(***************************************************************************)
x == Name("x", <<>>)
y == Name("y", <<>>)
z == Name("z", <<>>)

B1 == Leaves({x, y, z}, {1})
B2 == Grow(<<B1>>, {x}, {"Minus"})
B3 == Grow(<<B1, B2>>, {x}, {"Minus"})

Applied(e) ==
    AppT(AppT(AppT(LamT(x, LamT(y, LamT(z, e))), IntT(7)), IntT(3)), IntT(0))

Capturing == Renamed({Applied(e) : e \in B1 \cup B2 \cup B3})

(***************************************************************************)
(* Ifs as operands, as arguments, as conditions and in functions that are  *)
(* called from branches, so that join points nest across functions.        *)
(***************************************************************************)
Ifs == {IfT(IntT(c), IntT(7), IntT(3)) : c \in {0, 1}}

Chooser(v, e) == LamT(v, IfT(VarT(v), e, IntT(2)))

Branching == Renamed(
    {BopT("Minus", i, j) : i, j \in Ifs}
      \cup {IfT(i, j, IntT(5)) : i, j \in Ifs}
      \cup {AppT(Chooser(x, VarT(x)), i) : i \in Ifs}
      \cup {BopT("Times", IntT(9), AppT(Chooser(x, AppT(Chooser(y, VarT(x)), j)), i)) :
                i, j \in Ifs}
      \cup {AppT(IfT(IntT(c), Chooser(x, i), Chooser(y, VarT(y))), IntT(c)) :
                i \in Ifs, c \in {0, 1}})

CallsInt(p) ==
    \E e \in Exps(p) : p.tag[e] = "App" /\ p.tag[p.kids[e][1]] = "Int"

\* The terms of the programs ps, the static counter starting at c.
Terms(ps, c) == {Convert(p, Root, HaltC, c).term : p \in {p \in ps : ~CallsInt(p)}}
=============================================================================
