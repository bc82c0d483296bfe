--------------------------- MODULE MCClosureNames ---------------------------
(***************************************************************************)
(* Closure conversion of a curried function of two parameters, one of them *)
(* called closure, that an if chooses and that is applied twice:           *)
(*     ((if c then fn a => fn b => b - a else 0) 7) 3                      *)
(***************************************************************************)
EXTENDS ClosureRefinement

x == Name("x", <<>>)
closure == Name("closure", <<>>)

X == INSTANCE AnfInputs WITH Variables <- {x}
T == INSTANCE AstGen

Difference(a, b) == T!LamT(a, T!LamT(b, T!BopT("Minus", T!VarT(b), T!VarT(a))))
Chosen(c, f)     == T!AppT(T!AppT(T!IfT(T!IntT(c), f, T!IntT(0)), T!IntT(7)), T!IntT(3))

Programs ==
    {Chosen(c, Difference(p[1], p[2])) : c \in {1, 2}, p \in {<<closure, x>>, <<x, closure>>}}

MCInputs == {X!Layout(t, 0) : t \in X!Terms(X!Renamed(Programs), 8)}
=============================================================================
