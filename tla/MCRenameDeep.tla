---------------------------- MODULE MCRenameDeep ----------------------------
(***************************************************************************)
(* Rename over programs nested so deep that the counter reaches two        *)
(* digits: eleven parameters, each x or x1, around a variable.             *)
(***************************************************************************)
EXTENDS Rename

G == INSTANCE AstGen

Depth == 11

x  == Name("x", <<>>)
x1 == Name("x", <<1>>)

RECURSIVE Chain(_, _)
\* fn ps[i] => ... => e
Chain(i, ps) == IF i > Depth THEN G!VarT(ps[1]) ELSE G!LamT(ps[i], Chain(i + 1, ps))

\* All of them, and those where one parameter differs from the others.
DeepPrograms == {G!ToProg(Chain(1, ps)) : ps \in [1..Depth -> {x, x1}]}

OddTrees ==
    {Chain(1, [i \in 1..Depth |-> IF i = odd THEN xs[1] ELSE xs[2]]) :
        odd \in 1..Depth, xs \in {<<x, x1>>, <<x1, x>>}}
=============================================================================
