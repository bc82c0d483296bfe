------------------------------ MODULE MCRename ------------------------------
(***************************************************************************)
(* Rename over every program of at most five nodes built from two          *)
(* variables, one integer and one operator (closed and open, shadowing,    *)
(* siblings with the same parameter), and over deep programs.              *)
(***************************************************************************)
EXTENDS MCRenameDeep

y == Name("y", <<>>)

E1 == G!Leaves({x, y}, {1})
E2 == G!Grow(<<E1>>, {x, y}, {"Plus"})
E3 == G!Grow(<<E1, E2>>, {x, y}, {"Plus"})
E4 == G!Grow(<<E1, E2, E3>>, {x, y}, {"Plus"})
E5 == G!Grow(<<E1, E2, E3, E4>>, {x, y}, {"Plus"})

Asts == {G!ToProg(e) : e \in UNION {E1, E2, E3, E4, E5, OddTrees}}
MCPrograms == Asts
=============================================================================
