------------------------------- MODULE MCLower -------------------------------
(***************************************************************************)
(* Lowering of the hoisted functions of programs with at most seven nodes, *)
(* of functions that capture up to two variables, and of nested ifs.       *)
(***************************************************************************)
EXTENDS LowerRefinement

X == INSTANCE AnfInputs WITH Variables <- {Name("x", <<>>)}
C == INSTANCE ClosureTerms
H == INSTANCE HoistTerms

MCInputs ==
    {H!HoistedFunctions(C!ClosureConverted(t, 0).term) :
        t \in X!Terms(X!Upto7 \cup X!Capturing \cup X!Branching, 8)}
=============================================================================
