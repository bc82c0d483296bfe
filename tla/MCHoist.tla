------------------------------- MODULE MCHoist -------------------------------
(***************************************************************************)
(* Hoisting of the converted terms of programs with at most seven nodes,   *)
(* of functions that capture up to two variables, and of nested ifs.       *)
(***************************************************************************)
EXTENDS HoistRefinement

X == INSTANCE AnfInputs WITH Variables <- {Name("x", <<>>)}
C == INSTANCE ClosureTerms

MCInputs ==
    {X!Layout(C!ClosureConverted(t, 0).term, 0) : t \in X!Terms(X!Upto7 \cup X!Capturing \cup X!Branching, 8)}

\* The programs of the check reach hoisting with names that are apart and jumps that lead
\* to a join point of their function.
ASSUME HoistableAssumption == \A h \in MCInputs : Hoistable(h)
=============================================================================
