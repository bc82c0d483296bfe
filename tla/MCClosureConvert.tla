-------------------------- MODULE MCClosureConvert --------------------------
(***************************************************************************)
(* Closure conversion of the terms of programs with at most seven nodes,   *)
(* of functions that capture up to two variables, and of nested ifs.       *)
(***************************************************************************)
EXTENDS ClosureRefinement

X == INSTANCE AnfInputs WITH Variables <- {Name("x", <<>>)}

MCInputs == {X!Layout(t, 0) : t \in X!Terms(X!Upto7 \cup X!Capturing \cup X!Branching, 8)}

\* The programs of the check reach the conversion as its correctness asks.
ASSUME HygienicAssumption == \A h \in MCInputs : Hygienic(h) /\ SpeltApart(h)
=============================================================================
