----------------------------- MODULE MCAnfDefunc ----------------------------
(***************************************************************************)
(* Both conversions over every closed program of at most seven nodes, as   *)
(* alpha renaming leaves it.                                               *)
(***************************************************************************)
EXTENDS AnfRefinement

X == INSTANCE AnfInputs WITH Variables <- {Name("x", <<>>)}
T == INSTANCE AnfInputs WITH Variables <- {Name("tmp", <<>>)}

MCPrograms == X!Upto7 \cup X!Branching
MCCounters == {8}

\* Where no parameter is spelt tmp, renaming leaves the names that NoNameBoundTwice
\* of AnfDefuncProofs asks for.
ASSUME ApartAssumption == \A p \in MCPrograms : NamesApart(p)

\* The same with at most five nodes and a variable of the spelling fresh() uses.
TmpPrograms == T!Upto5
TmpCounters == {0}
=============================================================================
