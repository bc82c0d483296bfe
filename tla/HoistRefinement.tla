--------------------------- MODULE HoistRefinement ---------------------------
(***************************************************************************)
(* The functions that hoisting collects are those of the definition by     *)
(* recursion on terms, and they mean what the term meant.                  *)
(***************************************************************************)
EXTENDS Hoist, Meaning

Reference == INSTANCE HoistTerms

Before == Term(input, Len(input))

\* A block and a function with terms in place of the addresses of their bodies.
Block(j) == [j EXCEPT !.body = Term(heap, j.body)]

After ==
    [i \in 1..Len(collected) |->
        [collected[i] EXCEPT
            !.entry  = Block(@),
            !.blocks = [m \in 1..Len(@) |-> Block(@[m])]]]

\* The nodes of a block in a row; an IfExp keeps its jumps.
RECURSIVE Straight(_)
Straight(t) ==
    IF Len(t.kids) = 1 THEN <<[t EXCEPT !.kids = <<>>]>> \o Straight(t.kids[1])
    ELSE <<t>>

StraightBlock(b) == [b EXCEPT !.body = Straight(@)]

(***************************************************************************)
(* The walk, which moves bodies out of the tree below its own tasks, makes *)
(* the functions that hoisting is defined to make, block for block.        *)
(***************************************************************************)
MatchesReference ==
    status = "done" =>
        Reference!HoistedFunctions(Before) =
            [i \in 1..Len(After) |->
                [After[i] EXCEPT !.entry = StraightBlock(@),
                                 !.blocks = [m \in 1..Len(@) |-> StraightBlock(@[m])]]]

(***************************************************************************)
(* main computes what the term computed.                                   *)
(***************************************************************************)
PreservesMeaning ==
    status = "done" =>
        LET main == CHOOSE f \in Range(After) : f.name = Main
        IN  Observe(RunCode(After, main, main.entry.body, EmptyMap))
                = Observe(RunTerm(Before, EmptyMap, EmptyMap, FALSE))
=============================================================================
