-------------------------- MODULE ClosureRefinement --------------------------
(***************************************************************************)
(* What closure conversion is for: the functions of its result need        *)
(* nothing from outside, and they compute what they did.                   *)
(***************************************************************************)
EXTENDS ClosureConvert, Meaning

Reference == INSTANCE ClosureTerms

Before == Term(input, Len(input))
After  == Term(heap, root)

(***************************************************************************)
(* The walk, which wraps, replaces and frees nodes behind and ahead of     *)
(* itself, makes the term that closure conversion is defined to make, name *)
(* for name.                                                               *)
(***************************************************************************)
MatchesReference ==
    status = "done" =>
        Reference!Converted(After, counter) = Reference!ClosureConverted(Before, 0)

(***************************************************************************)
(* The converted term, in which functions see their parameters only,       *)
(* computes what the term computed.                                        *)
(***************************************************************************)
PreservesMeaning ==
    status = "done" =>
        Observe(RunTerm(After, EmptyMap, EmptyMap, FALSE))
            = Observe(RunTerm(Before, EmptyMap, EmptyMap, TRUE))
=============================================================================
