---------------------------- MODULE AnfRefinement ----------------------------
(***************************************************************************)
(* The claim that convertDefunc, which was derived from the recursive      *)
(* conversion by hand, makes the same term with the same names, and that   *)
(* the term means what the program means.                                  *)
(***************************************************************************)
EXTENDS AnfDefunc, AnfConvert, Meaning

VARIABLE counter0      \* the counter when convertDefunc was called

ConvertInit == Init /\ counter0 = counter
ConvertSpec == ConvertInit /\ [][Next /\ UNCHANGED counter0]_<<vars, counter0>>
                  /\ WF_<<vars, counter0>>(Next /\ UNCHANGED counter0)

(***************************************************************************)
(* convertDefunc returns the term convert returns, name for name, and      *)
(* leaves the counter where convert leaves it; and it throws where convert *)
(* throws, if not at once: convert looks at the function before it         *)
(* converts the argument, convertDefunc does so after.                     *)
(***************************************************************************)
MatchesConvert ==
    LET result == Convert(prog, Root, HaltC, counter0)
    IN  /\ status = "done" => result = Result(Term(heap, k2Exp), counter)
        /\ status = "thrown" => result.thrown

(***************************************************************************)
(* The result computes what the program computes.                          *)
(***************************************************************************)
PreservesMeaning ==
    status = "done" =>
        Observe(RunTerm(Term(heap, k2Exp), EmptyMap, EmptyMap, TRUE))
            = Observe(Run(prog, Root, EmptyMap))
=============================================================================
