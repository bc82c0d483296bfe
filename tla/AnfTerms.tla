------------------------------ MODULE AnfTerms ------------------------------
(***************************************************************************)
(* Whole terms of the intermediate language: recursion over the heap, for  *)
(* the model checker.                                                      *)
(***************************************************************************)
EXTENDS Anf, SequencesExt

RECURSIVE Term(_, _)
\* The term at address a of heap h: its nodes with their children in place.
Term(h, a) ==
    IF a = Null THEN <<>>
    ELSE [h[a] EXCEPT !.kids = [i \in 1..Len(h[a].kids) |-> Term(h, h[a].kids[i])]]

RECURSIVE Layout(_, _)
\* The nodes of term t laid out after n other nodes, children first.
Layout(t, n) ==
    LET m     == Len(t.kids)
        first == IF m > 0 THEN Layout(t.kids[1], n) ELSE <<>>
        then  == IF m > 1 THEN Layout(t.kids[2], n + Len(first)) ELSE <<>>
        ends  == <<n + Len(first), n + Len(first) + Len(then)>>
    IN  first \o then \o <<[t EXCEPT !.kids = SubSeq(ends, 1, m)]>>
=============================================================================
