---------------------------- MODULE ClosureTerms ----------------------------
(***************************************************************************)
(* What src/convert.cpp promises, as functions on whole terms: the         *)
(* textbook definitions of free variables and of closure conversion, with  *)
(* the names drawn in the order of the walk.                               *)
(***************************************************************************)
EXTENDS AnfHeap

RECURSIVE FreeNames(_)
FreeNames(t) ==
    Uses(t.vals) \cup
        UNION {FreeNames(t.kids[i]) \ BoundIn(t, i) : i \in 1..Len(t.kids)}

Converted(term, c) == [term |-> term, counter |-> c]

\* body with the variables xs taken out of closure c in front of it.
Unpack(c, xs, body) ==
    FoldLeftDomain(LAMBDA e, i : ProjExp(xs[i], c, i, e), body, xs)

RECURSIVE ClosureConverted(_, _)
\* Term t converted, the counter at c.
ClosureConverted(t, c) ==
    CASE t.kids = <<>> -> Converted(t, c)
      [] t.tag = "Fun" ->
            LET xs   == SetToSeq(FreeNames(t))
                rest == ClosureConverted(t.kids[2], c + 1)
                body == ClosureConverted(t.kids[1], rest.counter)
                pack == TupleExp(t.name, <<GlobValue(t.name)>>
                           \o [i \in 1..Len(xs) |-> VarValue(xs[i])], rest.term)
            IN  Converted(FunExp(t.name, <<ClosureName(c)>> \o t.params,
                                 Unpack(ClosureName(c), xs, body.term), pack),
                          body.counter)
      [] t.tag = "App" ->
            LET rest == ClosureConverted(t.kids[1], c + 1)
                call == [t EXCEPT !.vals = <<VarValue(ProjName(c))>> \o @,
                                  !.kids = <<rest.term>>]
            IN  Converted(ProjExp(ProjName(c), t.vals[1].var, 0, call), rest.counter)
      [] Len(t.kids) = 1 /\ t.tag # "App" ->
            LET rest == ClosureConverted(t.kids[1], c)
            IN  Converted([t EXCEPT !.kids = <<rest.term>>], rest.counter)
      [] t.tag \in {"Join", "If"} ->
            LET second == ClosureConverted(t.kids[2], c)
                first  == ClosureConverted(t.kids[1], second.counter)
            IN  Converted([t EXCEPT !.kids = <<first.term, second.term>>], first.counter)
=============================================================================
