----------------------------- MODULE HoistTerms -----------------------------
(***************************************************************************)
(* What src/hoist.cpp promises, as a function on whole terms: functions    *)
(* and blocks in the order of the walk, with the names it draws.  The body *)
(* of a block is the sequence of its nodes; the last of them is the only   *)
(* one that has children, the jumps of an IfExp.                           *)
(***************************************************************************)
EXTENDS Anf, SequencesExt

Hoisted(body, blocks, fns, c) ==
    [body |-> body, blocks |-> blocks, fns |-> fns, counter |-> c]

Block(name, slot, body) == [name |-> name, slot |-> slot, body |-> body]

RECURSIVE Hoisting(_, _)
\* Term t hoisted, the counter at c.
Hoisting(t, c) ==
    CASE t.tag \in {"Halt", "Jump"} -> Hoisted(<<t>>, <<>>, <<>>, c)
      [] t.tag = "Fun" ->
            LET in   == Hoisting(t.kids[1], c)
                rest == Hoisting(t.kids[2], in.counter + 1)
                f    == [name |-> t.name, params |-> t.params,
                         entry |-> Block(EntryName(in.counter), <<>>, in.body),
                         blocks |-> in.blocks]
            IN  [rest EXCEPT !.fns = Append(in.fns, f) \o @]
      [] t.tag = "Join" ->
            LET in   == Hoisting(t.kids[1], c)
                rest == Hoisting(t.kids[2], in.counter)
            IN  [rest EXCEPT !.fns = in.fns \o @,
                    !.blocks = Append(in.blocks, Block(t.name, t.params, in.body)) \o @]
      [] t.tag = "If" ->
            LET first  == Hoisting(t.kids[1], c)
                second == Hoisting(t.kids[2], first.counter)
                then   == ThenName(second.counter)
                els    == ElseName(second.counter + 1)
            IN  Hoisted(<<[t EXCEPT !.kids = <<JumpExp(then, <<>>), JumpExp(els, <<>>)>>]>>,
                        first.blocks \o second.blocks
                          \o <<Block(then, <<>>, first.body), Block(els, <<>>, second.body)>>,
                        first.fns \o second.fns, second.counter + 2)
      [] t.tag \in {"App", "Bop", "Tuple", "Proj"} ->
            LET rest == Hoisting(t.kids[1], c)
            IN  [rest EXCEPT !.body = <<[t EXCEPT !.kids = <<>>]>> \o @]

\* The functions that hoist makes of term t.
HoistedFunctions(t) ==
    Hoisting(FunExp(Name("main", <<>>), <<>>, t, HaltExp(IntValue(0))), 0).fns
=============================================================================
