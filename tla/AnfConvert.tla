----------------------------- MODULE AnfConvert -----------------------------
(***************************************************************************)
(* convert of src/anf.cpp: the recursive conversion to A-normal form, in   *)
(* continuation-passing style, from which convertDefunc was derived.       *)
(*                                                                         *)
(* Each lambda expression of the source is a record of what it captures    *)
(* (the continuation constructors below), and Apply holds their bodies.    *)
(***************************************************************************)
EXTENDS Ast, Anf

HaltC         == [kind |-> "Halt"]
JumpC(j)      == [kind |-> "Jump", j |-> j]
FnC(arg, c)   == [kind |-> "Fn", arg |-> arg, k |-> c]
ArgC(f, c)    == [kind |-> "Arg", f |-> f, k |-> c]
Arg1C(b, e, c) == [kind |-> "Arg1", bop |-> b, arg2 |-> e, k |-> c]
Arg2C(b, v, c) == [kind |-> "Arg2", bop |-> b, arg1 |-> v, k |-> c]
CondC(t, e, c) == [kind |-> "Cond", then |-> t, els |-> e, k |-> c]

\* What a conversion returns, or the runtime_error it ends with, and the counter.
Result(term, c) == [thrown |-> FALSE, term |-> term, counter |-> c]
Throws(c)       == [thrown |-> TRUE, counter |-> c]

\* What follows a conversion that ended with r: nothing, if it threw.
Then(r, next) == IF r.thrown THEN r ELSE next

RECURSIVE Convert(_, _, _, _), Apply(_, _, _, _)
\* ast::convert: node e of program p with continuation c, the counter at m.
Convert(p, e, c, m) ==
    LET kid == p.kids[e]
    IN  CASE p.tag[e] = "Int" -> Apply(p, c, IntValue(p.data[e]), m)
          [] p.tag[e] = "Var" -> Apply(p, c, VarValue(p.name[e]), m)
          [] p.tag[e] = "App" -> Convert(p, kid[1], FnC(kid[2], c), m)
          [] p.tag[e] = "Bop" -> Convert(p, kid[1], Arg1C(p.data[e], kid[2], c), m)
          [] p.tag[e] = "If"  -> Convert(p, kid[1], CondC(kid[2], kid[3], c), m)
          [] p.tag[e] = "Lam" ->
                LET body == Convert(p, kid[1], HaltC, m)
                    f    == Tmp(body.counter)
                    rest == Apply(p, c, VarValue(f), body.counter + 1)
                IN  Then(body, Then(rest,
                        Result(FunExp(f, <<p.name[e]>>, body.term, rest.term), rest.counter)))

\* The continuation c applied to the value v.
Apply(p, c, v, m) ==
    CASE c.kind = "Halt" -> Result(HaltExp(v), m)
      [] c.kind = "Jump" -> Result(JumpExp(c.j, <<v>>), m)
      [] c.kind = "Fn"   ->
            IF v.kind = "var" THEN Convert(p, c.arg, ArgC(v.var, c.k), m) ELSE Throws(m)
      [] c.kind = "Arg1" -> Convert(p, c.arg2, Arg2C(c.bop, v, c.k), m)
      [] c.kind = "Arg"  ->
            LET rest == Apply(p, c.k, VarValue(Tmp(m)), m + 1)
            IN  Then(rest, Result(AppExp(Tmp(m), c.f, <<v>>, rest.term), rest.counter))
      [] c.kind = "Arg2" ->
            LET rest == Apply(p, c.k, VarValue(Tmp(m)), m + 1)
            IN  Then(rest, Result(BopExp(Tmp(m), c.bop, c.arg1, v, rest.term), rest.counter))
      [] c.kind = "Cond" ->
            LET slot == Tmp(m + 1)
                body == Apply(p, c.k, VarValue(slot), m + 2)
                then == Convert(p, c.then, JumpC(Tmp(m)), body.counter)
                els  == Convert(p, c.els, JumpC(Tmp(m)), then.counter)
            IN  Then(body, Then(then, Then(els,
                    Result(JoinExp(Tmp(m), <<slot>>, body.term,
                                   IfExp(v, then.term, els.term)), els.counter))))

=============================================================================
