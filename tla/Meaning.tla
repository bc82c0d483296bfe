------------------------------ MODULE Meaning ------------------------------
(***************************************************************************)
(* What programs and terms compute, for the model checker: the yardstick   *)
(* the passes are held against.                                            *)
(*                                                                         *)
(* A value is an integer, a function, a closure record made by closure     *)
(* conversion, or Stuck: the meaning of arithmetic on something else than  *)
(* integers and of the application of something else than a function.      *)
(* The compiled code makes something of these too, but nothing a pass has  *)
(* to preserve.  An if takes its first branch unless the condition is 0,   *)
(* so a function counts as true.                                           *)
(***************************************************************************)
EXTENDS Ast, AnfTerms

IntV(i)          == [kind |-> "int", int |-> i]
FunV(xs, e, env) == [kind |-> "fun", params |-> xs, body |-> e, env |-> env]
TupleV(vs)       == [kind |-> "tuple", vals |-> vs]
Stuck            == [kind |-> "stuck"]

Compute(bop, v, w) ==
    IF v.kind = "int" /\ w.kind = "int"
    THEN IntV(CASE bop = "Plus"  -> v.int + w.int
                [] bop = "Minus" -> v.int - w.int
                [] bop = "Times" -> v.int * w.int)
    ELSE Stuck

\* What of a value can be compared between a program and its translation.
Observe(v) == CASE v.kind = "int" -> v [] v.kind = "stuck" -> v
                [] OTHER -> [kind |-> "function"]

RECURSIVE Run(_, _, _)
\* Node e of program p, with a map env from variables to values.
Run(p, e, env) ==
    LET kid == p.kids[e]
    IN  CASE p.tag[e] = "Int" -> IntV(p.data[e])
          [] p.tag[e] = "Var" -> env[p.name[e]]
          [] p.tag[e] = "Lam" -> FunV(<<p.name[e]>>, kid[1], env)
          [] p.tag[e] = "Bop" ->
                Compute(p.data[e], Run(p, kid[1], env), Run(p, kid[2], env))
          [] p.tag[e] = "If" ->
                LET c == Run(p, kid[1], env)
                IN  IF c = Stuck THEN Stuck
                    ELSE Run(p, IF c # IntV(0) THEN kid[2] ELSE kid[3], env)
          [] p.tag[e] = "App" ->
                LET f == Run(p, kid[1], env)
                    v == Run(p, kid[2], env)
                IN  IF f.kind # "fun" \/ v = Stuck THEN Stuck
                    ELSE Run(p, f.body, Put(f.env, f.params[1], v))
-----------------------------------------------------------------------------
\* A map extended with names ns and values vs: the last one of a name counts.
Bind2(env, ns, vs) ==
    LET last(y) == CHOOSE i \in 1..Len(ns) :
                       ns[i] = y /\ \A m \in (i + 1)..Len(ns) : ns[m] # y
    IN  [y \in DOMAIN env \cup Range(ns) |-> IF y \in Range(ns) THEN vs[last(y)] ELSE env[y]]

\* A value of a term: a name that is not bound is Stuck.
Look(v, env) ==
    CASE v.kind = "int" -> IntV(v.int)
      [] OTHER          -> IF v.var \in DOMAIN env THEN env[v.var] ELSE Stuck

RECURSIVE RunTerm(_, _, _, _)
(***************************************************************************)
(* Term t, with maps env from variables (and, in converted terms, from     *)
(* global names) to values and joins from join points to what they do.     *)
(* With open, a function sees the variables around it; in a converted term *)
(* it sees global names and its parameters.                                *)
(***************************************************************************)
RunTerm(t, env, joins, open) ==
    LET val(i) == Look(t.vals[i], env)
        vals   == [i \in 1..Len(t.vals) |-> val(i)]
        next(v) == IF v = Stuck THEN Stuck
                   ELSE RunTerm(t.kids[1], Put(env, t.name, v), joins, open)
    IN  CASE \E i \in 1..Len(vals) : vals[i] = Stuck -> Stuck
          [] t.tag = "Halt" -> val(1)
          [] t.tag = "Fun"  ->
                LET seen == IF open THEN env
                            ELSE [y \in {y \in DOMAIN env : env[y].kind = "fun"} |-> env[y]]
                IN  RunTerm(t.kids[2], Put(env, t.name, FunV(t.params, t.kids[1], seen)),
                            joins, open)
          [] t.tag = "Join" ->
                RunTerm(t.kids[2], env,
                        Put(joins, t.name, [slot |-> t.params, body |-> t.kids[1],
                                            env |-> env, joins |-> joins]), open)
          [] t.tag = "Jump" ->
                LET j == joins[t.name]
                IN  RunTerm(j.body, Bind2(j.env, j.slot, vals), j.joins, open)
          [] t.tag = "If"   ->
                RunTerm(t.kids[IF val(1) # IntV(0) THEN 1 ELSE 2], env, joins, open)
          [] t.tag = "Bop"   -> next(Compute(t.bop, val(1), val(2)))
          [] t.tag = "Tuple" -> next(TupleV(vals))
          [] t.tag = "Proj"  -> next(IF val(1).kind = "tuple"
                                     THEN val(1).vals[t.index + 1] ELSE Stuck)
          [] t.tag = "App"   ->
                IF val(1).kind # "fun" THEN Stuck
                ELSE next(RunTerm(val(1).body,
                                  Bind2(val(1).env, val(1).params, Tail(vals)),
                                  EmptyMap, open))
-----------------------------------------------------------------------------
CodeV(f) == [kind |-> "code", name |-> f]

RECURSIVE RunCode(_, _, _, _)
(***************************************************************************)
(* Term t in function fn of the program fns, a sequence of functions of    *)
(* basic blocks.  One map env serves the whole function.                   *)
(***************************************************************************)
RunCode(fns, fn, t, env) ==
    LET val(i) == IF t.vals[i].kind = "glob" THEN CodeV(t.vals[i].var)
                  ELSE Look(t.vals[i], env)
        vals   == [i \in 1..Len(t.vals) |-> val(i)]
        next(v) == IF v = Stuck THEN Stuck
                   ELSE RunCode(fns, fn, t.kids[1], Put(env, t.name, v))
        block(j) == CHOOSE b \in Range(fn.blocks) : b.name = j
        function(f) == CHOOSE g \in Range(fns) : g.name = f
    IN  CASE \E i \in 1..Len(vals) : vals[i] = Stuck -> Stuck
          [] t.tag = "Halt" -> val(1)
          [] t.tag = "Jump" ->
                RunCode(fns, fn, block(t.name).body, Bind2(env, block(t.name).slot, vals))
          [] t.tag = "If"   ->
                RunCode(fns, fn, t.kids[IF val(1) # IntV(0) THEN 1 ELSE 2], env)
          [] t.tag = "Bop"   -> next(Compute(t.bop, val(1), val(2)))
          [] t.tag = "Tuple" -> next(TupleV(vals))
          [] t.tag = "Proj"  -> next(IF val(1).kind = "tuple"
                                     THEN val(1).vals[t.index + 1] ELSE Stuck)
          [] t.tag = "App"   ->
                IF val(1).kind # "code" THEN Stuck
                ELSE LET g == function(val(1).name)
                     IN  next(RunCode(fns, g, g.entry.body,
                                      Bind2(EmptyMap, g.params, Tail(vals))))
=============================================================================
