------------------------------- MODULE AstGen -------------------------------
(***************************************************************************)
(* All small programs of the source language, for the model checker.       *)
(*                                                                         *)
(* A program is first written as a nested record                           *)
(*     [tag, name, data, size, kids]     kids a sequence of such records   *)
(* and then laid out in memory (ToProg) the way module Ast describes.      *)
(***************************************************************************)
EXTENDS Ast

Tree(tag, id, data, size, kids) ==
    [tag |-> tag, name |-> id, data |-> data, size |-> size, kids |-> kids]

IntT(i)       == Tree("Int", NoName, i, 1, <<>>)
VarT(x)       == Tree("Var", x, 0, 1, <<>>)
LamT(x, e)    == Tree("Lam", x, 0, 1 + e.size, <<e>>)
AppT(f, e)    == Tree("App", NoName, 0, 1 + f.size + e.size, <<f, e>>)
BopT(b, e, f) == Tree("Bop", NoName, b, 1 + e.size + f.size, <<e, f>>)
IfT(c, t, f)  == Tree("If", NoName, 0, 1 + c.size + t.size + f.size, <<c, t, f>>)

\* Trees of one node.
Leaves(names, ints) == {IntT(i) : i \in ints} \cup {VarT(x) : x \in names}

\* Trees of Len(E) + 1 nodes, when E[i] is the set of trees of i nodes.
Grow(E, names, bops) ==
    LET s     == Len(E)
        Pairs == UNION {E[i] \X E[s - i] : i \in 1..(s - 1)}
        Trips == UNION {E[ij[1]] \X E[ij[2]] \X E[s - ij[1] - ij[2]] :
                           ij \in {q \in (1..s) \X (1..s) : q[1] + q[2] < s}}
    IN  {LamT(x, e) : x \in names, e \in E[s]}
          \cup {AppT(p[1], p[2]) : p \in Pairs}
          \cup {BopT(b, p[1], p[2]) : b \in bops, p \in Pairs}
          \cup {IfT(t[1], t[2], t[3]) : t \in Trips}
-----------------------------------------------------------------------------
RECURSIVE Closed(_, _)
\* Every variable of e is bound in it or one of bound.
Closed(e, bound) ==
    /\ e.tag = "Var" => e.name \in bound
    /\ \A i \in 1..Len(e.kids) :
          Closed(e.kids[i], IF e.tag = "Lam" THEN bound \cup {e.name} ELSE bound)

\* Where each of the trees ks starts if the last one starts at n.
Starts(ks, n) ==
    CASE Len(ks) = 0 -> <<>>
      [] Len(ks) = 1 -> <<n>>
      [] Len(ks) = 2 -> <<n + ks[2].size, n>>
      [] Len(ks) = 3 -> <<n + ks[3].size + ks[2].size, n + ks[3].size, n>>

RECURSIVE Flat(_, _, _)
\* The nodes of e when it is laid out from address n on in a scope.
Flat(e, n, scope) ==
    LET m     == Len(e.kids)
        start == Starts(e.kids, n + 1)
        inner == IF e.tag = "Lam" THEN Put(scope, e.name, n) ELSE scope
        Kid(i) == Flat(e.kids[i], start[i], inner)
    IN  <<[tag |-> e.tag, name |-> e.name, data |-> e.data, kids |-> start,
           last |-> n + e.size - 1, scope |-> scope]>>
          \o (IF m > 2 THEN Kid(3) ELSE <<>>)
          \o (IF m > 1 THEN Kid(2) ELSE <<>>)
          \o (IF m > 0 THEN Kid(1) ELSE <<>>)

ToProg(e) ==
    LET ns == Flat(e, 1, EmptyMap)
        I  == 1..Len(ns)
    IN  [tag   |-> [i \in I |-> ns[i].tag],  name  |-> [i \in I |-> ns[i].name],
         data  |-> [i \in I |-> ns[i].data], kids  |-> [i \in I |-> ns[i].kids],
         last  |-> [i \in I |-> ns[i].last], scope |-> [i \in I |-> ns[i].scope]]
=============================================================================
