-------------------------------- MODULE Anf --------------------------------
(***************************************************************************)
(* The intermediate language: include/anf.h.                               *)
(*                                                                         *)
(* A term is a tree of Exp nodes that own their children by unique_ptr.    *)
(* Nodes live in a heap, a sequence of records, and a pointer is a         *)
(* position in it or Null.  All nodes have the same fields: the tag of the *)
(* variant, the name they bind (name), the other names they bind (params:  *)
(* the parameters of a FunExp, the slot of a JoinExp or nothing), the      *)
(* operator of a BopExp, the index of a ProjExp, their values (vals) and   *)
(* their children in the order of the members of the struct (kids).        *)
(***************************************************************************)
EXTENDS Ast

Null == 0

-----------------------------------------------------------------------------
(***************************************************************************)
(* Values.  Moved stands for what a moved-from Value holds, which the      *)
(* language leaves open: no code may read it.                              *)
(***************************************************************************)
Val(kind, int, var) == [kind |-> kind, int |-> int, var |-> var]

IntValue(i)  == Val("int", i, NoName)
VarValue(x)  == Val("var", 0, x)
GlobValue(x) == Val("glob", 0, x)
Moved        == Val("moved", 0, NoName)

Value == [kind : {"int", "var", "glob"}, int : Int, var : Ident]

-----------------------------------------------------------------------------
(***************************************************************************)
(* Nodes.  The funName of an AppExp and the tuple of a ProjExp are names,  *)
(* kept as the first of the values: ExpValueVisitor treats them so too.    *)
(***************************************************************************)
Node(tag, name, params, vals, kids) ==
    [tag |-> tag, name |-> name, params |-> params, bop |-> "", index |-> 0,
     vals |-> vals, kids |-> kids]

HaltExp(v)             == Node("Halt", NoName, <<>>, <<v>>, <<>>)
FunExp(f, xs, body, r) == Node("Fun", f, xs, <<>>, <<body, r>>)
JoinExp(j, xs, body, r) == Node("Join", j, xs, <<>>, <<body, r>>)
JumpExp(j, vs)         == Node("Jump", j, <<>>, vs, <<>>)
AppExp(x, f, vs, r)    == Node("App", x, <<>>, <<VarValue(f)>> \o vs, <<r>>)
BopExp(x, b, v, w, r)  == [Node("Bop", x, <<>>, <<v, w>>, <<r>>) EXCEPT !.bop = b]
IfExp(c, t, e)         == Node("If", NoName, <<>>, <<c>>, <<t, e>>)
TupleExp(x, vs, r)     == Node("Tuple", x, <<>>, vs, <<r>>)
ProjExp(x, t, i, r)    ==
    [Node("Proj", x, <<>>, <<VarValue(t)>>, <<r>>) EXCEPT !.index = i]

AnfTag == {"Halt", "Fun", "Join", "Jump", "App", "Bop", "If", "Tuple", "Proj"}

(***************************************************************************)
(* The names the passes make up: fresh() of src/anf.cpp, of                *)
(* src/convert.cpp and of src/hoist.cpp.                                   *)
(***************************************************************************)
Tmp(c)         == Fresh(Name("tmp", <<>>), c)
ClosureName(c) == Fresh(Name("closure", <<>>), c)
ProjName(c)    == Fresh(Name("proj", <<>>), c)
EntryName(c)   == Fresh(Name("entry", <<>>), c)
ThenName(c)    == Fresh(Name("then", <<>>), c)
ElseName(c)    == Fresh(Name("else", <<>>), c)

\* The names a node binds: a JumpExp names a join point and binds nothing.
Binders(node) ==
    (IF node.tag \in {"Halt", "Jump", "If"} THEN <<>> ELSE <<node.name>>)
        \o node.params
=============================================================================
