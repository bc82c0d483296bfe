-------------------------------- MODULE Ast --------------------------------
(***************************************************************************)
(* The source language: include/ast.h.                                     *)
(*                                                                         *)
(* A program is a tree of Exp nodes.  A node is an address in 1..n and the *)
(* program gives for each address the alternative of the variant (tag),    *)
(* the string it stores (name: the variable of a VarExp, the parameter of  *)
(* a LamExp), any other datum (data: the integer of an IntExp, the         *)
(* operator of a BopExp) and its children in the order of the members of   *)
(* the struct (kids).                                                      *)
(*                                                                         *)
(* Addresses carry no information in the program, so they are chosen for   *)
(* the reader's convenience: the root is 1 and a subtree occupies the      *)
(* interval n..last[n], its last child first.                              *)
(*                                                                         *)
(* scope is not in the code either.  It is the lexical scope the tree      *)
(* determines, kept beside it so that properties can refer to it: for      *)
(* every node, a map from the variables visible there to the LamExp that   *)
(* binds them.                                                             *)
(***************************************************************************)
EXTENDS Names

Arity == [Int |-> 0, Var |-> 0, Lam |-> 1, App |-> 2, Bop |-> 2, If |-> 3]

Tag == DOMAIN Arity

Bop == {"Plus", "Minus", "Times"}

Exps(p) == 1..Len(p.tag)

Root == 1

\* A finite map with one more binding, as map[x] = v leaves it.
Put(f, x, v) == [y \in DOMAIN f \cup {x} |-> IF y = x THEN v ELSE f[y]]

\* A finite map after map.erase(x).
Erase(f, x) == [y \in DOMAIN f \ {x} |-> f[y]]

EmptyMap == [x \in {} |-> x]

\* The scope that node n gives to its children.
InnerScope(p, n) ==
    IF p.tag[n] = "Lam" THEN Put(p.scope[n], p.name[n], n) ELSE p.scope[n]
-----------------------------------------------------------------------------
\* The shape of the record that describes a program.
IsHeap(p) ==
    /\ p.tag \in Seq(Tag) /\ p.tag # <<>>
    /\ p.name \in [Exps(p) -> Ident]
    /\ DOMAIN p.data = Exps(p)
    /\ \A n \in Exps(p) : /\ p.tag[n] = "Int" => p.data[n] \in Int
                          /\ p.tag[n] = "Bop" => p.data[n] \in Bop
    /\ p.kids \in [Exps(p) -> Seq(Exps(p))]
    /\ p.last \in [Exps(p) -> Exps(p)]
    /\ \A n \in Exps(p) : Len(p.kids[n]) = Arity[p.tag[n]]

\* The addresses of the subtree of n are n..last[n]: first n, then its
\* children from the last one to the first.  (That n <= last[n] follows from
\* the rest by induction on the tree.)
IsTree(p) ==
    /\ p.last[Root] = Len(p.tag)
    /\ \A n \in Exps(p) : n <= p.last[n]
    /\ \A n \in Exps(p) :
          LET k == p.kids[n]
              m == Len(k)
          IN  /\ m = 0 => p.last[n] = n
              /\ m > 0 => k[m] = n + 1 /\ p.last[n] = p.last[k[1]]
              /\ \A i \in 1..(m - 1) : k[i] = p.last[k[i + 1]] + 1

\* scope is lexical: empty at the root, and a LamExp adds its parameter.
\* (The last conjunct follows from the others by induction on the tree.)
IsLexical(p) ==
    /\ DOMAIN p.scope = Exps(p)
    /\ p.scope[Root] = EmptyMap
    /\ \A n \in Exps(p) : \A i \in 1..Len(p.kids[n]) :
          p.scope[p.kids[n][i]] = InnerScope(p, n)
    /\ \A n \in Exps(p) :
          /\ p.scope[n] = [x \in DOMAIN p.scope[n] |-> p.scope[n][x]]
          /\ \A x \in DOMAIN p.scope[n] :
                LET b == p.scope[n][x]
                IN  b \in 1..(n - 1) /\ p.tag[b] = "Lam" /\ p.name[b] = x

IsAst(p) == IsHeap(p) /\ IsTree(p) /\ IsLexical(p)

IsFree(p, v) == p.tag[v] = "Var" /\ p.name[v] \notin DOMAIN p.scope[v]

IsClosed(p) == \A v \in Exps(p) : ~IsFree(p, v)

Lams(p) == {n \in Exps(p) : p.tag[n] = "Lam"}

\* No two parameters have one name, and none could be a name convertDefunc makes up.
NamesApart(p) ==
    \A l, m \in Lams(p) : p.name[l].base # "tmp" /\ (p.name[l] = p.name[m] => l = m)

-----------------------------------------------------------------------------
(***************************************************************************)
(* The program that alpha renaming should leave behind: each parameter is  *)
(* followed by the number of LamExps that are visited before, and a        *)
(* variable is spelled like the LamExp that bound it.                      *)
(***************************************************************************)

NewParam(p, l) == Fresh(p.name[l], Cardinality({m \in Lams(p) : m < l}))

NewName(p, n) ==
    CASE p.tag[n] = "Lam" -> NewParam(p, n)
      [] p.tag[n] = "Var" /\ ~IsFree(p, n) -> NewParam(p, p.scope[n][p.name[n]])
      [] OTHER -> p.name[n]

\* The LamExps around n, and the innermost one with a parameter x.
Around(p, n) == {l \in Lams(p) : l < n /\ n <= p.last[l]}

Innermost(p, n, x) ==
    CHOOSE l \in Around(p, n) :
        /\ NewParam(p, l) = x
        /\ \A m \in Around(p, n) : NewParam(p, m) = x => m <= l

AlphaRenamed(p) ==
    [p EXCEPT !.name  = [n \in Exps(p) |-> NewName(p, n)],
              !.scope = [n \in Exps(p) |->
                  [x \in {NewParam(p, l) : l \in Around(p, n)} |->
                      Innermost(p, n, x)]]]
=============================================================================
