------------------------------ MODULE AnfHeap ------------------------------
(***************************************************************************)
(* What the passes over the intermediate language share: include/visitor.h *)
(* and the links between nodes.                                            *)
(*                                                                         *)
(* A link, a pointer to a unique_ptr, is the variable that holds the root  *)
(* of a term, or a child of a node.  A pass walks a term with a stack of   *)
(* tasks: a NodeTask holds a link and, beside it, a reference to the node  *)
(* it led to when the task was pushed, and a FnTask is a closure.          *)
(***************************************************************************)
EXTENDS Anf, SequencesExt

Link(owner, i) == [owner |-> owner, kid |-> i]
RootLink == Link(Null, 1)

\* What link l leads to, when root is the root of the heap h.
Deref(h, root, l) == IF l.owner = Null THEN root ELSE h[l.owner].kids[l.kid]

NodeTask(link, exp) == [kind |-> "node", link |-> link, exp |-> exp]

(***************************************************************************)
(* A finished term in a heap, as the conversion to A-normal form leaves    *)
(* it: children are made before their parents, the root is the last node,  *)
(* and every other node has one parent.                                    *)
(***************************************************************************)
Arities == [Halt |-> 0, Jump |-> 0, Fun |-> 2, Join |-> 2, If |-> 2,
            App |-> 1, Bop |-> 1, Tuple |-> 1, Proj |-> 1]

HeapNode ==
    [tag : AnfTag, name : Ident, params : Seq(Ident), bop : Bop \cup {""}, index : Nat,
     vals : Seq(Value), kids : Seq(Nat)]

IsNode(n) ==
    /\ n \in HeapNode
    /\ n.tag \in {"App", "Proj"} => n.vals # <<>> /\ n.vals[1].kind = "var"
    /\ Len(n.kids) = Arities[n.tag]

IsTerm(h) ==
    /\ h \in Seq(HeapNode) /\ h # <<>>
    /\ \A a \in 1..Len(h) :
          /\ IsNode(h[a])
          /\ \A i \in 1..Len(h[a].kids) : h[a].kids[i] \in 1..(a - 1)
    /\ \A a, b \in 1..Len(h) : \A i \in 1..Len(h[a].kids), m \in 1..Len(h[b].kids) :
          h[a].kids[i] = h[b].kids[m] => a = b /\ i = m
    /\ \A b \in 1..(Len(h) - 1) :
          \E a \in 1..Len(h) : \E i \in 1..Len(h[a].kids) : h[a].kids[i] = b

-----------------------------------------------------------------------------
(***************************************************************************)
(* Variables.                                                              *)
(***************************************************************************)
\* The names among the values vs.
Uses(vs) == {vs[i].var : i \in {i \in 1..Len(vs) : vs[i].kind \in {"var", "glob"}}}

\* The names node n binds in its child i: addWorklist in anf::WorklistVisitor.
BoundIn(n, i) ==
    CASE n.tag = "If"                       -> {}
      [] n.tag \in {"Fun", "Join"} /\ i = 1 -> Range(n.params)
      [] OTHER                              -> {n.name}

\* The names that are free in each node of heap h.
Free(h) ==
    LET F[a \in 1..Len(h)] ==
            Uses(h[a].vals) \cup
                UNION {F[h[a].kids[i]] \ BoundIn(h[a], i) : i \in 1..Len(h[a].kids)}
    IN  F

(***************************************************************************)
(* No name is bound in two nodes, and none that is free in the term is     *)
(* bound in it: what renaming and the conversion to A-normal form make of  *)
(* a program whose fresh names are apart.                                  *)
(***************************************************************************)
Hygienic(h) ==
    \A a \in 1..Len(h) : \A i \in 1..Len(h[a].kids) :
        /\ BoundIn(h[a], i) \cap Free(h)[Len(h)] = {}
        /\ \A b \in 1..Len(h) : \A j \in 1..Len(h[b].kids) :
              BoundIn(h[a], i) \cap BoundIn(h[b], j) # {} => a = b
=============================================================================
