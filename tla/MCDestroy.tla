----------------------------- MODULE MCDestroy -----------------------------
(***************************************************************************)
(* All trees of five nodes with up to three links in a node, any of which  *)
(* may be empty as in nodes that were moved from: among them a chain.      *)
(***************************************************************************)
EXTENDS Destroy

MCNodes == 1..5
NoNode == 0

\* Where each node but the root hangs: a link of a node before it, taken once.
Places == {p \in [2..5 -> (1..4) \X (1..3)] :
              /\ \A n \in 2..5 : p[n][1] < n
              /\ \A m, n \in 2..5 : m # n => p[m] # p[n]}

LinksOf(p, m) ==
    LET Used == {n \in 2..5 : p[n][1] = m}
        Last == IF Used = {} THEN (IF m % 2 = 0 THEN 0 ELSE 2)
                ELSE CHOOSE i \in {p[n][2] : n \in Used} : \A n \in Used : p[n][2] <= i
    IN  [i \in 1..Last |-> IF \E n \in Used : p[n][2] = i
                           THEN CHOOSE n \in Used : p[n][2] = i ELSE NoNode]

MCTrees == {[root |-> 1, links |-> [m \in MCNodes |-> LinksOf(p, m)]] : p \in Places}
=============================================================================
