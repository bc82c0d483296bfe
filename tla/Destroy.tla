------------------------------ MODULE Destroy ------------------------------
(***************************************************************************)
(* ~Exp of ast.cpp and of anf.cpp: a tree is taken down with a queue       *)
(* instead of by the destructors of its unique_ptrs, which would recurse   *)
(* as deep as the tree.                                                    *)
(*                                                                         *)
(* Both destructors are the same code over nodes that own their children   *)
(* through links.  Every node is destroyed by an activation of ~Exp of its *)
(* own, with its own queue: the tree is safe only because what the nested  *)
(* activations find is always empty.                                       *)
(***************************************************************************)
EXTENDS Naturals, Sequences, FiniteSets

CONSTANTS
    Nodes,      \* addresses
    Null,       \* a unique_ptr that owns nothing
    Trees       \* what is destroyed: [root, links], links[n] the unique_ptrs in n

ASSUME NullAssumption == Null \notin Nodes

ASSUME TreesAssumption ==
    \A t \in Trees : t.root \in Nodes /\ t.links \in [Nodes -> Seq(Nodes \cup {Null})]

Occurs(n, s) == {i \in DOMAIN s : s[i] = n}

\* The links that own n, as pairs of a node and a position in it.
LinksTo(n, l) == UNION {{<<m, i>> : i \in Occurs(n, l[m])} : m \in Nodes}

\* The links are unique_ptrs: one owns each node, and nothing in the tree owns the root.
ASSUME OwnershipAssumption ==
    \A t \in Trees, n \in Nodes :
        LET owning == LinksTo(n, t.links)
        IN  IF n = t.root THEN owning = {} ELSE \E p \in owning : owning = {p}

VARIABLES
    links,      \* what the unique_ptrs in each node own
    freed,      \* the nodes whose memory was given back
    frames      \* the activations of ~Exp, the running one last

vars == <<links, freed, frames>>

(***************************************************************************)
(* An activation destroys exp; queue holds the DestructorTasks of its      *)
(* visitor and task the one just popped.                                   *)
(***************************************************************************)
Frame == [exp : Nodes, queue : Seq(Nodes \cup {Null}), task : Nodes \cup {Null},
          at : {"visit", "loop", "task"}]

Activation(exp) == [exp |-> exp, queue |-> <<>>, task |-> Null, at |-> "visit"]

Init ==
    /\ \E t \in Trees : links = t.links /\ frames = <<Activation(t.root)>>
    /\ freed = {}
-----------------------------------------------------------------------------
Depth == Len(frames)
Top == frames[Depth]

\* The running activation goes on with another queue and task, at another place.
Going(queue, task, at) == [exp |-> Top.exp, queue |-> queue, task |-> task, at |-> at]
Become(frame) == [frames EXCEPT ![Depth] = frame]

\* Links that own nothing, as many as node n has.
Emptied(n) == [i \in 1..Len(links[n]) |-> Null]

\* Slip: the pointers are copied.
CopyLinks(n) == UNCHANGED links

\* The DestructorTasks of the links in n move out what the links own.
MoveLinks(n) == links' = [links EXCEPT ![n] = Emptied(n)]

(***************************************************************************)
(* std::visit(visitor, *this).                                             *)
(***************************************************************************)
Visit ==
    /\ frames # <<>> /\ Top.at = "visit"
    /\ frames' = Become(Going(links[Top.exp], Null, "loop"))
    /\ MoveLinks(Top.exp)
    /\ UNCHANGED freed

\* A task without a node: there was nothing in the link.
SkipNull ==
    /\ frames # <<>> /\ Top.at = "loop" /\ Top.queue # <<>>
    /\ Head(Top.queue) = Null
    /\ frames' = Become(Going(Tail(Top.queue), Null, "loop"))
    /\ UNCHANGED <<links, freed>>

\* Slip: a popped node is left to its own destructor.
TakeUnvisited(n) ==
    /\ frames' = Become(Going(Tail(Top.queue), n, "task"))
    /\ UNCHANGED links

\* Pop the task of n and visit n.
Take(n) ==
    /\ frames' = Become(Going(Tail(Top.queue) \o links[n], n, "task"))
    /\ MoveLinks(n)

TakeTask ==
    /\ frames # <<>> /\ Top.at = "loop" /\ Top.queue # <<>>
    /\ Head(Top.queue) # Null
    /\ Take(Head(Top.queue))
    /\ UNCHANGED freed

\* At the end of the body of the loop task is destroyed, and the node with it.
DropTask ==
    /\ frames # <<>> /\ Top.at = "task"
    /\ frames' = Append(Become(Going(Top.queue, Null, "loop")), Activation(Top.task))
    /\ UNCHANGED <<links, freed>>

(***************************************************************************)
(* When the queue is empty the destructors of the members follow, and the  *)
(* node is gone.  Its links are null by then; one that was not would leave *)
(* a node without an owner here, which DestroyedOnce forbids.              *)
(***************************************************************************)
Return ==
    /\ frames # <<>> /\ Top.at = "loop" /\ Top.queue = <<>>
    /\ freed' = freed \cup {Top.exp}
    /\ frames' = SubSeq(frames, 1, Depth - 1)
    /\ UNCHANGED links

Next == Visit \/ SkipNull \/ TakeTask \/ DropTask \/ Return

Spec == Init /\ [][Next]_vars
-----------------------------------------------------------------------------
TypeOK ==
    /\ links \in [Nodes -> Seq(Nodes \cup {Null})]
    /\ freed \subseteq Nodes
    /\ frames \in Seq(Frame)

\* What owns n: links of live nodes, tasks in queues and at work, the activation destroying it.
OwningLinks(n) == UNION {{<<"link", m, i>> : i \in Occurs(n, links[m])} : m \in Nodes \ freed}
OwningQueues(n) == UNION {{<<"queue", d, i>> : i \in Occurs(n, frames[d].queue)} : d \in 1..Depth}
OwningTasks(n) == {<<"task", d, 0>> : d \in {e \in 1..Depth : frames[e].task = n}}
OwningActivations(n) == {<<"exp", d, 0>> : d \in {e \in 1..Depth : frames[e].exp = n}}
OwnersOf(n) == OwningLinks(n) \cup OwningQueues(n) \cup OwningTasks(n) \cup OwningActivations(n)

Owners(n) == Cardinality(OwnersOf(n))

(***************************************************************************)
(* Every node has one owner until it is freed and none afterwards: no node *)
(* is destroyed twice, none is used after it was freed, and when the       *)
(* outermost activation has returned nothing is left.                      *)
(***************************************************************************)
DestroyedOnce == \A n \in Nodes : Owners(n) = (IF n \in freed THEN 0 ELSE 1)

(***************************************************************************)
(* However deep the tree is, destructors nest two deep: a node's links are *)
(* empty whenever it is destroyed by the queue of another.                 *)
(***************************************************************************)
NestingBounded == Depth <= 2
=============================================================================
