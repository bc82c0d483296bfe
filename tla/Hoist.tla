-------------------------------- MODULE Hoist --------------------------------
(***************************************************************************)
(* hoist of src/hoist.cpp: from a converted term to a list of functions,   *)
(* each of them a list of basic blocks.                                    *)
(*                                                                         *)
(* The program is made the body of a function main.  The walk moves the    *)
(* bodies of functions and of join points and the branches of ifs out of   *)
(* the term, each after everything below it was moved, and closes the gap  *)
(* where a FunExp or JoinExp was by moving its rest into the link that     *)
(* owned it, which destroys it.  The blocks of the function that is being  *)
(* walked are in one vector, set aside in a task while an inner function   *)
(* is walked.                                                              *)
(***************************************************************************)
EXTENDS AnfHeap

CONSTANT Inputs      \* the heaps of the terms hoist is called with

ASSUME InputsAssumption == \A h \in Inputs : IsTerm(h)

VARIABLES
    input,          \* the term as it was
    heap,           \* the nodes
    freed,          \* the nodes that have been destroyed
    root,           \* the variable root, which owns the term
    currentJoins,   \* currentJoins_
    collected,      \* collected_
    worklist,       \* the stack of tasks, its top at the end
    counter,        \* counter_
    status          \* "run", "done"

vars == <<input, heap, freed, root, currentJoins, collected, worklist, counter, status>>

\* struct Join and struct Function; the slot is a sequence of at most one name.
Join(name, slot, body) == [name |-> name, slot |-> slot, body |-> body]
Function(name, params, entry, blocks) ==
    [name |-> name, params |-> params, entry |-> entry, blocks |-> blocks]

\* The closures, named for what they do.
RestTask(link, exp)     == [kind |-> "rest", link |-> link, exp |-> exp]
CollectTask(exp, joins) == [kind |-> "collect", exp |-> exp, joins |-> joins]
BlockTask(exp)          == [kind |-> "block", exp |-> exp]
BranchTask(exp)         == [kind |-> "branch", exp |-> exp]

Task == Last(worklist)
Takes(kind) == status = "run" /\ worklist # <<>> /\ Task.kind = kind
Visits(tags) == Takes("node") /\ heap[Task.exp].tag \in tags

ChildTask(exp, i) == NodeTask(Link(exp, i), heap[exp].kids[i])

Main == Name("main", <<>>)

Init ==
    /\ input \in Inputs
    /\ heap = input \o <<HaltExp(IntValue(0)),
                         FunExp(Main, <<>>, Len(input), Len(input) + 1)>>
    /\ freed = {}
    /\ root = Len(input) + 2
    /\ currentJoins = <<>>
    /\ collected = <<>>
    /\ worklist = <<NodeTask(RootLink, Len(input) + 2)>>
    /\ counter = 0
    /\ status = "run"

\* Slip: the closures are pushed the other way round.
VisitFunRestFirst ==
    /\ Visits({"Fun"})
    /\ LET exp == Task.exp
       IN  worklist' = Front(worklist)
              \o <<CollectTask(exp, currentJoins), ChildTask(exp, 1),
                   RestTask(Task.link, exp), ChildTask(exp, 2)>>
    /\ currentJoins' = <<>>
    /\ UNCHANGED <<input, heap, freed, root, collected, counter, status>>

\* A FunExp: the joins around it are set aside, and it starts with none.
VisitFun ==
    /\ Visits({"Fun"})
    /\ LET exp == Task.exp
       IN  worklist' = Front(worklist)
              \o <<RestTask(Task.link, exp), ChildTask(exp, 2),
                   CollectTask(exp, currentJoins), ChildTask(exp, 1)>>
    /\ currentJoins' = <<>>
    /\ UNCHANGED <<input, heap, freed, root, collected, counter, status>>

VisitJoin ==
    /\ Visits({"Join"})
    /\ LET exp == Task.exp
       IN  worklist' = Front(worklist)
              \o <<RestTask(Task.link, exp), ChildTask(exp, 2),
                   BlockTask(exp), ChildTask(exp, 1)>>
    /\ UNCHANGED <<input, heap, freed, root, currentJoins, collected, counter, status>>

\* Slip: the second branch first.
VisitIfReversed ==
    /\ Visits({"If"})
    /\ LET exp == Task.exp
       IN  worklist' = Front(worklist)
              \o <<BranchTask(exp), ChildTask(exp, 1), ChildTask(exp, 2)>>
    /\ UNCHANGED <<input, heap, freed, root, currentJoins, collected, counter, status>>

VisitIf ==
    /\ Visits({"If"})
    /\ LET exp == Task.exp
       IN  worklist' = Front(worklist)
              \o <<BranchTask(exp), ChildTask(exp, 2), ChildTask(exp, 1)>>
    /\ UNCHANGED <<input, heap, freed, root, currentJoins, collected, counter, status>>

VisitOther ==
    /\ Visits(AnfTag \ {"Fun", "Join", "If"})
    /\ LET exp == Task.exp
       IN  worklist' = Front(worklist)
              \o [i \in 1..Len(heap[exp].kids) |-> ChildTask(exp, i)]
    /\ UNCHANGED <<input, heap, freed, root, currentJoins, collected, counter, status>>

\* Node exp of heap h without what was moved out of it: name, params and body.
Emptied(h, exp) == [h EXCEPT ![exp].name = NoName, ![exp].params = <<>>,
                             ![exp].kids[1] = Null]

\* Slip: the joins of the function stay when it is collected.
KeptJoins(saved) == currentJoins \o saved

RestoredJoins(saved) == saved

\* The body of a FunExp is done: collect it with the joins that were met.
RunCollect ==
    /\ Takes("collect")
    /\ LET exp == heap[Task.exp]
       IN  collected' = Append(collected,
              Function(exp.name, exp.params,
                       Join(EntryName(counter), <<>>, exp.kids[1]), currentJoins))
    /\ currentJoins' = RestoredJoins(Task.joins)
    /\ heap' = Emptied(heap, Task.exp)
    /\ counter' = counter + 1
    /\ worklist' = Front(worklist)
    /\ UNCHANGED <<input, freed, root, status>>

BlockOf(exp) == LET e == heap[exp] IN Join(e.name, e.params, e.kids[1])

\* The body of a JoinExp is done: it becomes a block.
RunBlock ==
    /\ Takes("block")
    /\ currentJoins' = Append(currentJoins, BlockOf(Task.exp))
    /\ heap' = Emptied(heap, Task.exp)
    /\ worklist' = Front(worklist)
    /\ UNCHANGED <<input, freed, root, collected, counter, status>>

\* Slips: one name for both blocks; each branch jumps to the other.
OneName(c)      == <<ThenName(c), ThenName(c)>>
BranchNames(c)  == <<ThenName(c), ElseName(c + 1)>>
JumpsSwapped(names) == <<JumpExp(names[2], <<>>), JumpExp(names[1], <<>>)>>
Jumps(names)        == <<JumpExp(names[1], <<>>), JumpExp(names[2], <<>>)>>

\* The branches of an IfExp are done: they become blocks it jumps to.
RunBranch ==
    /\ Takes("branch")
    /\ LET kids  == heap[Task.exp].kids
           names == BranchNames(counter)
       IN  /\ currentJoins' = currentJoins \o <<Join(names[1], <<>>, kids[1]),
                                                Join(names[2], <<>>, kids[2])>>
           /\ heap' = [heap EXCEPT ![Task.exp].kids = <<Len(heap) + 1, Len(heap) + 2>>]
                         \o Jumps(names)
    /\ counter' = counter + 2
    /\ worklist' = Front(worklist)
    /\ UNCHANGED <<input, freed, root, collected, status>>

(***************************************************************************)
(* The rest of a FunExp or JoinExp is done: it takes the place of the      *)
(* node, which the assignment to its link destroys.                        *)
(***************************************************************************)
RunRest ==
    /\ Takes("rest")
    /\ LET rest    == heap[Task.exp].kids[2]
           without == [heap EXCEPT ![Task.exp].kids[2] = Null]
           link    == Task.link
       IN  /\ freed' = freed \cup {Deref(heap, root, link)}
           /\ IF link.owner = Null
              THEN root' = rest /\ heap' = without
              ELSE /\ heap' = [without EXCEPT ![link.owner].kids[link.kid] = rest]
                   /\ UNCHANGED root
    /\ worklist' = Front(worklist)
    /\ UNCHANGED <<input, currentJoins, collected, counter, status>>

\* The list is moved out, and what is left of the root is destroyed.
Return ==
    /\ status = "run" /\ worklist = <<>>
    /\ status' = "done"
    /\ freed' = freed \cup {root}
    /\ root' = Null
    /\ UNCHANGED <<input, heap, currentJoins, collected, worklist, counter>>

\* hoist is over.
Terminated == status = "done" /\ UNCHANGED vars

Next == \/ VisitFun \/ VisitJoin \/ VisitIf \/ VisitOther
        \/ RunCollect \/ RunBlock \/ RunBranch \/ RunRest
        \/ Return \/ Terminated

Spec == Init /\ [][Next]_vars
-----------------------------------------------------------------------------
Alive == (1..Len(heap)) \ freed

Links == {RootLink} \cup {Link(a, i) : a \in Alive, i \in 1..2}
LinkTo(l) == l \in Links /\ (l.owner # Null => l.kid <= Len(heap[l.owner].kids))

(***************************************************************************)
(* No task holds a dangling pointer: the nodes it refers to exist, a link  *)
(* it holds lies in a node that exists and still owns the node of the      *)
(* task, and what its closure is going to move out has not been moved.     *)
(***************************************************************************)
NoDangling ==
    \A i \in 1..Len(worklist) :
        LET task == worklist[i]
            kids == heap[task.exp].kids
        IN  /\ task.exp \in Alive
            /\ task.kind \in {"node", "rest"} =>
                  LinkTo(task.link) /\ Deref(heap, root, task.link) = task.exp
            /\ task.kind \in {"collect", "block"} => kids[1] # Null
            /\ task.kind = "rest" => kids[2] # Null
            /\ task.kind = "branch" => kids[1] # Null /\ kids[2] # Null

(***************************************************************************)
(* The places that own a node: links of the term, the blocks of the        *)
(* function that is being walked, those set aside in tasks, and the        *)
(* functions collected so far.                                             *)
(***************************************************************************)
Owners ==
    {<<"link", l.owner, l.kid>> : l \in {l \in Links : LinkTo(l)}}
      \cup {<<"join", 0, m>> : m \in 1..Len(currentJoins)}
      \cup (UNION {{<<"saved", i, m>> : m \in 1..Len(worklist[i].joins)} :
                      i \in {i \in 1..Len(worklist) : worklist[i].kind = "collect"}})
      \cup {<<"entry", f, 0>> : f \in 1..Len(collected)}
      \cup (UNION {{<<"block", f, m>> : m \in 1..Len(collected[f].blocks)} : f \in 1..Len(collected)})

Owns(o) ==
    IF o[1] = "link" THEN Deref(heap, root, Link(o[2], o[3]))
    ELSE IF o[1] = "join" THEN currentJoins[o[3]].body
    ELSE IF o[1] = "saved" THEN worklist[o[2]].joins[o[3]].body
    ELSE IF o[1] = "entry" THEN collected[o[2]].entry.body
    ELSE collected[o[2]].blocks[o[3]].body

(***************************************************************************)
(* No code is lost and none is used twice: every node that exists has one  *)
(* owner, a link in the term, a block, or an entry, and nothing owns a     *)
(* node that was destroyed.                                                *)
(***************************************************************************)
OwnedOnce ==
    LET owns == [o \in {o \in Owners : Owns(o) # Null} |-> Owns(o)]
    IN  Range(owns) = Alive /\ IsInjective(owns)

\* The nodes below each node of heap h and itself; a child that is not a node was moved out.
Below(h) ==
    LET B[a \in 1..Len(h)] ==
            {a} \cup UNION {B[h[a].kids[i]] : i \in {i \in 1..Len(h[a].kids) : h[a].kids[i] \in 1..Len(h)}}
    IN  B

(***************************************************************************)
(* What hoisting is for: straight-line blocks that lowering can emit one   *)
(* after the other.  Lowering asserts that no FunExp and no JoinExp is     *)
(* left and handles only those ifs whose branches are jumps; it looks the  *)
(* target of a jump up among the blocks of the function it is in, and a    *)
(* value that is passed needs a slot there.  Names of blocks and of        *)
(* functions are unique.                                                   *)
(***************************************************************************)
BlocksAreFlat ==
    status = "done" =>
        /\ IsInjective([c \in 1..Len(collected) |-> collected[c].name])
        /\ \A f \in Range(collected) :
              LET all == <<f.entry>> \o f.blocks
              IN  /\ IsInjective([m \in 1..Len(all) |-> all[m].name])
                  /\ \A b \in Range(all) : \A a \in Below(heap)[b.body] :
                        /\ heap[a].tag \notin {"Fun", "Join"}
                        /\ heap[a].tag = "If" =>
                              \A i \in 1..2 : heap[heap[a].kids[i]].tag = "Jump"
                        /\ heap[a].tag = "Jump" => \E t \in Range(f.blocks) :
                              t.name = heap[a].name /\ Len(t.slot) = Len(heap[a].vals)

-----------------------------------------------------------------------------
(***************************************************************************)
(* What the terms must be for that: the names of functions and of join     *)
(* points are apart, as the passes before leave them, and a jump leads to  *)
(* a join point of the function it is in.                                  *)
(***************************************************************************)
Tagged(h, tag) == {a \in 1..Len(h) : h[a].tag = tag}

\* The FunExp in whose body each node of a term lies; Null stands for main.
Parent(h, a) == CHOOSE o \in 1..Len(h) : \E i \in 1..Len(h[o].kids) : h[o].kids[i] = a

Home(h) ==
    LET H[a \in 1..Len(h)] ==
            IF a = Len(h) THEN Null
            ELSE IF h[Parent(h, a)].tag = "Fun" /\ h[Parent(h, a)].kids[1] = a THEN Parent(h, a)
            ELSE H[Parent(h, a)]
    IN  H

Hoistable(h) ==
    /\ \A a, b \in Tagged(h, "Fun") : h[a].name = h[b].name => a = b
    /\ \A a \in Tagged(h, "Fun") : h[a].name # Main
    /\ \A a, b \in Tagged(h, "Join") : h[a].name = h[b].name => a = b
    /\ \A a \in Tagged(h, "Join") : h[a].name.base \notin {"entry", "then", "else"}
    /\ \A a \in Tagged(h, "Jump") : \E b \in Tagged(h, "Join") :
          /\ h[b].name = h[a].name /\ Len(h[b].params) = Len(h[a].vals)
          /\ Home(h)[b] = Home(h)[a]
=============================================================================
