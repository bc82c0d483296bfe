--------------------------- MODULE ClosureConvert ---------------------------
(***************************************************************************)
(* closureConvert of src/convert.cpp: closure conversion in place.         *)
(*                                                                         *)
(* Every function gets its closure as a first parameter and takes the      *)
(* variables it uses out of it; every call takes the code out of a         *)
(* closure and passes the closure on.  The walk changes the term under its *)
(* own tasks: tasks hold links into nodes and references to nodes, and     *)
(* a call is replaced, and freed, by a closure that runs after the rest of *)
(* the term was converted.                                                 *)
(***************************************************************************)
EXTENDS FreeVars

CONSTANT Inputs      \* the heaps of the terms closureConvert is called with

ASSUME InputsAssumption == \A h \in Inputs : IsTerm(h)

VARIABLES
    input,       \* the term as it was
    freed,       \* the nodes that have been destroyed
    root,        \* the variable root, which owns the term
    worklist,    \* the stack of tasks, its top at the end
    counter,     \* counter_
    status       \* "run", "walk" (inside freeVars), "done"

walkVars == <<freeVars, walk>>

vars == <<input, heap, freed, root, worklist, counter, status, walkVars>>

\* What the closure pushed for an AppExp captures.
CallTask(link, exp, proj, values) ==
    [kind |-> "call", link |-> link, exp |-> exp, proj |-> proj, vals |-> values]

Task == Last(worklist)
Visits(tags) == status = "run" /\ worklist # <<>> /\ Task.kind = "node"
                   /\ heap[Task.exp].tag \in tags

Init ==
    /\ input \in Inputs
    /\ heap = input
    /\ freed = {}
    /\ root = Len(input)
    /\ worklist = <<NodeTask(RootLink, Len(input))>>
    /\ counter = 0
    /\ status = "run"
    /\ freeVars = {} /\ walk = <<>>

\* Slip: tasks in the reverse order.
KidTasksReversed(h, a) ==
    Reverse([i \in 1..Len(h[a].kids) |-> NodeTask(Link(a, i), h[a].kids[i])])

\* Tasks for the children of node a of heap h.
KidTasks(h, a) == [i \in 1..Len(h[a].kids) |-> NodeTask(Link(a, i), h[a].kids[i])]

(***************************************************************************)
(* A FunExp: freeVars is called; its result becomes projections in front   *)
(* of its body and the tuple in front of its rest.  Both loops go through  *)
(* the same std::set; its order, which is the order of the names, makes no *)
(* difference and is any fixed one here.                                   *)
(***************************************************************************)
\* Slips: indices that count from 0, where the code is, and projections that
\* all own the old body.
ProjectionsFromZero(n, c, xs, body) ==
    [i \in 1..Len(xs) |-> ProjExp(xs[i], c, i - 1, IF i = 1 THEN body ELSE n + i - 1)]

ProjectionsOfBody(n, c, xs, body) ==
    [i \in 1..Len(xs) |-> ProjExp(xs[i], c, i, body)]

\* Nodes at the end of the heap of n nodes: xs taken out of closure c for body.
Projections(n, c, xs, body) ==
    [i \in 1..Len(xs) |-> ProjExp(xs[i], c, i, IF i = 1 THEN body ELSE n + i - 1)]

Closure(f, xs, rest) ==
    TupleExp(f, <<GlobValue(f)>> \o [i \in 1..Len(xs) |-> VarValue(xs[i])], rest)

\* Slip: only the body is searched, whose parameters are free in it.
SearchedBody(link) == heap[Deref(heap, root, link)].kids[1]

\* The term that freeVars is called with.
Searched(link) == Deref(heap, root, link)

EnterFreeVars ==
    /\ Visits({"Fun"})
    /\ CallFreeVars(Searched(Task.link))
    /\ status' = "walk"
    /\ UNCHANGED <<input, heap, freed, root, worklist, counter>>

InFreeVars ==
    /\ status = "walk" /\ Walk
    /\ UNCHANGED <<input, heap, freed, root, worklist, counter, status>>

\* Slip: the tasks are pushed before the body and the rest are wrapped.
TasksUnwrapped(h, wrapped, exp) == KidTasks(h, exp)

TasksWrapped(h, wrapped, exp) == KidTasks(wrapped, exp)

VisitFun ==
    /\ status = "walk" /\ walk = <<>>
    /\ LET exp  == Task.exp
           xs   == SetToSeq(freeVars)
           n    == Len(heap)
           c    == ClosureName(counter)
           body == heap[exp].kids[1]
           kids == <<IF xs = <<>> THEN body ELSE n + Len(xs), n + Len(xs) + 1>>
       IN  /\ heap' = [heap EXCEPT ![exp].params = <<c>> \o @, ![exp].kids = kids]
                         \o Projections(n, c, xs, body)
                         \o <<Closure(heap[exp].name, xs, heap[exp].kids[2])>>
           /\ worklist' = Front(worklist) \o TasksWrapped(heap, heap', exp)
    /\ counter' = counter + 1
    /\ status' = "run"
    /\ UNCHANGED <<input, freed, root, walkVars>>

(***************************************************************************)
(* An AppExp: the rest is converted first, and then a closure replaces the *)
(* node.  The values are moved into the closure at once.                   *)
(***************************************************************************)
VisitApp ==
    /\ Visits({"App"})
    /\ LET exp == Task.exp
       IN  /\ heap' = [heap EXCEPT ![exp].vals = <<@[1]>>]
           /\ worklist' = Front(worklist)
                 \o <<CallTask(Task.link, exp, ProjName(counter), heap[exp].vals)>>
                 \o KidTasks(heap, exp)
    /\ counter' = counter + 1
    /\ UNCHANGED <<input, freed, root, status, walkVars>>

\* The closure of an AppExp: assigning to the link destroys the old node.
RunCall ==
    /\ status = "run" /\ worklist # <<>> /\ Task.kind = "call"
    /\ LET exp  == heap[Task.exp]
           link == Task.link
           new  == <<AppExp(exp.name, Task.proj, Task.vals, exp.kids[1]),
                     ProjExp(Task.proj, exp.vals[1].var, 0, Len(heap) + 1)>>
       IN  /\ freed' = freed \cup {Deref(heap, root, link)}
           /\ IF link.owner = Null
              THEN /\ root' = Len(heap) + 2
                   /\ heap' = heap \o new
              ELSE /\ heap' = [heap EXCEPT ![link.owner].kids[link.kid] = Len(heap) + 2]
                                 \o new
                   /\ UNCHANGED root
    /\ worklist' = Front(worklist)
    /\ UNCHANGED <<input, counter, status, walkVars>>

\* Slip: the task is read and not popped.
VisitOtherUnpopped ==
    /\ Visits(AnfTag \ {"Fun", "App"})
    /\ worklist' = IF heap[Task.exp].kids = <<>> THEN worklist
                   ELSE Front(worklist) \o KidTasks(heap, Task.exp)
    /\ UNCHANGED <<input, heap, freed, root, counter, status, walkVars>>

VisitOther ==
    /\ Visits(AnfTag \ {"Fun", "App"})
    /\ worklist' = Front(worklist) \o KidTasks(heap, Task.exp)
    /\ UNCHANGED <<input, heap, freed, root, counter, status, walkVars>>

Return ==
    /\ status = "run" /\ worklist = <<>>
    /\ status' = "done"
    /\ UNCHANGED <<input, heap, freed, root, worklist, counter, walkVars>>

\* closureConvert is over.
Terminated == status = "done" /\ UNCHANGED vars

Next ==
    \/ EnterFreeVars \/ InFreeVars \/ VisitFun
    \/ VisitApp \/ RunCall \/ VisitOther \/ Return \/ Terminated

Spec == Init /\ [][Next]_vars

\* The loop never waits.
FairSpec == Spec /\ WF_vars(Next)
-----------------------------------------------------------------------------
Alive == (1..Len(heap)) \ freed

\* The links in the term.
Links == {RootLink} \cup {Link(a, i) : a \in Alive, i \in 1..2}
LinkTo(l) == l \in Links /\ (l.owner # Null => l.kid <= Len(heap[l.owner].kids))

(***************************************************************************)
(* freeVars finds the free variables of the function, in a term that is    *)
(* half converted: at every moment the set and the tasks that are left     *)
(* determine them.  What the walk has inserted too much is erased by a     *)
(* task that is still on the stack, and nothing is erased that a sibling   *)
(* has inserted rightly.                                                   *)
(***************************************************************************)
CollectsFree == status = "walk" => WillReturn = Free(heap)[Task.exp]

(***************************************************************************)
(* No task holds a dangling pointer: the node its link lies in and the     *)
(* node it refers to exist, and the link still owns the node, although     *)
(* other nodes were replaced, wrapped and destroyed since it was pushed.   *)
(* (std::visit in the loop and the closure of an AppExp rely on it.)       *)
(***************************************************************************)
NoDangling ==
    \A i \in 1..Len(worklist) :
        LET task == worklist[i]
        IN  /\ LinkTo(task.link)
            /\ task.exp \in Alive
            /\ Deref(heap, root, task.link) = task.exp

(***************************************************************************)
(* No code is lost and none is used twice: every node that exists has one  *)
(* owner, and no link leads to a node that was destroyed.                  *)
(***************************************************************************)
OwnedOnce ==
    LET owns == [l \in {l \in Links : LinkTo(l)} |-> Deref(heap, root, l)]
    IN  Range(owns) = Alive /\ IsInjective(owns)

\* The names node n binds in the function it is in.
Locals(n) ==
    CASE n.tag = "Join"                          -> n.params
      [] n.tag \in {"App", "Bop", "Tuple", "Proj"} -> <<n.name>>
      [] OTHER                                   -> <<>>

\* Each node of heap h and those below it, the bodies of functions left out.
Inside(h) ==
    LET I[a \in 1..Len(h)] ==
            {a} \cup UNION {I[h[a].kids[i]] : i \in (IF h[a].tag = "Fun" THEN {2} ELSE 1..Len(h[a].kids))}
    IN  I

(***************************************************************************)
(* Lowering keeps one map from names to values for each function: no name  *)
(* is bound twice in one function, although captured variables are bound   *)
(* again, under the same name, in every function that captures them.       *)
(***************************************************************************)
LocalsDistinct ==
    status = "done" =>
        \A f \in {Null} \cup {a \in Alive : heap[a].tag = "Fun"} :
            LET params == IF f = Null THEN <<>> ELSE heap[f].params
                nodes  == Inside(heap)[IF f = Null THEN root ELSE heap[f].kids[1]]
            IN  /\ IsInjective(params)
                /\ \A a \in nodes : /\ IsInjective(Locals(heap[a]))
                                    /\ Range(Locals(heap[a])) \cap Range(params) = {}
                /\ \A a, b \in nodes :
                      a # b => Range(Locals(heap[a])) \cap Range(Locals(heap[b])) = {}

\* Every conversion ends.
Terminates == <>(status = "done")
-----------------------------------------------------------------------------
(***************************************************************************)
(* What LocalsDistinct asks of a term beside hygiene: no function has a    *)
(* parameter twice, and no name has the letters of those that the          *)
(* conversion makes up.                                                    *)
(***************************************************************************)
SpeltApart(h) ==
    \A a \in 1..Len(h) :
        /\ IsInjective(h[a].params)
        /\ \A x \in {h[a].name} \cup Range(h[a].params) \cup Uses(h[a].vals) :
              x.base \notin {"closure", "proj"}
=============================================================================
