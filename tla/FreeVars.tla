------------------------------ MODULE FreeVars ------------------------------
(***************************************************************************)
(* freeVars of src/convert.cpp: the free variables of a term, collected in *)
(* one set by one walk.  Closure conversion calls it for every function,   *)
(* on the term as it is at that moment.                                    *)
(*                                                                         *)
(* There is no set per scope.  A value inserts its name, and a closure     *)
(* that was pushed below the scope of a name erases that name when the     *)
(* walk leaves the scope, whoever inserted it.                             *)
(***************************************************************************)
EXTENDS AnfHeap

VARIABLES
    heap,        \* the nodes of the term
    freeVars,    \* the set that visitors and closures share
    walk         \* the stack of tasks, its top at the end

VisitTask(exp)   == [kind |-> "visit", exp |-> exp]
EraseTask(names) == [kind |-> "erase", names |-> names]

\* Slip: the erasure is pushed on top.
ScopeTasksEraseFirst(exp, i) ==
    <<VisitTask(heap[exp].kids[i]), EraseTask(BoundIn(heap[exp], i))>>

\* addWorklist: the tasks for the child i of node exp, the erasure below it.
ScopeTasks(exp, i) ==
    LET n == heap[exp]
    IN  (IF n.tag = "If" \/ (n.tag = "Join" /\ i = 1 /\ n.params = <<>>)
         THEN <<>> ELSE <<EraseTask(BoundIn(n, i))>>)
            \o <<VisitTask(n.kids[i])>>

\* The call: freeVars(exp).
CallFreeVars(exp) ==
    /\ freeVars' = {}
    /\ walk' = <<VisitTask(exp)>>

\* The values of a node, then tasks for its children.
Collect ==
    /\ walk # <<>> /\ Last(walk).kind = "visit"
    /\ LET exp == Last(walk).exp
       IN  /\ freeVars' = freeVars \cup Uses(heap[exp].vals)
           /\ walk' = Front(walk) \o
                 FlattenSeq([i \in 1..Len(heap[exp].kids) |-> ScopeTasks(exp, i)])

\* The closure pushed below a scope.
EraseNames ==
    /\ walk # <<>> /\ Last(walk).kind = "erase"
    /\ freeVars' = freeVars \ Last(walk).names
    /\ walk' = Front(walk)

\* One turn of the loop.
Walk == Collect \/ EraseNames
-----------------------------------------------------------------------------
\* What is left of a set of names when the first n tasks have run, too.
Kept(names, n) ==
    {x \in names : \A m \in 1..n : walk[m].kind = "erase" => x \notin walk[m].names}

\* What the walk will return: the set so far and what it has yet to visit,
\* without what a task still on the stack erases.
WillReturn ==
    Kept(freeVars, Len(walk)) \cup
        UNION {Kept(Free(heap)[walk[n].exp], n - 1) :
                  n \in {n \in 1..Len(walk) : walk[n].kind = "visit"}}
=============================================================================
