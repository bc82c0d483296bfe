------------------------------- MODULE Rename -------------------------------
(***************************************************************************)
(* Alpha renaming: src/rename.cpp, and the ast::WorklistVisitor of         *)
(* include/visitor.h it runs on.                                           *)
(*                                                                         *)
(* The pass is a depth-first walk without recursion.  The worklist is a    *)
(* stack of two sorts of tasks: visit a node, and run a closure that puts  *)
(* the binding of a parameter back to what it was outside its LamExp.  The *)
(* renaming map is one mutable map for the whole walk, so the walk is      *)
(* right only if the closures run exactly when the body has been left.     *)
(***************************************************************************)
EXTENDS Ast, SequencesExt

CONSTANT Programs       \* the programs rename() is called with

\* counter_ is an int: a program has no more LamExps than it can count.
ASSUME ProgramsAssumption ==
    \A p \in Programs : IsAst(p) /\ Cardinality(Lams(p)) <= IntMax

VARIABLES
    prog,       \* the program: its shape, and the names the parser gave it
    name,       \* the strings stored in the nodes, overwritten in place
    counter,    \* counter_
    rename,     \* rename_
    worklist,   \* the stack of tasks, its top at the end
    status      \* "run", "done", or "thrown" after a NotInScopeException

vars == <<prog, name, counter, rename, worklist, status>>

-----------------------------------------------------------------------------
NodeTask(n) == [kind |-> "node", exp |-> n]

\* The closure pushed for the LamExp n: the parameter, and the optional
\* that holds what the parameter was renamed to outside.
RestoreTask(n, x, old) ==
    [kind |-> "restore", exp |-> n, expParam |-> x, oldParam |-> old]

\* Slip: the visitor queues the first child every time.
KidTasksFirst(n) == [i \in 1..Len(prog.kids[n]) |-> NodeTask(prog.kids[n][1])]

\* addWorklist for each child, in order: the last child ends on top.
KidTasks(n) == [i \in 1..Len(prog.kids[n]) |-> NodeTask(prog.kids[n][i])]

Popped(t) == status = "run" /\ worklist # <<>> /\ t = Last(worklist)

Visiting(n, tags) == Popped(NodeTask(n)) /\ prog.tag[n] \in tags

-----------------------------------------------------------------------------
Init ==
    /\ prog \in Programs
    /\ name = prog.name
    /\ counter = 0
    /\ rename = EmptyMap
    /\ worklist = <<NodeTask(Root)>>
    /\ status = "run"

\* Slip: the closure is pushed after the body, so it runs before it.
VisitLamClosureFirst(n) ==
    LET renamed == Fresh(name[n], counter)
        old == IF name[n] \in DOMAIN rename THEN <<rename[name[n]]>> ELSE <<>>
    IN  /\ Visiting(n, {"Lam"})
        /\ counter' = counter + 1
        /\ rename' = Put(rename, name[n], renamed)
        /\ name' = [name EXCEPT ![n] = renamed]
        /\ worklist' = Front(worklist) \o KidTasks(n)
                           \o <<RestoreTask(n, name[n], old)>>
        /\ UNCHANGED <<prog, status>>

\* Slip: the counter is not incremented.
VisitLamSameCounter(n) ==
    LET renamed == Fresh(name[n], counter)
        old == IF name[n] \in DOMAIN rename THEN <<rename[name[n]]>> ELSE <<>>
    IN  /\ Visiting(n, {"Lam"})
        /\ rename' = Put(rename, name[n], renamed)
        /\ name' = [name EXCEPT ![n] = renamed]
        /\ worklist' = Front(worklist) \o <<RestoreTask(n, name[n], old)>>
                           \o KidTasks(n)
        /\ UNCHANGED <<prog, counter, status>>

\* operator()(LamExp &)
VisitLam(n) ==
    LET x       == name[n]
        renamed == Fresh(x, counter)
        old     == IF x \in DOMAIN rename THEN <<rename[x]>> ELSE <<>>
    IN  /\ Visiting(n, {"Lam"})
        /\ counter' = counter + 1
        /\ rename' = Put(rename, x, renamed)
        /\ name' = [name EXCEPT ![n] = renamed]
        /\ worklist' =
              Front(worklist) \o (<<RestoreTask(n, x, old)>> \o KidTasks(n))
        /\ UNCHANGED <<prog, status>>

\* operator()(VarExp &) of a variable in the map
VisitVar(n) ==
    /\ Visiting(n, {"Var"})
    /\ name[n] \in DOMAIN rename
    /\ name' = [name EXCEPT ![n] = rename[name[n]]]
    /\ worklist' = Front(worklist)
    /\ UNCHANGED <<prog, counter, rename, status>>

\* Slip: a variable that is not in the map is left as it is.
NotInScopeIgnored(n) ==
    /\ Visiting(n, {"Var"})
    /\ name[n] \notin DOMAIN rename
    /\ worklist' = Front(worklist)
    /\ UNCHANGED <<prog, name, counter, rename, status>>

\* operator()(VarExp &) of any other: the exception leaves rename(), and
\* the visitor and its worklist are gone.  (The worklist keeps the task here
\* to record where the walk was.)
NotInScope(n) ==
    /\ Visiting(n, {"Var"})
    /\ name[n] \notin DOMAIN rename
    /\ status' = "thrown"
    /\ UNCHANGED <<prog, name, counter, rename, worklist>>

\* Every other node does nothing of its own and queues its children.
VisitOther(n) ==
    /\ Visiting(n, {"Int", "App", "Bop", "If"})
    /\ worklist' = Front(worklist) \o KidTasks(n)
    /\ UNCHANGED <<prog, name, counter, rename, status>>

\* Slips in the closure: it forgets the outer binding, it changes a copy of
\* the map, or its task is read with top() and not popped.
RunRestoreErases ==
    LET t == Last(worklist)
    IN  /\ Popped(t) /\ t.kind = "restore"
        /\ rename' = Erase(rename, t.expParam)
        /\ worklist' = Front(worklist)
        /\ UNCHANGED <<prog, name, counter, status>>

RunRestoreCopy ==
    LET t == Last(worklist)
    IN  /\ Popped(t) /\ t.kind = "restore"
        /\ worklist' = Front(worklist)
        /\ UNCHANGED <<prog, name, counter, rename, status>>

RunRestoreUnpopped ==
    LET t == Last(worklist)
    IN  /\ Popped(t) /\ t.kind = "restore"
        /\ rename' = IF t.oldParam # <<>>
                     THEN Put(rename, t.expParam, t.oldParam[1])
                     ELSE Erase(rename, t.expParam)
        /\ UNCHANGED <<prog, name, counter, worklist, status>>

\* The closure pushed by VisitLam
RunRestore ==
    LET t == Last(worklist)
    IN  /\ Popped(t) /\ t.kind = "restore"
        /\ rename' = IF t.oldParam # <<>>
                     THEN Put(rename, t.expParam, t.oldParam[1])
                     ELSE Erase(rename, t.expParam)
        /\ worklist' = Front(worklist)
        /\ UNCHANGED <<prog, name, counter, status>>

Return ==
    /\ status = "run" /\ worklist = <<>>
    /\ status' = "done"
    /\ UNCHANGED <<prog, name, counter, rename, worklist>>

\* rename() is over.
Terminated == status # "run" /\ UNCHANGED vars

Next ==
    \/ \E n \in Exps(prog) :
          VisitLam(n) \/ VisitVar(n) \/ NotInScope(n) \/ VisitOther(n)
    \/ RunRestore
    \/ Return
    \/ Terminated

Spec == Init /\ [][Next]_vars

\* The loop of rename() never waits for anything.
FairSpec == Spec /\ WF_vars(Next)
-----------------------------------------------------------------------------
Task ==
    [kind : {"node"}, exp : Exps(prog)]
       \cup [kind : {"restore"}, exp : Exps(prog), expParam : Ident,
             oldParam : Seq(Ident)]

TypeOK ==
    /\ prog \in Programs
    /\ name \in [Exps(prog) -> Ident]
    /\ counter \in Nat
    /\ rename = [x \in DOMAIN rename |-> rename[x]]
    /\ \A x \in DOMAIN rename : rename[x] \in Ident
    /\ worklist \in Seq(Task)
    /\ status \in {"run", "done", "thrown"}

\* A task covers the addresses from Start to End - 1 that are still to be
\* visited, and none of them if it is a closure.
Start(t) == IF t.kind = "node" THEN t.exp ELSE prog.last[t.exp] + 1
End(t)   == prog.last[t.exp] + 1

\* The first address the walk has not visited yet.
Frontier ==
    IF worklist = <<>> THEN Len(prog.tag) + 1 ELSE Start(Last(worklist))

Visited == 1..(Frontier - 1)

\* The scope where a task starts and where it ends: a closure starts inside
\* the body of its LamExp and ends outside.
ScopeBefore(t) ==
    IF t.kind = "node" THEN prog.scope[t.exp] ELSE InnerScope(prog, t.exp)
ScopeAfter(t) == prog.scope[t.exp]

TopScope == IF worklist = <<>> THEN EmptyMap ELSE ScopeBefore(Last(worklist))

\* What the map must hold for a scope: each visible variable is renamed to
\* the present name of the LamExp that binds it.
Realize(scope) == [x \in DOMAIN scope |-> name[scope[x]]]

-----------------------------------------------------------------------------
(***************************************************************************)
(* The one mutable map is the lexical environment: whenever a task is      *)
(* taken from the worklist, rename_ holds exactly the variables in scope   *)
(* at that point and sends each to the new name of its innermost binder.   *)
(***************************************************************************)
MapIsLexicalScope ==
    worklist # <<>> => rename = Realize(ScopeBefore(Last(worklist)))

(***************************************************************************)
(* A variable that has been visited was bound, and carries the name its    *)
(* own binder carries now; no later step of the walk separates them.       *)
(***************************************************************************)
VariablesFollowBinder ==
    \A v \in Visited : prog.tag[v] = "Var" =>
        /\ prog.name[v] \in DOMAIN prog.scope[v]
        /\ name[v] = name[prog.scope[v][prog.name[v]]]

(***************************************************************************)
(* rename() throws exactly for the programs with a free variable.  A       *)
(* program whose walk ends is closed, and every node of it was visited.    *)
(***************************************************************************)
ThrowsIffOpen ==
    /\ status = "thrown" => \E v \in Exps(prog) : IsFree(prog, v)
    /\ status = "done" => IsClosed(prog)

(***************************************************************************)
(* What rename() leaves behind is the program AlphaRenamed describes       *)
(* without a walk: the numbers are given in the order of the addresses.    *)
(***************************************************************************)
ResultIsAlphaRenamed ==
    status = "done" => name = AlphaRenamed(prog).name

(***************************************************************************)
(* Two LamExps whose parameters were spelled alike are spelled differently *)
(* afterwards.  More precisely, two parameters collide only when they had  *)
(* the same letters and different numbers of trailing digits: x1 with the  *)
(* counter 0 and x with the counter 10 are both x10.  The later passes     *)
(* take it for granted that no two binders have one name.                  *)
(***************************************************************************)
VisitedLams == {n \in Visited : prog.tag[n] = "Lam"}

CollisionsNeedDigits ==
    \A l, m \in VisitedLams : (l # m /\ name[l] = name[m]) =>
        /\ prog.name[l].base = prog.name[m].base
        /\ Len(prog.name[l].digits) # Len(prog.name[m].digits)

(***************************************************************************)
(* Renaming captures nothing: between a variable and its binder no LamExp  *)
(* has a parameter that is now spelled like the variable.                  *)
(***************************************************************************)
NoCapture ==
    \A v \in Visited : (prog.tag[v] = "Var" /\ ~IsFree(prog, v)) =>
        \A l \in VisitedLams :
            (l > prog.scope[v][prog.name[v]] /\ l < v /\ v <= prog.last[l])
                => name[l] # name[v]

(***************************************************************************)
(* The string of a node is written at most once: no node is visited twice, *)
(* so no name is renamed again.                                            *)
(***************************************************************************)
RenamedOnce ==
    [][\A n \in Exps(prog) : name[n] # prog.name[n] => name'[n] = name[n]]_vars

\* Every walk ends.
Terminates == <>(status # "run")
-----------------------------------------------------------------------------
(***************************************************************************)
(* What a step relies on, besides the properties above.                    *)
(***************************************************************************)
\* Where a task on the stack ends, the one below it starts, in the same scope.
Linked(w) ==
    /\ w # <<>> => End(w[1]) = Len(prog.tag) + 1 /\ ScopeAfter(w[1]) = EmptyMap
    /\ \A i \in 1..(Len(w) - 1) :
          Start(w[i]) = End(w[i + 1]) /\ ScopeBefore(w[i]) = ScopeAfter(w[i + 1])

\* The present name of the LamExp that binds x in a scope, if there is one.
Outer(scope, x) == IF x \in DOMAIN scope THEN <<name[scope[x]]>> ELSE <<>>

\* A closure belongs to a LamExp that has been visited and keeps what the map
\* held for its parameter outside it.
RestoreOK(t) ==
    t.kind = "restore" =>
        /\ prog.tag[t.exp] = "Lam" /\ t.exp < Frontier
        /\ t.expParam = prog.name[t.exp]
        /\ t.oldParam = Outer(prog.scope[t.exp], prog.name[t.exp])

WalkOK ==
    /\ TypeOK
    /\ Linked(worklist)
    /\ \A i \in 1..Len(worklist) : RestoreOK(worklist[i])
    /\ rename = Realize(TopScope)
    /\ \A n \in Exps(prog) : n >= Frontier => name[n] = prog.name[n]
    /\ VariablesFollowBinder
    /\ status = "thrown" => \E v \in Exps(prog) : IsFree(prog, v)
    /\ status = "done" => worklist = <<>>

\* The counter counts the LamExps visited, and each node visited carries the
\* name AlphaRenamed gives it: the numbers follow the addresses.
Numbered ==
    /\ counter = Cardinality(VisitedLams)
    /\ \A n \in Visited : name[n] = NewName(prog, n)

Inv == WalkOK /\ Numbered
=============================================================================
