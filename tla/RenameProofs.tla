---------------------------- MODULE RenameProofs ----------------------------
(***************************************************************************)
(* Proofs about module Rename, for every set of programs.                  *)
(*                                                                         *)
(* The walk is right because of what is on its stack: each task ends at    *)
(* the address and in the scope where the task below it starts (Linked).   *)
(* So when a task is taken, whatever it pushes covers the same addresses   *)
(* and hands over the same scope, and the map can be related to the scope  *)
(* at the top of the stack alone.                                          *)
(***************************************************************************)
EXTENDS Rename, AstLemmas

-----------------------------------------------------------------------------
(***************************************************************************)
(* The stack                                                               *)
(***************************************************************************)

\* The top task may be replaced by tasks that cover what it covered.
LEMMA Relink ==
  ASSUME NEW w \in Seq(Task), w # <<>>, Linked(w),
         NEW q \in Seq(Task),
         q # <<>> => /\ End(q[1]) = End(Last(w))
                     /\ ScopeAfter(q[1]) = ScopeAfter(Last(w)),
         \A i \in 1..(Len(q) - 1) :
            Start(q[i]) = End(q[i + 1]) /\ ScopeBefore(q[i]) = ScopeAfter(q[i + 1])
  PROVE  Linked(Front(w) \o q)
<1>. DEFINE m == Len(w) - 1
            v == Front(w) \o q
<1>1. /\ Len(w) = m + 1 /\ m \in Nat /\ Len(q) \in Nat
      /\ q # <<>> => Len(q) > 0
  BY EmptySeq, LenProperties
<1>2. /\ Last(w) = w[Len(w)] /\ v \in Seq(Task) /\ Len(v) = m + Len(q)
      /\ \A i \in 1..m : v[i] = w[i]
      /\ \A i \in 1..Len(q) : v[m + i] = q[i]
  <2>1. /\ Last(w) = w[Len(w)] /\ Front(w) \o q \in Seq(Task)
        /\ Len(Front(w) \o q) = Len(w) - 1 + Len(q)
        /\ \A i \in 1..(Len(w) - 1) : (Front(w) \o q)[i] = w[i]
        /\ \A i \in 1..Len(q) : (Front(w) \o q)[Len(w) - 1 + i] = q[i]
    BY ONLY Replace, w \in Seq(Task), w # <<>>, q \in Seq(Task)
  <2>. QED  BY <2>1
<1>. HIDE DEF m, v
<1>3. v # <<>> => End(v[1]) = Len(prog.tag) + 1 /\ ScopeAfter(v[1]) = EmptyMap
  <2>0. End(w[1]) = Len(prog.tag) + 1 /\ ScopeAfter(w[1]) = EmptyMap
    BY DEF Linked
  <2>1. CASE m > 0
    BY <2>0, <2>1, <1>1, <1>2
  <2>2. CASE m = 0 /\ q # <<>>
    <3>1. v[1] = q[1] /\ Last(w) = w[1]
      BY <2>2, <1>1, <1>2
    <3>. QED  BY <2>0, <3>1, <2>2
  <2>3. CASE m = 0 /\ q = <<>>
    <3>1. Len(v) = 0
      BY <2>3, <1>2, EmptySeq
    <3>. QED  BY <3>1, <1>2, EmptySeq
  <2>. QED  BY <1>1, <2>1, <2>2, <2>3
<1>4. ASSUME NEW i \in 1..(Len(v) - 1)
      PROVE  Start(v[i]) = End(v[i + 1]) /\ ScopeBefore(v[i]) = ScopeAfter(v[i + 1])
  <2>0. \A j \in 1..m : Start(w[j]) = End(w[j + 1])
                        /\ ScopeBefore(w[j]) = ScopeAfter(w[j + 1])
    BY <1>1 DEF Linked
  <2>1. CASE i < m
    <3>1. v[i] = w[i] /\ v[i + 1] = w[i + 1] /\ i \in 1..m
      BY <2>1, <1>1, <1>2
    <3>. QED  BY <2>0, <3>1
  <2>2. CASE i = m
    <3>1. v[i] = w[i] /\ i \in 1..m /\ Last(w) = w[i + 1]
      BY <2>2, <1>1, <1>2
    <3>2. Len(q) > 0 /\ v[i + 1] = q[1]
      BY <2>2, <1>1, <1>2
    <3>3. q # <<>>
      BY <3>2, EmptySeq
    <3>. QED  BY <2>0, <3>1, <3>2, <3>3
  <2>3. CASE i > m
    <3>. DEFINE j == i - m
    <3>1. j \in 1..(Len(q) - 1) /\ v[m + j] = q[j] /\ v[m + (j + 1)] = q[j + 1]
      BY <2>3, <1>1, <1>2
    <3>2. i = m + j /\ i + 1 = m + (j + 1)
      BY <2>3, <1>1
    <3>. QED  BY <3>1, <3>2
  <2>. QED  BY <1>1, <1>2, <2>1, <2>2, <2>3
<1>5. \A i \in 1..(Len(v) - 1) :
         Start(v[i]) = End(v[i + 1]) /\ ScopeBefore(v[i]) = ScopeAfter(v[i + 1])
  BY <1>4
<1>6. Linked(v)
  BY <1>3, <1>5 DEF Linked
<1>. QED  BY <1>6 DEF v
-----------------------------------------------------------------------------
(***************************************************************************)
(* One step of the loop                                                    *)
(***************************************************************************)

\* The current program is an Ast.
LEMMA ProgIsAst ==
  ASSUME TypeOK
  PROVE  IsAst(prog) /\ Len(prog.tag) \in Nat
BY ProgramsAssumption, RootFacts DEF TypeOK

\* The top of the stack.
LEMMA Top ==
  ASSUME WalkOK, worklist # <<>>
  PROVE  /\ Last(worklist) \in Task
         /\ RestoreOK(Last(worklist))
         /\ Frontier = Start(Last(worklist)) /\ Frontier \in 1..(Len(prog.tag) + 1)
         /\ TopScope = ScopeBefore(Last(worklist))
<1>1. worklist \in Seq(Task)
  BY DEF WalkOK, TypeOK
<1>2. Last(worklist) \in Task /\ RestoreOK(Last(worklist))
  <2>1. Len(worklist) \in 1..Len(worklist)
    BY <1>1, EmptySeq, LenProperties
  <2>. QED  BY <1>1, <2>1, ElementOfSeq DEF WalkOK, Last
<1>3. Last(worklist).exp \in Exps(prog)
  BY <1>2 DEF Task
<1>4. IsAst(prog)
  BY ProgIsAst DEF WalkOK
<1>5. Start(Last(worklist)) \in 1..(Len(prog.tag) + 1)
  BY <1>3, <1>4, NodeFacts DEF Start
<1>. QED  BY <1>2, <1>5 DEF Frontier, TopScope

\* What the stack is after a step.
LEMMA StackStep ==
  ASSUME WalkOK, worklist # <<>>, prog' = prog,
         NEW q \in Seq(Task), worklist' = Front(worklist) \o q,
         q # <<>> => /\ End(q[1]) = End(Last(worklist))
                     /\ ScopeAfter(q[1]) = ScopeAfter(Last(worklist)),
         \A i \in 1..(Len(q) - 1) :
            Start(q[i]) = End(q[i + 1]) /\ ScopeBefore(q[i]) = ScopeAfter(q[i + 1])
  PROVE  /\ worklist' \in Seq(Task') /\ Linked(worklist)'
         /\ \A i \in 1..Len(worklist') :
               \/ i \in 1..Len(worklist) /\ worklist'[i] = worklist[i]
               \/ \E j \in 1..Len(q) : worklist'[i] = q[j]
         /\ Frontier' = IF q = <<>> THEN End(Last(worklist)) ELSE Start(Last(q))
         /\ TopScope' = IF q = <<>> THEN ScopeAfter(Last(worklist))
                                    ELSE ScopeBefore(Last(q))
<1>. DEFINE w == worklist
            v == Front(w) \o q
            m == Len(w) - 1
<1>1. Task' = Task
  BY DEF Task, Exps
<1>2. w \in Seq(Task) /\ w # <<>> /\ Linked(w)
  BY DEF WalkOK, TypeOK
<1>3. worklist' = v /\ w = worklist
  OBVIOUS
<1>. HIDE DEF w
<1>4. Linked(v)
  BY <1>2, <1>3, Relink
<1>5. Len(w) = m + 1 /\ m \in Nat /\ Len(q) \in Nat /\ (q # <<>> => Len(q) > 0)
  BY <1>2, EmptySeq, LenProperties
<1>6. /\ Last(w) = w[Len(w)] /\ v \in Seq(Task) /\ Len(v) = m + Len(q)
      /\ \A i \in 1..m : v[i] = w[i]
      /\ \A i \in 1..Len(q) : v[m + i] = q[i]
  <2>1. /\ Last(w) = w[Len(w)] /\ Front(w) \o q \in Seq(Task)
        /\ Len(Front(w) \o q) = Len(w) - 1 + Len(q)
        /\ \A i \in 1..(Len(w) - 1) : (Front(w) \o q)[i] = w[i]
        /\ \A i \in 1..Len(q) : (Front(w) \o q)[Len(w) - 1 + i] = q[i]
    BY ONLY <1>2, q \in Seq(Task), Replace
  <2>. QED  BY <2>1
<1>. HIDE DEF v, m
<1>7. Linked(worklist)'
  BY <1>3, <1>4 DEF Linked, Start, End, ScopeBefore, ScopeAfter, InnerScope
<1>8. \A i \in 1..Len(v) : \/ i \in 1..Len(w) /\ v[i] = w[i]
                           \/ \E j \in 1..Len(q) : v[i] = q[j]
  <2>1. ASSUME NEW i \in 1..Len(v), i > m
        PROVE  \E j \in 1..Len(q) : v[i] = q[j]
    <3>1. i - m \in 1..Len(q) /\ i = m + (i - m)
      BY <1>5, <1>6, <2>1
    <3>2. v[i] = q[i - m]
      BY <1>6, <3>1
    <3>. QED  BY <3>1, <3>2
  <2>2. ASSUME NEW i \in 1..Len(v), ~(i > m)
        PROVE  i \in 1..Len(w) /\ v[i] = w[i]
    BY <1>5, <1>6, <2>2
  <2>. QED  BY <2>1, <2>2
<1>. DEFINE F == IF q = <<>> THEN End(Last(w)) ELSE Start(Last(q))
            T == IF q = <<>> THEN ScopeAfter(Last(w)) ELSE ScopeBefore(Last(q))
<1>9. Frontier' = F /\ TopScope' = T
  <2>1. CASE q # <<>>
    <3>1. Len(v) > 0 /\ v[Len(v)] = q[Len(q)]
      BY <1>5, <1>6, <2>1
    <3>2. v # <<>> /\ Last(v) = Last(q)
      BY <3>1, EmptySeq DEF Last
    <3>. QED  BY <1>3, <2>1, <3>2
              DEF Frontier, TopScope, Start, ScopeBefore, InnerScope
  <2>2. CASE q = <<>> /\ m > 0
    <3>1. Len(q) = 0
      BY <2>2, EmptySeq
    <3>2. Len(v) > 0 /\ v[Len(v)] = w[m] /\ m \in 1..(Len(w) - 1)
      BY <1>5, <1>6, <2>2, <3>1
    <3>3. v # <<>> /\ Last(v) = w[m]
      BY <3>2, EmptySeq DEF Last
    <3>4. Start(w[m]) = End(w[m + 1]) /\ ScopeBefore(w[m]) = ScopeAfter(w[m + 1])
      BY <1>2, <3>2 DEF Linked
    <3>5. Frontier' = Start(w[m]) /\ TopScope' = ScopeBefore(w[m])
      BY <1>3, <3>3 DEF Frontier, TopScope, Start, ScopeBefore, InnerScope
    <3>. QED  BY <1>5, <1>6, <2>2, <3>4, <3>5
  <2>3. CASE q = <<>> /\ m = 0
    <3>1. Len(v) = 0
      BY <1>6, <2>3, EmptySeq
    <3>2. v = <<>>
      BY <1>6, <3>1, EmptySeq
    <3>3. Last(w) = w[1]
      BY <1>5, <1>6, <2>3
    <3>4. Frontier' = Len(prog.tag) + 1 /\ TopScope' = EmptyMap
      BY <1>3, <3>2 DEF Frontier, TopScope, EmptyMap
    <3>5. End(w[1]) = Len(prog.tag) + 1 /\ ScopeAfter(w[1]) = EmptyMap
      BY <1>2 DEF Linked
    <3>. QED  BY <2>3, <3>3, <3>4, <3>5
  <2>. QED  BY <1>5, <2>1, <2>2, <2>3
<1>10. worklist' \in Seq(Task')
  BY <1>1, <1>3, <1>6
<1>. QED  BY <1>3, <1>7, <1>8, <1>9, <1>10

\* Nothing a scope or a closure refers to is renamed again.
LEMMA Step ==
  ASSUME WalkOK, status = "run", worklist # <<>>, prog' = prog, status' \in {"run"},
         NEW q \in Seq(Task), worklist' = Front(worklist) \o q,
         q # <<>> => /\ End(q[1]) = End(Last(worklist))
                     /\ ScopeAfter(q[1]) = ScopeAfter(Last(worklist)),
         \A i \in 1..(Len(q) - 1) :
            Start(q[i]) = End(q[i + 1]) /\ ScopeBefore(q[i]) = ScopeAfter(q[i + 1]),
         \A i \in 1..Len(q) : RestoreOK(q[i])',
         counter' \in Nat, name' \in [Exps(prog) -> Ident],
         \A n \in Exps(prog) :
            name'[n] # name[n] => n = Frontier /\ Frontier' = Frontier + 1,
         Frontier' = Frontier
            \/ /\ Frontier' = Frontier + 1 /\ Frontier \in Exps(prog)
               /\ prog.tag[Frontier] = "Var" =>
                     LET x == prog.name[Frontier]
                     IN  /\ x \in DOMAIN prog.scope[Frontier]
                         /\ name'[Frontier] = name[prog.scope[Frontier][x]],
         rename' = Realize(TopScope)'
  PROVE  WalkOK'
<1>1. IsAst(prog) /\ Len(prog.tag) \in Nat
  BY ProgIsAst DEF WalkOK
<1>2. Frontier \in 1..(Len(prog.tag) + 1)
  BY Top
<1>3. Frontier' \in Int /\ Frontier' >= Frontier
  BY <1>2
<1>4. \A n \in Exps(prog) : n < Frontier => name'[n] = name[n]
  BY <1>2 DEF Exps
<1>5. /\ worklist' \in Seq(Task') /\ Linked(worklist)'
      /\ \A i \in 1..Len(worklist') :
            \/ i \in 1..Len(worklist) /\ worklist'[i] = worklist[i]
            \/ \E j \in 1..Len(q) : worklist'[i] = q[j]
  BY StackStep
<1>6. ASSUME NEW t \in Task, RestoreOK(t)
      PROVE  RestoreOK(t)'
  <2>. SUFFICES ASSUME t.kind = "restore"
                PROVE  /\ prog.tag[t.exp] = "Lam" /\ t.exp < Frontier'
                       /\ t.expParam = prog.name[t.exp]
                       /\ t.oldParam = Outer(prog.scope[t.exp], prog.name[t.exp])'
    BY DEF RestoreOK
  <2>1. /\ prog.tag[t.exp] = "Lam" /\ t.exp < Frontier /\ t.exp \in Exps(prog)
        /\ t.expParam = prog.name[t.exp]
        /\ t.oldParam = Outer(prog.scope[t.exp], prog.name[t.exp])
    BY <1>6 DEF RestoreOK, Task
  <2>2. t.exp \in Int
    BY <2>1 DEF Exps
  <2>3. \A x \in DOMAIN prog.scope[t.exp] :
           name'[prog.scope[t.exp][x]] = name[prog.scope[t.exp][x]]
    <3>. SUFFICES ASSUME NEW x \in DOMAIN prog.scope[t.exp]
                  PROVE  name'[prog.scope[t.exp][x]] = name[prog.scope[t.exp][x]]
      OBVIOUS
    <3>1. prog.scope[t.exp][x] \in 1..(t.exp - 1) /\ prog.scope[t.exp][x] \in Exps(prog)
      BY <1>1, <2>1, ScopeFacts
    <3>. QED  BY <1>2, <1>4, <2>1, <2>2, <3>1
  <2>4. Outer(prog.scope[t.exp], prog.name[t.exp])'
           = Outer(prog.scope[t.exp], prog.name[t.exp])
    BY <2>3 DEF Outer
  <2>. QED  BY <1>2, <1>3, <2>1, <2>2, <2>4
<1>7. (\A i \in 1..Len(worklist) : RestoreOK(worklist[i]))'
  <2>1. ASSUME NEW i \in 1..Len(worklist')
        PROVE  \E t : t = worklist'[i] /\ RestoreOK(t)'
    <3>1. CASE i \in 1..Len(worklist) /\ worklist'[i] = worklist[i]
      <4>1. PICK t : t = worklist[i]
        OBVIOUS
      <4>2. t \in Task /\ RestoreOK(t)
        BY <3>1, <4>1, ElementOfSeq DEF WalkOK, TypeOK
      <4>. QED  BY <1>6, <3>1, <4>1, <4>2
    <3>2. CASE \E j \in 1..Len(q) : worklist'[i] = q[j]
      BY <3>2
    <3>. QED  BY <1>5, <2>1, <3>1, <3>2
  <2>2. ASSUME NEW i \in 1..Len(worklist')
        PROVE  RestoreOK(worklist[i])'
    <3>1. PICK t : t = worklist'[i] /\ RestoreOK(t)'
      BY <2>1
    <3>. QED  BY ONLY <3>1 DEF RestoreOK, Outer
  <2>. QED  BY <2>2
<1>8. VariablesFollowBinder'
  <2>0. Visited' = 1..(Frontier' - 1)
    BY DEF Visited
  <2>. SUFFICES ASSUME NEW v \in 1..(Frontier' - 1), prog.tag[v] = "Var"
                PROVE  /\ prog.name[v] \in DOMAIN prog.scope[v]
                       /\ name'[v] = name'[prog.scope[v][prog.name[v]]]
    BY <2>0 DEF VariablesFollowBinder
  <2>1. v \in Int /\ 1 <= v /\ v < Frontier'
    BY <1>3
  <2>2. v \in Exps(prog)
    BY <1>1, <1>2 DEF Exps
  <2>. DEFINE b == prog.scope[v][prog.name[v]]
  <2>3. ASSUME prog.name[v] \in DOMAIN prog.scope[v]
        PROVE  b \in Exps(prog) /\ b \in Int /\ b < v /\ name'[b] = name[b]
    <3>1. b \in 1..(v - 1) /\ b \in Exps(prog)
      BY <1>1, <2>2, <2>3, ScopeFacts
    <3>. HIDE DEF b
    <3>. QED  BY <1>2, <1>4, <2>1, <3>1
  <2>4. CASE v < Frontier
    <3>1. prog.name[v] \in DOMAIN prog.scope[v] /\ name[v] = name[b]
      BY <1>2, <2>1, <2>4 DEF WalkOK, VariablesFollowBinder, Visited
    <3>. QED  BY <1>4, <2>2, <2>3, <2>4, <3>1
  <2>5. CASE v = Frontier
    <3>1. prog.name[v] \in DOMAIN prog.scope[v] /\ name'[v] = name[b]
      BY <2>1, <2>5
    <3>. QED  BY <2>3, <3>1
  <2>. QED  BY <1>2, <2>1, <2>4, <2>5
<1>9. \A n \in Exps(prog') : n >= Frontier' => name'[n] = prog'.name[n]
  <2>. SUFFICES ASSUME NEW n \in Exps(prog), n >= Frontier'
                PROVE  name'[n] = prog.name[n]
    OBVIOUS
  <2>1. n \in Int /\ n >= Frontier
    BY <1>2, <1>3 DEF Exps
  <2>2. name[n] = prog.name[n]
    BY <2>1 DEF WalkOK
  <2>3. ~(n = Frontier /\ Frontier' = Frontier + 1)
    BY <1>2, <2>1
  <2>. QED  BY <2>2, <2>3
<1>10. TypeOK'
  <2>1. rename' = [x \in DOMAIN TopScope' |-> name'[TopScope'[x]]]
    BY DEF Realize
  <2>2. \A x \in DOMAIN TopScope' : TopScope'[x] \in Exps(prog)
    <3>1. CASE worklist' = <<>>
      BY <3>1 DEF TopScope, EmptyMap
    <3>2. CASE worklist' # <<>>
      <4>1. Last(worklist') \in Task'
        BY <1>5, <3>2, Replace
      <4>2. PICK t : t = Last(worklist')
        OBVIOUS
      <4>3. t.exp \in Exps(prog)
        BY <4>1, <4>2 DEF Task
      <4>4. TopScope' = IF t.kind = "node" THEN prog.scope[t.exp]
                                           ELSE InnerScope(prog, t.exp)
        BY <3>2, <4>2 DEF TopScope, ScopeBefore, InnerScope
      <4>5. \A y \in DOMAIN prog.scope[t.exp] : prog.scope[t.exp][y] \in Exps(prog)
        BY <1>1, <4>3, ScopeFacts
      <4>. QED  BY <4>3, <4>4, <4>5 DEF InnerScope, Put
    <3>. QED  BY <3>1, <3>2
  <2>3. /\ rename' = [x \in DOMAIN rename' |-> rename'[x]]
        /\ \A x \in DOMAIN rename' : rename'[x] \in Ident
    BY <2>1, <2>2
  <2>. QED  BY <1>5, <2>3 DEF WalkOK, TypeOK
<1>11. status' = "run"
  OBVIOUS
<1>. QED  BY <1>5, <1>7, <1>8, <1>9, <1>10, <1>11 DEF WalkOK
-----------------------------------------------------------------------------
(***************************************************************************)
(* The actions                                                             *)
(***************************************************************************)

\* A node that is about to be visited.
LEMMA VisitFacts ==
  ASSUME WalkOK, NEW n \in Exps(prog), Popped(NodeTask(n))
  PROVE  /\ worklist # <<>> /\ status = "run" /\ Last(worklist) = NodeTask(n)
         /\ Frontier = n /\ TopScope = prog.scope[n] /\ n \in Nat
         /\ rename = Realize(prog.scope[n]) /\ name[n] = prog.name[n]
         /\ End(Last(worklist)) = prog.last[n] + 1
         /\ ScopeAfter(Last(worklist)) = prog.scope[n]
         /\ KidTasks(n) \in Seq(Task)
<1>1. worklist # <<>> /\ status = "run" /\ Last(worklist) = NodeTask(n)
  BY DEF Popped
<1>2. Frontier = n /\ TopScope = prog.scope[n]
  BY <1>1, Top DEF NodeTask, Start, ScopeBefore
<1>3. IsAst(prog)
  BY ProgIsAst DEF WalkOK
<1>4. n \in Nat /\ prog.kids[n] \in Seq(Exps(prog))
  BY <1>3, NodeFacts
<1>5. rename = Realize(prog.scope[n]) /\ name[n] = prog.name[n]
  BY <1>2, <1>4 DEF WalkOK
<1>6. KidTasks(n) \in Seq(Task)
  <2>1. Len(prog.kids[n]) \in Nat
    BY <1>4, LenProperties
  <2>2. \A i \in 1..Len(prog.kids[n]) : NodeTask(prog.kids[n][i]) \in Task
    BY <1>4, ElementOfSeq DEF NodeTask, Task
  <2>. QED  BY <2>1, <2>2, IsASeq DEF KidTasks
<1>. QED  BY <1>1, <1>2, <1>4, <1>5, <1>6 DEF NodeTask, End, ScopeAfter

LEMMA VisitLamWalk ==
  ASSUME WalkOK, NEW n \in Exps(prog), VisitLam(n)
  PROVE  WalkOK' /\ Frontier = n /\ Frontier' = n + 1
<1>0. PICK x, new, old :
         /\ x = name[n] /\ new = Fresh(x, counter)
         /\ old = IF x \in DOMAIN rename THEN <<rename[x]>> ELSE <<>>
  OBVIOUS
<1>. DEFINE r == RestoreTask(n, x, old)
            b == NodeTask(n + 1)
            q == <<r, b>>
<1>1. /\ worklist # <<>> /\ status = "run" /\ Last(worklist) = NodeTask(n)
      /\ Frontier = n /\ TopScope = prog.scope[n] /\ n \in Nat
      /\ rename = Realize(prog.scope[n]) /\ name[n] = prog.name[n]
      /\ End(Last(worklist)) = prog.last[n] + 1
      /\ ScopeAfter(Last(worklist)) = prog.scope[n]
  BY VisitFacts DEF VisitLam, Visiting
<1>2. IsAst(prog) /\ prog.tag[n] = "Lam"
  BY ProgIsAst DEF WalkOK, VisitLam, Visiting
<1>3. /\ prog.kids[n] \in Seq(Exps(prog)) /\ Len(prog.kids[n]) = 1
      /\ prog.kids[n][1] = n + 1 /\ n + 1 \in Exps(prog)
      /\ prog.last[n] = prog.last[n + 1] /\ prog.last[n] \in Int
      /\ prog.scope[n + 1] = Put(prog.scope[n], prog.name[n], n)
  <2>1. /\ prog.kids[n] \in Seq(Exps(prog)) /\ Len(prog.kids[n]) = Arity[prog.tag[n]]
        /\ prog.last[n] \in Int
    BY <1>2, NodeFacts
  <2>2. Len(prog.kids[n]) = 1 /\ prog.kids[n] # <<>>
    <3>1. Len(prog.kids[n]) = 1
      BY <1>2, <2>1 DEF Arity
    <3>. QED  BY <3>1
  <2>3. prog.kids[n][1] = n + 1 /\ prog.last[n] = prog.last[n + 1]
    BY <1>2, <2>2, NodeFacts
  <2>4. n + 1 \in Exps(prog)
    BY <2>1, <2>2, <2>3, ElementOfSeq
  <2>5. prog.scope[prog.kids[n][1]] = InnerScope(prog, n)
    BY <1>2, <2>2, NodeFacts
  <2>. QED  BY <1>2, <2>1, <2>2, <2>3, <2>4, <2>5 DEF InnerScope
<1>4. KidTasks(n) = <<b>>
  BY <1>3 DEF KidTasks
<1>5. /\ prog' = prog /\ status' = "run" /\ counter' = counter + 1
      /\ rename' = Put(rename, x, new) /\ name' = [name EXCEPT ![n] = new]
      /\ worklist' = Front(worklist) \o q
  BY <1>0, <1>1, <1>4 DEF VisitLam
<1>6. x \in Ident /\ counter \in Nat /\ new \in Ident /\ name \in [Exps(prog) -> Ident]
  BY <1>0, FreshType DEF WalkOK, TypeOK
<1>7. old \in Seq(Ident) /\ old = Outer(prog.scope[n], prog.name[n])
  <2>1. \A y \in DOMAIN rename : rename[y] \in Ident
    BY DEF WalkOK, TypeOK
  <2>2. old = Outer(prog.scope[n], prog.name[n])
    BY <1>0, <1>1 DEF Realize, Outer
  <2>. QED  BY <1>0, <2>1, <2>2
<1>8. r \in Task /\ b \in Task
  BY <1>3, <1>6, <1>7 DEF RestoreTask, NodeTask, Task
<1>9. /\ q \in Seq(Task) /\ Len(q) = 2 /\ q[1] = r /\ q[2] = b
      /\ q # <<>> /\ Last(q) = b
  BY <1>8 DEF Last
<1>10. /\ r.kind = "restore" /\ r.exp = n /\ r.expParam = x /\ r.oldParam = old
       /\ b.kind = "node" /\ b.exp = n + 1
  BY DEF RestoreTask, NodeTask
<1>. HIDE DEF q, r, b
<1>11. /\ End(r) = End(Last(worklist)) /\ ScopeAfter(r) = ScopeAfter(Last(worklist))
       /\ Start(r) = End(b) /\ ScopeBefore(r) = ScopeAfter(b)
  BY <1>1, <1>2, <1>3, <1>10 DEF Start, End, ScopeBefore, ScopeAfter, InnerScope
<1>12. /\ q # <<>> => /\ End(q[1]) = End(Last(worklist))
                      /\ ScopeAfter(q[1]) = ScopeAfter(Last(worklist))
       /\ \A i \in 1..(Len(q) - 1) :
            Start(q[i]) = End(q[i + 1]) /\ ScopeBefore(q[i]) = ScopeAfter(q[i + 1])
  BY <1>9, <1>11
<1>13. Frontier' = n + 1 /\ TopScope' = prog.scope[n + 1]
  <2>1. Frontier' = Start(b) /\ TopScope' = ScopeBefore(b)
    BY <1>1, <1>5, <1>9, <1>12, StackStep
  <2>. QED  BY <2>1, <1>10 DEF Start, ScopeBefore
<1>14. \A y \in DOMAIN prog.scope[n] :
          prog.scope[n][y] # n /\ name'[prog.scope[n][y]] = name[prog.scope[n][y]]
  <2>. SUFFICES ASSUME NEW y \in DOMAIN prog.scope[n]
                PROVE  prog.scope[n][y] # n
                       /\ name'[prog.scope[n][y]] = name[prog.scope[n][y]]
    OBVIOUS
  <2>1. prog.scope[n][y] \in 1..(n - 1) /\ prog.scope[n][y] \in Exps(prog)
    BY <1>2, ScopeFacts
  <2>. QED  BY <1>1, <1>5, <1>6, <2>1
<1>15. rename' = Realize(TopScope)'
  <2>1. rename' = [y \in DOMAIN prog.scope[n] \cup {x} |->
                      IF y = x THEN new ELSE name[prog.scope[n][y]]]
    BY <1>0, <1>1, <1>5 DEF Put, Realize
  <2>2. Realize(TopScope)' = [y \in DOMAIN prog.scope[n] \cup {x} |->
                      name'[IF y = x THEN n ELSE prog.scope[n][y]]]
    BY <1>0, <1>1, <1>3, <1>13 DEF Realize, Put
  <2>3. name'[n] = new
    BY <1>5, <1>6
  <2>. QED  BY <1>14, <2>1, <2>2, <2>3
<1>16. \A i \in 1..Len(q) : RestoreOK(q[i])'
  <2>1. RestoreOK(r)'
    <3>1. Outer(prog.scope[n], prog.name[n])' = Outer(prog.scope[n], prog.name[n])
      BY <1>5, <1>14 DEF Outer
    <3>. QED  BY <1>0, <1>1, <1>2, <1>5, <1>7, <1>10, <1>13, <3>1 DEF RestoreOK
  <2>2. RestoreOK(b)'
    BY <1>10 DEF RestoreOK
  <2>. QED  BY <1>9, <2>1, <2>2
<1>17. name' \in [Exps(prog) -> Ident] /\ counter' \in Nat
       /\ \A m \in Exps(prog) : name'[m] # name[m] => m = n
  BY <1>5, <1>6
<1>18. /\ Frontier' = Frontier + 1 /\ Frontier \in Exps(prog)
       /\ prog.tag[Frontier] # "Var"
  BY <1>1, <1>2, <1>13
<1>19. WalkOK'
  BY <1>1, <1>5, <1>9, <1>12, <1>15, <1>16, <1>17, <1>18, Step
<1>. QED  BY <1>1, <1>13, <1>19

LEMMA VisitVarWalk ==
  ASSUME WalkOK, NEW n \in Exps(prog), VisitVar(n)
  PROVE  WalkOK' /\ Frontier = n /\ Frontier' = n + 1
<1>1. /\ worklist # <<>> /\ status = "run" /\ Last(worklist) = NodeTask(n)
      /\ Frontier = n /\ n \in Nat
      /\ rename = Realize(prog.scope[n]) /\ name[n] = prog.name[n]
      /\ End(Last(worklist)) = prog.last[n] + 1
      /\ ScopeAfter(Last(worklist)) = prog.scope[n]
  BY VisitFacts DEF VisitVar, Visiting
<1>2. IsAst(prog) /\ prog.tag[n] = "Var"
  BY ProgIsAst DEF WalkOK, VisitVar, Visiting
<1>3. prog.last[n] = n
  <2>1. prog.kids[n] \in Seq(Exps(prog)) /\ Len(prog.kids[n]) = 0
    BY <1>2, NodeFacts DEF Arity
  <2>2. prog.kids[n] = <<>>
    BY <2>1, EmptySeq
  <2>. QED  BY <1>2, <2>2, NodeFacts
<1>4. name \in [Exps(prog) -> Ident] /\ counter \in Nat /\ worklist \in Seq(Task)
      /\ \A x \in DOMAIN rename : rename[x] \in Ident
  BY DEF WalkOK, TypeOK
<1>0. PICK q : q = <<>>
  OBVIOUS
<1>5. /\ prog' = prog /\ status' = "run" /\ counter' = counter /\ rename' = rename
      /\ name[n] \in DOMAIN rename
      /\ name' = [name EXCEPT ![n] = rename[name[n]]]
      /\ worklist' = Front(worklist) \o q
  <2>1. Front(worklist) \in Seq(Task)
    BY <1>1, <1>4, Replace, EmptySeq
  <2>. QED  BY <1>0, <1>1, <2>1, ConcatEmptySeq DEF VisitVar
<1>6. /\ q \in Seq(Task)
      /\ q # <<>> => /\ End(q[1]) = End(Last(worklist))
                     /\ ScopeAfter(q[1]) = ScopeAfter(Last(worklist))
      /\ \A i \in 1..(Len(q) - 1) :
            Start(q[i]) = End(q[i + 1]) /\ ScopeBefore(q[i]) = ScopeAfter(q[i + 1])
      /\ \A i \in 1..Len(q) : RestoreOK(q[i])'
  BY <1>0
<1>7. Frontier' = n + 1 /\ TopScope' = prog.scope[n]
  <2>1. Frontier' = End(Last(worklist)) /\ TopScope' = ScopeAfter(Last(worklist))
    <3>1. /\ Frontier' = IF q = <<>> THEN End(Last(worklist)) ELSE Start(Last(q))
          /\ TopScope' = IF q = <<>> THEN ScopeAfter(Last(worklist))
                                     ELSE ScopeBefore(Last(q))
      BY <1>1, <1>5, <1>6, StackStep
    <3>. QED  BY <1>0, <3>1
  <2>. QED  BY <1>1, <1>3, <2>1
<1>8. \A y \in DOMAIN prog.scope[n] :
         prog.scope[n][y] # n /\ name'[prog.scope[n][y]] = name[prog.scope[n][y]]
  <2>. SUFFICES ASSUME NEW y \in DOMAIN prog.scope[n]
                PROVE  prog.scope[n][y] # n
                       /\ name'[prog.scope[n][y]] = name[prog.scope[n][y]]
    OBVIOUS
  <2>1. prog.scope[n][y] \in 1..(n - 1) /\ prog.scope[n][y] \in Exps(prog)
    BY <1>2, ScopeFacts
  <2>. QED  BY <1>1, <1>4, <1>5, <2>1
<1>9. rename' = Realize(TopScope)'
  BY <1>1, <1>5, <1>7, <1>8 DEF Realize
<1>10. /\ prog.name[n] \in DOMAIN prog.scope[n]
       /\ name'[n] = name[prog.scope[n][prog.name[n]]]
  BY <1>1, <1>4, <1>5 DEF Realize
<1>11. name' \in [Exps(prog) -> Ident] /\ counter' \in Nat
       /\ \A m \in Exps(prog) : name'[m] # name[m] => m = n
  BY <1>4, <1>5
<1>12. /\ Frontier' = Frontier + 1 /\ Frontier \in Exps(prog)
       /\ prog.tag[Frontier] = "Var" =>
             LET x == prog.name[Frontier]
             IN  /\ x \in DOMAIN prog.scope[Frontier]
                 /\ name'[Frontier] = name[prog.scope[Frontier][x]]
  BY <1>1, <1>7, <1>10
<1>13. WalkOK'
  BY <1>1, <1>5, <1>6, <1>9, <1>11, <1>12, Step
<1>. QED  BY <1>1, <1>7, <1>13

LEMMA VisitOtherWalk ==
  ASSUME WalkOK, NEW n \in Exps(prog), VisitOther(n)
  PROVE  WalkOK' /\ Frontier = n /\ Frontier' = n + 1
<1>1. /\ worklist # <<>> /\ status = "run" /\ Last(worklist) = NodeTask(n)
      /\ Frontier = n /\ n \in Nat
      /\ rename = Realize(prog.scope[n]) /\ KidTasks(n) \in Seq(Task)
      /\ End(Last(worklist)) = prog.last[n] + 1
      /\ ScopeAfter(Last(worklist)) = prog.scope[n]
  BY VisitFacts DEF VisitOther, Visiting
<1>2. IsAst(prog) /\ prog.tag[n] \in {"Int", "App", "Bop", "If"}
  BY ProgIsAst DEF WalkOK, VisitOther, Visiting
<1>3. PICK k, q : k = prog.kids[n] /\ q = KidTasks(n)
  OBVIOUS
<1>4. /\ q \in Seq(Task) /\ Len(k) \in Nat /\ Len(q) = Len(k)
      /\ \A i \in 1..Len(q) : q[i] = NodeTask(k[i])
  <2>1. k \in Seq(Exps(prog)) /\ Len(k) \in Nat
    BY <1>2, <1>3, NodeFacts, LenProperties
  <2>2. q = [i \in 1..Len(k) |-> NodeTask(k[i])]
    BY <1>3 DEF KidTasks
  <2>. QED  BY <1>1, <1>3, <2>1, <2>2
<1>5. /\ k \in Seq(Exps(prog))
      /\ k = <<>> => prog.last[n] = n
      /\ k # <<>> => k[Len(k)] = n + 1 /\ prog.last[n] = prog.last[k[1]]
      /\ \A i \in 1..(Len(k) - 1) : k[i] = prog.last[k[i + 1]] + 1
      /\ \A i \in 1..Len(k) : k[i] \in Exps(prog) /\ prog.scope[k[i]] = prog.scope[n]
  <2>1. InnerScope(prog, n) = prog.scope[n]
    BY <1>2 DEF InnerScope
  <2>2. k \in Seq(Exps(prog)) /\ \A i \in 1..Len(k) : k[i] \in Exps(prog)
    BY <1>2, <1>3, NodeFacts, ElementOfSeq
  <2>. QED  BY <1>2, <1>3, <2>1, <2>2, NodeFacts
<1>6. q # <<>> => Len(q) > 0 /\ k # <<>>
  BY <1>4, EmptySeq
<1>7. \A i \in 1..Len(q) :
        /\ Start(q[i]) = k[i] /\ End(q[i]) = prog.last[k[i]] + 1
        /\ ScopeBefore(q[i]) = prog.scope[n] /\ ScopeAfter(q[i]) = prog.scope[n]
        /\ RestoreOK(q[i])'
  <2>1. \A i \in 1..Len(q) : q[i].kind = "node" /\ q[i].exp = k[i]
    <3>1. \A i \in 1..Len(k) : NodeTask(k[i]).kind = "node" /\ NodeTask(k[i]).exp = k[i]
      BY DEF NodeTask
    <3>. QED  BY <1>4, <3>1
  <2>2. \A i \in 1..Len(q) : RestoreOK(q[i])'
    BY <2>1 DEF RestoreOK
  <2>. QED  BY <1>4, <1>5, <2>1, <2>2 DEF Start, End, ScopeBefore, ScopeAfter
<1>8. /\ q # <<>> => /\ End(q[1]) = End(Last(worklist))
                     /\ ScopeAfter(q[1]) = ScopeAfter(Last(worklist))
      /\ \A i \in 1..(Len(q) - 1) :
            Start(q[i]) = End(q[i + 1]) /\ ScopeBefore(q[i]) = ScopeAfter(q[i + 1])
  BY <1>1, <1>4, <1>5, <1>6, <1>7
<1>9. /\ prog' = prog /\ status' = "run" /\ counter' = counter /\ rename' = rename
      /\ name' = name /\ worklist' = Front(worklist) \o q
  BY <1>1, <1>3 DEF VisitOther
<1>10. Frontier' = n + 1 /\ TopScope' = prog.scope[n]
  <2>1. /\ Frontier' = IF q = <<>> THEN End(Last(worklist)) ELSE Start(Last(q))
        /\ TopScope' = IF q = <<>> THEN ScopeAfter(Last(worklist))
                                   ELSE ScopeBefore(Last(q))
    BY <1>1, <1>4, <1>8, <1>9, StackStep
  <2>2. CASE q = <<>>
    <3>1. k = <<>>
      BY <1>4, <1>5, <2>2, EmptySeq
    <3>. QED  BY <1>1, <1>5, <2>1, <2>2, <3>1
  <2>3. CASE q # <<>>
    BY <1>4, <1>5, <1>6, <1>7, <2>1, <2>3 DEF Last
  <2>. QED  BY <2>2, <2>3
<1>11. rename' = Realize(TopScope)'
  BY <1>1, <1>9, <1>10 DEF Realize
<1>12. name' \in [Exps(prog) -> Ident] /\ counter' \in Nat
  BY <1>9 DEF WalkOK, TypeOK
<1>13. WalkOK'
  BY <1>1, <1>2, <1>4, <1>7, <1>8, <1>9, <1>10, <1>11, <1>12, Step
<1>. QED  BY <1>1, <1>10, <1>13

LEMMA RunRestoreWalk ==
  ASSUME WalkOK, RunRestore
  PROVE  WalkOK' /\ Frontier' = Frontier
<1>1. PICK t : t = Last(worklist)
  OBVIOUS
<1>2. /\ worklist # <<>> /\ status = "run" /\ t.kind = "restore"
  BY <1>1 DEF RunRestore, Popped
<1>3. /\ t \in Task /\ RestoreOK(t) /\ Frontier = Start(t)
      /\ TopScope = ScopeBefore(t)
  BY <1>1, <1>2, Top
<1>4. PICK l, x, old : l = t.exp /\ x = t.expParam /\ old = t.oldParam
  OBVIOUS
<1>5. /\ l \in Exps(prog) /\ prog.tag[l] = "Lam" /\ x = prog.name[l]
      /\ old = Outer(prog.scope[l], x)
  BY <1>2, <1>3, <1>4 DEF RestoreOK, Task
<1>6. IsAst(prog)
  BY ProgIsAst DEF WalkOK
<1>7. rename = Realize(Put(prog.scope[l], x, l))
  BY <1>2, <1>3, <1>4, <1>5 DEF WalkOK, ScopeBefore, InnerScope
<1>0. PICK q : q = <<>>
  OBVIOUS
<1>8. /\ prog' = prog /\ status' = "run" /\ counter' = counter /\ name' = name
      /\ rename' = IF old # <<>> THEN Put(rename, x, old[1]) ELSE Erase(rename, x)
      /\ worklist' = Front(worklist) \o q
  <2>1. worklist \in Seq(Task)
    BY DEF WalkOK, TypeOK
  <2>2. Front(worklist) \in Seq(Task)
    BY <1>2, <2>1, Replace, EmptySeq
  <2>. QED  BY <1>0, <1>1, <1>2, <1>4, <2>2, ConcatEmptySeq DEF RunRestore
<1>9. /\ q \in Seq(Task)
      /\ q # <<>> => /\ End(q[1]) = End(Last(worklist))
                     /\ ScopeAfter(q[1]) = ScopeAfter(Last(worklist))
      /\ \A i \in 1..(Len(q) - 1) :
            Start(q[i]) = End(q[i + 1]) /\ ScopeBefore(q[i]) = ScopeAfter(q[i + 1])
      /\ \A i \in 1..Len(q) : RestoreOK(q[i])'
  BY <1>0
<1>10. Frontier' = Frontier /\ TopScope' = prog.scope[l]
  <2>1. Frontier' = End(t) /\ TopScope' = ScopeAfter(t)
    <3>1. /\ Frontier' = IF q = <<>> THEN End(Last(worklist)) ELSE Start(Last(q))
          /\ TopScope' = IF q = <<>> THEN ScopeAfter(Last(worklist))
                                     ELSE ScopeBefore(Last(q))
      BY <1>2, <1>8, <1>9, StackStep
    <3>. QED  BY <1>0, <1>1, <3>1
  <2>. QED  BY <1>2, <1>3, <1>4, <2>1 DEF Start, End, ScopeAfter
<1>11. rename' = Realize(TopScope)'
  <2>1. Realize(TopScope)' = [y \in DOMAIN prog.scope[l] |-> name[prog.scope[l][y]]]
    BY <1>8, <1>10 DEF Realize
  <2>2. rename = [y \in DOMAIN prog.scope[l] \cup {x} |->
                     name[IF y = x THEN l ELSE prog.scope[l][y]]]
    BY <1>7 DEF Realize, Put
  <2>3. CASE x \in DOMAIN prog.scope[l]
    <3>1. old # <<>> /\ old[1] = name[prog.scope[l][x]]
      BY <1>5, <2>3 DEF Outer
    <3>2. rename' = [y \in DOMAIN prog.scope[l] |->
                        IF y = x THEN name[prog.scope[l][x]] ELSE rename[y]]
      BY <1>8, <2>2, <2>3, <3>1 DEF Put
    <3>. QED  BY <2>1, <2>2, <3>2
  <2>4. CASE x \notin DOMAIN prog.scope[l]
    <3>1. old = <<>>
      BY <1>5, <2>4 DEF Outer
    <3>2. rename' = [y \in DOMAIN prog.scope[l] |-> rename[y]]
      BY <1>8, <2>2, <2>4, <3>1 DEF Erase
    <3>. QED  BY <2>1, <2>2, <2>4, <3>2
  <2>. QED  BY <2>3, <2>4
<1>12. name' \in [Exps(prog) -> Ident] /\ counter' \in Nat
  BY <1>8 DEF WalkOK, TypeOK
<1>13. WalkOK'
  BY <1>2, <1>8, <1>9, <1>10, <1>11, <1>12, Step

\* A step that leaves all but the status alone.
<1>. QED  BY <1>10, <1>13

LEMMA StatusStep ==
  ASSUME WalkOK, status' \in {"run", "done", "thrown"},
         UNCHANGED <<prog, name, counter, rename, worklist>>,
         status' = "thrown" => \E v \in Exps(prog) : IsFree(prog, v),
         status' = "done" => worklist = <<>>
  PROVE  WalkOK'
<1>1. TypeOK'
  BY DEF WalkOK, TypeOK, Task, Exps
<1>2. Linked(worklist)'
  BY DEF WalkOK, Linked, Start, End, ScopeBefore, ScopeAfter, InnerScope
<1>3. Frontier' = Frontier /\ TopScope' = TopScope
  BY DEF Frontier, TopScope, Start, ScopeBefore, InnerScope
<1>4. (\A i \in 1..Len(worklist) : RestoreOK(worklist[i]))'
  BY <1>3 DEF WalkOK, RestoreOK, Outer
<1>5. rename' = Realize(TopScope)'
  BY <1>3 DEF WalkOK, Realize
<1>6. VariablesFollowBinder'
  BY <1>3 DEF WalkOK, VariablesFollowBinder, Visited
<1>7. (\A n \in Exps(prog) : n >= Frontier => name[n] = prog.name[n])'
  BY <1>3 DEF WalkOK
<1>8. (status = "thrown" => \E v \in Exps(prog) : IsFree(prog, v))'
  BY DEF IsFree
<1>. QED  BY <1>1, <1>2, <1>4, <1>5, <1>6, <1>7, <1>8 DEF WalkOK

LEMMA NotInScopeWalk ==
  ASSUME WalkOK, NEW n \in Exps(prog), NotInScope(n)
  PROVE  WalkOK'
<1>1. rename = Realize(prog.scope[n]) /\ name[n] = prog.name[n] /\ prog.tag[n] = "Var"
  BY VisitFacts DEF NotInScope, Visiting
<1>2. IsFree(prog, n)
  BY <1>1 DEF NotInScope, IsFree, Realize
<1>. QED  BY <1>2, StatusStep DEF NotInScope

LEMMA InitWalk ==
  ASSUME Init
  PROVE  WalkOK
<1>1. IsAst(prog) /\ Root \in Exps(prog) /\ Len(prog.tag) \in Nat
      /\ prog.last[Root] = Len(prog.tag) /\ prog.scope[Root] = EmptyMap
  BY ProgramsAssumption, RootFacts DEF Init, IsAst, IsTree, IsLexical
<1>. DEFINE t == NodeTask(Root)
<1>2. worklist = <<t>> /\ t \in Task /\ t.kind = "node" /\ t.exp = Root
  BY <1>1 DEF Init, NodeTask, Task
<1>. HIDE DEF t
<1>3. worklist # <<>> /\ Len(worklist) = 1 /\ worklist[1] = t /\ Last(worklist) = t
  BY <1>2 DEF Last
<1>4. Frontier = Root /\ TopScope = EmptyMap
  BY <1>1, <1>2, <1>3 DEF Frontier, TopScope, Start, ScopeBefore
<1>5. TypeOK
  BY <1>1, <1>2 DEF Init, TypeOK, EmptyMap, IsAst, IsHeap
<1>6. Linked(worklist)
  BY <1>1, <1>2, <1>3 DEF Linked, End, ScopeAfter
<1>7. \A i \in 1..Len(worklist) : RestoreOK(worklist[i])
  BY <1>2, <1>3 DEF RestoreOK
<1>8. rename = Realize(TopScope)
  BY <1>4 DEF Init, Realize, EmptyMap
<1>9. VariablesFollowBinder
  BY <1>4 DEF VariablesFollowBinder, Visited, Root
<1>. QED  BY <1>5, <1>6, <1>7, <1>8, <1>9 DEF WalkOK, Init

LEMMA NextWalk ==
  ASSUME WalkOK, [Next]_vars
  PROVE  WalkOK'
<1>1. ASSUME NEW n \in Exps(prog), VisitLam(n)
      PROVE  WalkOK'
  BY <1>1, VisitLamWalk
<1>2. ASSUME NEW n \in Exps(prog), VisitVar(n)
      PROVE  WalkOK'
  BY <1>2, VisitVarWalk
<1>3. ASSUME NEW n \in Exps(prog), NotInScope(n)
      PROVE  WalkOK'
  BY <1>3, NotInScopeWalk
<1>4. ASSUME NEW n \in Exps(prog), VisitOther(n)
      PROVE  WalkOK'
  BY <1>4, VisitOtherWalk
<1>5. CASE RunRestore
  BY <1>5, RunRestoreWalk
<1>6. CASE Return
  BY <1>6, StatusStep DEF Return
<1>7. CASE UNCHANGED vars
  BY <1>7, StatusStep DEF vars, WalkOK, TypeOK
<1>. QED  BY <1>1, <1>2, <1>3, <1>4, <1>5, <1>6, <1>7 DEF Next, Terminated
-----------------------------------------------------------------------------
(***************************************************************************)
(* The numbers                                                             *)
(***************************************************************************)

\* The LamExps before an address.
LamsBefore(p, n) == {m \in Lams(p) : m < n}

LEMMA CountLams ==
  ASSUME NEW p, Len(p.tag) \in Nat, NEW n \in Int
  PROVE  /\ IsFiniteSet(LamsBefore(p, n))
         /\ Cardinality(LamsBefore(p, n)) \in Nat
         /\ Cardinality(LamsBefore(p, n)) <= Cardinality(Lams(p))
         /\ \A l \in Lams(p) : l < n =>
               Cardinality(LamsBefore(p, l)) < Cardinality(LamsBefore(p, n))
<1>1. IsFiniteSet(Lams(p))
  <2>1. IsFiniteSet(1..Len(p.tag))
    BY FS_Interval
  <2>2. Lams(p) \subseteq 1..Len(p.tag)
    BY DEF Lams, Exps
  <2>. QED  BY <2>1, <2>2, FS_Subset
<1>2. \A k : IsFiniteSet(LamsBefore(p, k)) /\ Cardinality(LamsBefore(p, k)) \in Nat
             /\ Cardinality(LamsBefore(p, k)) <= Cardinality(Lams(p))
  <2>1. \A k : LamsBefore(p, k) \subseteq Lams(p)
    BY DEF LamsBefore
  <2>. QED  BY <1>1, <2>1, FS_Subset, FS_CardinalityType
<1>3. ASSUME NEW l \in Lams(p), l < n
      PROVE  Cardinality(LamsBefore(p, l)) < Cardinality(LamsBefore(p, n))
  <2>1. LamsBefore(p, l) \subseteq LamsBefore(p, n)
    BY <1>3 DEF LamsBefore, Lams, Exps
  <2>2. l \in LamsBefore(p, n) /\ l \notin LamsBefore(p, l)
    BY <1>3 DEF LamsBefore, Lams, Exps
  <2>3. /\ Cardinality(LamsBefore(p, l)) <= Cardinality(LamsBefore(p, n))
        /\ Cardinality(LamsBefore(p, l)) # Cardinality(LamsBefore(p, n))
    BY <1>2, <2>1, <2>2, FS_Subset
  <2>. QED  BY <1>2, <2>3
<1>. QED  BY <1>2, <1>3

\* One LamExp more.
LEMMA CountOne ==
  ASSUME NEW p, Len(p.tag) \in Nat, NEW n \in Exps(p)
  PROVE  Cardinality(LamsBefore(p, n + 1)) =
            IF p.tag[n] = "Lam" THEN Cardinality(LamsBefore(p, n)) + 1
                                ELSE Cardinality(LamsBefore(p, n))
<1>1. n \in Int /\ IsFiniteSet(LamsBefore(p, n))
  BY CountLams DEF Exps
<1>2. CASE p.tag[n] = "Lam"
  <2>1. LamsBefore(p, n + 1) = LamsBefore(p, n) \cup {n} /\ n \notin LamsBefore(p, n)
    BY <1>1, <1>2 DEF LamsBefore, Lams, Exps
  <2>. QED  BY <1>1, <1>2, <2>1, FS_AddElement
<1>3. CASE p.tag[n] # "Lam"
  <2>1. LamsBefore(p, n + 1) = LamsBefore(p, n)
    BY <1>1, <1>3 DEF LamsBefore, Lams, Exps
  <2>. QED  BY <1>3, <2>1
<1>. QED  BY <1>2, <1>3

\* The LamExps the walk has visited are those before the first address that is
\* still to be visited.
LEMMA VisitedLamsAre ==
  ASSUME WalkOK
  PROVE  /\ Len(prog.tag) \in Nat /\ Frontier \in 1..(Len(prog.tag) + 1)
         /\ VisitedLams = LamsBefore(prog, Frontier)
<1>1. Len(prog.tag) \in Nat
  BY ProgIsAst DEF WalkOK
<1>2. Frontier \in 1..(Len(prog.tag) + 1)
  BY <1>1, Top DEF Frontier
<1>. QED  BY <1>1, <1>2 DEF VisitedLams, Visited, LamsBefore, Lams, Exps

\* A step that visits no node.
LEMMA NumberedStays ==
  ASSUME WalkOK, WalkOK', Numbered, prog' = prog, name' = name,
         counter' = counter, Frontier' = Frontier
  PROVE  Numbered'
<1>1. VisitedLams' = VisitedLams /\ Visited' = Visited
  BY DEF VisitedLams, Visited
<1>2. \A n : NewName(prog, n)' = NewName(prog, n)
  BY DEF NewName, NewParam, Lams, Exps, IsFree
<1>. QED  BY <1>1, <1>2 DEF Numbered

\* A step that visits the node n.
LEMMA NumberedGrows ==
  ASSUME WalkOK, WalkOK', Numbered, prog' = prog,
         NEW n \in Exps(prog), Frontier = n, Frontier' = n + 1,
         \A m \in Exps(prog) : m # n => name'[m] = name[m],
         prog.tag[n] = "Lam" => /\ counter' = counter + 1
                                /\ name'[n] = Fresh(prog.name[n], counter),
         prog.tag[n] # "Lam" => counter' = counter,
         prog.tag[n] \notin {"Lam", "Var"} => name'[n] = prog.name[n]
  PROVE  Numbered'
<1>1. Len(prog.tag) \in Nat /\ n \in Nat /\ IsAst(prog)
  BY ProgIsAst DEF WalkOK, Exps
<1>2. counter = Cardinality(LamsBefore(prog, n))
  BY VisitedLamsAre DEF Numbered
<1>3. VisitedLams' = LamsBefore(prog, n + 1)
  BY <1>1 DEF VisitedLams, Visited, LamsBefore, Lams, Exps
<1>4. counter' = Cardinality(VisitedLams')
  BY <1>1, <1>2, <1>3, CountOne
<1>5. \A m \in Exps(prog) : m < n => name'[m] = NewName(prog, m)
  <2>1. \A m \in Exps(prog) : m < n => m \in Visited /\ m # n
    BY <1>1 DEF Visited, Exps
  <2>. QED  BY <2>1 DEF Numbered
<1>6. name'[n] = NewName(prog, n)
  <2>1. CASE prog.tag[n] = "Lam"
    BY <1>2, <2>1 DEF NewName, NewParam, LamsBefore
  <2>2. CASE prog.tag[n] = "Var"
    <3>. DEFINE b == prog.scope[n][prog.name[n]]
    <3>1. n \in Visited'
      <4>1. Visited' = 1..(Frontier' - 1)
        BY DEF Visited
      <4>2. n \in 1..((n + 1) - 1)
        BY <1>1 DEF Exps
      <4>. QED  BY <4>1, <4>2
    <3>2. prog.name[n] \in DOMAIN prog.scope[n] /\ name'[n] = name'[b]
      BY <2>2, <3>1 DEF WalkOK, VariablesFollowBinder
    <3>3. b \in Exps(prog) /\ b < n /\ prog.tag[b] = "Lam"
      BY <1>1, <3>2, ScopeFacts
    <3>4. ~IsFree(prog, n)
      BY <3>2 DEF IsFree
    <3>5. name'[b] = NewParam(prog, b)
      BY <1>5, <3>3 DEF NewName
    <3>6. NewName(prog, n) = NewParam(prog, b)
      BY <2>2, <3>4 DEF NewName
    <3>. QED  BY <3>2, <3>5, <3>6
  <2>3. CASE prog.tag[n] \notin {"Lam", "Var"}
    BY <2>3 DEF NewName
  <2>. QED  BY <2>1, <2>2, <2>3
<1>7. \A m \in Visited' : m \in Exps(prog) /\ (m < n \/ m = n)
  BY <1>1 DEF Visited, Exps
<1>8. \A m : NewName(prog, m)' = NewName(prog, m)
  BY DEF NewName, NewParam, Lams, Exps, IsFree
<1>. QED  BY <1>4, <1>5, <1>6, <1>7, <1>8 DEF Numbered

LEMMA InitNumbered ==
  ASSUME Init
  PROVE  Numbered
<1>1. Frontier = 1 /\ Visited = {}
  BY DEF Init, Frontier, Last, Start, NodeTask, Root, Visited
<1>2. VisitedLams = {}
  BY <1>1 DEF VisitedLams
<1>. QED  BY <1>1, <1>2, FS_EmptySet DEF Numbered, Init

LEMMA NextNumbered ==
  ASSUME WalkOK, Numbered, [Next]_vars
  PROVE  Numbered'
<1>0. WalkOK' /\ name \in [Exps(prog) -> Ident]
  BY NextWalk DEF WalkOK, TypeOK
<1>1. ASSUME NEW n \in Exps(prog), VisitLam(n)
      PROVE  Numbered'
  <2>1. Frontier = n /\ Frontier' = n + 1
    BY <1>1, VisitLamWalk
  <2>2. name[n] = prog.name[n] /\ prog.tag[n] = "Lam"
    BY <1>1, VisitFacts DEF VisitLam, Visiting
  <2>3. /\ prog' = prog /\ counter' = counter + 1
        /\ name' = [name EXCEPT ![n] = Fresh(name[n], counter)]
    BY <1>1 DEF VisitLam
  <2>. QED  BY <1>0, <2>1, <2>2, <2>3, NumberedGrows
<1>2. ASSUME NEW n \in Exps(prog), VisitVar(n)
      PROVE  Numbered'
  <2>1. Frontier = n /\ Frontier' = n + 1
    BY <1>2, VisitVarWalk
  <2>2. /\ prog' = prog /\ counter' = counter /\ prog.tag[n] = "Var"
        /\ name' = [name EXCEPT ![n] = rename[name[n]]]
    BY <1>2 DEF VisitVar, Visiting
  <2>. QED  BY <1>0, <2>1, <2>2, NumberedGrows
<1>3. ASSUME NEW n \in Exps(prog), VisitOther(n)
      PROVE  Numbered'
  <2>1. Frontier = n /\ Frontier' = n + 1
    BY <1>3, VisitOtherWalk
  <2>2. name[n] = prog.name[n]
    BY <1>3, VisitFacts DEF VisitOther, Visiting
  <2>3. /\ prog' = prog /\ counter' = counter /\ name' = name
        /\ prog.tag[n] \in {"Int", "App", "Bop", "If"}
    BY <1>3 DEF VisitOther, Visiting
  <2>. QED  BY <1>0, <2>1, <2>2, <2>3, NumberedGrows
<1>4. CASE RunRestore
  <2>1. Frontier' = Frontier
    BY <1>4, RunRestoreWalk
  <2>. QED  BY <1>0, <1>4, <2>1, NumberedStays DEF RunRestore
<1>5. ASSUME UNCHANGED <<prog, name, counter, rename, worklist>>
      PROVE  Numbered'
  <2>1. Frontier' = Frontier
    BY <1>5 DEF Frontier, Start
  <2>. QED  BY <1>0, <1>5, <2>1, NumberedStays
<1>6. ASSUME NEW n \in Exps(prog), NotInScope(n)
      PROVE  Numbered'
  BY <1>5, <1>6 DEF NotInScope
<1>. QED  BY <1>1, <1>2, <1>3, <1>4, <1>5, <1>6 DEF Next, Return, Terminated, vars
-----------------------------------------------------------------------------
(***************************************************************************)
(* Theorems                                                                *)
(***************************************************************************)

(***************************************************************************)
(* The invariant the others follow from: the tasks on the stack of         *)
(* rename() cover what is still to be visited without gap or overlap, each *)
(* closure holds what its parameter was renamed to outside, and the map is *)
(* the scope at the top of the stack.                                      *)
(***************************************************************************)
THEOREM Invariance == Spec => []Inv
<1>1. Init => Inv
  BY InitWalk, InitNumbered DEF Inv
<1>2. Inv /\ [Next]_vars => Inv'
  BY NextWalk, NextNumbered DEF Inv
<1>. QED  BY <1>1, <1>2, PTL DEF Spec

(***************************************************************************)
(* The names rename() writes are identifiers, and its tasks are tasks for  *)
(* nodes of the program.                                                   *)
(***************************************************************************)
THEOREM TypeCorrect == Spec => []TypeOK
<1>1. Inv => TypeOK
  BY DEF Inv, WalkOK
<1>. QED  BY <1>1, Invariance, PTL

(***************************************************************************)
(* Whenever rename() takes a task, rename_ is the lexical environment: the *)
(* closures that undo bindings run exactly when a body has been left.      *)
(***************************************************************************)
THEOREM LexicalEnvironment == Spec => []MapIsLexicalScope
<1>1. Inv => MapIsLexicalScope
  BY DEF Inv, WalkOK, MapIsLexicalScope, TopScope
<1>. QED  BY <1>1, Invariance, PTL

(***************************************************************************)
(* Every variable rename() has visited carries the present name of the     *)
(* LamExp that binds it in the source program.                             *)
(***************************************************************************)
THEOREM VariablesAreBound == Spec => []VariablesFollowBinder
<1>1. Inv => VariablesFollowBinder
  BY DEF Inv, WalkOK
<1>. QED  BY <1>1, Invariance, PTL

(***************************************************************************)
(* rename() throws NotInScopeException only for programs with a free       *)
(* variable, and returns only for closed ones.                             *)
(***************************************************************************)
THEOREM ThrowsOnFreeVariables == Spec => []ThrowsIffOpen
<1>1. Inv => ThrowsIffOpen
  <2>1. ASSUME Inv, status = "done", NEW v \in Exps(prog), prog.tag[v] = "Var"
        PROVE  prog.name[v] \in DOMAIN prog.scope[v]
    <3>1. Frontier = Len(prog.tag) + 1 /\ Len(prog.tag) \in Nat
      BY <2>1, ProgIsAst DEF Inv, WalkOK, Frontier
    <3>2. v \in Visited
      BY <3>1 DEF Visited, Exps
    <3>. QED  BY <2>1, <3>2 DEF Inv, WalkOK, VariablesFollowBinder
  <2>. QED  BY <2>1 DEF Inv, WalkOK, ThrowsIffOpen, IsClosed, IsFree
<1>. QED  BY <1>1, Invariance, PTL

(***************************************************************************)
(* What rename() returns is the program AlphaRenamed describes: every      *)
(* parameter carries the number of LamExps before it, every variable the   *)
(* name of its binder, and no other node has changed.                      *)
(***************************************************************************)
THEOREM ReturnsAlphaRenamed == Spec => []ResultIsAlphaRenamed
<1>1. Inv => ResultIsAlphaRenamed
  <2>. SUFFICES ASSUME Inv, status = "done"
                PROVE  name = AlphaRenamed(prog).name
    BY DEF ResultIsAlphaRenamed
  <2>1. Frontier = Len(prog.tag) + 1 /\ Len(prog.tag) \in Nat
    BY ProgIsAst DEF Inv, WalkOK, Frontier
  <2>2. Visited = Exps(prog) /\ name \in [Exps(prog) -> Ident]
    BY <2>1 DEF Visited, Exps, Inv, WalkOK, TypeOK
  <2>3. AlphaRenamed(prog).name = [n \in Exps(prog) |-> NewName(prog, n)]
    <3>1. IsAst(prog)
      BY ProgIsAst DEF Inv, WalkOK
    <3>. QED  BY <3>1 DEF AlphaRenamed, IsAst, IsHeap
  <2>. QED  BY <2>2, <2>3 DEF Inv, Numbered
<1>. QED  BY <1>1, Invariance, PTL

(***************************************************************************)
(* Two parameters rename() has renamed are spelled alike only when they    *)
(* had the same letters and different numbers of trailing digits.          *)
(***************************************************************************)
THEOREM ParametersRarelyCollide == Spec => []CollisionsNeedDigits
<1>1. Inv => CollisionsNeedDigits
  <2>. SUFFICES ASSUME Inv, NEW l \in VisitedLams, NEW m \in VisitedLams,
                       l # m, name[l] = name[m]
                PROVE  /\ prog.name[l].base = prog.name[m].base
                       /\ Len(prog.name[l].digits) # Len(prog.name[m].digits)
    BY DEF CollisionsNeedDigits
  <2>. DEFINE Number(k) == Cardinality(LamsBefore(prog, k))
  <2>1. /\ Len(prog.tag) \in Nat /\ IsAst(prog)
        /\ Cardinality(Lams(prog)) <= IntMax
    BY ProgIsAst, ProgramsAssumption DEF Inv, WalkOK, TypeOK
  <2>2. ASSUME NEW k \in VisitedLams
        PROVE  /\ k \in Lams(prog) /\ k \in Int /\ prog.name[k].digits \in Seq(Digit)
               /\ name[k].base = prog.name[k].base
               /\ name[k].digits = prog.name[k].digits \o Decimal(Number(k))
               /\ Number(k) \in Nat /\ Number(k) <= IntMax
    <3>1. k \in Lams(prog) /\ k \in Exps(prog) /\ k \in Int /\ prog.tag[k] = "Lam"
          /\ k \in Visited
      BY VisitedLamsAre DEF Inv, LamsBefore, Lams, Exps, VisitedLams
    <3>2. name[k] = Fresh(prog.name[k], Number(k))
      BY <3>1 DEF Inv, Numbered, NewName, NewParam, LamsBefore
    <3>3. Number(k) \in Nat /\ Number(k) <= Cardinality(Lams(prog))
      BY <2>1, <3>1, CountLams
    <3>4. Number(k) <= IntMax
      <4>. HIDE DEF Number
      <4>1. IsFiniteSet(Lams(prog))
        <5>1. Lams(prog) \subseteq 1..Len(prog.tag) /\ IsFiniteSet(1..Len(prog.tag))
          BY <2>1, FS_Interval DEF Lams, Exps
        <5>. QED  BY <5>1, FS_Subset
      <4>2. Cardinality(Lams(prog)) \in Nat
        BY <4>1, FS_CardinalityType
      <4>. QED  BY <2>1, <3>3, <4>2 DEF IntMax
    <3>5. prog.name[k] \in Ident
      BY <2>1, <3>1, NodeFacts
    <3>. QED  BY <3>1, <3>2, <3>3, <3>4, <3>5 DEF Fresh, Name, Ident
  <2>3. Number(l) # Number(m)
    <3>1. l < m \/ m < l
      BY <2>2
    <3>2. l < m => Number(l) < Number(m)
      BY <2>1, <2>2, CountLams
    <3>3. m < l => Number(m) < Number(l)
      BY <2>1, <2>2, CountLams
    <3>4. Number(l) \in Nat /\ Number(m) \in Nat
      BY <2>2
    <3>. HIDE DEF Number
    <3>. QED  BY <3>1, <3>2, <3>3, <3>4
  <2>4. ASSUME Len(prog.name[l].digits) = Len(prog.name[m].digits)
        PROVE  FALSE
    <3>. DEFINE u == prog.name[l].digits
                v == prog.name[m].digits
                c == Decimal(Number(l))
                d == Decimal(Number(m))
    <3>1. u \in Seq(Digit) /\ v \in Seq(Digit) /\ Len(u) = Len(v) /\ u \o c = v \o d
      BY <2>2, <2>4
    <3>2. c \in Seq(Digit) /\ d \in Seq(Digit)
      BY <2>2, DecimalType
    <3>. HIDE DEF u, v, c, d
    <3>3. c = d
      BY <3>1, <3>2, SameTail
    <3>4. Decimal(Number(l)) = Decimal(Number(m))
      BY <3>3 DEF c, d
    <3>. HIDE DEF Number
    <3>5. Number(l) = Number(m)
      BY <2>2, <3>4, DecimalInjective
    <3>. QED  BY <2>3, <3>5
  <2>. QED  BY <2>2, <2>4
<1>. QED  BY <1>1, Invariance, PTL

\* Parameters of the same letters have equally many trailing digits.
SameWidths(p) ==
    \A l, m \in Lams(p) :
        p.name[l].base = p.name[m].base => Len(p.name[l].digits) = Len(p.name[m].digits)

(***************************************************************************)
(* For such programs renaming captures nothing, at any moment of the walk: *)
(* between a variable and its binder no LamExp has a parameter that is     *)
(* spelled like the variable.                                              *)
(***************************************************************************)
THEOREM CaptureNeedsDigits == Spec => [](SameWidths(prog) => NoCapture)
<1>1. Inv /\ CollisionsNeedDigits => (SameWidths(prog) => NoCapture)
  <2>. SUFFICES ASSUME Inv, CollisionsNeedDigits, SameWidths(prog),
                       NEW v \in Visited, prog.tag[v] = "Var", ~IsFree(prog, v),
                       NEW l \in VisitedLams,
                       l > prog.scope[v][prog.name[v]], l < v, v <= prog.last[l]
                PROVE  name[l] # name[v]
    BY DEF NoCapture
  <2>1. /\ Len(prog.tag) \in Nat /\ IsAst(prog) /\ Frontier \in 1..(Len(prog.tag) + 1)
        /\ VisitedLams = LamsBefore(prog, Frontier)
    BY ProgIsAst, VisitedLamsAre DEF Inv, WalkOK
  <2>2. PICK m : m = prog.scope[v][prog.name[v]]
    OBVIOUS
  <2>3. v \in Exps(prog) /\ v < Frontier /\ v \in Nat
    BY <2>1 DEF Visited, Exps
  <2>4. prog.name[v] \in DOMAIN prog.scope[v] /\ name[v] = name[m]
    BY <2>2 DEF Inv, WalkOK, VariablesFollowBinder
  <2>5. m \in 1..(v - 1) /\ m \in Exps(prog) /\ prog.tag[m] = "Lam"
    BY <2>1, <2>2, <2>3, <2>4, ScopeFacts
  <2>6. m \in VisitedLams /\ l # m
    <3>1. m \in Visited
      BY <2>1, <2>3, <2>5 DEF Visited
    <3>. QED  BY <2>2, <2>5, <3>1 DEF VisitedLams
  <2>7. l \in Lams(prog) /\ m \in Lams(prog)
    BY <2>1, <2>6 DEF LamsBefore
  <2>. QED  BY <2>4, <2>6, <2>7 DEF CollisionsNeedDigits, SameWidths
<1>. QED  BY <1>1, Invariance, ParametersRarelyCollide, PTL

\* And none has the letters of the names convertDefunc makes up.
Distinguishable(p) == SameWidths(p) /\ \A l \in Lams(p) : p.name[l].base # "tmp"

(***************************************************************************)
(* Such a program comes back from rename() with parameters that all differ *)
(* and could not be made up by convertDefunc: it is one of those for which *)
(* NoNameBoundTwice of AnfDefuncProofs promises different binders.         *)
(***************************************************************************)
THEOREM NamesComeApart ==
  Spec => [](status = "done" /\ Distinguishable(prog) => NamesApart([prog EXCEPT !.name = name]))
<1>. DEFINE Apart == status = "done" /\ Distinguishable(prog)
                       => NamesApart([prog EXCEPT !.name = name])
<1>1. Inv /\ CollisionsNeedDigits => Apart
  <2>. SUFFICES ASSUME Inv, CollisionsNeedDigits, status = "done", Distinguishable(prog)
                PROVE  NamesApart([prog EXCEPT !.name = name])
    OBVIOUS
  <2>. DEFINE p == [prog EXCEPT !.name = name]
  <2>1. Frontier = Len(prog.tag) + 1 /\ Len(prog.tag) \in Nat /\ IsAst(prog)
    BY ProgIsAst DEF Inv, WalkOK, Frontier
  <2>2. Lams(prog) = VisitedLams
    BY <2>1 DEF Lams, VisitedLams, Visited, Exps
  <2>3. Lams(p) = Lams(prog) /\ p.name = name
    BY <2>1 DEF IsAst, IsHeap, Lams, Exps
  <2>4. \A l \in Lams(prog) : name[l].base = prog.name[l].base
    <3>. SUFFICES ASSUME NEW l \in Lams(prog) PROVE name[l].base = prog.name[l].base
      OBVIOUS
    <3>1. name[l] = NewName(prog, l) /\ prog.tag[l] = "Lam"
      BY <2>2 DEF Inv, Numbered, VisitedLams
    <3>. QED  BY <3>1 DEF NewName, NewParam, Fresh, Name
  <2>5. \A l, m \in Lams(prog) : name[l] = name[m] => l = m
    BY <2>2 DEF CollisionsNeedDigits, Distinguishable, SameWidths
  <2>. HIDE DEF p
  <2>6. NamesApart(p)
    BY <2>3, <2>4, <2>5 DEF NamesApart, Distinguishable
  <2>. QED  BY <2>6 DEF p
<1>. HIDE DEF Apart
<1>2. Spec => []Apart
  BY <1>1, Invariance, ParametersRarelyCollide, PTL
<1>. QED  BY <1>2 DEF Apart

(***************************************************************************)
(* No node is renamed twice: a string that differs from the one the parser *)
(* stored is never overwritten.                                            *)
(***************************************************************************)
THEOREM NamesWrittenOnce == Spec => RenamedOnce
<1>. DEFINE Once == \A n \in Exps(prog) : name[n] # prog.name[n] => name'[n] = name[n]
<1>1. Inv /\ [Next]_vars => [Once]_vars
  <2>1. ASSUME Inv, NEW n \in Exps(prog), VisitLam(n) \/ VisitVar(n)
        PROVE  Once
    <3>1. name[n] = prog.name[n] /\ name \in [Exps(prog) -> Ident]
      BY <2>1, VisitFacts DEF VisitLam, VisitVar, Visiting, Inv, WalkOK, TypeOK
    <3>2. \A m \in Exps(prog) : m # n => name'[m] = name[m]
      BY <2>1, <3>1 DEF VisitLam, VisitVar
    <3>. QED  BY <3>1, <3>2
  <2>2. ASSUME name' = name
        PROVE  Once
    BY <2>2
  <2>3. \A n \in Exps(prog) : NotInScope(n) \/ VisitOther(n) => name' = name
    BY DEF NotInScope, VisitOther
  <2>4. RunRestore \/ Return \/ Terminated \/ UNCHANGED vars => name' = name
    BY DEF RunRestore, Return, Terminated, vars
  <2>. HIDE DEF Once
  <2>. QED  BY <2>1, <2>2, <2>3, <2>4 DEF Next
<1>. QED  BY <1>1, Invariance, PTL DEF Spec, RenamedOnce
=============================================================================
