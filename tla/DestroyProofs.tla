--------------------------- MODULE DestroyProofs ---------------------------
(***************************************************************************)
(* Destructors nest two deep, whatever the tree, and destroy each node of  *)
(* it once.                                                                *)
(*                                                                         *)
(* NestingBounded is not inductive: why the second activation starts no    *)
(* third one is that all it will find is null (Inner), and that is so      *)
(* because the first one took the children of a node before it let the     *)
(* node go (Outer).                                                        *)
(***************************************************************************)
EXTENDS Destroy, TLAPS, SequenceTheorems, FiniteSetTheorems

\* There is a task exactly while one is at work.
TaskHeld(f) == f.at = "task" <=> f.task # Null

\* The task at work has no children any more.
Outer(f) == f.at = "task" => links[f.task] \in Seq({Null})

\* A nested activation has nothing to do.
Inner(f) ==
    /\ f.at # "task"
    /\ links[f.exp] \in Seq({Null})
    /\ f.queue \in Seq({Null})

Inv ==
    /\ TypeOK
    /\ Depth <= 2
    /\ \A d \in 1..Depth : TaskHeld(frames[d])
    /\ Depth >= 1 => Outer(frames[1])
    /\ Depth = 2 => Inner(frames[2])
-----------------------------------------------------------------------------
\* The top frame is a frame.
LEMMA TopFacts ==
  ASSUME TypeOK, frames # <<>>
  PROVE  /\ Depth \in Nat \ {0} /\ Top \in Frame
         /\ Top.exp \in Nodes /\ Top.queue \in Seq(Nodes \cup {Null})
         /\ Top.task \in Nodes \cup {Null} /\ Top.at \in {"visit", "loop", "task"}
<1>1. frames \in Seq(Frame)
  BY DEF TypeOK
<1>2. Len(frames) \in Nat \ {0}
  BY <1>1, EmptySeq
<1>3. frames[Len(frames)] \in Frame
  BY <1>1, <1>2, ElementOfSeq
<1>. QED  BY <1>2, <1>3 DEF Depth, Top, Frame

\* The running activation stays a frame, of the same node.
LEMMA GoingFacts ==
  ASSUME TypeOK, frames # <<>>, NEW q \in Seq(Nodes \cup {Null})
  PROVE  /\ Going(q, Null, "loop") \in Frame /\ TaskHeld(Going(q, Null, "loop"))
         /\ Going(q, Null, "loop").at = "loop" /\ Going(q, Null, "loop").queue = q
         /\ Going(q, Null, "loop").exp = Top.exp
BY TopFacts DEF Going, Frame, TaskHeld

LEMMA GoingTaskFacts ==
  ASSUME TypeOK, frames # <<>>, NEW q \in Seq(Nodes \cup {Null}), NEW n \in Nodes
  PROVE  /\ Going(q, n, "task") \in Frame /\ TaskHeld(Going(q, n, "task"))
         /\ Going(q, n, "task").at = "task" /\ Going(q, n, "task").task = n
BY TopFacts, NullAssumption DEF Going, Frame, TaskHeld

\* Replacing the top frame changes only it.
LEMMA BecomeFacts ==
  ASSUME TypeOK, frames # <<>>, NEW f \in Frame
  PROVE  /\ Become(f) \in Seq(Frame) /\ Len(Become(f)) = Depth
         /\ Become(f)[Depth] = f
         /\ \A d \in 1..Depth : d # Depth => Become(f)[d] = frames[d]
<1>1. frames \in Seq(Frame) /\ Len(frames) \in 1..Len(frames)
  BY TopFacts DEF TypeOK, Depth
<1>. QED  BY <1>1, ExceptSeq DEF Depth, Become

\* Taking all there is out of a node leaves it null, and null links stay null.
LEMMA MoveFacts ==
  ASSUME TypeOK, NEW n \in Nodes, MoveLinks(n)
  PROVE  /\ links' \in [Nodes -> Seq(Nodes \cup {Null})]
         /\ links'[n] \in Seq({Null})
         /\ \A m \in Nodes : links[m] \in Seq({Null}) => links'[m] \in Seq({Null})
<1>1. Emptied(n) \in Seq({Null}) /\ Emptied(n) \in Seq(Nodes \cup {Null})
  <2>1. Len(links[n]) \in Nat
    BY LenProperties DEF TypeOK
  <2>. QED  BY <2>1 DEF Emptied
<1>. QED  BY <1>1 DEF TypeOK, MoveLinks

\* In a queue of null tasks there is no other.
LEMMA NullQueue ==
  ASSUME NEW q \in Seq({Null}), q # <<>>
  PROVE  Head(q) = Null /\ Tail(q) \in Seq({Null})
BY HeadTailProperties
-----------------------------------------------------------------------------
\* What is known of the running activation.
LEMMA Running ==
  ASSUME Inv, frames # <<>>
  PROVE  /\ TypeOK /\ Depth \in {1, 2} /\ Depth = Len(frames) /\ frames \in Seq(Frame)
         /\ Top \in Frame /\ TaskHeld(Top)
         /\ Depth = 1 => Outer(Top)
         /\ Depth = 2 => Inner(Top)
<1>1. /\ TypeOK /\ Depth \in Nat \ {0} /\ Depth <= 2 /\ Top \in Frame
  BY TopFacts DEF Inv
<1>2. Depth = Len(frames) /\ frames \in Seq(Frame)
  BY <1>1 DEF TypeOK, Depth
<1>3. Depth \in {1, 2} /\ Depth \in 1..Depth
  BY <1>1
<1>4. TaskHeld(Top) /\ (Depth = 1 => Outer(Top)) /\ (Depth = 2 => Inner(Top))
  BY <1>3 DEF Inv, Top
<1>. QED  BY <1>1, <1>2, <1>3, <1>4

\* What a step that works on the top frame has to show.
LEMMA Replaced ==
  ASSUME Inv, frames # <<>>, NEW f \in Frame, frames' = Become(f),
         links' \in [Nodes -> Seq(Nodes \cup {Null})],
         \A m \in Nodes : links[m] \in Seq({Null}) => links'[m] \in Seq({Null}),
         UNCHANGED freed, TaskHeld(f),
         Depth = 1 /\ f.at = "task" => links'[f.task] \in Seq({Null}),
         Depth = 2 => f.at # "task" /\ links'[f.exp] \in Seq({Null}) /\ f.queue \in Seq({Null})
  PROVE  Inv'
<1>1. /\ TypeOK /\ Depth \in {1, 2} /\ Depth' = Depth
      /\ frames' \in Seq(Frame) /\ frames'[Depth] = f
      /\ \A d \in 1..Depth : d # Depth => frames'[d] = frames[d]
  <2>1. TypeOK /\ Depth \in {1, 2}
    BY Running
  <2>2. /\ Become(f) \in Seq(Frame) /\ Len(Become(f)) = Depth /\ Become(f)[Depth] = f
        /\ \A d \in 1..Depth : d # Depth => Become(f)[d] = frames[d]
    BY <2>1, BecomeFacts
  <2>3. Depth' = Len(frames')
    BY DEF Depth
  <2>. QED  BY <2>1, <2>2, <2>3
<1>2. TypeOK'
  BY <1>1 DEF TypeOK
<1>3. \A d \in 1..Depth' : TaskHeld(frames'[d])
  BY <1>1 DEF Inv, TaskHeld
<1>4. Outer(frames[1])'
  <2>1. CASE Depth = 1
    BY <1>1, <2>1 DEF Outer
  <2>2. CASE Depth = 2
    <3>1. frames'[1] = frames[1] /\ frames[1] \in Frame /\ Outer(frames[1]) /\ TaskHeld(frames[1])
      BY <1>1, <2>2, ElementOfSeq DEF Inv, TypeOK, Depth
    <3>. QED  BY <3>1 DEF Outer, TaskHeld, Frame
  <2>. QED  BY <1>1, <2>1, <2>2
<1>5. Depth' = 2 => Inner(frames[2])'
  BY <1>1 DEF Inner
<1>. QED  BY <1>1, <1>2, <1>3, <1>4, <1>5 DEF Inv, TaskHeld

LEMMA InitInv == Init => Inv
<1>. SUFFICES ASSUME NEW t \in Trees, links = t.links, frames = <<Activation(t.root)>>, freed = {}
              PROVE  Inv
  BY DEF Init
<1>1. Activation(t.root) \in Frame /\ Activation(t.root).at = "visit" /\ Activation(t.root).task = Null
  BY TreesAssumption, EmptySeq DEF Activation, Frame
<1>2. /\ frames \in Seq(Frame) /\ Len(frames) = 1 /\ frames[1] = Activation(t.root)
  BY <1>1
<1>. QED  BY <1>1, <1>2, TreesAssumption DEF Inv, TypeOK, Depth, TaskHeld, Outer

LEMMA NextInv == Inv /\ [Next]_vars => Inv'
<1>. SUFFICES ASSUME Inv, [Next]_vars
              PROVE  Inv'
  OBVIOUS
<1>0. TypeOK /\ Depth <= 2 /\ Null \notin Nodes
  BY NullAssumption DEF Inv
<1>1. CASE Visit
  <2>. DEFINE f == Going(links[Top.exp], Null, "loop")
  <2>1. /\ frames # <<>> /\ Top.at = "visit" /\ frames' = Become(f)
        /\ MoveLinks(Top.exp) /\ UNCHANGED freed
    BY <1>1 DEF Visit
  <2>2. /\ Depth \in {1, 2} /\ TaskHeld(Top)
        /\ Top.exp \in Nodes /\ Top.task \in Nodes \cup {Null}
    BY <1>0, <2>1, Running, TopFacts
  <2>0. links[Top.exp] \in Seq(Nodes \cup {Null})
    BY <1>0, <2>2 DEF TypeOK
  <2>3. /\ f \in Frame /\ TaskHeld(f) /\ f.at = "loop"
        /\ f.exp = Top.exp /\ f.queue = links[Top.exp]
    BY <1>0, <2>0, <2>1, <2>2, GoingFacts
  <2>4. Depth = 2 => links[Top.exp] \in Seq({Null})
    BY <2>1, Running DEF Inner
  <2>. HIDE DEF f
  <2>. QED  BY <1>0, <2>1, <2>2, <2>3, <2>4, MoveFacts, Replaced
<1>2. CASE SkipNull
  <2>. DEFINE f == Going(Tail(Top.queue), Null, "loop")
  <2>1. /\ frames # <<>> /\ Top.at = "loop" /\ Top.queue # <<>> /\ frames' = Become(f)
        /\ UNCHANGED <<links, freed>>
    BY <1>2 DEF SkipNull
  <2>2. /\ Depth \in {1, 2} /\ TaskHeld(Top)
        /\ Top.queue \in Seq(Nodes \cup {Null}) /\ Top.task \in Nodes \cup {Null}
    BY <1>0, <2>1, Running, TopFacts
  <2>3. Tail(Top.queue) \in Seq(Nodes \cup {Null})
    BY <2>1, <2>2, HeadTailProperties
  <2>4. /\ f \in Frame /\ TaskHeld(f) /\ f.at = "loop"
        /\ f.exp = Top.exp /\ f.queue = Tail(Top.queue)
    BY <1>0, <2>1, <2>2, <2>3, GoingFacts
  <2>5. Depth = 2 => links[Top.exp] \in Seq({Null}) /\ Tail(Top.queue) \in Seq({Null})
    BY <2>1, Running, NullQueue DEF Inner
  <2>. HIDE DEF f
  <2>. QED  BY <1>0, <2>1, <2>2, <2>4, <2>5, Replaced DEF TypeOK
<1>3. CASE TakeTask
  <2>. DEFINE n == Head(Top.queue)
              q == Tail(Top.queue) \o links[n]
              f == Going(q, n, "task")
  <2>1. /\ frames # <<>> /\ Top.at = "loop" /\ Top.queue # <<>> /\ n # Null
        /\ frames' = Become(f) /\ MoveLinks(n) /\ UNCHANGED freed
    BY <1>3 DEF TakeTask, Take
  <2>2. /\ Depth \in {1, 2} /\ Top.queue \in Seq(Nodes \cup {Null})
    BY <1>0, <2>1, Running, TopFacts
  <2>3. Depth = 1
    <3>1. Depth = 2 => Top.queue \in Seq({Null})
      BY <2>1, Running DEF Inner
    <3>. QED  BY <2>1, <2>2, <3>1, NullQueue
  <2>4. n \in Nodes /\ Tail(Top.queue) \in Seq(Nodes \cup {Null})
    BY <2>1, <2>2, HeadTailProperties
  <2>5. q \in Seq(Nodes \cup {Null})
    BY <2>4, ConcatProperties DEF Inv, TypeOK
  <2>. HIDE DEF n, q
  <2>6. f \in Frame /\ TaskHeld(f) /\ f.at = "task" /\ f.task = n
    BY <1>0, <2>1, <2>4, <2>5, GoingTaskFacts
  <2>. HIDE DEF f
  <2>7. /\ links' \in [Nodes -> Seq(Nodes \cup {Null})]
        /\ links'[f.task] \in Seq({Null})
        /\ \A m \in Nodes : links[m] \in Seq({Null}) => links'[m] \in Seq({Null})
    BY <1>0, <2>1, <2>4, <2>6, MoveFacts
  <2>8. Depth # 2
    BY <2>3
  <2>. QED  BY <2>1, <2>3, <2>6, <2>7, <2>8, Replaced
<1>4. CASE DropTask
  <2>. DEFINE f == Going(Top.queue, Null, "loop")
              g == Activation(Top.task)
  <2>1. /\ frames # <<>> /\ Top.at = "task" /\ frames' = Append(Become(f), g)
        /\ UNCHANGED <<links, freed>>
    BY <1>4 DEF DropTask
  <2>2. /\ TaskHeld(Top) /\ Top.task \in Nodes \cup {Null} /\ Top.queue \in Seq(Nodes \cup {Null})
    BY <1>0, <2>1, Running, TopFacts
  <2>3. Depth = 1 /\ Outer(Top)
    BY <2>1, Running DEF Inner
  <2>4. Top.task \in Nodes /\ links[Top.task] \in Seq({Null})
    BY <2>1, <2>2, <2>3 DEF Outer, TaskHeld
  <2>5. f \in Frame /\ TaskHeld(f) /\ f.at = "loop"
    BY <1>0, <2>1, <2>2, GoingFacts
  <2>6. /\ g \in Frame /\ TaskHeld(g) /\ g.at = "visit"
        /\ g.exp = Top.task /\ g.queue \in Seq({Null})
    BY <2>4, EmptySeq DEF Activation, Frame, TaskHeld
  <2>. HIDE DEF f, g
  <2>7. /\ frames' \in Seq(Frame) /\ Len(frames') = 2 /\ frames'[1] = f /\ frames'[2] = g
    BY <1>0, <2>1, <2>3, <2>5, <2>6, BecomeFacts, AppendProperties
  <2>8. TypeOK' /\ Depth' = 2
    BY <1>0, <2>1, <2>7 DEF TypeOK, Depth
  <2>9. \A d \in 1..2 : TaskHeld(frames'[d])
    BY <2>5, <2>6, <2>7
  <2>10. Outer(frames[1])' /\ Inner(frames[2])'
    BY <2>1, <2>4, <2>5, <2>6, <2>7 DEF Outer, Inner
  <2>. QED  BY <2>8, <2>9, <2>10 DEF Inv, TaskHeld
<1>5. CASE Return
  <2>. DEFINE u == SubSeq(frames, 1, Depth - 1)
  <2>1. /\ frames # <<>> /\ freed' = freed \cup {Top.exp} /\ frames' = u /\ UNCHANGED links
    BY <1>5 DEF Return
  <2>2. Depth \in {1, 2} /\ Top.exp \in Nodes /\ frames \in Seq(Frame) /\ Depth = Len(frames)
    BY <1>0, <2>1, Running, TopFacts
  <2>3. /\ u \in Seq(Frame) /\ Len(u) = Depth - 1 /\ \A d \in 1..(Depth - 1) : u[d] = frames[d]
    <3>1. /\ Depth - 1 \in Int /\ \A d \in 1..(Depth - 1) : frames[d] \in Frame
      BY <2>2, ElementOfSeq
    <3>. QED  BY <2>2, <3>1, SubSeqProperties
  <2>. HIDE DEF u
  <2>4. TypeOK' /\ Depth' = Depth - 1
    BY <1>0, <2>1, <2>2, <2>3 DEF TypeOK, Depth
  <2>5. \A d \in 1..(Depth - 1) : TaskHeld(frames'[d])
    BY <2>1, <2>2, <2>3 DEF Inv
  <2>6. Depth' >= 1 => Outer(frames[1])'
    BY <2>1, <2>2, <2>3, <2>4 DEF Inv, Outer
  <2>. QED  BY <2>2, <2>4, <2>5, <2>6 DEF Inv, TaskHeld
<1>6. CASE UNCHANGED vars
  BY <1>6 DEF Inv, TypeOK, vars, Depth, TaskHeld, Outer, Inner
<1>. QED  BY <1>1, <1>2, <1>3, <1>4, <1>5, <1>6 DEF Next

(***************************************************************************)
(* However many nodes the tree has and however they hang together, at most *)
(* two destructors are active at once.                                     *)
(***************************************************************************)
THEOREM BoundedNesting == Spec => []NestingBounded
<1>1. Inv => NestingBounded
  BY DEF Inv, NestingBounded
<1>. QED  BY <1>1, InitInv, NextInv, PTL DEF Spec
-----------------------------------------------------------------------------
(***************************************************************************)
(* Every node is destroyed once.                                           *)
(*                                                                         *)
(* A step moves what owns a node from one place to another and makes       *)
(* neither a second owner nor none.  For that an activation must start     *)
(* with no queue and must find its own links empty when it returns         *)
(* (Drained).                                                              *)
(***************************************************************************)
OneOwner(n) == IF n \in freed THEN OwnersOf(n) = {} ELSE \E p : OwnersOf(n) = {p}

Drained(f) == IF f.at = "visit" THEN f.queue = <<>> ELSE links[f.exp] \in Seq({Null})

OwnInv ==
    /\ Inv
    /\ \A d \in 1..Depth : Drained(frames[d])
    /\ \A n \in Nodes : OneOwner(n)

\* The places where a node can be owned, one kind after the other.
LEMMA OwnersAre ==
  \A n, p : p \in OwnersOf(n) <=>
     \/ \E m \in Nodes \ freed : \E i \in DOMAIN links[m] : links[m][i] = n /\ p = <<"link", m, i>>
     \/ \E d \in 1..Depth : \E i \in DOMAIN frames[d].queue :
           frames[d].queue[i] = n /\ p = <<"queue", d, i>>
     \/ \E d \in 1..Depth : frames[d].task = n /\ p = <<"task", d, 0>>
     \/ \E d \in 1..Depth : frames[d].exp = n /\ p = <<"exp", d, 0>>
<1>. SUFFICES ASSUME NEW n, NEW p
              PROVE  p \in OwnersOf(n) <=>
     \/ \E m \in Nodes \ freed : \E i \in DOMAIN links[m] : links[m][i] = n /\ p = <<"link", m, i>>
     \/ \E d \in 1..Depth : \E i \in DOMAIN frames[d].queue :
           frames[d].queue[i] = n /\ p = <<"queue", d, i>>
     \/ \E d \in 1..Depth : frames[d].task = n /\ p = <<"task", d, 0>>
     \/ \E d \in 1..Depth : frames[d].exp = n /\ p = <<"exp", d, 0>>
  OBVIOUS
<1>1. p \in OwningLinks(n) <=>
      \E m \in Nodes \ freed : \E i \in DOMAIN links[m] : links[m][i] = n /\ p = <<"link", m, i>>
  BY DEF OwningLinks, Occurs
<1>2. p \in OwningQueues(n) <=>
      \E d \in 1..Depth : \E i \in DOMAIN frames[d].queue :
           frames[d].queue[i] = n /\ p = <<"queue", d, i>>
  BY DEF OwningQueues, Occurs
<1>3. p \in OwningTasks(n) <=> \E d \in 1..Depth : frames[d].task = n /\ p = <<"task", d, 0>>
  BY DEF OwningTasks
<1>4. p \in OwningActivations(n) <=> \E d \in 1..Depth : frames[d].exp = n /\ p = <<"exp", d, 0>>
  BY DEF OwningActivations
<1>. QED  BY <1>1, <1>2, <1>3, <1>4 DEF OwnersOf

LEMMA OwnersAreNext ==
  \A n, p : p \in OwnersOf(n)' <=>
     \/ \E m \in Nodes \ freed' : \E i \in DOMAIN links'[m] : links'[m][i] = n /\ p = <<"link", m, i>>
     \/ \E d \in 1..Depth' : \E i \in DOMAIN frames'[d].queue :
           frames'[d].queue[i] = n /\ p = <<"queue", d, i>>
     \/ \E d \in 1..Depth' : frames'[d].task = n /\ p = <<"task", d, 0>>
     \/ \E d \in 1..Depth' : frames'[d].exp = n /\ p = <<"exp", d, 0>>
<1>. SUFFICES ASSUME NEW n, NEW p
              PROVE  p \in OwnersOf(n)' <=>
     \/ \E m \in Nodes \ freed' : \E i \in DOMAIN links'[m] : links'[m][i] = n /\ p = <<"link", m, i>>
     \/ \E d \in 1..Depth' : \E i \in DOMAIN frames'[d].queue :
           frames'[d].queue[i] = n /\ p = <<"queue", d, i>>
     \/ \E d \in 1..Depth' : frames'[d].task = n /\ p = <<"task", d, 0>>
     \/ \E d \in 1..Depth' : frames'[d].exp = n /\ p = <<"exp", d, 0>>
  OBVIOUS
<1>1. p \in OwningLinks(n)' <=>
      \E m \in Nodes \ freed' : \E i \in DOMAIN links'[m] : links'[m][i] = n /\ p = <<"link", m, i>>
  BY DEF OwningLinks, Occurs
<1>2. p \in OwningQueues(n)' <=>
      \E d \in 1..Depth' : \E i \in DOMAIN frames'[d].queue :
           frames'[d].queue[i] = n /\ p = <<"queue", d, i>>
  BY DEF OwningQueues, Occurs
<1>3. p \in OwningTasks(n)' <=> \E d \in 1..Depth' : frames'[d].task = n /\ p = <<"task", d, 0>>
  BY DEF OwningTasks
<1>4. p \in OwningActivations(n)' <=> \E d \in 1..Depth' : frames'[d].exp = n /\ p = <<"exp", d, 0>>
  BY DEF OwningActivations
<1>. QED  BY <1>1, <1>2, <1>3, <1>4 DEF OwnersOf

\* If owners move and none appears or disappears, each node keeps the one it has.
LEMMA OwnersMove ==
  ASSUME NEW n, OneOwner(n), n \in freed' <=> n \in freed, NEW f,
         \A p \in OwnersOf(n) : f[p] \in OwnersOf(n)',
         \A q \in OwnersOf(n)' : \E p \in OwnersOf(n) : q = f[p]
  PROVE  OneOwner(n)'
<1>1. CASE n \in freed
  BY <1>1 DEF OneOwner
<1>2. CASE n \notin freed
  <2>1. PICK p : OwnersOf(n) = {p}
    BY <1>2 DEF OneOwner
  <2>2. OwnersOf(n)' = {f[p]}
    BY <2>1
  <2>. QED  BY <1>2, <2>2 DEF OneOwner
<1>. QED  BY <1>1, <1>2

LEMMA OwnersStay ==
  ASSUME NEW n, OneOwner(n), n \in freed' <=> n \in freed,
         \A p : p \in OwnersOf(n)' <=> p \in OwnersOf(n)
  PROVE  OneOwner(n)'
<1>1. OwnersOf(n)' = OwnersOf(n)
  OBVIOUS
<1>. QED  BY <1>1 DEF OneOwner

\* A live node is what a frame, a queue or a live link refers to.
LEMMA NotFreed ==
  ASSUME OwnInv, NEW n \in Nodes, NEW p \in OwnersOf(n)
  PROVE  n \notin freed
BY DEF OwnInv, OneOwner

\* In a sequence of nulls there is no node.
LEMMA NoNodes ==
  ASSUME NEW s \in Seq({Null}), NEW i \in DOMAIN s
  PROVE  s[i] = Null /\ s[i] \notin Nodes
<1>1. s[i] \in {Null}
  BY ElementOfSeq, LenProperties
<1>. QED  BY <1>1, NullAssumption

LEMMA InitOwn == Init => OwnInv
<1>. SUFFICES ASSUME Init
              PROVE  OwnInv
  OBVIOUS
<1>0. PICK t \in Trees : links = t.links /\ frames = <<Activation(t.root)>>
  BY DEF Init
<1>1. Inv /\ Depth = 1 /\ freed = {}
  BY <1>0, InitInv DEF Depth, Init
<1>2. /\ frames[1].exp = t.root /\ frames[1].queue = <<>> /\ frames[1].task = Null
      /\ frames[1].at = "visit"
  BY <1>0 DEF Activation
<1>3. ASSUME NEW n \in Nodes
      PROVE  OneOwner(n)
  <2>1. t.root \in Nodes /\ n # Null /\ n \notin freed
    BY <1>1, TreesAssumption, NullAssumption
  <2>2. PICK w : w = LinksTo(n, t.links)
    OBVIOUS
  <2>3. \A m, i : <<m, i>> \in w <=> m \in Nodes /\ i \in DOMAIN links[m] /\ links[m][i] = n
    BY <1>0, <2>2 DEF LinksTo, Occurs
  <2>4. IF n = t.root THEN w = {} ELSE \E p \in w : w = {p}
    BY <2>2, OwnershipAssumption
  <2>5. \A p : p \in OwnersOf(n) <=>
          \/ \E m \in Nodes : \E i \in DOMAIN links[m] : links[m][i] = n /\ p = <<"link", m, i>>
          \/ t.root = n /\ p = <<"exp", 1, 0>>
    <3>1. \A d : d \in 1..Depth <=> d = 1
      BY <1>1
    <3>2. \A p : p \in OwnersOf(n) <=>
         \/ \E m \in Nodes : \E i \in DOMAIN links[m] : links[m][i] = n /\ p = <<"link", m, i>>
         \/ \E i \in DOMAIN frames[1].queue : frames[1].queue[i] = n /\ p = <<"queue", 1, i>>
         \/ frames[1].task = n /\ p = <<"task", 1, 0>>
         \/ frames[1].exp = n /\ p = <<"exp", 1, 0>>
      BY ONLY <1>1, <3>1, OwnersAre
    <3>. QED  BY ONLY <3>2, <1>2, <2>1
  <2>6. CASE n = t.root
    <3>1. \A m \in Nodes : \A i \in DOMAIN links[m] : links[m][i] # n
      BY ONLY <2>3, <2>4, <2>6
    <3>2. \A p : p \in OwnersOf(n) <=> p = <<"exp", 1, 0>>
      BY ONLY <2>5, <2>6, <3>1
    <3>3. OwnersOf(n) = {<<"exp", 1, 0>>}
      BY ONLY <3>2
    <3>. QED  BY ONLY <2>1, <3>3 DEF OneOwner
  <2>7. CASE n # t.root
    <3>1. PICK p \in w : w = {p}
      BY <2>4, <2>7
    <3>2. PICK m, i : p = <<m, i>> /\ m \in Nodes /\ i \in DOMAIN links[m] /\ links[m][i] = n
      BY <1>0, <2>2, <3>1 DEF LinksTo, Occurs
    <3>3. \A k \in Nodes : \A j \in DOMAIN links[k] : links[k][j] = n => k = m /\ j = i
      BY ONLY <2>3, <3>1, <3>2
    <3>4. \A q : q \in OwnersOf(n) <=> q = <<"link", m, i>>
      BY ONLY <2>5, <2>7, <3>2, <3>3
    <3>5. OwnersOf(n) = {<<"link", m, i>>}
      BY ONLY <3>4
    <3>. QED  BY ONLY <2>1, <3>5 DEF OneOwner
  <2>. QED  BY <2>6, <2>7
<1>. QED  BY <1>1, <1>2, <1>3 DEF OwnInv, Drained
-----------------------------------------------------------------------------
\* What is known of the running activation, and of what it owns.
LEMMA RunningOwn ==
  ASSUME OwnInv, frames # <<>>
  PROVE  /\ Inv /\ TypeOK /\ Depth \in {1, 2} /\ Depth \in 1..Depth /\ Top = frames[Depth]
         /\ Top.exp \in Nodes /\ Top.exp \notin freed /\ Top.task \in Nodes \cup {Null}
         /\ Top.queue \in Seq(Nodes \cup {Null}) /\ TaskHeld(Top) /\ Drained(Top)
         /\ links[Top.exp] \in Seq(Nodes \cup {Null})
         /\ Null \notin Nodes
<1>1. Inv /\ TypeOK /\ Depth \in {1, 2} /\ TaskHeld(Top)
  BY Running DEF OwnInv
<1>2. Depth \in 1..Depth /\ Top = frames[Depth]
  BY <1>1 DEF Top
<1>3. Top.exp \in Nodes /\ Top.queue \in Seq(Nodes \cup {Null}) /\ Top.task \in Nodes \cup {Null}
  BY <1>1, TopFacts
<1>4. Drained(Top)
  BY <1>2 DEF OwnInv
<1>5. <<"exp", Depth, 0>> \in OwnersOf(Top.exp)
  BY <1>2, OwnersAre
<1>6. Top.exp \notin freed
  BY <1>3, <1>5, NotFreed
<1>. QED  BY <1>1, <1>2, <1>3, <1>4, <1>6, NullAssumption DEF TypeOK

\* What moving out of a node does to the links.
LEMMA MovedLinks ==
  ASSUME TypeOK, NEW n \in Nodes, MoveLinks(n)
  PROVE  /\ \A m \in Nodes : m # n => links'[m] = links[m]
         /\ DOMAIN links'[n] = DOMAIN links[n]
         /\ \A i \in DOMAIN links'[n] : links'[n][i] = Null
<1>1. links[n] \in Seq(Nodes \cup {Null}) /\ DOMAIN links[n] = 1..Len(links[n])
  BY LenProperties DEF TypeOK
<1>2. links'[n] = Emptied(n) /\ \A m \in Nodes : m # n => links'[m] = links[m]
  BY DEF MoveLinks, TypeOK
<1>. QED  BY <1>1, <1>2 DEF Emptied

\* Where a place goes when activation d takes s entries off its queue, and puts what node e
\* holds in its links behind the k entries that are left.
Route(d, s, e, k) ==
    [p \in UNION {OwnersOf(n) : n \in Nodes} |->
        IF p[1] = "link" /\ p[2] = e THEN <<"queue", d, k + p[3]>>
        ELSE IF p[1] = "queue" /\ p[2] = d
             THEN IF p[3] = s THEN <<"task", d, 0>> ELSE <<"queue", d, p[3] - s>>
             ELSE p]

\* Route r sends the places of n there.
Routed(r, d, s, e, k, n) ==
    /\ \A m, i : <<"link", m, i>> \in OwnersOf(n) =>
           r[<<"link", m, i>>] = IF m = e THEN <<"queue", d, k + i>> ELSE <<"link", m, i>>
    /\ \A c, i : <<"queue", c, i>> \in OwnersOf(n) =>
           r[<<"queue", c, i>>] =
              IF c = d THEN IF i = s THEN <<"task", d, 0>> ELSE <<"queue", d, i - s>>
              ELSE <<"queue", c, i>>
    /\ \A c : <<"task", c, 0>> \in OwnersOf(n) => r[<<"task", c, 0>>] = <<"task", c, 0>>
    /\ \A c : <<"exp", c, 0>> \in OwnersOf(n) => r[<<"exp", c, 0>>] = <<"exp", c, 0>>

LEMMA Routes ==
  ASSUME NEW d, NEW s, NEW e, NEW k, NEW n \in Nodes
  PROVE  \E r : Routed(r, d, s, e, k, n)
<1>1. PICK r : r = Route(d, s, e, k)
  OBVIOUS
<1>2. \A p \in OwnersOf(n) : r[p] =
        IF p[1] = "link" /\ p[2] = e THEN <<"queue", d, k + p[3]>>
        ELSE IF p[1] = "queue" /\ p[2] = d
             THEN IF p[3] = s THEN <<"task", d, 0>> ELSE <<"queue", d, p[3] - s>>
             ELSE p
  BY <1>1 DEF Route
<1>3. \A m, i : <<"link", m, i>> \in OwnersOf(n) =>
               r[<<"link", m, i>>] = IF m = e THEN <<"queue", d, k + i>> ELSE <<"link", m, i>>
  BY <1>2
<1>4. \A c, i : <<"queue", c, i>> \in OwnersOf(n) =>
               r[<<"queue", c, i>>] =
                  IF c = d THEN IF i = s THEN <<"task", d, 0>> ELSE <<"queue", d, i - s>>
                  ELSE <<"queue", c, i>>
  BY <1>2
<1>5. /\ \A c : <<"task", c, 0>> \in OwnersOf(n) => r[<<"task", c, 0>>] = <<"task", c, 0>>
      /\ \A c : <<"exp", c, 0>> \in OwnersOf(n) => r[<<"exp", c, 0>>] = <<"exp", c, 0>>
  BY <1>2
<1>. QED  BY <1>3, <1>4, <1>5 DEF Routed

\* The top activation d goes on as f, with its queue changed in that way: q becomes u.
Flows(d, s, e, k, f) ==
    LET q == frames[d].queue
        u == f.queue
    IN  /\ s \in {0, 1} /\ k \in Nat
        /\ d \in 1..Depth /\ Depth' = Depth /\ freed' = freed
        /\ \A c \in 1..Depth : frames'[c] = IF c = d THEN f ELSE frames[c]
        /\ f.exp = frames[d].exp /\ frames[d].task = Null
        /\ e \notin freed
        /\ DOMAIN q \subseteq Nat \ {0} /\ DOMAIN u \subseteq Nat \ {0}
        /\ e \in Nodes => DOMAIN links[e] \subseteq Nat \ {0}
        /\ \A i \in DOMAIN q : IF i = s THEN q[i] = f.task ELSE i - s \in DOMAIN u /\ u[i - s] = q[i]
        /\ f.task \in Nodes => s = 1 /\ 1 \in DOMAIN q
        /\ e \in Nodes => \A i \in DOMAIN links[e] : k + i \in DOMAIN u /\ u[k + i] = links[e][i]
        /\ \A j \in DOMAIN u :
              \/ j + s \in DOMAIN q /\ u[j] = q[j + s]
              \/ e \in Nodes /\ \E i \in DOMAIN links[e] : j = k + i /\ u[j] = links[e][i]
        /\ \A m \in Nodes : m # e => links'[m] = links[m]
        /\ e \in Nodes => \A i \in DOMAIN links'[e] : links'[e][i] = Null

LEMMA FlowsOwn ==
  ASSUME OwnInv, NEW D, NEW s, NEW e, NEW k, NEW f, Flows(D, s, e, k, f), NEW n \in Nodes
  PROVE  OneOwner(n)'
<1>0. OneOwner(n) /\ n # Null
  BY NullAssumption DEF OwnInv
<1>1. PICK q, u : q = frames[D].queue /\ u = f.queue
  OBVIOUS
<1>2. /\ s \in {0, 1} /\ k \in Nat
      /\ D \in 1..Depth /\ Depth' = Depth /\ freed' = freed
      /\ \A c \in 1..Depth : frames'[c] = IF c = D THEN f ELSE frames[c]
      /\ f.exp = frames[D].exp /\ frames[D].task = Null
      /\ e \notin freed
      /\ DOMAIN q \subseteq Nat \ {0} /\ DOMAIN u \subseteq Nat \ {0}
      /\ e \in Nodes => DOMAIN links[e] \subseteq Nat \ {0}
  BY <1>1 DEF Flows
<1>3. /\ \A i \in DOMAIN q : IF i = s THEN q[i] = f.task ELSE i - s \in DOMAIN u /\ u[i - s] = q[i]
      /\ f.task \in Nodes => s = 1 /\ 1 \in DOMAIN q
      /\ e \in Nodes => \A i \in DOMAIN links[e] : k + i \in DOMAIN u /\ u[k + i] = links[e][i]
      /\ \A j \in DOMAIN u :
            \/ j + s \in DOMAIN q /\ u[j] = q[j + s]
            \/ e \in Nodes /\ \E i \in DOMAIN links[e] : j = k + i /\ u[j] = links[e][i]
      /\ \A m \in Nodes : m # e => links'[m] = links[m]
      /\ e \in Nodes => \A i \in DOMAIN links'[e] : links'[e][i] = Null
  BY <1>1 DEF Flows
<1>9. PICK g : Routed(g, D, s, e, k, n)
  BY Routes
<1>4. /\ \A m, i : <<"link", m, i>> \in OwnersOf(n) =>
            g[<<"link", m, i>>] = IF m = e THEN <<"queue", D, k + i>> ELSE <<"link", m, i>>
      /\ \A c, i : <<"queue", c, i>> \in OwnersOf(n) =>
            g[<<"queue", c, i>>] =
               IF c = D THEN IF i = s THEN <<"task", D, 0>> ELSE <<"queue", D, i - s>>
               ELSE <<"queue", c, i>>
      /\ \A c : <<"task", c, 0>> \in OwnersOf(n) => g[<<"task", c, 0>>] = <<"task", c, 0>>
      /\ \A c : <<"exp", c, 0>> \in OwnersOf(n) => g[<<"exp", c, 0>>] = <<"exp", c, 0>>
  BY <1>9 DEF Routed
<1>5. ASSUME NEW p \in OwnersOf(n)
      PROVE  g[p] \in OwnersOf(n)'
  <2>1. ASSUME NEW m \in Nodes \ freed, NEW i, i \in DOMAIN links[m], links[m][i] = n, p = <<"link", m, i>>
        PROVE  g[p] \in OwnersOf(n)'
    <3>1. g[p] = IF m = e THEN <<"queue", D, k + i>> ELSE <<"link", m, i>>
      BY <1>4, <2>1
    <3>2. CASE m = e
      <4>1. k + i \in DOMAIN frames'[D].queue /\ frames'[D].queue[k + i] = n /\ D \in 1..Depth'
        BY <1>1, <1>2, <1>3, <2>1, <3>2
      <4>2. g[p] = <<"queue", D, k + i>>
        BY <3>1, <3>2
      <4>. QED  BY ONLY <4>1, <4>2, OwnersAreNext
    <3>3. CASE m # e
      <4>1. m \in Nodes \ freed' /\ i \in DOMAIN links'[m] /\ links'[m][i] = n /\ g[p] = <<"link", m, i>>
        BY <1>2, <1>3, <2>1, <3>1, <3>3
      <4>. QED  BY ONLY <4>1, OwnersAreNext
    <3>. QED  BY <3>2, <3>3
  <2>2. ASSUME NEW d \in 1..Depth, NEW i \in DOMAIN frames[d].queue, frames[d].queue[i] = n,
               p = <<"queue", d, i>>
        PROVE  g[p] \in OwnersOf(n)'
    <3>1. g[p] = IF d = D THEN IF i = s THEN <<"task", D, 0>> ELSE <<"queue", D, i - s>>
                 ELSE <<"queue", d, i>>
      BY <1>4, <2>2
    <3>2. CASE d = D /\ i = s
      <4>1. g[p] = <<"task", D, 0>> /\ frames'[D].task = n /\ D \in 1..Depth'
        BY <1>1, <1>2, <1>3, <2>2, <3>1, <3>2
      <4>. QED  BY ONLY <4>1, OwnersAreNext
    <3>3. CASE d = D /\ i # s
      <4>1. /\ i - s \in DOMAIN frames'[D].queue /\ frames'[D].queue[i - s] = n /\ D \in 1..Depth'
            /\ g[p] = <<"queue", D, i - s>>
        BY <1>1, <1>2, <1>3, <2>2, <3>1, <3>3
      <4>. QED  BY ONLY <4>1, OwnersAreNext
    <3>4. CASE d # D
      <4>1. /\ i \in DOMAIN frames'[d].queue /\ frames'[d].queue[i] = n /\ d \in 1..Depth'
            /\ g[p] = <<"queue", d, i>>
        BY <1>2, <2>2, <3>1, <3>4
      <4>. QED  BY ONLY <4>1, OwnersAreNext
    <3>. QED  BY <3>2, <3>3, <3>4
  <2>3. ASSUME NEW d \in 1..Depth, frames[d].task = n, p = <<"task", d, 0>>
        PROVE  g[p] \in OwnersOf(n)'
    <3>1. g[p] = <<"task", d, 0>> /\ frames'[d].task = n /\ d \in 1..Depth'
      BY <1>0, <1>2, <1>4, <2>3
    <3>. QED  BY ONLY <3>1, OwnersAreNext
  <2>4. ASSUME NEW d \in 1..Depth, frames[d].exp = n, p = <<"exp", d, 0>>
        PROVE  g[p] \in OwnersOf(n)'
    <3>1. g[p] = <<"exp", d, 0>> /\ frames'[d].exp = n /\ d \in 1..Depth'
      BY <1>2, <1>4, <2>4
    <3>. QED  BY ONLY <3>1, OwnersAreNext
  <2>. QED  BY <2>1, <2>2, <2>3, <2>4, OwnersAre
<1>6. ASSUME NEW p \in OwnersOf(n)'
      PROVE  \E o \in OwnersOf(n) : p = g[o]
  <2>1. ASSUME NEW m \in Nodes \ freed', NEW i, i \in DOMAIN links'[m], links'[m][i] = n, p = <<"link", m, i>>
        PROVE  \E o \in OwnersOf(n) : p = g[o]
    <3>1. m # e /\ m \in Nodes \ freed /\ i \in DOMAIN links[m] /\ links[m][i] = n
      BY <1>0, <1>2, <1>3, <2>1
    <3>2. p \in OwnersOf(n)
      BY <2>1, <3>1, OwnersAre
    <3>3. g[p] = p
      BY <1>4, <2>1, <3>1, <3>2
    <3>. QED  BY <3>2, <3>3
  <2>2. ASSUME NEW d \in 1..Depth, NEW i \in DOMAIN frames'[d].queue, frames'[d].queue[i] = n,
               p = <<"queue", d, i>>
        PROVE  \E o \in OwnersOf(n) : p = g[o]
    <3>1. CASE d # D
      <4>1. i \in DOMAIN frames[d].queue /\ frames[d].queue[i] = n
        BY <1>2, <2>2, <3>1
      <4>2. p \in OwnersOf(n)
        BY <2>2, <4>1, OwnersAre
      <4>3. g[p] = p
        BY <1>4, <2>2, <3>1, <4>2
      <4>. QED  BY <4>2, <4>3
    <3>2. CASE d = D /\ i + s \in DOMAIN q /\ u[i] = q[i + s]
      <4>0. i \in Nat \ {0} /\ i + s # s /\ (i + s) - s = i
        BY <1>1, <1>2, <2>2, <3>2
      <4>1. <<"queue", d, i + s>> \in OwnersOf(n)
        <5>1. d \in 1..Depth /\ i + s \in DOMAIN frames[d].queue /\ frames[d].queue[i + s] = n
          BY <1>1, <1>2, <2>2, <3>2
        <5>. QED  BY ONLY <5>1, OwnersAre
      <4>2. g[<<"queue", d, i + s>>] = <<"queue", d, (i + s) - s>>
        BY <1>4, <3>2, <4>0, <4>1
      <4>. QED  BY <2>2, <4>0, <4>1, <4>2
    <3>3. CASE d = D /\ e \in Nodes /\ \E j \in DOMAIN links[e] : i = k + j /\ u[i] = links[e][j]
      <4>1. PICK j \in DOMAIN links[e] : i = k + j /\ u[i] = links[e][j]
        BY <3>3
      <4>2. <<"link", e, j>> \in OwnersOf(n)
        <5>1. e \in Nodes \ freed /\ j \in DOMAIN links[e] /\ links[e][j] = n
          BY <1>1, <1>2, <2>2, <3>3, <4>1
        <5>. QED  BY ONLY <5>1, OwnersAre
      <4>3. g[<<"link", e, j>>] = <<"queue", D, k + j>>
        BY <1>4, <4>2
      <4>. QED  BY <2>2, <3>3, <4>1, <4>2, <4>3
    <3>4. d = D => i \in DOMAIN u
      BY <1>1, <1>2, <2>2
    <3>. QED  BY <1>3, <3>1, <3>2, <3>3, <3>4
  <2>3. ASSUME NEW d \in 1..Depth, frames'[d].task = n, p = <<"task", d, 0>>
        PROVE  \E o \in OwnersOf(n) : p = g[o]
    <3>1. CASE d = D
      <4>1. s = 1 /\ 1 \in DOMAIN frames[D].queue /\ frames[D].queue[1] = n
        BY <1>1, <1>2, <1>3, <2>3, <3>1
      <4>2. <<"queue", D, 1>> \in OwnersOf(n)
        BY <1>2, <4>1, OwnersAre
      <4>3. g[<<"queue", D, 1>>] = <<"task", D, 0>>
        BY <1>4, <4>1, <4>2
      <4>. QED  BY <2>3, <3>1, <4>2, <4>3
    <3>2. CASE d # D
      <4>1. p \in OwnersOf(n)
        BY <1>2, <2>3, <3>2, OwnersAre
      <4>2. g[p] = p
        BY <1>4, <2>3, <4>1
      <4>. QED  BY <4>1, <4>2
    <3>. QED  BY <3>1, <3>2
  <2>4. ASSUME NEW d \in 1..Depth, frames'[d].exp = n, p = <<"exp", d, 0>>
        PROVE  \E o \in OwnersOf(n) : p = g[o]
    <3>1. p \in OwnersOf(n)
      BY <1>2, <2>4, OwnersAre
    <3>2. g[p] = p
      BY <1>4, <2>4, <3>1
    <3>. QED  BY <3>1, <3>2
  <2>. QED  BY <1>2, <2>1, <2>2, <2>3, <2>4, OwnersAreNext
<1>. QED  BY ONLY <1>0, <1>2, <1>5, <1>6, OwnersMove

\* DOMAIN of a sequence.
LEMMA Positions ==
  ASSUME NEW S, NEW s \in Seq(S)
  PROVE  /\ Len(s) \in Nat /\ DOMAIN s = 1..Len(s) /\ DOMAIN s \subseteq Nat \ {0}
         /\ \A i \in DOMAIN s : s[i] \in S
BY LenProperties, ElementOfSeq

LEMMA VisitOwns == OwnInv /\ Visit => \A n \in Nodes : OneOwner(n)'
<1>. SUFFICES ASSUME OwnInv, Visit, NEW n \in Nodes
              PROVE  OneOwner(n)'
  OBVIOUS
<1>1. PICK e, D : e = Top.exp /\ D = Depth
  OBVIOUS
<1>2. PICK f : f = Going(links[e], Null, "loop")
  OBVIOUS
<1>3. /\ frames # <<>> /\ Top.at = "visit" /\ frames' = Become(f) /\ MoveLinks(e) /\ freed' = freed
  BY <1>1, <1>2 DEF Visit
<1>4. /\ TypeOK /\ e \in Nodes /\ e \notin freed /\ D \in 1..D /\ Top = frames[D]
      /\ Top.queue = <<>> /\ Top.task = Null /\ Null \notin Nodes
      /\ links[e] \in Seq(Nodes \cup {Null}) /\ D = Depth
  BY <1>1, <1>3, RunningOwn DEF Drained, TaskHeld
<1>5. f \in Frame /\ f.exp = e /\ f.queue = links[e] /\ f.task = Null
  BY <1>1, <1>2, <1>3, <1>4, GoingFacts DEF Going
<1>6. Depth' = D /\ frames'[D] = f /\ \A d \in 1..D : d # D => frames'[d] = frames[d]
  BY <1>1, <1>3, <1>4, <1>5, BecomeFacts DEF Depth
<1>7. /\ \A m \in Nodes : m # e => links'[m] = links[m]
      /\ \A i \in DOMAIN links'[e] : links'[e][i] = Null
  BY <1>3, <1>4, MovedLinks
<1>8. DOMAIN links[e] \subseteq Nat \ {0}
  BY <1>4, Positions
<1>9. DOMAIN frames[D].queue = {}
  BY <1>4
<1>10. f.task \notin Nodes
  BY <1>4, <1>5
<1>11. \A i \in DOMAIN links[e] : 0 + i = i
  BY <1>8
<1>12. Flows(D, 0, e, 0, f)
  BY <1>1, <1>3, <1>4, <1>5, <1>6, <1>7, <1>8, <1>9, <1>10, <1>11 DEF Flows
<1>. QED  BY <1>12, FlowsOwn

LEMMA SkipOwns == OwnInv /\ SkipNull => \A n \in Nodes : OneOwner(n)'
<1>. SUFFICES ASSUME OwnInv, SkipNull, NEW n \in Nodes
              PROVE  OneOwner(n)'
  OBVIOUS
<1>1. PICK D, q : D = Depth /\ q = Top.queue
  OBVIOUS
<1>2. PICK f : f = Going(Tail(q), Null, "loop")
  OBVIOUS
<1>3. /\ frames # <<>> /\ Top.at = "loop" /\ q # <<>> /\ Head(q) = Null /\ frames' = Become(f)
      /\ links' = links /\ freed' = freed
  BY <1>1, <1>2 DEF SkipNull
<1>4. /\ TypeOK /\ D \in 1..D /\ Top = frames[D] /\ D = Depth
      /\ q \in Seq(Nodes \cup {Null}) /\ Top.task = Null /\ Null \notin Nodes
  BY <1>1, <1>3, RunningOwn DEF TaskHeld
<1>5. Tail(q) \in Seq(Nodes \cup {Null}) /\ Len(Tail(q)) = Len(q) - 1
      /\ \A i \in 1..Len(Tail(q)) : Tail(q)[i] = q[i + 1]
  BY <1>3, <1>4, HeadTailProperties
<1>6. f \in Frame /\ f.exp = Top.exp /\ f.queue = Tail(q) /\ f.task = Null
  BY <1>1, <1>2, <1>3, <1>4, <1>5, GoingFacts DEF Going
<1>7. Depth' = D /\ frames'[D] = f /\ \A d \in 1..D : d # D => frames'[d] = frames[d]
  BY <1>1, <1>3, <1>4, <1>6, BecomeFacts DEF Depth
<1>8. Null \notin freed /\ freed \subseteq Nodes
  BY <1>4 DEF TypeOK
<1>9. /\ Len(q) \in Nat \ {0} /\ DOMAIN q = 1..Len(q) /\ q[1] = Null
      /\ DOMAIN Tail(q) = 1..(Len(q) - 1)
  BY <1>3, <1>4, <1>5, Positions, EmptySeq
<1>10. \A i \in DOMAIN q : IF i = 1 THEN q[i] = Null ELSE i - 1 \in DOMAIN Tail(q) /\ Tail(q)[i - 1] = q[i]
  BY <1>5, <1>9
<1>11. \A j \in DOMAIN Tail(q) : j + 1 \in DOMAIN q /\ Tail(q)[j] = q[j + 1]
  BY <1>5, <1>9
<1>12. Flows(D, 1, Null, 0, f)
  BY <1>1, <1>3, <1>4, <1>6, <1>7, <1>8, <1>9, <1>10, <1>11 DEF Flows
<1>. QED  BY <1>12, FlowsOwn

LEMMA TakeOwns == OwnInv /\ TakeTask => \A n \in Nodes : OneOwner(n)'
<1>. SUFFICES ASSUME OwnInv, TakeTask, NEW n \in Nodes
              PROVE  OneOwner(n)'
  OBVIOUS
<1>1. PICK D, q : D = Depth /\ q = Top.queue
  OBVIOUS
<1>1a. PICK e : e = Head(q)
  OBVIOUS
<1>1b. PICK u : u = Tail(q) \o links[e]
  OBVIOUS
<1>2. PICK f : f = Going(u, e, "task")
  OBVIOUS
<1>3. /\ frames # <<>> /\ Top.at = "loop" /\ q # <<>> /\ e # Null /\ frames' = Become(f)
      /\ MoveLinks(e) /\ freed' = freed
  BY <1>1, <1>1a, <1>1b, <1>2 DEF TakeTask, Take
<1>4. /\ TypeOK /\ D \in 1..D /\ Top = frames[D] /\ D = Depth
      /\ q \in Seq(Nodes \cup {Null}) /\ Top.task = Null /\ Null \notin Nodes
  BY <1>1, <1>3, RunningOwn DEF TaskHeld
<1>5. /\ Tail(q) \in Seq(Nodes \cup {Null}) /\ Len(Tail(q)) = Len(q) - 1 /\ e \in Nodes
      /\ \A i \in 1..Len(Tail(q)) : Tail(q)[i] = q[i + 1]
  BY <1>1a, <1>3, <1>4, HeadTailProperties
<1>6. /\ links[e] \in Seq(Nodes \cup {Null}) /\ DOMAIN links[e] = 1..Len(links[e])
      /\ Len(links[e]) \in Nat /\ DOMAIN links[e] \subseteq Nat \ {0}
  <2>1. links[e] \in Seq(Nodes \cup {Null})
    BY <1>4, <1>5 DEF TypeOK
  <2>. QED  BY <2>1, Positions
<1>7. /\ Len(q) \in Nat \ {0} /\ DOMAIN q = 1..Len(q) /\ q[1] = e
      /\ DOMAIN Tail(q) = 1..(Len(q) - 1)
  BY <1>1a, <1>3, <1>4, <1>5, Positions, EmptySeq
<1>8. /\ u \in Seq(Nodes \cup {Null}) /\ DOMAIN u = 1..((Len(q) - 1) + Len(links[e]))
      /\ \A i \in 1..(Len(q) - 1) : u[i] = q[i + 1]
      /\ \A i \in 1..Len(links[e]) : u[(Len(q) - 1) + i] = links[e][i]
  <2>1. /\ u \in Seq(Nodes \cup {Null}) /\ Len(u) = Len(Tail(q)) + Len(links[e])
        /\ \A i \in 1..Len(u) : u[i] = IF i <= Len(Tail(q)) THEN Tail(q)[i] ELSE links[e][i - Len(Tail(q))]
    BY <1>1b, <1>5, <1>6, ConcatProperties
  <2>2. DOMAIN u = 1..Len(u)
    BY <2>1, Positions
  <2>. QED  BY <1>5, <1>6, <1>7, <2>1, <2>2
<1>9. f \in Frame /\ f.exp = Top.exp /\ f.queue = u /\ f.task = e
  BY <1>1, <1>2, <1>3, <1>4, <1>5, <1>8, GoingTaskFacts DEF Going
<1>10. Depth' = D /\ frames'[D] = f /\ \A d \in 1..D : d # D => frames'[d] = frames[d]
  BY <1>1, <1>3, <1>4, <1>9, BecomeFacts DEF Depth
<1>11. /\ \A m \in Nodes : m # e => links'[m] = links[m]
       /\ \A i \in DOMAIN links'[e] : links'[e][i] = Null
  BY <1>3, <1>4, <1>5, MovedLinks
<1>12. e \notin freed
  <2>1. D \in 1..Depth /\ 1 \in DOMAIN frames[D].queue /\ frames[D].queue[1] = e
    BY <1>1, <1>4, <1>7
  <2>2. <<"queue", D, 1>> \in OwnersOf(e)
    BY ONLY <2>1, OwnersAre
  <2>. QED  BY <1>5, <2>2, NotFreed
<1>13. \A i \in DOMAIN q : IF i = 1 THEN q[i] = e ELSE i - 1 \in DOMAIN u /\ u[i - 1] = q[i]
  BY <1>6, <1>7, <1>8, SMTT(40)
<1>14. \A i \in DOMAIN links[e] : (Len(q) - 1) + i \in DOMAIN u /\ u[(Len(q) - 1) + i] = links[e][i]
  BY <1>6, <1>7, <1>8, SMTT(40)
<1>15. \A j \in DOMAIN u :
          \/ j + 1 \in DOMAIN q /\ u[j] = q[j + 1]
          \/ \E i \in DOMAIN links[e] : j = (Len(q) - 1) + i /\ u[j] = links[e][i]
  <2>1. ASSUME NEW j \in DOMAIN u, j > Len(q) - 1
        PROVE  \E i \in DOMAIN links[e] : j = (Len(q) - 1) + i /\ u[j] = links[e][i]
    <3>1. j - (Len(q) - 1) \in DOMAIN links[e] /\ j = (Len(q) - 1) + (j - (Len(q) - 1))
      BY <1>6, <1>7, <1>8, <2>1
    <3>. QED  BY <1>6, <1>8, <3>1
  <2>2. ASSUME NEW j \in DOMAIN u, j <= Len(q) - 1
        PROVE  j + 1 \in DOMAIN q /\ u[j] = q[j + 1]
    BY <1>6, <1>7, <1>8, <2>2
  <2>3. \A j \in DOMAIN u : j > Len(q) - 1 \/ j <= Len(q) - 1
    BY <1>6, <1>7, <1>8
  <2>. QED  BY <2>1, <2>2, <2>3
<1>16. Len(q) - 1 \in Nat /\ DOMAIN q \subseteq Nat \ {0} /\ DOMAIN u \subseteq Nat \ {0} /\ 1 \in DOMAIN q
  BY <1>6, <1>7, <1>8
<1>17. Flows(D, 1, e, Len(q) - 1, f)
  BY <1>1, <1>3, <1>4, <1>5, <1>6, <1>9, <1>10, <1>11, <1>12, <1>13, <1>14, <1>15, <1>16 DEF Flows
<1>. QED  BY <1>17, FlowsOwn

\* The activation that destroys the node of a task owns it as the task did.
LEMMA DropOwns == OwnInv /\ DropTask => \A n \in Nodes : OneOwner(n)'
<1>. SUFFICES ASSUME OwnInv, DropTask, NEW n \in Nodes
              PROVE  OneOwner(n)'
  OBVIOUS
<1>1. PICK D, t : D = Depth /\ t = Top.task
  OBVIOUS
<1>2. PICK f, g : f = Going(Top.queue, Null, "loop") /\ g = Activation(t)
  OBVIOUS
<1>3. /\ frames # <<>> /\ Top.at = "task" /\ frames' = Append(Become(f), g)
      /\ links' = links /\ freed' = freed
  BY <1>1, <1>2 DEF DropTask
<1>4. /\ TypeOK /\ D \in 1..D /\ Top = frames[D] /\ D = Depth /\ D \in {1, 2}
      /\ Top.queue \in Seq(Nodes \cup {Null}) /\ t \in Nodes /\ n # Null
  BY <1>1, <1>3, RunningOwn DEF TaskHeld
<1>5. /\ f \in Frame /\ f.exp = Top.exp /\ f.queue = Top.queue /\ f.task = Null
      /\ g \in Frame /\ g.exp = t /\ g.queue = <<>> /\ g.task = Null
  BY <1>2, <1>3, <1>4, GoingFacts DEF Going, Activation, Frame
<1>6. /\ Depth' = D + 1 /\ frames'[D + 1] = g /\ frames'[D] = f
      /\ \A d \in 1..D : d # D => frames'[d] = frames[d]
  <2>1. /\ Become(f) \in Seq(Frame) /\ Len(Become(f)) = D /\ Become(f)[D] = f
        /\ \A d \in 1..D : d # D => Become(f)[d] = frames[d]
    BY <1>3, <1>4, <1>5, BecomeFacts
  <2>2. PICK b : b = Become(f)
    OBVIOUS
  <2>3. /\ Len(Append(b, g)) = D + 1 /\ Append(b, g)[D + 1] = g
        /\ \A d \in 1..D : Append(b, g)[d] = b[d]
    BY <1>5, <2>1, <2>2, AppendProperties
  <2>. QED  BY <1>3, <1>4, <2>1, <2>2, <2>3 DEF Depth
<1>7. OneOwner(n)
  BY DEF OwnInv
<1>8. PICK r : r = [p \in OwnersOf(n) |-> IF p = <<"task", D, 0>> THEN <<"exp", D + 1, 0>> ELSE p]
  OBVIOUS
<1>9. \A d \in 1..(D + 1) : d # D + 1 => /\ d \in 1..D /\ frames'[d].queue = frames[d].queue
                                         /\ frames'[d].exp = frames[d].exp
                                         /\ frames'[d].task = IF d = D THEN Null ELSE frames[d].task
  BY <1>4, <1>5, <1>6
<1>10. \A d \in 1..D : d \in 1..(D + 1) /\ d # D + 1
  BY <1>4
<1>11. /\ D + 1 \in 1..(D + 1) /\ DOMAIN frames'[D + 1].queue = {} /\ frames'[D + 1].exp = t
       /\ frames'[D + 1].task = Null
  BY <1>4, <1>5, <1>6
<1>12. \A p : p \in OwnersOf(n)' <=>
          \/ p \in OwnersOf(n) /\ p # <<"task", D, 0>>
          \/ n = t /\ p = <<"exp", D + 1, 0>>
  <2>. SUFFICES ASSUME NEW p
                PROVE  p \in OwnersOf(n)' <=>
                          \/ p \in OwnersOf(n) /\ p # <<"task", D, 0>>
                          \/ n = t /\ p = <<"exp", D + 1, 0>>
    OBVIOUS
  <2>1. (\E d \in 1..(D + 1) : \E i \in DOMAIN frames'[d].queue :
             frames'[d].queue[i] = n /\ p = <<"queue", d, i>>)
        <=> \E d \in 1..D : \E i \in DOMAIN frames[d].queue :
             frames[d].queue[i] = n /\ p = <<"queue", d, i>>
    BY ONLY <1>9, <1>10, <1>11
  <2>2. (\E d \in 1..(D + 1) : frames'[d].task = n /\ p = <<"task", d, 0>>)
        <=> \E d \in 1..D : d # D /\ frames[d].task = n /\ p = <<"task", d, 0>>
    BY ONLY <1>4, <1>9, <1>10, <1>11
  <2>3. (\E d \in 1..(D + 1) : frames'[d].exp = n /\ p = <<"exp", d, 0>>)
        <=> \/ \E d \in 1..D : frames[d].exp = n /\ p = <<"exp", d, 0>>
            \/ n = t /\ p = <<"exp", D + 1, 0>>
    BY ONLY <1>9, <1>10, <1>11
  <2>4. (\E m \in Nodes \ freed' : \E i \in DOMAIN links'[m] : links'[m][i] = n /\ p = <<"link", m, i>>)
        <=> \E m \in Nodes \ freed : \E i \in DOMAIN links[m] : links[m][i] = n /\ p = <<"link", m, i>>
    BY ONLY <1>3
  <2>5. (\E d \in 1..D : d # D /\ frames[d].task = n /\ p = <<"task", d, 0>>)
        <=> (\E d \in 1..D : frames[d].task = n /\ p = <<"task", d, 0>>) /\ p # <<"task", D, 0>>
    OBVIOUS
  <2>6. p \in OwnersOf(n)' <=>
     \/ \E m \in Nodes \ freed' : \E i \in DOMAIN links'[m] : links'[m][i] = n /\ p = <<"link", m, i>>
     \/ \E d \in 1..(D + 1) : \E i \in DOMAIN frames'[d].queue :
           frames'[d].queue[i] = n /\ p = <<"queue", d, i>>
     \/ \E d \in 1..(D + 1) : frames'[d].task = n /\ p = <<"task", d, 0>>
     \/ \E d \in 1..(D + 1) : frames'[d].exp = n /\ p = <<"exp", d, 0>>
    BY <1>6, OwnersAreNext
  <2>7. p \in OwnersOf(n) <=>
     \/ \E m \in Nodes \ freed : \E i \in DOMAIN links[m] : links[m][i] = n /\ p = <<"link", m, i>>
     \/ \E d \in 1..D : \E i \in DOMAIN frames[d].queue :
           frames[d].queue[i] = n /\ p = <<"queue", d, i>>
     \/ \E d \in 1..D : frames[d].task = n /\ p = <<"task", d, 0>>
     \/ \E d \in 1..D : frames[d].exp = n /\ p = <<"exp", d, 0>>
    BY <1>4, OwnersAre
  <2>8. p = <<"task", D, 0>> =>
     /\ ~ \E m \in Nodes \ freed : \E i \in DOMAIN links[m] : links[m][i] = n /\ p = <<"link", m, i>>
     /\ ~ \E d \in 1..D : \E i \in DOMAIN frames[d].queue :
           frames[d].queue[i] = n /\ p = <<"queue", d, i>>
     /\ ~ \E d \in 1..D : frames[d].exp = n /\ p = <<"exp", d, 0>>
    OBVIOUS
  <2>. QED  BY ONLY <2>1, <2>2, <2>3, <2>4, <2>5, <2>6, <2>7, <2>8
<1>13. <<"task", D, 0>> \in OwnersOf(n) <=> n = t
  <2>1. n = t => <<"task", D, 0>> \in OwnersOf(n)
    <3>1. D \in 1..Depth /\ frames[D].task = t
      BY <1>1, <1>4
    <3>. QED  BY ONLY <3>1, OwnersAre
  <2>2. <<"task", D, 0>> \in OwnersOf(n) => n = t
    <3>1. frames[D].task = t
      BY <1>1, <1>4
    <3>. QED  BY ONLY <3>1, OwnersAre
  <2>. QED  BY <2>1, <2>2
<1>14. \A p \in OwnersOf(n) : r[p] \in OwnersOf(n)'
  BY ONLY <1>8, <1>12, <1>13
<1>15. \A q \in OwnersOf(n)' : \E p \in OwnersOf(n) : q = r[p]
  BY ONLY <1>8, <1>12, <1>13
<1>. QED  BY ONLY <1>3, <1>7, <1>14, <1>15, OwnersMove

\* An activation that returns owned its node and nothing else.
LEMMA ReturnOwns == OwnInv /\ Return => \A n \in Nodes : OneOwner(n)'
<1>. SUFFICES ASSUME OwnInv, Return, NEW n \in Nodes
              PROVE  OneOwner(n)'
  OBVIOUS
<1>1. PICK D, e : D = Depth /\ e = Top.exp
  OBVIOUS
<1>2. /\ frames # <<>> /\ Top.at = "loop" /\ Top.queue = <<>> /\ frames' = SubSeq(frames, 1, D - 1)
      /\ links' = links /\ freed' = freed \cup {e}
  BY <1>1 DEF Return
<1>3. /\ TypeOK /\ D \in 1..D /\ Top = frames[D] /\ D = Depth /\ D \in {1, 2} /\ frames \in Seq(Frame)
      /\ D = Len(frames) /\ e \in Nodes /\ e \notin freed /\ Top.task = Null /\ n # Null
      /\ links[e] \in Seq({Null})
  BY <1>1, <1>2, RunningOwn DEF TaskHeld, Drained, TypeOK, Depth
<1>4. Depth' = D - 1 /\ \A d \in 1..(D - 1) : frames'[d] = frames[d]
  <2>1. /\ D - 1 \in Int /\ \A d \in 1..(D - 1) : frames[d] \in Frame
    BY <1>3, ElementOfSeq
  <2>. QED  BY <1>2, <1>3, <2>1, SubSeqProperties DEF Depth
<1>5. \A i \in DOMAIN links[e] : links[e][i] = Null
  BY <1>3, NoNodes
<1>6. \A d : d \in 1..D <=> d = D \/ d \in 1..(D - 1)
  BY <1>3
<1>6a. D \notin 1..(D - 1)
  BY <1>3
<1>7. DOMAIN frames[D].queue = {} /\ frames[D].task = Null /\ frames[D].exp = e
  BY <1>1, <1>2, <1>3
<1>8. \A p : p \in OwnersOf(n)' <=> p \in OwnersOf(n) /\ p # <<"exp", D, 0>>
  <2>. SUFFICES ASSUME NEW p
                PROVE  p \in OwnersOf(n)' <=> p \in OwnersOf(n) /\ p # <<"exp", D, 0>>
    OBVIOUS
  <2>1. p \in OwnersOf(n)' <=>
     \/ \E m \in Nodes \ freed' : \E i \in DOMAIN links'[m] : links'[m][i] = n /\ p = <<"link", m, i>>
     \/ \E d \in 1..(D - 1) : \E i \in DOMAIN frames'[d].queue :
           frames'[d].queue[i] = n /\ p = <<"queue", d, i>>
     \/ \E d \in 1..(D - 1) : frames'[d].task = n /\ p = <<"task", d, 0>>
     \/ \E d \in 1..(D - 1) : frames'[d].exp = n /\ p = <<"exp", d, 0>>
    BY <1>4, OwnersAreNext
  <2>2. p \in OwnersOf(n) <=>
     \/ \E m \in Nodes \ freed : \E i \in DOMAIN links[m] : links[m][i] = n /\ p = <<"link", m, i>>
     \/ \E d \in 1..D : \E i \in DOMAIN frames[d].queue :
           frames[d].queue[i] = n /\ p = <<"queue", d, i>>
     \/ \E d \in 1..D : frames[d].task = n /\ p = <<"task", d, 0>>
     \/ \E d \in 1..D : frames[d].exp = n /\ p = <<"exp", d, 0>>
    BY <1>3, OwnersAre
  <2>3. (\E m \in Nodes \ freed' : \E i \in DOMAIN links'[m] : links'[m][i] = n /\ p = <<"link", m, i>>)
        <=> \E m \in Nodes \ freed : \E i \in DOMAIN links[m] : links[m][i] = n /\ p = <<"link", m, i>>
    BY ONLY <1>2, <1>3, <1>5
  <2>4. (\E d \in 1..(D - 1) : \E i \in DOMAIN frames'[d].queue :
             frames'[d].queue[i] = n /\ p = <<"queue", d, i>>)
        <=> \E d \in 1..D : \E i \in DOMAIN frames[d].queue :
             frames[d].queue[i] = n /\ p = <<"queue", d, i>>
    BY ONLY <1>4, <1>6, <1>7
  <2>5. (\E d \in 1..(D - 1) : frames'[d].task = n /\ p = <<"task", d, 0>>)
        <=> \E d \in 1..D : frames[d].task = n /\ p = <<"task", d, 0>>
    BY ONLY <1>3, <1>4, <1>6, <1>7
  <2>6. (\E d \in 1..(D - 1) : frames'[d].exp = n /\ p = <<"exp", d, 0>>)
        <=> (\E d \in 1..D : frames[d].exp = n /\ p = <<"exp", d, 0>>) /\ p # <<"exp", D, 0>>
    BY ONLY <1>4, <1>6, <1>6a
  <2>7. p = <<"exp", D, 0>> =>
     /\ ~ \E m \in Nodes \ freed : \E i \in DOMAIN links[m] : links[m][i] = n /\ p = <<"link", m, i>>
     /\ ~ \E d \in 1..D : \E i \in DOMAIN frames[d].queue :
           frames[d].queue[i] = n /\ p = <<"queue", d, i>>
     /\ ~ \E d \in 1..D : frames[d].task = n /\ p = <<"task", d, 0>>
    OBVIOUS
  <2>. QED  BY ONLY <2>1, <2>2, <2>3, <2>4, <2>5, <2>6, <2>7
<1>9. <<"exp", D, 0>> \in OwnersOf(n) <=> n = e
  <2>1. n = e => <<"exp", D, 0>> \in OwnersOf(n)
    <3>1. D \in 1..Depth /\ frames[D].exp = e
      BY <1>1, <1>3
    <3>. QED  BY ONLY <3>1, OwnersAre
  <2>2. <<"exp", D, 0>> \in OwnersOf(n) => n = e
    BY ONLY <1>7, OwnersAre
  <2>. QED  BY <2>1, <2>2
<1>10. OneOwner(n)
  BY DEF OwnInv
<1>11. CASE n = e
  <2>1. PICK p : OwnersOf(n) = {p}
    BY <1>3, <1>10, <1>11 DEF OneOwner
  <2>2. p = <<"exp", D, 0>>
    BY ONLY <1>9, <1>11, <2>1
  <2>3. OwnersOf(n)' = {}
    BY ONLY <1>8, <2>1, <2>2
  <2>. QED  BY <1>2, <1>11, <2>3 DEF OneOwner
<1>12. CASE n # e
  <2>1. n \in freed' <=> n \in freed
    BY <1>2, <1>12
  <2>2. \A p : p \in OwnersOf(n)' <=> p \in OwnersOf(n)
    BY ONLY <1>8, <1>9, <1>12
  <2>. QED  BY ONLY <1>10, <2>1, <2>2, OwnersStay
<1>. QED  BY <1>11, <1>12

\* Frames below the top keep finding null what they found null.
LEMMA DrainedStays ==
  ASSUME TypeOK, NEW g \in Frame, Drained(g),
         \A m \in Nodes : links[m] \in Seq({Null}) => links'[m] \in Seq({Null})
  PROVE  IF g.at = "visit" THEN g.queue = <<>> ELSE links'[g.exp] \in Seq({Null})
BY DEF Drained, Frame

LEMMA ReplacedDrained ==
  ASSUME OwnInv, frames # <<>>, NEW f \in Frame, frames' = Become(f),
         \A m \in Nodes : links[m] \in Seq({Null}) => links'[m] \in Seq({Null}),
         f.at # "visit", f.exp = Top.exp, links'[Top.exp] \in Seq({Null})
  PROVE  \A d \in 1..Depth' : Drained(frames[d])'
<1>1. TypeOK /\ frames \in Seq(Frame) /\ Depth = Len(frames) /\ Depth \in {1, 2}
  BY RunningOwn DEF TypeOK, Depth
<1>2. Depth' = Depth /\ \A d \in 1..Depth : frames'[d] = IF d = Depth THEN f ELSE frames[d]
  BY <1>1, BecomeFacts DEF Depth
<1>3. ASSUME NEW d \in 1..Depth
      PROVE  Drained(frames[d])'
  <2>1. CASE d = Depth
    BY <1>2, <2>1 DEF Drained
  <2>2. CASE d # Depth
    <3>1. frames'[d] = frames[d] /\ frames[d] \in Frame /\ Drained(frames[d])
      BY <1>1, <1>2, <2>2, ElementOfSeq DEF OwnInv
    <3>2. IF frames[d].at = "visit" THEN frames[d].queue = <<>> ELSE links'[frames[d].exp] \in Seq({Null})
      BY <1>1, <3>1, DrainedStays
    <3>. QED  BY <3>1, <3>2 DEF Drained
  <2>. QED  BY <2>1, <2>2
<1>. QED  BY <1>2, <1>3

LEMMA NextDrained == OwnInv /\ [Next]_vars => \A d \in 1..Depth' : Drained(frames[d])'
<1>. SUFFICES ASSUME OwnInv, [Next]_vars
              PROVE  \A d \in 1..Depth' : Drained(frames[d])'
  OBVIOUS
<1>0. TypeOK
  BY DEF OwnInv, Inv
<1>1. CASE Visit
  <2>1. PICK f : f = Going(links[Top.exp], Null, "loop")
    OBVIOUS
  <2>2. frames # <<>> /\ frames' = Become(f) /\ MoveLinks(Top.exp)
    BY <1>1, <2>1 DEF Visit
  <2>3. Top.exp \in Nodes /\ links[Top.exp] \in Seq(Nodes \cup {Null})
    BY <2>2, RunningOwn
  <2>4. f \in Frame /\ f.at = "loop" /\ f.exp = Top.exp
    BY <1>0, <2>1, <2>2, <2>3, GoingFacts
  <2>5. /\ links'[Top.exp] \in Seq({Null})
        /\ \A m \in Nodes : links[m] \in Seq({Null}) => links'[m] \in Seq({Null})
    BY <1>0, <2>2, <2>3, MoveFacts
  <2>. QED  BY <2>2, <2>4, <2>5, ReplacedDrained
<1>2. CASE SkipNull
  <2>1. PICK f : f = Going(Tail(Top.queue), Null, "loop")
    OBVIOUS
  <2>2. frames # <<>> /\ Top.queue # <<>> /\ frames' = Become(f) /\ links' = links /\ Top.at = "loop"
    BY <1>2, <2>1 DEF SkipNull
  <2>3. Tail(Top.queue) \in Seq(Nodes \cup {Null}) /\ links[Top.exp] \in Seq({Null})
    BY <2>2, RunningOwn, HeadTailProperties DEF Drained
  <2>4. f \in Frame /\ f.at = "loop" /\ f.exp = Top.exp
    BY <1>0, <2>1, <2>2, <2>3, GoingFacts
  <2>5. /\ links'[Top.exp] \in Seq({Null})
        /\ \A m \in Nodes : links[m] \in Seq({Null}) => links'[m] \in Seq({Null})
    BY <2>2, <2>3
  <2>. QED  BY <2>2, <2>4, <2>5, ReplacedDrained
<1>3. CASE TakeTask
  <2>0. PICK e : e = Head(Top.queue)
    OBVIOUS
  <2>1. PICK f : f = Going(Tail(Top.queue) \o links[e], e, "task")
    OBVIOUS
  <2>2. /\ frames # <<>> /\ Top.queue # <<>> /\ frames' = Become(f) /\ Top.at = "loop"
        /\ e # Null /\ MoveLinks(e)
    BY <1>3, <2>0, <2>1 DEF TakeTask, Take
  <2>3. /\ Tail(Top.queue) \in Seq(Nodes \cup {Null}) /\ links[Top.exp] \in Seq({Null})
        /\ Top.exp \in Nodes /\ e \in Nodes
    BY <2>0, <2>2, RunningOwn, HeadTailProperties DEF Drained
  <2>4. Tail(Top.queue) \o links[e] \in Seq(Nodes \cup {Null})
    BY <1>0, <2>3, ConcatProperties DEF TypeOK
  <2>5. f \in Frame /\ f.at = "task" /\ f.exp = Top.exp
    BY <1>0, <2>1, <2>2, <2>3, <2>4, GoingTaskFacts DEF Going
  <2>6. \A m \in Nodes : links[m] \in Seq({Null}) => links'[m] \in Seq({Null})
    BY <1>0, <2>2, <2>3, MoveFacts
  <2>7. links'[Top.exp] \in Seq({Null})
    BY <2>3, <2>6
  <2>. QED  BY <2>2, <2>5, <2>6, <2>7, ReplacedDrained
<1>4. CASE DropTask
  <2>1. PICK f, g : f = Going(Top.queue, Null, "loop") /\ g = Activation(Top.task)
    OBVIOUS
  <2>2. frames # <<>> /\ frames' = Append(Become(f), g) /\ links' = links /\ Top.at = "task"
    BY <1>4, <2>1 DEF DropTask
  <2>3. /\ Top.queue \in Seq(Nodes \cup {Null}) /\ links[Top.exp] \in Seq({Null})
        /\ Depth \in {1, 2} /\ Top.task \in Nodes
    BY <2>2, RunningOwn DEF Drained, TaskHeld
  <2>4. f \in Frame /\ f.at = "loop" /\ f.exp = Top.exp
    BY <1>0, <2>1, <2>2, <2>3, GoingFacts
  <2>5. g \in Frame /\ g.at = "visit" /\ g.queue = <<>>
    BY <2>1, <2>3 DEF Activation, Frame
  <2>6. PICK b : b = Become(f)
    OBVIOUS
  <2>7. /\ b \in Seq(Frame) /\ Len(b) = Depth
        /\ \A d \in 1..Depth : b[d] = IF d = Depth THEN f ELSE frames[d]
    BY <1>0, <2>2, <2>4, <2>6, BecomeFacts
  <2>8. /\ Depth' = Depth + 1
        /\ \A d \in 1..(Depth + 1) : frames'[d] = IF d = Depth + 1 THEN g
                                                  ELSE IF d = Depth THEN f ELSE frames[d]
    <3>1. frames' = Append(b, g)
      BY <2>2, <2>6
    <3>2. /\ Len(Append(b, g)) = Depth + 1 /\ Append(b, g)[Depth + 1] = g
          /\ \A d \in 1..Depth : Append(b, g)[d] = b[d]
      BY <2>5, <2>7, AppendProperties
    <3>3. \A d \in 1..(Depth + 1) : d # Depth + 1 => d \in 1..Depth
      BY <2>3
    <3>. QED  BY <2>7, <3>1, <3>2, <3>3 DEF Depth
  <2>9. ASSUME NEW d \in 1..(Depth + 1)
        PROVE  Drained(frames[d])'
    <3>1. d # Depth + 1 => d \in 1..Depth
      BY <2>3
    <3>2. CASE d = Depth + 1
      BY <2>5, <2>8, <3>2 DEF Drained
    <3>3. CASE d = Depth
      <4>1. frames'[d] = f
        BY <2>3, <2>8, <3>3
      <4>. QED  BY <2>2, <2>3, <2>4, <4>1 DEF Drained
    <3>4. CASE d # Depth + 1 /\ d # Depth
      <4>1. Drained(frames[d]) /\ frames'[d] = frames[d]
        BY <2>8, <3>1, <3>4 DEF OwnInv
      <4>. QED  BY <2>2, <4>1 DEF Drained
    <3>. QED  BY <3>2, <3>3, <3>4
  <2>. QED  BY <2>8, <2>9
<1>5. CASE Return
  <2>1. frames # <<>> /\ frames' = SubSeq(frames, 1, Depth - 1) /\ links' = links
    BY <1>5 DEF Return
  <2>2. Depth \in {1, 2} /\ frames \in Seq(Frame) /\ Depth = Len(frames)
    BY <2>1, RunningOwn DEF TypeOK, Depth
  <2>3. Depth' = Depth - 1 /\ \A d \in 1..(Depth - 1) : frames'[d] = frames[d] /\ d \in 1..Depth
    <3>1. /\ Depth - 1 \in Int /\ \A d \in 1..(Depth - 1) : frames[d] \in Frame /\ d \in 1..Depth
      BY <2>2, ElementOfSeq
    <3>2. PICK D : D = Depth
      OBVIOUS
    <3>3. Len(SubSeq(frames, 1, D - 1)) = D - 1 /\ \A d \in 1..(D - 1) : SubSeq(frames, 1, D - 1)[d] = frames[d]
      BY <2>2, <3>1, <3>2, SubSeqProperties
    <3>. QED  BY <2>1, <3>1, <3>2, <3>3 DEF Depth
  <2>4. \A d \in 1..Depth : Drained(frames[d])
    BY DEF OwnInv
  <2>. QED  BY <2>1, <2>3, <2>4 DEF Drained
<1>6. CASE UNCHANGED vars
  BY <1>6 DEF OwnInv, vars, Depth, Drained
<1>. QED  BY <1>1, <1>2, <1>3, <1>4, <1>5, <1>6 DEF Next

LEMMA NextOwn == OwnInv /\ [Next]_vars => OwnInv'
<1>. SUFFICES ASSUME OwnInv, [Next]_vars
              PROVE  OwnInv'
  OBVIOUS
<1>1. Inv'
  BY NextInv DEF OwnInv
<1>2. \A d \in 1..Depth' : Drained(frames[d])'
  BY NextDrained
<1>3. ASSUME UNCHANGED vars, NEW n \in Nodes
      PROVE  OneOwner(n)'
  <2>1. OneOwner(n) /\ freed' = freed
    BY <1>3 DEF OwnInv, vars
  <2>2. OwnersOf(n)' = OwnersOf(n)
    BY <1>3 DEF vars, OwnersOf, OwningLinks, OwningQueues, OwningTasks, OwningActivations, Depth
  <2>. QED  BY <2>1, <2>2 DEF OneOwner
<1>4. \A n \in Nodes : OneOwner(n)'
  BY <1>3, VisitOwns, SkipOwns, TakeOwns, DropOwns, ReturnOwns DEF Next
<1>. QED  BY <1>1, <1>2, <1>4 DEF OwnInv

(***************************************************************************)
(* Every tree is destroyed completely and each of its nodes once, however  *)
(* it hangs together: no node is freed twice, used after it was freed, or  *)
(* left without an owner.                                                  *)
(***************************************************************************)
THEOREM EveryNodeDestroyedOnce == Spec => []DestroyedOnce
<1>1. OwnInv => DestroyedOnce
  <2>. SUFFICES ASSUME OwnInv, NEW n \in Nodes
                PROVE  Owners(n) = IF n \in freed THEN 0 ELSE 1
    BY DEF DestroyedOnce
  <2>1. OneOwner(n)
    BY DEF OwnInv
  <2>2. CASE n \in freed
    BY <2>1, <2>2, FS_EmptySet DEF OneOwner, Owners
  <2>3. CASE n \notin freed
    BY <2>1, <2>3, FS_Singleton DEF OneOwner, Owners
  <2>. QED  BY <2>2, <2>3
<1>. QED  BY <1>1, InitOwn, NextOwn, PTL DEF Spec
=============================================================================
