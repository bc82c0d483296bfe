------------------------ MODULE ClosureConvertProofs ------------------------
(***************************************************************************)
(* Closure conversion keeps every pointer good and loses no code, for      *)
(* every term, finds the free variables of every function, for every term  *)
(* whose names are apart, and binds no name twice in one function.         *)
(*                                                                         *)
(* The pointers.  Every node that exists is owned by one                   *)
(* link (Owned).  There is a set V of nodes the walk has visited, so that  *)
(* a task holds a link in a visited node, a task to visit a node refers to *)
(* one outside V, and links in nodes outside V lead outside V (Seen).  The *)
(* closure of an AppExp destroys that node and rewires the link to it: the *)
(* tasks that hold a link in the node lie above the closure, so none is    *)
(* left when it runs.                                                      *)
(*                                                                         *)
(* The names.  The heap has no cycle (Ranked), so Free is well defined.    *)
(* The walk of freeVars enters nodes outside V alone, and these are as     *)
(* they were in the term (Original): what the walk will return, by what it *)
(* has collected and the tasks it still has (WillReturn), is what is free  *)
(* in them.  No name is bound in two nodes of the term, so a name that one *)
(* scope erases from the one set was not collected in another.             *)
(*                                                                         *)
(* The functions.  A map G gives for each node the function it is in       *)
(* (Homed), and keeps doing so while nodes are wrapped and replaced.  A    *)
(* name that is bound in a function was bound there in the term, or was    *)
(* captured when the function got its closure, once, or is the function's  *)
(* own and now that of a tuple, or was made up (Origin); these are         *)
(* different names, and so no two nodes of a function bind one (Apart).    *)
(***************************************************************************)
EXTENDS ClosureConvert, AstLemmas

-----------------------------------------------------------------------------
(***************************************************************************)
(* Terms in a heap: h is the heap, fr the nodes that were destroyed, r the *)
(* root, and a link is an owner and the number of a child.                 *)
(***************************************************************************)
Live(h, fr) == (1..Len(h)) \ fr

IsLink(h, fr, o, i) == IF o = Null THEN i = 1 ELSE o \in Live(h, fr) /\ i \in 1..Len(h[o].kids)

To(h, r, o, i) == IF o = Null THEN r ELSE h[o].kids[i]

\* Nodes have the children their tag says, and links lead to nodes.
Shaped(h) ==
    /\ h \in Seq(HeapNode)
    /\ \A a \in 1..Len(h) :
          /\ IsNode(h[a])
          /\ \A i \in 1..Len(h[a].kids) : h[a].kids[i] \in 1..Len(h)

\* Links lead to live nodes, one to each.
Owned(h, fr, r) ==
    /\ \A o, i \in Nat : IsLink(h, fr, o, i) => To(h, r, o, i) \in Live(h, fr)
    /\ \A b \in Live(h, fr) : \E o, i \in Nat : IsLink(h, fr, o, i) /\ To(h, r, o, i) = b
    /\ \A o, i, p, j \in Nat :
          IsLink(h, fr, o, i) /\ IsLink(h, fr, p, j) /\ To(h, r, o, i) = To(h, r, p, j)
             => o = p /\ i = j

\* What is known of a node.
LEMMA NodeOf ==
  ASSUME NEW h, Shaped(h), NEW a \in 1..Len(h)
  PROVE  /\ Len(h) \in Nat /\ a \in Nat /\ a # Null /\ h[a] \in HeapNode
         /\ h[a].kids \in Seq(Nat) /\ Len(h[a].kids) = Arities[h[a].tag]
         /\ h[a].tag \in AnfTag /\ Len(h[a].kids) \in {0, 1, 2}
         /\ \A i \in 1..Len(h[a].kids) : h[a].kids[i] \in 1..Len(h)
<1>1. Len(h) \in Nat
  BY LenProperties DEF Shaped
<1>2. /\ h[a] \in HeapNode /\ Len(h[a].kids) = Arities[h[a].tag]
      /\ \A i \in 1..Len(h[a].kids) : h[a].kids[i] \in 1..Len(h)
  BY DEF Shaped, IsNode
<1>3. h[a].kids \in Seq(Nat) /\ h[a].tag \in AnfTag
  BY <1>2 DEF HeapNode
<1>4. Arities[h[a].tag] \in {0, 1, 2}
  BY <1>3 DEF AnfTag, Arities
<1>. QED  BY <1>1, <1>2, <1>3, <1>4 DEF Null

\* Owners and numbers of children are numbers.
LEMMA LinkNat ==
  ASSUME NEW h, NEW fr, Shaped(h), NEW o, NEW i, IsLink(h, fr, o, i)
  PROVE  o \in Nat /\ i \in Nat
<1>1. CASE o = Null
  BY <1>1 DEF IsLink, Null
<1>2. CASE o # Null
  <2>1. o \in 1..Len(h) /\ i \in 1..Len(h[o].kids)
    BY <1>2 DEF IsLink, Live
  <2>. QED  BY <2>1, NodeOf
<1>. QED  BY <1>1, <1>2

(***************************************************************************)
(* Wrapping: the body of node a is put behind k new nodes and its rest     *)
(* behind one.                                                             *)
(***************************************************************************)
Wraps(h, h2, a, k) ==
    LET n == Len(h)
    IN  /\ Len(h2) = n + k + 1
        /\ \A b \in 1..n : b # a => h2[b].kids = h[b].kids
        /\ h2[a].kids = <<IF k = 0 THEN h[a].kids[1] ELSE n + k, n + k + 1>>
        /\ \A i \in 1..k : h2[n + i].kids = <<IF i = 1 THEN h[a].kids[1] ELSE n + i - 1>>
        /\ h2[n + k + 1].kids = <<h[a].kids[2]>>

\* Wrapping gives each new node an owner, and the body and the rest another one.
LEMMA WrapsOwned ==
  ASSUME NEW h, NEW h2, NEW fr, NEW r, Shaped(h), Shaped(h2), fr \subseteq 1..Len(h),
         Owned(h, fr, r), NEW a \in Live(h, fr), Len(h[a].kids) = 2,
         NEW k \in Nat, Wraps(h, h2, a, k)
  PROVE  Owned(h2, fr, r)
<1>1. PICK n \in Nat : n = Len(h)
  BY LenProperties DEF Shaped
<1>2. PICK b, c : b = h[a].kids[1] /\ c = h[a].kids[2]
  OBVIOUS
<1>3. /\ Len(h2) = n + k + 1
      /\ \A x \in 1..n : x # a => h2[x].kids = h[x].kids
      /\ h2[a].kids = <<IF k = 0 THEN b ELSE n + k, n + k + 1>>
      /\ \A i \in 1..k : h2[n + i].kids = <<IF i = 1 THEN b ELSE n + i - 1>>
      /\ h2[n + k + 1].kids = <<c>>
  BY <1>1, <1>2 DEF Wraps
<1>4. /\ a \in 1..n /\ a \notin fr /\ a # Null
      /\ \A x : x \in Live(h2, fr) <=> x \in Live(h, fr) \/ (x \in n + 1 .. n + k + 1)
      /\ \A x \in n + 1 .. n + k + 1 : x \notin 1..n /\ x # Null /\ x \in Nat
  BY <1>1, <1>3 DEF Live, Null
\* The links of the wrapped term.
<1>5. \A o, i : IsLink(h2, fr, o, i) <=>
         \/ IsLink(h, fr, o, i)
         \/ o \in n + 1 .. n + k + 1 /\ i = 1
  <2>. SUFFICES ASSUME NEW o, NEW i
                PROVE  IsLink(h2, fr, o, i) <=> \/ IsLink(h, fr, o, i)
                                                \/ o \in n + 1 .. n + k + 1 /\ i = 1
    OBVIOUS
  <2>1. CASE o = Null
    BY <1>4, <2>1 DEF IsLink
  <2>2. CASE o \in n + 1 .. n + k + 1
    <3>1. Len(h2[o].kids) = 1
      <4>1. CASE o = n + k + 1
        BY <1>3, <4>1
      <4>2. CASE o # n + k + 1
        <5>1. PICK j \in 1..k : o = n + j
          <6>1. o - n \in 1..k /\ o = n + (o - n)
            BY <2>2, <4>2
          <6>. QED  BY <6>1
        <5>2. h2[o].kids = <<IF j = 1 THEN b ELSE n + j - 1>>
          BY <1>3, <5>1
        <5>. QED  BY <5>2
      <4>. QED  BY <4>1, <4>2
    <3>2. o # Null /\ o \in Live(h2, fr) /\ o \notin Live(h, fr)
      BY <1>1, <1>4, <2>2 DEF Live
    <3>. QED  BY <2>2, <3>1, <3>2 DEF IsLink
  <2>3. CASE o # Null /\ o \notin n + 1 .. n + k + 1
    <3>1. o \in Live(h2, fr) <=> o \in Live(h, fr)
      BY <1>4, <2>3
    <3>2. o \in Live(h, fr) => Len(h2[o].kids) = Len(h[o].kids)
      <4>1. Len(h2[a].kids) = 2
        BY <1>3
      <4>2. o \in Live(h, fr) => o \in 1..n
        BY <1>1 DEF Live
      <4>. QED  BY <1>3, <4>1, <4>2
    <3>. QED  BY <2>3, <3>1, <3>2 DEF IsLink
  <2>. QED  BY <2>1, <2>2, <2>3
<1>6. /\ Len(h[a].kids) = 2 /\ IsLink(h, fr, a, 1) /\ IsLink(h, fr, a, 2)
      /\ To(h, r, a, 1) = b /\ To(h, r, a, 2) = c
      /\ a \in Nat /\ b \in Live(h, fr) /\ c \in Live(h, fr) /\ b # c
      /\ b \in 1..n /\ c \in 1..n
  <2>1. IsLink(h, fr, a, 1) /\ IsLink(h, fr, a, 2) /\ To(h, r, a, 1) = b /\ To(h, r, a, 2) = c
    BY <1>2, <1>4 DEF IsLink, To
  <2>2. a \in Nat /\ 1 \in Nat /\ 2 \in Nat
    BY <1>4
  <2>3. b \in Live(h, fr) /\ c \in Live(h, fr) /\ b # c
    BY <2>1, <2>2 DEF Owned
  <2>. QED  BY <1>1, <2>1, <2>2, <2>3 DEF Live
\* Where each of them leads, and that nothing else leads there.
<1>7. ASSUME NEW o \in Nat, NEW i \in Nat, IsLink(h2, fr, o, i), NEW x, x = To(h2, r, o, i)
      PROVE  \/ x = n + k + 1 /\ o = a /\ i = 2
             \/ k > 0 /\ x = n + k /\ o = a /\ i = 1
             \/ x \in n + 1 .. n + k - 1 /\ o = x + 1 /\ i = 1
             \/ x = b /\ o = (IF k = 0 THEN a ELSE n + 1) /\ i = 1
             \/ x = c /\ o = n + k + 1 /\ i = 1
             \/ /\ x \in Live(h, fr) /\ x # b /\ x # c /\ o # a
                /\ IsLink(h, fr, o, i) /\ To(h, r, o, i) = x
  <2>1. CASE o = a
    <3>1. i \in 1..2 /\ x = h2[a].kids[i]
      <4>1. Len(h2[a].kids) = 2
        BY <1>3
      <4>. QED  BY <1>4, <1>7, <2>1, <4>1 DEF IsLink, To
    <3>. QED  BY <1>3, <2>1, <3>1
  <2>2. CASE o = n + k + 1
    BY <1>3, <1>4, <1>5, <1>7, <2>2 DEF To, IsLink, Live
  <2>3. CASE o \in n + 1 .. n + k
    <3>1. o - n \in 1..k /\ n + (o - n) = o /\ o # Null /\ i = 1
      BY <1>1, <1>5, <1>7, <2>3 DEF Null, IsLink, Live
    <3>2. x = IF o - n = 1 THEN b ELSE o - 1
      <4>1. h2[o].kids = <<IF o - n = 1 THEN b ELSE n + (o - n) - 1>>
        BY <1>3, <3>1
      <4>. QED  BY <1>7, <3>1, <4>1 DEF To
    <3>. QED  BY <2>3, <3>1, <3>2
  <2>4. CASE o # a /\ o \notin n + 1 .. n + k + 1
    <3>1. IsLink(h, fr, o, i)
      BY <1>5, <1>7, <2>4
    <3>2. To(h, r, o, i) = x
      <4>1. o # Null => o \in 1..n
        BY <1>1, <3>1 DEF IsLink, Live
      <4>. QED  BY <1>3, <1>7, <2>4, <4>1 DEF To
    <3>3. x \in Live(h, fr) /\ x # b /\ x # c
      BY <1>6, <2>4, <3>1, <3>2 DEF Owned
    <3>. QED  BY <2>4, <3>1, <3>2, <3>3
  <2>. QED  BY <2>1, <2>2, <2>3, <2>4
<1>8. \A o, i \in Nat : IsLink(h2, fr, o, i) => To(h2, r, o, i) \in Live(h2, fr)
  <2>. SUFFICES ASSUME NEW o \in Nat, NEW i \in Nat, IsLink(h2, fr, o, i)
                PROVE  To(h2, r, o, i) \in Live(h2, fr)
    OBVIOUS
  <2>1. PICK x : x = To(h2, r, o, i)
    OBVIOUS
  <2>. QED  BY <1>4, <1>6, <1>7, <2>1
<1>9. \A x \in Live(h2, fr) : \E o, i \in Nat : IsLink(h2, fr, o, i) /\ To(h2, r, o, i) = x
  <2>. SUFFICES ASSUME NEW x \in Live(h2, fr)
                PROVE  \E o, i \in Nat : IsLink(h2, fr, o, i) /\ To(h2, r, o, i) = x
    OBVIOUS
  <2>0. /\ IsLink(h2, fr, a, 1) /\ IsLink(h2, fr, a, 2) /\ 1 \in Nat /\ 2 \in Nat
        /\ To(h2, r, a, 1) = (IF k = 0 THEN b ELSE n + k) /\ To(h2, r, a, 2) = n + k + 1
    BY <1>3, <1>4, <1>5, <1>6 DEF To
  <2>1. IsLink(h2, fr, n + k + 1, 1) /\ To(h2, r, n + k + 1, 1) = c /\ n + k + 1 \in Nat
    BY <1>3, <1>4, <1>5 DEF To, Null
  <2>2. ASSUME NEW j \in 1..k
        PROVE  /\ IsLink(h2, fr, n + j, 1) /\ n + j \in Nat
               /\ To(h2, r, n + j, 1) = (IF j = 1 THEN b ELSE n + j - 1)
    <3>1. n + j \in n + 1 .. n + k + 1 /\ n + j # Null /\ n + j \in Nat
      BY DEF Null
    <3>2. h2[n + j].kids = <<IF j = 1 THEN b ELSE n + j - 1>>
      BY <1>3
    <3>3. To(h2, r, n + j, 1) = (IF j = 1 THEN b ELSE n + j - 1)
      BY <3>1, <3>2 DEF To
    <3>. QED  BY <1>5, <3>1, <3>3
  <2>3. CASE x = n + k + 1
    BY <1>6, <2>0, <2>3
  <2>4. CASE x \in n + 1 .. n + k
    <3>1. CASE x = n + k
      BY <1>6, <2>0, <2>4, <3>1
    <3>2. CASE x # n + k
      <4>1. (x - n) + 1 \in 1..k /\ (x - n) + 1 # 1 /\ n + ((x - n) + 1) - 1 = x
        BY <2>4, <3>2
      <4>. QED  BY <2>0, <2>2, <4>1
    <3>. QED  BY <3>1, <3>2
  <2>5. CASE x = b
    <3>1. CASE k = 0
      BY <1>6, <2>0, <2>5, <3>1
    <3>2. CASE k # 0
      <4>1. 1 \in 1..k
        BY <3>2
      <4>. QED  BY <2>0, <2>2, <2>5, <4>1
    <3>. QED  BY <3>1, <3>2
  <2>6. CASE x = c
    BY <2>0, <2>1, <2>6
  <2>7. CASE x \in Live(h, fr) /\ x # b /\ x # c
    <3>1. PICK o \in Nat, i \in Nat : IsLink(h, fr, o, i) /\ To(h, r, o, i) = x
      BY <2>7 DEF Owned
    <3>2. o # a
      BY <1>2, <1>4, <1>6, <2>7, <3>1, SMTT(40) DEF IsLink, To
    <3>3. IsLink(h2, fr, o, i)
      BY <1>5, <3>1
    <3>4. o # Null => o \in 1..n
      BY <1>1, <3>1 DEF IsLink, Live
    <3>5. To(h2, r, o, i) = x
      BY <1>3, <3>1, <3>2, <3>4 DEF To
    <3>. QED  BY <3>3, <3>5
  <2>. QED  BY <1>4, <2>3, <2>4, <2>5, <2>6, <2>7
<1>10. \A o, i, p, j \in Nat :
          IsLink(h2, fr, o, i) /\ IsLink(h2, fr, p, j) /\ To(h2, r, o, i) = To(h2, r, p, j)
             => o = p /\ i = j
  <2>. SUFFICES ASSUME NEW o \in Nat, NEW i \in Nat, NEW p \in Nat, NEW j \in Nat, NEW x,
                       IsLink(h2, fr, o, i), IsLink(h2, fr, p, j),
                       x = To(h2, r, o, i), x = To(h2, r, p, j)
                PROVE  o = p /\ i = j
    OBVIOUS
  <2>1. \/ x = n + k + 1 /\ o = a /\ i = 2
        \/ k > 0 /\ x = n + k /\ o = a /\ i = 1
        \/ x \in n + 1 .. n + k - 1 /\ o = x + 1 /\ i = 1
        \/ x = b /\ o = (IF k = 0 THEN a ELSE n + 1) /\ i = 1
        \/ x = c /\ o = n + k + 1 /\ i = 1
        \/ /\ x \in Live(h, fr) /\ x # b /\ x # c /\ o # a
           /\ IsLink(h, fr, o, i) /\ To(h, r, o, i) = x
    BY <1>7
  <2>2. \/ x = n + k + 1 /\ p = a /\ j = 2
        \/ k > 0 /\ x = n + k /\ p = a /\ j = 1
        \/ x \in n + 1 .. n + k - 1 /\ p = x + 1 /\ j = 1
        \/ x = b /\ p = (IF k = 0 THEN a ELSE n + 1) /\ j = 1
        \/ x = c /\ p = n + k + 1 /\ j = 1
        \/ /\ x \in Live(h, fr) /\ x # b /\ x # c /\ p # a
           /\ IsLink(h, fr, p, j) /\ To(h, r, p, j) = x
    BY <1>7
  <2>3. x \in Live(h, fr) => x \in 1..n
    BY <1>1 DEF Live
  <2>4. CASE x \in Live(h, fr) /\ x # b /\ x # c
    <3>1. /\ IsLink(h, fr, o, i) /\ To(h, r, o, i) = x
          /\ IsLink(h, fr, p, j) /\ To(h, r, p, j) = x
      BY <2>1, <2>2, <2>3, <2>4
    <3>. QED  BY <3>1 DEF Owned
  <2>5. CASE ~(x \in Live(h, fr) /\ x # b /\ x # c)
    BY <1>6, <2>1, <2>2, <2>5
  <2>. QED  BY <2>4, <2>5
<1>. QED  BY <1>8, <1>9, <1>10 DEF Owned

(***************************************************************************)
(* Replacing: node e, which link (lo, li) owns, is destroyed, and two new  *)
(* nodes before its rest take its place.                                   *)
(***************************************************************************)
Replaces(h, h2, fr, r, r2, e, lo, li) ==
    LET n == Len(h)
    IN  /\ Len(h2) = n + 2
        /\ \A o \in 1..n : Len(h2[o].kids) = Len(h[o].kids)
        /\ \A o, i : IsLink(h, fr, o, i) =>
              To(h2, r2, o, i) = IF o = lo /\ i = li THEN n + 2 ELSE To(h, r, o, i)
        /\ h2[n + 1].kids = <<h[e].kids[1]>>
        /\ h2[n + 2].kids = <<n + 1>>

\* A node has at most two children.
LEMMA LinkRange ==
  ASSUME NEW h, NEW fr, Shaped(h), NEW o, NEW i, IsLink(h, fr, o, i)
  PROVE  o \in 0..Len(h) /\ i \in {1, 2} /\ (o # Null => o \in 1..Len(h) /\ o \notin fr)
<1>1. CASE o = Null
  BY <1>1, LenProperties DEF IsLink, Null, Shaped
<1>2. CASE o # Null
  <2>1. o \in 1..Len(h) /\ i \in 1..Len(h[o].kids) /\ o \notin fr
    BY <1>2 DEF IsLink, Live
  <2>2. PICK k : k = Len(h[o].kids)
    OBVIOUS
  <2>3. k \in {0, 1, 2} /\ Len(h) \in Nat
    BY <2>1, <2>2, NodeOf
  <2>4. i \in 1..k
    BY <2>1, <2>2
  <2>5. i \in {1, 2}
    BY ONLY <2>3, <2>4
  <2>6. o \in 0..Len(h)
    BY <2>1, <2>3
  <2>. QED  BY <2>1, <2>5, <2>6
<1>. QED  BY <1>1, <1>2

\* What becomes of the links.
Rewired(h, h2, fr, fr2, r, r2, e, lo, li) ==
    /\ \A o, i : IsLink(h2, fr2, o, i) <=>
          \/ IsLink(h, fr, o, i) /\ o # e
          \/ o \in {Len(h) + 1, Len(h) + 2} /\ i = 1
    /\ \A o, i : IsLink(h, fr, o, i) =>
          To(h2, r2, o, i) = IF o = lo /\ i = li THEN Len(h) + 2 ELSE To(h, r, o, i)

\* The link that led to the node that is destroyed leads to the second new node.
LEMMA ReplacesOwned ==
  ASSUME NEW h, NEW h2, NEW fr, NEW fr2, NEW r, NEW r2, Shaped(h), fr \subseteq 1..Len(h),
         Owned(h, fr, r), NEW lo, NEW li, IsLink(h, fr, lo, li), NEW e, To(h, r, lo, li) = e,
         \A x : x \in fr2 <=> x \in fr \/ x = e, lo # e, Len(h[e].kids) = 1, Replaces(h, h2, fr, r, r2, e, lo, li)
  PROVE  /\ Owned(h2, fr2, r2)
         /\ Rewired(h, h2, fr, fr2, r, r2, e, lo, li)
<1>1. PICK n \in Nat : n = Len(h)
  BY LenProperties DEF Shaped
<1>2. PICK c : c = h[e].kids[1]
  OBVIOUS
<1>3. \A x : x \in fr2 <=> x \in fr \/ x = e
  OBVIOUS
<1>4. /\ Len(h2) = n + 2
      /\ \A o \in 1..n : Len(h2[o].kids) = Len(h[o].kids)
      /\ \A o, i : IsLink(h, fr, o, i) =>
            To(h2, r2, o, i) = IF o = lo /\ i = li THEN n + 2 ELSE To(h, r, o, i)
      /\ h2[n + 1].kids = <<c>> /\ h2[n + 2].kids = <<n + 1>>
  BY <1>1, <1>2 DEF Replaces
<1>5. lo \in Nat /\ li \in Nat
  BY LinkNat
<1>6. e \in Live(h, fr) /\ e \in 1..n /\ e # Null /\ e \in Nat
  BY <1>1, <1>5 DEF Owned, Live, Null
<1>7. /\ IsLink(h, fr, e, 1) /\ To(h, r, e, 1) = c /\ c \in Live(h, fr) /\ c # e /\ c \in 1..n
      /\ \A o, i : IsLink(h, fr, o, i) /\ To(h, r, o, i) = c => o = e /\ i = 1
      /\ \A o, i : IsLink(h, fr, o, i) /\ To(h, r, o, i) = e => o = lo /\ i = li
  <2>1. IsLink(h, fr, e, 1) /\ To(h, r, e, 1) = c
    BY <1>2, <1>6 DEF IsLink, To
  <2>2. c \in Live(h, fr) /\ c # e
    BY <1>5, <1>6, <2>1 DEF Owned
  <2>3. \A o, i : IsLink(h, fr, o, i) => o \in Nat /\ i \in Nat
    BY LinkNat
  <2>4. \A o, i : IsLink(h, fr, o, i) /\ To(h, r, o, i) = c => o = e /\ i = 1
    BY <1>6, <2>1, <2>3 DEF Owned
  <2>5. \A o, i : IsLink(h, fr, o, i) /\ To(h, r, o, i) = e => o = lo /\ i = li
    BY <1>5, <2>3 DEF Owned
  <2>. QED  BY <1>1, <2>1, <2>2, <2>4, <2>5 DEF Live
<1>8. /\ \A x : x \in Live(h2, fr2) <=> (x \in Live(h, fr) /\ x # e) \/ x = n + 1 \/ x = n + 2
      /\ \A x : x \in Live(h, fr) => x \in 1..n
      /\ n + 1 \notin 1..n /\ n + 2 \notin 1..n /\ n + 1 # n + 2 /\ n + 1 # Null /\ n + 2 # Null
  <2>1. fr \subseteq 1..n
    BY <1>1
  <2>2. n + 1 \notin 1..n /\ n + 2 \notin 1..n /\ n + 1 # n + 2 /\ n + 1 # Null /\ n + 2 # Null
    BY DEF Null
  <2>3. \A x : x \in 1..(n + 2) <=> x \in 1..n \/ x = n + 1 \/ x = n + 2
    OBVIOUS
  <2>. QED  BY ONLY <1>1, <1>3, <1>4, <1>6, <2>1, <2>2, <2>3 DEF Live
<1>9. \A o, i : IsLink(h, fr, o, i) =>
         To(h2, r2, o, i) = IF o = lo /\ i = li THEN n + 2 ELSE To(h, r, o, i)
  BY <1>4
<1>10. \A o, i : IsLink(h2, fr2, o, i) <=>
          \/ IsLink(h, fr, o, i) /\ o # e
          \/ o \in {n + 1, n + 2} /\ i = 1
  <2>. SUFFICES ASSUME NEW o, NEW i
                PROVE  IsLink(h2, fr2, o, i) <=> \/ IsLink(h, fr, o, i) /\ o # e
                                                 \/ o \in {n + 1, n + 2} /\ i = 1
    OBVIOUS
  <2>1. CASE o = Null
    BY <1>6, <1>8, <2>1 DEF IsLink
  <2>2. CASE o \in {n + 1, n + 2}
    <3>1. Len(h2[o].kids) = 1
      <4>1. Len(h2[n + 1].kids) = 1 /\ Len(h2[n + 2].kids) = 1
        BY <1>4
      <4>. QED  BY ONLY <2>2, <4>1
    <3>2. o # Null /\ o \in Live(h2, fr2) /\ o \notin Live(h, fr)
      BY <1>8, <2>2
    <3>. QED  BY <2>2, <3>1, <3>2 DEF IsLink
  <2>3. CASE o # Null /\ o \notin {n + 1, n + 2}
    <3>1. o \in Live(h2, fr2) <=> o \in Live(h, fr) /\ o # e
      BY <1>8, <2>3
    <3>2. o \in Live(h, fr) => Len(h2[o].kids) = Len(h[o].kids)
      BY <1>4, <1>8
    <3>. QED  BY <2>3, <3>1, <3>2 DEF IsLink
  <2>. QED  BY <2>1, <2>2, <2>3
<1>11. /\ To(h2, r2, n + 1, 1) = c /\ To(h2, r2, n + 2, 1) = n + 1
       /\ IsLink(h2, fr2, n + 1, 1) /\ IsLink(h2, fr2, n + 2, 1)
  BY ONLY <1>4, <1>8, <1>10 DEF To
<1>12. ASSUME NEW o, NEW i, IsLink(h2, fr2, o, i), NEW x, x = To(h2, r2, o, i)
       PROVE  \/ x = n + 2 /\ o = lo /\ i = li
              \/ x = n + 1 /\ o = n + 2 /\ i = 1
              \/ x = c /\ o = n + 1 /\ i = 1
              \/ /\ x \in Live(h, fr) /\ x # e /\ x # c
                 /\ IsLink(h, fr, o, i) /\ To(h, r, o, i) = x
  <2>1. CASE o \in {n + 1, n + 2} /\ i = 1
    BY <1>11, <1>12, <2>1
  <2>2. CASE IsLink(h, fr, o, i) /\ o # e
    <3>1. CASE o = lo /\ i = li
      BY <1>9, <1>12, <2>2, <3>1
    <3>2. CASE ~(o = lo /\ i = li)
      <4>1. To(h, r, o, i) = x
        BY <1>9, <1>12, <2>2, <3>2
      <4>2. x # e /\ x # c
        BY <1>7, <2>2, <3>2, <4>1
      <4>3. o \in Nat /\ i \in Nat
        BY <2>2, LinkNat
      <4>4. x \in Live(h, fr)
        BY <2>2, <4>1, <4>3 DEF Owned
      <4>. QED  BY <2>2, <4>1, <4>2, <4>4
    <3>. QED  BY <3>1, <3>2
  <2>. QED  BY <1>10, <1>12, <2>1, <2>2
<1>13. \A o, i \in Nat : IsLink(h2, fr2, o, i) => To(h2, r2, o, i) \in Live(h2, fr2)
  <2>. SUFFICES ASSUME NEW o \in Nat, NEW i \in Nat, IsLink(h2, fr2, o, i)
                PROVE  To(h2, r2, o, i) \in Live(h2, fr2)
    OBVIOUS
  <2>1. PICK x : x = To(h2, r2, o, i)
    OBVIOUS
  <2>. QED  BY <1>7, <1>8, <1>12, <2>1
<1>14. \A x \in Live(h2, fr2) : \E o, i \in Nat : IsLink(h2, fr2, o, i) /\ To(h2, r2, o, i) = x
  <2>. SUFFICES ASSUME NEW x \in Live(h2, fr2)
                PROVE  \E o, i \in Nat : IsLink(h2, fr2, o, i) /\ To(h2, r2, o, i) = x
    OBVIOUS
  <2>1. n + 1 \in Nat /\ n + 2 \in Nat /\ 1 \in Nat
    OBVIOUS
  <2>2. CASE x = n + 2
    <3>1. IsLink(h2, fr2, lo, li)
      BY <1>10
    <3>2. To(h2, r2, lo, li) = n + 2
      BY <1>9
    <3>. QED  BY <1>5, <2>2, <3>1, <3>2
  <2>3. CASE x = n + 1
    BY <1>11, <2>1, <2>3
  <2>4. CASE x = c
    BY <1>11, <2>1, <2>4
  <2>5. CASE x \in Live(h, fr) /\ x # e /\ x # c
    <3>1. PICK o \in Nat, i \in Nat : IsLink(h, fr, o, i) /\ To(h, r, o, i) = x
      BY <2>5 DEF Owned
    <3>2. o # e
      <4>1. o = e => i = 1
        <5>1. Len(h[e].kids) = 1
          OBVIOUS
        <5>2. PICK k : k = Len(h[e].kids)
          OBVIOUS
        <5>3. k = 1
          BY <5>1, <5>2
        <5>4. o = e => i \in 1..k
          BY <1>6, <3>1, <5>2 DEF IsLink
        <5>. QED  BY ONLY <5>3, <5>4
      <4>. QED  BY <1>7, <2>5, <3>1, <4>1
    <3>3. ~(o = lo /\ i = li)
      BY <2>5, <3>1
    <3>. QED  BY <1>9, <1>10, <3>1, <3>2, <3>3
  <2>. QED  BY <1>8, <2>2, <2>3, <2>4, <2>5
<1>15. \A o, i, p, j \in Nat :
          IsLink(h2, fr2, o, i) /\ IsLink(h2, fr2, p, j) /\ To(h2, r2, o, i) = To(h2, r2, p, j)
             => o = p /\ i = j
  <2>. SUFFICES ASSUME NEW o \in Nat, NEW i \in Nat, NEW p \in Nat, NEW j \in Nat, NEW x,
                       IsLink(h2, fr2, o, i), IsLink(h2, fr2, p, j),
                       x = To(h2, r2, o, i), x = To(h2, r2, p, j)
                PROVE  o = p /\ i = j
    OBVIOUS
  <2>1. \/ x = n + 2 /\ o = lo /\ i = li
        \/ x = n + 1 /\ o = n + 2 /\ i = 1
        \/ x = c /\ o = n + 1 /\ i = 1
        \/ /\ x \in Live(h, fr) /\ x # e /\ x # c
           /\ IsLink(h, fr, o, i) /\ To(h, r, o, i) = x
    BY ONLY <1>12, IsLink(h2, fr2, o, i), x = To(h2, r2, o, i)
  <2>2. \/ x = n + 2 /\ p = lo /\ j = li
        \/ x = n + 1 /\ p = n + 2 /\ j = 1
        \/ x = c /\ p = n + 1 /\ j = 1
        \/ /\ x \in Live(h, fr) /\ x # e /\ x # c
           /\ IsLink(h, fr, p, j) /\ To(h, r, p, j) = x
    BY ONLY <1>12, IsLink(h2, fr2, p, j), x = To(h2, r2, p, j)
  <2>4. CASE x \in Live(h, fr) /\ x # e /\ x # c
    <3>1. /\ IsLink(h, fr, o, i) /\ To(h, r, o, i) = x
          /\ IsLink(h, fr, p, j) /\ To(h, r, p, j) = x
      BY <1>8, <2>1, <2>2, <2>4
    <3>. QED  BY <3>1 DEF Owned
  <2>5. CASE ~(x \in Live(h, fr) /\ x # e /\ x # c)
    BY <1>7, <1>8, <2>1, <2>2, <2>5
  <2>. QED  BY <2>4, <2>5
<1>16. Owned(h2, fr2, r2)
  BY <1>13, <1>14, <1>15 DEF Owned
<1>18. \A o, i : IsLink(h2, fr2, o, i) <=>
          \/ IsLink(h, fr, o, i) /\ o # e
          \/ o \in {Len(h) + 1, Len(h) + 2} /\ i = 1
  BY ONLY <1>1, <1>10
<1>19. \A o, i : IsLink(h, fr, o, i) =>
          To(h2, r2, o, i) = IF o = lo /\ i = li THEN Len(h) + 2 ELSE To(h, r, o, i)
  BY ONLY <1>1, <1>9
<1>. QED  BY ONLY <1>16, <1>18, <1>19 DEF Rewired

-----------------------------------------------------------------------------
(***************************************************************************)
(* Ranks.  The recursive function Free is well defined because no node hangs *)
(* below itself: a node has a greater rank than its children.              *)
(***************************************************************************)
\* rank, of numbers up to B, gives every node a greater one than its children.
Ranks(h, B, rank) ==
    /\ rank \in [1..Len(h) -> 0..B]
    /\ \A a \in 1..Len(h) : \A i \in 1..Len(h[a].kids) : rank[h[a].kids[i]] < rank[a]

\* No node hangs below itself.
Ranked(h) == \E B \in Nat : \E rank \in [1..Len(h) -> 0..B] : Ranks(h, B, rank)

\* The same children have the same ranks.
LEMMA SameRanked ==
  ASSUME NEW h, NEW h2, Ranked(h), Len(h2) = Len(h), \A b \in 1..Len(h) : h2[b].kids = h[b].kids
  PROVE  Ranked(h2)
<1>1a. PICK B \in Nat : \E rank \in [1..Len(h) -> 0..B] : Ranks(h, B, rank)
  BY DEF Ranked
<1>1. PICK rank \in [1..Len(h) -> 0..B] : Ranks(h, B, rank)
  BY <1>1a
<1>2. Ranks(h2, B, rank) /\ rank \in [1..Len(h2) -> 0..B]
  BY <1>1 DEF Ranks
<1>. QED  BY <1>2 DEF Ranked

\* Ranks that leave room below node a, or above it.
Room(n, m, B, K, rank, low, new) ==
    /\ n \in Nat /\ m \in Nat /\ n <= m /\ B \in Nat /\ K \in Nat /\ low \in Int
    /\ rank \in [1..n -> 0..B]
    /\ \A x \in (n + 1)..m : new[x] \in 0..(B + K)

Shifts(n, m, B, K, rank, low, new, r) ==
    /\ r \in [1..m -> 0..(B + K)]
    /\ \A x \in 1..n : r[x] = IF rank[x] > low THEN rank[x] + K ELSE rank[x]
    /\ \A x \in (n + 1)..m : r[x] = new[x]

LEMMA Shifted ==
  ASSUME NEW n, NEW m, NEW B, NEW K, NEW rank, NEW low, NEW new, Room(n, m, B, K, rank, low, new)
  PROVE  \E r : Shifts(n, m, B, K, rank, low, new, r)
<1>. SUFFICES ASSUME n \in Nat, m \in Nat, n <= m, B \in Nat, K \in Nat, low \in Int,
                     rank \in [1..n -> 0..B], \A x \in (n + 1)..m : new[x] \in 0..(B + K)
              PROVE  \E r : Shifts(n, m, B, K, rank, low, new, r)
  BY DEF Room
<1>1. PICK r : r = [x \in 1..m |-> IF x <= n THEN (IF rank[x] > low THEN rank[x] + K ELSE rank[x])
                                            ELSE new[x]]
  OBVIOUS
<1>2. ASSUME NEW x \in 1..m
      PROVE  r[x] \in 0..(B + K)
  <2>1. CASE x <= n
    <3>1. x \in 1..n /\ rank[x] \in 0..B
      BY <2>1
    <3>. QED  BY <1>1, <2>1, <3>1
  <2>2. CASE ~(x <= n)
    <3>1. x \in (n + 1)..m
      BY <2>2
    <3>. QED  BY <1>1, <2>2, <3>1
  <2>. QED  BY <2>1, <2>2
<1>3. r \in [1..m -> 0..(B + K)]
  BY <1>1, <1>2
<1>4. /\ \A x \in 1..n : x \in 1..m /\ x <= n
      /\ \A x \in (n + 1)..m : x \in 1..m /\ ~(x <= n)
  OBVIOUS
<1>5. \A x \in 1..n : r[x] = IF rank[x] > low THEN rank[x] + K ELSE rank[x]
  BY ONLY <1>1, <1>4
<1>6. \A x \in (n + 1)..m : r[x] = new[x]
  BY ONLY <1>1, <1>4
<1>7. Shifts(n, m, B, K, rank, low, new, r)
  BY ONLY <1>3, <1>5, <1>6 DEF Shifts
<1>. QED  BY ONLY <1>7

\* The new nodes of a wrapping go between the node and its children.
LEMMA WrapsRanked ==
  ASSUME NEW h, NEW h2, Shaped(h), Ranked(h), NEW a \in 1..Len(h), Len(h[a].kids) = 2,
         NEW k \in Nat, Wraps(h, h2, a, k)
  PROVE  Ranked(h2)
<1>1. PICK n \in Nat : n = Len(h)
  BY LenProperties DEF Shaped
<1>2. PICK b, c : b = h[a].kids[1] /\ c = h[a].kids[2]
  OBVIOUS
<1>3. /\ Len(h2) = n + k + 1
      /\ \A x \in 1..n : x # a => h2[x].kids = h[x].kids
      /\ h2[a].kids = <<IF k = 0 THEN b ELSE n + k, n + k + 1>>
      /\ \A i \in 1..k : h2[n + i].kids = <<IF i = 1 THEN b ELSE n + i - 1>>
      /\ h2[n + k + 1].kids = <<c>>
  BY <1>1, <1>2 DEF Wraps
<1>4a. PICK B \in Nat : \E rank \in [1..n -> 0..B] : Ranks(h, B, rank)
  BY <1>1 DEF Ranked
<1>4. PICK rank \in [1..n -> 0..B] : Ranks(h, B, rank)
  BY <1>4a
<1>5. /\ \A x \in 1..n : rank[x] \in 0..B
      /\ \A x \in 1..n : \A i \in 1..Len(h[x].kids) : h[x].kids[i] \in 1..n /\ rank[h[x].kids[i]] < rank[x]
  BY <1>1, <1>4 DEF Ranks, Shaped
<1>6. PICK p \in 0..B : p = rank[a]
  BY <1>1, <1>5
<1>7. b \in 1..n /\ c \in 1..n /\ rank[b] < p /\ rank[c] < p /\ p >= 1 /\ a \in 1..n
  <2>1. 1 \in 1..Len(h[a].kids) /\ 2 \in 1..Len(h[a].kids)
    OBVIOUS
  <2>2. b \in 1..n /\ c \in 1..n /\ rank[b] < p /\ rank[c] < p /\ a \in 1..n
    BY <1>1, <1>2, <1>5, <1>6, <2>1
  <2>. QED  BY <1>5, <2>2
<1>8. PICK new : new = [x \in (n + 1)..(n + k + 1) |-> IF x = n + k + 1 THEN p ELSE p - 1 + (x - n)]
  OBVIOUS
<1>9. PICK M, K, low : M = n + k + 1 /\ K = k + 1 /\ low = p - 1
  OBVIOUS
<1>10. /\ M \in Nat /\ K \in Nat /\ low \in Int /\ n <= M
       /\ \A x \in (n + 1)..M : new[x] \in 0..(B + K)
  <2>1. ASSUME NEW x \in (n + 1)..M
        PROVE  new[x] \in 0..(B + K)
    <3>1. x \in (n + 1)..(n + k + 1) /\ p \in 1..B
      BY <1>6, <1>7, <1>9
    <3>2. new[x] = IF x = n + k + 1 THEN p ELSE p - 1 + (x - n)
      BY <1>8, <3>1
    <3>. QED  BY <1>9, <3>1, <3>2
  <2>2. M \in Nat /\ K \in Nat /\ low \in Int /\ n <= M
    BY <1>6, <1>9
  <2>. QED  BY <2>1, <2>2
<1>11. PICK r : /\ r \in [1..M -> 0..(B + K)]
                /\ \A x \in 1..n : r[x] = IF rank[x] > low THEN rank[x] + K ELSE rank[x]
                /\ \A x \in (n + 1)..M : r[x] = new[x]
  <2>1. Room(n, M, B, K, rank, low, new)
    BY ONLY <1>10, n \in Nat, <1>4 DEF Room
  <2>2. \E r : Shifts(n, M, B, K, rank, low, new, r)
    BY ONLY <2>1, Shifted
  <2>. QED  BY <2>2 DEF Shifts
<1>12. /\ \A x \in 1..n : r[x] = IF rank[x] > p - 1 THEN rank[x] + (k + 1) ELSE rank[x]
       /\ \A i \in 1..k : r[n + i] = p - 1 + i
       /\ r[n + k + 1] = p
       /\ r[a] = p + (k + 1) /\ r[b] = rank[b] /\ r[c] = rank[c]
  <2>1. \A x \in 1..n : r[x] = IF rank[x] > p - 1 THEN rank[x] + (k + 1) ELSE rank[x]
    BY <1>9, <1>11
  <2>2. \A i \in 1..k : n + i \in (n + 1)..M /\ n + i # n + k + 1 /\ (n + i) - n = i
    BY <1>9
  <2>3. \A i \in 1..k : r[n + i] = p - 1 + i
    BY <1>8, <1>9, <1>11, <2>2
  <2>4. r[n + k + 1] = p
    BY <1>8, <1>9, <1>11
  <2>5. r[a] = p + (k + 1) /\ r[b] = rank[b] /\ r[c] = rank[c]
    <3>1. /\ a \in 1..n /\ b \in 1..n /\ c \in 1..n /\ rank[a] = p /\ p \in Int
          /\ rank[b] \in Int /\ rank[c] \in Int /\ rank[b] < p /\ rank[c] < p
      BY <1>5, <1>6, <1>7
    <3>2. p > p - 1 /\ ~(rank[b] > p - 1) /\ ~(rank[c] > p - 1)
      BY ONLY <3>1
    <3>. QED  BY ONLY <2>1, <3>1, <3>2
  <2>. QED  BY <2>1, <2>3, <2>4, <2>5
<1>13. ASSUME NEW x \in 1..M, NEW i \in 1..Len(h2[x].kids)
       PROVE  r[h2[x].kids[i]] < r[x]
  <2>1. CASE x = a
    <3>1. i \in {1, 2} /\ h2[x].kids[i] = IF i = 2 THEN n + k + 1 ELSE IF k = 0 THEN b ELSE n + k
      <4>1. PICK d : d = IF k = 0 THEN b ELSE n + k
        OBVIOUS
      <4>2. h2[x].kids = <<d, n + k + 1>>
        BY <1>3, <2>1, <4>1
      <4>3. i \in {1, 2} /\ h2[x].kids[i] = IF i = 2 THEN n + k + 1 ELSE d
        BY ONLY <4>2, i \in 1..Len(h2[x].kids)
      <4>. QED  BY <4>1, <4>3
    <3>2. k # 0 => k \in 1..k
      OBVIOUS
    <3>3. k # 0 => r[n + k] = p - 1 + k
      BY <1>12, <3>2
    <3>4. /\ r[x] = p + (k + 1) /\ r[n + k + 1] = p /\ r[b] = rank[b] /\ rank[b] < p
          /\ rank[b] \in Int /\ p \in Int /\ k \in Nat /\ n \in Nat
      BY <1>5, <1>7, <1>12, <2>1
    <3>5. r[h2[x].kids[i]] = p \/ r[h2[x].kids[i]] = rank[b] \/ r[h2[x].kids[i]] = p - 1 + k
      BY <3>1, <3>3, <3>4
    <3>. QED  BY ONLY <3>4, <3>5
  <2>2. CASE x \in 1..n /\ x # a
    <3>1. PICK y : y = h[x].kids[i]
      OBVIOUS
    <3>2. h2[x].kids[i] = y /\ y \in 1..n /\ rank[y] < rank[x]
      BY <1>3, <1>5, <2>2, <3>1
    <3>3. rank[y] \in 0..B /\ rank[x] \in 0..B
      BY <1>5, <2>2, <3>2
    <3>4. /\ r[x] = IF rank[x] > p - 1 THEN rank[x] + (k + 1) ELSE rank[x]
          /\ r[y] = IF rank[y] > p - 1 THEN rank[y] + (k + 1) ELSE rank[y]
      BY <1>12, <2>2, <3>2
    <3>5. rank[y] \in Int /\ rank[x] \in Int /\ p \in Int /\ k \in Nat
      BY <1>6, <3>3
    <3>. QED  BY ONLY <3>2, <3>4, <3>5
  <2>3. CASE x = n + k + 1
    <3>1. i = 1 /\ h2[x].kids[i] = c
      <4>1. h2[x].kids = <<c>>
        BY <1>3, <2>3
      <4>. QED  BY ONLY <4>1, i \in 1..Len(h2[x].kids)
    <3>. QED  BY <1>7, <1>12, <2>3, <3>1
  <2>4. CASE x \notin 1..n /\ x # n + k + 1
    <3>1. PICK j \in 1..k : x = n + j
      <4>1. x - n \in 1..k /\ x = n + (x - n)
        BY <1>9, <2>4
      <4>. QED  BY <4>1
    <3>2. i = 1 /\ h2[x].kids[i] = IF j = 1 THEN b ELSE n + j - 1
      <4>1. h2[x].kids = <<IF j = 1 THEN b ELSE n + j - 1>>
        BY <1>3, <3>1
      <4>. QED  BY <1>13, <4>1
    <3>3. r[x] = p - 1 + j
      BY <1>12, <3>1
    <3>4. CASE j = 1
      <4>1. rank[b] \in Int /\ rank[b] < p /\ p \in Int /\ r[b] = rank[b]
        BY <1>5, <1>7, <1>12
      <4>2. r[x] = p /\ r[h2[x].kids[i]] = rank[b]
        BY ONLY <3>2, <3>3, <3>4, <4>1
      <4>. QED  BY ONLY <4>1, <4>2
    <3>5. CASE j # 1
      <4>1. j - 1 \in 1..k /\ n + j - 1 = n + (j - 1)
        BY <3>5
      <4>2. r[n + (j - 1)] = p - 1 + (j - 1)
        BY <1>12, <4>1
      <4>. QED  BY <3>2, <3>3, <3>5, <4>1, <4>2
    <3>. QED  BY <3>4, <3>5
  <2>. QED  BY <2>1, <2>2, <2>3, <2>4
<1>14. Ranks(h2, B + K, r) /\ B + K \in Nat
  <2>1. Len(h2) = M /\ r \in [1..M -> 0..(B + K)] /\ K \in Nat
    BY ONLY <1>3, <1>9, <1>10, <1>11
  <2>2. Ranks(h2, B + K, r)
    BY ONLY <1>13, <2>1 DEF Ranks
  <2>. QED  BY ONLY <2>1, <2>2, B \in Nat
<1>. QED  BY <1>3, <1>9, <1>11, <1>14 DEF Ranked

\* Two nodes are put between the owner of node e and its child.
Inserts(h, h2, e, lo, li) ==
    /\ e \in 1..Len(h) /\ Len(h[e].kids) = 1 /\ Len(h2) = Len(h) + 2
    /\ \A o \in 1..Len(h) :
          /\ Len(h2[o].kids) = Len(h[o].kids)
          /\ \A i \in 1..Len(h[o].kids) :
                h2[o].kids[i] = IF o = lo /\ i = li THEN Len(h) + 2 ELSE h[o].kids[i]
    /\ lo \in 1..Len(h) => li \in 1..Len(h[lo].kids) /\ h[lo].kids[li] = e
    /\ h2[Len(h) + 1].kids = <<h[e].kids[1]>> /\ h2[Len(h) + 2].kids = <<Len(h) + 1>>

\* The new nodes of a replacement go between the owner of the node and the node.
LEMMA ReplacesRanked ==
  ASSUME NEW h, NEW h2, NEW e, NEW lo, NEW li, Shaped(h), Ranked(h), Inserts(h, h2, e, lo, li)
  PROVE  Ranked(h2)
<1>. SUFFICES ASSUME e \in 1..Len(h), Len(h[e].kids) = 1, Len(h2) = Len(h) + 2,
                     \A o \in 1..Len(h) :
                        /\ Len(h2[o].kids) = Len(h[o].kids)
                        /\ \A i \in 1..Len(h[o].kids) :
                              h2[o].kids[i] = IF o = lo /\ i = li THEN Len(h) + 2 ELSE h[o].kids[i],
                     lo \in 1..Len(h) => li \in 1..Len(h[lo].kids) /\ h[lo].kids[li] = e,
                     h2[Len(h) + 1].kids = <<h[e].kids[1]>>, h2[Len(h) + 2].kids = <<Len(h) + 1>>
              PROVE  Ranked(h2)
  BY DEF Inserts
<1>1. PICK n \in Nat : n = Len(h)
  BY LenProperties DEF Shaped
<1>2a. PICK B \in Nat : \E rank \in [1..n -> 0..B] : Ranks(h, B, rank)
  BY <1>1 DEF Ranked
<1>2. PICK rank \in [1..n -> 0..B] : Ranks(h, B, rank)
  BY <1>2a
<1>3. /\ \A x \in 1..n : rank[x] \in 0..B
      /\ \A x \in 1..n : \A i \in 1..Len(h[x].kids) : h[x].kids[i] \in 1..n /\ rank[h[x].kids[i]] < rank[x]
  BY <1>1, <1>2 DEF Ranks, Shaped
<1>4. PICK p \in 0..B : p = rank[e]
  BY <1>1, <1>3
<1>5. PICK c : c = h[e].kids[1]
  OBVIOUS
<1>6. c \in 1..n /\ rank[c] < p /\ e \in 1..n
  <2>1. 1 \in 1..Len(h[e].kids)
    OBVIOUS
  <2>. QED  BY <1>1, <1>3, <1>4, <1>5, <2>1
<1>7. PICK M, K, new : M = n + 2 /\ K = 2 /\ new = [x \in (n + 1)..(n + 2) |-> p + (x - (n + 1))]
  OBVIOUS
<1>8. /\ M \in Nat /\ K \in Nat /\ p \in Int /\ n <= M
      /\ \A x \in (n + 1)..M : new[x] \in 0..(B + K)
  <2>1. M \in Nat /\ K = 2 /\ p \in 0..B /\ n <= M
    BY <1>7
  <2>2. ASSUME NEW x \in (n + 1)..M
        PROVE  new[x] \in 0..(B + K)
    <3>1. new[x] = p + (x - (n + 1)) /\ x - (n + 1) \in 0..1
      BY <1>7
    <3>. QED  BY ONLY <2>1, <3>1, B \in Nat
  <2>. QED  BY <2>1, <2>2
<1>9. PICK r : /\ r \in [1..M -> 0..(B + K)]
               /\ \A x \in 1..n : r[x] = IF rank[x] > p THEN rank[x] + K ELSE rank[x]
               /\ \A x \in (n + 1)..M : r[x] = new[x]
  <2>1. Room(n, M, B, K, rank, p, new)
    BY ONLY <1>8, n \in Nat, <1>2 DEF Room
  <2>2. \E r : Shifts(n, M, B, K, rank, p, new, r)
    BY ONLY <2>1, Shifted
  <2>. QED  BY <2>2 DEF Shifts
<1>10. /\ \A x \in 1..n : r[x] = IF rank[x] > p THEN rank[x] + 2 ELSE rank[x]
       /\ r[n + 1] = p /\ r[n + 2] = p + 1 /\ r[c] = rank[c]
  <2>1. \A x \in 1..n : r[x] = IF rank[x] > p THEN rank[x] + 2 ELSE rank[x]
    BY <1>7, <1>9
  <2>2. /\ n + 1 \in (n + 1)..(n + 2) /\ n + 2 \in (n + 1)..(n + 2)
        /\ p + ((n + 1) - (n + 1)) = p /\ p + ((n + 2) - (n + 1)) = p + 1
    BY ONLY n \in Nat, p \in 0..B, <1>2
  <2>3. r[n + 1] = p /\ r[n + 2] = p + 1
    <3>1. \A x \in (n + 1)..(n + 2) : r[x] = new[x]
      BY ONLY <1>7, <1>9
    <3>2. \A x \in (n + 1)..(n + 2) : new[x] = p + (x - (n + 1))
      BY ONLY <1>7
    <3>. QED  BY ONLY <2>2, <3>1, <3>2
  <2>4. r[c] = rank[c]
    <3>1. rank[c] \in Int /\ p \in Int
      BY <1>3, <1>6
    <3>2. ~(rank[c] > p)
      BY ONLY <1>6, <3>1
    <3>. QED  BY ONLY <1>6, <2>1, <3>2
  <2>. QED  BY <2>1, <2>3, <2>4
<1>11. ASSUME NEW x \in 1..M, NEW i \in 1..Len(h2[x].kids)
       PROVE  r[h2[x].kids[i]] < r[x]
  <2>1. CASE x \in 1..n
    <3>1. PICK y : y = h[x].kids[i]
      OBVIOUS
    <3>2. i \in 1..Len(h[x].kids) /\ h2[x].kids[i] = IF x = lo /\ i = li THEN n + 2 ELSE y
      BY <1>1, <1>11, <2>1, <3>1
    <3>3. y \in 1..n /\ rank[y] < rank[x] /\ rank[y] \in 0..B /\ rank[x] \in 0..B
      BY <1>3, <2>1, <3>1, <3>2
    <3>4. CASE x = lo /\ i = li
      <4>1. rank[x] > p
        BY <1>1, <1>4, <2>1, <3>1, <3>3, <3>4
      <4>. QED  BY <1>10, <2>1, <3>2, <3>3, <3>4, <4>1
    <3>5. CASE ~(x = lo /\ i = li)
      <4>1. /\ r[x] = IF rank[x] > p THEN rank[x] + 2 ELSE rank[x]
            /\ r[y] = IF rank[y] > p THEN rank[y] + 2 ELSE rank[y]
        BY <1>10, <2>1, <3>3
      <4>2. rank[y] \in Int /\ rank[x] \in Int /\ p \in Int /\ h2[x].kids[i] = y
        BY <1>4, <3>2, <3>3, <3>5
      <4>. QED  BY ONLY <3>3, <4>1, <4>2
    <3>. QED  BY <3>4, <3>5
  <2>2. CASE x = n + 1
    <3>1. i = 1 /\ h2[x].kids[i] = c
      <4>1. h2[x].kids = <<c>>
        BY <1>1, <1>5, <2>2
      <4>. QED  BY ONLY <4>1, i \in 1..Len(h2[x].kids)
    <3>. QED  BY <1>6, <1>10, <2>2, <3>1
  <2>3. CASE x = n + 2
    <3>1. i = 1 /\ h2[x].kids[i] = n + 1
      <4>1. h2[x].kids = <<n + 1>>
        BY <1>1, <2>3
      <4>. QED  BY ONLY <4>1, i \in 1..Len(h2[x].kids)
    <3>. QED  BY <1>10, <2>3, <3>1
  <2>. QED  BY <1>7, <2>1, <2>2, <2>3
<1>12. Ranks(h2, B + K, r) /\ B + K \in Nat
  BY <1>1, <1>7, <1>9, <1>11 DEF Ranks
<1>. QED  BY <1>1, <1>7, <1>9, <1>12 DEF Ranked

-----------------------------------------------------------------------------
(***************************************************************************)
(* The names that are free in a node.                                      *)
(***************************************************************************)
\* What makes f the names that are free in node a.
FreeBelow(h, f, a) ==
    Uses(h[a].vals) \cup UNION {f[h[a].kids[i]] \ BoundIn(h[a], i) : i \in 1..Len(h[a].kids)}

\* The names of its values, and those of its children that it does not bind.
LEMMA InFreeBelow ==
  ASSUME NEW h, NEW f, NEW a, NEW x
  PROVE  x \in FreeBelow(h, f, a) <=>
            \/ x \in Uses(h[a].vals)
            \/ \E i \in 1..Len(h[a].kids) : x \in f[h[a].kids[i]] /\ x \notin BoundIn(h[a], i)
BY DEF FreeBelow

\* Free is well defined on a heap without cycles: by induction on the rank.
LEMMA FreeIs ==
  ASSUME NEW h, Shaped(h), Ranked(h)
  PROVE  \A a \in 1..Len(h) : Free(h)[a] = FreeBelow(h, Free(h), a)
<1>1a. PICK B \in Nat : \E rank \in [1..Len(h) -> 0..B] : Ranks(h, B, rank)
  BY DEF Ranked
<1>1. PICK rank \in [1..Len(h) -> 0..B] : Ranks(h, B, rank)
  BY <1>1a
<1>2. /\ \A a \in 1..Len(h) : rank[a] \in 0..B
      /\ \A a \in 1..Len(h) : \A i \in 1..Len(h[a].kids) :
            rank[h[a].kids[i]] < rank[a] /\ h[a].kids[i] \in 1..Len(h)
  BY <1>1 DEF Ranks, Shaped
<1>. DEFINE D == 1..Len(h)
            Good(n, f) == /\ f = [a \in D |-> f[a]]
                          /\ \A a \in D : rank[a] < n => f[a] = FreeBelow(h, f, a)
            T == {n \in Nat : ~\E f : Good(n, f)}
<1>3. T = {}
  <2>. SUFFICES ASSUME T # {} PROVE FALSE
    OBVIOUS
  <2>1. PICK m \in T : \A k \in T : m <= k
    <3>1. T \subseteq Nat
      OBVIOUS
    <3>. QED  BY ONLY <3>1, T # {}, LeastNumber
  <2>2. m \in Nat /\ ~\E f : Good(m, f)
    OBVIOUS
  <2>3. CASE m = 0
    <3>1. Good(0, [a \in D |-> {}])
      BY <1>2
    <3>. QED  BY <2>2, <2>3, <3>1
  <2>4. CASE m # 0
    <3>1. m - 1 \in Nat /\ ~(m <= m - 1)
      BY <2>2, <2>4
    <3>2. PICK f : Good(m - 1, f)
      BY <2>1, <3>1
    <3>3. PICK g : g = [a \in D |-> FreeBelow(h, f, a)]
      OBVIOUS
    <3>4. \A a \in D : rank[a] < m - 1 => g[a] = f[a]
      BY <3>2, <3>3
    <3>5. ASSUME NEW a \in D, rank[a] < m
          PROVE  g[a] = FreeBelow(h, g, a)
      <4>1. \A i \in 1..Len(h[a].kids) : g[h[a].kids[i]] = f[h[a].kids[i]]
        <5>1. \A i \in 1..Len(h[a].kids) : h[a].kids[i] \in D /\ rank[h[a].kids[i]] < m - 1
          BY <1>2, <2>2, <3>5
        <5>. QED  BY <3>4, <5>1
      <4>2. FreeBelow(h, f, a) = FreeBelow(h, g, a)
        <5>1. {f[h[a].kids[i]] \ BoundIn(h[a], i) : i \in 1..Len(h[a].kids)}
                = {g[h[a].kids[i]] \ BoundIn(h[a], i) : i \in 1..Len(h[a].kids)}
          BY ONLY <4>1
        <5>. QED  BY ONLY <5>1 DEF FreeBelow
      <4>3. g[a] = FreeBelow(h, f, a)
        BY ONLY <3>3, a \in D
      <4>. QED  BY ONLY <4>2, <4>3
    <3>6. Good(m, g)
      <4>1. g = [a \in D |-> g[a]]
        BY ONLY <3>3
      <4>. QED  BY ONLY <3>5, <4>1
    <3>. QED  BY <2>2, <3>6
  <2>. QED  BY <2>3, <2>4
<1>4. PICK f : Good(B + 1, f)
  <2>1. B + 1 \in Nat /\ B + 1 \notin T
    BY <1>3
  <2>. QED  BY ONLY <2>1
<1>5. f = [a \in D |-> FreeBelow(h, f, a)]
  BY <1>2, <1>4
<1>6. Free(h) = CHOOSE F : F = [a \in 1..Len(h) |-> FreeBelow(h, F, a)]
  BY DEF Free, FreeBelow
<1>7. PICK G : G = Free(h)
  OBVIOUS
<1>8. G = [a \in D |-> FreeBelow(h, G, a)]
  BY <1>5, <1>6, <1>7
<1>. QED  BY <1>7, <1>8

-----------------------------------------------------------------------------
(***************************************************************************)
(* Tasks.  V is the set of nodes the walk has visited: a task to visit a   *)
(* node refers to one it has not, below a node it has, and the closure of  *)
(* an AppExp lies below all tasks for what hangs on that node.             *)
(***************************************************************************)
LinkRec == [owner : Nat, kid : Nat]

TaskRec ==
    [kind : {"node"}, link : LinkRec, exp : Nat]
      \cup [kind : {"call"}, link : LinkRec, exp : Nat, proj : Ident, vals : Seq(Value)]

TaskOK(h, fr, r, V, t) ==
    /\ IsLink(h, fr, t.link.owner, t.link.kid)
    /\ To(h, r, t.link.owner, t.link.kid) = t.exp
    /\ t.link.owner \in V \cup {Null}
    /\ t.kind = "node" => t.exp \notin V
    /\ t.kind = "call" => t.exp \in V /\ h[t.exp].tag = "App"

Seen(h, fr, r, w, V) ==
    /\ V \subseteq 1..Len(h)
    /\ \A t \in 1..Len(w) : TaskOK(h, fr, r, V, w[t])
    /\ \A t, u \in 1..Len(w) : w[t].exp = w[u].exp => t = u
    /\ \A t, u \in 1..Len(w) : w[t].kind = "call" /\ w[u].link.owner = w[t].exp => t < u
    /\ \A a \in Live(h, fr) \ V : \A i \in 1..Len(h[a].kids) : h[a].kids[i] \notin V

\* The visitors have changed no node outside V, and made projections and tuples.
Original(h0, h, fr, V) ==
    \A a \in Live(h, fr) : a \notin V =>
        IF a <= Len(h0) THEN h[a] = h0[a] ELSE h[a].tag \in {"Proj", "Tuple"}

\* Node a was visited: m is 1 if its closure was pushed, and tasks for its children were.
Visiting(h, h2, w, w2, a, l, m) ==
    LET n == Len(w) - 1
        K == Len(h2[a].kids)
    IN  /\ Len(w) \in Nat \ {0} /\ K \in Nat /\ m \in {0, 1}
        /\ w[n + 1].kind = "node" /\ w[n + 1].exp = a /\ w[n + 1].link = l
        /\ Len(w2) = n + m + K
        /\ \A t \in 1..n : w2[t] = w[t]
        /\ m = 1 => /\ w2[n + 1].kind = "call" /\ w2[n + 1].link = l /\ w2[n + 1].exp = a
                    /\ h[a].tag = "App"
        /\ \A i \in 1..K : /\ w2[n + m + i].kind = "node" /\ w2[n + m + i].exp = h2[a].kids[i]
                           /\ w2[n + m + i].link.owner = a /\ w2[n + m + i].link.kid = i

\* No two links lead to one node.
LEMMA LinkInjective ==
  ASSUME NEW h, NEW fr, NEW r, Shaped(h), Owned(h, fr, r), NEW o, NEW i, NEW p, NEW j,
         IsLink(h, fr, o, i), IsLink(h, fr, p, j), To(h, r, o, i) = To(h, r, p, j)
  PROVE  o = p /\ i = j
<1>1. o \in Nat /\ i \in Nat
  BY LinkNat
<1>2. p \in Nat /\ j \in Nat
  BY LinkNat
<1>. QED  BY <1>1, <1>2 DEF Owned

\* It stays so when only visited nodes are changed.
LEMMA OriginalKept ==
  ASSUME NEW h0, NEW h, NEW h2, NEW fr, NEW fr2, NEW V, NEW W, Original(h0, h, fr, V),
         \A b \in Live(h2, fr2) : b \notin W =>
            \/ b \in Live(h, fr) /\ b \notin V /\ h2[b] = h[b]
            \/ ~(b <= Len(h0)) /\ h2[b].tag \in {"Proj", "Tuple"}
  PROVE  Original(h0, h2, fr2, W)
BY DEF Original

\* A visit leaves the tasks that were there as they are, and makes good ones.
LEMMA VisitingSeen ==
  ASSUME NEW h, NEW h2, NEW fr, NEW r, NEW w, NEW w2, NEW V, NEW W, NEW a, NEW l, NEW m,
         Shaped(h), Shaped(h2), Owned(h, fr, r), Owned(h2, fr, r), Seen(h, fr, r, w, V),
         Visiting(h, h2, w, w2, a, l, m), Len(h) <= Len(h2),
         \A b \in 1..Len(h) : b # a => h2[b].kids = h[b].kids,
         \A b \in 1..Len(h) : h2[b].tag = h[b].tag,
         \A x : x \in W <=> x \in V \/ x = a,
         \A b \in Live(h2, fr) : b \notin V => \A i \in 1..Len(h2[b].kids) : h2[b].kids[i] \notin W
  PROVE  Seen(h2, fr, r, w2, W)
<1>1. PICK n : n = Len(w) - 1
  OBVIOUS
<1>2. PICK K : K = Len(h2[a].kids)
  OBVIOUS
<1>3. /\ n \in Nat /\ K \in Nat /\ m \in {0, 1} /\ Len(w) = n + 1
      /\ w[n + 1].kind = "node" /\ w[n + 1].exp = a /\ w[n + 1].link = l
      /\ Len(w2) = n + m + K
      /\ \A t \in 1..n : w2[t] = w[t]
      /\ m = 1 => /\ w2[n + 1].kind = "call" /\ w2[n + 1].link = l /\ w2[n + 1].exp = a
                  /\ h[a].tag = "App"
      /\ \A i \in 1..K : /\ w2[n + m + i].kind = "node" /\ w2[n + m + i].exp = h2[a].kids[i]
                         /\ w2[n + m + i].link.owner = a /\ w2[n + m + i].link.kid = i
  BY <1>1, <1>2 DEF Visiting
<1>4. /\ V \subseteq 1..Len(h)
      /\ \A t \in 1..(n + 1) : TaskOK(h, fr, r, V, w[t])
      /\ \A t, u \in 1..(n + 1) : w[t].exp = w[u].exp => t = u
      /\ \A t, u \in 1..(n + 1) : w[t].kind = "call" /\ w[u].link.owner = w[t].exp => t < u
  BY <1>3 DEF Seen
<1>5. n + 1 \in 1..(n + 1) /\ \A t \in 1..n : t \in 1..(n + 1) /\ t < n + 1 /\ t # n + 1
  BY <1>3
<1>6. /\ IsLink(h, fr, l.owner, l.kid) /\ To(h, r, l.owner, l.kid) = a
      /\ l.owner \in V \cup {Null} /\ a \notin V
  BY <1>3, <1>4, <1>5 DEF TaskOK
<1>7. a \in Live(h, fr) /\ a \in 1..Len(h) /\ a # Null /\ Len(h) \in Nat /\ Len(h2) \in Nat
  <2>1. l.owner \in Nat /\ l.kid \in Nat
    BY <1>6, LinkNat
  <2>2. a \in Live(h, fr)
    BY <1>6, <2>1 DEF Owned
  <2>3. Len(h) \in Nat /\ Len(h2) \in Nat
    BY LenProperties DEF Shaped
  <2>. QED  BY <2>2, <2>3 DEF Live, Null
\* A link in a node that was visited stays what it is.
<1>8. ASSUME NEW o \in V \cup {Null}, NEW i, IsLink(h, fr, o, i)
      PROVE  IsLink(h2, fr, o, i) /\ To(h2, r, o, i) = To(h, r, o, i)
  <2>1. CASE o = Null
    BY <1>8, <2>1 DEF IsLink, To
  <2>2. CASE o # Null
    <3>1. o \in Live(h, fr) /\ i \in 1..Len(h[o].kids) /\ o # a /\ o \in 1..Len(h)
      BY <1>6, <1>8, <2>2 DEF IsLink, Live
    <3>2. o \in Live(h2, fr) /\ h2[o].kids = h[o].kids
      BY <1>7, <3>1 DEF Live
    <3>. QED  BY <2>2, <3>1, <3>2 DEF IsLink, To
  <2>. QED  BY <2>1, <2>2
\* The tasks that were there.
<1>9. ASSUME NEW t \in 1..n
      PROVE  /\ TaskOK(h2, fr, r, W, w2[t]) /\ w2[t].exp # a
             /\ w2[t].link.owner \in V \cup {Null} /\ w2[t].link.owner # a
  <2>1. w2[t] = w[t] /\ TaskOK(h, fr, r, V, w[t]) /\ w[t].exp # a
    BY <1>3, <1>4, <1>5
  <2>2. /\ IsLink(h2, fr, w[t].link.owner, w[t].link.kid)
        /\ To(h2, r, w[t].link.owner, w[t].link.kid) = w[t].exp
    BY <1>8, <2>1 DEF TaskOK
  <2>3. w[t].kind = "call" => h2[w[t].exp].tag = "App"
    BY <1>4, <2>1 DEF TaskOK
  <2>. QED  BY <1>6, <1>7, <2>1, <2>2, <2>3 DEF TaskOK
\* The closure.
<1>10. m = 1 => /\ TaskOK(h2, fr, r, W, w2[n + 1]) /\ w2[n + 1].link = l
                /\ l.owner # a /\ w2[n + 1].exp = a /\ w2[n + 1].kind = "call"
  <2>1. IsLink(h2, fr, l.owner, l.kid) /\ To(h2, r, l.owner, l.kid) = a
    BY <1>6, <1>8
  <2>. QED  BY <1>3, <1>6, <1>7, <2>1 DEF TaskOK
\* The tasks for the children.
<1>11. ASSUME NEW i \in 1..K
       PROVE  /\ TaskOK(h2, fr, r, W, w2[n + m + i]) /\ w2[n + m + i].exp \notin W
              /\ w2[n + m + i].link.owner = a /\ w2[n + m + i].link.kid = i
              /\ w2[n + m + i].kind = "node"
  <2>1. /\ w2[n + m + i].kind = "node" /\ w2[n + m + i].exp = h2[a].kids[i]
        /\ w2[n + m + i].link.owner = a /\ w2[n + m + i].link.kid = i
    BY <1>3
  <2>2. a \in Live(h2, fr)
    BY <1>7 DEF Live
  <2>3. IsLink(h2, fr, a, i) /\ To(h2, r, a, i) = h2[a].kids[i]
    BY <1>2, <1>7, <2>2 DEF IsLink, To
  <2>4. h2[a].kids[i] \notin W
    BY <1>2, <1>6, <2>2
  <2>. QED  BY <2>1, <2>3, <2>4 DEF TaskOK
<1>12. \A t \in 1..Len(w2) : \/ t \in 1..n
                             \/ m = 1 /\ t = n + 1
                             \/ \E i \in 1..K : t = n + m + i
  <2>. SUFFICES ASSUME NEW t \in 1..(n + m + K), t \notin 1..n, ~(m = 1 /\ t = n + 1)
                PROVE  \E i \in 1..K : t = n + m + i
    BY <1>3
  <2>1. t - (n + m) \in 1..K /\ t = n + m + (t - (n + m))
    BY <1>3
  <2>. QED  BY <2>1
<1>13. \A t \in 1..Len(w2) : TaskOK(h2, fr, r, W, w2[t])
  BY <1>9, <1>10, <1>11, <1>12
<1>14. ASSUME NEW t \in 1..Len(w2), NEW u \in 1..Len(w2), w2[t].exp = w2[u].exp
       PROVE  w2[t].link.owner = w2[u].link.owner /\ w2[t].link.kid = w2[u].link.kid
  <2>1. TaskOK(h2, fr, r, W, w2[t]) /\ TaskOK(h2, fr, r, W, w2[u])
    BY <1>13
  <2>2. /\ IsLink(h2, fr, w2[t].link.owner, w2[t].link.kid)
        /\ IsLink(h2, fr, w2[u].link.owner, w2[u].link.kid)
        /\ To(h2, r, w2[t].link.owner, w2[t].link.kid) = To(h2, r, w2[u].link.owner, w2[u].link.kid)
    BY <1>14, <2>1 DEF TaskOK
  <2>3. /\ w2[t].link.owner \in Nat /\ w2[t].link.kid \in Nat
        /\ w2[u].link.owner \in Nat /\ w2[u].link.kid \in Nat
    BY <2>2, LinkNat
  <2>. QED  BY <2>2, LinkInjective
<1>15. \A t, u \in 1..Len(w2) : w2[t].exp = w2[u].exp => t = u
  <2>. SUFFICES ASSUME NEW t \in 1..Len(w2), NEW u \in 1..Len(w2), w2[t].exp = w2[u].exp
                PROVE  t = u
    OBVIOUS
  <2>1. w2[t].link.owner = w2[u].link.owner /\ w2[t].link.kid = w2[u].link.kid
    BY <1>14
  <2>2. t \in 1..n /\ u \in 1..n => t = u
    BY <1>3, <1>4, <1>5
  <2>3. ~(t \in 1..n /\ \E i \in 1..K : u = n + m + i) /\ ~(u \in 1..n /\ \E i \in 1..K : t = n + m + i)
    BY <1>9, <1>11, <2>1
  <2>4. a \in W
    OBVIOUS
  <2>5. m = 1 => /\ t = n + 1 => u \notin 1..n /\ ~\E i \in 1..K : u = n + m + i
                 /\ u = n + 1 => t \notin 1..n /\ ~\E i \in 1..K : t = n + m + i
    BY <1>9, <1>10, <1>11, <2>4
  <2>6. ASSUME NEW i \in 1..K, NEW j \in 1..K, t = n + m + i, u = n + m + j
        PROVE  t = u
    BY <1>11, <2>1, <2>6
  <2>. QED  BY <1>12, <2>2, <2>3, <2>5, <2>6
<1>16. \A t, u \in 1..Len(w2) : w2[t].kind = "call" /\ w2[u].link.owner = w2[t].exp => t < u
  <2>. SUFFICES ASSUME NEW t \in 1..Len(w2), NEW u \in 1..Len(w2),
                       w2[t].kind = "call", w2[u].link.owner = w2[t].exp
                PROVE  t < u
    OBVIOUS
  <2>1. t \in 1..n \/ (m = 1 /\ t = n + 1)
    BY <1>11, <1>12
  <2>2. CASE t \in 1..n
    <3>1. CASE u \in 1..n
      BY <1>3, <1>4, <1>5, <2>2, <3>1
    <3>2. CASE u \notin 1..n
      BY <1>3, <2>2, <3>2
    <3>. QED  BY <3>1, <3>2
  <2>3. CASE m = 1 /\ t = n + 1
    <3>1. u \notin 1..n /\ u # n + 1
      BY <1>9, <1>10, <2>3
    <3>. QED  BY <1>3, <2>3, <3>1
  <2>. QED  BY <2>1, <2>2, <2>3
<1>17. W \subseteq 1..Len(h2)
  <2>1. \A x \in W : x \in 1..Len(h)
    BY <1>4, <1>7
  <2>2. Len(h) <= Len(h2)
    OBVIOUS
  <2>3. \A x \in 1..Len(h) : x \in 1..Len(h2)
    BY ONLY <1>7, <2>2
  <2>. QED  BY ONLY <2>1, <2>3
<1>18. \A b \in Live(h2, fr) \ W : \A i \in 1..Len(h2[b].kids) : h2[b].kids[i] \notin W
  OBVIOUS
<1>. QED  BY <1>13, <1>15, <1>16, <1>17, <1>18 DEF Seen

\* Task n, on top, is popped: it is the closure of node e, which link (lo, li) owns,
\* and destroys that node and makes two.
Calling(h, h2, fr, fr2, w, w2, V, W, n, e, lo, li) ==
    /\ n \in Nat \ {0} /\ n = Len(w) /\ w[n].kind = "call" /\ w[n].exp = e
    /\ w[n].link.owner = lo /\ w[n].link.kid = li
    /\ \A x : x \in fr2 <=> x \in fr \/ x = e
    /\ \A a \in 1..Len(h) : h2[a].tag = h[a].tag
    /\ Len(w2) = n - 1 /\ \A t \in 1..(n - 1) : w2[t] = w[t]
    /\ \A x : x \in W <=> x \in V \/ x \in {Len(h) + 1, Len(h) + 2}

\* No other task refers to the node that is destroyed, or holds a link in it.
LEMMA CallSeen ==
  ASSUME NEW h, NEW h2, NEW fr, NEW fr2, NEW r, NEW r2, NEW w, NEW w2, NEW V, NEW W,
         NEW n, NEW e, NEW lo, NEW li,
         Shaped(h), fr \subseteq 1..Len(h), Owned(h, fr, r), Seen(h, fr, r, w, V),
         Calling(h, h2, fr, fr2, w, w2, V, W, n, e, lo, li),
         Replaces(h, h2, fr, r, r2, e, lo, li)
  PROVE  Owned(h2, fr2, r2) /\ Seen(h2, fr2, r2, w2, W)
<1>. SUFFICES ASSUME n \in Nat \ {0}, n = Len(w), w[n].kind = "call", w[n].exp = e,
                     w[n].link.owner = lo, w[n].link.kid = li,
                     \A x : x \in fr2 <=> x \in fr \/ x = e,
                     \A a \in 1..Len(h) : h2[a].tag = h[a].tag,
                     Len(w2) = n - 1, \A t \in 1..(n - 1) : w2[t] = w[t],
                     \A x : x \in W <=> x \in V \/ x \in {Len(h) + 1, Len(h) + 2}
              PROVE  Owned(h2, fr2, r2) /\ Seen(h2, fr2, r2, w2, W)
  BY DEF Calling
<1>1. PICK N \in Nat : N = Len(h)
  BY LenProperties DEF Shaped
<1>2. /\ V \subseteq 1..N
      /\ \A t \in 1..n : TaskOK(h, fr, r, V, w[t])
      /\ \A t, u \in 1..n : w[t].exp = w[u].exp => t = u
      /\ \A t, u \in 1..n : w[t].kind = "call" /\ w[u].link.owner = w[t].exp => t < u
      /\ \A a \in Live(h, fr) : a \notin V => \A i \in 1..Len(h[a].kids) : h[a].kids[i] \notin V
  BY <1>1 DEF Seen
<1>3. n \in 1..n /\ \A t \in 1..(n - 1) : t \in 1..n /\ t # n /\ ~(n < t)
  OBVIOUS
<1>4. /\ IsLink(h, fr, lo, li) /\ To(h, r, lo, li) = e /\ lo \in V \cup {Null}
      /\ e \in V /\ h[e].tag = "App" /\ lo # e
  <2>1. TaskOK(h, fr, r, V, w[n])
    BY <1>2, <1>3
  <2>2. lo # e
    BY <1>2, <1>3
  <2>. QED  BY <2>1, <2>2 DEF TaskOK
<1>5. Len(h[e].kids) = 1
  <2>1. e \in 1..Len(h)
    BY <1>1, <1>2, <1>4
  <2>2. Len(h[e].kids) = Arities[h[e].tag]
    BY <2>1, NodeOf
  <2>. QED  BY <1>4, <2>2 DEF Arities
<1>6. /\ Owned(h2, fr2, r2)
      /\ \A o, i : IsLink(h2, fr2, o, i) <=>
            \/ IsLink(h, fr, o, i) /\ o # e
            \/ o \in {Len(h) + 1, Len(h) + 2} /\ i = 1
      /\ \A o, i : IsLink(h, fr, o, i) =>
            To(h2, r2, o, i) = IF o = lo /\ i = li THEN Len(h) + 2 ELSE To(h, r, o, i)
  <2>1. /\ Shaped(h) /\ fr \subseteq 1..Len(h) /\ Owned(h, fr, r)
        /\ IsLink(h, fr, lo, li) /\ To(h, r, lo, li) = e
        /\ \A x : x \in fr2 <=> x \in fr \/ x = e
        /\ lo # e /\ Len(h[e].kids) = 1 /\ Replaces(h, h2, fr, r, r2, e, lo, li)
    BY <1>4, <1>5
  <2>2. Owned(h2, fr2, r2) /\ Rewired(h, h2, fr, fr2, r, r2, e, lo, li)
    BY ONLY <2>1, ReplacesOwned
  <2>. QED  BY ONLY <2>2 DEF Rewired
<1>7. /\ \A o, i : IsLink(h, fr, o, i) /\ o # e => IsLink(h2, fr2, o, i)
      /\ \A o, i : IsLink(h, fr, o, i) /\ ~(o = lo /\ i = li) => To(h2, r2, o, i) = To(h, r, o, i)
  BY ONLY <1>6
<1>8. ASSUME NEW t \in 1..(n - 1)
      PROVE  TaskOK(h2, fr2, r2, W, w2[t])
  <2>1. w2[t] = w[t] /\ TaskOK(h, fr, r, V, w[t]) /\ t \in 1..n
    BY <1>2, <1>3
  <2>2. PICK o, i, x : o = w[t].link.owner /\ i = w[t].link.kid /\ x = w[t].exp
    OBVIOUS
  <2>3. /\ IsLink(h, fr, o, i) /\ To(h, r, o, i) = x /\ o \in V \cup {Null}
        /\ w[t].kind = "node" => x \notin V
        /\ w[t].kind = "call" => x \in V /\ h[x].tag = "App"
    BY <2>1, <2>2 DEF TaskOK
  <2>4. o # e
    BY <1>2, <1>3, <2>2
  <2>5. ~(o = lo /\ i = li)
    <3>1. x # e
      BY <1>2, <1>3, <2>2
    <3>. QED  BY <1>4, <2>3, <3>1
  <2>6. IsLink(h2, fr2, o, i) /\ To(h2, r2, o, i) = x
    BY <1>7, <2>3, <2>4, <2>5
  <2>7. x \in 1..N
    <3>1. o \in Nat /\ i \in Nat
      BY <2>3, LinkNat
    <3>. QED  BY <1>1, <2>3, <3>1 DEF Owned, Live
  <2>8. w[t].kind = "node" => x \notin W
    BY <1>1, <2>3, <2>7
  <2>9. w[t].kind = "call" => x \in W /\ h2[x].tag = "App"
    BY <1>1, <2>3, <2>7
  <2>. QED  BY <2>1, <2>2, <2>3, <2>6, <2>8, <2>9 DEF TaskOK
<1>20. \A t \in 1..(n - 1) : w2[t] = w[t] /\ t \in 1..n
  BY <1>3
<1>9. \A t, u \in 1..(n - 1) : w2[t].exp = w2[u].exp => t = u
  BY ONLY <1>2, <1>20
<1>10. \A t, u \in 1..(n - 1) : w2[t].kind = "call" /\ w2[u].link.owner = w2[t].exp => t < u
  BY ONLY <1>2, <1>20
<1>11. ASSUME NEW a \in Live(h2, fr2), a \notin W, NEW i \in 1..Len(h2[a].kids)
       PROVE  h2[a].kids[i] \notin W
  <2>1. /\ a # N + 1 /\ a # N + 2 /\ a \notin V
        /\ a \in 1..(N + 2) /\ a \notin fr /\ a # e
    BY <1>1, <1>11 DEF Live, Replaces
  <2>2. a \in 1..N /\ a \in Live(h, fr) /\ a # Null
    <3>1. a \in 1..N /\ a \in 1..Len(h) /\ a # Null
      BY ONLY <1>1, <2>1 DEF Null
    <3>. QED  BY <2>1, <3>1 DEF Live
  <2>3. IsLink(h2, fr2, a, i)
    BY <1>11, <2>2 DEF IsLink
  <2>4. IsLink(h, fr, a, i)
    BY <1>1, <1>6, <2>1, <2>3
  <2>5. a # lo
    BY <1>4, <2>1, <2>2
  <2>6. To(h2, r2, a, i) = To(h, r, a, i)
    BY <1>7, <2>4, <2>5
  <2>7. h2[a].kids[i] = h[a].kids[i] /\ i \in 1..Len(h[a].kids)
    BY <2>2, <2>4, <2>6 DEF To, IsLink
  <2>8. h[a].kids[i] \notin V /\ h[a].kids[i] \in 1..N
    BY <1>1, <1>2, <2>1, <2>2, <2>7 DEF Shaped
  <2>. QED  BY ONLY <1>1, <2>7, <2>8, \A x : x \in W <=> x \in V \/ x \in {Len(h) + 1, Len(h) + 2}
<1>12. W \subseteq 1..Len(h2)
  <2>1. Len(h2) = N + 2
    BY <1>1 DEF Replaces
  <2>2. PICK M : M = Len(h2)
    OBVIOUS
  <2>3. M = N + 2 /\ \A x : x \in W <=> x \in V \/ x \in {N + 1, N + 2}
    BY ONLY <1>1, <2>1, <2>2, \A x : x \in W <=> x \in V \/ x \in {Len(h) + 1, Len(h) + 2}
  <2>4. \A x \in V : x \in 1..N
    BY <1>2
  <2>5. W \subseteq 1..M
    BY ONLY <1>1, <2>3, <2>4
  <2>. QED  BY ONLY <2>2, <2>5
<1>. QED  BY <1>6, <1>8, <1>9, <1>10, <1>11, <1>12 DEF Seen

-----------------------------------------------------------------------------
(***************************************************************************)
(* Nodes.                                                                  *)
(***************************************************************************)
\* The names that are made up are identifiers.
LEMMA MadeNames ==
  ASSUME NEW c \in Nat
  PROVE  ClosureName(c) \in Ident /\ ProjName(c) \in Ident /\ NoName \in Ident
<1>1. \A s \in Stems : Name(s, <<>>) \in Ident
  BY StemsAssumption DEF Name, Ident
<1>2. "" \in Stems /\ "closure" \in Stems /\ "proj" \in Stems
  BY DEF Stems
<1>. QED  BY <1>1, <1>2, FreshType DEF ClosureName, ProjName, NoName

\* And so are the values.
LEMMA MadeValues ==
  ASSUME NEW x \in Ident
  PROVE  VarValue(x) \in Value /\ GlobValue(x) \in Value /\ VarValue(x).kind = "var"
BY DEF VarValue, GlobValue, Val, Value

\* Node b of h2 binds the names it binds in h.
SameBinders(h, h2, b) ==
    h2[b].tag = h[b].tag /\ h2[b].name = h[b].name /\ h2[b].params = h[b].params

\* What a node is made of.
LEMMA MadeNode ==
  ASSUME NEW tag \in AnfTag, NEW x \in Ident, NEW ps \in Seq(Ident), NEW vs \in Seq(Value),
         NEW ks \in Seq(Nat)
  PROVE  /\ Node(tag, x, ps, vs, ks) \in HeapNode
         /\ Node(tag, x, ps, vs, ks).kids = ks /\ Node(tag, x, ps, vs, ks).tag = tag
         /\ Node(tag, x, ps, vs, ks).vals = vs /\ Node(tag, x, ps, vs, ks).name = x
BY DEF Node, HeapNode

\* The index of a ProjExp is set after the node is made.
LEMMA WithIndex ==
  ASSUME NEW n \in HeapNode, NEW i \in Nat
  PROVE  /\ [n EXCEPT !.index = i] \in HeapNode
         /\ [n EXCEPT !.index = i].kids = n.kids /\ [n EXCEPT !.index = i].tag = n.tag
         /\ [n EXCEPT !.index = i].vals = n.vals /\ [n EXCEPT !.index = i].name = n.name
BY Zenon DEF HeapNode

\* The three nodes that closure conversion makes.
LEMMA ProjNode ==
  ASSUME NEW x \in Ident, NEW t \in Ident, NEW i \in Nat, NEW r \in Nat
  PROVE  /\ ProjExp(x, t, i, r) \in HeapNode /\ IsNode(ProjExp(x, t, i, r))
         /\ ProjExp(x, t, i, r).kids = <<r>> /\ ProjExp(x, t, i, r).tag = "Proj"
         /\ ProjExp(x, t, i, r).name = x
<1>. DEFINE m == Node("Proj", x, <<>>, <<VarValue(t)>>, <<r>>)
            p == [m EXCEPT !.index = i]
<1>1. <<VarValue(t)>> \in Seq(Value) /\ <<r>> \in Seq(Nat) /\ <<>> \in Seq(Ident) /\ "Proj" \in AnfTag
  BY MadeValues DEF AnfTag
<1>2. m \in HeapNode /\ m.kids = <<r>> /\ m.tag = "Proj" /\ m.vals = <<VarValue(t)>> /\ m.name = x
  <2>2. PICK vs, ks : vs = <<VarValue(t)>> /\ ks = <<r>>
    OBVIOUS
  <2>3. /\ Node("Proj", x, <<>>, vs, ks) \in HeapNode
        /\ Node("Proj", x, <<>>, vs, ks).kids = ks /\ Node("Proj", x, <<>>, vs, ks).tag = "Proj"
        /\ Node("Proj", x, <<>>, vs, ks).vals = vs /\ Node("Proj", x, <<>>, vs, ks).name = x
    <3>1. vs \in Seq(Value) /\ ks \in Seq(Nat)
      BY <1>1, <2>2, Zenon
    <3>2. \A tag \in AnfTag, ps \in Seq(Ident) :
             /\ Node(tag, x, ps, vs, ks) \in HeapNode
             /\ Node(tag, x, ps, vs, ks).kids = ks /\ Node(tag, x, ps, vs, ks).tag = tag
             /\ Node(tag, x, ps, vs, ks).vals = vs /\ Node(tag, x, ps, vs, ks).name = x
      BY <3>1, MadeNode
    <3>. QED  BY <1>1, <3>2, Zenon
  <2>. QED  BY <2>2, <2>3, Zenon
<1>. HIDE DEF m
<1>3. p \in HeapNode /\ p.kids = <<r>> /\ p.tag = "Proj" /\ p.vals = <<VarValue(t)>> /\ p.name = x
  BY <1>2, WithIndex
<1>4. ProjExp(x, t, i, r) = p
  BY DEF ProjExp, m
<1>. HIDE DEF p
<1>5. Len(p.kids) = Arities[p.tag] /\ p.vals # <<>> /\ p.vals[1].kind = "var"
  BY <1>3, MadeValues DEF Arities
<1>. QED  BY <1>3, <1>4, <1>5 DEF IsNode

LEMMA TupleNode ==
  ASSUME NEW x \in Ident, NEW vs \in Seq(Value), NEW r \in Nat
  PROVE  /\ TupleExp(x, vs, r) \in HeapNode /\ IsNode(TupleExp(x, vs, r))
         /\ TupleExp(x, vs, r).kids = <<r>> /\ TupleExp(x, vs, r).tag = "Tuple"
         /\ TupleExp(x, vs, r).name = x
<1>1. <<r>> \in Seq(Nat) /\ <<>> \in Seq(Ident) /\ "Tuple" \in AnfTag
  BY DEF AnfTag
<1>2. PICK p : p = TupleExp(x, vs, r)
  OBVIOUS
<1>3. p \in HeapNode /\ p.kids = <<r>> /\ p.tag = "Tuple" /\ p.name = x
  <2>1. \A tag \in AnfTag, ps \in Seq(Ident), ks \in Seq(Nat) :
           /\ Node(tag, x, ps, vs, ks) \in HeapNode
           /\ Node(tag, x, ps, vs, ks).kids = ks /\ Node(tag, x, ps, vs, ks).tag = tag
           /\ Node(tag, x, ps, vs, ks).name = x
    BY MadeNode
  <2>. QED  BY <1>1, <1>2, <2>1, Zenon DEF TupleExp
<1>4. Len(p.kids) = Arities[p.tag] /\ p.tag \notin {"App", "Proj"}
  BY <1>3 DEF Arities
<1>. QED  BY <1>2, <1>3, <1>4 DEF IsNode

LEMMA AppNode ==
  ASSUME NEW x \in Ident, NEW f \in Ident, NEW vs \in Seq(Value), NEW r \in Nat
  PROVE  /\ AppExp(x, f, vs, r) \in HeapNode /\ IsNode(AppExp(x, f, vs, r)) /\ AppExp(x, f, vs, r).kids = <<r>>
         /\ AppExp(x, f, vs, r).tag = "App" /\ AppExp(x, f, vs, r).name = x
<1>. DEFINE us == <<VarValue(f)>> \o vs
<1>1. <<r>> \in Seq(Nat) /\ <<>> \in Seq(Ident) /\ "App" \in AnfTag /\ <<VarValue(f)>> \in Seq(Value)
  BY MadeValues DEF AnfTag
<1>2. us \in Seq(Value) /\ us # <<>> /\ us[1] = VarValue(f)
  <2>1. /\ us \in Seq(Value) /\ Len(us) = 1 + Len(vs) /\ Len(vs) \in Nat
        /\ us[1] = VarValue(f)
    BY <1>1
  <2>. HIDE DEF us
  <2>. QED  BY <2>1
<1>. HIDE DEF us
<1>3. PICK p : p = Node("App", x, <<>>, us, <<r>>)
  OBVIOUS
<1>4. p \in HeapNode /\ p.kids = <<r>> /\ p.tag = "App" /\ p.vals = us /\ p.name = x
  <2>1. \A tag \in AnfTag, ps \in Seq(Ident), ks \in Seq(Nat) :
           /\ Node(tag, x, ps, us, ks) \in HeapNode
           /\ Node(tag, x, ps, us, ks).kids = ks /\ Node(tag, x, ps, us, ks).tag = tag
           /\ Node(tag, x, ps, us, ks).vals = us /\ Node(tag, x, ps, us, ks).name = x
    BY <1>2, MadeNode
  <2>. QED  BY <1>1, <1>3, <2>1, ZenonT(40)
<1>5. Len(p.kids) = Arities[p.tag] /\ p.vals # <<>> /\ p.vals[1].kind = "var"
  BY <1>2, <1>4, MadeValues DEF Arities
<1>6. IsNode(p)
  BY <1>4, <1>5 DEF IsNode
<1>7. AppExp(x, f, vs, r) = p
  BY <1>3 DEF AppExp, us
<1>. QED  BY <1>4, <1>6, <1>7

\* An AppExp whose values were moved out.
LEMMA MovedNode ==
  ASSUME NEW n, IsNode(n), NEW vs \in Seq(Value), vs # <<>>, vs[1].kind = "var"
  PROVE  /\ [n EXCEPT !.vals = vs] \in HeapNode /\ IsNode([n EXCEPT !.vals = vs])
         /\ [n EXCEPT !.vals = vs].kids = n.kids /\ [n EXCEPT !.vals = vs].tag = n.tag
         /\ [n EXCEPT !.vals = vs].name = n.name /\ [n EXCEPT !.vals = vs].params = n.params
<1>. DEFINE p == [n EXCEPT !.vals = vs]
<1>0. n \in HeapNode
  BY DEF IsNode
<1>1. /\ p \in HeapNode /\ p.kids = n.kids /\ p.tag = n.tag /\ p.vals = vs
      /\ p.name = n.name /\ p.params = n.params
  BY <1>0, Zenon DEF HeapNode
<1>. HIDE DEF p
<1>. QED  BY <1>1 DEF p, IsNode

\* A finite set is a sequence of its elements.
LEMMA SetToSeqType ==
  ASSUME NEW S, IsFiniteSet(S), NEW T, S \subseteq T
  PROVE  /\ SetToSeq(S) \in Seq(T) /\ IsInjective(SetToSeq(S))
         /\ \A i \in 1..Len(SetToSeq(S)) : SetToSeq(S)[i] \in S
<1>1. PICK n \in Nat : n = Cardinality(S) /\ ExistsBijection(1..n, S)
  BY FS_CardinalityType
<1>2. \E f \in [1..n -> S] : IsInjective(f)
  BY <1>1 DEF ExistsBijection, Bijection, Injection, IsInjective
<1>3. SetToSeq(S) \in [1..n -> S] /\ IsInjective(SetToSeq(S))
  BY <1>1, <1>2 DEF SetToSeq
<1>4. PICK q : q = SetToSeq(S)
  OBVIOUS
<1>5. q \in [1..n -> T] /\ q \in [1..n -> S]
  BY <1>3, <1>4
<1>6. q \in Seq(T) /\ Len(q) = n
  BY <1>5
<1>. QED  BY <1>3, <1>4, <1>5, <1>6

-----------------------------------------------------------------------------
(***************************************************************************)
(* The walk of freeVars.                                                   *)
(***************************************************************************)
WalkRec(n) == [kind : {"visit"}, exp : 1..n] \cup [kind : {"erase"}, names : SUBSET Ident]

WalkInv ==
    /\ freeVars \subseteq Ident /\ IsFiniteSet(freeVars)
    /\ walk \in Seq(WalkRec(Len(heap)))

\* Values use finitely many names.
LEMMA UsesType ==
  ASSUME NEW vs \in Seq(Value)
  PROVE  Uses(vs) \subseteq Ident /\ IsFiniteSet(Uses(vs))
<1>. DEFINE D == {i \in 1..Len(vs) : vs[i].kind \in {"var", "glob"}}
<1>1. IsFiniteSet(D)
  <2>1. IsFiniteSet(1..Len(vs))
    BY FS_Interval, LenProperties
  <2>. QED  BY <2>1, FS_Subset
<1>2. PICK f : f = [i \in D |-> vs[i].var]
  OBVIOUS
<1>3. f \in Surjection(D, Uses(vs))
  <2>. HIDE DEF D
  <2>1. Uses(vs) = {vs[i].var : i \in D}
    BY DEF Uses, D
  <2>. QED  BY <1>2, <2>1 DEF Surjection
<1>4. IsFiniteSet(Uses(vs))
  BY <1>1, <1>3, FS_Surjection
<1>5. \A i \in D : vs[i].var \in Ident
  <2>1. \A i \in D : vs[i] \in Value
    BY ElementOfSeq
  <2>. QED  BY <2>1 DEF Value
<1>. QED  BY <1>4, <1>5 DEF Uses

\* What is bound in a child is names.
LEMMA BoundInType ==
  ASSUME NEW n \in HeapNode, NEW i
  PROVE  BoundIn(n, i) \subseteq Ident
<1>1. n.params \in Seq(Ident) /\ n.name \in Ident
  BY DEF HeapNode
<1>2. Range(n.params) \subseteq Ident
  BY <1>1, ElementOfSeq DEF Range
<1>3. {n.name} \subseteq Ident /\ {} \subseteq Ident
  BY <1>1
<1>. QED  BY <1>2, <1>3, Zenon DEF BoundIn

\* The tasks for a child.
LEMMA ScopeTasksType ==
  ASSUME Shaped(heap), NEW a \in 1..Len(heap), NEW i \in 1..Len(heap[a].kids)
  PROVE  ScopeTasks(a, i) \in Seq(WalkRec(Len(heap)))
<1>1. heap[a] \in HeapNode /\ heap[a].kids[i] \in 1..Len(heap)
  BY NodeOf
<1>2. PICK e, v : e = EraseTask(BoundIn(heap[a], i)) /\ v = VisitTask(heap[a].kids[i])
  OBVIOUS
<1>3. e \in WalkRec(Len(heap)) /\ v \in WalkRec(Len(heap))
  <2>1. BoundIn(heap[a], i) \subseteq Ident
    BY <1>1, BoundInType
  <2>. QED  BY <1>1, <1>2, <2>1 DEF EraseTask, VisitTask, WalkRec
<1>4. <<v>> \in Seq(WalkRec(Len(heap))) /\ <<e>> \o <<v>> \in Seq(WalkRec(Len(heap)))
      /\ <<>> \o <<v>> \in Seq(WalkRec(Len(heap)))
  BY <1>3
<1>5. ScopeTasks(a, i) = <<e>> \o <<v>> \/ ScopeTasks(a, i) = <<>> \o <<v>>
  BY <1>2, Zenon DEF ScopeTasks
<1>. QED  BY <1>4, <1>5

\* A turn of the walk collects names and visits nodes.
LEMMA WalkStep ==
  ASSUME Shaped(heap), WalkInv, Walk
  PROVE  /\ freeVars' \subseteq Ident /\ IsFiniteSet(freeVars')
         /\ walk' \in Seq(WalkRec(Len(heap)))
<1>. DEFINE R == WalkRec(Len(heap))
<1>1. walk # <<>>
  BY DEF Walk, Collect, EraseNames
<1>2. /\ Last(walk) \in R /\ Front(walk) \in Seq(R)
      /\ \A q \in Seq(R) : Front(walk) \o q \in Seq(R)
  <2>. HIDE DEF R
  <2>1. walk \in Seq(R)
    BY DEF WalkInv, R
  <2>. QED  BY <1>1, <2>1, Replace, Pop
<1>3. CASE Collect
  <2>1. PICK a : a = Last(walk).exp
    OBVIOUS
  <2>2. a \in 1..Len(heap)
    BY <1>2, <1>3, <2>1 DEF Collect, WalkRec
  <2>3. PICK n : n = Len(heap[a].kids)
    OBVIOUS
  <2>4. n \in Nat /\ heap[a].vals \in Seq(Value)
    <3>1. heap[a] \in HeapNode /\ heap[a].kids \in Seq(Nat)
      BY <2>2, NodeOf
    <3>2. heap[a].vals \in Seq(Value)
      BY <3>1 DEF HeapNode
    <3>. QED  BY <2>3, <3>1, <3>2, LenProperties
  <2>5. freeVars' = freeVars \cup Uses(heap[a].vals)
    BY <1>3, <2>1 DEF Collect
  <2>6. freeVars' \subseteq Ident /\ IsFiniteSet(freeVars')
    BY <2>4, <2>5, UsesType, FS_Union DEF WalkInv
  <2>7. PICK s : s = [i \in 1..n |-> ScopeTasks(a, i)]
    OBVIOUS
  <2>8. s \in Seq(Seq(R))
    <3>1. \A i \in 1..n : ScopeTasks(a, i) \in Seq(R)
      BY <2>2, <2>3, ScopeTasksType
    <3>. HIDE DEF R
    <3>. QED  BY <2>4, <2>7, <3>1
  <2>9. walk' = Front(walk) \o FlattenSeq(s)
    BY <1>3, <2>1, <2>3, <2>7 DEF Collect
  <2>10. FlattenSeq(s) \in Seq(R)
    <3>. HIDE DEF R
    <3>. QED  BY <2>8, FlattenPlaces
  <2>. QED  BY <1>2, <2>6, <2>9, <2>10
<1>4. CASE EraseNames
  <2>1. freeVars' \subseteq freeVars /\ walk' = Front(walk)
    BY <1>4 DEF EraseNames
  <2>. QED  BY <1>2, <2>1, FS_Subset DEF WalkInv
<1>. QED  BY <1>3, <1>4 DEF Walk

-----------------------------------------------------------------------------
(***************************************************************************)
(* The invariant.                                                          *)
(***************************************************************************)
TypeInv ==
    /\ IsTerm(input) /\ Len(input) <= Len(heap)
    /\ Shaped(heap) /\ Ranked(heap) /\ freed \subseteq 1..Len(heap)
    /\ worklist \in Seq(TaskRec)
    /\ counter \in Nat
    /\ status \in {"run", "walk", "done"}
    /\ status = "walk" => /\ worklist # <<>> /\ Task.kind = "node"
                          /\ heap[Task.exp].tag = "Fun"
    /\ WalkInv

OwnInv ==
    /\ Owned(heap, freed, root)
    /\ \E V : Seen(heap, freed, root, worklist, V) /\ Original(input, heap, freed, V)

\* A finished term is a tree.
LEMMA TermOwned ==
  ASSUME NEW h, IsTerm(h)
  PROVE  Shaped(h) /\ Owned(h, {}, Len(h)) /\ Len(h) \in 1..Len(h)
<1>1. PICK n : n = Len(h)
  OBVIOUS
<1>2. n \in Nat \ {0} /\ h \in Seq(HeapNode)
  BY <1>1, EmptySeq DEF IsTerm
<1>3. ASSUME NEW a \in 1..n
      PROVE  /\ IsNode(h[a]) /\ a \in Nat
             /\ \A i \in 1..Len(h[a].kids) : h[a].kids[i] \in 1..n /\ h[a].kids[i] # n
  <2>1. IsNode(h[a]) /\ \A i \in 1..Len(h[a].kids) : h[a].kids[i] \in 1..(a - 1)
    BY <1>1 DEF IsTerm
  <2>2. \A x \in 1..(a - 1) : x \in 1..n /\ x # n
    BY <1>2
  <2>. QED  BY <2>1, <2>2
<1>4. Shaped(h)
  BY <1>1, <1>2, <1>3 DEF Shaped
<1>5. \A o, i : IsLink(h, {}, o, i) <=>
         IF o = Null THEN i = 1 ELSE o \in 1..n /\ i \in 1..Len(h[o].kids)
  BY <1>1 DEF IsLink, Live
<1>6. \A x : x \in Live(h, {}) <=> x \in 1..n
  BY <1>1 DEF Live
<1>7. \A o, i \in Nat : IsLink(h, {}, o, i) => To(h, n, o, i) \in Live(h, {})
  BY <1>2, <1>3, <1>5, <1>6 DEF To
<1>8. \A b \in Live(h, {}) : \E o, i \in Nat : IsLink(h, {}, o, i) /\ To(h, n, o, i) = b
  <2>. SUFFICES ASSUME NEW b \in 1..n
                PROVE  \E o, i \in Nat : IsLink(h, {}, o, i) /\ To(h, n, o, i) = b
    BY <1>6
  <2>1. CASE b = n
    <3>1. IsLink(h, {}, Null, 1) /\ To(h, n, Null, 1) = n /\ Null \in Nat
      BY <1>5 DEF To, Null
    <3>. QED  BY <2>1, <3>1
  <2>2. CASE b # n
    <3>1. b \in 1..(n - 1)
      BY <1>2, <2>2
    <3>2. PICK a \in 1..n : \E i \in 1..Len(h[a].kids) : h[a].kids[i] = b
      BY <1>1, <3>1 DEF IsTerm
    <3>3. PICK i \in 1..Len(h[a].kids) : h[a].kids[i] = b
      BY <3>2
    <3>4. a # Null /\ IsLink(h, {}, a, i)
      BY <1>5, <3>3 DEF Null
    <3>5. To(h, n, a, i) = b
      BY <3>3, <3>4 DEF To
    <3>6. a \in Nat /\ i \in Nat
      BY <1>4, <3>4, LinkNat
    <3>. QED  BY <3>4, <3>5, <3>6
  <2>. QED  BY <2>1, <2>2
<1>9. \A o, i, p, j \in Nat :
          IsLink(h, {}, o, i) /\ IsLink(h, {}, p, j) /\ To(h, n, o, i) = To(h, n, p, j)
             => o = p /\ i = j
  <2>. SUFFICES ASSUME NEW o \in Nat, NEW i \in Nat, NEW p \in Nat, NEW j \in Nat,
                       IsLink(h, {}, o, i), IsLink(h, {}, p, j), To(h, n, o, i) = To(h, n, p, j)
                PROVE  o = p /\ i = j
    OBVIOUS
  <2>1. CASE o = Null
    BY <1>3, <1>5, <2>1 DEF To
  <2>2. CASE p = Null
    BY <1>3, <1>5, <2>2 DEF To
  <2>3. CASE o # Null /\ p # Null
    <3>1. o \in 1..n /\ i \in 1..Len(h[o].kids) /\ p \in 1..n /\ j \in 1..Len(h[p].kids)
      BY <1>5, <2>3
    <3>2. h[o].kids[i] = h[p].kids[j]
      BY <2>3 DEF To
    <3>. QED  BY <1>1, <3>1, <3>2 DEF IsTerm
  <2>. QED  BY <2>1, <2>2, <2>3
<1>10. Owned(h, {}, n)
  BY <1>7, <1>8, <1>9 DEF Owned
<1>11. n \in 1..n
  BY <1>2
<1>. QED  BY <1>1, <1>4, <1>10, <1>11

\* In a finished term a node comes after its children.
LEMMA TermRanked ==
  ASSUME NEW h, IsTerm(h)
  PROVE  Ranked(h)
<1>1. Shaped(h)
  BY TermOwned
<1>2. PICK B \in Nat : B = Len(h)
  BY <1>1, LenProperties DEF Shaped
<1>3. PICK rank : rank = [a \in 1..B |-> a]
  OBVIOUS
<1>4. \A a \in 1..B : \A i \in 1..Len(h[a].kids) : h[a].kids[i] \in 1..(a - 1)
  BY <1>2 DEF IsTerm
<1>5. \A a \in 1..B : \A k \in 1..(a - 1) : k \in 1..B /\ k < a
  OBVIOUS
<1>6. rank \in [1..B -> 0..B]
  BY <1>3
<1>7. Ranks(h, B, rank)
  BY <1>2, <1>3, <1>4, <1>5, <1>6 DEF Ranks
<1>. QED  BY <1>2, <1>6, <1>7 DEF Ranked

\* Initially only the root has a task, and nothing was visited.
LEMMA InitInv == Init => TypeInv /\ OwnInv
<1>. SUFFICES ASSUME Init PROVE TypeInv /\ OwnInv
  OBVIOUS
<1>1. IsTerm(heap) /\ heap = input /\ freed = {} /\ root = Len(heap)
  BY InputsAssumption DEF Init
<1>2. Shaped(heap) /\ Owned(heap, freed, root) /\ Len(heap) \in 1..Len(heap) /\ Len(heap) \in Nat
  <2>1. Shaped(heap) /\ Owned(heap, {}, Len(heap)) /\ Len(heap) \in 1..Len(heap)
    BY <1>1, TermOwned
  <2>2. Len(heap) \in Nat
    BY <2>1, LenProperties DEF Shaped
  <2>. QED  BY <1>1, <2>1, <2>2
<1>3. PICK t : t = NodeTask(RootLink, Len(heap))
  OBVIOUS
<1>4. t \in TaskRec /\ t.kind = "node" /\ t.exp = Len(heap) /\ t.link.owner = Null /\ t.link.kid = 1
  <2>1. Null \in Nat /\ 1 \in Nat
    BY DEF Null
  <2>. QED  BY <1>2, <1>3, <2>1 DEF NodeTask, RootLink, Link, TaskRec, LinkRec
<1>5. worklist = <<t>> /\ counter = 0 /\ status = "run" /\ freeVars = {} /\ walk = <<>>
  BY <1>1, <1>3 DEF Init
<1>6. Len(worklist) = 1 /\ worklist[1] = t /\ worklist \in Seq(TaskRec)
  BY <1>4, <1>5
<1>7. WalkInv
  BY <1>5, FS_EmptySet DEF WalkInv
<1>8. TypeInv
  BY <1>1, <1>2, <1>5, <1>6, <1>7, TermRanked DEF TypeInv
<1>9. TaskOK(heap, freed, root, {}, t)
  <2>1. IsLink(heap, freed, Null, 1) /\ To(heap, root, Null, 1) = Len(heap)
    BY <1>1 DEF IsLink, To
  <2>. QED  BY <1>4, <2>1 DEF TaskOK
<1>10. Seen(heap, freed, root, worklist, {})
  <2>1. \A x \in 1..1 : x = 1
    OBVIOUS
  <2>. QED  BY <1>4, <1>6, <1>9, <2>1 DEF Seen
<1>11. Original(input, heap, freed, {})
  BY <1>1 DEF Original, Live
<1>. QED  BY <1>2, <1>8, <1>10, <1>11 DEF OwnInv

-----------------------------------------------------------------------------
(***************************************************************************)
(* The visitors.                                                           *)
(***************************************************************************)
\* The node of the task on top is not visited, and no link in a node that
\* is not visited leads to it or to a visited one.
LEMMA TopUnseen ==
  ASSUME NEW h, NEW fr, NEW r, NEW w, NEW V, NEW n \in Nat \ {0}, NEW a,
         Shaped(h), Owned(h, fr, r), Seen(h, fr, r, w, V),
         n = Len(w), w[n].kind = "node", w[n].exp = a
  PROVE  /\ a \in Live(h, fr) /\ a \in 1..Len(h) /\ a \notin V /\ V \subseteq 1..Len(h)
         /\ \A b \in Live(h, fr) : b \notin V =>
               \A i \in 1..Len(h[b].kids) : h[b].kids[i] \notin V /\ h[b].kids[i] # a
<1>1. n \in 1..n
  OBVIOUS
<1>2. TaskOK(h, fr, r, V, w[n])
  BY <1>1 DEF Seen
<1>3. PICK o, i : o = w[n].link.owner /\ i = w[n].link.kid
  OBVIOUS
<1>4. IsLink(h, fr, o, i) /\ To(h, r, o, i) = a /\ o \in V \cup {Null} /\ a \notin V
  BY <1>2, <1>3 DEF TaskOK
<1>5. o \in Nat /\ i \in Nat
  BY <1>4, LinkNat
<1>6. a \in Live(h, fr) /\ a \in 1..Len(h)
  BY <1>4, <1>5 DEF Owned, Live
<1>7. ASSUME NEW b \in Live(h, fr), b \notin V, NEW j \in 1..Len(h[b].kids)
      PROVE  h[b].kids[j] \notin V /\ h[b].kids[j] # a
  <2>1. h[b].kids[j] \notin V
    BY <1>7 DEF Seen
  <2>2. b # Null
    BY LenProperties DEF Live, Null, Shaped
  <2>3. IsLink(h, fr, b, j) /\ To(h, r, b, j) = h[b].kids[j]
    BY <1>7, <2>2 DEF IsLink, To
  <2>4. h[b].kids[j] = a => b = o
    BY <1>4, <2>3, LinkInjective
  <2>. QED  BY <1>4, <1>7, <2>1, <2>2, <2>4
<1>. QED  BY <1>4, <1>6, <1>7 DEF Seen

\* The tasks for the children of a node.
LEMMA KidTasksType ==
  ASSUME NEW h, Shaped(h), NEW a \in 1..Len(h)
  PROVE  /\ KidTasks(h, a) \in Seq(TaskRec) /\ Len(KidTasks(h, a)) = Len(h[a].kids)
         /\ Len(h[a].kids) \in Nat
         /\ \A i \in 1..Len(h[a].kids) :
               /\ KidTasks(h, a)[i].kind = "node" /\ KidTasks(h, a)[i].exp = h[a].kids[i]
               /\ KidTasks(h, a)[i].link.owner = a /\ KidTasks(h, a)[i].link.kid = i
<1>1. PICK K : K = Len(h[a].kids)
  OBVIOUS
<1>2. K \in Nat /\ a \in Nat /\ \A i \in 1..K : h[a].kids[i] \in Nat
  <2>1. Len(h) \in Nat /\ a \in Nat /\ Len(h[a].kids) \in {0, 1, 2}
        /\ \A i \in 1..Len(h[a].kids) : h[a].kids[i] \in 1..Len(h)
    BY NodeOf
  <2>. QED  BY <1>1, <2>1
<1>3. \A i \in 1..K : NodeTask(Link(a, i), h[a].kids[i]) \in TaskRec
  BY <1>2 DEF NodeTask, Link, TaskRec, LinkRec
<1>4. PICK q : q = [i \in 1..K |-> NodeTask(Link(a, i), h[a].kids[i])]
  OBVIOUS
<1>5. q \in Seq(TaskRec) /\ Len(q) = K
  BY <1>2, <1>3, <1>4
<1>6. \A i \in 1..K : /\ q[i].kind = "node" /\ q[i].exp = h[a].kids[i]
                      /\ q[i].link.owner = a /\ q[i].link.kid = i
  BY <1>4 DEF NodeTask, Link
<1>7. KidTasks(h, a) = q
  BY <1>1, <1>4 DEF KidTasks
<1>. QED  BY <1>1, <1>2, <1>5, <1>6, <1>7

\* A heap with the same children.
LEMMA SameKids ==
  ASSUME NEW h, NEW h2, NEW fr, NEW r, Shaped(h), Owned(h, fr, r), Len(h2) = Len(h),
         \A b \in 1..Len(h) : h2[b].kids = h[b].kids
  PROVE  Owned(h2, fr, r)
<1>1. \A x : x \in Live(h2, fr) <=> x \in Live(h, fr)
  BY DEF Live
<1>2. \A o, i : IsLink(h2, fr, o, i) <=> IsLink(h, fr, o, i)
  <2>. SUFFICES ASSUME NEW o, NEW i PROVE IsLink(h2, fr, o, i) <=> IsLink(h, fr, o, i)
    OBVIOUS
  <2>1. o \in Live(h, fr) => h2[o].kids = h[o].kids
    BY DEF Live
  <2>. QED  BY <1>1, <2>1 DEF IsLink
<1>3. \A o, i : IsLink(h, fr, o, i) => To(h2, r, o, i) = To(h, r, o, i)
  <2>. SUFFICES ASSUME NEW o, NEW i, IsLink(h, fr, o, i) PROVE To(h2, r, o, i) = To(h, r, o, i)
    OBVIOUS
  <2>1. o # Null => o \in 1..Len(h)
    BY DEF IsLink, Live
  <2>. QED  BY <2>1 DEF To
<1>4. /\ \A o, i \in Nat : IsLink(h, fr, o, i) => To(h, r, o, i) \in Live(h, fr)
      /\ \A b \in Live(h, fr) : \E o, i \in Nat : IsLink(h, fr, o, i) /\ To(h, r, o, i) = b
      /\ \A o, i, p, j \in Nat :
            IsLink(h, fr, o, i) /\ IsLink(h, fr, p, j) /\ To(h, r, o, i) = To(h, r, p, j)
               => o = p /\ i = j
  BY DEF Owned
<1>5. \A o, i \in Nat : IsLink(h2, fr, o, i) => To(h2, r, o, i) \in Live(h2, fr)
  BY ONLY <1>1, <1>2, <1>3, <1>4
<1>6. \A b \in Live(h2, fr) : \E o, i \in Nat : IsLink(h2, fr, o, i) /\ To(h2, r, o, i) = b
  <2>. SUFFICES ASSUME NEW b \in Live(h2, fr)
                PROVE  \E o, i \in Nat : IsLink(h2, fr, o, i) /\ To(h2, r, o, i) = b
    OBVIOUS
  <2>1. PICK o \in Nat, i \in Nat : IsLink(h, fr, o, i) /\ To(h, r, o, i) = b
    BY <1>1, <1>4
  <2>. QED  BY <1>2, <1>3, <2>1
<1>7. \A o, i, p, j \in Nat :
         IsLink(h2, fr, o, i) /\ IsLink(h2, fr, p, j) /\ To(h2, r, o, i) = To(h2, r, p, j)
            => o = p /\ i = j
  <2>. SUFFICES ASSUME NEW o \in Nat, NEW i \in Nat, NEW p \in Nat, NEW j \in Nat,
                       IsLink(h2, fr, o, i), IsLink(h2, fr, p, j),
                       To(h2, r, o, i) = To(h2, r, p, j)
                PROVE  o = p /\ i = j
    OBVIOUS
  <2>1. IsLink(h, fr, o, i) /\ IsLink(h, fr, p, j)
    BY <1>2
  <2>2. To(h, r, o, i) = To(h, r, p, j)
    BY <1>3, <2>1
  <2>. QED  BY <1>4, <2>1, <2>2
<1>. QED  BY <1>5, <1>6, <1>7 DEF Owned

\* A node was visited, and tasks for its children are on the stack.
LEMMA KidsPushed ==
  ASSUME NEW h, NEW h2, NEW w \in Seq(TaskRec), w # <<>>, NEW a, Shaped(h2), a \in 1..Len(h2),
         Last(w).kind = "node", Last(w).exp = a
  PROVE  /\ Front(w) \o KidTasks(h2, a) \in Seq(TaskRec)
         /\ Visiting(h, h2, w, Front(w) \o KidTasks(h2, a), a, Last(w).link, 0)
<1>1. PICK q, w2 : q = KidTasks(h2, a) /\ w2 = Front(w) \o q
  OBVIOUS
<1>2. PICK K : K = Len(h2[a].kids)
  OBVIOUS
<1>3. /\ q \in Seq(TaskRec) /\ Len(q) = K /\ K \in Nat
      /\ \A i \in 1..K : /\ q[i].kind = "node" /\ q[i].exp = h2[a].kids[i]
                         /\ q[i].link.owner = a /\ q[i].link.kid = i
  BY <1>1, <1>2, KidTasksType
<1>4. PICK n : n = Len(w) - 1
  OBVIOUS
<1>5. n \in Nat /\ Len(w) = n + 1 /\ w[n + 1] = Last(w)
  <2>1. Len(w) \in Nat \ {0} /\ Last(w) = w[Len(w)]
    BY Pop
  <2>2. PICK L : L = Len(w)
    OBVIOUS
  <2>3. L \in Nat \ {0} /\ n = L - 1 /\ Last(w) = w[L]
    BY <1>4, <2>1, <2>2
  <2>4. n \in Nat /\ L = n + 1
    BY <2>3
  <2>. QED  BY <2>2, <2>3, <2>4
<1>6. /\ w2 \in Seq(TaskRec) /\ Len(w2) = n + K
      /\ \A i \in 1..n : w2[i] = w[i]
      /\ \A i \in 1..K : w2[n + i] = q[i]
  <2>1. /\ Front(w) \o q \in Seq(TaskRec)
        /\ Len(Front(w) \o q) = Len(w) - 1 + Len(q)
        /\ \A i \in 1..(Len(w) - 1) : (Front(w) \o q)[i] = w[i]
        /\ \A i \in 1..Len(q) : (Front(w) \o q)[Len(w) - 1 + i] = q[i]
    <3>1. q \in Seq(TaskRec) /\ w \in Seq(TaskRec) /\ w # <<>>
      BY <1>3
    <3>. QED  BY ONLY <3>1, Replace
  <2>2. Len(w) - 1 = n /\ Len(q) = K
    BY <1>3, <1>4
  <2>. QED  BY ONLY <1>1, <2>1, <2>2
<1>7. \A i \in 1..K : w2[n + 0 + i] = q[i]
  BY <1>5, <1>6
<1>8. Len(w2) = n + 0 + K /\ Len(w) \in Nat \ {0}
  BY <1>3, <1>5, <1>6
<1>9. Visiting(h, h2, w, w2, a, Last(w).link, 0)
  <2>1. w[n + 1].kind = "node" /\ w[n + 1].exp = a /\ w[n + 1].link = Last(w).link
    BY <1>5
  <2>2. \A i \in 1..K : /\ w2[n + 0 + i].kind = "node" /\ w2[n + 0 + i].exp = h2[a].kids[i]
                        /\ w2[n + 0 + i].link.owner = a /\ w2[n + 0 + i].link.kid = i
    BY ONLY <1>3, <1>7
  <2>. QED  BY ONLY <1>2, <1>3, <1>4, <1>6, <1>8, <2>1, <2>2 DEF Visiting
<1>. QED  BY <1>1, <1>6, <1>9

\* What the invariant says of the task on top.
LEMMA TopTask ==
  ASSUME TypeInv, OwnInv, worklist # <<>>
  PROVE  /\ worklist \in Seq(TaskRec) /\ Task \in TaskRec /\ Task = worklist[Len(worklist)]
         /\ Len(worklist) \in Nat \ {0}
         /\ Task.exp \in 1..Len(heap) /\ heap[Task.exp] \in HeapNode /\ IsNode(heap[Task.exp])
<1>1. /\ worklist \in Seq(TaskRec) /\ Task \in TaskRec /\ Task = worklist[Len(worklist)]
      /\ Len(worklist) \in Nat \ {0}
  BY Pop DEF TypeInv, Task
<1>2. PICK V : Seen(heap, freed, root, worklist, V)
  BY DEF OwnInv
<1>3. Len(worklist) \in 1..Len(worklist)
  BY <1>1
<1>4. TaskOK(heap, freed, root, V, Task)
  BY <1>1, <1>2, <1>3 DEF Seen
<1>5. Task.exp \in 1..Len(heap)
  <2>1. /\ IsLink(heap, freed, Task.link.owner, Task.link.kid)
        /\ To(heap, root, Task.link.owner, Task.link.kid) = Task.exp
    BY <1>4 DEF TaskOK
  <2>2. Task.link.owner \in Nat /\ Task.link.kid \in Nat
    BY <2>1, LinkNat DEF TypeInv
  <2>. QED  BY <2>1, <2>2 DEF OwnInv, Owned, Live
<1>. QED  BY <1>1, <1>5 DEF TypeInv, Shaped, IsNode

\* Nodes that are left as they are.
LEMMA VisitOtherInv ==
  ASSUME TypeInv, OwnInv, VisitOther
  PROVE  /\ TypeInv' /\ OwnInv'
         /\ Visiting(heap, heap', worklist, worklist', Task.exp, Last(worklist).link, 0)
<1>1. /\ status = "run" /\ worklist # <<>> /\ Task.kind = "node"
      /\ worklist' = Front(worklist) \o KidTasks(heap, Task.exp)
      /\ heap' = heap /\ freed' = freed /\ root' = root /\ counter' = counter /\ status' = status
      /\ input' = input
      /\ freeVars' = freeVars /\ walk' = walk
  BY DEF VisitOther, Visits, walkVars
<1>2. PICK a, w2, l, W0 : a = Task.exp /\ w2 = worklist' /\ l = Last(worklist).link /\ W0 = worklist
  OBVIOUS
<1>3. a \in 1..Len(heap) /\ Shaped(heap) /\ Owned(heap, freed, root) /\ Len(heap) \in Nat
  BY <1>1, <1>2, TopTask, LenProperties DEF TypeInv, OwnInv, Shaped
<1>4. w2 \in Seq(TaskRec) /\ Visiting(heap, heap, worklist, w2, a, l, 0)
  <2>1. worklist \in Seq(TaskRec) /\ Last(worklist).kind = "node" /\ Last(worklist).exp = a
    BY <1>1, <1>2 DEF TypeInv, Task
  <2>2. w2 = Front(worklist) \o KidTasks(heap, a)
    BY <1>1, <1>2
  <2>. QED  BY <1>1, <1>2, <1>3, <2>1, <2>2, KidsPushed
<1>5. PICK V : Seen(heap, freed, root, worklist, V) /\ Original(input, heap, freed, V)
  BY DEF OwnInv
<1>6. PICK W : W = V \cup {a}
  OBVIOUS
<1>7. \A b \in Live(heap, freed) : b \notin V =>
         \A i \in 1..Len(heap[b].kids) : heap[b].kids[i] \notin W
  <2>1. PICK n \in Nat \ {0} : n = Len(worklist)
    BY <1>1, TopTask
  <2>2. worklist[n].kind = "node" /\ worklist[n].exp = a
    BY <1>1, <1>2, <2>1, TopTask
  <2>3. \A b \in Live(heap, freed) : b \notin V =>
           \A i \in 1..Len(heap[b].kids) : heap[b].kids[i] \notin V /\ heap[b].kids[i] # a
    BY <1>3, <1>5, <2>1, <2>2, TopUnseen
  <2>. QED  BY <1>6, <2>3
<1>8. Seen(heap, freed, root, w2, W)
  <2>1. \A x : x \in W <=> x \in V \/ x = a
    BY <1>6
  <2>2. Len(heap) <= Len(heap)
    BY <1>3
  <2>. QED  BY ONLY <1>3, <1>4, <1>5, <1>7, <2>1, <2>2, VisitingSeen
<1>9. OwnInv'
  <2>1. Original(input, heap, freed, W)
    BY <1>5, <1>6, OriginalKept
  <2>. QED  BY <1>1, <1>2, <1>3, <1>8, <2>1 DEF OwnInv
<1>10. TypeInv'
  <2>1. WalkInv'
    BY <1>1 DEF TypeInv, WalkInv
  <2>2. worklist' \in Seq(TaskRec)
    BY <1>2, <1>4
  <2>. QED  BY <1>1, <2>1, <2>2 DEF TypeInv
<1>. QED  BY <1>1, <1>2, <1>4, <1>9, <1>10

\* An AppExp was visited, and its closure is on the stack, too.
PushesCall(h, h2, w, w2, a, c) ==
    /\ w \in Seq(TaskRec) /\ w # <<>> /\ Last(w).kind = "node" /\ Last(w).exp = a
    /\ Shaped(h) /\ a \in 1..Len(h) /\ h[a].tag = "App" /\ h2[a].kids = h[a].kids
    /\ c \in TaskRec /\ c.kind = "call" /\ c.link = Last(w).link /\ c.exp = a
    /\ w2 = Front(w) \o <<c>> \o KidTasks(h, a)

LEMMA CallPushed ==
  ASSUME NEW h, NEW h2, NEW w, NEW w2, NEW a, NEW c, PushesCall(h, h2, w, w2, a, c)
  PROVE  /\ w2 \in Seq(TaskRec)
         /\ Visiting(h, h2, w, w2, a, Last(w).link, 1)
         /\ w2[Len(w)] = c
<1>0. /\ w \in Seq(TaskRec) /\ w # <<>> /\ Last(w).kind = "node" /\ Last(w).exp = a
      /\ Shaped(h) /\ a \in 1..Len(h) /\ h[a].tag = "App" /\ h2[a].kids = h[a].kids
      /\ c \in TaskRec /\ c.kind = "call" /\ c.link = Last(w).link /\ c.exp = a
  BY DEF PushesCall
<1>1. PICK q, g : q = KidTasks(h, a) /\ g = Front(w) \o <<c>> /\ w2 = g \o q
  BY DEF PushesCall
<1>2. PICK K : K = Len(h2[a].kids)
  OBVIOUS
<1>3. /\ q \in Seq(TaskRec) /\ Len(q) = K /\ K \in Nat
      /\ \A i \in 1..K : /\ q[i].kind = "node" /\ q[i].exp = h2[a].kids[i]
                         /\ q[i].link.owner = a /\ q[i].link.kid = i
  <2>1. /\ KidTasks(h, a) \in Seq(TaskRec) /\ Len(KidTasks(h, a)) = Len(h[a].kids)
        /\ Len(h[a].kids) \in Nat
        /\ \A i \in 1..Len(h[a].kids) :
               /\ KidTasks(h, a)[i].kind = "node" /\ KidTasks(h, a)[i].exp = h[a].kids[i]
               /\ KidTasks(h, a)[i].link.owner = a /\ KidTasks(h, a)[i].link.kid = i
    BY ONLY <1>0, KidTasksType
  <2>2. h2[a].kids = h[a].kids
    BY ONLY <1>0
  <2>. QED  BY ONLY <1>1, <1>2, <2>1, <2>2
<1>4. PICK n \in Nat : /\ n = Len(w) - 1 /\ Len(w) = n + 1 /\ w[n + 1] = Last(w)
                       /\ Len(w) \in Nat \ {0}
  <2>1. Len(w) \in Nat \ {0} /\ Last(w) = w[Len(w)]
    BY <1>0, Pop
  <2>2. PICK L : L = Len(w)
    OBVIOUS
  <2>3. L \in Nat \ {0} /\ Last(w) = w[L]
    BY <2>1, <2>2
  <2>4. L - 1 \in Nat /\ L = (L - 1) + 1
    BY <2>3
  <2>. QED  BY <2>2, <2>3, <2>4
<1>5. /\ g \in Seq(TaskRec) /\ Len(g) = n + 1 /\ g[n + 1] = c
      /\ \A i \in 1..n : g[i] = w[i]
  <2>1. PICK s : s = <<c>>
    OBVIOUS
  <2>2. s \in Seq(TaskRec) /\ Len(s) = 1 /\ s[1] = c
    BY <1>0, <2>1
  <2>3. w \in Seq(TaskRec) /\ w # <<>> /\ s \in Seq(TaskRec)
    BY <1>0, <2>2
  <2>4. /\ Front(w) \o s \in Seq(TaskRec)
        /\ Len(Front(w) \o s) = Len(w) - 1 + Len(s)
        /\ \A i \in 1..(Len(w) - 1) : (Front(w) \o s)[i] = w[i]
        /\ \A i \in 1..Len(s) : (Front(w) \o s)[Len(w) - 1 + i] = s[i]
    BY ONLY <2>3, Replace, SMTT(60)
  <2>5. g = Front(w) \o s
    BY <1>1, <2>1
  <2>6. /\ g \in Seq(TaskRec) /\ Len(g) = Len(w) - 1 + Len(s)
        /\ \A i \in 1..(Len(w) - 1) : g[i] = w[i]
        /\ \A i \in 1..Len(s) : g[Len(w) - 1 + i] = s[i]
    BY ONLY <2>4, <2>5
  <2>7. n = Len(w) - 1 /\ 1 \in 1..Len(s)
    BY <1>4, <2>2
  <2>8. /\ Len(g) = n + Len(s) /\ \A i \in 1..n : g[i] = w[i]
        /\ g[n + 1] = s[1]
    BY ONLY <2>6, <2>7
  <2>. QED  BY <2>2, <2>6, <2>8
<1>6. /\ w2 \in Seq(TaskRec) /\ Len(w2) = n + 1 + K
      /\ \A i \in 1..n : w2[i] = w[i]
      /\ w2[n + 1] = c
      /\ \A i \in 1..K : w2[n + 1 + i] = q[i]
  <2>1. /\ w2 \in Seq(TaskRec) /\ Len(w2) = n + 1 + K
        /\ \A i \in 1..(n + 1 + K) : w2[i] = IF i <= n + 1 THEN g[i] ELSE q[i - (n + 1)]
    <3>1. w2 = g \o q
      BY <1>1
    <3>2. g \in Seq(TaskRec) /\ q \in Seq(TaskRec) /\ Len(g) = n + 1 /\ Len(q) = K
      BY <1>3, <1>5
    <3>3. /\ g \o q \in Seq(TaskRec) /\ Len(g \o q) = Len(g) + Len(q)
          /\ \A i \in 1..(Len(g) + Len(q)) : (g \o q)[i] = IF i <= Len(g) THEN g[i] ELSE q[i - Len(g)]
      BY ONLY <3>2, ConcatProperties
    <3>. QED  BY ONLY <3>1, <3>2, <3>3
  <2>2. \A i \in 1..n : i \in 1..(n + 1 + K) /\ i <= n + 1
    BY <1>3
  <2>3. n + 1 \in 1..(n + 1 + K) /\ n + 1 <= n + 1
    BY <1>3
  <2>4. \A i \in 1..K : /\ n + 1 + i \in 1..(n + 1 + K) /\ ~(n + 1 + i <= n + 1)
                        /\ (n + 1 + i) - (n + 1) = i
    BY <1>3
  <2>. QED  BY <1>5, <2>1, <2>2, <2>3, <2>4
<1>7. Visiting(h, h2, w, w2, a, Last(w).link, 1)
  <2>1. w[n + 1].kind = "node" /\ w[n + 1].exp = a /\ w[n + 1].link = Last(w).link
    BY <1>0, <1>4
  <2>2. \A i \in 1..K : /\ w2[n + 1 + i].kind = "node" /\ w2[n + 1 + i].exp = h2[a].kids[i]
                        /\ w2[n + 1 + i].link.owner = a /\ w2[n + 1 + i].link.kid = i
    BY ONLY <1>3, <1>6
  <2>3. w2[n + 1].kind = "call" /\ w2[n + 1].link = Last(w).link /\ w2[n + 1].exp = a /\ h[a].tag = "App"
    BY <1>0, <1>6
  <2>. QED  BY ONLY <1>2, <1>3, <1>4, <1>6, <2>1, <2>2, <2>3 DEF Visiting
<1>8. w2[Len(w)] = c
  BY <1>4, <1>6
<1>. QED  BY <1>1, <1>6, <1>7, <1>8

\* An AppExp.
LEMMA VisitAppInv ==
  ASSUME TypeInv, OwnInv, VisitApp
  PROVE  /\ TypeInv' /\ OwnInv'
         /\ Len(heap') = Len(heap)
         /\ \A b \in 1..Len(heap) : SameBinders(heap, heap', b) /\ heap'[b].kids = heap[b].kids
         /\ Visiting(heap, heap', worklist, worklist', Task.exp, Last(worklist).link, 1)
         /\ worklist'[Len(worklist)].proj = ProjName(counter)
<1>1. /\ status = "run" /\ worklist # <<>> /\ Task.kind = "node" /\ heap[Task.exp].tag = "App"
      /\ freed' = freed /\ root' = root /\ counter' = counter + 1 /\ status' = status
      /\ freeVars' = freeVars /\ walk' = walk /\ input' = input
  BY DEF VisitApp, Visits, walkVars
<1>2. PICK a, w2, l : a = Task.exp /\ w2 = worklist' /\ l = Last(worklist).link
  OBVIOUS
<1>3. /\ a \in 1..Len(heap) /\ Shaped(heap) /\ Owned(heap, freed, root) /\ Len(heap) \in Nat
      /\ IsNode(heap[a]) /\ heap[a].tag = "App" /\ Task \in TaskRec /\ worklist \in Seq(TaskRec)
      /\ Last(worklist).kind = "node" /\ Last(worklist).exp = a
  BY <1>1, <1>2, TopTask, LenProperties DEF TypeInv, OwnInv, Shaped, Task
<1>4. PICK vs, p, h2 : /\ vs = <<heap[a].vals[1]>>
                       /\ p = [heap[a] EXCEPT !.vals = vs]
                       /\ h2 = [heap EXCEPT ![a] = p]
  OBVIOUS
<1>5. /\ heap[a].vals \in Seq(Value) /\ heap[a].vals # <<>> /\ heap[a].vals[1].kind = "var"
      /\ heap[a].vals[1] \in Value
  <2>1. heap[a].vals \in Seq(Value) /\ heap[a].vals # <<>> /\ heap[a].vals[1].kind = "var"
    BY <1>3 DEF IsNode, HeapNode
  <2>2. heap[a].vals[1] \in Value
    BY <2>1, EmptySeq, ElementOfSeq
  <2>. QED  BY <2>1, <2>2
<1>6. vs \in Seq(Value) /\ vs # <<>> /\ vs[1].kind = "var"
  BY <1>4, <1>5
<1>7. /\ p \in HeapNode /\ IsNode(p) /\ p.kids = heap[a].kids /\ p.tag = heap[a].tag
      /\ p.name = heap[a].name /\ p.params = heap[a].params
  BY <1>3, <1>4, <1>6, MovedNode
<1>8. heap' = h2
  <2>1. heap' = [heap EXCEPT ![a].vals = <<heap[a].vals[1]>>]
    BY <1>2, Zenon DEF VisitApp
  <2>. QED  BY <1>4, <2>1, Zenon
<1>9. /\ h2 \in Seq(HeapNode) /\ Len(h2) = Len(heap) /\ h2[a] = p
      /\ \A b \in 1..Len(heap) : b # a => h2[b] = heap[b]
  <2>1. heap \in Seq(HeapNode)
    BY <1>3 DEF Shaped
  <2>2. h2 = [heap EXCEPT ![a] = p]
    BY <1>4
  <2>. QED  BY ONLY <1>3, <1>7, <2>1, <2>2
<1>10. /\ \A b \in 1..Len(heap) : h2[b].kids = heap[b].kids /\ h2[b].tag = heap[b].tag
       /\ Shaped(h2)
  <2>1. \A b \in 1..Len(heap) : h2[b].kids = heap[b].kids /\ h2[b].tag = heap[b].tag /\ IsNode(h2[b])
    BY <1>3, <1>7, <1>9 DEF Shaped
  <2>. QED  BY <1>3, <1>9, <2>1 DEF Shaped
<1>11. Owned(h2, freed, root)
  BY <1>3, <1>9, <1>10, SameKids
<1>12. /\ w2 \in Seq(TaskRec) /\ Visiting(heap, h2, worklist, w2, a, l, 1)
       /\ w2[Len(worklist)].proj = ProjName(counter)
  <2>1. PICK c : c = CallTask(Task.link, a, ProjName(counter), heap[a].vals)
    OBVIOUS
  <2>2. /\ w2 = Front(worklist) \o <<c>> \o KidTasks(heap, a)
    BY <1>2, <2>1 DEF VisitApp
  <2>3. c \in TaskRec /\ c.kind = "call" /\ c.link = l /\ c.exp = a /\ c.proj = ProjName(counter)
    <3>1. Task.link \in LinkRec /\ Task.link = l
      BY <1>2, <1>3 DEF TaskRec, Task
    <3>2. ProjName(counter) \in Ident /\ a \in Nat
      BY <1>3, MadeNames DEF TypeInv
    <3>. QED  BY <1>5, <2>1, <3>1, <3>2 DEF CallTask, TaskRec
  <2>4. h2[a].kids = heap[a].kids
    BY <1>3, <1>10
  <2>5. worklist \in Seq(TaskRec) /\ worklist # <<>> /\ Last(worklist).link = l
    BY <1>1, <1>2, <1>3
  <2>6. c \in TaskRec /\ c.kind = "call" /\ c.link = Last(worklist).link /\ c.exp = a
    BY <2>3, <2>5
  <2>7. /\ w2 \in Seq(TaskRec) /\ Visiting(heap, h2, worklist, w2, a, Last(worklist).link, 1)
        /\ w2[Len(worklist)] = c
    <3>1. PushesCall(heap, h2, worklist, w2, a, c)
      BY ONLY <1>3, <2>2, <2>4, <2>5, <2>6 DEF PushesCall
    <3>. QED  BY ONLY <3>1, CallPushed
  <2>8. /\ w2 \in Seq(TaskRec) /\ Visiting(heap, h2, worklist, w2, a, l, 1)
        /\ w2[Len(worklist)] = c
    BY ONLY <2>5, <2>7
  <2>. QED  BY <2>3, <2>8
<1>13. PICK V : Seen(heap, freed, root, worklist, V) /\ Original(input, heap, freed, V)
  BY DEF OwnInv
<1>14. PICK W : W = V \cup {a}
  OBVIOUS
<1>15. \A b \in Live(h2, freed) : b \notin V =>
          \A i \in 1..Len(h2[b].kids) : h2[b].kids[i] \notin W
  <2>1. PICK n \in Nat \ {0} : n = Len(worklist)
    BY <1>1, TopTask
  <2>2. worklist[n].kind = "node" /\ worklist[n].exp = a
    BY <1>1, <1>2, <2>1, TopTask
  <2>3. \A b \in Live(heap, freed) : b \notin V =>
           \A i \in 1..Len(heap[b].kids) : heap[b].kids[i] \notin V /\ heap[b].kids[i] # a
    BY <1>3, <1>13, <2>1, <2>2, TopUnseen
  <2>4. \A b \in Live(h2, freed) : b \in Live(heap, freed) /\ h2[b].kids = heap[b].kids
    BY <1>9, <1>10 DEF Live
  <2>. QED  BY <1>14, <2>3, <2>4
<1>16. Seen(h2, freed, root, w2, W)
  <2>1. \A x : x \in W <=> x \in V \/ x = a
    BY <1>14
  <2>2. Len(heap) <= Len(h2)
    BY <1>3, <1>9
  <2>3. /\ \A b \in 1..Len(heap) : b # a => h2[b].kids = heap[b].kids
        /\ \A b \in 1..Len(heap) : h2[b].tag = heap[b].tag
    BY <1>10
  <2>4. Shaped(heap) /\ Shaped(h2) /\ Owned(heap, freed, root) /\ Owned(h2, freed, root)
    BY <1>3, <1>10, <1>11
  <2>5. Visiting(heap, h2, worklist, w2, a, l, 1)
    BY <1>12
  <2>. QED  BY ONLY <2>4, <2>5, <1>13, <1>15, <2>1, <2>2, <2>3, VisitingSeen
<1>17. OwnInv'
  <2>1. Original(input, h2, freed, W)
    <3>1. \A b \in Live(h2, freed) : b \notin W => b \in Live(heap, freed) /\ b \notin V /\ h2[b] = heap[b]
      BY <1>9, <1>14 DEF Live
    <3>. QED  BY <1>13, <3>1, OriginalKept
  <2>. QED  BY <1>1, <1>2, <1>8, <1>11, <1>16, <2>1 DEF OwnInv
<1>18. TypeInv'
  <2>1. WalkInv'
    BY <1>1, <1>8, <1>9 DEF TypeInv, WalkInv
  <2>2. worklist' \in Seq(TaskRec) /\ counter' \in Nat
    BY <1>1, <1>2, <1>12 DEF TypeInv
  <2>3. freed' \subseteq 1..Len(heap')
    BY <1>1, <1>8, <1>9 DEF TypeInv
  <2>4. Ranked(heap') /\ Len(input') <= Len(heap')
    BY <1>1, <1>8, <1>9, <1>10, SameRanked DEF TypeInv
  <2>. QED  BY <1>1, <1>8, <1>10, <2>1, <2>2, <2>3, <2>4 DEF TypeInv
<1>19. \A b \in 1..Len(heap) : SameBinders(heap, h2, b)
  BY <1>7, <1>9 DEF SameBinders
<1>. QED  BY <1>2, <1>8, <1>9, <1>10, <1>12, <1>17, <1>18, <1>19

\* Three sequences in a row.
LEMMA InARow ==
  ASSUME NEW S, NEW p \in Seq(S), NEW q \in Seq(S), NEW e \in S,
         NEW n \in Nat, n = Len(p), NEW k \in Nat, k = Len(q)
  PROVE  /\ p \o q \o <<e>> \in Seq(S) /\ Len(p \o q \o <<e>>) = n + k + 1
         /\ \A b \in 1..n : (p \o q \o <<e>>)[b] = p[b]
         /\ \A i \in 1..k : (p \o q \o <<e>>)[n + i] = q[i]
         /\ (p \o q \o <<e>>)[n + k + 1] = e
<1>1. PICK g, s : g = p \o q /\ s = <<e>>
  OBVIOUS
<1>2. s \in Seq(S) /\ Len(s) = 1 /\ s[1] = e
  BY <1>1
<1>3. /\ g \in Seq(S) /\ Len(g) = n + k
      /\ \A i \in 1..(n + k) : g[i] = IF i <= n THEN p[i] ELSE q[i - n]
  BY <1>1, ConcatProperties
<1>4. /\ g \o s \in Seq(S) /\ Len(g \o s) = n + k + 1
      /\ \A i \in 1..(n + k + 1) : (g \o s)[i] = IF i <= n + k THEN g[i] ELSE s[i - (n + k)]
  <2>1. g \in Seq(S) /\ s \in Seq(S)
    BY <1>2, <1>3
  <2>2. /\ g \o s \in Seq(S) /\ Len(g \o s) = Len(g) + Len(s)
        /\ \A i \in 1..(Len(g) + Len(s)) :
              (g \o s)[i] = IF i <= Len(g) THEN g[i] ELSE s[i - Len(g)]
    BY ONLY <2>1, ConcatProperties
  <2>3. Len(g) = n + k /\ Len(s) = 1
    BY <1>2, <1>3
  <2>. QED  BY ONLY <2>2, <2>3
<1>5. \A b \in 1..n : b \in 1..(n + k) /\ b <= n /\ b \in 1..(n + k + 1) /\ b <= n + k
  OBVIOUS
<1>6. \A i \in 1..k : /\ n + i \in 1..(n + k) /\ ~(n + i <= n) /\ (n + i) - n = i
                      /\ n + i \in 1..(n + k + 1) /\ n + i <= n + k
  OBVIOUS
<1>7. n + k + 1 \in 1..(n + k + 1) /\ ~(n + k + 1 <= n + k) /\ (n + k + 1) - (n + k) = 1
  OBVIOUS
<1>8. PICK t : t = g \o s
  OBVIOUS
<1>9. \A b \in 1..n : t[b] = p[b]
  BY <1>3, <1>4, <1>5, <1>8
<1>10. \A i \in 1..k : t[n + i] = q[i]
  <2>1. \A i \in 1..k : t[n + i] = g[n + i]
    BY ONLY <1>4, <1>6, <1>8
  <2>2. \A i \in 1..k : g[n + i] = q[i]
    BY ONLY <1>3, <1>6
  <2>. QED  BY ONLY <2>1, <2>2
<1>11. t[n + k + 1] = e
  BY <1>2, <1>4, <1>7, <1>8
<1>12. t = p \o q \o <<e>>
  BY <1>1, <1>8
<1>. QED  BY <1>4, <1>8, <1>9, <1>10, <1>11, <1>12

\* The heap that VisitFun makes.
WrappedHeap(h, a, c, xs) ==
    LET n == Len(h)
        body == h[a].kids[1]
        kids == <<IF xs = <<>> THEN body ELSE n + Len(xs), n + Len(xs) + 1>>
    IN  [h EXCEPT ![a].params = <<c>> \o @, ![a].kids = kids]
           \o Projections(n, c, xs, body) \o <<Closure(h[a].name, xs, h[a].kids[2])>>

\* Projections lead to each other, and the first one to the body.
LEMMA ProjectionsType ==
  ASSUME NEW n \in Nat, NEW c \in Ident, NEW xs \in Seq(Ident), NEW body \in Nat
  PROVE  /\ Projections(n, c, xs, body) \in Seq(HeapNode)
         /\ Len(Projections(n, c, xs, body)) = Len(xs)
         /\ \A i \in 1..Len(xs) :
               /\ IsNode(Projections(n, c, xs, body)[i]) /\ Projections(n, c, xs, body)[i].tag = "Proj"
               /\ Projections(n, c, xs, body)[i].kids = <<IF i = 1 THEN body ELSE n + i - 1>>
               /\ Projections(n, c, xs, body)[i].name = xs[i]
<1>1. PICK k \in Nat : k = Len(xs)
  BY LenProperties
<1>2. ASSUME NEW i \in 1..k
      PROVE  /\ xs[i] \in Ident /\ i \in Nat
             /\ (IF i = 1 THEN body ELSE n + i - 1) \in Nat
  BY <1>1, ElementOfSeq
<1>3. PICK q : q = [i \in 1..k |-> ProjExp(xs[i], c, i, IF i = 1 THEN body ELSE n + i - 1)]
  OBVIOUS
<1>4. ASSUME NEW i \in 1..k
      PROVE  /\ q[i] \in HeapNode /\ IsNode(q[i]) /\ q[i].tag = "Proj"
             /\ q[i].kids = <<IF i = 1 THEN body ELSE n + i - 1>> /\ q[i].name = xs[i]
  <2>1. PICK x, b : x = xs[i] /\ b = IF i = 1 THEN body ELSE n + i - 1
    OBVIOUS
  <2>2. x \in Ident /\ i \in Nat /\ b \in Nat
    BY <1>2, <2>1
  <2>3. q[i] = ProjExp(x, c, i, b)
    BY <1>3, <2>1
  <2>4. /\ ProjExp(x, c, i, b) \in HeapNode /\ IsNode(ProjExp(x, c, i, b))
        /\ ProjExp(x, c, i, b).kids = <<b>> /\ ProjExp(x, c, i, b).tag = "Proj"
        /\ ProjExp(x, c, i, b).name = x
    BY <2>2, ProjNode
  <2>. QED  BY <2>1, <2>3, <2>4
<1>5. q \in Seq(HeapNode) /\ Len(q) = k
  <2>1. \A i \in 1..k : q[i] \in HeapNode
    BY <1>4
  <2>2. q = [i \in 1..k |-> q[i]]
    BY <1>3
  <2>3. q \in [1..k -> HeapNode]
    BY <2>1, <2>2
  <2>. QED  BY <1>1, <2>3
<1>6. Projections(n, c, xs, body) = q
  BY <1>1, <1>3 DEF Projections
<1>. QED  BY <1>1, <1>4, <1>5, <1>6

\* The closure leads to the rest.
LEMMA ClosureType ==
  ASSUME NEW f \in Ident, NEW xs \in Seq(Ident), NEW r \in Nat
  PROVE  /\ Closure(f, xs, r) \in HeapNode /\ IsNode(Closure(f, xs, r))
         /\ Closure(f, xs, r).kids = <<r>> /\ Closure(f, xs, r).tag = "Tuple"
         /\ Closure(f, xs, r).name = f
<1>1. PICK k \in Nat : k = Len(xs)
  BY LenProperties
<1>2. PICK us, gs, vs : /\ us = [i \in 1..k |-> VarValue(xs[i])]
                        /\ gs = <<GlobValue(f)>> /\ vs = gs \o us
  OBVIOUS
<1>3. us \in Seq(Value) /\ gs \in Seq(Value)
  <2>1. \A i \in 1..k : VarValue(xs[i]) \in Value
    BY <1>1, ElementOfSeq, MadeValues
  <2>2. GlobValue(f) \in Value
    BY MadeValues
  <2>. QED  BY <1>2, <2>1, <2>2
<1>4. vs \in Seq(Value)
  BY <1>2, <1>3, ConcatProperties
<1>5. Closure(f, xs, r) = TupleExp(f, vs, r)
  BY <1>1, <1>2 DEF Closure
<1>. QED  BY <1>4, <1>5, TupleNode

\* The fields of a node.
LEMMA NodeFields ==
  ASSUME NEW n \in HeapNode
  PROVE  /\ n.name \in Ident /\ n.params \in Seq(Ident) /\ n.vals \in Seq(Value)
         /\ n.kids \in Seq(Nat) /\ n.tag \in AnfTag
BY DEF HeapNode

\* It wraps the node, gives it a parameter more and binds the names.
FunWraps(h, h2, a, c, xs) ==
    LET n == Len(h)
        k == Len(xs)
    IN  /\ Shaped(h2) /\ Wraps(h, h2, a, k)
        /\ \A b \in 1..n : h2[b].tag = h[b].tag
        /\ \A b \in 1..n : b # a => h2[b] = h[b]
        /\ \A b \in 1..Len(h2) : b > n => h2[b].tag \in {"Proj", "Tuple"}
        /\ h2[a].params = <<c>> \o h[a].params
        /\ \A i \in 1..k : h2[n + i].tag = "Proj" /\ h2[n + i].name = xs[i]
        /\ h2[n + k + 1].tag = "Tuple" /\ h2[n + k + 1].name = h[a].name

LEMMA FunWrapped ==
  ASSUME NEW h, Shaped(h), NEW a \in 1..Len(h), h[a].tag = "Fun", NEW c \in Ident, NEW xs \in Seq(Ident)
  PROVE  FunWraps(h, WrappedHeap(h, a, c, xs), a, c, xs)
<1>1. PICK n, k \in Nat : n = Len(h) /\ k = Len(xs)
  BY LenProperties
<1>2. n \in Nat /\ a \in 1..n /\ a \in Nat /\ h \in Seq(HeapNode)
  BY <1>1, LenProperties DEF Shaped
<1>3. PICK body, rest : body = h[a].kids[1] /\ rest = h[a].kids[2]
  OBVIOUS
<1>4. body \in 1..n /\ rest \in 1..n /\ h[a] \in HeapNode
  <2>1. /\ h[a] \in HeapNode /\ Len(h[a].kids) = Arities[h[a].tag]
        /\ \A i \in 1..Len(h[a].kids) : h[a].kids[i] \in 1..Len(h)
    BY NodeOf
  <2>2. Len(h[a].kids) = 2
    BY <2>1 DEF Arities
  <2>3. PICK ks : ks = h[a].kids
    OBVIOUS
  <2>4. Len(ks) = 2 /\ \A i \in 1..Len(ks) : ks[i] \in 1..n
    BY <1>1, <2>1, <2>2, <2>3
  <2>5. ks[1] \in 1..n /\ ks[2] \in 1..n
    BY ONLY <2>4
  <2>. QED  BY <1>3, <2>1, <2>3, <2>5
<1>5. PICK kids, ps, p : /\ kids = <<IF k = 0 THEN body ELSE n + k, n + k + 1>>
                         /\ ps = <<c>> \o h[a].params
                         /\ p = [h[a] EXCEPT !.params = ps, !.kids = kids]
  OBVIOUS
<1>6. kids \in Seq(Nat) /\ Len(kids) = 2
      /\ \A i \in 1..2 : kids[i] \in 1..(n + k + 1)
  <2>1. (IF k = 0 THEN body ELSE n + k) \in 1..(n + k + 1) /\ n + k + 1 \in 1..(n + k + 1)
    BY <1>2, <1>4
  <2>2. \A x \in 1..(n + k + 1) : x \in Nat
    OBVIOUS
  <2>. QED  BY <1>5, <2>1, <2>2
<1>7. ps \in Seq(Ident)
  <2>1. h[a].params \in Seq(Ident)
    BY <1>4, NodeFields
  <2>2. <<c>> \in Seq(Ident)
    OBVIOUS
  <2>. QED  BY <1>5, <2>1, <2>2, ConcatProperties
<1>8. p \in HeapNode /\ IsNode(p) /\ p.kids = kids /\ p.tag = h[a].tag /\ p.params = ps
  <2>1. h[a].tag = "Fun" /\ h[a] \in HeapNode /\ ps \in Seq(Ident) /\ kids \in Seq(Nat) /\ Len(kids) = 2
    BY <1>4, <1>6, <1>7
  <2>2. PICK m : m = h[a]
    OBVIOUS
  <2>3. m \in HeapNode /\ p = [m EXCEPT !.params = ps, !.kids = kids]
    BY <1>5, <2>1, <2>2, Zenon
  <2>4. p \in HeapNode /\ p.kids = kids /\ p.tag = m.tag /\ p.params = ps
    BY ONLY <2>1, <2>3, Zenon DEF HeapNode
  <2>5. Len(p.kids) = Arities[p.tag] /\ p.tag \notin {"App", "Proj"}
    BY <2>1, <2>2, <2>4 DEF Arities
  <2>. QED  BY ONLY <2>2, <2>4, <2>5 DEF IsNode
<1>9. PICK h0 : h0 = [h EXCEPT ![a] = p]
  OBVIOUS
<1>10. /\ h0 \in Seq(HeapNode) /\ Len(h0) = n /\ h0[a] = p
       /\ \A b \in 1..n : b # a => h0[b] = h[b]
  <2>1. h0 = [h EXCEPT ![a] = p]
    BY <1>9
  <2>. QED  BY ONLY <1>1, <1>2, <1>8, <2>1
<1>11. PICK q, e : q = Projections(n, c, xs, body) /\ e = Closure(h[a].name, xs, rest)
  OBVIOUS
<1>12. /\ q \in Seq(HeapNode) /\ Len(q) = k
       /\ \A i \in 1..k : /\ IsNode(q[i]) /\ q[i].kids = <<IF i = 1 THEN body ELSE n + i - 1>>
                          /\ q[i].tag = "Proj" /\ q[i].name = xs[i]
       /\ e \in HeapNode /\ IsNode(e) /\ e.kids = <<rest>> /\ e.tag = "Tuple" /\ e.name = h[a].name
  <2>1. body \in Nat /\ rest \in Nat /\ h[a].name \in Ident
    BY <1>2, <1>4, NodeFields
  <2>2. /\ Projections(n, c, xs, body) \in Seq(HeapNode)
        /\ Len(Projections(n, c, xs, body)) = Len(xs)
        /\ \A i \in 1..Len(xs) :
              /\ IsNode(Projections(n, c, xs, body)[i]) /\ Projections(n, c, xs, body)[i].tag = "Proj"
              /\ Projections(n, c, xs, body)[i].kids = <<IF i = 1 THEN body ELSE n + i - 1>>
              /\ Projections(n, c, xs, body)[i].name = xs[i]
    BY <1>2, <2>1, ProjectionsType
  <2>3. PICK f : f = h[a].name
    OBVIOUS
  <2>4. f \in Ident /\ e = Closure(f, xs, rest)
    BY <1>11, <2>1, <2>3
  <2>5. e \in HeapNode /\ IsNode(e) /\ e.kids = <<rest>> /\ e.tag = "Tuple" /\ e.name = f
    BY <2>1, <2>4, ClosureType
  <2>. QED  BY ONLY <1>1, <1>11, <2>2, <2>3, <2>5
<1>13. WrappedHeap(h, a, c, xs) = h0 \o q \o <<e>>
  <2>1. xs = <<>> <=> k = 0
    BY <1>1, EmptySeq
  <2>2. kids = <<IF xs = <<>> THEN body ELSE n + Len(xs), n + Len(xs) + 1>>
    BY <1>1, <1>5, <2>1
  <2>3. [h EXCEPT ![a].params = <<c>> \o h[a].params, ![a].kids = kids] = [h EXCEPT ![a] = p]
    BY <1>2, <1>5, Zenon
  <2>4. [h EXCEPT ![a].params = <<c>> \o @, ![a].kids = kids] = [h EXCEPT ![a] = p]
    BY <2>3, Zenon
  <2>. QED  BY <1>1, <1>3, <1>9, <1>11, <2>2, <2>4, Zenon DEF WrappedHeap
<1>14. PICK h2 : h2 = h0 \o q \o <<e>>
  OBVIOUS
<1>15. /\ h2 \in Seq(HeapNode) /\ Len(h2) = n + k + 1
       /\ \A b \in 1..n : h2[b] = h0[b]
       /\ \A i \in 1..k : h2[n + i] = q[i]
       /\ h2[n + k + 1] = e
  <2>1. /\ h0 \in Seq(HeapNode) /\ q \in Seq(HeapNode) /\ e \in HeapNode
        /\ n \in Nat /\ n = Len(h0) /\ k \in Nat /\ k = Len(q)
    BY <1>2, <1>10, <1>12
  <2>. QED  BY ONLY <1>14, <2>1, InARow, SMTT(40)
<1>16. ASSUME NEW b \in 1..(n + k + 1)
       PROVE  IsNode(h2[b]) /\ \A i \in 1..Len(h2[b].kids) : h2[b].kids[i] \in 1..(n + k + 1)
  <2>1. CASE b = a
    <3>1. h2[b] = p
      BY <1>2, <1>10, <1>15, <2>1
    <3>. QED  BY <1>6, <1>8, <3>1
  <2>2. CASE b \in 1..n /\ b # a
    <3>1. h2[b] = h[b]
      BY <1>10, <1>15, <2>2
    <3>2. IsNode(h[b]) /\ \A i \in 1..Len(h[b].kids) : h[b].kids[i] \in 1..n
      BY <1>1, <2>2 DEF Shaped
    <3>3. \A x \in 1..n : x \in 1..(n + k + 1)
      BY <1>2
    <3>. QED  BY <3>1, <3>2, <3>3
  <2>3. CASE b = n + k + 1
    <3>1. h2[b] = e /\ rest \in 1..(n + k + 1)
      BY <1>2, <1>4, <1>15, <2>3
    <3>2. Len(<<rest>>) = 1 /\ \A i \in 1..1 : <<rest>>[i] = rest
      OBVIOUS
    <3>. QED  BY <1>12, <3>1, <3>2
  <2>4. CASE b \notin 1..n /\ b # n + k + 1
    <3>1. PICK i \in 1..k : b = n + i
      <4>1. b - n \in 1..k /\ b = n + (b - n)
        BY <1>2, <2>4, SMTT(40)
      <4>. QED  BY <4>1
    <3>2. PICK x : x = IF i = 1 THEN body ELSE n + i - 1
      OBVIOUS
    <3>3. x \in 1..(n + k + 1)
      BY <1>2, <1>4, <3>2
    <3>4. h2[b] = q[i] /\ q[i].kids = <<x>> /\ IsNode(q[i])
      BY <1>12, <1>15, <3>1, <3>2
    <3>5. Len(<<x>>) = 1 /\ \A j \in 1..1 : <<x>>[j] = x
      OBVIOUS
    <3>. QED  BY <3>3, <3>4, <3>5
  <2>. QED  BY <1>2, <2>1, <2>2, <2>3, <2>4
<1>17. Shaped(h2)
  BY <1>15, <1>16 DEF Shaped
<1>18. Wraps(h, h2, a, k)
  <2>1. \A b \in 1..n : b # a => h2[b].kids = h[b].kids
    BY <1>10, <1>15
  <2>2. h2[a].kids = <<IF k = 0 THEN h[a].kids[1] ELSE n + k, n + k + 1>>
    BY <1>2, <1>3, <1>5, <1>8, <1>10, <1>15
  <2>3. \A i \in 1..k : h2[n + i].kids = <<IF i = 1 THEN h[a].kids[1] ELSE n + i - 1>>
    <3>. SUFFICES ASSUME NEW i \in 1..k
                  PROVE  h2[n + i].kids = <<IF i = 1 THEN h[a].kids[1] ELSE n + i - 1>>
      OBVIOUS
    <3>1. h2[n + i] = q[i]
      BY ONLY <1>15, i \in 1..k
    <3>2. q[i].kids = <<IF i = 1 THEN body ELSE n + i - 1>> /\ body = h[a].kids[1]
      BY <1>3, <1>12
    <3>. QED  BY ONLY <3>1, <3>2
  <2>4. h2[n + k + 1].kids = <<h[a].kids[2]>>
    BY <1>3, <1>12, <1>15
  <2>. QED  BY ONLY <1>1, <1>15, <2>1, <2>2, <2>3, <2>4 DEF Wraps
<1>19. \A b \in 1..n : h2[b].tag = h[b].tag
  BY <1>8, <1>10, <1>15
<1>20. \A b \in 1..n : b # a => h2[b] = h[b]
  BY <1>10, <1>15
<1>21. ASSUME NEW b \in 1..Len(h2), b > n
       PROVE  h2[b].tag \in {"Proj", "Tuple"}
  <2>1. CASE b = n + k + 1
    BY <1>12, <1>15, <2>1
  <2>2. CASE b # n + k + 1
    <3>1. b - n \in 1..k /\ b = n + (b - n)
      BY <1>2, <1>15, <1>21, <2>2
    <3>2. h2[b] = q[b - n] /\ q[b - n].tag = "Proj"
      BY <1>12, <1>15, <3>1
    <3>. QED  BY <3>2
  <2>. QED  BY <2>1, <2>2
<1>22. h2[a].params = <<c>> \o h[a].params
  BY <1>2, <1>5, <1>8, <1>10, <1>15
<1>23. ASSUME NEW i \in 1..k
       PROVE  h2[n + i].tag = "Proj" /\ h2[n + i].name = xs[i]
  <2>1. h2[n + i] = q[i]
    BY ONLY <1>15, i \in 1..k
  <2>. QED  BY <1>12, <2>1
<1>24. h2[n + k + 1].tag = "Tuple" /\ h2[n + k + 1].name = h[a].name
  BY <1>12, <1>15
<1>25. FunWraps(h, h2, a, c, xs)
  BY ONLY <1>1, <1>17, <1>18, <1>19, <1>20, <1>21, <1>22, <1>23, <1>24 DEF FunWraps
<1>. QED  BY ONLY <1>13, <1>14, <1>25

\* A FunExp.
LEMMA VisitFunInv ==
  ASSUME TypeInv, OwnInv, VisitFun
  PROVE  /\ TypeInv' /\ OwnInv'
         /\ FunWraps(heap, heap', Task.exp, ClosureName(counter), SetToSeq(freeVars))
         /\ Visiting(heap, heap', worklist, worklist', Task.exp, Last(worklist).link, 0)
<1>1. /\ status = "walk" /\ worklist # <<>> /\ Task.kind = "node" /\ heap[Task.exp].tag = "Fun"
      /\ walk = <<>>
      /\ freed' = freed /\ root' = root /\ counter' = counter + 1 /\ status' = "run"
      /\ freeVars' = freeVars /\ walk' = walk /\ input' = input
  BY DEF VisitFun, walkVars, TypeInv
<1>2. PICK a, l : a = Task.exp /\ l = Last(worklist).link
  OBVIOUS
<1>3. /\ a \in 1..Len(heap) /\ Shaped(heap) /\ Owned(heap, freed, root) /\ Len(heap) \in Nat
      /\ heap[a].tag = "Fun" /\ worklist \in Seq(TaskRec) /\ freed \subseteq 1..Len(heap)
      /\ Last(worklist).kind = "node" /\ Last(worklist).exp = a
  BY <1>1, <1>2, TopTask, LenProperties DEF TypeInv, OwnInv, Shaped, Task
<1>4. PICK xs, c : xs = SetToSeq(freeVars) /\ c = ClosureName(counter)
  OBVIOUS
<1>5. xs \in Seq(Ident) /\ c \in Ident
  BY <1>4, SetToSeqType, MadeNames DEF TypeInv, WalkInv
<1>6. PICK h2 : h2 = WrappedHeap(heap, a, c, xs)
  OBVIOUS
<1>7. heap' = h2 /\ worklist' = Front(worklist) \o KidTasks(h2, a)
  BY <1>2, <1>4, <1>6, Zenon DEF VisitFun, WrappedHeap, TasksWrapped
<1>8. PICK k \in Nat : k = Len(xs)
  BY <1>5, LenProperties
<1>9. /\ Shaped(h2) /\ Wraps(heap, h2, a, k) /\ \A b \in 1..Len(heap) : h2[b].tag = heap[b].tag
      /\ \A b \in 1..Len(heap) : b # a => h2[b] = heap[b]
      /\ \A b \in 1..Len(h2) : b > Len(heap) => h2[b].tag \in {"Proj", "Tuple"}
  <2>1. FunWraps(heap, h2, a, c, xs)
    BY <1>3, <1>5, <1>6, FunWrapped
  <2>. QED  BY ONLY <1>8, <2>1 DEF FunWraps
<1>10. PICK n \in Nat : n = Len(heap)
  BY <1>3
<1>11. PICK W0 : Seen(heap, freed, root, worklist, W0) /\ Original(input, heap, freed, W0)
  BY DEF OwnInv
<1>12. PICK V : V = W0
  OBVIOUS
<1>13. Seen(heap, freed, root, worklist, V) /\ Original(input, heap, freed, V)
  BY <1>11, <1>12
<1>14. /\ a \in Live(heap, freed) /\ a \notin V /\ V \subseteq 1..n
       /\ \A b \in Live(heap, freed) : b \notin V =>
             \A i \in 1..Len(heap[b].kids) : heap[b].kids[i] \notin V /\ heap[b].kids[i] # a
  <2>1. PICK m \in Nat \ {0} : m = Len(worklist)
    BY <1>1, TopTask
  <2>2. worklist[m].kind = "node" /\ worklist[m].exp = a
    BY <1>1, <1>2, <2>1, TopTask
  <2>. QED  BY <1>3, <1>10, <1>13, <2>1, <2>2, TopUnseen
<1>15. Len(heap[a].kids) = 2 /\ a \in 1..n
  <2>1. Len(heap[a].kids) = Arities[heap[a].tag]
    BY <1>3, NodeOf
  <2>. QED  BY <1>3, <1>10, <2>1 DEF Arities
<1>16. Owned(h2, freed, root)
  BY <1>3, <1>8, <1>9, <1>14, <1>15, WrapsOwned
<1>17. PICK b, r : b = heap[a].kids[1] /\ r = heap[a].kids[2]
  OBVIOUS
<1>18. b \notin V /\ b # a /\ r \notin V /\ r # a
  <2>1. 1 \in 1..Len(heap[a].kids) /\ 2 \in 1..Len(heap[a].kids)
    BY <1>15
  <2>. QED  BY <1>14, <1>17, <2>1
<1>19. /\ Len(h2) = n + k + 1
       /\ \A x \in 1..n : x # a => h2[x].kids = heap[x].kids
       /\ h2[a].kids = <<IF k = 0 THEN b ELSE n + k, n + k + 1>>
       /\ \A i \in 1..k : h2[n + i].kids = <<IF i = 1 THEN b ELSE n + i - 1>>
       /\ h2[n + k + 1].kids = <<r>>
  BY <1>9, <1>10, <1>17 DEF Wraps
<1>20. PICK W : W = V \cup {a}
  OBVIOUS
<1>21. /\ \A x : x > n /\ x \in Nat => x \notin W
       /\ b \notin W /\ r \notin W
  BY <1>14, <1>15, <1>18, <1>20
<1>22. ASSUME NEW x \in Live(h2, freed), x \notin V, NEW i \in 1..Len(h2[x].kids)
       PROVE  h2[x].kids[i] \notin W
  <2>0. x \in 1..(n + k + 1) /\ x \notin freed
    BY <1>19 DEF Live
  <2>1. CASE x = a
    <3>1. i \in 1..2
      BY <1>19, <1>22, <2>1
    <3>2. h2[x].kids[i] \in {b, n + k, n + k + 1} /\ (h2[x].kids[i] = n + k => k > 0 \/ n + k = b)
      BY <1>19, <2>1, <3>1
    <3>. QED  BY <1>21, <3>2
  <2>2. CASE x \in 1..n /\ x # a
    <3>1. h2[x].kids = heap[x].kids /\ x \in Live(heap, freed)
      BY <1>10, <1>19, <2>0, <2>2 DEF Live
    <3>. QED  BY <1>14, <1>20, <1>22, <3>1
  <2>3. CASE x = n + k + 1
    BY <1>19, <1>21, <1>22, <2>3
  <2>4. CASE x \notin 1..n /\ x # n + k + 1
    <3>1. x - n \in 1..k /\ x = n + (x - n)
      BY <2>0, <2>4
    <3>2. h2[x].kids = <<IF x - n = 1 THEN b ELSE x - 1>>
      <4>1. h2[n + (x - n)].kids = <<IF x - n = 1 THEN b ELSE n + (x - n) - 1>>
        BY <1>19, <3>1
      <4>. QED  BY <3>1, <4>1
    <3>3. i = 1
      BY <1>22, <3>2
    <3>. QED  BY <1>21, <3>1, <3>2, <3>3
  <2>. QED  BY <2>0, <2>1, <2>2, <2>3, <2>4
<1>23. PICK w2 : w2 = Front(worklist) \o KidTasks(h2, a)
  OBVIOUS
<1>24. a \in 1..Len(h2)
  BY <1>15, <1>19
<1>25. w2 \in Seq(TaskRec) /\ Visiting(heap, h2, worklist, w2, a, l, 0)
  BY <1>1, <1>2, <1>3, <1>9, <1>23, <1>24, KidsPushed
<1>26. Seen(h2, freed, root, w2, W)
  <2>1. \A x : x \in W <=> x \in V \/ x = a
    BY <1>20
  <2>2. Len(heap) <= Len(h2)
    BY <1>10, <1>19
  <2>3. \A x \in 1..Len(heap) : x # a => h2[x].kids = heap[x].kids
    BY <1>10, <1>19
  <2>4. \A x \in Live(h2, freed) : x \notin V => \A i \in 1..Len(h2[x].kids) : h2[x].kids[i] \notin W
    BY <1>22
  <2>5. Shaped(heap) /\ Owned(heap, freed, root)
    BY <1>3
  <2>. QED  BY ONLY <1>9, <1>13, <1>16, <1>25, <2>1, <2>2, <2>3, <2>4, <2>5, VisitingSeen
<1>27. OwnInv'
  <2>1. Original(input, h2, freed, W)
    <3>1. ASSUME NEW x \in Live(h2, freed), x \notin W
          PROVE  \/ x \in Live(heap, freed) /\ x \notin V /\ h2[x] = heap[x]
                 \/ ~(x <= Len(input)) /\ h2[x].tag \in {"Proj", "Tuple"}
      <4>1. x \in 1..Len(h2) /\ x \notin freed /\ x \notin V /\ x # a
        BY <1>20, <3>1 DEF Live
      <4>2. CASE x <= n
        <5>1. x \in 1..Len(heap)
          BY <1>10, <4>1, <4>2
        <5>. QED  BY <1>9, <4>1, <5>1 DEF Live
      <4>3. CASE ~(x <= n)
        <5>1. x > n /\ x > Len(heap)
          BY <1>10, <1>19, <4>1, <4>3
        <5>2. ~(x <= Len(input))
          <6>1. Len(input) <= n /\ Len(input) \in Nat
            BY <1>10, TermOwned, LenProperties DEF TypeInv, Shaped
          <6>2. x \in Nat
            BY <1>19, <4>1
          <6>. QED  BY <5>1, <6>1, <6>2
        <5>. QED  BY <1>9, <4>1, <5>1, <5>2
      <4>. QED  BY <4>2, <4>3
    <3>. QED  BY <1>13, <3>1, OriginalKept
  <2>. QED  BY <1>1, <1>7, <1>16, <1>23, <1>26, <2>1 DEF OwnInv
<1>28. TypeInv'
  <2>1. WalkInv'
    <3>1. walk' \in Seq(WalkRec(Len(heap')))
      BY <1>1
    <3>. QED  BY <1>1, <3>1 DEF TypeInv, WalkInv
  <2>2. worklist' \in Seq(TaskRec) /\ counter' \in Nat
    BY <1>1, <1>7, <1>23, <1>25 DEF TypeInv
  <2>3. freed' \subseteq 1..Len(heap')
    <3>1. \A x \in freed : x \in 1..n
      BY <1>3, <1>10
    <3>2. \A x \in 1..n : x \in 1..(n + k + 1)
      OBVIOUS
    <3>. QED  BY <1>1, <1>7, <1>19, <3>1, <3>2
  <2>4. Ranked(h2) /\ Len(input) <= Len(h2)
    <3>1. Ranked(h2)
      BY <1>3, <1>8, <1>9, <1>15, WrapsRanked DEF TypeInv
    <3>2. Len(input) <= n /\ Len(input) \in Nat
      BY <1>10, TermOwned, LenProperties DEF TypeInv, Shaped
    <3>. QED  BY <1>19, <3>1, <3>2
  <2>. QED  BY <1>1, <1>7, <1>9, <2>1, <2>2, <2>3, <2>4 DEF TypeInv
<1>29. FunWraps(heap, h2, a, c, xs)
  BY <1>3, <1>5, <1>6, FunWrapped
<1>. QED  BY <1>2, <1>4, <1>7, <1>23, <1>25, <1>27, <1>28, <1>29

\* h2 is h in which link (lo, li) leads to b.
RelinkedTo(h, h2, lo, li, b) ==
    /\ h2 \in Seq(HeapNode) /\ Len(h2) = Len(h)
    /\ \A o \in 1..Len(h) :
          /\ IsNode(h2[o]) /\ SameBinders(h, h2, o) /\ Len(h2[o].kids) = Len(h[o].kids)
          /\ o # lo => h2[o] = h[o]
          /\ \A i \in 1..Len(h[o].kids) :
                h2[o].kids[i] = IF o = lo /\ i = li THEN b ELSE h[o].kids[i]

\* An assignment to a link keeps all other links.
LEMMA Relinked ==
  ASSUME NEW h, Shaped(h), NEW lo \in 1..Len(h), NEW li \in 1..Len(h[lo].kids), NEW b \in Nat
  PROVE  RelinkedTo(h, [h EXCEPT ![lo].kids[li] = b], lo, li, b)
<1>1. PICK m, p, h2 : /\ m = h[lo] /\ p = [m EXCEPT !.kids[li] = b]
                      /\ h2 = [h EXCEPT ![lo] = p]
  OBVIOUS
<1>2. h2 = [h EXCEPT ![lo].kids[li] = b]
  BY <1>1, Zenon
<1>3. m \in HeapNode /\ IsNode(m) /\ h \in Seq(HeapNode) /\ m.kids \in Seq(Nat)
  BY <1>1, NodeOf DEF Shaped
<1>4. li \in 1..Len(m.kids)
  BY <1>1
<1>5. /\ p.kids = [m.kids EXCEPT ![li] = b] /\ p.tag = m.tag /\ p.vals = m.vals
      /\ p.name = m.name /\ p.params = m.params
  BY ONLY <1>1, <1>3, Zenon DEF HeapNode
<1>6. PICK ks : ks = [m.kids EXCEPT ![li] = b]
  OBVIOUS
<1>7. /\ ks \in Seq(Nat) /\ Len(ks) = Len(m.kids)
      /\ \A i \in 1..Len(m.kids) : ks[i] = IF i = li THEN b ELSE m.kids[i]
  <2>1. PICK us : us = m.kids
    OBVIOUS
  <2>2. us \in Seq(Nat) /\ li \in 1..Len(us) /\ ks = [us EXCEPT ![li] = b]
    BY <1>3, <1>4, <1>6, <2>1
  <2>3. /\ ks \in Seq(Nat) /\ Len(ks) = Len(us)
        /\ \A i \in 1..Len(us) : ks[i] = IF i = li THEN b ELSE us[i]
    BY ONLY <2>2, b \in Nat
  <2>. QED  BY <2>1, <2>3
<1>8. p \in HeapNode
  <2>1. p = [m EXCEPT !.kids = ks]
    BY ONLY <1>1, <1>3, <1>6, Zenon DEF HeapNode
  <2>. QED  BY ONLY <1>3, <1>7, <2>1, Zenon DEF HeapNode
<1>9. IsNode(p)
  BY <1>3, <1>5, <1>6, <1>7, <1>8 DEF IsNode
<1>10. /\ h2 \in Seq(HeapNode) /\ Len(h2) = Len(h) /\ h2[lo] = p
       /\ \A o \in 1..Len(h) : o # lo => h2[o] = h[o]
  <2>1. h2 = [h EXCEPT ![lo] = p]
    BY <1>1
  <2>. QED  BY ONLY <1>3, <1>8, <2>1, lo \in 1..Len(h)
<1>11. ASSUME NEW o \in 1..Len(h)
       PROVE  /\ IsNode(h2[o]) /\ SameBinders(h, h2, o) /\ Len(h2[o].kids) = Len(h[o].kids)
              /\ \A i \in 1..Len(h[o].kids) :
                    h2[o].kids[i] = IF o = lo /\ i = li THEN b ELSE h[o].kids[i]
  <2>1. CASE o = lo
    <3>1. h2[o] = p /\ h[o] = m /\ p.kids = ks
      BY <1>1, <1>5, <1>6, <1>10, <2>1
    <3>. QED  BY ONLY <1>5, <1>7, <1>9, <2>1, <3>1 DEF SameBinders
  <2>2. CASE o # lo
    <3>1. h2[o] = h[o] /\ IsNode(h[o])
      BY <1>10, <2>2 DEF Shaped
    <3>. QED  BY <2>2, <3>1 DEF SameBinders
  <2>. QED  BY <2>1, <2>2
<1>12. RelinkedTo(h, h2, lo, li, b)
  BY ONLY <1>10, <1>11 DEF RelinkedTo
<1>. QED  BY ONLY <1>2, <1>12

\* The closure of an AppExp in task t, at (lo, li), makes h2 of h and w2 of w.
CallReplaces(h, h2, fr, fr2, r, r2, w, w2, t, lo, li) ==
    LET n == Len(h)
        m == Len(w)
        e == t.exp
    IN  /\ IsLink(h, fr, lo, li) /\ To(h, r, lo, li) = e /\ h[e].tag = "App"
        /\ Rewired(h, h2, fr, fr2, r, r2, e, lo, li)
        /\ \A x : x \in fr2 <=> x \in fr \/ x = e
        /\ Len(h2) = n + 2 /\ \A b \in 1..n : SameBinders(h, h2, b)
        /\ h2[n + 1].tag = "App" /\ h2[n + 1].name = h[e].name /\ h2[n + 1].kids = <<h[e].kids[1]>>
        /\ h2[n + 2].tag = "Proj" /\ h2[n + 2].name = t.proj /\ h2[n + 2].kids = <<n + 1>>
        /\ m \in Nat \ {0} /\ w[m] = t /\ t.kind = "call"
        /\ Len(w2) = m - 1 /\ \A i \in 1..(m - 1) : w2[i] = w[i]

\* The closure of an AppExp.
LEMMA RunCallInv ==
  ASSUME TypeInv, OwnInv, RunCall
  PROVE  /\ TypeInv' /\ OwnInv'
         /\ CallReplaces(heap, heap', freed, freed', root, root', worklist, worklist', Task,
                         Task.link.owner, Task.link.kid)
<1>1. /\ status = "run" /\ worklist # <<>> /\ Task.kind = "call"
      /\ worklist' = Front(worklist)
      /\ counter' = counter /\ status' = status /\ freeVars' = freeVars /\ walk' = walk
      /\ input' = input
  BY DEF RunCall, walkVars
<1>2. PICK e, lo, li, t : t = Task /\ e = t.exp /\ lo = t.link.owner /\ li = t.link.kid
  OBVIOUS
<1>3. PICK n \in Nat : n = Len(heap)
  BY LenProperties DEF TypeInv, Shaped
<1>4. PICK m \in Nat \ {0} : m = Len(worklist) /\ worklist[m] = t
  BY <1>1, <1>2, TopTask
<1>5. PICK W0 : Seen(heap, freed, root, worklist, W0) /\ Original(input, heap, freed, W0)
  BY DEF OwnInv
<1>6. PICK V : V = W0
  OBVIOUS
<1>7. Seen(heap, freed, root, worklist, V) /\ Original(input, heap, freed, V)
  BY <1>5, <1>6
<1>8. /\ Shaped(heap) /\ Owned(heap, freed, root) /\ freed \subseteq 1..n
      /\ e \in 1..n /\ IsNode(heap[e]) /\ heap[e] \in HeapNode
      /\ t \in TaskRec /\ t.kind = "call"
  BY <1>1, <1>2, <1>3, TopTask DEF TypeInv, OwnInv
<1>9. /\ IsLink(heap, freed, lo, li) /\ To(heap, root, lo, li) = e /\ lo \in V \cup {Null}
      /\ e \in V /\ heap[e].tag = "App"
  <2>1. m \in 1..Len(worklist)
    BY <1>4
  <2>2. TaskOK(heap, freed, root, V, t)
    BY <1>4, <1>7, <2>1 DEF Seen
  <2>. QED  BY <1>2, <1>8, <2>2 DEF TaskOK
<1>10. lo \in 0..n /\ (lo # Null => lo \in 1..n /\ li \in 1..Len(heap[lo].kids))
  BY <1>3, <1>8, <1>9, LinkRange DEF IsLink
<1>11. /\ heap[e].name \in Ident /\ heap[e].vals \in Seq(Value) /\ heap[e].vals # <<>>
       /\ heap[e].vals[1].var \in Ident /\ heap[e].kids[1] \in 1..n /\ Len(heap[e].kids) = 1
       /\ t.proj \in Ident /\ t.vals \in Seq(Value)
  <2>1. /\ heap[e].name \in Ident /\ heap[e].vals \in Seq(Value) /\ heap[e].vals # <<>>
    BY <1>8, <1>9, NodeFields DEF IsNode
  <2>2. heap[e].vals[1] \in Value
    BY <2>1, EmptySeq, ElementOfSeq
  <2>3. heap[e].vals[1].var \in Ident
    BY <2>2 DEF Value
  <2>4. Len(heap[e].kids) = Arities[heap[e].tag] /\ \A i \in 1..Len(heap[e].kids) : heap[e].kids[i] \in 1..n
    BY <1>3, <1>8, NodeOf
  <2>5. Len(heap[e].kids) = 1
    BY <1>9, <2>4 DEF Arities
  <2>6. heap[e].kids[1] \in 1..n
    <3>1. 1 \in 1..Len(heap[e].kids)
      BY <2>5
    <3>. QED  BY <2>4, <3>1
  <2>7. t.proj \in Ident /\ t.vals \in Seq(Value)
    BY <1>8 DEF TaskRec
  <2>. QED  BY <2>1, <2>3, <2>5, <2>6, <2>7
<1>12. PICK p, q, new : /\ p = AppExp(heap[e].name, t.proj, t.vals, heap[e].kids[1])
                        /\ q = ProjExp(t.proj, heap[e].vals[1].var, 0, n + 1)
                        /\ new = <<p, q>>
  OBVIOUS
<1>13. /\ p \in HeapNode /\ IsNode(p) /\ p.kids = <<heap[e].kids[1]>>
       /\ p.tag = "App" /\ p.name = heap[e].name
       /\ q \in HeapNode /\ IsNode(q) /\ q.kids = <<n + 1>>
       /\ q.tag = "Proj" /\ q.name = t.proj
  <2>1. PICK x, c, v : x = heap[e].name /\ c = heap[e].kids[1] /\ v = heap[e].vals[1].var
    OBVIOUS
  <2>2. x \in Ident /\ c \in Nat /\ v \in Ident /\ n + 1 \in Nat /\ 0 \in Nat
    BY <1>11, <2>1
  <2>3. p = AppExp(x, t.proj, t.vals, c) /\ q = ProjExp(t.proj, v, 0, n + 1)
    BY <1>12, <2>1
  <2>4. p \in HeapNode /\ IsNode(p) /\ p.kids = <<c>> /\ p.tag = "App" /\ p.name = x
    <3>1. PICK g, vs : g = t.proj /\ vs = t.vals
      OBVIOUS
    <3>2. g \in Ident /\ vs \in Seq(Value) /\ p = AppExp(x, g, vs, c)
      BY <1>11, <2>3, <3>1
    <3>3. /\ AppExp(x, g, vs, c) \in HeapNode /\ IsNode(AppExp(x, g, vs, c))
          /\ AppExp(x, g, vs, c).kids = <<c>>
          /\ AppExp(x, g, vs, c).tag = "App" /\ AppExp(x, g, vs, c).name = x
      BY ONLY <2>2, <3>2, AppNode
    <3>. QED  BY ONLY <3>2, <3>3
  <2>5. q \in HeapNode /\ IsNode(q) /\ q.kids = <<n + 1>> /\ q.tag = "Proj" /\ q.name = t.proj
    <3>1. PICK k, o : k = n + 1 /\ o = 0
      OBVIOUS
    <3>2. k \in Nat /\ o \in Nat /\ q = ProjExp(t.proj, v, o, k)
      BY <2>2, <2>3, <3>1
    <3>3. PICK y : y = t.proj
      OBVIOUS
    <3>4. y \in Ident /\ v \in Ident /\ o \in Nat /\ k \in Nat
      BY <1>11, <2>2, <3>2, <3>3
    <3>5. /\ ProjExp(y, v, o, k) \in HeapNode /\ IsNode(ProjExp(y, v, o, k))
          /\ ProjExp(y, v, o, k).kids = <<k>>
          /\ ProjExp(y, v, o, k).tag = "Proj" /\ ProjExp(y, v, o, k).name = y
      BY ONLY <3>4, ProjNode
    <3>. QED  BY ONLY <3>1, <3>2, <3>3, <3>5
  <2>. QED  BY <2>1, <2>4, <2>5
<1>14. PICK h0 : h0 = IF lo = Null THEN heap ELSE [heap EXCEPT ![lo].kids[li] = n + 2]
  OBVIOUS
<1>15. /\ h0 \in Seq(HeapNode) /\ Len(h0) = n
       /\ \A o \in 1..n :
             /\ IsNode(h0[o]) /\ SameBinders(heap, h0, o) /\ Len(h0[o].kids) = Len(heap[o].kids)
             /\ o # lo => h0[o] = heap[o]
             /\ \A i \in 1..Len(heap[o].kids) :
                   h0[o].kids[i] = IF o = lo /\ i = li THEN n + 2 ELSE heap[o].kids[i]
  <2>1. CASE lo = Null
    <3>1. \A o \in 1..n : o # lo
      BY <2>1 DEF Null
    <3>2. h0 = heap
      BY <1>14, <2>1
    <3>. QED  BY <1>3, <1>8, <3>1, <3>2 DEF Shaped, SameBinders
  <2>2. CASE lo # Null
    <3>1. PICK g : g = [heap EXCEPT ![lo].kids[li] = n + 2]
      OBVIOUS
    <3>2. n + 2 \in Nat /\ lo \in 1..Len(heap) /\ li \in 1..Len(heap[lo].kids) /\ Shaped(heap)
      BY <1>3, <1>8, <1>10, <2>2
    <3>3. /\ g \in Seq(HeapNode) /\ Len(g) = Len(heap)
          /\ \A o \in 1..Len(heap) :
                /\ IsNode(g[o]) /\ SameBinders(heap, g, o) /\ Len(g[o].kids) = Len(heap[o].kids)
                /\ o # lo => g[o] = heap[o]
                /\ \A i \in 1..Len(heap[o].kids) :
                      g[o].kids[i] = IF o = lo /\ i = li THEN n + 2 ELSE heap[o].kids[i]
      <4>1. PICK b : b = n + 2
        OBVIOUS
      <4>2. RelinkedTo(heap, g, lo, li, b)
        <5>1. g = [heap EXCEPT ![lo].kids[li] = b]
          BY <3>1, <4>1
        <5>2. b \in Nat
          BY <3>2, <4>1
        <5>. QED  BY ONLY <3>2, <5>1, <5>2, Relinked
      <4>. QED  BY ONLY <4>1, <4>2 DEF RelinkedTo
    <3>4. h0 = g
      BY <1>14, <2>2, <3>1
    <3>. QED  BY ONLY <1>3, <3>3, <3>4
  <2>. QED  BY <2>1, <2>2
<1>16. heap' = h0 \o new
  <2>1. CASE lo = Null
    BY <1>2, <1>3, <1>12, <1>14, <2>1, Zenon DEF RunCall
  <2>2. CASE lo # Null
    BY <1>2, <1>3, <1>12, <1>14, <2>2, Zenon DEF RunCall
  <2>. QED  BY <2>1, <2>2
<1>17. root' = IF lo = Null THEN n + 2 ELSE root
  <2>1. CASE lo = Null
    BY <1>2, <1>3, <2>1 DEF RunCall
  <2>2. CASE lo # Null
    BY <1>2, <1>3, <2>2 DEF RunCall
  <2>. QED  BY <2>1, <2>2
<1>18. freed' = freed \cup {e}
  <2>1. Deref(heap, root, Task.link) = e
    BY <1>2, <1>9 DEF Deref, To
  <2>. QED  BY <2>1 DEF RunCall
<1>19. PICK h2, r2, f2, w2 : h2 = h0 \o new /\ r2 = (IF lo = Null THEN n + 2 ELSE root)
                             /\ f2 = freed \cup {e} /\ w2 = Front(worklist)
  OBVIOUS
<1>20. /\ h2 \in Seq(HeapNode) /\ Len(h2) = n + 2
       /\ \A o \in 1..n : h2[o] = h0[o]
       /\ h2[n + 1] = p /\ h2[n + 2] = q
  <2>1. new \in Seq(HeapNode) /\ Len(new) = 2 /\ new[1] = p /\ new[2] = q
    BY <1>12, <1>13
  <2>2. /\ h2 \in Seq(HeapNode) /\ Len(h2) = n + 2
        /\ \A i \in 1..(n + 2) : h2[i] = IF i <= n THEN h0[i] ELSE new[i - n]
    <3>1. h0 \in Seq(HeapNode) /\ new \in Seq(HeapNode)
      BY <1>15, <2>1
    <3>2. /\ h0 \o new \in Seq(HeapNode) /\ Len(h0 \o new) = Len(h0) + Len(new)
          /\ \A i \in 1..(Len(h0) + Len(new)) :
                (h0 \o new)[i] = IF i <= Len(h0) THEN h0[i] ELSE new[i - Len(h0)]
      BY ONLY <3>1, ConcatProperties
    <3>3. Len(h0) = n /\ Len(new) = 2
      BY <1>15, <2>1
    <3>. QED  BY ONLY <1>19, <3>2, <3>3
  <2>3. \A i \in 1..n : i \in 1..(n + 2) /\ i <= n
    OBVIOUS
  <2>4. /\ n + 1 \in 1..(n + 2) /\ ~(n + 1 <= n) /\ (n + 1) - n = 1
        /\ n + 2 \in 1..(n + 2) /\ ~(n + 2 <= n) /\ (n + 2) - n = 2
    OBVIOUS
  <2>. QED  BY ONLY <2>1, <2>2, <2>3, <2>4
<1>21. Shaped(h2)
  <2>1. ASSUME NEW o \in 1..(n + 2)
        PROVE  IsNode(h2[o]) /\ \A i \in 1..Len(h2[o].kids) : h2[o].kids[i] \in 1..(n + 2)
    <3>1. CASE o \in 1..n
      <4>1. /\ h2[o] = h0[o] /\ IsNode(h0[o]) /\ Len(h0[o].kids) = Len(heap[o].kids)
            /\ \A i \in 1..Len(heap[o].kids) :
                  h0[o].kids[i] = IF o = lo /\ i = li THEN n + 2 ELSE heap[o].kids[i]
        BY <1>15, <1>20, <3>1
      <4>2. \A i \in 1..Len(heap[o].kids) : heap[o].kids[i] \in 1..n
        BY <1>3, <1>8, <3>1 DEF Shaped
      <4>3. n + 2 \in 1..(n + 2) /\ \A x \in 1..n : x \in 1..(n + 2)
        OBVIOUS
      <4>. QED  BY ONLY <4>1, <4>2, <4>3
    <3>2. CASE o = n + 1
      <4>1. PICK c : c = heap[e].kids[1]
        OBVIOUS
      <4>2. h2[o] = p /\ p.kids = <<c>> /\ IsNode(p) /\ c \in 1..n
        BY <1>11, <1>13, <1>20, <3>2, <4>1
      <4>3. Len(<<c>>) = 1 /\ \A i \in 1..1 : <<c>>[i] = c
        OBVIOUS
      <4>4. c \in 1..(n + 2)
        BY <4>2
      <4>. QED  BY <4>2, <4>3, <4>4
    <3>3. CASE o = n + 2
      <4>1. h2[o] = q /\ q.kids = <<n + 1>> /\ IsNode(q)
        BY <1>13, <1>20, <3>3
      <4>2. Len(<<n + 1>>) = 1 /\ (\A i \in 1..1 : <<n + 1>>[i] = n + 1) /\ n + 1 \in 1..(n + 2)
        OBVIOUS
      <4>. QED  BY <4>1, <4>2
    <3>. QED  BY <3>1, <3>2, <3>3
  <2>. QED  BY <1>20, <2>1 DEF Shaped
<1>22. Replaces(heap, h2, freed, root, r2, e, lo, li)
  <2>1. \A o \in 1..n : Len(h2[o].kids) = Len(heap[o].kids)
    BY <1>15, <1>20
  <2>2. ASSUME NEW o, NEW i, IsLink(heap, freed, o, i)
        PROVE  To(h2, r2, o, i) = IF o = lo /\ i = li THEN n + 2 ELSE To(heap, root, o, i)
    <3>1. CASE o = Null
      <4>1. i = 1 /\ (lo = Null => li = 1)
        BY <1>9, <2>2, <3>1 DEF IsLink
      <4>2. To(h2, r2, o, i) = r2 /\ To(heap, root, o, i) = root
        BY <3>1 DEF To
      <4>. QED  BY <1>19, <3>1, <4>1, <4>2
    <3>2. CASE o # Null
      <4>1. o \in 1..n /\ i \in 1..Len(heap[o].kids)
        BY <1>3, <2>2, <3>2 DEF IsLink, Live
      <4>2. To(h2, r2, o, i) = h2[o].kids[i] /\ To(heap, root, o, i) = heap[o].kids[i]
        BY <3>2 DEF To
      <4>3. h2[o] = h0[o] /\ h0[o].kids[i] = IF o = lo /\ i = li THEN n + 2 ELSE heap[o].kids[i]
        BY ONLY <1>15, <1>20, <4>1
      <4>. QED  BY ONLY <4>2, <4>3
    <3>. QED  BY <3>1, <3>2
  <2>3. h2[n + 1].kids = <<heap[e].kids[1]>> /\ h2[n + 2].kids = <<n + 1>>
    BY <1>13, <1>20
  <2>. QED  BY ONLY <1>3, <1>20, <2>1, <2>2, <2>3 DEF Replaces
<1>23. w2 \in Seq(TaskRec) /\ Len(w2) = m - 1 /\ \A x \in 1..(m - 1) : w2[x] = worklist[x]
  <2>1. worklist \in Seq(TaskRec) /\ worklist # <<>>
    BY <1>1 DEF TypeInv
  <2>2. /\ Front(worklist) \in Seq(TaskRec) /\ Len(Front(worklist)) = Len(worklist) - 1
        /\ \A i \in 1..(Len(worklist) - 1) : Front(worklist)[i] = worklist[i]
    BY ONLY <2>1, Pop, SMTT(60)
  <2>. QED  BY ONLY <1>4, <1>19, <2>2
<1>24. PICK W : W = V \cup {Len(heap) + 1, Len(heap) + 2}
  OBVIOUS
<1>25. Owned(h2, f2, r2) /\ Seen(h2, f2, r2, w2, W)
  <2>1. /\ worklist[m].kind = "call" /\ worklist[m].exp = e
        /\ worklist[m].link.owner = lo /\ worklist[m].link.kid = li
    BY <1>2, <1>4, <1>8
  <2>2. \A x : x \in f2 <=> x \in freed \/ x = e
    BY <1>19
  <2>3. \A x \in 1..Len(heap) : h2[x].tag = heap[x].tag
    BY <1>3, <1>15, <1>20 DEF SameBinders
  <2>4. \A x : x \in W <=> x \in V \/ x \in {Len(heap) + 1, Len(heap) + 2}
    BY <1>24
  <2>5. /\ Shaped(heap) /\ freed \subseteq 1..Len(heap) /\ Owned(heap, freed, root)
        /\ m \in Nat \ {0} /\ m = Len(worklist)
    BY <1>3, <1>4, <1>8
  <2>6. Len(w2) = m - 1 /\ \A x \in 1..(m - 1) : w2[x] = worklist[x]
    BY <1>23
  <2>7. Calling(heap, h2, freed, f2, worklist, w2, V, W, m, e, lo, li)
    BY ONLY <2>1, <2>2, <2>3, <2>4, <2>5, <2>6 DEF Calling
  <2>8. Shaped(heap) /\ freed \subseteq 1..Len(heap) /\ Owned(heap, freed, root)
    BY <2>5
  <2>. QED  BY ONLY <1>7, <1>22, <2>7, <2>8, CallSeen
<1>26. heap' = h2 /\ root' = r2 /\ freed' = f2 /\ worklist' = w2
  BY <1>1, <1>16, <1>17, <1>18, <1>19
<1>27. OwnInv'
  <2>1. Original(input, h2, f2, W)
    <3>1. ASSUME NEW x \in Live(h2, f2), x \notin W
          PROVE  x \in Live(heap, freed) /\ x \notin V /\ h2[x] = heap[x]
      <4>1. x \in 1..(n + 2) /\ x \notin freed /\ x \notin V /\ x # n + 1 /\ x # n + 2
        BY <1>3, <1>19, <1>20, <1>24, <3>1 DEF Live
      <4>2. x \in 1..n /\ x # lo
        BY <1>9, <4>1 DEF Null
      <4>3. h2[x] = heap[x]
        BY <1>15, <1>20, <4>2
      <4>. QED  BY <1>3, <4>1, <4>2, <4>3 DEF Live
    <3>. QED  BY <1>7, <3>1, OriginalKept
  <2>. QED  BY <1>1, <1>25, <1>26, <2>1 DEF OwnInv
<1>28. TypeInv'
  <2>1. f2 \subseteq 1..Len(h2)
    <3>1. \A x \in f2 : x \in 1..n
      BY <1>8, <1>19
    <3>2. \A x \in 1..n : x \in 1..(n + 2)
      OBVIOUS
    <3>. QED  BY <1>20, <3>1, <3>2
  <2>2. WalkInv'
    <3>1. \A x \in WalkRec(n) : x \in WalkRec(n + 2)
      <4>1. \A x \in 1..n : x \in 1..(n + 2)
        OBVIOUS
      <4>. QED  BY <4>1 DEF WalkRec
    <3>2. walk \in Seq(WalkRec(n))
      BY <1>3 DEF TypeInv, WalkInv
    <3>3. walk \in Seq(WalkRec(n + 2))
      BY <3>1, <3>2, SeqMonotonic
    <3>4. walk' \in Seq(WalkRec(Len(heap')))
      BY <1>1, <1>20, <1>26, <3>3
    <3>. QED  BY <1>1, <3>4 DEF TypeInv, WalkInv
  <2>3. Ranked(h2)
    <3>1. \A o \in 1..Len(heap) :
             /\ Len(h2[o].kids) = Len(heap[o].kids)
             /\ \A i \in 1..Len(heap[o].kids) :
                   h2[o].kids[i] = IF o = lo /\ i = li THEN Len(heap) + 2 ELSE heap[o].kids[i]
      BY <1>3, <1>15, <1>20
    <3>2. lo \in 1..Len(heap) => li \in 1..Len(heap[lo].kids) /\ heap[lo].kids[li] = e
      BY <1>9, <1>10 DEF To, Null
    <3>3. /\ h2[Len(heap) + 1].kids = <<heap[e].kids[1]>> /\ h2[Len(heap) + 2].kids = <<Len(heap) + 1>>
          /\ Len(h2) = Len(heap) + 2 /\ e \in 1..Len(heap) /\ Len(heap[e].kids) = 1
      BY <1>3, <1>8, <1>11, <1>13, <1>20
    <3>4. Shaped(heap) /\ Ranked(heap)
      BY DEF TypeInv
    <3>5. Inserts(heap, h2, e, lo, li)
      BY ONLY <3>1, <3>2, <3>3 DEF Inserts
    <3>. QED  BY ONLY <3>4, <3>5, ReplacesRanked
  <2>4. Len(input) <= Len(h2)
    <3>1. Len(input) <= n /\ Len(input) \in Nat
      BY <1>3, TermOwned, LenProperties DEF TypeInv, Shaped
    <3>. QED  BY <1>20, <3>1
  <2>. QED  BY <1>1, <1>21, <1>23, <1>26, <2>1, <2>2, <2>3, <2>4 DEF TypeInv
<1>29. CallReplaces(heap, h2, freed, f2, root, r2, worklist, w2, t, lo, li)
  <2>1. Rewired(heap, h2, freed, f2, root, r2, e, lo, li)
    <3>1. \A x : x \in f2 <=> x \in freed \/ x = e
      BY <1>19
    <3>2. lo # e
      <4>1. m \in 1..m /\ ~(m < m) /\ m = Len(worklist)
        BY <1>4
      <4>2. \A x, y \in 1..Len(worklist) :
               worklist[x].kind = "call" /\ worklist[y].link.owner = worklist[x].exp => x < y
        BY <1>7 DEF Seen
      <4>3. worklist[m].kind = "call" /\ worklist[m].link.owner = lo /\ worklist[m].exp = e
        BY <1>2, <1>4, <1>8
      <4>. QED  BY ONLY <4>1, <4>2, <4>3
    <3>3. freed \subseteq 1..Len(heap) /\ Shaped(heap) /\ Owned(heap, freed, root) /\ Len(heap[e].kids) = 1
      BY <1>3, <1>8, <1>11
    <3>. QED  BY ONLY <1>9, <1>22, <3>1, <3>2, <3>3, ReplacesOwned
  <2>2. \A b \in 1..n : SameBinders(heap, h2, b)
    BY <1>15, <1>20 DEF SameBinders
  <2>3. \A x : x \in f2 <=> x \in freed \/ x = e
    BY <1>19
  <2>4. /\ h2[n + 1].tag = "App" /\ h2[n + 1].name = heap[e].name /\ h2[n + 1].kids = <<heap[e].kids[1]>>
        /\ h2[n + 2].tag = "Proj" /\ h2[n + 2].name = t.proj /\ h2[n + 2].kids = <<n + 1>>
    BY <1>13, <1>20
  <2>5. e = t.exp /\ t.kind = "call"
    BY <1>2, <1>8
  <2>. QED  BY ONLY <1>3, <1>4, <1>9, <1>20, <1>23, <2>1, <2>2, <2>3, <2>4, <2>5 DEF CallReplaces
<1>. QED  BY <1>2, <1>26, <1>27, <1>28, <1>29
\* freeVars is called with the node of the task, which its link owns.
LEMMA EnterInv ==
  ASSUME TypeInv, OwnInv, EnterFreeVars
  PROVE  TypeInv' /\ OwnInv'
<1>1. /\ worklist # <<>> /\ Task.kind = "node" /\ heap[Task.exp].tag = "Fun" /\ status' = "walk"
      /\ heap' = heap /\ freed' = freed /\ root' = root /\ worklist' = worklist /\ counter' = counter
      /\ freeVars' = {} /\ walk' = <<VisitTask(Deref(heap, root, Task.link))>> /\ input' = input
  BY DEF EnterFreeVars, Visits, CallFreeVars, Searched
<1>2. Deref(heap, root, Task.link) \in 1..Len(heap)
  <2>1. PICK V : Seen(heap, freed, root, worklist, V)
    BY DEF OwnInv
  <2>2. PICK n \in Nat \ {0} : n = Len(worklist) /\ Task = worklist[n]
    BY <1>1, TopTask
  <2>3. n \in 1..Len(worklist)
    BY <2>2
  <2>4. TaskOK(heap, freed, root, V, Task)
    BY <2>1, <2>2, <2>3 DEF Seen
  <2>5. Deref(heap, root, Task.link) = Task.exp
    BY <2>4 DEF TaskOK, Deref, To
  <2>. QED  BY <1>1, <2>5, TopTask
<1>3. WalkInv'
  <2>1. PICK v : v = VisitTask(Deref(heap, root, Task.link))
    OBVIOUS
  <2>2. v \in WalkRec(Len(heap))
    BY <1>2, <2>1 DEF VisitTask, WalkRec
  <2>3. walk' \in Seq(WalkRec(Len(heap'))) /\ freeVars' \subseteq Ident
    BY <1>1, <2>1, <2>2
  <2>4. IsFiniteSet(freeVars')
    BY <1>1, FS_EmptySet
  <2>. QED  BY <2>3, <2>4 DEF WalkInv
<1>4. TypeInv'
  BY <1>1, <1>3 DEF TypeInv, Task
<1>. QED  BY <1>1, <1>4 DEF OwnInv

\* freeVars changes the set and its own stack.
LEMMA InFreeVarsInv ==
  ASSUME TypeInv, OwnInv, InFreeVars
  PROVE  TypeInv' /\ OwnInv'
<1>1. /\ Walk /\ heap' = heap /\ freed' = freed /\ root' = root /\ worklist' = worklist
      /\ counter' = counter /\ status' = status /\ input' = input
  BY DEF InFreeVars
<1>2. WalkInv'
  BY <1>1, WalkStep DEF TypeInv, WalkInv
<1>. QED  BY <1>1, <1>2 DEF TypeInv, OwnInv, Task

\* Every step preserves the invariant.
LEMMA StepInv == TypeInv /\ OwnInv /\ [Next]_vars => (TypeInv /\ OwnInv)'
<1>. SUFFICES ASSUME TypeInv, OwnInv, [Next]_vars PROVE TypeInv' /\ OwnInv'
  OBVIOUS
<1>1. CASE EnterFreeVars
  BY <1>1, EnterInv
<1>2. CASE InFreeVars
  BY <1>2, InFreeVarsInv
<1>3. CASE VisitFun
  BY <1>3, VisitFunInv
<1>4. CASE VisitApp
  BY <1>4, VisitAppInv
<1>5. CASE RunCall
  BY <1>5, RunCallInv
<1>6. CASE VisitOther
  BY <1>6, VisitOtherInv
<1>7. CASE Return
  <2>1. /\ status' = "done" /\ heap' = heap /\ freed' = freed /\ root' = root
        /\ worklist' = worklist /\ counter' = counter /\ freeVars' = freeVars /\ walk' = walk
        /\ input' = input
    BY <1>7 DEF Return, walkVars
  <2>. QED  BY <2>1 DEF TypeInv, OwnInv, WalkInv, Task
<1>8. CASE UNCHANGED vars
  <2>1. /\ status' = status /\ heap' = heap /\ freed' = freed /\ root' = root
        /\ worklist' = worklist /\ counter' = counter /\ freeVars' = freeVars /\ walk' = walk
        /\ input' = input
    BY <1>8 DEF vars, walkVars
  <2>. QED  BY <2>1 DEF TypeInv, OwnInv, WalkInv, Task
<1>. QED  BY <1>1, <1>2, <1>3, <1>4, <1>5, <1>6, <1>7, <1>8 DEF Next, Terminated

-----------------------------------------------------------------------------
(***************************************************************************)
(* Names in a term.                                                        *)
(***************************************************************************)
(***************************************************************************)
(* A name that is free in a node is free in the term, or bound above.      *)
(***************************************************************************)
LEMMA FreeAbove ==
  ASSUME NEW h, IsTerm(h), NEW a \in 1..Len(h), NEW x \in Free(h)[a]
  PROVE  \/ x \in Free(h)[Len(h)]
         \/ \E b \in 1..Len(h) : b > a /\ \E j \in 1..Len(h[b].kids) : x \in BoundIn(h[b], j)
<1>1. PICK n \in Nat \ {0} : n = Len(h)
  <2>1. Shaped(h) /\ Len(h) \in 1..Len(h)
    BY TermOwned
  <2>. QED  BY <2>1, LenProperties DEF Shaped
<1>2. PICK G : G = Free(h)
  OBVIOUS
<1>3. \A b \in 1..n : G[b] = FreeBelow(h, G, b)
  BY <1>1, <1>2, FreeIs, TermRanked, TermOwned
<1>. DEFINE Above(c) == \E b \in 1..n : b > c /\ \E j \in 1..Len(h[b].kids) : x \in BoundIn(h[b], j)
            T == {k \in Nat : \E c \in 1..n : k = n - c /\ x \in G[c] /\ ~(x \in G[n] \/ Above(c))}
<1>4. T = {}
  <2>. SUFFICES ASSUME T # {} PROVE FALSE
    OBVIOUS
  <2>1. PICK m \in T : \A k \in T : m <= k
    <3>1. T \subseteq Nat
      OBVIOUS
    <3>. QED  BY ONLY <3>1, T # {}, LeastNumber
  <2>2. PICK c \in 1..n : m = n - c /\ x \in G[c] /\ ~(x \in G[n] \/ Above(c))
    OBVIOUS
  <2>3. c # n /\ c \in 1..(n - 1)
    BY <1>1, <2>2
  <2>4. PICK b \in 1..n : \E i \in 1..Len(h[b].kids) : h[b].kids[i] = c
    BY <1>1, <2>3 DEF IsTerm
  <2>5. PICK i \in 1..Len(h[b].kids) : h[b].kids[i] = c
    BY <2>4
  <2>6. c \in 1..(b - 1)
    BY <1>1, <2>5 DEF IsTerm
  <2>7. b > c /\ b \in 1..n
    BY <2>6
  <2>8. x \notin BoundIn(h[b], i)
    BY <2>2, <2>7
  <2>9. x \in G[b]
    <3>1. x \in G[h[b].kids[i]] \ BoundIn(h[b], i)
      BY <2>2, <2>5, <2>8
    <3>2. x \in FreeBelow(h, G, b)
      BY <3>1, InFreeBelow
    <3>. QED  BY <1>3, <3>2
  <2>10. ~Above(b)
    <3>1. \A d \in 1..n : d > b => d > c
      <4>. SUFFICES ASSUME NEW d \in 1..n, d > b PROVE d > c
        OBVIOUS
      <4>1. n \in Nat
        BY <1>1
      <4>. QED  BY ONLY <2>7, <4>1, d \in 1..n, d > b, c \in 1..n
    <3>2. ~Above(c)
      BY <2>2
    <3>. QED  BY ONLY <3>1, <3>2
  <2>11. n - b \in T
    BY <2>2, <2>7, <2>9, <2>10
  <2>12. ~(m <= n - b)
    BY <2>2, <2>7
  <2>. QED  BY <2>1, <2>11, <2>12
<1>5. n - a \in Nat /\ n - a \notin T
  <2>1. n - a \in Nat
    BY ONLY <1>1, a \in 1..Len(h)
  <2>. HIDE DEF T
  <2>. QED  BY <1>4, <2>1
<1>6. x \in G[n] \/ Above(a)
  <2>1. a \in 1..n /\ x \in G[a]
    BY <1>1, <1>2
  <2>2. n - a \notin T => ~(n - a = n - a /\ x \in G[a] /\ ~(x \in G[n] \/ Above(a)))
    BY <1>5, <2>1
  <2>. HIDE DEF Above, T
  <2>. QED  BY <1>5, <2>1, <2>2
<1>. QED  BY <1>1, <1>2, <1>6

\* A name bound in a node of a hygienic term is not free in what encloses the node.
LEMMA BoundNotFree ==
  ASSUME NEW h, IsTerm(h), Hygienic(h), NEW t \in 1..Len(h), NEW a \in 1..t,
         NEW i \in 1..Len(h[a].kids), NEW x \in BoundIn(h[a], i)
  PROVE  x \notin Free(h)[t]
<1>1. Len(h) \in Nat
  BY TermOwned, LenProperties DEF Shaped
<1>2. a \in 1..Len(h) /\ a <= t
  BY <1>1
<1>3. x \notin Free(h)[Len(h)]
  BY <1>2 DEF Hygienic
<1>4. \A b \in 1..Len(h) : \A j \in 1..Len(h[b].kids) : x \in BoundIn(h[b], j) => a = b
  BY <1>2 DEF Hygienic
<1>. QED  BY <1>1, <1>2, <1>3, <1>4, FreeAbove

-----------------------------------------------------------------------------
(***************************************************************************)
(* What the walk returns.                                                  *)
(***************************************************************************)
\* No task among the first n of w erases x.
Passes(w, n, x) == \A m \in 1..n : w[m].kind = "erase" => x \notin w[m].names

\* A task of w finds x, where G are the free names of the nodes, and none below it erases x.
Finds(w, G, x) ==
    \E n \in 1..Len(w) : w[n].kind = "visit" /\ x \in G[w[n].exp] /\ Passes(w, n - 1, x)

\* x is in what the walk w returns that starts with the set S.
Returns(w, S, G, x) == (x \in S /\ Passes(w, Len(w), x)) \/ Finds(w, G, x)

LEMMA WillReturnIs ==
  ASSUME NEW x
  PROVE  x \in WillReturn <=> Returns(walk, freeVars, Free(heap), x)
BY DEF WillReturn, Kept, Returns, Finds, Passes

\* Tasks on top of others: what they return passes the others.
LEMMA ReturnsBelow ==
  ASSUME NEW R, NEW u \in Seq(R), NEW q \in Seq(R), NEW S, NEW G, NEW x
  PROVE  Returns(u \o q, S, G, x) <=>
            Finds(u, G, x) \/ (Passes(u, Len(u), x) /\ Returns(q, S, G, x))
<1>1. PICK w, n, k : w = u \o q /\ n = Len(u) /\ k = Len(q)
  OBVIOUS
<1>2. /\ n \in Nat /\ k \in Nat /\ Len(w) = n + k
      /\ \A i \in 1..n : w[i] = u[i]
      /\ \A i \in 1..k : w[n + i] = q[i]
  <2>1. /\ Len(u \o q) = Len(u) + Len(q) /\ Len(u) \in Nat /\ Len(q) \in Nat
        /\ \A i \in 1..(Len(u) + Len(q)) :
              (u \o q)[i] = IF i <= Len(u) THEN u[i] ELSE q[i - Len(u)]
    BY ConcatProperties, LenProperties
  <2>2. /\ n \in Nat /\ k \in Nat /\ Len(w) = n + k
        /\ \A i \in 1..(n + k) : w[i] = IF i <= n THEN u[i] ELSE q[i - n]
    BY ONLY <1>1, <2>1
  <2>3. \A i \in 1..n : i \in 1..(n + k) /\ i <= n
    BY ONLY <2>2
  <2>4. \A i \in 1..k : n + i \in 1..(n + k) /\ ~(n + i <= n) /\ (n + i) - n = i
    BY ONLY <2>2
  <2>. QED  BY ONLY <2>2, <2>3, <2>4
<1>3. \A i \in 0..n : Passes(w, i, x) <=> Passes(u, i, x)
  <2>1. \A i \in 0..n : \A m \in 1..i : m \in 1..n
    BY <1>2
  <2>. QED  BY <1>2, <2>1 DEF Passes
<1>4. ASSUME NEW j \in 0..k
      PROVE  Passes(w, n + j, x) <=> Passes(u, n, x) /\ Passes(q, j, x)
  <2>1. \A m \in 1..(n + j) : m \in 1..n \/ \E i \in 1..j : m = n + i
    <3>. SUFFICES ASSUME NEW m \in 1..(n + j), m \notin 1..n PROVE \E i \in 1..j : m = n + i
      OBVIOUS
    <3>1. m - n \in 1..j /\ m = n + (m - n)
      BY <1>2
    <3>. QED  BY <3>1
  <2>2. (\A m \in 1..n : m \in 1..(n + j)) /\ (\A i \in 1..j : n + i \in 1..(n + j) /\ i \in 1..k)
    BY <1>2
  <2>3. \A m \in 1..n : w[m] = u[m]
    BY ONLY <1>2
  <2>4. \A i \in 1..j : w[n + i] = q[i]
    BY ONLY <1>2, <2>2
  <2>. QED  BY ONLY <2>1, <2>2, <2>3, <2>4 DEF Passes
<1>5. Finds(w, G, x) <=> Finds(u, G, x) \/ (Passes(u, n, x) /\ Finds(q, G, x))
  <2>1. ASSUME Finds(w, G, x)
        PROVE  Finds(u, G, x) \/ (Passes(u, n, x) /\ Finds(q, G, x))
    <3>1. PICK i \in 1..(n + k) : w[i].kind = "visit" /\ x \in G[w[i].exp] /\ Passes(w, i - 1, x)
      BY <1>2, <2>1 DEF Finds
    <3>2. CASE i \in 1..n
      <4>1. i - 1 \in 0..n
        BY <1>2, <3>2
      <4>. QED  BY <1>1, <1>2, <1>3, <3>1, <3>2, <4>1 DEF Finds
    <3>3. CASE i \notin 1..n
      <4>1. PICK j \in 1..k : i = n + j
        <5>1. i - n \in 1..k /\ i = n + (i - n)
          BY <1>2, <3>3
        <5>. QED  BY <5>1
      <4>2. j - 1 \in 0..k /\ i - 1 = n + (j - 1)
        BY <1>2, <4>1
      <4>3. Passes(u, n, x) /\ Passes(q, j - 1, x)
        BY <1>4, <3>1, <4>2
      <4>. QED  BY <1>1, <1>2, <3>1, <4>1, <4>3 DEF Finds
    <3>. QED  BY <3>2, <3>3
  <2>2. ASSUME Finds(u, G, x)
        PROVE  Finds(w, G, x)
    <3>1. PICK i \in 1..n : u[i].kind = "visit" /\ x \in G[u[i].exp] /\ Passes(u, i - 1, x)
      BY <1>1, <2>2 DEF Finds
    <3>2. i - 1 \in 0..n /\ i \in 1..(n + k)
      BY <1>2
    <3>. QED  BY <1>2, <1>3, <3>1, <3>2 DEF Finds
  <2>3. ASSUME Passes(u, n, x), Finds(q, G, x)
        PROVE  Finds(w, G, x)
    <3>1. PICK j \in 1..k : q[j].kind = "visit" /\ x \in G[q[j].exp] /\ Passes(q, j - 1, x)
      BY <1>1, <2>3 DEF Finds
    <3>2. j - 1 \in 0..k /\ n + j \in 1..(n + k) /\ (n + j) - 1 = n + (j - 1)
      BY <1>2
    <3>3. Passes(w, (n + j) - 1, x)
      BY <1>4, <2>3, <3>1, <3>2
    <3>. QED  BY <1>2, <3>1, <3>2, <3>3 DEF Finds
  <2>. QED  BY <2>1, <2>2, <2>3
<1>6. Passes(w, Len(w), x) <=> Passes(u, n, x) /\ Passes(q, Len(q), x)
  <2>1. k \in 0..k
    BY <1>2
  <2>. QED  BY <1>1, <1>2, <1>4, <2>1
<1>. QED  BY <1>1, <1>5, <1>6 DEF Returns

\* One task.
LEMMA ReturnsOne ==
  ASSUME NEW t, NEW S, NEW G, NEW x
  PROVE  /\ t.kind = "visit" => (Returns(<<t>>, S, G, x) <=> x \in S \/ x \in G[t.exp])
         /\ t.kind = "erase" => (Returns(<<t>>, S, G, x) <=> x \in S /\ x \notin t.names)
<1>1. PICK w : w = <<t>>
  OBVIOUS
<1>2. Len(w) = 1 /\ w[1] = t /\ \A n \in 1..1 : n = 1 /\ n - 1 = 0
  BY <1>1
<1>3. /\ Passes(w, 0, x)
      /\ Passes(w, 1, x) <=> (t.kind = "erase" => x \notin t.names)
  BY <1>2 DEF Passes
<1>4. Finds(w, G, x) <=> t.kind = "visit" /\ x \in G[t.exp]
  BY <1>2, <1>3 DEF Finds
<1>. QED  BY <1>1, <1>2, <1>3, <1>4 DEF Returns

-----------------------------------------------------------------------------
(***************************************************************************)
(* The tasks for the children of a node.                                   *)
(***************************************************************************)
\* q has a task to visit every child of node a, and above the erasure of what a binds in it.
Scopes(h, a, q) ==
    LET K == Len(h[a].kids)
    IN  /\ \A j \in 1..Len(q) : q[j].kind = "visit" =>
              \E i \in 1..K : /\ q[j].exp = h[a].kids[i]
                              /\ \A x : Passes(q, j - 1, x) => x \notin BoundIn(h[a], i)
        /\ \A j \in 1..Len(q) : q[j].kind = "erase" => \E i \in 1..K : q[j].names = BoundIn(h[a], i)
        /\ \A i \in 1..K : \E j \in 1..Len(q) : q[j].kind = "visit" /\ q[j].exp = h[a].kids[i]

\* The tasks for one child.
LEMMA ScopeTasksAre ==
  ASSUME Shaped(heap), NEW a \in 1..Len(heap), NEW i \in 1..Len(heap[a].kids)
  PROVE  \/ /\ Len(ScopeTasks(a, i)) = 2
            /\ ScopeTasks(a, i)[1] = EraseTask(BoundIn(heap[a], i))
            /\ ScopeTasks(a, i)[2] = VisitTask(heap[a].kids[i])
         \/ /\ Len(ScopeTasks(a, i)) = 1 /\ BoundIn(heap[a], i) = {}
            /\ ScopeTasks(a, i)[1] = VisitTask(heap[a].kids[i])
<1>1. PICK s, e, v : /\ s = ScopeTasks(a, i)
                     /\ e = EraseTask(BoundIn(heap[a], i)) /\ v = VisitTask(heap[a].kids[i])
  OBVIOUS
<1>. DEFINE Plain == heap[a].tag = "If" \/ (heap[a].tag = "Join" /\ i = 1 /\ heap[a].params = <<>>)
<1>2. s = (IF Plain THEN <<>> ELSE <<e>>) \o <<v>>
  BY <1>1, Zenon DEF ScopeTasks
<1>3. CASE Plain
  <2>1. s = <<>> \o <<v>>
    BY <1>2, <1>3, Zenon
  <2>2. Len(s) = 1 /\ s[1] = v
    BY ONLY <2>1
  <2>3. BoundIn(heap[a], i) = {}
    <3>1. CASE heap[a].tag = "If"
      BY <3>1, Zenon DEF BoundIn
    <3>2. CASE heap[a].tag = "Join" /\ i = 1 /\ heap[a].params = <<>>
      <4>1. BoundIn(heap[a], i) = Range(heap[a].params)
        BY <3>2 DEF BoundIn
      <4>2. Range(<<>>) = {}
        BY DEF Range
      <4>. QED  BY <3>2, <4>1, <4>2
    <3>. QED  BY <1>3, <3>1, <3>2
  <2>. QED  BY <1>1, <2>2, <2>3
<1>4. CASE ~Plain
  <2>1. s = <<e>> \o <<v>>
    BY <1>2, <1>4, Zenon
  <2>2. Len(s) = 2 /\ s[1] = e /\ s[2] = v
    BY ONLY <2>1
  <2>. QED  BY <1>1, <2>2
<1>. QED  BY <1>3, <1>4

LEMMA ScopesPushed ==
  ASSUME Shaped(heap), NEW a \in 1..Len(heap), NEW q,
         q = FlattenSeq([i \in 1..Len(heap[a].kids) |-> ScopeTasks(a, i)])
  PROVE  q \in Seq(WalkRec(Len(heap))) /\ Scopes(heap, a, q)
<1>. DEFINE R == WalkRec(Len(heap))
<1>1. PICK K \in Nat : K = Len(heap[a].kids)
  BY NodeOf
<1>2. PICK s : s = [i \in 1..K |-> ScopeTasks(a, i)]
  OBVIOUS
<1>3. \A i \in 1..K : s[i] \in Seq(R)
  BY <1>1, <1>2, ScopeTasksType
<1>4. s \in Seq(Seq(R)) /\ Len(s) = K
  <2>. HIDE DEF R
  <2>1. \A i \in 1..K : ScopeTasks(a, i) \in Seq(R)
    BY <1>2, <1>3
  <2>. QED  BY <1>2, <2>1
<1>5. q = FlattenSeq(s)
  BY <1>1, <1>2
<1>6. q \in Seq(R) /\ \E at : Places(s, K, q, at)
  <2>. HIDE DEF R
  <2>. QED  BY <1>4, <1>5, FlattenPlaces
<1>7. PICK at : Places(s, K, q, at)
  BY <1>6
<1>8. ASSUME NEW i \in 1..K
      PROVE  \/ /\ Len(s[i]) = 2
                /\ s[i][1].kind = "erase" /\ s[i][1].names = BoundIn(heap[a], i)
                /\ s[i][2].kind = "visit" /\ s[i][2].exp = heap[a].kids[i]
             \/ /\ Len(s[i]) = 1 /\ BoundIn(heap[a], i) = {}
                /\ s[i][1].kind = "visit" /\ s[i][1].exp = heap[a].kids[i]
  <2>1. s[i] = ScopeTasks(a, i) /\ i \in 1..Len(heap[a].kids)
    BY <1>1, <1>2
  <2>2. \/ /\ Len(s[i]) = 2
           /\ s[i][1] = EraseTask(BoundIn(heap[a], i)) /\ s[i][2] = VisitTask(heap[a].kids[i])
        \/ /\ Len(s[i]) = 1 /\ BoundIn(heap[a], i) = {}
           /\ s[i][1] = VisitTask(heap[a].kids[i])
    BY <2>1, ScopeTasksAre
  <2>. QED  BY <2>2 DEF EraseTask, VisitTask
<1>9. /\ at \in [1..K -> 0..Len(q)] /\ Len(q) \in Nat
      /\ \A i \in 1..K : \A j \in 1..Len(s[i]) : at[i] + j \in 1..Len(q) /\ q[at[i] + j] = s[i][j]
      /\ \A j \in 1..Len(q) : \E i \in 1..K : \E m \in 1..Len(s[i]) : j = at[i] + m
  BY <1>6, <1>7, LenProperties DEF Places
<1>10. ASSUME NEW j \in 1..Len(q)
       PROVE  \E i \in 1..K : \E m \in 1..Len(s[i]) : j = at[i] + m /\ q[j] = s[i][m]
  <2>1. PICK i \in 1..K : \E m \in 1..Len(s[i]) : j = at[i] + m
    BY ONLY <1>9, j \in 1..Len(q)
  <2>2. PICK m \in 1..Len(s[i]) : j = at[i] + m
    BY ONLY <2>1
  <2>3. q[at[i] + m] = s[i][m]
    BY ONLY <1>9, i \in 1..K, m \in 1..Len(s[i])
  <2>. QED  BY ONLY <2>2, <2>3, i \in 1..K, m \in 1..Len(s[i])
<1>11. ASSUME NEW j \in 1..Len(q), q[j].kind = "visit"
       PROVE  \E i \in 1..K : /\ q[j].exp = heap[a].kids[i]
                              /\ \A x : Passes(q, j - 1, x) => x \notin BoundIn(heap[a], i)
  <2>1. PICK i \in 1..K : \E m \in 1..Len(s[i]) : j = at[i] + m /\ q[j] = s[i][m]
    BY <1>10
  <2>2. PICK m \in 1..Len(s[i]) : j = at[i] + m /\ q[j] = s[i][m]
    BY <2>1
  <2>3. CASE Len(s[i]) = 2
    <3>1. /\ s[i][1].kind = "erase" /\ s[i][1].names = BoundIn(heap[a], i)
          /\ s[i][2].kind = "visit" /\ s[i][2].exp = heap[a].kids[i]
      BY <1>8, <2>3
    <3>2. m = 2
      <4>1. m \in {1, 2}
        BY <2>2, <2>3
      <4>2. m # 1
        BY <1>11, <2>2, <3>1
      <4>. QED  BY <4>1, <4>2
    <3>3. at[i] + 1 \in 1..(j - 1) /\ q[at[i] + 1] = s[i][1]
      <4>1. 1 \in 1..Len(s[i]) /\ at[i] \in Nat /\ j = at[i] + 2
        BY <1>9, <2>2, <2>3, <3>2
      <4>2. q[at[i] + 1] = s[i][1]
        BY <1>9, <4>1
      <4>3. at[i] + 1 \in 1..(j - 1)
        BY <4>1
      <4>. QED  BY <4>2, <4>3
    <3>. QED  BY <2>2, <3>1, <3>2, <3>3 DEF Passes
  <2>4. CASE Len(s[i]) # 2
    <3>1. Len(s[i]) = 1 /\ BoundIn(heap[a], i) = {} /\ s[i][1].exp = heap[a].kids[i]
      BY <1>8, <2>4
    <3>2. m = 1
      BY <2>2, <3>1
    <3>3. q[j].exp = heap[a].kids[i]
      BY <2>2, <3>1, <3>2
    <3>. QED  BY <3>1, <3>3
  <2>. QED  BY <2>3, <2>4
<1>12. ASSUME NEW j \in 1..Len(q), q[j].kind = "erase"
       PROVE  \E i \in 1..K : q[j].names = BoundIn(heap[a], i)
  <2>1. PICK i \in 1..K : \E m \in 1..Len(s[i]) : j = at[i] + m /\ q[j] = s[i][m]
    BY <1>10
  <2>2. PICK m \in 1..Len(s[i]) : q[j] = s[i][m]
    BY <2>1
  <2>3. m \in {1, 2} /\ (m = 2 => Len(s[i]) = 2)
    <3>1. Len(s[i]) = 1 \/ Len(s[i]) = 2
      BY <1>8
    <3>. QED  BY <2>2, <3>1
  <2>4. s[i][2].kind = "visit" \/ m = 1
    BY <1>8, <2>3
  <2>5. m = 1 /\ s[i][1].kind = "erase"
    BY <1>12, <2>2, <2>3, <2>4
  <2>6. q[j].names = BoundIn(heap[a], i)
    BY <1>8, <2>2, <2>5
  <2>. QED  BY <2>6
<1>13. ASSUME NEW i \in 1..K
       PROVE  \E j \in 1..Len(q) : q[j].kind = "visit" /\ q[j].exp = heap[a].kids[i]
  <2>1. PICK m \in 1..Len(s[i]) : s[i][m].kind = "visit" /\ s[i][m].exp = heap[a].kids[i]
    <3>1. CASE Len(s[i]) = 2
      <4>1. 2 \in 1..Len(s[i])
        BY <3>1
      <4>. QED  BY <1>8, <3>1, <4>1
    <3>2. CASE Len(s[i]) # 2
      <4>1. Len(s[i]) = 1
        BY <1>8, <3>2
      <4>2. 1 \in 1..Len(s[i])
        BY <4>1
      <4>. QED  BY <1>8, <3>2, <4>2
    <3>. QED  BY <3>1, <3>2
  <2>2. at[i] + m \in 1..Len(q) /\ q[at[i] + m] = s[i][m]
    BY <1>9
  <2>. QED  BY <2>1, <2>2
<1>. QED  BY <1>1, <1>6, <1>11, <1>12, <1>13 DEF Scopes

\* They return what is free in the node, but for what the node binds.
LEMMA ScopesReturn ==
  ASSUME NEW h, NEW a, NEW q, Scopes(h, a, q), Len(q) \in Nat, NEW S, NEW G, NEW x,
         G[a] = FreeBelow(h, G, a)
  PROVE  /\ Returns(q, S \cup Uses(h[a].vals), G, x) => x \in S \/ x \in G[a]
         /\ (\A i \in 1..Len(h[a].kids) : x \notin BoundIn(h[a], i)) /\ (x \in S \/ x \in G[a])
               => Returns(q, S \cup Uses(h[a].vals), G, x)
<1>1. x \in G[a] <=>
         \/ x \in Uses(h[a].vals)
         \/ \E i \in 1..Len(h[a].kids) : x \in G[h[a].kids[i]] /\ x \notin BoundIn(h[a], i)
  BY InFreeBelow
<1>2. ASSUME Finds(q, G, x) PROVE x \in G[a]
  BY <1>1, <1>2 DEF Finds, Scopes
<1>3. ASSUME \A i \in 1..Len(h[a].kids) : x \notin BoundIn(h[a], i)
      PROVE  \A n \in 0..Len(q) : Passes(q, n, x)
  <2>1. \A n \in 0..Len(q) : \A m \in 1..n : m \in 1..Len(q)
    OBVIOUS
  <2>. QED  BY <1>3, <2>1 DEF Passes, Scopes
<1>4. ASSUME \A i \in 1..Len(h[a].kids) : x \notin BoundIn(h[a], i),
             NEW i \in 1..Len(h[a].kids), x \in G[h[a].kids[i]]
      PROVE  Finds(q, G, x)
  <2>1. PICK j \in 1..Len(q) : q[j].kind = "visit" /\ q[j].exp = h[a].kids[i]
    BY DEF Scopes
  <2>2. j - 1 \in 0..Len(q)
    OBVIOUS
  <2>3. Passes(q, j - 1, x)
    BY <1>3, <1>4, <2>2
  <2>. QED  BY <1>4, <2>1, <2>3 DEF Finds
<1>5. Len(q) \in 0..Len(q)
  OBVIOUS
<1>. QED  BY <1>1, <1>2, <1>3, <1>4, <1>5 DEF Returns

-----------------------------------------------------------------------------
(***************************************************************************)
(* The set and the tasks of freeVars.                                      *)
(***************************************************************************)
\* D is nodes that no visitor has changed, with all that hangs below them.
Pristine(D) ==
    /\ D \subseteq 1..Len(input)
    /\ \A b \in D : /\ heap[b] = input[b]
                    /\ \A i \in 1..Len(input[b].kids) : input[b].kids[i] \in D

WalkSound ==
    status = "walk" =>
        \E D : /\ Pristine(D) /\ Task.exp \in D
               /\ \A n \in 1..Len(walk) : walk[n].kind = "visit" =>
                     walk[n].exp \in D /\ walk[n].exp <= Task.exp
               /\ Hygienic(input) =>
                     \A x : Returns(walk, freeVars, Free(heap), x) <=> x \in Free(heap)[Task.exp]

\* In such nodes the same names are free as before the conversion: by induction.
LEMMA PristineFree ==
  ASSUME TypeInv, NEW D, Pristine(D), NEW a \in D
  PROVE  Free(heap)[a] = Free(input)[a]
<1>1. PICK n, k \in Nat : n = Len(input) /\ k = Len(heap) /\ n <= k
  BY TermOwned, LenProperties DEF TypeInv, Shaped
<1>2. PICK G, H : G = Free(heap) /\ H = Free(input)
  OBVIOUS
<1>3. /\ \A b \in 1..k : G[b] = FreeBelow(heap, G, b)
      /\ \A b \in 1..n : H[b] = FreeBelow(input, H, b)
  BY <1>1, <1>2, FreeIs, TermRanked, TermOwned DEF TypeInv
<1>4. \A b \in D : /\ b \in 1..n /\ b \in 1..k /\ heap[b] = input[b]
                   /\ \A i \in 1..Len(input[b].kids) : input[b].kids[i] \in D /\ input[b].kids[i] \in 1..(b - 1)
  <2>1. \A b \in D : b \in 1..n /\ heap[b] = input[b] /\ \A i \in 1..Len(input[b].kids) : input[b].kids[i] \in D
    BY <1>1 DEF Pristine
  <2>2. \A b \in 1..n : b \in 1..k /\ \A i \in 1..Len(input[b].kids) : input[b].kids[i] \in 1..(b - 1)
    BY <1>1 DEF TypeInv, IsTerm
  <2>. QED  BY <2>1, <2>2
<1>. DEFINE T == {b \in D : G[b] # H[b]}
<1>5. T = {}
  <2>. SUFFICES ASSUME T # {} PROVE FALSE
    OBVIOUS
  <2>1. PICK m \in T : \A b \in T : m <= b
    <3>1. T \subseteq Nat
      BY <1>4
    <3>. QED  BY ONLY <3>1, T # {}, LeastNumber
  <2>2. m \in D /\ G[m] # H[m]
    OBVIOUS
  <2>3. \A i \in 1..Len(input[m].kids) : G[input[m].kids[i]] = H[input[m].kids[i]]
    <3>. SUFFICES ASSUME NEW i \in 1..Len(input[m].kids)
                  PROVE  G[input[m].kids[i]] = H[input[m].kids[i]]
      OBVIOUS
    <3>1. PICK c : c = input[m].kids[i]
      OBVIOUS
    <3>2. c \in D /\ c \in 1..(m - 1) /\ m \in Nat
      BY <1>4, <2>2, <3>1
    <3>3. ~(m <= c)
      BY <3>2
    <3>. QED  BY <2>1, <3>1, <3>2, <3>3
  <2>4. heap[m] = input[m] /\ m \in 1..n /\ m \in 1..k
    BY <1>4, <2>2
  <2>5. FreeBelow(heap, G, m) = FreeBelow(input, H, m)
    BY <2>3, <2>4 DEF FreeBelow
  <2>. QED  BY <1>3, <2>2, <2>4, <2>5
<1>. QED  BY <1>2, <1>5

\* What a node at or below the task's binds is not free in the task's.
LEMMA ScopeApart ==
  ASSUME TypeInv, NEW D, Pristine(D), Hygienic(input), NEW t \in D, NEW a \in D, a <= t,
         NEW i \in 1..Len(heap[a].kids), NEW x \in BoundIn(heap[a], i)
  PROVE  x \notin Free(heap)[t]
<1>1. t \in 1..Len(input) /\ a \in 1..Len(input) /\ heap[a] = input[a]
  BY DEF Pristine
<1>2. a \in 1..t
  BY <1>1
<1>3. x \notin Free(input)[t]
  BY <1>1, <1>2, BoundNotFree DEF TypeInv
<1>. QED  BY <1>3, PristineFree

\* A turn of the walk does not change what it will return.
LEMMA WalkStepSound ==
  ASSUME TypeInv, WalkSound, InFreeVars
  PROVE  WalkSound'
<1>1. /\ status = "walk" /\ Walk /\ heap' = heap /\ input' = input /\ worklist' = worklist
      /\ Shaped(heap) /\ walk # <<>>
  BY DEF InFreeVars, TypeInv, Walk, Collect, EraseNames
<1>2. PICK D : /\ Pristine(D) /\ Task.exp \in D
               /\ \A n \in 1..Len(walk) : walk[n].kind = "visit" =>
                     walk[n].exp \in D /\ walk[n].exp <= Task.exp
               /\ Hygienic(input) =>
                     \A x : Returns(walk, freeVars, Free(heap), x) <=> x \in Free(heap)[Task.exp]
  BY <1>1 DEF WalkSound
<1>3. PICK G, t, R, u, top : /\ G = Free(heap) /\ t = Task.exp /\ R = WalkRec(Len(heap))
                             /\ u = Front(walk) /\ top = Last(walk)
  OBVIOUS
<1>4. /\ walk \in Seq(R) /\ u \in Seq(R) /\ Len(u) = Len(walk) - 1 /\ top \in R /\ Len(walk) \in Nat \ {0}
      /\ \A i \in 1..Len(u) : u[i] = walk[i]
      /\ top = walk[Len(walk)]
  <2>1. walk \in Seq(R) /\ walk # <<>>
    BY <1>1, <1>3 DEF TypeInv, WalkInv
  <2>. QED  BY <1>3, <2>1, Pop
<1>5. walk = u \o <<top>>
  <2>1. Len(u \o <<top>>) = Len(walk) /\ \A i \in 1..Len(walk) : (u \o <<top>>)[i] = walk[i]
    BY <1>4
  <2>2. u \o <<top>> \in Seq(R)
    BY <1>4
  <2>. QED  BY <1>4, <2>1, <2>2
<1>6. \A n \in 1..Len(u) : u[n].kind = "visit" => u[n].exp \in D /\ u[n].exp <= t
  BY <1>2, <1>3, <1>4
<1>7. <<top>> \in Seq(R)
  BY <1>4
<1>8. \A x : Returns(walk, freeVars, G, x) <=>
                Finds(u, G, x) \/ (Passes(u, Len(u), x) /\ Returns(<<top>>, freeVars, G, x))
  BY <1>4, <1>5, <1>7, ReturnsBelow
<1>. SUFFICES /\ \A n \in 1..Len(walk') : walk'[n].kind = "visit" => walk'[n].exp \in D /\ walk'[n].exp <= t
              /\ Hygienic(input) =>
                    \A x : Returns(walk', freeVars', G, x) <=> Returns(walk, freeVars, G, x)
  <2>1. /\ Pristine(D)' /\ Task' = Task /\ Hygienic(input') = Hygienic(input) /\ Free(heap') = G
    BY <1>1, <1>2, <1>3 DEF Pristine, Task
  <2>. QED  BY <1>2, <1>3, <2>1 DEF WalkSound
<1>9. CASE Collect
  <2>1. PICK a : a = top.exp
    OBVIOUS
  <2>2. top.kind = "visit" /\ a \in D /\ a <= t /\ a \in 1..Len(heap) /\ a \in 1..Len(input) /\ heap[a] = input[a]
    <3>1. top.kind = "visit"
      BY <1>3, <1>9 DEF Collect
    <3>2. a \in D /\ a <= t
      BY <1>2, <1>3, <1>4, <2>1, <3>1
    <3>3. a \in 1..Len(heap)
      BY <1>3, <1>4, <2>1, <3>1 DEF WalkRec
    <3>. QED  BY <1>2, <3>1, <3>2, <3>3 DEF Pristine
  <2>3. PICK q : q = FlattenSeq([i \in 1..Len(heap[a].kids) |-> ScopeTasks(a, i)])
    OBVIOUS
  <2>4. q \in Seq(R) /\ Scopes(heap, a, q) /\ Len(q) \in Nat
    <3>1. q \in Seq(R) /\ Scopes(heap, a, q)
      BY <1>1, <1>3, <2>2, <2>3, ScopesPushed
    <3>. QED  BY <3>1, LenProperties
  <2>5. walk' = u \o q /\ freeVars' = freeVars \cup Uses(heap[a].vals)
    BY <1>3, <1>9, <2>1, <2>3 DEF Collect
  <2>6. ASSUME NEW n \in 1..Len(walk'), walk'[n].kind = "visit"
        PROVE  walk'[n].exp \in D /\ walk'[n].exp <= t
    <3>1. PICK k, l \in Nat : k = Len(u) /\ l = Len(q)
      BY <1>4, <2>4
    <3>2. /\ Len(u \o q) = k + l
          /\ \A i \in 1..(k + l) : (u \o q)[i] = IF i <= k THEN u[i] ELSE q[i - k]
      BY <1>4, <2>4, <3>1, ConcatProperties
    <3>3. n \in 1..(k + l) /\ walk'[n] = IF n <= k THEN u[n] ELSE q[n - k]
      BY <2>5, <3>2
    <3>4. CASE n <= k
      BY <1>6, <2>6, <3>1, <3>3, <3>4
    <3>5. CASE ~(n <= k)
      <4>1. n - k \in 1..l /\ walk'[n] = q[n - k]
        BY <3>1, <3>3, <3>5
      <4>2. PICK i \in 1..Len(heap[a].kids) : walk'[n].exp = heap[a].kids[i]
        BY <2>4, <2>6, <3>1, <4>1 DEF Scopes
      <4>3. heap[a].kids[i] \in D /\ heap[a].kids[i] \in 1..(a - 1)
        BY <1>2, <2>2, <4>2 DEF TypeInv, Pristine, IsTerm
      <4>4. t \in Nat
        <5>1. D \subseteq 1..Len(input)
          BY <1>2 DEF Pristine
        <5>2. t \in D
          BY <1>2, <1>3
        <5>. QED  BY <5>1, <5>2
      <4>. QED  BY <2>2, <4>2, <4>3, <4>4
    <3>. QED  BY <3>4, <3>5
  <2>7. ASSUME Hygienic(input), NEW x
        PROVE  Returns(walk', freeVars', G, x) <=> Returns(walk, freeVars, G, x)
    <3>1. Returns(walk', freeVars', G, x) <=>
             Finds(u, G, x) \/ (Passes(u, Len(u), x) /\ Returns(q, freeVars \cup Uses(heap[a].vals), G, x))
      BY <1>4, <2>4, <2>5, ReturnsBelow
    <3>2. Returns(walk, freeVars, G, x) <=>
             Finds(u, G, x) \/ (Passes(u, Len(u), x) /\ (x \in freeVars \/ x \in G[a]))
      BY <1>8, <2>1, <2>2, ReturnsOne
    <3>3. G[a] = FreeBelow(heap, G, a)
      BY <1>1, <1>3, <2>2, FreeIs DEF TypeInv
    <3>4. /\ Returns(q, freeVars \cup Uses(heap[a].vals), G, x) => x \in freeVars \/ x \in G[a]
          /\ (\A i \in 1..Len(heap[a].kids) : x \notin BoundIn(heap[a], i)) /\ (x \in freeVars \/ x \in G[a])
                => Returns(q, freeVars \cup Uses(heap[a].vals), G, x)
      BY <2>4, <3>3, ScopesReturn
    <3>5. Returns(walk, freeVars, G, x) => \A i \in 1..Len(heap[a].kids) : x \notin BoundIn(heap[a], i)
      <4>1. Returns(walk, freeVars, G, x) => x \in Free(heap)[t]
        BY <1>2, <1>3, <2>7
      <4>. QED  BY <1>1, <1>2, <1>3, <2>2, <2>7, <4>1, ScopeApart
    <3>. QED  BY <3>1, <3>2, <3>4, <3>5
  <2>. QED  BY <2>6, <2>7
<1>10. CASE EraseNames
  <2>1. top.kind = "erase" /\ walk' = u /\ freeVars' = freeVars \ top.names
    BY <1>3, <1>10 DEF EraseNames
  <2>2. ASSUME NEW x
        PROVE  Returns(walk', freeVars', G, x) <=> Returns(walk, freeVars, G, x)
    <3>1. Returns(<<top>>, freeVars, G, x) <=> x \in freeVars /\ x \notin top.names
      BY <2>1, ReturnsOne
    <3>. QED  BY <1>8, <2>1, <3>1 DEF Returns
  <2>. QED  BY <1>6, <2>1, <2>2
<1>. QED  BY <1>1, <1>9, <1>10 DEF Walk

\* The walk begins at a node that no visitor has reached.
LEMMA EnterSound ==
  ASSUME TypeInv, OwnInv, EnterFreeVars
  PROVE  WalkSound'
<1>1. /\ worklist # <<>> /\ Task.kind = "node" /\ heap[Task.exp].tag = "Fun"
      /\ heap' = heap /\ worklist' = worklist /\ input' = input
      /\ freeVars' = {} /\ walk' = <<VisitTask(Deref(heap, root, Task.link))>>
  BY DEF EnterFreeVars, Visits, CallFreeVars, Searched
<1>2. PICK V : Seen(heap, freed, root, worklist, V) /\ Original(input, heap, freed, V)
  BY DEF OwnInv
<1>3. PICK n \in Nat \ {0} : n = Len(worklist) /\ Task = worklist[n]
  BY <1>1, TopTask
<1>4. PICK t : t = Task.exp
  OBVIOUS
<1>5. t \in Live(heap, freed) /\ t \notin V /\ Shaped(heap) /\ Owned(heap, freed, root)
  BY <1>1, <1>2, <1>3, <1>4, TopUnseen DEF TypeInv, OwnInv
<1>6. Deref(heap, root, Task.link) = t
  <2>1. n \in 1..Len(worklist)
    BY <1>3
  <2>2. TaskOK(heap, freed, root, V, Task)
    BY <1>2, <1>3, <2>1 DEF Seen
  <2>. QED  BY <1>4, <2>2 DEF TaskOK, Deref, To
<1>7. PICK m \in Nat : m = Len(input) /\ m <= Len(heap) /\ Len(heap) \in Nat
  BY TermOwned, LenProperties DEF TypeInv, Shaped
<1>8. PICK D : D = {b \in 1..m : b \in Live(heap, freed) /\ b \notin V}
  OBVIOUS
<1>9. t \in D
  <2>1. t \in 1..Len(heap)
    BY <1>5 DEF Live
  <2>2. t <= m
    <3>1. ~(t <= m) => heap[t].tag \in {"Proj", "Tuple"}
      BY <1>2, <1>5, <1>7 DEF Original
    <3>. QED  BY <1>1, <1>4, <3>1
  <2>. QED  BY <1>5, <1>8, <2>1, <2>2
<1>10. ASSUME NEW b \in D
       PROVE  heap[b] = input[b] /\ \A i \in 1..Len(input[b].kids) : input[b].kids[i] \in D
  <2>1. b \in 1..m /\ b \in Live(heap, freed) /\ b \notin V /\ b <= m
    BY <1>8
  <2>2. heap[b] = input[b]
    BY <1>2, <1>7, <2>1 DEF Original
  <2>3. ASSUME NEW i \in 1..Len(input[b].kids)
        PROVE  input[b].kids[i] \in D
    <3>1. PICK c : c = input[b].kids[i]
      OBVIOUS
    <3>2. c \in 1..(b - 1)
      BY <1>7, <2>1, <3>1 DEF TypeInv, IsTerm
    <3>3. c \in 1..m
      BY <2>1, <3>2
    <3>4. c \notin V
      BY <1>2, <2>1, <2>2, <3>1 DEF Seen
    <3>5. IsLink(heap, freed, b, i) /\ To(heap, root, b, i) = c
      BY <2>1, <2>2, <3>1 DEF IsLink, To, Null
    <3>6. c \in Live(heap, freed)
      BY <1>5, <3>5, LinkNat DEF Owned
    <3>. QED  BY <1>8, <3>1, <3>3, <3>4, <3>6
  <2>. QED  BY <2>2, <2>3
<1>11. Pristine(D)'
  <2>1. Pristine(D)
    BY <1>7, <1>8, <1>10 DEF Pristine
  <2>. QED  BY <1>1, <2>1 DEF Pristine
<1>12. PICK v : v = VisitTask(t)
  OBVIOUS
<1>13. v.kind = "visit" /\ v.exp = t /\ walk' = <<v>>
  BY <1>1, <1>6, <1>12 DEF VisitTask
<1>14. \A i \in 1..Len(walk') : walk'[i].kind = "visit" => walk'[i].exp \in D /\ walk'[i].exp <= t
  <2>1. Len(<<v>>) = 1 /\ \A i \in 1..1 : <<v>>[i] = v
    OBVIOUS
  <2>2. t \in Nat /\ t <= t
    BY <1>8, <1>9
  <2>. QED  BY <1>9, <1>13, <2>1, <2>2
<1>15. \A x : Returns(walk', freeVars', Free(heap), x) <=> x \in Free(heap)[t]
  BY <1>1, <1>13, ReturnsOne
<1>16. Task'.exp = t
  BY <1>1, <1>4 DEF Task
<1>. QED  BY <1>1, <1>9, <1>11, <1>14, <1>15, <1>16 DEF WalkSound

\* Every step preserves that.
LEMMA WalkSoundStep ==
  ASSUME TypeInv, OwnInv, WalkSound, [Next]_vars
  PROVE  WalkSound'
<1>1. CASE EnterFreeVars
  BY <1>1, EnterSound
<1>2. CASE InFreeVars
  BY <1>2, WalkStepSound
<1>3. CASE VisitFun \/ VisitApp \/ RunCall \/ VisitOther \/ Return
  <2>1. status' # "walk"
    BY <1>3 DEF VisitFun, VisitApp, RunCall, VisitOther, Return, Visits
  <2>. QED  BY <2>1 DEF WalkSound
<1>4. CASE UNCHANGED vars
  <2>1. /\ status' = status /\ heap' = heap /\ input' = input /\ worklist' = worklist
        /\ freeVars' = freeVars /\ walk' = walk
    BY <1>4 DEF vars, walkVars
  <2>2. \A D : Pristine(D)' <=> Pristine(D)
    BY <2>1 DEF Pristine
  <2>3. Task' = Task
    BY <2>1 DEF Task
  <2>. QED  BY <2>1, <2>2, <2>3 DEF WalkSound
<1>. QED  BY <1>1, <1>2, <1>3, <1>4 DEF Next, Terminated

-----------------------------------------------------------------------------
(***************************************************************************)
(* The properties.                                                         *)
(***************************************************************************)
\* The links of the model.
LEMMA LinkIs ==
  ASSUME Shaped(heap), NEW l
  PROVE  /\ LinkTo(l) <=> l = Link(l.owner, l.kid) /\ IsLink(heap, freed, l.owner, l.kid)
         /\ Deref(heap, root, l) = To(heap, root, l.owner, l.kid)
<1>1. Deref(heap, root, l) = To(heap, root, l.owner, l.kid)
  BY DEF Deref, To
<1>2. ASSUME LinkTo(l)
      PROVE  l = Link(l.owner, l.kid) /\ IsLink(heap, freed, l.owner, l.kid)
  <2>1. CASE l = RootLink
    BY <2>1 DEF RootLink, Link, IsLink
  <2>2. CASE l # RootLink
    <3>1. PICK a \in Alive : \E i \in 1..2 : l = Link(a, i)
      BY <1>2, <2>2 DEF LinkTo, Links
    <3>2. PICK i \in 1..2 : l = Link(a, i)
      BY <3>1
    <3>3. l.owner = a /\ l.kid = i
      BY <3>2 DEF Link
    <3>4. a \in Live(heap, freed) /\ a \in 1..Len(heap) /\ a # Null
      BY LenProperties DEF Alive, Live, Null, Shaped
    <3>5. i <= Len(heap[a].kids)
      BY <1>2, <3>3, <3>4 DEF LinkTo
    <3>6. PICK k : k = Len(heap[a].kids)
      OBVIOUS
    <3>7. k \in {0, 1, 2}
      BY <3>4, <3>6, NodeOf
    <3>8. i \in 1..k
      BY <3>5, <3>6, <3>7
    <3>. QED  BY <3>2, <3>3, <3>4, <3>6, <3>8 DEF IsLink
  <2>. QED  BY <2>1, <2>2
<1>3. ASSUME l = Link(l.owner, l.kid), IsLink(heap, freed, l.owner, l.kid)
      PROVE  LinkTo(l)
  <2>1. CASE l.owner = Null
    BY <1>3, <2>1 DEF LinkTo, Links, RootLink, IsLink
  <2>2. CASE l.owner # Null
    <3>1. PICK a, i, k : a = l.owner /\ i = l.kid /\ k = Len(heap[a].kids)
      OBVIOUS
    <3>2. a \in Live(heap, freed) /\ a \in 1..Len(heap) /\ i \in 1..k /\ l = Link(a, i)
      BY <1>3, <2>2, <3>1 DEF IsLink, Live
    <3>3. k \in {0, 1, 2}
      BY <3>1, <3>2, NodeOf
    <3>4. i \in 1..2 /\ i <= k
      BY <3>2, <3>3
    <3>5. l \in Links
      BY <3>2, <3>4 DEF Links, Alive, Live
    <3>. QED  BY <3>1, <3>4, <3>5 DEF LinkTo
  <2>. QED  BY <2>1, <2>2
<1>. QED  BY <1>1, <1>2, <1>3

\* A task holds a link that leads to its node.
LEMMA InvNoDangling ==
  ASSUME TypeInv, OwnInv
  PROVE  NoDangling
<1>1. PICK V : Seen(heap, freed, root, worklist, V)
  BY DEF OwnInv
<1>2. SUFFICES ASSUME NEW i \in 1..Len(worklist), NEW t, t = worklist[i]
               PROVE  LinkTo(t.link) /\ t.exp \in Alive /\ Deref(heap, root, t.link) = t.exp
  BY DEF NoDangling
<1>3. TaskOK(heap, freed, root, V, t)
  BY <1>1, <1>2 DEF Seen
<1>4. t \in TaskRec
  BY <1>2, ElementOfSeq DEF TypeInv
<1>5. PICK l : l = t.link
  OBVIOUS
<1>6. l = Link(l.owner, l.kid)
  BY <1>4, <1>5 DEF TaskRec, LinkRec, Link
<1>7. IsLink(heap, freed, l.owner, l.kid) /\ To(heap, root, l.owner, l.kid) = t.exp
  BY <1>3, <1>5 DEF TaskOK
<1>8. l.owner \in Nat /\ l.kid \in Nat
  BY <1>7, LinkNat DEF TypeInv
<1>9. t.exp \in Alive
  BY <1>7, <1>8 DEF OwnInv, Owned, Live, Alive
<1>. QED  BY <1>5, <1>6, <1>7, <1>9, LinkIs DEF TypeInv

\* Links lead to the nodes that exist, one to each.
LEMMA InvOwnedOnce ==
  ASSUME TypeInv, OwnInv
  PROVE  OwnedOnce
<1>. DEFINE D == {l \in Links : LinkTo(l)}
            owns == [l \in D |-> Deref(heap, root, l)]
<1>1. Shaped(heap)
  BY DEF TypeInv
<1>2. ASSUME NEW l \in D
      PROVE  /\ l = Link(l.owner, l.kid) /\ IsLink(heap, freed, l.owner, l.kid)
             /\ l.owner \in Nat /\ l.kid \in Nat
             /\ Deref(heap, root, l) = To(heap, root, l.owner, l.kid)
  <2>1. l = Link(l.owner, l.kid) /\ IsLink(heap, freed, l.owner, l.kid)
    BY <1>1, LinkIs
  <2>2. Deref(heap, root, l) = To(heap, root, l.owner, l.kid)
    BY <1>1, LinkIs
  <2>. QED  BY <1>1, <2>1, <2>2, LinkNat
<1>3. \A l \in D : owns[l] \in Alive
  BY <1>2 DEF OwnInv, Owned, Live, Alive
<1>4. \A b \in Alive : \E l \in D : owns[l] = b
  <2>. SUFFICES ASSUME NEW b \in Alive PROVE \E l \in D : Deref(heap, root, l) = b
    OBVIOUS
  <2>1. PICK o \in Nat, i \in Nat : IsLink(heap, freed, o, i) /\ To(heap, root, o, i) = b
    BY DEF OwnInv, Owned, Live, Alive
  <2>2. PICK l : l = Link(o, i)
    OBVIOUS
  <2>3. l.owner = o /\ l.kid = i
    BY <2>2 DEF Link
  <2>4. LinkTo(l) /\ Deref(heap, root, l) = b
    BY <1>1, <2>1, <2>2, <2>3, LinkIs
  <2>. QED  BY <2>4 DEF LinkTo
<1>5. \A l, m \in D : owns[l] = owns[m] => l = m
  <2>. SUFFICES ASSUME NEW l \in D, NEW m \in D, Deref(heap, root, l) = Deref(heap, root, m)
                PROVE  l = m
    OBVIOUS
  <2>1. To(heap, root, l.owner, l.kid) = To(heap, root, m.owner, m.kid)
    BY <1>2
  <2>2. IsLink(heap, freed, l.owner, l.kid) /\ IsLink(heap, freed, m.owner, m.kid)
    BY <1>2
  <2>3. l.owner = m.owner /\ l.kid = m.kid
    BY <1>1, <2>1, <2>2, LinkInjective DEF OwnInv
  <2>4. l = Link(l.owner, l.kid) /\ m = Link(m.owner, m.kid)
    BY <1>2
  <2>. QED  BY <2>3, <2>4
<1>6. DOMAIN owns = D
  OBVIOUS
<1>7. Range(owns) = Alive /\ IsInjective(owns)
  <2>. HIDE DEF owns, D
  <2>. QED  BY <1>3, <1>4, <1>5, <1>6 DEF Range, IsInjective
<1>. QED  BY <1>7 DEF OwnedOnce

(***************************************************************************)
(* No task of closureConvert holds a dangling pointer, whatever the term:  *)
(* the link of a task lies in a node that exists and owns the node of the  *)
(* task, although nodes were wrapped and destroyed since it was pushed.    *)
(***************************************************************************)
THEOREM TasksNeverDangle == Spec => []NoDangling
<1>1. TypeInv /\ OwnInv => NoDangling
  BY InvNoDangling
<1>. QED  BY <1>1, InitInv, StepInv, PTL DEF Spec

(***************************************************************************)
(* Closure conversion loses no code and shares none, whatever the term:    *)
(* at every moment every node that was not destroyed has one owner.        *)
(***************************************************************************)
THEOREM EveryNodeOwnedOnce == Spec => []OwnedOnce
<1>1. TypeInv /\ OwnInv => OwnedOnce
  BY InvOwnedOnce
<1>. QED  BY <1>1, InitInv, StepInv, PTL DEF Spec

(***************************************************************************)
(* freeVars finds the free variables of every function, although it keeps  *)
(* one set for all scopes and searches a term that is half converted: what *)
(* it has yet to insert and to erase makes them of the set at every turn,  *)
(* whatever the term, if no name is bound twice in it and none both free   *)
(* and bound.                                                              *)
(***************************************************************************)
THEOREM FreeVariablesFound == Spec => [](Hygienic(input) => CollectsFree)
<1>1. Init => WalkSound
  BY DEF Init, WalkSound
<1>2. TypeInv /\ OwnInv /\ WalkSound /\ [Next]_vars => WalkSound'
  BY WalkSoundStep
<1>3. WalkSound => (Hygienic(input) => CollectsFree)
  <2>. SUFFICES ASSUME WalkSound, Hygienic(input), status = "walk"
                PROVE  WillReturn = Free(heap)[Task.exp]
    BY DEF CollectsFree
  <2>1. \A x : Returns(walk, freeVars, Free(heap), x) <=> x \in Free(heap)[Task.exp]
    BY DEF WalkSound
  <2>2. \A x : x \in WillReturn <=> x \in Free(heap)[Task.exp]
    BY <2>1, WillReturnIs
  <2>. QED  BY <2>2
<1>. QED  BY <1>1, <1>2, <1>3, InitInv, StepInv, PTL DEF Spec

-----------------------------------------------------------------------------
(***************************************************************************)
(* Which function a node is in: G gives for each node the FunExp in whose  *)
(* body it is, or Null for main.                                           *)
(***************************************************************************)
\* The function that what link (o, i) leads to is in.
HomeAt(h, G, o, i) ==
    IF o = Null THEN Null ELSE IF h[o].tag = "Fun" /\ i = 1 THEN o ELSE G[o]

Homed(h, fr, r, G) ==
    \A o, i : IsLink(h, fr, o, i) => G[To(h, r, o, i)] = HomeAt(h, G, o, i)

\* In a finished term a function comes after the nodes that are in it.
HomesAbove(h, G) == \A a \in 1..Len(h) : G[a] = Null \/ G[a] \in (a + 1)..Len(h)

\* What owns node b of a finished term.
OwnerOf(h, b) == CHOOSE o \in 1..Len(h) : \E i \in 1..Len(h[o].kids) : h[o].kids[i] = b
KidOf(h, b) == CHOOSE i \in 1..Len(h[OwnerOf(h, b)].kids) : h[OwnerOf(h, b)].kids[i] = b

LEMMA OwnerIs ==
  ASSUME NEW h, IsTerm(h), NEW o \in 1..Len(h), NEW i \in 1..Len(h[o].kids), NEW b, b = h[o].kids[i]
  PROVE  OwnerOf(h, b) = o /\ KidOf(h, b) = i
<1>1. \A p \in 1..Len(h) : \A j \in 1..Len(h[p].kids) : h[p].kids[j] = b => p = o /\ j = i
  BY DEF IsTerm
<1>2. OwnerOf(h, b) \in 1..Len(h) /\ \E j \in 1..Len(h[OwnerOf(h, b)].kids) : h[OwnerOf(h, b)].kids[j] = b
  BY DEF OwnerOf
<1>3. OwnerOf(h, b) = o
  BY <1>1, <1>2
<1>4. KidOf(h, b) \in 1..Len(h[o].kids) /\ h[o].kids[KidOf(h, b)] = b
  BY <1>3 DEF KidOf
<1>. QED  BY <1>1, <1>3, <1>4

HomeStep(h, G, b) ==
    IF b = Len(h) THEN Null ELSE HomeAt(h, G, OwnerOf(h, b), KidOf(h, b))

\* Every finished term has such a map.
LEMMA HomesExist ==
  ASSUME NEW h, IsTerm(h)
  PROVE  \E G : Homed(h, {}, Len(h), G) /\ HomesAbove(h, G)
<1>1. PICK n \in Nat \ {0} : n = Len(h)
  <2>1. Shaped(h) /\ Len(h) \in 1..Len(h)
    BY TermOwned
  <2>. QED  BY <2>1, LenProperties DEF Shaped
<1>2. \A b \in 1..(n - 1) : OwnerOf(h, b) \in (b + 1)..n
  <2>. SUFFICES ASSUME NEW b \in 1..(n - 1) PROVE OwnerOf(h, b) \in (b + 1)..n
    OBVIOUS
  <2>1. PICK o \in 1..n : \E i \in 1..Len(h[o].kids) : h[o].kids[i] = b
    BY <1>1 DEF IsTerm
  <2>2. PICK i \in 1..Len(h[o].kids) : h[o].kids[i] = b
    BY <2>1
  <2>3. b \in 1..(o - 1)
    BY <1>1, <2>2 DEF IsTerm
  <2>4. OwnerOf(h, b) = o
    BY <1>1, <2>2, OwnerIs
  <2>. QED  BY <2>3, <2>4
<1>. DEFINE D == 1..n
            Good(m, f) == /\ f = [b \in D |-> f[b]]
                          /\ \A b \in D : n - b < m => f[b] = HomeStep(h, f, b)
            T == {m \in Nat : ~\E f : Good(m, f)}
<1>3. T = {}
  <2>. SUFFICES ASSUME T # {} PROVE FALSE
    OBVIOUS
  <2>1. PICK m \in T : \A k \in T : m <= k
    <3>1. T \subseteq Nat
      OBVIOUS
    <3>. QED  BY ONLY <3>1, T # {}, LeastNumber
  <2>2. m \in Nat /\ ~\E f : Good(m, f)
    OBVIOUS
  <2>3. CASE m = 0
    <3>1. Good(0, [b \in D |-> Null])
      BY <1>1
    <3>. QED  BY <2>2, <2>3, <3>1
  <2>4. CASE m # 0
    <3>1. m - 1 \in Nat /\ ~(m <= m - 1)
      BY <2>2, <2>4
    <3>2. PICK f : Good(m - 1, f)
      BY <2>1, <3>1
    <3>3. PICK g : g = [b \in D |-> HomeStep(h, f, b)]
      OBVIOUS
    <3>4. \A b \in D : n - b < m - 1 => g[b] = f[b]
      BY <3>2, <3>3
    <3>5. ASSUME NEW b \in D, n - b < m
          PROVE  g[b] = HomeStep(h, g, b)
      <4>1. PICK o : o = OwnerOf(h, b)
        OBVIOUS
      <4>2. b = n \/ g[o] = f[o]
        <5>1. b = n \/ b \in 1..(n - 1)
          BY <1>1
        <5>2. b \in 1..(n - 1) => o \in D /\ n - o < m - 1
          <6>1. b \in 1..(n - 1) => o \in (b + 1)..n
            BY <1>2, <4>1
          <6>. QED  BY <1>1, <2>2, <3>5, <6>1
        <5>. QED  BY <3>4, <5>1, <5>2
      <4>3. HomeStep(h, f, b) = HomeStep(h, g, b)
        BY ONLY <1>1, <4>1, <4>2 DEF HomeStep, HomeAt
      <4>4. g[b] = HomeStep(h, f, b)
        BY ONLY <3>3, b \in D
      <4>. QED  BY ONLY <4>3, <4>4
    <3>6. Good(m, g)
      <4>1. g = [b \in D |-> g[b]]
        BY ONLY <3>3
      <4>. QED  BY ONLY <3>5, <4>1
    <3>. QED  BY <2>2, <3>6
  <2>. QED  BY <2>3, <2>4
<1>4. PICK G : Good(n, G)
  <2>1. n \in Nat /\ n \notin T
    BY <1>1, <1>3
  <2>. QED  BY ONLY <2>1
<1>5. \A b \in D : G[b] = HomeStep(h, G, b)
  <2>1. \A b \in D : n - b < n
    BY <1>1
  <2>. QED  BY <1>4, <2>1
<1>6. Homed(h, {}, n, G)
  <2>. SUFFICES ASSUME NEW o, NEW i, IsLink(h, {}, o, i)
                PROVE  G[To(h, n, o, i)] = HomeAt(h, G, o, i)
    BY DEF Homed
  <2>1. CASE o = Null
    <3>1. To(h, n, o, i) = n /\ HomeAt(h, G, o, i) = Null
      BY <2>1 DEF To, HomeAt
    <3>2. G[n] = HomeStep(h, G, n)
      BY <1>1, <1>5
    <3>. QED  BY <1>1, <3>1, <3>2 DEF HomeStep
  <2>2. CASE o # Null
    <3>1. PICK b : b = h[o].kids[i]
      OBVIOUS
    <3>2. o \in 1..n /\ i \in 1..Len(h[o].kids) /\ To(h, n, o, i) = b
      BY <1>1, <2>2, <3>1 DEF IsLink, Live, To
    <3>3. b \in 1..(o - 1)
      BY <1>1, <3>1, <3>2 DEF IsTerm
    <3>4. b \in D /\ b # n
      BY <1>1, <3>2, <3>3
    <3>5. OwnerOf(h, b) = o /\ KidOf(h, b) = i
      BY <1>1, <3>1, <3>2, OwnerIs
    <3>. QED  BY <1>1, <1>5, <3>2, <3>4, <3>5 DEF HomeStep
  <2>. QED  BY <2>1, <2>2
<1>7. HomesAbove(h, G)
  <2>. DEFINE Bad == {k \in Nat : \E b \in D : k = n - b /\ ~(G[b] = Null \/ G[b] \in (b + 1)..n)}
  <2>1. Bad = {}
    <3>. SUFFICES ASSUME Bad # {} PROVE FALSE
      OBVIOUS
    <3>1. PICK k \in Bad : \A m \in Bad : k <= m
      <4>1. Bad \subseteq Nat
        OBVIOUS
      <4>. QED  BY ONLY <4>1, Bad # {}, LeastNumber
    <3>2. PICK b \in D : k = n - b /\ ~(G[b] = Null \/ G[b] \in (b + 1)..n)
      OBVIOUS
    <3>3. b # n /\ b \in 1..(n - 1)
      BY <1>1, <1>5, <3>2 DEF HomeStep
    <3>4. PICK o : o = OwnerOf(h, b)
      OBVIOUS
    <3>5. o \in (b + 1)..n /\ o \in D
      BY <1>1, <1>2, <3>3, <3>4
    <3>6. G[b] = o \/ G[b] = G[o] \/ G[b] = Null
      BY <1>1, <1>5, <3>3, <3>4 DEF HomeStep, HomeAt
    <3>7. ~(G[o] = Null \/ G[o] \in (o + 1)..n)
      <4>1. \A x : x \in (o + 1)..n => x \in (b + 1)..n
        BY <1>1, <3>3, <3>5
      <4>. QED  BY <3>2, <3>5, <3>6, <4>1
    <3>8. n - o \in Bad /\ ~(k <= n - o)
      <4>1. n - o \in Nat /\ ~(k <= n - o)
        BY <1>1, <3>2, <3>3, <3>5
      <4>. QED  BY <3>5, <3>7, <4>1
    <3>. QED  BY <3>1, <3>8
  <2>2. ASSUME NEW b \in D
        PROVE  G[b] = Null \/ G[b] \in (b + 1)..n
    <3>1. n - b \in Nat
      BY <1>1
    <3>2. n - b \notin Bad
      BY ONLY <2>1
    <3>. QED  BY <3>1, <3>2
  <2>. QED  BY <1>1, <2>2 DEF HomesAbove
<1>. QED  BY <1>1, <1>6, <1>7

\* Wrapping keeps the new nodes in the functions they are made for.
WrapHomes(G, n, k, a, G2) ==
    /\ \A b \in 1..n : G2[b] = G[b]
    /\ \A b \in (n + 1)..(n + k) : G2[b] = a
    /\ G2[n + k + 1] = G[a]

LEMMA WrapsHomed ==
  ASSUME NEW h, NEW h2, NEW fr, NEW r, Shaped(h), Owned(h, fr, r), fr \subseteq 1..Len(h),
         NEW a \in Live(h, fr), h[a].tag = "Fun", NEW k \in Nat, Wraps(h, h2, a, k),
         \A b \in 1..Len(h) : h2[b].tag = h[b].tag,
         \A b \in 1..Len(h2) : b > Len(h) => h2[b].tag \in {"Proj", "Tuple"},
         NEW G, Homed(h, fr, r, G), NEW G2, WrapHomes(G, Len(h), k, a, G2)
  PROVE  Homed(h2, fr, r, G2)
<1>1. PICK n \in Nat : n = Len(h)
  BY LenProperties DEF Shaped
<1>2. PICK b, c : b = h[a].kids[1] /\ c = h[a].kids[2]
  OBVIOUS
<1>3. /\ Len(h2) = n + k + 1
      /\ \A x \in 1..n : x # a => h2[x].kids = h[x].kids
      /\ h2[a].kids = <<IF k = 0 THEN b ELSE n + k, n + k + 1>>
      /\ \A i \in 1..k : h2[n + i].kids = <<IF i = 1 THEN b ELSE n + i - 1>>
      /\ h2[n + k + 1].kids = <<c>>
  BY <1>1, <1>2 DEF Wraps
<1>4. /\ a \in 1..n /\ a \notin fr /\ a # Null /\ a \in Nat
      /\ Len(h[a].kids) = 2 /\ b \in 1..n /\ c \in 1..n
  <2>1. a \in 1..n /\ a \notin fr
    BY <1>1 DEF Live
  <2>2. Len(h[a].kids) = 2
    BY <1>1, <2>1, NodeOf DEF Arities
  <2>3. \A i \in 1..2 : h[a].kids[i] \in 1..n
    BY <1>1, <2>1, <2>2 DEF Shaped
  <2>. QED  BY <1>2, <2>1, <2>2, <2>3 DEF Null
<1>5. G[b] = a /\ G[c] = G[a]
  <2>1. /\ IsLink(h, fr, a, 1) /\ To(h, r, a, 1) = b
        /\ IsLink(h, fr, a, 2) /\ To(h, r, a, 2) = c
    BY <1>2, <1>4 DEF IsLink, To
  <2>2. HomeAt(h, G, a, 1) = a /\ HomeAt(h, G, a, 2) = G[a]
    BY <1>4 DEF HomeAt
  <2>. QED  BY <2>1, <2>2 DEF Homed
<1>6. /\ \A x \in 1..n : G2[x] = G[x]
      /\ \A x \in (n + 1)..(n + k) : G2[x] = a
      /\ G2[n + k + 1] = G[a]
  BY <1>1 DEF WrapHomes
<1>7. ASSUME NEW o, NEW i, IsLink(h2, fr, o, i)
      PROVE  G2[To(h2, r, o, i)] = HomeAt(h2, G2, o, i)
  <2>1. CASE o = Null
    <3>1. IsLink(h, fr, o, i) /\ To(h, r, o, i) = r /\ To(h2, r, o, i) = r
      BY <1>7, <2>1 DEF IsLink, To
    <3>2. r \in 1..n
      <4>1. o \in Nat /\ i \in Nat
        BY <3>1, LinkNat
      <4>. QED  BY <1>1, <3>1, <4>1 DEF Owned, Live
    <3>3. HomeAt(h2, G2, o, i) = Null /\ HomeAt(h, G, o, i) = Null
      BY <2>1 DEF HomeAt
    <3>. QED  BY <1>6, <3>1, <3>2, <3>3 DEF Homed
  <2>2. CASE o # Null
    <3>1. o \in 1..(n + k + 1) /\ i \in 1..Len(h2[o].kids) /\ o \notin fr /\ To(h2, r, o, i) = h2[o].kids[i]
      BY <1>3, <1>7, <2>2 DEF IsLink, Live, To
    <3>2. CASE o \in 1..n /\ o # a
      <4>1. h2[o].kids = h[o].kids /\ h2[o].tag = h[o].tag
        BY <1>1, <1>3, <3>2
      <4>2. IsLink(h, fr, o, i) /\ To(h, r, o, i) = h[o].kids[i]
        BY <1>1, <2>2, <3>1, <3>2, <4>1 DEF IsLink, Live, To
      <4>3. h[o].kids[i] \in 1..n
        BY <1>1, <3>1, <3>2, <4>1 DEF Shaped
      <4>4. HomeAt(h2, G2, o, i) = HomeAt(h, G, o, i)
        BY <1>6, <3>2, <4>1 DEF HomeAt
      <4>5. G[h[o].kids[i]] = HomeAt(h, G, o, i)
        BY <4>2 DEF Homed
      <4>. QED  BY <1>6, <3>1, <4>1, <4>3, <4>4, <4>5
    <3>3. CASE o = a
      <4>1. h2[o].tag = "Fun"
        BY <1>1, <1>4, <3>3
      <4>2. i \in {1, 2}
        BY <1>3, <3>1, <3>3
      <4>3. CASE i = 1
        <5>1. HomeAt(h2, G2, o, i) = a
          BY <2>2, <3>3, <4>1, <4>3 DEF HomeAt
        <5>2. h2[a].kids[1] = IF k = 0 THEN b ELSE n + k
          BY <1>3
        <5>3. k # 0 => n + k \in (n + 1)..(n + k)
          OBVIOUS
        <5>4. G2[h2[a].kids[1]] = a
          BY <1>4, <1>5, <1>6, <5>2, <5>3
        <5>. QED  BY <3>1, <3>3, <4>3, <5>1, <5>4
      <4>4. CASE i = 2
        <5>1. HomeAt(h2, G2, o, i) = G2[a] /\ G2[a] = G[a]
          BY <1>4, <1>6, <2>2, <3>3, <4>4 DEF HomeAt
        <5>2. h2[a].kids[2] = n + k + 1
          BY <1>3
        <5>. QED  BY <1>6, <3>1, <3>3, <4>4, <5>1, <5>2
      <4>. QED  BY <4>2, <4>3, <4>4
    <3>4. CASE o \in (n + 1)..(n + k)
      <4>1. PICK j \in 1..k : o = n + j
        <5>1. o - n \in 1..k /\ o = n + (o - n)
          BY <3>4
        <5>. QED  BY <5>1
      <4>2. h2[o].kids = <<IF j = 1 THEN b ELSE n + j - 1>>
        BY <1>3, <4>1
      <4>3. i = 1 /\ h2[o].kids[i] = IF j = 1 THEN b ELSE n + j - 1
        BY <3>1, <4>2
      <4>4. j # 1 => n + j - 1 \in (n + 1)..(n + k)
        BY <4>1
      <4>5. G2[h2[o].kids[i]] = a
        BY <1>4, <1>5, <1>6, <4>3, <4>4
      <4>6. h2[o].tag # "Fun"
        BY <1>1, <1>3, <3>4
      <4>7. HomeAt(h2, G2, o, i) = a
        BY <1>6, <2>2, <3>4, <4>6 DEF HomeAt
      <4>. QED  BY <3>1, <4>5, <4>7
    <3>5. CASE o = n + k + 1
      <4>1. i = 1 /\ h2[o].kids[i] = c
        BY <1>3, <3>1, <3>5
      <4>2. h2[o].tag # "Fun"
        BY <1>1, <1>3, <3>5
      <4>3. HomeAt(h2, G2, o, i) = G[a]
        BY <1>6, <2>2, <3>5, <4>2 DEF HomeAt
      <4>. QED  BY <1>4, <1>5, <1>6, <3>1, <4>1, <4>3
    <3>. QED  BY <3>1, <3>2, <3>3, <3>4, <3>5
  <2>. QED  BY <2>1, <2>2
<1>. QED  BY <1>7 DEF Homed

\* So does replacing node e.
CallHomes(h, e, G, G2) ==
    (\A b \in 1..Len(h) : G2[b] = G[b]) /\ G2[Len(h) + 1] = G[e] /\ G2[Len(h) + 2] = G[e]

LEMMA ReplacesHomed ==
  ASSUME NEW h, NEW h2, NEW fr, NEW fr2, NEW r, NEW r2, NEW w, NEW w2, NEW t, NEW lo, NEW li, Shaped(h),
         Owned(h, fr, r), CallReplaces(h, h2, fr, fr2, r, r2, w, w2, t, lo, li),
         NEW G, Homed(h, fr, r, G), NEW G2, CallHomes(h, t.exp, G, G2)
  PROVE  Homed(h2, fr2, r2, G2)
<1>a. PICK e : e = t.exp
  OBVIOUS
<1>0. /\ Rewired(h, h2, fr, fr2, r, r2, e, lo, li) /\ IsLink(h, fr, lo, li) /\ To(h, r, lo, li) = e
      /\ h[e].tag = "App"
      /\ h2[Len(h) + 1].kids = <<h[e].kids[1]>> /\ h2[Len(h) + 2].kids = <<Len(h) + 1>>
      /\ h2[Len(h) + 1].tag = "App" /\ h2[Len(h) + 2].tag = "Proj"
      /\ \A b \in 1..Len(h) : h2[b].tag = h[b].tag
      /\ \A b \in 1..Len(h) : G2[b] = G[b]
      /\ G2[Len(h) + 1] = G[e] /\ G2[Len(h) + 2] = G[e]
  BY <1>a DEF CallReplaces, CallHomes, SameBinders
<1>. USE <1>0
<1>1. PICK n \in Nat : n = Len(h)
  BY LenProperties DEF Shaped
<1>2. /\ \A o, i : IsLink(h2, fr2, o, i) <=>
            (IsLink(h, fr, o, i) /\ o # e) \/ (o \in {n + 1, n + 2} /\ i = 1)
      /\ \A o, i : IsLink(h, fr, o, i) =>
            To(h2, r2, o, i) = IF o = lo /\ i = li THEN n + 2 ELSE To(h, r, o, i)
  <2>1. \A o, i : IsLink(h2, fr2, o, i) <=>
           (IsLink(h, fr, o, i) /\ o # e) \/ (o \in {Len(h) + 1, Len(h) + 2} /\ i = 1)
    BY DEF Rewired
  <2>2. \A o, i : IsLink(h, fr, o, i) =>
           To(h2, r2, o, i) = IF o = lo /\ i = li THEN Len(h) + 2 ELSE To(h, r, o, i)
    BY DEF Rewired
  <2>. QED  BY ONLY <1>1, <2>1, <2>2
<1>3. ASSUME NEW o, NEW i, IsLink(h, fr, o, i)
      PROVE  /\ o \in Nat /\ i \in Nat /\ To(h, r, o, i) \in 1..n /\ (o # Null => o \in 1..n)
             /\ HomeAt(h2, G2, o, i) = HomeAt(h, G, o, i)
  <2>1. o \in Nat /\ i \in Nat
    BY <1>3, LinkNat
  <2>2. To(h, r, o, i) \in 1..n
    BY <1>1, <1>3, <2>1 DEF Owned, Live
  <2>3. o # Null => o \in 1..n
    BY <1>1, <1>3 DEF IsLink, Live
  <2>. QED  BY <1>1, <2>1, <2>2, <2>3 DEF HomeAt
<1>4. e \in 1..n /\ e \notin fr /\ e # Null
  <2>1. lo \in Nat /\ li \in Nat
    BY <1>3
  <2>2. e \in Live(h, fr)
    BY <2>1 DEF Owned
  <2>. QED  BY <1>1, <2>2 DEF Live, Null
<1>5. G[h[e].kids[1]] = G[e] /\ h[e].kids[1] \in 1..n
  <2>1. Len(h[e].kids) = 1
    <3>1. Len(h[e].kids) = Arities[h[e].tag]
      BY <1>1, <1>4, NodeOf
    <3>. QED  BY <3>1 DEF Arities
  <2>2. IsLink(h, fr, e, 1) /\ To(h, r, e, 1) = h[e].kids[1] /\ HomeAt(h, G, e, 1) = G[e]
    BY <1>1, <1>4, <2>1 DEF IsLink, Live, To, HomeAt
  <2>. QED  BY <1>3, <2>2 DEF Homed
<1>6. ASSUME NEW o, NEW i, IsLink(h2, fr2, o, i)
      PROVE  G2[To(h2, r2, o, i)] = HomeAt(h2, G2, o, i)
  <2>1. CASE IsLink(h, fr, o, i) /\ o # e
    <3>1. To(h, r, o, i) \in 1..n /\ G[To(h, r, o, i)] = HomeAt(h2, G2, o, i)
      BY <1>3, <2>1 DEF Homed
    <3>2. o = lo /\ i = li => G2[n + 2] = G[To(h, r, o, i)]
      BY <1>1
    <3>3. G2[To(h, r, o, i)] = G[To(h, r, o, i)]
      BY <1>1, <3>1
    <3>. QED  BY <1>2, <2>1, <3>1, <3>2, <3>3
  <2>2. CASE o \in {n + 1, n + 2} /\ i = 1
    <3>1. o # Null /\ h2[o].tag # "Fun"
      BY <1>1, <2>2 DEF Null
    <3>2. HomeAt(h2, G2, o, i) = G[e]
      BY <1>1, <2>2, <3>1 DEF HomeAt
    <3>3. To(h2, r2, o, i) = h2[o].kids[1]
      BY <2>2, <3>1 DEF To
    <3>4. h2[o].kids[1] = IF o = n + 1 THEN h[e].kids[1] ELSE n + 1
      BY <1>1, <2>2
    <3>. QED  BY <1>1, <1>5, <2>2, <3>2, <3>3, <3>4
  <2>. QED  BY <1>2, <1>6, <2>1, <2>2
<1>. QED  BY <1>6 DEF Homed

-----------------------------------------------------------------------------
(***************************************************************************)
(* What is bound where.                                                    *)
(***************************************************************************)
\* The letters of the names that the conversion makes up.
Plain(x) == x.base \notin {"closure", "proj"}

LEMMA MadeApart ==
    /\ \A c : ~Plain(ClosureName(c)) /\ ~Plain(ProjName(c))
    /\ \A c, d : ClosureName(c) # ProjName(d)
    /\ \A c, d \in Nat : c <= IntMax /\ d <= IntMax =>
          (ClosureName(c) = ClosureName(d) => c = d) /\ (ProjName(c) = ProjName(d) => c = d)
<1>1. \A c : ClosureName(c).base = "closure" /\ ProjName(c).base = "proj"
  BY DEF ClosureName, ProjName, Fresh, Name
<1>2. ASSUME NEW c \in Nat
      PROVE  ClosureName(c).digits = Decimal(c) /\ ProjName(c).digits = Decimal(c)
  <2>1. <<>> \o Decimal(c) = Decimal(c)
    BY DecimalType, ConcatEmptySeq
  <2>. QED  BY <2>1 DEF ClosureName, ProjName, Fresh, Name
<1>. QED  BY <1>1, <1>2, DecimalInjective DEF Plain

\* One of the names that were made up until the counter was ctr.
Drawn(x, ctr) == \E k \in 0..(ctr - 1) : x = ClosureName(k) \/ x = ProjName(k)

LEMMA DrawnIs ==
  ASSUME NEW ctr \in Nat, ctr <= IntMax
  PROVE  /\ \A x : Drawn(x, ctr) => ~Plain(x)
         /\ ~Drawn(ClosureName(ctr), ctr) /\ ~Drawn(ProjName(ctr), ctr)
         /\ Drawn(ClosureName(ctr), ctr + 1) /\ Drawn(ProjName(ctr), ctr + 1)
         /\ \A x : Drawn(x, ctr) => Drawn(x, ctr + 1)
<1>1. \A x : Drawn(x, ctr) => ~Plain(x)
  BY MadeApart DEF Drawn
<1>2. ASSUME NEW k \in 0..(ctr - 1)
      PROVE  k \in Nat /\ k <= IntMax /\ k # ctr /\ k \in 0..((ctr + 1) - 1)
  BY DEF IntMax
<1>3. ~Drawn(ClosureName(ctr), ctr) /\ ~Drawn(ProjName(ctr), ctr)
  BY <1>2, MadeApart DEF Drawn
<1>4. ctr \in 0..((ctr + 1) - 1)
  OBVIOUS
<1>. QED  BY <1>1, <1>2, <1>3, <1>4 DEF Drawn

\* Node n binds x in the function it is in.
LocalOf(n, x) ==
    \/ n.tag = "Join" /\ x \in Range(n.params)
    \/ n.tag \in {"App", "Bop", "Tuple", "Proj"} /\ x = n.name

LEMMA LocalIs ==
  ASSUME NEW n
  PROVE  /\ \A x : x \in Range(Locals(n)) <=> LocalOf(n, x)
         /\ IsInjective(n.params) => IsInjective(Locals(n))
<1>1. PICK y : y = n.name
  OBVIOUS
<1>2. Range(<<y>>) = {y} /\ IsInjective(<<y>>) /\ Range(<<>>) = {} /\ IsInjective(<<>>)
  BY DEF Range, IsInjective
<1>3. CASE n.tag = "Join"
  BY <1>3 DEF Locals, LocalOf
<1>4. CASE n.tag \in {"App", "Bop", "Tuple", "Proj"}
  BY <1>1, <1>2, <1>4 DEF Locals, LocalOf
<1>5. CASE n.tag \notin {"Join", "App", "Bop", "Tuple", "Proj"}
  BY <1>2, <1>5 DEF Locals, LocalOf
<1>. QED  BY <1>3, <1>4, <1>5

\* Node a binds x in function g.
Binds(h, G, g, a, x) ==
    \/ G[a] = g /\ LocalOf(h[a], x)
    \/ a = g /\ h[a].tag = "Fun" /\ x \in Range(h[a].params)

\* Node a of the term binds x in function g, the name of a function included.
Declares(T, G, g, a, x) ==
    \/ Binds(T, G, g, a, x)
    \/ G[a] = g /\ T[a].tag = "Fun" /\ x = T[a].name

\* FunExp a has got its closure.
Opened(T, h, a) == h[a].params # T[a].params

\* Where a name bound in function g comes from: it is bound there in the term, and the name of
\* a function not before the tuple is made; it was captured; or it was made up.
Origin(T, h, G, ctr, g, x) ==
    \/ \E d \in 1..Len(T) : Binds(T, G, g, d, x)
    \/ \E d \in 1..Len(T) : G[d] = g /\ T[d].tag = "Fun" /\ x = T[d].name /\ Opened(T, h, d)
    \/ Plain(x) /\ g \in 1..Len(T) /\ Opened(T, h, g) /\ \A d \in 1..Len(T) : ~Declares(T, G, g, d, x)
    \/ Drawn(x, ctr)

\* The AppExp of a task will be followed by a projection, whose name nothing has yet.
Reserved(h, fr, G, w, ctr) ==
    /\ \A t \in 1..Len(w) : w[t].kind = "call" =>
          /\ \E k \in 0..(ctr - 1) : w[t].proj = ProjName(k)
          /\ \A a \in Live(h, fr) : \A g : ~Binds(h, G, g, a, w[t].proj)
    /\ \A t, u \in 1..Len(w) :
          w[t].kind = "call" /\ w[u].kind = "call" /\ w[t].proj = w[u].proj => t = u

Apart(T, h, fr, G, w, ctr) ==
    /\ \A a \in Live(h, fr) : h[a].tag \in {"Fun", "Join"} => IsInjective(h[a].params)
    /\ \A a \in Live(h, fr) : \A g, x : Binds(h, G, g, a, x) => Origin(T, h, G, ctr, g, x)
    /\ \A a, b \in Live(h, fr) : \A g, x : Binds(h, G, g, a, x) /\ Binds(h, G, g, b, x) => a = b
    /\ Reserved(h, fr, G, w, ctr)

-----------------------------------------------------------------------------
(***************************************************************************)
(* Names in the term.                                                      *)
(***************************************************************************)
\* What is declared is bound in a child.
LEMMA DeclaredBound ==
  ASSUME NEW T, IsTerm(T), NEW G, HomesAbove(T, G), NEW d \in 1..Len(T), NEW g, NEW x, Declares(T, G, g, d, x)
  PROVE  /\ \E i \in 1..Len(T[d].kids) : x \in BoundIn(T[d], i)
         /\ g = Null \/ d <= g
<1>1. Shaped(T) /\ Len(T) \in Nat
  BY TermOwned, LenProperties DEF Shaped
<1>2. Len(T[d].kids) = Arities[T[d].tag]
  BY <1>1, NodeOf
<1>3. T[d].tag \in {"Fun", "Join"} => Len(T[d].kids) = 2
  BY <1>2 DEF Arities
<1>4. T[d].tag \in {"App", "Bop", "Tuple", "Proj"} => Len(T[d].kids) = 1
  BY <1>2 DEF Arities
<1>5. \E i \in 1..Len(T[d].kids) : x \in BoundIn(T[d], i)
  <2>1. CASE T[d].tag \in {"Fun", "Join"} /\ x \in Range(T[d].params)
    <3>1. PICK n : n = T[d]
      OBVIOUS
    <3>2. BoundIn(n, 1) = Range(n.params)
      BY <2>1, <3>1 DEF BoundIn
    <3>3. Len(n.kids) = 2
      BY <1>3, <2>1, <3>1
    <3>4. 1 \in 1..Len(n.kids)
      BY ONLY <3>3
    <3>. QED  BY <2>1, <3>1, <3>2, <3>4
  <2>2. CASE T[d].tag = "Fun" /\ x = T[d].name
    <3>1. PICK n : n = T[d]
      OBVIOUS
    <3>2. BoundIn(n, 2) = {n.name}
      BY <2>2, <3>1 DEF BoundIn
    <3>3. Len(n.kids) = 2
      BY <1>3, <2>2, <3>1
    <3>4. 2 \in 1..Len(n.kids)
      BY ONLY <3>3
    <3>. QED  BY <2>2, <3>1, <3>2, <3>4
  <2>3. CASE T[d].tag \in {"App", "Bop", "Tuple", "Proj"} /\ x = T[d].name
    <3>1. x \in BoundIn(T[d], 1) /\ 1 \in 1..Len(T[d].kids)
      BY <1>4, <2>3 DEF BoundIn
    <3>. QED  BY <3>1
  <2>. QED  BY <2>1, <2>2, <2>3 DEF Declares, Binds, LocalOf
<1>6. g = Null \/ d <= g
  <2>1. g = G[d] \/ g = d
    BY DEF Declares, Binds
  <2>2. G[d] = Null \/ G[d] \in (d + 1)..Len(T)
    BY DEF HomesAbove
  <2>. QED  BY <1>1, <2>1, <2>2
<1>. QED  BY <1>5, <1>6

\* No name is declared at two nodes.
LEMMA DeclaredOnce ==
  ASSUME NEW T, IsTerm(T), Hygienic(T), NEW G, HomesAbove(T, G), NEW d \in 1..Len(T), NEW e \in 1..Len(T),
         NEW f, NEW g, NEW x, Declares(T, G, f, d, x), Declares(T, G, g, e, x)
  PROVE  d = e
<1>1. PICK i \in 1..Len(T[d].kids) : x \in BoundIn(T[d], i)
  BY DeclaredBound
<1>2. PICK j \in 1..Len(T[e].kids) : x \in BoundIn(T[e], j)
  BY DeclaredBound
<1>3. BoundIn(T[d], i) \cap BoundIn(T[e], j) # {}
  BY <1>1, <1>2
<1>. QED  BY <1>3 DEF Hygienic

\* What is free in a function is not declared in it.
LEMMA FreeNotDeclared ==
  ASSUME NEW T, IsTerm(T), Hygienic(T), NEW G, HomesAbove(T, G), NEW a \in 1..Len(T), NEW x \in Free(T)[a],
         NEW d \in 1..Len(T)
  PROVE  ~Declares(T, G, a, d, x)
<1>. SUFFICES ASSUME Declares(T, G, a, d, x) PROVE FALSE
  OBVIOUS
<1>1. PICK i \in 1..Len(T[d].kids) : x \in BoundIn(T[d], i)
  BY DeclaredBound
<1>2. a \in Nat /\ a # Null /\ d \in 1..a
  <2>1. a = Null \/ d <= a
    BY DeclaredBound
  <2>2. Len(T) \in Nat
    BY TermOwned, LenProperties DEF Shaped
  <2>. QED  BY <2>1, <2>2 DEF Null
<1>. QED  BY <1>1, <1>2, BoundNotFree

\* Every name that is free in a node is used in one.
LEMMA FreeUsed ==
  ASSUME NEW T, IsTerm(T), NEW a \in 1..Len(T), NEW x \in Free(T)[a]
  PROVE  \E b \in 1..Len(T) : x \in Uses(T[b].vals)
<1>1. PICK n \in Nat : n = Len(T)
  BY TermOwned, LenProperties DEF Shaped
<1>2. PICK F : F = Free(T)
  OBVIOUS
<1>3. \A b \in 1..n : F[b] = FreeBelow(T, F, b)
  BY <1>1, <1>2, FreeIs, TermRanked, TermOwned
<1>. DEFINE B == {b \in 1..n : x \in F[b]}
<1>4. a \in B /\ B \subseteq Nat
  BY <1>1, <1>2
<1>5. PICK m \in B : \A k \in B : m <= k
  <2>. HIDE DEF B
  <2>. QED  BY <1>4, LeastNumber
<1>6. m \in 1..n /\ x \in FreeBelow(T, F, m)
  BY <1>3
<1>7. ASSUME NEW i \in 1..Len(T[m].kids), x \in F[T[m].kids[i]]
      PROVE  FALSE
  <2>1. PICK c : c = T[m].kids[i]
    OBVIOUS
  <2>2. c \in 1..(m - 1)
    BY <1>1, <1>6, <2>1 DEF IsTerm
  <2>3. c \in B /\ ~(m <= c)
    BY <1>6, <1>7, <2>1, <2>2
  <2>. QED  BY <1>5, <2>3
<1>8. x \in Uses(T[m].vals)
  BY <1>6, <1>7, InFreeBelow
<1>. QED  BY <1>1, <1>6, <1>8

\* The names of a term that is spelt apart.
LEMMA PlainNames ==
  ASSUME NEW T, IsTerm(T), SpeltApart(T)
  PROVE  /\ \A a \in 1..Len(T) : \A x \in Free(T)[a] : Plain(x)
         /\ \A a \in 1..Len(T) : IsInjective(T[a].params) /\ Plain(T[a].name)
         /\ \A a \in 1..Len(T) : \A G, g, x : Declares(T, G, g, a, x) => Plain(x)
<1>1. \A b \in 1..Len(T) : \A x \in Uses(T[b].vals) : Plain(x)
  BY DEF SpeltApart, Plain
<1>2. \A b \in 1..Len(T) : /\ IsInjective(T[b].params) /\ Plain(T[b].name)
                           /\ \A x \in Range(T[b].params) : Plain(x)
  BY DEF SpeltApart, Plain
<1>. QED  BY <1>1, <1>2, FreeUsed DEF Declares, Binds, LocalOf

-----------------------------------------------------------------------------
(***************************************************************************)
(* What the steps do to the names.                                         *)
(***************************************************************************)
\* A node that has the names it had binds them in the function it was in.
LEMMA BindsSame ==
  ASSUME NEW h, NEW h2, NEW b, SameBinders(h, h2, b), NEW G, NEW G2, G2[b] = G[b], NEW g, NEW x
  PROVE  Binds(h2, G2, g, b, x) <=> Binds(h, G, g, b, x)
BY DEF SameBinders, Binds, LocalOf

\* Functions are opened for good, and the counter grows.
LEMMA OriginLasts ==
  ASSUME NEW T, NEW h, NEW h2, NEW G, NEW G2, \A d \in 1..Len(T) : G2[d] = G[d],
         \A d \in 1..Len(T) : Opened(T, h, d) => Opened(T, h2, d),
         NEW ctr \in Nat, NEW ctr2 \in Nat, ctr <= ctr2, NEW g, NEW x, Origin(T, h, G, ctr, g, x)
  PROVE  Origin(T, h2, G2, ctr2, g, x)
<1>1. \A d \in 1..Len(T) : \A y : /\ Binds(T, G2, g, d, y) <=> Binds(T, G, g, d, y)
                                  /\ Declares(T, G2, g, d, y) <=> Declares(T, G, g, d, y)
  BY DEF Declares, Binds
<1>2. \A k \in 0..(ctr - 1) : k \in 0..(ctr2 - 1)
  OBVIOUS
<1>3. Drawn(x, ctr) => Drawn(x, ctr2)
  BY <1>2 DEF Drawn
<1>. QED  BY <1>1, <1>3 DEF Origin

\* No name that is bound is one that is made up next.
LEMMA OriginNotNext ==
  ASSUME NEW T, IsTerm(T), SpeltApart(T), NEW h, NEW G, NEW ctr \in Nat, ctr <= IntMax,
         NEW g, NEW x, Origin(T, h, G, ctr, g, x)
  PROVE  (Plain(x) \/ Drawn(x, ctr)) /\ x # ClosureName(ctr) /\ x # ProjName(ctr)
<1>1. Plain(x) \/ Drawn(x, ctr)
  BY PlainNames DEF Origin, Declares
<1>. QED  BY <1>1, DrawnIs, MadeApart

\* Tasks w2 hold a call that w does not at m at most, whose name was made up when the counter was ctr.
CallMore(w, w2, ctr, ctr2, m) ==
    \A t \in 1..Len(w2) : w2[t].kind = "call" =>
       \/ t \in 1..Len(w) /\ w2[t] = w[t]
       \/ t = m /\ w2[t].proj = ProjName(ctr) /\ ctr2 = ctr + 1

\* Nothing new is bound, and a name may have been made up for a projection.
LEMMA ApartLater ==
  ASSUME NEW T, IsTerm(T), SpeltApart(T), NEW h, NEW h2, NEW fr, NEW G, NEW w, NEW w2,
         Len(h2) = Len(h), \A b \in 1..Len(h) : SameBinders(h, h2, b), Len(T) <= Len(h), Len(h) \in Nat,
         NEW ctr \in Nat, NEW ctr2 \in Nat, ctr <= ctr2, ctr2 <= IntMax, Apart(T, h, fr, G, w, ctr), NEW m,
         CallMore(w, w2, ctr, ctr2, m)
  PROVE  Apart(T, h2, fr, G, w2, ctr2)
<1>1. Live(h2, fr) = Live(h, fr) /\ \A b \in Live(h, fr) : b \in 1..Len(h)
  BY DEF Live
<1>2. \A b \in Live(h, fr) : \A g, x : Binds(h2, G, g, b, x) <=> Binds(h, G, g, b, x)
  BY <1>1, BindsSame
<1>0. \A t \in 1..Len(w2) : w2[t].kind = "call" =>
            \/ t \in 1..Len(w) /\ w2[t] = w[t]
            \/ t = m /\ w2[t].proj = ProjName(ctr) /\ ctr2 = ctr + 1
  BY DEF CallMore
<1>3. ctr <= IntMax
  BY DEF IntMax
<1>4. \A d \in 1..Len(T) : Opened(T, h, d) => Opened(T, h2, d)
  <2>1. Len(T) \in Nat
    BY TermOwned, LenProperties DEF Shaped
  <2>2. \A d \in 1..Len(T) : d \in 1..Len(h)
    BY <2>1
  <2>. QED  BY <2>2 DEF SameBinders, Opened
<1>5. \A b \in Live(h, fr) : \A g, x : Binds(h, G, g, b, x) => Origin(T, h, G, ctr, g, x)
  BY DEF Apart
<1>6. \A b \in Live(h2, fr) : h2[b].tag \in {"Fun", "Join"} => IsInjective(h2[b].params)
  BY <1>1 DEF Apart, SameBinders
<1>7. \A b \in Live(h2, fr) : \A g, x : Binds(h2, G, g, b, x) => Origin(T, h2, G, ctr2, g, x)
  BY <1>1, <1>2, <1>4, <1>5, OriginLasts
<1>8. \A a, b \in Live(h2, fr) : \A g, x : Binds(h2, G, g, a, x) /\ Binds(h2, G, g, b, x) => a = b
  BY <1>1, <1>2 DEF Apart
<1>9. ASSUME NEW t \in 1..Len(w2), w2[t].kind = "call"
      PROVE  /\ \E k \in 0..(ctr2 - 1) : w2[t].proj = ProjName(k)
             /\ \A a \in Live(h2, fr) : \A g : ~Binds(h2, G, g, a, w2[t].proj)
  <2>1. CASE t \in 1..Len(w) /\ w2[t] = w[t]
    <3>1. /\ \E k \in 0..(ctr - 1) : w2[t].proj = ProjName(k)
          /\ \A a \in Live(h, fr) : \A g : ~Binds(h, G, g, a, w2[t].proj)
      BY <1>9, <2>1 DEF Apart, Reserved
    <3>2. \A k \in 0..(ctr - 1) : k \in 0..(ctr2 - 1)
      OBVIOUS
    <3>. QED  BY <1>1, <1>2, <3>1, <3>2
  <2>2. CASE w2[t].proj = ProjName(ctr) /\ ctr2 = ctr + 1
    <3>1. ctr \in 0..(ctr2 - 1)
      BY <2>2
    <3>. QED  BY <1>1, <1>2, <1>3, <1>5, <2>2, <3>1, OriginNotNext
  <2>. QED  BY <1>0, <1>9, <2>1, <2>2
<1>10. ASSUME NEW t \in 1..Len(w2), NEW u \in 1..Len(w2), w2[t].kind = "call", w2[u].kind = "call",
              w2[t].proj = w2[u].proj
       PROVE  t = u
  <2>1. \A v \in 1..Len(w) : w[v].kind = "call" => w[v].proj # ProjName(ctr)
    <3>1. \A v \in 1..Len(w) : w[v].kind = "call" => Drawn(w[v].proj, ctr)
      BY DEF Apart, Reserved, Drawn
    <3>. QED  BY <1>3, <3>1, DrawnIs
  <2>2. \A v, z \in 1..Len(w) : w[v].kind = "call" /\ w[z].kind = "call" /\ w[v].proj = w[z].proj => v = z
    BY DEF Apart, Reserved
  <2>. QED  BY <1>0, <1>10, <2>1, <2>2
<1>11. Reserved(h2, fr, G, w2, ctr2)
  BY <1>9, <1>10 DEF Reserved
<1>. QED  BY <1>6, <1>7, <1>8, <1>11 DEF Apart

\* An AppExp is replaced by a projection, whose name was kept for it, and an AppExp.
LEMMA ApartReplaced ==
  ASSUME NEW T, IsTerm(T), NEW h, NEW h2, NEW fr, NEW fr2, NEW r, NEW r2, NEW G, NEW G2, NEW w, NEW w2,
         Len(h) \in Nat, Len(T) <= Len(h), NEW ctr \in Nat, Apart(T, h, fr, G, w, ctr),
         NEW call, NEW lo, NEW li, CallReplaces(h, h2, fr, fr2, r, r2, w, w2, call, lo, li),
         call.exp \in Live(h, fr), CallHomes(h, call.exp, G, G2)
  PROVE  Apart(T, h2, fr2, G2, w2, ctr)
<1>a. PICK e, m : e = call.exp /\ m = Len(w)
  OBVIOUS
<1>0. /\ e \in Live(h, fr) /\ h[e].tag = "App" /\ \A x : x \in fr2 <=> x \in fr \/ x = e
      /\ Len(h2) = Len(h) + 2 /\ \A b \in 1..Len(h) : SameBinders(h, h2, b) /\ G2[b] = G[b]
      /\ m \in Nat \ {0} /\ m = Len(w) /\ w[m].kind = "call"
      /\ Len(w2) = m - 1 /\ \A t \in 1..(m - 1) : w2[t] = w[t]
      /\ h2[Len(h) + 1].tag = "App" /\ h2[Len(h) + 1].name = h[e].name /\ G2[Len(h) + 1] = G[e]
      /\ h2[Len(h) + 2].tag = "Proj" /\ h2[Len(h) + 2].name = w[m].proj /\ G2[Len(h) + 2] = G[e]
  BY <1>a DEF CallReplaces, CallHomes
<1>. USE <1>0
<1>1. PICK n \in Nat : n = Len(h)
  OBVIOUS
<1>. DEFINE p == w[m].proj
<1>2. ASSUME NEW b \in Live(h2, fr2)
      PROVE  \/ b \in Live(h, fr) /\ b \in 1..n /\ b # e
             \/ b = n + 1 \/ b = n + 2
  <2>1. b \in 1..Len(h2) /\ b \notin fr /\ b # e
    BY DEF Live
  <2>2. Len(h2) = n + 2
    BY <1>1
  <2>3. b \in 1..n \/ b = n + 1 \/ b = n + 2
    BY ONLY <2>1, <2>2, n \in Nat
  <2>. QED  BY <1>1, <2>1, <2>3 DEF Live
<1>3. ASSUME NEW b \in Live(h2, fr2), NEW g, NEW x, Binds(h2, G2, g, b, x)
      PROVE  \/ \E b0 \in Live(h, fr) : Binds(h, G, g, b0, x) /\ b = IF b0 = e THEN n + 1 ELSE b0
             \/ b = n + 2 /\ x = p
  <2>1. CASE b \in Live(h, fr) /\ b \in 1..n /\ b # e
    <3>1. Binds(h, G, g, b, x)
      BY <1>1, <1>3, <2>1, BindsSame
    <3>. QED  BY <2>1, <3>1
  <2>2. CASE b = n + 1
    <3>1. Binds(h, G, g, e, x)
      BY <1>1, <1>3, <2>2 DEF Binds, LocalOf
    <3>. QED  BY <2>2, <3>1
  <2>3. CASE b = n + 2
    <3>1. x = p
      BY <1>1, <1>3, <2>3 DEF Binds, LocalOf
    <3>. QED  BY <2>3, <3>1
  <2>. QED  BY <1>2, <2>1, <2>2, <2>3
<1>4. /\ \E k \in 0..(ctr - 1) : p = ProjName(k)
      /\ \A b \in Live(h, fr) : \A g : ~Binds(h, G, g, b, p)
  <2>1. m \in 1..Len(w)
    OBVIOUS
  <2>. QED  BY <2>1 DEF Apart, Reserved
<1>. HIDE DEF p
<1>5. \A b \in Live(h2, fr2) : h2[b].tag \in {"Fun", "Join"} => IsInjective(h2[b].params)
  <2>. SUFFICES ASSUME NEW b \in Live(h2, fr2), h2[b].tag \in {"Fun", "Join"} PROVE IsInjective(h2[b].params)
    OBVIOUS
  <2>1. b \in Live(h, fr) /\ b \in 1..n
    BY <1>1, <1>2
  <2>2. h2[b].tag = h[b].tag /\ h2[b].params = h[b].params
    BY <1>1, <2>1 DEF SameBinders
  <2>. QED  BY <2>1, <2>2 DEF Apart
<1>6. ASSUME NEW b \in Live(h2, fr2), NEW g, NEW x, Binds(h2, G2, g, b, x)
      PROVE  Origin(T, h2, G2, ctr, g, x)
  <2>1. CASE \E b0 \in Live(h, fr) : Binds(h, G, g, b0, x)
    <3>1. Origin(T, h, G, ctr, g, x)
      BY <2>1 DEF Apart
    <3>2. Len(T) \in Nat
      BY TermOwned, LenProperties DEF Shaped
    <3>3. \A d \in 1..Len(T) : d \in 1..Len(h)
      BY <3>2
    <3>4. \A d \in 1..Len(T) : G2[d] = G[d] /\ (Opened(T, h, d) => Opened(T, h2, d))
      BY <3>3 DEF SameBinders, Opened
    <3>. QED  BY <3>1, <3>4, OriginLasts
  <2>2. CASE x = p
    BY <1>4, <2>2 DEF Origin, Drawn
  <2>. QED  BY <1>3, <1>6, <2>1, <2>2
<1>7. ASSUME NEW b \in Live(h2, fr2), NEW c \in Live(h2, fr2), NEW g, NEW x,
             Binds(h2, G2, g, b, x), Binds(h2, G2, g, c, x)
      PROVE  b = c
  <2>1. \A a, d \in Live(h, fr) : Binds(h, G, g, a, x) /\ Binds(h, G, g, d, x) => a = d
    BY DEF Apart
  <2>. QED  BY <1>3, <1>4, <1>7, <2>1
<1>8. ASSUME NEW t \in 1..Len(w2), w2[t].kind = "call"
      PROVE  /\ t \in 1..Len(w) /\ w2[t] = w[t] /\ t # m
             /\ \E k \in 0..(ctr - 1) : w2[t].proj = ProjName(k)
             /\ \A b \in Live(h2, fr2) : \A g : ~Binds(h2, G2, g, b, w2[t].proj)
  <2>1. t \in 1..Len(w) /\ w2[t] = w[t] /\ t # m /\ m \in 1..Len(w)
    OBVIOUS
  <2>2. /\ \E k \in 0..(ctr - 1) : w2[t].proj = ProjName(k)
        /\ \A b \in Live(h, fr) : \A g : ~Binds(h, G, g, b, w2[t].proj)
    <3>1. \A v \in 1..Len(w) : w[v].kind = "call" =>
             /\ \E k \in 0..(ctr - 1) : w[v].proj = ProjName(k)
             /\ \A b \in Live(h, fr) : \A g : ~Binds(h, G, g, b, w[v].proj)
      BY DEF Apart, Reserved
    <3>2. w[t].kind = "call"
      BY <1>8, <2>1
    <3>3. w2[t].proj = w[t].proj
      BY <2>1
    <3>. QED  BY ONLY <2>1, <3>1, <3>2, <3>3
  <2>3. w2[t].proj # p
    <3>1. \A v, z \in 1..Len(w) : w[v].kind = "call" /\ w[z].kind = "call" /\ w[v].proj = w[z].proj => v = z
      BY DEF Apart, Reserved
    <3>. QED  BY <1>8, <2>1, <3>1 DEF p
  <2>. QED  BY <1>3, <2>1, <2>2, <2>3
<1>9. Reserved(h2, fr2, G2, w2, ctr)
  <2>1. \A v, z \in 1..Len(w) : w[v].kind = "call" /\ w[z].kind = "call" /\ w[v].proj = w[z].proj => v = z
    BY DEF Apart, Reserved
  <2>. QED  BY <1>8, <2>1 DEF Reserved
<1>. QED  BY <1>5, <1>6, <1>7, <1>9 DEF Apart

\* One parameter more, in front.
LEMMA OneMore ==
  ASSUME NEW S, NEW ps \in Seq(S), NEW c \in S
  PROVE  /\ \A x : x \in Range(<<c>> \o ps) <=> x = c \/ x \in Range(ps)
         /\ IsInjective(ps) /\ c \notin Range(ps) => IsInjective(<<c>> \o ps)
         /\ <<c>> \o ps # ps
<1>1. PICK n \in Nat : n = Len(ps)
  BY LenProperties
<1>2. PICK q : q = <<c>> \o ps
  OBVIOUS
<1>3. /\ q \in Seq(S) /\ Len(q) = n + 1 /\ q[1] = c
      /\ \A i \in 1..n : q[i + 1] = ps[i]
  <2>1. <<c>> \in Seq(S) /\ Len(<<c>>) = 1 /\ <<c>>[1] = c
    OBVIOUS
  <2>2. PICK u : u = <<c>>
    OBVIOUS
  <2>3. /\ u \o ps \in Seq(S) /\ Len(u \o ps) = Len(u) + Len(ps)
        /\ \A i \in 1..(Len(u) + Len(ps)) : (u \o ps)[i] = IF i <= Len(u) THEN u[i] ELSE ps[i - Len(u)]
    BY <2>1, <2>2, ConcatProperties
  <2>4. /\ q \in Seq(S) /\ Len(q) = 1 + n
        /\ \A i \in 1..(1 + n) : q[i] = IF i <= 1 THEN u[i] ELSE ps[i - 1]
    BY ONLY <1>1, <1>2, <2>1, <2>2, <2>3
  <2>5. 1 \in 1..(1 + n) /\ \A i \in 1..n : i + 1 \in 1..(1 + n) /\ ~(i + 1 <= 1) /\ (i + 1) - 1 = i
    OBVIOUS
  <2>. QED  BY ONLY <2>1, <2>2, <2>4, <2>5, n \in Nat
<1>4. /\ DOMAIN q = 1..(n + 1) /\ DOMAIN ps = 1..n
      /\ \A i \in 1..(n + 1) : i = 1 \/ (i - 1 \in 1..n /\ q[i] = ps[i - 1])
  <2>1. DOMAIN q = 1..(n + 1) /\ DOMAIN ps = 1..n
    BY <1>1, <1>3, LenProperties
  <2>2. \A i \in 1..(n + 1) : i = 1 \/ (i - 1 \in 1..n /\ (i - 1) + 1 = i)
    OBVIOUS
  <2>3. ASSUME NEW i \in 1..(n + 1), i # 1
        PROVE  i - 1 \in 1..n /\ q[i] = ps[i - 1]
    <3>1. i - 1 \in 1..n /\ (i - 1) + 1 = i
      BY <2>2, <2>3
    <3>2. q[(i - 1) + 1] = ps[i - 1]
      BY ONLY <1>3, <3>1
    <3>. QED  BY <3>1, <3>2
  <2>. QED  BY <2>1, <2>3
<1>5. 1 \in 1..(n + 1) /\ \A i \in 1..n : i + 1 \in 1..(n + 1)
  OBVIOUS
<1>6. ASSUME NEW x
      PROVE  x \in Range(q) <=> x = c \/ x \in Range(ps)
  <2>1. ASSUME x \in Range(q)
        PROVE  x = c \/ x \in Range(ps)
    <3>1. PICK i \in 1..(n + 1) : x = q[i]
      BY <1>4, <2>1 DEF Range
    <3>. QED  BY <1>3, <1>4, <3>1 DEF Range
  <2>2. ASSUME x \in Range(ps)
        PROVE  x \in Range(q)
    <3>1. PICK i \in 1..n : x = ps[i]
      BY <1>4, <2>2 DEF Range
    <3>. QED  BY <1>3, <1>4, <1>5, <3>1 DEF Range
  <2>3. c \in Range(q)
    BY <1>3, <1>4, <1>5 DEF Range
  <2>. QED  BY <2>1, <2>2, <2>3
<1>7. ASSUME IsInjective(ps), c \notin Range(ps)
      PROVE  IsInjective(q)
  <2>1. \A i \in 1..n : ps[i] # c
    BY <1>4, <1>7 DEF Range
  <2>2. ASSUME NEW i \in 1..(n + 1), NEW j \in 1..(n + 1), q[i] = q[j]
        PROVE  i = j
    <3>1. CASE i = 1 /\ j = 1
      BY <3>1
    <3>2. CASE i # 1 /\ j # 1
      <4>1. i - 1 \in 1..n /\ j - 1 \in 1..n /\ ps[i - 1] = ps[j - 1]
        BY <1>4, <2>2, <3>2
      <4>2. i - 1 = j - 1
        BY <1>4, <1>7, <4>1 DEF IsInjective
      <4>. QED  BY <4>2
    <3>. QED  BY <1>3, <1>4, <2>1, <2>2, <3>1, <3>2
  <2>. QED  BY <1>4, <2>2 DEF IsInjective
<1>8. q # ps
  BY <1>1, <1>3
<1>. QED  BY <1>2, <1>6, <1>7, <1>8

\* A FunExp takes its free variables out of its closure, which is bound outside.
LEMMA ApartWrapped ==
  ASSUME NEW T, IsTerm(T), Hygienic(T), SpeltApart(T), NEW h, NEW h2, NEW fr, NEW G, NEW G2, NEW w, NEW w2,
         Len(h) \in Nat, Len(T) <= Len(h), HomesAbove(T, G), NEW ctr \in Nat, ctr + 1 <= IntMax,
         Apart(T, h, fr, G, w, ctr), NEW a \in 1..Len(T), a \in Live(h, fr), h[a] = T[a], T[a].tag = "Fun",
         NEW xs \in Seq(Ident), NEW k \in Nat, k = Len(xs), IsInjective(xs),
         \A i \in 1..k : xs[i] \in Free(T)[a],
         FunWraps(h, h2, a, ClosureName(ctr), xs), h[a].params \in Seq(Ident),
         WrapHomes(G, Len(h), k, a, G2),
         \A t \in 1..Len(w2) : w2[t].kind = "call" => t \in 1..Len(w) /\ w2[t] = w[t]
  PROVE  Apart(T, h2, fr, G2, w2, ctr + 1)
<1>1. PICK n \in Nat : n = Len(h)
  OBVIOUS
<1>2. PICK c, f : c = ClosureName(ctr) /\ f = T[a].name
  OBVIOUS
<1>3. /\ Len(h2) = n + k + 1 /\ \A b \in 1..n : h2[b].tag = h[b].tag
      /\ \A b \in 1..n : b # a => h2[b] = h[b]
      /\ h2[a].params = <<c>> \o h[a].params
      /\ \A i \in 1..k : h2[n + i].tag = "Proj" /\ h2[n + i].name = xs[i]
      /\ h2[n + k + 1].tag = "Tuple" /\ h2[n + k + 1].name = f
  BY <1>1, <1>2 DEF FunWraps, Wraps
<1>4. /\ a \in 1..n /\ h[a].tag = "Fun" /\ Len(T) \in Nat /\ \A d \in 1..Len(T) : d \in 1..n
  <2>1. Len(T) \in Nat
    BY TermOwned, LenProperties DEF Shaped
  <2>. QED  BY <1>1, <2>1
<1>5. /\ \A b \in 1..n : G2[b] = G[b]
      /\ \A b \in (n + 1)..(n + k) : G2[b] = a
      /\ G2[n + k + 1] = G[a] /\ G[a] # a
  <2>1. G[a] = Null \/ G[a] \in (a + 1)..Len(T)
    BY DEF HomesAbove
  <2>. QED  BY <1>1, <1>4, <2>1 DEF WrapHomes, Null
<1>6. c \in Ident /\ ~Plain(c) /\ ctr <= IntMax /\ ctr + 1 \in Nat /\ ctr <= ctr + 1
  BY <1>2, MadeNames, MadeApart DEF IntMax
<1>7. ~Opened(T, h, a) /\ Opened(T, h2, a)
  BY <1>3, <1>6, OneMore DEF Opened
<1>8. \A d \in 1..Len(T) : G2[d] = G[d] /\ (Opened(T, h, d) => Opened(T, h2, d))
  BY <1>3, <1>4, <1>5, <1>7 DEF Opened
<1>9. \A b \in Live(h, fr) : \A g, x : Binds(h, G, g, b, x) => Origin(T, h, G, ctr, g, x)
  BY DEF Apart
<1>. DEFINE New(b, g, x) == \/ b = a /\ g = a /\ x = c
                            \/ \E i \in 1..k : b = n + i /\ g = a /\ x = xs[i]
                            \/ b = n + k + 1 /\ g = G[a] /\ x = f
<1>10. ASSUME NEW b \in Live(h2, fr)
       PROVE  \/ b \in Live(h, fr) /\ b \in 1..n
              \/ \E i \in 1..k : b = n + i
              \/ b = n + k + 1
  <2>1. b \in 1..Len(h2) /\ b \notin fr
    BY DEF Live
  <2>2. b \in 1..n \/ b - n \in 1..k \/ b = n + k + 1
    BY ONLY <1>3, <2>1, n \in Nat, k \in Nat
  <2>3. b - n \in 1..k => b = n + (b - n)
    BY <2>1
  <2>. QED  BY <1>1, <2>1, <2>2, <2>3 DEF Live
<1>11. ASSUME NEW b \in Live(h2, fr), NEW g, NEW x, Binds(h2, G2, g, b, x)
       PROVE  (b \in Live(h, fr) /\ Binds(h, G, g, b, x)) \/ New(b, g, x)
  <2>1. CASE b \in Live(h, fr) /\ b \in 1..n /\ b # a
    BY <1>3, <1>5, <1>11, <2>1 DEF Binds
  <2>2. CASE b = a
    <3>1. h2[b].tag = "Fun" /\ ~LocalOf(h2[b], x)
      BY <1>3, <1>4, <2>2 DEF LocalOf
    <3>2. g = a /\ x \in Range(<<c>> \o h[a].params)
      BY <1>3, <1>11, <2>2, <3>1 DEF Binds
    <3>3. x = c \/ x \in Range(h[a].params)
      BY <1>6, <3>2, OneMore
    <3>. QED  BY <1>4, <2>2, <3>2, <3>3 DEF Binds
  <2>3. CASE \E i \in 1..k : b = n + i
    <3>1. PICK i \in 1..k : b = n + i
      BY <2>3
    <3>2. h2[b].tag = "Proj" /\ h2[b].name = xs[i] /\ b \in (n + 1)..(n + k)
      BY <1>3, <3>1
    <3>3. G2[b] = a
      BY <1>5, <3>2
    <3>4. g = a /\ x = xs[i]
      BY <1>11, <3>2, <3>3 DEF Binds, LocalOf
    <3>. QED  BY <3>1, <3>4
  <2>4. CASE b = n + k + 1
    BY <1>3, <1>5, <1>11, <2>4 DEF Binds, LocalOf
  <2>. QED  BY <1>10, <2>1, <2>2, <2>3, <2>4
<1>12. \A i \in 1..k : Plain(xs[i]) /\ \A d \in 1..Len(T) : ~Declares(T, G, a, d, xs[i])
  BY PlainNames, FreeNotDeclared
<1>13. Plain(f) /\ Declares(T, G, G[a], a, f)
  BY <1>2, PlainNames DEF Declares
<1>14. ASSUME NEW b, NEW g, NEW x, New(b, g, x), NEW b0 \in Live(h, fr)
       PROVE  ~Binds(h, G, g, b0, x)
  <2>. SUFFICES ASSUME Origin(T, h, G, ctr, g, x) PROVE FALSE
    BY <1>9
  <2>0. \A y : Plain(y) => ~Drawn(y, ctr)
    BY <1>6, DrawnIs
  <2>1. CASE x = c
    BY <1>2, <1>6, <2>1, OriginNotNext
  <2>2. CASE \E i \in 1..k : g = a /\ x = xs[i]
    <3>1. Plain(x) /\ g = a /\ \A d \in 1..Len(T) : ~Declares(T, G, g, d, x)
      BY <1>12, <2>2
    <3>2. \A d \in 1..Len(T) : ~Binds(T, G, g, d, x) /\ ~(G[d] = g /\ T[d].tag = "Fun" /\ x = T[d].name)
      BY <3>1 DEF Declares
    <3>. QED  BY <1>7, <2>0, <3>1, <3>2 DEF Origin
  <2>3. CASE g = G[a] /\ x = f
    <3>1. Plain(x) /\ Declares(T, G, g, a, x)
      BY <1>13, <2>3
    <3>2. \A d \in 1..Len(T) : Declares(T, G, g, d, x) => d = a
      BY <3>1, DeclaredOnce
    <3>3. ~Binds(T, G, g, a, x)
      BY <1>5, <2>3 DEF Binds, LocalOf
    <3>4. \A d \in 1..Len(T) : ~Binds(T, G, g, d, x)
      BY <3>2, <3>3 DEF Declares
    <3>5. \A d \in 1..Len(T) : ~(G[d] = g /\ T[d].tag = "Fun" /\ x = T[d].name /\ Opened(T, h, d))
      BY <1>7, <3>2 DEF Declares
    <3>. QED  BY <2>0, <3>1, <3>4, <3>5 DEF Origin
  <2>. QED  BY <1>14, <2>1, <2>2, <2>3
<1>15. ASSUME NEW b, NEW d, NEW g, NEW x, New(b, g, x), New(d, g, x)
       PROVE  b = d
  <2>1. ASSUME NEW i \in 1..k, NEW j \in 1..k, xs[i] = xs[j]
        PROVE  i = j
    <3>1. DOMAIN xs = 1..k
      BY LenProperties
    <3>. QED  BY <2>1, <3>1 DEF IsInjective
  <2>2. \A i \in 1..k : xs[i] # c
    BY <1>6, <1>12
  <2>3. CASE g = G[a]
    BY <1>5, <1>15, <2>3
  <2>4. CASE g # G[a] /\ x = c
    BY <1>15, <2>2, <2>4
  <2>5. CASE g # G[a] /\ x # c
    <3>1. PICK i \in 1..k : b = n + i /\ x = xs[i]
      BY <1>15, <2>5
    <3>2. PICK j \in 1..k : d = n + j /\ x = xs[j]
      BY <1>15, <2>5
    <3>. QED  BY <2>1, <3>1, <3>2
  <2>. QED  BY <2>3, <2>4, <2>5
<1>16. ASSUME NEW b, NEW g, NEW x, New(b, g, x)
       PROVE  /\ Origin(T, h2, G2, ctr + 1, g, x)
              /\ \A q : x # ProjName(q)
  <2>1. CASE x = c
    <3>1. Drawn(x, ctr + 1)
      BY <1>2, <1>6, <2>1, DrawnIs
    <3>. QED  BY <1>2, <2>1, <3>1, MadeApart DEF Origin
  <2>2. CASE \E i \in 1..k : g = a /\ x = xs[i]
    <3>1. Plain(x) /\ g = a /\ \A d \in 1..Len(T) : ~Declares(T, G, g, d, x)
      BY <1>12, <2>2
    <3>2. \A d \in 1..Len(T) : ~Declares(T, G2, g, d, x)
      BY <1>8, <3>1 DEF Declares, Binds
    <3>. QED  BY <1>7, <3>1, <3>2, MadeApart DEF Origin
  <2>3. CASE g = G[a] /\ x = f
    <3>1. G2[a] = g /\ T[a].tag = "Fun" /\ x = T[a].name /\ Opened(T, h2, a)
      BY <1>2, <1>7, <1>8, <2>3
    <3>. QED  BY <1>13, <2>3, <3>1, MadeApart DEF Origin
  <2>. QED  BY <1>16, <2>1, <2>2, <2>3
<1>. HIDE DEF New
<1>17. ASSUME NEW b \in Live(h2, fr), h2[b].tag \in {"Fun", "Join"}
       PROVE  IsInjective(h2[b].params)
  <2>1. b \in Live(h, fr) /\ b \in 1..n
    BY <1>3, <1>10, <1>17
  <2>2. h[b].tag \in {"Fun", "Join"} => IsInjective(h[b].params)
    BY <2>1 DEF Apart
  <2>3. CASE b # a
    BY <1>3, <1>17, <2>1, <2>2, <2>3
  <2>4. CASE b = a
    <3>1. c \notin Range(h[a].params)
      <4>1. ASSUME c \in Range(h[a].params)
            PROVE  FALSE
        <5>1. Binds(h, G, a, a, c)
          BY <1>4, <4>1 DEF Binds
        <5>. QED  BY <1>2, <1>6, <1>9, <2>1, <2>4, <5>1, OriginNotNext
      <4>. QED  BY <4>1
    <3>2. IsInjective(h[a].params)
      BY <1>4, <2>2, <2>4
    <3>3. PICK ps : ps = h[a].params
      OBVIOUS
    <3>4. IsInjective(<<c>> \o ps)
      BY <1>6, <3>1, <3>2, <3>3, OneMore
    <3>5. h2[b].params = <<c>> \o ps
      BY <1>3, <2>4, <3>3
    <3>. QED  BY ONLY <3>4, <3>5
  <2>. QED  BY <2>3, <2>4
<1>18. ASSUME NEW b \in Live(h2, fr), NEW g, NEW x, Binds(h2, G2, g, b, x)
       PROVE  Origin(T, h2, G2, ctr + 1, g, x)
  <2>1. CASE b \in Live(h, fr) /\ Binds(h, G, g, b, x)
    BY <1>6, <1>8, <1>9, <2>1, OriginLasts
  <2>. QED  BY <1>11, <1>16, <1>18, <2>1
<1>19. ASSUME NEW b \in Live(h2, fr), NEW d \in Live(h2, fr), NEW g, NEW x,
              Binds(h2, G2, g, b, x), Binds(h2, G2, g, d, x)
       PROVE  b = d
  <2>1. \A p, q \in Live(h, fr) : Binds(h, G, g, p, x) /\ Binds(h, G, g, q, x) => p = q
    BY DEF Apart
  <2>. QED  BY <1>11, <1>14, <1>15, <1>19, <2>1
<1>20. ASSUME NEW t \in 1..Len(w2), w2[t].kind = "call"
       PROVE  /\ t \in 1..Len(w) /\ w2[t] = w[t]
              /\ \E q \in 0..(ctr + 1 - 1) : w2[t].proj = ProjName(q)
              /\ \A b \in Live(h2, fr) : \A g : ~Binds(h2, G2, g, b, w2[t].proj)
  <2>1. t \in 1..Len(w) /\ w2[t] = w[t] /\ w[t].kind = "call"
    BY <1>20
  <2>2. /\ \E q \in 0..(ctr - 1) : w2[t].proj = ProjName(q)
        /\ \A b \in Live(h, fr) : \A g : ~Binds(h, G, g, b, w2[t].proj)
    BY <2>1 DEF Apart, Reserved
  <2>3. \A q \in 0..(ctr - 1) : q \in 0..(ctr + 1 - 1)
    OBVIOUS
  <2>. QED  BY <1>11, <1>16, <2>1, <2>2, <2>3
<1>21. Reserved(h2, fr, G2, w2, ctr + 1)
  <2>1. \A v, z \in 1..Len(w) : w[v].kind = "call" /\ w[z].kind = "call" /\ w[v].proj = w[z].proj => v = z
    BY DEF Apart, Reserved
  <2>2. ASSUME NEW v \in 1..Len(w2), NEW z \in 1..Len(w2), w2[v].kind = "call", w2[z].kind = "call",
               w2[v].proj = w2[z].proj
        PROVE  v = z
    <3>1. v \in 1..Len(w) /\ w2[v] = w[v] /\ z \in 1..Len(w) /\ w2[z] = w[z]
      BY <1>20, <2>2
    <3>. QED  BY <2>1, <2>2, <3>1
  <2>3. \A t \in 1..Len(w2) : w2[t].kind = "call" =>
          /\ \E q \in 0..(ctr + 1 - 1) : w2[t].proj = ProjName(q)
          /\ \A b \in Live(h2, fr) : \A g : ~Binds(h2, G2, g, b, w2[t].proj)
    BY <1>20
  <2>4. PICK e : e = ctr + 1
    OBVIOUS
  <2>5. ctr + 1 - 1 = e - 1
    BY <2>4
  <2>6. \A t \in 1..Len(w2) : w2[t].kind = "call" =>
          /\ \E q \in 0..(e - 1) : w2[t].proj = ProjName(q)
          /\ \A b \in Live(h2, fr) : \A g : ~Binds(h2, G2, g, b, w2[t].proj)
    BY ONLY <2>3, <2>5
  <2>7. \A v, z \in 1..Len(w2) :
           w2[v].kind = "call" /\ w2[z].kind = "call" /\ w2[v].proj = w2[z].proj => v = z
    BY ONLY <2>2
  <2>8. Reserved(h2, fr, G2, w2, e)
    BY ONLY <2>6, <2>7 DEF Reserved
  <2>. QED  BY ONLY <2>4, <2>8
<1>. QED  BY <1>17, <1>18, <1>19, <1>21 DEF Apart

-----------------------------------------------------------------------------
(***************************************************************************)
(* The names of the term and of the tasks, while the counter is a C++ int. *)
(***************************************************************************)
NameInv ==
    Hygienic(input) /\ SpeltApart(input) /\ counter <= IntMax =>
        \E G : /\ Homed(heap, freed, root, G) /\ HomesAbove(input, G)
               /\ Apart(input, heap, freed, G, worklist, counter)

LEMMA InitNames == Init => NameInv
<1>. SUFFICES ASSUME Init, Hygienic(input), SpeltApart(input)
              PROVE  \E G : /\ Homed(heap, freed, root, G) /\ HomesAbove(input, G)
                            /\ Apart(input, heap, freed, G, worklist, counter)
  BY DEF NameInv
<1>1. /\ IsTerm(input) /\ heap = input /\ freed = {} /\ root = Len(input) /\ counter = 0
      /\ worklist = <<NodeTask(RootLink, Len(input))>>
  BY InputsAssumption DEF Init
<1>2. PICK T : T = input
  OBVIOUS
<1>3. PICK G : Homed(T, {}, Len(T), G) /\ HomesAbove(T, G)
  BY <1>1, <1>2, HomesExist
<1>4. \A b \in Live(T, {}) : b \in 1..Len(T)
  BY DEF Live
<1>5. \A b \in Live(T, {}) : T[b].tag \in {"Fun", "Join"} => IsInjective(T[b].params)
  BY <1>1, <1>2, <1>4, PlainNames
<1>6. \A b \in Live(T, {}) : \A g, x : Binds(T, G, g, b, x) => Origin(T, T, G, 0, g, x)
  BY <1>4 DEF Origin
<1>7. \A a, b \in Live(T, {}) : \A g, x : Binds(T, G, g, a, x) /\ Binds(T, G, g, b, x) => a = b
  <2>1. \A a, b \in 1..Len(T) : \A g, x : Declares(T, G, g, a, x) /\ Declares(T, G, g, b, x) => a = b
    BY <1>1, <1>2, <1>3, DeclaredOnce
  <2>. QED  BY <1>4, <2>1 DEF Declares
<1>8. Reserved(T, {}, G, worklist, 0)
  <2>1. PICK s : s = NodeTask(RootLink, Len(input))
    OBVIOUS
  <2>2. worklist = <<s>> /\ s.kind = "node"
    BY <1>1, <2>1 DEF NodeTask
  <2>3. \A t \in 1..Len(worklist) : worklist[t].kind # "call"
    BY <2>2
  <2>. QED  BY <2>3 DEF Reserved
<1>9. Apart(T, T, {}, G, worklist, 0)
  BY <1>5, <1>6, <1>7, <1>8 DEF Apart
<1>. QED  BY <1>1, <1>2, <1>3, <1>9

\* The closures among the tasks after a visit.
LEMMA CallsKept ==
  ASSUME NEW h, NEW h2, NEW w, NEW w2, NEW a, NEW l, NEW m, Visiting(h, h2, w, w2, a, l, m),
         NEW t \in 1..Len(w2), w2[t].kind = "call"
  PROVE  \/ t \in 1..Len(w) /\ w2[t] = w[t]
         \/ m = 1 /\ t = Len(w)
<1>1. PICK n, K : n = Len(w) - 1 /\ K = Len(h2[a].kids)
  OBVIOUS
<1>2. /\ n \in Nat /\ Len(w) = n + 1 /\ K \in Nat /\ m \in {0, 1}
      /\ Len(w2) = n + m + K
      /\ \A u \in 1..n : w2[u] = w[u]
      /\ \A i \in 1..K : w2[n + m + i].kind = "node"
  <2>1. Len(w) \in Nat \ {0}
    BY DEF Visiting
  <2>2. n \in Nat /\ Len(w) = n + 1
    BY <1>1, <2>1
  <2>. QED  BY <1>1, <2>2 DEF Visiting
<1>3. t \in 1..n \/ (m = 1 /\ t = n + 1) \/ (t - (n + m) \in 1..K /\ t = n + m + (t - (n + m)))
  BY ONLY <1>2, t \in 1..Len(w2)
<1>4. ~(t - (n + m) \in 1..K /\ t = n + m + (t - (n + m)))
  BY <1>2
<1>5. t \in 1..n => t \in 1..Len(w)
  BY <1>2
<1>. QED  BY <1>2, <1>3, <1>4, <1>5

\* Nothing that the invariant speaks of changes.
LEMMA SameNames ==
  ASSUME NameInv, input' = input, heap' = heap, freed' = freed, root' = root,
         worklist' = worklist, counter' = counter
  PROVE  NameInv'
BY DEF NameInv

\* A node that the conversion leaves as it is.
LEMMA VisitOtherNames ==
  ASSUME TypeInv, OwnInv, NameInv, VisitOther
  PROVE  NameInv'
<1>1. /\ input' = input /\ heap' = heap /\ freed' = freed /\ root' = root /\ counter' = counter
  BY DEF VisitOther
<1>. SUFFICES ASSUME Hygienic(input), SpeltApart(input), counter <= IntMax
              PROVE  \E G : /\ Homed(heap, freed, root, G) /\ HomesAbove(input, G)
                            /\ Apart(input, heap, freed, G, worklist', counter)
  BY <1>1 DEF NameInv
<1>2. PICK G : Homed(heap, freed, root, G) /\ HomesAbove(input, G)
               /\ Apart(input, heap, freed, G, worklist, counter)
  BY DEF NameInv
<1>3. Visiting(heap, heap, worklist, worklist', Task.exp, Last(worklist).link, 0)
  BY <1>1, VisitOtherInv
<1>4. PICK w2 : w2 = worklist'
  OBVIOUS
<1>5. CallMore(worklist, w2, counter, counter, 0)
  BY <1>3, <1>4, CallsKept DEF CallMore
<1>6. /\ IsTerm(input) /\ Len(input) <= Len(heap) /\ Len(heap) \in Nat /\ counter \in Nat
      /\ counter <= counter /\ \A b \in 1..Len(heap) : SameBinders(heap, heap, b)
  BY LenProperties DEF TypeInv, Shaped, SameBinders
<1>7. Apart(input, heap, freed, G, w2, counter)
  BY ONLY <1>2, <1>5, <1>6, SpeltApart(input), counter <= IntMax, ApartLater
<1>. QED  BY <1>2, <1>4, <1>7

\* An AppExp, whose projection gets a name.
LEMMA VisitAppNames ==
  ASSUME TypeInv, OwnInv, NameInv, VisitApp
  PROVE  NameInv'
<1>1. input' = input /\ freed' = freed /\ root' = root /\ counter' = counter + 1
  BY DEF VisitApp
<1>. SUFFICES ASSUME Hygienic(input), SpeltApart(input), counter + 1 <= IntMax
              PROVE  \E G : /\ Homed(heap', freed, root, G) /\ HomesAbove(input, G)
                            /\ Apart(input, heap', freed, G, worklist', counter + 1)
  BY <1>1 DEF NameInv
<1>2. counter \in Nat /\ counter + 1 \in Nat /\ counter <= counter + 1 /\ counter <= IntMax
  BY DEF TypeInv, IntMax
<1>3. PICK G : Homed(heap, freed, root, G) /\ HomesAbove(input, G)
               /\ Apart(input, heap, freed, G, worklist, counter)
  BY <1>2 DEF NameInv
<1>4. PICK h2, w2 : h2 = heap' /\ w2 = worklist'
  OBVIOUS
<1>5. /\ Len(h2) = Len(heap) /\ \A b \in 1..Len(heap) : SameBinders(heap, h2, b) /\ h2[b].kids = heap[b].kids
      /\ Visiting(heap, h2, worklist, w2, Task.exp, Last(worklist).link, 1)
      /\ w2[Len(worklist)].proj = ProjName(counter)
  BY <1>4, VisitAppInv
<1>6. CallMore(worklist, w2, counter, counter + 1, Len(worklist))
  BY <1>5, CallsKept DEF CallMore
<1>7. IsTerm(input) /\ Len(input) <= Len(heap) /\ Len(heap) \in Nat
  BY LenProperties DEF TypeInv, Shaped
<1>8. Apart(input, h2, freed, G, w2, counter + 1)
  BY ONLY <1>2, <1>3, <1>5, <1>6, <1>7, SpeltApart(input), counter + 1 <= IntMax, ApartLater
<1>9. Homed(h2, freed, root, G)
  <2>1. \A b \in 1..Len(heap) : h2[b].kids = heap[b].kids /\ h2[b].tag = heap[b].tag
    BY <1>5 DEF SameBinders
  <2>2. \A o, i : IsLink(h2, freed, o, i) => /\ IsLink(heap, freed, o, i) /\ To(h2, root, o, i) = To(heap, root, o, i)
                                             /\ HomeAt(h2, G, o, i) = HomeAt(heap, G, o, i)
    BY <1>5, <2>1 DEF IsLink, Live, To, HomeAt
  <2>. QED  BY <1>3, <2>2 DEF Homed
<1>. QED  BY <1>3, <1>4, <1>8, <1>9

\* What freeVars has returned, for a node that is as it was.
LEMMA SearchedFree ==
  ASSUME TypeInv, WalkSound, status = "walk", walk = <<>>, Hygienic(input)
  PROVE  /\ Task.exp \in 1..Len(input) /\ heap[Task.exp] = input[Task.exp]
         /\ \A x \in freeVars : x \in Free(input)[Task.exp]
<1>1. PICK D : /\ Pristine(D) /\ Task.exp \in D
               /\ \A x : Returns(walk, freeVars, Free(heap), x) <=> x \in Free(heap)[Task.exp]
  BY DEF WalkSound
<1>2. Free(heap)[Task.exp] = Free(input)[Task.exp]
  BY <1>1, PristineFree
<1>3. ASSUME NEW x \in freeVars
      PROVE  Returns(walk, freeVars, Free(heap), x)
  <2>1. Len(walk) = 0
    OBVIOUS
  <2>2. Passes(walk, Len(walk), x)
    BY <2>1 DEF Passes
  <2>. QED  BY <2>2 DEF Returns
<1>. QED  BY <1>1, <1>2, <1>3 DEF Pristine

\* A FunExp.
LEMMA VisitFunNames ==
  ASSUME TypeInv, OwnInv, WalkSound, NameInv, VisitFun
  PROVE  NameInv'
<1>1. /\ input' = input /\ freed' = freed /\ root' = root /\ counter' = counter + 1
      /\ status = "walk" /\ walk = <<>>
  BY DEF VisitFun
<1>. SUFFICES ASSUME Hygienic(input), SpeltApart(input), counter + 1 <= IntMax
              PROVE  \E G : /\ Homed(heap', freed, root, G) /\ HomesAbove(input, G)
                            /\ Apart(input, heap', freed, G, worklist', counter + 1)
  BY <1>1 DEF NameInv
<1>2. counter \in Nat /\ counter <= IntMax
  BY DEF TypeInv, IntMax
<1>3. PICK G : Homed(heap, freed, root, G) /\ HomesAbove(input, G)
               /\ Apart(input, heap, freed, G, worklist, counter)
  BY <1>2 DEF NameInv
<1>4. PICK a, h2, w2, xs, k, n : /\ a = Task.exp /\ h2 = heap' /\ w2 = worklist' /\ xs = SetToSeq(freeVars)
                                 /\ k = Len(xs) /\ n = Len(heap)
  OBVIOUS
<1>5. /\ FunWraps(heap, h2, a, ClosureName(counter), xs)
      /\ Visiting(heap, h2, worklist, w2, a, Last(worklist).link, 0)
  BY <1>4, VisitFunInv
<1>6. /\ a \in 1..Len(input) /\ heap[a] = input[a] /\ \A x \in freeVars : x \in Free(input)[a]
  BY <1>1, <1>4, SearchedFree
<1>7. /\ xs \in Seq(Ident) /\ IsInjective(xs) /\ k \in Nat
      /\ \A i \in 1..k : xs[i] \in Free(input)[a]
  <2>1. /\ xs \in Seq(Ident) /\ IsInjective(xs) /\ \A i \in 1..Len(xs) : xs[i] \in freeVars
    BY <1>4, SetToSeqType DEF TypeInv, WalkInv
  <2>. QED  BY <1>4, <1>6, <2>1, LenProperties
<1>8. /\ IsTerm(input) /\ Len(input) <= n /\ n \in Nat /\ Shaped(heap) /\ freed \subseteq 1..n
      /\ Owned(heap, freed, root) /\ Len(input) \in Nat
  <2>1. Len(input) \in Nat
    BY TermOwned, LenProperties DEF TypeInv, Shaped
  <2>. QED  BY <1>4, <2>1, LenProperties DEF TypeInv, OwnInv, Shaped
<1>9. /\ worklist # <<>> /\ Task.kind = "node" /\ heap[a].tag = "Fun" /\ heap[a].params \in Seq(Ident)
  <2>1. worklist # <<>> /\ Task.kind = "node" /\ heap[a].tag = "Fun"
    BY <1>1, <1>4 DEF TypeInv
  <2>2. heap[a] \in HeapNode
    BY <1>4, <2>1, TopTask
  <2>. QED  BY <2>1, <2>2 DEF HeapNode
<1>10. a \in Live(heap, freed) /\ a \in 1..n
  <2>1. PICK V : Seen(heap, freed, root, worklist, V)
    BY DEF OwnInv
  <2>2. PICK m \in Nat \ {0} : m = Len(worklist)
    BY <1>9, TopTask
  <2>3. worklist[m].kind = "node" /\ worklist[m].exp = a
    BY <1>4, <1>9, <2>2, TopTask
  <2>. QED  BY <1>4, <1>8, <2>1, <2>2, <2>3, TopUnseen
<1>11. PICK G2 : G2 = [b \in 1..(n + k + 1) |-> IF b <= n THEN G[b] ELSE IF b <= n + k THEN a ELSE G[a]]
  OBVIOUS
<1>12. WrapHomes(G, n, k, a, G2)
  <2>1. \A b \in 1..n : b \in 1..(n + k + 1) /\ b <= n
    BY <1>7, <1>8
  <2>2. \A b \in (n + 1)..(n + k) : b \in 1..(n + k + 1) /\ ~(b <= n) /\ b <= n + k
    BY <1>7, <1>8
  <2>3. n + k + 1 \in 1..(n + k + 1) /\ ~(n + k + 1 <= n) /\ ~(n + k + 1 <= n + k)
    BY <1>7, <1>8
  <2>. QED  BY ONLY <1>11, <2>1, <2>2, <2>3 DEF WrapHomes
<1>13. Homed(h2, freed, root, G2)
  <2>1. /\ Wraps(heap, h2, a, k) /\ \A b \in 1..n : h2[b].tag = heap[b].tag
        /\ \A b \in 1..Len(h2) : b > n => h2[b].tag \in {"Proj", "Tuple"}
    BY <1>4, <1>5 DEF FunWraps
  <2>. QED  BY ONLY <1>3, <1>4, <1>7, <1>8, <1>9, <1>10, <1>12, <2>1, WrapsHomed
<1>14. HomesAbove(input, G2)
  <2>1. \A b \in 1..Len(input) : b \in 1..n
    BY <1>8
  <2>2. \A b \in 1..Len(input) : G2[b] = G[b]
    BY <1>12, <2>1 DEF WrapHomes
  <2>. QED  BY <1>3, <2>2 DEF HomesAbove
<1>15. \A t \in 1..Len(w2) : w2[t].kind = "call" => t \in 1..Len(worklist) /\ w2[t] = worklist[t]
  BY <1>5, CallsKept
<1>16. Apart(input, h2, freed, G2, w2, counter + 1)
  BY ONLY <1>2, <1>3, <1>4, <1>5, <1>6, <1>7, <1>8, <1>9, <1>10, <1>12, <1>15, Hygienic(input),
          SpeltApart(input), counter + 1 <= IntMax, ApartWrapped
<1>. QED  BY <1>4, <1>13, <1>14, <1>16

\* The closure of an AppExp.
LEMMA RunCallNames ==
  ASSUME TypeInv, OwnInv, NameInv, RunCall
  PROVE  NameInv'
<1>1. input' = input /\ counter' = counter
  BY DEF RunCall
<1>. SUFFICES ASSUME Hygienic(input), SpeltApart(input), counter <= IntMax
              PROVE  \E G : /\ Homed(heap', freed', root', G) /\ HomesAbove(input, G)
                            /\ Apart(input, heap', freed', G, worklist', counter)
  BY <1>1 DEF NameInv
<1>2. PICK G : Homed(heap, freed, root, G) /\ HomesAbove(input, G)
               /\ Apart(input, heap, freed, G, worklist, counter)
  BY DEF NameInv
<1>3. PICK h2, fr2, r2, w2 : h2 = heap' /\ fr2 = freed' /\ r2 = root' /\ w2 = worklist'
  OBVIOUS
<1>4. PICK e, lo, li, m, n : /\ e = Task.exp /\ lo = Task.link.owner /\ li = Task.link.kid
                             /\ m = Len(worklist) /\ n = Len(heap)
  OBVIOUS
<1>5. CallReplaces(heap, h2, freed, fr2, root, r2, worklist, w2, Task, lo, li)
  BY <1>3, <1>4, RunCallInv
<1>6. /\ IsLink(heap, freed, lo, li) /\ To(heap, root, lo, li) = e /\ heap[e].tag = "App"
      /\ Rewired(heap, h2, freed, fr2, root, r2, e, lo, li)
      /\ \A x : x \in fr2 <=> x \in freed \/ x = e
      /\ Len(h2) = n + 2 /\ \A b \in 1..n : SameBinders(heap, h2, b)
      /\ h2[n + 1].tag = "App" /\ h2[n + 1].name = heap[e].name /\ h2[n + 1].kids = <<heap[e].kids[1]>>
      /\ h2[n + 2].tag = "Proj" /\ h2[n + 2].name = worklist[m].proj /\ h2[n + 2].kids = <<n + 1>>
      /\ m \in Nat \ {0} /\ worklist[m].kind = "call"
      /\ Len(w2) = m - 1 /\ \A i \in 1..(m - 1) : w2[i] = worklist[i]
  BY <1>4, <1>5 DEF CallReplaces
<1>7. /\ IsTerm(input) /\ Len(input) <= n /\ n \in Nat /\ Shaped(heap) /\ Owned(heap, freed, root)
      /\ counter \in Nat /\ Len(input) \in Nat
  <2>1. Len(input) \in Nat
    BY TermOwned, LenProperties DEF TypeInv, Shaped
  <2>. QED  BY <1>4, <2>1, LenProperties DEF TypeInv, OwnInv, Shaped
<1>8. e \in Live(heap, freed) /\ e \in 1..n
  BY <1>4, <1>6, <1>7, LinkNat DEF Owned, Live
<1>9. PICK G2 : G2 = [b \in 1..(n + 2) |-> IF b <= n THEN G[b] ELSE G[e]]
  OBVIOUS
<1>10. (\A b \in 1..n : G2[b] = G[b]) /\ G2[n + 1] = G[e] /\ G2[n + 2] = G[e]
  <2>1. \A b \in 1..n : b \in 1..(n + 2) /\ b <= n
    BY <1>7
  <2>2. n + 1 \in 1..(n + 2) /\ ~(n + 1 <= n) /\ n + 2 \in 1..(n + 2) /\ ~(n + 2 <= n)
    BY <1>7
  <2>. QED  BY ONLY <1>9, <2>1, <2>2
<1>11. CallHomes(heap, Task.exp, G, G2)
  BY <1>4, <1>10 DEF CallHomes
<1>12. Homed(h2, fr2, r2, G2)
  BY ONLY <1>2, <1>5, <1>7, <1>11, ReplacesHomed
<1>13. HomesAbove(input, G2)
  <2>1. \A b \in 1..Len(input) : b \in 1..n
    BY <1>7
  <2>. QED  BY <1>2, <1>10, <2>1 DEF HomesAbove
<1>14. Apart(input, h2, fr2, G2, w2, counter)
  <2>1. Len(heap) \in Nat /\ Len(input) <= Len(heap) /\ Task.exp \in Live(heap, freed)
    BY <1>4, <1>7, <1>8
  <2>. QED  BY ONLY <1>2, <1>5, <1>7, <1>11, <2>1, ApartReplaced
<1>. QED  BY <1>3, <1>12, <1>13, <1>14

\* Every step keeps the names apart.
LEMMA NamesStep ==
  ASSUME TypeInv, OwnInv, WalkSound, NameInv, [Next]_vars
  PROVE  NameInv'
<1>1. CASE EnterFreeVars \/ InFreeVars \/ Return \/ Terminated \/ UNCHANGED vars
  <2>1. /\ input' = input /\ heap' = heap /\ freed' = freed /\ root' = root
        /\ worklist' = worklist /\ counter' = counter
    BY <1>1 DEF EnterFreeVars, InFreeVars, Return, Terminated, vars
  <2>. QED  BY <2>1, SameNames
<1>2. CASE VisitFun
  BY <1>2, VisitFunNames
<1>3. CASE VisitApp
  BY <1>3, VisitAppNames
<1>4. CASE RunCall
  BY <1>4, RunCallNames
<1>5. CASE VisitOther
  BY <1>5, VisitOtherNames
<1>. QED  BY <1>1, <1>2, <1>3, <1>4, <1>5 DEF Next

-----------------------------------------------------------------------------
(***************************************************************************)
(* The nodes of a function are those that are in it.                       *)
(***************************************************************************)
\* The children of a node that are in the function it is in.
InnerKids(n) == IF n.tag = "Fun" THEN {2} ELSE 1..Len(n.kids)

InsideBelow(h, f, a) == {a} \cup UNION {f[h[a].kids[i]] : i \in InnerKids(h[a])}

\* Inside is well defined on a heap without cycles: by induction on the rank.
LEMMA InsideIs ==
  ASSUME NEW h, Shaped(h), Ranked(h)
  PROVE  \A a \in 1..Len(h) : Inside(h)[a] = InsideBelow(h, Inside(h), a)
<1>1a. PICK B \in Nat : \E rank \in [1..Len(h) -> 0..B] : Ranks(h, B, rank)
  BY DEF Ranked
<1>1. PICK rank \in [1..Len(h) -> 0..B] : Ranks(h, B, rank)
  BY <1>1a
<1>2. /\ \A a \in 1..Len(h) : rank[a] \in 0..B
      /\ \A a \in 1..Len(h) : \A i \in InnerKids(h[a]) :
            rank[h[a].kids[i]] < rank[a] /\ h[a].kids[i] \in 1..Len(h)
  <2>1. \A a \in 1..Len(h) : \A i \in InnerKids(h[a]) : i \in 1..Len(h[a].kids)
    BY NodeOf DEF InnerKids, Arities
  <2>. QED  BY <1>1, <2>1 DEF Ranks, Shaped
<1>. DEFINE D == 1..Len(h)
            Good(n, f) == /\ f = [a \in D |-> f[a]]
                          /\ \A a \in D : rank[a] < n => f[a] = InsideBelow(h, f, a)
            T == {n \in Nat : ~\E f : Good(n, f)}
<1>3. T = {}
  <2>. SUFFICES ASSUME T # {} PROVE FALSE
    OBVIOUS
  <2>1. PICK m \in T : \A k \in T : m <= k
    <3>1. T \subseteq Nat
      OBVIOUS
    <3>. QED  BY ONLY <3>1, T # {}, LeastNumber
  <2>2. m \in Nat /\ ~\E f : Good(m, f)
    OBVIOUS
  <2>3. CASE m = 0
    <3>1. Good(0, [a \in D |-> {}])
      BY <1>2
    <3>. QED  BY <2>2, <2>3, <3>1
  <2>4. CASE m # 0
    <3>1. m - 1 \in Nat /\ ~(m <= m - 1)
      BY <2>2, <2>4
    <3>2. PICK f : Good(m - 1, f)
      BY <2>1, <3>1
    <3>3. PICK g : g = [a \in D |-> InsideBelow(h, f, a)]
      OBVIOUS
    <3>4. \A a \in D : rank[a] < m - 1 => g[a] = f[a]
      BY <3>2, <3>3
    <3>5. ASSUME NEW a \in D, rank[a] < m
          PROVE  g[a] = InsideBelow(h, g, a)
      <4>1. \A i \in InnerKids(h[a]) : g[h[a].kids[i]] = f[h[a].kids[i]]
        <5>1. \A i \in InnerKids(h[a]) : h[a].kids[i] \in D /\ rank[h[a].kids[i]] < m - 1
          BY <1>2, <2>2, <3>5
        <5>. QED  BY <3>4, <5>1
      <4>2. InsideBelow(h, f, a) = InsideBelow(h, g, a)
        <5>1. {f[h[a].kids[i]] : i \in InnerKids(h[a])} = {g[h[a].kids[i]] : i \in InnerKids(h[a])}
          BY ONLY <4>1
        <5>. QED  BY ONLY <5>1 DEF InsideBelow
      <4>3. g[a] = InsideBelow(h, f, a)
        BY ONLY <3>3, a \in D
      <4>. QED  BY ONLY <4>2, <4>3
    <3>6. Good(m, g)
      <4>1. g = [a \in D |-> g[a]]
        BY ONLY <3>3
      <4>. QED  BY ONLY <3>5, <4>1
    <3>. QED  BY <2>2, <3>6
  <2>. QED  BY <2>3, <2>4
<1>4. PICK f : Good(B + 1, f)
  <2>1. B + 1 \in Nat /\ B + 1 \notin T
    BY <1>3
  <2>. QED  BY ONLY <2>1
<1>5. f = [a \in D |-> InsideBelow(h, f, a)]
  BY <1>2, <1>4
<1>6. Inside(h) = CHOOSE F : F = [a \in 1..Len(h) |-> InsideBelow(h, F, a)]
  BY DEF Inside, InsideBelow, InnerKids
<1>7. PICK G : G = Inside(h)
  OBVIOUS
<1>8. G = [a \in D |-> InsideBelow(h, G, a)]
  BY <1>5, <1>6, <1>7
<1>. QED  BY <1>7, <1>8

\* What is inside a node is in the function that the node is in: by induction on the rank.
LEMMA InsideHomed ==
  ASSUME NEW h, NEW fr, NEW r, NEW G, Shaped(h), Ranked(h), Owned(h, fr, r), Homed(h, fr, r, G),
         NEW o \in Live(h, fr), NEW a \in Inside(h)[o]
  PROVE  a \in Live(h, fr) /\ G[a] = G[o]
<1>1a. PICK B \in Nat : \E rank \in [1..Len(h) -> 0..B] : Ranks(h, B, rank)
  BY DEF Ranked
<1>1. PICK rank \in [1..Len(h) -> 0..B] : Ranks(h, B, rank)
  BY <1>1a
<1>2. PICK I : I = Inside(h)
  OBVIOUS
<1>. DEFINE Bad == {n \in Nat : \E p \in Live(h, fr) :
                                   n = rank[p] /\ \E b \in I[p] : ~(b \in Live(h, fr) /\ G[b] = G[p])}
<1>3. Bad = {}
  <2>. SUFFICES ASSUME Bad # {} PROVE FALSE
    OBVIOUS
  <2>1. PICK m \in Bad : \A k \in Bad : m <= k
    <3>1. Bad \subseteq Nat
      OBVIOUS
    <3>. QED  BY ONLY <3>1, Bad # {}, LeastNumber
  <2>2. PICK p \in Live(h, fr) : m = rank[p] /\ \E b \in I[p] : ~(b \in Live(h, fr) /\ G[b] = G[p])
    OBVIOUS
  <2>3. PICK b \in I[p] : ~(b \in Live(h, fr) /\ G[b] = G[p])
    BY <2>2
  <2>4. p \in 1..Len(h)
    BY DEF Live
  <2>5. b \in InsideBelow(h, I, p)
    BY <1>2, <2>4, InsideIs
  <2>6. PICK i \in InnerKids(h[p]) : b \in I[h[p].kids[i]]
    BY <2>3, <2>5 DEF InsideBelow
  <2>7. i \in 1..Len(h[p].kids) /\ (h[p].tag = "Fun" => i = 2) /\ p # Null
    BY <2>4, NodeOf DEF InnerKids, Arities
  <2>8. PICK c : c = h[p].kids[i]
    OBVIOUS
  <2>9. IsLink(h, fr, p, i) /\ To(h, r, p, i) = c
    BY <2>7, <2>8 DEF IsLink, To
  <2>10. c \in Live(h, fr)
    BY <2>9, LinkNat DEF Owned
  <2>11. G[c] = G[p]
    <3>1. HomeAt(h, G, p, i) = G[p]
      BY <2>7 DEF HomeAt
    <3>. QED  BY <2>9, <3>1 DEF Homed
  <2>12. rank[c] \in Nat /\ ~(rank[p] <= rank[c])
    <3>1. rank[c] < rank[p] /\ c \in 1..Len(h)
      BY <1>1, <2>4, <2>7, <2>8, <2>10 DEF Ranks, Live
    <3>2. rank[c] \in 0..B /\ rank[p] \in 0..B
      BY <2>4, <3>1
    <3>. QED  BY <3>1, <3>2
  <2>13. rank[c] \in Bad
    BY <2>3, <2>6, <2>8, <2>10, <2>11, <2>12
  <2>. QED  BY <2>1, <2>2, <2>12, <2>13
<1>4. o \in 1..Len(h) /\ rank[o] \in Nat
  BY DEF Live
<1>5. rank[o] \notin Bad
  BY ONLY <1>3
<1>. QED  BY <1>2, <1>4, <1>5

\* No name is twice among the parameters and what the nodes bind.
BoundOnce(h, params, nodes) ==
    /\ IsInjective(params)
    /\ \A a \in nodes : /\ IsInjective(Locals(h[a]))
                        /\ Range(Locals(h[a])) \cap Range(params) = {}
    /\ \A a, b \in nodes :
          a # b => Range(Locals(h[a])) \cap Range(Locals(h[b])) = {}

\* The names are apart in every function.
LEMMA LocalsApart ==
  ASSUME TypeInv, OwnInv, NameInv, Hygienic(input), SpeltApart(input), counter <= IntMax
  PROVE  LocalsDistinct
<1>1. PICK G : Homed(heap, freed, root, G) /\ Apart(input, heap, freed, G, worklist, counter)
  BY DEF NameInv
<1>2. Shaped(heap) /\ Ranked(heap) /\ Owned(heap, freed, root)
  BY DEF TypeInv, OwnInv
<1>3. Alive = Live(heap, freed)
  BY DEF Alive, Live
<1>. SUFFICES ASSUME NEW f \in {Null} \cup {a \in Live(heap, freed) : heap[a].tag = "Fun"}
              PROVE  BoundOnce(heap, IF f = Null THEN <<>> ELSE heap[f].params,
                               Inside(heap)[IF f = Null THEN root ELSE heap[f].kids[1]])
  BY <1>3, Zenon DEF LocalsDistinct, BoundOnce
<1>0. PICK params, nodes : /\ params = IF f = Null THEN <<>> ELSE heap[f].params
                           /\ nodes = Inside(heap)[IF f = Null THEN root ELSE heap[f].kids[1]]
  OBVIOUS
<1>4. f = Null \/ (f # Null /\ f \in Live(heap, freed) /\ heap[f].tag = "Fun")
  OBVIOUS
<1>5. PICK o : o = IF f = Null THEN root ELSE heap[f].kids[1]
  OBVIOUS
<1>6. o \in Live(heap, freed) /\ G[o] = f
  <2>1. CASE f = Null
    <3>1. IsLink(heap, freed, Null, 1) /\ To(heap, root, Null, 1) = root /\ HomeAt(heap, G, Null, 1) = Null
      BY DEF IsLink, To, HomeAt
    <3>2. root \in Live(heap, freed)
      BY <1>2, <3>1, LinkNat DEF Owned
    <3>. QED  BY <1>1, <1>5, <2>1, <3>1, <3>2 DEF Homed
  <2>2. CASE f # Null
    <3>1. f \in Live(heap, freed) /\ heap[f].tag = "Fun" /\ f \in 1..Len(heap)
      BY <1>4, <2>2 DEF Live
    <3>2. 1 \in 1..Len(heap[f].kids)
      BY <1>2, <3>1, NodeOf DEF Arities
    <3>3. IsLink(heap, freed, f, 1) /\ To(heap, root, f, 1) = o /\ HomeAt(heap, G, f, 1) = f
      BY <1>5, <2>2, <3>1, <3>2 DEF IsLink, To, HomeAt
    <3>4. o \in Live(heap, freed)
      BY <1>2, <3>3, LinkNat DEF Owned
    <3>. QED  BY <1>1, <3>3, <3>4 DEF Homed
  <2>. QED  BY <2>1, <2>2
<1>7. \A a \in nodes : a \in Live(heap, freed) /\ G[a] = f
  BY <1>0, <1>1, <1>2, <1>5, <1>6, InsideHomed
<1>8. IsInjective(params)
  <2>1. IsInjective(<<>>)
    BY DEF IsInjective
  <2>. QED  BY <1>0, <1>1, <1>4, <2>1 DEF Apart
<1>9. \A a \in nodes : \A x \in Range(Locals(heap[a])) : LocalOf(heap[a], x) /\ Binds(heap, G, f, a, x)
  BY <1>7, LocalIs DEF Binds
<1>10. \A x \in Range(params) : f # Null /\ f \in Live(heap, freed) /\ Binds(heap, G, f, f, x)
                                /\ ~LocalOf(heap[f], x)
  <2>1. Range(<<>>) = {}
    BY DEF Range
  <2>2. f # Null => \A x : ~LocalOf(heap[f], x)
    BY <1>4 DEF LocalOf
  <2>3. f # Null => \A x \in Range(params) : Binds(heap, G, f, f, x)
    BY <1>0, <1>4 DEF Binds
  <2>. QED  BY <1>0, <1>4, <2>1, <2>2, <2>3
<1>11. \A a, b \in Live(heap, freed) : \A x : Binds(heap, G, f, a, x) /\ Binds(heap, G, f, b, x) => a = b
  BY <1>1 DEF Apart
<1>12. ASSUME NEW a \in nodes
       PROVE  /\ IsInjective(Locals(heap[a]))
              /\ Range(Locals(heap[a])) \cap Range(params) = {}
  <2>1. IsInjective(Locals(heap[a]))
    <3>1. CASE heap[a].tag = "Join"
      BY <1>1, <1>7, <3>1 DEF Apart, Locals
    <3>2. CASE heap[a].tag # "Join"
      <4>1. \A y : IsInjective(<<y>>)
        BY DEF IsInjective
      <4>2. IsInjective(<<>>)
        BY DEF IsInjective
      <4>. QED  BY <3>2, <4>1, <4>2 DEF Locals
    <3>. QED  BY <3>1, <3>2
  <2>2. ASSUME NEW x \in Range(Locals(heap[a])), x \in Range(params)
        PROVE  FALSE
    <3>1. a = f
      BY <1>7, <1>9, <1>10, <1>11, <2>2
    <3>. QED  BY <1>9, <1>10, <2>2, <3>1
  <2>. QED  BY <2>1, <2>2
<1>13. ASSUME NEW a \in nodes, NEW b \in nodes, a # b
       PROVE  Range(Locals(heap[a])) \cap Range(Locals(heap[b])) = {}
  BY <1>7, <1>9, <1>11, <1>13
<1>. QED  BY <1>0, <1>8, <1>12, <1>13 DEF BoundOnce

(***************************************************************************)
(* No name is bound twice in one function of the converted term, for every *)
(* term whose names are apart, in which no function has a parameter twice, *)
(* and that holds none of the letters the conversion gives its own names,  *)
(* as long as the counter, a C++ int, has not overflowed: a captured       *)
(* variable is bound again in every function that captures it, once, the   *)
(* tuple takes the name of the function it replaces, and every other name  *)
(* is new.                                                                 *)
(***************************************************************************)
THEOREM LocalNamesApart ==
    Spec => [](Hygienic(input) /\ SpeltApart(input) /\ counter <= IntMax => LocalsDistinct)
<1>1. Init => WalkSound
  BY DEF Init, WalkSound
<1>2. TypeInv /\ OwnInv /\ WalkSound /\ [Next]_vars => WalkSound'
  BY WalkSoundStep
<1>3. TypeInv /\ OwnInv /\ WalkSound /\ NameInv /\ [Next]_vars => NameInv'
  BY NamesStep
<1>4. TypeInv /\ OwnInv /\ NameInv =>
         (Hygienic(input) /\ SpeltApart(input) /\ counter <= IntMax => LocalsDistinct)
  BY LocalsApart
<1>. QED  BY <1>1, <1>2, <1>3, <1>4, InitInv, InitNames, StepInv, PTL DEF Spec
=============================================================================
