----------------------------- MODULE HoistProofs -----------------------------
(***************************************************************************)
(* Theorems about hoist.                                                   *)
(*                                                                         *)
(* Hoisting takes the term apart while it walks it, so what a task may     *)
(* count on is an order of the stack.  The invariant names the set V of    *)
(* the nodes that were visited: a node that was not still has all its      *)
(* children, none of them visited; a closure comes after everything below  *)
(* the child it moves out (Waits); and the rest of a node is moved only    *)
(* when its body is gone.  Beside the order it says which place holds each *)
(* node (Owned), and that the root is the function main until its rest, a  *)
(* HaltExp, takes its place.                                               *)
(*                                                                         *)
(* From there on the second half of the module follows the blocks.  T is   *)
(* the term with main around it, as it was at first, and G gives for each  *)
(* of its nodes the function it is in (Placed).  What was moved has stayed *)
(* in its function (Intact, Descends); the collect tasks on the stack tell *)
(* which function is being walked (Within), and so which list a block goes *)
(* to (Lists).  Layer puts this together.                                  *)
(***************************************************************************)
EXTENDS Hoist, AstLemmas

-----------------------------------------------------------------------------
(***************************************************************************)
(* Terms in a heap: h is the heap, fr the nodes that were destroyed, r the *)
(* root, and a link is an owner and the number of a child.                 *)
(***************************************************************************)
Live(h, fr) == (1..Len(h)) \ fr

IsLink(h, fr, o, i) == IF o = Null THEN i = 1 ELSE o \in Live(h, fr) /\ i \in 1..Len(h[o].kids)

To(h, r, o, i) == IF o = Null THEN r ELSE h[o].kids[i]

\* Nodes have as many children as their tag says; some were moved out.
Shaped(h) ==
    /\ h \in Seq(HeapNode)
    /\ \A a \in 1..Len(h) : Len(h[a].kids) = Arities[h[a].tag]

\* What is known of a node.
LEMMA NodeOf ==
  ASSUME NEW h, Shaped(h), NEW a \in 1..Len(h)
  PROVE  /\ Len(h) \in Nat /\ a \in Nat /\ a # Null /\ h[a] \in HeapNode
         /\ h[a].kids \in Seq(Nat) /\ Len(h[a].kids) = Arities[h[a].tag]
         /\ h[a].tag \in AnfTag /\ Len(h[a].kids) \in {0, 1, 2}
<1>1. Len(h) \in Nat
  BY LenProperties DEF Shaped
<1>2. h[a] \in HeapNode /\ Len(h[a].kids) = Arities[h[a].tag]
  BY <1>1, ElementOfSeq DEF Shaped
<1>3. h[a].kids \in Seq(Nat) /\ h[a].tag \in AnfTag
  BY <1>2 DEF HeapNode
<1>4. Len(h[a].kids) \in {0, 1, 2}
  BY <1>2, <1>3 DEF Arities, AnfTag
<1>. QED  BY <1>1, <1>2, <1>3, <1>4 DEF Null

\* In heap h2 child j of node e is v, and everything else is as in h.
Changed(h, h2, e, j, v) ==
    /\ Len(h2) = Len(h)
    /\ \A a \in 1..Len(h) : h2[a].tag = h[a].tag /\ Len(h2[a].kids) = Len(h[a].kids)
    /\ \A a \in 1..Len(h) : \A i \in 1..Len(h[a].kids) :
          h2[a].kids[i] = IF a = e /\ i = j THEN v ELSE h[a].kids[i]

\* The links are the same, and all but that one lead where they led.
Relinked(h, h2, fr, r, e, j, v) ==
    /\ Live(h2, fr) = Live(h, fr)
    /\ \A o, i : IsLink(h2, fr, o, i) <=> IsLink(h, fr, o, i)
    /\ \A o, i : IsLink(h, fr, o, i) =>
          To(h2, r, o, i) = IF o = e /\ i = j THEN v ELSE To(h, r, o, i)

\* A change of one child.
LEMMA ChangedLinks ==
  ASSUME NEW h, NEW h2, NEW e, NEW j, NEW v, NEW fr, NEW r,
         Shaped(h), e \in 1..Len(h), Changed(h, h2, e, j, v)
  PROVE  Relinked(h, h2, fr, r, e, j, v)
<1>1. Live(h2, fr) = Live(h, fr) /\ e # Null
  BY NodeOf DEF Live, Changed
<1>2. \A o : o \in Live(h, fr) => o \in 1..Len(h)
  BY DEF Live
<1>3. \A o, i : IsLink(h2, fr, o, i) <=> IsLink(h, fr, o, i)
  <2>. SUFFICES ASSUME NEW o, NEW i PROVE IsLink(h2, fr, o, i) <=> IsLink(h, fr, o, i)
    OBVIOUS
  <2>. QED  BY <1>1, <1>2 DEF IsLink, Changed
<1>4. \A o, i : IsLink(h, fr, o, i) =>
               To(h2, r, o, i) = IF o = e /\ i = j THEN v ELSE To(h, r, o, i)
  <2>. SUFFICES ASSUME NEW o, NEW i, IsLink(h, fr, o, i)
                PROVE  To(h2, r, o, i) = IF o = e /\ i = j THEN v ELSE To(h, r, o, i)
    OBVIOUS
  <2>1. CASE o = Null
    BY <1>1, <2>1 DEF To
  <2>2. CASE o # Null
    <3>1. o \in 1..Len(h) /\ i \in 1..Len(h[o].kids)
      BY <1>2, <2>2 DEF IsLink
    <3>2. h2[o].kids[i] = IF o = e /\ i = j THEN v ELSE h[o].kids[i]
      BY <3>1 DEF Changed
    <3>. QED  BY <2>2, <3>2 DEF To
  <2>. QED  BY <2>1, <2>2
<1>. QED  BY <1>1, <1>3, <1>4 DEF Relinked

-----------------------------------------------------------------------------
(***************************************************************************)
(* Who owns what: place (k, a, b) holds node n, or Null.                   *)
(***************************************************************************)
Holds(h, fr, r, cj, w, co, k, a, b, n) ==
    \/ k = "link" /\ IsLink(h, fr, a, b) /\ To(h, r, a, b) = n
    \/ k = "join" /\ a = 0 /\ b \in 1..Len(cj) /\ cj[b].body = n
    \/ k = "saved" /\ a \in 1..Len(w) /\ w[a].kind = "collect" /\ b \in 1..Len(w[a].joins)
         /\ w[a].joins[b].body = n
    \/ k = "entry" /\ a \in 1..Len(co) /\ b = 0 /\ co[a].entry.body = n
    \/ k = "block" /\ a \in 1..Len(co) /\ b \in 1..Len(co[a].blocks) /\ co[a].blocks[b].body = n

Owned(h, fr, r, cj, w, co) ==
    /\ \A k, a, b, n : Holds(h, fr, r, cj, w, co, k, a, b, n) => n \in Live(h, fr) \cup {Null}
    /\ \A n \in Live(h, fr) : \E k, a, b : Holds(h, fr, r, cj, w, co, k, a, b, n)
    /\ \A n, k, a, b, l, c, d :
          /\ Holds(h, fr, r, cj, w, co, k, a, b, n) /\ Holds(h, fr, r, cj, w, co, l, c, d, n)
          /\ n # Null
          => k = l /\ a = c /\ b = d

\* A task was replaced by others; none of them holds blocks.
LEMMA KeptOwned ==
  ASSUME NEW h, NEW fr, NEW r, NEW cj, NEW w, NEW w2, NEW co, NEW n \in Nat,
         Owned(h, fr, r, cj, w, co), Len(w) = n + 1, w[n + 1].kind # "collect",
         Len(w2) \in Nat, Len(w2) >= n, \A i \in 1..n : w2[i] = w[i],
         \A i \in n + 1 .. Len(w2) : w2[i].kind # "collect"
  PROVE  Owned(h, fr, r, cj, w2, co)
<1>1. \A a : (a \in 1..Len(w2) /\ w2[a].kind = "collect") => a \in 1..n
  OBVIOUS
<1>2. \A a : (a \in 1..Len(w) /\ w[a].kind = "collect") => a \in 1..n
  OBVIOUS
<1>3. \A a : a \in 1..n => a \in 1..Len(w) /\ a \in 1..Len(w2)
  OBVIOUS
<1>4. \A k, a, b, x : Holds(h, fr, r, cj, w2, co, k, a, b, x) <=> Holds(h, fr, r, cj, w, co, k, a, b, x)
  <2>. SUFFICES ASSUME NEW k, NEW a, NEW b, NEW x
                PROVE  Holds(h, fr, r, cj, w2, co, k, a, b, x) <=> Holds(h, fr, r, cj, w, co, k, a, b, x)
    OBVIOUS
  <2>. QED  BY ONLY \A i \in 1..n : w2[i] = w[i], <1>1, <1>2, <1>3 DEF Holds
<1>. QED  BY ONLY Owned(h, fr, r, cj, w, co), <1>4 DEF Owned

\* The blocks are set aside in a task.
LEMMA SavedOwned ==
  ASSUME NEW h, NEW fr, NEW r, NEW cj, NEW w, NEW w2, NEW co, NEW n \in Nat,
         Owned(h, fr, r, cj, w, co), Len(w) = n + 1, w[n + 1].kind # "collect",
         Len(w2) = n + 4, \A i \in 1..n : w2[i] = w[i],
         \A i \in n + 1 .. n + 4 : w2[i].kind = "collect" <=> i = n + 3, w2[n + 3].joins = cj
  PROVE  Owned(h, fr, r, <<>>, w2, co)
<1>1. \A a : (a \in 1..Len(w2) /\ w2[a].kind = "collect") <=> (a \in 1..n /\ w[a].kind = "collect") \/ a = n + 3
  OBVIOUS
<1>2. \A a : (a \in 1..Len(w) /\ w[a].kind = "collect") <=> a \in 1..n /\ w[a].kind = "collect"
  OBVIOUS
<1>3. \A a \in 1..n : w2[a] = w[a] /\ a # n + 3
  OBVIOUS
<1>4. \A k, a, b, x : Holds(h, fr, r, <<>>, w2, co, k, a, b, x) <=>
         IF k = "saved" /\ a = n + 3 THEN Holds(h, fr, r, cj, w, co, "join", 0, b, x)
         ELSE k # "join" /\ Holds(h, fr, r, cj, w, co, k, a, b, x)
  <2>. SUFFICES ASSUME NEW k, NEW a, NEW b, NEW x
                PROVE  Holds(h, fr, r, <<>>, w2, co, k, a, b, x) <=>
                         IF k = "saved" /\ a = n + 3 THEN Holds(h, fr, r, cj, w, co, "join", 0, b, x)
                         ELSE k # "join" /\ Holds(h, fr, r, cj, w, co, k, a, b, x)
    OBVIOUS
  <2>0. \A y \in 1..Len(<<>>) : FALSE
    OBVIOUS
  <2>. QED  BY ONLY <2>0, <1>1, <1>2, <1>3, w2[n + 3].joins = cj DEF Holds
<1>5. \A k, a, b, x : Holds(h, fr, r, cj, w, co, k, a, b, x) => 
         /\ k = "join" => a = 0
         /\ k = "saved" => a # n + 3
  BY ONLY <1>2, <1>3 DEF Holds
<1>6. \A k, a, b, x : Holds(h, fr, r, <<>>, w2, co, k, a, b, x) => x \in Live(h, fr) \cup {Null}
  BY ONLY Owned(h, fr, r, cj, w, co), <1>4 DEF Owned
<1>7. \A x \in Live(h, fr) : \E k, a, b : Holds(h, fr, r, <<>>, w2, co, k, a, b, x)
  <2>. SUFFICES ASSUME NEW x \in Live(h, fr)
                PROVE  \E k, a, b : Holds(h, fr, r, <<>>, w2, co, k, a, b, x)
    OBVIOUS
  <2>1. PICK k, a, b : Holds(h, fr, r, cj, w, co, k, a, b, x)
    BY DEF Owned
  <2>2. IF k = "join" THEN Holds(h, fr, r, <<>>, w2, co, "saved", n + 3, b, x)
        ELSE Holds(h, fr, r, <<>>, w2, co, k, a, b, x)
    BY ONLY <2>1, <1>4, <1>5
  <2>. QED  BY <2>2
<1>8. \A x, k, a, b, l, c, d :
          /\ Holds(h, fr, r, <<>>, w2, co, k, a, b, x) /\ Holds(h, fr, r, <<>>, w2, co, l, c, d, x)
          /\ x # Null
          => k = l /\ a = c /\ b = d
  <2>. SUFFICES ASSUME NEW x, NEW k, NEW a, NEW b, NEW l, NEW c, NEW d, x # Null,
                       Holds(h, fr, r, <<>>, w2, co, k, a, b, x), Holds(h, fr, r, <<>>, w2, co, l, c, d, x)
                PROVE  k = l /\ a = c /\ b = d
    OBVIOUS
  <2>1. \A p, q, s, t, u, v : /\ Holds(h, fr, r, cj, w, co, p, q, s, x)
                              /\ Holds(h, fr, r, cj, w, co, t, u, v, x)
                              => p = t /\ q = u /\ s = v
    BY DEF Owned
  <2>. QED  BY <1>4, <1>5, <2>1
<1>. QED  BY ONLY <1>6, <1>7, <1>8 DEF Owned

\* A body was collected with the blocks met, and the blocks set aside come back.
LEMMA CollectOwned ==
  ASSUME NEW h, NEW h2, NEW fr, NEW r, NEW cj, NEW sj, NEW w, NEW w2, NEW co, NEW co2,
         NEW n \in Nat, NEW m \in Nat, NEW e \in Live(h, fr),
         Shaped(h), Owned(h, fr, r, cj, w, co), Changed(h, h2, e, 1, Null), 1 \in 1..Len(h[e].kids),
         Len(w) = n + 1, w[n + 1].kind = "collect", w[n + 1].joins = sj,
         Len(w2) = n, \A i \in 1..n : w2[i] = w[i],
         Len(co) = m, Len(co2) = m + 1, \A i \in 1..m : co2[i] = co[i],
         co2[m + 1].entry.body = h[e].kids[1], co2[m + 1].blocks = cj
  PROVE  Owned(h2, fr, r, sj, w2, co2)
<1>. DEFINE H(k, a, b, x) == Holds(h, fr, r, cj, w, co, k, a, b, x)
            J(k, a, b, x) == Holds(h2, fr, r, sj, w2, co2, k, a, b, x)
<1>1. e \in 1..Len(h) /\ e # Null
  BY NodeOf DEF Live
<1>2. /\ Live(h2, fr) = Live(h, fr)
      /\ \A o, i : IsLink(h2, fr, o, i) <=> IsLink(h, fr, o, i)
      /\ \A o, i : IsLink(h, fr, o, i) =>
            To(h2, r, o, i) = IF o = e /\ i = 1 THEN Null ELSE To(h, r, o, i)
  <2>1. Relinked(h, h2, fr, r, e, 1, Null)
    BY ONLY Shaped(h), Changed(h, h2, e, 1, Null), <1>1, ChangedLinks
  <2>. QED  BY <2>1 DEF Relinked
<1>3. IsLink(h, fr, e, 1) /\ To(h, r, e, 1) = h[e].kids[1]
  BY <1>1 DEF IsLink, To
<1>4. \A a : (a \in 1..n + 1 <=> a \in 1..n \/ a = n + 1) /\ (a \in 1..m + 1 <=> a \in 1..m \/ a = m + 1)
      /\ (a \in 1..n => a # n + 1) /\ (a \in 1..m => a # m + 1)
  OBVIOUS
<1>5. \A k, a, b, x : x # Null => (J(k, a, b, x) <=>
         IF k = "join" THEN a = 0 /\ H("saved", n + 1, b, x)
         ELSE IF k = "entry" /\ a = m + 1 THEN b = 0 /\ H("link", e, 1, x)
         ELSE IF k = "block" /\ a = m + 1 THEN H("join", 0, b, x)
         ELSE ~(k = "saved" /\ a = n + 1) /\ ~(k = "link" /\ a = e /\ b = 1) /\ H(k, a, b, x))
  <2>. SUFFICES ASSUME NEW k, NEW a, NEW b, NEW x, x # Null
                PROVE  J(k, a, b, x) <=>
         IF k = "join" THEN a = 0 /\ H("saved", n + 1, b, x)
         ELSE IF k = "entry" /\ a = m + 1 THEN b = 0 /\ H("link", e, 1, x)
         ELSE IF k = "block" /\ a = m + 1 THEN H("join", 0, b, x)
         ELSE ~(k = "saved" /\ a = n + 1) /\ ~(k = "link" /\ a = e /\ b = 1) /\ H(k, a, b, x)
    OBVIOUS
  <2>1. CASE k = "join"
    BY <1>4, <2>1 DEF Holds
  <2>2. CASE k = "entry"
    BY <1>3, <1>4, <2>2 DEF Holds
  <2>3. CASE k = "block"
    BY <1>4, <2>3 DEF Holds
  <2>4. CASE k = "saved"
    BY <1>4, <2>4 DEF Holds
  <2>5. CASE k = "link"
    BY <1>2, <2>5 DEF Holds
  <2>6. CASE k \notin {"join", "entry", "block", "saved", "link"}
    BY <2>6 DEF Holds
  <2>. QED  BY ONLY <2>1, <2>2, <2>3, <2>4, <2>5, <2>6
<1>6. \A k, a, b, x : H(k, a, b, x) =>
         /\ k = "join" => a = 0
         /\ k = "entry" => a # m + 1 /\ b = 0
         /\ k = "block" => a # m + 1
  BY <1>4 DEF Holds
<1>7. /\ \A k, a, b, x : H(k, a, b, x) => x \in Live(h, fr) \cup {Null}
      /\ \A x \in Live(h, fr) : \E k, a, b : H(k, a, b, x)
      /\ \A x, k, a, b, l, c, d :
           H(k, a, b, x) /\ H(l, c, d, x) /\ x # Null => k = l /\ a = c /\ b = d
  BY DEF Owned
<1>8. Null \notin Live(h, fr)
  BY LenProperties DEF Live, Shaped, Null
<1>. HIDE DEF H, J
<1>9. \A k, a, b, x : J(k, a, b, x) => x \in Live(h, fr) \cup {Null}
  BY ONLY <1>5, <1>7
<1>10. \A x \in Live(h, fr) : \E k, a, b : J(k, a, b, x)
  <2>. SUFFICES ASSUME NEW x \in Live(h, fr)
                PROVE  \E k, a, b : J(k, a, b, x)
    OBVIOUS
  <2>1. PICK k, a, b : H(k, a, b, x)
    BY <1>7
  <2>2. IF k = "join" THEN J("block", m + 1, b, x)
        ELSE IF k = "saved" /\ a = n + 1 THEN J("join", 0, b, x)
        ELSE IF k = "link" /\ a = e /\ b = 1 THEN J("entry", m + 1, 0, x)
        ELSE J(k, a, b, x)
    BY ONLY <1>5, <1>6, <1>8, <2>1, x \in Live(h, fr)
  <2>. QED  BY <2>2
<1>11. \A x, k, a, b, l, c, d :
           J(k, a, b, x) /\ J(l, c, d, x) /\ x # Null => k = l /\ a = c /\ b = d
  <2>. SUFFICES ASSUME NEW x, NEW k, NEW a, NEW b, NEW l, NEW c, NEW d, x # Null,
                       J(k, a, b, x), J(l, c, d, x)
                PROVE  k = l /\ a = c /\ b = d
    OBVIOUS
  <2>. QED  BY <1>5, <1>6, <1>7
<1>. QED  BY <1>2, <1>9, <1>10, <1>11 DEF Owned, H, J

\* A body became a block.
LEMMA BlockOwned ==
  ASSUME NEW h, NEW h2, NEW fr, NEW r, NEW cj, NEW cj2, NEW w, NEW w2, NEW co,
         NEW n \in Nat, NEW m \in Nat, NEW e \in Live(h, fr),
         Shaped(h), Owned(h, fr, r, cj, w, co), Changed(h, h2, e, 1, Null), 1 \in 1..Len(h[e].kids),
         Len(w) = n + 1, w[n + 1].kind # "collect", Len(w2) = n, \A i \in 1..n : w2[i] = w[i],
         Len(cj) = m, Len(cj2) = m + 1, \A i \in 1..m : cj2[i] = cj[i],
         cj2[m + 1].body = h[e].kids[1]
  PROVE  Owned(h2, fr, r, cj2, w2, co)
<1>. DEFINE H(k, a, b, x) == Holds(h, fr, r, cj, w, co, k, a, b, x)
            J(k, a, b, x) == Holds(h2, fr, r, cj2, w2, co, k, a, b, x)
<1>1. e \in 1..Len(h) /\ e # Null
  BY NodeOf DEF Live
<1>2. /\ Live(h2, fr) = Live(h, fr)
      /\ \A o, i : IsLink(h2, fr, o, i) <=> IsLink(h, fr, o, i)
      /\ \A o, i : IsLink(h, fr, o, i) =>
            To(h2, r, o, i) = IF o = e /\ i = 1 THEN Null ELSE To(h, r, o, i)
  <2>1. Relinked(h, h2, fr, r, e, 1, Null)
    BY ONLY Shaped(h), Changed(h, h2, e, 1, Null), <1>1, ChangedLinks
  <2>. QED  BY <2>1 DEF Relinked
<1>3. IsLink(h, fr, e, 1) /\ To(h, r, e, 1) = h[e].kids[1]
  BY <1>1 DEF IsLink, To
<1>4. \A a : (a \in 1..n + 1 <=> a \in 1..n \/ a = n + 1) /\ (a \in 1..m + 1 <=> a \in 1..m \/ a = m + 1)
      /\ (a \in 1..n => a # n + 1) /\ (a \in 1..m => a # m + 1)
  OBVIOUS
<1>5. \A k, a, b, x : x # Null => (J(k, a, b, x) <=>
         IF k = "join" /\ b = m + 1 THEN a = 0 /\ H("link", e, 1, x)
         ELSE ~(k = "link" /\ a = e /\ b = 1) /\ H(k, a, b, x))
  <2>. SUFFICES ASSUME NEW k, NEW a, NEW b, NEW x, x # Null
                PROVE  J(k, a, b, x) <=>
         IF k = "join" /\ b = m + 1 THEN a = 0 /\ H("link", e, 1, x)
         ELSE ~(k = "link" /\ a = e /\ b = 1) /\ H(k, a, b, x)
    OBVIOUS
  <2>1. CASE k = "join"
    BY <1>3, <1>4, <2>1 DEF Holds
  <2>2. CASE k = "saved"
    BY <1>4, <2>2 DEF Holds
  <2>3. CASE k = "link"
    BY <1>2, <2>3 DEF Holds
  <2>4. CASE k \notin {"join", "saved", "link"}
    BY <2>4 DEF Holds
  <2>. QED  BY ONLY <2>1, <2>2, <2>3, <2>4
<1>6. \A k, a, b, x : H(k, a, b, x) /\ k = "join" => a = 0 /\ b # m + 1
  BY <1>4 DEF Holds
<1>7. /\ \A k, a, b, x : H(k, a, b, x) => x \in Live(h, fr) \cup {Null}
      /\ \A x \in Live(h, fr) : \E k, a, b : H(k, a, b, x)
      /\ \A x, k, a, b, l, c, d :
           H(k, a, b, x) /\ H(l, c, d, x) /\ x # Null => k = l /\ a = c /\ b = d
  BY DEF Owned
<1>8. Null \notin Live(h, fr)
  BY LenProperties DEF Live, Shaped, Null
<1>. HIDE DEF H, J
<1>9. \A k, a, b, x : J(k, a, b, x) => x \in Live(h, fr) \cup {Null}
  BY ONLY <1>5, <1>7
<1>10. \A x \in Live(h, fr) : \E k, a, b : J(k, a, b, x)
  <2>. SUFFICES ASSUME NEW x \in Live(h, fr)
                PROVE  \E k, a, b : J(k, a, b, x)
    OBVIOUS
  <2>1. PICK k, a, b : H(k, a, b, x)
    BY <1>7
  <2>2. IF k = "link" /\ a = e /\ b = 1 THEN J("join", 0, m + 1, x) ELSE J(k, a, b, x)
    BY ONLY <1>5, <1>6, <1>8, <2>1, x \in Live(h, fr)
  <2>. QED  BY <2>2
<1>11. \A x, k, a, b, l, c, d :
           J(k, a, b, x) /\ J(l, c, d, x) /\ x # Null => k = l /\ a = c /\ b = d
  <2>. SUFFICES ASSUME NEW x, NEW k, NEW a, NEW b, NEW l, NEW c, NEW d, x # Null,
                       J(k, a, b, x), J(l, c, d, x)
                PROVE  k = l /\ a = c /\ b = d
    OBVIOUS
  <2>. QED  BY <1>5, <1>6, <1>7
<1>. QED  BY <1>2, <1>9, <1>10, <1>11 DEF Owned, H, J

\* In h2 the children of node e are two new nodes without children.
Branched(h, h2, e) ==
    /\ Len(h2) = Len(h) + 2
    /\ \A a \in 1..Len(h) : h2[a].tag = h[a].tag /\ Len(h2[a].kids) = Len(h[a].kids)
    /\ \A a \in 1..Len(h) : a # e => h2[a].kids = h[a].kids
    /\ h2[e].kids[1] = Len(h) + 1 /\ h2[e].kids[2] = Len(h) + 2
    /\ Len(h2[Len(h) + 1].kids) = 0 /\ Len(h2[Len(h) + 2].kids) = 0

BranchLinked(h, h2, fr, r, e) ==
    /\ \A x : x \in Live(h2, fr) <=> x \in Live(h, fr) \/ x = Len(h) + 1 \/ x = Len(h) + 2
    /\ \A o, i : IsLink(h2, fr, o, i) <=> IsLink(h, fr, o, i)
    /\ \A o, i : IsLink(h, fr, o, i) =>
          To(h2, r, o, i) = IF o = e THEN Len(h) + i ELSE To(h, r, o, i)

\* New nodes take the place of the branches.
LEMMA BranchLinks ==
  ASSUME NEW h, NEW h2, NEW fr, NEW r, NEW e \in Live(h, fr), Shaped(h), fr \subseteq 1..Len(h),
         Branched(h, h2, e), Len(h[e].kids) = 2
  PROVE  BranchLinked(h, h2, fr, r, e)
<1>1. PICK n \in Nat : n = Len(h)
  BY LenProperties DEF Shaped
<1>2. e \in 1..n /\ e # Null /\ n + 1 # Null /\ n + 2 # Null /\ n + 1 \notin fr /\ n + 2 \notin fr
  BY <1>1 DEF Live, Null
<1>3. \A x : x \in Live(h2, fr) <=> x \in Live(h, fr) \/ x = n + 1 \/ x = n + 2
  <2>1. \A x : x \in 1..n + 2 <=> x \in 1..n \/ x = n + 1 \/ x = n + 2
    OBVIOUS
  <2>2. Len(h2) = n + 2
    BY <1>1 DEF Branched
  <2>. QED  BY <1>1, <1>2, <2>1, <2>2 DEF Live
<1>4. \A o : o \in Live(h, fr) => o \in 1..n /\ o # n + 1 /\ o # n + 2
  BY <1>1 DEF Live
<1>5. \A o, i : IsLink(h2, fr, o, i) <=> IsLink(h, fr, o, i)
  <2>. SUFFICES ASSUME NEW o, NEW i PROVE IsLink(h2, fr, o, i) <=> IsLink(h, fr, o, i)
    OBVIOUS
  <2>1. CASE o \in Live(h, fr)
    BY <1>1, <1>3, <1>4, <2>1 DEF IsLink, Branched
  <2>2. CASE o = n + 1 \/ o = n + 2
    <3>1. Len(h2[o].kids) = 0
      BY <1>1, <2>2 DEF Branched
    <3>. QED  BY <1>2, <1>4, <2>2, <3>1 DEF IsLink
  <2>3. CASE o \notin Live(h, fr) /\ o # n + 1 /\ o # n + 2
    BY <1>3, <2>3 DEF IsLink
  <2>. QED  BY <2>1, <2>2, <2>3
<1>6. \A o, i : IsLink(h, fr, o, i) =>
          To(h2, r, o, i) = IF o = e THEN n + i ELSE To(h, r, o, i)
  <2>. SUFFICES ASSUME NEW o, NEW i, IsLink(h, fr, o, i)
                PROVE  To(h2, r, o, i) = IF o = e THEN n + i ELSE To(h, r, o, i)
    OBVIOUS
  <2>1. CASE o = e
    <3>1. i \in 1..2
      BY <1>2, <2>1 DEF IsLink
    <3>2. i = 1 \/ i = 2
      BY <3>1
    <3>. QED  BY <1>1, <1>2, <2>1, <3>2 DEF To, Branched
  <2>2. CASE o # e /\ o # Null
    <3>1. o \in 1..Len(h)
      BY <1>1, <1>4, <2>2 DEF IsLink
    <3>. QED  BY <2>2, <3>1 DEF To, Branched
  <2>3. CASE o = Null
    BY <1>2, <2>3 DEF To
  <2>. QED  BY <2>1, <2>2, <2>3
<1>. QED  BY <1>1, <1>3, <1>5, <1>6 DEF BranchLinked

\* The branches of an IfExp became blocks.
LEMMA BranchOwned ==
  ASSUME NEW h, NEW h2, NEW fr, NEW r, NEW cj, NEW cj2, NEW w, NEW w2, NEW co,
         NEW n \in Nat, NEW m \in Nat, NEW e \in Live(h, fr),
         Shaped(h), Owned(h, fr, r, cj, w, co), BranchLinked(h, h2, fr, r, e), Len(h[e].kids) = 2,
         Len(w) = n + 1, w[n + 1].kind # "collect", Len(w2) = n, \A i \in 1..n : w2[i] = w[i],
         Len(cj) = m, Len(cj2) = m + 2, \A i \in 1..m : cj2[i] = cj[i],
         cj2[m + 1].body = h[e].kids[1], cj2[m + 2].body = h[e].kids[2]
  PROVE  Owned(h2, fr, r, cj2, w2, co)
<1>. DEFINE H(k, a, b, x) == Holds(h, fr, r, cj, w, co, k, a, b, x)
            J(k, a, b, x) == Holds(h2, fr, r, cj2, w2, co, k, a, b, x)
<1>1. PICK N \in Nat : N = Len(h)
  BY LenProperties DEF Shaped
<1>2. /\ \A x : x \in Live(h2, fr) <=> x \in Live(h, fr) \/ x = N + 1 \/ x = N + 2
      /\ \A o, i : IsLink(h2, fr, o, i) <=> IsLink(h, fr, o, i)
      /\ \A o, i : IsLink(h, fr, o, i) => To(h2, r, o, i) = IF o = e THEN N + i ELSE To(h, r, o, i)
  BY <1>1 DEF BranchLinked
<1>3. /\ e # Null /\ (\A i : IsLink(h, fr, e, i) <=> i = 1 \/ i = 2)
      /\ To(h, r, e, 1) = h[e].kids[1] /\ To(h, r, e, 2) = h[e].kids[2]
  <2>1. e # Null
    BY <1>1 DEF Live, Null
  <2>2. \A i : i \in 1..2 <=> i = 1 \/ i = 2
    OBVIOUS
  <2>. QED  BY <2>1, <2>2 DEF IsLink, To
<1>4. \A a : (a \in 1..n + 1 <=> a \in 1..n \/ a = n + 1) /\ (a \in 1..m + 2 <=> a \in 1..m \/ a = m + 1 \/ a = m + 2)
      /\ (a \in 1..n => a # n + 1) /\ (a \in 1..m => a # m + 1 /\ a # m + 2)
  OBVIOUS
<1>5. \A k, a, b, x : x # Null => (J(k, a, b, x) <=>
         IF k = "join" /\ b = m + 1 THEN a = 0 /\ H("link", e, 1, x)
         ELSE IF k = "join" /\ b = m + 2 THEN a = 0 /\ H("link", e, 2, x)
         ELSE IF k = "link" /\ a = e THEN (b = 1 \/ b = 2) /\ x = N + b
         ELSE H(k, a, b, x))
  <2>. SUFFICES ASSUME NEW k, NEW a, NEW b, NEW x, x # Null
                PROVE  J(k, a, b, x) <=>
         IF k = "join" /\ b = m + 1 THEN a = 0 /\ H("link", e, 1, x)
         ELSE IF k = "join" /\ b = m + 2 THEN a = 0 /\ H("link", e, 2, x)
         ELSE IF k = "link" /\ a = e THEN (b = 1 \/ b = 2) /\ x = N + b
         ELSE H(k, a, b, x)
    OBVIOUS
  <2>1. CASE k = "join"
    BY <1>3, <1>4, <2>1 DEF Holds
  <2>2. CASE k = "saved"
    BY <1>4, <2>2 DEF Holds
  <2>3. CASE k = "link"
    BY <1>2, <1>3, <2>3 DEF Holds
  <2>4. CASE k \notin {"join", "saved", "link"}
    BY <2>4 DEF Holds
  <2>. QED  BY ONLY <2>1, <2>2, <2>3, <2>4
<1>6. \A k, a, b, x : H(k, a, b, x) =>
         /\ k = "join" => a = 0 /\ b # m + 1 /\ b # m + 2
         /\ k = "link" /\ a = e => b = 1 \/ b = 2
  BY <1>3, <1>4 DEF Holds
<1>7. /\ \A k, a, b, x : H(k, a, b, x) => x \in Live(h, fr) \cup {Null}
      /\ \A x \in Live(h, fr) : \E k, a, b : H(k, a, b, x)
      /\ \A x, k, a, b, l, c, d :
           H(k, a, b, x) /\ H(l, c, d, x) /\ x # Null => k = l /\ a = c /\ b = d
  BY DEF Owned
<1>8. /\ Null \notin Live(h, fr) /\ N + 1 \notin Live(h, fr) /\ N + 2 \notin Live(h, fr)
      /\ N + 1 # Null /\ N + 2 # Null /\ N + 1 # N + 2 /\ m + 1 # m + 2
  BY <1>1 DEF Live, Null
<1>. HIDE DEF H, J
<1>9. \A k, a, b, x : J(k, a, b, x) => x \in Live(h2, fr) \cup {Null}
  BY ONLY <1>2, <1>5, <1>7
<1>10. \A x \in Live(h2, fr) : \E k, a, b : J(k, a, b, x)
  <2>. SUFFICES ASSUME NEW x \in Live(h2, fr)
                PROVE  \E k, a, b : J(k, a, b, x)
    OBVIOUS
  <2>1. CASE x \in Live(h, fr)
    <3>1. PICK k, a, b : H(k, a, b, x)
      BY <1>7, <2>1
    <3>2. IF k = "link" /\ a = e /\ b = 1 THEN J("join", 0, m + 1, x)
          ELSE IF k = "link" /\ a = e /\ b = 2 THEN J("join", 0, m + 2, x)
          ELSE J(k, a, b, x)
      BY ONLY <1>5, <1>6, <1>8, <2>1, <3>1
    <3>. QED  BY <3>2
  <2>2. CASE x = N + 1
    <3>1. J("link", e, 1, x)
      BY ONLY <1>5, <1>8, <2>2
    <3>. QED  BY <3>1
  <2>3. CASE x = N + 2
    <3>1. J("link", e, 2, x)
      BY ONLY <1>5, <1>8, <2>3
    <3>. QED  BY <3>1
  <2>. QED  BY <1>2, <2>1, <2>2, <2>3
<1>11. \A x, k, a, b, l, c, d :
           J(k, a, b, x) /\ J(l, c, d, x) /\ x # Null => k = l /\ a = c /\ b = d
  <2>. SUFFICES ASSUME NEW x, NEW k, NEW a, NEW b, NEW l, NEW c, NEW d, x # Null,
                       J(k, a, b, x), J(l, c, d, x)
                PROVE  k = l /\ a = c /\ b = d
    OBVIOUS
  <2>1. CASE x = N + 1 \/ x = N + 2
    <3>1. \A p, q, s : J(p, q, s, x) => p = "link" /\ q = e /\ (s = 1 \/ s = 2) /\ x = N + s
      BY ONLY <1>5, <1>7, <1>8, <2>1, x # Null
    <3>. QED  BY <1>1, <3>1
  <2>2. CASE x # N + 1 /\ x # N + 2
    BY <1>5, <1>6, <1>7, <2>2
  <2>. QED  BY <2>1, <2>2
<1>. QED  BY <1>9, <1>10, <1>11 DEF Owned, H, J

\* In h2 and r2 child 2 of node e is moved to the link (lo, li).
Spliced(h, h2, fr, r, r2, e, lo, li) ==
    /\ Len(h2) = Len(h)
    /\ \A a \in 1..Len(h) : h2[a].tag = h[a].tag /\ Len(h2[a].kids) = Len(h[a].kids)
    /\ \A o, i : IsLink(h, fr, o, i) =>
          To(h2, r2, o, i) = IF o = lo /\ i = li THEN h[e].kids[2]
                             ELSE IF o = e /\ i = 2 THEN Null ELSE To(h, r, o, i)

\* The rest took the place of the node, which was destroyed.
LEMMA RestOwned ==
  ASSUME NEW h, NEW h2, NEW fr, NEW fr2, NEW r, NEW r2, NEW cj, NEW w, NEW w2, NEW co,
         NEW n \in Nat, NEW e \in Live(h, fr), NEW lo, NEW li,
         Shaped(h), Owned(h, fr, r, cj, w, co), Spliced(h, h2, fr, r, r2, e, lo, li),
         Len(h[e].kids) = 2, h[e].kids[1] = Null, h[e].kids[2] # Null,
         IsLink(h, fr, lo, li), To(h, r, lo, li) = e, lo # e, \A x : x \in fr2 <=> x \in fr \/ x = e,
         Len(w) = n + 1, w[n + 1].kind # "collect", Len(w2) = n, \A i \in 1..n : w2[i] = w[i]
  PROVE  Owned(h2, fr2, r2, cj, w2, co)
<1>. DEFINE H(k, a, b, x) == Holds(h, fr, r, cj, w, co, k, a, b, x)
            J(k, a, b, x) == Holds(h2, fr2, r2, cj, w2, co, k, a, b, x)
<1>1. PICK c : c = h[e].kids[2]
  OBVIOUS
<1>2. Null \notin Live(h, fr) /\ e # Null
  BY LenProperties DEF Live, Shaped, Null
<1>3. \A x : x \in Live(h2, fr2) <=> x \in Live(h, fr) /\ x # e
  BY DEF Live, Spliced
<1>4. \A o, i : IsLink(h2, fr2, o, i) <=> IsLink(h, fr, o, i) /\ o # e
  <2>. SUFFICES ASSUME NEW o, NEW i
                PROVE  IsLink(h2, fr2, o, i) <=> IsLink(h, fr, o, i) /\ o # e
    OBVIOUS
  <2>1. o \in Live(h, fr) => Len(h2[o].kids) = Len(h[o].kids)
    BY DEF Live, Spliced
  <2>. QED  BY <1>2, <1>3, <2>1 DEF IsLink
<1>5. \A o, i : IsLink(h, fr, o, i) =>
          To(h2, r2, o, i) = IF o = lo /\ i = li THEN c
                             ELSE IF o = e /\ i = 2 THEN Null ELSE To(h, r, o, i)
  BY <1>1 DEF Spliced
<1>6. \A a : (a \in 1..n + 1 <=> a \in 1..n \/ a = n + 1) /\ (a \in 1..n => a # n + 1)
  OBVIOUS
<1>7. \A k, a, b, x : x # Null => (J(k, a, b, x) <=>
         IF k = "link" /\ a = lo /\ b = li THEN x = c ELSE (k = "link" => a # e) /\ H(k, a, b, x))
  <2>. SUFFICES ASSUME NEW k, NEW a, NEW b, NEW x, x # Null
                PROVE  J(k, a, b, x) <=>
         IF k = "link" /\ a = lo /\ b = li THEN x = c ELSE (k = "link" => a # e) /\ H(k, a, b, x)
    OBVIOUS
  <2>1. CASE k = "saved"
    BY <1>6, <2>1 DEF Holds
  <2>2. CASE k = "link"
    BY <1>4, <1>5, <2>2 DEF Holds
  <2>3. CASE k \notin {"saved", "link"}
    BY <2>3 DEF Holds
  <2>. QED  BY ONLY <2>1, <2>2, <2>3
<1>8. /\ H("link", lo, li, e) /\ H("link", e, 2, c)
      /\ \A a, b, x : H("link", a, b, x) /\ a = e /\ x # Null => b = 2 /\ x = c
      /\ \A b, x : H("link", lo, li, x) => x = e
  <2>1. \A i : i \in 1..2 <=> i = 1 \/ i = 2
    OBVIOUS
  <2>2. H("link", lo, li, e) /\ \A b, x : H("link", lo, li, x) => x = e
    BY DEF Holds
  <2>3. H("link", e, 2, c)
    BY <1>1, <1>2, <2>1 DEF Holds, IsLink, To
  <2>4. \A a, b, x : H("link", a, b, x) /\ a = e /\ x # Null => b = 2 /\ x = c
    BY <1>1, <1>2, <2>1 DEF Holds, IsLink, To
  <2>. QED  BY <2>2, <2>3, <2>4
<1>9. /\ \A k, a, b, x : H(k, a, b, x) => x \in Live(h, fr) \cup {Null}
      /\ \A x \in Live(h, fr) : \E k, a, b : H(k, a, b, x)
      /\ \A x, k, a, b, l, p, d :
           H(k, a, b, x) /\ H(l, p, d, x) /\ x # Null => k = l /\ a = p /\ b = d
  BY DEF Owned
<1>10. c # Null /\ lo # e
  BY <1>1
<1>. HIDE DEF H, J
<1>11. c # e /\ c \in Live(h, fr)
  BY ONLY <1>2, <1>8, <1>9, <1>10
<1>12. \A k, a, b, x : J(k, a, b, x) => x \in Live(h2, fr2) \cup {Null}
  <2>. SUFFICES ASSUME NEW k, NEW a, NEW b, NEW x, J(k, a, b, x), x # Null
                PROVE  x \in Live(h, fr) /\ x # e
    BY <1>3
  <2>1. CASE k = "link" /\ a = lo /\ b = li
    BY ONLY <1>7, <1>11, <2>1, J(k, a, b, x), x # Null
  <2>2. CASE ~(k = "link" /\ a = lo /\ b = li)
    <3>1. H(k, a, b, x)
      BY ONLY <1>7, <2>2, J(k, a, b, x), x # Null
    <3>2. x # e
      BY ONLY <1>2, <1>8, <1>9, <2>2, <3>1
    <3>. QED  BY ONLY <1>9, <3>1, <3>2, x # Null
  <2>. QED  BY <2>1, <2>2
<1>13. \A x \in Live(h2, fr2) : \E k, a, b : J(k, a, b, x)
  <2>. SUFFICES ASSUME NEW x \in Live(h, fr), x # e
                PROVE  \E k, a, b : J(k, a, b, x)
    BY <1>3
  <2>1. PICK k, a, b : H(k, a, b, x)
    BY <1>9
  <2>2. IF k = "link" /\ a = e THEN J("link", lo, li, x) ELSE J(k, a, b, x)
    BY ONLY <1>2, <1>7, <1>8, <2>1, x \in Live(h, fr), x # e
  <2>. QED  BY <2>2
<1>14. \A x, k, a, b, l, p, d :
           J(k, a, b, x) /\ J(l, p, d, x) /\ x # Null => k = l /\ a = p /\ b = d
  <2>. SUFFICES ASSUME NEW x, NEW k, NEW a, NEW b, NEW l, NEW p, NEW d, x # Null,
                       J(k, a, b, x), J(l, p, d, x)
                PROVE  k = l /\ a = p /\ b = d
    OBVIOUS
  <2>1. CASE x = c
    <3>1. \A s, t, u : J(s, t, u, x) => s = "link" /\ t = lo /\ u = li
      BY ONLY <1>7, <1>8, <1>9, <1>10, <2>1
    <3>. QED  BY <3>1
  <2>2. CASE x # c
    BY ONLY <1>7, <1>9, <2>2, x # Null, J(k, a, b, x), J(l, p, d, x)
  <2>. QED  BY <2>1, <2>2
<1>. QED  BY <1>12, <1>13, <1>14 DEF Owned, H, J

\* What is left of the root was destroyed.
LEMMA ReturnOwned ==
  ASSUME NEW h, NEW fr, NEW fr2, NEW r, NEW cj, NEW w, NEW co, r \in Live(h, fr),
         Shaped(h), Owned(h, fr, r, cj, w, co), Len(h[r].kids) = 0,
         \A x : x \in fr2 <=> x \in fr \/ x = r
  PROVE  Owned(h, fr2, Null, cj, w, co)
<1>. DEFINE H(k, a, b, x) == Holds(h, fr, r, cj, w, co, k, a, b, x)
            J(k, a, b, x) == Holds(h, fr2, Null, cj, w, co, k, a, b, x)
<1>1. Null \notin Live(h, fr) /\ r # Null
  BY LenProperties DEF Live, Shaped, Null
<1>2. \A x : x \in Live(h, fr2) <=> x \in Live(h, fr) /\ x # r
  BY DEF Live
<1>3. \A o, i : IsLink(h, fr2, o, i) <=> IsLink(h, fr, o, i)
  <2>1. \A i : i \notin 1..Len(h[r].kids)
    OBVIOUS
  <2>. QED  BY <1>1, <1>2, <2>1 DEF IsLink
<1>4. \A o, i : To(h, Null, o, i) = IF o = Null THEN Null ELSE To(h, r, o, i)
  BY DEF To
<1>5. \A k, a, b, x : x # Null => (J(k, a, b, x) <=> H(k, a, b, x) /\ ~(k = "link" /\ a = Null))
  <2>. SUFFICES ASSUME NEW k, NEW a, NEW b, NEW x, x # Null
                PROVE  J(k, a, b, x) <=> H(k, a, b, x) /\ ~(k = "link" /\ a = Null)
    OBVIOUS
  <2>1. CASE k = "link"
    BY <1>3, <1>4, <2>1 DEF Holds
  <2>2. CASE k # "link"
    BY <2>2 DEF Holds
  <2>. QED  BY <2>1, <2>2
<1>6. H("link", Null, 1, r) /\ \A b, x : H("link", Null, b, x) => b = 1 /\ x = r
  BY DEF Holds, IsLink, To
<1>7. /\ \A k, a, b, x : H(k, a, b, x) => x \in Live(h, fr) \cup {Null}
      /\ \A x \in Live(h, fr) : \E k, a, b : H(k, a, b, x)
      /\ \A x, k, a, b, l, p, d :
           H(k, a, b, x) /\ H(l, p, d, x) /\ x # Null => k = l /\ a = p /\ b = d
  BY DEF Owned
<1>. HIDE DEF H, J
<1>8. \A k, a, b, x : J(k, a, b, x) => x \in Live(h, fr2) \cup {Null}
  BY ONLY <1>1, <1>2, <1>5, <1>6, <1>7
<1>9. \A x \in Live(h, fr2) : \E k, a, b : J(k, a, b, x)
  BY ONLY <1>1, <1>2, <1>5, <1>6, <1>7
<1>10. \A x, k, a, b, l, p, d :
           J(k, a, b, x) /\ J(l, p, d, x) /\ x # Null => k = l /\ a = p /\ b = d
  BY ONLY <1>5, <1>7
<1>. QED  BY <1>8, <1>9, <1>10 DEF Owned, H, J

\* Links lead to live nodes, one to each, or nowhere.
LinksOwn(h, fr, r) ==
    /\ \A o, i : IsLink(h, fr, o, i) => To(h, r, o, i) \in Live(h, fr) \cup {Null}
    /\ \A o, i, p, j :
          IsLink(h, fr, o, i) /\ IsLink(h, fr, p, j) /\ To(h, r, o, i) = To(h, r, p, j)
          /\ To(h, r, o, i) # Null => o = p /\ i = j

\* Links own their nodes.
LEMMA OwnedLinks ==
  ASSUME NEW h, NEW fr, NEW r, NEW cj, NEW w, NEW co, Owned(h, fr, r, cj, w, co)
  PROVE  LinksOwn(h, fr, r)
<1>1. \A a, b : IsLink(h, fr, a, b) => Holds(h, fr, r, cj, w, co, "link", a, b, To(h, r, a, b))
  BY DEF Holds
<1>. QED  BY <1>1 DEF Owned, LinksOwn

-----------------------------------------------------------------------------
(***************************************************************************)
(* Tasks.                                                                  *)
(***************************************************************************)
LinkRec == [owner : Nat, kid : Nat]

JoinRec == [name : Ident, slot : Seq(Ident), body : Nat]

TaskRec ==
    [kind : {"node", "rest"}, link : LinkRec, exp : Nat]
      \cup [kind : {"collect"}, exp : Nat, joins : Seq(JoinRec)]
      \cup [kind : {"block", "branch"}, exp : Nat]

\* A task holds a link, or its closure takes something out of its node.
Holding(t) == t.kind \in {"node", "rest"}

Ends(t) == t.kind \in {"collect", "block"}

\* V is the set of nodes that were visited.
TaskOK(h, fr, r, V, t) ==
    /\ t.exp \in Live(h, fr)
    /\ Holding(t) => /\ IsLink(h, fr, t.link.owner, t.link.kid)
                     /\ To(h, r, t.link.owner, t.link.kid) = t.exp
                     /\ t.link.owner \in V \cup {Null}
    /\ t.kind = "node" <=> t.exp \notin V
    /\ t.kind = "rest" => h[t.exp].tag \in {"Fun", "Join"} /\ h[t.exp].kids[2] # Null
    /\ t.kind = "collect" => h[t.exp].tag = "Fun" /\ h[t.exp].kids[1] # Null
    /\ t.kind = "block" => h[t.exp].tag = "Join" /\ h[t.exp].kids[1] # Null
    /\ t.kind = "branch" => h[t.exp].tag = "If" /\ h[t.exp].kids[1] # Null /\ h[t.exp].kids[2] # Null

\* The closure of t is going to change the link that u holds.
Waits(t, u) ==
    /\ t.kind # "node" /\ Holding(u) /\ u.link.owner = t.exp
    /\ Ends(t) => u.link.kid = 1

Seen(h, fr, r, w, V) ==
    /\ V \subseteq 1..Len(h)
    /\ \A t \in 1..Len(w) : TaskOK(h, fr, r, V, w[t])
    /\ \A t, u \in 1..Len(w) : w[t].exp = w[u].exp /\ (Holding(w[t]) <=> Holding(w[u])) => t = u
    /\ \A t, u \in 1..Len(w) : Waits(w[t], w[u]) => t < u
    /\ \A u \in 1..Len(w) : Ends(w[u]) => \E t \in 1..Len(w) : t < u /\ w[t].kind = "rest" /\ w[t].exp = w[u].exp
    /\ \A t \in 1..Len(w) : w[t].kind = "rest" =>
          \/ h[w[t].exp].kids[1] = Null
          \/ \E u \in 1..Len(w) : t < u /\ Ends(w[u]) /\ w[u].exp = w[t].exp
    /\ \A a \in Live(h, fr) : a \notin V =>
          \A i \in 1..Len(h[a].kids) : h[a].kids[i] # Null /\ h[a].kids[i] \notin V

-----------------------------------------------------------------------------
\* What a visit of node e, which link l owns, pushes.
Spawned(h, e, l, t) ==
    \/ /\ t.kind = "node" /\ t.link.owner = e /\ t.link.kid \in 1..Len(h[e].kids)
       /\ t.exp = h[e].kids[t.link.kid]
    \/ t.kind = "rest" /\ t.exp = e /\ t.link = l /\ h[e].tag \in {"Fun", "Join"}
    \/ t.kind = "collect" /\ t.exp = e /\ h[e].tag = "Fun"
    \/ t.kind = "block" /\ t.exp = e /\ h[e].tag = "Join"
    \/ t.kind = "branch" /\ t.exp = e /\ h[e].tag = "If"

Pushed(h, w, w2, n, m, e, l) ==
    /\ n \in Nat /\ m \in Nat /\ n <= m /\ Len(w) = n + 1 /\ Len(w2) = m
    /\ w[n + 1].kind = "node" /\ w[n + 1].exp = e /\ w[n + 1].link = l
    /\ \A t \in 1..n : w2[t] = w[t]
    /\ \A t \in n + 1 .. m : Spawned(h, e, l, w2[t])
    /\ \A t, u \in n + 1 .. m :
          /\ w2[t].kind = "node" /\ w2[u].kind = "node" /\ w2[t].link.kid = w2[u].link.kid => t = u
          /\ w2[t].kind # "node" /\ w2[u].kind # "node" /\ (Holding(w2[t]) <=> Holding(w2[u])) => t = u
          /\ w2[t].kind # "node" /\ w2[u].kind = "node" /\ (Ends(w2[t]) => w2[u].link.kid = 1) => t < u
    /\ \A u \in n + 1 .. m : Ends(w2[u]) => \E t \in n + 1 .. m : t < u /\ w2[t].kind = "rest"
    /\ \A t \in n + 1 .. m : w2[t].kind = "rest" => \E u \in n + 1 .. m : t < u /\ Ends(w2[u])

\* What is known of the top task.
LEMMA TopSeen ==
  ASSUME NEW h, NEW fr, NEW r, NEW w, NEW V, NEW n \in Nat, NEW e,
         Shaped(h), LinksOwn(h, fr, r), Seen(h, fr, r, w, V), Len(w) = n + 1,
         w[n + 1].kind = "node", w[n + 1].exp = e
  PROVE  /\ e \in Live(h, fr) /\ e \in 1..Len(h) /\ e # Null /\ e \notin V
         /\ \A b \in Live(h, fr) : b \notin V =>
               \A i \in 1..Len(h[b].kids) : h[b].kids[i] # e
<1>1. n + 1 \in 1..n + 1
  OBVIOUS
<1>2. TaskOK(h, fr, r, V, w[n + 1])
  BY <1>1 DEF Seen
<1>3. PICK o, i : o = w[n + 1].link.owner /\ i = w[n + 1].link.kid
  OBVIOUS
<1>4. /\ IsLink(h, fr, o, i) /\ To(h, r, o, i) = e /\ o \in V \cup {Null} /\ e \notin V
      /\ e \in Live(h, fr)
  BY <1>2, <1>3 DEF TaskOK, Holding
<1>5. e \in 1..Len(h) /\ \A b \in Live(h, fr) : b # Null
  BY <1>4, LenProperties DEF Live, Shaped, Null
<1>6. ASSUME NEW b \in Live(h, fr), b \notin V, NEW j \in 1..Len(h[b].kids), h[b].kids[j] = e
      PROVE  FALSE
  <2>1. b # Null
    BY <1>5
  <2>2. IsLink(h, fr, b, j) /\ To(h, r, b, j) = e
    BY <1>6, <2>1 DEF IsLink, To
  <2>3. b = o
    BY <1>4, <1>5, <2>2 DEF LinksOwn
  <2>. QED  BY <1>4, <1>6, <2>1, <2>3
<1>. QED  BY <1>4, <1>5, <1>6

\* A visit leaves the tasks that were there as they are, and makes good ones.
LEMMA PushedSeen ==
  ASSUME NEW h, NEW fr, NEW r, NEW w, NEW w2, NEW V, NEW n, NEW m, NEW e, NEW l,
         Shaped(h), LinksOwn(h, fr, r), Seen(h, fr, r, w, V), Pushed(h, w, w2, n, m, e, l)
  PROVE  Seen(h, fr, r, w2, V \cup {e})
<1>1. /\ n \in Nat /\ m \in Nat /\ n <= m /\ Len(w) = n + 1 /\ Len(w2) = m
      /\ w[n + 1].kind = "node" /\ w[n + 1].exp = e /\ w[n + 1].link = l
      /\ \A t \in 1..n : w2[t] = w[t]
      /\ \A t \in n + 1 .. m : Spawned(h, e, l, w2[t])
      /\ \A t, u \in n + 1 .. m :
            /\ w2[t].kind = "node" /\ w2[u].kind = "node" /\ w2[t].link.kid = w2[u].link.kid => t = u
            /\ w2[t].kind # "node" /\ w2[u].kind # "node" /\ (Holding(w2[t]) <=> Holding(w2[u])) => t = u
            /\ w2[t].kind # "node" /\ w2[u].kind = "node" /\ (Ends(w2[t]) => w2[u].link.kid = 1) => t < u
      /\ \A u \in n + 1 .. m : Ends(w2[u]) => \E t \in n + 1 .. m : t < u /\ w2[t].kind = "rest"
      /\ \A t \in n + 1 .. m : w2[t].kind = "rest" => \E u \in n + 1 .. m : t < u /\ Ends(w2[u])
  BY DEF Pushed
<1>2. /\ e \in Live(h, fr) /\ e \in 1..Len(h) /\ e # Null /\ e \notin V
      /\ \A b \in Live(h, fr) : b \notin V => \A i \in 1..Len(h[b].kids) : h[b].kids[i] # e
  BY <1>1, TopSeen
<1>3. /\ V \subseteq 1..Len(h)
      /\ \A t \in 1..n + 1 : TaskOK(h, fr, r, V, w[t])
      /\ \A t, u \in 1..n + 1 : w[t].exp = w[u].exp /\ (Holding(w[t]) <=> Holding(w[u])) => t = u
      /\ \A t, u \in 1..n + 1 : Waits(w[t], w[u]) => t < u
      /\ \A u \in 1..n + 1 : Ends(w[u]) => \E t \in 1..n + 1 : t < u /\ w[t].kind = "rest" /\ w[t].exp = w[u].exp
      /\ \A t \in 1..n + 1 : w[t].kind = "rest" =>
            \/ h[w[t].exp].kids[1] = Null
            \/ \E u \in 1..n + 1 : t < u /\ Ends(w[u]) /\ w[u].exp = w[t].exp
      /\ \A a \in Live(h, fr) : a \notin V =>
            \A i \in 1..Len(h[a].kids) : h[a].kids[i] # Null /\ h[a].kids[i] \notin V
  BY <1>1 DEF Seen
<1>4. PICK W : W = V \cup {e}
  OBVIOUS
<1>5. \A t : /\ t \in 1..n => t \in 1..n + 1 /\ t \in 1..m /\ t < n + 1
             /\ t \in 1..m => t \in 1..n \/ t \in n + 1 .. m
             /\ t \in n + 1 .. m => t \in 1..m
             /\ t \in 1..n + 1 => t \in 1..n \/ t = n + 1
  BY <1>1
<1>6. n + 1 \in 1..n + 1 /\ TaskOK(h, fr, r, V, w[n + 1]) /\ Holding(w[n + 1])
  BY <1>1, <1>3 DEF Holding
<1>7. /\ IsLink(h, fr, l.owner, l.kid) /\ To(h, r, l.owner, l.kid) = e
      /\ l.owner \in V \cup {Null} /\ l.owner # e
  BY <1>1, <1>2, <1>6 DEF TaskOK
<1>8. \A i \in 1..Len(h[e].kids) :
         /\ IsLink(h, fr, e, i) /\ To(h, r, e, i) = h[e].kids[i] /\ h[e].kids[i] \in Live(h, fr)
         /\ h[e].kids[i] # Null /\ h[e].kids[i] \notin W
  <2>. SUFFICES ASSUME NEW i \in 1..Len(h[e].kids)
                PROVE  /\ IsLink(h, fr, e, i) /\ To(h, r, e, i) = h[e].kids[i]
                       /\ h[e].kids[i] \in Live(h, fr)
                       /\ h[e].kids[i] # Null /\ h[e].kids[i] \notin W
    OBVIOUS
  <2>1. IsLink(h, fr, e, i) /\ To(h, r, e, i) = h[e].kids[i]
    BY <1>2 DEF IsLink, To
  <2>2. h[e].kids[i] # Null /\ h[e].kids[i] \notin W
    BY <1>2, <1>3, <1>4
  <2>. QED  BY <2>1, <2>2 DEF LinksOwn
<1>9. ASSUME NEW t \in 1..n
      PROVE  TaskOK(h, fr, r, W, w2[t]) /\ w2[t] = w[t] /\ w[t].exp # e
  <2>1. w2[t] = w[t] /\ TaskOK(h, fr, r, V, w[t])
    BY <1>1, <1>3, <1>5
  <2>2. w[t].exp # e
    <3>1. CASE w[t].kind = "node"
      BY <1>1, <1>3, <1>5, <1>6, <3>1 DEF Holding
    <3>2. CASE w[t].kind # "node"
      BY <1>2, <2>1, <3>2 DEF TaskOK
    <3>. QED  BY <3>1, <3>2
  <2>. QED  BY <1>4, <2>1, <2>2 DEF TaskOK
<1>10. ASSUME NEW t \in n + 1 .. m
       PROVE  TaskOK(h, fr, r, W, w2[t])
  <2>1. Spawned(h, e, l, w2[t])
    BY <1>1
  <2>2. CASE w2[t].kind = "node"
    <3>1. /\ w2[t].link.owner = e /\ w2[t].link.kid \in 1..Len(h[e].kids)
          /\ w2[t].exp = h[e].kids[w2[t].link.kid]
      BY <2>1, <2>2 DEF Spawned
    <3>. QED  BY <1>4, <1>8, <2>2, <3>1 DEF TaskOK, Holding
  <2>3. CASE w2[t].kind # "node"
    <3>1. /\ w2[t].exp = e /\ w2[t].kind \in {"rest", "collect", "block", "branch"}
          /\ w2[t].kind = "rest" => w2[t].link = l /\ h[e].tag \in {"Fun", "Join"}
          /\ w2[t].kind = "collect" => h[e].tag = "Fun"
          /\ w2[t].kind = "block" => h[e].tag = "Join"
          /\ w2[t].kind = "branch" => h[e].tag = "If"
      BY <2>1, <2>3 DEF Spawned
    <3>2. Len(h[e].kids) = 2
      <4>1. Len(h[e].kids) = Arities[h[e].tag]
        BY <1>2 DEF Shaped
      <4>2. h[e].tag \in {"Fun", "Join", "If"}
        BY <3>1
      <4>. QED  BY <4>1, <4>2 DEF Arities
    <3>3. h[e].kids[1] # Null /\ h[e].kids[2] # Null
      BY <1>8, <3>2
    <3>. QED  BY <1>2, <1>4, <1>7, <2>3, <3>1, <3>3 DEF TaskOK, Holding
  <2>. QED  BY <2>2, <2>3
<1>11. \A t, u \in 1..m : w2[t].exp = w2[u].exp /\ (Holding(w2[t]) <=> Holding(w2[u])) => t = u
  <2>0. ASSUME NEW t \in 1..n, NEW u \in n + 1 .. m, w2[t].exp = w2[u].exp,
               Holding(w2[t]) <=> Holding(w2[u])
        PROVE  FALSE
    <3>1. w2[t] = w[t] /\ w[t].exp # e /\ TaskOK(h, fr, r, W, w[t])
      BY <1>9
    <3>2. w2[u].kind = "node"
      BY <1>1, <2>0, <3>1 DEF Spawned
    <3>3. /\ w2[u].link.owner = e /\ w2[u].link.kid \in 1..Len(h[e].kids)
          /\ w2[u].exp = h[e].kids[w2[u].link.kid]
      BY <1>1, <3>2 DEF Spawned
    <3>4. Holding(w[t])
      BY <2>0, <3>1, <3>2 DEF Holding
    <3>5. PICK o, i, j : o = w[t].link.owner /\ i = w[t].link.kid /\ j = w2[u].link.kid
      OBVIOUS
    <3>6. IsLink(h, fr, o, i) /\ To(h, r, o, i) = h[e].kids[j] /\ o \in W \cup {Null} /\ j \in 1..Len(h[e].kids)
      BY <2>0, <3>1, <3>3, <3>4, <3>5 DEF TaskOK
    <3>7. o = e
      BY <1>8, <3>6 DEF LinksOwn
    <3>8. TaskOK(h, fr, r, V, w[t])
      BY <1>3, <1>5
    <3>9. o \in V \cup {Null}
      BY <3>4, <3>5, <3>8 DEF TaskOK
    <3>. QED  BY <1>2, <3>7, <3>9
  <2>1. ASSUME NEW t \in n + 1 .. m, NEW u \in n + 1 .. m, w2[t].exp = w2[u].exp,
               Holding(w2[t]) <=> Holding(w2[u])
        PROVE  t = u
    <3>1. Spawned(h, e, l, w2[t]) /\ Spawned(h, e, l, w2[u])
      BY <1>1
    <3>2. CASE w2[t].kind = "node" /\ w2[u].kind = "node"
      <4>1. PICK i, j : i = w2[t].link.kid /\ j = w2[u].link.kid
        OBVIOUS
      <4>2. /\ i \in 1..Len(h[e].kids) /\ j \in 1..Len(h[e].kids)
            /\ h[e].kids[i] = h[e].kids[j]
        BY <2>1, <3>1, <3>2, <4>1 DEF Spawned
      <4>3. i = j
        BY <1>8, <4>2 DEF LinksOwn
      <4>4. w2[t].link.kid = w2[u].link.kid
        BY <4>1, <4>3
      <4>5. w2[t].kind = "node" /\ w2[u].kind = "node" /\ w2[t].link.kid = w2[u].link.kid => t = u
        BY <1>1
      <4>. QED  BY ONLY <3>2, <4>4, <4>5
    <3>3. CASE w2[t].kind # "node" /\ w2[u].kind # "node"
      BY <1>1, <2>1, <3>3
    <3>4. CASE w2[t].kind = "node" /\ w2[u].kind # "node"
      <4>1. w2[u].exp = e /\ w2[t].exp = h[e].kids[w2[t].link.kid] /\ w2[t].link.kid \in 1..Len(h[e].kids)
        BY <3>1, <3>4 DEF Spawned
      <4>. QED  BY <1>4, <1>8, <2>1, <4>1
    <3>5. CASE w2[t].kind # "node" /\ w2[u].kind = "node"
      <4>1. w2[t].exp = e /\ w2[u].exp = h[e].kids[w2[u].link.kid] /\ w2[u].link.kid \in 1..Len(h[e].kids)
        BY <3>1, <3>5 DEF Spawned
      <4>. QED  BY <1>4, <1>8, <2>1, <4>1
    <3>. QED  BY <3>2, <3>3, <3>4, <3>5
  <2>2. \A t, u \in 1..n : w2[t].exp = w2[u].exp /\ (Holding(w2[t]) <=> Holding(w2[u])) => t = u
    BY <1>3, <1>5, <1>9
  <2>. QED  BY <1>5, <2>0, <2>1, <2>2
<1>12. \A t, u \in 1..m : Waits(w2[t], w2[u]) => t < u
  <2>1. \A t, u \in 1..n : Waits(w2[t], w2[u]) => t < u
    BY <1>3, <1>5, <1>9
  <2>2. \A t \in 1..n, u \in n + 1 .. m : t < u
    BY <1>1
  <2>3. ASSUME NEW t \in n + 1 .. m, NEW u \in 1..n, Waits(w2[t], w2[u])
        PROVE  FALSE
    <3>1. w2[t].exp = e
      BY <1>1, <2>3 DEF Waits, Spawned
    <3>2. w2[u] = w[u] /\ TaskOK(h, fr, r, V, w[u])
      BY <1>3, <1>5, <1>9
    <3>3. w[u].link.owner \in V \cup {Null} /\ w[u].link.owner = e
      BY <2>3, <3>1, <3>2 DEF Waits, TaskOK
    <3>. QED  BY <1>2, <3>3
  <2>4. ASSUME NEW t \in n + 1 .. m, NEW u \in n + 1 .. m, Waits(w2[t], w2[u])
        PROVE  t < u
    <3>1. w2[t].exp = e /\ w2[t].kind # "node" /\ w2[u].link.owner = e /\ (Ends(w2[t]) => w2[u].link.kid = 1)
      BY <1>1, <2>4 DEF Waits, Spawned
    <3>2. w2[u].kind = "node"
      BY <1>1, <1>7, <2>4, <3>1 DEF Waits, Spawned, Holding
    <3>. QED  BY <1>1, <3>1, <3>2
  <2>. QED  BY <1>5, <2>1, <2>2, <2>3, <2>4
<1>13. \A u \in 1..m : Ends(w2[u]) => \E t \in 1..m : t < u /\ w2[t].kind = "rest" /\ w2[t].exp = w2[u].exp
  <2>1. ASSUME NEW u \in 1..n, Ends(w2[u])
        PROVE  \E t \in 1..m : t < u /\ w2[t].kind = "rest" /\ w2[t].exp = w2[u].exp
    <3>1. w2[u] = w[u] /\ u \in 1..n + 1
      BY <1>5, <1>9
    <3>2. PICK t \in 1..n + 1 : t < u /\ w[t].kind = "rest" /\ w[t].exp = w[u].exp
      BY <1>3, <2>1, <3>1
    <3>3. t \in 1..n
      BY <1>1, <3>2
    <3>. QED  BY <1>5, <1>9, <3>1, <3>2, <3>3
  <2>2. ASSUME NEW u \in n + 1 .. m, Ends(w2[u])
        PROVE  \E t \in 1..m : t < u /\ w2[t].kind = "rest" /\ w2[t].exp = w2[u].exp
    <3>1. PICK t \in n + 1 .. m : t < u /\ w2[t].kind = "rest"
      BY <1>1, <2>2
    <3>2. w2[t].exp = e /\ w2[u].exp = e
      BY <1>1, <2>2, <3>1 DEF Spawned, Ends
    <3>. QED  BY <1>5, <3>1, <3>2
  <2>. QED  BY <1>5, <2>1, <2>2
<1>14. \A t \in 1..m : w2[t].kind = "rest" =>
            \/ h[w2[t].exp].kids[1] = Null
            \/ \E u \in 1..m : t < u /\ Ends(w2[u]) /\ w2[u].exp = w2[t].exp
  <2>1. ASSUME NEW t \in 1..n, w2[t].kind = "rest", h[w2[t].exp].kids[1] # Null
        PROVE  \E u \in 1..m : t < u /\ Ends(w2[u]) /\ w2[u].exp = w2[t].exp
    <3>1. w2[t] = w[t] /\ t \in 1..n + 1
      BY <1>5, <1>9
    <3>2. PICK u \in 1..n + 1 : t < u /\ Ends(w[u]) /\ w[u].exp = w[t].exp
      BY <1>3, <2>1, <3>1
    <3>3. u \in 1..n
      BY <1>1, <1>5, <3>2 DEF Ends
    <3>. QED  BY <1>5, <1>9, <3>1, <3>2, <3>3
  <2>2. ASSUME NEW t \in n + 1 .. m, w2[t].kind = "rest"
        PROVE  \E u \in 1..m : t < u /\ Ends(w2[u]) /\ w2[u].exp = w2[t].exp
    <3>1. PICK u \in n + 1 .. m : t < u /\ Ends(w2[u])
      BY <1>1, <2>2
    <3>2. w2[t].exp = e /\ w2[u].exp = e
      BY <1>1, <2>2, <3>1 DEF Spawned, Ends
    <3>. QED  BY <1>5, <3>1, <3>2
  <2>. QED  BY <1>5, <2>1, <2>2
<1>15. \A a \in Live(h, fr) : a \notin W =>
          \A i \in 1..Len(h[a].kids) : h[a].kids[i] # Null /\ h[a].kids[i] \notin W
  BY <1>2, <1>3, <1>4
<1>16. W \subseteq 1..Len(h)
  BY <1>2, <1>3, <1>4
<1>17. \A t \in 1..m : TaskOK(h, fr, r, W, w2[t])
  BY <1>5, <1>9, <1>10
<1>18. Seen(h, fr, r, w2, W)
  BY ONLY <1>1, <1>11, <1>12, <1>13, <1>14, <1>15, <1>16, <1>17 DEF Seen
<1>. QED  BY <1>4, <1>18

-----------------------------------------------------------------------------
\* The top of stack w was taken; n tasks are left.
Popped(w, w2, n) ==
    n \in Nat /\ Len(w) = n + 1 /\ Len(w2) = n /\ \A i \in 1..n : w2[i] = w[i]

\* What Seen says of the order of the tasks.
Stacked(w) ==
    /\ \A t, u \in 1..Len(w) : w[t].exp = w[u].exp /\ (Holding(w[t]) <=> Holding(w[u])) => t = u
    /\ \A t, u \in 1..Len(w) : Waits(w[t], w[u]) => t < u
    /\ \A u \in 1..Len(w) : Ends(w[u]) => \E t \in 1..Len(w) : t < u /\ w[t].kind = "rest" /\ w[t].exp = w[u].exp

\* Nothing waits for the top task.
Foremost(h, fr, r, w, w2, V, n) ==
    /\ Stacked(w2) /\ TaskOK(h, fr, r, V, w[n + 1])
    /\ ~Waits(w[n + 1], w[n + 1])
    /\ \A t \in 1..n : /\ w2[t] = w[t] /\ TaskOK(h, fr, r, V, w[t]) /\ ~Waits(w[n + 1], w[t])
                       /\ ~(w[t].exp = w[n + 1].exp /\ (Holding(w[t]) <=> Holding(w[n + 1])))

\* The rest of the stack is in order.
LEMMA PoppedStacked ==
  ASSUME NEW h, NEW fr, NEW r, NEW w, NEW w2, NEW V, NEW n, Popped(w, w2, n), Seen(h, fr, r, w, V)
  PROVE  Foremost(h, fr, r, w, w2, V, n)
<1>1. /\ n \in Nat /\ Len(w) = n + 1 /\ Len(w2) = n /\ \A i \in 1..n : w2[i] = w[i]
  BY DEF Popped
<1>2. /\ \A t \in 1..n + 1 : TaskOK(h, fr, r, V, w[t])
      /\ \A t, u \in 1..n + 1 : w[t].exp = w[u].exp /\ (Holding(w[t]) <=> Holding(w[u])) => t = u
      /\ \A t, u \in 1..n + 1 : Waits(w[t], w[u]) => t < u
      /\ \A u \in 1..n + 1 : Ends(w[u]) =>
            \E t \in 1..n + 1 : t < u /\ w[t].kind = "rest" /\ w[t].exp = w[u].exp
  BY <1>1 DEF Seen
<1>3. n + 1 \in 1..n + 1 /\ \A t \in 1..n : t \in 1..n + 1 /\ t # n + 1 /\ ~(n + 1 < t)
  BY <1>1
<1>4. \A t, u \in 1..n : w2[t].exp = w2[u].exp /\ (Holding(w2[t]) <=> Holding(w2[u])) => t = u
  BY <1>1, <1>2, <1>3
<1>5. \A t, u \in 1..n : Waits(w2[t], w2[u]) => t < u
  BY <1>1, <1>2, <1>3
<1>6. \A u \in 1..n : Ends(w2[u]) => \E t \in 1..n : t < u /\ w2[t].kind = "rest" /\ w2[t].exp = w2[u].exp
  <2>. SUFFICES ASSUME NEW u \in 1..n, Ends(w2[u])
                PROVE  \E t \in 1..n : t < u /\ w2[t].kind = "rest" /\ w2[t].exp = w2[u].exp
    OBVIOUS
  <2>1. w2[u] = w[u]
    BY <1>1
  <2>2. PICK t \in 1..n + 1 : t < u /\ w[t].kind = "rest" /\ w[t].exp = w[u].exp
    BY <1>2, <1>3, <2>1
  <2>3. t \in 1..n
    BY <1>1, <2>2
  <2>. QED  BY <1>1, <2>1, <2>2, <2>3
<1>7. Stacked(w2)
  BY <1>1, <1>4, <1>5, <1>6 DEF Stacked
<1>8. ~Waits(w[n + 1], w[n + 1])
  BY <1>1, <1>2, <1>3
<1>9. \A t \in 1..n : /\ w2[t] = w[t] /\ TaskOK(h, fr, r, V, w[t]) /\ ~Waits(w[n + 1], w[t])
                      /\ ~(w[t].exp = w[n + 1].exp /\ (Holding(w[t]) <=> Holding(w[n + 1])))
  BY <1>1, <1>2, <1>3
<1>. QED  BY <1>2, <1>3, <1>7, <1>8, <1>9 DEF Foremost

\* Nodes that own a body or branches.
LEMMA TwoKids ==
  ASSUME NEW h, Shaped(h), NEW a \in 1..Len(h), h[a].tag \in {"Fun", "Join", "If"}
  PROVE  Len(h[a].kids) = 2 /\ 1 \in 1..Len(h[a].kids) /\ 2 \in 1..Len(h[a].kids)
<1>1. Len(h[a].kids) = Arities[h[a].tag]
  BY DEF Shaped
<1>2. Len(h[a].kids) = 2
  BY <1>1 DEF Arities
<1>. QED  BY <1>2

\* A body was moved out of node e.
LEMMA EndedSeen ==
  ASSUME NEW h, NEW h2, NEW fr, NEW r, NEW w, NEW w2, NEW V, NEW n, NEW e, Popped(w, w2, n),
         Seen(h, fr, r, w, V), Shaped(h), Ends(w[n + 1]), w[n + 1].exp = e,
         Changed(h, h2, e, 1, Null)
  PROVE  Seen(h2, fr, r, w2, V)
<1>1. /\ n \in Nat /\ Len(w) = n + 1 /\ Len(w2) = n /\ Stacked(w2) /\ TaskOK(h, fr, r, V, w[n + 1])
      /\ \A t \in 1..n : /\ w2[t] = w[t] /\ TaskOK(h, fr, r, V, w[t]) /\ ~Waits(w[n + 1], w[t])
                         /\ ~(w[t].exp = e /\ (Holding(w[t]) <=> Holding(w[n + 1])))
  <2>1. Foremost(h, fr, r, w, w2, V, n)
    BY PoppedStacked
  <2>2. n \in Nat /\ Len(w) = n + 1 /\ Len(w2) = n
    BY DEF Popped
  <2>. QED  BY <2>1, <2>2 DEF Foremost
<1>2. /\ w[n + 1].kind # "node" /\ ~Holding(w[n + 1]) /\ e \in V /\ e \in Live(h, fr) /\ e \in 1..Len(h)
      /\ 1 \in 1..Len(h[e].kids)
  <2>1. w[n + 1].kind # "node" /\ ~Holding(w[n + 1])
    BY DEF Ends, Holding
  <2>2. e \in V /\ e \in Live(h, fr) /\ h[e].tag \in {"Fun", "Join"}
    BY <1>1, <2>1 DEF TaskOK, Ends
  <2>3. e \in 1..Len(h)
    BY <2>2 DEF Live
  <2>4. 1 \in 1..Len(h[e].kids)
    BY <2>2, <2>3, TwoKids
  <2>. QED  BY <2>1, <2>2, <2>3, <2>4
<1>3. /\ Live(h2, fr) = Live(h, fr)
      /\ \A o, i : IsLink(h2, fr, o, i) <=> IsLink(h, fr, o, i)
      /\ \A o, i : IsLink(h, fr, o, i) => To(h2, r, o, i) = IF o = e /\ i = 1 THEN Null ELSE To(h, r, o, i)
  <2>1. PICK v, j : v = Null /\ j = 1
    OBVIOUS
  <2>2. Relinked(h, h2, fr, r, e, j, v)
    <3>1. Changed(h, h2, e, j, v)
      BY <2>1
    <3>. QED  BY <1>2, <3>1, ChangedLinks
  <2>. QED  BY <2>1, <2>2 DEF Relinked
<1>4. /\ Len(h2) = Len(h) /\ \A a \in 1..Len(h) : h2[a].tag = h[a].tag /\ Len(h2[a].kids) = Len(h[a].kids)
      /\ \A a \in 1..Len(h) : \A i \in 1..Len(h[a].kids) :
            h2[a].kids[i] = IF a = e /\ i = 1 THEN Null ELSE h[a].kids[i]
  BY DEF Changed
<1>6. \A a \in 1..Len(h) : h[a].tag \in {"Fun", "Join", "If"} =>
         /\ h2[a].kids[1] = IF a = e THEN Null ELSE h[a].kids[1]
         /\ h2[a].kids[2] = h[a].kids[2]
  <2>. SUFFICES ASSUME NEW a \in 1..Len(h), h[a].tag \in {"Fun", "Join", "If"}
                PROVE  /\ h2[a].kids[1] = IF a = e THEN Null ELSE h[a].kids[1]
                       /\ h2[a].kids[2] = h[a].kids[2]
    OBVIOUS
  <2>1. 1 \in 1..Len(h[a].kids) /\ 2 \in 1..Len(h[a].kids)
    BY TwoKids
  <2>. QED  BY <1>4, <2>1
<1>7. ASSUME NEW t \in 1..n
      PROVE  TaskOK(h2, fr, r, V, w2[t])
  <2>1. /\ w2[t] = w[t] /\ TaskOK(h, fr, r, V, w[t]) /\ ~Waits(w[n + 1], w[t])
        /\ w[t].exp = e => Holding(w[t])
    BY <1>1, <1>2
  <2>2. w[t].exp \in Live(h, fr) /\ w[t].exp \in 1..Len(h)
    BY <2>1 DEF TaskOK, Live
  <2>3. h2[w[t].exp].tag = h[w[t].exp].tag
    BY <1>4, <2>2
  <2>4. Holding(w[t]) => /\ IsLink(h2, fr, w[t].link.owner, w[t].link.kid)
                         /\ To(h2, r, w[t].link.owner, w[t].link.kid) = w[t].exp
                         /\ w[t].link.owner \in V \cup {Null}
    <3>1. SUFFICES ASSUME Holding(w[t]), NEW o, NEW i, o = w[t].link.owner, i = w[t].link.kid
                   PROVE  IsLink(h2, fr, o, i) /\ To(h2, r, o, i) = w[t].exp /\ o \in V \cup {Null}
      OBVIOUS
    <3>2. IsLink(h, fr, o, i) /\ To(h, r, o, i) = w[t].exp /\ o \in V \cup {Null}
      BY <2>1, <3>1 DEF TaskOK
    <3>3. ~(o = e /\ i = 1)
      BY <1>2, <2>1, <3>1 DEF Waits
    <3>. QED  BY <1>3, <3>2, <3>3
  <2>5. /\ w[t].kind = "rest" => h[w[t].exp].tag \in {"Fun", "Join"} /\ h2[w[t].exp].kids[2] # Null
        /\ w[t].kind = "collect" => h[w[t].exp].tag = "Fun" /\ h2[w[t].exp].kids[1] # Null
        /\ w[t].kind = "block" => h[w[t].exp].tag = "Join" /\ h2[w[t].exp].kids[1] # Null
        /\ w[t].kind = "branch" => h[w[t].exp].tag = "If" /\ h2[w[t].exp].kids[1] # Null /\ h2[w[t].exp].kids[2] # Null
    <3>1. w[t].kind \in {"collect", "block", "branch"} => w[t].exp # e
      BY <2>1 DEF Holding
    <3>. QED  BY <1>6, <2>1, <2>2, <3>1 DEF TaskOK
  <2>6. w[t].kind = "node" <=> w[t].exp \notin V
    BY <2>1 DEF TaskOK
  <2>. QED  BY ONLY <1>3, <2>1, <2>2, <2>3, <2>4, <2>5, <2>6 DEF TaskOK
<1>8. \A t \in 1..n : w2[t].kind = "rest" =>
            \/ h2[w2[t].exp].kids[1] = Null
            \/ \E u \in 1..n : t < u /\ Ends(w2[u]) /\ w2[u].exp = w2[t].exp
  <2>. SUFFICES ASSUME NEW t \in 1..n, w2[t].kind = "rest", h2[w2[t].exp].kids[1] # Null
                PROVE  \E u \in 1..n : t < u /\ Ends(w2[u]) /\ w2[u].exp = w2[t].exp
    OBVIOUS
  <2>1. /\ w2[t] = w[t] /\ w[t].exp \in 1..Len(h) /\ h[w[t].exp].tag \in {"Fun", "Join"} /\ t \in 1..n + 1
    BY <1>1 DEF TaskOK, Live
  <2>2. w[t].exp # e /\ h[w[t].exp].kids[1] # Null
    BY <1>6, <2>1
  <2>3. PICK u \in 1..n + 1 : t < u /\ Ends(w[u]) /\ w[u].exp = w[t].exp
    BY <1>1, <2>1, <2>2 DEF Seen
  <2>4. u \in 1..n
    BY <1>1, <2>2, <2>3
  <2>. QED  BY <1>1, <2>1, <2>3, <2>4
<1>9. \A a \in Live(h2, fr) : a \notin V =>
          \A i \in 1..Len(h2[a].kids) : h2[a].kids[i] # Null /\ h2[a].kids[i] \notin V
  <2>. SUFFICES ASSUME NEW a \in Live(h, fr), a \notin V, NEW i \in 1..Len(h2[a].kids)
                PROVE  h2[a].kids[i] # Null /\ h2[a].kids[i] \notin V
    BY <1>3
  <2>1. a # e /\ a \in 1..Len(h) /\ i \in 1..Len(h[a].kids)
    BY <1>2, <1>4 DEF Live
  <2>2. h2[a].kids[i] = h[a].kids[i]
    BY <1>4, <2>1
  <2>. QED  BY <2>1, <2>2 DEF Seen
<1>10. V \subseteq 1..Len(h2)
  BY <1>4 DEF Seen
<1>. QED  BY ONLY <1>1, <1>7, <1>8, <1>9, <1>10 DEF Seen, Stacked

\* The branches were moved out of node e.
LEMMA BranchedSeen ==
  ASSUME NEW h, NEW h2, NEW fr, NEW r, NEW w, NEW w2, NEW V, NEW n, NEW e, Popped(w, w2, n),
         Seen(h, fr, r, w, V), Shaped(h), fr \subseteq 1..Len(h), w[n + 1].kind = "branch", w[n + 1].exp = e,
         Branched(h, h2, e)
  PROVE  Seen(h2, fr, r, w2, V)
<1>1. /\ n \in Nat /\ Len(w) = n + 1 /\ Len(w2) = n /\ Stacked(w2) /\ TaskOK(h, fr, r, V, w[n + 1])
      /\ \A t \in 1..n : /\ w2[t] = w[t] /\ TaskOK(h, fr, r, V, w[t]) /\ ~Waits(w[n + 1], w[t])
                         /\ ~(w[t].exp = e /\ (Holding(w[t]) <=> Holding(w[n + 1])))
  <2>1. Foremost(h, fr, r, w, w2, V, n)
    BY PoppedStacked
  <2>2. n \in Nat /\ Len(w) = n + 1 /\ Len(w2) = n
    BY DEF Popped
  <2>. QED  BY <2>1, <2>2 DEF Foremost
<1>2. /\ ~Holding(w[n + 1]) /\ ~Ends(w[n + 1]) /\ e \in V /\ e \in Live(h, fr) /\ e \in 1..Len(h)
      /\ h[e].tag = "If" /\ Len(h[e].kids) = 2
  <2>1. w[n + 1].kind # "node" /\ ~Holding(w[n + 1]) /\ ~Ends(w[n + 1])
    BY DEF Ends, Holding
  <2>2. e \in V /\ e \in Live(h, fr) /\ h[e].tag = "If"
    BY <1>1, <2>1 DEF TaskOK
  <2>3. e \in 1..Len(h)
    BY <2>2 DEF Live
  <2>4. Len(h[e].kids) = 2
    BY <2>2, <2>3, TwoKids
  <2>. QED  BY <2>1, <2>2, <2>3, <2>4
<1>3. /\ \A x : x \in Live(h2, fr) <=> x \in Live(h, fr) \/ x = Len(h) + 1 \/ x = Len(h) + 2
      /\ \A o, i : IsLink(h2, fr, o, i) <=> IsLink(h, fr, o, i)
      /\ \A o, i : IsLink(h, fr, o, i) => To(h2, r, o, i) = IF o = e THEN Len(h) + i ELSE To(h, r, o, i)
  <2>1. BranchLinked(h, h2, fr, r, e)
    BY <1>2, BranchLinks
  <2>. QED  BY <2>1 DEF BranchLinked
<1>4. /\ Len(h2) = Len(h) + 2 /\ \A a \in 1..Len(h) : h2[a].tag = h[a].tag
      /\ \A a \in 1..Len(h) : a # e => h2[a].kids = h[a].kids
      /\ Len(h2[Len(h) + 1].kids) = 0 /\ Len(h2[Len(h) + 2].kids) = 0
  BY DEF Branched
<1>5. ASSUME NEW t \in 1..n
      PROVE  TaskOK(h2, fr, r, V, w2[t])
  <2>1. /\ w2[t] = w[t] /\ TaskOK(h, fr, r, V, w[t]) /\ ~Waits(w[n + 1], w[t])
        /\ w[t].exp = e => Holding(w[t])
    BY <1>1, <1>2
  <2>2. w[t].exp \in Live(h, fr) /\ w[t].exp \in 1..Len(h)
    BY <2>1 DEF TaskOK, Live
  <2>3. h2[w[t].exp].tag = h[w[t].exp].tag
    BY <1>4, <2>2
  <2>4. Holding(w[t]) => /\ IsLink(h2, fr, w[t].link.owner, w[t].link.kid)
                         /\ To(h2, r, w[t].link.owner, w[t].link.kid) = w[t].exp
                         /\ w[t].link.owner \in V \cup {Null}
    <3>1. SUFFICES ASSUME Holding(w[t]), NEW o, NEW i, o = w[t].link.owner, i = w[t].link.kid
                   PROVE  IsLink(h2, fr, o, i) /\ To(h2, r, o, i) = w[t].exp /\ o \in V \cup {Null}
      OBVIOUS
    <3>2. IsLink(h, fr, o, i) /\ To(h, r, o, i) = w[t].exp /\ o \in V \cup {Null}
      BY <2>1, <3>1 DEF TaskOK
    <3>3. o # e
      BY <1>2, <2>1, <3>1 DEF Waits
    <3>. QED  BY <1>3, <3>2, <3>3
  <2>5. /\ w[t].kind = "rest" => h[w[t].exp].tag \in {"Fun", "Join"} /\ h2[w[t].exp].kids[2] # Null
        /\ w[t].kind = "collect" => h[w[t].exp].tag = "Fun" /\ h2[w[t].exp].kids[1] # Null
        /\ w[t].kind = "block" => h[w[t].exp].tag = "Join" /\ h2[w[t].exp].kids[1] # Null
        /\ w[t].kind = "branch" => h[w[t].exp].tag = "If" /\ h2[w[t].exp].kids[1] # Null /\ h2[w[t].exp].kids[2] # Null
    <3>1. w[t].kind \in {"collect", "block", "branch", "rest"} => w[t].exp # e
      BY <1>2, <2>1 DEF Holding, TaskOK
    <3>2. w[t].kind \in {"collect", "block", "branch", "rest"} => h2[w[t].exp].kids = h[w[t].exp].kids
      BY <1>4, <2>2, <3>1
    <3>. QED  BY <2>1, <3>2 DEF TaskOK
  <2>6. w[t].kind = "node" <=> w[t].exp \notin V
    BY <2>1 DEF TaskOK
  <2>. QED  BY ONLY <1>3, <2>1, <2>2, <2>3, <2>4, <2>5, <2>6 DEF TaskOK
<1>6. \A t \in 1..n : w2[t].kind = "rest" =>
            \/ h2[w2[t].exp].kids[1] = Null
            \/ \E u \in 1..n : t < u /\ Ends(w2[u]) /\ w2[u].exp = w2[t].exp
  <2>. SUFFICES ASSUME NEW t \in 1..n, w2[t].kind = "rest", h2[w2[t].exp].kids[1] # Null
                PROVE  \E u \in 1..n : t < u /\ Ends(w2[u]) /\ w2[u].exp = w2[t].exp
    OBVIOUS
  <2>1. /\ w2[t] = w[t] /\ w[t].exp \in 1..Len(h) /\ h[w[t].exp].tag \in {"Fun", "Join"} /\ t \in 1..n + 1
    BY <1>1 DEF TaskOK, Live
  <2>2. w[t].exp # e /\ h[w[t].exp].kids[1] # Null
    BY <1>2, <1>4, <2>1
  <2>3. PICK u \in 1..n + 1 : t < u /\ Ends(w[u]) /\ w[u].exp = w[t].exp
    BY <1>1, <2>1, <2>2 DEF Seen
  <2>4. u \in 1..n
    BY <1>1, <2>2, <2>3
  <2>. QED  BY <1>1, <2>1, <2>3, <2>4
<1>7. \A a \in Live(h2, fr) : a \notin V =>
          \A i \in 1..Len(h2[a].kids) : h2[a].kids[i] # Null /\ h2[a].kids[i] \notin V
  <2>. SUFFICES ASSUME NEW a \in Live(h2, fr), a \notin V, NEW i \in 1..Len(h2[a].kids)
                PROVE  h2[a].kids[i] # Null /\ h2[a].kids[i] \notin V
    OBVIOUS
  <2>1. a # Len(h) + 1 /\ a # Len(h) + 2
    BY <1>4
  <2>2. a \in Live(h, fr) /\ a # e /\ a \in 1..Len(h)
    BY <1>2, <1>3, <2>1 DEF Live
  <2>3. h2[a].kids = h[a].kids
    BY <1>4, <2>2
  <2>. QED  BY <2>2, <2>3 DEF Seen
<1>8. V \subseteq 1..Len(h2)
  <2>1. Len(h) \in Nat
    BY LenProperties DEF Shaped
  <2>2. V \subseteq 1..Len(h)
    BY DEF Seen
  <2>. QED  BY <1>4, <2>1, <2>2
<1>. QED  BY ONLY <1>1, <1>5, <1>6, <1>7, <1>8 DEF Seen, Stacked

\* The rest of node e took its place.
LEMMA SplicedSeen ==
  ASSUME NEW h, NEW h2, NEW fr, NEW fr2, NEW r, NEW r2, NEW w, NEW w2, NEW V, NEW n, NEW e, NEW lo, NEW li,
         Popped(w, w2, n), Seen(h, fr, r, w, V), Shaped(h), LinksOwn(h, fr, r), w[n + 1].kind = "rest", w[n + 1].exp = e,
         w[n + 1].link.owner = lo, w[n + 1].link.kid = li,
         \A x : x \in fr2 <=> x \in fr \/ x = e,
         Spliced(h, h2, fr, r, r2, e, lo, li),
         \A t \in 1..Len(w) : w[t].kind \in {"node", "rest", "collect", "block", "branch"}
  PROVE  Seen(h2, fr2, r2, w2, V)
<1>1. /\ n \in Nat /\ Len(w) = n + 1 /\ Len(w2) = n /\ Stacked(w2) /\ TaskOK(h, fr, r, V, w[n + 1])
      /\ \A t \in 1..n : /\ w2[t] = w[t] /\ TaskOK(h, fr, r, V, w[t]) /\ ~Waits(w[n + 1], w[t])
                         /\ ~(w[t].exp = e /\ (Holding(w[t]) <=> Holding(w[n + 1])))
  <2>1. Foremost(h, fr, r, w, w2, V, n)
    BY PoppedStacked
  <2>2. n \in Nat /\ Len(w) = n + 1 /\ Len(w2) = n
    BY DEF Popped
  <2>. QED  BY <2>1, <2>2 DEF Foremost
<1>2. /\ Holding(w[n + 1]) /\ ~Ends(w[n + 1]) /\ e \in V /\ e \in Live(h, fr) /\ e \in 1..Len(h) /\ e # Null
      /\ h[e].tag \in {"Fun", "Join"} /\ h[e].kids[2] # Null
      /\ IsLink(h, fr, lo, li) /\ To(h, r, lo, li) = e /\ lo \in V \cup {Null}
  <2>1. w[n + 1].kind # "node" /\ Holding(w[n + 1]) /\ ~Ends(w[n + 1])
    BY DEF Ends, Holding
  <2>2. /\ e \in V /\ e \in Live(h, fr) /\ h[e].tag \in {"Fun", "Join"} /\ h[e].kids[2] # Null
        /\ IsLink(h, fr, lo, li) /\ To(h, r, lo, li) = e /\ lo \in V \cup {Null}
    BY <1>1, <2>1 DEF TaskOK
  <2>3. e \in 1..Len(h)
    BY <2>2 DEF Live
  <2>4. e # Null
    BY <2>3, NodeOf
  <2>. QED  BY <2>1, <2>2, <2>3, <2>4
<1>3. PICK c : c = h[e].kids[2]
  OBVIOUS
<1>4. /\ Len(h2) = Len(h)
      /\ \A a \in 1..Len(h) : h2[a].tag = h[a].tag /\ Len(h2[a].kids) = Len(h[a].kids)
      /\ \A o, i : IsLink(h, fr, o, i) =>
            To(h2, r2, o, i) = IF o = lo /\ i = li THEN c ELSE IF o = e /\ i = 2 THEN Null ELSE To(h, r, o, i)
  BY <1>3 DEF Spliced
<1>5. \A x : x \in Live(h2, fr2) <=> x \in Live(h, fr) /\ x # e
  BY <1>4 DEF Live
<1>6. \A o, i : o # e => (IsLink(h2, fr2, o, i) <=> IsLink(h, fr, o, i))
  <2>. SUFFICES ASSUME NEW o, NEW i, o # e PROVE IsLink(h2, fr2, o, i) <=> IsLink(h, fr, o, i)
    OBVIOUS
  <2>1. o \in Live(h, fr) => Len(h2[o].kids) = Len(h[o].kids)
    BY <1>4 DEF Live
  <2>. QED  BY <1>5, <2>1 DEF IsLink
\* Nothing but the top task is about node e.
<1>7. \A t \in 1..n : w[t].exp # e
  <2>. SUFFICES ASSUME NEW t \in 1..n, w[t].exp = e PROVE FALSE
    OBVIOUS
  <2>1. ~Holding(w[t]) /\ TaskOK(h, fr, r, V, w[t]) /\ w2[t] = w[t]
    BY <1>1, <1>2
  <2>2. w[t].kind # "branch"
    BY <1>2, <2>1 DEF TaskOK
  <2>3. CASE Ends(w[t])
    <3>1. PICK u \in 1..n : w2[u].kind = "rest" /\ w2[u].exp = w2[t].exp
      BY <1>1, <2>1, <2>3 DEF Stacked
    <3>2. w2[u] = w[u] /\ Holding(w[u])
      BY <1>1, <3>1 DEF Holding
    <3>. QED  BY <1>1, <1>2, <2>1, <3>1, <3>2
  <2>4. CASE ~Ends(w[t])
    <3>1. t \in 1..Len(w)
      BY <1>1
    <3>2. w[t].kind \in {"node", "rest", "collect", "block", "branch"}
      BY <3>1
    <3>. QED  BY ONLY <2>1, <2>2, <2>4, <3>2 DEF Ends, Holding
  <2>. QED  BY <2>3, <2>4
<1>8. c # Null /\ c # e /\ IsLink(h, fr, e, 2) /\ To(h, r, e, 2) = c /\ lo # e
  <2>1. 2 \in 1..Len(h[e].kids)
    BY <1>2, TwoKids
  <2>2. IsLink(h, fr, e, 2) /\ To(h, r, e, 2) = c
    BY <1>2, <1>3, <2>1 DEF IsLink, To
  <2>3. lo # e
    <3>1. Foremost(h, fr, r, w, w2, V, n)
      BY PoppedStacked
    <3>2. ~Waits(w[n + 1], w[n + 1])
      BY <3>1 DEF Foremost
    <3>. QED  BY <1>2, <3>2 DEF Waits
  <2>4. c # e
    BY <1>2, <2>2, <2>3 DEF LinksOwn
  <2>. QED  BY <1>2, <1>3, <2>2, <2>3, <2>4
<1>9. \A o, i : IsLink(h, fr, o, i) /\ To(h, r, o, i) = e => o = lo /\ i = li
  BY <1>2 DEF LinksOwn
\* The children of the other nodes.
<1>10. \A a \in Live(h, fr) : a # e =>
          \A i \in 1..Len(h[a].kids) :
             h2[a].kids[i] = IF a = lo /\ i = li THEN c ELSE h[a].kids[i]
  <2>. SUFFICES ASSUME NEW a \in Live(h, fr), a # e, NEW i \in 1..Len(h[a].kids)
                PROVE  h2[a].kids[i] = IF a = lo /\ i = li THEN c ELSE h[a].kids[i]
    OBVIOUS
  <2>1. a # Null
    <3>1. a \in 1..Len(h)
      BY DEF Live
    <3>. QED  BY <3>1, NodeOf
  <2>2. IsLink(h, fr, a, i)
    BY <2>1 DEF IsLink
  <2>3. To(h2, r2, a, i) = IF a = lo /\ i = li THEN c ELSE To(h, r, a, i)
    BY <1>4, <2>2
  <2>. QED  BY <2>1, <2>3 DEF To
<1>11. \A a \in Live(h, fr) : a # e /\ h[a].tag \in {"Fun", "Join", "If"} =>
          /\ h2[a].kids[1] = IF a = lo /\ 1 = li THEN c ELSE h[a].kids[1]
          /\ h2[a].kids[2] = IF a = lo /\ 2 = li THEN c ELSE h[a].kids[2]
  <2>. SUFFICES ASSUME NEW a \in Live(h, fr), a # e, h[a].tag \in {"Fun", "Join", "If"}
                PROVE  /\ h2[a].kids[1] = IF a = lo /\ 1 = li THEN c ELSE h[a].kids[1]
                       /\ h2[a].kids[2] = IF a = lo /\ 2 = li THEN c ELSE h[a].kids[2]
    OBVIOUS
  <2>1. a \in 1..Len(h)
    BY DEF Live
  <2>2. 1 \in 1..Len(h[a].kids) /\ 2 \in 1..Len(h[a].kids)
    BY <2>1, TwoKids
  <2>. QED  BY <1>10, <2>2
<1>12. ASSUME NEW t \in 1..n
       PROVE  TaskOK(h2, fr2, r2, V, w2[t])
  <2>1. /\ w2[t] = w[t] /\ TaskOK(h, fr, r, V, w[t]) /\ ~Waits(w[n + 1], w[t]) /\ w[t].exp # e
    BY <1>1, <1>7
  <2>2. w[t].exp \in Live(h, fr) /\ w[t].exp \in 1..Len(h)
    BY <2>1 DEF TaskOK, Live
  <2>3. h2[w[t].exp].tag = h[w[t].exp].tag /\ w[t].exp \in Live(h2, fr2)
    BY <1>4, <1>5, <2>1, <2>2
  <2>4. Holding(w[t]) => /\ IsLink(h2, fr2, w[t].link.owner, w[t].link.kid)
                         /\ To(h2, r2, w[t].link.owner, w[t].link.kid) = w[t].exp
                         /\ w[t].link.owner \in V \cup {Null}
    <3>1. SUFFICES ASSUME Holding(w[t]), NEW o, NEW i, o = w[t].link.owner, i = w[t].link.kid
                   PROVE  IsLink(h2, fr2, o, i) /\ To(h2, r2, o, i) = w[t].exp /\ o \in V \cup {Null}
      OBVIOUS
    <3>2. IsLink(h, fr, o, i) /\ To(h, r, o, i) = w[t].exp /\ o \in V \cup {Null}
      BY <2>1, <3>1 DEF TaskOK
    <3>3. o # e
      <4>1. w[n + 1].kind # "node" /\ ~Ends(w[n + 1])
        BY <1>2
      <4>. QED  BY <2>1, <3>1, <4>1 DEF Waits
    <3>4. ~(o = lo /\ i = li)
      BY <1>2, <2>1, <3>2
    <3>. QED  BY <1>4, <1>6, <3>2, <3>3, <3>4
  <2>5. /\ w[t].kind = "rest" => h[w[t].exp].tag \in {"Fun", "Join"} /\ h2[w[t].exp].kids[2] # Null
        /\ w[t].kind = "collect" => h[w[t].exp].tag = "Fun" /\ h2[w[t].exp].kids[1] # Null
        /\ w[t].kind = "block" => h[w[t].exp].tag = "Join" /\ h2[w[t].exp].kids[1] # Null
        /\ w[t].kind = "branch" => h[w[t].exp].tag = "If" /\ h2[w[t].exp].kids[1] # Null /\ h2[w[t].exp].kids[2] # Null
    BY <1>8, <1>11, <2>1, <2>2 DEF TaskOK
  <2>6. w[t].kind = "node" <=> w[t].exp \notin V
    BY <2>1 DEF TaskOK
  <2>. QED  BY ONLY <2>1, <2>3, <2>4, <2>5, <2>6 DEF TaskOK
<1>13. \A t \in 1..n : w2[t].kind = "rest" =>
            \/ h2[w2[t].exp].kids[1] = Null
            \/ \E u \in 1..n : t < u /\ Ends(w2[u]) /\ w2[u].exp = w2[t].exp
  <2>. SUFFICES ASSUME NEW t \in 1..n, w2[t].kind = "rest", h2[w2[t].exp].kids[1] # Null
                PROVE  \E u \in 1..n : t < u /\ Ends(w2[u]) /\ w2[u].exp = w2[t].exp
    OBVIOUS
  <2>1. /\ w2[t] = w[t] /\ w[t].exp \in Live(h, fr) /\ h[w[t].exp].tag \in {"Fun", "Join"} /\ t \in 1..n + 1
    BY <1>1 DEF TaskOK
  <2>2. h[w[t].exp].kids[1] # Null
    <3>1. PICK a : a = w[t].exp
      OBVIOUS
    <3>2. a \in Live(h, fr) /\ a # e /\ h[a].tag \in {"Fun", "Join"} /\ h2[a].kids[1] # Null
      BY <1>7, <2>1, <3>1
    <3>3. a # Null /\ 1 \in 1..Len(h[a].kids)
      <4>1. a \in 1..Len(h)
        BY <3>2 DEF Live
      <4>. QED  BY <3>2, <4>1, NodeOf, TwoKids
    <3>4. CASE a = lo /\ 1 = li
      <4>1. To(h, r, a, 1) = e
        BY <1>2, <3>4
      <4>. QED  BY <1>2, <3>1, <3>3, <4>1 DEF To
    <3>5. CASE ~(a = lo /\ 1 = li)
      BY <1>11, <3>1, <3>2, <3>5
    <3>. QED  BY <3>4, <3>5
  <2>3. PICK u \in 1..n + 1 : t < u /\ Ends(w[u]) /\ w[u].exp = w[t].exp
    BY <1>1, <2>1, <2>2 DEF Seen
  <2>4. u \in 1..n
    BY <1>1, <1>2, <2>3
  <2>. QED  BY <1>1, <2>1, <2>3, <2>4
<1>14. \A a \in Live(h2, fr2) : a \notin V =>
          \A i \in 1..Len(h2[a].kids) : h2[a].kids[i] # Null /\ h2[a].kids[i] \notin V
  <2>. SUFFICES ASSUME NEW a \in Live(h2, fr2), a \notin V, NEW i \in 1..Len(h2[a].kids)
                PROVE  h2[a].kids[i] # Null /\ h2[a].kids[i] \notin V
    OBVIOUS
  <2>1. a \in Live(h, fr) /\ a # e /\ a \in 1..Len(h)
    BY <1>5 DEF Live
  <2>2. i \in 1..Len(h[a].kids) /\ a # Null
    BY <1>4, <2>1, NodeOf
  <2>3. a # lo
    BY <1>2, <2>2
  <2>4. h2[a].kids[i] = h[a].kids[i]
    BY <1>10, <2>1, <2>2, <2>3
  <2>. QED  BY <2>1, <2>2, <2>4 DEF Seen
<1>15. V \subseteq 1..Len(h2)
  BY <1>4 DEF Seen
<1>. QED  BY ONLY <1>1, <1>12, <1>13, <1>14, <1>15 DEF Seen, Stacked

-----------------------------------------------------------------------------
(***************************************************************************)
(* What is pushed.                                                         *)
(***************************************************************************)
LEMMA RestType ==
  ASSUME NEW l \in LinkRec, NEW e \in Nat, NEW t, t = RestTask(l, e)
  PROVE  t \in TaskRec /\ t.kind = "rest" /\ t.exp = e /\ t.link = l
BY DEF RestTask, TaskRec

LEMMA CollectType ==
  ASSUME NEW e \in Nat, NEW js \in Seq(JoinRec), NEW t, t = CollectTask(e, js)
  PROVE  t \in TaskRec /\ t.kind = "collect" /\ t.exp = e /\ t.joins = js
BY DEF CollectTask, TaskRec

LEMMA BlockType ==
  ASSUME NEW e \in Nat, NEW t, t = BlockTask(e)
  PROVE  t \in TaskRec /\ t.kind = "block" /\ t.exp = e
BY DEF BlockTask, TaskRec

LEMMA BranchType ==
  ASSUME NEW e \in Nat, NEW t, t = BranchTask(e)
  PROVE  t \in TaskRec /\ t.kind = "branch" /\ t.exp = e
BY DEF BranchTask, TaskRec

\* The tasks q for node e, which link l owns: its children, and closures below them.
Spawn(h, e, l, q) ==
    /\ q \in Seq(TaskRec)
    /\ \A t \in 1..Len(q) : Spawned(h, e, l, q[t])
    /\ \A t, u \in 1..Len(q) :
          /\ q[t].kind = "node" /\ q[u].kind = "node" /\ q[t].link.kid = q[u].link.kid => t = u
          /\ q[t].kind # "node" /\ q[u].kind # "node" /\ (Holding(q[t]) <=> Holding(q[u])) => t = u
          /\ q[t].kind # "node" /\ q[u].kind = "node" /\ (Ends(q[t]) => q[u].link.kid = 1) => t < u
    /\ \A u \in 1..Len(q) : Ends(q[u]) => \E t \in 1..Len(q) : t < u /\ q[t].kind = "rest"
    /\ \A t \in 1..Len(q) : q[t].kind = "rest" => \E u \in 1..Len(q) : t < u /\ Ends(q[u])

\* They are pushed in the place of the task.
LEMMA SpawnPushed ==
  ASSUME NEW h, NEW w \in Seq(TaskRec), w # <<>>, NEW e, NEW l, NEW q, Spawn(h, e, l, q),
         Last(w).kind = "node", Last(w).exp = e, Last(w).link = l, NEW w2, w2 = Front(w) \o q
  PROVE  w2 \in Seq(TaskRec) /\ Pushed(h, w, w2, Len(w) - 1, Len(w) - 1 + Len(q), e, l)
<1>1. /\ Last(w) = w[Len(w)] /\ Front(w) \o q \in Seq(TaskRec)
      /\ Len(Front(w) \o q) = Len(w) - 1 + Len(q)
      /\ \A i \in 1..(Len(w) - 1) : (Front(w) \o q)[i] = w[i]
      /\ \A i \in 1..Len(q) : (Front(w) \o q)[Len(w) - 1 + i] = q[i]
  <2>1. q \in Seq(TaskRec) /\ w \in Seq(TaskRec) /\ w # <<>>
    BY DEF Spawn
  <2>. QED  BY ONLY <2>1, Replace
<1>2. PICK n, m, k : n = Len(w) - 1 /\ k = Len(q) /\ m = n + k
  OBVIOUS
<1>3. n \in Nat /\ Len(w) = n + 1 /\ k \in Nat
  <2>1. Len(w) \in Nat \ {0}
    BY EmptySeq
  <2>2. Len(q) \in Nat
    BY LenProperties DEF Spawn
  <2>. QED  BY <1>2, <2>1, <2>2
<1>4. /\ w2 \in Seq(TaskRec) /\ Len(w2) = m /\ w[n + 1] = Last(w)
      /\ \A i \in 1..n : w2[i] = w[i]
      /\ \A i \in 1..k : w2[n + i] = q[i]
  BY <1>1, <1>2, <1>3
<1>5. \A t \in n + 1 .. m : t - n \in 1..k /\ w2[t] = q[t - n]
  <2>. SUFFICES ASSUME NEW t \in n + 1 .. m PROVE t - n \in 1..k /\ w2[t] = q[t - n]
    OBVIOUS
  <2>1. t - n \in 1..k /\ n + (t - n) = t
    BY <1>2, <1>3
  <2>. QED  BY <1>4, <2>1
<1>6. /\ \A t \in 1..k : Spawned(h, e, l, q[t])
      /\ \A t, u \in 1..k :
            /\ q[t].kind = "node" /\ q[u].kind = "node" /\ q[t].link.kid = q[u].link.kid => t = u
            /\ q[t].kind # "node" /\ q[u].kind # "node" /\ (Holding(q[t]) <=> Holding(q[u])) => t = u
            /\ q[t].kind # "node" /\ q[u].kind = "node" /\ (Ends(q[t]) => q[u].link.kid = 1) => t < u
      /\ \A u \in 1..k : Ends(q[u]) => \E t \in 1..k : t < u /\ q[t].kind = "rest"
      /\ \A t \in 1..k : q[t].kind = "rest" => \E u \in 1..k : t < u /\ Ends(q[u])
  BY <1>2 DEF Spawn
<1>7. \A t \in n + 1 .. m : Spawned(h, e, l, w2[t])
  BY <1>5, <1>6
<1>8. ASSUME NEW t \in n + 1 .. m, NEW u \in n + 1 .. m
      PROVE  /\ w2[t].kind = "node" /\ w2[u].kind = "node" /\ w2[t].link.kid = w2[u].link.kid => t = u
             /\ w2[t].kind # "node" /\ w2[u].kind # "node" /\ (Holding(w2[t]) <=> Holding(w2[u])) => t = u
             /\ w2[t].kind # "node" /\ w2[u].kind = "node" /\ (Ends(w2[t]) => w2[u].link.kid = 1) => t < u
  <2>1. PICK i \in 1..k, j \in 1..k : i = t - n /\ j = u - n /\ w2[t] = q[i] /\ w2[u] = q[j]
    BY <1>5
  <2>2. (i = j => t = u) /\ (i < j => t < u)
    <3>1. n \in Int /\ t \in Int /\ u \in Int
      BY <1>2, <1>3
    <3>. QED  BY ONLY <2>1, <3>1
  <2>3. /\ q[i].kind = "node" /\ q[j].kind = "node" /\ q[i].link.kid = q[j].link.kid => i = j
        /\ q[i].kind # "node" /\ q[j].kind # "node" /\ (Holding(q[i]) <=> Holding(q[j])) => i = j
        /\ q[i].kind # "node" /\ q[j].kind = "node" /\ (Ends(q[i]) => q[j].link.kid = 1) => i < j
    BY <1>6
  <2>4. w2[t] = q[i] /\ w2[u] = q[j]
    BY <2>1
  <2>. QED  BY ONLY <2>2, <2>3, <2>4
<1>9. \A u \in n + 1 .. m : Ends(w2[u]) => \E t \in n + 1 .. m : t < u /\ w2[t].kind = "rest"
  <2>. SUFFICES ASSUME NEW u \in n + 1 .. m, Ends(w2[u])
                PROVE  \E t \in n + 1 .. m : t < u /\ w2[t].kind = "rest"
    OBVIOUS
  <2>1. PICK t \in 1..k : t < u - n /\ q[t].kind = "rest"
    BY <1>5, <1>6
  <2>2. n + t \in n + 1 .. m /\ n + t < u
    BY <1>2, <1>3, <2>1
  <2>. QED  BY <1>4, <2>1, <2>2
<1>10. \A t \in n + 1 .. m : w2[t].kind = "rest" => \E u \in n + 1 .. m : t < u /\ Ends(w2[u])
  <2>. SUFFICES ASSUME NEW t \in n + 1 .. m, w2[t].kind = "rest"
                PROVE  \E u \in n + 1 .. m : t < u /\ Ends(w2[u])
    OBVIOUS
  <2>1. PICK u \in 1..k : t - n < u /\ Ends(q[u])
    BY <1>5, <1>6
  <2>2. n + u \in n + 1 .. m /\ t < n + u
    BY <1>2, <1>3, <2>1
  <2>. QED  BY <1>4, <2>1, <2>2
<1>11. n \in Nat /\ m \in Nat /\ n <= m
  BY <1>2, <1>3
<1>12. w[n + 1].kind = "node" /\ w[n + 1].exp = e /\ w[n + 1].link = l
  BY <1>4
<1>13. Pushed(h, w, w2, n, m, e, l)
  BY ONLY <1>3, <1>4, <1>7, <1>8, <1>9, <1>10, <1>11, <1>12 DEF Pushed
<1>. QED  BY <1>2, <1>4, <1>13

\* The tasks for a FunExp or a JoinExp.
LEMMA FourSpawn ==
  ASSUME NEW h, NEW e, NEW l, NEW a \in TaskRec, NEW b \in TaskRec, NEW c \in TaskRec, NEW d \in TaskRec,
         Spawned(h, e, l, a), Spawned(h, e, l, b), Spawned(h, e, l, c), Spawned(h, e, l, d),
         a.kind = "rest", b.kind = "node", Ends(c), d.kind = "node", b.link.kid = 2, d.link.kid = 1
  PROVE  Spawn(h, e, l, <<a, b, c, d>>) /\ Len(<<a, b, c, d>>) = 4
<1>1. PICK q : q = <<a, b, c, d>>
  OBVIOUS
<1>2. /\ q \in Seq(TaskRec) /\ Len(q) = 4
      /\ q[1] = a /\ q[2] = b /\ q[3] = c /\ q[4] = d
  BY <1>1
<1>3. \A t : t \in 1..4 <=> t = 1 \/ t = 2 \/ t = 3 \/ t = 4
  OBVIOUS
<1>4. \A t \in 1..4 : Spawned(h, e, l, q[t])
  BY <1>2, <1>3
<1>5. /\ q[1].kind = "rest" /\ q[2].kind = "node" /\ q[4].kind = "node" /\ q[3].kind \in {"collect", "block"}
      /\ q[2].link.kid = 2 /\ q[4].link.kid = 1
  BY <1>2 DEF Ends
<1>6. Holding(q[1]) /\ Holding(q[2]) /\ Holding(q[4]) /\ ~Holding(q[3])
      /\ ~Ends(q[1]) /\ ~Ends(q[2]) /\ ~Ends(q[4]) /\ Ends(q[3])
  BY ONLY <1>5 DEF Holding, Ends
<1>7. ASSUME NEW t \in 1..4, NEW u \in 1..4
      PROVE  /\ q[t].kind = "node" /\ q[u].kind = "node" /\ q[t].link.kid = q[u].link.kid => t = u
             /\ q[t].kind # "node" /\ q[u].kind # "node" /\ (Holding(q[t]) <=> Holding(q[u])) => t = u
             /\ q[t].kind # "node" /\ q[u].kind = "node" /\ (Ends(q[t]) => q[u].link.kid = 1) => t < u
  <2>1. (t = 1 \/ t = 2 \/ t = 3 \/ t = 4) /\ (u = 1 \/ u = 2 \/ u = 3 \/ u = 4)
    BY <1>3
  <2>2. q[t].kind = "node" /\ q[u].kind = "node" /\ q[t].link.kid = q[u].link.kid => t = u
    BY ONLY <1>5, <2>1
  <2>3. q[t].kind # "node" /\ q[u].kind # "node" /\ (Holding(q[t]) <=> Holding(q[u])) => t = u
    BY ONLY <1>5, <1>6, <2>1
  <2>4. q[t].kind # "node" /\ q[u].kind = "node" /\ (Ends(q[t]) => q[u].link.kid = 1) => t < u
    BY ONLY <1>5, <1>6, <2>1
  <2>. QED  BY <2>2, <2>3, <2>4
<1>8. \A u \in 1..4 : Ends(q[u]) => \E t \in 1..4 : t < u /\ q[t].kind = "rest"
  <2>. SUFFICES ASSUME NEW u \in 1..4, Ends(q[u]) PROVE \E t \in 1..4 : t < u /\ q[t].kind = "rest"
    OBVIOUS
  <2>1. u = 3
    BY <1>3, <1>6
  <2>2. 1 \in 1..4 /\ 1 < 3
    OBVIOUS
  <2>. QED  BY <1>5, <2>1, <2>2
<1>9. \A t \in 1..4 : q[t].kind = "rest" => \E u \in 1..4 : t < u /\ Ends(q[u])
  <2>. SUFFICES ASSUME NEW t \in 1..4, q[t].kind = "rest" PROVE \E u \in 1..4 : t < u /\ Ends(q[u])
    OBVIOUS
  <2>1. t = 1
    BY <1>3, <1>5
  <2>2. 3 \in 1..4 /\ 1 < 3
    OBVIOUS
  <2>. QED  BY <1>6, <2>1, <2>2
<1>10. Spawn(h, e, l, q)
  BY ONLY <1>2, <1>4, <1>7, <1>8, <1>9 DEF Spawn
<1>. QED  BY <1>1, <1>2, <1>10

\* The tasks for an IfExp.
LEMMA ThreeSpawn ==
  ASSUME NEW h, NEW e, NEW l, NEW a \in TaskRec, NEW b \in TaskRec, NEW c \in TaskRec,
         Spawned(h, e, l, a), Spawned(h, e, l, b), Spawned(h, e, l, c),
         a.kind = "branch", b.kind = "node", c.kind = "node", b.link.kid = 2, c.link.kid = 1
  PROVE  Spawn(h, e, l, <<a, b, c>>) /\ Len(<<a, b, c>>) = 3
<1>1. PICK q : q = <<a, b, c>>
  OBVIOUS
<1>2. q \in Seq(TaskRec) /\ Len(q) = 3 /\ q[1] = a /\ q[2] = b /\ q[3] = c
  BY <1>1
<1>3. \A t : t \in 1..3 <=> t = 1 \/ t = 2 \/ t = 3
  OBVIOUS
<1>4. \A t \in 1..3 : Spawned(h, e, l, q[t])
  BY <1>2, <1>3
<1>5. /\ q[1].kind = "branch" /\ q[2].kind = "node" /\ q[3].kind = "node"
      /\ q[2].link.kid = 2 /\ q[3].link.kid = 1
  BY <1>2
<1>6. \A t \in 1..3 : ~Ends(q[t]) /\ q[t].kind # "rest"
  BY <1>3, <1>5 DEF Ends
<1>7. ASSUME NEW t \in 1..3, NEW u \in 1..3
      PROVE  /\ q[t].kind = "node" /\ q[u].kind = "node" /\ q[t].link.kid = q[u].link.kid => t = u
             /\ q[t].kind # "node" /\ q[u].kind # "node" /\ (Holding(q[t]) <=> Holding(q[u])) => t = u
             /\ q[t].kind # "node" /\ q[u].kind = "node" /\ (Ends(q[t]) => q[u].link.kid = 1) => t < u
  <2>1. (t = 1 \/ t = 2 \/ t = 3) /\ (u = 1 \/ u = 2 \/ u = 3)
    BY <1>3
  <2>. QED  BY ONLY <1>5, <2>1
<1>8. Spawn(h, e, l, q)
  BY ONLY <1>2, <1>4, <1>6, <1>7 DEF Spawn
<1>. QED  BY <1>1, <1>2, <1>8

\* The tasks for the other nodes.
LEMMA KidsSpawn ==
  ASSUME NEW h, NEW e, NEW l, Shaped(h), e \in 1..Len(h), NEW q,
         q = [i \in 1..Len(h[e].kids) |-> NodeTask(Link(e, i), h[e].kids[i])]
  PROVE  Spawn(h, e, l, q) /\ Len(q) = Len(h[e].kids) /\ \A t \in 1..Len(q) : q[t].kind = "node"
<1>1. PICK K, ks : ks = h[e].kids /\ K = Len(h[e].kids)
  OBVIOUS
<1>2. K \in Nat /\ e \in Nat /\ ks \in Seq(Nat) /\ Len(ks) = K
  BY <1>1, NodeOf
<1>3. \A i \in 1..K : ks[i] \in Nat
  BY <1>2, ElementOfSeq
<1>4. \A i \in 1..K : NodeTask(Link(e, i), ks[i]) \in TaskRec
  BY <1>2, <1>3 DEF NodeTask, Link, TaskRec, LinkRec
<1>5. q = [i \in 1..K |-> NodeTask(Link(e, i), ks[i])]
  BY <1>1
<1>6. q \in Seq(TaskRec) /\ Len(q) = K
  BY ONLY <1>2, <1>4, <1>5
<1>7. \A i \in 1..K : /\ q[i].kind = "node" /\ q[i].exp = ks[i]
                      /\ q[i].link.owner = e /\ q[i].link.kid = i
  BY ONLY <1>5 DEF NodeTask, Link
<1>8. \A i \in 1..K : Spawned(h, e, l, q[i]) /\ ~Ends(q[i])
  <2>. SUFFICES ASSUME NEW i \in 1..K PROVE Spawned(h, e, l, q[i]) /\ ~Ends(q[i])
    OBVIOUS
  <2>1. PICK t : t = q[i]
    OBVIOUS
  <2>2. t.kind = "node" /\ t.link.owner = e /\ t.link.kid = i /\ t.exp = h[e].kids[i] /\ i \in 1..Len(h[e].kids)
    BY <1>1, <1>7, <2>1
  <2>3. Spawned(h, e, l, t)
    BY ONLY <2>2 DEF Spawned
  <2>4. ~Ends(t)
    BY ONLY <2>2 DEF Ends
  <2>. QED  BY ONLY <2>1, <2>3, <2>4
<1>9. Spawn(h, e, l, q)
  BY ONLY <1>6, <1>7, <1>8 DEF Spawn
<1>. QED  BY <1>1, <1>6, <1>7, <1>9

-----------------------------------------------------------------------------
(***************************************************************************)
(* Nodes.                                                                  *)
(***************************************************************************)
\* The names that are made up are identifiers.
LEMMA MadeNames ==
  ASSUME NEW c \in Nat
  PROVE  /\ EntryName(c) \in Ident /\ ThenName(c) \in Ident /\ ElseName(c) \in Ident
         /\ NoName \in Ident /\ Main \in Ident
<1>1. \A s \in Stems : Name(s, <<>>) \in Ident
  BY StemsAssumption DEF Name, Ident
<1>2. "" \in Stems /\ "entry" \in Stems /\ "then" \in Stems /\ "else" \in Stems /\ "main" \in Stems
  BY DEF Stems
<1>. QED  BY <1>1, <1>2, FreshType DEF EntryName, ThenName, ElseName, NoName, Main

\* What a node is made of.
LEMMA MadeNode ==
  ASSUME NEW tag \in AnfTag, NEW x \in Ident, NEW ps \in Seq(Ident), NEW vs \in Seq(Value),
         NEW ks \in Seq(Nat), NEW n, n = Node(tag, x, ps, vs, ks)
  PROVE  n \in HeapNode /\ n.kids = ks /\ n.tag = tag
BY DEF Node, HeapNode

\* The nodes that hoist makes.
LEMMA JumpNode ==
  ASSUME NEW x \in Ident
  PROVE  JumpExp(x, <<>>) \in HeapNode /\ JumpExp(x, <<>>).kids = <<>> /\ JumpExp(x, <<>>).tag = "Jump"
<1>1. PICK n, tag, ps : n = JumpExp(x, <<>>) /\ ps = <<>> /\ tag = "Jump"
  OBVIOUS
<1>2. n = Node(tag, x, ps, ps, ps) /\ tag \in AnfTag /\ ps \in Seq(Ident) /\ ps \in Seq(Value) /\ ps \in Seq(Nat)
  BY <1>1 DEF JumpExp, AnfTag
<1>3. n \in HeapNode /\ n.kids = ps /\ n.tag = tag
  BY ONLY <1>2, x \in Ident, MadeNode
<1>. QED  BY <1>1, <1>3

LEMMA HaltNode ==
    /\ HaltExp(IntValue(0)) \in HeapNode /\ HaltExp(IntValue(0)).kids = <<>>
    /\ HaltExp(IntValue(0)).tag = "Halt"
<1>1. NoName \in Ident /\ "Halt" \in AnfTag
  <2>1. 0 \in Nat
    OBVIOUS
  <2>. QED  BY <2>1, MadeNames DEF AnfTag
<1>2. PICK v : v = IntValue(0)
  OBVIOUS
<1>3. v \in Value
  BY <1>1, <1>2 DEF IntValue, Val, Value
<1>4. PICK n, x, tag, ps, vs : n = HaltExp(v) /\ x = NoName /\ tag = "Halt" /\ ps = <<>> /\ vs = <<v>>
  OBVIOUS
<1>5. /\ n = Node(tag, x, ps, vs, ps) /\ tag \in AnfTag /\ x \in Ident /\ ps \in Seq(Ident)
      /\ vs \in Seq(Value) /\ ps \in Seq(Nat)
  BY <1>1, <1>3, <1>4 DEF HaltExp
<1>6. n \in HeapNode /\ n.kids = ps /\ n.tag = tag
  BY ONLY <1>5, MadeNode
<1>. QED  BY <1>2, <1>4, <1>6

LEMMA MainNode ==
  ASSUME NEW b \in Nat, NEW r \in Nat
  PROVE  /\ FunExp(Main, <<>>, b, r) \in HeapNode /\ FunExp(Main, <<>>, b, r).kids = <<b, r>>
         /\ FunExp(Main, <<>>, b, r).tag = "Fun"
<1>1. Main \in Ident /\ "Fun" \in AnfTag
  <2>1. 0 \in Nat
    OBVIOUS
  <2>. QED  BY <2>1, MadeNames DEF AnfTag
<1>2. PICK n, x, tag, ps, ks : n = FunExp(x, ps, b, r) /\ x = Main /\ tag = "Fun" /\ ps = <<>> /\ ks = <<b, r>>
  OBVIOUS
<1>3. /\ n = Node(tag, x, ps, ps, ks) /\ tag \in AnfTag /\ x \in Ident /\ ps \in Seq(Ident)
      /\ ps \in Seq(Value) /\ ks \in Seq(Nat)
  BY <1>1, <1>2 DEF FunExp
<1>4. n \in HeapNode /\ n.kids = ks /\ n.tag = tag
  BY ONLY <1>3, MadeNode
<1>. QED  BY <1>2, <1>4

-----------------------------------------------------------------------------
(***************************************************************************)
(* Heaps.                                                                  *)
(***************************************************************************)
Made(h, h2, e, j, v) == Shaped(h2) /\ Changed(h, h2, e, j, v)

\* Node e was replaced by p, one with the same tag and as many children.
Replaced(h, h2, e, p) ==
    /\ Shaped(h2) /\ Len(h2) = Len(h) /\ h2[e] = p
    /\ \A a \in 1..Len(h) : a # e => h2[a] = h[a]

\* The heap stays one.
LEMMA NodeReplaced ==
  ASSUME NEW h, Shaped(h), NEW e \in 1..Len(h), NEW p \in HeapNode, p.tag = h[e].tag,
         Len(p.kids) = Len(h[e].kids), NEW h2, h2 = [h EXCEPT ![e] = p]
  PROVE  Replaced(h, h2, e, p)
<1>1. h \in Seq(HeapNode)
  BY DEF Shaped
<1>2. /\ h2 \in Seq(HeapNode) /\ Len(h2) = Len(h) /\ h2[e] = p
      /\ \A a \in 1..Len(h) : a # e => h2[a] = h[a]
  BY <1>1
<1>3. \A a \in 1..Len(h) : Len(h[a].kids) = Arities[h[a].tag]
  BY DEF Shaped
<1>4. \A a \in 1..Len(h2) : Len(h2[a].kids) = Arities[h2[a].tag]
  BY ONLY <1>2, <1>3, e \in 1..Len(h), p.tag = h[e].tag, Len(p.kids) = Len(h[e].kids)
<1>5. Shaped(h2)
  BY ONLY <1>2, <1>4 DEF Shaped
<1>. QED  BY ONLY <1>2, <1>5 DEF Replaced

\* One child was replaced.
LEMMA KidReplaced ==
  ASSUME NEW ks \in Seq(Nat), NEW j \in 1..Len(ks), NEW v \in Nat, NEW us, us = [ks EXCEPT ![j] = v]
  PROVE  /\ us \in Seq(Nat) /\ Len(us) = Len(ks)
         /\ \A i \in 1..Len(ks) : us[i] = IF i = j THEN v ELSE ks[i]
OBVIOUS

\* Such a heap is changed in one link.
LEMMA MadeBy ==
  ASSUME NEW h, Shaped(h), NEW e \in 1..Len(h), NEW j \in 1..Len(h[e].kids), NEW v \in Nat,
         NEW p \in HeapNode, p.tag = h[e].tag, p.kids = [h[e].kids EXCEPT ![j] = v],
         NEW h2, h2 = [h EXCEPT ![e] = p]
  PROVE  Made(h, h2, e, j, v)
<1>1. PICK ks, us : ks = h[e].kids /\ us = [ks EXCEPT ![j] = v]
  OBVIOUS
<1>2. ks \in Seq(Nat) /\ j \in 1..Len(ks) /\ p.kids = us
  BY <1>1, NodeOf
<1>3. /\ us \in Seq(Nat) /\ Len(us) = Len(ks)
      /\ \A i \in 1..Len(ks) : us[i] = IF i = j THEN v ELSE ks[i]
  BY ONLY <1>1, <1>2, v \in Nat, KidReplaced
<1>4. /\ Shaped(h2) /\ Len(h2) = Len(h) /\ h2[e] = p
      /\ \A a \in 1..Len(h) : a # e => h2[a] = h[a]
  <2>1. Len(p.kids) = Len(h[e].kids)
    BY <1>1, <1>2, <1>3
  <2>2. /\ e \in 1..Len(h) /\ p \in HeapNode /\ p.tag = h[e].tag /\ h2 = [h EXCEPT ![e] = p]
    OBVIOUS
  <2>3. Replaced(h, h2, e, p)
    BY ONLY Shaped(h), <2>1, <2>2, NodeReplaced
  <2>. QED  BY ONLY <2>3 DEF Replaced
<1>5. \A a \in 1..Len(h) : h2[a].tag = h[a].tag /\ Len(h2[a].kids) = Len(h[a].kids)
  BY <1>1, <1>2, <1>3, <1>4
<1>6. ASSUME NEW a \in 1..Len(h), NEW i \in 1..Len(h[a].kids)
      PROVE  h2[a].kids[i] = IF a = e /\ i = j THEN v ELSE h[a].kids[i]
  <2>1. CASE a = e
    <3>1. h2[a].kids = us /\ h[a].kids = ks /\ i \in 1..Len(ks)
      BY <1>1, <1>2, <1>4, <1>6, <2>1
    <3>. QED  BY ONLY <1>3, <2>1, <3>1
  <2>2. CASE a # e
    BY <1>4, <2>2
  <2>. QED  BY <2>1, <2>2
<1>. QED  BY ONLY <1>4, <1>5, <1>6 DEF Made, Changed

\* An assignment to a link.
LEMMA Assigned ==
  ASSUME NEW h, Shaped(h), NEW e \in 1..Len(h), NEW j \in 1..Len(h[e].kids), NEW v \in Nat,
         NEW h2, h2 = [h EXCEPT ![e].kids[j] = v]
  PROVE  Made(h, h2, e, j, v)
<1>1. PICK m, p : m = h[e] /\ p = [m EXCEPT !.kids[j] = v]
  OBVIOUS
<1>2. h2 = [h EXCEPT ![e] = p]
  BY <1>1, Zenon
<1>3. m \in HeapNode /\ m.kids \in Seq(Nat) /\ j \in 1..Len(m.kids)
  BY <1>1, NodeOf
<1>4. PICK ks : ks = [m.kids EXCEPT ![j] = v]
  OBVIOUS
<1>5. ks \in Seq(Nat)
  <2>1. PICK us : us = m.kids
    OBVIOUS
  <2>2. us \in Seq(Nat) /\ j \in 1..Len(us) /\ ks = [us EXCEPT ![j] = v]
    BY <1>3, <1>4, <2>1
  <2>. QED  BY ONLY <2>2, v \in Nat, KidReplaced
<1>6. p = [m EXCEPT !.kids = ks]
  BY ONLY <1>1, <1>3, <1>4, Zenon DEF HeapNode
<1>7. p \in HeapNode /\ p.kids = ks /\ p.tag = m.tag
  BY ONLY <1>3, <1>5, <1>6, Zenon DEF HeapNode
<1>8. p.tag = h[e].tag /\ p.kids = [h[e].kids EXCEPT ![j] = v]
  BY <1>1, <1>4, <1>7
<1>. QED  BY <1>2, <1>7, <1>8, MadeBy

\* The body was moved out.
LEMMA EmptiedHeap ==
  ASSUME NEW h, Shaped(h), NEW e \in 1..Len(h), 1 \in 1..Len(h[e].kids)
  PROVE  Made(h, Emptied(h, e), e, 1, Null)
<1>1. PICK m, p, none, k, z :
         /\ m = h[e] /\ none = <<>> /\ k = 1 /\ z = Null
         /\ p = [m EXCEPT !.name = NoName, !.params = none, !.kids[k] = z]
  OBVIOUS
<1>2. Emptied(h, e) = [h EXCEPT ![e] = p]
  BY <1>1, Zenon DEF Emptied
<1>3. m \in HeapNode /\ m.kids \in Seq(Nat) /\ k \in 1..Len(m.kids) /\ z \in Nat
  BY <1>1, NodeOf DEF Null
<1>4. PICK ks : ks = [m.kids EXCEPT ![k] = z]
  OBVIOUS
<1>5. ks \in Seq(Nat)
  <2>1. PICK us : us = m.kids
    OBVIOUS
  <2>2. us \in Seq(Nat) /\ k \in 1..Len(us) /\ ks = [us EXCEPT ![k] = z]
    BY <1>3, <1>4, <2>1
  <2>. QED  BY ONLY <1>3, <2>2, KidReplaced
<1>6. NoName \in Ident /\ none \in Seq(Ident)
  <2>1. 0 \in Nat
    OBVIOUS
  <2>. QED  BY <1>1, <2>1, MadeNames
<1>7. p = [m EXCEPT !.name = NoName, !.params = none, !.kids = ks]
  BY ONLY <1>1, <1>3, <1>4, Zenon DEF HeapNode
<1>8. p \in HeapNode /\ p.kids = ks /\ p.tag = m.tag
  BY ONLY <1>3, <1>5, <1>6, <1>7, Zenon DEF HeapNode
<1>9. p.tag = h[e].tag /\ p.kids = [h[e].kids EXCEPT ![k] = z]
  BY <1>1, <1>4, <1>8
<1>10. Made(h, Emptied(h, e), e, k, z)
  <2>1. k \in 1..Len(h[e].kids)
    BY <1>1
  <2>. QED  BY <1>2, <1>3, <1>8, <1>9, <2>1, MadeBy
<1>. QED  BY <1>1, <1>10

\* Two elements more.
LEMMA PushTwo ==
  ASSUME NEW S, NEW s \in Seq(S), NEW a \in S, NEW b \in S, NEW s2, s2 = s \o <<a, b>>, NEW m, m = Len(s)
  PROVE  /\ s2 \in Seq(S) /\ m \in Nat /\ Len(s2) = m + 2 /\ s2[m + 1] = a /\ s2[m + 2] = b
         /\ \A i \in 1..m : s2[i] = s[i]
<1>1. PICK q : q = <<a, b>>
  OBVIOUS
<1>2. q \in Seq(S) /\ Len(q) = 2 /\ q[1] = a /\ q[2] = b
  BY <1>1
<1>3. m \in Nat
  BY LenProperties
<1>4. /\ s \o q \in Seq(S) /\ Len(s \o q) = Len(s) + Len(q)
      /\ \A i \in 1..(Len(s) + Len(q)) :
            (s \o q)[i] = IF i <= Len(s) THEN s[i] ELSE q[i - Len(s)]
  BY ONLY <1>2, s \in Seq(S), ConcatProperties
<1>5. s2 = s \o q
  BY <1>1
<1>6. \A i \in 1..(m + 2) : s2[i] = IF i <= m THEN s[i] ELSE q[i - m]
  BY <1>2, <1>4, <1>5
<1>7. /\ m + 1 \in 1..(m + 2) /\ ~(m + 1 <= m) /\ m + 1 - m = 1
      /\ m + 2 \in 1..(m + 2) /\ ~(m + 2 <= m) /\ m + 2 - m = 2
  BY <1>3
<1>8. s2[m + 1] = a /\ s2[m + 2] = b
  BY <1>2, <1>6, <1>7
<1>9. \A i \in 1..m : i \in 1..(m + 2) /\ i <= m
  BY <1>3
<1>10. \A i \in 1..m : s2[i] = s[i]
  BY <1>6, <1>9
<1>. QED  BY <1>2, <1>3, <1>4, <1>5, <1>8, <1>10

\* The branches were moved out, and two jumps put in their place.
LEMMA BranchedHeap ==
  ASSUME NEW h, Shaped(h), NEW e \in 1..Len(h), h[e].tag = "If", NEW p \in HeapNode, NEW q \in HeapNode,
         p.kids = <<>>, p.tag = "Jump", q.kids = <<>>, q.tag = "Jump",
         NEW h2, h2 = [h EXCEPT ![e].kids = <<Len(h) + 1, Len(h) + 2>>] \o <<p, q>>
  PROVE  Shaped(h2) /\ Branched(h, h2, e)
<1>1. PICK n \in Nat : n = Len(h)
  BY LenProperties DEF Shaped
<1>2. PICK m, ks, o, g : /\ m = h[e] /\ ks = <<n + 1, n + 2>> /\ o = [m EXCEPT !.kids = ks]
                         /\ g = [h EXCEPT ![e] = o]
  OBVIOUS
<1>3. g = [h EXCEPT ![e].kids = <<n + 1, n + 2>>]
  BY <1>2, Zenon
<1>4. ks \in Seq(Nat) /\ Len(ks) = 2 /\ ks[1] = n + 1 /\ ks[2] = n + 2
  BY <1>1, <1>2
<1>5. m \in HeapNode /\ m.tag = "If" /\ Len(m.kids) = 2
  <2>1. Len(h[e].kids) = 2
    BY TwoKids
  <2>. QED  BY <1>2, <2>1, NodeOf
<1>6. o \in HeapNode /\ o.kids = ks /\ o.tag = m.tag
  BY ONLY <1>2, <1>4, <1>5, Zenon DEF HeapNode
<1>7. /\ Shaped(g) /\ Len(g) = n /\ g[e] = o
      /\ \A a \in 1..n : a # e => g[a] = h[a]
  <2>1. o.tag = h[e].tag /\ Len(o.kids) = Len(h[e].kids)
    BY <1>2, <1>4, <1>5, <1>6
  <2>2. e \in 1..Len(h) /\ o \in HeapNode /\ g = [h EXCEPT ![e] = o]
    BY <1>2, <1>6
  <2>3. Replaced(h, g, e, o)
    BY ONLY Shaped(h), <2>1, <2>2, NodeReplaced
  <2>. QED  BY ONLY <1>1, <2>3 DEF Replaced
<1>10. h2 = g \o <<p, q>>
  BY <1>1, <1>3
<1>11. /\ h2 \in Seq(HeapNode) /\ Len(h2) = n + 2 /\ h2[n + 1] = p /\ h2[n + 2] = q
       /\ \A a \in 1..n : h2[a] = g[a]
  <2>1. g \in Seq(HeapNode) /\ n = Len(g)
    BY <1>7 DEF Shaped
  <2>. QED  BY ONLY p \in HeapNode, q \in HeapNode, <1>10, <2>1, PushTwo
<1>12. \A a : a \in 1..n + 2 <=> a \in 1..n \/ a = n + 1 \/ a = n + 2
  OBVIOUS
<1>13. Len(<<>>) = 0 /\ Arities["Jump"] = 0
  BY DEF Arities
<1>14. Shaped(h2)
  <2>1. \A a \in 1..n : Len(g[a].kids) = Arities[g[a].tag]
    BY <1>7 DEF Shaped
  <2>2. Len(p.kids) = Arities[p.tag] /\ Len(q.kids) = Arities[q.tag]
    BY <1>13
  <2>. QED  BY ONLY <1>11, <1>12, <2>1, <2>2 DEF Shaped
<1>15. \A a \in 1..n : h2[a].tag = h[a].tag /\ Len(h2[a].kids) = Len(h[a].kids)
  <2>. SUFFICES ASSUME NEW a \in 1..n PROVE h2[a].tag = h[a].tag /\ Len(h2[a].kids) = Len(h[a].kids)
    OBVIOUS
  <2>1. h2[a] = g[a] /\ (a # e => g[a] = h[a]) /\ g[e] = o
    BY <1>7, <1>11
  <2>2. o.tag = h[e].tag /\ Len(o.kids) = Len(h[e].kids)
    BY <1>2, <1>4, <1>5, <1>6
  <2>. QED  BY ONLY <2>1, <2>2
<1>16. \A a \in 1..n : a # e => h2[a].kids = h[a].kids
  BY <1>7, <1>11
<1>17. h2[e].kids = ks
  BY <1>1, <1>6, <1>7, <1>11
<1>18. Len(h2[n + 1].kids) = 0 /\ Len(h2[n + 2].kids) = 0
  BY <1>11, <1>13
<1>. QED  BY ONLY <1>1, <1>4, <1>11, <1>14, <1>15, <1>16, <1>17, <1>18 DEF Branched

\* The rest was moved to the link that owned the node.
RestMoved(h, h2, r, r2, e, lo, li, c, g) ==
    /\ c = h[e].kids[2] /\ g = [h EXCEPT ![e].kids[2] = Null]
    /\ IF lo = Null THEN r2 = c /\ h2 = g
       ELSE r2 = r /\ h2 = [g EXCEPT ![lo].kids[li] = c]

LEMMA SplicedHeap ==
  ASSUME NEW h, Shaped(h), NEW fr, NEW r, NEW e \in 1..Len(h), 2 \in 1..Len(h[e].kids), NEW lo, NEW li, lo # e,
         IsLink(h, fr, lo, li), NEW g, NEW h2, NEW r2, NEW c, RestMoved(h, h2, r, r2, e, lo, li, c, g)
  PROVE  Shaped(h2) /\ Spliced(h, h2, fr, r, r2, e, lo, li)
<1>0. /\ c = h[e].kids[2] /\ g = [h EXCEPT ![e].kids[2] = Null]
      /\ IF lo = Null THEN r2 = c /\ h2 = g
         ELSE r2 = r /\ h2 = [g EXCEPT ![lo].kids[li] = c]
  BY DEF RestMoved
<1>1. PICK j, z : j = 2 /\ z = Null
  OBVIOUS
<1>2. z \in Nat /\ j \in 1..Len(h[e].kids) /\ g = [h EXCEPT ![e].kids[j] = z] /\ c \in Nat /\ e # Null
  <2>1. h[e].kids \in Seq(Nat) /\ e # Null
    BY NodeOf
  <2>2. h[e].kids[2] \in Nat
    BY <2>1, ElementOfSeq
  <2>. QED  BY <1>0, <1>1, <2>1, <2>2 DEF Null
<1>3. Made(h, g, e, j, z)
  BY <1>2, Assigned
<1>4. /\ Shaped(g) /\ Len(g) = Len(h)
      /\ \A a \in 1..Len(h) : g[a].tag = h[a].tag /\ Len(g[a].kids) = Len(h[a].kids)
      /\ \A a \in 1..Len(h) : \A i \in 1..Len(h[a].kids) :
            g[a].kids[i] = IF a = e /\ i = 2 THEN Null ELSE h[a].kids[i]
  BY <1>1, <1>3 DEF Made, Changed
<1>5. \A o, i : IsLink(h, fr, o, i) /\ o # Null => o \in 1..Len(h) /\ i \in 1..Len(h[o].kids)
  BY DEF IsLink, Live
<1>6. CASE lo = Null
  <2>1. r2 = c /\ h2 = g /\ li = 1
    BY <1>0, <1>6 DEF IsLink
  <2>2. ASSUME NEW o, NEW i, IsLink(h, fr, o, i)
        PROVE  To(h2, r2, o, i) = IF o = lo /\ i = li THEN h[e].kids[2]
                                  ELSE IF o = e /\ i = 2 THEN Null ELSE To(h, r, o, i)
    <3>1. CASE o = Null
      <4>1. i = 1
        BY <2>2, <3>1 DEF IsLink
      <4>. QED  BY <1>0, <1>6, <2>1, <3>1, <4>1 DEF To
    <3>2. CASE o # Null
      <4>1. g[o].kids[i] = IF o = e /\ i = 2 THEN Null ELSE h[o].kids[i]
        BY <1>4, <1>5, <2>2, <3>2
      <4>. QED  BY <1>0, <1>6, <2>1, <3>2, <4>1 DEF To
    <3>. QED  BY <3>1, <3>2
  <2>. QED  BY <1>4, <2>1, <2>2 DEF Spliced
<1>7. CASE lo # Null
  <2>1. r2 = r /\ h2 = [g EXCEPT ![lo].kids[li] = c] /\ lo \in 1..Len(g) /\ li \in 1..Len(g[lo].kids)
    BY <1>0, <1>4, <1>5, <1>7
  <2>2. Made(g, h2, lo, li, c)
    BY <1>2, <1>4, <2>1, Assigned
  <2>3. /\ Shaped(h2) /\ Len(h2) = Len(h)
        /\ \A a \in 1..Len(h) : h2[a].tag = h[a].tag /\ Len(h2[a].kids) = Len(h[a].kids)
        /\ \A a \in 1..Len(h) : \A i \in 1..Len(h[a].kids) :
              h2[a].kids[i] = IF a = lo /\ i = li THEN c ELSE g[a].kids[i]
    BY <1>4, <2>2 DEF Made, Changed
  <2>4. ASSUME NEW o, NEW i, IsLink(h, fr, o, i)
        PROVE  To(h2, r2, o, i) = IF o = lo /\ i = li THEN h[e].kids[2]
                                  ELSE IF o = e /\ i = 2 THEN Null ELSE To(h, r, o, i)
    <3>1. CASE o = Null
      BY <1>2, <1>7, <2>1, <3>1 DEF To
    <3>2. CASE o # Null
      <4>1. o \in 1..Len(h) /\ i \in 1..Len(h[o].kids)
        BY <1>5, <2>4, <3>2
      <4>2. g[o].kids[i] = IF o = e /\ i = 2 THEN Null ELSE h[o].kids[i]
        BY <1>4, <4>1
      <4>3. h2[o].kids[i] = IF o = lo /\ i = li THEN c ELSE g[o].kids[i]
        BY <2>3, <4>1
      <4>. QED  BY <1>0, <3>2, <4>2, <4>3 DEF To
    <3>. QED  BY <3>1, <3>2
  <2>. QED  BY <2>3, <2>4 DEF Spliced
<1>. QED  BY <1>6, <1>7

-----------------------------------------------------------------------------
(***************************************************************************)
(* The invariant.                                                          *)
(***************************************************************************)
FunRec == [name : Ident, params : Seq(Ident), entry : JoinRec, blocks : Seq(JoinRec)]

TypeInv ==
    /\ Shaped(heap) /\ freed \subseteq 1..Len(heap) /\ Len(input) \in Nat
    /\ currentJoins \in Seq(JoinRec) /\ collected \in Seq(FunRec)
    /\ worklist \in Seq(TaskRec) /\ counter \in Nat /\ status \in {"run", "done"}

OwnInv ==
    /\ Owned(heap, freed, root, currentJoins, worklist, collected)
    /\ \E V : Seen(heap, freed, root, worklist, V)

\* The root is the function main, until its rest takes its place: hm is
\* that rest and m the function.
RootOK(h, r, w, hm, m) ==
    /\ hm \in 1..Len(h) /\ m \in 1..Len(h) /\ m # hm
    /\ h[hm].tag = "Halt" /\ h[m].tag = "Fun"
    /\ \/ r = hm
       \/ /\ r = m /\ h[m].kids[2] = hm /\ w # <<>> /\ Holding(w[1])
          /\ w[1].link.owner = Null /\ w[1].exp = m

RootInv == status = "run" => RootOK(heap, root, worklist, Len(input) + 1, Len(input) + 2)

Inv == TypeInv /\ OwnInv /\ RootInv

\* What the invariant says of the task on top.
LEMMA TopTask ==
  ASSUME TypeInv, OwnInv, worklist # <<>>
  PROVE  /\ worklist \in Seq(TaskRec) /\ Task \in TaskRec /\ Task = Last(worklist) /\ Task = worklist[Len(worklist)]
         /\ Len(worklist) \in Nat \ {0} /\ Task.exp \in Live(heap, freed)
         /\ Task.exp \in 1..Len(heap) /\ Task.exp \in Nat
<1>1. /\ worklist \in Seq(TaskRec) /\ Task \in TaskRec /\ Task = worklist[Len(worklist)]
      /\ Len(worklist) \in Nat \ {0}
  BY Pop DEF TypeInv, Task
<1>2. PICK V : Seen(heap, freed, root, worklist, V)
  BY DEF OwnInv
<1>3. Len(worklist) \in 1..Len(worklist)
  BY <1>1
<1>4. TaskOK(heap, freed, root, V, Task)
  BY <1>1, <1>2, <1>3 DEF Seen
<1>5. Task.exp \in Live(heap, freed) /\ Task.exp \in 1..Len(heap)
  BY <1>4 DEF TaskOK, Live
<1>. QED  BY <1>1, <1>5 DEF Task

\* Visiting a node: its tasks are pushed.
LEMMA VisitInv ==
  ASSUME TypeInv, OwnInv, worklist # <<>>, Task.kind = "node", NEW q, NEW w2,
         Spawn(heap, Task.exp, Task.link, q), w2 = Front(worklist) \o q
  PROVE  /\ w2 \in Seq(TaskRec) /\ \E V : Seen(heap, freed, root, w2, V)
         /\ Pushed(heap, worklist, w2, Len(worklist) - 1, Len(worklist) - 1 + Len(q), Task.exp, Task.link)
<1>1. PICK e, l, n, m : e = Task.exp /\ l = Task.link /\ n = Len(worklist) - 1 /\ m = Len(worklist) - 1 + Len(q)
  OBVIOUS
<1>2. PICK V : Seen(heap, freed, root, worklist, V)
  BY DEF OwnInv
<1>3. LinksOwn(heap, freed, root)
  BY OwnedLinks DEF OwnInv
<1>4. w2 \in Seq(TaskRec) /\ Pushed(heap, worklist, w2, n, m, e, l)
  <2>1. Last(worklist).kind = "node" /\ Last(worklist).exp = e /\ Last(worklist).link = l /\ worklist \in Seq(TaskRec)
    BY <1>1, TopTask
  <2>2. Spawn(heap, e, l, q)
    BY <1>1
  <2>. QED  BY <1>1, <2>1, <2>2, SpawnPushed
<1>5. Seen(heap, freed, root, w2, V \cup {e})
  BY <1>2, <1>3, <1>4, PushedSeen DEF TypeInv
<1>. QED  BY <1>1, <1>4, <1>5

\* The blocks stay where they are when a node is visited that starts no function.
LEMMA VisitOwned ==
  ASSUME TypeInv, OwnInv, NEW w2, NEW n, NEW m, NEW e, NEW l, Pushed(heap, worklist, w2, n, m, e, l),
         \A i \in n + 1 .. m : w2[i].kind # "collect"
  PROVE  Owned(heap, freed, root, currentJoins, w2, collected)
<1>1. /\ n \in Nat /\ m \in Nat /\ m >= n /\ Len(worklist) = n + 1 /\ Len(w2) = m
      /\ worklist[n + 1].kind # "collect" /\ \A i \in 1..n : w2[i] = worklist[i]
  BY DEF Pushed
<1>2. Owned(heap, freed, root, currentJoins, worklist, collected)
  BY DEF OwnInv
<1>3. \A i \in n + 1 .. Len(w2) : w2[i].kind # "collect"
  BY <1>1
<1>. QED  BY <1>1, <1>2, <1>3, KeptOwned

\* The bottom of the stack stays, or is replaced.
LEMMA VisitRoot ==
  ASSUME NEW h, NEW r, NEW w, NEW w2, NEW hm, NEW f, NEW n, NEW m, NEW e, NEW l,
         RootOK(h, r, w, hm, f), Pushed(h, w, w2, n, m, e, l),
         \/ h[e].tag # "Fun"
         \/ m = n + 4 /\ w2[n + 1].kind = "rest" /\ w2[n + 1].exp = e /\ w2[n + 1].link = l
  PROVE  RootOK(h, r, w2, hm, f)
<1>1. /\ n \in Nat /\ m \in Nat /\ n <= m /\ Len(w) = n + 1 /\ Len(w2) = m
      /\ w[n + 1].kind = "node" /\ w[n + 1].exp = e /\ w[n + 1].link = l
      /\ \A t \in 1..n : w2[t] = w[t]
  BY DEF Pushed
<1>2. CASE r = hm
  BY <1>2 DEF RootOK
<1>3. CASE r # hm
  <2>1. /\ r = f /\ h[f].kids[2] = hm /\ Holding(w[1]) /\ w[1].link.owner = Null /\ w[1].exp = f /\ h[f].tag = "Fun"
    BY <1>3 DEF RootOK
  <2>2. CASE n = 0
    <3>1. e = f /\ l.owner = Null
      BY <1>1, <2>1, <2>2
    <3>2. w2[1].kind = "rest" /\ w2[1].exp = e /\ w2[1].link = l /\ w2 # <<>>
      BY <1>1, <2>1, <2>2, <3>1
    <3>. QED  BY <2>1, <3>1, <3>2 DEF RootOK, Holding
  <2>3. CASE n # 0
    <3>1. 1 \in 1..n
      BY <1>1, <2>3
    <3>2. w2[1] = w[1]
      BY <1>1, <3>1
    <3>3. w2 # <<>>
      BY <1>1, <3>1
    <3>. QED  BY <2>1, <3>2, <3>3 DEF RootOK
  <2>. QED  BY <2>2, <2>3
<1>. QED  BY <1>2, <1>3

-----------------------------------------------------------------------------
(***************************************************************************)
(* The visitors.                                                           *)
(***************************************************************************)
\* The task for a child.
LEMMA ChildIs ==
  ASSUME Shaped(heap), NEW e \in 1..Len(heap), NEW i \in 1..Len(heap[e].kids), NEW l, NEW t, t = ChildTask(e, i)
  PROVE  t \in TaskRec /\ t.kind = "node" /\ t.link.kid = i /\ Spawned(heap, e, l, t)
<1>1. PICK k, ks : ks = heap[e].kids /\ k = ks[i]
  OBVIOUS
<1>2. ks \in Seq(Nat) /\ e \in Nat /\ i \in 1..Len(ks)
  BY <1>1, NodeOf
<1>3. i \in Nat /\ k \in Nat
  BY <1>1, <1>2, ElementOfSeq, LenProperties
<1>4. t = NodeTask(Link(e, i), k)
  BY <1>1 DEF ChildTask
<1>5. t \in TaskRec /\ t.kind = "node" /\ t.exp = k /\ t.link.owner = e /\ t.link.kid = i
  BY ONLY <1>2, <1>3, <1>4 DEF NodeTask, Link, TaskRec, LinkRec
<1>6. t.link.kid \in 1..Len(heap[e].kids) /\ t.exp = heap[e].kids[t.link.kid]
  BY <1>1, <1>2, <1>5
<1>. QED  BY ONLY <1>5, <1>6 DEF Spawned

\* The blocks met so far are set aside in the task.
LEMMA VisitFunInv ==
  ASSUME Inv, VisitFun
  PROVE  Inv'
<1>. USE DEF Inv
<1>1. PICK e, l : e = Task.exp /\ l = Task.link
  OBVIOUS
<1>2. /\ status = "run" /\ worklist # <<>> /\ Task.kind = "node" /\ heap[e].tag = "Fun"
      /\ worklist' = Front(worklist)
           \o <<RestTask(l, e), ChildTask(e, 2), CollectTask(e, currentJoins), ChildTask(e, 1)>>
      /\ currentJoins' = <<>> /\ input' = input /\ heap' = heap /\ freed' = freed /\ root' = root
      /\ collected' = collected /\ counter' = counter /\ status' = status
  BY <1>1 DEF VisitFun, Visits, Takes
<1>3. /\ l \in LinkRec /\ e \in Nat /\ e \in 1..Len(heap) /\ currentJoins \in Seq(JoinRec)
      /\ 1 \in 1..Len(heap[e].kids) /\ 2 \in 1..Len(heap[e].kids) /\ Shaped(heap)
  <2>1. e \in 1..Len(heap) /\ e \in Nat /\ Task \in TaskRec
    BY <1>1, <1>2, TopTask
  <2>2. 1 \in 1..Len(heap[e].kids) /\ 2 \in 1..Len(heap[e].kids)
    BY <1>2, <2>1, TwoKids DEF TypeInv
  <2>3. l \in LinkRec
    BY <1>1, <1>2, <2>1 DEF TaskRec
  <2>. QED  BY <2>1, <2>2, <2>3 DEF TypeInv
<1>4. PICK a, b, c, d : /\ a = RestTask(l, e) /\ b = ChildTask(e, 2)
                        /\ c = CollectTask(e, currentJoins) /\ d = ChildTask(e, 1)
  OBVIOUS
<1>5. a \in TaskRec /\ a.kind = "rest" /\ a.exp = e /\ a.link = l
  BY ONLY <1>3, <1>4, RestType
<1>6. b \in TaskRec /\ b.kind = "node" /\ b.link.kid = 2 /\ Spawned(heap, e, l, b)
  BY ONLY <1>3, <1>4, ChildIs
<1>7. c \in TaskRec /\ c.kind = "collect" /\ c.exp = e /\ c.joins = currentJoins
  BY ONLY <1>3, <1>4, CollectType
<1>8. d \in TaskRec /\ d.kind = "node" /\ d.link.kid = 1 /\ Spawned(heap, e, l, d)
  BY ONLY <1>3, <1>4, ChildIs
<1>9. PICK q : q = <<a, b, c, d>>
  OBVIOUS
<1>10. q[1] = a /\ q[2] = b /\ q[3] = c /\ q[4] = d
  BY <1>9
<1>11. Spawn(heap, e, l, q) /\ Len(q) = 4
  <2>1. Spawned(heap, e, l, a)
    BY ONLY <1>2, <1>5 DEF Spawned
  <2>2. Spawned(heap, e, l, c) /\ Ends(c)
    BY ONLY <1>2, <1>7 DEF Spawned, Ends
  <2>. QED  BY ONLY <1>5, <1>6, <1>7, <1>8, <1>9, <2>1, <2>2, FourSpawn
<1>12. PICK n, w2, W0 : n = Len(worklist) - 1 /\ w2 = worklist' /\ W0 = worklist
  OBVIOUS
<1>13. w2 = Front(worklist) \o q
  BY <1>2, <1>4, <1>9, <1>12
<1>14. /\ w2 \in Seq(TaskRec) /\ \E V : Seen(heap, freed, root, w2, V)
       /\ Pushed(heap, worklist, w2, n, n + 4, e, l)
  BY <1>1, <1>2, <1>11, <1>12, <1>13, VisitInv
<1>15. /\ n \in Nat /\ Len(worklist) = n + 1 /\ Len(w2) = n + 4 /\ worklist[n + 1].kind = "node"
       /\ \A i \in 1..n : w2[i] = worklist[i]
  BY <1>14 DEF Pushed
<1>16. \A i \in 1..4 : w2[n + i] = q[i]
  <2>1. q \in Seq(TaskRec) /\ worklist \in Seq(TaskRec) /\ worklist # <<>>
    BY <1>2, <1>11 DEF Spawn, TypeInv
  <2>2. \A i \in 1..Len(q) : (Front(worklist) \o q)[Len(worklist) - 1 + i] = q[i]
    BY ONLY <2>1, Replace
  <2>. QED  BY <1>11, <1>12, <1>13, <2>2
<1>17. w2[n + 1] = a /\ w2[n + 2] = b /\ w2[n + 3] = c /\ w2[n + 4] = d
  BY <1>10, <1>16
<1>18. \A i \in n + 1 .. n + 4 : w2[i].kind = "collect" <=> i = n + 3
  <2>. SUFFICES ASSUME NEW i \in n + 1 .. n + 4 PROVE w2[i].kind = "collect" <=> i = n + 3
    OBVIOUS
  <2>1. i = n + 1 \/ i = n + 2 \/ i = n + 3 \/ i = n + 4
    BY <1>15
  <2>2. n + 1 # n + 3 /\ n + 2 # n + 3 /\ n + 4 # n + 3
    BY <1>15
  <2>. QED  BY ONLY <1>5, <1>6, <1>7, <1>8, <1>17, <2>1, <2>2
<1>19. Owned(heap, freed, root, <<>>, w2, collected)
  <2>1. Owned(heap, freed, root, currentJoins, worklist, collected)
    BY DEF OwnInv
  <2>2. w2[n + 3].joins = currentJoins /\ worklist[n + 1].kind # "collect"
    BY <1>7, <1>15, <1>17
  <2>. QED  BY ONLY <1>15, <1>18, <2>1, <2>2, SavedOwned
<1>20. RootOK(heap, root, w2, Len(input) + 1, Len(input) + 2)
  <2>1. w2[n + 1].kind = "rest" /\ w2[n + 1].exp = e /\ w2[n + 1].link = l
    BY <1>5, <1>17
  <2>2. RootOK(heap, root, worklist, Len(input) + 1, Len(input) + 2)
    BY <1>2 DEF RootInv
  <2>3. PICK m : m = n + 4
    OBVIOUS
  <2>. QED  BY ONLY <1>14, <2>1, <2>2, <2>3, VisitRoot
<1>21. TypeInv'
  <2>1. currentJoins' \in Seq(JoinRec) /\ worklist' \in Seq(TaskRec)
    BY <1>2, <1>12, <1>14
  <2>. QED  BY <1>2, <2>1 DEF TypeInv
<1>22. OwnInv'
  BY <1>2, <1>12, <1>14, <1>19 DEF OwnInv
<1>23. RootInv'
  BY <1>2, <1>12, <1>20 DEF RootInv
<1>. QED  BY <1>21, <1>22, <1>23

\* What a visit that sets no blocks aside preserves.
LEMMA PlainVisit ==
  ASSUME Inv, status = "run", worklist # <<>>, Task.kind = "node", NEW q, Spawn(heap, Task.exp, Task.link, q),
         \A i \in 1..Len(q) : q[i].kind # "collect",
         \/ heap[Task.exp].tag # "Fun"
         \/ Len(q) = 4 /\ q[1].kind = "rest",
         worklist' = Front(worklist) \o q,
         currentJoins' = currentJoins, input' = input, heap' = heap, freed' = freed, root' = root,
         collected' = collected, counter' = counter, status' = status
  PROVE  Inv'
<1>. USE DEF Inv
<1>1. PICK e, l, n, k, w2, W0 : /\ e = Task.exp /\ l = Task.link /\ n = Len(worklist) - 1 /\ k = Len(q)
                                /\ w2 = worklist' /\ W0 = worklist
  OBVIOUS
<1>2. w2 = Front(worklist) \o q /\ Spawn(heap, e, l, q)
  BY <1>1
<1>3. /\ w2 \in Seq(TaskRec) /\ \E V : Seen(heap, freed, root, w2, V)
      /\ Pushed(heap, worklist, w2, n, n + k, e, l)
  BY <1>1, <1>2, VisitInv
<1>4. n \in Nat /\ k \in Nat
  <2>1. n \in Nat
    BY <1>3 DEF Pushed
  <2>. QED  BY <1>1, <1>2, <2>1, LenProperties DEF Spawn
<1>5. \A i \in 1..k : w2[n + i] = q[i]
  <2>1. q \in Seq(TaskRec) /\ worklist \in Seq(TaskRec) /\ worklist # <<>>
    BY <1>2 DEF Spawn, TypeInv
  <2>2. \A i \in 1..Len(q) : (Front(worklist) \o q)[Len(worklist) - 1 + i] = q[i]
    BY ONLY <2>1, Replace
  <2>. QED  BY <1>1, <1>2, <2>2
<1>6. \A i \in n + 1 .. n + k : w2[i].kind # "collect"
  <2>. SUFFICES ASSUME NEW i \in n + 1 .. n + k PROVE w2[i].kind # "collect"
    OBVIOUS
  <2>1. i - n \in 1..k /\ n + (i - n) = i
    BY <1>4
  <2>2. w2[i] = q[i - n]
    BY <1>5, <2>1
  <2>. QED  BY <1>1, <2>1, <2>2
<1>7. Owned(heap, freed, root, currentJoins, w2, collected)
  <2>1. PICK m : m = n + k
    OBVIOUS
  <2>2. Pushed(heap, worklist, w2, n, m, e, l) /\ \A i \in n + 1 .. m : w2[i].kind # "collect"
    BY <1>3, <1>6, <2>1
  <2>. QED  BY <2>2, VisitOwned
<1>8. RootOK(heap, root, w2, Len(input) + 1, Len(input) + 2)
  <2>1. PICK m : m = n + k
    OBVIOUS
  <2>2. \/ heap[e].tag # "Fun"
        \/ m = n + 4 /\ w2[n + 1].kind = "rest" /\ w2[n + 1].exp = e /\ w2[n + 1].link = l
    <3>1. CASE heap[e].tag # "Fun"
      BY <3>1
    <3>2. CASE heap[e].tag = "Fun"
      <4>1. k = 4 /\ q[1].kind = "rest"
        BY <1>1, <3>2
      <4>2. 1 \in 1..k /\ w2[n + 1] = q[1]
        BY <1>5, <4>1
      <4>3. Spawned(heap, e, l, q[1])
        BY <1>1, <1>2, <4>2 DEF Spawn
      <4>4. q[1].exp = e /\ q[1].link = l
        BY ONLY <4>1, <4>3 DEF Spawned
      <4>. QED  BY <2>1, <4>1, <4>2, <4>4
    <3>. QED  BY <3>1, <3>2
  <2>3. RootOK(heap, root, worklist, Len(input) + 1, Len(input) + 2)
    BY DEF RootInv
  <2>4. Pushed(heap, worklist, w2, n, m, e, l)
    BY <1>3, <2>1
  <2>. QED  BY ONLY <2>2, <2>3, <2>4, VisitRoot
<1>9. TypeInv'
  <2>1. worklist' \in Seq(TaskRec)
    BY <1>1, <1>3
  <2>. QED  BY <2>1 DEF TypeInv
<1>10. OwnInv'
  BY <1>1, <1>3, <1>7 DEF OwnInv
<1>11. RootInv'
  BY <1>1, <1>8 DEF RootInv
<1>. QED  BY <1>9, <1>10, <1>11

\* Its body is walked before the block is made.
LEMMA VisitJoinInv ==
  ASSUME Inv, VisitJoin
  PROVE  Inv'
<1>1. PICK e, l : e = Task.exp /\ l = Task.link
  OBVIOUS
<1>2. /\ status = "run" /\ worklist # <<>> /\ Task.kind = "node" /\ heap[e].tag = "Join"
      /\ worklist' = Front(worklist)
           \o <<RestTask(l, e), ChildTask(e, 2), BlockTask(e), ChildTask(e, 1)>>
      /\ currentJoins' = currentJoins /\ input' = input /\ heap' = heap /\ freed' = freed /\ root' = root
      /\ collected' = collected /\ counter' = counter /\ status' = status
  BY <1>1 DEF VisitJoin, Visits, Takes
<1>3. /\ l \in LinkRec /\ e \in Nat /\ e \in 1..Len(heap)
      /\ 1 \in 1..Len(heap[e].kids) /\ 2 \in 1..Len(heap[e].kids) /\ Shaped(heap)
  <2>1. e \in 1..Len(heap) /\ e \in Nat /\ Task \in TaskRec
    BY <1>1, <1>2, TopTask DEF Inv
  <2>2. 1 \in 1..Len(heap[e].kids) /\ 2 \in 1..Len(heap[e].kids)
    BY <1>2, <2>1, TwoKids DEF Inv, TypeInv
  <2>3. l \in LinkRec
    BY <1>1, <1>2, <2>1 DEF TaskRec
  <2>. QED  BY <2>1, <2>2, <2>3 DEF Inv, TypeInv
<1>4. PICK a, b, c, d : /\ a = RestTask(l, e) /\ b = ChildTask(e, 2)
                        /\ c = BlockTask(e) /\ d = ChildTask(e, 1)
  OBVIOUS
<1>5. a \in TaskRec /\ a.kind = "rest" /\ a.exp = e /\ a.link = l
  BY ONLY <1>3, <1>4, RestType
<1>6. b \in TaskRec /\ b.kind = "node" /\ b.link.kid = 2 /\ Spawned(heap, e, l, b)
  BY ONLY <1>3, <1>4, ChildIs
<1>7. c \in TaskRec /\ c.kind = "block" /\ c.exp = e
  BY ONLY <1>3, <1>4, BlockType
<1>8. d \in TaskRec /\ d.kind = "node" /\ d.link.kid = 1 /\ Spawned(heap, e, l, d)
  BY ONLY <1>3, <1>4, ChildIs
<1>9. PICK q : q = <<a, b, c, d>>
  OBVIOUS
<1>10. Spawn(heap, e, l, q) /\ Len(q) = 4
  <2>1. Spawned(heap, e, l, a)
    BY ONLY <1>2, <1>5 DEF Spawned
  <2>2. Spawned(heap, e, l, c) /\ Ends(c)
    BY ONLY <1>2, <1>7 DEF Spawned, Ends
  <2>. QED  BY ONLY <1>5, <1>6, <1>7, <1>8, <1>9, <2>1, <2>2, FourSpawn
<1>11. \A i \in 1..Len(q) : q[i].kind # "collect"
  <2>1. q[1] = a /\ q[2] = b /\ q[3] = c /\ q[4] = d
    BY <1>9
  <2>2. \A i \in 1..4 : i = 1 \/ i = 2 \/ i = 3 \/ i = 4
    OBVIOUS
  <2>. QED  BY ONLY <1>5, <1>6, <1>7, <1>8, <1>10, <2>1, <2>2
<1>12. worklist' = Front(worklist) \o q
  BY <1>2, <1>4, <1>9
<1>13. Spawn(heap, Task.exp, Task.link, q) /\ heap[Task.exp].tag # "Fun"
  BY <1>1, <1>2, <1>10
<1>. QED  BY ONLY Inv, <1>2, <1>11, <1>12, <1>13, PlainVisit

\* Both branches are walked before the blocks are made.
LEMMA VisitIfInv ==
  ASSUME Inv, VisitIf
  PROVE  Inv'
<1>1. PICK e, l : e = Task.exp /\ l = Task.link
  OBVIOUS
<1>2. /\ status = "run" /\ worklist # <<>> /\ Task.kind = "node" /\ heap[e].tag = "If"
      /\ worklist' = Front(worklist) \o <<BranchTask(e), ChildTask(e, 2), ChildTask(e, 1)>>
      /\ currentJoins' = currentJoins /\ input' = input /\ heap' = heap /\ freed' = freed /\ root' = root
      /\ collected' = collected /\ counter' = counter /\ status' = status
  BY <1>1 DEF VisitIf, Visits, Takes
<1>3. /\ e \in Nat /\ e \in 1..Len(heap)
      /\ 1 \in 1..Len(heap[e].kids) /\ 2 \in 1..Len(heap[e].kids) /\ Shaped(heap)
  <2>1. e \in 1..Len(heap) /\ e \in Nat
    BY <1>1, <1>2, TopTask DEF Inv
  <2>2. 1 \in 1..Len(heap[e].kids) /\ 2 \in 1..Len(heap[e].kids)
    BY <1>2, <2>1, TwoKids DEF Inv, TypeInv
  <2>. QED  BY <2>1, <2>2 DEF Inv, TypeInv
<1>4. PICK a, b, c : a = BranchTask(e) /\ b = ChildTask(e, 2) /\ c = ChildTask(e, 1)
  OBVIOUS
<1>5. a \in TaskRec /\ a.kind = "branch" /\ a.exp = e
  BY ONLY <1>3, <1>4, BranchType
<1>6. b \in TaskRec /\ b.kind = "node" /\ b.link.kid = 2 /\ Spawned(heap, e, l, b)
  BY ONLY <1>3, <1>4, ChildIs
<1>7. c \in TaskRec /\ c.kind = "node" /\ c.link.kid = 1 /\ Spawned(heap, e, l, c)
  BY ONLY <1>3, <1>4, ChildIs
<1>8. PICK q : q = <<a, b, c>>
  OBVIOUS
<1>9. Spawn(heap, e, l, q) /\ Len(q) = 3
  <2>1. Spawned(heap, e, l, a)
    BY ONLY <1>2, <1>5 DEF Spawned
  <2>. QED  BY ONLY <1>5, <1>6, <1>7, <1>8, <2>1, ThreeSpawn
<1>10. \A i \in 1..Len(q) : q[i].kind # "collect"
  <2>1. q[1] = a /\ q[2] = b /\ q[3] = c
    BY <1>8
  <2>2. \A i \in 1..3 : i = 1 \/ i = 2 \/ i = 3
    OBVIOUS
  <2>. QED  BY ONLY <1>5, <1>6, <1>7, <1>9, <2>1, <2>2
<1>11. worklist' = Front(worklist) \o q
  BY <1>2, <1>4, <1>8
<1>12. Spawn(heap, Task.exp, Task.link, q) /\ heap[Task.exp].tag # "Fun"
  BY <1>1, <1>2, <1>9
<1>. QED  BY ONLY Inv, <1>2, <1>10, <1>11, <1>12, PlainVisit

\* Only the children are pushed.
LEMMA VisitOtherInv ==
  ASSUME Inv, VisitOther
  PROVE  Inv'
<1>1. PICK e, l : e = Task.exp /\ l = Task.link
  OBVIOUS
<1>2. /\ status = "run" /\ worklist # <<>> /\ Task.kind = "node" /\ heap[e].tag # "Fun"
      /\ worklist' = Front(worklist) \o [i \in 1..Len(heap[e].kids) |-> ChildTask(e, i)]
      /\ currentJoins' = currentJoins /\ input' = input /\ heap' = heap /\ freed' = freed /\ root' = root
      /\ collected' = collected /\ counter' = counter /\ status' = status
  BY <1>1 DEF VisitOther, Visits, Takes
<1>3. e \in 1..Len(heap) /\ Shaped(heap)
  BY <1>1, <1>2, TopTask DEF Inv, TypeInv
<1>4. PICK q : q = [i \in 1..Len(heap[e].kids) |-> NodeTask(Link(e, i), heap[e].kids[i])]
  OBVIOUS
<1>5. Spawn(heap, e, l, q) /\ \A t \in 1..Len(q) : q[t].kind = "node"
  BY ONLY <1>3, <1>4, KidsSpawn
<1>6. worklist' = Front(worklist) \o q
  BY <1>2, <1>4 DEF ChildTask
<1>7. \A i \in 1..Len(q) : q[i].kind # "collect"
  BY <1>5
<1>8. Spawn(heap, Task.exp, Task.link, q) /\ heap[Task.exp].tag # "Fun"
  BY <1>1, <1>2, <1>5
<1>. QED  BY ONLY Inv, <1>2, <1>6, <1>7, <1>8, PlainVisit

-----------------------------------------------------------------------------
(***************************************************************************)
(* The closures.                                                           *)
(***************************************************************************)
\* The task on top is taken.
LEMMA TopPopped ==
  ASSUME Inv, worklist # <<>>, NEW w2, w2 = Front(worklist), NEW n, n = Len(worklist) - 1
  PROVE  /\ Popped(worklist, w2, n) /\ w2 \in Seq(TaskRec) /\ worklist[n + 1] = Task
         /\ Task \in TaskRec /\ Task.exp \in Live(heap, freed) /\ Task.exp \in 1..Len(heap)
         /\ n \in Nat /\ Len(worklist) = n + 1 /\ Len(w2) = n /\ \A i \in 1..n : w2[i] = worklist[i]
<1>. USE DEF Inv
<1>1. /\ Last(worklist) \in TaskRec /\ Last(worklist) = worklist[Len(worklist)]
      /\ Len(worklist) \in Nat \ {0}
      /\ Front(worklist) \in Seq(TaskRec) /\ Len(Front(worklist)) = Len(worklist) - 1
      /\ \A i \in 1..(Len(worklist) - 1) : Front(worklist)[i] = worklist[i]
  <2>1. worklist \in Seq(TaskRec) /\ worklist # <<>>
    BY DEF TypeInv
  <2>. QED  BY ONLY <2>1, Pop
<1>2. PICK L \in Nat \ {0} : L = Len(worklist)
  BY <1>1
<1>3. n = L - 1
  BY <1>2
<1>4. n \in Nat /\ L = n + 1
  BY <1>3
<1>5. Task.exp \in Live(heap, freed) /\ Task.exp \in 1..Len(heap)
  BY TopTask
<1>6. w2 \in Seq(TaskRec) /\ Len(w2) = n /\ \A i \in 1..n : w2[i] = worklist[i]
  BY <1>1
<1>7. worklist[n + 1] = Task /\ Task \in TaskRec
  BY <1>1, <1>2, <1>4 DEF Task
<1>. QED  BY <1>2, <1>4, <1>5, <1>6, <1>7 DEF Popped

\* What the invariant says of the closure on top.
LEMMA TopClosure ==
  ASSUME Inv, worklist # <<>>, NEW e, e = Task.exp
  PROVE  /\ Task.kind \in {"collect", "block"} => /\ heap[e].kids[1] # Null /\ 1 \in 1..Len(heap[e].kids)
                                                  /\ heap[e].tag \in {"Fun", "Join"}
         /\ Task.kind = "branch" => /\ heap[e].tag = "If" /\ Len(heap[e].kids) = 2
         /\ Task.kind = "rest" => /\ heap[e].tag \in {"Fun", "Join"} /\ Len(heap[e].kids) = 2 /\ 2 \in 1..Len(heap[e].kids)
                                  /\ heap[e].kids[1] = Null /\ heap[e].kids[2] # Null
                                  /\ IsLink(heap, freed, Task.link.owner, Task.link.kid)
                                  /\ To(heap, root, Task.link.owner, Task.link.kid) = e
                                  /\ Task.link.owner # e
<1>. USE DEF Inv
<1>1. PICK n, w2 : n = Len(worklist) - 1 /\ w2 = Front(worklist)
  OBVIOUS
<1>2. /\ Popped(worklist, w2, n) /\ worklist[n + 1] = Task /\ e \in 1..Len(heap)
      /\ n \in Nat /\ Len(worklist) = n + 1
  BY <1>1, TopPopped
<1>3. PICK V : Seen(heap, freed, root, worklist, V)
  BY DEF OwnInv
<1>4. Foremost(heap, freed, root, worklist, w2, V, n)
  BY <1>2, <1>3, PoppedStacked
<1>5. TaskOK(heap, freed, root, V, Task) /\ ~Waits(Task, Task)
  BY <1>2, <1>4 DEF Foremost
<1>6. Shaped(heap)
  BY DEF TypeInv
<1>7. ASSUME Task.kind \in {"collect", "block"}
      PROVE  heap[e].kids[1] # Null /\ 1 \in 1..Len(heap[e].kids) /\ heap[e].tag \in {"Fun", "Join"}
  <2>1. heap[e].kids[1] # Null /\ heap[e].tag \in {"Fun", "Join"}
    BY <1>5, <1>7 DEF TaskOK
  <2>. QED  BY <1>2, <1>6, <2>1, TwoKids
<1>8. ASSUME Task.kind = "branch"
      PROVE  heap[e].tag = "If" /\ Len(heap[e].kids) = 2
  <2>1. heap[e].tag = "If"
    BY <1>5, <1>8 DEF TaskOK
  <2>. QED  BY <1>2, <1>6, <2>1, TwoKids
<1>9. ASSUME Task.kind = "rest"
      PROVE  /\ heap[e].tag \in {"Fun", "Join"} /\ Len(heap[e].kids) = 2 /\ 2 \in 1..Len(heap[e].kids)
             /\ heap[e].kids[1] = Null /\ heap[e].kids[2] # Null
             /\ IsLink(heap, freed, Task.link.owner, Task.link.kid)
             /\ To(heap, root, Task.link.owner, Task.link.kid) = e
             /\ Task.link.owner # e
  <2>1. Holding(Task) /\ ~Ends(Task) /\ Task.kind # "node"
    BY <1>9 DEF Holding, Ends
  <2>2. /\ heap[e].tag \in {"Fun", "Join"} /\ heap[e].kids[2] # Null
        /\ IsLink(heap, freed, Task.link.owner, Task.link.kid)
        /\ To(heap, root, Task.link.owner, Task.link.kid) = e
    BY <1>5, <1>9, <2>1 DEF TaskOK
  <2>3. Task.link.owner # e
    BY <1>5, <2>1 DEF Waits
  <2>4. heap[e].kids[1] = Null
    <3>1. n + 1 \in 1..n + 1 /\ \A u \in 1..n + 1 : ~(n + 1 < u)
      BY <1>2
    <3>2. \/ heap[worklist[n + 1].exp].kids[1] = Null
          \/ \E u \in 1..n + 1 : n + 1 < u /\ Ends(worklist[u]) /\ worklist[u].exp = worklist[n + 1].exp
      BY <1>2, <1>3, <1>9, <3>1 DEF Seen
    <3>. QED  BY <1>2, <3>1, <3>2
  <2>5. Len(heap[e].kids) = 2 /\ 2 \in 1..Len(heap[e].kids)
    BY <1>2, <1>6, <2>2, TwoKids
  <2>. QED  BY <2>2, <2>3, <2>4, <2>5
<1>. QED  BY <1>7, <1>8, <1>9

\* A closure that holds no link leaves the root as it is.
LEMMA PoppedRoot ==
  ASSUME NEW h, NEW h2, NEW r, NEW w, NEW w2, NEW hm, NEW f, NEW n,
         RootOK(h, r, w, hm, f), Popped(w, w2, n), ~Holding(w[n + 1]), \A a \in 1..Len(h) : a \in 1..Len(h2),
         \A a \in 1..Len(h) : h2[a].tag = h[a].tag, h2[f].kids[2] = h[f].kids[2]
  PROVE  RootOK(h2, r, w2, hm, f)
<1>1. n \in Nat /\ Len(w) = n + 1 /\ Len(w2) = n /\ \A i \in 1..n : w2[i] = w[i]
  BY DEF Popped
<1>2. /\ hm \in 1..Len(h2) /\ f \in 1..Len(h2) /\ f # hm /\ h2[hm].tag = "Halt" /\ h2[f].tag = "Fun"
  BY DEF RootOK
<1>3. CASE r = hm
  BY <1>2, <1>3 DEF RootOK
<1>4. CASE r # hm
  <2>1. r = f /\ h2[f].kids[2] = hm /\ Holding(w[1]) /\ w[1].link.owner = Null /\ w[1].exp = f
    BY <1>4 DEF RootOK
  <2>2. n # 0
    BY <1>1, <2>1
  <2>3. 1 \in 1..n
    BY <1>1, <2>2
  <2>4. w2[1] = w[1] /\ w2 # <<>>
    BY <1>1, <2>3
  <2>. QED  BY <1>2, <2>1, <2>4 DEF RootOK
<1>. QED  BY <1>3, <1>4

\* A change of one link that is not the second of node f.
LEMMA ChangedRoot ==
  ASSUME NEW h, NEW h2, NEW r, NEW w, NEW w2, NEW hm, NEW f, NEW n, NEW e, Shaped(h),
         RootOK(h, r, w, hm, f), Popped(w, w2, n), ~Holding(w[n + 1]), Changed(h, h2, e, 1, Null)
  PROVE  RootOK(h2, r, w2, hm, f)
<1>1. /\ Len(h2) = Len(h) /\ \A a \in 1..Len(h) : h2[a].tag = h[a].tag
      /\ \A a \in 1..Len(h) : \A i \in 1..Len(h[a].kids) :
            h2[a].kids[i] = IF a = e /\ i = 1 THEN Null ELSE h[a].kids[i]
  BY DEF Changed
<1>2. f \in 1..Len(h) /\ h[f].tag = "Fun"
  BY DEF RootOK
<1>3. 2 \in 1..Len(h[f].kids)
  BY <1>2, TwoKids
<1>4. h2[f].kids[2] = h[f].kids[2]
  BY <1>1, <1>2, <1>3
<1>5. \A a \in 1..Len(h) : a \in 1..Len(h2)
  BY <1>1
<1>. QED  BY <1>1, <1>4, <1>5, PoppedRoot

\* A block and a function are made of what a node holds.
LEMMA JoinType ==
  ASSUME NEW x \in Ident, NEW s \in Seq(Ident), NEW b \in Nat, NEW j, j = Join(x, s, b)
  PROVE  j \in JoinRec /\ j.body = b
BY DEF Join, JoinRec

LEMMA FunctionType ==
  ASSUME NEW x \in Ident, NEW s \in Seq(Ident), NEW j \in JoinRec, NEW bs \in Seq(JoinRec),
         NEW f, f = Function(x, s, j, bs)
  PROVE  f \in FunRec /\ f.entry = j /\ f.blocks = bs
BY DEF Function, FunRec

\* A closure that moves a body out of its node.
LEMMA EndedInv ==
  ASSUME Inv, status = "run", worklist # <<>>, Ends(Task), heap' = Emptied(heap, Task.exp),
         worklist' = Front(worklist), input' = input, freed' = freed, root' = root,
         counter' \in Nat, status' = status, currentJoins' \in Seq(JoinRec), collected' \in Seq(FunRec),
         Changed(heap, heap', Task.exp, 1, Null) =>
            Owned(heap', freed, root, currentJoins', worklist', collected')
  PROVE  Inv'
<1>. USE DEF Inv
<1>1. PICK e, n, w2, h2, W0, H0 : /\ e = Task.exp /\ n = Len(worklist) - 1 /\ w2 = worklist' /\ h2 = heap'
                                  /\ W0 = worklist /\ H0 = heap
  OBVIOUS
<1>2. /\ Popped(worklist, w2, n) /\ w2 \in Seq(TaskRec) /\ worklist[n + 1] = Task
      /\ Task.exp \in 1..Len(heap)
  <2>1. w2 = Front(worklist)
    BY <1>1
  <2>. QED  BY <1>1, <2>1, TopPopped
<1>3. Task.kind \in {"collect", "block"}
  BY DEF Ends
<1>4. 1 \in 1..Len(heap[e].kids) /\ e \in 1..Len(heap) /\ Shaped(heap)
  BY <1>1, <1>2, <1>3, TopClosure DEF TypeInv
<1>5. Made(heap, h2, e, 1, Null)
  BY <1>1, <1>4, EmptiedHeap
<1>6. Shaped(h2) /\ Changed(heap, h2, e, 1, Null)
  BY <1>5 DEF Made
<1>7. \E V : Seen(h2, freed, root, w2, V)
  <2>1. PICK V : Seen(heap, freed, root, worklist, V)
    BY DEF OwnInv
  <2>2. Ends(worklist[n + 1]) /\ worklist[n + 1].exp = e
    BY <1>1, <1>2
  <2>3. Seen(h2, freed, root, w2, V)
    BY ONLY <1>2, <1>4, <1>6, <2>1, <2>2, EndedSeen
  <2>. QED  BY <2>3
<1>8. RootOK(h2, root, w2, Len(input) + 1, Len(input) + 2)
  <2>1. RootOK(heap, root, worklist, Len(input) + 1, Len(input) + 2)
    BY DEF RootInv
  <2>2. ~Holding(worklist[n + 1])
    BY <1>2, <1>3 DEF Holding
  <2>. QED  BY ONLY <1>2, <1>4, <1>6, <2>1, <2>2, ChangedRoot
<1>9. TypeInv'
  <2>1. Len(heap') = Len(heap)
    BY <1>1, <1>6 DEF Changed
  <2>. QED  BY <1>1, <1>2, <1>6, <2>1 DEF TypeInv
<1>10. OwnInv'
  BY <1>1, <1>6, <1>7 DEF OwnInv
<1>11. RootInv'
  BY <1>1, <1>8 DEF RootInv
<1>. QED  BY <1>9, <1>10, <1>11

\* What node e holds.
LEMMA PartsType ==
  ASSUME NEW h, Shaped(h), NEW e \in 1..Len(h), NEW i \in 1..Len(h[e].kids)
  PROVE  h[e].name \in Ident /\ h[e].params \in Seq(Ident) /\ h[e].kids[i] \in Nat
<1>1. h[e] \in HeapNode /\ h[e].kids \in Seq(Nat)
  BY NodeOf
<1>2. h[e].kids[i] \in Nat
  BY <1>1, ElementOfSeq
<1>. QED  BY <1>1, <1>2 DEF HeapNode

\* The body and the blocks go to the list of functions.
LEMMA RunCollectInv ==
  ASSUME Inv, RunCollect
  PROVE  Inv'
<1>1. PICK e, n, w2, h2, W0, H0, j, f, sj :
         /\ e = Task.exp /\ n = Len(worklist) - 1 /\ w2 = worklist' /\ h2 = heap' /\ W0 = worklist /\ H0 = heap
         /\ j = Join(EntryName(counter), <<>>, heap[e].kids[1])
         /\ f = Function(heap[e].name, heap[e].params, j, currentJoins) /\ sj = Task.joins
  OBVIOUS
<1>2. /\ status = "run" /\ worklist # <<>> /\ Task.kind = "collect" /\ heap' = Emptied(heap, Task.exp)
      /\ worklist' = Front(worklist) /\ collected' = Append(collected, f) /\ currentJoins' = sj
      /\ input' = input /\ freed' = freed /\ root' = root /\ counter' = counter + 1 /\ status' = status
  BY <1>1 DEF RunCollect, Takes, RestoredJoins
<1>3. /\ Popped(worklist, w2, n) /\ worklist[n + 1] = Task /\ Task \in TaskRec
      /\ e \in Live(heap, freed) /\ e \in 1..Len(heap)
      /\ n \in Nat /\ Len(worklist) = n + 1 /\ Len(w2) = n /\ \A i \in 1..n : w2[i] = worklist[i]
  <2>1. w2 = Front(worklist)
    BY <1>1, <1>2
  <2>. QED  BY <1>1, <1>2, <2>1, TopPopped
<1>4. 1 \in 1..Len(heap[e].kids)
  BY <1>1, <1>2, TopClosure
<1>5. Shaped(heap) /\ currentJoins \in Seq(JoinRec) /\ collected \in Seq(FunRec) /\ counter \in Nat
  BY DEF Inv, TypeInv
<1>6. heap[e].name \in Ident /\ heap[e].params \in Seq(Ident) /\ heap[e].kids[1] \in Nat
  BY <1>3, <1>4, <1>5, PartsType
<1>7. j \in JoinRec /\ j.body = heap[e].kids[1]
  <2>1. EntryName(counter) \in Ident
    BY <1>5, MadeNames
  <2>2. PICK x, s, b : x = EntryName(counter) /\ s = <<>> /\ b = heap[e].kids[1]
    OBVIOUS
  <2>3. x \in Ident /\ s \in Seq(Ident) /\ b \in Nat /\ j = Join(x, s, b)
    BY <1>1, <1>6, <2>1, <2>2
  <2>4. j \in JoinRec /\ j.body = b
    BY ONLY <2>3, JoinType
  <2>. QED  BY <2>2, <2>4
<1>8. f \in FunRec /\ f.entry = j /\ f.blocks = currentJoins
  <2>1. PICK x, s : x = heap[e].name /\ s = heap[e].params
    OBVIOUS
  <2>2. x \in Ident /\ s \in Seq(Ident) /\ f = Function(x, s, j, currentJoins)
    BY <1>1, <1>6, <2>1
  <2>. QED  BY ONLY <1>5, <1>7, <2>2, FunctionType
<1>9. sj \in Seq(JoinRec)
  BY <1>1, <1>2, <1>3 DEF TaskRec
<1>10. PICK co2, m : co2 = collected' /\ m = Len(collected)
  OBVIOUS
<1>11. /\ co2 \in Seq(FunRec) /\ m \in Nat /\ Len(co2) = m + 1 /\ co2[m + 1] = f
       /\ \A i \in 1..m : co2[i] = collected[i]
  <2>1. co2 = Append(collected, f)
    BY <1>2, <1>10
  <2>. QED  BY ONLY <1>5, <1>8, <1>10, <2>1, Push, LenProperties
<1>12. Ends(Task)
  BY <1>2 DEF Ends
<1>13. ASSUME Changed(heap, h2, e, 1, Null)
       PROVE  Owned(h2, freed, root, sj, w2, co2)
  <2>1. Owned(heap, freed, root, currentJoins, worklist, collected)
    BY DEF Inv, OwnInv
  <2>2. worklist[n + 1].kind = "collect" /\ worklist[n + 1].joins = sj
    BY <1>1, <1>2, <1>3
  <2>3. co2[m + 1].entry.body = heap[e].kids[1] /\ co2[m + 1].blocks = currentJoins /\ Len(collected) = m
    BY <1>7, <1>8, <1>10, <1>11
  <2>. QED  BY ONLY <1>3, <1>4, <1>5, <1>11, <1>13, <2>1, <2>2, <2>3, CollectOwned, SMTT(20)
<1>14. Changed(heap, heap', Task.exp, 1, Null) =>
            Owned(heap', freed, root, currentJoins', worklist', collected')
  BY <1>1, <1>2, <1>10, <1>13
<1>15. counter' \in Nat /\ currentJoins' \in Seq(JoinRec) /\ collected' \in Seq(FunRec)
  BY <1>2, <1>5, <1>9, <1>10, <1>11
<1>. QED  BY ONLY Inv, <1>2, <1>12, <1>14, <1>15, EndedInv

\* The body goes to the blocks.
LEMMA RunBlockInv ==
  ASSUME Inv, RunBlock
  PROVE  Inv'
<1>1. PICK e, n, w2, h2, W0, H0, j :
         /\ e = Task.exp /\ n = Len(worklist) - 1 /\ w2 = worklist' /\ h2 = heap' /\ W0 = worklist /\ H0 = heap
         /\ j = Join(heap[e].name, heap[e].params, heap[e].kids[1])
  OBVIOUS
<1>2. /\ status = "run" /\ worklist # <<>> /\ Task.kind = "block" /\ heap' = Emptied(heap, Task.exp)
      /\ worklist' = Front(worklist) /\ collected' = collected /\ currentJoins' = Append(currentJoins, j)
      /\ input' = input /\ freed' = freed /\ root' = root /\ counter' = counter /\ status' = status
  BY <1>1 DEF RunBlock, Takes, BlockOf
<1>3. /\ Popped(worklist, w2, n) /\ worklist[n + 1] = Task
      /\ e \in Live(heap, freed) /\ e \in 1..Len(heap)
      /\ n \in Nat /\ Len(worklist) = n + 1 /\ Len(w2) = n /\ \A i \in 1..n : w2[i] = worklist[i]
  <2>1. w2 = Front(worklist)
    BY <1>1, <1>2
  <2>. QED  BY <1>1, <1>2, <2>1, TopPopped
<1>4. 1 \in 1..Len(heap[e].kids)
  BY <1>1, <1>2, TopClosure
<1>5. Shaped(heap) /\ currentJoins \in Seq(JoinRec) /\ collected \in Seq(FunRec) /\ counter \in Nat
  BY DEF Inv, TypeInv
<1>6. heap[e].name \in Ident /\ heap[e].params \in Seq(Ident) /\ heap[e].kids[1] \in Nat
  BY <1>3, <1>4, <1>5, PartsType
<1>7. j \in JoinRec /\ j.body = heap[e].kids[1]
  <2>1. PICK x, s, b : x = heap[e].name /\ s = heap[e].params /\ b = heap[e].kids[1]
    OBVIOUS
  <2>2. x \in Ident /\ s \in Seq(Ident) /\ b \in Nat /\ j = Join(x, s, b)
    BY <1>1, <1>6, <2>1
  <2>3. j \in JoinRec /\ j.body = b
    BY ONLY <2>2, JoinType
  <2>. QED  BY <2>1, <2>3
<1>8. PICK cj2, m : cj2 = currentJoins' /\ m = Len(currentJoins)
  OBVIOUS
<1>9. /\ cj2 \in Seq(JoinRec) /\ m \in Nat /\ Len(cj2) = m + 1 /\ cj2[m + 1] = j
      /\ \A i \in 1..m : cj2[i] = currentJoins[i]
  <2>1. cj2 = Append(currentJoins, j)
    BY <1>2, <1>8
  <2>. QED  BY ONLY <1>5, <1>7, <1>8, <2>1, Push, LenProperties
<1>10. Ends(Task)
  BY <1>2 DEF Ends
<1>11. ASSUME Changed(heap, h2, e, 1, Null)
       PROVE  Owned(h2, freed, root, cj2, w2, collected)
  <2>1. Owned(heap, freed, root, currentJoins, worklist, collected)
    BY DEF Inv, OwnInv
  <2>2. worklist[n + 1].kind # "collect"
    BY <1>2, <1>3
  <2>3. cj2[m + 1].body = heap[e].kids[1] /\ Len(currentJoins) = m
    BY <1>7, <1>8, <1>9
  <2>. QED  BY ONLY <1>3, <1>4, <1>5, <1>9, <1>11, <2>1, <2>2, <2>3, BlockOwned, SMTT(60)
<1>12. Changed(heap, heap', Task.exp, 1, Null) =>
            Owned(heap', freed, root, currentJoins', worklist', collected')
  BY <1>1, <1>2, <1>8, <1>11
<1>13. counter' \in Nat /\ currentJoins' \in Seq(JoinRec) /\ collected' \in Seq(FunRec)
  BY <1>2, <1>5, <1>8, <1>9
<1>. QED  BY ONLY Inv, <1>2, <1>10, <1>12, <1>13, EndedInv

\* The branches go to the blocks, and jumps take their places.
LEMMA RunBranchInv ==
  ASSUME Inv, RunBranch
  PROVE  Inv'
<1>1. PICK e, n, w2, h2, W0, H0, x, y, a, b, p, q :
         /\ e = Task.exp /\ n = Len(worklist) - 1 /\ w2 = worklist' /\ h2 = heap' /\ W0 = worklist /\ H0 = heap
         /\ x = ThenName(counter) /\ y = ElseName(counter + 1)
         /\ a = Join(x, <<>>, heap[e].kids[1]) /\ b = Join(y, <<>>, heap[e].kids[2])
         /\ p = JumpExp(x, <<>>) /\ q = JumpExp(y, <<>>)
  OBVIOUS
<1>2. /\ status = "run" /\ worklist # <<>> /\ Task.kind = "branch"
      /\ h2 = [heap EXCEPT ![e].kids = <<Len(heap) + 1, Len(heap) + 2>>] \o <<p, q>>
      /\ worklist' = Front(worklist) /\ collected' = collected /\ currentJoins' = currentJoins \o <<a, b>>
      /\ input' = input /\ freed' = freed /\ root' = root /\ counter' = counter + 2 /\ status' = status
  <2>1. BranchNames(counter)[1] = x /\ BranchNames(counter)[2] = y
    BY <1>1 DEF BranchNames
  <2>. QED  BY <1>1, <2>1 DEF RunBranch, Takes, Jumps
<1>3. /\ Popped(worklist, w2, n) /\ worklist[n + 1] = Task /\ w2 \in Seq(TaskRec)
      /\ e \in Live(heap, freed) /\ e \in 1..Len(heap)
      /\ n \in Nat /\ Len(worklist) = n + 1 /\ Len(w2) = n /\ \A i \in 1..n : w2[i] = worklist[i]
  <2>1. w2 = Front(worklist)
    BY <1>1, <1>2
  <2>. QED  BY <1>1, <1>2, <2>1, TopPopped
<1>4. Len(heap[e].kids) = 2 /\ heap[e].tag = "If" /\ worklist[n + 1].kind = "branch" /\ worklist[n + 1].exp = e
  BY <1>1, <1>2, <1>3, TopClosure
<1>5. /\ Shaped(heap) /\ currentJoins \in Seq(JoinRec) /\ collected \in Seq(FunRec) /\ counter \in Nat
      /\ freed \subseteq 1..Len(heap)
  BY DEF Inv, TypeInv
<1>6. x \in Ident /\ y \in Ident
  <2>1. counter + 1 \in Nat
    BY <1>5
  <2>. QED  BY <1>1, <1>5, <2>1, MadeNames
<1>7. a \in JoinRec /\ a.body = heap[e].kids[1] /\ b \in JoinRec /\ b.body = heap[e].kids[2]
  <2>1. 1 \in 1..Len(heap[e].kids) /\ 2 \in 1..Len(heap[e].kids)
    BY <1>4
  <2>2. heap[e].kids[1] \in Nat /\ heap[e].kids[2] \in Nat
    BY <1>3, <1>5, <2>1, PartsType
  <2>3. PICK s, k, l : s = <<>> /\ k = heap[e].kids[1] /\ l = heap[e].kids[2]
    OBVIOUS
  <2>4. s \in Seq(Ident) /\ k \in Nat /\ l \in Nat /\ a = Join(x, s, k) /\ b = Join(y, s, l)
    BY <1>1, <2>2, <2>3
  <2>5. a \in JoinRec /\ a.body = k
    BY ONLY <1>6, <2>4, JoinType
  <2>6. b \in JoinRec /\ b.body = l
    BY ONLY <1>6, <2>4, JoinType
  <2>. QED  BY <2>3, <2>5, <2>6
<1>8. PICK cj2, m : cj2 = currentJoins' /\ m = Len(currentJoins)
  OBVIOUS
<1>9. /\ cj2 \in Seq(JoinRec) /\ m \in Nat /\ Len(cj2) = m + 2 /\ cj2[m + 1] = a /\ cj2[m + 2] = b
      /\ \A i \in 1..m : cj2[i] = currentJoins[i]
  <2>1. cj2 = currentJoins \o <<a, b>>
    BY <1>2, <1>8
  <2>. QED  BY ONLY <1>5, <1>7, <1>8, <2>1, PushTwo
<1>10. Shaped(h2) /\ Branched(heap, h2, e)
  <2>1. /\ p \in HeapNode /\ p.kids = <<>> /\ p.tag = "Jump"
        /\ q \in HeapNode /\ q.kids = <<>> /\ q.tag = "Jump"
    BY <1>1, <1>6, JumpNode
  <2>. QED  BY ONLY <1>2, <1>3, <1>4, <1>5, <2>1, BranchedHeap
<1>11. \E V : Seen(h2, freed, root, w2, V)
  <2>1. PICK V : Seen(heap, freed, root, worklist, V)
    BY DEF Inv, OwnInv
  <2>2. Seen(h2, freed, root, w2, V)
    BY ONLY <1>3, <1>4, <1>5, <1>10, <2>1, BranchedSeen
  <2>. QED  BY <2>2
<1>12. Owned(h2, freed, root, cj2, w2, collected)
  <2>1. Owned(heap, freed, root, currentJoins, worklist, collected)
    BY DEF Inv, OwnInv
  <2>2. worklist[n + 1].kind # "collect"
    BY <1>4
  <2>3. cj2[m + 1].body = heap[e].kids[1] /\ cj2[m + 2].body = heap[e].kids[2] /\ Len(currentJoins) = m
    BY <1>7, <1>8, <1>9
  <2>4. BranchLinked(heap, h2, freed, root, e)
    BY ONLY <1>3, <1>4, <1>5, <1>10, BranchLinks
  <2>5. /\ n \in Nat /\ m \in Nat /\ e \in Live(heap, freed) /\ Shaped(heap) /\ Len(heap[e].kids) = 2
        /\ Len(worklist) = n + 1 /\ Len(w2) = n /\ \A i \in 1..n : w2[i] = worklist[i]
        /\ Len(cj2) = m + 2 /\ \A i \in 1..m : cj2[i] = currentJoins[i]
    BY <1>3, <1>4, <1>5, <1>9
  <2>. QED  BY ONLY <2>1, <2>2, <2>3, <2>4, <2>5, BranchOwned, SMTT(60)
<1>13. /\ Len(heap) \in Nat /\ Len(h2) = Len(heap) + 2 /\ \A i \in 1..Len(heap) : i \in 1..Len(h2)
  <2>1. Len(h2) = Len(heap) + 2 /\ Len(heap) \in Nat
    BY <1>3, <1>5, <1>10, NodeOf DEF Branched
  <2>. QED  BY <2>1
<1>14. RootOK(h2, root, w2, Len(input) + 1, Len(input) + 2)
  <2>1. RootOK(heap, root, worklist, Len(input) + 1, Len(input) + 2)
    BY <1>2 DEF Inv, RootInv
  <2>2. PICK hm, f : hm = Len(input) + 1 /\ f = Len(input) + 2
    OBVIOUS
  <2>3. f \in 1..Len(heap) /\ heap[f].tag = "Fun" /\ RootOK(heap, root, worklist, hm, f)
    BY <2>1, <2>2 DEF RootOK
  <2>4. f # e
    BY <1>4, <2>3
  <2>5. h2[f].kids[2] = heap[f].kids[2] /\ \A i \in 1..Len(heap) : h2[i].tag = heap[i].tag
    BY <1>10, <2>3, <2>4 DEF Branched
  <2>6. ~Holding(worklist[n + 1])
    BY <1>4 DEF Holding
  <2>7. RootOK(h2, root, w2, hm, f)
    BY ONLY <1>3, <1>13, <2>3, <2>5, <2>6, PoppedRoot
  <2>. QED  BY <2>2, <2>7
<1>15. TypeInv'
  <2>1. freed' \subseteq 1..Len(heap') /\ Shaped(heap')
    BY <1>1, <1>2, <1>5, <1>10, <1>13
  <2>2. currentJoins' \in Seq(JoinRec) /\ collected' \in Seq(FunRec) /\ worklist' \in Seq(TaskRec)
    BY <1>1, <1>2, <1>3, <1>5, <1>8, <1>9
  <2>3. counter' \in Nat /\ status' \in {"run", "done"} /\ Len(input') \in Nat
    BY <1>2, <1>5 DEF Inv, TypeInv
  <2>. QED  BY <2>1, <2>2, <2>3 DEF TypeInv
<1>16. OwnInv'
  BY <1>1, <1>2, <1>8, <1>11, <1>12 DEF OwnInv
<1>17. RootInv'
  BY <1>1, <1>2, <1>14 DEF RootInv
<1>. QED  BY <1>15, <1>16, <1>17 DEF Inv

\* The rest of the root takes its place; the rest of another node leaves the root alone.
LEMMA RestRoot ==
  ASSUME NEW h, NEW h2, NEW fr, NEW r, NEW r2, NEW w, NEW w2, NEW hm, NEW f, NEW n, NEW e, NEW lo, NEW li,
         Shaped(h), LinksOwn(h, fr, r), RootOK(h, r, w, hm, f), Popped(w, w2, n),
         w[n + 1].link.owner = lo, h[e].tag \in {"Fun", "Join"}, e \in 1..Len(h),
         IsLink(h, fr, lo, li), To(h, r, lo, li) = e, Spliced(h, h2, fr, r, r2, e, lo, li)
  PROVE  RootOK(h2, r2, w2, hm, f)
<1>1. n \in Nat /\ Len(w) = n + 1 /\ Len(w2) = n /\ \A i \in 1..n : w2[i] = w[i]
  BY DEF Popped
<1>2. /\ hm \in 1..Len(h2) /\ f \in 1..Len(h2) /\ f # hm /\ h2[hm].tag = "Halt" /\ h2[f].tag = "Fun"
      /\ f \in 1..Len(h) /\ h[f].tag = "Fun"
  BY DEF RootOK, Spliced
<1>3. e # hm /\ e # Null
  <2>1. h[hm].tag = "Halt"
    BY DEF RootOK
  <2>2. e # Null
    BY NodeOf
  <2>. QED  BY <2>1, <2>2
<1>4. IsLink(h, fr, Null, 1) /\ To(h, r, Null, 1) = r /\ To(h2, r2, Null, 1) = r2
  BY DEF IsLink, To
<1>5. r2 = IF Null = lo /\ 1 = li THEN h[e].kids[2] ELSE r
  BY <1>3, <1>4 DEF Spliced
<1>6. CASE lo = Null
  <2>1. li = 1
    BY <1>6 DEF IsLink
  <2>2. r = e /\ r2 = h[e].kids[2]
    BY <1>4, <1>5, <1>6, <2>1
  <2>3. h[e].kids[2] = hm
    BY <1>3, <2>2 DEF RootOK
  <2>. QED  BY <1>2, <2>2, <2>3 DEF RootOK
<1>7. CASE lo # Null
  <2>1. r2 = r
    BY <1>5, <1>7
  <2>2. CASE r = hm
    BY <1>2, <2>1, <2>2 DEF RootOK
  <2>3. CASE r # hm
    <3>1. r = f /\ h[f].kids[2] = hm /\ Holding(w[1]) /\ w[1].link.owner = Null /\ w[1].exp = f
      BY <2>3 DEF RootOK
    <3>2. n # 0
      BY <1>1, <1>7, <3>1
    <3>3. 1 \in 1..n
      BY <1>1, <3>2
    <3>4. w2[1] = w[1] /\ w2 # <<>>
      BY <1>1, <3>3
    <3>5. f # Null
      BY <1>2, NodeOf
    <3>6. f # e
      BY <1>3, <1>4, <1>7, <3>1 DEF LinksOwn
    <3>7. f \in Live(h, fr)
      BY <1>4, <3>1, <3>5 DEF LinksOwn
    <3>8. 2 \in 1..Len(h[f].kids)
      BY <1>2, TwoKids
    <3>9. IsLink(h, fr, f, 2) /\ To(h, r, f, 2) = hm /\ To(h2, r2, f, 2) = h2[f].kids[2]
      BY <3>1, <3>5, <3>7, <3>8 DEF IsLink, To
    <3>10. ~(f = lo /\ 2 = li)
      BY <1>3, <3>9
    <3>11. h2[f].kids[2] = hm
      BY <3>6, <3>9, <3>10 DEF Spliced
    <3>. QED  BY <1>2, <2>1, <3>1, <3>4, <3>11 DEF RootOK
  <2>. QED  BY <2>2, <2>3
<1>. QED  BY <1>6, <1>7

\* The rest takes the place of its node.
LEMMA RunRestInv ==
  ASSUME Inv, RunRest
  PROVE  Inv'
<1>1. PICK e, l, lo, li, n, w2, h2, r2, fr2, W0, H0, c, g :
         /\ e = Task.exp /\ l = Task.link /\ lo = l.owner /\ li = l.kid /\ n = Len(worklist) - 1
         /\ w2 = worklist' /\ h2 = heap' /\ r2 = root' /\ fr2 = freed' /\ W0 = worklist /\ H0 = heap
         /\ c = heap[e].kids[2] /\ g = [heap EXCEPT ![e].kids[2] = Null]
  OBVIOUS
<1>2. /\ status = "run" /\ worklist # <<>> /\ Task.kind = "rest"
      /\ fr2 = freed \cup {Deref(heap, root, l)}
      /\ IF lo = Null THEN r2 = c /\ h2 = g
         ELSE r2 = root /\ h2 = [g EXCEPT ![lo].kids[li] = c]
      /\ worklist' = Front(worklist) /\ collected' = collected /\ currentJoins' = currentJoins
      /\ input' = input /\ counter' = counter /\ status' = status
  BY <1>1 DEF RunRest, Takes
<1>3. /\ Popped(worklist, w2, n) /\ worklist[n + 1] = Task /\ w2 \in Seq(TaskRec)
      /\ e \in Live(heap, freed) /\ e \in 1..Len(heap)
      /\ n \in Nat /\ Len(worklist) = n + 1 /\ Len(w2) = n /\ \A i \in 1..n : w2[i] = worklist[i]
  <2>1. w2 = Front(worklist)
    BY <1>1, <1>2
  <2>. QED  BY <1>1, <1>2, <2>1, TopPopped
<1>4. /\ heap[e].tag \in {"Fun", "Join"} /\ Len(heap[e].kids) = 2 /\ 2 \in 1..Len(heap[e].kids)
      /\ heap[e].kids[1] = Null /\ heap[e].kids[2] # Null
      /\ IsLink(heap, freed, lo, li) /\ To(heap, root, lo, li) = e /\ lo # e
  BY <1>1, <1>2, TopClosure
<1>5. /\ worklist[n + 1].kind = "rest" /\ worklist[n + 1].exp = e
      /\ worklist[n + 1].link.owner = lo /\ worklist[n + 1].link.kid = li
  BY <1>1, <1>2, <1>3
<1>6. /\ Shaped(heap) /\ freed \subseteq 1..Len(heap) /\ LinksOwn(heap, freed, root)
      /\ Owned(heap, freed, root, currentJoins, worklist, collected)
  BY OwnedLinks DEF Inv, TypeInv, OwnInv
<1>7. \A x : x \in fr2 <=> x \in freed \/ x = e
  <2>1. Deref(heap, root, l) = e
    BY <1>1, <1>4 DEF Deref, To
  <2>. QED  BY <1>2, <2>1
<1>8. Shaped(h2) /\ Spliced(heap, h2, freed, root, r2, e, lo, li)
  <2>1. RestMoved(heap, h2, root, r2, e, lo, li, c, g)
    BY <1>1, <1>2 DEF RestMoved
  <2>2. e \in 1..Len(heap) /\ 2 \in 1..Len(heap[e].kids) /\ lo # e /\ Shaped(heap)
    BY <1>3, <1>4, <1>6
  <2>3. IsLink(heap, freed, lo, li)
    BY <1>4
  <2>. QED  BY ONLY <2>1, <2>2, <2>3, SplicedHeap
<1>9. \E V : Seen(h2, fr2, r2, w2, V)
  <2>1. PICK V : Seen(heap, freed, root, worklist, V)
    BY DEF Inv, OwnInv
  <2>2. \A t \in 1..Len(worklist) : worklist[t].kind \in {"node", "rest", "collect", "block", "branch"}
    <3>. SUFFICES ASSUME NEW t \in 1..Len(worklist)
                  PROVE  worklist[t].kind \in {"node", "rest", "collect", "block", "branch"}
      OBVIOUS
    <3>1. worklist[t] \in TaskRec
      BY ElementOfSeq DEF Inv, TypeInv
    <3>. QED  BY <3>1 DEF TaskRec
  <2>3. Seen(h2, fr2, r2, w2, V)
    BY ONLY <1>3, <1>5, <1>6, <1>7, <1>8, <2>1, <2>2, SplicedSeen
  <2>. QED  BY <2>3
<1>10. Owned(h2, fr2, r2, currentJoins, w2, collected)
  <2>1. worklist[n + 1].kind # "collect"
    BY <1>5
  <2>. QED  BY ONLY <1>3, <1>4, <1>6, <1>7, <1>8, <2>1, RestOwned
<1>11. RootOK(h2, r2, w2, Len(input) + 1, Len(input) + 2)
  <2>1. PICK hm, f : hm = Len(input) + 1 /\ f = Len(input) + 2
    OBVIOUS
  <2>2. RootOK(heap, root, worklist, hm, f)
    BY <1>2, <2>1 DEF Inv, RootInv
  <2>3. RootOK(h2, r2, w2, hm, f)
    BY ONLY <1>3, <1>4, <1>5, <1>6, <1>8, <2>2, RestRoot
  <2>. QED  BY <2>1, <2>3
<1>12. TypeInv'
  <2>1. fr2 \subseteq 1..Len(h2)
    BY <1>3, <1>6, <1>7, <1>8 DEF Spliced
  <2>. QED  BY <1>1, <1>2, <1>3, <1>8, <2>1 DEF Inv, TypeInv
<1>13. OwnInv'
  BY <1>1, <1>2, <1>9, <1>10 DEF OwnInv
<1>14. RootInv'
  BY <1>1, <1>2, <1>11 DEF RootInv
<1>. QED  BY <1>12, <1>13, <1>14 DEF Inv

\* What is left of the root when the walk is over is a HaltExp.
LEMMA ReturnInv ==
  ASSUME Inv, Return
  PROVE  Inv'
<1>1. /\ status = "run" /\ worklist = <<>> /\ status' = "done" /\ freed' = freed \cup {root} /\ root' = Null
      /\ input' = input /\ heap' = heap /\ currentJoins' = currentJoins /\ collected' = collected
      /\ worklist' = worklist /\ counter' = counter
  BY DEF Return
<1>2. PICK fr2, hm, f, r : fr2 = freed' /\ hm = Len(input) + 1 /\ f = Len(input) + 2 /\ r = root
  OBVIOUS
<1>3. RootOK(heap, r, worklist, hm, f)
  BY <1>1, <1>2 DEF Inv, RootInv
<1>4. r = hm /\ hm \in 1..Len(heap) /\ heap[hm].tag = "Halt"
  BY <1>1, <1>3 DEF RootOK
<1>5. Shaped(heap) /\ Owned(heap, freed, r, currentJoins, worklist, collected) /\ freed \subseteq 1..Len(heap)
  BY <1>2 DEF Inv, TypeInv, OwnInv
<1>6. Len(heap[r].kids) = 0 /\ r # Null
  BY <1>4, <1>5, NodeOf DEF Arities
<1>7. r \in Live(heap, freed)
  <2>1. LinksOwn(heap, freed, r)
    BY <1>5, OwnedLinks
  <2>2. IsLink(heap, freed, Null, 1) /\ To(heap, r, Null, 1) = r
    BY DEF IsLink, To
  <2>. QED  BY <1>6, <2>1, <2>2 DEF LinksOwn
<1>8. \A x : x \in fr2 <=> x \in freed \/ x = r
  BY <1>1, <1>2
<1>9. Owned(heap, fr2, Null, currentJoins, worklist, collected)
  BY ONLY <1>5, <1>6, <1>7, <1>8, ReturnOwned
<1>10. \E V : Seen(heap, fr2, Null, worklist, V)
  <2>1. PICK V : Seen(heap, freed, root, worklist, V)
    BY DEF Inv, OwnInv
  <2>2. PICK w : w = worklist
    OBVIOUS
  <2>3. \A t \in 1..Len(w) : FALSE
    BY <1>1, <2>2
  <2>4. V \subseteq 1..Len(heap) /\ \A a \in Live(heap, freed) : a \notin V =>
          \A i \in 1..Len(heap[a].kids) : heap[a].kids[i] # Null /\ heap[a].kids[i] \notin V
    BY <2>1 DEF Seen
  <2>5. \A a \in Live(heap, fr2) : a \in Live(heap, freed)
    BY <1>8 DEF Live
  <2>6. Seen(heap, fr2, Null, w, V)
    BY ONLY <2>3, <2>4, <2>5 DEF Seen
  <2>. QED  BY <2>2, <2>6
<1>11. TypeInv'
  <2>1. fr2 \subseteq 1..Len(heap)
    BY <1>4, <1>5, <1>8
  <2>. QED  BY <1>1, <1>2, <2>1 DEF Inv, TypeInv
<1>12. OwnInv'
  BY <1>1, <1>2, <1>9, <1>10 DEF OwnInv
<1>13. RootInv'
  BY <1>1 DEF RootInv
<1>. QED  BY <1>11, <1>12, <1>13 DEF Inv

\* Every step preserves the invariant.
LEMMA StepInv == Inv /\ [Next]_vars => Inv'
<1>. SUFFICES ASSUME Inv, [Next]_vars PROVE Inv'
  OBVIOUS
<1>1. CASE VisitFun
  BY <1>1, VisitFunInv
<1>2. CASE VisitJoin
  BY <1>2, VisitJoinInv
<1>3. CASE VisitIf
  BY <1>3, VisitIfInv
<1>4. CASE VisitOther
  BY <1>4, VisitOtherInv
<1>5. CASE RunCollect
  BY <1>5, RunCollectInv
<1>6. CASE RunBlock
  BY <1>6, RunBlockInv
<1>7. CASE RunBranch
  BY <1>7, RunBranchInv
<1>8. CASE RunRest
  BY <1>8, RunRestInv
<1>9. CASE Return
  BY <1>9, ReturnInv
<1>10. CASE UNCHANGED vars
  <2>1. /\ input' = input /\ heap' = heap /\ freed' = freed /\ root' = root /\ currentJoins' = currentJoins
        /\ collected' = collected /\ worklist' = worklist /\ counter' = counter /\ status' = status
    BY <1>10 DEF vars
  <2>. QED  BY <2>1 DEF Inv, TypeInv, OwnInv, RootInv
<1>. QED  BY <1>1, <1>2, <1>3, <1>4, <1>5, <1>6, <1>7, <1>8, <1>9, <1>10 DEF Next, Terminated

-----------------------------------------------------------------------------
(***************************************************************************)
(* The beginning.                                                          *)
(***************************************************************************)
\* Heap h is the term g with the function main around it: g is the body of
\* node f, and a HaltExp its rest.
MainTerm(g, h, L) ==
    /\ L \in Nat \ {0} /\ Len(g) = L /\ h \in Seq(HeapNode) /\ Len(h) = L + 2
    /\ \A a \in 1..L : h[a] = g[a]
    /\ h[L + 1].tag = "Halt" /\ Len(h[L + 1].kids) = 0
    /\ h[L + 2].tag = "Fun" /\ Len(h[L + 2].kids) = 2
    /\ h[L + 2].kids[1] = L /\ h[L + 2].kids[2] = L + 1

\* It is what hoist starts with.
LEMMA MainMade ==
  ASSUME NEW g, IsTerm(g), NEW h, NEW p, NEW q, p = HaltExp(IntValue(0)), q = FunExp(Main, <<>>, Len(g), Len(g) + 1),
         h = g \o <<p, q>>
  PROVE  MainTerm(g, h, Len(g))
<1>1. PICK L : L = Len(g)
  OBVIOUS
<1>2. g \in Seq(HeapNode) /\ L \in Nat \ {0}
  BY <1>1, EmptySeq DEF IsTerm
<1>3. p \in HeapNode /\ p.kids = <<>> /\ p.tag = "Halt"
  BY HaltNode
<1>4. q \in HeapNode /\ q.kids = <<L, L + 1>> /\ q.tag = "Fun"
  <2>1. PICK r : r = L + 1
    OBVIOUS
  <2>2. L \in Nat /\ r \in Nat
    BY <1>2, <2>1
  <2>3. /\ FunExp(Main, <<>>, L, r) \in HeapNode /\ FunExp(Main, <<>>, L, r).kids = <<L, r>>
        /\ FunExp(Main, <<>>, L, r).tag = "Fun"
    BY ONLY <2>2, MainNode
  <2>. QED  BY <1>1, <2>1, <2>3
<1>5. /\ h \in Seq(HeapNode) /\ Len(h) = L + 2 /\ h[L + 1] = p /\ h[L + 2] = q
      /\ \A i \in 1..L : h[i] = g[i]
  BY <1>1, <1>2, <1>3, <1>4, PushTwo
<1>6. /\ Len(p.kids) = 0 /\ Len(q.kids) = 2 /\ q.kids[1] = L /\ q.kids[2] = L + 1
  BY <1>3, <1>4
<1>7. MainTerm(g, h, L)
  BY ONLY <1>1, <1>2, <1>3, <1>4, <1>5, <1>6 DEF MainTerm
<1>. QED  BY <1>1, <1>7

\* The links of such a heap.
MainLink(g, h, L, o, i) ==
    \/ o = Null /\ i = 1 /\ To(h, L + 2, o, i) = L + 2
    \/ /\ o \in 1..L /\ i \in 1..Len(g[o].kids)
       /\ To(h, L + 2, o, i) = g[o].kids[i] /\ To(h, L + 2, o, i) \in 1..(L - 1)
    \/ o = L + 2 /\ i = 1 /\ To(h, L + 2, o, i) = L
    \/ o = L + 2 /\ i = 2 /\ To(h, L + 2, o, i) = L + 1

\* They are those of the term and three more.
LEMMA MainLinks ==
  ASSUME NEW g, IsTerm(g), NEW h, NEW L, MainTerm(g, h, L)
  PROVE  /\ Shaped(h)
         /\ \A o, i : IsLink(h, {}, o, i) <=> MainLink(g, h, L, o, i)
         /\ \A a \in Live(h, {}) : \A i \in 1..Len(h[a].kids) : h[a].kids[i] # Null
<1>1. /\ L \in Nat \ {0} /\ Len(g) = L /\ h \in Seq(HeapNode) /\ Len(h) = L + 2
      /\ \A a \in 1..L : h[a] = g[a]
      /\ h[L + 1].tag = "Halt" /\ Len(h[L + 1].kids) = 0
      /\ h[L + 2].tag = "Fun" /\ Len(h[L + 2].kids) = 2
      /\ h[L + 2].kids[1] = L /\ h[L + 2].kids[2] = L + 1
  BY DEF MainTerm
<1>2. \A a \in 1..L : Len(g[a].kids) = Arities[g[a].tag] /\ \A i \in 1..Len(g[a].kids) : g[a].kids[i] \in 1..(a - 1)
  BY <1>1 DEF IsTerm, IsNode
<1>3. \A a : a \in 1..Len(h) <=> a \in 1..L \/ a = L + 1 \/ a = L + 2
  BY <1>1
<1>4. Arities["Halt"] = 0 /\ Arities["Fun"] = 2
  BY DEF Arities
<1>5. Shaped(h)
  <2>1. \A a \in 1..L : Len(h[a].kids) = Arities[h[a].tag]
    BY <1>1, <1>2
  <2>2. Len(h[L + 1].kids) = Arities[h[L + 1].tag] /\ Len(h[L + 2].kids) = Arities[h[L + 2].tag]
    BY <1>1, <1>4
  <2>3. \A a \in 1..Len(h) : Len(h[a].kids) = Arities[h[a].tag]
    BY ONLY <1>3, <2>1, <2>2
  <2>. QED  BY <1>1, <2>3 DEF Shaped
<1>6. \A a \in 1..L : \A i \in 1..Len(g[a].kids) : g[a].kids[i] \in 1..(L - 1)
  <2>1. \A a \in 1..L : \A x \in 1..(a - 1) : x \in 1..(L - 1)
    BY <1>1
  <2>. QED  BY <1>2, <2>1
<1>7. Null = 0 /\ \A a \in 1..L : a # Null
  BY DEF Null
<1>8. ASSUME NEW o, NEW i
      PROVE  IsLink(h, {}, o, i) <=> MainLink(g, h, L, o, i)
  <2>1. CASE o = Null
    <3>1. IsLink(h, {}, o, i) <=> i = 1
      BY <2>1 DEF IsLink
    <3>2. To(h, L + 2, o, i) = L + 2
      BY <2>1 DEF To
    <3>3. o \notin 1..L /\ o # L + 2
      BY <1>1, <1>7, <2>1
    <3>. QED  BY <2>1, <3>1, <3>2, <3>3 DEF MainLink
  <2>2. CASE o \in 1..L
    <3>1. o # Null /\ h[o] = g[o] /\ o \in Live(h, {}) /\ o # L + 2
      BY <1>1, <1>3, <1>7, <2>2 DEF Live
    <3>2. IsLink(h, {}, o, i) <=> i \in 1..Len(g[o].kids)
      BY <3>1 DEF IsLink
    <3>3. To(h, L + 2, o, i) = g[o].kids[i]
      BY <3>1 DEF To
    <3>. QED  BY <1>6, <2>2, <3>1, <3>2, <3>3 DEF MainLink
  <2>3. CASE o = L + 2
    <3>1. o # Null /\ o \in Live(h, {}) /\ o \notin 1..L
      BY <1>1, <1>3, <1>7, <2>3 DEF Live
    <3>2. IsLink(h, {}, o, i) <=> i \in 1..2
      BY <1>1, <2>3, <3>1 DEF IsLink
    <3>3. i \in 1..2 <=> i = 1 \/ i = 2
      OBVIOUS
    <3>4. To(h, L + 2, o, i) = h[L + 2].kids[i]
      BY <2>3, <3>1 DEF To
    <3>. QED  BY <1>1, <2>3, <3>1, <3>2, <3>3, <3>4 DEF MainLink
  <2>4. CASE o # Null /\ o \notin 1..L /\ o # L + 2
    <3>1. ~MainLink(g, h, L, o, i)
      BY <2>4 DEF MainLink
    <3>2. o \in Live(h, {}) => o = L + 1
      BY <1>3, <2>4 DEF Live
    <3>3. \A k : k \notin 1..0
      OBVIOUS
    <3>. QED  BY <1>1, <2>4, <3>1, <3>2, <3>3 DEF IsLink
  <2>. QED  BY <2>1, <2>2, <2>3, <2>4
<1>9. ASSUME NEW a \in Live(h, {}), NEW i \in 1..Len(h[a].kids)
      PROVE  h[a].kids[i] # Null
  <2>1. a # Null
    BY <1>5, NodeOf DEF Live
  <2>2. MainLink(g, h, L, a, i)
    BY <1>8, <2>1 DEF IsLink
  <2>3. To(h, L + 2, a, i) # Null
    BY <1>1, <1>7, <2>1, <2>2 DEF MainLink
  <2>. QED  BY <2>1, <2>3 DEF To
<1>. QED  BY <1>5, <1>8, <1>9

\* It is a tree.
LEMMA MainOwned ==
  ASSUME NEW g, IsTerm(g), NEW h, NEW L, MainTerm(g, h, L), NEW w, NEW t, w = <<t>>, t.kind # "collect"
  PROVE  Owned(h, {}, L + 2, <<>>, w, <<>>)
<1>1. Shaped(h) /\ \A o, i : IsLink(h, {}, o, i) <=> MainLink(g, h, L, o, i)
  BY MainLinks
<1>2. L \in Nat \ {0} /\ Len(g) = L /\ Len(h) = L + 2
  BY DEF MainTerm
<1>3. \A x : x \in Live(h, {}) <=> x \in 1..(L + 2)
  BY <1>2 DEF Live
<1>4. \A k, a, b, n : Holds(h, {}, L + 2, <<>>, w, <<>>, k, a, b, n)
                         <=> k = "link" /\ MainLink(g, h, L, a, b) /\ To(h, L + 2, a, b) = n
  <2>. SUFFICES ASSUME NEW k, NEW a, NEW b, NEW n
                PROVE  Holds(h, {}, L + 2, <<>>, w, <<>>, k, a, b, n)
                         <=> k = "link" /\ MainLink(g, h, L, a, b) /\ To(h, L + 2, a, b) = n
    OBVIOUS
  <2>1. PICK z, r : z = <<>> /\ r = L + 2
    OBVIOUS
  <2>2. Len(z) = 0 /\ \A x : x \notin 1..0
    BY <2>1
  <2>3. Len(w) = 1 /\ \A x \in 1..1 : w[x].kind # "collect"
    OBVIOUS
  <2>4. Holds(h, {}, r, z, w, z, k, a, b, n)
           <=> k = "link" /\ IsLink(h, {}, a, b) /\ To(h, r, a, b) = n
    BY ONLY <2>2, <2>3 DEF Holds
  <2>. QED  BY <1>1, <2>1, <2>4
<1>5. \A a, b : MainLink(g, h, L, a, b) => To(h, L + 2, a, b) \in 1..(L + 2)
  <2>1. /\ L \in 1..(L + 2) /\ L + 1 \in 1..(L + 2) /\ L + 2 \in 1..(L + 2)
        /\ \A x \in 1..(L - 1) : x \in 1..(L + 2)
    BY <1>2
  <2>. QED  BY <2>1 DEF MainLink
<1>6. \A n \in 1..(L + 2) : \E a, b : MainLink(g, h, L, a, b) /\ To(h, L + 2, a, b) = n
  <2>. SUFFICES ASSUME NEW n \in 1..(L + 2)
                PROVE  \E a, b : MainLink(g, h, L, a, b) /\ To(h, L + 2, a, b) = n
    OBVIOUS
  <2>1. CASE n = L + 2
    <3>1. To(h, L + 2, Null, 1) = L + 2
      BY DEF To
    <3>. QED  BY <2>1, <3>1 DEF MainLink
  <2>2. CASE n = L \/ n = L + 1
    <3>1. L + 2 # Null
      BY <1>2 DEF Null
    <3>2. To(h, L + 2, L + 2, 1) = L /\ To(h, L + 2, L + 2, 2) = L + 1
      BY <3>1 DEF To, MainTerm
    <3>. QED  BY <2>2, <3>2 DEF MainLink
  <2>3. CASE n \in 1..(L - 1)
    <3>1. PICK a \in 1..L : \E i \in 1..Len(g[a].kids) : g[a].kids[i] = n
      BY <1>2, <2>3 DEF IsTerm
    <3>2. PICK i \in 1..Len(g[a].kids) : g[a].kids[i] = n
      BY <3>1
    <3>3. a # Null /\ h[a] = g[a]
      BY <1>2 DEF Null, MainTerm
    <3>4. To(h, L + 2, a, i) = n
      BY <3>2, <3>3 DEF To
    <3>. QED  BY <2>3, <3>2, <3>4 DEF MainLink
  <2>4. n = L + 2 \/ n = L \/ n = L + 1 \/ n \in 1..(L - 1)
    BY <1>2
  <2>. QED  BY <2>1, <2>2, <2>3, <2>4
<1>7. \A a, b, c, d : MainLink(g, h, L, a, b) /\ MainLink(g, h, L, c, d)
                      /\ To(h, L + 2, a, b) = To(h, L + 2, c, d) => a = c /\ b = d
  <2>. SUFFICES ASSUME NEW a, NEW b, NEW c, NEW d, MainLink(g, h, L, a, b), MainLink(g, h, L, c, d),
                       To(h, L + 2, a, b) = To(h, L + 2, c, d)
                PROVE  a = c /\ b = d
    OBVIOUS
  <2>1. PICK x, y : x = To(h, L + 2, a, b) /\ y = To(h, L + 2, c, d)
    OBVIOUS
  <2>2. L + 2 # L /\ L + 2 # L + 1 /\ L # L + 1 /\ L + 2 \notin 1..(L - 1) /\ L \notin 1..(L - 1) /\ L + 1 \notin 1..(L - 1)
    BY <1>2
  <2>3. CASE x \in 1..(L - 1)
    <3>1. /\ a \in 1..L /\ b \in 1..Len(g[a].kids) /\ x = g[a].kids[b]
          /\ c \in 1..L /\ d \in 1..Len(g[c].kids) /\ x = g[c].kids[d]
      BY <2>1, <2>2, <2>3 DEF MainLink
    <3>2. \A u, v \in 1..L : \A i \in 1..Len(g[u].kids), m \in 1..Len(g[v].kids) :
             g[u].kids[i] = g[v].kids[m] => u = v /\ i = m
      BY <1>2 DEF IsTerm
    <3>3. g[a].kids[b] = g[c].kids[d]
      BY <3>1
    <3>. QED  BY ONLY <3>1, <3>2, <3>3
  <2>4. CASE x \notin 1..(L - 1)
    BY <2>1, <2>2, <2>4 DEF MainLink
  <2>. QED  BY <2>3, <2>4
<1>8. \A k, a, b, n : Holds(h, {}, L + 2, <<>>, w, <<>>, k, a, b, n) => n \in Live(h, {}) \cup {Null}
  BY <1>3, <1>4, <1>5
<1>9. \A n \in Live(h, {}) : \E k, a, b : Holds(h, {}, L + 2, <<>>, w, <<>>, k, a, b, n)
  <2>. SUFFICES ASSUME NEW n \in 1..(L + 2)
                PROVE  \E k, a, b : Holds(h, {}, L + 2, <<>>, w, <<>>, k, a, b, n)
    BY <1>3
  <2>1. PICK a, b : MainLink(g, h, L, a, b) /\ To(h, L + 2, a, b) = n
    BY <1>6
  <2>2. Holds(h, {}, L + 2, <<>>, w, <<>>, "link", a, b, n)
    BY <1>4, <2>1
  <2>. QED  BY <2>2
<1>10. \A n, k, a, b, l, c, d :
          /\ Holds(h, {}, L + 2, <<>>, w, <<>>, k, a, b, n) /\ Holds(h, {}, L + 2, <<>>, w, <<>>, l, c, d, n)
          /\ n # Null
          => k = l /\ a = c /\ b = d
  BY <1>4, <1>7
<1>. QED  BY <1>8, <1>9, <1>10 DEF Owned

\* What hoist starts with.
Started(g, h, L, t, r, w) ==
    /\ g = input /\ h = heap /\ L = Len(input) /\ r = L + 2 /\ t = NodeTask(RootLink, r) /\ w = worklist

LEMMA InitNow ==
  ASSUME Init, NEW g, NEW h, NEW L, NEW t, NEW r, NEW w, Started(g, h, L, t, r, w)
  PROVE  /\ IsTerm(g) /\ MainTerm(g, h, L) /\ Shaped(h)
         /\ freed = {} /\ root = r /\ currentJoins = <<>> /\ collected = <<>> /\ counter = 0 /\ status = "run"
         /\ w = <<t>> /\ Len(w) = 1 /\ w[1] = t /\ w \in Seq(TaskRec) /\ w # <<>>
         /\ t.kind = "node" /\ t.exp = r /\ t.link.owner = Null
         /\ Owned(h, {}, r, <<>>, w, <<>>) /\ Seen(h, {}, r, w, {})
<1>1. g = input /\ h = heap /\ L = Len(input) /\ r = L + 2 /\ t = NodeTask(RootLink, r) /\ w = worklist
  BY DEF Started
<1>2. /\ heap = input \o <<HaltExp(IntValue(0)), FunExp(Main, <<>>, Len(input), Len(input) + 1)>>
      /\ freed = {} /\ root = r /\ currentJoins = <<>> /\ collected = <<>> /\ worklist = <<t>>
      /\ counter = 0 /\ status = "run" /\ IsTerm(input)
  BY <1>1, InputsAssumption DEF Init
<1>3. MainTerm(g, h, L) /\ IsTerm(g)
  <2>1. PICK p, q : p = HaltExp(IntValue(0)) /\ q = FunExp(Main, <<>>, Len(g), Len(g) + 1)
    OBVIOUS
  <2>2. h = g \o <<p, q>> /\ IsTerm(g)
    BY <1>1, <1>2, <2>1
  <2>3. MainTerm(g, h, Len(g))
    BY ONLY <2>1, <2>2, MainMade
  <2>. QED  BY <1>1, <2>2, <2>3
<1>4. /\ L \in Nat \ {0} /\ Len(h) = L + 2 /\ h[L + 1].tag = "Halt" /\ h[L + 2].tag = "Fun"
      /\ h[L + 2].kids[2] = L + 1
  BY <1>3 DEF MainTerm
<1>5. r \in Nat /\ r \in 1..Len(h) /\ L + 1 \in 1..Len(h) /\ r # L + 1 /\ Null = 0 /\ r # Null
  BY <1>1, <1>4 DEF Null
<1>6. t \in TaskRec /\ t.kind = "node" /\ t.exp = r /\ t.link.owner = Null /\ t.link.kid = 1
  <2>1. Null \in Nat /\ 1 \in Nat
    BY <1>5
  <2>. QED  BY <1>1, <1>5, <2>1 DEF NodeTask, RootLink, Link, TaskRec, LinkRec
<1>8. w = <<t>> /\ Len(w) = 1 /\ w[1] = t /\ w \in Seq(TaskRec) /\ w # <<>>
  BY <1>1, <1>2, <1>6
<1>9. /\ Shaped(h) /\ \A a \in Live(h, {}) : \A i \in 1..Len(h[a].kids) : h[a].kids[i] # Null
  BY <1>3, MainLinks
<1>10. Owned(h, {}, r, <<>>, w, <<>>)
  BY <1>1, <1>3, <1>6, <1>8, MainOwned
<1>11. Seen(h, {}, r, w, {})
  <2>1. TaskOK(h, {}, r, {}, t)
    <3>1. IsLink(h, {}, Null, 1) /\ To(h, r, Null, 1) = r /\ r \in Live(h, {})
      BY <1>5 DEF IsLink, To, Live
    <3>. QED  BY <1>6, <3>1 DEF TaskOK
  <2>2. \A x \in 1..1 : x = 1
    OBVIOUS
  <2>3. ~Waits(t, t) /\ ~Ends(t) /\ t.kind # "rest"
    BY <1>6 DEF Waits, Ends
  <2>. QED  BY <1>8, <1>9, <2>1, <2>2, <2>3 DEF Seen
<1>. QED  BY ONLY <1>1, <1>2, <1>3, <1>6, <1>8, <1>9, <1>10, <1>11

\* Initially only the root has a task, and nothing was visited.
LEMMA InitInv == Init => Inv
<1>. SUFFICES ASSUME Init PROVE Inv
  OBVIOUS
<1>1. PICK g, h, L, t, r, w : Started(g, h, L, t, r, w)
  BY DEF Started
<1>2. g = input /\ h = heap /\ L = Len(input) /\ r = L + 2 /\ w = worklist
  BY <1>1 DEF Started
<1>3. /\ MainTerm(g, h, L) /\ Shaped(h)
      /\ freed = {} /\ root = r /\ currentJoins = <<>> /\ collected = <<>> /\ counter = 0 /\ status = "run"
      /\ w[1] = t /\ w \in Seq(TaskRec) /\ w # <<>>
      /\ t.kind = "node" /\ t.exp = r /\ t.link.owner = Null
      /\ Owned(h, {}, r, <<>>, w, <<>>) /\ Seen(h, {}, r, w, {})
  BY <1>1, InitNow
<1>4. /\ L \in Nat \ {0} /\ Len(h) = L + 2 /\ h[L + 1].tag = "Halt" /\ h[L + 2].tag = "Fun"
      /\ h[L + 2].kids[2] = L + 1
  BY <1>3 DEF MainTerm
<1>5. TypeInv
  <2>1. currentJoins \in Seq(JoinRec) /\ collected \in Seq(FunRec)
    BY <1>3
  <2>2. Len(input) \in Nat /\ worklist \in Seq(TaskRec) /\ Shaped(heap) /\ freed \subseteq 1..Len(heap)
    BY <1>2, <1>3, <1>4
  <2>. QED  BY <1>3, <2>1, <2>2 DEF TypeInv
<1>6. OwnInv
  BY <1>2, <1>3 DEF OwnInv
<1>7. RootInv
  <2>1. Holding(w[1]) /\ w[1].link.owner = Null /\ w[1].exp = r
    BY <1>3 DEF Holding
  <2>2. r \in 1..Len(h) /\ L + 1 \in 1..Len(h) /\ r # L + 1
    BY <1>2, <1>4
  <2>3. RootOK(h, r, w, L + 1, L + 2)
    BY <1>2, <1>3, <1>4, <2>1, <2>2 DEF RootOK
  <2>. QED  BY <1>2, <1>3, <2>3 DEF RootInv
<1>. QED  BY <1>5, <1>6, <1>7 DEF Inv

-----------------------------------------------------------------------------
(***************************************************************************)
(* The properties.                                                         *)
(***************************************************************************)
\* The links of the model.
LEMMA LinkIs ==
  ASSUME Shaped(heap), NEW l
  PROVE  /\ LinkTo(l) <=> l = Link(l.owner, l.kid) /\ IsLink(heap, freed, l.owner, l.kid)
         /\ Deref(heap, root, l) = To(heap, root, l.owner, l.kid)
<1>1. Deref(heap, root, l) = To(heap, root, l.owner, l.kid)
  BY DEF Deref, To
<1>2. ASSUME LinkTo(l)
      PROVE  l = Link(l.owner, l.kid) /\ IsLink(heap, freed, l.owner, l.kid)
  <2>1. CASE l = RootLink
    BY <2>1 DEF RootLink, Link, IsLink
  <2>2. CASE l # RootLink
    <3>1. PICK a \in Alive : \E i \in 1..2 : l = Link(a, i)
      BY <1>2, <2>2 DEF LinkTo, Links
    <3>2. PICK i \in 1..2 : l = Link(a, i)
      BY <3>1
    <3>3. l.owner = a /\ l.kid = i
      BY <3>2 DEF Link
    <3>4. a \in Live(heap, freed) /\ a \in 1..Len(heap) /\ a # Null
      BY LenProperties DEF Alive, Live, Null, Shaped
    <3>5. i <= Len(heap[a].kids)
      BY <1>2, <3>3, <3>4 DEF LinkTo
    <3>6. PICK k : k = Len(heap[a].kids)
      OBVIOUS
    <3>7. k \in {0, 1, 2}
      BY <3>4, <3>6, NodeOf
    <3>8. i \in 1..k
      BY <3>5, <3>6, <3>7
    <3>. QED  BY <3>2, <3>3, <3>4, <3>6, <3>8 DEF IsLink
  <2>. QED  BY <2>1, <2>2
<1>3. ASSUME l = Link(l.owner, l.kid), IsLink(heap, freed, l.owner, l.kid)
      PROVE  LinkTo(l)
  <2>1. CASE l.owner = Null
    BY <1>3, <2>1 DEF LinkTo, Links, RootLink, IsLink
  <2>2. CASE l.owner # Null
    <3>1. PICK a, i, k : a = l.owner /\ i = l.kid /\ k = Len(heap[a].kids)
      OBVIOUS
    <3>2. a \in Live(heap, freed) /\ a \in 1..Len(heap) /\ i \in 1..k /\ l = Link(a, i)
      BY <1>3, <2>2, <3>1 DEF IsLink, Live
    <3>3. k \in {0, 1, 2}
      BY <3>1, <3>2, NodeOf
    <3>4. i \in 1..2 /\ i <= k
      BY <3>2, <3>3
    <3>5. l \in Links
      BY <3>2, <3>4 DEF Links, Alive, Live
    <3>. QED  BY <3>1, <3>4, <3>5 DEF LinkTo
  <2>. QED  BY <2>1, <2>2
<1>. QED  BY <1>1, <1>2, <1>3

\* Every task is about nodes that exist.
LEMMA InvNoDangling ==
  ASSUME Inv
  PROVE  NoDangling
<1>1. PICK V : Seen(heap, freed, root, worklist, V)
  BY DEF Inv, OwnInv
<1>2. SUFFICES ASSUME NEW i \in 1..Len(worklist), NEW t, t = worklist[i]
               PROVE  /\ t.exp \in Alive
                      /\ t.kind \in {"node", "rest"} =>
                            LinkTo(t.link) /\ Deref(heap, root, t.link) = t.exp
                      /\ t.kind \in {"collect", "block"} => heap[t.exp].kids[1] # Null
                      /\ t.kind = "rest" => heap[t.exp].kids[2] # Null
                      /\ t.kind = "branch" => heap[t.exp].kids[1] # Null /\ heap[t.exp].kids[2] # Null
  BY DEF NoDangling
<1>3. TaskOK(heap, freed, root, V, t)
  BY <1>1, <1>2 DEF Seen
<1>4. t \in TaskRec
  BY <1>2, ElementOfSeq DEF Inv, TypeInv
<1>5. t.exp \in Alive
  BY <1>3 DEF TaskOK, Live, Alive
<1>6. ASSUME t.kind \in {"node", "rest"}
      PROVE  LinkTo(t.link) /\ Deref(heap, root, t.link) = t.exp
  <2>1. PICK l : l = t.link
    OBVIOUS
  <2>2. l = Link(l.owner, l.kid)
    BY <1>4, <1>6, <2>1 DEF TaskRec, LinkRec, Link
  <2>3. IsLink(heap, freed, l.owner, l.kid) /\ To(heap, root, l.owner, l.kid) = t.exp
    BY <1>3, <1>6, <2>1 DEF TaskOK, Holding
  <2>4. LinkTo(l) /\ Deref(heap, root, l) = t.exp
    BY <2>2, <2>3, LinkIs DEF Inv, TypeInv
  <2>. QED  BY <2>1, <2>4
<1>7. /\ t.kind \in {"collect", "block"} => heap[t.exp].kids[1] # Null
      /\ t.kind = "rest" => heap[t.exp].kids[2] # Null
      /\ t.kind = "branch" => heap[t.exp].kids[1] # Null /\ heap[t.exp].kids[2] # Null
  BY <1>3 DEF TaskOK
<1>. QED  BY <1>5, <1>6, <1>7

\* Place p of the model holds node n.
HoldsNow(k, a, b, n) == Holds(heap, freed, root, currentJoins, worklist, collected, k, a, b, n)

\* Every place is one of those of the invariant.
LEMMA OwnerHolds ==
  ASSUME Inv, NEW p \in Owners
  PROVE  \E k, a, b : p = <<k, a, b>> /\ HoldsNow(k, a, b, Owns(p))
<1>1. CASE p \in {<<"link", l.owner, l.kid>> : l \in {l \in Links : LinkTo(l)}}
  <2>1. PICK l \in Links : LinkTo(l) /\ p = <<"link", l.owner, l.kid>>
    BY <1>1
  <2>2. PICK o, i : o = l.owner /\ i = l.kid
    OBVIOUS
  <2>3. l = Link(o, i) /\ IsLink(heap, freed, o, i) /\ Deref(heap, root, l) = To(heap, root, o, i)
    BY <2>1, <2>2, LinkIs DEF Inv, TypeInv
  <2>4. p = <<"link", o, i>>
    BY <2>1, <2>2
  <2>5. p[1] = "link" /\ p[2] = o /\ p[3] = i
    BY <2>4
  <2>6. Owns(p) = To(heap, root, o, i)
    BY <2>3, <2>5 DEF Owns
  <2>7. HoldsNow("link", o, i, Owns(p))
    BY <2>3, <2>6 DEF HoldsNow, Holds
  <2>. QED  BY <2>4, <2>7
<1>2. CASE p \in {<<"join", 0, m>> : m \in 1..Len(currentJoins)}
  <2>1. PICK m \in 1..Len(currentJoins) : p = <<"join", 0, m>>
    BY <1>2
  <2>2. p[1] = "join" /\ p[3] = m
    BY <2>1
  <2>3. Owns(p) = currentJoins[m].body
    BY <2>2 DEF Owns
  <2>4. HoldsNow("join", 0, m, Owns(p))
    BY <2>3 DEF HoldsNow, Holds
  <2>. QED  BY <2>1, <2>4
<1>3. CASE p \in UNION {{<<"saved", i, m>> : m \in 1..Len(worklist[i].joins)} :
                           i \in {i \in 1..Len(worklist) : worklist[i].kind = "collect"}}
  <2>1. PICK i \in 1..Len(worklist) : /\ worklist[i].kind = "collect"
                                      /\ p \in {<<"saved", i, m>> : m \in 1..Len(worklist[i].joins)}
    BY <1>3
  <2>2. PICK m \in 1..Len(worklist[i].joins) : p = <<"saved", i, m>>
    BY <2>1
  <2>3. p[1] = "saved" /\ p[2] = i /\ p[3] = m
    BY <2>2
  <2>4. Owns(p) = worklist[i].joins[m].body
    BY <2>3 DEF Owns
  <2>5. HoldsNow("saved", i, m, Owns(p))
    BY <2>1, <2>4 DEF HoldsNow, Holds
  <2>. QED  BY <2>2, <2>5
<1>4. CASE p \in {<<"entry", f, 0>> : f \in 1..Len(collected)}
  <2>1. PICK f \in 1..Len(collected) : p = <<"entry", f, 0>>
    BY <1>4
  <2>2. p[1] = "entry" /\ p[2] = f
    BY <2>1
  <2>3. Owns(p) = collected[f].entry.body
    BY <2>2 DEF Owns
  <2>4. HoldsNow("entry", f, 0, Owns(p))
    BY <2>3 DEF HoldsNow, Holds
  <2>. QED  BY <2>1, <2>4
<1>5. CASE p \in UNION {{<<"block", f, m>> : m \in 1..Len(collected[f].blocks)} : f \in 1..Len(collected)}
  <2>1. PICK f \in 1..Len(collected) : p \in {<<"block", f, m>> : m \in 1..Len(collected[f].blocks)}
    BY <1>5
  <2>2. PICK m \in 1..Len(collected[f].blocks) : p = <<"block", f, m>>
    BY <2>1
  <2>3. p[1] = "block" /\ p[2] = f /\ p[3] = m
    BY <2>2
  <2>4. Owns(p) = collected[f].blocks[m].body
    BY <2>3 DEF Owns
  <2>5. HoldsNow("block", f, m, Owns(p))
    BY <2>4 DEF HoldsNow, Holds
  <2>. QED  BY <2>2, <2>5
<1>. QED  BY <1>1, <1>2, <1>3, <1>4, <1>5 DEF Owners

\* Every place of the invariant is one of the model.
LEMMA HolderOwns ==
  ASSUME Inv, NEW k, NEW a, NEW b, NEW n, HoldsNow(k, a, b, n), NEW p, p = <<k, a, b>>
  PROVE  p \in Owners /\ Owns(p) = n
<1>1. p[1] = k /\ p[2] = a /\ p[3] = b
  OBVIOUS
<1>2. CASE k = "link" /\ IsLink(heap, freed, a, b) /\ To(heap, root, a, b) = n
  <2>1. PICK l : l = Link(a, b)
    OBVIOUS
  <2>2. l.owner = a /\ l.kid = b /\ l = Link(l.owner, l.kid)
    BY <2>1 DEF Link
  <2>3. LinkTo(l) /\ Deref(heap, root, l) = n
    BY <1>2, <2>2, LinkIs DEF Inv, TypeInv
  <2>4. l \in {x \in Links : LinkTo(x)} /\ p = <<"link", l.owner, l.kid>>
    BY <1>2, <2>2, <2>3 DEF LinkTo
  <2>5. Owns(p) = n
    BY <1>1, <1>2, <2>1, <2>3 DEF Owns
  <2>. QED  BY <2>4, <2>5 DEF Owners
<1>3. CASE k = "join" /\ a = 0 /\ b \in 1..Len(currentJoins) /\ currentJoins[b].body = n
  <2>1. Owns(p) = n
    BY <1>1, <1>3 DEF Owns
  <2>. QED  BY <1>3, <2>1 DEF Owners
<1>4. CASE k = "saved" /\ a \in 1..Len(worklist) /\ worklist[a].kind = "collect"
           /\ b \in 1..Len(worklist[a].joins) /\ worklist[a].joins[b].body = n
  <2>1. Owns(p) = n
    BY <1>1, <1>4 DEF Owns
  <2>. QED  BY <1>4, <2>1 DEF Owners
<1>5. CASE k = "entry" /\ a \in 1..Len(collected) /\ b = 0 /\ collected[a].entry.body = n
  <2>1. Owns(p) = n
    BY <1>1, <1>5 DEF Owns
  <2>. QED  BY <1>5, <2>1 DEF Owners
<1>6. CASE k = "block" /\ a \in 1..Len(collected) /\ b \in 1..Len(collected[a].blocks)
           /\ collected[a].blocks[b].body = n
  <2>1. Owns(p) = n
    BY <1>1, <1>6 DEF Owns
  <2>. QED  BY <1>6, <2>1 DEF Owners
<1>. QED  BY <1>2, <1>3, <1>4, <1>5, <1>6 DEF HoldsNow, Holds

\* The places that own nodes are those of the invariant.
LEMMA InvOwnedOnce ==
  ASSUME Inv
  PROVE  OwnedOnce
<1>1. /\ \A k, a, b, n : HoldsNow(k, a, b, n) => n \in Alive \cup {Null}
      /\ \A n \in Alive : \E k, a, b : HoldsNow(k, a, b, n)
      /\ \A n, k, a, b, l, c, d :
            HoldsNow(k, a, b, n) /\ HoldsNow(l, c, d, n) /\ n # Null => k = l /\ a = c /\ b = d
  BY DEF Inv, OwnInv, Owned, HoldsNow, Live, Alive
<1>2. \A n \in Alive : n # Null
  BY NodeOf DEF Inv, TypeInv, Alive
<1>. DEFINE D == {o \in Owners : Owns(o) # Null}
            owns == [o \in D |-> Owns(o)]
<1>3. \A o \in D : owns[o] \in Alive
  BY <1>1, OwnerHolds
<1>4. \A n \in Alive : \E o \in D : owns[o] = n
  <2>. SUFFICES ASSUME NEW n \in Alive PROVE \E o \in D : Owns(o) = n
    OBVIOUS
  <2>1. PICK k, a, b : HoldsNow(k, a, b, n)
    BY <1>1
  <2>2. PICK o : o = <<k, a, b>>
    OBVIOUS
  <2>3. o \in Owners /\ Owns(o) = n
    BY <2>1, <2>2, HolderOwns
  <2>. QED  BY <1>2, <2>3
<1>5. \A o, p \in D : owns[o] = owns[p] => o = p
  <2>. SUFFICES ASSUME NEW o \in D, NEW p \in D, Owns(o) = Owns(p)
                PROVE  o = p
    OBVIOUS
  <2>1. PICK n : n = Owns(o) /\ n = Owns(p) /\ n # Null
    OBVIOUS
  <2>2. PICK k, a, b : o = <<k, a, b>> /\ HoldsNow(k, a, b, n)
    BY <2>1, OwnerHolds
  <2>3. PICK l, c, d : p = <<l, c, d>> /\ HoldsNow(l, c, d, n)
    BY <2>1, OwnerHolds
  <2>4. k = l /\ a = c /\ b = d
    BY <1>1, <2>1, <2>2, <2>3
  <2>. QED  BY <2>2, <2>3, <2>4
<1>6. DOMAIN owns = D
  OBVIOUS
<1>7. Range(owns) = Alive /\ IsInjective(owns)
  <2>. HIDE DEF owns, D
  <2>. QED  BY <1>3, <1>4, <1>5, <1>6 DEF Range, IsInjective
<1>. QED  BY <1>7 DEF OwnedOnce

(***************************************************************************)
(* No task of hoist holds a dangling pointer, whatever the term: the link  *)
(* of a task lies in a node that exists and owns the node of the task, and *)
(* what a closure is going to move out is still there when it runs.        *)
(***************************************************************************)
THEOREM TasksNeverDangle == Spec => []NoDangling
<1>1. Inv => NoDangling
  BY InvNoDangling
<1>. QED  BY <1>1, InitInv, StepInv, PTL DEF Spec

(***************************************************************************)
(* Hoisting loses no code and shares none, whatever the term: at every     *)
(* moment every node that was not destroyed has one owner, a link of the   *)
(* term, a block, met or set aside, or the entry of a function.            *)
(***************************************************************************)
THEOREM EveryNodeOwnedOnce == Spec => []OwnedOnce
<1>1. Inv => OwnedOnce
  BY InvOwnedOnce
<1>. QED  BY <1>1, InitInv, StepInv, PTL DEF Spec

-----------------------------------------------------------------------------
(***************************************************************************)
(* Which function is being walked.                                         *)
(***************************************************************************)
\* Position p of stack w is above the collect task of node f and no other, or f is Null
\* and there is none below it.
Within(w, p, f) ==
    \/ f = Null /\ \A q \in 1..(p - 1) : w[q].kind # "collect"
    \/ \E q \in 1..(p - 1) : /\ w[q].kind = "collect" /\ w[q].exp = f
                             /\ \A s \in (q + 1)..(p - 1) : w[s].kind # "collect"

\* It is said of what is below the position.
LEMMA WithinBelow ==
  ASSUME NEW w, NEW w2, NEW p \in Nat, \A q \in 1..(p - 1) : w2[q] = w[q], NEW f
  PROVE  Within(w2, p, f) <=> Within(w, p, f)
<1>1. \A q \in 1..(p - 1) : \A s \in (q + 1)..(p - 1) : s \in 1..(p - 1)
  OBVIOUS
<1>. QED  BY <1>1 DEF Within

\* Other tasks make no difference.
LEMMA WithinSkip ==
  ASSUME NEW w, NEW p \in Nat \ {0}, NEW q \in Nat, p <= q, \A s \in p..(q - 1) : w[s].kind # "collect", NEW f
  PROVE  Within(w, q, f) <=> Within(w, p, f)
<1>1. \A s : s \in 1..(q - 1) <=> s \in 1..(p - 1) \/ s \in p..(q - 1)
  OBVIOUS
<1>2. \A x \in 1..(p - 1) : \A s : s \in (x + 1)..(q - 1) <=> s \in (x + 1)..(p - 1) \/ s \in p..(q - 1)
  OBVIOUS
<1>3. ASSUME Within(w, q, f)
      PROVE  Within(w, p, f)
  <2>1. CASE f = Null /\ \A s \in 1..(q - 1) : w[s].kind # "collect"
    BY <1>1, <2>1 DEF Within
  <2>2. ASSUME NEW x \in 1..(q - 1), w[x].kind = "collect", w[x].exp = f,
               \A s \in (x + 1)..(q - 1) : w[s].kind # "collect"
        PROVE  Within(w, p, f)
    <3>1. x \in 1..(p - 1)
      BY <1>1, <2>2
    <3>. QED  BY <1>2, <2>2, <3>1 DEF Within
  <2>. QED  BY <1>3, <2>1, <2>2 DEF Within
<1>4. ASSUME Within(w, p, f)
      PROVE  Within(w, q, f)
  <2>1. CASE f = Null /\ \A s \in 1..(p - 1) : w[s].kind # "collect"
    BY <1>1, <2>1 DEF Within
  <2>2. ASSUME NEW x \in 1..(p - 1), w[x].kind = "collect", w[x].exp = f,
               \A s \in (x + 1)..(p - 1) : w[s].kind # "collect"
        PROVE  Within(w, q, f)
    BY <1>1, <1>2, <2>2 DEF Within
  <2>. QED  BY <1>4, <2>1, <2>2 DEF Within
<1>. QED  BY <1>3, <1>4

\* A collect task is that of its node.
LEMMA WithinTask ==
  ASSUME NEW w, NEW p \in Nat \ {0}, w[p].kind = "collect", NEW f
  PROVE  Within(w, p + 1, f) <=> f = w[p].exp
<1>1. (p + 1) - 1 = p /\ p \in 1..p /\ \A s : s \notin (p + 1)..p
  OBVIOUS
<1>2. \A x \in 1..p : x = p \/ p \in (x + 1)..p
  OBVIOUS
<1>. QED  BY <1>1, <1>2 DEF Within

\* There is one.
LEMMA WithinOne ==
  ASSUME NEW w, NEW p \in Nat, NEW f, NEW g, Within(w, p, f), Within(w, p, g)
  PROVE  f = g
<1>1. \A x, y \in 1..(p - 1) : x = y \/ x \in (y + 1)..(p - 1) \/ y \in (x + 1)..(p - 1)
  OBVIOUS
<1>. QED  BY <1>1 DEF Within

-----------------------------------------------------------------------------
(***************************************************************************)
(* The blocks of each function of the whole term T: those it was collected *)
(* with, those met while it is being walked, and those set aside.          *)
(***************************************************************************)
Funs(T) == {f \in 1..Len(T) : T[f].tag = "Fun"}

Lists(T, cj, w, co, f, x) ==
    \/ \E c \in 1..Len(co) : co[c].name = T[f].name /\ \E m \in 1..Len(co[c].blocks) : x = co[c].blocks[m]
    \/ Within(w, Len(w) + 1, f) /\ \E m \in 1..Len(cj) : x = cj[m]
    \/ \E p \in 1..Len(w) : /\ w[p].kind = "collect" /\ Within(w, p, f)
                            /\ \E m \in 1..Len(w[p].joins) : x = w[p].joins[m]

\* The blocks New were met in function g.
More(T, cj, w, co, cj2, w2, co2, g, New) ==
    \A f \in Funs(T) : \A x : Lists(T, cj2, w2, co2, f, x) <=> Lists(T, cj, w, co, f, x) \/ (f = g /\ x \in New)

\* Nothing is met when a node is visited.
LEMMA PlainLists ==
  ASSUME NEW T, NEW cj, NEW w, NEW w2, NEW co, NEW n \in Nat, NEW m \in Nat, n <= m, Len(w) = n + 1, Len(w2) = m,
         w[n + 1].kind # "collect", \A t \in 1..n : w2[t] = w[t],
         \A t \in (n + 1)..m : w2[t].kind # "collect", NEW g
  PROVE  More(T, cj, w, co, cj, w2, co, g, {})
<1>1. ASSUME NEW f
      PROVE  Within(w2, m + 1, f) <=> Within(w, n + 2, f)
  <2>1. Within(w2, n + 1, f) <=> Within(w, n + 1, f)
    <3>1. n + 1 \in Nat /\ \A q \in 1..((n + 1) - 1) : w2[q] = w[q]
      OBVIOUS
    <3>. QED  BY ONLY <3>1, WithinBelow
  <2>2. Within(w2, m + 1, f) <=> Within(w2, n + 1, f)
    <3>1. n + 1 \in Nat \ {0} /\ m + 1 \in Nat /\ n + 1 <= m + 1 /\ \A s \in (n + 1)..((m + 1) - 1) : w2[s].kind # "collect"
      OBVIOUS
    <3>. QED  BY ONLY <3>1, WithinSkip
  <2>3. Within(w, n + 2, f) <=> Within(w, n + 1, f)
    <3>1. n + 1 \in Nat \ {0} /\ n + 2 \in Nat /\ n + 1 <= n + 2 /\ \A s \in (n + 1)..((n + 2) - 1) : w[s].kind # "collect"
      OBVIOUS
    <3>. QED  BY ONLY <3>1, WithinSkip
  <2>. QED  BY <2>1, <2>2, <2>3
<1>2. ASSUME NEW f, NEW p \in 1..n
      PROVE  Within(w2, p, f) <=> Within(w, p, f)
  <2>1. p \in Nat /\ \A q \in 1..(p - 1) : w2[q] = w[q]
    OBVIOUS
  <2>. QED  BY ONLY <2>1, WithinBelow
<1>3. \A p : p \in 1..Len(w2) /\ w2[p].kind = "collect" <=> p \in 1..n /\ w[p].kind = "collect"
  OBVIOUS
<1>4. \A p : p \in 1..Len(w) /\ w[p].kind = "collect" <=> p \in 1..n /\ w[p].kind = "collect"
  OBVIOUS
<1>5. ASSUME NEW f, NEW x
      PROVE  Lists(T, cj, w2, co, f, x) <=> Lists(T, cj, w, co, f, x)
  <2>1. Len(w2) + 1 = m + 1 /\ Len(w) + 1 = n + 2 /\ \A t \in 1..n : w2[t] = w[t]
    OBVIOUS
  <2>. QED  BY ONLY <1>1, <1>2, <1>3, <1>4, <2>1 DEF Lists
<1>. QED  BY ONLY <1>5 DEF More

\* The blocks met so far are set aside for a function.
LEMMA SavedLists ==
  ASSUME NEW T, NEW cj, NEW w, NEW w2, NEW co, NEW n \in Nat, Len(w) = n + 1, Len(w2) = n + 4,
         w[n + 1].kind # "collect", \A t \in 1..n : w2[t] = w[t],
         \A t \in (n + 1)..(n + 4) : w2[t].kind = "collect" <=> t = n + 3, w2[n + 3].joins = cj, NEW g
  PROVE  More(T, cj, w, co, <<>>, w2, co, g, {})
<1>1. ASSUME NEW f
      PROVE  Within(w2, n + 3, f) <=> Within(w, n + 2, f)
  <2>1. Within(w2, n + 1, f) <=> Within(w, n + 1, f)
    <3>1. n + 1 \in Nat /\ \A q \in 1..((n + 1) - 1) : w2[q] = w[q]
      OBVIOUS
    <3>. QED  BY ONLY <3>1, WithinBelow
  <2>2. Within(w2, n + 3, f) <=> Within(w2, n + 1, f)
    <3>1. n + 1 \in Nat \ {0} /\ n + 3 \in Nat /\ n + 1 <= n + 3 /\ \A s \in (n + 1)..((n + 3) - 1) : w2[s].kind # "collect"
      OBVIOUS
    <3>. QED  BY ONLY <3>1, WithinSkip
  <2>3. Within(w, n + 2, f) <=> Within(w, n + 1, f)
    <3>1. n + 1 \in Nat \ {0} /\ n + 2 \in Nat /\ n + 1 <= n + 2 /\ \A s \in (n + 1)..((n + 2) - 1) : w[s].kind # "collect"
      OBVIOUS
    <3>. QED  BY ONLY <3>1, WithinSkip
  <2>. QED  BY <2>1, <2>2, <2>3
<1>2. ASSUME NEW f, NEW p \in 1..n
      PROVE  Within(w2, p, f) <=> Within(w, p, f)
  <2>1. p \in Nat /\ \A q \in 1..(p - 1) : w2[q] = w[q]
    OBVIOUS
  <2>. QED  BY ONLY <2>1, WithinBelow
<1>3. \A p : p \in 1..Len(w2) /\ w2[p].kind = "collect" <=> (p \in 1..n /\ w[p].kind = "collect") \/ p = n + 3
  OBVIOUS
<1>4. \A p : p \in 1..Len(w) /\ w[p].kind = "collect" <=> p \in 1..n /\ w[p].kind = "collect"
  OBVIOUS
<1>5. \A y \in 1..Len(<<>>) : FALSE
  OBVIOUS
<1>6. ASSUME NEW f, NEW x
      PROVE  Lists(T, <<>>, w2, co, f, x) <=> Lists(T, cj, w, co, f, x)
  <2>1. Len(w) + 1 = n + 2 /\ (\A t \in 1..n : w2[t] = w[t] /\ t # n + 3) /\ w2[n + 3].joins = cj
    OBVIOUS
  <2>2. (\E p \in 1..Len(w2) : /\ w2[p].kind = "collect" /\ Within(w2, p, f)
                               /\ \E i \in 1..Len(w2[p].joins) : x = w2[p].joins[i])
          <=> \/ \E p \in 1..Len(w) : /\ w[p].kind = "collect" /\ Within(w, p, f)
                                      /\ \E i \in 1..Len(w[p].joins) : x = w[p].joins[i]
              \/ Within(w, n + 2, f) /\ \E i \in 1..Len(cj) : x = cj[i]
    <3>. DEFINE A(p) == w2[p].kind = "collect" /\ Within(w2, p, f) /\ \E i \in 1..Len(w2[p].joins) : x = w2[p].joins[i]
                B(p) == w[p].kind = "collect" /\ Within(w, p, f) /\ \E i \in 1..Len(w[p].joins) : x = w[p].joins[i]
                C == Within(w, n + 2, f) /\ \E i \in 1..Len(cj) : x = cj[i]
    <3>1. \A p \in 1..n : A(p) <=> B(p)
      BY ONLY <1>2, <2>1
    <3>2. A(n + 3) <=> C
      BY ONLY <1>1, <1>3, <2>1
    <3>3. /\ \A p : p \in 1..Len(w2) /\ A(p) => p \in 1..n \/ p = n + 3
          /\ \A p : p \in 1..Len(w) /\ B(p) => p \in 1..n
          /\ \A p \in 1..n : p \in 1..Len(w) /\ p \in 1..Len(w2)
          /\ n + 3 \in 1..Len(w2)
      BY <1>3, <1>4
    <3>. HIDE DEF A, B, C
    <3>4. (\E p \in 1..Len(w2) : A(p)) <=> (\E p \in 1..Len(w) : B(p)) \/ C
      BY ONLY <3>1, <3>2, <3>3
    <3>. QED  BY ONLY <3>4 DEF A, B, C
  <2>. QED  BY ONLY <1>5, <2>1, <2>2 DEF Lists
<1>. QED  BY ONLY <1>6 DEF More

\* A function is collected with the blocks met in it.
Collecting(T, cj, sj, w, w2, co, co2, n, m, e) ==
    /\ n \in Nat /\ m \in Nat /\ e \in Funs(T) /\ \A f \in Funs(T) : T[f].name = T[e].name => f = e
    /\ Len(w) = n + 1 /\ w[n + 1].kind = "collect" /\ w[n + 1].exp = e /\ w[n + 1].joins = sj
    /\ Len(w2) = n /\ \A t \in 1..n : w2[t] = w[t]
    /\ Len(co) = m /\ Len(co2) = m + 1 /\ \A i \in 1..m : co2[i] = co[i]
    /\ co2[m + 1].name = T[e].name /\ co2[m + 1].blocks = cj

LEMMA CollectLists ==
  ASSUME NEW T, NEW cj, NEW sj, NEW w, NEW w2, NEW co, NEW co2, NEW n, NEW m, NEW e,
         Collecting(T, cj, sj, w, w2, co, co2, n, m, e), NEW g
  PROVE  More(T, cj, w, co, sj, w2, co2, g, {})
<1>0. /\ n \in Nat /\ m \in Nat /\ e \in Funs(T) /\ \A f \in Funs(T) : T[f].name = T[e].name => f = e
      /\ Len(w) = n + 1 /\ w[n + 1].kind = "collect" /\ w[n + 1].exp = e /\ w[n + 1].joins = sj
      /\ Len(w2) = n /\ \A t \in 1..n : w2[t] = w[t]
      /\ Len(co) = m /\ Len(co2) = m + 1 /\ \A i \in 1..m : co2[i] = co[i]
      /\ co2[m + 1].name = T[e].name /\ co2[m + 1].blocks = cj
  BY DEF Collecting
<1>1. ASSUME NEW f
      PROVE  /\ Within(w, n + 2, f) <=> f = e
             /\ Within(w2, n + 1, f) <=> Within(w, n + 1, f)
  <2>1. Within(w2, n + 1, f) <=> Within(w, n + 1, f)
    <3>1. n + 1 \in Nat /\ \A q \in 1..((n + 1) - 1) : w2[q] = w[q]
      BY <1>0
    <3>. QED  BY ONLY <3>1, WithinBelow
  <2>2. Within(w, n + 2, f) <=> f = e
    <3>1. n + 1 \in Nat \ {0} /\ w[n + 1].kind = "collect" /\ n + 2 = (n + 1) + 1
      BY <1>0
    <3>2. Within(w, (n + 1) + 1, f) <=> f = w[n + 1].exp
      BY ONLY <3>1, WithinTask
    <3>. QED  BY <1>0, <3>1, <3>2
  <2>. QED  BY <2>1, <2>2
<1>2. ASSUME NEW f, NEW p \in 1..n
      PROVE  Within(w2, p, f) <=> Within(w, p, f)
  <2>1. p \in Nat /\ \A q \in 1..(p - 1) : w2[q] = w[q]
    BY <1>0
  <2>. QED  BY ONLY <2>1, WithinBelow
<1>3. \A p : p \in 1..Len(w) <=> p \in 1..n \/ p = n + 1
  BY <1>0
<1>4. \A c : c \in 1..Len(co2) <=> c \in 1..m \/ c = m + 1
  BY <1>0
<1>5. ASSUME NEW f \in Funs(T), NEW x
      PROVE  Lists(T, sj, w2, co2, f, x) <=> Lists(T, cj, w, co, f, x)
  <2>1. T[f].name = T[e].name <=> f = e
    BY <1>0
  <2>2. Len(w) + 1 = n + 2 /\ Len(w2) + 1 = n + 1 /\ (\A t \in 1..n : w2[t] = w[t]) /\ Len(co) = m /\ Len(w2) = n
    BY <1>0
  <2>3. /\ \A i \in 1..m : co2[i] = co[i]
        /\ co2[m + 1].name = T[e].name /\ co2[m + 1].blocks = cj
        /\ w[n + 1].kind = "collect" /\ w[n + 1].exp = e /\ w[n + 1].joins = sj
    BY <1>0
  <2>4. (\E c \in 1..Len(co2) : co2[c].name = T[f].name /\ \E i \in 1..Len(co2[c].blocks) : x = co2[c].blocks[i])
          <=> \/ \E c \in 1..Len(co) : co[c].name = T[f].name /\ \E i \in 1..Len(co[c].blocks) : x = co[c].blocks[i]
              \/ f = e /\ \E i \in 1..Len(cj) : x = cj[i]
    <3>. DEFINE A(c) == co2[c].name = T[f].name /\ \E i \in 1..Len(co2[c].blocks) : x = co2[c].blocks[i]
                B(c) == co[c].name = T[f].name /\ \E i \in 1..Len(co[c].blocks) : x = co[c].blocks[i]
                C == f = e /\ \E i \in 1..Len(cj) : x = cj[i]
    <3>1. \A c \in 1..m : A(c) <=> B(c)
      BY ONLY <2>3
    <3>2. A(m + 1) <=> C
      BY ONLY <2>1, <2>3
    <3>. HIDE DEF A, B, C
    <3>3. (\E c \in 1..Len(co2) : A(c)) <=> (\E c \in 1..Len(co) : B(c)) \/ C
      BY ONLY <1>4, <2>2, <3>1, <3>2
    <3>. QED  BY ONLY <3>3 DEF A, B, C
  <2>5. (\E p \in 1..Len(w) : /\ w[p].kind = "collect" /\ Within(w, p, f)
                              /\ \E i \in 1..Len(w[p].joins) : x = w[p].joins[i])
          <=> \/ \E p \in 1..Len(w2) : /\ w2[p].kind = "collect" /\ Within(w2, p, f)
                                       /\ \E i \in 1..Len(w2[p].joins) : x = w2[p].joins[i]
              \/ Within(w, n + 1, f) /\ \E i \in 1..Len(sj) : x = sj[i]
    <3>. DEFINE A(p) == w2[p].kind = "collect" /\ Within(w2, p, f) /\ \E i \in 1..Len(w2[p].joins) : x = w2[p].joins[i]
                B(p) == w[p].kind = "collect" /\ Within(w, p, f) /\ \E i \in 1..Len(w[p].joins) : x = w[p].joins[i]
                C == Within(w, n + 1, f) /\ \E i \in 1..Len(sj) : x = sj[i]
    <3>1. \A p \in 1..n : A(p) <=> B(p)
      BY ONLY <1>2, <2>2
    <3>2. B(n + 1) <=> C
      BY ONLY <2>3
    <3>. HIDE DEF A, B, C
    <3>3. (\E p \in 1..Len(w) : B(p)) <=> (\E p \in 1..Len(w2) : A(p)) \/ C
      BY ONLY <1>3, <2>2, <3>1, <3>2
    <3>. QED  BY ONLY <3>3 DEF A, B, C
  <2>. QED  BY ONLY <1>1, <2>2, <2>4, <2>5 DEF Lists
<1>. QED  BY ONLY <1>5 DEF More

\* Blocks are met in the function of the task.
Met(cj, cj2, w, w2, n, k, j, g, New) ==
    /\ n \in Nat /\ k \in Nat /\ j \in Nat
    /\ Len(w) = n + 1 /\ w[n + 1].kind # "collect" /\ Within(w, n + 1, g)
    /\ Len(w2) = n /\ \A t \in 1..n : w2[t] = w[t]
    /\ Len(cj) = k /\ Len(cj2) = k + j /\ \A i \in 1..k : cj2[i] = cj[i]
    /\ \A x : x \in New <=> \E i \in (k + 1)..(k + j) : x = cj2[i]

LEMMA MetLists ==
  ASSUME NEW T, NEW cj, NEW cj2, NEW w, NEW w2, NEW co, NEW n, NEW k, NEW j, NEW g, NEW New,
         Met(cj, cj2, w, w2, n, k, j, g, New)
  PROVE  More(T, cj, w, co, cj2, w2, co, g, New)
<1>0. /\ n \in Nat /\ k \in Nat /\ j \in Nat
      /\ Len(w) = n + 1 /\ w[n + 1].kind # "collect" /\ Within(w, n + 1, g)
      /\ Len(w2) = n /\ \A t \in 1..n : w2[t] = w[t]
      /\ Len(cj) = k /\ Len(cj2) = k + j /\ \A i \in 1..k : cj2[i] = cj[i]
      /\ \A x : x \in New <=> \E i \in (k + 1)..(k + j) : x = cj2[i]
  BY DEF Met
<1>1. ASSUME NEW f
      PROVE  /\ Within(w2, n + 1, f) <=> f = g
             /\ Within(w, n + 2, f) <=> f = g
  <2>1. Within(w2, n + 1, f) <=> Within(w, n + 1, f)
    <3>1. n + 1 \in Nat /\ \A q \in 1..((n + 1) - 1) : w2[q] = w[q]
      BY <1>0
    <3>. QED  BY ONLY <3>1, WithinBelow
  <2>2. Within(w, n + 2, f) <=> Within(w, n + 1, f)
    <3>1. n + 1 \in Nat \ {0} /\ n + 2 \in Nat /\ n + 1 <= n + 2 /\ \A s \in (n + 1)..((n + 2) - 1) : w[s].kind # "collect"
      BY <1>0
    <3>. QED  BY ONLY <3>1, WithinSkip
  <2>3. Within(w, n + 1, f) => f = g
    <3>1. n + 1 \in Nat
      BY <1>0
    <3>. QED  BY ONLY <1>0, <3>1, WithinOne
  <2>. QED  BY <1>0, <2>1, <2>2, <2>3
<1>2. ASSUME NEW f, NEW p \in 1..n
      PROVE  Within(w2, p, f) <=> Within(w, p, f)
  <2>1. p \in Nat /\ \A q \in 1..(p - 1) : w2[q] = w[q]
    BY <1>0
  <2>. QED  BY ONLY <2>1, WithinBelow
<1>3. \A p : p \in 1..Len(w) /\ w[p].kind = "collect" <=> p \in 1..n /\ w[p].kind = "collect"
  BY <1>0
<1>4. \A i : i \in 1..Len(cj2) <=> i \in 1..k \/ i \in (k + 1)..(k + j)
  BY <1>0
<1>5. ASSUME NEW f, NEW x
      PROVE  Lists(T, cj2, w2, co, f, x) <=> Lists(T, cj, w, co, f, x) \/ (f = g /\ x \in New)
  <2>1. Len(w) + 1 = n + 2 /\ Len(w2) + 1 = n + 1 /\ Len(w2) = n /\ Len(cj) = k
    BY <1>0
  <2>2. (\A t \in 1..n : w2[t] = w[t]) /\ \A i \in 1..k : cj2[i] = cj[i]
    BY <1>0
  <2>3. \A y : y \in New <=> \E i \in (k + 1)..(k + j) : y = cj2[i]
    BY <1>0
  <2>4. (\E i \in 1..Len(cj2) : x = cj2[i]) <=> (\E i \in 1..k : x = cj[i]) \/ x \in New
    BY ONLY <1>4, <2>2, <2>3
  <2>5. (\E p \in 1..Len(w2) : /\ w2[p].kind = "collect" /\ Within(w2, p, f)
                               /\ \E i \in 1..Len(w2[p].joins) : x = w2[p].joins[i])
          <=> (\E p \in 1..Len(w) : /\ w[p].kind = "collect" /\ Within(w, p, f)
                                    /\ \E i \in 1..Len(w[p].joins) : x = w[p].joins[i])
    BY ONLY <1>2, <1>3, <2>1, <2>2
  <2>. QED  BY ONLY <1>1, <2>1, <2>4, <2>5 DEF Lists
<1>. QED  BY ONLY <1>5 DEF More

-----------------------------------------------------------------------------
(***************************************************************************)
(* What becomes of the whole term T.  G gives each of its nodes the FunExp *)
(* in whose body it is, Null for main and what follows it.                 *)
(***************************************************************************)
\* Child i of node a is in the same function, unless it is the body of one.
HomeOf(T, G, a, i) == IF T[a].tag = "Fun" /\ i = 1 THEN a ELSE G[a]

Placed(T, G) ==
    /\ Shaped(T) /\ T # <<>>
    /\ \A a \in 1..Len(T) : \A i \in 1..Len(T[a].kids) :
          T[a].kids[i] \in 1..(a - 1) /\ G[T[a].kids[i]] = HomeOf(T, G, a, i)
    /\ \A b \in 1..(Len(T) - 1) : \E a \in 1..Len(T) : \E i \in 1..Len(T[a].kids) : T[a].kids[i] = b
    /\ G[Len(T)] = Null
    /\ \A a \in 1..Len(T) : T[a].tag \in {"Join", "If", "Jump"} => G[a] \in Funs(T)

\* The names in it: those of functions and those of join points are apart, and jumps lead to
\* a join point of their function.
Named(T, G) ==
    /\ \A a, b \in Funs(T) : T[a].name = T[b].name => a = b
    /\ \A a, b \in 1..Len(T) : T[a].tag = "Join" /\ T[b].tag = "Join" /\ T[a].name = T[b].name => a = b
    /\ \A a \in 1..Len(T) : T[a].tag = "Join" => T[a].name.base \notin {"entry", "then", "else"}
    /\ \A a \in 1..Len(T) : T[a].tag = "Jump" => \E b \in 1..Len(T) :
          T[b].tag = "Join" /\ T[b].name = T[a].name /\ Len(T[b].params) = Len(T[a].vals) /\ G[b] = G[a]

Bodied(T) == {a \in 1..Len(T) : T[a].tag \in {"Fun", "Join"}}

\* The body of node a was moved out.
Gone(h, fr, a) == a \in fr \/ h[a].kids[1] = Null

\* Heap h is T, but for what was moved; V are the nodes that were visited.
Intact(T, h, fr, V) ==
    /\ Len(T) <= Len(h) /\ V \subseteq 1..Len(T) /\ fr \subseteq V \cap Bodied(T)
    /\ \A a \in 1..Len(T) :
          /\ h[a].tag = T[a].tag /\ h[a].vals = T[a].vals
          /\ (a \in Bodied(T) /\ Gone(h, fr, a)) \/ (h[a].name = T[a].name /\ h[a].params = T[a].params)
          /\ a \notin V => \A i \in 1..Len(T[a].kids) : h[a].kids[i] = T[a].kids[i]
    /\ \A a \in (Len(T) + 1)..Len(h) : h[a].tag = "Jump" /\ h[a].vals = <<>>

\* Its nodes are as they were, but for what was moved.
LEMMA IntactNode ==
  ASSUME NEW T, NEW h, NEW fr, NEW V, Shaped(T), Shaped(h), Intact(T, h, fr, V)
  PROVE  \A a \in 1..Len(T) : /\ a \in 1..Len(h) /\ a # Null /\ h[a].tag = T[a].tag /\ h[a].vals = T[a].vals
                              /\ Len(h[a].kids) = Len(T[a].kids)
<1>1. PICK N, M : N = Len(T) /\ M = Len(h)
  OBVIOUS
<1>2. N \in Nat /\ M \in Nat /\ N <= M
  <2>1. N \in Nat /\ M \in Nat
    BY <1>1, LenProperties DEF Shaped
  <2>. QED  BY <1>1, <2>1 DEF Intact
<1>3. ASSUME NEW a \in 1..N
      PROVE  /\ a \in 1..M /\ a # Null /\ h[a].tag = T[a].tag /\ h[a].vals = T[a].vals
             /\ Len(h[a].kids) = Len(T[a].kids)
  <2>1. a \in 1..M /\ a # Null
    BY <1>2 DEF Null
  <2>2. h[a].tag = T[a].tag /\ h[a].vals = T[a].vals
    BY <1>1 DEF Intact
  <2>3. Len(T[a].kids) = Arities[T[a].tag]
    BY <1>1, NodeOf
  <2>4. Len(h[a].kids) = Arities[h[a].tag]
    BY <1>1, <2>1, NodeOf
  <2>. QED  BY <2>1, <2>2, <2>3, <2>4
<1>. QED  BY <1>1, <1>3

\* A child is made before its node and is in the right function, or is a jump that was made.
Descends(T, G, h, fr) ==
    \A a \in 1..Len(T) : a \notin fr => \A i \in 1..Len(h[a].kids) :
        \/ h[a].kids[i] = Null
        \/ h[a].kids[i] \in 1..(a - 1) /\ G[h[a].kids[i]] = HomeOf(T, G, a, i)
        \/ T[a].tag = "If" /\ h[a].kids[i] \in (Len(T) + 1)..Len(h)

\* What a node says of itself.
Same(h, h2, a) == h2[a].name = h[a].name /\ h2[a].params = h[a].params /\ h2[a].vals = h[a].vals

\* A body was moved out of node e.
BodyOut(h, h2, e) ==
    /\ Changed(h, h2, e, 1, Null)
    /\ \A a \in 1..Len(h) : h2[a].vals = h[a].vals /\ (a # e => Same(h, h2, a))

LEMMA BodyOutIntact ==
  ASSUME NEW T, NEW G, NEW h, NEW h2, NEW fr, NEW V, NEW e, Placed(T, G), Shaped(h), e \in Bodied(T),
         Intact(T, h, fr, V), Descends(T, G, h, fr), e \in V, BodyOut(h, h2, e)
  PROVE  /\ Intact(T, h2, fr, V) /\ Descends(T, G, h2, fr)
         /\ \A a \in Bodied(T) : Gone(h2, fr, a) <=> Gone(h, fr, a) \/ a = e
<1>1. /\ Len(h2) = Len(h) /\ \A a \in 1..Len(h) : h2[a].tag = h[a].tag /\ Len(h2[a].kids) = Len(h[a].kids)
      /\ \A a \in 1..Len(h) : \A i \in 1..Len(h[a].kids) :
            h2[a].kids[i] = IF a = e /\ i = 1 THEN Null ELSE h[a].kids[i]
      /\ \A a \in 1..Len(h) : h2[a].vals = h[a].vals /\ (a # e => Same(h, h2, a))
  BY DEF BodyOut, Changed
<1>2. PICK N, M : N = Len(T) /\ M = Len(h)
  OBVIOUS
<1>3. N \in Nat /\ M \in Nat /\ N <= M /\ \A a \in 1..N : a \in 1..M
  <2>1. N \in Nat /\ M \in Nat
    BY <1>2, LenProperties DEF Placed, Shaped
  <2>2. N <= M
    BY <1>2 DEF Intact
  <2>. QED  BY <2>1, <2>2
<1>4. /\ \A a \in 1..N : h[a].tag = T[a].tag /\ h[a].vals = T[a].vals /\ Len(h[a].kids) = Len(T[a].kids)
      /\ \A a \in Bodied(T) : a \in 1..N /\ 1 \in 1..Len(h[a].kids)
  <2>1. \A a \in 1..N : h[a].tag = T[a].tag /\ h[a].vals = T[a].vals
    BY <1>2 DEF Intact
  <2>2. \A a \in 1..N : Len(h[a].kids) = Len(T[a].kids)
    BY <1>2, IntactNode DEF Placed
  <2>3. ASSUME NEW a \in Bodied(T)
        PROVE  a \in 1..N /\ 1 \in 1..Len(h[a].kids)
    <3>1. a \in 1..N /\ h[a].tag \in {"Fun", "Join"} /\ a \in 1..M
      BY <1>2, <1>3, <2>1 DEF Bodied
    <3>. QED  BY <1>2, <3>1, TwoKids
  <2>. QED  BY <2>1, <2>2, <2>3
<1>5. \A a \in Bodied(T) : Gone(h2, fr, a) <=> Gone(h, fr, a) \/ a = e
  BY <1>1, <1>2, <1>3, <1>4 DEF Gone
<1>6. Intact(T, h2, fr, V)
  <2>1. ASSUME NEW a \in 1..N
        PROVE  /\ h2[a].tag = T[a].tag /\ h2[a].vals = T[a].vals
               /\ (a \in Bodied(T) /\ Gone(h2, fr, a)) \/ (h2[a].name = T[a].name /\ h2[a].params = T[a].params)
               /\ a \notin V => \A i \in 1..Len(T[a].kids) : h2[a].kids[i] = T[a].kids[i]
    <3>1. a \in 1..M /\ h2[a].tag = T[a].tag /\ h2[a].vals = T[a].vals
      <4>1. a \in 1..M
        BY <1>3
      <4>2. h[a].tag = T[a].tag /\ h[a].vals = T[a].vals
        BY <1>4
      <4>. QED  BY <1>1, <1>2, <4>1, <4>2
    <3>2. (a \in Bodied(T) /\ Gone(h2, fr, a)) \/ (h2[a].name = T[a].name /\ h2[a].params = T[a].params)
      <4>1. CASE a = e
        <5>1. Gone(h2, fr, e)
          BY <1>5
        <5>. QED  BY <4>1, <5>1
      <4>2. CASE a # e
        <5>1. Same(h, h2, a)
          BY <1>1, <1>2, <3>1, <4>2
        <5>2. (a \in Bodied(T) /\ Gone(h, fr, a)) \/ (h[a].name = T[a].name /\ h[a].params = T[a].params)
          BY <1>2 DEF Intact
        <5>. QED  BY <1>5, <5>1, <5>2 DEF Same
      <4>. QED  BY <4>1, <4>2
    <3>3. ASSUME a \notin V, NEW i \in 1..Len(T[a].kids)
          PROVE  h2[a].kids[i] = T[a].kids[i]
      <4>1. h[a].kids[i] = T[a].kids[i] /\ a # e
        BY <1>2, <3>3 DEF Intact
      <4>2. i \in 1..Len(h[a].kids)
        BY <1>4
      <4>. QED  BY <1>1, <1>2, <3>1, <4>1, <4>2
    <3>. QED  BY <3>1, <3>2, <3>3
  <2>2. \A a \in (N + 1)..M : h2[a].tag = "Jump" /\ h2[a].vals = <<>>
    <3>1. \A a \in (N + 1)..M : h[a].tag = "Jump" /\ h[a].vals = <<>> /\ a \in 1..M
      BY <1>2, <1>3 DEF Intact
    <3>. QED  BY <1>1, <1>2, <3>1
  <2>3. N <= Len(h2) /\ V \subseteq 1..N /\ fr \subseteq V \cap Bodied(T)
    BY <1>1, <1>2 DEF Intact
  <2>. QED  BY <1>1, <1>2, <2>1, <2>2, <2>3 DEF Intact
<1>7. Descends(T, G, h2, fr)
  <2>. SUFFICES ASSUME NEW a \in 1..N, a \notin fr, NEW i \in 1..Len(h2[a].kids)
                PROVE  \/ h2[a].kids[i] = Null
                       \/ h2[a].kids[i] \in 1..(a - 1) /\ G[h2[a].kids[i]] = HomeOf(T, G, a, i)
                       \/ T[a].tag = "If" /\ h2[a].kids[i] \in (N + 1)..M
    BY <1>1, <1>2 DEF Descends
  <2>1. i \in 1..Len(h[a].kids) /\ h2[a].kids[i] = IF a = e /\ i = 1 THEN Null ELSE h[a].kids[i]
    BY <1>1, <1>2, <1>3
  <2>2. \/ h[a].kids[i] = Null
        \/ h[a].kids[i] \in 1..(a - 1) /\ G[h[a].kids[i]] = HomeOf(T, G, a, i)
        \/ T[a].tag = "If" /\ h[a].kids[i] \in (N + 1)..M
    BY <1>2, <2>1 DEF Descends
  <2>. QED  BY <2>1, <2>2
<1>. QED  BY <1>5, <1>6, <1>7

\* Jumps took the places of the branches of node e.
JumpsIn(h, h2, e) ==
    /\ Branched(h, h2, e)
    /\ \A a \in 1..Len(h) : Same(h, h2, a)
    /\ \A a \in (Len(h) + 1)..Len(h2) : h2[a].tag = "Jump" /\ h2[a].vals = <<>>

LEMMA JumpsInIntact ==
  ASSUME NEW T, NEW G, NEW h, NEW h2, NEW fr, NEW V, NEW e, Placed(T, G), Shaped(h), T[e].tag = "If",
         Intact(T, h, fr, V), Descends(T, G, h, fr), e \in V, JumpsIn(h, h2, e)
  PROVE  /\ Intact(T, h2, fr, V) /\ Descends(T, G, h2, fr)
         /\ \A a \in Bodied(T) : Gone(h2, fr, a) <=> Gone(h, fr, a)
<1>1. /\ Len(h2) = Len(h) + 2
      /\ \A a \in 1..Len(h) : h2[a].tag = h[a].tag /\ Len(h2[a].kids) = Len(h[a].kids)
      /\ \A a \in 1..Len(h) : a # e => h2[a].kids = h[a].kids
      /\ h2[e].kids[1] = Len(h) + 1 /\ h2[e].kids[2] = Len(h) + 2
      /\ \A a \in 1..Len(h) : Same(h, h2, a)
      /\ \A a \in (Len(h) + 1)..Len(h2) : h2[a].tag = "Jump" /\ h2[a].vals = <<>>
  BY DEF JumpsIn, Branched
<1>2. PICK N, M : N = Len(T) /\ M = Len(h)
  OBVIOUS
<1>3. /\ N \in Nat /\ M \in Nat /\ N <= M /\ N <= M + 2 /\ \A a \in 1..N : a \in 1..M
      /\ \A a \in (N + 1)..(M + 2) : a \in (N + 1)..M \/ a \in (M + 1)..(M + 2)
      /\ \A a \in (N + 1)..M : a \in 1..M /\ a \in (N + 1)..(M + 2)
      /\ M + 1 \in (N + 1)..(M + 2) /\ M + 2 \in (N + 1)..(M + 2)
  <2>1. N \in Nat /\ M \in Nat
    BY <1>2, LenProperties DEF Placed, Shaped
  <2>2. N <= M
    BY <1>2 DEF Intact
  <2>. QED  BY <2>1, <2>2
<1>4. /\ \A a \in 1..N : h[a].tag = T[a].tag /\ h[a].vals = T[a].vals /\ Len(h[a].kids) = Len(T[a].kids)
      /\ e \in 1..N /\ e \notin Bodied(T)
  <2>1. \A a \in 1..N : h[a].tag = T[a].tag /\ h[a].vals = T[a].vals
    BY <1>2 DEF Intact
  <2>2. \A a \in 1..N : Len(h[a].kids) = Len(T[a].kids)
    BY <1>2, IntactNode DEF Placed
  <2>3. e \in 1..N /\ e \notin Bodied(T)
    BY <1>2 DEF Intact, Bodied
  <2>. QED  BY <2>1, <2>2, <2>3
<1>5. \A a \in Bodied(T) : Gone(h2, fr, a) <=> Gone(h, fr, a)
  BY <1>1, <1>2, <1>3, <1>4 DEF Gone, Bodied
<1>6. Intact(T, h2, fr, V)
  <2>1. ASSUME NEW a \in 1..N
        PROVE  /\ h2[a].tag = T[a].tag /\ h2[a].vals = T[a].vals
               /\ (a \in Bodied(T) /\ Gone(h2, fr, a)) \/ (h2[a].name = T[a].name /\ h2[a].params = T[a].params)
               /\ a \notin V => \A i \in 1..Len(T[a].kids) : h2[a].kids[i] = T[a].kids[i]
    <3>1. a \in 1..M /\ h2[a].tag = T[a].tag /\ Same(h, h2, a)
      BY <1>1, <1>2, <1>3, <1>4
    <3>2. (a \in Bodied(T) /\ Gone(h, fr, a)) \/ (h[a].name = T[a].name /\ h[a].params = T[a].params)
      BY <1>2 DEF Intact
    <3>3. ASSUME a \notin V, NEW i \in 1..Len(T[a].kids)
          PROVE  h2[a].kids[i] = T[a].kids[i]
      <4>1. h[a].kids[i] = T[a].kids[i] /\ a # e
        BY <1>2, <3>3 DEF Intact
      <4>. QED  BY <1>1, <1>2, <3>1, <4>1
    <3>. QED  BY <1>4, <1>5, <3>1, <3>2, <3>3 DEF Same
  <2>2. \A a \in (N + 1)..(M + 2) : h2[a].tag = "Jump" /\ h2[a].vals = <<>>
    <3>1. \A a \in (N + 1)..M : h[a].tag = "Jump" /\ h[a].vals = <<>> /\ a \in 1..M
      BY <1>2, <1>3 DEF Intact
    <3>2. \A a \in (M + 1)..(M + 2) : h2[a].tag = "Jump" /\ h2[a].vals = <<>>
      BY <1>1, <1>2
    <3>3. \A a \in 1..M : h2[a].tag = h[a].tag /\ h2[a].vals = h[a].vals
      BY <1>1, <1>2 DEF Same
    <3>. QED  BY ONLY <1>3, <3>1, <3>2, <3>3
  <2>3. N <= Len(h2) /\ V \subseteq 1..N /\ fr \subseteq V \cap Bodied(T)
    BY <1>1, <1>2, <1>3 DEF Intact
  <2>. QED  BY <1>1, <1>2, <2>1, <2>2, <2>3 DEF Intact
<1>7. Descends(T, G, h2, fr)
  <2>. SUFFICES ASSUME NEW a \in 1..N, a \notin fr, NEW i \in 1..Len(h2[a].kids)
                PROVE  \/ h2[a].kids[i] = Null
                       \/ h2[a].kids[i] \in 1..(a - 1) /\ G[h2[a].kids[i]] = HomeOf(T, G, a, i)
                       \/ T[a].tag = "If" /\ h2[a].kids[i] \in (N + 1)..(M + 2)
    BY <1>1, <1>2 DEF Descends
  <2>1. CASE a = e
    <3>1. Len(h2[a].kids) = 2
      <4>1. h[a].tag = "If" /\ a \in 1..M
        BY <1>3, <1>4, <2>1
      <4>2. Len(h[a].kids) = 2
        BY <1>2, <4>1, TwoKids
      <4>. QED  BY <1>1, <1>2, <4>1, <4>2
    <3>2. i = 1 \/ i = 2
      BY <3>1
    <3>. QED  BY <1>1, <1>2, <1>3, <2>1, <3>2
  <2>2. CASE a # e
    <3>1. h2[a].kids = h[a].kids
      BY <1>1, <1>2, <1>3, <2>2
    <3>2. \/ h[a].kids[i] = Null
          \/ h[a].kids[i] \in 1..(a - 1) /\ G[h[a].kids[i]] = HomeOf(T, G, a, i)
          \/ T[a].tag = "If" /\ h[a].kids[i] \in (N + 1)..M
      BY <1>2, <3>1 DEF Descends
    <3>. QED  BY <1>3, <3>1, <3>2
  <2>. QED  BY <2>1, <2>2
<1>. QED  BY <1>5, <1>6, <1>7

\* Node e gave its rest to the link that owned it.
RestOut(h, h2, fr, r, r2, e, lo, li) ==
    Spliced(h, h2, fr, r, r2, e, lo, li) /\ \A a \in 1..Len(h) : Same(h, h2, a)

RestDue(T, h, fr, fr2, r, V, e, lo, li) ==
    /\ e \in Bodied(T) /\ e \in V /\ e \in Live(h, fr) /\ h[e].kids[1] = Null /\ h[e].kids[2] # Null
    /\ IsLink(h, fr, lo, li) /\ To(h, r, lo, li) = e /\ lo # e /\ lo \in V \cup {Null}
    /\ \A x : x \in fr2 <=> x \in fr \/ x = e

LEMMA RestOutIntact ==
  ASSUME NEW T, NEW G, NEW h, NEW h2, NEW fr, NEW fr2, NEW V, NEW r, NEW r2, NEW e, NEW lo, NEW li,
         Placed(T, G), Shaped(h), Intact(T, h, fr, V), Descends(T, G, h, fr),
         RestOut(h, h2, fr, r, r2, e, lo, li), RestDue(T, h, fr, fr2, r, V, e, lo, li)
  PROVE  /\ Intact(T, h2, fr2, V) /\ Descends(T, G, h2, fr2)
         /\ \A a \in Bodied(T) : Gone(h2, fr2, a) <=> Gone(h, fr, a)
         /\ \A a \in 1..Len(T) : a \notin fr2 => \A i \in 1..Len(h[a].kids) :
               \/ h2[a].kids[i] = h[a].kids[i]
               \/ h[a].kids[i] = e /\ h2[a].kids[i] \in 1..(e - 1)
<1>0. /\ e \in Bodied(T) /\ e \in V /\ e \in Live(h, fr) /\ h[e].kids[1] = Null /\ h[e].kids[2] # Null
      /\ IsLink(h, fr, lo, li) /\ To(h, r, lo, li) = e /\ lo # e /\ lo \in V \cup {Null}
      /\ \A x : x \in fr2 <=> x \in fr \/ x = e
  BY DEF RestDue
<1>1. /\ Len(h2) = Len(h) /\ \A a \in 1..Len(h) : h2[a].tag = h[a].tag /\ Len(h2[a].kids) = Len(h[a].kids)
      /\ \A a \in 1..Len(h) : Same(h, h2, a)
      /\ \A o, i : IsLink(h, fr, o, i) =>
            To(h2, r2, o, i) = IF o = lo /\ i = li THEN h[e].kids[2]
                               ELSE IF o = e /\ i = 2 THEN Null ELSE To(h, r, o, i)
  BY DEF RestOut, Spliced
<1>2. PICK N, M, c : N = Len(T) /\ M = Len(h) /\ c = h[e].kids[2]
  OBVIOUS
<1>3. \A a \in 1..N : /\ a \in 1..M /\ a # Null /\ h[a].tag = T[a].tag /\ h[a].vals = T[a].vals
                      /\ Len(h[a].kids) = Len(T[a].kids)
  BY <1>0, <1>2, IntactNode DEF Placed
<1>4. N \in Nat /\ M \in Nat /\ N <= M
  <2>1. N \in Nat /\ M \in Nat
    BY <1>0, <1>2, LenProperties DEF Placed, Shaped
  <2>. QED  BY <1>0, <1>2, <2>1 DEF Intact
<1>5. e \in 1..N /\ e # Null /\ T[e].tag \in {"Fun", "Join"} /\ V \subseteq 1..N /\ fr \subseteq V \cap Bodied(T) /\ e \notin fr
  BY <1>0, <1>2, <1>3 DEF Intact, Bodied, Live
<1>6. /\ \A a \in Bodied(T) : a \in 1..N /\ T[a].tag \in {"Fun", "Join"} /\ 1 \in 1..Len(h[a].kids)
      /\ 2 \in 1..Len(h[e].kids)
  <2>1. ASSUME NEW a \in Bodied(T)
        PROVE  a \in 1..N /\ T[a].tag \in {"Fun", "Join"} /\ 1 \in 1..Len(h[a].kids) /\ 2 \in 1..Len(h[a].kids)
    <3>1. a \in 1..N /\ T[a].tag \in {"Fun", "Join"}
      BY <1>0, <1>2 DEF Bodied
    <3>2. h[a].tag \in {"Fun", "Join"} /\ a \in 1..M
      BY <1>0, <1>3, <3>1
    <3>. QED  BY <1>0, <1>2, <3>1, <3>2, TwoKids
  <2>. QED  BY <1>0, <2>1
<1>7. c \in 1..(e - 1) /\ G[c] = G[e] /\ c # Null
  <2>1. \/ c = Null
        \/ c \in 1..(e - 1) /\ G[c] = HomeOf(T, G, e, 2)
        \/ T[e].tag = "If" /\ c \in (N + 1)..M
    BY <1>0, <1>2, <1>5, <1>6 DEF Descends
  <2>. QED  BY <1>0, <1>2, <1>5, <2>1 DEF HomeOf
\* What is in the links of the nodes that stay.
<1>8. ASSUME NEW a \in 1..N, a \notin fr2, NEW i \in 1..Len(h[a].kids)
      PROVE  /\ a \notin fr /\ a # e
             /\ h2[a].kids[i] = IF a = lo /\ i = li THEN c ELSE h[a].kids[i]
             /\ a = lo /\ i = li => h[a].kids[i] = e
  <2>1. a \in 1..M /\ a # Null /\ a \notin fr /\ a # e
    BY <1>0, <1>3, <1>8
  <2>2. IsLink(h, fr, a, i)
    BY <1>0, <1>2, <2>1 DEF IsLink, Live
  <2>3. To(h2, r2, a, i) = h2[a].kids[i] /\ To(h, r, a, i) = h[a].kids[i]
    BY <1>0, <2>1 DEF To
  <2>. QED  BY <1>0, <1>1, <1>2, <2>1, <2>2, <2>3
<1>9. ASSUME NEW a \in Bodied(T)
      PROVE  Gone(h2, fr2, a) <=> Gone(h, fr, a)
  <2>1. CASE a \in fr2
    BY <1>0, <2>1 DEF Gone
  <2>2. CASE a \notin fr2
    <3>1. a \in 1..N /\ 1 \in 1..Len(h[a].kids)
      BY <1>0, <1>6
    <3>2. /\ a \notin fr
          /\ h2[a].kids[1] = IF a = lo /\ 1 = li THEN c ELSE h[a].kids[1]
          /\ a = lo /\ 1 = li => h[a].kids[1] = e
      BY <1>0, <1>8, <2>2, <3>1
    <3>. QED  BY <1>0, <1>5, <1>7, <2>2, <3>2 DEF Gone
  <2>. QED  BY <1>0, <2>1, <2>2
<1>10. Intact(T, h2, fr2, V)
  <2>1. ASSUME NEW a \in 1..N
        PROVE  /\ h2[a].tag = T[a].tag /\ h2[a].vals = T[a].vals
               /\ (a \in Bodied(T) /\ Gone(h2, fr2, a)) \/ (h2[a].name = T[a].name /\ h2[a].params = T[a].params)
               /\ a \notin V => \A i \in 1..Len(T[a].kids) : h2[a].kids[i] = T[a].kids[i]
    <3>1. a \in 1..M /\ Same(h, h2, a) /\ h2[a].tag = h[a].tag
      BY <1>0, <1>1, <1>2, <1>3
    <3>2. h2[a].tag = T[a].tag /\ h2[a].vals = T[a].vals
      BY <1>0, <1>3, <3>1 DEF Same
    <3>3. (a \in Bodied(T) /\ Gone(h, fr, a)) \/ (h[a].name = T[a].name /\ h[a].params = T[a].params)
      BY <1>0, <1>2 DEF Intact
    <3>4. (a \in Bodied(T) /\ Gone(h2, fr2, a)) \/ (h2[a].name = T[a].name /\ h2[a].params = T[a].params)
      BY <1>0, <1>9, <3>1, <3>3 DEF Same
    <3>5. ASSUME a \notin V, NEW i \in 1..Len(T[a].kids)
          PROVE  h2[a].kids[i] = T[a].kids[i]
      <4>1. a \notin fr2 /\ a # lo
        BY <1>0, <1>3, <1>5, <3>5
      <4>2. i \in 1..Len(h[a].kids)
        BY <1>0, <1>3
      <4>3. h2[a].kids[i] = h[a].kids[i]
        BY <1>0, <1>8, <4>1, <4>2
      <4>4. h[a].kids[i] = T[a].kids[i]
        BY <1>0, <1>2, <3>5 DEF Intact
      <4>. QED  BY <1>0, <4>3, <4>4
    <3>. QED  BY <1>0, <3>2, <3>4, <3>5
  <2>2. \A a \in (N + 1)..M : h2[a].tag = "Jump" /\ h2[a].vals = <<>>
    <3>1. \A a \in (N + 1)..M : h[a].tag = "Jump" /\ h[a].vals = <<>> /\ a \in 1..M
      BY <1>0, <1>2, <1>4 DEF Intact
    <3>. QED  BY <1>0, <1>1, <1>2, <3>1 DEF Same
  <2>3. N <= Len(h2) /\ V \subseteq 1..N /\ fr2 \subseteq V \cap Bodied(T)
    BY <1>0, <1>1, <1>2, <1>4, <1>5
  <2>. QED  BY <1>0, <1>1, <1>2, <2>1, <2>2, <2>3 DEF Intact
<1>11. Descends(T, G, h2, fr2)
  <2>. SUFFICES ASSUME NEW a \in 1..N, a \notin fr2, NEW i \in 1..Len(h2[a].kids)
                PROVE  \/ h2[a].kids[i] = Null
                       \/ h2[a].kids[i] \in 1..(a - 1) /\ G[h2[a].kids[i]] = HomeOf(T, G, a, i)
                       \/ T[a].tag = "If" /\ h2[a].kids[i] \in (N + 1)..M
    BY <1>0, <1>1, <1>2 DEF Descends
  <2>1. i \in 1..Len(h[a].kids)
    BY <1>0, <1>1, <1>2, <1>3
  <2>2. /\ a \notin fr /\ a # e
        /\ h2[a].kids[i] = IF a = lo /\ i = li THEN c ELSE h[a].kids[i]
        /\ a = lo /\ i = li => h[a].kids[i] = e
    BY <1>0, <1>8, <2>1
  <2>3. \/ h[a].kids[i] = Null
        \/ h[a].kids[i] \in 1..(a - 1) /\ G[h[a].kids[i]] = HomeOf(T, G, a, i)
        \/ T[a].tag = "If" /\ h[a].kids[i] \in (N + 1)..M
    BY <1>0, <1>2, <2>1, <2>2 DEF Descends
  <2>4. CASE a = lo /\ i = li
    <3>1. h[a].kids[i] = e /\ h2[a].kids[i] = c
      BY <1>0, <2>2, <2>4
    <3>2. e \notin (N + 1)..M
      BY <1>0, <1>4, <1>5
    <3>3. e \in 1..(a - 1) /\ G[e] = HomeOf(T, G, a, i)
      BY <1>0, <1>5, <2>3, <3>1, <3>2
    <3>4. c \in 1..(a - 1)
      BY <1>0, <1>5, <1>7, <3>3
    <3>. QED  BY <1>0, <1>7, <3>1, <3>3, <3>4
  <2>5. CASE ~(a = lo /\ i = li)
    BY <1>0, <2>2, <2>3, <2>5
  <2>. QED  BY <1>0, <2>4, <2>5
<1>12. \A a \in 1..N : a \notin fr2 => \A i \in 1..Len(h[a].kids) :
               \/ h2[a].kids[i] = h[a].kids[i]
               \/ h[a].kids[i] = e /\ h2[a].kids[i] \in 1..(e - 1)
  BY <1>0, <1>7, <1>8
<1>. QED  BY <1>0, <1>2, <1>9, <1>10, <1>11, <1>12

-----------------------------------------------------------------------------
(***************************************************************************)
(* The names of blocks.                                                    *)
(***************************************************************************)
\* The names made for branches are apart, and those of entries from them.
LEMMA BlockNames ==
    /\ \A c : ThenName(c).base = "then" /\ ElseName(c).base = "else" /\ EntryName(c).base = "entry"
    /\ \A c, d \in Nat : c <= IntMax /\ d <= IntMax =>
          (ThenName(c) = ThenName(d) => c = d) /\ (ElseName(c) = ElseName(d) => c = d)
<1>1. \A c : ThenName(c).base = "then" /\ ElseName(c).base = "else" /\ EntryName(c).base = "entry"
  BY DEF ThenName, ElseName, EntryName, Fresh, Name
<1>2. ASSUME NEW c \in Nat
      PROVE  ThenName(c).digits = Decimal(c) /\ ElseName(c).digits = Decimal(c)
  <2>1. <<>> \o Decimal(c) = Decimal(c)
    BY DecimalType, ConcatEmptySeq
  <2>. QED  BY <2>1 DEF ThenName, ElseName, Fresh, Name
<1>. QED  BY <1>1, <1>2, DecimalInjective

\* A block was named x, for a join point whose body is gone or for a branch.
Known(T, h, fr, ctr, x) ==
    \/ \E a \in 1..Len(T) : T[a].tag = "Join" /\ Gone(h, fr, a) /\ x = T[a].name
    \/ \E k \in 0..(ctr - 1) : x = ThenName(k) \/ x = ElseName(k)

\* The join points whose bodies are gone are blocks of their functions.
JoinsListed(T, G, h, fr, cj, w, co) ==
    \A a \in 1..Len(T) : T[a].tag = "Join" /\ Gone(h, fr, a) =>
        \E x : Lists(T, cj, w, co, G[a], x) /\ x.name = T[a].name /\ x.slot = T[a].params

\* What the blocks of a function are.
BlocksKnown(T, G, h, fr, cj, w, co, ctr) ==
    \A f \in Funs(T) : \A x : Lists(T, cj, w, co, f, x) =>
        x.body \in 1..Len(T) /\ G[x.body] = f /\ Known(T, h, fr, ctr, x.name)

\* No two have one name.
BlocksApart(T, cj, w, co) ==
    \A f, g \in Funs(T) : \A x, y :
        Lists(T, cj, w, co, f, x) /\ Lists(T, cj, w, co, g, y) /\ x.name = y.name => x = y

Blocks(T, G, h, fr, cj, w, co, ctr) ==
    /\ JoinsListed(T, G, h, fr, cj, w, co)
    /\ BlocksKnown(T, G, h, fr, cj, w, co, ctr)
    /\ ctr <= IntMax => BlocksApart(T, cj, w, co)

\* The blocks New are those of the nodes S, or of branches.
Listable(T, G, h, fr, h2, fr2, ctr, ctr2, g, New, S) ==
    /\ ctr \in Nat /\ ctr2 \in Nat /\ ctr <= ctr2
    /\ \A a \in Bodied(T) : Gone(h2, fr2, a) <=> Gone(h, fr, a) \/ a \in S
    /\ \A a \in S : T[a].tag = "Join" =>
          G[a] = g /\ \E x \in New : x.name = T[a].name /\ x.slot = T[a].params
    /\ \A x \in New : x.body \in 1..Len(T) /\ G[x.body] = g /\ Known(T, h2, fr2, ctr2, x.name)
    /\ ctr2 <= IntMax => \A x \in New : ~Known(T, h, fr, ctr, x.name)
    /\ \A x, y \in New : x.name = y.name => x = y

\* What is known stays so.
LEMMA KnownStays ==
  ASSUME NEW T, NEW h, NEW fr, NEW h2, NEW fr2, NEW ctr \in Nat, NEW ctr2 \in Nat, ctr <= ctr2,
         \A a \in Bodied(T) : Gone(h, fr, a) => Gone(h2, fr2, a), NEW x, Known(T, h, fr, ctr, x)
  PROVE  Known(T, h2, fr2, ctr2, x)
<1>1. CASE \E a \in 1..Len(T) : T[a].tag = "Join" /\ Gone(h, fr, a) /\ x = T[a].name
  BY <1>1 DEF Known, Bodied
<1>2. CASE \E k \in 0..(ctr - 1) : x = ThenName(k) \/ x = ElseName(k)
  <2>1. \A k \in 0..(ctr - 1) : k \in 0..(ctr2 - 1)
    OBVIOUS
  <2>. QED  BY <1>2, <2>1 DEF Known
<1>. QED  BY <1>1, <1>2 DEF Known

LEMMA MoreBlocks ==
  ASSUME NEW T, NEW G, NEW h, NEW fr, NEW h2, NEW fr2, NEW cj, NEW cj2, NEW w, NEW w2, NEW co, NEW co2,
         NEW ctr, NEW ctr2, NEW g, NEW New, NEW S, Placed(T, G), Blocks(T, G, h, fr, cj, w, co, ctr),
         More(T, cj, w, co, cj2, w2, co2, g, New), Listable(T, G, h, fr, h2, fr2, ctr, ctr2, g, New, S)
  PROVE  Blocks(T, G, h2, fr2, cj2, w2, co2, ctr2)
<1>1. /\ ctr \in Nat /\ ctr2 \in Nat /\ ctr <= ctr2
      /\ \A a \in Bodied(T) : Gone(h2, fr2, a) <=> Gone(h, fr, a) \/ a \in S
      /\ \A a \in S : T[a].tag = "Join" =>
            G[a] = g /\ \E x \in New : x.name = T[a].name /\ x.slot = T[a].params
      /\ \A x \in New : x.body \in 1..Len(T) /\ G[x.body] = g /\ Known(T, h2, fr2, ctr2, x.name)
      /\ ctr2 <= IntMax => \A x \in New : ~Known(T, h, fr, ctr, x.name)
      /\ \A x, y \in New : x.name = y.name => x = y
  BY DEF Listable
<1>2. \A f \in Funs(T) : \A x : Lists(T, cj2, w2, co2, f, x) <=> Lists(T, cj, w, co, f, x) \/ (f = g /\ x \in New)
  BY DEF More
<1>3. JoinsListed(T, G, h2, fr2, cj2, w2, co2)
  <2>. SUFFICES ASSUME NEW a \in 1..Len(T), T[a].tag = "Join", Gone(h2, fr2, a)
                PROVE  \E x : Lists(T, cj2, w2, co2, G[a], x) /\ x.name = T[a].name /\ x.slot = T[a].params
    BY DEF JoinsListed
  <2>1. a \in Bodied(T) /\ G[a] \in Funs(T)
    BY DEF Bodied, Placed
  <2>2. CASE Gone(h, fr, a)
    <3>1. PICK x : Lists(T, cj, w, co, G[a], x) /\ x.name = T[a].name /\ x.slot = T[a].params
      BY <2>2 DEF Blocks, JoinsListed
    <3>2. Lists(T, cj2, w2, co2, G[a], x)
      BY <1>2, <2>1, <3>1
    <3>. QED  BY <3>1, <3>2
  <2>3. CASE a \in S
    <3>1. G[a] = g
      BY <1>1, <2>3
    <3>2. PICK x \in New : x.name = T[a].name /\ x.slot = T[a].params
      BY <1>1, <2>3
    <3>3. Lists(T, cj2, w2, co2, G[a], x)
      BY <1>2, <2>1, <3>1, <3>2
    <3>. QED  BY <3>2, <3>3
  <2>. QED  BY <1>1, <2>1, <2>2, <2>3
<1>4. BlocksKnown(T, G, h2, fr2, cj2, w2, co2, ctr2)
  <2>. SUFFICES ASSUME NEW f \in Funs(T), NEW x, Lists(T, cj2, w2, co2, f, x)
                PROVE  x.body \in 1..Len(T) /\ G[x.body] = f /\ Known(T, h2, fr2, ctr2, x.name)
    BY DEF BlocksKnown
  <2>1. CASE Lists(T, cj, w, co, f, x)
    <3>1. x.body \in 1..Len(T) /\ G[x.body] = f /\ Known(T, h, fr, ctr, x.name)
      BY <2>1 DEF Blocks, BlocksKnown
    <3>2. \A a \in Bodied(T) : Gone(h, fr, a) => Gone(h2, fr2, a)
      BY <1>1
    <3>3. Known(T, h2, fr2, ctr2, x.name)
      BY ONLY <1>1, <3>1, <3>2, KnownStays
    <3>. QED  BY <3>1, <3>3
  <2>2. CASE f = g /\ x \in New
    BY <1>1, <2>2
  <2>. QED  BY <1>2, <2>1, <2>2
<1>5. ASSUME ctr2 <= IntMax
      PROVE  BlocksApart(T, cj2, w2, co2)
  <2>. SUFFICES ASSUME NEW f \in Funs(T), NEW k \in Funs(T), NEW x, NEW y, Lists(T, cj2, w2, co2, f, x),
                       Lists(T, cj2, w2, co2, k, y), x.name = y.name
                PROVE  x = y
    BY DEF BlocksApart
  <2>1. BlocksApart(T, cj, w, co)
    <3>1. ctr <= IntMax
      BY <1>1, <1>5 DEF IntMax
    <3>. QED  BY <3>1 DEF Blocks
  <2>2. \A z : Lists(T, cj, w, co, f, z) => Known(T, h, fr, ctr, z.name)
    BY DEF Blocks, BlocksKnown
  <2>3. \A z : Lists(T, cj, w, co, k, z) => Known(T, h, fr, ctr, z.name)
    BY DEF Blocks, BlocksKnown
  <2>4. \A z \in New : ~Known(T, h, fr, ctr, z.name)
    BY <1>1, <1>5
  <2>5. Lists(T, cj, w, co, f, x) \/ x \in New
    BY <1>2
  <2>6. Lists(T, cj, w, co, k, y) \/ y \in New
    BY <1>2
  <2>7. CASE Lists(T, cj, w, co, f, x) /\ Lists(T, cj, w, co, k, y)
    BY <2>1, <2>7 DEF BlocksApart
  <2>8. CASE x \in New /\ y \in New
    BY <1>1, <2>8
  <2>. QED  BY <2>2, <2>3, <2>4, <2>5, <2>6, <2>7, <2>8
<1>. QED  BY <1>3, <1>4, <1>5 DEF Blocks

\* The functions that were collected.
Colls(T, G, h, fr, co) ==
    /\ \A c \in 1..Len(co) : \E f \in Funs(T) :
          /\ Gone(h, fr, f) /\ co[c].name = T[f].name /\ co[c].entry.name.base = "entry"
          /\ co[c].entry.body \in 1..Len(T) /\ G[co[c].entry.body] = f
    /\ \A c, d \in 1..Len(co) : co[c].name = co[d].name => c = d

LEMMA CollsStay ==
  ASSUME NEW T, NEW G, NEW h, NEW fr, NEW h2, NEW fr2, NEW co, Colls(T, G, h, fr, co),
         \A a \in Bodied(T) : Gone(h, fr, a) => Gone(h2, fr2, a)
  PROVE  Colls(T, G, h2, fr2, co)
<1>1. \A f \in Funs(T) : f \in Bodied(T)
  BY DEF Funs, Bodied
<1>. QED  BY <1>1 DEF Colls

LEMMA CollsMore ==
  ASSUME NEW T, NEW G, NEW h, NEW fr, NEW h2, NEW fr2, NEW co, NEW co2, NEW m \in Nat, NEW e \in Funs(T),
         Named(T, G), Colls(T, G, h, fr, co), ~Gone(h, fr, e),
         \A a \in Bodied(T) : Gone(h2, fr2, a) <=> Gone(h, fr, a) \/ a = e,
         Len(co) = m, Len(co2) = m + 1, \A i \in 1..m : co2[i] = co[i], co2[m + 1].name = T[e].name,
         co2[m + 1].entry.name.base = "entry", co2[m + 1].entry.body \in 1..Len(T), G[co2[m + 1].entry.body] = e
  PROVE  Colls(T, G, h2, fr2, co2)
<1>1. \A f \in Funs(T) : f \in Bodied(T)
  BY DEF Funs, Bodied
<1>2. \A c : c \in 1..Len(co2) <=> c \in 1..m \/ c = m + 1
  OBVIOUS
<1>3. \A c \in 1..m : c # m + 1
  OBVIOUS
<1>4. ASSUME NEW c \in 1..Len(co2)
      PROVE  \E f \in Funs(T) :
                /\ Gone(h2, fr2, f) /\ co2[c].name = T[f].name /\ co2[c].entry.name.base = "entry"
                /\ co2[c].entry.body \in 1..Len(T) /\ G[co2[c].entry.body] = f
  <2>1. CASE c \in 1..m
    BY <1>1, <2>1 DEF Colls
  <2>2. CASE c = m + 1
    BY <1>1, <2>2
  <2>. QED  BY <1>2, <2>1, <2>2
<1>5. \A c \in 1..m : co2[c].name # T[e].name
  BY DEF Colls, Named
<1>6. \A c, d \in 1..Len(co2) : co2[c].name = co2[d].name => c = d
  BY <1>2, <1>5 DEF Colls
<1>. QED  BY <1>4, <1>6 DEF Colls

-----------------------------------------------------------------------------
(***************************************************************************)
(* What is still to be done.                                               *)
(***************************************************************************)
\* A task is in the function of its node; a node that was not visited has a task or is below
\* one that was not; the rest of a node that was visited is moved out, or has a task.
Staged(T, G, fr, w, V) ==
    /\ \A p \in 1..Len(w) : w[p].exp \in 1..Len(T) /\ Within(w, p, G[w[p].exp])
    /\ \A a \in 1..Len(T) : a \notin V =>
          \/ \E p \in 1..Len(w) : w[p].kind = "node" /\ w[p].exp = a
          \/ \E o \in 1..Len(T) : o \notin V /\ \E i \in 1..Len(T[o].kids) : T[o].kids[i] = a
    /\ \A a \in Bodied(T) : a \in V => a \in fr \/ \E p \in 1..Len(w) : w[p].kind = "rest" /\ w[p].exp = a

\* The children of node a are jumps to blocks of its function.
Jumped(T, G, h, cj, w, co, a) ==
    \A i \in 1..2 : /\ h[a].kids[i] \in (Len(T) + 1)..Len(h)
                    /\ \E x : /\ Lists(T, cj, w, co, G[a], x)
                              /\ x.name = h[h[a].kids[i]].name /\ x.slot = <<>>

\* They will be.
Waiting(w, a) == \E p \in 1..Len(w) : w[p].kind = "branch" /\ w[p].exp = a

\* An if that was visited jumps or waits for its branches, which are still in it.
Ifs(T, G, h, cj, w, co, V) ==
    \A a \in 1..Len(T) : T[a].tag = "If" =>
        /\ a \in V => Jumped(T, G, h, cj, w, co, a) \/ Waiting(w, a)
        /\ Waiting(w, a) => \A i \in 1..2 : h[a].kids[i] \in 1..Len(T)

\* The node on top was visited: its children and its closures took its place.
Visited(h, w, w2, n, m, e, l) ==
    /\ Pushed(h, w, w2, n, m, e, l)
    /\ \A i \in 1..Len(h[e].kids) : \E t \in (n + 1)..m : w2[t].kind = "node" /\ w2[t].link.kid = i
    /\ h[e].tag \in {"Fun", "Join"} => \E t \in (n + 1)..m : w2[t].kind = "rest"
    /\ h[e].tag = "If" => \E t \in (n + 1)..m : w2[t].kind = "branch"
    /\ IF h[e].tag = "Fun"
       THEN m = n + 4 /\ w2[n + 4].kind = "node" /\ w2[n + 4].link.kid = 1
            /\ \A t \in (n + 1)..m : w2[t].kind = "collect" <=> t = n + 3
       ELSE \A t \in (n + 1)..m : w2[t].kind # "collect"

LEMMA VisitedStaged ==
  ASSUME NEW T, NEW G, NEW h, NEW fr, NEW w, NEW w2, NEW V, NEW n, NEW m, NEW e, NEW l,
         Placed(T, G), Shaped(h), Intact(T, h, fr, V), Staged(T, G, fr, w, V), Visited(h, w, w2, n, m, e, l),
         e \notin V
  PROVE  Staged(T, G, fr, w2, V \cup {e})
<1>1. /\ n \in Nat /\ m \in Nat /\ n <= m /\ Len(w) = n + 1 /\ Len(w2) = m
      /\ w[n + 1].kind = "node" /\ w[n + 1].exp = e
      /\ \A t \in 1..n : w2[t] = w[t]
      /\ \A t \in (n + 1)..m : Spawned(h, e, l, w2[t])
      /\ \A t, u \in (n + 1)..m :
            w2[t].kind = "node" /\ w2[u].kind = "node" /\ w2[t].link.kid = w2[u].link.kid => t = u
  BY DEF Visited, Pushed
<1>2. /\ \A i \in 1..Len(h[e].kids) : \E t \in (n + 1)..m : w2[t].kind = "node" /\ w2[t].link.kid = i
      /\ h[e].tag \in {"Fun", "Join"} => \E t \in (n + 1)..m : w2[t].kind = "rest"
      /\ h[e].tag = "Fun" => /\ m = n + 4 /\ w2[n + 4].kind = "node" /\ w2[n + 4].link.kid = 1
                             /\ \A t \in (n + 1)..m : w2[t].kind = "collect" <=> t = n + 3
      /\ h[e].tag # "Fun" => \A t \in (n + 1)..m : w2[t].kind # "collect"
  BY DEF Visited
<1>3. PICK N : N = Len(T)
  OBVIOUS
<1>4. e \in 1..N /\ Within(w, n + 1, G[e])
  <2>1. n + 1 \in 1..Len(w)
    BY <1>1
  <2>. QED  BY <1>1, <1>3, <2>1 DEF Staged
<1>5. h[e].tag = T[e].tag /\ Len(h[e].kids) = Len(T[e].kids)
  BY <1>3, <1>4, IntactNode DEF Placed
<1>6. \A i \in 1..Len(h[e].kids) : h[e].kids[i] = T[e].kids[i] /\ T[e].kids[i] \in 1..N /\ G[T[e].kids[i]] = HomeOf(T, G, e, i)
  <2>1. \A i \in 1..Len(T[e].kids) : h[e].kids[i] = T[e].kids[i]
    BY <1>3, <1>4 DEF Intact
  <2>2. N \in Nat
    BY <1>3, LenProperties DEF Placed, Shaped
  <2>3. \A i \in 1..Len(T[e].kids) : T[e].kids[i] \in 1..(e - 1) /\ G[T[e].kids[i]] = HomeOf(T, G, e, i)
    BY <1>3, <1>4 DEF Placed
  <2>4. \A x \in 1..(e - 1) : x \in 1..N
    BY <1>4, <2>2
  <2>. QED  BY <1>5, <2>1, <2>3, <2>4
<1>7. \A t : t \in 1..m <=> t \in 1..n \/ t \in (n + 1)..m
  BY <1>1
\* Everything pushed is in the function of e, but for its body if it is a function.
<1>8. ASSUME NEW t \in (n + 1)..m
      PROVE  /\ w2[t].exp \in 1..N
             /\ G[w2[t].exp] = IF h[e].tag = "Fun" /\ t = n + 4 THEN e ELSE G[e]
  <2>1. Spawned(h, e, l, w2[t])
    BY <1>1
  <2>2. CASE w2[t].kind = "node"
    <3>1. PICK i \in 1..Len(h[e].kids) : i = w2[t].link.kid /\ w2[t].exp = h[e].kids[i]
      BY <2>1, <2>2 DEF Spawned
    <3>2. h[e].tag = "Fun" => n + 4 \in (n + 1)..m /\ w2[n + 4].kind = "node" /\ w2[n + 4].link.kid = 1
      BY <1>1, <1>2
    <3>3. h[e].tag = "Fun" => (i = 1 <=> t = n + 4)
      BY <1>1, <2>2, <3>1, <3>2
    <3>4. w2[t].exp = T[e].kids[i] /\ w2[t].exp \in 1..N /\ G[w2[t].exp] = HomeOf(T, G, e, i)
      BY <1>6, <3>1
    <3>5. HomeOf(T, G, e, i) = IF h[e].tag = "Fun" /\ i = 1 THEN e ELSE G[e]
      BY <1>5 DEF HomeOf
    <3>. QED  BY <3>3, <3>4, <3>5
  <2>3. CASE w2[t].kind # "node"
    <3>1. w2[t].exp = e
      BY <2>1, <2>3 DEF Spawned
    <3>2. h[e].tag = "Fun" => t # n + 4
      BY <1>2, <2>3
    <3>. QED  BY <1>4, <3>1, <3>2
  <2>. QED  BY <2>2, <2>3
<1>9. ASSUME NEW t \in (n + 1)..m, ~(h[e].tag = "Fun" /\ t = n + 4)
      PROVE  Within(w2, t, G[e])
  <2>1. Within(w2, n + 1, G[e])
    <3>1. n + 1 \in Nat /\ \A q \in 1..((n + 1) - 1) : w2[q] = w[q]
      BY <1>1
    <3>. QED  BY ONLY <1>4, <3>1, WithinBelow
  <2>2. n + 1 \in Nat \ {0} /\ t \in Nat /\ n + 1 <= t /\ \A s \in (n + 1)..(t - 1) : s \in (n + 1)..m /\ s < t
    BY <1>1
  <2>3. \A s \in (n + 1)..(t - 1) : w2[s].kind # "collect"
    <3>1. CASE h[e].tag = "Fun"
      <4>1. t <= n + 3
        BY <1>1, <1>2, <1>9, <3>1
      <4>. QED  BY <1>1, <1>2, <2>2, <3>1, <4>1
    <3>2. CASE h[e].tag # "Fun"
      BY <1>2, <2>2, <3>2
    <3>. QED  BY <3>1, <3>2
  <2>. QED  BY ONLY <2>1, <2>2, <2>3, WithinSkip
<1>10. h[e].tag = "Fun" => Within(w2, n + 4, e)
  <2>. SUFFICES ASSUME h[e].tag = "Fun" PROVE Within(w2, n + 4, e)
    OBVIOUS
  <2>1. n + 3 \in (n + 1)..m /\ n + 3 \in Nat \ {0} /\ n + 4 = (n + 3) + 1
    BY <1>1, <1>2
  <2>2. w2[n + 3].kind = "collect" /\ Spawned(h, e, l, w2[n + 3])
    BY <1>1, <1>2, <2>1
  <2>3. w2[n + 3].exp = e
    BY <2>2 DEF Spawned
  <2>4. Within(w2, (n + 3) + 1, e) <=> e = w2[n + 3].exp
    BY ONLY <2>1, <2>2, WithinTask
  <2>. QED  BY <2>1, <2>3, <2>4
<1>11. ASSUME NEW p \in 1..m
       PROVE  w2[p].exp \in 1..N /\ Within(w2, p, G[w2[p].exp])
  <2>1. CASE p \in 1..n
    <3>1. w[p].exp \in 1..N /\ Within(w, p, G[w[p].exp]) /\ w2[p] = w[p]
      BY <1>1, <1>3, <2>1 DEF Staged
    <3>2. p \in Nat /\ \A q \in 1..(p - 1) : w2[q] = w[q]
      BY <1>1, <2>1
    <3>3. Within(w2, p, G[w[p].exp])
      BY ONLY <3>1, <3>2, WithinBelow
    <3>. QED  BY <3>1, <3>3
  <2>2. CASE p \in (n + 1)..m
    BY <1>8, <1>9, <1>10, <2>2
  <2>. QED  BY <1>7, <2>1, <2>2
<1>12. ASSUME NEW a \in 1..N, a \notin V \cup {e}
       PROVE  \/ \E p \in 1..m : w2[p].kind = "node" /\ w2[p].exp = a
              \/ \E o \in 1..N : o \notin V \cup {e} /\ \E i \in 1..Len(T[o].kids) : T[o].kids[i] = a
  <2>1. CASE \E p \in 1..Len(w) : w[p].kind = "node" /\ w[p].exp = a
    <3>1. PICK p \in 1..Len(w) : w[p].kind = "node" /\ w[p].exp = a
      BY <2>1
    <3>2. p \in 1..n /\ p \in 1..m
      BY <1>1, <1>12, <3>1
    <3>. QED  BY <1>1, <3>1, <3>2
  <2>2. CASE \E o \in 1..N : o \notin V /\ \E i \in 1..Len(T[o].kids) : T[o].kids[i] = a
    <3>1. PICK o \in 1..N : o \notin V /\ \E i \in 1..Len(T[o].kids) : T[o].kids[i] = a
      BY <2>2
    <3>2. CASE o = e
      <4>1. PICK i \in 1..Len(T[e].kids) : T[e].kids[i] = a
        BY <3>1, <3>2
      <4>2. i \in 1..Len(h[e].kids) /\ h[e].kids[i] = a
        BY <1>5, <1>6, <4>1
      <4>3. PICK t \in (n + 1)..m : w2[t].kind = "node" /\ w2[t].link.kid = i
        BY <1>2, <4>2
      <4>4. w2[t].exp = a
        BY <1>1, <4>2, <4>3 DEF Spawned
      <4>. QED  BY <1>7, <4>3, <4>4
    <3>3. CASE o # e
      BY <3>1, <3>3
    <3>. QED  BY <3>2, <3>3
  <2>3. a \notin V
    BY <1>12
  <2>. QED  BY <1>3, <2>1, <2>2, <2>3 DEF Staged
<1>13. ASSUME NEW a \in Bodied(T), a \in V \cup {e}
       PROVE  a \in fr \/ \E p \in 1..m : w2[p].kind = "rest" /\ w2[p].exp = a
  <2>1. CASE a = e
    <3>1. h[e].tag \in {"Fun", "Join"}
      BY <1>5, <2>1 DEF Bodied
    <3>2. PICK t \in (n + 1)..m : w2[t].kind = "rest"
      BY <1>2, <3>1
    <3>3. w2[t].exp = e
      BY <1>1, <3>2 DEF Spawned
    <3>. QED  BY <1>7, <2>1, <3>2, <3>3
  <2>2. CASE a \in V
    <3>1. a \in fr \/ \E p \in 1..Len(w) : w[p].kind = "rest" /\ w[p].exp = a
      BY <2>2 DEF Staged
    <3>2. \A p \in 1..Len(w) : w[p].kind = "rest" => p \in 1..n /\ p \in 1..m
      BY <1>1
    <3>. QED  BY <1>1, <3>1, <3>2
  <2>. QED  BY <1>13, <2>1, <2>2
<1>. QED  BY <1>1, <1>3, <1>11, <1>12, <1>13 DEF Staged

\* A closure ran.
LEMMA PoppedStaged ==
  ASSUME NEW T, NEW G, NEW fr, NEW fr2, NEW w, NEW w2, NEW V, NEW n, Popped(w, w2, n), Staged(T, G, fr, w, V),
         w[n + 1].kind # "node", \A x : x \in fr => x \in fr2, w[n + 1].kind = "rest" => w[n + 1].exp \in fr2
  PROVE  Staged(T, G, fr2, w2, V)
<1>1. n \in Nat /\ Len(w) = n + 1 /\ Len(w2) = n /\ \A i \in 1..n : w2[i] = w[i]
  BY DEF Popped
<1>2. \A p : p \in 1..Len(w) <=> p \in 1..n \/ p = n + 1
  BY <1>1
<1>3. ASSUME NEW p \in 1..n
      PROVE  w2[p].exp \in 1..Len(T) /\ Within(w2, p, G[w2[p].exp])
  <2>1. w[p].exp \in 1..Len(T) /\ Within(w, p, G[w[p].exp]) /\ w2[p] = w[p]
    BY <1>1, <1>2 DEF Staged
  <2>2. p \in Nat /\ \A q \in 1..(p - 1) : w2[q] = w[q]
    BY <1>1
  <2>3. Within(w2, p, G[w[p].exp])
    BY ONLY <2>1, <2>2, WithinBelow
  <2>. QED  BY <2>1, <2>3
<1>4. ASSUME NEW a \in 1..Len(T), a \notin V
      PROVE  \/ \E p \in 1..n : w2[p].kind = "node" /\ w2[p].exp = a
             \/ \E o \in 1..Len(T) : o \notin V /\ \E i \in 1..Len(T[o].kids) : T[o].kids[i] = a
  <2>1. \/ \E p \in 1..Len(w) : w[p].kind = "node" /\ w[p].exp = a
        \/ \E o \in 1..Len(T) : o \notin V /\ \E i \in 1..Len(T[o].kids) : T[o].kids[i] = a
    BY <1>4 DEF Staged
  <2>. QED  BY <1>1, <1>2, <2>1
<1>5. ASSUME NEW a \in Bodied(T), a \in V
      PROVE  a \in fr2 \/ \E p \in 1..n : w2[p].kind = "rest" /\ w2[p].exp = a
  <2>1. a \in fr \/ \E p \in 1..Len(w) : w[p].kind = "rest" /\ w[p].exp = a
    BY <1>5 DEF Staged
  <2>. QED  BY <1>1, <1>2, <2>1
<1>. QED  BY <1>1, <1>3, <1>4, <1>5 DEF Staged

\* Links of an if stay: jumps are the jumps they were, and a branch is replaced by another.
KidsStay(T, h, h2, a) ==
    \A i \in 1..2 :
        /\ h[a].kids[i] \in (Len(T) + 1)..Len(h) =>
              /\ h2[a].kids[i] = h[a].kids[i] /\ h2[a].kids[i] \in (Len(T) + 1)..Len(h2)
              /\ h2[h[a].kids[i]].name = h[h[a].kids[i]].name
        /\ h[a].kids[i] \in 1..Len(T) => h2[a].kids[i] \in 1..Len(T)

TaskStays(w, w2, a) == Waiting(w2, a) <=> Waiting(w, a)

\* All but node b are as they were, and b is known.
IfsKept(T, G, h, h2, cj2, w, w2, co2, V, V2, b) ==
    /\ \A a \in V2 : a \in V \/ a = b
    /\ \A a \in 1..Len(T) : T[a].tag = "If" /\ a # b => KidsStay(T, h, h2, a) /\ TaskStays(w, w2, a)
    /\ b \in 1..Len(T) /\ T[b].tag = "If" =>
          /\ Jumped(T, G, h2, cj2, w2, co2, b) \/ Waiting(w2, b)
          /\ Waiting(w2, b) => \A i \in 1..2 : h2[b].kids[i] \in 1..Len(T)

LEMMA IfsStay ==
  ASSUME NEW T, NEW G, NEW h, NEW h2, NEW cj, NEW cj2, NEW w, NEW w2, NEW co, NEW co2, NEW V, NEW g, NEW New,
         Placed(T, G), Ifs(T, G, h, cj, w, co, V), More(T, cj, w, co, cj2, w2, co2, g, New),
         NEW V2, NEW b, IfsKept(T, G, h, h2, cj2, w, w2, co2, V, V2, b)
  PROVE  Ifs(T, G, h2, cj2, w2, co2, V2)
<1>. SUFFICES ASSUME NEW a \in 1..Len(T), T[a].tag = "If", a # b
              PROVE  /\ a \in V => Jumped(T, G, h2, cj2, w2, co2, a) \/ Waiting(w2, a)
                     /\ Waiting(w2, a) => \A i \in 1..2 : h2[a].kids[i] \in 1..Len(T)
  BY DEF Ifs, IfsKept
<1>1. KidsStay(T, h, h2, a) /\ TaskStays(w, w2, a)
  BY DEF IfsKept
<1>2. Waiting(w2, a) => \A i \in 1..2 : h2[a].kids[i] \in 1..Len(T)
  BY <1>1 DEF Ifs, KidsStay, TaskStays
<1>3. CASE Waiting(w, a)
  BY <1>1, <1>2, <1>3 DEF TaskStays
<1>4. CASE Jumped(T, G, h, cj, w, co, a)
  <2>1. \A x : Lists(T, cj, w, co, G[a], x) => Lists(T, cj2, w2, co2, G[a], x)
    BY DEF More, Placed
  <2>2. ASSUME NEW i \in 1..2
        PROVE  /\ h2[a].kids[i] \in (Len(T) + 1)..Len(h2)
               /\ \E x : /\ Lists(T, cj2, w2, co2, G[a], x)
                         /\ x.name = h2[h2[a].kids[i]].name /\ x.slot = <<>>
    <3>1. h[a].kids[i] \in (Len(T) + 1)..Len(h)
      BY <1>4 DEF Jumped
    <3>2. PICK x : Lists(T, cj, w, co, G[a], x) /\ x.name = h[h[a].kids[i]].name /\ x.slot = <<>>
      BY <1>4 DEF Jumped
    <3>3. /\ h2[a].kids[i] = h[a].kids[i] /\ h2[a].kids[i] \in (Len(T) + 1)..Len(h2)
          /\ h2[h[a].kids[i]].name = h[h[a].kids[i]].name
      BY <1>1, <3>1 DEF KidsStay
    <3>4. Lists(T, cj2, w2, co2, G[a], x) /\ x.name = h2[h2[a].kids[i]].name /\ x.slot = <<>>
      BY <2>1, <3>2, <3>3
    <3>. QED  BY <3>3, <3>4
  <2>3. Jumped(T, G, h2, cj2, w2, co2, a)
    BY <2>2 DEF Jumped
  <2>. QED  BY <1>2, <2>3
<1>. QED  BY <1>2, <1>3, <1>4 DEF Ifs

-----------------------------------------------------------------------------
(***************************************************************************)
(* Everything that is known while the term is walked.                      *)
(***************************************************************************)
Layer(T, G, h, fr, r, cj, w, co, ctr, V) ==
    /\ Shaped(h) /\ LinksOwn(h, fr, r) /\ Seen(h, fr, r, w, V) /\ ctr \in Nat
    /\ Intact(T, h, fr, V) /\ Descends(T, G, h, fr) /\ Staged(T, G, fr, w, V)
    /\ Ifs(T, G, h, cj, w, co, V) /\ Blocks(T, G, h, fr, cj, w, co, ctr) /\ Colls(T, G, h, fr, co)

\* The joins that are set aside when a node is visited.
SetAside(h, cj, cj2, w2, n, e) ==
    IF h[e].tag = "Fun" THEN cj2 = <<>> /\ w2[n + 3].joins = cj ELSE cj2 = cj

LEMMA VisitedMore ==
  ASSUME NEW T, NEW h, NEW cj, NEW cj2, NEW w, NEW w2, NEW co, NEW n, NEW m, NEW e, NEW l,
         Visited(h, w, w2, n, m, e, l), SetAside(h, cj, cj2, w2, n, e)
  PROVE  More(T, cj, w, co, cj2, w2, co, Null, {})
<1>1. /\ n \in Nat /\ m \in Nat /\ n <= m /\ Len(w) = n + 1 /\ Len(w2) = m
      /\ w[n + 1].kind # "collect" /\ \A t \in 1..n : w2[t] = w[t]
  <2>1. /\ n \in Nat /\ m \in Nat /\ n <= m /\ Len(w) = n + 1 /\ Len(w2) = m
        /\ w[n + 1].kind = "node" /\ \A t \in 1..n : w2[t] = w[t]
    BY DEF Visited, Pushed
  <2>. QED  BY <2>1
<1>2. CASE h[e].tag = "Fun"
  <2>1. /\ cj2 = <<>> /\ w2[n + 3].joins = cj /\ Len(w2) = n + 4
        /\ \A t \in (n + 1)..(n + 4) : w2[t].kind = "collect" <=> t = n + 3
    BY <1>1, <1>2 DEF SetAside, Visited
  <2>. QED  BY ONLY <1>1, <2>1, SavedLists
<1>3. CASE h[e].tag # "Fun"
  <2>1. cj2 = cj /\ \A t \in (n + 1)..m : w2[t].kind # "collect"
    BY <1>3 DEF SetAside, Visited
  <2>. QED  BY ONLY <1>1, <2>1, PlainLists
<1>. QED  BY <1>2, <1>3

\* A node was visited.
LEMMA VisitedLayer ==
  ASSUME NEW T, NEW G, NEW h, NEW fr, NEW r, NEW cj, NEW cj2, NEW w, NEW w2, NEW co, NEW ctr, NEW V,
         NEW n, NEW m, NEW e, NEW l, Placed(T, G), Layer(T, G, h, fr, r, cj, w, co, ctr, V),
         Visited(h, w, w2, n, m, e, l), SetAside(h, cj, cj2, w2, n, e)
  PROVE  Layer(T, G, h, fr, r, cj2, w2, co, ctr, V \cup {e})
<1>1. /\ Shaped(h) /\ LinksOwn(h, fr, r) /\ Seen(h, fr, r, w, V) /\ ctr \in Nat
      /\ Intact(T, h, fr, V) /\ Descends(T, G, h, fr) /\ Staged(T, G, fr, w, V)
      /\ Ifs(T, G, h, cj, w, co, V) /\ Blocks(T, G, h, fr, cj, w, co, ctr) /\ Colls(T, G, h, fr, co)
  BY DEF Layer
<1>2. /\ n \in Nat /\ m \in Nat /\ n <= m /\ Len(w) = n + 1 /\ Len(w2) = m
      /\ w[n + 1].kind = "node" /\ w[n + 1].exp = e /\ \A t \in 1..n : w2[t] = w[t]
      /\ \A t \in (n + 1)..m : Spawned(h, e, l, w2[t])
      /\ h[e].tag = "If" => \E t \in (n + 1)..m : w2[t].kind = "branch"
  BY DEF Visited, Pushed
<1>3. e \notin V
  <2>1. e \in Live(h, fr) /\ e \notin V
    BY ONLY <1>1, <1>2, TopSeen
  <2>. QED  BY <2>1
<1>4. e \in 1..Len(T)
  <2>1. n + 1 \in 1..Len(w)
    BY <1>2
  <2>. QED  BY <1>1, <1>2, <2>1 DEF Staged
<1>5. Seen(h, fr, r, w2, V \cup {e})
  <2>1. Pushed(h, w, w2, n, m, e, l)
    BY DEF Visited
  <2>. QED  BY ONLY <1>1, <2>1, PushedSeen
<1>6. Intact(T, h, fr, V \cup {e})
  <2>1. \A a : a \notin V \cup {e} => a \notin V
    OBVIOUS
  <2>. QED  BY <1>1, <1>4, <2>1 DEF Intact
<1>7. Staged(T, G, fr, w2, V \cup {e})
  BY ONLY Placed(T, G), <1>1, <1>3, Visited(h, w, w2, n, m, e, l), VisitedStaged
<1>8. More(T, cj, w, co, cj2, w2, co, Null, {})
  BY VisitedMore
<1>9. Ifs(T, G, h, cj2, w2, co, V \cup {e})
  <2>1. ASSUME NEW a \in 1..Len(T), T[a].tag = "If", a # e
        PROVE  KidsStay(T, h, h, a) /\ TaskStays(w, w2, a)
    <3>1. ASSUME NEW p \in 1..Len(w), w[p].kind = "branch", w[p].exp = a
          PROVE  Waiting(w2, a)
      <4>1. p \in 1..n /\ p \in 1..Len(w2)
        BY <1>2, <3>1
      <4>. QED  BY <1>2, <3>1, <4>1 DEF Waiting
    <3>2. ASSUME NEW p \in 1..Len(w2), w2[p].kind = "branch", w2[p].exp = a
          PROVE  Waiting(w, a)
      <4>1. CASE p \in 1..n
        BY <1>2, <3>2, <4>1 DEF Waiting
      <4>2. CASE p \in (n + 1)..m
        BY <1>2, <2>1, <3>2, <4>2 DEF Spawned
      <4>. QED  BY <1>2, <4>1, <4>2
    <3>3. TaskStays(w, w2, a)
      BY <3>1, <3>2 DEF TaskStays, Waiting
    <3>. QED  BY <3>3 DEF KidsStay
  <2>2. ASSUME T[e].tag = "If"
        PROVE  Waiting(w2, e) /\ \A i \in 1..2 : h[e].kids[i] \in 1..Len(T)
    <3>1. h[e].tag = "If" /\ Len(h[e].kids) = Len(T[e].kids) /\ e \in 1..Len(h)
      BY <1>1, <1>4, <2>2, IntactNode DEF Placed
    <3>2. PICK t \in (n + 1)..m : w2[t].kind = "branch"
      BY <1>2, <3>1
    <3>3. t \in 1..Len(w2) /\ w2[t].exp = e
      <4>1. t \in 1..Len(w2)
        BY <1>2
      <4>2. Spawned(h, e, l, w2[t])
        BY <1>2
      <4>. QED  BY <3>2, <4>1, <4>2 DEF Spawned
    <3>4. Len(T[e].kids) = 2
      BY <1>1, <3>1, TwoKids
    <3>5. ASSUME NEW i \in 1..2
          PROVE  h[e].kids[i] \in 1..Len(T)
      <4>1. i \in 1..Len(T[e].kids)
        BY <3>4
      <4>2. h[e].kids[i] = T[e].kids[i] /\ T[e].kids[i] \in 1..(e - 1)
        BY <1>1, <1>3, <1>4, <4>1 DEF Intact, Placed
      <4>3. Len(T) \in Nat
        BY LenProperties DEF Placed, Shaped
      <4>. QED  BY <1>4, <4>2, <4>3
    <3>. QED  BY <3>2, <3>3, <3>5 DEF Waiting
  <2>3. IfsKept(T, G, h, h, cj2, w, w2, co, V, V \cup {e}, e)
    BY <2>1, <2>2 DEF IfsKept
  <2>4. Placed(T, G) /\ Ifs(T, G, h, cj, w, co, V)
    BY <1>1
  <2>. QED  BY ONLY <1>8, <2>3, <2>4, IfsStay
<1>10. Blocks(T, G, h, fr, cj2, w2, co, ctr)
  <2>1. Listable(T, G, h, fr, h, fr, ctr, ctr, Null, {}, {})
    BY <1>1 DEF Listable
  <2>2. Placed(T, G) /\ Blocks(T, G, h, fr, cj, w, co, ctr)
    BY <1>1
  <2>. QED  BY ONLY <1>8, <2>1, <2>2, MoreBlocks
<1>. QED  BY <1>1, <1>5, <1>6, <1>7, <1>9, <1>10 DEF Layer

-----------------------------------------------------------------------------
(***************************************************************************)
(* The closures.                                                           *)
(***************************************************************************)
\* A body that is moved out leaves the links of the ifs alone.
LEMMA BodyKidsStay ==
  ASSUME NEW T, NEW h, NEW h2, NEW fr, NEW V, NEW e, Shaped(T), Shaped(h), Intact(T, h, fr, V),
         e \in Bodied(T), BodyOut(h, h2, e), NEW a \in 1..Len(T), T[a].tag = "If"
  PROVE  KidsStay(T, h, h2, a)
<1>1. /\ Len(h2) = Len(h)
      /\ \A b \in 1..Len(h) : \A i \in 1..Len(h[b].kids) :
            h2[b].kids[i] = IF b = e /\ i = 1 THEN Null ELSE h[b].kids[i]
      /\ \A b \in 1..Len(h) : b # e => Same(h, h2, b)
  BY DEF BodyOut, Changed
<1>2. a # e /\ e \in 1..Len(T)
  BY DEF Bodied
<1>3. a \in 1..Len(h) /\ h[a].tag = "If"
  BY IntactNode
<1>4. \A i \in 1..2 : h2[a].kids[i] = h[a].kids[i]
  <2>1. Len(h[a].kids) = 2
    BY <1>3, TwoKids
  <2>. QED  BY <1>1, <1>2, <1>3, <2>1
<1>5. Len(T) \in Nat /\ Len(h) \in Nat
  BY LenProperties DEF Shaped
<1>6. \A b \in (Len(T) + 1)..Len(h) : b \in 1..Len(h) /\ b # e
  BY <1>2, <1>5
<1>7. \A b \in (Len(T) + 1)..Len(h) : h2[b].name = h[b].name
  BY <1>1, <1>6 DEF Same
<1>. QED  BY <1>1, <1>4, <1>7 DEF KidsStay

\* Other tasks stay when one is popped.
LEMMA PoppedStays ==
  ASSUME NEW w, NEW w2, NEW n, Popped(w, w2, n), NEW a, ~(w[n + 1].kind = "branch" /\ w[n + 1].exp = a)
  PROVE  TaskStays(w, w2, a)
<1>1. n \in Nat /\ Len(w) = n + 1 /\ Len(w2) = n /\ \A i \in 1..n : w2[i] = w[i]
  BY DEF Popped
<1>2. \A p : p \in 1..Len(w) <=> p \in 1..n \/ p = n + 1
  BY <1>1
<1>. QED  BY <1>1, <1>2 DEF TaskStays, Waiting

\* What is known of the node of a closure.
LEMMA ClosureNode ==
  ASSUME NEW T, NEW G, NEW h, NEW fr, NEW r, NEW cj, NEW w, NEW w2, NEW co, NEW ctr, NEW V, NEW n, NEW e,
         Placed(T, G), Layer(T, G, h, fr, r, cj, w, co, ctr, V), Popped(w, w2, n),
         w[n + 1].kind # "node", w[n + 1].exp = e
  PROVE  /\ n \in Nat /\ Len(w) = n + 1 /\ Len(w2) = n /\ \A i \in 1..n : w2[i] = w[i]
         /\ e \in 1..Len(T) /\ e \in V /\ e \in Live(h, fr) /\ e \in 1..Len(h) /\ e \notin fr /\ h[e].tag = T[e].tag
         /\ Within(w, n + 1, G[e]) /\ TaskOK(h, fr, r, V, w[n + 1])
         /\ T[e].tag \in {"Fun", "Join", "If"} => 1 \in 1..Len(h[e].kids) /\ 2 \in 1..Len(h[e].kids)
         /\ T[e].tag \in {"Fun", "Join"} => e \in Bodied(T)
<1>1. /\ Shaped(h) /\ Seen(h, fr, r, w, V) /\ Intact(T, h, fr, V) /\ Staged(T, G, fr, w, V)
  BY DEF Layer
<1>2. n \in Nat /\ Len(w) = n + 1 /\ Len(w2) = n /\ \A i \in 1..n : w2[i] = w[i]
  BY DEF Popped
<1>3. n + 1 \in 1..Len(w)
  BY <1>2
<1>4. TaskOK(h, fr, r, V, w[n + 1]) /\ e \in 1..Len(T) /\ Within(w, n + 1, G[e])
  BY <1>1, <1>3 DEF Seen, Staged
<1>5. e \in V /\ e \in Live(h, fr)
  BY <1>4 DEF TaskOK
<1>6. e \in 1..Len(h) /\ h[e].tag = T[e].tag /\ e \notin fr
  BY <1>1, <1>4, <1>5, IntactNode DEF Placed, Live
<1>7. T[e].tag \in {"Fun", "Join", "If"} => 1 \in 1..Len(h[e].kids) /\ 2 \in 1..Len(h[e].kids)
  BY <1>1, <1>6, TwoKids
<1>. QED  BY <1>2, <1>4, <1>5, <1>6, <1>7 DEF Bodied

\* A body that is going to be moved out.
LEMMA EndedNode ==
  ASSUME NEW T, NEW G, NEW h, NEW fr, NEW r, NEW cj, NEW w, NEW w2, NEW co, NEW ctr, NEW V, NEW n, NEW e,
         Placed(T, G), Layer(T, G, h, fr, r, cj, w, co, ctr, V), Popped(w, w2, n),
         Ends(w[n + 1]), w[n + 1].exp = e
  PROVE  /\ w[n + 1].kind = "collect" => T[e].tag = "Fun"
         /\ w[n + 1].kind = "block" => T[e].tag = "Join"
         /\ e \in Bodied(T) /\ ~Gone(h, fr, e)
         /\ h[e].name = T[e].name /\ h[e].params = T[e].params
         /\ h[e].kids[1] \in 1..Len(T) /\ G[h[e].kids[1]] = HomeOf(T, G, e, 1)
<1>1. /\ e \in 1..Len(T) /\ e \notin fr /\ h[e].tag = T[e].tag /\ TaskOK(h, fr, r, V, w[n + 1])
      /\ T[e].tag \in {"Fun", "Join", "If"} => 1 \in 1..Len(h[e].kids)
  <2>1. w[n + 1].kind # "node"
    BY DEF Ends
  <2>. QED  BY <2>1, ClosureNode
<1>2. /\ w[n + 1].kind = "collect" => h[e].tag = "Fun"
      /\ w[n + 1].kind = "block" => h[e].tag = "Join"
      /\ h[e].kids[1] # Null /\ h[e].tag \in {"Fun", "Join"}
  BY <1>1 DEF TaskOK, Ends
<1>3. e \in Bodied(T) /\ ~Gone(h, fr, e)
  BY <1>1, <1>2 DEF Bodied, Gone
<1>4. h[e].name = T[e].name /\ h[e].params = T[e].params
  BY <1>1, <1>3 DEF Layer, Intact
<1>5. h[e].kids[1] \in 1..(e - 1) /\ G[h[e].kids[1]] = HomeOf(T, G, e, 1)
  BY <1>1, <1>2 DEF Layer, Descends
<1>6. \A x \in 1..(e - 1) : x \in 1..Len(T)
  <2>1. Len(T) \in Nat
    BY LenProperties DEF Placed, Shaped
  <2>. QED  BY <1>1, <2>1
<1>. QED  BY <1>1, <1>2, <1>3, <1>4, <1>5, <1>6

\* The function of node e was collected.
CollectedOf(h, cj, co, co2, e) ==
    /\ Len(co) \in Nat /\ Len(co2) = Len(co) + 1 /\ \A i \in 1..Len(co) : co2[i] = co[i]
    /\ co2[Len(co) + 1].name = h[e].name /\ co2[Len(co) + 1].blocks = cj
    /\ co2[Len(co) + 1].entry.name.base = "entry" /\ co2[Len(co) + 1].entry.body = h[e].kids[1]

LEMMA CollectLayer ==
  ASSUME NEW T, NEW G, NEW h, NEW h2, NEW fr, NEW r, NEW cj, NEW sj, NEW w, NEW w2, NEW co, NEW co2, NEW ctr, NEW V,
         NEW n, NEW e, Placed(T, G), Named(T, G), Layer(T, G, h, fr, r, cj, w, co, ctr, V), Popped(w, w2, n),
         w[n + 1].kind = "collect", w[n + 1].exp = e, w[n + 1].joins = sj,
         BodyOut(h, h2, e), CollectedOf(h, cj, co, co2, e), Shaped(h2), LinksOwn(h2, fr, r)
  PROVE  Layer(T, G, h2, fr, r, sj, w2, co2, ctr + 1, V)
<1>1. /\ Shaped(h) /\ LinksOwn(h, fr, r) /\ Seen(h, fr, r, w, V) /\ ctr \in Nat
      /\ Intact(T, h, fr, V) /\ Descends(T, G, h, fr) /\ Staged(T, G, fr, w, V)
      /\ Ifs(T, G, h, cj, w, co, V) /\ Blocks(T, G, h, fr, cj, w, co, ctr) /\ Colls(T, G, h, fr, co)
  BY DEF Layer
<1>2. w[n + 1].kind # "node" /\ w[n + 1].kind # "rest" /\ w[n + 1].kind # "branch" /\ Ends(w[n + 1])
  BY DEF Ends
<1>3. /\ n \in Nat /\ Len(w) = n + 1 /\ Len(w2) = n /\ \A i \in 1..n : w2[i] = w[i]
      /\ e \in 1..Len(T) /\ e \in V
  BY ONLY Placed(T, G), Layer(T, G, h, fr, r, cj, w, co, ctr, V), Popped(w, w2, n), w[n + 1].exp = e, <1>2, ClosureNode
<1>4. /\ T[e].tag = "Fun" /\ e \in Bodied(T) /\ ~Gone(h, fr, e) /\ h[e].name = T[e].name
      /\ h[e].kids[1] \in 1..Len(T) /\ G[h[e].kids[1]] = HomeOf(T, G, e, 1)
  <2>1. w[n + 1].kind = "collect"
    OBVIOUS
  <2>. QED  BY ONLY Placed(T, G), Layer(T, G, h, fr, r, cj, w, co, ctr, V), Popped(w, w2, n), w[n + 1].exp = e,
               <1>2, <2>1, EndedNode
<1>5. e \in Funs(T) /\ G[h[e].kids[1]] = e /\ \A f \in Funs(T) : T[f].name = T[e].name => f = e
  <2>1. e \in Funs(T)
    BY <1>3, <1>4 DEF Funs
  <2>. QED  BY <1>4, <2>1 DEF HomeOf, Named
<1>6. Seen(h2, fr, r, w2, V)
  <2>1. Changed(h, h2, e, 1, Null)
    BY DEF BodyOut
  <2>. QED  BY ONLY <1>1, <1>2, <2>1, Popped(w, w2, n), w[n + 1].exp = e, EndedSeen
<1>7. /\ Intact(T, h2, fr, V) /\ Descends(T, G, h2, fr)
      /\ \A a \in Bodied(T) : Gone(h2, fr, a) <=> Gone(h, fr, a) \/ a = e
  BY ONLY <1>1, <1>3, <1>4, Placed(T, G), BodyOut(h, h2, e), BodyOutIntact
<1>8. Staged(T, G, fr, w2, V)
  <2>1. \A x : x \in fr => x \in fr
    OBVIOUS
  <2>2. w[n + 1].kind = "rest" => w[n + 1].exp \in fr
    BY <1>2
  <2>. QED  BY ONLY <1>1, <1>2, <2>1, <2>2, Popped(w, w2, n), PoppedStaged
<1>9. PICK k : k = Len(co)
  OBVIOUS
<1>10. /\ k \in Nat /\ Len(co) = k /\ Len(co2) = k + 1 /\ \A i \in 1..k : co2[i] = co[i]
       /\ co2[k + 1].name = T[e].name /\ co2[k + 1].blocks = cj
       /\ co2[k + 1].entry.name.base = "entry" /\ co2[k + 1].entry.body = h[e].kids[1]
  BY <1>4, <1>9 DEF CollectedOf
<1>11. More(T, cj, w, co, sj, w2, co2, Null, {})
  <2>1. w[n + 1].kind = "collect" /\ w[n + 1].exp = e /\ w[n + 1].joins = sj
    OBVIOUS
  <2>2. Collecting(T, cj, sj, w, w2, co, co2, n, k, e)
    BY <1>3, <1>5, <1>10, <2>1 DEF Collecting
  <2>. QED  BY ONLY <2>2, CollectLists
<1>12. Ifs(T, G, h2, sj, w2, co2, V)
  <2>1. ASSUME NEW a \in 1..Len(T), T[a].tag = "If"
        PROVE  KidsStay(T, h, h2, a) /\ TaskStays(w, w2, a)
    <3>1. KidsStay(T, h, h2, a)
      BY <1>1, <1>4, <2>1, BodyKidsStay DEF Placed
    <3>2. TaskStays(w, w2, a)
      BY <1>2, PoppedStays
    <3>. QED  BY <3>1, <3>2
  <2>2. Null \notin 1..Len(T)
    BY DEF Null
  <2>3. IfsKept(T, G, h, h2, sj, w, w2, co2, V, V, Null)
    BY <2>1, <2>2 DEF IfsKept
  <2>4. Placed(T, G) /\ Ifs(T, G, h, cj, w, co, V)
    BY <1>1
  <2>. QED  BY ONLY <1>11, <2>3, <2>4, IfsStay
<1>13. Blocks(T, G, h2, fr, sj, w2, co2, ctr + 1)
  <2>1. Listable(T, G, h, fr, h2, fr, ctr, ctr + 1, Null, {}, {e})
    BY <1>1, <1>4, <1>7 DEF Listable
  <2>2. Placed(T, G) /\ Blocks(T, G, h, fr, cj, w, co, ctr)
    BY <1>1
  <2>. QED  BY ONLY <1>11, <2>1, <2>2, MoreBlocks
<1>14. Colls(T, G, h2, fr, co2)
  <2>1. co2[k + 1].entry.body \in 1..Len(T) /\ G[co2[k + 1].entry.body] = e
    BY <1>4, <1>5, <1>10
  <2>. QED  BY ONLY <1>1, <1>4, <1>5, <1>7, <1>10, <2>1, Named(T, G), CollsMore
<1>15. ctr + 1 \in Nat
  BY <1>1
<1>. QED  BY <1>6, <1>7, <1>8, <1>12, <1>13, <1>14, <1>15 DEF Layer

\* The body of node e became a block.
BlockOfNode(h, cj, cj2, e) ==
    /\ Len(cj) \in Nat /\ Len(cj2) = Len(cj) + 1 /\ \A i \in 1..Len(cj) : cj2[i] = cj[i]
    /\ cj2[Len(cj) + 1].name = h[e].name /\ cj2[Len(cj) + 1].slot = h[e].params
    /\ cj2[Len(cj) + 1].body = h[e].kids[1]

LEMMA BlockLayer ==
  ASSUME NEW T, NEW G, NEW h, NEW h2, NEW fr, NEW r, NEW cj, NEW cj2, NEW w, NEW w2, NEW co, NEW ctr, NEW V,
         NEW n, NEW e, Placed(T, G), Named(T, G), Layer(T, G, h, fr, r, cj, w, co, ctr, V), Popped(w, w2, n),
         w[n + 1].kind = "block", w[n + 1].exp = e,
         BodyOut(h, h2, e), BlockOfNode(h, cj, cj2, e), Shaped(h2), LinksOwn(h2, fr, r)
  PROVE  Layer(T, G, h2, fr, r, cj2, w2, co, ctr, V)
<1>1. /\ Shaped(h) /\ LinksOwn(h, fr, r) /\ Seen(h, fr, r, w, V) /\ ctr \in Nat
      /\ Intact(T, h, fr, V) /\ Descends(T, G, h, fr) /\ Staged(T, G, fr, w, V)
      /\ Ifs(T, G, h, cj, w, co, V) /\ Blocks(T, G, h, fr, cj, w, co, ctr) /\ Colls(T, G, h, fr, co)
  BY DEF Layer
<1>2. /\ w[n + 1].kind # "node" /\ w[n + 1].kind # "rest" /\ w[n + 1].kind # "branch" /\ w[n + 1].kind # "collect"
      /\ Ends(w[n + 1])
  BY DEF Ends
<1>3. /\ n \in Nat /\ Len(w) = n + 1 /\ Len(w2) = n /\ \A i \in 1..n : w2[i] = w[i]
      /\ e \in 1..Len(T) /\ e \in V /\ Within(w, n + 1, G[e])
  BY ONLY Placed(T, G), Layer(T, G, h, fr, r, cj, w, co, ctr, V), Popped(w, w2, n), w[n + 1].exp = e, <1>2, ClosureNode
<1>4. /\ T[e].tag = "Join" /\ e \in Bodied(T) /\ ~Gone(h, fr, e) /\ h[e].name = T[e].name
      /\ h[e].params = T[e].params
      /\ h[e].kids[1] \in 1..Len(T) /\ G[h[e].kids[1]] = HomeOf(T, G, e, 1)
  <2>1. w[n + 1].kind = "block"
    OBVIOUS
  <2>. QED  BY ONLY Placed(T, G), Layer(T, G, h, fr, r, cj, w, co, ctr, V), Popped(w, w2, n), w[n + 1].exp = e,
               <1>2, <2>1, EndedNode
<1>5. G[h[e].kids[1]] = G[e]
  BY <1>4 DEF HomeOf
<1>6. Seen(h2, fr, r, w2, V)
  <2>1. Changed(h, h2, e, 1, Null)
    BY DEF BodyOut
  <2>. QED  BY ONLY <1>1, <1>2, <2>1, Popped(w, w2, n), w[n + 1].exp = e, EndedSeen
<1>7. /\ Intact(T, h2, fr, V) /\ Descends(T, G, h2, fr)
      /\ \A a \in Bodied(T) : Gone(h2, fr, a) <=> Gone(h, fr, a) \/ a = e
  BY ONLY <1>1, <1>3, <1>4, Placed(T, G), BodyOut(h, h2, e), BodyOutIntact
<1>8. Staged(T, G, fr, w2, V)
  <2>1. \A x : x \in fr => x \in fr
    OBVIOUS
  <2>2. w[n + 1].kind = "rest" => w[n + 1].exp \in fr
    BY <1>2
  <2>. QED  BY ONLY <1>1, <1>2, <2>1, <2>2, Popped(w, w2, n), PoppedStaged
<1>9. PICK k, b : k = Len(cj) /\ b = cj2[Len(cj) + 1]
  OBVIOUS
<1>10. /\ k \in Nat /\ 1 \in Nat /\ Len(cj) = k /\ Len(cj2) = k + 1 /\ \A i \in 1..k : cj2[i] = cj[i]
       /\ b = cj2[k + 1] /\ b.name = T[e].name /\ b.slot = T[e].params /\ b.body = h[e].kids[1]
  BY <1>4, <1>9 DEF BlockOfNode
<1>11. More(T, cj, w, co, cj2, w2, co, G[e], {b})
  <2>1. \A x : x \in {b} <=> \E i \in (k + 1)..(k + 1) : x = cj2[i]
    <3>1. \A i : i \in (k + 1)..(k + 1) <=> i = k + 1
      BY <1>10
    <3>. QED  BY <1>10, <3>1
  <2>2. Met(cj, cj2, w, w2, n, k, 1, G[e], {b})
    BY <1>2, <1>3, <1>10, <2>1 DEF Met
  <2>. QED  BY ONLY <2>2, MetLists
<1>12. Ifs(T, G, h2, cj2, w2, co, V)
  <2>1. ASSUME NEW a \in 1..Len(T), T[a].tag = "If"
        PROVE  KidsStay(T, h, h2, a) /\ TaskStays(w, w2, a)
    <3>1. KidsStay(T, h, h2, a)
      BY <1>1, <1>4, <2>1, BodyKidsStay DEF Placed
    <3>2. TaskStays(w, w2, a)
      BY <1>2, PoppedStays
    <3>. QED  BY <3>1, <3>2
  <2>2. Null \notin 1..Len(T)
    BY DEF Null
  <2>3. IfsKept(T, G, h, h2, cj2, w, w2, co, V, V, Null)
    BY <2>1, <2>2 DEF IfsKept
  <2>4. Placed(T, G) /\ Ifs(T, G, h, cj, w, co, V)
    BY <1>1
  <2>. QED  BY ONLY <1>11, <2>3, <2>4, IfsStay
<1>13. Blocks(T, G, h2, fr, cj2, w2, co, ctr)
  <2>1. Known(T, h2, fr, ctr, b.name)
    <3>1. Gone(h2, fr, e)
      BY <1>4, <1>7
    <3>. QED  BY <1>3, <1>4, <1>10, <3>1 DEF Known
  <2>2. ~Known(T, h, fr, ctr, b.name)
    <3>1. \A a \in 1..Len(T) : T[a].tag = "Join" /\ T[a].name = T[e].name => a = e
      BY <1>3, <1>4 DEF Named
    <3>2. \A c : T[e].name # ThenName(c) /\ T[e].name # ElseName(c)
      BY <1>3, <1>4, BlockNames DEF Named
    <3>. QED  BY <1>4, <1>10, <3>1, <3>2 DEF Known
  <2>3. Listable(T, G, h, fr, h2, fr, ctr, ctr, G[e], {b}, {e})
    BY <1>1, <1>4, <1>5, <1>7, <1>10, <2>1, <2>2 DEF Listable
  <2>4. Placed(T, G) /\ Blocks(T, G, h, fr, cj, w, co, ctr)
    BY <1>1
  <2>. QED  BY ONLY <1>11, <2>3, <2>4, MoreBlocks
<1>14. Colls(T, G, h2, fr, co)
  <2>1. \A a \in Bodied(T) : Gone(h, fr, a) => Gone(h2, fr, a)
    BY <1>7
  <2>. QED  BY ONLY <1>1, <2>1, CollsStay
<1>. QED  BY <1>1, <1>6, <1>7, <1>8, <1>12, <1>13, <1>14 DEF Layer

\* The branches of node e became blocks it jumps to.
BranchesOfNode(h, h2, cj, cj2, e, ctr) ==
    /\ JumpsIn(h, h2, e)
    /\ h2[Len(h) + 1].name = ThenName(ctr) /\ h2[Len(h) + 2].name = ElseName(ctr + 1)
    /\ Len(cj) \in Nat /\ Len(cj2) = Len(cj) + 2 /\ \A i \in 1..Len(cj) : cj2[i] = cj[i]
    /\ cj2[Len(cj) + 1].name = ThenName(ctr) /\ cj2[Len(cj) + 1].slot = <<>>
    /\ cj2[Len(cj) + 1].body = h[e].kids[1]
    /\ cj2[Len(cj) + 2].name = ElseName(ctr + 1) /\ cj2[Len(cj) + 2].slot = <<>>
    /\ cj2[Len(cj) + 2].body = h[e].kids[2]

\* Jumps leave the links of other ifs alone.
LEMMA JumpsKidsStay ==
  ASSUME NEW T, NEW h, NEW h2, NEW fr, NEW V, NEW e, Shaped(T), Shaped(h), Intact(T, h, fr, V),
         JumpsIn(h, h2, e), NEW a \in 1..Len(T), a # e
  PROVE  KidsStay(T, h, h2, a)
<1>1. /\ Len(h2) = Len(h) + 2 /\ \A b \in 1..Len(h) : b # e => h2[b].kids = h[b].kids
      /\ \A b \in 1..Len(h) : h2[b].name = h[b].name
  BY DEF JumpsIn, Branched, Same
<1>2. h2[a].kids = h[a].kids
  BY <1>1, IntactNode
<1>3. Len(T) \in Nat /\ Len(h) \in Nat
  BY LenProperties DEF Shaped
<1>4. \A b \in (Len(T) + 1)..Len(h) : b \in 1..Len(h) /\ b \in (Len(T) + 1)..Len(h2)
  BY <1>1, <1>3
<1>. QED  BY <1>1, <1>2, <1>4 DEF KidsStay

LEMMA BranchLayer ==
  ASSUME NEW T, NEW G, NEW h, NEW h2, NEW fr, NEW r, NEW cj, NEW cj2, NEW w, NEW w2, NEW co, NEW ctr, NEW V,
         NEW n, NEW e, Placed(T, G), Named(T, G), Layer(T, G, h, fr, r, cj, w, co, ctr, V), Popped(w, w2, n),
         w[n + 1].kind = "branch", w[n + 1].exp = e,
         BranchesOfNode(h, h2, cj, cj2, e, ctr), Shaped(h2), LinksOwn(h2, fr, r)
  PROVE  Layer(T, G, h2, fr, r, cj2, w2, co, ctr + 2, V)
<1>1. /\ Shaped(h) /\ LinksOwn(h, fr, r) /\ Seen(h, fr, r, w, V) /\ ctr \in Nat
      /\ Intact(T, h, fr, V) /\ Descends(T, G, h, fr) /\ Staged(T, G, fr, w, V)
      /\ Ifs(T, G, h, cj, w, co, V) /\ Blocks(T, G, h, fr, cj, w, co, ctr) /\ Colls(T, G, h, fr, co)
  BY DEF Layer
<1>2. w[n + 1].kind # "node" /\ w[n + 1].kind # "rest" /\ w[n + 1].kind # "collect" /\ w[n + 1].kind = "branch"
  OBVIOUS
<1>3. /\ n \in Nat /\ Len(w) = n + 1 /\ Len(w2) = n /\ \A i \in 1..n : w2[i] = w[i]
      /\ e \in 1..Len(T) /\ e \in V /\ e \in 1..Len(h) /\ h[e].tag = T[e].tag
      /\ Within(w, n + 1, G[e]) /\ TaskOK(h, fr, r, V, w[n + 1]) /\ e \notin fr
      /\ T[e].tag \in {"Fun", "Join", "If"} => 1 \in 1..Len(h[e].kids) /\ 2 \in 1..Len(h[e].kids)
  BY ONLY Placed(T, G), Layer(T, G, h, fr, r, cj, w, co, ctr, V), Popped(w, w2, n), w[n + 1].exp = e, <1>2, ClosureNode
<1>4. T[e].tag = "If" /\ h[e].kids[1] # Null /\ h[e].kids[2] # Null
  BY <1>2, <1>3 DEF TaskOK
<1>5. /\ h[e].kids[1] \in 1..Len(T) /\ G[h[e].kids[1]] = G[e]
      /\ h[e].kids[2] \in 1..Len(T) /\ G[h[e].kids[2]] = G[e]
  <2>1. Waiting(w, e)
    <3>1. n + 1 \in 1..Len(w)
      BY <1>3
    <3>. QED  BY <1>2, <3>1 DEF Waiting
  <2>2. 1 \in 1..2 /\ 2 \in 1..2
    OBVIOUS
  <2>3. h[e].kids[1] \in 1..Len(T) /\ h[e].kids[2] \in 1..Len(T)
    BY <1>1, <1>3, <1>4, <2>1, <2>2 DEF Ifs
  <2>4. Len(T) \in Nat
    BY LenProperties DEF Placed, Shaped
  <2>5. \A x \in 1..Len(T) : x \notin (Len(T) + 1)..Len(h)
    BY <2>4
  <2>6. ASSUME NEW i \in 1..Len(h[e].kids), h[e].kids[i] \in 1..Len(T), h[e].kids[i] # Null
        PROVE  G[h[e].kids[i]] = G[e]
    <3>1. G[h[e].kids[i]] = HomeOf(T, G, e, i)
      BY <1>1, <1>3, <2>5, <2>6 DEF Descends
    <3>. QED  BY <1>4, <3>1 DEF HomeOf
  <2>. QED  BY <1>3, <1>4, <2>3, <2>6
<1>6. PICK k, a, b, N, M : k = Len(cj) /\ a = cj2[Len(cj) + 1] /\ b = cj2[Len(cj) + 2] /\ N = Len(T) /\ M = Len(h)
  OBVIOUS
<1>7. /\ JumpsIn(h, h2, e) /\ h2[M + 1].name = a.name /\ h2[M + 2].name = b.name
      /\ k \in Nat /\ 2 \in Nat /\ Len(cj) = k /\ Len(cj2) = k + 2 /\ \A i \in 1..k : cj2[i] = cj[i]
      /\ a = cj2[k + 1] /\ a.name = ThenName(ctr) /\ a.slot = <<>> /\ a.body = h[e].kids[1]
      /\ b = cj2[k + 2] /\ b.name = ElseName(ctr + 1) /\ b.slot = <<>> /\ b.body = h[e].kids[2]
  BY <1>6 DEF BranchesOfNode
<1>8. Seen(h2, fr, r, w2, V)
  <2>1. Branched(h, h2, e)
    BY <1>7 DEF JumpsIn
  <2>2. fr \subseteq 1..Len(h)
    <3>1. \A x \in fr : x \in V /\ V \subseteq 1..Len(T)
      BY <1>1 DEF Intact
    <3>2. \A x \in 1..Len(T) : x \in 1..Len(h)
      BY <1>1, IntactNode DEF Placed
    <3>. QED  BY <3>1, <3>2
  <2>. QED  BY ONLY <1>1, <1>2, <2>1, <2>2, Popped(w, w2, n), w[n + 1].exp = e, BranchedSeen
<1>9. /\ Intact(T, h2, fr, V) /\ Descends(T, G, h2, fr)
      /\ \A x \in Bodied(T) : Gone(h2, fr, x) <=> Gone(h, fr, x)
  BY ONLY <1>1, <1>3, <1>4, <1>7, Placed(T, G), JumpsInIntact
<1>10. Staged(T, G, fr, w2, V)
  <2>1. \A x : x \in fr => x \in fr
    OBVIOUS
  <2>2. w[n + 1].kind = "rest" => w[n + 1].exp \in fr
    BY <1>2
  <2>. QED  BY ONLY <1>1, <1>2, <2>1, <2>2, Popped(w, w2, n), PoppedStaged
<1>11. More(T, cj, w, co, cj2, w2, co, G[e], {a, b})
  <2>1. \A x : x \in {a, b} <=> \E i \in (k + 1)..(k + 2) : x = cj2[i]
    <3>1. \A i : i \in (k + 1)..(k + 2) <=> i = k + 1 \/ i = k + 2
      BY <1>7
    <3>. QED  BY <1>7, <3>1
  <2>2. Met(cj, cj2, w, w2, n, k, 2, G[e], {a, b})
    BY <1>2, <1>3, <1>7, <2>1 DEF Met
  <2>. QED  BY ONLY <2>2, MetLists
<1>12. Ifs(T, G, h2, cj2, w2, co, V)
  <2>1. ASSUME NEW x \in 1..Len(T), x # e
        PROVE  KidsStay(T, h, h2, x) /\ TaskStays(w, w2, x)
    <3>1. KidsStay(T, h, h2, x)
      BY <1>1, <1>7, <2>1, JumpsKidsStay DEF Placed
    <3>2. TaskStays(w, w2, x)
      BY <2>1, PoppedStays
    <3>. QED  BY <3>1, <3>2
  <2>2. ~Waiting(w2, e)
    <3>. SUFFICES ASSUME NEW p \in 1..n, w2[p].kind = "branch", w2[p].exp = e PROVE FALSE
      BY <1>3 DEF Waiting
    <3>1. p \in 1..Len(w) /\ n + 1 \in 1..Len(w) /\ p # n + 1 /\ w[p] = w2[p]
      BY <1>3
    <3>2. Holding(w[p]) <=> Holding(w[n + 1])
      BY <3>1 DEF Holding
    <3>. QED  BY <1>1, <3>1, <3>2 DEF Seen
  <2>3. Jumped(T, G, h2, cj2, w2, co, e)
    <3>1. h2[e].kids[1] = M + 1 /\ h2[e].kids[2] = M + 2 /\ Len(h2) = M + 2
      BY <1>6, <1>7 DEF JumpsIn, Branched
    <3>2. N \in Nat /\ M \in Nat /\ N <= M
      <4>1. N \in Nat /\ M \in Nat
        BY <1>1, <1>6, LenProperties DEF Placed, Shaped
      <4>. QED  BY <1>1, <1>6, <4>1 DEF Intact
    <3>3. M + 1 \in (N + 1)..(M + 2) /\ M + 2 \in (N + 1)..(M + 2)
      BY <3>2
    <3>4. G[e] \in Funs(T)
      BY <1>3, <1>4 DEF Placed
    <3>5. Lists(T, cj2, w2, co, G[e], a) /\ Lists(T, cj2, w2, co, G[e], b)
      BY <1>11, <3>4 DEF More
    <3>6. \A i \in 1..2 : i = 1 \/ i = 2
      OBVIOUS
    <3>7. ASSUME NEW i \in 1..2
          PROVE  /\ h2[e].kids[i] \in (N + 1)..(M + 2)
                 /\ \E x : Lists(T, cj2, w2, co, G[e], x) /\ x.name = h2[h2[e].kids[i]].name /\ x.slot = <<>>
      <4>1. CASE i = 1
        BY <1>7, <3>1, <3>3, <3>5, <4>1
      <4>2. CASE i = 2
        BY <1>7, <3>1, <3>3, <3>5, <4>2
      <4>. QED  BY <3>6, <4>1, <4>2
    <3>. QED  BY <1>6, <3>1, <3>7 DEF Jumped
  <2>4. \A x \in V : x \in V \/ x = e
    OBVIOUS
  <2>5. IfsKept(T, G, h, h2, cj2, w, w2, co, V, V, e)
    BY <2>1, <2>2, <2>3, <2>4 DEF IfsKept
  <2>6. Placed(T, G) /\ Ifs(T, G, h, cj, w, co, V)
    BY <1>1
  <2>. QED  BY ONLY <1>11, <2>5, <2>6, IfsStay
<1>13. Blocks(T, G, h2, fr, cj2, w2, co, ctr + 2)
  <2>1. Known(T, h2, fr, ctr + 2, a.name) /\ Known(T, h2, fr, ctr + 2, b.name)
    <3>1. ctr \in 0..((ctr + 2) - 1) /\ ctr + 1 \in 0..((ctr + 2) - 1)
      BY <1>1
    <3>. QED  BY <1>7, <3>1 DEF Known
  <2>2. ASSUME ctr + 2 <= IntMax
        PROVE  ~Known(T, h, fr, ctr, a.name) /\ ~Known(T, h, fr, ctr, b.name)
    <3>1. \A c \in Nat : ThenName(c).base = "then" /\ ElseName(c).base = "else"
      BY BlockNames
    <3>2. ctr \in Nat /\ ctr + 1 \in Nat /\ ctr <= IntMax /\ ctr + 1 <= IntMax
      BY <1>1, <2>2 DEF IntMax
    <3>3. a.name.base = "then" /\ b.name.base = "else"
      BY <1>7, <3>1, <3>2
    <3>4. \A x \in 1..Len(T) : T[x].tag = "Join" => a.name # T[x].name /\ b.name # T[x].name
      BY <3>3 DEF Named
    <3>5. ASSUME NEW c \in 0..(ctr - 1)
          PROVE  /\ a.name # ThenName(c) /\ a.name # ElseName(c)
                 /\ b.name # ThenName(c) /\ b.name # ElseName(c)
      <4>1. c \in Nat /\ c <= IntMax /\ c # ctr /\ c # ctr + 1
        BY <1>1, <2>2 DEF IntMax
      <4>. QED  BY <1>7, <3>1, <3>2, <3>3, <4>1, BlockNames
    <3>. QED  BY <3>4, <3>5 DEF Known
  <2>3. a.name # b.name
    <3>1. a.name.base = "then" /\ b.name.base = "else"
      BY <1>7, BlockNames
    <3>. QED  BY <3>1
  <2>4. ctr + 2 \in Nat /\ ctr <= ctr + 2
    BY <1>1
  <2>5. Listable(T, G, h, fr, h2, fr, ctr, ctr + 2, G[e], {a, b}, {})
    <3>1. \A x \in {a, b} : /\ x.body \in 1..Len(T) /\ G[x.body] = G[e]
                           /\ Known(T, h2, fr, ctr + 2, x.name)
      BY <1>1, <1>5, <1>7, <1>9, <2>1
    <3>2. ctr + 2 <= IntMax => \A x \in {a, b} : ~Known(T, h, fr, ctr, x.name)
      BY ONLY <2>2
    <3>3. \A x, y \in {a, b} : x.name = y.name => x = y
      BY ONLY <2>3
    <3>4. \A x \in Bodied(T) : Gone(h2, fr, x) <=> Gone(h, fr, x) \/ x \in {}
      BY <1>9
    <3>. QED  BY ONLY <1>1, <2>4, <3>1, <3>2, <3>3, <3>4 DEF Listable
  <2>6. Placed(T, G) /\ Blocks(T, G, h, fr, cj, w, co, ctr)
    BY <1>1
  <2>. QED  BY ONLY <1>11, <2>5, <2>6, MoreBlocks
<1>14. Colls(T, G, h2, fr, co)
  <2>1. \A x \in Bodied(T) : Gone(h, fr, x) => Gone(h2, fr, x)
    BY <1>9
  <2>. QED  BY ONLY <1>1, <2>1, CollsStay
<1>15. ctr + 2 \in Nat
  BY <1>1
<1>. QED  BY <1>8, <1>9, <1>10, <1>12, <1>13, <1>14, <1>15 DEF Layer

LEMMA RestLayer ==
  ASSUME NEW T, NEW G, NEW h, NEW h2, NEW fr, NEW fr2, NEW r, NEW r2, NEW cj, NEW w, NEW w2, NEW co, NEW ctr, NEW V,
         NEW n, NEW e, NEW lo, NEW li, Placed(T, G), Layer(T, G, h, fr, r, cj, w, co, ctr, V), Popped(w, w2, n),
         w[n + 1].kind = "rest", w[n + 1].exp = e, w[n + 1].link.owner = lo, w[n + 1].link.kid = li,
         \A t \in 1..Len(w) : w[t].kind \in {"node", "rest", "collect", "block", "branch"},
         h[e].kids[1] = Null, lo # e, \A x : x \in fr2 <=> x \in fr \/ x = e,
         RestOut(h, h2, fr, r, r2, e, lo, li), Shaped(h2), LinksOwn(h2, fr2, r2)
  PROVE  Layer(T, G, h2, fr2, r2, cj, w2, co, ctr, V)
<1>1. /\ Shaped(h) /\ LinksOwn(h, fr, r) /\ Seen(h, fr, r, w, V) /\ ctr \in Nat
      /\ Intact(T, h, fr, V) /\ Descends(T, G, h, fr) /\ Staged(T, G, fr, w, V)
      /\ Ifs(T, G, h, cj, w, co, V) /\ Blocks(T, G, h, fr, cj, w, co, ctr) /\ Colls(T, G, h, fr, co)
  BY DEF Layer
<1>2. w[n + 1].kind # "node" /\ w[n + 1].kind = "rest" /\ w[n + 1].kind # "collect" /\ w[n + 1].kind # "branch"
  OBVIOUS
<1>3. /\ n \in Nat /\ Len(w) = n + 1 /\ Len(w2) = n /\ \A i \in 1..n : w2[i] = w[i]
      /\ e \in 1..Len(T) /\ e \in V /\ e \in 1..Len(h) /\ h[e].tag = T[e].tag /\ e \in Live(h, fr)
      /\ TaskOK(h, fr, r, V, w[n + 1])
      /\ T[e].tag \in {"Fun", "Join"} => e \in Bodied(T)
  BY ONLY Placed(T, G), Layer(T, G, h, fr, r, cj, w, co, ctr, V), Popped(w, w2, n), w[n + 1].exp = e, <1>2, ClosureNode
<1>4. /\ T[e].tag \in {"Fun", "Join"} /\ e \in Bodied(T) /\ h[e].kids[2] # Null
      /\ IsLink(h, fr, lo, li) /\ To(h, r, lo, li) = e /\ lo \in V \cup {Null}
  <2>1. Holding(w[n + 1])
    BY <1>2 DEF Holding
  <2>2. /\ IsLink(h, fr, lo, li) /\ To(h, r, lo, li) = e /\ lo \in V \cup {Null}
        /\ h[e].tag \in {"Fun", "Join"} /\ h[e].kids[2] # Null
    BY <1>2, <1>3, <2>1 DEF TaskOK
  <2>. QED  BY <1>3, <2>2
<1>5. Seen(h2, fr2, r2, w2, V)
  <2>1. Spliced(h, h2, fr, r, r2, e, lo, li)
    BY DEF RestOut
  <2>2. /\ w[n + 1].exp = e /\ w[n + 1].link.owner = lo /\ w[n + 1].link.kid = li
        /\ \A x : x \in fr2 <=> x \in fr \/ x = e
        /\ \A t \in 1..Len(w) : w[t].kind \in {"node", "rest", "collect", "block", "branch"}
    OBVIOUS
  <2>. QED  BY ONLY <1>1, <1>2, <2>1, <2>2, Popped(w, w2, n), SplicedSeen
<1>6. /\ Intact(T, h2, fr2, V) /\ Descends(T, G, h2, fr2)
      /\ \A x \in Bodied(T) : Gone(h2, fr2, x) <=> Gone(h, fr, x)
      /\ \A a \in 1..Len(T) : a \notin fr2 => \A i \in 1..Len(h[a].kids) :
               \/ h2[a].kids[i] = h[a].kids[i]
               \/ h[a].kids[i] = e /\ h2[a].kids[i] \in 1..(e - 1)
  <2>1. RestDue(T, h, fr, fr2, r, V, e, lo, li)
    BY <1>3, <1>4 DEF RestDue
  <2>. QED  BY ONLY <1>1, <2>1, Placed(T, G), RestOut(h, h2, fr, r, r2, e, lo, li), RestOutIntact
<1>7. Staged(T, G, fr2, w2, V)
  <2>1. \A x : x \in fr => x \in fr2
    OBVIOUS
  <2>2. w[n + 1].kind = "rest" => w[n + 1].exp \in fr2
    OBVIOUS
  <2>. QED  BY ONLY <1>1, <1>2, <2>1, <2>2, Popped(w, w2, n), PoppedStaged
<1>8. More(T, cj, w, co, cj, w2, co, Null, {})
  <2>1. n \in Nat /\ n <= n /\ \A t \in (n + 1)..n : w2[t].kind # "collect"
    BY <1>3
  <2>. QED  BY ONLY <1>2, <1>3, <2>1, PlainLists
<1>9. Ifs(T, G, h2, cj, w2, co, V)
  <2>1. ASSUME NEW a \in 1..Len(T), T[a].tag = "If"
        PROVE  KidsStay(T, h, h2, a) /\ TaskStays(w, w2, a)
    <3>1. a \notin fr2 /\ a \in 1..Len(h) /\ h[a].tag = "If"
      <4>1. a \notin Bodied(T)
        BY <2>1 DEF Bodied
      <4>2. a \notin fr /\ a # e
        BY <1>1, <1>4, <4>1 DEF Intact
      <4>. QED  BY <1>1, <2>1, <4>2, IntactNode DEF Placed
    <3>2. Len(h[a].kids) = 2
      BY <1>1, <3>1, TwoKids
    <3>3. Len(T) \in Nat /\ Len(h) \in Nat
      BY <1>1, LenProperties DEF Placed, Shaped
    <3>4. Len(h2) = Len(h) /\ \A b \in 1..Len(h) : h2[b].name = h[b].name
      BY DEF RestOut, Spliced, Same
    <3>5. /\ \A b \in (Len(T) + 1)..Len(h) : b \in 1..Len(h) /\ b # e
          /\ \A b \in 1..(e - 1) : b \in 1..Len(T)
      BY <1>3, <3>3
    <3>6. ASSUME NEW i \in 1..2
          PROVE  /\ h[a].kids[i] \in (Len(T) + 1)..Len(h) =>
                      /\ h2[a].kids[i] = h[a].kids[i] /\ h2[a].kids[i] \in (Len(T) + 1)..Len(h2)
                      /\ h2[h[a].kids[i]].name = h[h[a].kids[i]].name
                 /\ h[a].kids[i] \in 1..Len(T) => h2[a].kids[i] \in 1..Len(T)
      <4>1. i \in 1..Len(h[a].kids)
        BY <3>2
      <4>2. \/ h2[a].kids[i] = h[a].kids[i]
            \/ h[a].kids[i] = e /\ h2[a].kids[i] \in 1..(e - 1)
        BY <1>6, <3>1, <4>1
      <4>. QED  BY <3>4, <3>5, <4>2
    <3>7. KidsStay(T, h, h2, a)
      BY <3>6 DEF KidsStay
    <3>8. TaskStays(w, w2, a)
      BY <1>2, PoppedStays
    <3>. QED  BY <3>7, <3>8
  <2>2. Null \notin 1..Len(T)
    BY DEF Null
  <2>3. IfsKept(T, G, h, h2, cj, w, w2, co, V, V, Null)
    BY <2>1, <2>2 DEF IfsKept
  <2>4. Placed(T, G) /\ Ifs(T, G, h, cj, w, co, V)
    BY <1>1
  <2>. QED  BY ONLY <1>8, <2>3, <2>4, IfsStay
<1>10. Blocks(T, G, h2, fr2, cj, w2, co, ctr)
  <2>1. Listable(T, G, h, fr, h2, fr2, ctr, ctr, Null, {}, {})
    BY <1>1, <1>6 DEF Listable
  <2>2. Placed(T, G) /\ Blocks(T, G, h, fr, cj, w, co, ctr)
    BY <1>1
  <2>. QED  BY ONLY <1>8, <2>1, <2>2, MoreBlocks
<1>11. Colls(T, G, h2, fr2, co)
  <2>1. \A x \in Bodied(T) : Gone(h, fr, x) => Gone(h2, fr2, x)
    BY <1>6
  <2>. QED  BY ONLY <1>1, <2>1, CollsStay
<1>. QED  BY <1>1, <1>5, <1>6, <1>7, <1>9, <1>10, <1>11 DEF Layer

-----------------------------------------------------------------------------
(***************************************************************************)
(* What the steps do to the nodes.                                         *)
(***************************************************************************)
\* The body was moved out.
LEMMA EmptiedBody ==
  ASSUME NEW h, Shaped(h), NEW e \in 1..Len(h), 1 \in 1..Len(h[e].kids), NEW h2, h2 = Emptied(h, e)
  PROVE  BodyOut(h, h2, e)
<1>1. Changed(h, h2, e, 1, Null)
  BY EmptiedHeap DEF Made
<1>2. PICK m, p, none, k, z :
         /\ m = h[e] /\ none = <<>> /\ k = 1 /\ z = Null
         /\ p = [m EXCEPT !.name = NoName, !.params = none, !.kids[k] = z]
  OBVIOUS
<1>0. PICK ks : ks = [m.kids EXCEPT ![k] = z]
  OBVIOUS
<1>3. h2 = [h EXCEPT ![e] = p]
  BY <1>2, Zenon DEF Emptied
<1>4. m \in HeapNode
  BY <1>2, NodeOf
<1>5. p = [m EXCEPT !.name = NoName, !.params = none, !.kids = ks]
  BY ONLY <1>0, <1>2, <1>4, Zenon DEF HeapNode
<1>6. p.vals = m.vals
  BY ONLY <1>4, <1>5 DEF HeapNode
<1>7. h \in Seq(HeapNode)
  BY DEF Shaped
<1>8. \A a \in 1..Len(h) : h2[a] = IF a = e THEN p ELSE h[a]
  BY <1>3, <1>7
<1>9. \A a \in 1..Len(h) : h2[a].vals = h[a].vals /\ (a # e => Same(h, h2, a))
  BY <1>2, <1>6, <1>8 DEF Same
<1>. QED  BY <1>1, <1>9 DEF BodyOut

\* A child was assigned.
KidAssigned(h, h2, e, j, v) ==
    h \in Seq(HeapNode) /\ e \in 1..Len(h) /\ h2 = [h EXCEPT ![e].kids[j] = v]

LEMMA AssignedSame ==
  ASSUME NEW h, NEW h2, NEW e, NEW j, NEW v, KidAssigned(h, h2, e, j, v)
  PROVE  Len(h2) = Len(h) /\ \A a \in 1..Len(h) : Same(h, h2, a)
<1>0. h \in Seq(HeapNode) /\ e \in 1..Len(h) /\ h2 = [h EXCEPT ![e].kids[j] = v]
  BY DEF KidAssigned
<1>1. PICK m, p, ks : m = h[e] /\ p = [m EXCEPT !.kids[j] = v] /\ ks = [m.kids EXCEPT ![j] = v]
  OBVIOUS
<1>2. h2 = [h EXCEPT ![e] = p]
  BY <1>0, <1>1, Zenon
<1>3. m \in HeapNode
  BY <1>0, <1>1
<1>4. p = [m EXCEPT !.kids = ks]
  BY ONLY <1>1, <1>3, Zenon DEF HeapNode
<1>5. p.name = m.name /\ p.params = m.params /\ p.vals = m.vals
  BY ONLY <1>3, <1>4 DEF HeapNode
<1>6. Len(h2) = Len(h) /\ \A a \in 1..Len(h) : h2[a] = IF a = e THEN p ELSE h[a]
  BY <1>0, <1>2
<1>. QED  BY <1>1, <1>5, <1>6 DEF Same

\* The rest was moved to the link that owned the node.
LEMMA RestMovedOut ==
  ASSUME NEW h, Shaped(h), NEW fr, NEW r, NEW e \in 1..Len(h), 2 \in 1..Len(h[e].kids), NEW lo, NEW li, lo # e,
         IsLink(h, fr, lo, li), NEW g, NEW h2, NEW r2, NEW c, RestMoved(h, h2, r, r2, e, lo, li, c, g)
  PROVE  RestOut(h, h2, fr, r, r2, e, lo, li)
<1>1. Spliced(h, h2, fr, r, r2, e, lo, li)
  BY SplicedHeap
<1>2. /\ g = [h EXCEPT ![e].kids[2] = Null]
      /\ IF lo = Null THEN h2 = g ELSE h2 = [g EXCEPT ![lo].kids[li] = c]
  BY DEF RestMoved
<1>3. h \in Seq(HeapNode)
  BY DEF Shaped
<1>4. Len(g) = Len(h) /\ \A a \in 1..Len(h) : Same(h, g, a)
  <2>1. KidAssigned(h, g, e, 2, Null)
    BY <1>2, <1>3 DEF KidAssigned
  <2>. QED  BY <2>1, AssignedSame
<1>5. CASE lo = Null
  BY <1>1, <1>2, <1>4, <1>5 DEF RestOut
<1>6. CASE lo # Null
  <2>1. lo \in 1..Len(g)
    BY <1>4, <1>6 DEF IsLink, Live
  <2>2. Shaped(g)
    <3>1. PICK j, z : j = 2 /\ z = Null
      OBVIOUS
    <3>2. z \in Nat /\ j \in 1..Len(h[e].kids) /\ g = [h EXCEPT ![e].kids[j] = z]
      BY <1>2, <3>1 DEF Null
    <3>3. Made(h, g, e, j, z)
      BY <3>2, Assigned
    <3>. QED  BY <3>3 DEF Made
  <2>3. g \in Seq(HeapNode) /\ h2 = [g EXCEPT ![lo].kids[li] = c]
    BY <1>2, <1>6, <2>2 DEF Shaped
  <2>4. \A a \in 1..Len(g) : Same(g, h2, a)
    <3>1. KidAssigned(g, h2, lo, li, c)
      BY <2>1, <2>3 DEF KidAssigned
    <3>. QED  BY <3>1, AssignedSame
  <2>. QED  BY <1>1, <1>4, <2>4 DEF RestOut, Same
<1>. QED  BY <1>5, <1>6

\* The branches were moved out, and two jumps put in their place.
Branching(h, h2, e, x, y, p, q) ==
    /\ e \in 1..Len(h) /\ h[e].tag = "If" /\ x \in Ident /\ y \in Ident
    /\ p = JumpExp(x, <<>>) /\ q = JumpExp(y, <<>>)
    /\ h2 = [h EXCEPT ![e].kids = <<Len(h) + 1, Len(h) + 2>>] \o <<p, q>>

LEMMA BranchedJumps ==
  ASSUME NEW h, Shaped(h), NEW h2, NEW e, NEW x, NEW y, NEW p, NEW q, Branching(h, h2, e, x, y, p, q)
  PROVE  JumpsIn(h, h2, e) /\ h2[Len(h) + 1].name = x /\ h2[Len(h) + 2].name = y
<1>0. /\ e \in 1..Len(h) /\ h[e].tag = "If" /\ x \in Ident /\ y \in Ident
      /\ p = JumpExp(x, <<>>) /\ q = JumpExp(y, <<>>)
      /\ h2 = [h EXCEPT ![e].kids = <<Len(h) + 1, Len(h) + 2>>] \o <<p, q>>
  BY DEF Branching
<1>1. PICK n \in Nat : n = Len(h)
  BY LenProperties DEF Shaped
<1>2. PICK m, ks, o, g : /\ m = h[e] /\ ks = <<n + 1, n + 2>> /\ o = [m EXCEPT !.kids = ks]
                         /\ g = [h EXCEPT ![e] = o]
  OBVIOUS
<1>3. g = [h EXCEPT ![e].kids = <<n + 1, n + 2>>]
  BY <1>2, Zenon
<1>4. ks \in Seq(Nat)
  BY <1>1, <1>2
<1>5. m \in HeapNode /\ h \in Seq(HeapNode)
  BY <1>0, <1>2, NodeOf DEF Shaped
<1>6. o \in HeapNode
  BY ONLY <1>2, <1>4, <1>5, Zenon DEF HeapNode
<1>7. o.name = m.name /\ o.params = m.params /\ o.vals = m.vals
  BY ONLY <1>2, <1>5 DEF HeapNode
<1>8. g \in Seq(HeapNode) /\ Len(g) = n /\ \A a \in 1..n : g[a] = IF a = e THEN o ELSE h[a]
  <2>1. e \in 1..n /\ g = [h EXCEPT ![e] = o]
    BY <1>0, <1>1, <1>2
  <2>. QED  BY ONLY <1>1, <1>5, <1>6, <2>1
<1>9. /\ p \in HeapNode /\ p.kids = <<>> /\ p.tag = "Jump"
      /\ q \in HeapNode /\ q.kids = <<>> /\ q.tag = "Jump"
  BY <1>0, JumpNode
<1>10. p.name = x /\ p.vals = <<>> /\ q.name = y /\ q.vals = <<>>
  BY <1>0 DEF JumpExp, Node
<1>11. h2 = g \o <<p, q>>
  BY <1>0, <1>1, <1>3
<1>12. /\ Len(h2) = n + 2 /\ h2[n + 1] = p /\ h2[n + 2] = q
       /\ \A a \in 1..n : h2[a] = g[a]
  BY ONLY <1>8, <1>9, <1>11, PushTwo
<1>13. Branched(h, h2, e)
  BY ONLY <1>0, <1>9, Shaped(h), BranchedHeap
<1>14. \A a \in 1..n : Same(h, h2, a)
  BY <1>2, <1>7, <1>8, <1>12 DEF Same
<1>15. \A a \in (n + 1)..(n + 2) : a = n + 1 \/ a = n + 2
  OBVIOUS
<1>16. \A a \in (n + 1)..(n + 2) : h2[a].tag = "Jump" /\ h2[a].vals = <<>>
  BY ONLY <1>9, <1>10, <1>12, <1>15
<1>. QED  BY ONLY <1>1, <1>10, <1>12, <1>13, <1>14, <1>16 DEF JumpsIn

-----------------------------------------------------------------------------
(***************************************************************************)
(* What the visitors push.                                                 *)
(***************************************************************************)
Pushing(q, w2, n, e, l) ==
    /\ worklist # <<>> /\ Task.kind = "node" /\ e = Task.exp /\ l = Task.link
    /\ n = Len(worklist) - 1 /\ Spawn(heap, e, l, q) /\ w2 = Front(worklist) \o q

LEMMA PushedTasks ==
  ASSUME Inv, NEW q, NEW w2, NEW n, NEW e, NEW l, Pushing(q, w2, n, e, l)
  PROVE  /\ Pushed(heap, worklist, w2, n, n + Len(q), e, l) /\ n \in Nat /\ Len(q) \in Nat
         /\ \A i \in 1..Len(q) : w2[n + i] = q[i]
<1>0. /\ worklist # <<>> /\ Task.kind = "node" /\ e = Task.exp /\ l = Task.link
      /\ n = Len(worklist) - 1 /\ Spawn(heap, e, l, q) /\ w2 = Front(worklist) \o q
  BY DEF Pushing
<1>1. TypeInv /\ OwnInv /\ Spawn(heap, Task.exp, Task.link, q)
  BY <1>0 DEF Inv
<1>2. Pushed(heap, worklist, w2, Len(worklist) - 1, Len(worklist) - 1 + Len(q), Task.exp, Task.link)
  BY <1>0, <1>1, VisitInv
<1>3. Pushed(heap, worklist, w2, n, n + Len(q), e, l)
  BY <1>0, <1>2
<1>4. n \in Nat
  BY <1>3 DEF Pushed
<1>5. q \in Seq(TaskRec) /\ worklist \in Seq(TaskRec) /\ worklist # <<>>
  BY <1>0, <1>1 DEF Spawn, TypeInv
<1>6. \A i \in 1..Len(q) : (Front(worklist) \o q)[Len(worklist) - 1 + i] = q[i]
  BY ONLY <1>5, Replace
<1>. QED  BY <1>0, <1>3, <1>4, <1>5, <1>6, LenProperties

\* The node on top was visited.
VisitedNow(w2, cj2) ==
    \E n, m, e, l : Visited(heap, worklist, w2, n, m, e, l) /\ SetAside(heap, currentJoins, cj2, w2, n, e)

LEMMA FourVisited ==
  ASSUME Inv, worklist # <<>>, Task.kind = "node", NEW e, NEW l, e = Task.exp, l = Task.link,
         NEW a, NEW b, NEW c, NEW d, Spawn(heap, e, l, <<a, b, c, d>>), NEW w2, w2 = Front(worklist) \o <<a, b, c, d>>,
         a.kind = "rest", b.kind = "node", b.link.kid = 2, d.kind = "node", d.link.kid = 1,
         heap[e].tag \in {"Fun", "Join"}, NEW cj2,
         IF heap[e].tag = "Fun" THEN c.kind = "collect" /\ c.joins = currentJoins /\ cj2 = <<>>
         ELSE c.kind = "block" /\ cj2 = currentJoins
  PROVE  VisitedNow(w2, cj2)
<1>1. PICK q, n : q = <<a, b, c, d>> /\ n = Len(worklist) - 1
  OBVIOUS
<1>2. Len(q) = 4 /\ q[1] = a /\ q[2] = b /\ q[3] = c /\ q[4] = d
  BY <1>1
<1>3. /\ Pushed(heap, worklist, w2, n, n + Len(q), e, l) /\ n \in Nat
      /\ \A i \in 1..Len(q) : w2[n + i] = q[i]
  <2>1. Pushing(q, w2, n, e, l)
    BY <1>1 DEF Pushing
  <2>. QED  BY ONLY Inv, <2>1, PushedTasks
<1>4. PICK m : m = n + 4
  OBVIOUS
<1>5. /\ w2[n + 1] = a /\ w2[n + 2] = b /\ w2[n + 3] = c /\ w2[n + 4] = d /\ n \in Nat /\ m = n + 4
      /\ Pushed(heap, worklist, w2, n, m, e, l)
  <2>1. m = n + Len(q) /\ 1 \in 1..Len(q) /\ 2 \in 1..Len(q) /\ 3 \in 1..Len(q) /\ 4 \in 1..Len(q)
    BY <1>2, <1>4
  <2>. QED  BY ONLY <1>2, <1>3, <1>4, <2>1
<1>6. /\ n + 1 \in (n + 1)..m /\ n + 2 \in (n + 1)..m /\ n + 3 \in (n + 1)..m /\ n + 4 \in (n + 1)..m
      /\ \A t \in (n + 1)..m : t = n + 1 \/ t = n + 2 \/ t = n + 3 \/ t = n + 4
      /\ n + 1 # n + 3 /\ n + 2 # n + 3 /\ n + 4 # n + 3
  <2>1. n \in Nat /\ m = n + 4
    BY <1>5
  <2>. QED  BY ONLY <2>1
<1>7. Len(heap[e].kids) = 2
  <2>1. e \in 1..Len(heap) /\ Shaped(heap)
    BY TopTask DEF Inv, TypeInv
  <2>. QED  BY <2>1, TwoKids
<1>8. ASSUME NEW i \in 1..Len(heap[e].kids)
      PROVE  \E t \in (n + 1)..m : w2[t].kind = "node" /\ w2[t].link.kid = i
  <2>1. i = 1 \/ i = 2
    BY <1>7
  <2>. QED  BY <1>5, <1>6, <2>1
<1>9. \E t \in (n + 1)..m : w2[t].kind = "rest"
  BY <1>5, <1>6
<1>10. heap[e].tag = "Fun" => \A t \in (n + 1)..m : w2[t].kind = "collect" <=> t = n + 3
  BY <1>5, <1>6
<1>11. heap[e].tag # "Fun" => \A t \in (n + 1)..m : w2[t].kind # "collect"
  BY <1>5, <1>6
<1>12. Visited(heap, worklist, w2, n, m, e, l)
  <2>1. heap[e].tag \in {"Fun", "Join"} /\ d.kind = "node" /\ d.link.kid = 1
    OBVIOUS
  <2>. QED  BY ONLY <1>5, <1>8, <1>9, <1>10, <1>11, <2>1 DEF Visited
<1>13. SetAside(heap, currentJoins, cj2, w2, n, e)
  BY <1>5 DEF SetAside
<1>. QED  BY <1>12, <1>13 DEF VisitedNow

LEMMA VisitFunNow ==
  ASSUME Inv, VisitFun
  PROVE  VisitedNow(worklist', currentJoins')
<1>1. PICK e, l, w2, cj2, W0, C0 : e = Task.exp /\ l = Task.link /\ w2 = worklist' /\ cj2 = currentJoins'
                           /\ W0 = worklist /\ C0 = currentJoins
  OBVIOUS
<1>2. /\ status = "run" /\ worklist # <<>> /\ Task.kind = "node" /\ heap[e].tag = "Fun"
      /\ w2 = Front(worklist)
           \o <<RestTask(l, e), ChildTask(e, 2), CollectTask(e, currentJoins), ChildTask(e, 1)>>
      /\ cj2 = <<>>
  BY <1>1 DEF VisitFun, Visits, Takes
<1>3. /\ l \in LinkRec /\ e \in Nat /\ e \in 1..Len(heap) /\ currentJoins \in Seq(JoinRec)
      /\ 1 \in 1..Len(heap[e].kids) /\ 2 \in 1..Len(heap[e].kids) /\ Shaped(heap)
  <2>1. e \in 1..Len(heap) /\ e \in Nat /\ Task \in TaskRec
    BY <1>1, <1>2, TopTask DEF Inv
  <2>2. 1 \in 1..Len(heap[e].kids) /\ 2 \in 1..Len(heap[e].kids)
    BY <1>2, <2>1, TwoKids DEF Inv, TypeInv
  <2>3. l \in LinkRec
    BY <1>1, <1>2, <2>1 DEF TaskRec
  <2>. QED  BY <2>1, <2>2, <2>3 DEF Inv, TypeInv
<1>4. PICK a, b, c, d : /\ a = RestTask(l, e) /\ b = ChildTask(e, 2)
                        /\ c = CollectTask(e, currentJoins) /\ d = ChildTask(e, 1)
  OBVIOUS
<1>5. a \in TaskRec /\ a.kind = "rest" /\ a.exp = e /\ a.link = l
  BY ONLY <1>3, <1>4, RestType
<1>6. b \in TaskRec /\ b.kind = "node" /\ b.link.kid = 2 /\ Spawned(heap, e, l, b)
  BY ONLY <1>3, <1>4, ChildIs
<1>7. c \in TaskRec /\ c.kind = "collect" /\ c.exp = e /\ c.joins = currentJoins
  BY ONLY <1>3, <1>4, CollectType
<1>8. d \in TaskRec /\ d.kind = "node" /\ d.link.kid = 1 /\ Spawned(heap, e, l, d)
  BY ONLY <1>3, <1>4, ChildIs
<1>9. Spawn(heap, e, l, <<a, b, c, d>>)
  <2>1. Spawned(heap, e, l, a)
    BY ONLY <1>2, <1>5 DEF Spawned
  <2>2. Spawned(heap, e, l, c) /\ Ends(c)
    BY ONLY <1>2, <1>7 DEF Spawned, Ends
  <2>. QED  BY ONLY <1>5, <1>6, <1>7, <1>8, <2>1, <2>2, FourSpawn
<1>10. w2 = Front(worklist) \o <<a, b, c, d>>
  BY <1>2, <1>4
<1>11. /\ IF heap[e].tag = "Fun" THEN c.kind = "collect" /\ c.joins = currentJoins /\ cj2 = <<>>
          ELSE c.kind = "block" /\ cj2 = currentJoins
       /\ heap[e].tag \in {"Fun", "Join"} /\ e = Task.exp /\ l = Task.link
  BY <1>1, <1>2, <1>7
<1>12. VisitedNow(w2, cj2)
  BY ONLY Inv, <1>2, <1>5, <1>6, <1>8, <1>9, <1>10, <1>11, FourVisited
<1>. QED  BY <1>1, <1>12

LEMMA VisitJoinNow ==
  ASSUME Inv, VisitJoin
  PROVE  VisitedNow(worklist', currentJoins')
<1>1. PICK e, l, w2, cj2, W0, C0 : e = Task.exp /\ l = Task.link /\ w2 = worklist' /\ cj2 = currentJoins'
                           /\ W0 = worklist /\ C0 = currentJoins
  OBVIOUS
<1>2. /\ status = "run" /\ worklist # <<>> /\ Task.kind = "node" /\ heap[e].tag = "Join"
      /\ w2 = Front(worklist)
           \o <<RestTask(l, e), ChildTask(e, 2), BlockTask(e), ChildTask(e, 1)>>
      /\ cj2 = currentJoins
  BY <1>1 DEF VisitJoin, Visits, Takes
<1>3. /\ l \in LinkRec /\ e \in Nat /\ e \in 1..Len(heap)
      /\ 1 \in 1..Len(heap[e].kids) /\ 2 \in 1..Len(heap[e].kids) /\ Shaped(heap)
  <2>1. e \in 1..Len(heap) /\ e \in Nat /\ Task \in TaskRec
    BY <1>1, <1>2, TopTask DEF Inv
  <2>2. 1 \in 1..Len(heap[e].kids) /\ 2 \in 1..Len(heap[e].kids)
    BY <1>2, <2>1, TwoKids DEF Inv, TypeInv
  <2>3. l \in LinkRec
    BY <1>1, <1>2, <2>1 DEF TaskRec
  <2>. QED  BY <2>1, <2>2, <2>3 DEF Inv, TypeInv
<1>4. PICK a, b, c, d : /\ a = RestTask(l, e) /\ b = ChildTask(e, 2)
                        /\ c = BlockTask(e) /\ d = ChildTask(e, 1)
  OBVIOUS
<1>5. a \in TaskRec /\ a.kind = "rest" /\ a.exp = e /\ a.link = l
  BY ONLY <1>3, <1>4, RestType
<1>6. b \in TaskRec /\ b.kind = "node" /\ b.link.kid = 2 /\ Spawned(heap, e, l, b)
  BY ONLY <1>3, <1>4, ChildIs
<1>7. c \in TaskRec /\ c.kind = "block" /\ c.exp = e
  BY ONLY <1>3, <1>4, BlockType
<1>8. d \in TaskRec /\ d.kind = "node" /\ d.link.kid = 1 /\ Spawned(heap, e, l, d)
  BY ONLY <1>3, <1>4, ChildIs
<1>9. Spawn(heap, e, l, <<a, b, c, d>>)
  <2>1. Spawned(heap, e, l, a)
    BY ONLY <1>2, <1>5 DEF Spawned
  <2>2. Spawned(heap, e, l, c) /\ Ends(c)
    BY ONLY <1>2, <1>7 DEF Spawned, Ends
  <2>. QED  BY ONLY <1>5, <1>6, <1>7, <1>8, <2>1, <2>2, FourSpawn
<1>10. w2 = Front(worklist) \o <<a, b, c, d>>
  BY <1>2, <1>4
<1>11. /\ IF heap[e].tag = "Fun" THEN c.kind = "collect" /\ c.joins = currentJoins /\ cj2 = <<>>
          ELSE c.kind = "block" /\ cj2 = currentJoins
       /\ heap[e].tag \in {"Fun", "Join"} /\ e = Task.exp /\ l = Task.link
  BY <1>1, <1>2, <1>7
<1>12. VisitedNow(w2, cj2)
  BY ONLY Inv, <1>2, <1>5, <1>6, <1>8, <1>9, <1>10, <1>11, FourVisited
<1>. QED  BY <1>1, <1>12

LEMMA VisitIfNow ==
  ASSUME Inv, VisitIf
  PROVE  VisitedNow(worklist', currentJoins')
<1>1. PICK e, l, w2, cj2, n, m, W0, C0 : /\ e = Task.exp /\ l = Task.link /\ w2 = worklist' /\ cj2 = currentJoins'
                                 /\ n = Len(worklist) - 1 /\ m = n + 3 /\ W0 = worklist /\ C0 = currentJoins
  OBVIOUS
<1>2. /\ status = "run" /\ worklist # <<>> /\ Task.kind = "node" /\ heap[e].tag = "If"
      /\ w2 = Front(worklist) \o <<BranchTask(e), ChildTask(e, 2), ChildTask(e, 1)>>
      /\ cj2 = currentJoins
  BY <1>1 DEF VisitIf, Visits, Takes
<1>3. /\ e \in Nat /\ e \in 1..Len(heap)
      /\ 1 \in 1..Len(heap[e].kids) /\ 2 \in 1..Len(heap[e].kids) /\ Shaped(heap)
  <2>1. e \in 1..Len(heap) /\ e \in Nat
    BY <1>1, <1>2, TopTask DEF Inv
  <2>2. 1 \in 1..Len(heap[e].kids) /\ 2 \in 1..Len(heap[e].kids)
    BY <1>2, <2>1, TwoKids DEF Inv, TypeInv
  <2>. QED  BY <2>1, <2>2 DEF Inv, TypeInv
<1>4. PICK a, b, c : a = BranchTask(e) /\ b = ChildTask(e, 2) /\ c = ChildTask(e, 1)
  OBVIOUS
<1>5. a \in TaskRec /\ a.kind = "branch" /\ a.exp = e
  BY ONLY <1>3, <1>4, BranchType
<1>6. b \in TaskRec /\ b.kind = "node" /\ b.link.kid = 2 /\ Spawned(heap, e, l, b)
  BY ONLY <1>3, <1>4, ChildIs
<1>7. c \in TaskRec /\ c.kind = "node" /\ c.link.kid = 1 /\ Spawned(heap, e, l, c)
  BY ONLY <1>3, <1>4, ChildIs
<1>8. PICK q : q = <<a, b, c>>
  OBVIOUS
<1>9. Spawn(heap, e, l, q) /\ Len(q) = 3 /\ q[1] = a /\ q[2] = b /\ q[3] = c
  <2>1. Spawned(heap, e, l, a)
    BY ONLY <1>2, <1>5 DEF Spawned
  <2>2. Spawn(heap, e, l, q) /\ Len(q) = 3
    BY ONLY <1>5, <1>6, <1>7, <1>8, <2>1, ThreeSpawn
  <2>. QED  BY <1>8, <2>2
<1>10. /\ Pushed(heap, worklist, w2, n, n + Len(q), e, l) /\ n \in Nat
       /\ \A i \in 1..Len(q) : w2[n + i] = q[i]
  <2>1. w2 = Front(worklist) \o q
    BY <1>2, <1>4, <1>8
  <2>2. Pushing(q, w2, n, e, l)
    BY ONLY <1>1, <1>2, <1>9, <2>1 DEF Pushing
  <2>. QED  BY <2>2, PushedTasks
<1>11. /\ w2[n + 1] = a /\ w2[n + 2] = b /\ w2[n + 3] = c /\ n \in Nat /\ m = n + 3
       /\ Pushed(heap, worklist, w2, n, m, e, l)
  BY <1>1, <1>9, <1>10
<1>12. /\ n + 1 \in (n + 1)..m /\ n + 2 \in (n + 1)..m /\ n + 3 \in (n + 1)..m
       /\ \A t \in (n + 1)..m : t = n + 1 \/ t = n + 2 \/ t = n + 3
  BY <1>11
<1>13. ASSUME NEW i \in 1..Len(heap[e].kids)
       PROVE  \E t \in (n + 1)..m : w2[t].kind = "node" /\ w2[t].link.kid = i
  <2>1. Len(heap[e].kids) = 2
    BY <1>2, <1>3, TwoKids
  <2>2. i = 1 \/ i = 2
    BY <2>1
  <2>. QED  BY <1>6, <1>7, <1>11, <1>12, <2>2
<1>14. \E t \in (n + 1)..m : w2[t].kind = "branch"
  BY <1>5, <1>11, <1>12
<1>15. \A t \in (n + 1)..m : w2[t].kind # "collect"
  BY <1>5, <1>6, <1>7, <1>11, <1>12
<1>16. Visited(heap, worklist, w2, n, m, e, l)
  BY <1>2, <1>11, <1>13, <1>14, <1>15 DEF Visited
<1>17. SetAside(heap, currentJoins, cj2, w2, n, e)
  BY <1>2 DEF SetAside
<1>. QED  BY <1>1, <1>16, <1>17 DEF VisitedNow

LEMMA VisitOtherNow ==
  ASSUME Inv, VisitOther
  PROVE  VisitedNow(worklist', currentJoins')
<1>1. PICK e, l, w2, cj2, n, W0, C0 : /\ e = Task.exp /\ l = Task.link /\ w2 = worklist' /\ cj2 = currentJoins'
                              /\ n = Len(worklist) - 1 /\ W0 = worklist /\ C0 = currentJoins
  OBVIOUS
<1>2. /\ status = "run" /\ worklist # <<>> /\ Task.kind = "node" /\ heap[e].tag \notin {"Fun", "Join", "If"}
      /\ w2 = Front(worklist) \o [i \in 1..Len(heap[e].kids) |-> ChildTask(e, i)]
      /\ cj2 = currentJoins
  BY <1>1 DEF VisitOther, Visits, Takes
<1>3. e \in 1..Len(heap) /\ Shaped(heap)
  BY <1>1, <1>2, TopTask DEF Inv, TypeInv
<1>4. PICK q, m : q = [i \in 1..Len(heap[e].kids) |-> NodeTask(Link(e, i), heap[e].kids[i])] /\ m = n + Len(q)
  OBVIOUS
<1>5. Spawn(heap, e, l, q) /\ Len(q) = Len(heap[e].kids) /\ \A t \in 1..Len(q) : q[t].kind = "node"
  BY ONLY <1>3, <1>4, KidsSpawn
<1>6. \A i \in 1..Len(q) : q[i].link.kid = i
  BY <1>4, <1>5 DEF NodeTask, Link
<1>7. /\ Pushed(heap, worklist, w2, n, m, e, l) /\ n \in Nat /\ Len(q) \in Nat
      /\ \A i \in 1..Len(q) : w2[n + i] = q[i]
  <2>1. w2 = Front(worklist) \o q
    BY <1>2, <1>4 DEF ChildTask
  <2>2. Pushing(q, w2, n, e, l)
    BY ONLY <1>1, <1>2, <1>5, <2>1 DEF Pushing
  <2>3. /\ Pushed(heap, worklist, w2, n, n + Len(q), e, l) /\ n \in Nat /\ Len(q) \in Nat
        /\ \A i \in 1..Len(q) : w2[n + i] = q[i]
    BY <2>2, PushedTasks
  <2>. QED  BY <1>4, <2>3
<1>8. \A t \in (n + 1)..m : t - n \in 1..Len(q) /\ n + (t - n) = t
  BY <1>4, <1>7
<1>9. \A i \in 1..Len(q) : n + i \in (n + 1)..m
  BY <1>4, <1>7
<1>10. ASSUME NEW i \in 1..Len(heap[e].kids)
       PROVE  \E t \in (n + 1)..m : w2[t].kind = "node" /\ w2[t].link.kid = i
  BY <1>5, <1>6, <1>7, <1>9
<1>11. \A t \in (n + 1)..m : w2[t].kind # "collect"
  <2>. SUFFICES ASSUME NEW t \in (n + 1)..m PROVE w2[t].kind = "node"
    OBVIOUS
  <2>. QED  BY <1>5, <1>7, <1>8
<1>12. Visited(heap, worklist, w2, n, m, e, l)
  BY <1>2, <1>7, <1>10, <1>11 DEF Visited
<1>13. SetAside(heap, currentJoins, cj2, w2, n, e)
  BY <1>2 DEF SetAside
<1>. QED  BY <1>1, <1>12, <1>13 DEF VisitedNow

-----------------------------------------------------------------------------
(***************************************************************************)
(* The steps.                                                              *)
(***************************************************************************)
\* The term with the function main around it.
Whole == input \o <<HaltExp(IntValue(0)), FunExp(Main, <<>>, Len(input), Len(input) + 1)>>

LayerNow(T, G) ==
    \E V : Layer(T, G, heap, freed, root, currentJoins, worklist, collected, counter, V)

Walked(T, G) == Placed(T, G) /\ Named(T, G) /\ LayerNow(T, G)

LEMMA VisitsLayer ==
  ASSUME NEW T, NEW G, Walked(T, G), VisitedNow(worklist', currentJoins'),
         heap' = heap, freed' = freed, root' = root, collected' = collected, counter' = counter
  PROVE  LayerNow(T, G)'
<1>1. PICK w2, cj2 : w2 = worklist' /\ cj2 = currentJoins'
  OBVIOUS
<1>2. PICK n, m, e, l : Visited(heap, worklist, w2, n, m, e, l) /\ SetAside(heap, currentJoins, cj2, w2, n, e)
  BY <1>1 DEF VisitedNow
<1>3. PICK V : Layer(T, G, heap, freed, root, currentJoins, worklist, collected, counter, V)
  BY DEF Walked, LayerNow
<1>4. Placed(T, G)
  BY DEF Walked
<1>5. Layer(T, G, heap, freed, root, cj2, w2, collected, counter, V \cup {e})
  BY ONLY <1>2, <1>3, <1>4, VisitedLayer
<1>6. Layer(T, G, heap', freed', root', currentJoins', worklist', collected', counter', V \cup {e})
  BY <1>1, <1>5
<1>. QED  BY <1>6 DEF LayerNow

LEMMA CollectsLayer ==
  ASSUME NEW T, NEW G, Walked(T, G), Inv, Inv', RunCollect
  PROVE  LayerNow(T, G)'
<1>1. PICK e, n, w2, h2, W0, H0, C0, cj, co2, j, f, sj :
         /\ e = Task.exp /\ n = Len(worklist) - 1 /\ w2 = worklist' /\ h2 = heap' /\ W0 = worklist /\ H0 = heap
         /\ C0 = collected /\ cj = currentJoins /\ co2 = collected'
         /\ j = Join(EntryName(counter), <<>>, heap[e].kids[1])
         /\ f = Function(heap[e].name, heap[e].params, j, currentJoins) /\ sj = Task.joins
  OBVIOUS
<1>2. /\ status = "run" /\ worklist # <<>> /\ Task.kind = "collect" /\ h2 = Emptied(heap, e)
      /\ worklist' = Front(worklist) /\ co2 = Append(collected, f) /\ currentJoins' = sj
      /\ freed' = freed /\ root' = root /\ counter' = counter + 1
  BY <1>1 DEF RunCollect, Takes, RestoredJoins
<1>3. /\ Popped(worklist, w2, n) /\ worklist[n + 1] = Task /\ e \in 1..Len(heap)
  <2>1. w2 = Front(worklist)
    BY <1>1, <1>2
  <2>. QED  BY <1>1, <1>2, <2>1, TopPopped
<1>4. 1 \in 1..Len(heap[e].kids) /\ Shaped(heap)
  BY <1>1, <1>2, TopClosure DEF Inv, TypeInv
<1>5. BodyOut(heap, h2, e)
  BY <1>2, <1>3, <1>4, EmptiedBody
<1>6. CollectedOf(heap, currentJoins, collected, co2, e)
  <2>1. f.name = heap[e].name /\ f.blocks = currentJoins /\ f.entry = j
    BY <1>1 DEF Function
  <2>2. j.name = EntryName(counter) /\ j.body = heap[e].kids[1]
    BY <1>1 DEF Join
  <2>3. j.name.base = "entry"
    BY <2>2, BlockNames
  <2>4. /\ Len(collected) \in Nat /\ Len(co2) = Len(collected) + 1 /\ co2[Len(collected) + 1] = f
        /\ \A i \in 1..Len(collected) : co2[i] = collected[i]
    <3>1. collected \in Seq(FunRec)
      BY DEF Inv, TypeInv
    <3>. QED  BY <1>2, <3>1
  <2>. QED  BY ONLY <2>1, <2>2, <2>3, <2>4 DEF CollectedOf
<1>7. Shaped(h2) /\ LinksOwn(h2, freed, root)
  <2>1. Shaped(heap') /\ LinksOwn(heap', freed', root')
    BY OwnedLinks DEF Inv, TypeInv, OwnInv
  <2>. QED  BY <1>1, <1>2, <2>1
<1>8. PICK V : Layer(T, G, heap, freed, root, currentJoins, worklist, collected, counter, V)
  BY DEF Walked, LayerNow
<1>9. worklist[n + 1].kind = "collect" /\ worklist[n + 1].exp = e /\ worklist[n + 1].joins = sj
  BY <1>1, <1>2, <1>3
<1>10. Placed(T, G) /\ Named(T, G)
  BY DEF Walked
<1>11. Layer(T, G, h2, freed, root, sj, w2, co2, counter + 1, V)
  BY ONLY <1>3, <1>5, <1>6, <1>7, <1>8, <1>9, <1>10, CollectLayer
<1>12. Layer(T, G, heap', freed', root', currentJoins', worklist', collected', counter', V)
  BY <1>1, <1>2, <1>11
<1>. QED  BY <1>12 DEF LayerNow

LEMMA BlocksLayer ==
  ASSUME NEW T, NEW G, Walked(T, G), Inv, Inv', RunBlock
  PROVE  LayerNow(T, G)'
<1>1. PICK e, n, w2, h2, W0, H0, cj, cj2, j :
         /\ e = Task.exp /\ n = Len(worklist) - 1 /\ w2 = worklist' /\ h2 = heap' /\ W0 = worklist /\ H0 = heap
         /\ cj = currentJoins /\ cj2 = currentJoins'
         /\ j = Join(heap[e].name, heap[e].params, heap[e].kids[1])
  OBVIOUS
<1>2. /\ status = "run" /\ worklist # <<>> /\ Task.kind = "block" /\ h2 = Emptied(heap, e)
      /\ worklist' = Front(worklist) /\ collected' = collected /\ cj2 = Append(currentJoins, j)
      /\ freed' = freed /\ root' = root /\ counter' = counter
  BY <1>1 DEF RunBlock, Takes, BlockOf
<1>3. /\ Popped(worklist, w2, n) /\ worklist[n + 1] = Task /\ e \in 1..Len(heap)
  <2>1. w2 = Front(worklist)
    BY <1>1, <1>2
  <2>. QED  BY <1>1, <1>2, <2>1, TopPopped
<1>4. 1 \in 1..Len(heap[e].kids) /\ Shaped(heap)
  BY <1>1, <1>2, TopClosure DEF Inv, TypeInv
<1>5. BodyOut(heap, h2, e)
  BY <1>2, <1>3, <1>4, EmptiedBody
<1>6. BlockOfNode(heap, currentJoins, cj2, e)
  <2>1. j.name = heap[e].name /\ j.slot = heap[e].params /\ j.body = heap[e].kids[1]
    BY <1>1 DEF Join
  <2>2. /\ Len(currentJoins) \in Nat /\ Len(cj2) = Len(currentJoins) + 1 /\ cj2[Len(currentJoins) + 1] = j
        /\ \A i \in 1..Len(currentJoins) : cj2[i] = currentJoins[i]
    <3>1. currentJoins \in Seq(JoinRec)
      BY DEF Inv, TypeInv
    <3>. QED  BY <1>2, <3>1
  <2>. QED  BY ONLY <2>1, <2>2 DEF BlockOfNode
<1>7. Shaped(h2) /\ LinksOwn(h2, freed, root)
  <2>1. Shaped(heap') /\ LinksOwn(heap', freed', root')
    BY OwnedLinks DEF Inv, TypeInv, OwnInv
  <2>. QED  BY <1>1, <1>2, <2>1
<1>8. PICK V : Layer(T, G, heap, freed, root, currentJoins, worklist, collected, counter, V)
  BY DEF Walked, LayerNow
<1>9. worklist[n + 1].kind = "block" /\ worklist[n + 1].exp = e
  BY <1>1, <1>2, <1>3
<1>10. Placed(T, G) /\ Named(T, G)
  BY DEF Walked
<1>11. Layer(T, G, h2, freed, root, cj2, w2, collected, counter, V)
  BY ONLY <1>3, <1>5, <1>6, <1>7, <1>8, <1>9, <1>10, BlockLayer
<1>12. Layer(T, G, heap', freed', root', currentJoins', worklist', collected', counter', V)
  BY <1>1, <1>2, <1>11
<1>. QED  BY <1>12 DEF LayerNow

LEMMA BranchesLayer ==
  ASSUME NEW T, NEW G, Walked(T, G), Inv, Inv', RunBranch
  PROVE  LayerNow(T, G)'
<1>1. PICK e, n, w2, h2, W0, H0, cj, cj2, x, y, a, b, p, q :
         /\ e = Task.exp /\ n = Len(worklist) - 1 /\ w2 = worklist' /\ h2 = heap' /\ W0 = worklist /\ H0 = heap
         /\ cj = currentJoins /\ cj2 = currentJoins'
         /\ x = ThenName(counter) /\ y = ElseName(counter + 1)
         /\ a = Join(x, <<>>, heap[e].kids[1]) /\ b = Join(y, <<>>, heap[e].kids[2])
         /\ p = JumpExp(x, <<>>) /\ q = JumpExp(y, <<>>)
  OBVIOUS
<1>2. /\ status = "run" /\ worklist # <<>> /\ Task.kind = "branch"
      /\ h2 = [heap EXCEPT ![e].kids = <<Len(heap) + 1, Len(heap) + 2>>] \o <<p, q>>
      /\ worklist' = Front(worklist) /\ collected' = collected /\ cj2 = currentJoins \o <<a, b>>
      /\ freed' = freed /\ root' = root /\ counter' = counter + 2
  <2>1. BranchNames(counter)[1] = x /\ BranchNames(counter)[2] = y
    BY <1>1 DEF BranchNames
  <2>. QED  BY <1>1, <2>1 DEF RunBranch, Takes, Jumps
<1>3. /\ Popped(worklist, w2, n) /\ worklist[n + 1] = Task /\ e \in 1..Len(heap)
  <2>1. w2 = Front(worklist)
    BY <1>1, <1>2
  <2>. QED  BY <1>1, <1>2, <2>1, TopPopped
<1>4. heap[e].tag = "If" /\ worklist[n + 1].kind = "branch" /\ worklist[n + 1].exp = e
  BY <1>1, <1>2, <1>3, TopClosure
<1>5. /\ Shaped(heap) /\ currentJoins \in Seq(JoinRec) /\ counter \in Nat
  BY DEF Inv, TypeInv
<1>6. x \in Ident /\ y \in Ident
  <2>1. counter + 1 \in Nat
    BY <1>5
  <2>. QED  BY <1>1, <1>5, <2>1, MadeNames
<1>7. JumpsIn(heap, h2, e) /\ h2[Len(heap) + 1].name = x /\ h2[Len(heap) + 2].name = y
  <2>1. p = JumpExp(x, <<>>) /\ q = JumpExp(y, <<>>)
    BY <1>1
  <2>2. Branching(heap, h2, e, x, y, p, q)
    BY ONLY <1>2, <1>3, <1>4, <1>6, <2>1 DEF Branching
  <2>. QED  BY <1>5, <2>2, BranchedJumps
<1>8. PICK k, l : k = heap[e].kids[1] /\ l = heap[e].kids[2]
  OBVIOUS
<1>9. /\ a \in JoinRec /\ a.name = x /\ a.slot = <<>> /\ a.body = k
      /\ b \in JoinRec /\ b.name = y /\ b.slot = <<>> /\ b.body = l
  <2>1. Len(heap[e].kids) = 2
    BY <1>3, <1>4, <1>5, TwoKids
  <2>2. 1 \in 1..Len(heap[e].kids) /\ 2 \in 1..Len(heap[e].kids)
    BY <2>1
  <2>3. k \in Nat /\ l \in Nat
    BY <1>3, <1>5, <1>8, <2>2, PartsType
  <2>4. PICK s : s = <<>>
    OBVIOUS
  <2>5. s \in Seq(Ident) /\ a = Join(x, s, k) /\ b = Join(y, s, l)
    BY <1>1, <1>8, <2>4
  <2>6. a \in JoinRec /\ b \in JoinRec
    BY ONLY <1>6, <2>3, <2>5, JoinType
  <2>7. a.name = x /\ a.slot = s /\ a.body = k /\ b.name = y /\ b.slot = s /\ b.body = l
    BY ONLY <2>5 DEF Join
  <2>. QED  BY <2>4, <2>6, <2>7
<1>10. BranchesOfNode(heap, h2, currentJoins, cj2, e, counter)
  <2>1. PICK m : m = Len(currentJoins)
    OBVIOUS
  <2>2. /\ m \in Nat /\ Len(cj2) = m + 2 /\ cj2[m + 1] = a /\ cj2[m + 2] = b
        /\ \A i \in 1..m : cj2[i] = currentJoins[i]
    BY ONLY <1>2, <1>5, <1>9, <2>1, PushTwo
  <2>. QED  BY <1>1, <1>7, <1>8, <1>9, <2>1, <2>2 DEF BranchesOfNode
<1>11. Shaped(h2) /\ LinksOwn(h2, freed, root)
  <2>1. Shaped(heap') /\ LinksOwn(heap', freed', root')
    BY OwnedLinks DEF Inv, TypeInv, OwnInv
  <2>. QED  BY <1>1, <1>2, <2>1
<1>12. PICK V : Layer(T, G, heap, freed, root, currentJoins, worklist, collected, counter, V)
  BY DEF Walked, LayerNow
<1>13. Placed(T, G) /\ Named(T, G)
  BY DEF Walked
<1>14. Layer(T, G, h2, freed, root, cj2, w2, collected, counter + 2, V)
  BY ONLY <1>3, <1>4, <1>10, <1>11, <1>12, <1>13, BranchLayer
<1>15. Layer(T, G, heap', freed', root', currentJoins', worklist', collected', counter', V)
  BY <1>1, <1>2, <1>14
<1>. QED  BY <1>15 DEF LayerNow

LEMMA RestsLayer ==
  ASSUME NEW T, NEW G, Walked(T, G), Inv, Inv', RunRest
  PROVE  LayerNow(T, G)'
<1>1. PICK e, l, lo, li, n, w2, h2, r2, fr2, W0, H0, c, g :
         /\ e = Task.exp /\ l = Task.link /\ lo = l.owner /\ li = l.kid /\ n = Len(worklist) - 1
         /\ w2 = worklist' /\ h2 = heap' /\ r2 = root' /\ fr2 = freed' /\ W0 = worklist /\ H0 = heap
         /\ c = heap[e].kids[2] /\ g = [heap EXCEPT ![e].kids[2] = Null]
  OBVIOUS
<1>2. /\ status = "run" /\ worklist # <<>> /\ Task.kind = "rest"
      /\ fr2 = freed \cup {Deref(heap, root, l)}
      /\ IF lo = Null THEN r2 = c /\ h2 = g
         ELSE r2 = root /\ h2 = [g EXCEPT ![lo].kids[li] = c]
      /\ worklist' = Front(worklist) /\ collected' = collected /\ currentJoins' = currentJoins
      /\ counter' = counter
  BY <1>1 DEF RunRest, Takes
<1>3. /\ Popped(worklist, w2, n) /\ worklist[n + 1] = Task /\ e \in 1..Len(heap)
  <2>1. w2 = Front(worklist)
    BY <1>1, <1>2
  <2>. QED  BY <1>1, <1>2, <2>1, TopPopped
<1>4. /\ 2 \in 1..Len(heap[e].kids) /\ heap[e].kids[1] = Null
      /\ IsLink(heap, freed, lo, li) /\ To(heap, root, lo, li) = e /\ lo # e
  BY <1>1, <1>2, TopClosure
<1>5. /\ worklist[n + 1].kind = "rest" /\ worklist[n + 1].exp = e
      /\ worklist[n + 1].link.owner = lo /\ worklist[n + 1].link.kid = li
  BY <1>1, <1>2, <1>3
<1>6. \A x : x \in fr2 <=> x \in freed \/ x = e
  <2>1. Deref(heap, root, l) = e
    BY <1>1, <1>4 DEF Deref, To
  <2>. QED  BY <1>2, <2>1
<1>7. RestOut(heap, h2, freed, root, r2, e, lo, li)
  <2>1. RestMoved(heap, h2, root, r2, e, lo, li, c, g)
    BY <1>1, <1>2 DEF RestMoved
  <2>2. Shaped(heap)
    BY DEF Inv, TypeInv
  <2>. QED  BY ONLY <1>3, <1>4, <2>1, <2>2, RestMovedOut
<1>8. \A t \in 1..Len(worklist) : worklist[t].kind \in {"node", "rest", "collect", "block", "branch"}
  <2>. SUFFICES ASSUME NEW t \in 1..Len(worklist)
                PROVE  worklist[t].kind \in {"node", "rest", "collect", "block", "branch"}
    OBVIOUS
  <2>1. worklist[t] \in TaskRec
    BY ElementOfSeq DEF Inv, TypeInv
  <2>. QED  BY <2>1 DEF TaskRec
<1>9. Shaped(h2) /\ LinksOwn(h2, fr2, r2)
  <2>1. Shaped(heap') /\ LinksOwn(heap', freed', root')
    BY OwnedLinks DEF Inv, TypeInv, OwnInv
  <2>. QED  BY <1>1, <2>1
<1>10. PICK V : Layer(T, G, heap, freed, root, currentJoins, worklist, collected, counter, V)
  BY DEF Walked, LayerNow
<1>11. Placed(T, G)
  BY DEF Walked
<1>12. Layer(T, G, h2, fr2, r2, currentJoins, w2, collected, counter, V)
  BY ONLY <1>3, <1>4, <1>5, <1>6, <1>7, <1>8, <1>9, <1>10, <1>11, RestLayer
<1>13. Layer(T, G, heap', freed', root', currentJoins', worklist', collected', counter', V)
  BY <1>1, <1>2, <1>12
<1>. QED  BY <1>13 DEF LayerNow

-----------------------------------------------------------------------------
(***************************************************************************)
(* The nodes below a node.                                                 *)
(***************************************************************************)
Closed(h, S) ==
    S \subseteq 1..Len(h) /\
    \A a \in S : \A i \in 1..Len(h[a].kids) : h[a].kids[i] \in 1..Len(h) => h[a].kids[i] \in S

\* What makes B the nodes below each node.
Spreads(h, B) ==
    B = [a \in 1..Len(h) |->
            {a} \cup UNION {B[h[a].kids[i]] : i \in {i \in 1..Len(h[a].kids) : h[a].kids[i] \in 1..Len(h)}}]

\* Reach x from a: x is in every closed set that holds a.
Reached(h, a) == {x \in 1..Len(h) : \A S : Closed(h, S) /\ a \in S => x \in S}

LEMMA ReachedKid ==
  ASSUME NEW h, NEW a \in 1..Len(h), NEW i \in 1..Len(h[a].kids), h[a].kids[i] \in 1..Len(h)
  PROVE  \A x : x \in Reached(h, h[a].kids[i]) => x \in Reached(h, a)
<1>. SUFFICES ASSUME NEW x, x \in Reached(h, h[a].kids[i]), NEW S, Closed(h, S), a \in S
              PROVE  x \in 1..Len(h) /\ x \in S
  BY DEF Reached
<1>1. h[a].kids[i] \in S
  BY DEF Closed
<1>. QED  BY <1>1 DEF Reached

\* It is what the recursive function computes.
LEMMA ReachedSpreads ==
  ASSUME NEW h
  PROVE  Spreads(h, [a \in 1..Len(h) |-> Reached(h, a)])
<1>. DEFINE F == [a \in 1..Len(h) |-> Reached(h, a)]
            K(a) == {i \in 1..Len(h[a].kids) : h[a].kids[i] \in 1..Len(h)}
            U(a) == {a} \cup UNION {F[h[a].kids[i]] : i \in K(a)}
<1>1. ASSUME NEW a \in 1..Len(h) PROVE Reached(h, a) = U(a)
  <2>1. ASSUME NEW x, x \in U(a) PROVE x \in Reached(h, a)
    <3>1. CASE x = a
      BY <3>1 DEF Reached
    <3>2. CASE x # a
      <4>1. PICK i \in K(a) : x \in F[h[a].kids[i]]
        BY <2>1, <3>2
      <4>2. x \in Reached(h, h[a].kids[i])
        BY <4>1
      <4>. QED  BY <4>2, ReachedKid
    <3>. QED  BY <3>1, <3>2
  <2>2. Closed(h, U(a))
    <3>1. \A y \in U(a) : y \in 1..Len(h)
      BY <2>1, Zenon DEF Reached
    <3>2. ASSUME NEW y \in U(a), NEW j \in 1..Len(h[y].kids), h[y].kids[j] \in 1..Len(h)
          PROVE  h[y].kids[j] \in U(a)
      <4>1. PICK z : z = h[y].kids[j]
        OBVIOUS
      <4>2. z \in Reached(h, z)
        BY <3>2, <4>1 DEF Reached
      <4>3. z \in Reached(h, y) /\ y \in 1..Len(h)
        BY <3>1, <3>2, <4>1, <4>2, ReachedKid
      <4>4. CASE y = a
        <5>1. j \in K(a) /\ z \in F[h[a].kids[j]]
          BY <3>2, <4>1, <4>2, <4>4
        <5>. QED  BY <4>1, <5>1
      <4>5. CASE y # a
        <5>1. PICK i \in K(a) : y \in F[h[a].kids[i]]
          BY <3>2, <4>5
        <5>2. y \in Reached(h, h[a].kids[i])
          BY <5>1
        <5>3. z \in Reached(h, h[a].kids[i])
          BY <4>3, <5>2 DEF Reached
        <5>4. z \in F[h[a].kids[i]]
          BY <5>3
        <5>. QED  BY <4>1, <5>4, Zenon
      <4>. QED  BY <4>4, <4>5
    <3>. HIDE DEF U
    <3>. QED  BY ONLY <3>1, <3>2 DEF Closed
  <2>3. ASSUME NEW x, x \in Reached(h, a) PROVE x \in U(a)
    <3>1. a \in U(a)
      OBVIOUS
    <3>. HIDE DEF U
    <3>. QED  BY <2>2, <2>3, <3>1 DEF Reached
  <2>. HIDE DEF U
  <2>. QED  BY ONLY <2>1, <2>3
<1>2. F = [a \in 1..Len(h) |-> U(a)]
  BY <1>1
<1>. QED  BY ONLY <1>2 DEF Spreads

LEMMA BelowSpreads ==
  ASSUME NEW h
  PROVE  Spreads(h, Below(h))
<1>1. Below(h) = CHOOSE B : Spreads(h, B)
  BY DEF Below, Spreads
<1>. QED  BY <1>1, ReachedSpreads

\* A set that is closed holds what is below its nodes, when children come before their nodes
\* or after the first N and have none.
LEMMA BelowInside ==
  ASSUME NEW h, NEW N \in Nat, NEW R, Closed(h, R), \A a \in R : a \in Nat,
         \A a \in R : \A i \in 1..Len(h[a].kids) :
            h[a].kids[i] \in 1..Len(h) => a <= N /\ (h[a].kids[i] < a \/ h[a].kids[i] > N)
  PROVE  \A b \in R : Below(h)[b] \subseteq R
<1>1. PICK B : B = Below(h)
  OBVIOUS
<1>2. \A a \in R : B[a] = {a} \cup UNION {B[h[a].kids[i]] : i \in {i \in 1..Len(h[a].kids) : h[a].kids[i] \in 1..Len(h)}}
  <2>1. B = [a \in 1..Len(h) |->
            {a} \cup UNION {B[h[a].kids[i]] : i \in {i \in 1..Len(h[a].kids) : h[a].kids[i] \in 1..Len(h)}}]
    <3>1. Spreads(h, B)
      BY <1>1, BelowSpreads
    <3>. QED  BY ONLY <3>1 DEF Spreads
  <2>2. \A a \in R : a \in 1..Len(h)
    BY DEF Closed
  <2>. QED  BY ONLY <2>1, <2>2
<1>3. ASSUME NEW a \in R, \A i \in 1..Len(h[a].kids) : h[a].kids[i] \in 1..Len(h) => B[h[a].kids[i]] \subseteq R
      PROVE  B[a] \subseteq R
  BY <1>2, <1>3
<1>4. \A a \in R : a > N => B[a] \subseteq R
  <2>1. \A a \in R : a > N => ~(a <= N)
    OBVIOUS
  <2>. QED  BY <1>3, <2>1
<1>. DEFINE Bad == {a \in Nat : a \in R /\ ~(B[a] \subseteq R)}
<1>5. Bad = {}
  <2>. SUFFICES ASSUME Bad # {} PROVE FALSE
    OBVIOUS
  <2>1. PICK m \in Bad : \A k \in Bad : m <= k
    <3>1. Bad \subseteq Nat
      OBVIOUS
    <3>. QED  BY ONLY <3>1, Bad # {}, LeastNumber
  <2>2. m \in R /\ ~(B[m] \subseteq R) /\ m \in Nat
    OBVIOUS
  <2>3. PICK i \in 1..Len(h[m].kids) : h[m].kids[i] \in 1..Len(h) /\ ~(B[h[m].kids[i]] \subseteq R)
    BY <1>3, <2>2
  <2>4. h[m].kids[i] \in R /\ (h[m].kids[i] < m \/ h[m].kids[i] > N)
    BY <2>2, <2>3 DEF Closed
  <2>5. h[m].kids[i] < m
    BY <1>4, <2>3, <2>4
  <2>6. h[m].kids[i] \in Bad
    BY <2>3, <2>4
  <2>7. h[m].kids[i] \in Nat /\ m <= h[m].kids[i]
    BY <2>1, <2>6
  <2>. QED  BY ONLY <2>2, <2>5, <2>7
<1>. QED  BY <1>1, <1>5

-----------------------------------------------------------------------------
(***************************************************************************)
(* The end of the walk.                                                    *)
(***************************************************************************)
\* Every node was visited, and only jumps hold no code any more.
LEMMA AllVisited ==
  ASSUME NEW T, NEW G, NEW fr, NEW w, NEW V, Placed(T, G), Staged(T, G, fr, w, V), Len(w) = 0
  PROVE  \A a \in 1..Len(T) : a \in V /\ (a \in Bodied(T) => a \in fr)
<1>1. Len(T) \in Nat
  BY DEF Placed, Shaped
<1>. DEFINE N == Len(T)
            Bad == {k \in Nat : N - k \in 1..N /\ N - k \notin V}
<1>2. Bad = {}
  <2>. SUFFICES ASSUME Bad # {} PROVE FALSE
    OBVIOUS
  <2>1. PICK m \in Bad : \A k \in Bad : m <= k
    <3>1. Bad \subseteq Nat
      OBVIOUS
    <3>. QED  BY ONLY <3>1, Bad # {}, LeastNumber
  <2>2. PICK a : a = N - m /\ a \in 1..N /\ a \notin V /\ m \in Nat
    OBVIOUS
  <2>3. PICK o \in 1..N : o \notin V /\ \E i \in 1..Len(T[o].kids) : T[o].kids[i] = a
    <3>1. ~\E p \in 1..Len(w) : w[p].kind = "node" /\ w[p].exp = a
      OBVIOUS
    <3>2. \/ \E p \in 1..Len(w) : w[p].kind = "node" /\ w[p].exp = a
          \/ \E o \in 1..Len(T) : o \notin V /\ \E i \in 1..Len(T[o].kids) : T[o].kids[i] = a
      BY ONLY <2>2, Staged(T, G, fr, w, V) DEF Staged
    <3>. QED  BY ONLY <3>1, <3>2
  <2>4. a < o
    BY <2>2, <2>3, <1>1 DEF Placed
  <2>5. PICK k : k = N - o
    OBVIOUS
  <2>6. k \in Nat /\ N - k = o
    BY <1>1, <2>3, <2>5
  <2>7. k \in Bad
    BY <2>3, <2>6
  <2>8. m <= k
    BY <2>1, <2>7
  <2>. QED  BY <1>1, <2>2, <2>3, <2>4, <2>5, <2>8
<1>3. ASSUME NEW a \in 1..N PROVE a \in V
  <2>1. N - a \in Nat /\ N - (N - a) = a
    BY <1>1
  <2>2. N - a \notin Bad
    BY <1>2
  <2>. QED  BY <2>1, <2>2
<1>4. \A a \in Bodied(T) : a \in V => a \in fr
  BY DEF Staged
<1>. QED  BY <1>3, <1>4

\* The blocks of a function are those it was collected with.
InFunction(T, co, f, x) ==
    \E c \in 1..Len(co) : co[c].name = T[f].name /\ \E m \in 1..Len(co[c].blocks) : x = co[c].blocks[m]

LEMMA EndLists ==
  ASSUME NEW T, NEW cj, NEW w, NEW co, NEW f, Len(w) = 0, f # Null, NEW x
  PROVE  Lists(T, cj, w, co, f, x) <=> InFunction(T, co, f, x)
BY DEF Lists, InFunction, Within

(***************************************************************************)
(* What is left: functions and join points are gone, ifs jump, and every   *)
(* jump leads to a block of its function.                                  *)
(***************************************************************************)
Done(T, G, h, fr, r, co) ==
    /\ Shaped(h) /\ LinksOwn(h, fr, r) /\ Len(T) \in Nat /\ Len(T) <= Len(h) /\ Null \notin Funs(T)
    /\ \A a \in 1..Len(T) : h[a].tag = T[a].tag /\ (a \in Bodied(T) => a \in fr) /\ (a \in fr => a \in Bodied(T))
    /\ \A a \in 1..Len(T) : h[a].tag = "If" => G[a] \in Funs(T) /\ \A i \in 1..2 :
          /\ h[a].kids[i] \in (Len(T) + 1)..Len(h)
          /\ \E x : InFunction(T, co, G[a], x) /\ x.name = h[h[a].kids[i]].name /\ x.slot = <<>>
    /\ \A a \in 1..Len(T) : h[a].tag = "Jump" =>
          \E x : InFunction(T, co, G[a], x) /\ x.name = h[a].name /\ Len(x.slot) = Len(h[a].vals)
    /\ \A a \in (Len(T) + 1)..Len(h) : h[a].tag = "Jump" /\ h[a].vals = <<>>
    /\ \A a \in fr : a \in 1..Len(T)
    /\ Descends(T, G, h, fr)

LEMMA WalkDone ==
  ASSUME NEW T, NEW G, NEW h, NEW fr, NEW r, NEW cj, NEW w, NEW co, NEW ctr, NEW V,
         Placed(T, G), Named(T, G), Layer(T, G, h, fr, r, cj, w, co, ctr, V), Len(w) = 0
  PROVE  Done(T, G, h, fr, r, co)
<1>1. /\ Shaped(h) /\ LinksOwn(h, fr, r) /\ Intact(T, h, fr, V) /\ Descends(T, G, h, fr)
      /\ Staged(T, G, fr, w, V) /\ Ifs(T, G, h, cj, w, co, V) /\ Blocks(T, G, h, fr, cj, w, co, ctr)
  BY DEF Layer
<1>2. \A a \in 1..Len(T) : a \in V /\ (a \in Bodied(T) => a \in fr)
  BY <1>1, AllVisited
<1>3. Len(T) \in Nat /\ Len(T) <= Len(h) /\ Null \notin Funs(T) /\ \A a \in fr : a \in Bodied(T) /\ a \in 1..Len(T)
  <2>1. Len(T) \in Nat /\ Len(T) <= Len(h) /\ \A a \in fr : a \in Bodied(T)
    BY <1>1 DEF Placed, Shaped, Intact
  <2>2. Null \notin Funs(T)
    BY <2>1 DEF Funs, Null
  <2>. QED  BY <2>1, <2>2 DEF Bodied
<1>4. \A a \in 1..Len(T) : h[a].tag = T[a].tag
  BY <1>1 DEF Intact
<1>5. ASSUME NEW a \in 1..Len(T), h[a].tag = "If"
      PROVE  /\ G[a] \in Funs(T)
             /\ \A i \in 1..2 : /\ h[a].kids[i] \in (Len(T) + 1)..Len(h)
                                /\ \E x : /\ InFunction(T, co, G[a], x)
                                          /\ x.name = h[h[a].kids[i]].name /\ x.slot = <<>>
  <2>1. T[a].tag = "If" /\ a \in V
    BY <1>2, <1>4, <1>5
  <2>2. G[a] \in Funs(T) /\ G[a] # Null
    BY <1>3, <2>1 DEF Placed
  <2>3. ~Waiting(w, a)
    BY DEF Waiting
  <2>4. Jumped(T, G, h, cj, w, co, a)
    BY <1>1, <2>1, <2>3 DEF Ifs
  <2>5. \A x : Lists(T, cj, w, co, G[a], x) => InFunction(T, co, G[a], x)
    BY <2>2, EndLists
  <2>. QED  BY <2>2, <2>4, <2>5 DEF Jumped
<1>6. ASSUME NEW a \in 1..Len(T), h[a].tag = "Jump"
      PROVE  \E x : InFunction(T, co, G[a], x) /\ x.name = h[a].name /\ Len(x.slot) = Len(h[a].vals)
  <2>1. T[a].tag = "Jump" /\ a \notin Bodied(T)
    BY <1>4, <1>6 DEF Bodied
  <2>2. h[a].name = T[a].name /\ h[a].vals = T[a].vals
    BY <1>1, <2>1 DEF Intact
  <2>3. G[a] # Null
    BY <1>3, <2>1 DEF Placed
  <2>4. PICK b \in 1..Len(T) : T[b].tag = "Join" /\ T[b].name = T[a].name /\ Len(T[b].params) = Len(T[a].vals) /\ G[b] = G[a]
    BY <2>1 DEF Named
  <2>5. Gone(h, fr, b)
    BY <1>2, <2>4 DEF Gone, Bodied
  <2>6. PICK x : Lists(T, cj, w, co, G[b], x) /\ x.name = T[b].name /\ x.slot = T[b].params
    BY <1>1, <2>4, <2>5 DEF Blocks, JoinsListed
  <2>7. InFunction(T, co, G[a], x)
    BY <2>3, <2>4, <2>6, EndLists
  <2>. QED  BY <2>2, <2>4, <2>6, <2>7
<1>7. \A a \in (Len(T) + 1)..Len(h) : h[a].tag = "Jump" /\ h[a].vals = <<>>
  BY <1>1 DEF Intact
<1>. QED  BY ONLY <1>1, <1>2, <1>3, <1>4, <1>5, <1>6, <1>7 DEF Done

-----------------------------------------------------------------------------
\* The code of function f: nodes of the term, and jumps that ifs lead to.
Inside(T, G, h, fr, f) ==
    {a \in 1..Len(h) :
       \/ a <= Len(T) /\ a \notin fr /\ G[a] = f
       \/ a > Len(T) /\ \E p \in 1..Len(T) : h[p].tag = "If" /\ G[p] = f /\ \E i \in 1..2 : h[p].kids[i] = a}

\* What the code of a function is.
FlatNode(h, co, T, f, a) ==
    /\ h[a].tag \notin {"Fun", "Join"}
    /\ h[a].tag = "If" => \A i \in 1..2 : h[h[a].kids[i]].tag = "Jump"
    /\ h[a].tag = "Jump" => \E x : InFunction(T, co, f, x) /\ x.name = h[a].name /\ Len(x.slot) = Len(h[a].vals)

LEMMA InsideFlat ==
  ASSUME NEW T, NEW G, NEW h, NEW fr, NEW r, NEW co, NEW f \in Funs(T), Done(T, G, h, fr, r, co),
         NEW a \in Inside(T, G, h, fr, f)
  PROVE  FlatNode(h, co, T, f, a)
<1>1. a \in 1..Len(h) /\ Len(T) \in Nat /\ Len(h) \in Nat
  BY DEF Inside, Done, Shaped
<1>2. CASE a <= Len(T)
  <2>1. a \in 1..Len(T) /\ a \notin fr /\ G[a] = f
    BY <1>1, <1>2 DEF Inside
  <2>2. h[a].tag = T[a].tag /\ a \notin Bodied(T)
    BY <2>1 DEF Done
  <2>3. h[a].tag \notin {"Fun", "Join"}
    BY <2>1, <2>2 DEF Bodied
  <2>4. h[a].tag = "If" => \A i \in 1..2 : h[h[a].kids[i]].tag = "Jump"
    BY <2>1 DEF Done
  <2>5. h[a].tag = "Jump" => \E x : InFunction(T, co, f, x) /\ x.name = h[a].name /\ Len(x.slot) = Len(h[a].vals)
    BY <2>1 DEF Done
  <2>. QED  BY <2>3, <2>4, <2>5 DEF FlatNode
<1>3. CASE ~(a <= Len(T))
  <2>1. PICK p \in 1..Len(T), i \in 1..2 : h[p].tag = "If" /\ G[p] = f /\ h[p].kids[i] = a
    BY <1>1, <1>3 DEF Inside
  <2>2. h[a].tag = "Jump" /\ h[a].vals = <<>>
    BY <1>1, <1>3 DEF Done
  <2>3. PICK x : InFunction(T, co, f, x) /\ x.name = h[a].name /\ x.slot = <<>>
    BY <2>1 DEF Done
  <2>4. Len(x.slot) = Len(h[a].vals)
    BY <2>2, <2>3
  <2>. QED  BY <2>2, <2>3, <2>4 DEF FlatNode
<1>. QED  BY <1>2, <1>3

\* Nothing below it is outside.
LEMMA InsideKid ==
  ASSUME NEW T, NEW G, NEW h, NEW fr, NEW r, NEW co, NEW f, Done(T, G, h, fr, r, co),
         NEW a \in Inside(T, G, h, fr, f), NEW i \in 1..Len(h[a].kids), h[a].kids[i] \in 1..Len(h)
  PROVE  /\ h[a].kids[i] \in Inside(T, G, h, fr, f)
         /\ a <= Len(T) /\ (h[a].kids[i] < a \/ h[a].kids[i] > Len(T))
<1>1. a \in 1..Len(h) /\ Len(T) \in Nat /\ Len(h) \in Nat /\ Shaped(h)
  BY DEF Inside, Done, Shaped
<1>2. a <= Len(T)
  <2>. SUFFICES ASSUME ~(a <= Len(T)) PROVE FALSE
    BY <1>1
  <2>1. h[a].tag = "Jump"
    BY <1>1 DEF Done
  <2>2. Len(h[a].kids) = 0
    BY <1>1, <2>1 DEF Shaped, Arities
  <2>. QED  BY <2>2
<1>3. a \in 1..Len(T) /\ a \notin fr /\ G[a] = f
  BY <1>1, <1>2 DEF Inside
<1>4. h[a].tag = T[a].tag /\ h[a].tag \notin {"Fun", "Join"}
  BY <1>3 DEF Done, Bodied
<1>5. PICK k : k = h[a].kids[i]
  OBVIOUS
<1>6. k \in 1..Len(h) /\ k # Null
  BY <1>1, <1>5 DEF Null
<1>7. k \notin fr
  <2>1. IsLink(h, fr, a, i) /\ To(h, r, a, i) = k
    BY <1>1, <1>3, <1>5 DEF IsLink, To, Live, Null
  <2>2. k \in Live(h, fr) \cup {Null}
    BY <2>1 DEF Done, LinksOwn
  <2>. QED  BY <1>6, <2>2 DEF Live
<1>8. \/ k \in 1..(a - 1) /\ G[k] = HomeOf(T, G, a, i)
      \/ T[a].tag = "If" /\ k \in (Len(T) + 1)..Len(h)
  BY <1>3, <1>5, <1>6 DEF Done, Descends
<1>9. CASE k \in 1..(a - 1) /\ G[k] = HomeOf(T, G, a, i)
  <2>1. G[k] = f
    BY <1>3, <1>4, <1>9 DEF HomeOf
  <2>2. k <= Len(T) /\ k < a
    BY <1>1, <1>3, <1>9
  <2>3. k \in Inside(T, G, h, fr, f)
    BY <1>6, <1>7, <2>1, <2>2 DEF Inside
  <2>. QED  BY <1>2, <1>5, <2>2, <2>3
<1>10. CASE T[a].tag = "If" /\ k \in (Len(T) + 1)..Len(h)
  <2>1. h[a].tag = "If" /\ i \in 1..2
    <3>1. h[a].tag = "If"
      BY <1>4, <1>10
    <3>2. Len(h[a].kids) = 2
      <4>1. Len(h[a].kids) = Arities[h[a].tag]
        BY <1>1 DEF Shaped
      <4>. QED  BY ONLY <3>1, <4>1 DEF Arities
    <3>. QED  BY <3>1, <3>2
  <2>2. k > Len(T)
    BY <1>1, <1>10
  <2>3. k \in Inside(T, G, h, fr, f)
    BY <1>3, <1>5, <1>6, <2>1, <2>2 DEF Inside
  <2>. QED  BY <1>2, <1>5, <2>2, <2>3
<1>. QED  BY <1>8, <1>9, <1>10

-----------------------------------------------------------------------------
(***************************************************************************)
(* The list of functions.                                                  *)
(***************************************************************************)
\* What BlocksAreFlat says of each function.
FlatFunction(h, f) ==
    LET all == <<f.entry>> \o f.blocks
    IN  /\ IsInjective([m \in 1..Len(all) |-> all[m].name])
        /\ \A b \in Range(all) : \A a \in Below(h)[b.body] :
              /\ h[a].tag \notin {"Fun", "Join"}
              /\ h[a].tag = "If" =>
                    \A i \in 1..2 : h[h[a].kids[i]].tag = "Jump"
              /\ h[a].tag = "Jump" => \E t \in Range(f.blocks) :
                    t.name = h[a].name /\ Len(t.slot) = Len(h[a].vals)

LEMMA AllBlocksAre ==
  ASSUME NEW S, NEW e \in S, NEW s \in Seq(S), NEW all, all = <<e>> \o s
  PROVE  /\ all \in Seq(S) /\ Len(all) = Len(s) + 1 /\ Len(s) \in Nat /\ all[1] = e
         /\ \A m \in 1..Len(s) : all[m + 1] = s[m]
OBVIOUS

\* Where the entry and the blocks of a function are, and what they are called.
Bodies(T, G, h, fr, co, c, f) ==
    /\ co[c].name = T[f].name
    /\ co[c].entry.body \in Inside(T, G, h, fr, f)
    /\ \A m \in 1..Len(co[c].blocks) : co[c].blocks[m].body \in Inside(T, G, h, fr, f)
    /\ \A m \in 1..Len(co[c].blocks) : co[c].blocks[m].name # co[c].entry.name
    /\ \A m, n \in 1..Len(co[c].blocks) : co[c].blocks[m].name = co[c].blocks[n].name => m = n

\* A block that is known is not called as an entry is.
LEMMA KnownName ==
  ASSUME NEW T, NEW G, NEW h, NEW fr, NEW ctr, Named(T, G), NEW x, Known(T, h, fr, ctr, x)
  PROVE  x.base # "entry"
<1>1. CASE \E a \in 1..Len(T) : T[a].tag = "Join" /\ Gone(h, fr, a) /\ x = T[a].name
  BY <1>1 DEF Named
<1>2. CASE \E k \in 0..(ctr - 1) : x = ThenName(k) \/ x = ElseName(k)
  BY <1>2, BlockNames
<1>. QED  BY <1>1, <1>2 DEF Known

LEMMA BodiesInside ==
  ASSUME NEW T, NEW G, NEW h, NEW fr, NEW r, NEW cj, NEW w, NEW co, NEW ctr, NEW V,
         Placed(T, G), Named(T, G), Layer(T, G, h, fr, r, cj, w, co, ctr, V), Len(w) = 0,
         Owned(h, fr, r, cj, w, co), ctr <= IntMax, NEW c \in 1..Len(co)
  PROVE  \E f \in Funs(T) : Bodies(T, G, h, fr, co, c, f)
<1>1. Blocks(T, G, h, fr, cj, w, co, ctr) /\ Colls(T, G, h, fr, co) /\ Len(T) \in Nat /\ Len(T) <= Len(h) /\ Len(h) \in Nat
  BY DEF Layer, Placed, Intact, Shaped
<1>2. PICK f \in Funs(T) :
         /\ co[c].name = T[f].name /\ co[c].entry.name.base = "entry"
         /\ co[c].entry.body \in 1..Len(T) /\ G[co[c].entry.body] = f
  BY <1>1 DEF Colls
<1>3. f # Null
  BY <1>1 DEF Funs, Null
<1>4. ASSUME NEW n \in 1..Len(T), n \in Live(h, fr) \cup {Null}, G[n] = f
      PROVE  n \in Inside(T, G, h, fr, f)
  BY <1>1, <1>4 DEF Inside, Live, Null
<1>5. co[c].entry.body \in Inside(T, G, h, fr, f)
  <2>1. Holds(h, fr, r, cj, w, co, "entry", c, 0, co[c].entry.body)
    BY DEF Holds
  <2>2. co[c].entry.body \in Live(h, fr) \cup {Null}
    BY <2>1 DEF Owned
  <2>. QED  BY <1>2, <1>4, <2>2
<1>6. ASSUME NEW m \in 1..Len(co[c].blocks)
      PROVE  /\ Lists(T, cj, w, co, f, co[c].blocks[m])
             /\ co[c].blocks[m].body \in 1..Len(T) /\ G[co[c].blocks[m].body] = f
             /\ Known(T, h, fr, ctr, co[c].blocks[m].name)
             /\ Holds(h, fr, r, cj, w, co, "block", c, m, co[c].blocks[m].body)
  <2>1. Lists(T, cj, w, co, f, co[c].blocks[m])
    BY <1>2 DEF Lists
  <2>2. Holds(h, fr, r, cj, w, co, "block", c, m, co[c].blocks[m].body)
    BY DEF Holds
  <2>. QED  BY <1>1, <2>1, <2>2 DEF Blocks, BlocksKnown
<1>7. ASSUME NEW m \in 1..Len(co[c].blocks)
      PROVE  co[c].blocks[m].body \in Inside(T, G, h, fr, f) /\ co[c].blocks[m].name # co[c].entry.name
  <2>1. co[c].blocks[m].body \in Live(h, fr) \cup {Null}
    BY <1>6 DEF Owned
  <2>2. co[c].blocks[m].name.base # "entry"
    BY <1>6, KnownName
  <2>. QED  BY <1>2, <1>4, <1>6, <2>1, <2>2
<1>8. ASSUME NEW m \in 1..Len(co[c].blocks), NEW n \in 1..Len(co[c].blocks), co[c].blocks[m].name = co[c].blocks[n].name
      PROVE  m = n
  <2>1. Lists(T, cj, w, co, f, co[c].blocks[m]) /\ Lists(T, cj, w, co, f, co[c].blocks[n])
    BY <1>6
  <2>2. BlocksApart(T, cj, w, co)
    BY <1>1 DEF Blocks
  <2>3. co[c].blocks[m] = co[c].blocks[n]
    BY ONLY <1>8, <2>1, <2>2, f \in Funs(T) DEF BlocksApart
  <2>4. PICK b : b = co[c].blocks[m].body
    OBVIOUS
  <2>5. /\ Holds(h, fr, r, cj, w, co, "block", c, m, b) /\ Holds(h, fr, r, cj, w, co, "block", c, n, b)
        /\ b \in 1..Len(T)
    BY <1>6, <2>3, <2>4
  <2>6. b # Null
    BY <1>1, <2>5 DEF Null
  <2>. QED  BY <2>5, <2>6 DEF Owned
<1>9. Bodies(T, G, h, fr, co, c, f)
  BY ONLY <1>2, <1>5, <1>7, <1>8 DEF Bodies
<1>. QED  BY <1>9

\* The blocks of a function are flat.
LEMMA BodiesFlat ==
  ASSUME NEW T, NEW G, NEW h, NEW fr, NEW r, NEW co, NEW c \in 1..Len(co), NEW f \in Funs(T),
         Done(T, G, h, fr, r, co), Bodies(T, G, h, fr, co, c, f), Colls(T, G, h, fr, co), co \in Seq(FunRec)
  PROVE  FlatFunction(h, co[c])
<1>1. PICK g, all : g = co[c] /\ all = <<g.entry>> \o g.blocks
  OBVIOUS
<1>2. g.entry \in JoinRec /\ g.blocks \in Seq(JoinRec)
  <2>1. g \in FunRec
    BY <1>1, ElementOfSeq
  <2>. QED  BY <2>1 DEF FunRec
<1>3. /\ all \in Seq(JoinRec) /\ Len(all) = Len(g.blocks) + 1 /\ Len(g.blocks) \in Nat /\ all[1] = g.entry
      /\ \A m \in 1..Len(g.blocks) : all[m + 1] = g.blocks[m]
  BY ONLY <1>1, <1>2, AllBlocksAre
<1>4. \A k \in 1..Len(all) : k = 1 \/ (k - 1 \in 1..Len(g.blocks) /\ all[k] = g.blocks[k - 1])
  <2>. SUFFICES ASSUME NEW k \in 1..Len(all), k # 1
                PROVE  k - 1 \in 1..Len(g.blocks) /\ all[k] = g.blocks[k - 1]
    OBVIOUS
  <2>1. k - 1 \in 1..Len(g.blocks) /\ (k - 1) + 1 = k
    BY <1>3
  <2>. QED  BY <1>3, <2>1
<1>5. IsInjective([m \in 1..Len(all) |-> all[m].name])
  <2>. SUFFICES ASSUME NEW k \in 1..Len(all), NEW l \in 1..Len(all), all[k].name = all[l].name
                PROVE  k = l
    BY DEF IsInjective
  <2>1. CASE k = 1 /\ l = 1
    BY <2>1
  <2>2. CASE k = 1 /\ l # 1
    <3>1. l - 1 \in 1..Len(g.blocks) /\ g.blocks[l - 1].name = g.entry.name
      BY <1>3, <1>4, <2>2
    <3>. QED  BY <1>1, <3>1 DEF Bodies
  <2>3. CASE k # 1 /\ l = 1
    <3>1. k - 1 \in 1..Len(g.blocks) /\ g.blocks[k - 1].name = g.entry.name
      BY <1>3, <1>4, <2>3
    <3>. QED  BY <1>1, <3>1 DEF Bodies
  <2>4. CASE k # 1 /\ l # 1
    <3>1. k - 1 \in 1..Len(g.blocks) /\ l - 1 \in 1..Len(g.blocks) /\ g.blocks[k - 1].name = g.blocks[l - 1].name
      BY <1>4, <2>4
    <3>2. k - 1 = l - 1
      BY <1>1, <3>1 DEF Bodies
    <3>. QED  BY <3>2
  <2>. QED  BY <2>1, <2>2, <2>3, <2>4
<1>6. \A b \in Range(all) : b.body \in Inside(T, G, h, fr, f)
  <2>. SUFFICES ASSUME NEW k \in 1..Len(all) PROVE all[k].body \in Inside(T, G, h, fr, f)
    BY <1>3 DEF Range
  <2>. QED  BY <1>1, <1>3, <1>4 DEF Bodies
<1>7. Closed(h, Inside(T, G, h, fr, f))
  <2>1. \A a \in Inside(T, G, h, fr, f) : a \in 1..Len(h)
    BY DEF Inside
  <2>2. \A a \in Inside(T, G, h, fr, f) : \A i \in 1..Len(h[a].kids) :
           h[a].kids[i] \in 1..Len(h) => h[a].kids[i] \in Inside(T, G, h, fr, f)
    BY InsideKid
  <2>. QED  BY ONLY <2>1, <2>2 DEF Closed
<1>8. \A b \in Inside(T, G, h, fr, f) : Below(h)[b] \subseteq Inside(T, G, h, fr, f)
  <2>1. \A a \in Inside(T, G, h, fr, f) : a \in Nat
    BY DEF Inside
  <2>2. \A a \in Inside(T, G, h, fr, f) : \A i \in 1..Len(h[a].kids) :
           h[a].kids[i] \in 1..Len(h) => a <= Len(T) /\ (h[a].kids[i] < a \/ h[a].kids[i] > Len(T))
    BY InsideKid
  <2>3. Len(T) \in Nat
    BY DEF Done
  <2>. QED  BY ONLY <1>7, <2>1, <2>2, <2>3, BelowInside
<1>9. ASSUME NEW a \in Inside(T, G, h, fr, f)
      PROVE  /\ h[a].tag \notin {"Fun", "Join"}
             /\ h[a].tag = "If" => \A i \in 1..2 : h[h[a].kids[i]].tag = "Jump"
             /\ h[a].tag = "Jump" => \E t \in Range(g.blocks) : t.name = h[a].name /\ Len(t.slot) = Len(h[a].vals)
  <2>1. FlatNode(h, co, T, f, a)
    BY InsideFlat
  <2>2. ASSUME NEW x, InFunction(T, co, f, x) PROVE x \in Range(g.blocks)
    <3>1. PICK d \in 1..Len(co) : co[d].name = T[f].name /\ \E m \in 1..Len(co[d].blocks) : x = co[d].blocks[m]
      BY <2>2 DEF InFunction
    <3>2. d = c
      BY <3>1 DEF Bodies, Colls
    <3>. QED  BY <1>1, <1>2, <3>1, <3>2 DEF Range
  <2>. QED  BY <2>1, <2>2 DEF FlatNode
<1>10. FlatFunction(h, g)
  BY ONLY <1>1, <1>5, <1>6, <1>8, <1>9 DEF FlatFunction
<1>. QED  BY <1>1, <1>10

LEMMA EndFlat ==
  ASSUME NEW T, NEW G, NEW h, NEW fr, NEW r, NEW cj, NEW w, NEW co, NEW ctr, NEW V,
         Placed(T, G), Named(T, G), Layer(T, G, h, fr, r, cj, w, co, ctr, V), Len(w) = 0,
         Owned(h, fr, r, cj, w, co), ctr <= IntMax, co \in Seq(FunRec)
  PROVE  /\ IsInjective([c \in 1..Len(co) |-> co[c].name])
         /\ \A f \in Range(co) : FlatFunction(h, f)
<1>1. Done(T, G, h, fr, r, co) /\ Colls(T, G, h, fr, co)
  BY WalkDone DEF Layer
<1>2. IsInjective([c \in 1..Len(co) |-> co[c].name])
  BY <1>1 DEF IsInjective, Colls
<1>3. ASSUME NEW c \in 1..Len(co) PROVE FlatFunction(h, co[c])
  <2>1. PICK f \in Funs(T) : Bodies(T, G, h, fr, co, c, f)
    BY BodiesInside
  <2>. QED  BY <1>1, <2>1, BodiesFlat
<1>4. \A f \in Range(co) : \E c \in 1..Len(co) : f = co[c]
  BY DEF Range
<1>. QED  BY <1>2, <1>3, <1>4

-----------------------------------------------------------------------------
(***************************************************************************)
(* Which function each node of a term is in.                               *)
(***************************************************************************)
\* The parent of a node is the one that has it as a child.
LEMMA ParentIs ==
  ASSUME NEW h, IsTerm(h), NEW a \in 1..Len(h), NEW i \in 1..Len(h[a].kids), NEW b, b = h[a].kids[i]
  PROVE  Parent(h, b) = a
<1>. DEFINE Has(o) == o \in 1..Len(h) /\ \E j \in 1..Len(h[o].kids) : h[o].kids[j] = b
<1>1. Parent(h, b) = CHOOSE o \in 1..Len(h) : \E j \in 1..Len(h[o].kids) : h[o].kids[j] = b
  BY DEF Parent
<1>2. Has(a)
  OBVIOUS
<1>3. \A o : Has(o) => o = a
  BY DEF IsTerm
<1>. QED  BY <1>1, <1>2, <1>3

LEMMA ParentAbove ==
  ASSUME NEW h, IsTerm(h), NEW b \in 1..(Len(h) - 1)
  PROVE  Len(h) \in Nat /\ Parent(h, b) \in 1..Len(h) /\ b < Parent(h, b)
<1>1. Len(h) \in Nat
  BY DEF IsTerm
<1>2. PICK a \in 1..Len(h) : \E j \in 1..Len(h[a].kids) : h[a].kids[j] = b
  BY DEF IsTerm
<1>2a. PICK i \in 1..Len(h[a].kids) : h[a].kids[i] = b
  BY <1>2
<1>3. Parent(h, b) = a
  BY <1>2a, ParentIs
<1>4. h[a].kids[i] \in 1..(a - 1)
  BY DEF IsTerm
<1>. QED  BY <1>1, <1>2a, <1>3, <1>4

\* What makes H the function of node a.
HomeBelow(h, H, a) ==
    IF a = Len(h) THEN Null
    ELSE IF h[Parent(h, a)].tag = "Fun" /\ h[Parent(h, a)].kids[1] = a THEN Parent(h, a)
    ELSE H[Parent(h, a)]

\* Home is well defined: by induction from the root down.
LEMMA HomeIs ==
  ASSUME NEW h, IsTerm(h)
  PROVE  \A a \in 1..Len(h) : Home(h)[a] = HomeBelow(h, Home(h), a)
<1>1. Len(h) \in Nat
  BY DEF IsTerm
<1>. DEFINE D == 1..Len(h)
            Good(n, f) == /\ f = [a \in D |-> f[a]]
                          /\ \A a \in D : Len(h) - a < n => f[a] = HomeBelow(h, f, a)
            T == {n \in Nat : ~\E f : Good(n, f)}
<1>2. \A a \in D : a = Len(h) \/ (Parent(h, a) \in D /\ Len(h) - Parent(h, a) < Len(h) - a)
  <2>. SUFFICES ASSUME NEW a \in D, a # Len(h)
                PROVE  Parent(h, a) \in D /\ Len(h) - Parent(h, a) < Len(h) - a
    OBVIOUS
  <2>1. a \in 1..(Len(h) - 1)
    BY <1>1
  <2>. QED  BY <1>1, <2>1, ParentAbove
<1>3. T = {}
  <2>. SUFFICES ASSUME T # {} PROVE FALSE
    OBVIOUS
  <2>1. PICK m \in T : \A k \in T : m <= k
    <3>1. T \subseteq Nat
      OBVIOUS
    <3>. QED  BY ONLY <3>1, T # {}, LeastNumber
  <2>2. m \in Nat /\ ~\E f : Good(m, f)
    OBVIOUS
  <2>3. CASE m = 0
    <3>1. Good(0, [a \in D |-> {}])
      BY <1>1
    <3>. QED  BY <2>2, <2>3, <3>1
  <2>4. CASE m # 0
    <3>1. m - 1 \in Nat /\ ~(m <= m - 1)
      BY <2>2, <2>4
    <3>2. PICK f : Good(m - 1, f)
      BY <2>1, <3>1
    <3>3. PICK g : g = [a \in D |-> HomeBelow(h, f, a)]
      OBVIOUS
    <3>4. \A a \in D : Len(h) - a < m - 1 => g[a] = f[a]
      BY <3>2, <3>3
    <3>5. ASSUME NEW a \in D, Len(h) - a < m
          PROVE  g[a] = HomeBelow(h, g, a)
      <4>1. a = Len(h) \/ g[Parent(h, a)] = f[Parent(h, a)]
        <5>1. a = Len(h) \/ (Parent(h, a) \in D /\ Len(h) - Parent(h, a) < m - 1)
          <6>1. PICK p : p = Parent(h, a)
            OBVIOUS
          <6>2. a = Len(h) \/ (p \in D /\ Len(h) - p < Len(h) - a)
            BY <1>2, <6>1
          <6>. QED  BY <1>1, <2>2, <3>5, <6>1, <6>2
        <5>. QED  BY <3>4, <5>1
      <4>2. HomeBelow(h, f, a) = HomeBelow(h, g, a)
        BY ONLY <4>1 DEF HomeBelow
      <4>3. g[a] = HomeBelow(h, f, a)
        BY ONLY <3>3, a \in D
      <4>. QED  BY ONLY <4>2, <4>3
    <3>6. Good(m, g)
      <4>1. g = [a \in D |-> g[a]]
        BY ONLY <3>3
      <4>. QED  BY ONLY <3>5, <4>1
    <3>. QED  BY <2>2, <3>6
  <2>. QED  BY <2>3, <2>4
<1>4. PICK f : Good(Len(h), f)
  <2>1. Len(h) \in Nat /\ Len(h) \notin T
    BY <1>1, <1>3
  <2>. QED  BY ONLY <2>1
<1>5. f = [a \in D |-> HomeBelow(h, f, a)]
  <2>1. \A a \in D : Len(h) - a < Len(h)
    BY <1>1
  <2>. QED  BY <1>4, <2>1
<1>6. Home(h) = CHOOSE H : H = [a \in 1..Len(h) |-> HomeBelow(h, H, a)]
  BY DEF Home, HomeBelow
<1>7. PICK G : G = Home(h)
  OBVIOUS
<1>8. G = [a \in D |-> HomeBelow(h, G, a)]
  BY <1>5, <1>6, <1>7
<1>. QED  BY <1>7, <1>8

\* It is a function of the term or main.
LEMMA HomeFun ==
  ASSUME NEW h, IsTerm(h)
  PROVE  \A a \in 1..Len(h) : Home(h)[a] = Null \/ Home(h)[a] \in Tagged(h, "Fun")
<1>1. Len(h) \in Nat
  BY DEF IsTerm
<1>. DEFINE N == Len(h)
            Fine(a) == Home(h)[a] = Null \/ Home(h)[a] \in Tagged(h, "Fun")
            Bad == {k \in Nat : N - k \in 1..N /\ ~Fine(N - k)}
<1>2. Bad = {}
  <2>. SUFFICES ASSUME Bad # {} PROVE FALSE
    OBVIOUS
  <2>1. PICK m \in Bad : \A k \in Bad : m <= k
    <3>1. Bad \subseteq Nat
      OBVIOUS
    <3>. QED  BY ONLY <3>1, Bad # {}, LeastNumber
  <2>2. PICK a : a = N - m /\ a \in 1..N /\ ~Fine(a) /\ m \in Nat
    OBVIOUS
  <2>3. PICK p : p = Parent(h, a)
    OBVIOUS
  <2>4. Home(h)[a] = HomeBelow(h, Home(h), a)
    BY <2>2, HomeIs
  <2>5. a # N
    BY <2>2, <2>4 DEF HomeBelow
  <2>6. a \in 1..(N - 1)
    BY <1>1, <2>2, <2>5
  <2>7. p \in 1..N /\ a < p
    BY <2>3, <2>6, ParentAbove
  <2>8. Home(h)[a] = Home(h)[p]
    BY <2>2, <2>3, <2>4, <2>7 DEF HomeBelow, Tagged
  <2>9. ~Fine(p)
    BY <2>2, <2>8
  <2>10. PICK k : k = N - p
    OBVIOUS
  <2>11. k \in Nat /\ N - k = p
    BY <1>1, <2>7, <2>10
  <2>12. k \in Bad
    BY <2>7, <2>9, <2>11
  <2>13. m <= k
    BY <2>1, <2>12
  <2>. QED  BY <1>1, <2>2, <2>7, <2>10, <2>13
<1>3. ASSUME NEW a \in 1..N PROVE Fine(a)
  <2>1. N - a \in Nat /\ N - (N - a) = a
    BY <1>1
  <2>2. N - a \notin Bad
    BY <1>2
  <2>. QED  BY <2>1, <2>2
<1>. QED  BY <1>3

\* A child is in the function of its parent, or its body.
LEMMA HomeKid ==
  ASSUME NEW h, IsTerm(h), NEW a \in 1..Len(h), NEW i \in 1..Len(h[a].kids), NEW b, b = h[a].kids[i]
  PROVE  /\ b \in 1..(Len(h) - 1) /\ b \in 1..(a - 1)
         /\ Home(h)[b] = IF h[a].tag = "Fun" /\ i = 1 THEN a ELSE Home(h)[a]
<1>1. Len(h) \in Nat /\ b \in 1..(a - 1)
  BY DEF IsTerm
<1>2. b \in 1..(Len(h) - 1) /\ b \in 1..Len(h) /\ b # Len(h)
  BY <1>1
<1>3. Parent(h, b) = a
  BY ParentIs
<1>4. Home(h)[b] = HomeBelow(h, Home(h), b)
  BY <1>2, HomeIs
<1>5. h[a].tag = "Fun" => (h[a].kids[1] = b <=> i = 1)
  <2>. SUFFICES ASSUME h[a].tag = "Fun", h[a].kids[1] = b PROVE i = 1
    OBVIOUS
  <2>1. 1 \in 1..Len(h[a].kids)
    <3>1. Len(h[a].kids) = Arities[h[a].tag]
      BY DEF IsTerm, IsNode
    <3>2. Len(h[a].kids) = 2
      BY ONLY <3>1, h[a].tag = "Fun" DEF Arities
    <3>. QED  BY <3>2
  <2>. QED  BY <2>1 DEF IsTerm
<1>. QED  BY <1>1, <1>2, <1>3, <1>4, <1>5 DEF HomeBelow

-----------------------------------------------------------------------------
(***************************************************************************)
(* The whole term.                                                         *)
(***************************************************************************)
LEMMA MainName ==
  ASSUME NEW b \in Nat, NEW r \in Nat
  PROVE  FunExp(Main, <<>>, b, r).name = Main
<1>1. PICK n, x, ps, ks : n = FunExp(x, ps, b, r) /\ x = Main /\ ps = <<>> /\ ks = <<b, r>>
  OBVIOUS
<1>2. n = Node("Fun", x, ps, ps, ks)
  BY <1>1 DEF FunExp
<1>3. n.name = x
  BY ONLY <1>2 DEF Node
<1>. QED  BY <1>1, <1>3

\* The term T is g with the function main around it.
Surrounds(g, T, L) ==
    MainTerm(g, T, L) /\ L = Len(g) /\ T[L + 2].name = Main

LEMMA WholeAround ==
  ASSUME NEW g, IsTerm(g), NEW T, T = g \o <<HaltExp(IntValue(0)), FunExp(Main, <<>>, Len(g), Len(g) + 1)>>
  PROVE  Surrounds(g, T, Len(g))
<1>1. PICK p, q, L : p = HaltExp(IntValue(0)) /\ q = FunExp(Main, <<>>, Len(g), Len(g) + 1) /\ L = Len(g)
  OBVIOUS
<1>2. MainTerm(g, T, L)
  BY ONLY <1>1, IsTerm(g), T = g \o <<HaltExp(IntValue(0)), FunExp(Main, <<>>, Len(g), Len(g) + 1)>>, MainMade
<1>3. L \in Nat /\ L + 1 \in Nat
  BY <1>2 DEF MainTerm
<1>4. q.name = Main
  <2>1. PICK r : r = L + 1
    OBVIOUS
  <2>2. FunExp(Main, <<>>, L, r).name = Main
    BY ONLY <1>3, <2>1, MainName
  <2>. QED  BY <1>1, <2>1, <2>2
<1>5. T[L + 2] = q
  <2>1. g \in Seq(HeapNode)
    BY DEF IsTerm
  <2>2. PICK S : g \in Seq(S) /\ p \in S /\ q \in S
    <3>1. PICK S : S = HeapNode \cup {p, q}
      OBVIOUS
    <3>2. g \in Seq(S)
      <4>1. \A i \in 1..Len(g) : g[i] \in S
        BY <2>1, <3>1
      <4>. QED  BY ONLY <2>1, <4>1
    <3>. QED  BY <3>1, <3>2
  <2>3. T = g \o <<p, q>>
    BY <1>1
  <2>. QED  BY ONLY <1>1, <2>2, <2>3, PushTwo
<1>. QED  BY <1>1, <1>2, <1>4, <1>5 DEF Surrounds

\* The function of each node: that in the term, or main.
PlaceOf(g, L) ==
    [a \in 1..(L + 2) |-> IF a > L THEN Null ELSE IF Home(g)[a] = Null THEN L + 2 ELSE Home(g)[a]]

LEMMA PlaceIs ==
  ASSUME NEW g, IsTerm(g), NEW L, L = Len(g), NEW G, G = PlaceOf(g, L)
  PROVE  /\ L \in Nat \ {0} /\ G[L + 1] = Null /\ G[L + 2] = Null
         /\ \A a \in 1..L : G[a] = IF Home(g)[a] = Null THEN L + 2 ELSE Home(g)[a]
         /\ G[L] = L + 2
<1>1. L \in Nat \ {0}
  BY EmptySeq DEF IsTerm
<1>2. G = [a \in 1..(L + 2) |-> IF a > L THEN Null ELSE IF Home(g)[a] = Null THEN L + 2 ELSE Home(g)[a]]
  BY DEF PlaceOf
<1>3. Home(g)[L] = Null
  <2>1. Home(g)[L] = HomeBelow(g, Home(g), L)
    BY <1>1, HomeIs
  <2>. QED  BY <2>1 DEF HomeBelow
<1>4. /\ L + 1 \in 1..(L + 2) /\ L + 2 \in 1..(L + 2) /\ L + 1 > L /\ L + 2 > L /\ L \in 1..L
      /\ \A a \in 1..L : a \in 1..(L + 2) /\ ~(a > L)
  BY <1>1
<1>. QED  BY ONLY <1>1, <1>2, <1>3, <1>4

LEMMA WholePlaced ==
  ASSUME NEW g, IsTerm(g), NEW L, L = Len(g), NEW T, Surrounds(g, T, L), NEW G, G = PlaceOf(g, L)
  PROVE  Placed(T, G)
<1>1. /\ L \in Nat \ {0} /\ Len(g) = L /\ Len(T) = L + 2
      /\ \A a \in 1..L : T[a] = g[a]
      /\ T[L + 1].tag = "Halt" /\ Len(T[L + 1].kids) = 0
      /\ T[L + 2].tag = "Fun" /\ Len(T[L + 2].kids) = 2
      /\ T[L + 2].kids[1] = L /\ T[L + 2].kids[2] = L + 1 /\ T # <<>>
  BY DEF Surrounds, MainTerm
<1>2. /\ G[L + 1] = Null /\ G[L + 2] = Null /\ G[L] = L + 2
      /\ \A a \in 1..L : G[a] = IF Home(g)[a] = Null THEN L + 2 ELSE Home(g)[a]
  BY PlaceIs
<1>3. Shaped(T)
  BY MainLinks DEF Surrounds
<1>4. \A a \in 1..Len(T) : a \in 1..L \/ a = L + 1 \/ a = L + 2
  BY <1>1
<1>5. ASSUME NEW a \in 1..Len(T), NEW i \in 1..Len(T[a].kids)
      PROVE  T[a].kids[i] \in 1..(a - 1) /\ G[T[a].kids[i]] = HomeOf(T, G, a, i)
  <2>1. CASE a \in 1..L
    <3>1. PICK b : b = g[a].kids[i]
      OBVIOUS
    <3>2. T[a] = g[a] /\ i \in 1..Len(g[a].kids) /\ a # Null /\ a \in 1..Len(g)
      BY <1>1, <1>5, <2>1 DEF Null
    <3>3. /\ b \in 1..(Len(g) - 1) /\ b \in 1..(a - 1)
          /\ Home(g)[b] = IF g[a].tag = "Fun" /\ i = 1 THEN a ELSE Home(g)[a]
      BY ONLY IsTerm(g), <3>1, <3>2, HomeKid
    <3>4. b \in 1..L
      BY <1>1, <3>3
    <3>5. /\ G[b] = IF Home(g)[b] = Null THEN L + 2 ELSE Home(g)[b]
          /\ G[a] = IF Home(g)[a] = Null THEN L + 2 ELSE Home(g)[a]
      BY <1>2, <2>1, <3>4
    <3>6. G[b] = HomeOf(T, G, a, i)
      BY <3>2, <3>3, <3>5 DEF HomeOf
    <3>. QED  BY <3>1, <3>2, <3>3, <3>6
  <2>2. CASE a = L + 1
    BY <1>1, <1>5, <2>2
  <2>3. CASE a = L + 2
    <3>1. i = 1 \/ i = 2
      <4>1. Len(T[a].kids) = 2
        BY <1>1, <2>3
      <4>2. i \in 1..2
        BY ONLY <4>1, i \in 1..Len(T[a].kids)
      <4>. QED  BY ONLY <4>2
    <3>2. CASE i = 1
      <4>1. T[a].kids[i] = L /\ HomeOf(T, G, a, i) = L + 2
        BY <1>1, <2>3, <3>2 DEF HomeOf
      <4>. QED  BY <1>1, <1>2, <2>3, <4>1
    <3>3. CASE i = 2
      <4>1. T[a].kids[i] = L + 1 /\ HomeOf(T, G, a, i) = Null
        BY <1>1, <1>2, <2>3, <3>3 DEF HomeOf
      <4>. QED  BY <1>1, <1>2, <2>3, <4>1
    <3>. QED  BY <3>1, <3>2, <3>3
  <2>. QED  BY <1>4, <2>1, <2>2, <2>3
<1>6. ASSUME NEW b \in 1..(Len(T) - 1)
      PROVE  \E a \in 1..Len(T) : \E i \in 1..Len(T[a].kids) : T[a].kids[i] = b
  <2>1. CASE b \in 1..(L - 1)
    <3>1. PICK a \in 1..Len(g) : \E i \in 1..Len(g[a].kids) : g[a].kids[i] = b
      BY <1>1, <2>1 DEF IsTerm
    <3>2. a \in 1..Len(T) /\ T[a] = g[a]
      BY <1>1, <3>1
    <3>. QED  BY <3>1, <3>2
  <2>2. CASE b = L \/ b = L + 1
    <3>1. L + 2 \in 1..Len(T) /\ 1 \in 1..Len(T[L + 2].kids) /\ 2 \in 1..Len(T[L + 2].kids)
      BY <1>1
    <3>2. T[L + 2].kids[1] = b \/ T[L + 2].kids[2] = b
      BY <1>1, <2>2
    <3>. QED  BY <3>1, <3>2
  <2>3. b \in 1..(L - 1) \/ b = L \/ b = L + 1
    BY <1>1
  <2>. QED  BY <2>1, <2>2, <2>3
<1>7. ASSUME NEW a \in 1..Len(T), T[a].tag \in {"Join", "If", "Jump"}
      PROVE  G[a] \in Funs(T)
  <2>1. a \in 1..L
    BY <1>1, <1>4, <1>7
  <2>2. Home(g)[a] = Null \/ Home(g)[a] \in Tagged(g, "Fun")
    BY <1>1, <2>1, HomeFun
  <2>3. L + 2 \in Funs(T)
    BY <1>1 DEF Funs
  <2>4. \A f \in Tagged(g, "Fun") : f \in Funs(T)
    BY <1>1 DEF Funs, Tagged
  <2>. QED  BY <1>2, <2>1, <2>2, <2>3, <2>4
<1>. QED  BY <1>1, <1>2, <1>3, <1>5, <1>6, <1>7 DEF Placed

LEMMA WholeNamed ==
  ASSUME NEW g, IsTerm(g), Hoistable(g), NEW L, L = Len(g), NEW T, Surrounds(g, T, L), NEW G, G = PlaceOf(g, L)
  PROVE  Named(T, G)
<1>1. /\ L \in Nat \ {0} /\ Len(g) = L /\ Len(T) = L + 2
      /\ \A a \in 1..L : T[a] = g[a]
      /\ T[L + 1].tag = "Halt" /\ T[L + 2].tag = "Fun" /\ T[L + 2].name = Main
  BY DEF Surrounds, MainTerm
<1>2. \A a \in 1..L : G[a] = IF Home(g)[a] = Null THEN L + 2 ELSE Home(g)[a]
  BY PlaceIs
<1>3. \A a \in 1..Len(T) : a \in 1..L \/ a = L + 1 \/ a = L + 2
  BY <1>1
<1>4. \A a \in 1..Len(T) : T[a].tag \in {"Join", "Jump"} => a \in 1..L /\ T[a] = g[a]
  BY <1>1, <1>3
<1>5. \A a \in Funs(T) : a = L + 2 \/ (a \in Tagged(g, "Fun") /\ T[a] = g[a])
  BY <1>1, <1>3 DEF Funs, Tagged
<1>6. \A a, b \in Funs(T) : T[a].name = T[b].name => a = b
  <2>. SUFFICES ASSUME NEW a \in Funs(T), NEW b \in Funs(T), T[a].name = T[b].name PROVE a = b
    OBVIOUS
  <2>. QED  BY <1>1, <1>5 DEF Hoistable
<1>7. \A a, b \in 1..Len(T) : T[a].tag = "Join" /\ T[b].tag = "Join" /\ T[a].name = T[b].name => a = b
  <2>. SUFFICES ASSUME NEW a \in 1..Len(T), NEW b \in 1..Len(T), T[a].tag = "Join", T[b].tag = "Join", T[a].name = T[b].name
                PROVE a = b
    OBVIOUS
  <2>1. a \in Tagged(g, "Join") /\ b \in Tagged(g, "Join") /\ g[a].name = g[b].name
    BY <1>1, <1>4 DEF Tagged
  <2>. QED  BY <2>1 DEF Hoistable
<1>8. \A a \in 1..Len(T) : T[a].tag = "Join" => T[a].name.base \notin {"entry", "then", "else"}
  <2>. SUFFICES ASSUME NEW a \in 1..Len(T), T[a].tag = "Join" PROVE T[a].name.base \notin {"entry", "then", "else"}
    OBVIOUS
  <2>1. a \in Tagged(g, "Join") /\ T[a] = g[a]
    BY <1>1, <1>4 DEF Tagged
  <2>. QED  BY <2>1 DEF Hoistable
<1>9. ASSUME NEW a \in 1..Len(T), T[a].tag = "Jump"
      PROVE  \E b \in 1..Len(T) :
                T[b].tag = "Join" /\ T[b].name = T[a].name /\ Len(T[b].params) = Len(T[a].vals) /\ G[b] = G[a]
  <2>1. a \in Tagged(g, "Jump") /\ T[a] = g[a] /\ a \in 1..L
    BY <1>1, <1>4, <1>9 DEF Tagged
  <2>2. PICK b \in Tagged(g, "Join") : /\ g[b].name = g[a].name /\ Len(g[b].params) = Len(g[a].vals)
                                       /\ Home(g)[b] = Home(g)[a]
    BY <2>1 DEF Hoistable
  <2>3. b \in 1..L /\ b \in 1..Len(T) /\ T[b] = g[b] /\ T[b].tag = "Join"
    BY <1>1, <2>2 DEF Tagged
  <2>4. G[b] = G[a]
    BY <1>2, <2>1, <2>2, <2>3
  <2>. QED  BY <2>1, <2>2, <2>3, <2>4
<1>. QED  BY <1>6, <1>7, <1>8, <1>9 DEF Named

-----------------------------------------------------------------------------
(***************************************************************************)
(* The invariant of the walk.                                              *)
(***************************************************************************)
Flattened == status = "done" /\ counter <= IntMax => BlocksAreFlat

WalkInv(G) ==
    Placed(Whole, G) /\ Named(Whole, G) =>
        /\ status = "run" => LayerNow(Whole, G)
        /\ Flattened

\* At first nothing was moved.
LEMMA FirstLayer ==
  ASSUME NEW T, NEW G, NEW N, NEW w, NEW t, Placed(T, G), N = Len(T), LinksOwn(T, {}, N), w = <<t>>,
         Seen(T, {}, N, w, {}), t.kind = "node", t.exp = N
  PROVE  Layer(T, G, T, {}, N, <<>>, w, <<>>, 0, {})
<1>1. /\ Shaped(T) /\ N \in Nat /\ N \in 1..N /\ Len(w) = 1 /\ w[1] = t /\ G[N] = Null
      /\ \A a \in 1..N : \A i \in 1..Len(T[a].kids) :
            T[a].kids[i] \in 1..(a - 1) /\ G[T[a].kids[i]] = HomeOf(T, G, a, i)
  BY EmptySeq DEF Placed, Shaped
<1>2. Intact(T, T, {}, {})
  BY <1>1 DEF Intact
<1>3. Descends(T, G, T, {})
  BY <1>1 DEF Descends
<1>4. \A p \in 1..Len(w) : p = 1
  BY <1>1
<1>5. Staged(T, G, {}, w, {})
  <2>1. Within(w, 1, Null)
    BY DEF Within
  <2>2. \A p \in 1..Len(w) : w[p].exp \in 1..Len(T) /\ Within(w, p, G[w[p].exp])
    BY <1>1, <1>4, <2>1
  <2>3. ASSUME NEW a \in 1..Len(T)
        PROVE  \/ \E p \in 1..Len(w) : w[p].kind = "node" /\ w[p].exp = a
               \/ \E o \in 1..Len(T) : o \notin {} /\ \E i \in 1..Len(T[o].kids) : T[o].kids[i] = a
    <3>1. CASE a = N
      <4>1. 1 \in 1..Len(w)
        BY <1>1
      <4>. QED  BY <1>1, <3>1, <4>1
    <3>2. CASE a # N
      <4>1. a \in 1..(N - 1)
        BY <1>1, <3>2
      <4>. QED  BY <4>1 DEF Placed
    <3>. QED  BY <3>1, <3>2
  <2>. QED  BY <2>2, <2>3 DEF Staged
<1>6. \A f, x : ~Lists(T, <<>>, w, <<>>, f, x)
  BY <1>1, <1>4 DEF Lists
<1>7. \A a \in Bodied(T) : ~Gone(T, {}, a)
  <2>. SUFFICES ASSUME NEW a \in Bodied(T) PROVE T[a].kids[1] # Null
    BY DEF Gone
  <2>1. a \in 1..N /\ T[a].tag \in {"Fun", "Join"}
    BY DEF Bodied
  <2>2. 1 \in 1..Len(T[a].kids)
    BY <1>1, <2>1, TwoKids
  <2>. QED  BY <1>1, <2>1, <2>2 DEF Null
<1>8. Ifs(T, G, T, <<>>, w, <<>>, {})
  <2>1. \A a : ~Waiting(w, a)
    BY <1>1, <1>4 DEF Waiting
  <2>. QED  BY <2>1 DEF Ifs
<1>9. Blocks(T, G, T, {}, <<>>, w, <<>>, 0)
  <2>1. JoinsListed(T, G, T, {}, <<>>, w, <<>>)
    BY <1>7 DEF JoinsListed, Bodied
  <2>. QED  BY <1>6, <2>1 DEF Blocks, BlocksKnown, BlocksApart
<1>10. Colls(T, G, T, {}, <<>>)
  BY DEF Colls
<1>. QED  BY <1>1, <1>2, <1>3, <1>5, <1>8, <1>9, <1>10 DEF Layer

LEMMA InitWalk ==
  ASSUME Init, NEW G
  PROVE  WalkInv(G)
<1>. SUFFICES ASSUME Placed(Whole, G) PROVE LayerNow(Whole, G) /\ status = "run"
  BY DEF WalkInv, Flattened
<1>1. PICK g, h, L, t, r, w : Started(g, h, L, t, r, w)
  BY DEF Started
<1>2. g = input /\ h = heap /\ w = worklist /\ r = L + 2
  BY <1>1 DEF Started
<1>3. /\ MainTerm(g, h, L) /\ freed = {} /\ root = r /\ currentJoins = <<>> /\ collected = <<>>
      /\ counter = 0 /\ status = "run" /\ w = <<t>> /\ t.kind = "node" /\ t.exp = r
      /\ Owned(h, {}, r, <<>>, w, <<>>) /\ Seen(h, {}, r, w, {})
  BY <1>1, InitNow
<1>4. h = Whole
  BY <1>2 DEF Init, Whole
<1>5. Placed(h, G)
  BY <1>4
<1>6. r = Len(h)
  BY <1>2, <1>3 DEF MainTerm
<1>7. LinksOwn(h, {}, r)
  BY <1>3, OwnedLinks
<1>8. Layer(h, G, h, {}, r, <<>>, w, <<>>, 0, {})
  BY ONLY <1>3, <1>5, <1>6, <1>7, FirstLayer
<1>9. Layer(Whole, G, heap, freed, root, currentJoins, worklist, collected, counter, {})
  BY <1>2, <1>3, <1>4, <1>8
<1>. QED  BY <1>3, <1>9 DEF LayerNow

\* When the list is returned it is flat.
LEMMA ReturnFlat ==
  ASSUME NEW T, NEW G, Walked(T, G), Inv, Return
  PROVE  Flattened'
<1>1. /\ status = "run" /\ worklist = <<>> /\ heap' = heap /\ collected' = collected /\ counter' = counter
  BY DEF Return
<1>2. PICK V : Layer(T, G, heap, freed, root, currentJoins, worklist, collected, counter, V)
  BY DEF Walked, LayerNow
<1>3. /\ Placed(T, G) /\ Named(T, G) /\ Len(worklist) = 0 /\ collected \in Seq(FunRec)
      /\ Owned(heap, freed, root, currentJoins, worklist, collected)
  BY <1>1 DEF Walked, Inv, TypeInv, OwnInv
<1>4. ASSUME counter <= IntMax
      PROVE  /\ IsInjective([c \in 1..Len(collected) |-> collected[c].name])
             /\ \A f \in Range(collected) : FlatFunction(heap, f)
  BY ONLY <1>2, <1>3, <1>4, EndFlat
<1>5. counter' <= IntMax => BlocksAreFlat'
  <2>1. BlocksAreFlat' <=>
           (status' = "done" =>
              /\ IsInjective([c \in 1..Len(collected') |-> collected'[c].name])
              /\ \A f \in Range(collected') : FlatFunction(heap', f))
    BY ONLY DEF BlocksAreFlat, FlatFunction
  <2>. QED  BY ONLY <1>1, <1>4, <2>1
<1>. QED  BY <1>5 DEF Flattened

\* Every step of the walk leaves what is known.
LEMMA StepLayer ==
  ASSUME NEW T, NEW G, Walked(T, G), Inv, Inv', Next, status' = "run"
  PROVE  LayerNow(T, G)'
<1>1. CASE VisitFun
  <2>1. VisitedNow(worklist', currentJoins')
    BY <1>1, VisitFunNow
  <2>. QED  BY <1>1, <2>1, VisitsLayer DEF VisitFun
<1>2. CASE VisitJoin
  <2>1. VisitedNow(worklist', currentJoins')
    BY <1>2, VisitJoinNow
  <2>. QED  BY <1>2, <2>1, VisitsLayer DEF VisitJoin
<1>3. CASE VisitIf
  <2>1. VisitedNow(worklist', currentJoins')
    BY <1>3, VisitIfNow
  <2>. QED  BY <1>3, <2>1, VisitsLayer DEF VisitIf
<1>4. CASE VisitOther
  <2>1. VisitedNow(worklist', currentJoins')
    BY <1>4, VisitOtherNow
  <2>. QED  BY <1>4, <2>1, VisitsLayer DEF VisitOther
<1>5. CASE RunCollect
  BY <1>5, CollectsLayer
<1>6. CASE RunBlock
  BY <1>6, BlocksLayer
<1>7. CASE RunBranch
  BY <1>7, BranchesLayer
<1>8. CASE RunRest
  BY <1>8, RestsLayer
<1>9. CASE Return
  BY <1>9, status' = "run" DEF Return
<1>10. CASE Terminated
  <2>1. /\ heap' = heap /\ freed' = freed /\ root' = root /\ currentJoins' = currentJoins
        /\ collected' = collected /\ worklist' = worklist /\ counter' = counter
    BY <1>10 DEF Terminated, vars
  <2>2. PICK V : Layer(T, G, heap, freed, root, currentJoins, worklist, collected, counter, V)
    BY DEF Walked, LayerNow
  <2>3. Layer(T, G, heap', freed', root', currentJoins', worklist', collected', counter', V)
    BY <2>1, <2>2
  <2>. QED  BY <2>3 DEF LayerNow
<1>. QED  BY <1>1, <1>2, <1>3, <1>4, <1>5, <1>6, <1>7, <1>8, <1>9, <1>10 DEF Next

LEMMA StepStatus ==
  ASSUME Next
  PROVE  /\ input' = input
         /\ status' = "run" => status = "run"
         /\ status' = "done" => Return \/ UNCHANGED vars
<1>1. CASE VisitFun \/ VisitJoin \/ VisitIf \/ VisitOther
  <2>1. input' = input /\ status = "run" /\ status' = status
    BY ONLY <1>1 DEF VisitFun, VisitJoin, VisitIf, VisitOther, Visits, Takes
  <2>. QED  BY <2>1
<1>2. CASE RunCollect \/ RunBlock \/ RunBranch \/ RunRest
  <2>1. input' = input /\ status = "run" /\ status' = status
    BY ONLY <1>2 DEF RunCollect, RunBlock, RunBranch, RunRest, Takes
  <2>. QED  BY <2>1
<1>3. CASE Return
  BY <1>3 DEF Return
<1>4. CASE Terminated
  BY <1>4 DEF Terminated, vars
<1>. QED  BY <1>1, <1>2, <1>3, <1>4 DEF Next

LEMMA StepWalk ==
  ASSUME NEW G, WalkInv(G), Inv, Inv', [Next]_vars
  PROVE  WalkInv(G)'
<1>1. CASE UNCHANGED vars
  <2>1. /\ input' = input /\ heap' = heap /\ freed' = freed /\ root' = root /\ currentJoins' = currentJoins
        /\ collected' = collected /\ worklist' = worklist /\ counter' = counter /\ status' = status
    BY <1>1 DEF vars
  <2>. QED  BY <2>1 DEF WalkInv, Flattened, LayerNow, Whole, BlocksAreFlat
<1>2. CASE Next
  <2>1. /\ input' = input
        /\ status' = "run" => status = "run"
        /\ status' = "done" => Return \/ UNCHANGED vars
    BY <1>2, StepStatus
  <2>2. PICK T : T = Whole
    OBVIOUS
  <2>3. Whole' = T
    <3>1. Whole' = Whole
      BY <2>1, Zenon DEF Whole
    <3>. QED  BY <2>2, <3>1
  <2>. SUFFICES ASSUME Placed(T, G), Named(T, G)
                PROVE  (status' = "run" => LayerNow(T, G)') /\ Flattened'
    BY <2>3 DEF WalkInv, LayerNow
  <2>4. status = "run" => Walked(T, G)
    BY <2>2 DEF WalkInv, Walked, LayerNow
  <2>5. status' = "run" => LayerNow(T, G)'
    BY <1>2, <2>1, <2>4, StepLayer
  <2>6. Flattened'
    <3>1. CASE Return
      <4>1. status = "run"
        BY <3>1 DEF Return
      <4>. QED  BY <2>4, <3>1, <4>1, ReturnFlat
    <3>2. CASE ~Return
      <4>1. CASE status' # "done"
        BY <4>1 DEF Flattened
      <4>2. CASE status' = "done"
        <5>1. UNCHANGED vars
          BY <2>1, <3>2, <4>2
        <5>. QED  BY <1>1, <2>3, <5>1 DEF WalkInv
      <4>. QED  BY <4>1, <4>2
    <3>. QED  BY <3>1, <3>2
  <2>. QED  BY <2>5, <2>6
<1>. QED  BY <1>1, <1>2

\* A term that can be hoisted has a function for each of its nodes.
LEMMA WholeWalk ==
  ASSUME NEW g, IsTerm(g), Hoistable(g), input = g
  PROVE  \E G : Placed(Whole, G) /\ Named(Whole, G)
<1>1. PICK L, T, G : L = Len(g) /\ T = Whole /\ G = PlaceOf(g, L)
  OBVIOUS
<1>2. T = g \o <<HaltExp(IntValue(0)), FunExp(Main, <<>>, Len(g), Len(g) + 1)>>
  BY <1>1 DEF Whole
<1>3. Surrounds(g, T, L)
  BY <1>1, <1>2, WholeAround
<1>4. Placed(T, G) /\ Named(T, G)
  BY ONLY <1>1, <1>3, IsTerm(g), Hoistable(g), WholePlaced, WholeNamed
<1>. QED  BY <1>1, <1>4

FlatWhenHoistable == Hoistable(input) /\ counter <= IntMax => BlocksAreFlat

\* The term stays the one hoist was called with.
TermInv == IsTerm(input)

LEMMA StepTerm == TermInv /\ [Next]_vars => TermInv'
BY StepStatus DEF TermInv, vars

FlatInv == \A G : WalkInv(G)

LEMMA InvFlat ==
  ASSUME TermInv, FlatInv
  PROVE  FlatWhenHoistable
<1>. SUFFICES ASSUME Hoistable(input), counter <= IntMax, status = "done"
              PROVE  BlocksAreFlat
  BY DEF FlatWhenHoistable, BlocksAreFlat
<1>1. PICK G : Placed(Whole, G) /\ Named(Whole, G)
  BY WholeWalk DEF TermInv
<1>2. WalkInv(G)
  BY DEF FlatInv
<1>. QED  BY <1>1, <1>2 DEF WalkInv, Flattened

(***************************************************************************)
(* Hoisting makes lists of straight-line blocks of every term in which     *)
(* the names of functions and those of join points are apart and jumps     *)
(* stay in their functions, as long as the counter is an int: no FunExp    *)
(* and no JoinExp is left, the branches of every if are jumps, a jump      *)
(* leads to a block of its function that takes what it passes, and names   *)
(* of blocks and of functions are unique.                                  *)
(***************************************************************************)
THEOREM HoistedBlocksAreFlat == Spec => [](Hoistable(input) /\ counter <= IntMax => BlocksAreFlat)
<1>1. Init => TermInv
  BY InputsAssumption DEF Init, TermInv
<1>2. Init => FlatInv
  BY InitWalk DEF FlatInv
<1>3. Inv /\ Inv' /\ FlatInv /\ [Next]_vars => FlatInv'
  BY StepWalk DEF FlatInv
<1>4. TermInv /\ FlatInv => (Hoistable(input) /\ counter <= IntMax => BlocksAreFlat)
  BY InvFlat DEF FlatWhenHoistable
<1>. QED  BY <1>1, <1>2, <1>3, <1>4, InitInv, StepInv, StepTerm, PTL DEF Spec
==============================================================================
