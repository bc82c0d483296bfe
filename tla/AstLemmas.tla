----------------------------- MODULE AstLemmas -----------------------------
(***************************************************************************)
(* What the proofs about the passes share: stacks, names and programs.     *)
(***************************************************************************)
EXTENDS Ast, SequencesExt, TLAPS, FiniteSetTheorems, SequenceTheorems

-----------------------------------------------------------------------------
(***************************************************************************)
(* Sequences and names                                                     *)
(***************************************************************************)

\* Replacing the top of a stack: what is below stays.
LEMMA Replace ==
  ASSUME NEW S, NEW w \in Seq(S), w # <<>>, NEW q \in Seq(S)
  PROVE  /\ Last(w) \in S /\ Last(w) = w[Len(w)]
         /\ Front(w) \in Seq(S) /\ Front(w) \o q \in Seq(S)
         /\ Len(Front(w) \o q) = Len(w) - 1 + Len(q)
         /\ \A i \in 1..(Len(w) - 1) : (Front(w) \o q)[i] = w[i]
         /\ \A i \in 1..Len(q) : (Front(w) \o q)[Len(w) - 1 + i] = q[i]
<1>1. Len(w) \in Nat \ {0}
  BY EmptySeq
<1>2. Last(w) \in S /\ Last(w) = w[Len(w)]
  BY <1>1, ElementOfSeq DEF Last
<1>3. /\ Front(w) \in Seq(S)
      /\ Len(Front(w)) = Len(w) - 1
      /\ \A i \in 1..(Len(w) - 1) : Front(w)[i] = w[i]
  <2>. DEFINE n == Len(w) - 1
  <2>1. n \in Nat /\ \A i \in 1..n : w[i] \in S
    BY <1>1, ElementOfSeq
  <2>2. /\ SubSeq(w, 1, n) \in Seq(S)
        /\ Len(SubSeq(w, 1, n)) = IF 1 <= n THEN n - 1 + 1 ELSE 0
        /\ \A i \in 1..(n - 1 + 1) : SubSeq(w, 1, n)[i] = w[1 + i - 1]
    <3>. HIDE DEF n
    <3>. QED  BY <2>1, SubSeqProperties
  <2>3. Front(w) = SubSeq(w, 1, n)
    BY DEF Front
  <2>4. Front(w) \in Seq(S) /\ Len(Front(w)) = n /\ \A i \in 1..n : Front(w)[i] = w[i]
    <3>. HIDE DEF n
    <3>. QED  BY <2>1, <2>2, <2>3
  <2>. QED  BY <2>4
<1>4. /\ Front(w) \o q \in Seq(S)
      /\ Len(Front(w) \o q) = Len(Front(w)) + Len(q)
      /\ \A i \in 1..(Len(Front(w)) + Len(q)) : (Front(w) \o q)[i] =
            IF i <= Len(Front(w)) THEN Front(w)[i] ELSE q[i - Len(Front(w))]
  BY <1>3, ConcatProperties
<1>5. Len(q) \in Nat
  BY LenProperties
<1>6. \A i \in 1..(Len(w) - 1) : (Front(w) \o q)[i] = w[i]
  BY <1>1, <1>3, <1>4, <1>5
<1>7. \A i \in 1..Len(q) : (Front(w) \o q)[Len(w) - 1 + i] = q[i]
  BY <1>1, <1>3, <1>4, <1>5
<1>. QED  BY <1>1, <1>2, <1>3, <1>4, <1>6, <1>7

\* Pushing a task: what is below stays.
LEMMA Push ==
  ASSUME NEW S, NEW w \in Seq(S), NEW e \in S
  PROVE  /\ Append(w, e) \in Seq(S) /\ Append(w, e) # <<>>
         /\ Len(Append(w, e)) = Len(w) + 1
         /\ Last(Append(w, e)) = e
         /\ \A i \in 1..Len(w) : Append(w, e)[i] = w[i]
         /\ Append(w, e)[Len(w) + 1] = e
BY AppendProperties DEF Last

\* Taking the top of a stack.
LEMMA Pop ==
  ASSUME NEW S, NEW w \in Seq(S), w # <<>>
  PROVE  /\ Last(w) \in S /\ Last(w) = w[Len(w)]
         /\ Len(w) \in Nat \ {0}
         /\ Front(w) \in Seq(S) /\ Len(Front(w)) = Len(w) - 1
         /\ \A i \in 1..(Len(w) - 1) : Front(w)[i] = w[i]
<1>1. /\ Last(w) \in S /\ Last(w) = w[Len(w)]
      /\ Front(w) \in Seq(S) /\ Front(w) \o <<>> \in Seq(S)
      /\ Len(Front(w) \o <<>>) = Len(w) - 1 + Len(<<>>)
      /\ \A i \in 1..(Len(w) - 1) : (Front(w) \o <<>>)[i] = w[i]
  BY Replace, EmptySeq
<1>2. Front(w) \o <<>> = Front(w)
  BY <1>1, ConcatEmptySeq
<1>3. Len(w) \in Nat \ {0} /\ Len(<<>>) = 0
  BY EmptySeq
<1>. QED  BY <1>1, <1>2, <1>3

\* std::to_string returns decimal digits.
LEMMA DecimalType ==
  ASSUME NEW c \in Nat
  PROVE  Decimal(c) \in Seq(Digit)
<1>. DEFINE Small == {k \in 2..10 : Pow10[k] <= c}
<1>1. Cardinality(Small) \in Nat /\ Cardinality(Small) <= 9
  <2>1. IsFiniteSet(2..10) /\ Cardinality(2..10) = 9
    <3>. DEFINE a == 2
                b == 10
    <3>1. a \in Int /\ b \in Int /\ a <= b /\ b - a + 1 = 9
      OBVIOUS
    <3>. HIDE DEF a, b
    <3>2. IsFiniteSet(a..b) /\ Cardinality(a..b) = 9
      BY <3>1, FS_Interval
    <3>. QED  BY <3>2 DEF a, b
  <2>2. IsFiniteSet(Small) /\ Cardinality(Small) <= 9
    BY <2>1, FS_Subset
  <2>. QED  BY <2>2, FS_CardinalityType
<1>2. Width(c) \in 1..10
  BY <1>1 DEF Width
<1>3. \A k \in 1..10 : Pow10[k] \in Nat \ {0}
  BY DEF Pow10
<1>4. \A i \in 1..Width(c) : (c \div Pow10[Width(c) - i + 1]) % 10 \in Digit
  <2>. SUFFICES ASSUME NEW i \in 1..Width(c)
                PROVE  (c \div Pow10[Width(c) - i + 1]) % 10 \in Digit
    OBVIOUS
  <2>1. Pow10[Width(c) - i + 1] \in Nat \ {0}
    BY <1>2, <1>3
  <2>. QED  BY <2>1 DEF Digit
<1>. QED  BY <1>2, <1>4, IsASeq DEF Decimal

\* Fresh names are identifiers.
LEMMA FreshType ==
  ASSUME NEW x \in Ident, NEW c \in Nat
  PROVE  Fresh(x, c) \in Ident
<1>1. x.digits \in Seq(Digit) /\ x.base \in STRING
  BY DEF Ident
<1>2. x.digits \o Decimal(c) \in Seq(Digit)
  BY <1>1, DecimalType, ConcatProperties
<1>. QED  BY <1>1, <1>2 DEF Fresh, Name, Ident

-----------------------------------------------------------------------------
(***************************************************************************)
(* Programs                                                                *)
(***************************************************************************)

\* What IsAst says about one node.
LEMMA NodeFacts ==
  ASSUME NEW p, IsAst(p), NEW n \in Exps(p)
  PROVE  /\ Len(p.tag) \in Nat /\ n \in 1..Len(p.tag)
         /\ p.tag[n] \in Tag /\ p.name[n] \in Ident
         /\ p.last[n] \in n..Len(p.tag)
         /\ p.kids[n] \in Seq(Exps(p)) /\ Len(p.kids[n]) = Arity[p.tag[n]]
         /\ p.kids[n] = <<>> => p.last[n] = n
         /\ p.kids[n] # <<>> => /\ p.kids[n][Len(p.kids[n])] = n + 1
                                /\ p.last[n] = p.last[p.kids[n][1]]
         /\ \A i \in 1..(Len(p.kids[n]) - 1) :
               p.kids[n][i] = p.last[p.kids[n][i + 1]] + 1
         /\ \A i \in 1..Len(p.kids[n]) :
               p.scope[p.kids[n][i]] = InnerScope(p, n)
<1>1. Len(p.tag) \in Nat /\ n \in 1..Len(p.tag) /\ p.tag[n] \in Tag
  BY ElementOfSeq, LenProperties DEF IsAst, IsHeap, Exps
<1>2. p.name[n] \in Ident /\ p.last[n] \in n..Len(p.tag)
  <2>1. p.name[n] \in Ident /\ p.last[n] \in Exps(p)
    BY DEF IsAst, IsHeap
  <2>2. n <= p.last[n]
    BY DEF IsAst, IsTree
  <2>. QED  BY <1>1, <2>1, <2>2 DEF Exps
<1>3. p.kids[n] \in Seq(Exps(p)) /\ Len(p.kids[n]) = Arity[p.tag[n]]
  BY DEF IsAst, IsHeap
<1>4. Len(p.kids[n]) \in Nat /\ (p.kids[n] # <<>> => Len(p.kids[n]) > 0)
  BY <1>3, EmptySeq, LenProperties
<1>. QED  BY <1>1, <1>2, <1>3, <1>4 DEF IsAst, IsTree, IsLexical

\* A scope holds LamExps that come before the node.
LEMMA ScopeFacts ==
  ASSUME NEW p, IsAst(p), NEW n \in Exps(p), NEW x \in DOMAIN p.scope[n]
  PROVE  /\ p.scope[n][x] \in 1..(n - 1) /\ p.scope[n][x] \in Exps(p)
         /\ p.tag[p.scope[n][x]] = "Lam" /\ p.name[p.scope[n][x]] = x
<1>1. n \in Nat /\ Len(p.tag) \in Nat /\ n <= Len(p.tag)
  BY NodeFacts
<1>2. /\ p.scope[n][x] \in 1..(n - 1)
      /\ p.tag[p.scope[n][x]] = "Lam" /\ p.name[p.scope[n][x]] = x
  BY DEF IsAst, IsLexical
<1>. QED  BY <1>1, <1>2 DEF Exps

LEMMA RootFacts ==
  ASSUME NEW p, IsAst(p)
  PROVE  /\ Len(p.tag) \in Nat /\ Root \in Exps(p)
         /\ p.last[Root] = Len(p.tag) /\ p.scope[Root] = EmptyMap
<1>1. Len(p.tag) \in Nat \ {0}
  BY EmptySeq DEF IsAst, IsHeap
<1>. QED  BY <1>1 DEF IsAst, IsTree, IsLexical, Exps, Root

-----------------------------------------------------------------------------
(***************************************************************************)
(* Sequences of sequences                                                  *)
(***************************************************************************)
\* A set of natural numbers has a least element, which is how induction is done here.
LEMMA LeastNumber ==
  ASSUME NEW T, T \subseteq Nat, T # {}
  PROVE  \E m \in T : \A k \in T : m <= k
<1>1. IsWellFoundedOn(OpToRel(<, Nat), Nat)
  BY NatLessThanWellFounded
<1>2. PICK m \in T : \A k \in T : ~(<<k, m>> \in OpToRel(<, Nat))
  BY <1>1, WFMin
<1>3. \A k \in T : k \in Nat /\ m \in Nat /\ ~(k < m)
  BY <1>2 DEF OpToRel
<1>4. \A k \in T : m <= k
  BY <1>3
<1>. QED  BY <1>2, <1>4

\* f is the recursive function in FlattenSeq, for the first n parts of s.
Flattens(s, n, f) == f = [i \in 1..n |-> IF i = 1 THEN s[i] ELSE f[i - 1] \o s[i]]

\* It exists: by induction on n.
LEMMA FlattensExists ==
  ASSUME NEW s, NEW n \in Nat
  PROVE  \E f : Flattens(s, n, f)
<1>. DEFINE T == {m \in Nat : ~\E f : Flattens(s, m, f)}
<1>1. SUFFICES ASSUME T # {} PROVE FALSE
  BY DEF Flattens
<1>2. PICK m \in T : \A k \in T : m <= k
  BY <1>1, LeastNumber
<1>3. m \in Nat /\ ~\E f : Flattens(s, m, f)
  OBVIOUS
<1>4. CASE m = 0
  <2>1. Flattens(s, 0, <<>>)
    BY DEF Flattens
  <2>. QED  BY <1>3, <1>4, <2>1
<1>5. CASE m # 0
  <2>1. m - 1 \in Nat /\ ~(m <= m - 1)
    BY <1>3, <1>5
  <2>2. m - 1 \notin T
    BY <1>2, <2>1
  <2>3. PICK f : Flattens(s, m - 1, f)
    BY <2>1, <2>2
  <2>4. PICK g : g = [i \in 1..m |-> IF i = 1 THEN s[i] ELSE f[i - 1] \o s[i]]
    OBVIOUS
  <2>5. \A i \in 1..(m - 1) : g[i] = f[i]
    <3>1. \A i \in 1..(m - 1) : i \in 1..m
      BY <1>3
    <3>2. \A i \in 1..(m - 1) : f[i] = IF i = 1 THEN s[i] ELSE f[i - 1] \o s[i]
      BY <2>3 DEF Flattens
    <3>. QED  BY <2>4, <3>1, <3>2
  <2>6. \A i \in 1..m : i = 1 \/ i - 1 \in 1..(m - 1)
    BY <1>3
  <2>7. g = [i \in 1..m |-> IF i = 1 THEN s[i] ELSE g[i - 1] \o s[i]]
    BY <2>4, <2>5, <2>6
  <2>8. Flattens(s, m, g)
    BY <2>7 DEF Flattens
  <2>. QED  BY <1>3, <2>8
<1>. QED  BY <1>4, <1>5

\* FlattenSeq returns its last value.
LEMMA FlattenIs ==
  ASSUME NEW s, Len(s) \in Nat \ {0}
  PROVE  \E f : Flattens(s, Len(s), f) /\ FlattenSeq(s) = f[Len(s)]
<1>1. PICK f : f = CHOOSE g : Flattens(s, Len(s), g)
  OBVIOUS
<1>2. Flattens(s, Len(s), f)
  BY <1>1, FlattensExists
<1>3. FlattenSeq(s) = f[Len(s)]
  BY <1>1 DEF FlattenSeq, Flattens
<1>. QED  BY <1>2, <1>3

\* Element j of part i of s is element at[i] + j of f.
Places(s, n, f, at) ==
    /\ at \in [1..n -> 0..Len(f)]
    /\ \A i \in 1..n : \A j \in 1..Len(s[i]) : at[i] + j \in 1..Len(f) /\ f[at[i] + j] = s[i][j]
    /\ \A k \in 1..Len(f) : \E i \in 1..n : \E j \in 1..Len(s[i]) : k = at[i] + j
    /\ \A i, p \in 1..n : i < p => at[i] + Len(s[i]) <= at[p]

\* FlattenSeq keeps every element, in order: by induction on the number of parts.
LEMMA FlattenPlaces ==
  ASSUME NEW S, NEW s \in Seq(Seq(S))
  PROVE  FlattenSeq(s) \in Seq(S) /\ \E at : Places(s, Len(s), FlattenSeq(s), at)
<1>1. PICK n \in Nat : n = Len(s)
  BY LenProperties
<1>2. \A i \in 1..n : s[i] \in Seq(S) /\ Len(s[i]) \in Nat
  BY <1>1, ElementOfSeq, LenProperties
<1>3. CASE n = 0
  <2>1. s = <<>> /\ FlattenSeq(s) = s
    BY <1>1, <1>3, EmptySeq DEF FlattenSeq
  <2>2. <<>> \in Seq(S) /\ Len(<<>>) = 0
    OBVIOUS
  <2>3. <<>> \in [1..0 -> Nat]
    OBVIOUS
  <2>4. Places(<<>>, 0, <<>>, <<>>)
    BY <2>2, <2>3 DEF Places
  <2>. QED  BY <1>1, <1>3, <2>1, <2>2, <2>4
<1>4. CASE n # 0
  <2>1. PICK f : Flattens(s, n, f) /\ FlattenSeq(s) = f[n]
    BY <1>1, <1>4, FlattenIs
  <2>2. /\ f[1] = s[1]
        /\ \A m \in 2..n : f[m] = f[m - 1] \o s[m]
    <3>1. \A m \in 1..n : f[m] = IF m = 1 THEN s[m] ELSE f[m - 1] \o s[m]
      BY <2>1 DEF Flattens
    <3>2. 1 \in 1..n /\ \A m \in 2..n : m \in 1..n /\ m # 1
      BY <1>4
    <3>. QED  BY <3>1, <3>2
  <2>. DEFINE T == {m \in 1..n : ~(f[m] \in Seq(S) /\ \E at : Places(s, m, f[m], at))}
  <2>3. T = {}
    <3>. SUFFICES ASSUME T # {} PROVE FALSE
      OBVIOUS
    <3>1. T \subseteq Nat
      OBVIOUS
    <3>2. PICK m \in T : \A k \in T : m <= k
      BY <3>1, LeastNumber
    <3>3. m \in 1..n /\ ~(f[m] \in Seq(S) /\ \E at : Places(s, m, f[m], at))
      OBVIOUS
    <3>4. CASE m = 1
      <4>1. f[1] = s[1] /\ s[1] \in Seq(S) /\ Len(s[1]) \in Nat /\ 1 \in 1..n
        BY <1>2, <1>4, <2>2
      <4>2. PICK at : at = [i \in 1..1 |-> 0]
        OBVIOUS
      <4>4. PICK K \in Nat : K = Len(s[1])
        BY <4>1
      <4>3. at \in [1..1 -> 0..K] /\ at[1] = 0
        BY <4>2
      <4>5. \A i \in 1..1 : i = 1
        OBVIOUS
      <4>6. \A j \in 1..K : at[1] + j \in 1..K /\ at[1] + j = j
        BY ONLY <4>3, <4>4
      <4>7. Places(s, 1, s[1], at)
        BY ONLY <4>1, <4>3, <4>4, <4>5, <4>6 DEF Places
      <4>. QED  BY <3>3, <3>4, <4>1, <4>7
    <3>5. CASE m # 1
      <4>1. m - 1 \in 1..n /\ ~(m <= m - 1) /\ m \in 2..n
        BY <3>3, <3>5
      <4>2. m - 1 \notin T
        BY <3>2, <4>1
      <4>3. PICK g : g = f[m - 1]
        OBVIOUS
      <4>4. g \in Seq(S) /\ \E at : Places(s, m - 1, g, at)
        BY <4>1, <4>2, <4>3
      <4>5. PICK at : Places(s, m - 1, g, at)
        BY <4>4
      <4>6. PICK v : v = s[m]
        OBVIOUS
      <4>7. v \in Seq(S) /\ f[m] = g \o v /\ Len(v) \in Nat /\ Len(g) \in Nat
        BY <1>2, <2>2, <4>1, <4>3, <4>4, <4>6, LenProperties
      <4>8. PICK c : c = g \o v
        OBVIOUS
      <4>9. PICK G \in Nat, K \in Nat : G = Len(g) /\ K = Len(v)
        BY <4>7
      <4>10. /\ c \in Seq(S) /\ Len(c) = G + K
             /\ \A i \in 1..G : c[i] = g[i]
             /\ \A j \in 1..K : c[G + j] = v[j]
        <5>1. /\ c \in Seq(S) /\ Len(c) = G + K
              /\ \A i \in 1..(G + K) : c[i] = IF i <= G THEN g[i] ELSE v[i - G]
          BY <4>4, <4>7, <4>8, <4>9, ConcatProperties
        <5>2. \A i \in 1..G : i \in 1..(G + K) /\ i <= G
          OBVIOUS
        <5>3. \A j \in 1..K : G + j \in 1..(G + K) /\ ~(G + j <= G) /\ (G + j) - G = j
          OBVIOUS
        <5>. QED  BY <5>1, <5>2, <5>3
      <4>11. PICK to : to = [i \in 1..m |-> IF i = m THEN G ELSE at[i]]
        OBVIOUS
      <4>12. m \in Nat /\ \A i \in 1..m : i = m \/ (i \in 1..(m - 1) /\ i # m)
        BY <4>1
      <4>13. /\ at \in [1..(m - 1) -> 0..G]
             /\ \A i \in 1..(m - 1) : \A j \in 1..Len(s[i]) : at[i] + j \in 1..G /\ g[at[i] + j] = s[i][j]
             /\ \A k \in 1..G : \E i \in 1..(m - 1) : \E j \in 1..Len(s[i]) : k = at[i] + j
             /\ \A i, p \in 1..(m - 1) : i < p => at[i] + Len(s[i]) <= at[p]
        BY <4>5, <4>9 DEF Places
      <4>14. /\ to \in [1..m -> 0..(G + K)] /\ to[m] = G
             /\ \A i \in 1..(m - 1) : to[i] = at[i] /\ i \in 1..m
        <5>1. G \in 0..(G + K) /\ \A x \in 0..G : x \in 0..(G + K)
          OBVIOUS
        <5>. QED  BY <4>1, <4>11, <4>12, <4>13, <5>1
      <4>15. ASSUME NEW i \in 1..m, NEW j \in 1..Len(s[i])
             PROVE  to[i] + j \in 1..(G + K) /\ c[to[i] + j] = s[i][j]
        <5>1. CASE i = m
          <6>1. j \in 1..K
            BY <4>6, <4>9, <4>15, <5>1
          <6>. QED  BY <4>6, <4>10, <4>14, <5>1, <6>1
        <5>2. CASE i # m
          <6>1. i \in 1..(m - 1)
            BY <4>12, <5>2
          <6>2. at[i] + j \in 1..G /\ g[at[i] + j] = s[i][j]
            BY <4>13, <4>15, <6>1
          <6>3. at[i] + j \in 1..(G + K)
            BY <6>2
          <6>. QED  BY <4>10, <4>14, <6>1, <6>2, <6>3
        <5>. QED  BY <5>1, <5>2
      <4>16. ASSUME NEW k \in 1..(G + K)
             PROVE  \E i \in 1..m : \E j \in 1..Len(s[i]) : k = to[i] + j
        <5>1. CASE k \in 1..G
          <6>1. PICK i \in 1..(m - 1) : \E j \in 1..Len(s[i]) : k = at[i] + j
            BY <4>13, <5>1
          <6>. QED  BY <4>14, <6>1
        <5>2. CASE k \notin 1..G
          <6>1. k - G \in 1..K /\ k = G + (k - G)
            BY <4>16, <5>2
          <6>2. m \in 1..m
            BY <4>1
          <6>. QED  BY <4>6, <4>9, <4>14, <6>1, <6>2
        <5>. QED  BY <5>1, <5>2
      <4>17. ASSUME NEW i \in 1..m, NEW p \in 1..m, i < p
             PROVE  to[i] + Len(s[i]) <= to[p]
        <5>1. i \in 1..(m - 1) /\ i # m
          BY <4>12, <4>17
        <5>2. CASE p = m
          <6>1. at[i] + Len(s[i]) <= G
            <7>1. PICK L \in Nat : L = Len(s[i])
              BY <1>2, <4>1, <5>1
            <7>2. at[i] \in 0..G
              BY <4>13, <5>1
            <7>3. CASE L # 0
              <8>1. L \in 1..L
                BY <7>3
              <8>2. at[i] + L \in 1..G
                BY <4>13, <5>1, <7>1, <8>1
              <8>. QED  BY <7>1, <8>2
            <7>4. CASE L = 0
              BY <7>1, <7>2, <7>4
            <7>. QED  BY <7>3, <7>4
          <6>. QED  BY <4>14, <5>1, <5>2, <6>1
        <5>3. CASE p # m
          <6>1. p \in 1..(m - 1)
            BY <4>12, <5>3
          <6>2. at[i] + Len(s[i]) <= at[p]
            BY <4>13, <4>17, <5>1, <6>1
          <6>. QED  BY <4>14, <5>1, <6>1, <6>2
        <5>. QED  BY <5>2, <5>3
      <4>18. Places(s, m, c, to)
        BY <4>9, <4>10, <4>14, <4>15, <4>16, <4>17 DEF Places
      <4>. QED  BY <3>3, <4>7, <4>8, <4>10, <4>18
    <3>. QED  BY <3>4, <3>5
  <2>4. n \in 1..n
    BY <1>4
  <2>5. f[n] \in Seq(S) /\ \E at : Places(s, n, f[n], at)
    BY <2>3, <2>4
  <2>. QED  BY <1>1, <2>1, <2>5
<1>. QED  BY <1>3, <1>4

-----------------------------------------------------------------------------
(***************************************************************************)
(* Numerals                                                                *)
(***************************************************************************)

\* How many digits a numeral has.
LEMMA WidthIs ==
  ASSUME NEW c \in Nat, NEW w \in 1..10,
         w < 10 => c < Pow10[w + 1], w > 1 => Pow10[w] <= c
  PROVE  Width(c) = w
<1>. DEFINE Small == {k \in 2..10 : Pow10[k] <= c}
<1>1. Small = 2..w
  BY DEF Pow10
<1>2. Cardinality(2..w) = w - 1
  <2>. DEFINE a == 2
  <2>1. a \in Int /\ w \in Int /\ (a > w => w - 1 = 0) /\ w - a + 1 = w - 1
    OBVIOUS
  <2>. HIDE DEF a
  <2>2. Cardinality(a..w) = w - 1
    BY <2>1, FS_Interval
  <2>. QED  BY <2>2 DEF a
<1>3. Width(c) = 1 + Cardinality(Small)
  BY DEF Width
<1>. HIDE DEF Small
<1>. QED  BY <1>1, <1>2, <1>3

\* One digit of a numeral.
LEMMA DigitStep ==
  ASSUME NEW c \in Nat, NEW k \in 1..9
  PROVE  c \div Pow10[k] = (10 * (c \div Pow10[k + 1])) + ((c \div Pow10[k]) % 10)
<1>1. CASE k = 1
  BY <1>1 DEF Pow10
<1>2. CASE k = 2
  BY <1>2 DEF Pow10
<1>3. CASE k = 3
  BY <1>3 DEF Pow10
<1>4. CASE k = 4
  BY <1>4 DEF Pow10
<1>5. CASE k = 5
  BY <1>5 DEF Pow10
<1>6. CASE k = 6
  BY <1>6 DEF Pow10
<1>7. CASE k = 7
  BY <1>7 DEF Pow10
<1>8. CASE k = 8
  BY <1>8 DEF Pow10
<1>9. CASE k = 9
  BY <1>9 DEF Pow10
<1>. QED  BY <1>1, <1>2, <1>3, <1>4, <1>5, <1>6, <1>7, <1>8, <1>9

\* The first digit of a numeral.
LEMMA FirstDigit ==
  ASSUME NEW c \in Nat, c <= IntMax
  PROVE  /\ Width(c) \in 1..10
         /\ c \div Pow10[Width(c)] = (c \div Pow10[Width(c)]) % 10
<1>1. PICK w \in 1..10 : (w < 10 => c < Pow10[w + 1]) /\ (w > 1 => Pow10[w] <= c)
  <2>1. \E w \in 1..10 : (w < 10 => c < Pow10[w + 1]) /\ (w > 1 => Pow10[w] <= c)
    <3>1. CASE c < Pow10[2]
      BY <3>1 DEF Pow10
    <3>2. CASE \E w \in 2..9 : Pow10[w] <= c /\ c < Pow10[w + 1]
      BY <3>2
    <3>3. CASE Pow10[10] <= c
      BY <3>3 DEF Pow10
    <3>. QED  BY <3>1, <3>2, <3>3 DEF Pow10
  <2>. QED  BY <2>1
<1>2. Width(c) = w
  BY <1>1, WidthIs
<1>3. CASE w < 10
  <2>1. c \div Pow10[w] = (10 * (c \div Pow10[w + 1])) + ((c \div Pow10[w]) % 10)
    BY <1>3, DigitStep
  <2>2. Pow10[w + 1] \in Nat \ {0} /\ Pow10[w] \in Nat \ {0}
    BY <1>3 DEF Pow10
  <2>3. c \div Pow10[w + 1] = 0
    BY <1>1, <1>3, <2>2
  <2>4. c \div Pow10[w] \in Int
    BY <2>2
  <2>. QED  BY <1>2, <2>1, <2>3, <2>4
<1>4. CASE w = 10
  BY <1>2, <1>4 DEF Pow10, IntMax
<1>. QED  BY <1>2, <1>3, <1>4

(***************************************************************************)
(* std::to_string gives two ints the same numeral only when they are       *)
(* equal.                                                                  *)
(***************************************************************************)
LEMMA DecimalInjective ==
  ASSUME NEW c \in Nat, NEW d \in Nat, c <= IntMax, d <= IntMax,
         Decimal(c) = Decimal(d)
  PROVE  c = d
<1>1. PICK w \in 1..10 : Width(c) = w /\ Width(d) = w
  <2>1. Width(c) \in 1..10 /\ Width(d) \in 1..10
    BY FirstDigit
  <2>2. 1..Width(c) = 1..Width(d)
    BY DEF Decimal
  <2>3. Width(c) = Width(d)
    BY ONLY <2>1, <2>2
  <2>. QED  BY ONLY <2>1, <2>3
<1>. DEFINE C(k) == c \div Pow10[k]
            D(k) == d \div Pow10[k]
            T == {k \in 1..w : C(k) = D(k)}
<1>2. \A k \in 1..w : C(k) % 10 = D(k) % 10
  <2>. SUFFICES ASSUME NEW k \in 1..w
                PROVE  C(k) % 10 = D(k) % 10
    OBVIOUS
  <2>1. w - k + 1 \in 1..w /\ w - (w - k + 1) + 1 = k
    OBVIOUS
  <2>2. Decimal(c)[w - k + 1] = C(k) % 10 /\ Decimal(d)[w - k + 1] = D(k) % 10
    BY <1>1, <2>1 DEF Decimal
  <2>. QED  BY <2>2
<1>3. w \in T
  BY <1>1, <1>2, FirstDigit
<1>4. \A k \in T : k = 1 \/ k - 1 \in T
  <2>. SUFFICES ASSUME NEW k \in T, k # 1
                PROVE  C(k - 1) = D(k - 1)
    OBVIOUS
  <2>1. k - 1 \in 1..9 /\ k - 1 \in 1..w /\ (k - 1) + 1 = k
    OBVIOUS
  <2>2. /\ C(k - 1) = (10 * C(k)) + (C(k - 1) % 10)
        /\ D(k - 1) = (10 * D(k)) + (D(k - 1) % 10)
    BY <2>1, DigitStep
  <2>3. C(k) = D(k) /\ C(k - 1) % 10 = D(k - 1) % 10
    BY <1>2, <2>1
  <2>. HIDE DEF C, D
  <2>. QED  BY <2>2, <2>3
<1>5. 1 \in T
  <2>1. T \subseteq Nat
    OBVIOUS
  <2>. HIDE DEF T
  <2>2. PICK m \in T : \A k \in T : m <= k
    BY <1>3, <2>1, LeastNumber
  <2>. QED  BY <1>4, <2>1, <2>2
<1>6. C(1) = c /\ D(1) = d
  BY DEF Pow10
<1>. QED  BY <1>5, <1>6

\* What follows prefixes of one length.
LEMMA SameTail ==
  ASSUME NEW S, NEW u \in Seq(S), NEW v \in Seq(S), NEW c \in Seq(S), NEW d \in Seq(S),
         Len(u) = Len(v), u \o c = v \o d
  PROVE  c = d
<1>0. Len(u) \in Nat /\ Len(c) \in Nat /\ Len(d) \in Nat
  BY LenProperties
<1>1. /\ Len(u \o c) = Len(u) + Len(c)
      /\ \A i \in 1..(Len(u) + Len(c)) :
            (u \o c)[i] = IF i <= Len(u) THEN u[i] ELSE c[i - Len(u)]
  BY ConcatProperties
<1>2. /\ Len(v \o d) = Len(v) + Len(d)
      /\ \A i \in 1..(Len(v) + Len(d)) :
            (v \o d)[i] = IF i <= Len(v) THEN v[i] ELSE d[i - Len(v)]
  BY ConcatProperties
<1>3. Len(c) = Len(d)
  BY <1>0, <1>1, <1>2
<1>4. ASSUME NEW i \in 1..Len(c)
      PROVE  c[i] = d[i]
  <2>1. /\ Len(u) + i \in 1..(Len(u) + Len(c)) /\ Len(u) + i > Len(u)
        /\ (Len(u) + i) - Len(u) = i
    BY <1>0
  <2>2. (u \o c)[Len(u) + i] = c[i]
    BY <1>0, <1>1, <2>1
  <2>3. (v \o d)[Len(u) + i] = d[i]
    BY <1>0, <1>2, <1>3, <2>1
  <2>. QED  BY <2>2, <2>3
<1>. QED  BY <1>3, <1>4, SeqEqual
=============================================================================
