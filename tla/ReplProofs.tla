----------------------------- MODULE ReplProofs -----------------------------
(***************************************************************************)
(* Memory is per input, and tokens come in order, for all texts, all       *)
(* capacities and all fates.                                               *)
(*                                                                         *)
(* MemoryPerInput counts tokens when the arena is full.  To become         *)
(* inductive it needs the Exps that are still to be made: an activation    *)
(* that waits for an operand will make one.  An input pays for two Exps    *)
(* with each token, one for the leaf and one for the application that      *)
(* takes it without a token of its own; those made and those awaited stay  *)
(* below what is paid, and reach it only where an operand comes next.      *)
(***************************************************************************)
EXTENDS Repl, TLAPS, SequenceTheorems, FiniteSetTheorems

\* The activations that make an Exp of what is returned to them.
Waits(call) ==
    IF call.fn = "parseBinOp" THEN call.lhs # <<>> /\ call.op # "" ELSE call.fn # "parseParens"

Pending(stack) == Cardinality({i \in 1..Len(stack) : Waits(stack[i])})

\* Who can call whom: parseBinOp is called by those that wait, or parseParens.
Calls(caller, call) ==
    IF call.fn = "parseBinOp" THEN Waits(caller) \/ caller.fn = "parseParens"
    ELSE caller.fn = "parseBinOp"

Stack(s) ==
    /\ s \in Seq(Range(s)) /\ s # <<>>
    /\ s[1].fn = "parseBinOp"
    /\ \A i \in 1..(Len(s) - 1) : Calls(s[i], s[i + 1])

Paid == 2 * (taken - from)

OperandNext == Top.fn = "parseBinOp" /\ Top.lhs = <<>>

Parsing ==
    /\ Stack(calls)
    /\ value # <<>> /\ Top.fn = "parseBinOp" => Waits(Top)
    /\ used + Pending(calls) <= Paid
    /\ OperandNext \/ used + Pending(calls) < Paid

Inv ==
    /\ used \in Nat /\ taken \in Nat /\ from \in Nat
    /\ status = "loop" => value = <<>>
    /\ status = "parsing" => Parsing
    /\ MemoryPerInput
-----------------------------------------------------------------------------
\* Sequences, whatever their elements.
LEMMA Appending ==
  ASSUME NEW s, s \in Seq(Range(s)), NEW a
  PROVE  LET t == Append(s, a)
         IN  /\ t \in Seq(Range(t)) /\ t # <<>>
             /\ Len(s) \in Nat /\ Len(t) = Len(s) + 1
             /\ \A i \in 1..Len(s) : t[i] = s[i]
             /\ t[Len(s) + 1] = a
<1>. DEFINE S == Range(s) \cup {a}
            t == Append(s, a)
<1>1. s \in Seq(S) /\ a \in S
  BY SeqMonotonic
<1>2. /\ t \in Seq(S) /\ t # <<>>
      /\ Len(t) = Len(s) + 1
      /\ \A i \in 1..Len(s) : t[i] = s[i]
      /\ t[Len(s) + 1] = a
  BY <1>1, AppendProperties
<1>3. t \in Seq(Range(t))
  BY <1>2, SeqOfRange
<1>4. Len(s) \in Nat
  BY <1>1, LenProperties
<1>. QED  BY <1>2, <1>3, <1>4

LEMMA Splitting ==
  ASSUME NEW s, s \in Seq(Range(s)), s # <<>>
  PROVE  /\ Front(s) \in Seq(Range(Front(s)))
         /\ Len(s) \in Nat \ {0} /\ Len(Front(s)) = Len(s) - 1
         /\ \A i \in 1..(Len(s) - 1) : Front(s)[i] = s[i]
         /\ s = Append(Front(s), Last(s))
<1>. DEFINE S == Range(s)
            f == SubSeq(s, 1, Len(s) - 1)
<1>1. Len(s) \in Nat \ {0} /\ \A i \in 1..Len(s) : s[i] \in S
  BY EmptySeq, ElementOfSeq
<1>2. /\ f \in Seq(S) /\ Len(f) = Len(s) - 1
      /\ \A i \in 1..(Len(s) - 1) : f[i] = s[i]
  <2>1. \A i \in 1..(Len(s) - 1) : s[i] \in S
    BY <1>1
  <2>. HIDE DEF S
  <2>2. /\ f \in Seq(S)
        /\ Len(f) = IF 1 <= Len(s) - 1 THEN Len(s) - 1 - 1 + 1 ELSE 0
        /\ \A i \in 1..(Len(s) - 1 - 1 + 1) : f[i] = s[1 + i - 1]
    BY <1>1, <2>1, SubSeqProperties
  <2>. HIDE DEF f
  <2>3. Len(f) = Len(s) - 1
    <3>. DEFINE n == Len(s)
                k == Len(f)
    <3>1. n \in Nat /\ n # 0 /\ k = IF 1 <= n - 1 THEN n - 1 - 1 + 1 ELSE 0
      BY <1>1, <2>2
    <3>. HIDE DEF n, k
    <3>2. k = n - 1
      BY <3>1
    <3>. QED  BY <3>2 DEF n, k
  <2>4. \A i \in 1..(Len(s) - 1) : i \in 1..(Len(s) - 1 - 1 + 1) /\ 1 + i - 1 = i
    BY <1>1
  <2>. QED  BY <2>2, <2>3, <2>4
<1>3. f \in Seq(Range(f))
  BY <1>2, SeqOfRange
<1>4. s = Append(f, s[Len(s)])
  <2>. DEFINE t == Append(f, s[Len(s)])
  <2>1. s[Len(s)] \in S
    BY <1>1
  <2>2. /\ t \in Seq(S) /\ Len(t) = Len(f) + 1
        /\ \A i \in 1..Len(f) : t[i] = f[i]
        /\ t[Len(f) + 1] = s[Len(s)]
    BY <1>2, <2>1, AppendProperties
  <2>3. Len(s) = Len(t) /\ \A i \in 1..Len(s) : s[i] = t[i]
    BY <1>1, <1>2, <2>2
  <2>. QED  BY <2>2, <2>3, SeqEqual
<1>. QED  BY <1>1, <1>2, <1>3, <1>4 DEF Front, Last

\* The activations that wait, counted from the top.
LEMMA PendingAppend ==
  ASSUME NEW s, s \in Seq(Range(s)), NEW a
  PROVE  /\ Pending(s) \in Nat
         /\ Pending(Append(s, a)) = Pending(s) + (IF Waits(a) THEN 1 ELSE 0)
<1>. DEFINE t == Append(s, a)
            P == {i \in 1..Len(s) : Waits(s[i])}
            Q == {i \in 1..Len(t) : Waits(t[i])}
<1>1. /\ Len(s) \in Nat /\ Len(t) = Len(s) + 1
      /\ \A i \in 1..Len(s) : t[i] = s[i]
      /\ t[Len(s) + 1] = a
  BY Appending
<1>. HIDE DEF t
<1>2. Q = IF Waits(a) THEN P \cup {Len(s) + 1} ELSE P
  BY <1>1
<1>3. IsFiniteSet(P)
  <2>1. IsFiniteSet(1..Len(s))
    BY <1>1, FS_Interval
  <2>. QED  BY <2>1, FS_Subset
<1>4. Len(s) + 1 \notin P
  BY <1>1
<1>. HIDE DEF P, Q
<1>5. Cardinality(P) \in Nat
  BY <1>3, FS_CardinalityType
<1>6. Cardinality(P \cup {Len(s) + 1}) = Cardinality(P) + 1
  <2>. DEFINE n == Len(s) + 1
  <2>. HIDE DEF n
  <2>1. n \notin P => Cardinality(P \cup {n}) = Cardinality(P) + 1
    BY <1>3, FS_AddElement
  <2>. QED  BY <1>4, <2>1 DEF n
<1>7. Cardinality(Q) = Cardinality(P) + (IF Waits(a) THEN 1 ELSE 0)
  BY <1>2, <1>5, <1>6
<1>. QED  BY <1>5, <1>7 DEF P, Q, t, Pending

LEMMA PendingSplit ==
  ASSUME NEW s, s \in Seq(Range(s)), s # <<>>
  PROVE  /\ Pending(Front(s)) \in Nat
         /\ Pending(s) = Pending(Front(s)) + (IF Waits(Last(s)) THEN 1 ELSE 0)
<1>. DEFINE f == Front(s)
<1>1. f \in Seq(Range(f)) /\ s = Append(f, Last(s))
  BY Splitting
<1>. HIDE DEF f
<1>2. Pending(f) \in Nat
      /\ Pending(Append(f, Last(s))) = Pending(f) + (IF Waits(Last(s)) THEN 1 ELSE 0)
  BY <1>1, PendingAppend
<1>. QED  BY <1>1, <1>2 DEF f
-----------------------------------------------------------------------------
\* A call is made: the stack stays a stack, and no other one begins to wait.
LEMMA Pushed ==
  ASSUME NEW s, Stack(s), NEW a, Calls(Last(s), a)
  PROVE  LET t == Append(s, a)
         IN  /\ Stack(t) /\ Last(t) = a /\ Pending(s) \in Nat
             /\ Pending(t) = Pending(s) + (IF Waits(a) THEN 1 ELSE 0)
<1>. DEFINE t == Append(s, a)
<1>1. s \in Seq(Range(s)) /\ s # <<>> /\ s[1].fn = "parseBinOp"
      /\ \A i \in 1..(Len(s) - 1) : Calls(s[i], s[i + 1])
  BY DEF Stack
<1>2. /\ t \in Seq(Range(t)) /\ t # <<>>
      /\ Len(t) = Len(s) + 1
      /\ \A i \in 1..Len(s) : t[i] = s[i]
      /\ t[Len(s) + 1] = a
  BY <1>1, Appending
<1>3. Len(s) \in Nat \ {0}
  BY <1>1, Splitting
<1>4. Pending(s) \in Nat /\ Pending(t) = Pending(s) + (IF Waits(a) THEN 1 ELSE 0)
  BY <1>1, PendingAppend
<1>. HIDE DEF t
<1>5. t[1].fn = "parseBinOp"
  BY <1>1, <1>2, <1>3
<1>6. \A i \in 1..(Len(t) - 1) : Calls(t[i], t[i + 1])
  <2>1. TAKE i \in 1..(Len(t) - 1)
  <2>2. CASE i = Len(s)
    <3>1. t[i] = Last(s) /\ t[i + 1] = a
      BY <2>2, <1>2, <1>3 DEF Last
    <3>. QED  BY <3>1
  <2>3. CASE i # Len(s)
    <3>1. i \in 1..(Len(s) - 1) /\ i \in 1..Len(s) /\ i + 1 \in 1..Len(s)
      BY <2>1, <2>3, <1>2, <1>3
    <3>2. t[i] = s[i] /\ t[i + 1] = s[i + 1] /\ Calls(s[i], s[i + 1])
      BY <3>1, <1>1, <1>2
    <3>. QED  BY <3>2
  <2>. QED  BY <2>2, <2>3
<1>7. Last(t) = a
  BY <1>2, <1>3 DEF Last
<1>8. Stack(t)
  BY <1>2, <1>5, <1>6 DEF Stack
<1>. QED  BY <1>4, <1>7, <1>8 DEF t

\* A call returns to the one that made it.
LEMMA Popped ==
  ASSUME NEW s, Stack(s)
  PROVE  /\ Pending(Front(s)) \in Nat
         /\ Pending(s) = Pending(Front(s)) + (IF Waits(Last(s)) THEN 1 ELSE 0)
         /\ Front(s) = <<>> => Last(s).fn = "parseBinOp"
         /\ Front(s) # <<>> => Stack(Front(s)) /\ Calls(Last(Front(s)), Last(s))
<1>. DEFINE f == Front(s)
<1>1. s \in Seq(Range(s)) /\ s # <<>> /\ s[1].fn = "parseBinOp"
      /\ \A i \in 1..(Len(s) - 1) : Calls(s[i], s[i + 1])
  BY DEF Stack
<1>2. /\ f \in Seq(Range(f))
      /\ Len(s) \in Nat \ {0} /\ Len(f) = Len(s) - 1
      /\ \A i \in 1..(Len(s) - 1) : f[i] = s[i]
  BY <1>1, Splitting
<1>3. /\ Pending(f) \in Nat
      /\ Pending(s) = Pending(f) + (IF Waits(Last(s)) THEN 1 ELSE 0)
  BY <1>1, PendingSplit
<1>. HIDE DEF f
<1>4. ASSUME f = <<>>  PROVE  Last(s).fn = "parseBinOp"
  <2>1. Len(s) = 1
    BY <1>2, <1>4, EmptySeq
  <2>. QED  BY <2>1, <1>1 DEF Last
<1>5. ASSUME f # <<>>  PROVE  Stack(f) /\ Calls(Last(f), Last(s))
  <2>1. Len(f) \in Nat \ {0}
    BY <1>2, <1>5, EmptySeq
  <2>2. f[1].fn = "parseBinOp"
    BY <2>1, <1>1, <1>2
  <2>3. \A i \in 1..(Len(f) - 1) : Calls(f[i], f[i + 1])
    <3>1. TAKE i \in 1..(Len(f) - 1)
    <3>2. i \in 1..(Len(s) - 1) /\ i + 1 \in 1..(Len(s) - 1)
      BY <3>1, <2>1, <1>2
    <3>3. f[i] = s[i] /\ f[i + 1] = s[i + 1] /\ Calls(s[i], s[i + 1])
      BY <3>2, <1>1, <1>2
    <3>. QED  BY <3>3
  <2>4. Calls(Last(f), Last(s))
    <3>1. Len(f) \in 1..(Len(s) - 1) /\ Len(f) + 1 = Len(s)
      BY <2>1, <1>2
    <3>2. f[Len(f)] = s[Len(f)] /\ Calls(s[Len(f)], s[Len(f) + 1])
      BY <3>1, <1>1, <1>2
    <3>. QED  BY <3>1, <3>2 DEF Last
  <2>. QED  BY <1>2, <1>5, <2>2, <2>3, <2>4 DEF Stack
<1>. QED  BY <1>3, <1>4, <1>5 DEF f

\* The first activation.
LEMMA First ==
  ASSUME NEW a, a.fn = "parseBinOp"
  PROVE  LET t == Append(<<>>, a)
         IN  /\ Stack(t) /\ Last(t) = a
             /\ Pending(t) = IF Waits(a) THEN 1 ELSE 0
<1>. DEFINE e == << >>
            t == Append(e, a)
<1>1. e \in Seq(Range(e)) /\ Len(e) = 0
  BY EmptySeq
<1>2. /\ t \in Seq(Range(t)) /\ t # <<>>
      /\ Len(t) = 0 + 1
      /\ t[0 + 1] = a
  BY <1>1, Appending
<1>3. Pending(e) = 0
  <2>1. {i \in 1..Len(e) : Waits(e[i])} = {}
    BY <1>1
  <2>. QED  BY <2>1, FS_EmptySet DEF Pending
<1>4. Pending(t) = Pending(e) + (IF Waits(a) THEN 1 ELSE 0)
  BY <1>1, PendingAppend
<1>. HIDE DEF e, t
<1>5. Stack(t) /\ Last(t) = a
  BY <1>2 DEF Stack, Last
<1>6. Pending(t) = IF Waits(a) THEN 1 ELSE 0
  BY <1>3, <1>4
<1>. QED  BY <1>5, <1>6 DEF e, t

\* The innermost activation goes on as another one of the same function.
LEMMA Replaced ==
  ASSUME NEW s, Stack(s), NEW b, b.fn = Last(s).fn
  PROVE  LET t == Append(Front(s), b)
         IN  /\ Stack(t) /\ Last(t) = b
             /\ Pending(t) = Pending(Front(s)) + (IF Waits(b) THEN 1 ELSE 0)
<1>. DEFINE f == Front(s)
<1>1. /\ Pending(f) \in Nat
      /\ f = <<>> => Last(s).fn = "parseBinOp"
      /\ f # <<>> => Stack(f) /\ Calls(Last(f), Last(s))
  BY Popped
<1>. HIDE DEF f
<1>2. CASE f = <<>>
  <2>1. Pending(f) = 0
    <3>1. Len(f) = 0
      BY <1>2, EmptySeq
    <3>2. {i \in 1..Len(f) : Waits(f[i])} = {}
      BY <3>1
    <3>. QED  BY <3>2, FS_EmptySet DEF Pending
  <2>2. b.fn = "parseBinOp"
    BY <1>1, <1>2
  <2>. QED  BY <2>1, <2>2, <1>2, First DEF f
<1>3. CASE f # <<>>
  <2>1. Calls(Last(f), b)
    BY <1>1, <1>3 DEF Calls
  <2>. QED  BY <2>1, <1>1, <1>3, Pushed DEF f
<1>. QED  BY <1>2, <1>3

\* Two calls at once: the second is made by the first.
LEMMA PushedTwo ==
  ASSUME NEW s, s \in Seq(Range(s)), NEW a, NEW b
  PROVE  s \o <<a, b>> = Append(Append(s, a), b)
<1>. DEFINE S == Range(s) \cup {a, b}
<1>1. s \in Seq(S)
  BY SeqMonotonic
<1>2. a \in S /\ b \in S
  OBVIOUS
<1>. HIDE DEF S
<1>3. <<a>> \in Seq(S) /\ <<b>> \in Seq(S)
  BY <1>2
<1>4. <<a>> \o <<b>> = <<a, b>>
  <2>. DEFINE t == <<a>> \o <<b>>
              u == <<a, b>>
  <2>1. Len(<<a>>) = 1 /\ Len(<<b>>) = 1 /\ <<a>>[1] = a /\ <<b>>[1] = b
    OBVIOUS
  <2>2. /\ t \in Seq(S) /\ Len(t) = 1 + 1
        /\ \A i \in 1..(1 + 1) : t[i] = IF i <= 1 THEN <<a>>[i] ELSE <<b>>[i - 1]
    BY <1>3, <2>1, ConcatProperties
  <2>3. u \in Seq(S) /\ Len(u) = 2 /\ u[1] = a /\ u[2] = b
    BY <1>2
  <2>. HIDE DEF t, u
  <2>4. t[1] = a /\ t[2] = b
    BY <2>1, <2>2
  <2>5. \A i \in 1..Len(t) : t[i] = u[i]
    BY <2>2, <2>3, <2>4
  <2>6. t = u
    BY <2>2, <2>3, <2>5, SeqEqual
  <2>. QED  BY <2>6 DEF t, u
<1>5. Append(s, a) = s \o <<a>> /\ Append(s, a) \in Seq(S)
  BY <1>1, <1>2, AppendIsConcat, AppendProperties
<1>6. Append(Append(s, a), b) = (s \o <<a>>) \o <<b>>
  BY <1>2, <1>5, AppendIsConcat
<1>7. (s \o <<a>>) \o <<b>> = s \o (<<a>> \o <<b>>)
  BY <1>1, <1>2, ConcatAssociative
<1>. QED  BY <1>2, <1>6, <1>7
-----------------------------------------------------------------------------
\* An Exp is made for a parseBinOp: the arena has room for it, or is too small
\* for what the input has paid.
LEMMA Made ==
  ASSUME used \in Nat, taken' \in Nat, from' \in Nat, status = "parsing",
         NEW stack, Stack(stack), Last(stack).fn = "parseBinOp",
         NEW exp, Make(stack, exp), value' = <<>>,
         used + 1 + Pending(Front(stack)) < Paid'
  PROVE  Inv'
<1>. DEFINE top == BinOp(Last(stack).minBP, <<exp>>, "")
            rest == Pending(Front(stack))
            paid == 2 * (taken' - from')
<1>1. rest \in Nat /\ paid \in Int
  BY Popped
<1>2. /\ Stack(Append(Front(stack), top)) /\ Last(Append(Front(stack), top)) = top
      /\ Pending(Append(Front(stack), top)) = rest
  <2>1. top.fn = "parseBinOp" /\ top.op = ""
    BY DEF BinOp
  <2>2. ~Waits(top)
    BY <2>1 DEF Waits
  <2>. HIDE DEF top, rest
  <2>3. /\ Stack(Append(Front(stack), top)) /\ Last(Append(Front(stack), top)) = top
        /\ Pending(Append(Front(stack), top)) = Pending(Front(stack)) + 0
    BY <2>1, <2>2, Replaced
  <2>. QED  BY <1>1, <2>3 DEF rest
<1>3. used + 1 + rest < paid /\ Paid' = paid
  BY DEF Paid
<1>. HIDE DEF rest, paid
<1>4. CASE used' = used + 1 /\ calls' = Receive(stack, exp) /\ UNCHANGED status
  <2>1. calls' = Append(Front(stack), top)
    BY <1>4 DEF Receive
  <2>. HIDE DEF top
  <2>2. Stack(calls') /\ Pending(calls') = rest
    BY <2>1, <1>2
  <2>3. Parsing'
    <3>1. used' + Pending(calls') < paid /\ used' + Pending(calls') <= paid
      BY <2>2, <1>1, <1>3, <1>4
    <3>. QED  BY <2>2, <3>1, <1>3 DEF Parsing
  <2>4. MemoryPerInput'
    BY <1>4 DEF MemoryPerInput
  <2>. QED  BY <2>3, <2>4, <1>4 DEF Inv
<1>5. CASE used + 1 >= Capacity /\ status' = "bad_alloc" /\ UNCHANGED <<used, calls>>
  <2>1. Capacity < paid
    BY <1>1, <1>3, <1>5, CapacityAssumption
  <2>2. MemoryPerInput'
    BY <2>1 DEF MemoryPerInput, paid
  <2>. QED  BY <2>2, <1>5 DEF Inv
<1>. QED  BY <1>4, <1>5 DEF Make

\* Without an Exp: what holds while parsing is all there is to show.
LEMMA GoesOn ==
  ASSUME used' \in Nat, taken' \in Nat, from' \in Nat, status' = "parsing", Stack(calls'),
         value' # <<>> /\ Last(calls').fn = "parseBinOp" => Waits(Last(calls')),
         used' + Pending(calls') <= Paid',
         \/ Last(calls').fn = "parseBinOp" /\ Last(calls').lhs = <<>>
         \/ used' + Pending(calls') < Paid'
  PROVE  Inv'
<1>1. Parsing'
  BY DEF Parsing, OperandNext, Top
<1>2. MemoryPerInput'
  BY DEF MemoryPerInput
<1>. QED  BY <1>1, <1>2 DEF Inv

\* What an activation finds when it goes on.
LEMMA Situation ==
  ASSUME Inv, status = "parsing", from' = from
  PROVE  /\ used \in Nat /\ taken \in Nat /\ from \in Nat /\ from' \in Nat
         /\ Paid \in Int
         /\ taken' = taken => Paid' = Paid
         /\ taken' = taken + 1 => taken' \in Nat /\ Paid' = Paid + 2
         /\ Stack(calls) /\ calls \in Seq(Range(calls))
         /\ value # <<>> /\ Top.fn = "parseBinOp" => Waits(Top)
         /\ Pending(calls) \in Nat /\ Pending(Below) \in Nat
         /\ Pending(calls) = Pending(Below) + (IF Waits(Top) THEN 1 ELSE 0)
         /\ used + Pending(calls) <= Paid
         /\ OperandNext \/ used + Pending(calls) < Paid
         /\ Below = <<>> => Top.fn = "parseBinOp"
         /\ Below # <<>> => Stack(Below) /\ Calls(Last(Below), Top)
<1>1. /\ used \in Nat /\ taken \in Nat /\ from \in Nat /\ from' \in Nat
      /\ Parsing
  BY DEF Inv
<1>2. /\ Paid \in Int
      /\ taken' = taken => Paid' = Paid
      /\ taken' = taken + 1 => taken' \in Nat /\ Paid' = Paid + 2
  BY <1>1 DEF Paid
<1>3. Stack(calls) /\ calls \in Seq(Range(calls))
  BY <1>1 DEF Parsing, Stack
<1>4. /\ Pending(Front(calls)) \in Nat
      /\ Pending(calls) = Pending(Front(calls)) + (IF Waits(Last(calls)) THEN 1 ELSE 0)
      /\ Front(calls) = <<>> => Last(calls).fn = "parseBinOp"
      /\ Front(calls) # <<>> => Stack(Front(calls)) /\ Calls(Last(Front(calls)), Last(calls))
  BY <1>3, Popped
<1>5. Pending(calls) \in Nat
  BY <1>4
<1>. QED  BY <1>1, <1>2, <1>3, <1>4, <1>5 DEF Parsing, Top, Below

\* A call of parseBinOp begins with its operand.
LEMMA BinOpCalled ==
  ASSUME NEW s, Stack(s), Waits(Last(s)) \/ Last(s).fn = "parseParens", NEW minBP
  PROVE  LET t == Append(s, BinOpCall(minBP))
         IN  /\ Stack(t) /\ Last(t).fn = "parseBinOp" /\ Last(t).lhs = <<>>
             /\ Pending(t) = Pending(s)
<1>. DEFINE a == BinOpCall(minBP)
<1>1. a.fn = "parseBinOp" /\ a.lhs = <<>>
  BY DEF BinOpCall, BinOp
<1>2. ~Waits(a) /\ Calls(Last(s), a)
  BY <1>1 DEF Waits, Calls
<1>. HIDE DEF a
<1>3. /\ Stack(Append(s, a)) /\ Last(Append(s, a)) = a /\ Pending(s) \in Nat
      /\ Pending(Append(s, a)) = Pending(s) + 0
  BY <1>2, Pushed
<1>. QED  BY <1>1, <1>3 DEF a
-----------------------------------------------------------------------------
\* The operand of parseBinOp.
LEMMA OperandKeeps ==
  ASSUME Inv, from' = from, ReadLeaf \/ ReadOpening \/ ReadFn \/ Throw
  PROVE  Inv'
<1>1. /\ status = "parsing" /\ Top.fn = "parseBinOp" /\ Top.lhs = <<>>
      /\ taken' = taken + 1
  BY DEF ReadLeaf, ReadOpening, ReadFn, Throw, ReadOperand, In, NextToken
<1>2. ~Waits(Top)
  BY <1>1 DEF Waits
<1>3. /\ used \in Nat /\ taken' \in Nat /\ from' \in Nat
      /\ Stack(calls) /\ calls \in Seq(Range(calls)) /\ value = <<>>
      /\ Pending(calls) \in Nat /\ Pending(Below) = Pending(calls)
      /\ used + Pending(calls) + 1 < Paid'
  BY <1>1, <1>2, Situation
<1>4. ASSUME ReadLeaf  PROVE  Inv'
  <2>1. PICK exp : Make(calls, exp)
    BY <1>4 DEF ReadLeaf
  <2>2. value' = <<>>
    BY <1>3, <1>4 DEF ReadLeaf
  <2>3. used + 1 + Pending(Front(calls)) < Paid'
    BY <1>3 DEF Below
  <2>. QED  BY <2>1, <2>2, <2>3, <1>1, <1>3, Made DEF Top
<1>5. ASSUME ReadOpening  PROVE  Inv'
  <2>1. PICK a : (a = ParensCall \/ a = IfCall(<<>>)) /\ calls' = calls \o <<a, BinOpCall(0)>>
    BY <1>5 DEF ReadOpening
  <2>2. Calls(Last(calls), a) /\ (Waits(a) \/ a.fn = "parseParens")
    <3>1. a.fn = "parseParens" \/ a.fn = "parseIf"
      BY <2>1 DEF ParensCall, IfCall
    <3>. QED  BY <3>1, <1>1 DEF Calls, Waits, Top
  <2>3. Stack(Append(calls, a)) /\ Last(Append(calls, a)) = a
        /\ Pending(Append(calls, a)) = Pending(calls) + (IF Waits(a) THEN 1 ELSE 0)
    BY <2>2, <1>3, Pushed
  <2>4. calls' = Append(Append(calls, a), BinOpCall(0))
    BY <2>1, <1>3, PushedTwo
  <2>5. /\ Stack(calls') /\ Last(calls').fn = "parseBinOp" /\ Last(calls').lhs = <<>>
        /\ Pending(calls') = Pending(Append(calls, a))
    BY <2>2, <2>3, <2>4, BinOpCalled
  <2>6. status' = "parsing" /\ used' = used /\ value' = <<>>
    BY <1>1, <1>3, <1>5 DEF ReadOpening
  <2>7. Pending(calls') \in Nat /\ Pending(calls') <= Pending(calls) + 1
    BY <2>3, <2>5, <1>3
  <2>8. used' + Pending(calls') <= Paid'
    BY <2>6, <2>7, <1>3 DEF Paid
  <2>. QED  BY <2>5, <2>6, <2>8, <1>3, GoesOn
<1>6. ASSUME ReadFn  PROVE  Inv'
  <2>. DEFINE a == FnCall(<<>>)
  <2>1. a.fn = "parseFn"
    BY DEF FnCall
  <2>2. Calls(Last(calls), a) /\ Waits(a)
    BY <2>1, <1>1 DEF Calls, Waits, Top
  <2>3. calls' = Append(calls, a)
    BY <1>6 DEF ReadFn
  <2>. HIDE DEF a
  <2>4. Stack(calls') /\ Last(calls') = a /\ Pending(calls') = Pending(calls) + 1
    BY <2>2, <2>3, <1>3, Pushed
  <2>5. status' = "parsing" /\ used' = used /\ value' = <<>>
    BY <1>1, <1>3, <1>6 DEF ReadFn
  <2>6. used' + Pending(calls') < Paid' /\ used' + Pending(calls') <= Paid'
    BY <2>4, <2>5, <1>3 DEF Paid
  <2>. QED  BY <2>1, <2>4, <2>5, <2>6, <1>3, GoesOn
<1>7. ASSUME Throw  PROVE  Inv'
  <2>1. status' = "thrown" /\ used' = used
    BY <1>7 DEF Throw
  <2>. QED  BY <2>1, <1>3 DEF Inv, MemoryPerInput
<1>. QED  BY <1>4, <1>5, <1>6, <1>7

\* The loop of parseBinOp.
LEMMA LoopKeeps ==
  ASSUME Inv, from' = from, PeekOp \/ TakeOp \/ TakeArg \/ ReturnLhs
  PROVE  Inv'
<1>1. status = "parsing" /\ Top.fn = "parseBinOp" /\ Top.lhs # <<>> /\ value = <<>>
  BY DEF PeekOp, TakeOp, TakeArg, ReturnLhs, InLoop, In
<1>2. /\ used \in Nat /\ taken \in Nat /\ from' \in Nat
      /\ Stack(calls) /\ calls \in Seq(Range(calls))
      /\ Pending(calls) \in Nat /\ Pending(Below) \in Nat /\ Pending(Below) <= Pending(calls)
      /\ used + Pending(calls) < Paid /\ Paid \in Int
      /\ taken' = taken => Paid' = Paid
      /\ taken' = taken + 1 => Paid' = Paid + 2
      /\ Below # <<>> => Stack(Below) /\ Calls(Last(Below), Top)
  BY <1>1, Situation DEF OperandNext
<1>3. Below \in Seq(Range(Below))
  BY <1>2, Splitting DEF Below, Stack
<1>4. ASSUME PeekOp  PROVE  Inv'
  <2>1. UNCHANGED <<calls, value, used, status, taken>>
    BY <1>4 DEF PeekOp, Peek
  <2>2. Paid' = Paid
    BY <2>1 DEF Paid
  <2>. QED  BY <2>1, <2>2, <1>1, <1>2 DEF Inv, Parsing, OperandNext, Top, MemoryPerInput
<1>5. ASSUME NEW op, op # "", NEW rbp, Continue(op, rbp), UNCHANGED <<value, used, status>>,
             taken' \in {taken, taken + 1}
      PROVE  Inv'
  <2>. DEFINE a == BinOp(Top.minBP, Top.lhs, op)
  <2>1. a.fn = "parseBinOp" /\ Waits(a)
    <3>1. a.fn = "parseBinOp" /\ a.lhs = Top.lhs /\ a.op = op
      BY DEF BinOp
    <3>. QED  BY <3>1, <1>1, <1>5 DEF Waits
  <2>2. calls' = Below \o <<a, BinOpCall(rbp)>>
    BY <1>5 DEF Continue
  <2>. HIDE DEF a
  <2>3. Stack(Append(Below, a)) /\ Last(Append(Below, a)) = a
        /\ Pending(Append(Below, a)) = Pending(Below) + 1
    BY <2>1, <1>1, <1>2, Replaced DEF Top, Below
  <2>4. calls' = Append(Append(Below, a), BinOpCall(rbp))
    BY <2>2, <1>3, PushedTwo
  <2>5. /\ Stack(calls') /\ Last(calls').fn = "parseBinOp" /\ Last(calls').lhs = <<>>
        /\ Pending(calls') = Pending(Below) + 1
    BY <2>1, <2>3, <2>4, BinOpCalled
  <2>6. used' = used /\ status' = "parsing" /\ value' = <<>>
    BY <1>1, <1>5
  <2>7. taken' = taken \/ taken' = taken + 1
    BY <1>5
  <2>8. taken' \in Nat
    BY <2>7, <1>2
  <2>9. Paid' = Paid \/ Paid' = Paid + 2
    BY <2>7, <1>2
  <2>10. used' + Pending(calls') <= Paid'
    BY <2>5, <2>6, <2>9, <1>2
  <2>. QED  BY <2>5, <2>6, <2>8, <2>10, <1>2, GoesOn
<1>6. ASSUME TakeOp  PROVE  Inv'
  <2>1. ParseOp(peekToken) \in Bops
    BY <1>6 DEF TakeOp, TakesOp, IsOp, ParseOp
  <2>2. ParseOp(peekToken) # ""
    BY <2>1 DEF Bops
  <2>3. taken' \in {taken, taken + 1}
    BY <1>6 DEF TakeOp, NextToken
  <2>4. PICK rbp : Continue(ParseOp(peekToken), rbp)
    BY <1>6 DEF TakeOp
  <2>5. UNCHANGED <<value, used, status>>
    BY <1>6 DEF TakeOp
  <2>. QED  BY <2>2, <2>3, <2>4, <2>5, <1>5
<1>7. ASSUME TakeArg  PROVE  Inv'
  <2>1. taken' \in {taken, taken + 1}
    BY <1>7 DEF TakeArg, tokenVars
  <2>2. Continue("App", AppRBP) /\ UNCHANGED <<value, used, status>>
    BY <1>7 DEF TakeArg
  <2>3. "App" # ""
    OBVIOUS
  <2>. QED  BY <2>1, <2>2, <2>3, <1>5
<1>8. ASSUME ReturnLhs  PROVE  Inv'
  <2>1. /\ value' # <<>> /\ calls' = Below
        /\ status' = IF Below = <<>> THEN "parsed" ELSE "parsing"
        /\ used' = used /\ taken' = taken
    BY <1>1, <1>8 DEF ReturnLhs, tokenVars
  <2>2. CASE Below = <<>>
    BY <2>1, <2>2, <1>2 DEF Inv, MemoryPerInput
  <2>3. CASE Below # <<>>
    <3>1. Last(Below).fn = "parseBinOp" => Waits(Last(Below))
      BY <2>3, <1>1, <1>2 DEF Calls
    <3>2. used' + Pending(calls') < Paid' /\ used' + Pending(calls') <= Paid'
      BY <2>1, <1>2 DEF Paid, Inv
    <3>. QED  BY <2>1, <2>3, <3>1, <3>2, <1>2, GoesOn
  <2>. QED  BY <2>2, <2>3
<1>. QED  BY <1>4, <1>6, <1>7, <1>8

\* An Exp of what was returned.
LEMMA MakingKeeps ==
  ASSUME Inv, from' = from, Combine \/ MakeLam \/ MakeIf
  PROVE  Inv'
<1>1. /\ status = "parsing" /\ value # <<>> /\ value' = <<>> /\ taken' = taken
      /\ Top.fn \in {"parseBinOp", "parseFn", "parseIf"}
  BY DEF Combine, MakeLam, MakeIf, In, tokenVars
<1>2. Waits(Top)
  <2>1. Top.fn = "parseBinOp" => Waits(Top)
    BY <1>1, Situation
  <2>. QED  BY <1>1, <2>1 DEF Waits
<1>3. /\ used \in Nat /\ taken' \in Nat /\ from' \in Nat /\ Paid' = Paid /\ Paid \in Int
      /\ Stack(calls) /\ Pending(Below) \in Nat /\ Pending(calls) = Pending(Below) + 1
      /\ Below = <<>> => Top.fn = "parseBinOp"
      /\ Below # <<>> => Stack(Below) /\ Calls(Last(Below), Top)
      /\ OperandNext \/ used + Pending(calls) < Paid
  BY <1>1, <1>2, Situation
<1>4. used + Pending(calls) < Paid
  BY <1>2, <1>3 DEF OperandNext, Waits
<1>5. used + 1 + Pending(Below) < Paid'
  BY <1>3, <1>4
<1>6. ASSUME Combine  PROVE  Inv'
  <2>1. PICK exp : Make(calls, exp)
    BY <1>6 DEF Combine
  <2>2. Last(calls).fn = "parseBinOp"
    BY <1>6 DEF Combine, In, Top
  <2>3. used + 1 + Pending(Front(calls)) < Paid'
    BY <1>5 DEF Below
  <2>. QED  BY <2>1, <2>2, <2>3, <1>1, <1>3, Made
<1>7. ASSUME MakeLam \/ MakeIf  PROVE  Inv'
  <2>1. PICK exp : Make(Below, exp)
    BY <1>7 DEF MakeLam, MakeIf
  <2>2. Top.fn # "parseBinOp"
    BY <1>7 DEF MakeLam, MakeIf, In
  <2>3. Stack(Below) /\ Last(Below).fn = "parseBinOp"
    BY <2>2, <1>3 DEF Calls
  <2>4. Pending(Front(Below)) \in Nat /\ Pending(Front(Below)) <= Pending(Below)
    BY <2>3, Popped
  <2>5. used + 1 + Pending(Front(Below)) < Paid'
    BY <2>4, <1>3, <1>5
  <2>. QED  BY <2>1, <2>3, <2>5, <1>1, <1>3, Made
<1>. QED  BY <1>6, <1>7

\* The tokens that parseFn, parseIf and parseParens demand.
LEMMA DemandsKeep ==
  ASSUME Inv, from' = from,
         ReadParam \/ ReadArrow \/ ReadBranch \/ CloseParens \/ AssertionFails
  PROVE  Inv'
<1>1. status = "parsing" /\ Top.fn # "parseBinOp" /\ taken' = taken + 1
  BY DEF ReadParam, ReadArrow, ReadBranch, CloseParens, AssertionFails, Demanded, In, NextToken
<1>2. /\ used \in Nat /\ taken' \in Nat /\ from' \in Nat /\ Paid' = Paid + 2 /\ Paid \in Int
      /\ Stack(calls) /\ calls \in Seq(Range(calls))
      /\ Pending(calls) \in Nat /\ Pending(Below) \in Nat
      /\ Pending(calls) = Pending(Below) + (IF Waits(Top) THEN 1 ELSE 0)
      /\ used + Pending(calls) <= Paid
      /\ Stack(Below) /\ Calls(Last(Below), Top)
  BY <1>1, Situation
<1>3. Below \in Seq(Range(Below)) /\ Last(Below).fn = "parseBinOp"
  BY <1>1, <1>2 DEF Calls, Stack
<1>4. ASSUME UNCHANGED <<used, status>>, Stack(calls'), Pending(calls') \in Nat,
             Pending(calls') <= Pending(calls),
             value' # <<>> /\ Last(calls').fn = "parseBinOp" => Waits(Last(calls'))
      PROVE  Inv'
  <2>1. used' + Pending(calls') < Paid' /\ used' + Pending(calls') <= Paid'
    BY <1>2, <1>4
  <2>. QED  BY <2>1, <1>1, <1>2, <1>4, GoesOn
<1>5. ASSUME ReadParam  PROVE  Inv'
  <2>1. PICK a : a.fn = "parseFn" /\ calls' = Append(Below, a)
    BY <1>5 DEF ReadParam, FnCall
  <2>2. Waits(a) /\ Waits(Top) /\ a.fn = Top.fn
    BY <1>5, <2>1 DEF ReadParam, In, Waits
  <2>3. Stack(calls') /\ Last(calls') = a /\ Pending(calls') = Pending(Below) + 1
    BY <2>1, <2>2, <1>2, Replaced DEF Top, Below
  <2>4. UNCHANGED <<used, status>> /\ Last(calls').fn # "parseBinOp"
    BY <2>1, <2>3, <1>5 DEF ReadParam
  <2>5. Pending(calls') \in Nat /\ Pending(calls') <= Pending(calls)
    BY <2>2, <2>3, <1>2
  <2>. QED  BY <2>3, <2>4, <2>5, <1>4
<1>6. ASSUME ReadArrow  PROVE  Inv'
  <2>1. /\ calls' = Append(calls, BinOpCall(0))
        /\ UNCHANGED <<value, used, status>> /\ value = <<>>
    BY <1>6 DEF ReadArrow
  <2>2. Waits(Last(calls))
    BY <1>6 DEF ReadArrow, In, Waits, Top
  <2>3. Stack(calls') /\ Pending(calls') = Pending(calls)
    BY <2>1, <2>2, <1>2, BinOpCalled
  <2>. QED  BY <2>1, <2>3, <1>2, <1>4
<1>7. ASSUME ReadBranch  PROVE  Inv'
  <2>1. PICK a : a.fn = "parseIf" /\ calls' = Below \o <<a, BinOpCall(0)>>
    BY <1>7 DEF ReadBranch, IfCall
  <2>2. Waits(a) /\ Waits(Top) /\ a.fn = Top.fn
    BY <1>7, <2>1 DEF ReadBranch, In, Waits
  <2>3. Stack(Append(Below, a)) /\ Last(Append(Below, a)) = a
        /\ Pending(Append(Below, a)) = Pending(Below) + 1
    BY <2>2, <1>2, Replaced DEF Top, Below
  <2>4. calls' = Append(Append(Below, a), BinOpCall(0))
    BY <2>1, <1>3, PushedTwo
  <2>5. Stack(calls') /\ Pending(calls') = Pending(Below) + 1
    BY <2>2, <2>3, <2>4, BinOpCalled
  <2>6. UNCHANGED <<used, status>> /\ value' = <<>>
    BY <1>7 DEF ReadBranch
  <2>7. Pending(calls') \in Nat /\ Pending(calls') <= Pending(calls)
    BY <2>2, <2>5, <1>2
  <2>. QED  BY <2>5, <2>6, <2>7, <1>4
<1>8. ASSUME CloseParens  PROVE  Inv'
  <2>1. PICK a : a = BinOp(Last(Below).minBP, <<value[1]>>, "") /\ calls' = Append(Front(Below), a)
    BY <1>8 DEF CloseParens, Receive
  <2>2. a.fn = "parseBinOp" /\ ~Waits(a)
    <3>1. a.fn = "parseBinOp" /\ a.op = ""
      BY <2>1 DEF BinOp
    <3>. QED  BY <3>1 DEF Waits
  <2>3. Stack(calls') /\ Pending(calls') = Pending(Front(Below)) + 0
    BY <2>1, <2>2, <1>2, <1>3, Replaced
  <2>4. Pending(Front(Below)) \in Nat /\ Pending(Front(Below)) <= Pending(Below)
    BY <1>2, Popped
  <2>5. UNCHANGED <<used, status>> /\ value' = <<>>
    BY <1>8 DEF CloseParens
  <2>6. Pending(calls') \in Nat /\ Pending(calls') <= Pending(calls)
    BY <2>3, <2>4, <1>2
  <2>. QED  BY <2>3, <2>5, <2>6, <1>4
<1>9. ASSUME AssertionFails  PROVE  Inv'
  <2>1. status' = "aborted" /\ used' = used
    BY <1>9 DEF AssertionFails
  <2>. QED  BY <2>1, <1>2 DEF Inv, MemoryPerInput
<1>. QED  BY <1>5, <1>6, <1>7, <1>8, <1>9

(***************************************************************************)
(* Whatever is typed, and whatever was evaluated or abandoned before, an   *)
(* allocation is refused only when the present input alone fills the       *)
(* arena, at less than two Exps of a token.                                *)
(***************************************************************************)
THEOREM MemoryIsPerInput == Spec => []MemoryPerInput
<1>1. Init => Inv
  BY DEF Init, InitParser, Inv, MemoryPerInput
<1>2. Inv /\ [Next]_vars => Inv'
  <2>. SUFFICES ASSUME Inv, [Next]_vars  PROVE  Inv'
    OBVIOUS
  <2>1. used \in Nat /\ taken \in Nat /\ from \in Nat
    BY DEF Inv
  <2>2. CASE SkipSemicolon
    <3>1. /\ status' = "loop" /\ value' = <<>> /\ used' = 0
          /\ taken' = taken + 1 /\ from' = from
      BY <2>2 DEF SkipSemicolon, Reset, NextToken, Inv
    <3>. QED  BY <3>1, <2>1 DEF Inv, MemoryPerInput
  <2>3. CASE Prompt
    <3>1. value' = <<>> /\ used' = 0 /\ taken' = taken /\ from' = taken
      BY <2>3 DEF Prompt, Reset, Peek, Inv
    <3>2. CASE peekToken' = ";"
      <4>1. status' = "loop"
        BY <2>3, <3>2 DEF Prompt
      <4>. QED  BY <4>1, <3>1, <2>1 DEF Inv, MemoryPerInput
    <3>3. CASE peekToken' # ";"
      <4>. DEFINE a == BinOpCall(0)
      <4>1. status' = "parsing" /\ calls' = <<a>>
        BY <2>3, <3>3 DEF Prompt
      <4>2. a.fn = "parseBinOp" /\ a.lhs = <<>>
        BY DEF BinOpCall, BinOp
      <4>. HIDE DEF a
      <4>3. calls' = Append(<<>>, a)
        BY <4>1
      <4>4. ~Waits(a)
        BY <4>2 DEF Waits
      <4>5. Stack(calls') /\ Last(calls') = a /\ Pending(calls') = 0
        BY <4>2, <4>3, <4>4, First
      <4>6. used' + Pending(calls') <= Paid'
        BY <4>5, <3>1, <2>1 DEF Paid
      <4>. QED  BY <4>1, <4>2, <4>5, <4>6, <3>1, <2>1, GoesOn
    <3>. QED  BY <3>2, <3>3
  <2>4. CASE ParseExpression
    <3>1. ParserStep /\ from' = from
      BY <2>4 DEF ParseExpression
    <3>. QED  BY <3>1, OperandKeeps, LoopKeeps, MakingKeeps, DemandsKeep DEF ParserStep
  <2>5. CASE Catch
    <3>1. status' \in {"ended", "loop"} /\ value' = <<>> /\ UNCHANGED <<used, taken, from>>
      BY <2>5 DEF Catch, Abandon, tokenVars
    <3>. QED  BY <3>1, <2>1 DEF Inv, MemoryPerInput
  <2>6. CASE Evaluate
    <3>1. value' = <<>> /\ UNCHANGED <<used, taken, from>>
      BY <2>6 DEF Evaluate, tokenVars
    <3>2. status' # "parsing" /\ status' # "bad_alloc"
      BY <2>6 DEF Evaluate
    <3>. QED  BY <3>1, <3>2, <2>1 DEF Inv, MemoryPerInput
  <2>7. CASE UNCHANGED vars
    BY <2>7 DEF vars, Inv, Parsing, Paid, OperandNext, Top, MemoryPerInput
  <2>. QED  BY <2>2, <2>3, <2>4, <2>5, <2>6, <2>7 DEF Next, Terminated
<1>3. Inv => MemoryPerInput
  BY DEF Inv
<1>. QED  BY <1>1, <1>2, <1>3, PTL DEF Spec
-----------------------------------------------------------------------------
(***************************************************************************)
(* The order of the tokens                                                 *)
(*                                                                         *)
(* Lexemes says where the tokens of a text start without walking over it.  *)
(* The lexer is always at a place where nothing starts in the middle of a  *)
(* token (Aligned), and has passed as many starts as it has delivered      *)
(* tokens (Delivered), those in the parser's buffer included.              *)
(***************************************************************************)
IsLexer(l) == l = [at |-> l.at, identifier |-> l.identifier, number |-> l.number]

IsText(t) == t \in Seq(Range(t)) /\ Range(t) \cap (Enumerators \cup {"none"}) = {}

\* Whatever is at p, but a blank, starts a token.
Aligned(t, p) == p \in 1..Len(t) /\ t[p] \notin Space => StartsToken(t, p)

\* How many tokens start before p.
Passed(t, p) == Cardinality({i \in Starts(t) : i < p})

\* How many tokens the lexer has delivered.
Delivered == IF peekToken = "none" THEN taken ELSE taken + 1

LexerOK(t, l, n) ==
    /\ IsLexer(l) /\ l.at \in 0..(Len(t) + 1) /\ Aligned(t, l.at)
    /\ Passed(t, l.at) <= n
    /\ l.at <= Len(t) => n = Passed(t, l.at)

OrderInv ==
    /\ text \in Texts /\ taken \in Nat
    /\ LexerOK(text, lexer, Delivered)
    /\ TokensInOrder

\* The kinds of characters.
LEMMA Characters ==
  /\ Space \cap AlNum = {} /\ Letter \cap Figure = {} /\ AlNum = Letter \cup Figure
  /\ "=" \notin Space \cup AlNum /\ ">" \notin Space \cup AlNum
  /\ Eof \notin Space \cup AlNum \cup {"=", ">"} /\ "=" # ">"
<1>1. Numeral[1] = "0" /\ Numeral[2] = "1" /\ Numeral[3] = "2" /\ Numeral[4] = "3"
      /\ Numeral[5] = "4" /\ Numeral[6] = "5" /\ Numeral[7] = "6" /\ Numeral[8] = "7"
      /\ Numeral[9] = "8" /\ Numeral[10] = "9" /\ DOMAIN Numeral = 1..10
  BY DEF Numeral
<1>2. \A i \in 1..10 : i = 1 \/ i = 2 \/ i = 3 \/ i = 4 \/ i = 5 \/ i = 6 \/ i = 7 \/ i = 8
                       \/ i = 9 \/ i = 10
  OBVIOUS
<1>3. Figure \subseteq {"0", "1", "2", "3", "4", "5", "6", "7", "8", "9"}
  BY <1>1, <1>2 DEF Figure, Range
<1>4. /\ Space \cap Figure = {} /\ Letter \cap Figure = {}
      /\ "=" \notin Figure /\ ">" \notin Figure /\ Eof \notin Figure
  BY <1>3 DEF Space, Letter, Eof
<1>5. /\ Space \cap Letter = {} /\ "=" \notin Letter /\ ">" \notin Letter /\ Eof \notin Letter
  BY DEF Space, Letter, Eof
<1>6. "=" \notin Space /\ ">" \notin Space /\ Eof \notin Space \cup {"=", ">"}
      /\ "=" # ">"
  BY DEF Space, Eof
<1>. QED  BY <1>4, <1>5, <1>6 DEF AlNum

LEMMA CharIs ==
  ASSUME NEW t, Len(t) \in Nat
  PROVE  /\ \A i \in 1..Len(t) : CharAt(t, i) = t[i]
         /\ \A i \in Int : i > Len(t) => CharAt(t, i) = Eof
         /\ CharAt(t, 0) \in Space
<1>1. /\ \A i \in 1..Len(t) : i # 0 /\ ~(i > Len(t))
      /\ \A i \in Int : i > Len(t) => i # 0
  OBVIOUS
<1>. PICK blank : blank = " "
  OBVIOUS
<1>2. \A i : CharAt(t, i) = IF i = 0 THEN blank ELSE IF i > Len(t) THEN Eof ELSE t[i]
  BY Zenon DEF CharAt
<1>3. blank \in Space
  BY Zenon DEF Space
<1>. QED  BY Zenon, <1>1, <1>2, <1>3

\* Where Behind stops.
LEMMA BehindIs ==
  ASSUME NEW t, Len(t) \in Nat, NEW i \in 0..(Len(t) + 1), NEW set, Eof \notin set
  PROVE  /\ Behind(t, i, set) \in i..(Len(t) + 1)
         /\ CharAt(t, Behind(t, i, set)) \notin set
         /\ \A m \in i..(Behind(t, i, set) - 1) : CharAt(t, m) \in set
<1>. DEFINE T == {j \in i..(Len(t) + 1) : CharAt(t, j) \notin set}
<1>1. T \subseteq Nat /\ Len(t) + 1 \in T
  <2>1. CharAt(t, Len(t) + 1) = Eof
    BY CharIs
  <2>. QED  BY <2>1
<1>2. PICK j \in T : \A k \in T : j <= k
  <2>1. IsWellFoundedOn(OpToRel(<, Nat), Nat)
    BY NatLessThanWellFounded
  <2>. HIDE DEF T
  <2>2. PICK m \in T : \A k \in T : ~(<<k, m>> \in OpToRel(<, Nat))
    BY <1>1, <2>1, WFMin
  <2>3. \A k \in T : k \in Nat /\ m \in Nat /\ ~(k < m)
    BY <1>1, <2>2 DEF OpToRel
  <2>4. \A k \in T : m <= k
    BY <2>3
  <2>. QED  BY <2>4
<1>3. \A m \in i..(j - 1) : CharAt(t, m) \in set
  <2>. SUFFICES ASSUME NEW m \in i..(j - 1), CharAt(t, m) \notin set PROVE FALSE
    OBVIOUS
  <2>1. m \in i..(Len(t) + 1) /\ ~(j <= m)
    OBVIOUS
  <2>. QED  BY <1>2, <2>1
<1>4. /\ j \in i..(Len(t) + 1) /\ CharAt(t, j) \notin set
  OBVIOUS
<1>. DEFINE Q(x) == CharAt(t, x) \notin set /\ \A m \in i..(x - 1) : CharAt(t, m) \in set
<1>5. Behind(t, i, set) = CHOOSE x \in i..(Len(t) + 1) : Q(x)
  BY DEF Behind
<1>6. \E x \in i..(Len(t) + 1) : Q(x)
  BY <1>3, <1>4
<1>. HIDE DEF Q
<1>7. Behind(t, i, set) \in i..(Len(t) + 1) /\ Q(Behind(t, i, set))
  BY <1>5, <1>6
<1>. QED  BY <1>7 DEF Q

\* It is the end of the longest run of characters of a set.
LEMMA LongestIs ==
  ASSUME NEW t, Len(t) \in Nat, NEW i \in 1..Len(t), NEW set, Eof \notin set, t[i] \in set
  PROVE  Longest(t, i, set) = SubSeq(t, i, Behind(t, i, set) - 1)
<1>. DEFINE J == {j \in i..Len(t) : \A m \in i..j : t[m] \in set}
<1>. PICK k : k = Behind(t, i, set)
  OBVIOUS
<1>1. /\ k \in i..(Len(t) + 1) /\ CharAt(t, k) \notin set
      /\ \A m \in i..(k - 1) : CharAt(t, m) \in set
  BY BehindIs
<1>2. k # i
  BY <1>1, CharIs
<1>3. k \in Int /\ k - 1 \in i..Len(t) /\ \A m \in i..(k - 1) : t[m] \in set
  <2>1. k \in Int /\ k - 1 \in i..Len(t) /\ \A m \in i..(k - 1) : m \in 1..Len(t)
    BY <1>1, <1>2
  <2>2. \A m \in 1..Len(t) : CharAt(t, m) = t[m]
    BY CharIs
  <2>. QED  BY <1>1, <2>1, <2>2
<1>4. k - 1 \in J
  BY <1>3
<1>5. \A j \in J : j <= k - 1
  <2>. SUFFICES ASSUME NEW j \in J, ~(j <= k - 1) PROVE FALSE
    OBVIOUS
  <2>1. k \in i..j /\ k \in 1..Len(t)
    BY <1>1
  <2>2. t[k] \notin set
    BY <1>1, <2>1, CharIs
  <2>. QED  BY <2>1, <2>2
<1>6. J \subseteq Int
  OBVIOUS
<1>. HIDE DEF J
<1>7. Max(J) = k - 1
  <2>1. ASSUME NEW x \in J, \A y \in J : x >= y PROVE x = k - 1
    <3>1. x \in Int /\ x >= k - 1 /\ x <= k - 1
      BY <1>4, <1>5, <1>6, <2>1
    <3>. QED  BY <1>3, <3>1
  <2>2. k - 1 \in J /\ \A y \in J : k - 1 >= y
    BY <1>4, <1>5, <1>6
  <2>. QED  BY <2>1, <2>2 DEF Max
<1>. QED  BY <1>7 DEF Longest, J

\* Behind anything but a letter, a figure and a =, a token may start.
LEMMA StartsBehind ==
  ASSUME NEW t, Len(t) \in Nat, NEW i \in 1..(Len(t) + 1),
         i = 1 \/ t[i - 1] \notin AlNum \cup {"="}
  PROVE  Aligned(t, i)
<1>. SUFFICES ASSUME i \in 1..Len(t), t[i] \notin Space PROVE StartsToken(t, i)
  BY DEF Aligned
<1>1. {m \in 1..(i - 1) : \A q \in m..(i - 1) : t[q] \in AlNum} = {}
  <2>1. \A m \in 1..(i - 1) : i - 1 \in m..(i - 1) /\ i # 1
    OBVIOUS
  <2>. QED  BY <2>1
<1>2. t[i] = ">" => i = 1 \/ t[i - 1] # "="
  OBVIOUS
<1>. QED  BY <1>1, <1>2, Characters DEF StartsToken

\* What getToken does from p with the next character, at i, that is no blank.  r is the
\* token and the lexer it leaves, at q.
Delivers(t, p, r) ==
    LET q == r.lexer.at
    IN  /\ IsLexer(r.lexer) /\ q \in 1..(Len(t) + 1) /\ p <= q /\ Aligned(t, q)
        /\ \/ /\ r.token = Eof /\ q = Len(t) + 1
              /\ \A j \in Starts(t) : j < p
           \/ \E i \in Starts(t) :
                 /\ p <= i /\ i < q /\ r.token = Lexeme(t, i).token
                 /\ \A j \in Starts(t) : p <= j /\ j < q => j = i

\* The token at i reaches to before q: nothing else starts there.
LEMMA OneToken ==
  ASSUME NEW t, Len(t) \in Nat, NEW p \in 0..(Len(t) + 1), NEW i \in Starts(t), p <= i,
         \A j \in 1..Len(t) : p <= j /\ j < i => t[j] \in Space,
         NEW r, IsLexer(r.lexer), NEW q \in 1..(Len(t) + 1), r.lexer.at = q, i < q,
         Aligned(t, q), r.token = Lexeme(t, i).token,
         \A j \in 1..Len(t) : i < j /\ j < q => ~StartsToken(t, j)
  PROVE  Delivers(t, p, r)
<1>1. i \in 1..Len(t) /\ \A j \in Starts(t) : j \in 1..Len(t) /\ StartsToken(t, j)
  BY DEF Starts
<1>2. \A j \in Starts(t) : t[j] \notin Space
  BY <1>1, Characters DEF StartsToken
<1>3. ASSUME NEW j \in Starts(t), p <= j, j < q PROVE j = i
  <2>1. ~(j < i) /\ ~(i < j)
    BY <1>1, <1>2, <1>3
  <2>. QED  BY <1>1, <2>1
<1>4. p <= q /\ p <= i /\ i < q
  BY <1>1
<1>. QED  BY <1>3, <1>4 DEF Delivers

\* =>
LEMMA ArrowToken ==
  ASSUME NEW t, Len(t) \in Nat, NEW i \in 1..Len(t), t[i] = "=", CharAt(t, i + 1) = ">"
  PROVE  /\ i + 2 \in 1..(Len(t) + 1) /\ Aligned(t, i + 2) /\ Lexeme(t, i).token = "Arrow"
         /\ \A j \in 1..Len(t) : i < j /\ j < i + 2 => ~StartsToken(t, j)
<1>1. i + 1 \in 1..Len(t)
  <2>1. ~(i + 1 > Len(t))
    BY CharIs, Characters
  <2>. QED  BY <2>1
<1>2. t[i + 1] = ">"
  BY <1>1, CharIs
<1>3. ~StartsToken(t, i + 1)
  <2>1. (i + 1) - 1 = i /\ i + 1 # 1
    OBVIOUS
  <2>. QED  BY <1>2, <2>1, Characters DEF StartsToken
<1>4. \A j \in 1..Len(t) : i < j /\ j < i + 2 => j = i + 1
  OBVIOUS
<1>5. Aligned(t, i + 2)
  <2>1. i + 2 \in 1..(Len(t) + 1) /\ (i + 2) - 1 = i + 1
    BY <1>1
  <2>. QED  BY <1>2, <2>1, StartsBehind, Characters
<1>6. Lexeme(t, i).token = "Arrow"
  BY Characters DEF Lexeme
<1>. QED  BY <1>1, <1>3, <1>4, <1>5, <1>6

\* An identifier or a keyword.
LEMMA WordToken ==
  ASSUME NEW t, t \in Seq(Range(t)), NEW i \in 1..Len(t), t[i] \in Letter,
         NEW k, k = Behind(t, i, AlNum)
  PROVE  /\ k \in (i + 1)..(Len(t) + 1) /\ Aligned(t, k)
         /\ i + Len(SubSeq(t, i, k - 1)) = k
         /\ Lexeme(t, i).token = Keyword(SubSeq(t, i, k - 1))
         /\ \A j \in 1..Len(t) : i < j /\ j < k => ~StartsToken(t, j)
<1>1. Len(t) \in Nat /\ t[i] \in AlNum /\ t[i] \notin Figure /\ t[i] \notin Space
  BY Characters, LenProperties
<1>2. /\ k \in i..(Len(t) + 1) /\ CharAt(t, k) \notin AlNum
      /\ \A m \in i..(k - 1) : CharAt(t, m) \in AlNum
  <2>1. i \in 0..(Len(t) + 1) /\ Eof \notin AlNum
    BY <1>1, Characters
  <2>. QED  BY ONLY <1>1, <2>1, k = Behind(t, i, AlNum), BehindIs
<1>3. k # i
  BY <1>1, <1>2, CharIs
<1>4. /\ k \in Int /\ k - 1 \in 1..Len(t) /\ k - 1 \in i..(k - 1)
      /\ \A m \in i..(k - 1) : t[m] \in AlNum
  BY <1>1, <1>2, <1>3, CharIs
<1>5. Aligned(t, k)
  <2>1. k \in 1..Len(t) => t[k] \notin AlNum
    BY <1>1, <1>2, CharIs
  <2>2. t[k - 1] # "="
    BY ONLY <1>4, Characters
  <2>. QED  BY <2>1, <2>2, Characters DEF Aligned, StartsToken
<1>6. ASSUME NEW j \in 1..Len(t), i < j, j < k PROVE ~StartsToken(t, j)
  <2>. DEFINE before == {m \in 1..(j - 1) : \A q \in m..(j - 1) : t[q] \in AlNum}
  <2>1. i \in 1..(j - 1) /\ i..(j - 1) \subseteq i..(k - 1)
    BY <1>2, <1>6
  <2>2. i \in before
    BY <1>4, <2>1
  <2>3. t[j] \in AlNum
    BY <1>2, <1>4, <1>6
  <2>. QED  BY <1>1, <2>2, <2>3, Characters DEF StartsToken
<1>7. Len(SubSeq(t, i, k - 1)) = k - i
  <2>1. \A m \in i..(k - 1) : t[m] \in Range(t)
    BY <1>2, <1>4, ElementOfSeq
  <2>2. Len(SubSeq(t, i, k - 1)) = IF i <= k - 1 THEN (k - 1) - i + 1 ELSE 0
    BY <1>4, <2>1, SubSeqProperties
  <2>. QED  BY <1>2, <1>3, <2>2
<1>8. Lexeme(t, i).token = Keyword(SubSeq(t, i, k - 1))
  BY <1>1, LongestIs, Characters DEF Lexeme
<1>9. k \in (i + 1)..(Len(t) + 1) /\ i + Len(SubSeq(t, i, k - 1)) = k
  <2>. PICK n : n = Len(SubSeq(t, i, k - 1))
    OBVIOUS
  <2>1. n = k - i
    BY <1>7
  <2>2. k \in (i + 1)..(Len(t) + 1) /\ i + n = k
    BY ONLY <2>1, <1>1, <1>2, <1>3, i \in 1..Len(t)
  <2>. QED  BY <2>2
<1>. QED  BY <1>5, <1>6, <1>8, <1>9

\* A number, which letters may follow.
LEMMA NumberToken ==
  ASSUME NEW t, t \in Seq(Range(t)), NEW i \in Starts(t), t[i] \in Figure,
         NEW k, k = Behind(t, i, Figure)
  PROVE  /\ k \in (i + 1)..(Len(t) + 1) /\ Aligned(t, k)
         /\ i + Len(SubSeq(t, i, k - 1)) = k
         /\ Lexeme(t, i).token = "Number"
         /\ \A j \in 1..Len(t) : i < j /\ j < k => ~StartsToken(t, j)
<1>1. Len(t) \in Nat /\ i \in 1..Len(t) /\ t[i] \in AlNum /\ t[i] \notin Space
  BY Characters, LenProperties DEF Starts
<1>2. /\ k \in i..(Len(t) + 1) /\ CharAt(t, k) \notin Figure
      /\ \A m \in i..(k - 1) : CharAt(t, m) \in Figure
  <2>1. i \in 0..(Len(t) + 1) /\ Eof \notin Figure
    BY <1>1, Characters
  <2>. QED  BY ONLY <1>1, <2>1, k = Behind(t, i, Figure), BehindIs
<1>3. k # i
  BY <1>1, <1>2, CharIs
<1>4. /\ k \in Int /\ k - 1 \in 1..Len(t) /\ k - 1 \in i..(k - 1)
      /\ \A m \in i..(k - 1) : t[m] \in Figure
  BY <1>1, <1>2, <1>3, CharIs
<1>5. {m \in 1..(i - 1) : \A q \in m..(i - 1) : t[q] \in AlNum} = {}
  BY <1>1, Characters DEF Starts, StartsToken
<1>6. Aligned(t, k)
  <2>. DEFINE before == {m \in 1..(k - 1) : \A q \in m..(k - 1) : t[q] \in AlNum}
  <2>1. k \in 1..Len(t) => t[k] \notin Figure
    BY <1>1, <1>2, CharIs
  <2>2. t[k - 1] # "="
    BY ONLY <1>4, Characters
  <2>3. \A m \in before : t[m] \in Figure
    <3>. SUFFICES ASSUME NEW m \in before, m \notin i..(k - 1) PROVE FALSE
      BY <1>4
    <3>1. m \in 1..(i - 1) /\ \A q \in m..(i - 1) : q \in m..(k - 1)
      BY <1>1, <1>2, <1>3
    <3>2. \A q \in m..(i - 1) : t[q] \in AlNum
      BY <3>1
    <3>. QED  BY <1>5, <3>1, <3>2
  <2>. QED  BY <2>1, <2>2, <2>3, Characters DEF Aligned, StartsToken
<1>7. ASSUME NEW j \in 1..Len(t), i < j, j < k PROVE ~StartsToken(t, j)
  <2>. DEFINE before == {m \in 1..(j - 1) : \A q \in m..(j - 1) : t[q] \in AlNum}
  <2>1. j - 1 \in 1..(j - 1) /\ (\A q \in (j - 1)..(j - 1) : q = j - 1)
        /\ j - 1 \in i..(k - 1) /\ j \in i..(k - 1)
    BY <1>1, <1>2, <1>7
  <2>2. j - 1 \in before
    BY <1>4, <2>1, Characters
  <2>. QED  BY <1>4, <2>1, <2>2, Characters DEF StartsToken
<1>8. Len(SubSeq(t, i, k - 1)) = k - i
  <2>1. \A m \in i..(k - 1) : t[m] \in Range(t)
    BY <1>1, <1>2, <1>4, ElementOfSeq
  <2>2. Len(SubSeq(t, i, k - 1)) = IF i <= k - 1 THEN (k - 1) - i + 1 ELSE 0
    BY <1>1, <1>4, <2>1, SubSeqProperties
  <2>. QED  BY <1>1, <1>2, <1>3, <2>2
<1>9. Lexeme(t, i).token = "Number"
  BY <1>1, Characters DEF Lexeme
<1>10. k \in (i + 1)..(Len(t) + 1) /\ i + Len(SubSeq(t, i, k - 1)) = k
  <2>. PICK n : n = Len(SubSeq(t, i, k - 1))
    OBVIOUS
  <2>1. n = k - i
    BY <1>8
  <2>2. k \in (i + 1)..(Len(t) + 1) /\ i + n = k
    BY ONLY <2>1, <1>1, <1>2, <1>3, i \in 1..Len(t)
  <2>. QED  BY <2>2
<1>. QED  BY <1>6, <1>7, <1>9, <1>10

\* Any other character.
LEMMA OtherToken ==
  ASSUME NEW t, Len(t) \in Nat, NEW i \in 1..Len(t), t[i] \notin AlNum,
         ~(t[i] = "=" /\ CharAt(t, i + 1) = ">")
  PROVE  i + 1 \in 1..(Len(t) + 1) /\ Aligned(t, i + 1) /\ Lexeme(t, i).token = t[i]
<1>1. i + 1 \in 1..Len(t) /\ t[i + 1] = ">" => t[i] # "="
  BY CharIs
<1>2. {m \in 1..((i + 1) - 1) : \A q \in m..((i + 1) - 1) : t[q] \in AlNum} = {}
  <2>1. (i + 1) - 1 = i /\ \A m \in 1..i : i \in m..i
    OBVIOUS
  <2>. QED  BY <2>1
<1>3. Aligned(t, i + 1)
  <2>1. (i + 1) - 1 = i
    OBVIOUS
  <2>. QED  BY <1>1, <1>2, <2>1, Characters DEF Aligned, StartsToken
<1>4. Lexeme(t, i).token = t[i]
  BY Characters DEF Lexeme
<1>. QED  BY <1>3, <1>4

\* The lexers getToken makes.
Moved(l, q)         == [l EXCEPT !.at = q]
Identified(l, q, w) == [[l EXCEPT !.at = q] EXCEPT !.identifier = w]
Counted(l, q, n)    == [[l EXCEPT !.at = q] EXCEPT !.number = n]

LEMMA LexerTo ==
  ASSUME NEW l, IsLexer(l), NEW q, NEW w
  PROVE  /\ IsLexer(Moved(l, q)) /\ Moved(l, q).at = q
         /\ IsLexer(Identified(l, q, w)) /\ Identified(l, q, w).at = q
         /\ IsLexer(Counted(l, q, w)) /\ Counted(l, q, w).at = q
<1>. PICK a, d, n : l = [at |-> a, identifier |-> d, number |-> n]
  BY DEF IsLexer
<1>. PICK y : y = Moved(l, q)
  OBVIOUS
<1>1. y = [at |-> q, identifier |-> d, number |-> n]
  BY DEF Moved
<1>2. IsLexer(y) /\ y.at = q
  BY <1>1 DEF IsLexer
<1>3. IsLexer(Identified(l, q, w)) /\ Identified(l, q, w).at = q
  <2>. PICK x : x = Identified(l, q, w)
    OBVIOUS
  <2>1. x = [y EXCEPT !.identifier = w]
    BY DEF Identified, Moved
  <2>2. x = [at |-> q, identifier |-> w, number |-> n]
    BY <1>1, <2>1
  <2>3. IsLexer(x) /\ x.at = q
    BY <2>2 DEF IsLexer
  <2>. QED  BY <2>3
<1>4. IsLexer(Counted(l, q, w)) /\ Counted(l, q, w).at = q
  <2>. PICK x : x = Counted(l, q, w)
    OBVIOUS
  <2>1. x = [y EXCEPT !.number = w]
    BY DEF Counted, Moved
  <2>2. x = [at |-> q, identifier |-> d, number |-> w]
    BY <1>1, <2>1
  <2>3. IsLexer(x) /\ x.at = q
    BY <2>2 DEF IsLexer
  <2>. QED  BY <2>3
<1>. QED  BY <1>2, <1>3, <1>4

\* getToken delivers the next token of the text and stops where it may go on.
LEMMA GetTokenDelivers ==
  ASSUME NEW t, IsText(t), NEW l, IsLexer(l), l.at \in 0..(Len(t) + 1), Aligned(t, l.at),
         NEW r \in GetToken(t, l)
  PROVE  Delivers(t, l.at, r)
<1>. PICK p, i, c : p = l.at /\ i = Behind(t, p, Space) /\ c = CharAt(t, i)
  OBVIOUS
<1>1. t \in Seq(Range(t)) /\ Len(t) \in Nat /\ p \in 0..(Len(t) + 1) /\ Aligned(t, p)
  BY LenProperties DEF IsText
<1>2. /\ i \in p..(Len(t) + 1) /\ c \notin Space
      /\ \A m \in p..(i - 1) : CharAt(t, m) \in Space
  BY <1>1, BehindIs, Characters
<1>3. i \in 1..(Len(t) + 1)
  <2>1. CharAt(t, 0) \in Space
    BY <1>1, CharIs
  <2>. QED  BY <1>1, <1>2, <2>1
<1>4. \A j \in 1..Len(t) : p <= j /\ j < i => t[j] \in Space
  BY <1>1, <1>2, CharIs
<1>5. CASE i = Len(t) + 1
  <2>1. c = Eof
    BY <1>1, <1>5, CharIs
  <2>2. r = [token |-> Eof, lexer |-> Moved(l, i)]
    BY <2>1, Characters DEF GetToken, Moved
  <2>3. \A j \in Starts(t) : j < p
    <3>. SUFFICES ASSUME NEW j \in Starts(t), p <= j PROVE FALSE
      BY <1>1 DEF Starts
    <3>1. j \in 1..Len(t) /\ j < i
      BY <1>1, <1>5 DEF Starts
    <3>2. t[j] \in Space
      BY <1>4, <3>1
    <3>. QED  BY <3>2, Characters DEF Starts, StartsToken
  <2>4. IsLexer(r.lexer) /\ r.lexer.at = i /\ r.token = Eof
    BY LexerTo, <2>2
  <2>5. Aligned(t, i)
    BY <1>1, <1>5 DEF Aligned
  <2>. QED  BY <1>1, <1>3, <1>5, <2>3, <2>4, <2>5 DEF Delivers
<1>6. CASE i # Len(t) + 1
  <2>1. i \in 1..Len(t) /\ c = t[i] /\ p <= i
    BY <1>1, <1>2, <1>3, <1>6, CharIs
  <2>2. i \in Starts(t)
    <3>1. CASE i = p
      BY <1>1, <1>2, <2>1, <3>1 DEF Aligned, Starts
    <3>2. CASE i # p
      <4>1. i = 1 \/ (i - 1 \in 1..Len(t) /\ p <= i - 1 /\ i - 1 < i)
        BY <1>1, <2>1, <3>2
      <4>2. i = 1 \/ t[i - 1] \in Space
        BY <1>4, <4>1
      <4>3. Aligned(t, i)
        BY <1>1, <1>3, <4>2, StartsBehind, Characters
      <4>. QED  BY <1>2, <2>1, <4>3 DEF Aligned, Starts
    <3>. QED  BY <3>1, <3>2
  <2>3. \A q \in 1..(Len(t) + 1) :
           (/\ i < q /\ IsLexer(r.lexer) /\ r.lexer.at = q /\ Aligned(t, q)
            /\ r.token = Lexeme(t, i).token
            /\ \A j \in 1..Len(t) : i < j /\ j < q => ~StartsToken(t, j))
              => Delivers(t, p, r)
    BY <1>1, <1>4, <2>1, <2>2, OneToken
  <2>4. c # Eof
    BY <2>1 DEF IsText, Enumerators, Range
  <2>5. CASE c = "=" /\ CharAt(t, i + 1) = ">"
    <3>1. r = [token |-> "Arrow", lexer |-> Moved(l, i + 2)]
      BY <2>4, <2>5, Characters DEF GetToken, Moved
    <3>2. IsLexer(r.lexer) /\ r.lexer.at = i + 2 /\ r.token = "Arrow"
      BY <3>1, LexerTo
    <3>3. /\ i + 2 \in 1..(Len(t) + 1) /\ Aligned(t, i + 2) /\ Lexeme(t, i).token = "Arrow"
          /\ \A j \in 1..Len(t) : i < j /\ j < i + 2 => ~StartsToken(t, j)
      BY <1>1, <2>1, <2>5, ArrowToken
    <3>4. i < i + 2
      BY <1>3
    <3>. QED  BY <2>3, <3>2, <3>3, <3>4
  <2>6. CASE c \in Letter
    <3>. PICK k : k = Behind(t, i, AlNum)
      OBVIOUS
    <3>. PICK w : w = SubSeq(t, i, k - 1)
      OBVIOUS
    <3>1. /\ k \in (i + 1)..(Len(t) + 1) /\ Aligned(t, k) /\ i + Len(w) = k
          /\ Lexeme(t, i).token = Keyword(w)
          /\ \A j \in 1..Len(t) : i < j /\ j < k => ~StartsToken(t, j)
      BY <1>1, <2>1, <2>6, WordToken
    <3>2. r = [token |-> Keyword(w), lexer |-> Identified(l, i + Len(w), w)]
      BY <2>4, <2>6, Characters DEF GetToken, Identified
    <3>3. k \in 1..(Len(t) + 1) /\ i < k
      BY <1>3, <3>1
    <3>4. r.lexer = Identified(l, k, w) /\ r.token = Keyword(w)
      BY <3>1, <3>2
    <3>5. IsLexer(r.lexer) /\ r.lexer.at = k
      BY <3>4, LexerTo
    <3>. QED  BY <2>3, <3>1, <3>3, <3>4, <3>5
  <2>7. CASE c \in Figure
    <3>. PICK k : k = Behind(t, i, Figure)
      OBVIOUS
    <3>. PICK w : w = SubSeq(t, i, k - 1)
      OBVIOUS
    <3>1. /\ k \in (i + 1)..(Len(t) + 1) /\ Aligned(t, k) /\ i + Len(w) = k
          /\ Lexeme(t, i).token = "Number"
          /\ \A j \in 1..Len(t) : i < j /\ j < k => ~StartsToken(t, j)
      BY <1>1, <2>1, <2>2, <2>7, NumberToken
    <3>2. PICK n : r = [token |-> "Number", lexer |-> Counted(l, i + Len(w), n)]
      BY <2>4, <2>7, Characters DEF GetToken, Counted
    <3>3. k \in 1..(Len(t) + 1) /\ i < k
      BY <1>3, <3>1
    <3>4. r.lexer = Counted(l, k, n) /\ r.token = "Number"
      BY <3>1, <3>2
    <3>5. IsLexer(r.lexer) /\ r.lexer.at = k
      BY <3>4, LexerTo
    <3>. QED  BY <2>3, <3>1, <3>3, <3>4, <3>5
  <2>8. CASE c \notin AlNum /\ ~(c = "=" /\ CharAt(t, i + 1) = ">")
    <3>1. r = [token |-> c, lexer |-> Moved(l, i + 1)]
      BY <2>4, <2>8, Characters DEF GetToken, Moved
    <3>2. r.lexer = Moved(l, i + 1) /\ r.token = t[i]
      BY <2>1, <3>1
    <3>5. IsLexer(r.lexer) /\ r.lexer.at = i + 1
      BY <3>2, LexerTo
    <3>3. i + 1 \in 1..(Len(t) + 1) /\ Aligned(t, i + 1) /\ Lexeme(t, i).token = t[i]
      BY <1>1, <2>1, <2>8, OtherToken
    <3>4. i < i + 1 /\ \A j \in 1..Len(t) : ~(i < j /\ j < i + 1)
      BY <1>3
    <3>. QED  BY <2>3, <3>2, <3>3, <3>4, <3>5
  <2>. QED  BY <2>5, <2>6, <2>7, <2>8, Characters
<1>. QED  BY <1>5, <1>6

\* The n-th token starts where n tokens have started.
LEMMA NthIs ==
  ASSUME NEW S, S \subseteq Nat, IsFiniteSet(S), NEW i \in S
  PROVE  Nth(S, Cardinality({j \in S : j <= i})) = i
<1>. DEFINE Upto(k) == {j \in S : j <= k}
<1>1. \A k \in S : IsFiniteSet(Upto(k)) /\ Cardinality(Upto(k)) \in Nat
  <2>. SUFFICES ASSUME NEW k \in S PROVE IsFiniteSet(Upto(k)) /\ Cardinality(Upto(k)) \in Nat
    OBVIOUS
  <2>1. IsFiniteSet(Upto(k))
    BY FS_Subset
  <2>. QED  BY <2>1, FS_CardinalityType
<1>2. ASSUME NEW k \in S, NEW m \in S, k < m PROVE Cardinality(Upto(k)) # Cardinality(Upto(m))
  <2>1. Upto(k) \subseteq Upto(m) /\ m \in Upto(m) /\ m \notin Upto(k)
    <3>1. \A j \in S : j \in Int
      OBVIOUS
    <3>2. \A j \in Int : j <= k => j <= m
      BY <1>2, <3>1
    <3>3. m <= m /\ ~(m <= k)
      BY <1>2, <3>1
    <3>. QED  BY <3>1, <3>2, <3>3
  <2>. HIDE DEF Upto
  <2>. QED  BY <1>1, <2>1, FS_Subset
<1>. HIDE DEF Upto
<1>3. \A k \in S : Cardinality(Upto(k)) = Cardinality(Upto(i)) => k = i
  <2>. SUFFICES ASSUME NEW k \in S, k # i
                PROVE  Cardinality(Upto(k)) # Cardinality(Upto(i))
    OBVIOUS
  <2>1. k < i \/ i < k
    OBVIOUS
  <2>. QED  BY <1>2, <2>1
<1>4. Nth(S, Cardinality(Upto(i))) = CHOOSE k \in S : Cardinality(Upto(k)) = Cardinality(Upto(i))
  BY DEF Nth, Upto
<1>5. Nth(S, Cardinality(Upto(i))) = i
  BY <1>3, <1>4
<1>. QED  BY <1>5 DEF Upto

\* How many tokens are passed, and which is the next.
LEMMA Passing ==
  ASSUME NEW t, Len(t) \in Nat, NEW p \in 0..(Len(t) + 1)
  PROVE  /\ Passed(t, p) \in Nat
         /\ Len(Lexemes(t)) = Cardinality(Starts(t)) /\ Len(Lexemes(t)) \in Nat
         /\ (\A j \in Starts(t) : j < p) => Passed(t, p) = Len(Lexemes(t))
         /\ \A q \in 1..(Len(t) + 1), i \in Starts(t) :
               (p <= i /\ i < q /\ \A j \in Starts(t) : p <= j /\ j < q => j = i) =>
                  /\ Passed(t, q) = Passed(t, p) + 1
                  /\ Passed(t, q) <= Len(Lexemes(t))
                  /\ Lexemes(t)[Passed(t, q)] = Lexeme(t, i)
<1>. PICK S : S = Starts(t)
  OBVIOUS
<1>1. S \subseteq 1..Len(t) /\ IsFiniteSet(S) /\ S \subseteq Nat
  <2>1. S \subseteq 1..Len(t) /\ IsFiniteSet(1..Len(t)) /\ 1..Len(t) \subseteq Nat
    <3>1. 1 \in Int /\ Len(t) \in Int /\ 1..Len(t) \subseteq Nat
      OBVIOUS
    <3>2. IsFiniteSet(1..Len(t))
      BY <3>1, FS_Interval
    <3>. QED  BY <3>1, <3>2 DEF Starts
  <2>. QED  BY <2>1, FS_Subset
<1>. DEFINE Before(k) == {j \in S : j < k}
<1>2. \A k : IsFiniteSet(Before(k)) /\ Cardinality(Before(k)) \in Nat
             /\ Cardinality(Before(k)) <= Cardinality(S) /\ Cardinality(S) \in Nat
  <2>. SUFFICES ASSUME NEW k
                PROVE  IsFiniteSet(Before(k)) /\ Cardinality(Before(k)) \in Nat
                       /\ Cardinality(Before(k)) <= Cardinality(S) /\ Cardinality(S) \in Nat
    OBVIOUS
  <2>1. Before(k) \subseteq S
    OBVIOUS
  <2>. HIDE DEF Before
  <2>. QED  BY <1>1, <2>1, FS_Subset, FS_CardinalityType
<1>3. \A k : Passed(t, k) = Cardinality(Before(k))
  BY DEF Passed
<1>4. /\ Lexemes(t) = [n \in 1..Cardinality(S) |-> Lexeme(t, Nth(S, n))]
      /\ Len(Lexemes(t)) = Cardinality(S)
  <2>1. Lexemes(t) = [n \in 1..Cardinality(S) |-> Lexeme(t, Nth(S, n))]
    BY DEF Lexemes
  <2>2. Cardinality(S) \in Nat
    BY <1>2
  <2>. QED  BY <2>1, <2>2
<1>5. ASSUME \A j \in S : j < p PROVE Passed(t, p) = Cardinality(S)
  <2>1. Before(p) = S
    BY <1>5
  <2>. QED  BY <1>3, <2>1
<1>6. ASSUME NEW q \in 1..(Len(t) + 1), NEW i \in S, p <= i, i < q,
             \A j \in S : p <= j /\ j < q => j = i
      PROVE  /\ Passed(t, q) = Passed(t, p) + 1
             /\ Passed(t, q) <= Cardinality(S)
             /\ Lexemes(t)[Passed(t, q)] = Lexeme(t, i)
  <2>1. Before(q) = Before(p) \cup {i} /\ i \notin Before(p) /\ Before(q) = {j \in S : j <= i}
    BY <1>1, <1>6
  <2>2. Cardinality(Before(q)) = Cardinality(Before(p)) + 1
    <3>. HIDE DEF Before
    <3>. QED  BY <1>2, <2>1, FS_AddElement
  <2>3. Nth(S, Cardinality(Before(q))) = i
    BY <1>1, <2>1, NthIs
  <2>. HIDE DEF Before
  <2>4. Cardinality(Before(q)) \in 1..Cardinality(S)
    BY <1>2, <2>2
  <2>. QED  BY <1>3, <1>4, <2>2, <2>3, <2>4
<1>. HIDE DEF Before
<1>. QED  BY <1>2, <1>3, <1>4, <1>5, <1>6

\* No token is mistaken for an empty buffer.
LEMMA TokensAreSome ==
  ASSUME NEW t, IsText(t), NEW i \in Starts(t)
  PROVE  Lexeme(t, i).token # "none"
<1>1. t[i] # "none"
  BY ElementOfSeq DEF IsText, Starts
<1>2. \A w : Keyword(w) # "none"
  BY Zenon DEF Keyword
<1>. PICK number, arrow : number = "Number" /\ arrow = "Arrow"
  OBVIOUS
<1>3. Lexeme(t, i).token \in {number, arrow, t[i], Keyword(Longest(t, i, AlNum))}
  BY DEF Lexeme
<1>. QED  BY <1>1, <1>2, <1>3

\* The i-th token of a text.
TokenOf(t, i) == IF i > Len(Lexemes(t)) THEN Eof ELSE Lexemes(t)[i].token

LEMMA Got ==
  ASSUME NEW t, IsText(t), NEW n \in Nat, NEW l, LexerOK(t, l, n), NEW r \in GetToken(t, l)
  PROVE  r.token = TokenOf(t, n + 1) /\ r.token # "none" /\ LexerOK(t, r.lexer, n + 1)
<1>. PICK p, q : p = l.at /\ q = r.lexer.at
  OBVIOUS
<1>1. Len(t) \in Nat /\ p \in 0..(Len(t) + 1)
  BY LenProperties DEF IsText, LexerOK
<1>2. Delivers(t, p, r)
  BY GetTokenDelivers DEF LexerOK
<1>3. /\ IsLexer(r.lexer) /\ q \in 1..(Len(t) + 1) /\ p <= q /\ Aligned(t, q)
      /\ \/ /\ r.token = Eof /\ q = Len(t) + 1
            /\ \A j \in Starts(t) : j < p
         \/ \E i \in Starts(t) :
               /\ p <= i /\ i < q /\ r.token = Lexeme(t, i).token
               /\ \A j \in Starts(t) : p <= j /\ j < q => j = i
  BY <1>2 DEF Delivers
<1>4. Passed(t, p) \in Nat /\ Passed(t, p) <= n /\ (p <= Len(t) => n = Passed(t, p))
  BY <1>1, Passing DEF LexerOK
<1>5. CASE r.token = Eof /\ q = Len(t) + 1 /\ \A j \in Starts(t) : j < p
  <2>1. Len(Lexemes(t)) \in Nat /\ Passed(t, p) = Len(Lexemes(t))
    BY <1>1, <1>5, Passing
  <2>2. \A j \in Starts(t) : j \in 1..Len(t) /\ j < q
    BY <1>1, <1>5 DEF Starts
  <2>3. Passed(t, q) = Len(Lexemes(t))
    BY <1>1, <1>3, <2>2, Passing
  <2>4. n + 1 > Len(Lexemes(t)) /\ Passed(t, q) <= n + 1 /\ ~(q <= Len(t))
    BY <1>1, <1>4, <1>5, <2>1, <2>3
  <2>. QED  BY <1>1, <1>3, <1>5, <2>4 DEF LexerOK, TokenOf, Eof
<1>6. ASSUME NEW i \in Starts(t), p <= i, i < q, r.token = Lexeme(t, i).token,
             \A j \in Starts(t) : p <= j /\ j < q => j = i
      PROVE  r.token = TokenOf(t, n + 1) /\ r.token # "none" /\ LexerOK(t, r.lexer, n + 1)
  <2>1. i \in 1..Len(t)
    BY DEF Starts
  <2>2. n = Passed(t, p)
    BY <1>1, <1>4, <1>6, <2>1
  <2>3. /\ Passed(t, q) = n + 1 /\ Passed(t, q) <= Len(Lexemes(t))
        /\ Lexemes(t)[Passed(t, q)] = Lexeme(t, i)
        /\ Len(Lexemes(t)) \in Nat
    BY <1>1, <1>3, <1>6, <2>2, Passing
  <2>4. r.token = TokenOf(t, n + 1)
    BY <1>6, <2>3 DEF TokenOf
  <2>5. LexerOK(t, r.lexer, n + 1)
    BY <1>1, <1>3, <2>3 DEF LexerOK
  <2>. QED  BY <1>6, <2>4, <2>5, TokensAreSome
<1>. QED  BY <1>3, <1>5, <1>6

LEMMA TokenIs ==
  ASSUME OrderInv
  PROVE  IsText(text) /\ \A i : TokenAt(i) = TokenOf(text, i)
<1>1. text \in Texts
  BY DEF OrderInv
<1>2. Tokens[text] = Lexemes(text)
  BY <1>1 DEF Tokens
<1>. QED  BY <1>1, <1>2, TextsAssumption DEF TokenAt, TokenOf, IsText

\* What the parser does to the tokens: nextToken, peekToken, or nothing.
LEMMA NextTokenKeeps ==
  ASSUME OrderInv, NextToken, UNCHANGED text
  PROVE  OrderInv'
<1>1. text \in Texts /\ taken \in Nat /\ LexerOK(text, lexer, Delivered)
      /\ (peekToken # "none" => peekToken = TokenAt(taken + 1))
  BY DEF OrderInv, TokensInOrder
<1>2. IsText(text) /\ (\A i : TokenAt(i) = TokenOf(text, i)) /\ \A i : TokenAt(i)' = TokenAt(i)
  BY TokenIs DEF TokenAt
<1>3. PICK next \in Upcoming : currentToken' = next.token /\ lexer' = next.lexer
  BY DEF NextToken
<1>4. taken' = taken + 1 /\ peekToken' = "none" /\ text' = text
  BY DEF NextToken
<1>5. next.token = TokenAt(taken + 1) /\ LexerOK(text, next.lexer, taken + 1)
  <2>1. CASE peekToken = "none"
    <3>1. next \in GetToken(text, lexer) /\ LexerOK(text, lexer, taken)
      BY <1>1, <2>1 DEF Upcoming, Delivered
    <3>. QED  BY <1>1, <1>2, <3>1, Got
  <2>2. CASE peekToken # "none"
    <3>1. next.token = peekToken /\ next.lexer = lexer /\ Delivered = taken + 1
      BY <2>2 DEF Upcoming, Delivered
    <3>. QED  BY <1>1, <2>2, <3>1
  <2>. QED  BY <2>1, <2>2
<1>6. Delivered' = taken + 1
  BY <1>4 DEF Delivered
<1>7. LexerOK(text, lexer, Delivered)'
  BY <1>3, <1>4, <1>5, <1>6 DEF LexerOK, IsLexer, Aligned, Passed, Starts, StartsToken
<1>8. TokenAt(taken)' = TokenAt(taken + 1)
  BY <1>4 DEF TokenAt
<1>. QED  BY <1>1, <1>3, <1>4, <1>5, <1>7, <1>8 DEF OrderInv, TokensInOrder

LEMMA PeekKeeps ==
  ASSUME OrderInv, Peek, UNCHANGED text
  PROVE  OrderInv'
<1>1. text \in Texts /\ taken \in Nat /\ LexerOK(text, lexer, Delivered) /\ TokensInOrder
  BY DEF OrderInv
<1>2. IsText(text) /\ (\A i : TokenAt(i) = TokenOf(text, i)) /\ \A i : TokenAt(i)' = TokenAt(i)
  BY TokenIs DEF TokenAt
<1>3. PICK next \in Upcoming : peekToken' = next.token /\ lexer' = next.lexer
  BY DEF Peek
<1>4. UNCHANGED <<currentToken, taken, text>>
  BY DEF Peek
<1>5. /\ next.token = TokenAt(taken + 1) /\ next.token # "none"
      /\ LexerOK(text, next.lexer, taken + 1)
  <2>1. CASE peekToken = "none"
    <3>1. next \in GetToken(text, lexer) /\ LexerOK(text, lexer, taken)
      BY <1>1, <2>1 DEF Upcoming, Delivered
    <3>. QED  BY <1>1, <1>2, <3>1, Got
  <2>2. CASE peekToken # "none"
    <3>1. next.token = peekToken /\ next.lexer = lexer /\ Delivered = taken + 1
      BY <2>2 DEF Upcoming, Delivered
    <3>. QED  BY <1>1, <2>2, <3>1 DEF TokensInOrder
  <2>. QED  BY <2>1, <2>2
<1>6. Delivered' = taken + 1
  BY <1>3, <1>4, <1>5 DEF Delivered
<1>7. LexerOK(text, lexer, Delivered)'
  BY <1>3, <1>4, <1>5, <1>6 DEF LexerOK, IsLexer, Aligned, Passed, Starts, StartsToken
<1>8. TokenAt(taken)' = TokenAt(taken) /\ TokenAt(taken + 1)' = TokenAt(taken + 1)
  BY <1>4 DEF TokenAt
<1>. QED  BY <1>1, <1>3, <1>4, <1>5, <1>7, <1>8 DEF OrderInv, TokensInOrder

LEMMA SameTokens ==
  ASSUME OrderInv, UNCHANGED <<text, tokenVars>>
  PROVE  OrderInv'
<1>1. UNCHANGED <<text, lexer, currentToken, peekToken, taken>>
  BY DEF tokenVars
<1>2. Delivered' = Delivered
  BY <1>1 DEF Delivered
<1>3. LexerOK(text, lexer, Delivered)' <=> LexerOK(text, lexer, Delivered)
  BY <1>1, <1>2 DEF LexerOK, IsLexer, Aligned, Passed, Starts, StartsToken
<1>4. TokenAt(taken)' = TokenAt(taken) /\ TokenAt(taken + 1)' = TokenAt(taken + 1)
  BY <1>1 DEF TokenAt
<1>. QED  BY <1>1, <1>3, <1>4 DEF OrderInv, TokensInOrder

LEMMA TokenSteps ==
  ASSUME [Next]_vars
  PROVE  UNCHANGED text /\ (NextToken \/ Peek \/ UNCHANGED tokenVars)
<1>1. CASE SkipSemicolon
  BY <1>1 DEF SkipSemicolon
<1>2. CASE Prompt
  BY <1>2 DEF Prompt
<1>3. CASE ParserStep
  <2>1. ReadLeaf \/ ReadOpening \/ ReadFn \/ Throw => NextToken /\ UNCHANGED text
    BY DEF ReadLeaf, ReadOpening, ReadFn, Throw, ReadOperand
  <2>2. PeekOp => Peek /\ UNCHANGED text
    BY DEF PeekOp
  <2>3. TakeOp \/ ReadParam \/ ReadArrow \/ ReadBranch \/ CloseParens \/ AssertionFails
          => NextToken /\ UNCHANGED text
    BY DEF TakeOp, ReadParam, ReadArrow, ReadBranch, CloseParens, AssertionFails
  <2>4. TakeArg \/ ReturnLhs \/ Combine \/ MakeLam \/ MakeIf => UNCHANGED <<text, tokenVars>>
    BY DEF TakeArg, ReturnLhs, Combine, MakeLam, MakeIf
  <2>. QED  BY <1>3, <2>1, <2>2, <2>3, <2>4 DEF ParserStep
<1>4. CASE Catch \/ Evaluate
  BY <1>4 DEF Catch, Evaluate
<1>5. CASE UNCHANGED vars
  BY <1>5 DEF vars, tokenVars
<1>. QED  BY <1>1, <1>2, <1>3, <1>4, <1>5 DEF Next, ParseExpression, Terminated

(***************************************************************************)
(* Whatever is typed, nextToken and peekToken hand out the tokens of the   *)
(* text in order, none twice and none left out, across nested calls,       *)
(* errors and inputs.                                                      *)
(***************************************************************************)
THEOREM TokensComeInOrder == Spec => []TokensInOrder
<1>1. Init => OrderInv
  <2>. SUFFICES ASSUME Init PROVE OrderInv
    OBVIOUS
  <2>1. text \in Texts /\ lexer = InitLexer /\ peekToken = "none" /\ taken = 0
    BY DEF Init, InitParser
  <2>2. lexer.at = 0 /\ IsLexer(lexer)
    BY <2>1 DEF InitLexer, IsLexer
  <2>3. Len(text) \in Nat
    BY <2>1, TextsAssumption, LenProperties
  <2>4. {i \in Starts(text) : i < 0} = {}
    BY <2>3 DEF Starts
  <2>5. Passed(text, 0) = 0
    BY <2>4, FS_EmptySet DEF Passed
  <2>6. LexerOK(text, lexer, 0)
    BY <2>2, <2>3, <2>5 DEF LexerOK, Aligned
  <2>. QED  BY <2>1, <2>6 DEF OrderInv, Delivered, TokensInOrder
<1>2. OrderInv /\ [Next]_vars => OrderInv'
  BY TokenSteps, NextTokenKeeps, PeekKeeps, SameTokens
<1>3. OrderInv => TokensInOrder
  BY DEF OrderInv
<1>. QED  BY <1>1, <1>2, <1>3, PTL DEF Spec
=============================================================================
