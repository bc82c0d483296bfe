---------------------------- MODULE ArenaProofs ----------------------------
(***************************************************************************)
(* Blocks are sound for all buffers and all sizes and alignments of types. *)
(*                                                                         *)
(* BlocksSound becomes inductive with where begin_ is: in the buffer, and  *)
(* behind everything handed out.  What remains is arithmetic.              *)
(***************************************************************************)
EXTENDS Arena, TLAPS

Behind ==
    /\ buffer \in Buffers
    /\ begin \in Nat /\ buffer.orig <= begin /\ begin <= buffer.end
    /\ \A b \in blocks : b.start \in Nat /\ b.end \in Nat /\ b.start <= b.end /\ b.end <= begin

Inv == Behind /\ BlocksSound
-----------------------------------------------------------------------------
\* x divided by a leaves a remainder below a.
LEMMA Division ==
  ASSUME NEW x \in Int, NEW a \in Nat \ {0}
  PROVE  /\ x % a \in 0..(a - 1) /\ x \div a \in Int
         /\ x = a * (x \div a) + (x % a)
OBVIOUS

\* A multiple of a leaves no remainder.
LEMMA Multiple ==
  ASSUME NEW k \in Int, NEW a \in Nat \ {0}
  PROVE  (a * k) % a = 0
<1>. DEFINE p == a * k
            q == p \div a
            m == p % a
<1>1. p \in Int
  OBVIOUS
<1>2. /\ m \in 0..(a - 1) /\ q \in Int /\ a * k = a * q + m
  <2>. HIDE DEF p
  <2>1. /\ m \in 0..(a - 1) /\ q \in Int /\ p = a * q + m
    BY <1>1, Division
  <2>. QED  BY <2>1 DEF p
<1>. HIDE DEF q, m
<1>3. a * (k - q) = m
  BY <1>2
<1>4. k - q \in Int /\ k - q < 1
  <2>1. CASE k - q >= 1
    <3>1. a * (k - q) >= a
      BY <1>2, <2>1
    <3>. QED  BY <1>2, <1>3, <3>1
  <2>. QED  BY <1>2, <2>1
<1>5. k - q > -1
  <2>1. CASE k - q <= -1
    <3>1. a * (k - q) <= -a
      BY <1>2, <2>1
    <3>. QED  BY <1>2, <1>3, <3>1
  <2>. QED  BY <1>2, <2>1
<1>6. k - q = 0
  BY <1>4, <1>5
<1>. QED  BY <1>2, <1>3, <1>6 DEF m

\* The padding carries begin_ to the next aligned address.
LEMMA PadFacts ==
  ASSUME NEW r \in Requests, begin \in Nat
  PROVE  Pad(r) \in 0..(r.align - 1) /\ (begin + Pad(r)) % r.align = 0
<1>. DEFINE a == r.align
            x == -begin
            q == x \div a
            m == x % a
<1>1. a \in Nat \ {0} /\ x \in Int
  BY RequestsAssumption
<1>2. /\ m \in 0..(a - 1) /\ q \in Int /\ x = a * q + m
  <2>. HIDE DEF a, x
  <2>. QED  BY <1>1, Division
<1>3. begin + m = a * (-q) /\ -q \in Int
  <2>1. begin = -x
    OBVIOUS
  <2>. HIDE DEF a, x, q, m
  <2>. QED  BY <1>1, <1>2, <2>1
<1>4. (a * (-q)) % a = 0
  <2>. HIDE DEF a, q
  <2>. QED  BY <1>1, <1>3, Multiple
<1>. QED  BY <1>2, <1>3, <1>4 DEF Pad

\* An array that is not refused fits.
LEMMA RoomFacts ==
  ASSUME NEW r \in Requests, NEW n \in Int, r.count < Quotient(n, r.size)
  PROVE  r.count * r.size <= n
<1>1. r.size \in Nat \ {0} /\ r.count \in Nat \ {0}
  BY RequestsAssumption
<1>2. CASE n >= 0
  <2>. DEFINE q == n \div r.size
  <2>1. q \in Int /\ n = r.size * q + (n % r.size) /\ n % r.size \in 0..(r.size - 1)
    BY <1>1, Division
  <2>2. r.count < q
    BY <1>2 DEF Quotient
  <2>. HIDE DEF q
  <2>3. r.size * q <= n
    BY <1>1, <2>1
  <2>4. r.count * r.size <= r.size * q
    <3>. DEFINE d == q - r.count
                z == r.size
    <3>1. d \in Nat /\ z \in Nat /\ r.count \in Nat /\ q = r.count + d
      BY <1>1, <2>1, <2>2
    <3>2. z * (r.count + d) = r.count * z + z * d /\ z * d >= 0
      <4>. HIDE DEF d, z
      <4>. QED  BY <3>1
    <3>. QED  BY <1>1, <3>1, <3>2
  <2>. QED  BY <1>1, <2>1, <2>3, <2>4
<1>3. CASE n < 0
  <2>. DEFINE q == (-n) \div r.size
              m == (-n) % r.size
  <2>1. q \in Int /\ -n = r.size * q + m /\ m \in 0..(r.size - 1)
    <3>1. -n \in Int
      OBVIOUS
    <3>. QED  BY <1>1, <3>1, Division
  <2>2. r.count < -q
    BY <1>3 DEF Quotient
  <2>. HIDE DEF q, m
  <2>3. q <= -1
    BY <1>1, <2>1, <2>2
  <2>4. r.size * q <= -r.size
    BY <1>1, <2>1, <2>3
  <2>. QED  BY <1>1, <1>3, <2>1, <2>4
<1>. QED  BY <1>2, <1>3
-----------------------------------------------------------------------------
LEMMA InitInv == Init => Inv
<1>. SUFFICES ASSUME Init
              PROVE  Inv
  OBVIOUS
<1>1. buffer \in Buffers /\ begin = buffer.orig /\ blocks = {}
  BY DEF Init
<1>. QED  BY <1>1, BuffersAssumption DEF Inv, Behind, BlocksSound

LEMMA NextInv == Inv /\ [Next]_vars => Inv'
<1>. SUFFICES ASSUME Inv, [Next]_vars
              PROVE  Inv'
  OBVIOUS
<1>0. buffer.orig \in Nat /\ buffer.end \in Nat /\ begin \in Nat
  BY BuffersAssumption DEF Inv, Behind
<1>1. ASSUME NEW r \in Requests, Allocate(r)
      PROVE  Inv'
  <2>. DEFINE pad   == Pad(r)
              start == begin + pad
              end   == start + r.count * r.size
              b     == [start |-> start, end |-> end, align |-> r.align]
  <2>1. /\ begin' = begin + (pad + r.count * r.size)
        /\ blocks' = blocks \cup {b} /\ buffer' = buffer
        /\ r.count < Quotient(buffer.end - begin - pad, r.size)
    BY <1>1 DEF Allocate, Advance, Room
  <2>2. r.size \in Nat /\ r.count \in Nat /\ r.align \in Nat \ {0}
    BY RequestsAssumption
  <2>3. pad \in Nat /\ start % r.align = 0
    BY <1>0, <2>2, PadFacts
  <2>. HIDE DEF pad
  <2>4. r.count * r.size \in Nat
    BY <2>2
  <2>5. r.count * r.size <= buffer.end - begin - pad
    BY <1>0, <2>1, <2>3, RoomFacts
  <2>6. /\ begin' = end /\ start \in Nat /\ end \in Nat
        /\ begin <= start /\ start <= end /\ end <= buffer.end
    BY <1>0, <2>1, <2>3, <2>4, <2>5
  <2>7. b.start = start /\ b.end = end /\ b.align = r.align
    OBVIOUS
  <2>. HIDE DEF start, end, b
  <2>8. Behind'
    BY <1>0, <2>1, <2>6, <2>7 DEF Inv, Behind
  <2>9. ASSUME NEW c \in blocks'
        PROVE  /\ buffer'.orig <= c.start /\ c.start <= c.end /\ c.end <= buffer'.end
               /\ c.start % c.align = 0
    BY <1>0, <2>1, <2>3, <2>6, <2>7 DEF Inv, Behind, BlocksSound
  <2>10. ASSUME NEW c \in blocks', NEW d \in blocks', c # d
         PROVE  Apart(c, d)
    <3>1. CASE c \in blocks /\ d \in blocks
      BY <2>10, <3>1 DEF Inv, BlocksSound
    <3>2. ASSUME NEW e \in blocks
          PROVE  e.end <= b.start
      BY <1>0, <2>6, <2>7 DEF Inv, Behind
    <3>. QED  BY <2>1, <2>10, <3>1, <3>2 DEF Apart
  <2>11. BlocksSound'
    BY <2>9, <2>10 DEF BlocksSound, Apart
  <2>. QED  BY <2>8, <2>11 DEF Inv
<1>2. ASSUME NEW r \in Requests, Refuse(r)
      PROVE  Inv'
  BY <1>2 DEF Refuse, Inv, Behind, BlocksSound, Apart
<1>3. CASE Reset
  BY <1>0, <1>3, BuffersAssumption DEF Reset, Inv, Behind, BlocksSound
<1>4. CASE UNCHANGED vars
  BY <1>4 DEF vars, Inv, Behind, BlocksSound, Apart
<1>. QED  BY <1>1, <1>2, <1>3, <1>4 DEF Next

(***************************************************************************)
(* Whatever is allocated, in whatever order, no two objects overlap, all   *)
(* are aligned and none reaches beyond the buffer.                         *)
(***************************************************************************)
THEOREM SoundBlocks == Spec => []BlocksSound
<1>1. Inv => BlocksSound
  BY DEF Inv
<1>. QED  BY <1>1, InitInv, NextInv, PTL DEF Spec
-----------------------------------------------------------------------------
\* No aligned address lies between begin_ and the padded one.
LEMMA PadMinimal ==
  ASSUME NEW r \in Requests, begin \in Nat, NEW p \in Int, p >= begin, p % r.align = 0
  PROVE  p >= begin + Pad(r)
<1>. DEFINE a == r.align
            s == begin + Pad(r)
            k == p \div a
            j == s \div a
<1>1. a \in Nat \ {0}
  BY RequestsAssumption
<1>2. s \in Int /\ s % a = 0 /\ s < begin + a
  BY <1>1, PadFacts
<1>. HIDE DEF a, s
<1>3. p = a * k /\ k \in Int
  <2>1. p % a = 0
    BY DEF a
  <2>. QED  BY <1>1, <2>1, Division
<1>4. s = a * j /\ j \in Int
  BY <1>1, <1>2, Division
<1>. HIDE DEF k, j
<1>5. CASE k < j
  <2>. DEFINE d == j - k - 1
  <2>1. d \in Nat /\ j = k + 1 + d
    BY <1>3, <1>4, <1>5
  <2>. HIDE DEF d
  <2>2. a * j = a * k + a + a * d /\ a * d >= 0
    BY <1>1, <1>3, <2>1
  <2>. QED  BY <1>1, <1>2, <1>3, <1>4, <2>1, <2>2
<1>6. CASE k >= j
  <2>. DEFINE d == k - j
  <2>1. d \in Nat /\ k = j + d
    BY <1>3, <1>4, <1>6
  <2>. HIDE DEF d
  <2>2. a * k = a * j + a * d /\ a * d >= 0
    BY <1>1, <1>4, <2>1
  <2>. QED  BY <1>1, <1>2, <1>3, <1>4, <2>1, <2>2 DEF s
<1>. QED  BY <1>3, <1>4, <1>5, <1>6 DEF s

\* An array that is refused would not fit with one object more.
LEMMA NoRoomFacts ==
  ASSUME NEW r \in Requests, NEW n \in Int, r.count >= Quotient(n, r.size)
  PROVE  (r.count + 1) * r.size > n
<1>. DEFINE z == r.size
            c == r.count
            q == n \div z
<1>1. z \in Nat \ {0} /\ c \in Nat
  BY RequestsAssumption
<1>2. n >= 0 => c >= q
  BY DEF Quotient
<1>. HIDE DEF z, c
<1>3. q \in Int /\ n < z * q + z
  <2>. DEFINE m == n % z
  <2>1. q \in Int /\ n = z * q + m /\ m \in 0..(z - 1)
    BY <1>1, Division
  <2>. HIDE DEF q, m
  <2>. QED  BY <1>1, <2>1
<1>. HIDE DEF q
<1>4. CASE n >= 0
  <2>. DEFINE d == c - q
  <2>1. d \in Nat /\ c = q + d
    BY <1>1, <1>2, <1>3, <1>4
  <2>. HIDE DEF d
  <2>2. (c + 1) * z = z * q + z + z * d /\ z * d >= 0
    BY <1>1, <1>3, <2>1
  <2>3. (c + 1) * z > n
    BY <1>1, <1>3, <2>1, <2>2
  <2>. QED  BY <2>3 DEF c, z
<1>5. CASE n < 0
  <2>1. (c + 1) * z >= 0
    BY <1>1
  <2>2. (c + 1) * z > n
    BY <1>1, <1>5, <2>1
  <2>. QED  BY <2>2 DEF c, z
<1>. QED  BY <1>4, <1>5

(***************************************************************************)
(* For all types and buffers, too: who is refused an array would not have  *)
(* had the room for one object more.                                       *)
(***************************************************************************)
THEOREM FullWhenRefused == Spec => []RefusesOnlyWhenFull
<1>. DEFINE J == Inv /\ refused \subseteq Requests /\ RefusesOnlyWhenFull
<1>1. Init => J
  BY InitInv DEF Init, RefusesOnlyWhenFull
<1>2. J /\ [Next]_vars => J'
  <2>. SUFFICES ASSUME J, [Next]_vars
                PROVE  refused' \subseteq Requests /\ RefusesOnlyWhenFull'
    BY NextInv
  <2>0. begin \in Nat /\ buffer.end \in Nat
    BY BuffersAssumption DEF Inv, Behind
  <2>1. ASSUME NEW r \in Requests, Allocate(r)
        PROVE  refused' = {}
    BY <2>1 DEF Allocate
  <2>2. ASSUME NEW r \in Requests, Refuse(r)
        PROVE  refused' \subseteq Requests /\ RefusesOnlyWhenFull'
    <3>1. begin' = begin /\ buffer' = buffer
          /\ r.count >= Quotient(buffer.end - begin - Pad(r), r.size)
      BY <2>2 DEF Refuse, Room
    <3>2. ASSUME NEW p \in begin..buffer.end, p % r.align = 0
          PROVE  p + (r.count + 1) * r.size > buffer.end
      <4>. DEFINE pad == Pad(r)
                  more == (r.count + 1) * r.size
      <4>1. pad \in Int /\ more \in Int
        BY <2>0, PadFacts, RequestsAssumption
      <4>2. p >= begin + pad
        BY <2>0, <3>2, PadMinimal
      <4>3. more > buffer.end - begin - pad
        <5>1. buffer.end - begin - pad \in Int
          BY <2>0, <4>1
        <5>. QED  BY <3>1, <5>1, NoRoomFacts
      <4>. HIDE DEF pad, more
      <4>4. p + more > buffer.end
        BY <2>0, <4>1, <4>2, <4>3
      <4>. QED  BY <4>4 DEF more
    <3>3. refused' = {r}
      BY <2>2 DEF Refuse
    <3>. QED  BY <3>1, <3>2, <3>3 DEF RefusesOnlyWhenFull
  <2>3. CASE Reset
    BY <2>3 DEF Reset, RefusesOnlyWhenFull
  <2>4. CASE UNCHANGED vars
    BY <2>4 DEF vars, RefusesOnlyWhenFull
  <2>. QED  BY <2>1, <2>2, <2>3, <2>4 DEF Next, RefusesOnlyWhenFull
<1>3. J => RefusesOnlyWhenFull
  OBVIOUS
<1>. HIDE DEF J
<1>. QED  BY <1>1, <1>2, <1>3, PTL DEF Spec
=============================================================================
