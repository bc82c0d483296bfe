------------------------------- MODULE Arena -------------------------------
(***************************************************************************)
(* include/arena.h: objects of any type, one behind the other in a buffer, *)
(* and all of them dropped at once.                                        *)
(***************************************************************************)
EXTENDS Integers, FiniteSets

CONSTANTS
    Buffers,     \* the buffers an Allocator is made for: [orig, end], addresses
    Requests     \* the calls allocate<T>(count): [size, align, count]

ASSUME BuffersAssumption ==
    \A b \in Buffers : b.orig \in Nat /\ b.end \in Nat /\ b.orig <= b.end

\* The size of a C++ type is a multiple of its alignment.
ASSUME RequestsAssumption ==
    \A r \in Requests : /\ r.size \in Nat \ {0} /\ r.align \in Nat \ {0} /\ r.count \in Nat \ {0}
                        /\ r.size % r.align = 0

VARIABLES
    buffer,     \* orig_ and end_
    begin,      \* begin_
    blocks,     \* history: what was handed out since the last reset
    refused     \* history: the request that has just thrown bad_alloc

vars == <<buffer, begin, blocks, refused>>

Init ==
    /\ buffer \in Buffers
    /\ begin = buffer.orig
    /\ blocks = {} /\ refused = {}

\* Slip: the padding is added for a begin_ that is aligned, too.
PadMore(r) == r.align - (begin % r.align)

\* -begin_ & (alignof(T) - 1), for the alignments there are, powers of two.
Pad(r) == (-begin) % r.align

\* Division of int, which truncates.
Quotient(a, b) == IF a >= 0 THEN a \div b ELSE -((-a) \div b)

\* How many objects the rest of the buffer is taken to hold.
Room(r) == Quotient(buffer.end - begin - Pad(r), r.size)

\* Slip: the bytes before the object are not used up.
AdvanceUnpadded(r) == r.count * r.size

\* What begin_ moves by.
Advance(r) == Pad(r) + r.count * r.size

Allocate(r) ==
    /\ r.count < Room(r)
    /\ begin' = begin + Advance(r)
    /\ LET start == begin + Pad(r) IN
       blocks' = blocks \cup {[start |-> start, end |-> start + r.count * r.size, align |-> r.align]}
    /\ refused' = {}
    /\ UNCHANGED buffer

\* allocate throws bad_alloc.
Refuse(r) ==
    /\ r.count >= Room(r)
    /\ refused' = {r}
    /\ UNCHANGED <<buffer, begin, blocks>>

Reset ==
    /\ begin' = buffer.orig
    /\ blocks' = {} /\ refused' = {}
    /\ UNCHANGED buffer

Next == (\E r \in Requests : Allocate(r) \/ Refuse(r)) \/ Reset

Spec == Init /\ [][Next]_vars
-----------------------------------------------------------------------------
(***************************************************************************)
(* Every object lies in the buffer, at an address its type allows, and no  *)
(* two that are alive share a byte, whatever types are mixed and however   *)
(* full the buffer is: the padding never carries a block over the end.     *)
(***************************************************************************)
Apart(b, c) == b.end <= c.start \/ c.end <= b.start

BlocksSound ==
    /\ \A b \in blocks : /\ buffer.orig <= b.start /\ b.start <= b.end /\ b.end <= buffer.end
                         /\ b.start % b.align = 0
    /\ \A b, c \in blocks : b # c => Apart(b, c)

(***************************************************************************)
(* bad_alloc means that the buffer is full but for one object: wherever an *)
(* array of one object more could start behind what was handed out, it     *)
(* would reach over the end.  (One that fits exactly is refused, too.)     *)
(***************************************************************************)
RefusesOnlyWhenFull ==
    \A r \in refused :
        \A p \in begin..buffer.end :
            p % r.align = 0 => p + (r.count + 1) * r.size > buffer.end
=============================================================================
