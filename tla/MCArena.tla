------------------------------ MODULE MCArena ------------------------------
(***************************************************************************)
(* Buffers of up to fourteen bytes that start anywhere modulo four, and    *)
(* arrays of one or two objects of types of one to eight bytes, some of    *)
(* them aligned to less than their size.                                   *)
(***************************************************************************)
EXTENDS Arena

MCBuffers == {[orig |-> o, end |-> o + n] : o \in 8..11, n \in {0, 7, 14}}

Types == {<<1, 1>>, <<4, 4>>, <<4, 2>>, <<3, 1>>, <<8, 8>>}
MCRequests == {[size |-> t[1], align |-> t[2], count |-> n] : t \in Types, n \in 1..2}
=============================================================================
