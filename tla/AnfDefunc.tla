------------------------------ MODULE AnfDefunc ------------------------------
(***************************************************************************)
(* convertDefunc of src/anf.cpp: conversion to A-normal form without       *)
(* recursion.                                                              *)
(*                                                                         *)
(* The recursive conversion was turned into continuation-passing style     *)
(* twice, and both sorts of continuation into data                         *)
(* (src/anf-defunctionalization.sml).  What is left is a loop over three   *)
(* mutually tail-recursive functions, go, apply_k and apply_k2, whose      *)
(* parameters are shared mutable variables.  Nothing but the order of the  *)
(* assignments says which of them are meaningful when.                     *)
(***************************************************************************)
EXTENDS Ast, Anf, SequencesExt

CONSTANTS
    Programs,   \* the programs convertDefunc is called with
    Counters    \* what the static counter may be when it is called

ASSUME ProgramsAssumption == \A p \in Programs : IsAst(p)
ASSUME CountersAssumption == Counters \subseteq Nat

VARIABLES
    prog,       \* the source program, root
    counter,    \* the static counter of fresh()
    heap,       \* the nodes that have been made
    goExp,      \* go_exp
    k2Exp,      \* k2_exp
    k,          \* the stack of continuation frames, its top at the end
    k2,         \* the stack of second-order frames, its top at the end
    value,
    dispatch,   \* which function runs next
    status      \* "run", "done", or "thrown" after a runtime_error

vars == <<prog, counter, heap, goExp, k2Exp, k, k2, value, dispatch, status>>

-----------------------------------------------------------------------------
(***************************************************************************)
(* Frames.  A frame holds references to source nodes, names, values and    *)
(* nodes it owns.                                                          *)
(***************************************************************************)
KApp1(x)    == [kind |-> "App1", x |-> x]
KApp2(f)    == [kind |-> "App2", f |-> f]
KBop1(y, b) == [kind |-> "Bop1", y |-> y, bop |-> b]
KBop2(x, b) == [kind |-> "Bop2", x |-> x, bop |-> b]
KIf1(t, f)  == [kind |-> "If1", t |-> t, f |-> f]
KIf2(j)     == [kind |-> "If2", j |-> j]

K2Lam1(ks, v)       == [kind |-> "Lam1", k |-> ks, v |-> v]
K2Lam2(f, v, body)  == [kind |-> "Lam2", f |-> f, v |-> v, body |-> body]
K2App1(r, f, x)     == [kind |-> "App1", r |-> r, f |-> f, x |-> x]
K2Bop1(r, b, x, y)  == [kind |-> "Bop1", r |-> r, bop |-> b, x |-> x, y |-> y]
K2If1(t, f, j, p, c) ==
    [kind |-> "If1", t |-> t, f |-> f, j |-> j, p |-> p, c |-> c]
K2If2(f, j, p, c, rest) ==
    [kind |-> "If2", f |-> f, j |-> j, p |-> p, c |-> c, rest |-> rest]
K2If3(t, j, p, c, rest) ==
    [kind |-> "If3", t |-> t, j |-> j, p |-> p, c |-> c, rest |-> rest]

\* What the loop is about to do.
Runs(d)    == status = "run" /\ dispatch = d
Gos(tag)   == Runs("GO") /\ prog.tag[goExp] = tag
KTop(kind)  == Runs("APPLY_K") /\ k # <<>> /\ Last(k).kind = kind
K2Top(kind) == Runs("APPLY_K2") /\ k2 # <<>> /\ Last(k2).kind = kind

-----------------------------------------------------------------------------
Init ==
    /\ prog \in Programs
    /\ counter \in Counters
    /\ heap = <<>>
    /\ goExp = Root
    /\ k2Exp = Null
    /\ k = <<>>
    /\ k2 = <<>>
    /\ value = IntValue(0)
    /\ dispatch = "GO"
    /\ status = "run"

(***************************************************************************)
(* case GO                                                                 *)
(***************************************************************************)
GoValue(tag, v) ==
    /\ Gos(tag)
    /\ value' = v
    /\ dispatch' = "APPLY_K"
    /\ UNCHANGED <<prog, counter, heap, goExp, k2Exp, k, k2, status>>

\* Slip: dispatch stays GO.
GoVarAgain ==
    /\ Gos("Var")
    /\ value' = VarValue(prog.name[goExp])
    /\ UNCHANGED <<prog, counter, heap, goExp, k2Exp, k, k2, dispatch, status>>

GoInt == GoValue("Int", IntValue(prog.data[goExp]))
GoVar == GoValue("Var", VarValue(prog.name[goExp]))

\* Slip: the continuation is copied and not swapped out.
GoLamCopy ==
    /\ Gos("Lam")
    /\ goExp' = prog.kids[goExp][1]
    /\ k2' = Append(k2, K2Lam1(k, prog.name[goExp]))
    /\ UNCHANGED <<prog, counter, heap, k2Exp, k, value, dispatch, status>>

\* The continuation is set aside: the body starts with an empty one.
GoLam ==
    /\ Gos("Lam")
    /\ goExp' = prog.kids[goExp][1]
    /\ k' = <<>>
    /\ k2' = Append(k2, K2Lam1(k, prog.name[goExp]))
    /\ UNCHANGED <<prog, counter, heap, k2Exp, value, dispatch, status>>

\* An operand is next, and a frame remembers the others.
GoOperand(tag, frame) ==
    /\ Gos(tag)
    /\ goExp' = prog.kids[goExp][1]
    /\ k' = Append(k, frame)
    /\ UNCHANGED <<prog, counter, heap, k2Exp, k2, value, dispatch, status>>

GoApp == GoOperand("App", KApp1(prog.kids[goExp][2]))
GoBop == GoOperand("Bop", KBop1(prog.kids[goExp][2], prog.data[goExp]))

\* Slip: the branches are swapped.
GoIfSwapped == GoOperand("If", KIf1(prog.kids[goExp][3], prog.kids[goExp][2]))

GoIf == GoOperand("If", KIf1(prog.kids[goExp][2], prog.kids[goExp][3]))

(***************************************************************************)
(* case APPLY_K                                                            *)
(***************************************************************************)
\* The term ends here, with a HaltExp or with a jump out of a branch.
EndTerm(node) ==
    /\ heap' = Append(heap, node)
    /\ k2Exp' = Len(heap) + 1
    /\ dispatch' = "APPLY_K2"

ApplyHalt ==
    /\ Runs("APPLY_K") /\ k = <<>>
    /\ EndTerm(HaltExp(value))
    /\ UNCHANGED <<prog, counter, goExp, k, k2, value, status>>

ApplyKIf2 ==
    /\ KTop("If2")
    /\ EndTerm(JumpExp(Last(k).j, <<value>>))
    /\ k' = Front(k)
    /\ value' = Moved
    /\ UNCHANGED <<prog, counter, goExp, k2, status>>

\* Slip: dispatch stays APPLY_K.
NextOperandStays(kind, next, frame) ==
    /\ KTop(kind)
    /\ goExp' = next
    /\ k' = Append(Front(k), frame)
    /\ value' = Moved
    /\ UNCHANGED <<prog, counter, heap, k2Exp, k2, dispatch, status>>

\* The value of the first operand moves into a frame, and the second is next.
NextOperand(kind, next, frame) ==
    /\ KTop(kind)
    /\ goExp' = next
    /\ k' = Append(Front(k), frame)
    /\ value' = Moved
    /\ dispatch' = "GO"
    /\ UNCHANGED <<prog, counter, heap, k2Exp, k2, status>>

ApplyKApp1 == NextOperand("App1", Last(k).x, KApp2(value))
ApplyKBop1 == NextOperand("Bop1", Last(k).y, KBop2(value, Last(k).bop))

\* Slip: two names out of one call of fresh().
BindOneName(frame, names) ==
    /\ k' = Front(k)
    /\ k2' = Append(k2, frame)
    /\ counter' = counter + 1
    /\ value' = VarValue(Tmp(counter + names - 1))
    /\ UNCHANGED <<prog, heap, goExp, k2Exp, dispatch, status>>

\* All operands are values: name the result and go on with its name.
Bind(frame, names) ==
    /\ k' = Front(k)
    /\ k2' = Append(k2, frame)
    /\ counter' = counter + names
    /\ value' = VarValue(Tmp(counter + names - 1))
    /\ UNCHANGED <<prog, heap, goExp, k2Exp, dispatch, status>>

\* Slip: any value is applied.
ApplyKApp2Any ==
    /\ KTop("App2")
    /\ Bind(K2App1(Tmp(counter), Last(k).f.var, value), 1)

ApplyKApp2 ==
    /\ KTop("App2") /\ Last(k).f.kind = "var"
    /\ Bind(K2App1(Tmp(counter), Last(k).f.var, value), 1)

\* "must apply named value": the exception leaves convertDefunc
ApplyInt ==
    /\ KTop("App2") /\ Last(k).f.kind # "var"
    /\ status' = "thrown"
    /\ UNCHANGED <<prog, counter, heap, goExp, k2Exp, k, k2, value, dispatch>>

\* Slip: the operands are swapped.
ApplyKBop2Swapped ==
    /\ KTop("Bop2")
    /\ Bind(K2Bop1(Tmp(counter), Last(k).bop, value, Last(k).x), 1)

ApplyKBop2 ==
    /\ KTop("Bop2")
    /\ Bind(K2Bop1(Tmp(counter), Last(k).bop, Last(k).x, value), 1)

ApplyKIf1 ==
    /\ KTop("If1")
    /\ Bind(K2If1(Last(k).t, Last(k).f, Tmp(counter), Tmp(counter + 1), value), 2)

(***************************************************************************)
(* case APPLY_K2                                                           *)
(***************************************************************************)
\* The body of a LamExp is complete: go on with the continuation set aside.
ApplyK2Lam1 ==
    /\ K2Top("Lam1")
    /\ counter' = counter + 1
    /\ k' = Last(k2).k
    /\ value' = VarValue(Tmp(counter))
    /\ k2' = Append(Front(k2), K2Lam2(Tmp(counter), Last(k2).v, k2Exp))
    /\ k2Exp' = Null
    /\ dispatch' = "APPLY_K"
    /\ UNCHANGED <<prog, heap, goExp, status>>

\* The term after a binding is complete: put the binding in front of it.
Prepend(kind, node) ==
    /\ K2Top(kind)
    /\ heap' = Append(heap, node)
    /\ k2Exp' = Len(heap) + 1
    /\ k2' = Front(k2)
    /\ UNCHANGED <<prog, counter, goExp, k, value, dispatch, status>>

ApplyK2Lam2 ==
    LET f == Last(k2)
    IN  Prepend("Lam2", FunExp(f.f, <<f.v>>, f.body, k2Exp))

ApplyK2App1 ==
    LET f == Last(k2)
    IN  Prepend("App1", AppExp(f.r, f.f, <<f.x>>, k2Exp))

ApplyK2Bop1 ==
    LET f == Last(k2)
    IN  Prepend("Bop1", BopExp(f.r, f.bop, f.x, f.y, k2Exp))

\* Convert a branch, which ends in a jump.
Branch(kind, exp, frame) ==
    /\ K2Top(kind)
    /\ goExp' = exp
    /\ k2' = Append(Front(k2), frame)
    /\ k2Exp' = Null
    /\ k' = <<KIf2(frame.j)>>
    /\ dispatch' = "GO"
    /\ UNCHANGED <<prog, counter, heap, value, status>>

ApplyK2If1 ==
    LET f == Last(k2)
    IN  Branch("If1", f.t, K2If2(f.f, f.j, f.p, f.c, k2Exp))

ApplyK2If2 ==
    LET f == Last(k2)
    IN  Branch("If2", f.f, K2If3(k2Exp, f.j, f.p, f.c, f.rest))

\* Slip: the first branch is used twice.
ApplyK2If3Twice ==
    LET f == Last(k2)
    IN  /\ K2Top("If3")
        /\ heap' = heap \o <<IfExp(f.c, f.t, f.t),
                             JoinExp(f.j, <<f.p>>, f.rest, Len(heap) + 1)>>
        /\ k2Exp' = Len(heap) + 2
        /\ k2' = Front(k2)
        /\ UNCHANGED <<prog, counter, goExp, k, value, dispatch, status>>

ApplyK2If3 ==
    LET f == Last(k2)
    IN  /\ K2Top("If3")
        /\ heap' = heap \o <<IfExp(f.c, f.t, k2Exp),
                             JoinExp(f.j, <<f.p>>, f.rest, Len(heap) + 1)>>
        /\ k2Exp' = Len(heap) + 2
        /\ k2' = Front(k2)
        /\ UNCHANGED <<prog, counter, goExp, k, value, dispatch, status>>

Return ==
    /\ Runs("APPLY_K2") /\ k2 = <<>>
    /\ status' = "done"
    /\ UNCHANGED <<prog, counter, heap, goExp, k2Exp, k, k2, value, dispatch>>

\* convertDefunc is over.
Terminated == status # "run" /\ UNCHANGED vars

Go      == GoInt \/ GoVar \/ GoLam \/ GoApp \/ GoBop \/ GoIf
ApplyK  == \/ ApplyHalt \/ ApplyKIf2 \/ ApplyKApp1 \/ ApplyKBop1
           \/ ApplyKApp2 \/ ApplyInt \/ ApplyKBop2 \/ ApplyKIf1
ApplyK2 == \/ ApplyK2Lam1 \/ ApplyK2Lam2 \/ ApplyK2App1 \/ ApplyK2Bop1
           \/ ApplyK2If1 \/ ApplyK2If2 \/ ApplyK2If3 \/ Return

Next == Go \/ ApplyK \/ ApplyK2 \/ Terminated

Spec == Init /\ [][Next]_vars

\* The loop never waits.
FairSpec == Spec /\ WF_vars(Next)
-----------------------------------------------------------------------------
AnyValue == Value \cup {Moved}

KFrame ==
    [kind : {"App1"}, x : Exps(prog)]
       \cup [kind : {"App2"}, f : AnyValue]
       \cup [kind : {"Bop1"}, y : Exps(prog), bop : Bop]
       \cup [kind : {"Bop2"}, x : AnyValue, bop : Bop]
       \cup [kind : {"If1"}, t : Exps(prog), f : Exps(prog)]
       \cup [kind : {"If2"}, j : Ident]

\* A pointer to a node that has been made.
Made == 1..Len(heap)
Pointer == Made \cup {Null}

K2Frame ==
    [kind : {"Lam1"}, k : Seq(KFrame), v : Ident]
       \cup [kind : {"Lam2"}, f : Ident, v : Ident, body : Pointer]
       \cup [kind : {"App1"}, r : Ident, f : Ident, x : AnyValue]
       \cup [kind : {"Bop1"}, r : Ident, bop : Bop, x : AnyValue, y : AnyValue]
       \cup [kind : {"If1"}, t : Exps(prog), f : Exps(prog), j : Ident,
             p : Ident, c : AnyValue]
       \cup [kind : {"If2"}, f : Exps(prog), j : Ident, p : Ident,
             c : AnyValue, rest : Pointer]
       \cup [kind : {"If3"}, t : Pointer, j : Ident, p : Ident, c : AnyValue,
             rest : Pointer]

AnfNode ==
    [tag : AnfTag, name : Ident, params : Seq(Ident), bop : Bop \cup {""},
     index : Int, vals : Seq(AnyValue), kids : Seq(Pointer)]

TypeOK ==
    /\ prog \in Programs
    /\ counter \in Nat
    /\ heap \in Seq(AnfNode)
    /\ goExp \in Exps(prog)
    /\ k2Exp \in Pointer
    /\ k \in Seq(KFrame)
    /\ k2 \in Seq(K2Frame)
    /\ value \in AnyValue
    /\ dispatch \in {"GO", "APPLY_K", "APPLY_K2"}
    /\ status \in {"run", "done", "thrown"}

-----------------------------------------------------------------------------
\* The values a frame of k holds, and those a frame of k2 holds.
KValues(f) ==
    CASE f.kind = "App2" -> {f.f} [] f.kind = "Bop2" -> {f.x} [] OTHER -> {}

K2Values(f) ==
    CASE f.kind = "App1" -> {f.x}
      [] f.kind = "Bop1" -> {f.x, f.y}
      [] f.kind \in {"If1", "If2", "If3"} -> {f.c}
      [] OTHER -> {}

(***************************************************************************)
(* The shared variables that stand for parameters are read only while they *)
(* are meaningful: value is never moved-from when apply_k reads it, k2_exp *)
(* is a term when apply_k2 takes it and null at every other time (so no    *)
(* assignment destroys a term), and no moved-from value gets into a frame  *)
(* or a node.                                                              *)
(***************************************************************************)
NoMoved(ks) == \A i \in 1..Len(ks) : Moved \notin KValues(ks[i])

ReadsNothingMoved ==
    /\ dispatch = "APPLY_K" => value # Moved
    /\ dispatch = "APPLY_K2" <=> k2Exp # Null
    /\ NoMoved(k)
    /\ \A i \in 1..Len(k2) : /\ k2[i].kind = "Lam1" => NoMoved(k2[i].k)
                             /\ Moved \notin K2Values(k2[i])
    /\ \A a \in Made : \A i \in 1..Len(heap[a].vals) : heap[a].vals[i] # Moved

(***************************************************************************)
(* No code is lost and none is used twice: every node that has been made   *)
(* has exactly one owner, k2_exp or a frame of k2 or another node.         *)
(***************************************************************************)
Owned(f) ==
    CASE f.kind = "Lam2" -> <<f.body>>
      [] f.kind = "If2"  -> <<f.rest>>
      [] f.kind = "If3"  -> <<f.t, f.rest>>
      [] OTHER           -> <<>>

Owners ==
    {<<"k2_exp", 1, 1>>}
       \cup {o \in {"k2"} \X (1..Len(k2)) \X (1..2) : o[3] <= Len(Owned(k2[o[2]]))}
       \cup {o \in {"node"} \X Made \X (1..2) : o[3] <= Len(heap[o[2]].kids)}

Owns(o) ==
    IF o[1] = "k2_exp" THEN k2Exp
    ELSE IF o[1] = "k2" THEN Owned(k2[o[2]])[o[3]]
    ELSE heap[o[2]].kids[o[3]]

OwnedOnce ==
    \A a \in Made :
        \E o \in Owners : Owns(o) = a /\ \A w \in Owners : Owns(w) = a => w = o

(***************************************************************************)
(* How a continuation must end is decided by the innermost frame of k2     *)
(* that waits for a whole term: a branch of an if ends by jumping to the   *)
(* join point of that if, and the body of a LamExp, like the program,      *)
(* jumps nowhere.  K2Lam1 sets a continuation aside and k.clear() throws   *)
(* one away, so a wrong order of pushes would let a branch jump to the     *)
(* join point of another if, or fall out of its function.                  *)
(***************************************************************************)
Delimiters(w, n) == {m \in 1..n : w[m].kind \in {"Lam1", "If2", "If3"}}

JumpsNowhere(ks) == \A i \in 1..Len(ks) : ks[i].kind # "If2"

JumpsTo(ks, j) ==
    ks # <<>> /\ ks[1] = KIf2(j) /\ \A i \in 2..Len(ks) : ks[i].kind # "If2"

\* Continuation ks ends as the n frames at the bottom of w demand.
EndsWell(ks, w, n) ==
    \/ Delimiters(w, n) = {} /\ JumpsNowhere(ks)
    \/ \E m \in Delimiters(w, n) :
          /\ \A l \in Delimiters(w, n) : l <= m
          /\ IF w[m].kind = "Lam1" THEN JumpsNowhere(ks) ELSE JumpsTo(ks, w[m].j)

JumpDiscipline ==
    /\ dispatch = "APPLY_K2" => k = <<>>
    /\ dispatch # "APPLY_K2" => EndsWell(k, k2, Len(k2))
    /\ \A i \in 1..Len(k2) : k2[i].kind = "Lam1" => EndsWell(k2[i].k, k2, i - 1)

(***************************************************************************)
(* Every name that is bound is bound once, in the term made so far and in  *)
(* what the frames are going to bind: convertDefunc takes names from one   *)
(* counter, and the parameters from the program.                           *)
(***************************************************************************)
Reserved(f) ==
    CASE f.kind = "Lam1" -> <<f.v>>
      [] f.kind = "Lam2" -> <<f.f, f.v>>
      [] f.kind \in {"App1", "Bop1"} -> <<f.r>>
      [] f.kind \in {"If1", "If2", "If3"} -> <<f.j, f.p>>

BindersDistinct ==
    LET Places ==
            {o \in {"k2"} \X (1..Len(k2)) \X (1..2) : o[3] <= Len(Reserved(k2[o[2]]))}
              \cup {o \in {"node"} \X Made \X (1..2) : o[3] <= Len(Binders(heap[o[2]]))}
        At(o) == IF o[1] = "k2" THEN Reserved(k2[o[2]])[o[3]]
                                ELSE Binders(heap[o[2]])[o[3]]
    IN  \A o, w \in Places : At(o) = At(w) => o = w

(***************************************************************************)
(* convertDefunc throws only for programs that apply an integer literal,   *)
(* and for those it does not return.                                       *)
(***************************************************************************)
AppliesInt(p) ==
    \E n \in Exps(p) : p.tag[n] = "App" /\ p.tag[p.kids[n][1]] = "Int"

ThrowsIffIntApplied ==
    /\ status = "thrown" => AppliesInt(prog)
    /\ status = "done" => ~AppliesInt(prog)

\* Every conversion ends.
Terminates == <>(status # "run")
=============================================================================
