-------------------------- MODULE AnfDefuncProofs --------------------------
(***************************************************************************)
(* Proofs about module AnfDefunc, for every set of programs.               *)
(***************************************************************************)
EXTENDS AnfDefunc, AstLemmas

-----------------------------------------------------------------------------
(***************************************************************************)
(* Types                                                                   *)
(***************************************************************************)

LEMMA NodeFields ==
  ASSUME TypeOK, dispatch = "GO"
  PROVE  /\ IsAst(prog) /\ goExp \in Exps(prog)
         /\ prog.tag[goExp] = "Int" => prog.data[goExp] \in Int
         /\ prog.tag[goExp] = "Bop" => prog.data[goExp] \in Bop
         /\ prog.name[goExp] \in Ident
         /\ Len(prog.kids[goExp]) = Arity[prog.tag[goExp]]
         /\ \A i \in 1..Len(prog.kids[goExp]) : prog.kids[goExp][i] \in Exps(prog)
<1>1. IsAst(prog) /\ goExp \in Exps(prog)
  BY ProgramsAssumption DEF TypeOK
<1>2. prog.kids[goExp] \in Seq(Exps(prog))
  BY <1>1 DEF IsAst, IsHeap
<1>3. \A i \in 1..Len(prog.kids[goExp]) : prog.kids[goExp][i] \in Exps(prog)
  BY <1>2, ElementOfSeq
<1>. QED  BY <1>1, <1>3 DEF IsAst, IsHeap

LEMMA StemType ==
  ASSUME NEW b \in Stems, NEW ds \in Seq(Digit)
  PROVE  Name(b, ds) \in Ident
BY StemsAssumption DEF Name, Ident

LEMMA NoNameType == NoName \in Ident
<1>. PICK ds \in Seq(Digit) : ds = <<>>
  BY EmptySeq
<1>1. Name("", ds) \in Ident
  BY StemType DEF Stems
<1>. QED  BY <1>1 DEF NoName

LEMMA TmpType ==
  ASSUME NEW c \in Nat
  PROVE  Tmp(c) \in Ident
<1>. PICK ds \in Seq(Digit) : ds = <<>>
  BY EmptySeq
<1>1. Name("tmp", ds) \in Ident
  BY StemType DEF Stems
<1>2. Fresh(Name("tmp", ds), c) \in Ident
  BY ONLY <1>1, FreshType, c \in Nat
<1>. QED  BY <1>2 DEF Tmp

LEMMA ValueTypes ==
  /\ \A i \in Int : IntValue(i) \in Value /\ IntValue(i) # Moved
  /\ \A x \in Ident : VarValue(x) \in Value /\ VarValue(x) # Moved
                      /\ VarValue(x).kind = "var"
  /\ Moved \in AnyValue /\ Value \subseteq AnyValue
  /\ \A v \in AnyValue : v.var \in Ident
BY NoNameType DEF IntValue, VarValue, Moved, Val, Value, AnyValue

\* What the frames of k hold.
LEMMA KFrameFields ==
  ASSUME NEW f \in KFrame
  PROVE  /\ f.kind \in {"App1", "App2", "Bop1", "Bop2", "If1", "If2"}
         /\ f.kind = "App1" => f.x \in Exps(prog)
         /\ f.kind = "App2" => f.f \in AnyValue
         /\ f.kind = "Bop1" => f.y \in Exps(prog) /\ f.bop \in Bop
         /\ f.kind = "Bop2" => f.x \in AnyValue /\ f.bop \in Bop
         /\ f.kind = "If1" => f.t \in Exps(prog) /\ f.f \in Exps(prog)
         /\ f.kind = "If2" => f.j \in Ident
BY DEF KFrame

LEMMA KFrameTypes ==
  /\ \A x \in Exps(prog) : KApp1(x) \in KFrame
  /\ \A v \in AnyValue : KApp2(v) \in KFrame
  /\ \A y \in Exps(prog), b \in Bop : KBop1(y, b) \in KFrame
  /\ \A v \in AnyValue, b \in Bop : KBop2(v, b) \in KFrame
  /\ \A t, f \in Exps(prog) : KIf1(t, f) \in KFrame
  /\ \A j \in Ident : KIf2(j) \in KFrame
BY DEF KFrame, KApp1, KApp2, KBop1, KBop2, KIf1, KIf2

\* What the frames of k2 hold.
LEMMA K2FrameFields ==
  ASSUME NEW f \in K2Frame
  PROVE  /\ f.kind \in {"Lam1", "Lam2", "App1", "Bop1", "If1", "If2", "If3"}
         /\ f.kind = "Lam1" => f.k \in Seq(KFrame) /\ f.v \in Ident
         /\ f.kind = "Lam2" => f.f \in Ident /\ f.v \in Ident /\ f.body \in Pointer
         /\ f.kind = "App1" => f.r \in Ident /\ f.f \in Ident /\ f.x \in AnyValue
         /\ f.kind = "Bop1" => /\ f.r \in Ident /\ f.bop \in Bop
                               /\ f.x \in AnyValue /\ f.y \in AnyValue
         /\ f.kind = "If1" => /\ f.t \in Exps(prog) /\ f.f \in Exps(prog)
                              /\ f.j \in Ident /\ f.p \in Ident /\ f.c \in AnyValue
         /\ f.kind = "If2" => /\ f.f \in Exps(prog) /\ f.rest \in Pointer
                              /\ f.j \in Ident /\ f.p \in Ident /\ f.c \in AnyValue
         /\ f.kind = "If3" => /\ f.t \in Pointer /\ f.rest \in Pointer
                              /\ f.j \in Ident /\ f.p \in Ident /\ f.c \in AnyValue
BY DEF K2Frame

LEMMA K2FrameTypes ==
  /\ \A ks \in Seq(KFrame), v \in Ident : K2Lam1(ks, v) \in K2Frame
  /\ \A f, v \in Ident, b \in Pointer : K2Lam2(f, v, b) \in K2Frame
  /\ \A r, f \in Ident, x \in AnyValue : K2App1(r, f, x) \in K2Frame
  /\ \A r \in Ident, b \in Bop, x, y \in AnyValue : K2Bop1(r, b, x, y) \in K2Frame
  /\ \A t, f \in Exps(prog), j, p \in Ident, c \in AnyValue :
        K2If1(t, f, j, p, c) \in K2Frame
  /\ \A f \in Exps(prog), j, p \in Ident, c \in AnyValue, rest \in Pointer :
        K2If2(f, j, p, c, rest) \in K2Frame
  /\ \A t \in Pointer, j, p \in Ident, c \in AnyValue, rest \in Pointer :
        K2If3(t, j, p, c, rest) \in K2Frame
BY DEF K2Frame, K2Lam1, K2Lam2, K2App1, K2Bop1, K2If1, K2If2, K2If3

\* Nodes stay where they are, so what was well typed stays so.
LEMMA Grows ==
  ASSUME prog' = prog, Len(heap) \in Nat, Len(heap') \in Nat, Len(heap) <= Len(heap')
  PROVE  /\ KFrame' = KFrame
         /\ Pointer \subseteq Pointer'
         /\ K2Frame \subseteq K2Frame'
         /\ AnfNode \subseteq AnfNode'
<1>1. KFrame' = KFrame
  BY DEF KFrame
<1>2. Pointer \subseteq Pointer'
  BY DEF Pointer, Made
<1>3. ASSUME NEW f \in K2Frame PROVE f \in K2Frame'
  BY <1>1, <1>2 DEF K2Frame
<1>4. ASSUME NEW a \in AnfNode PROVE a \in AnfNode'
  <2>1. a.kids \in Seq(Pointer)
    BY DEF AnfNode
  <2>2. a.kids \in Seq(Pointer')
    BY <1>2, <2>1, SeqMonotonic
  <2>. QED  BY <2>2 DEF AnfNode
<1>. QED  BY <1>1, <1>2, <1>3, <1>4

\* The nodes that convertDefunc makes.
LEMMA NodeTypes ==
  ASSUME NEW v \in AnyValue, NEW w \in AnyValue, NEW x \in Ident, NEW y \in Ident,
         NEW b \in Bop, NEW p \in Pointer, NEW q \in Pointer
  PROVE  /\ HaltExp(v) \in AnfNode
         /\ FunExp(x, <<y>>, p, q) \in AnfNode
         /\ JoinExp(x, <<y>>, p, q) \in AnfNode
         /\ JumpExp(x, <<v>>) \in AnfNode
         /\ AppExp(x, y, <<v>>, p) \in AnfNode
         /\ BopExp(x, b, v, w, p) \in AnfNode
         /\ IfExp(v, p, q) \in AnfNode
<1>1. PICK none : none = <<>>
  OBVIOUS
<1>2. none \in Seq(Ident) /\ none \in Seq(AnyValue) /\ none \in Seq(Pointer)
  BY <1>1, EmptySeq
<1>3. /\ <<y>> \in Seq(Ident) /\ <<v>> \in Seq(AnyValue) /\ <<v, w>> \in Seq(AnyValue)
      /\ <<p>> \in Seq(Pointer) /\ <<p, q>> \in Seq(Pointer)
  OBVIOUS
<1>4. VarValue(y) \in AnyValue
  BY ValueTypes
<1>5. <<VarValue(y)>> \o <<v>> \in Seq(AnyValue)
  <2>1. <<VarValue(y)>> \in Seq(AnyValue)
    BY <1>4
  <2>. QED  BY <1>3, <2>1, ConcatProperties
<1>6. ASSUME NEW tag \in AnfTag, NEW id \in Ident, NEW xs \in Seq(Ident),
             NEW vs \in Seq(AnyValue), NEW ks \in Seq(Pointer)
      PROVE  /\ Node(tag, id, xs, vs, ks) \in AnfNode
             /\ [Node(tag, id, xs, vs, ks) EXCEPT !.bop = b] \in AnfNode
  <2>1. Node(tag, id, xs, vs, ks) \in AnfNode
    BY DEF Node, AnfNode
  <2>2. ASSUME NEW n \in AnfNode PROVE [n EXCEPT !.bop = b] \in AnfNode
    BY DEF AnfNode
  <2>. QED  BY <2>1, <2>2
<1>7. HaltExp(v) \in AnfNode /\ JumpExp(x, <<v>>) \in AnfNode /\ IfExp(v, p, q) \in AnfNode
  BY <1>1, <1>2, <1>3, <1>6, NoNameType DEF HaltExp, JumpExp, IfExp, AnfTag
<1>8. FunExp(x, <<y>>, p, q) \in AnfNode /\ JoinExp(x, <<y>>, p, q) \in AnfNode
  BY <1>1, <1>2, <1>3, <1>6 DEF FunExp, JoinExp, AnfTag
<1>9. AppExp(x, y, <<v>>, p) \in AnfNode /\ BopExp(x, b, v, w, p) \in AnfNode
  BY <1>1, <1>2, <1>3, <1>5, <1>6 DEF AppExp, BopExp, AnfTag
<1>. QED  BY <1>7, <1>8, <1>9

-----------------------------------------------------------------------------
(***************************************************************************)
(* Type correctness, by the shape of the step                              *)
(***************************************************************************)

\* A step that makes no node.
LEMMA QuietStep ==
  ASSUME TypeOK, UNCHANGED <<prog, heap>>,
         counter' \in Nat, goExp' \in Exps(prog), k2Exp' \in Pointer,
         k' \in Seq(KFrame), k2' \in Seq(K2Frame), value' \in AnyValue,
         dispatch' \in {"GO", "APPLY_K", "APPLY_K2"},
         status' \in {"run", "done", "thrown"}
  PROVE  TypeOK'
<1>1. Len(heap) \in Nat
  BY LenProperties DEF TypeOK
<1>2. KFrame' = KFrame /\ Pointer' = Pointer
  BY DEF KFrame, Pointer, Made
<1>3. K2Frame' = K2Frame
  BY <1>2 DEF K2Frame
<1>4. AnfNode' = AnfNode
  BY <1>2 DEF AnfNode
<1>. QED  BY <1>2, <1>3, <1>4 DEF TypeOK

\* A step that makes nodes and leaves k2 or pops its top.
LEMMA MakingStep ==
  ASSUME TypeOK, UNCHANGED <<prog, counter, goExp>>,
         heap' \in Seq(AnfNode'), Len(heap) <= Len(heap'), k2Exp' \in Pointer',
         k' \in Seq(KFrame), k2' \in Seq(K2Frame), value' \in AnyValue,
         dispatch' \in {"GO", "APPLY_K", "APPLY_K2"}, status' = status
  PROVE  TypeOK'
<1>1. Len(heap) \in Nat /\ Len(heap') \in Nat
  BY LenProperties DEF TypeOK
<1>2. KFrame' = KFrame /\ K2Frame \subseteq K2Frame'
  BY <1>1, Grows
<1>3. k2' \in Seq(K2Frame')
  BY <1>2, SeqMonotonic
<1>. QED  BY <1>2, <1>3 DEF TypeOK

\* What is on the stacks, and what the registers hold.
LEMMA Tops ==
  ASSUME TypeOK
  PROVE  /\ k # <<>> => /\ Last(k) \in KFrame /\ Last(k) = k[Len(k)]
                        /\ Len(k) \in Nat \ {0}
                        /\ Front(k) \in Seq(KFrame) /\ Len(Front(k)) = Len(k) - 1
                        /\ \A i \in 1..(Len(k) - 1) : Front(k)[i] = k[i]
         /\ k2 # <<>> => /\ Last(k2) \in K2Frame /\ Last(k2) = k2[Len(k2)]
                         /\ Len(k2) \in Nat \ {0}
                         /\ Front(k2) \in Seq(K2Frame) /\ Len(Front(k2)) = Len(k2) - 1
                         /\ \A i \in 1..(Len(k2) - 1) : Front(k2)[i] = k2[i]
<1>1. k \in Seq(KFrame) /\ k2 \in Seq(K2Frame)
  BY DEF TypeOK
<1>. QED  BY <1>1, Pop

LEMMA GoType ==
  ASSUME TypeOK, Go
  PROVE  TypeOK'
<1>1. CASE GoInt
  <2>1. IntValue(prog.data[goExp]) \in AnyValue
    BY <1>1, NodeFields, ValueTypes DEF GoInt, GoValue, Gos, Runs
  <2>. QED  BY <1>1, <2>1, QuietStep DEF GoInt, GoValue, TypeOK
<1>2. CASE GoVar
  <2>1. VarValue(prog.name[goExp]) \in AnyValue
    BY <1>2, NodeFields, ValueTypes DEF GoVar, GoValue, Gos, Runs
  <2>. QED  BY <1>2, <2>1, QuietStep DEF GoVar, GoValue, TypeOK
<1>3. CASE GoLam
  <2>1. prog.kids[goExp][1] \in Exps(prog) /\ prog.name[goExp] \in Ident
    BY <1>3, NodeFields DEF GoLam, Gos, Runs, Arity
  <2>2. K2Lam1(k, prog.name[goExp]) \in K2Frame
    BY <2>1, K2FrameTypes DEF TypeOK
  <2>3. Append(k2, K2Lam1(k, prog.name[goExp])) \in Seq(K2Frame)
    BY <2>2, Push DEF TypeOK
  <2>4. k' \in Seq(KFrame)
    BY <1>3, EmptySeq DEF GoLam
  <2>. QED  BY <1>3, <2>1, <2>3, <2>4, QuietStep DEF GoLam, TypeOK
<1>4. ASSUME NEW tag \in {"App", "Bop", "If"}, NEW frame \in KFrame, GoOperand(tag, frame)
      PROVE  TypeOK'
  <2>1. prog.kids[goExp][1] \in Exps(prog)
    BY <1>4, NodeFields DEF GoOperand, Gos, Runs, Arity
  <2>2. Append(k, frame) \in Seq(KFrame)
    BY Push DEF TypeOK
  <2>. QED  BY <1>4, <2>1, <2>2, QuietStep DEF GoOperand, TypeOK
<1>5. CASE GoApp
  <2>1. KApp1(prog.kids[goExp][2]) \in KFrame
    BY <1>5, NodeFields, KFrameTypes DEF GoApp, GoOperand, Gos, Runs, Arity
  <2>. QED  BY <1>4, <1>5, <2>1 DEF GoApp
<1>6. CASE GoBop
  <2>1. KBop1(prog.kids[goExp][2], prog.data[goExp]) \in KFrame
    BY <1>6, NodeFields, KFrameTypes DEF GoBop, GoOperand, Gos, Runs, Arity
  <2>. QED  BY <1>4, <1>6, <2>1 DEF GoBop
<1>7. CASE GoIf
  <2>1. KIf1(prog.kids[goExp][2], prog.kids[goExp][3]) \in KFrame
    BY <1>7, NodeFields, KFrameTypes DEF GoIf, GoOperand, Gos, Runs, Arity
  <2>. QED  BY <1>4, <1>7, <2>1 DEF GoIf
<1>. QED  BY <1>1, <1>2, <1>3, <1>5, <1>6, <1>7 DEF Go

LEMMA ApplyKType ==
  ASSUME TypeOK, ApplyK
  PROVE  TypeOK'
<1>1. ASSUME NEW node \in AnfNode, EndTerm(node), UNCHANGED <<prog, counter, goExp, k2, status>>,
             k' \in Seq(KFrame), value' \in AnyValue
      PROVE  TypeOK'
  <2>1. /\ heap' \in Seq(AnfNode) /\ Len(heap') = Len(heap) + 1 /\ Len(heap) \in Nat
    BY <1>1, Push, LenProperties DEF EndTerm, TypeOK
  <2>2. AnfNode \subseteq AnfNode'
    BY <1>1, <2>1, Grows
  <2>3. heap' \in Seq(AnfNode') /\ k2Exp' \in Pointer'
    BY <1>1, <2>1, <2>2, SeqMonotonic DEF EndTerm, Pointer, Made
  <2>. QED  BY <1>1, <2>1, <2>3, MakingStep DEF EndTerm, TypeOK
<1>2. CASE ApplyHalt
  <2>1. HaltExp(value) \in AnfNode
    BY NodeTypes, NoNameType, ValueTypes DEF TypeOK, Pointer, Bop
  <2>. QED  BY <1>1, <1>2, <2>1 DEF ApplyHalt, TypeOK
<1>3. CASE ApplyKIf2
  <2>1. Last(k).j \in Ident /\ Front(k) \in Seq(KFrame)
    BY <1>3, Tops, KFrameFields DEF ApplyKIf2, KTop
  <2>2. JumpExp(Last(k).j, <<value>>) \in AnfNode
    BY <2>1, NodeTypes, NoNameType, ValueTypes DEF TypeOK, Pointer, Bop
  <2>. QED  BY <1>1, <1>3, <2>1, <2>2, ValueTypes DEF ApplyKIf2, TypeOK
<1>4. ASSUME NEW kind, NEW next \in Exps(prog), NEW frame \in KFrame,
             NextOperand(kind, next, frame)
      PROVE  TypeOK'
  <2>1. Append(Front(k), frame) \in Seq(KFrame)
    BY <1>4, Tops, Push DEF NextOperand, KTop
  <2>. QED  BY <1>4, <2>1, QuietStep, ValueTypes DEF NextOperand, TypeOK
<1>5. CASE ApplyKApp1
  <2>1. Last(k).x \in Exps(prog) /\ KApp2(value) \in KFrame
    BY <1>5, Tops, KFrameFields, KFrameTypes DEF ApplyKApp1, NextOperand, KTop, TypeOK
  <2>. QED  BY <1>4, <1>5, <2>1 DEF ApplyKApp1
<1>6. CASE ApplyKBop1
  <2>1. Last(k).y \in Exps(prog) /\ KBop2(value, Last(k).bop) \in KFrame
    BY <1>6, Tops, KFrameFields, KFrameTypes DEF ApplyKBop1, NextOperand, KTop, TypeOK
  <2>. QED  BY <1>4, <1>6, <2>1 DEF ApplyKBop1
<1>7. ASSUME NEW frame \in K2Frame, NEW names \in {1, 2}, k # <<>>, Bind(frame, names)
      PROVE  TypeOK'
  <2>1. counter + names \in Nat /\ counter + names - 1 \in Nat
    BY DEF TypeOK
  <2>2. VarValue(Tmp(counter + names - 1)) \in AnyValue
    BY <2>1, TmpType, ValueTypes
  <2>3. Append(k2, frame) \in Seq(K2Frame) /\ Front(k) \in Seq(KFrame)
    BY <1>7, Tops, Push DEF TypeOK
  <2>. QED  BY <1>7, <2>1, <2>2, <2>3, QuietStep DEF Bind, TypeOK
<1>8. counter \in Nat /\ Tmp(counter) \in Ident /\ Tmp(counter + 1) \in Ident
  BY TmpType DEF TypeOK
<1>9. CASE ApplyKApp2
  <2>1. K2App1(Tmp(counter), Last(k).f.var, value) \in K2Frame
    BY <1>8, <1>9, Tops, KFrameFields, K2FrameTypes, ValueTypes DEF ApplyKApp2, KTop, TypeOK
  <2>. QED  BY <1>7, <1>9, <2>1 DEF ApplyKApp2, KTop
<1>10. CASE ApplyKBop2
  <2>1. K2Bop1(Tmp(counter), Last(k).bop, Last(k).x, value) \in K2Frame
    BY <1>8, <1>10, Tops, KFrameFields, K2FrameTypes DEF ApplyKBop2, KTop, TypeOK
  <2>. QED  BY <1>7, <1>10, <2>1 DEF ApplyKBop2, KTop
<1>11. CASE ApplyKIf1
  <2>1. K2If1(Last(k).t, Last(k).f, Tmp(counter), Tmp(counter + 1), value) \in K2Frame
    BY <1>8, <1>11, Tops, KFrameFields, K2FrameTypes DEF ApplyKIf1, KTop, TypeOK
  <2>. QED  BY <1>7, <1>11, <2>1 DEF ApplyKIf1, KTop
<1>12. CASE ApplyInt
  BY <1>12, QuietStep DEF ApplyInt, TypeOK
<1>. QED  BY <1>2, <1>3, <1>5, <1>6, <1>9, <1>10, <1>11, <1>12 DEF ApplyK

LEMMA ApplyK2Type ==
  ASSUME TypeOK, ApplyK2
  PROVE  TypeOK'
<1>1. CASE ApplyK2Lam1
  <2>1. /\ k2 # <<>> /\ Last(k2).k \in Seq(KFrame) /\ Last(k2).v \in Ident
        /\ Front(k2) \in Seq(K2Frame)
    BY <1>1, Tops, K2FrameFields DEF ApplyK2Lam1, K2Top
  <2>2. counter \in Nat /\ counter + 1 \in Nat /\ Tmp(counter) \in Ident
    BY TmpType DEF TypeOK
  <2>3. K2Lam2(Tmp(counter), Last(k2).v, k2Exp) \in K2Frame
    BY <2>1, <2>2, K2FrameTypes DEF TypeOK
  <2>4. /\ Append(Front(k2), K2Lam2(Tmp(counter), Last(k2).v, k2Exp)) \in Seq(K2Frame)
        /\ VarValue(Tmp(counter)) \in AnyValue /\ Null \in Pointer
    BY <2>1, <2>2, <2>3, Push, ValueTypes DEF Pointer
  <2>. QED  BY <1>1, <2>1, <2>2, <2>4, QuietStep DEF ApplyK2Lam1, TypeOK
<1>2. ASSUME NEW kind, NEW node \in AnfNode, Prepend(kind, node)
      PROVE  TypeOK'
  <2>1. /\ heap' \in Seq(AnfNode) /\ Len(heap') = Len(heap) + 1 /\ Len(heap) \in Nat
    BY <1>2, Push, LenProperties DEF Prepend, TypeOK
  <2>2. AnfNode \subseteq AnfNode'
    BY <1>2, <2>1, Grows DEF Prepend
  <2>3. heap' \in Seq(AnfNode') /\ k2Exp' \in Pointer'
    BY <1>2, <2>1, <2>2, SeqMonotonic DEF Prepend, Pointer, Made
  <2>4. Front(k2) \in Seq(K2Frame)
    BY <1>2, Tops DEF Prepend, K2Top
  <2>. QED  BY <1>2, <2>1, <2>3, <2>4, MakingStep DEF Prepend, TypeOK
<1>3. CASE ApplyK2Lam2
  <2>1. FunExp(Last(k2).f, <<Last(k2).v>>, Last(k2).body, k2Exp) \in AnfNode
    BY <1>3, Tops, K2FrameFields, NodeTypes, ValueTypes
       DEF ApplyK2Lam2, Prepend, K2Top, TypeOK, Bop
  <2>. QED  BY <1>2, <1>3, <2>1 DEF ApplyK2Lam2
<1>4. CASE ApplyK2App1
  <2>1. AppExp(Last(k2).r, Last(k2).f, <<Last(k2).x>>, k2Exp) \in AnfNode
    BY <1>4, Tops, K2FrameFields, NodeTypes, ValueTypes
       DEF ApplyK2App1, Prepend, K2Top, TypeOK, Bop
  <2>. QED  BY <1>2, <1>4, <2>1 DEF ApplyK2App1
<1>5. CASE ApplyK2Bop1
  <2>1. BopExp(Last(k2).r, Last(k2).bop, Last(k2).x, Last(k2).y, k2Exp) \in AnfNode
    BY <1>5, Tops, K2FrameFields, NodeTypes, ValueTypes
       DEF ApplyK2Bop1, Prepend, K2Top, TypeOK
  <2>. QED  BY <1>2, <1>5, <2>1 DEF ApplyK2Bop1
<1>6. ASSUME NEW kind, NEW exp \in Exps(prog), NEW frame \in K2Frame, frame.j \in Ident,
             Branch(kind, exp, frame)
      PROVE  TypeOK'
  <2>1. Append(Front(k2), frame) \in Seq(K2Frame) /\ Null \in Pointer
    BY <1>6, Tops, Push DEF Branch, K2Top, Pointer
  <2>2. KIf2(frame.j) \in KFrame
    BY <1>6, KFrameTypes
  <2>3. <<KIf2(frame.j)>> \in Seq(KFrame)
    BY <2>2
  <2>. QED  BY <1>6, <2>1, <2>3, QuietStep DEF Branch, TypeOK
<1>7. CASE ApplyK2If1
  <2>1. LET f == Last(k2) IN /\ f.t \in Exps(prog) /\ f.j \in Ident
                             /\ K2If2(f.f, f.j, f.p, f.c, k2Exp) \in K2Frame
                             /\ K2If2(f.f, f.j, f.p, f.c, k2Exp).j = f.j
    BY <1>7, Tops, K2FrameFields, K2FrameTypes DEF ApplyK2If1, Branch, K2Top, TypeOK, K2If2
  <2>. QED  BY <1>6, <1>7, <2>1 DEF ApplyK2If1
<1>8. CASE ApplyK2If2
  <2>1. LET f == Last(k2) IN /\ f.f \in Exps(prog) /\ f.j \in Ident
                             /\ K2If3(k2Exp, f.j, f.p, f.c, f.rest) \in K2Frame
                             /\ K2If3(k2Exp, f.j, f.p, f.c, f.rest).j = f.j
    BY <1>8, Tops, K2FrameFields, K2FrameTypes DEF ApplyK2If2, Branch, K2Top, TypeOK, K2If3
  <2>. QED  BY <1>6, <1>8, <2>1 DEF ApplyK2If2
<1>9. CASE ApplyK2If3
  <2>. DEFINE f    == Last(k2)
              if   == IfExp(f.c, f.t, k2Exp)
              join == JoinExp(f.j, <<f.p>>, f.rest, Len(heap) + 1)
  <2>1. /\ f.t \in Pointer /\ f.rest \in Pointer /\ f.c \in AnyValue
        /\ f.j \in Ident /\ f.p \in Ident /\ Front(k2) \in Seq(K2Frame)
    BY <1>9, Tops, K2FrameFields DEF ApplyK2If3, K2Top
  <2>2. k2Exp \in Pointer /\ Null \in Pointer
    BY DEF TypeOK, Pointer
  <2>3. if \in AnfNode /\ JoinExp(f.j, <<f.p>>, f.rest, Null) \in AnfNode
    BY <2>1, <2>2, NodeTypes, NoNameType DEF Bop
  <2>4. Len(heap) \in Nat
    BY LenProperties DEF TypeOK
  <2>5. heap' = heap \o <<if, join>> /\ prog' = prog
    BY <1>9 DEF ApplyK2If3
  <2>6. Len(heap') = Len(heap) + 2
    BY <2>5, <2>4 DEF TypeOK
  <2>7. AnfNode \subseteq AnfNode' /\ Pointer \subseteq Pointer'
    BY <2>4, <2>5, <2>6, Grows
  <2>8. join \in AnfNode'
    <3>1. ASSUME NEW n \in AnfNode', NEW ks \in Seq(Pointer')
          PROVE  [tag |-> n.tag, name |-> n.name, params |-> n.params, bop |-> n.bop,
                  index |-> n.index, vals |-> n.vals, kids |-> ks] \in AnfNode'
      BY <3>1 DEF AnfNode
    <3>2. f.rest \in Pointer' /\ Len(heap) + 1 \in Pointer'
      BY <2>1, <2>4, <2>6, <2>7 DEF Pointer, Made
    <3>3. <<f.rest, Len(heap) + 1>> \in Seq(Pointer')
      BY <3>2
    <3>4. LET n == JoinExp(f.j, <<f.p>>, f.rest, Null)
          IN  join = [tag |-> n.tag, name |-> n.name, params |-> n.params, bop |-> n.bop,
                      index |-> n.index, vals |-> n.vals,
                      kids |-> <<f.rest, Len(heap) + 1>>]
      BY DEF JoinExp, Node
    <3>. QED  BY <2>3, <2>7, <3>1, <3>3, <3>4
  <2>9. heap' \in Seq(AnfNode')
    <3>1. heap \in Seq(AnfNode')
      BY <2>7, SeqMonotonic DEF TypeOK
    <3>2. <<if, join>> \in Seq(AnfNode')
      <4>1. if \in AnfNode'
        BY <2>3, <2>7
      <4>. HIDE DEF if, join
      <4>. QED  BY <2>8, <4>1
    <3>. HIDE DEF if, join
    <3>. QED  BY <2>5, <3>1, <3>2, ConcatProperties
  <2>10. k2Exp' \in Pointer'
    BY <1>9, <2>4, <2>6 DEF ApplyK2If3, Pointer, Made
  <2>. QED  BY <1>9, <2>1, <2>4, <2>6, <2>9, <2>10, MakingStep DEF ApplyK2If3, TypeOK
<1>10. CASE Return
  BY <1>10, QuietStep DEF Return, TypeOK
<1>. QED  BY <1>1, <1>3, <1>4, <1>5, <1>7, <1>8, <1>9, <1>10 DEF ApplyK2

LEMMA TypeStep ==
  ASSUME TypeOK, [Next]_vars
  PROVE  TypeOK'
<1>1. CASE Terminated \/ UNCHANGED vars
  BY <1>1, QuietStep DEF Terminated, vars, TypeOK
<1>. QED  BY <1>1, GoType, ApplyKType, ApplyK2Type DEF Next

\* Whatever the program, the registers and the frames of the loop hold what
\* the variants of anf.cpp say they hold, and every pointer is null or points
\* to a node that has been made.
THEOREM TypeCorrect == Spec => []TypeOK
<1>1. Init => TypeOK
  <2>. SUFFICES ASSUME Init PROVE TypeOK
    OBVIOUS
  <2>1. IsAst(prog) /\ Root \in Exps(prog)
    BY ProgramsAssumption, RootFacts DEF Init
  <2>2. /\ heap \in Seq(AnfNode) /\ k \in Seq(KFrame) /\ k2 \in Seq(K2Frame)
    BY EmptySeq DEF Init
  <2>3. value \in AnyValue
    BY ValueTypes DEF Init
  <2>. QED  BY <2>1, <2>2, <2>3, CountersAssumption DEF Init, TypeOK, Pointer
<1>. QED  BY <1>1, TypeStep, PTL DEF Spec

-----------------------------------------------------------------------------
(***************************************************************************)
(* No moved-from value is read                                             *)
(***************************************************************************)

CleanFrame(f) ==
    /\ f.kind = "Lam1" => NoMoved(f.k)
    /\ Moved \notin K2Values(f)

CleanFrames(w) == \A i \in 1..Len(w) : CleanFrame(w[i])

CleanNode(n) == \A i \in 1..Len(n.vals) : n.vals[i] # Moved

CleanNodes(h) == \A a \in 1..Len(h) : CleanNode(h[a])

LEMMA CleanIs ==
  ReadsNothingMoved <=>
    /\ dispatch = "APPLY_K" => value # Moved
    /\ dispatch = "APPLY_K2" <=> k2Exp # Null
    /\ NoMoved(k)
    /\ CleanFrames(k2)
    /\ CleanNodes(heap)
BY DEF ReadsNothingMoved, CleanFrames, CleanFrame, CleanNodes, CleanNode, Made

\* What is in a frame or a node that is being made.
LEMMA CleanK ==
  ASSUME NEW v, v # Moved
  PROVE  /\ \A x : Moved \notin KValues(KApp1(x))
         /\ Moved \notin KValues(KApp2(v))
         /\ \A y, b : Moved \notin KValues(KBop1(y, b))
         /\ \A b : Moved \notin KValues(KBop2(v, b))
         /\ \A t, f : Moved \notin KValues(KIf1(t, f))
         /\ \A j : Moved \notin KValues(KIf2(j))
BY DEF KValues, KApp1, KApp2, KBop1, KBop2, KIf1, KIf2

LEMMA CleanK2 ==
  ASSUME NEW v, v # Moved, NEW w, w # Moved
  PROVE  /\ \A ks, x : NoMoved(ks) => CleanFrame(K2Lam1(ks, x))
         /\ \A f, x, b : CleanFrame(K2Lam2(f, x, b))
         /\ \A r, f : CleanFrame(K2App1(r, f, v))
         /\ \A r, b : CleanFrame(K2Bop1(r, b, v, w))
         /\ \A t, f, j, p : CleanFrame(K2If1(t, f, j, p, v))
         /\ \A f, j, p, rest : CleanFrame(K2If2(f, j, p, v, rest))
         /\ \A t, j, p, rest : CleanFrame(K2If3(t, j, p, v, rest))
BY DEF CleanFrame, K2Values, K2Lam1, K2Lam2, K2App1, K2Bop1, K2If1, K2If2, K2If3

LEMMA CleanN ==
  ASSUME NEW v, v # Moved, NEW w, w # Moved, NEW x, NEW y \in Ident, NEW p, NEW q, NEW b
  PROVE  /\ CleanNode(HaltExp(v))
         /\ CleanNode(JumpExp(x, <<v>>))
         /\ CleanNode(AppExp(x, y, <<v>>, p))
         /\ CleanNode(BopExp(x, b, v, w, p))
         /\ CleanNode(IfExp(v, p, q))
<1>1. VarValue(y) # Moved
  BY ValueTypes
<1>2. CleanNode(HaltExp(v)) /\ CleanNode(JumpExp(x, <<v>>)) /\ CleanNode(IfExp(v, p, q))
  BY DEF CleanNode, Node, HaltExp, JumpExp, IfExp
<1>3. CleanNode(AppExp(x, y, <<v>>, p))
  BY <1>1 DEF CleanNode, Node, AppExp
<1>4. CleanNode(BopExp(x, b, v, w, p))
  BY DEF CleanNode, Node, BopExp
<1>. QED  BY <1>2, <1>3, <1>4

\* Stacks and the heap as they grow and shrink.
LEMMA CleanGrows ==
  /\ \A ks \in Seq(KFrame), f \in KFrame :
        NoMoved(ks) /\ Moved \notin KValues(f) => NoMoved(Append(ks, f))
  /\ \A w \in Seq(K2Frame), f \in K2Frame :
        CleanFrames(w) /\ CleanFrame(f) => CleanFrames(Append(w, f))
BY AppendProperties DEF NoMoved, CleanFrames

LEMMA CleanTops ==
  ASSUME TypeOK, ReadsNothingMoved
  PROVE  /\ k # <<>> => NoMoved(Front(k)) /\ Moved \notin KValues(Last(k))
         /\ k2 # <<>> => CleanFrames(Front(k2)) /\ CleanFrame(Last(k2))
BY Tops, CleanIs DEF NoMoved, CleanFrames

LEMMA CleanAppend ==
  ASSUME TypeOK, ReadsNothingMoved, NEW n, CleanNode(n)
  PROVE  CleanNodes(Append(heap, n))
<1>1. heap \in Seq(AnfNode \cup {n}) /\ n \in AnfNode \cup {n}
  BY SeqMonotonic DEF TypeOK
<1>. QED  BY <1>1, CleanIs, Push, LenProperties DEF CleanNodes

LEMMA GoClean ==
  ASSUME TypeOK, ReadsNothingMoved, Go
  PROVE  ReadsNothingMoved'
<1>1. ASSUME NEW tag, NEW v, v # Moved, GoValue(tag, v)
      PROVE  ReadsNothingMoved'
  BY <1>1, CleanIs DEF GoValue, Gos, Runs, ReadsNothingMoved, Made
<1>2. CASE GoInt
  BY <1>1, <1>2, NodeFields, ValueTypes DEF GoInt, GoValue, Gos, Runs
<1>3. CASE GoVar
  BY <1>1, <1>3, NodeFields, ValueTypes DEF GoVar, GoValue, Gos, Runs
<1>4. ASSUME NEW tag, NEW frame \in KFrame, Moved \notin KValues(frame), GoOperand(tag, frame)
      PROVE  ReadsNothingMoved'
  <2>1. NoMoved(Append(k, frame))
    BY <1>4, CleanGrows, CleanIs DEF TypeOK
  <2>. QED  BY <1>4, <2>1 DEF GoOperand, Gos, Runs, ReadsNothingMoved, Made
<1>5. PICK v : v # Moved
  BY ValueTypes
<1>6. CASE GoApp
  <2>1. KApp1(prog.kids[goExp][2]) \in KFrame
    BY <1>6, NodeFields, KFrameTypes DEF GoApp, GoOperand, Gos, Runs, Arity
  <2>. QED  BY <1>4, <1>5, <1>6, <2>1, CleanK DEF GoApp
<1>7. CASE GoBop
  <2>1. KBop1(prog.kids[goExp][2], prog.data[goExp]) \in KFrame
    BY <1>7, NodeFields, KFrameTypes DEF GoBop, GoOperand, Gos, Runs, Arity
  <2>. QED  BY <1>4, <1>5, <1>7, <2>1, CleanK DEF GoBop
<1>8. CASE GoIf
  <2>1. KIf1(prog.kids[goExp][2], prog.kids[goExp][3]) \in KFrame
    BY <1>8, NodeFields, KFrameTypes DEF GoIf, GoOperand, Gos, Runs, Arity
  <2>. QED  BY <1>4, <1>5, <1>8, <2>1, CleanK DEF GoIf
<1>9. CASE GoLam
  <2>1. K2Lam1(k, prog.name[goExp]) \in K2Frame
    BY <1>9, NodeFields, K2FrameTypes DEF GoLam, Gos, Runs, TypeOK
  <2>2. CleanFrame(K2Lam1(k, prog.name[goExp]))
    BY <1>5, CleanK2, CleanIs
  <2>3. CleanFrames(k2')
    BY <1>9, <2>1, <2>2, CleanGrows, CleanIs DEF GoLam, TypeOK
  <2>4. NoMoved(k')
    BY <1>9 DEF GoLam, NoMoved
  <2>. QED  BY <1>9, <2>3, <2>4
            DEF GoLam, Gos, Runs, ReadsNothingMoved, CleanFrames, CleanFrame, Made
<1>. QED  BY <1>2, <1>3, <1>6, <1>7, <1>8, <1>9 DEF Go

LEMMA ApplyKClean ==
  ASSUME TypeOK, ReadsNothingMoved, ApplyK
  PROVE  ReadsNothingMoved'
<1>1. value # Moved
  BY DEF ApplyK, ApplyHalt, ApplyKIf2, ApplyKApp1, ApplyKBop1, NextOperand, ApplyKApp2,
         ApplyInt, ApplyKBop2, ApplyKIf1, KTop, Runs, ReadsNothingMoved
<1>2. ASSUME NEW node, CleanNode(node), EndTerm(node), NoMoved(k'), k2' = k2
      PROVE  ReadsNothingMoved'
  <2>1. CleanNodes(heap')
    BY <1>2, CleanAppend DEF EndTerm
  <2>2. k2Exp' # Null
    BY <1>2, LenProperties DEF EndTerm, TypeOK, Null
  <2>. QED  BY <1>2, <2>1, <2>2
            DEF EndTerm, ReadsNothingMoved, CleanNodes, CleanNode, Made
<1>3. CASE ApplyHalt
  <2>1. CleanNode(HaltExp(value))
    BY <1>1, CleanN, NoNameType
  <2>. QED  BY <1>2, <1>3, <2>1, CleanIs DEF ApplyHalt
<1>4. CASE ApplyKIf2
  <2>1. CleanNode(JumpExp(Last(k).j, <<value>>))
    BY <1>1, CleanN, NoNameType
  <2>. QED  BY <1>2, <1>4, <2>1, CleanTops DEF ApplyKIf2, KTop
<1>5. ASSUME NEW kind, NEW next, NEW frame \in KFrame, Moved \notin KValues(frame),
             NextOperand(kind, next, frame)
      PROVE  ReadsNothingMoved'
  <2>1. NoMoved(Append(Front(k), frame))
    BY <1>5, Tops, CleanTops, CleanGrows DEF NextOperand, KTop
  <2>. QED  BY <1>5, <2>1 DEF NextOperand, KTop, Runs, ReadsNothingMoved, Made
<1>6. CASE ApplyKApp1
  <2>1. KApp2(value) \in KFrame
    BY KFrameTypes DEF TypeOK
  <2>. QED  BY <1>1, <1>5, <1>6, <2>1, CleanK DEF ApplyKApp1
<1>7. CASE ApplyKBop1
  <2>1. KBop2(value, Last(k).bop) \in KFrame
    BY <1>7, Tops, KFrameFields, KFrameTypes DEF ApplyKBop1, NextOperand, KTop, TypeOK
  <2>. QED  BY <1>1, <1>5, <1>7, <2>1, CleanK DEF ApplyKBop1
<1>8. ASSUME NEW frame \in K2Frame, CleanFrame(frame), NEW names \in {1, 2}, k # <<>>,
             Runs("APPLY_K"), Bind(frame, names)
      PROVE  ReadsNothingMoved'
  <2>1. counter + names - 1 \in Nat
    BY DEF TypeOK
  <2>2. VarValue(Tmp(counter + names - 1)) # Moved
    BY <2>1, TmpType, ValueTypes
  <2>3. CleanFrames(Append(k2, frame)) /\ NoMoved(Front(k))
    BY <1>8, CleanTops, CleanGrows, CleanIs DEF TypeOK
  <2>. QED  BY <1>8, <2>2, <2>3
            DEF Bind, Runs, ReadsNothingMoved, CleanFrames, CleanFrame, Made
<1>9. counter \in Nat /\ Tmp(counter) \in Ident /\ Tmp(counter + 1) \in Ident
  BY TmpType DEF TypeOK
<1>10. CASE ApplyKApp2
  <2>1. K2App1(Tmp(counter), Last(k).f.var, value) \in K2Frame
    BY <1>9, <1>10, Tops, KFrameFields, K2FrameTypes, ValueTypes DEF ApplyKApp2, KTop, TypeOK
  <2>2. CleanFrame(K2App1(Tmp(counter), Last(k).f.var, value))
    BY <1>1, CleanK2
  <2>. QED  BY <1>8, <1>10, <2>1, <2>2 DEF ApplyKApp2, KTop
<1>11. CASE ApplyKBop2
  <2>1. K2Bop1(Tmp(counter), Last(k).bop, Last(k).x, value) \in K2Frame
    BY <1>9, <1>11, Tops, KFrameFields, K2FrameTypes DEF ApplyKBop2, KTop, TypeOK
  <2>2. Last(k).x # Moved
    BY <1>11, CleanTops DEF ApplyKBop2, KTop, KValues
  <2>3. CleanFrame(K2Bop1(Tmp(counter), Last(k).bop, Last(k).x, value))
    BY <1>1, <2>2, CleanK2
  <2>. QED  BY <1>8, <1>11, <2>1, <2>3 DEF ApplyKBop2, KTop
<1>12. CASE ApplyKIf1
  <2>1. K2If1(Last(k).t, Last(k).f, Tmp(counter), Tmp(counter + 1), value) \in K2Frame
    BY <1>9, <1>12, Tops, KFrameFields, K2FrameTypes DEF ApplyKIf1, KTop, TypeOK
  <2>2. CleanFrame(K2If1(Last(k).t, Last(k).f, Tmp(counter), Tmp(counter + 1), value))
    BY <1>1, CleanK2
  <2>. QED  BY <1>8, <1>12, <2>1, <2>2 DEF ApplyKIf1, KTop
<1>13. CASE ApplyInt
  BY <1>13 DEF ApplyInt, ReadsNothingMoved, Made
<1>. QED  BY <1>3, <1>4, <1>6, <1>7, <1>10, <1>11, <1>12, <1>13 DEF ApplyK

LEMMA ApplyK2Clean ==
  ASSUME TypeOK, ReadsNothingMoved, ApplyK2
  PROVE  ReadsNothingMoved'
<1>1. PICK v : v # Moved
  BY ValueTypes
<1>2. CASE ApplyK2Lam1
  <2>1. /\ Last(k2) \in K2Frame /\ Last(k2).k \in Seq(KFrame) /\ Last(k2).v \in Ident
        /\ Front(k2) \in Seq(K2Frame)
    BY <1>2, Tops, K2FrameFields DEF ApplyK2Lam1, K2Top
  <2>2. CleanFrames(Front(k2)) /\ NoMoved(Last(k2).k)
    BY <1>2, CleanTops DEF ApplyK2Lam1, K2Top, CleanFrame
  <2>3. Tmp(counter) \in Ident /\ VarValue(Tmp(counter)) # Moved
    BY TmpType, ValueTypes DEF TypeOK
  <2>4. K2Lam2(Tmp(counter), Last(k2).v, k2Exp) \in K2Frame
    BY <2>1, <2>3, K2FrameTypes DEF TypeOK
  <2>5. CleanFrame(K2Lam2(Tmp(counter), Last(k2).v, k2Exp))
    BY <1>1, CleanK2
  <2>6. CleanFrames(k2')
    BY <1>2, <2>1, <2>2, <2>4, <2>5, CleanGrows DEF ApplyK2Lam1
  <2>. QED  BY <1>2, <2>2, <2>3, <2>6
            DEF ApplyK2Lam1, ReadsNothingMoved, CleanFrames, CleanFrame, Made
<1>3. ASSUME NEW kind, NEW node, CleanNode(node), Prepend(kind, node)
      PROVE  ReadsNothingMoved'
  <2>1. CleanNodes(heap')
    BY <1>3, CleanAppend DEF Prepend
  <2>2. k2Exp' # Null
    BY <1>3, LenProperties DEF Prepend, TypeOK, Null
  <2>3. CleanFrames(k2')
    BY <1>3, CleanTops DEF Prepend, K2Top
  <2>. QED  BY <1>3, <2>1, <2>2, <2>3
            DEF Prepend, K2Top, Runs, ReadsNothingMoved, CleanFrames, CleanFrame,
                CleanNodes, CleanNode, Made
<1>4. CASE ApplyK2Lam2
  <2>1. CleanNode(FunExp(Last(k2).f, <<Last(k2).v>>, Last(k2).body, k2Exp))
    BY DEF CleanNode, Node, FunExp
  <2>. QED  BY <1>3, <1>4, <2>1 DEF ApplyK2Lam2
<1>5. CASE ApplyK2App1
  <2>1. Last(k2).f \in Ident /\ Last(k2).x # Moved
    BY <1>5, Tops, K2FrameFields, CleanTops
       DEF ApplyK2App1, Prepend, K2Top, CleanFrame, K2Values
  <2>2. CleanNode(AppExp(Last(k2).r, Last(k2).f, <<Last(k2).x>>, k2Exp))
    BY <2>1, CleanN
  <2>. QED  BY <1>3, <1>5, <2>2 DEF ApplyK2App1
<1>6. CASE ApplyK2Bop1
  <2>1. Last(k2).x # Moved /\ Last(k2).y # Moved
    BY <1>6, CleanTops DEF ApplyK2Bop1, Prepend, K2Top, CleanFrame, K2Values
  <2>2. CleanNode(BopExp(Last(k2).r, Last(k2).bop, Last(k2).x, Last(k2).y, k2Exp))
    BY <2>1, CleanN, NoNameType
  <2>. QED  BY <1>3, <1>6, <2>2 DEF ApplyK2Bop1
<1>7. ASSUME NEW kind, NEW exp, NEW frame \in K2Frame, CleanFrame(frame),
             Branch(kind, exp, frame)
      PROVE  ReadsNothingMoved'
  <2>1. CleanFrames(k2')
    BY <1>7, Tops, CleanTops, CleanGrows DEF Branch, K2Top
  <2>2. Moved \notin KValues(KIf2(frame.j))
    BY <1>1, CleanK
  <2>3. NoMoved(k')
    BY <1>7, <2>2 DEF Branch, NoMoved
  <2>. QED  BY <1>7, <2>1, <2>3
            DEF Branch, ReadsNothingMoved, CleanFrames, CleanFrame, Made
<1>8. CASE ApplyK2If1
  <2>. DEFINE f == Last(k2)
  <2>1. K2If2(f.f, f.j, f.p, f.c, k2Exp) \in K2Frame
    BY <1>8, Tops, K2FrameFields, K2FrameTypes DEF ApplyK2If1, Branch, K2Top, TypeOK
  <2>2. f.c # Moved
    BY <1>8, CleanTops DEF ApplyK2If1, Branch, K2Top, CleanFrame, K2Values
  <2>3. CleanFrame(K2If2(f.f, f.j, f.p, f.c, k2Exp))
    BY <2>2, CleanK2
  <2>. QED  BY <1>7, <1>8, <2>1, <2>3 DEF ApplyK2If1
<1>9. CASE ApplyK2If2
  <2>. DEFINE f == Last(k2)
  <2>1. K2If3(k2Exp, f.j, f.p, f.c, f.rest) \in K2Frame
    BY <1>9, Tops, K2FrameFields, K2FrameTypes DEF ApplyK2If2, Branch, K2Top, TypeOK
  <2>2. f.c # Moved
    BY <1>9, CleanTops DEF ApplyK2If2, Branch, K2Top, CleanFrame, K2Values
  <2>3. CleanFrame(K2If3(k2Exp, f.j, f.p, f.c, f.rest))
    BY <2>2, CleanK2
  <2>. QED  BY <1>7, <1>9, <2>1, <2>3 DEF ApplyK2If2
<1>10. CASE ApplyK2If3
  <2>. DEFINE f    == Last(k2)
              if   == IfExp(f.c, f.t, k2Exp)
              join == JoinExp(f.j, <<f.p>>, f.rest, Len(heap) + 1)
  <2>1. f.c # Moved
    BY <1>10, CleanTops DEF ApplyK2If3, K2Top, CleanFrame, K2Values
  <2>2. CleanNode(if) /\ CleanNode(join)
    BY <2>1 DEF CleanNode, Node, IfExp, JoinExp
  <2>3. heap' = heap \o <<if, join>> /\ k2Exp' = Len(heap) + 2
    BY <1>10 DEF ApplyK2If3
  <2>4. CleanNodes(heap) /\ Len(heap) \in Nat
    BY CleanIs, LenProperties DEF TypeOK
  <2>5. CleanNodes(heap')
    <3>. HIDE DEF if, join
    <3>. DEFINE S == AnfNode \cup {if, join}
    <3>1. heap \in Seq(S)
      BY SeqMonotonic DEF TypeOK
    <3>2. <<if, join>> \in Seq(S)
      OBVIOUS
    <3>3. \A a \in 1..Len(heap') :
             heap'[a] = IF a <= Len(heap) THEN heap[a] ELSE <<if, join>>[a - Len(heap)]
      <4>. HIDE DEF S
      <4>. QED  BY <2>3, <3>1, <3>2, ConcatProperties
    <3>4. Len(heap') = Len(heap) + 2
      <4>. HIDE DEF S
      <4>. QED  BY <2>3, <3>1, <3>2, ConcatProperties
    <3>. QED  BY <2>2, <2>4, <3>3, <3>4 DEF CleanNodes
  <2>6. CleanFrames(k2') /\ k2Exp' # Null
    BY <1>10, <2>3, <2>4, CleanTops DEF ApplyK2If3, K2Top, Null
  <2>. QED  BY <1>10, <2>5, <2>6
            DEF ApplyK2If3, K2Top, Runs, ReadsNothingMoved, CleanFrames, CleanFrame,
                CleanNodes, CleanNode, Made
<1>11. CASE Return
  BY <1>11 DEF Return, ReadsNothingMoved, Made
<1>. QED  BY <1>2, <1>4, <1>5, <1>6, <1>8, <1>9, <1>10, <1>11 DEF ApplyK2

\* The order of the assignments is right: apply_k never reads a value that was
\* moved from, apply_k2 always has a term, no assignment to k2_exp destroys one,
\* and no moved-from value gets into a frame or into the term.
THEOREM NothingMovedIsRead == Spec => []ReadsNothingMoved
<1>1. Init => ReadsNothingMoved
  BY ValueTypes DEF Init, ReadsNothingMoved, NoMoved, Made, Null
<1>2. ASSUME TypeOK, ReadsNothingMoved, [Next]_vars
      PROVE  ReadsNothingMoved'
  <2>1. CASE Terminated \/ UNCHANGED vars
    BY <1>2, <2>1 DEF Terminated, vars, ReadsNothingMoved, Made
  <2>. QED  BY <1>2, <2>1, GoClean, ApplyKClean, ApplyK2Clean DEF Next
<1>. QED  BY <1>1, <1>2, TypeCorrect, PTL DEF Spec

-----------------------------------------------------------------------------
(***************************************************************************)
(* Every branch jumps to its own join point                                *)
(***************************************************************************)

\* The continuations that are set aside end as what is below them demands.
LamsEndWell(w) ==
    \A i \in 1..Len(w) : w[i].kind = "Lam1" => EndsWell(w[i].k, w, i - 1)

\* How a continuation must end depends on the frames below it only ...
LEMMA EndsLocal ==
  ASSUME NEW w, NEW u, NEW n \in Nat, \A i \in 1..n : u[i] = w[i]
  PROVE  \A ks : EndsWell(ks, w, n) => EndsWell(ks, u, n)
<1>1. Delimiters(u, n) = Delimiters(w, n)
  BY DEF Delimiters
<1>2. \A m \in Delimiters(w, n) : u[m] = w[m]
  BY DEF Delimiters
<1>. QED  BY <1>1, <1>2 DEF EndsWell

\* ... and of those on the innermost delimiter.
LEMMA EndsSkip ==
  ASSUME NEW w, NEW n \in Nat, w[n + 1].kind \notin {"Lam1", "If2", "If3"}
  PROVE  \A ks : EndsWell(ks, w, n) => EndsWell(ks, w, n + 1)
<1>1. Delimiters(w, n + 1) = Delimiters(w, n)
  BY DEF Delimiters
<1>. QED  BY <1>1 DEF EndsWell

LEMMA EndsTop ==
  ASSUME NEW w, NEW n \in Nat \ {0}, NEW ks,
         \/ w[n].kind = "Lam1" /\ JumpsNowhere(ks)
         \/ w[n].kind \in {"If2", "If3"} /\ JumpsTo(ks, w[n].j)
  PROVE  EndsWell(ks, w, n)
<1>1. n \in Delimiters(w, n) /\ \A l \in Delimiters(w, n) : l <= n
  BY DEF Delimiters
<1>. QED  BY <1>1 DEF EndsWell

\* Pushing and popping frames that do not jump changes no end.
LEMMA EndsPush ==
  ASSUME NEW S, NEW ks \in Seq(S), NEW f \in S, f.kind # "If2", NEW w, NEW n,
         EndsWell(ks, w, n)
  PROVE  EndsWell(Append(ks, f), w, n)
<1>1. Len(ks) \in Nat
  BY LenProperties
<1>2. JumpsNowhere(ks) => JumpsNowhere(Append(ks, f))
  BY <1>1, Push DEF JumpsNowhere
<1>3. ASSUME NEW j, JumpsTo(ks, j) PROVE JumpsTo(Append(ks, f), j)
  <2>1. Len(ks) \in Nat \ {0}
    BY <1>3, EmptySeq DEF JumpsTo
  <2>. QED  BY <1>3, <2>1, Push DEF JumpsTo
<1>. QED  BY <1>2, <1>3 DEF EndsWell

LEMMA EndsPop ==
  ASSUME NEW S, NEW ks \in Seq(S), ks # <<>>, Last(ks).kind # "If2", NEW w, NEW n,
         EndsWell(ks, w, n)
  PROVE  EndsWell(Front(ks), w, n)
<1>1. /\ Len(ks) \in Nat \ {0} /\ Len(Front(ks)) = Len(ks) - 1 /\ Front(ks) \in Seq(S)
      /\ Last(ks) = ks[Len(ks)] /\ \A i \in 1..(Len(ks) - 1) : Front(ks)[i] = ks[i]
  BY Pop
<1>2. JumpsNowhere(ks) => JumpsNowhere(Front(ks))
  BY <1>1 DEF JumpsNowhere
<1>3. ASSUME NEW j, JumpsTo(ks, j) PROVE JumpsTo(Front(ks), j)
  <2>1. ks[1].kind = "If2"
    BY <1>3 DEF JumpsTo, KIf2
  <2>2. Len(ks) # 1
    BY <1>1, <2>1
  <2>3. Len(Front(ks)) \in Nat \ {0}
    BY <1>1, <2>2
  <2>4. Front(ks) # <<>>
    BY <2>3
  <2>. QED  BY <1>1, <1>3, <2>3, <2>4 DEF JumpsTo
<1>. QED  BY <1>2, <1>3 DEF EndsWell

\* A frame that jumps is alone on its stack.
LEMMA EndsJump ==
  ASSUME NEW S, NEW ks \in Seq(S), ks # <<>>, Last(ks).kind = "If2", NEW w, NEW n,
         EndsWell(ks, w, n)
  PROVE  Front(ks) = <<>>
<1>1. /\ Len(ks) \in Nat \ {0} /\ Len(Front(ks)) = Len(ks) - 1 /\ Front(ks) \in Seq(S)
      /\ Last(ks) = ks[Len(ks)]
  BY Pop
<1>2. ~JumpsNowhere(ks)
  BY <1>1 DEF JumpsNowhere
<1>3. PICK j : JumpsTo(ks, j)
  BY <1>2 DEF EndsWell
<1>4. Len(ks) = 1
  BY <1>1, <1>3 DEF JumpsTo
<1>. QED  BY <1>1, <1>4, EmptySeq

\* The frames of k2 as k2 grows and shrinks.
LEMMA LamsPush ==
  ASSUME NEW S, NEW w \in Seq(S), NEW f \in S, LamsEndWell(w),
         f.kind = "Lam1" => EndsWell(f.k, w, Len(w))
  PROVE  LamsEndWell(Append(w, f))
<1>1. /\ Len(w) \in Nat /\ Len(Append(w, f)) = Len(w) + 1 /\ Append(w, f)[Len(w) + 1] = f
      /\ \A i \in 1..Len(w) : Append(w, f)[i] = w[i]
  BY Push, LenProperties
<1>2. ASSUME NEW i \in 1..Len(w), w[i].kind = "Lam1"
      PROVE  EndsWell(w[i].k, Append(w, f), i - 1)
  <2>1. EndsWell(w[i].k, w, i - 1)
    BY <1>2 DEF LamsEndWell
  <2>2. i - 1 \in Nat /\ \A m \in 1..(i - 1) : Append(w, f)[m] = w[m]
    BY <1>1
  <2>. QED  BY <2>1, <2>2, EndsLocal
<1>3. f.kind = "Lam1" => EndsWell(f.k, Append(w, f), Len(w))
  BY <1>1, EndsLocal
<1>4. ASSUME NEW i \in 1..(Len(w) + 1), Append(w, f)[i].kind = "Lam1"
      PROVE  EndsWell(Append(w, f)[i].k, Append(w, f), i - 1)
  <2>1. CASE i \in 1..Len(w)
    BY <1>1, <1>2, <1>4, <2>1
  <2>2. CASE i = Len(w) + 1
    BY <1>1, <1>3, <1>4, <2>2
  <2>. QED  BY <1>1, <2>1, <2>2
<1>. QED  BY <1>1, <1>4 DEF LamsEndWell

LEMMA LamsPop ==
  ASSUME NEW S, NEW w \in Seq(S), w # <<>>, LamsEndWell(w)
  PROVE  LamsEndWell(Front(w))
<1>1. /\ Len(w) \in Nat \ {0} /\ Len(Front(w)) = Len(w) - 1
      /\ \A i \in 1..(Len(w) - 1) : Front(w)[i] = w[i]
  BY Pop
<1>2. ASSUME NEW i \in 1..(Len(w) - 1), w[i].kind = "Lam1"
      PROVE  EndsWell(w[i].k, Front(w), i - 1)
  <2>1. EndsWell(w[i].k, w, i - 1)
    BY <1>1, <1>2 DEF LamsEndWell
  <2>2. i - 1 \in Nat /\ \A m \in 1..(i - 1) : Front(w)[m] = w[m]
    BY <1>1
  <2>. QED  BY <2>1, <2>2, EndsLocal
<1>. QED  BY <1>1, <1>2 DEF LamsEndWell

LEMMA JumpIs ==
  JumpDiscipline <=>
    /\ dispatch = "APPLY_K2" => k = <<>>
    /\ dispatch # "APPLY_K2" => EndsWell(k, k2, Len(k2))
    /\ LamsEndWell(k2)
BY DEF JumpDiscipline, LamsEndWell

\* The same for the next state: a step is followed from here on.
LEMMA JumpIsNext ==
  JumpDiscipline' <=>
    /\ dispatch' = "APPLY_K2" => k' = <<>>
    /\ dispatch' # "APPLY_K2" => EndsWell(k', k2', Len(k2'))
    /\ LamsEndWell(k2')
BY DEF JumpDiscipline, LamsEndWell, EndsWell, Delimiters, JumpsNowhere, JumpsTo

LEMMA GoJumps ==
  ASSUME TypeOK, JumpDiscipline, Go
  PROVE  JumpDiscipline'
<1>1. EndsWell(k, k2, Len(k2)) /\ LamsEndWell(k2)
  BY JumpIs DEF Go, GoInt, GoVar, GoValue, GoLam, GoApp, GoBop, GoIf, GoOperand, Gos, Runs
<1>2. CASE GoInt \/ GoVar
  BY <1>1, <1>2, JumpIsNext DEF GoInt, GoVar, GoValue
<1>3. ASSUME NEW tag, NEW frame \in KFrame, frame.kind # "If2", GoOperand(tag, frame)
      PROVE  JumpDiscipline'
  <2>1. EndsWell(Append(k, frame), k2, Len(k2))
    BY <1>1, <1>3, EndsPush DEF TypeOK
  <2>. QED  BY <1>1, <1>3, <2>1, JumpIsNext DEF GoOperand, Gos, Runs
<1>4. CASE GoApp
  <2>1. KApp1(prog.kids[goExp][2]) \in KFrame
    BY <1>4, NodeFields, KFrameTypes DEF GoApp, GoOperand, Gos, Runs, Arity
  <2>2. KApp1(prog.kids[goExp][2]).kind # "If2"
    BY DEF KApp1
  <2>. QED  BY <1>3, <1>4, <2>1, <2>2 DEF GoApp
<1>5. CASE GoBop
  <2>1. KBop1(prog.kids[goExp][2], prog.data[goExp]) \in KFrame
    BY <1>5, NodeFields, KFrameTypes DEF GoBop, GoOperand, Gos, Runs, Arity
  <2>2. KBop1(prog.kids[goExp][2], prog.data[goExp]).kind # "If2"
    BY DEF KBop1
  <2>. QED  BY <1>3, <1>5, <2>1, <2>2 DEF GoBop
<1>6. CASE GoIf
  <2>1. KIf1(prog.kids[goExp][2], prog.kids[goExp][3]) \in KFrame
    BY <1>6, NodeFields, KFrameTypes DEF GoIf, GoOperand, Gos, Runs, Arity
  <2>2. KIf1(prog.kids[goExp][2], prog.kids[goExp][3]).kind # "If2"
    BY DEF KIf1
  <2>. QED  BY <1>3, <1>6, <2>1, <2>2 DEF GoIf
<1>7. CASE GoLam
  <2>. DEFINE frame == K2Lam1(k, prog.name[goExp])
  <2>1. frame \in K2Frame
    BY <1>7, NodeFields, K2FrameTypes DEF GoLam, Gos, Runs, TypeOK
  <2>2. frame.kind = "Lam1" /\ frame.k = k
    BY DEF K2Lam1
  <2>3. k2' = Append(k2, frame) /\ k' = <<>> /\ dispatch' = dispatch /\ dispatch = "GO"
    BY <1>7 DEF GoLam, Gos, Runs
  <2>. HIDE DEF frame
  <2>4. LamsEndWell(k2')
    BY <1>1, <2>1, <2>2, <2>3, LamsPush DEF TypeOK
  <2>5. Len(k2') \in Nat \ {0} /\ k2'[Len(k2')] = frame
    BY <2>1, <2>3, Push, LenProperties DEF TypeOK
  <2>6. JumpsNowhere(k')
    BY <2>3 DEF JumpsNowhere
  <2>7. EndsWell(k', k2', Len(k2'))
    BY <2>2, <2>5, <2>6, EndsTop
  <2>. QED  BY <2>3, <2>4, <2>7, JumpIsNext
<1>. QED  BY <1>2, <1>4, <1>5, <1>6, <1>7 DEF Go

LEMMA ApplyKJumps ==
  ASSUME TypeOK, JumpDiscipline, ApplyK
  PROVE  JumpDiscipline'
<1>1. EndsWell(k, k2, Len(k2)) /\ LamsEndWell(k2) /\ dispatch = "APPLY_K"
  BY JumpIs DEF ApplyK, ApplyHalt, ApplyKIf2, ApplyKApp1, ApplyKBop1, NextOperand,
                ApplyKApp2, ApplyInt, ApplyKBop2, ApplyKIf1, KTop, Runs
<1>2. CASE ApplyHalt
  BY <1>1, <1>2, JumpIsNext DEF ApplyHalt, EndTerm
<1>3. CASE ApplyKIf2
  <2>1. Front(k) = <<>>
    BY <1>1, <1>3, EndsJump DEF ApplyKIf2, KTop, TypeOK
  <2>. QED  BY <1>1, <1>3, <2>1, JumpIsNext DEF ApplyKIf2, EndTerm
<1>4. ASSUME NEW kind, kind # "If2", NEW next, NEW frame \in KFrame, frame.kind # "If2",
             NextOperand(kind, next, frame)
      PROVE  JumpDiscipline'
  <2>1. EndsWell(Front(k), k2, Len(k2)) /\ Front(k) \in Seq(KFrame)
    BY <1>1, <1>4, EndsPop, Tops DEF NextOperand, KTop, TypeOK
  <2>2. EndsWell(Append(Front(k), frame), k2, Len(k2))
    BY <1>4, <2>1, EndsPush
  <2>. QED  BY <1>1, <1>4, <2>2, JumpIsNext DEF NextOperand
<1>5. CASE ApplyKApp1
  <2>1. KApp2(value) \in KFrame /\ KApp2(value).kind # "If2"
    BY KFrameTypes DEF TypeOK, KApp2
  <2>. QED  BY <1>4, <1>5, <2>1 DEF ApplyKApp1
<1>6. CASE ApplyKBop1
  <2>1. KBop2(value, Last(k).bop) \in KFrame
    BY <1>6, Tops, KFrameFields, KFrameTypes DEF ApplyKBop1, NextOperand, KTop, TypeOK
  <2>2. KBop2(value, Last(k).bop).kind # "If2"
    BY DEF KBop2
  <2>. QED  BY <1>4, <1>6, <2>1, <2>2 DEF ApplyKBop1
<1>7. ASSUME NEW frame \in K2Frame, frame.kind \notin {"Lam1", "If2", "If3"}, NEW names,
             k # <<>>, Last(k).kind # "If2", Bind(frame, names)
      PROVE  JumpDiscipline'
  <2>1. EndsWell(Front(k), k2, Len(k2))
    BY <1>1, <1>7, EndsPop DEF TypeOK
  <2>2. k' = Front(k) /\ k2' = Append(k2, frame)
    BY <1>7 DEF Bind
  <2>3. /\ Len(k2) \in Nat /\ Len(k2') = Len(k2) + 1 /\ k2'[Len(k2) + 1] = frame
        /\ \A i \in 1..Len(k2) : k2'[i] = k2[i]
    BY <2>2, Push, LenProperties DEF TypeOK
  <2>4. EndsWell(k', k2', Len(k2))
    BY <2>1, <2>2, <2>3, EndsLocal
  <2>5. EndsWell(k', k2', Len(k2'))
    BY <1>7, <2>3, <2>4, EndsSkip
  <2>6. LamsEndWell(k2')
    BY <1>1, <1>7, <2>2, LamsPush DEF TypeOK
  <2>. QED  BY <1>1, <1>7, <2>5, <2>6, JumpIsNext DEF Bind
<1>8. counter \in Nat /\ Tmp(counter) \in Ident /\ Tmp(counter + 1) \in Ident
  BY TmpType DEF TypeOK
<1>9. CASE ApplyKApp2
  <2>. DEFINE frame == K2App1(Tmp(counter), Last(k).f.var, value)
  <2>1. frame \in K2Frame
    BY <1>8, <1>9, Tops, KFrameFields, K2FrameTypes, ValueTypes DEF ApplyKApp2, KTop, TypeOK
  <2>2. frame.kind \notin {"Lam1", "If2", "If3"}
    BY DEF K2App1
  <2>. QED  BY <1>7, <1>9, <2>1, <2>2 DEF ApplyKApp2, KTop
<1>10. CASE ApplyKBop2
  <2>. DEFINE frame == K2Bop1(Tmp(counter), Last(k).bop, Last(k).x, value)
  <2>1. frame \in K2Frame
    BY <1>8, <1>10, Tops, KFrameFields, K2FrameTypes DEF ApplyKBop2, KTop, TypeOK
  <2>2. frame.kind \notin {"Lam1", "If2", "If3"}
    BY DEF K2Bop1
  <2>. QED  BY <1>7, <1>10, <2>1, <2>2 DEF ApplyKBop2, KTop
<1>11. CASE ApplyKIf1
  <2>. DEFINE frame == K2If1(Last(k).t, Last(k).f, Tmp(counter), Tmp(counter + 1), value)
  <2>1. frame \in K2Frame
    BY <1>8, <1>11, Tops, KFrameFields, K2FrameTypes DEF ApplyKIf1, KTop, TypeOK
  <2>2. frame.kind \notin {"Lam1", "If2", "If3"}
    BY DEF K2If1
  <2>. QED  BY <1>7, <1>11, <2>1, <2>2 DEF ApplyKIf1, KTop
<1>12. CASE ApplyInt
  BY <1>1, <1>12, JumpIsNext DEF ApplyInt
<1>. QED  BY <1>2, <1>3, <1>5, <1>6, <1>9, <1>10, <1>11, <1>12 DEF ApplyK

LEMMA ApplyK2Jumps ==
  ASSUME TypeOK, JumpDiscipline, ApplyK2
  PROVE  JumpDiscipline'
<1>1. k = <<>> /\ LamsEndWell(k2) /\ dispatch = "APPLY_K2"
  BY JumpIs DEF ApplyK2, ApplyK2Lam1, ApplyK2Lam2, ApplyK2App1, ApplyK2Bop1, Prepend,
                ApplyK2If1, ApplyK2If2, Branch, ApplyK2If3, Return, K2Top, Runs
<1>2. k2 # <<>> => /\ LamsEndWell(Front(k2)) /\ Front(k2) \in Seq(K2Frame)
                   /\ Len(Front(k2)) \in Nat
  BY <1>1, LamsPop, Tops, LenProperties DEF TypeOK
<1>3. CASE ApplyK2Lam1
  <2>. DEFINE frame == K2Lam2(Tmp(counter), Last(k2).v, k2Exp)
  <2>1. /\ k2 # <<>> /\ k' = Last(k2).k /\ Last(k2).kind = "Lam1"
        /\ k2' = Append(Front(k2), frame) /\ dispatch' = "APPLY_K"
    BY <1>3 DEF ApplyK2Lam1, K2Top
  <2>2. frame \in K2Frame
    BY <2>1, Tops, K2FrameFields, K2FrameTypes, TmpType DEF TypeOK
  <2>3. frame.kind = "Lam2"
    BY DEF K2Lam2
  <2>. HIDE DEF frame
  <2>4. EndsWell(k', k2, Len(k2) - 1)
    BY <1>1, <2>1, Tops DEF LamsEndWell
  <2>5. /\ Len(k2) - 1 \in Nat /\ Len(k2') = Len(k2) /\ k2'[(Len(k2) - 1) + 1] = frame
        /\ \A i \in 1..(Len(k2) - 1) : k2'[i] = k2[i]
    BY <1>2, <2>1, <2>2, Tops, Push
  <2>6. EndsWell(k', k2', Len(k2) - 1)
    BY <2>4, <2>5, EndsLocal
  <2>7. EndsWell(k', k2', (Len(k2) - 1) + 1)
    BY <2>3, <2>5, <2>6, EndsSkip
  <2>8. LamsEndWell(k2')
    BY <1>2, <2>1, <2>2, <2>3, LamsPush
  <2>. QED  BY <2>1, <2>5, <2>7, <2>8, JumpIsNext
<1>4. CASE ApplyK2Lam2 \/ ApplyK2App1 \/ ApplyK2Bop1
  BY <1>1, <1>2, <1>4, JumpIsNext DEF ApplyK2Lam2, ApplyK2App1, ApplyK2Bop1, Prepend, K2Top
<1>5. ASSUME NEW kind, NEW exp, NEW frame \in K2Frame, frame.kind \in {"If2", "If3"},
             Branch(kind, exp, frame)
      PROVE  JumpDiscipline'
  <2>1. /\ k2 # <<>> /\ k' = <<KIf2(frame.j)>> /\ k2' = Append(Front(k2), frame)
        /\ dispatch' = "GO"
    BY <1>5 DEF Branch, K2Top
  <2>2. Len(k2') \in Nat \ {0} /\ k2'[Len(k2')] = frame
    BY <1>2, <2>1, Push
  <2>3. JumpsTo(k', frame.j)
    BY <2>1 DEF JumpsTo
  <2>4. EndsWell(k', k2', Len(k2'))
    BY <1>5, <2>2, <2>3, EndsTop
  <2>5. LamsEndWell(k2')
    BY <1>2, <1>5, <2>1, LamsPush
  <2>. QED  BY <2>1, <2>4, <2>5, JumpIsNext
<1>6. CASE ApplyK2If1
  <2>. DEFINE f == Last(k2)
              frame == K2If2(f.f, f.j, f.p, f.c, k2Exp)
  <2>1. frame \in K2Frame
    BY <1>6, Tops, K2FrameFields, K2FrameTypes DEF ApplyK2If1, Branch, K2Top, TypeOK
  <2>2. frame.kind = "If2"
    BY DEF K2If2
  <2>. QED  BY <1>5, <1>6, <2>1, <2>2 DEF ApplyK2If1
<1>7. CASE ApplyK2If2
  <2>. DEFINE f == Last(k2)
              frame == K2If3(k2Exp, f.j, f.p, f.c, f.rest)
  <2>1. frame \in K2Frame
    BY <1>7, Tops, K2FrameFields, K2FrameTypes DEF ApplyK2If2, Branch, K2Top, TypeOK
  <2>2. frame.kind = "If3"
    BY DEF K2If3
  <2>. QED  BY <1>5, <1>7, <2>1, <2>2 DEF ApplyK2If2
<1>8. CASE ApplyK2If3
  BY <1>1, <1>2, <1>8, JumpIsNext DEF ApplyK2If3, K2Top
<1>9. CASE Return
  BY <1>1, <1>9, JumpIsNext DEF Return
<1>. QED  BY <1>3, <1>4, <1>6, <1>7, <1>8, <1>9 DEF ApplyK2

\* Saving, clearing and restoring the continuation is right: at every moment the
\* branches of an if end by jumping to the join point of that very if, and the
\* program and the bodies of functions end without a jump.
THEOREM BranchesJumpHome == Spec => []JumpDiscipline
<1>1. Init => JumpDiscipline
  BY DEF Init, JumpDiscipline, EndsWell, Delimiters, JumpsNowhere
<1>2. ASSUME TypeOK, JumpDiscipline, [Next]_vars
      PROVE  JumpDiscipline'
  <2>1. CASE Terminated \/ UNCHANGED vars
    BY <1>2, <2>1, JumpIs, JumpIsNext DEF Terminated, vars
  <2>. QED  BY <1>2, <2>1, GoJumps, ApplyKJumps, ApplyK2Jumps DEF Next
<1>. QED  BY <1>1, <1>2, TypeCorrect, PTL DEF Spec


-----------------------------------------------------------------------------
(***************************************************************************)
(* Every node has one owner                                                *)
(***************************************************************************)

\* Owners and Owns for a heap h, a pointer e for k2_exp and a stack w for k2.
Exp2 == <<"k2_exp", 1, 1>>

PlacesOf(h, w) ==
    {Exp2}
       \cup {o \in {"k2"} \X (1..Len(w)) \X (1..2) : o[3] <= Len(Owned(w[o[2]]))}
       \cup {o \in {"node"} \X (1..Len(h)) \X (1..2) : o[3] <= Len(h[o[2]].kids)}

At(h, e, w, o) ==
    IF o[1] = "k2_exp" THEN e
    ELSE IF o[1] = "k2" THEN Owned(w[o[2]])[o[3]]
    ELSE h[o[2]].kids[o[3]]

OneOwner(h, e, w) ==
    \A a \in 1..Len(h) :
        \E o \in PlacesOf(h, w) :
            At(h, e, w, o) = a /\ \A q \in PlacesOf(h, w) : At(h, e, w, q) = a => q = o

LEMMA OneOwnerIs ==
  /\ OwnedOnce <=> OneOwner(heap, k2Exp, k2)
  /\ OwnedOnce' <=> OneOwner(heap', k2Exp', k2')
<1>1. /\ Owners = PlacesOf(heap, k2)
      /\ Owners' = PlacesOf(heap', k2')
  BY DEF Owners, PlacesOf, Made, Owned, Exp2
<1>2. /\ \A o : Owns(o) = At(heap, k2Exp, k2, o)
      /\ \A o : Owns(o)' = At(heap', k2Exp', k2', o)
  BY DEF Owns, At
<1>. QED  BY <1>1, <1>2 DEF OwnedOnce, OneOwner, Made

\* The places that a step changes: k2_exp, the frames above the n at the bottom
\* and the nodes behind the first m.
Changing(h, w, n, m) ==
    {o \in PlacesOf(h, w) : \/ o[1] = "k2_exp"
                            \/ o[1] = "k2" /\ o[2] > n
                            \/ o[1] = "node" /\ o[2] > m}

\* What such a place o owns moves to T[o].
MovesTo(T, n, h, e, w, h2, e2, w2) ==
    /\ \A o \in Changing(h, w, n, Len(h)) : At(h, e, w, o) \in 1..Len(h) =>
          /\ T[o] \in Changing(h2, w2, n, Len(h))
          /\ At(h2, e2, w2, T[o]) = At(h, e, w, o)
    /\ \A q \in Changing(h2, w2, n, Len(h)) : At(h2, e2, w2, q) \in 1..Len(h) =>
          \E o \in Changing(h, w, n, Len(h)) :
             T[o] = q /\ At(h, e, w, o) = At(h2, e2, w2, q)

\* A step that moves what is owned and gives each new node one owner.
LEMMA Moves ==
  ASSUME NEW h, NEW h2, NEW e, NEW e2, NEW w, NEW w2, NEW n \in Nat,
         Len(h) \in Nat, Len(h2) \in Nat, Len(w) \in Nat, Len(w2) \in Nat,
         n <= Len(w), n <= Len(w2), Len(h) <= Len(h2),
         \A i \in 1..n : w2[i] = w[i],
         \A a \in 1..Len(h) : h2[a] = h[a],
         OneOwner(h, e, w),
         \A o \in PlacesOf(h, w) : At(h, e, w, o) \in 1..Len(h) \cup {Null},
         NEW T, MovesTo(T, n, h, e, w, h2, e2, w2),
         \A a \in (Len(h) + 1)..Len(h2) :
            \E o \in Changing(h2, w2, n, Len(h)) :
               /\ At(h2, e2, w2, o) = a
               /\ \A q \in Changing(h2, w2, n, Len(h)) : At(h2, e2, w2, q) = a => q = o
  PROVE  OneOwner(h2, e2, w2)
<1>. DEFINE Kept(hh, ww) == {o \in PlacesOf(hh, ww) : \/ o[1] = "k2" /\ o[2] <= n
                                                      \/ o[1] = "node" /\ o[2] <= Len(h)}
<1>1. ASSUME NEW o \in PlacesOf(h, w)
      PROVE  o \in Kept(h, w) \/ o \in Changing(h, w, n, Len(h))
  BY <1>1 DEF PlacesOf, Changing, Exp2
<1>2. ASSUME NEW o \in PlacesOf(h2, w2)
      PROVE  o \in Kept(h2, w2) \/ o \in Changing(h2, w2, n, Len(h))
  BY <1>2 DEF PlacesOf, Changing, Exp2
<1>3. ASSUME NEW o \in Kept(h, w)
      PROVE  o \in Kept(h2, w2) /\ At(h2, e2, w2, o) = At(h, e, w, o)
  BY <1>3, SMTT(40) DEF PlacesOf, At, Exp2
<1>4. ASSUME NEW o \in Kept(h2, w2)
      PROVE  o \in Kept(h, w) /\ At(h2, e2, w2, o) = At(h, e, w, o)
  BY <1>4, SMTT(40) DEF PlacesOf, At, Exp2
<1>5. ASSUME NEW o \in Kept(h2, w2) PROVE o \notin Changing(h2, w2, n, Len(h))
  BY <1>5 DEF PlacesOf, Changing, Exp2
<1>6. /\ Kept(h, w) \subseteq PlacesOf(h, w) /\ Kept(h2, w2) \subseteq PlacesOf(h2, w2)
      /\ Changing(h, w, n, Len(h)) \subseteq PlacesOf(h, w)
      /\ Changing(h2, w2, n, Len(h)) \subseteq PlacesOf(h2, w2)
  BY DEF Changing
<1>. HIDE DEF Kept
<1>7. ASSUME NEW a \in 1..Len(h)
      PROVE  \E o \in PlacesOf(h2, w2) :
                 At(h2, e2, w2, o) = a /\ \A q \in PlacesOf(h2, w2) : At(h2, e2, w2, q) = a => q = o
  <2>1. PICK o \in PlacesOf(h, w) :
            At(h, e, w, o) = a /\ \A q \in PlacesOf(h, w) : At(h, e, w, q) = a => q = o
    BY DEF OneOwner
  <2>2. CASE o \in Kept(h, w)
    <3>1. o \in PlacesOf(h2, w2) /\ At(h2, e2, w2, o) = a
      BY <1>3, <1>6, <2>1, <2>2
    <3>2. ASSUME NEW q \in PlacesOf(h2, w2), At(h2, e2, w2, q) = a PROVE q = o
      <4>1. CASE q \in Kept(h2, w2)
        BY <1>4, <1>6, <2>1, <3>2, <4>1
      <4>2. CASE q \in Changing(h2, w2, n, Len(h))
        <5>1. PICK c \in Changing(h, w, n, Len(h)) :
                  T[c] = q /\ At(h, e, w, c) = At(h2, e2, w2, q)
          BY <3>2, <4>2 DEF MovesTo
        <5>2. c = o
          BY <1>6, <2>1, <3>2, <5>1
        <5>3. o \in Kept(h2, w2)
          BY <1>3, <2>2
        <5>4. FALSE
          <6>1. (o[1] = "k2" /\ o[2] <= n) \/ (o[1] = "node" /\ o[2] <= Len(h))
            BY <2>2 DEF Kept
          <6>2. \/ o[1] = "k2_exp"
                \/ o[1] = "k2" /\ o[2] > n
                \/ o[1] = "node" /\ o[2] > Len(h)
            BY <5>1, <5>2 DEF Changing
          <6>3. o[2] \in Nat
            BY <2>1, <6>1 DEF PlacesOf, Exp2
          <6>. QED  BY <6>1, <6>2, <6>3
        <5>. QED  BY <5>4
      <4>. QED  BY <1>2, <4>1, <4>2
    <3>. QED  BY <3>1, <3>2
  <2>3. CASE o \in Changing(h, w, n, Len(h))
    <3>1. /\ T[o] \in Changing(h2, w2, n, Len(h)) /\ At(h2, e2, w2, T[o]) = a
          /\ T[o] \in PlacesOf(h2, w2)
      BY <1>6, <2>1, <2>3 DEF MovesTo
    <3>2. ASSUME NEW q \in PlacesOf(h2, w2), At(h2, e2, w2, q) = a PROVE q = T[o]
      <4>1. CASE q \in Kept(h2, w2)
        <5>1. q \in Kept(h, w) /\ At(h, e, w, q) = a
          BY <1>4, <3>2, <4>1
        <5>2. q = o
          BY <1>6, <2>1, <5>1
        <5>3. (q[1] = "k2" /\ q[2] <= n) \/ (q[1] = "node" /\ q[2] <= Len(h))
          BY <5>1 DEF Kept
        <5>4. \/ q[1] = "k2_exp"
              \/ q[1] = "k2" /\ q[2] > n
              \/ q[1] = "node" /\ q[2] > Len(h)
          BY <2>3, <5>2 DEF Changing
        <5>5. q[2] \in Nat
          BY <3>2, <5>3 DEF PlacesOf, Exp2
        <5>. QED  BY <5>3, <5>4, <5>5
      <4>2. CASE q \in Changing(h2, w2, n, Len(h))
        BY <1>6, <2>1, <3>2, <4>2 DEF MovesTo
      <4>. QED  BY <1>2, <4>1, <4>2
    <3>. QED  BY <3>1, <3>2
  <2>. QED  BY <1>1, <2>2, <2>3
<1>8. ASSUME NEW a \in (Len(h) + 1)..Len(h2)
      PROVE  \E o \in PlacesOf(h2, w2) :
                 At(h2, e2, w2, o) = a /\ \A q \in PlacesOf(h2, w2) : At(h2, e2, w2, q) = a => q = o
  <2>1. PICK o \in Changing(h2, w2, n, Len(h)) :
            /\ At(h2, e2, w2, o) = a
            /\ \A q \in Changing(h2, w2, n, Len(h)) : At(h2, e2, w2, q) = a => q = o
    OBVIOUS
  <2>2. ASSUME NEW q \in PlacesOf(h2, w2), At(h2, e2, w2, q) = a PROVE q = o
    <3>1. q \notin Kept(h2, w2)
      <4>1. ASSUME q \in Kept(h2, w2) PROVE FALSE
        <5>1. At(h, e, w, q) = a /\ q \in PlacesOf(h, w)
          BY <1>4, <1>6, <2>2, <4>1
        <5>2. a \in 1..Len(h) \cup {Null}
          BY <5>1
        <5>. QED  BY <5>2 DEF Null
      <4>. QED  BY <4>1
    <3>. QED  BY <1>2, <2>1, <2>2, <3>1
  <2>. QED  BY <1>6, <2>1, <2>2
<1>. QED
  <2>1. \A a \in 1..Len(h2) : a \in 1..Len(h) \/ a \in (Len(h) + 1)..Len(h2)
    OBVIOUS
  <2>. QED  BY <1>7, <1>8, <2>1 DEF OneOwner

\* What a frame owns.
LEMMA OwnedIs ==
  ASSUME NEW f
  PROVE  /\ f.kind = "Lam2" => Owned(f) = <<f.body>>
         /\ f.kind = "If2" => Owned(f) = <<f.rest>>
         /\ f.kind = "If3" => Owned(f) = <<f.t, f.rest>>
         /\ f.kind \notin {"Lam2", "If2", "If3"} => Owned(f) = <<>>
BY DEF Owned

\* What a place holds is a pointer.
LEMMA PlacesPoint ==
  ASSUME TypeOK
  PROVE  /\ \A o \in PlacesOf(heap, k2) : At(heap, k2Exp, k2, o) \in 1..Len(heap) \cup {Null}
         /\ Len(heap) \in Nat /\ Len(k2) \in Nat
<1>1. Len(heap) \in Nat /\ Len(k2) \in Nat
  BY LenProperties DEF TypeOK
<1>2. ASSUME NEW i \in 1..Len(k2), NEW j \in 1..2, j <= Len(Owned(k2[i]))
      PROVE  Owned(k2[i])[j] \in Pointer
  <2>1. k2[i] \in K2Frame
    BY ElementOfSeq DEF TypeOK
  <2>2. CASE k2[i].kind = "Lam2"
    BY <1>2, <2>1, <2>2, OwnedIs, K2FrameFields
  <2>3. CASE k2[i].kind = "If2"
    BY <1>2, <2>1, <2>3, OwnedIs, K2FrameFields
  <2>4. CASE k2[i].kind = "If3"
    BY <1>2, <2>1, <2>4, OwnedIs, K2FrameFields
  <2>5. CASE k2[i].kind \notin {"Lam2", "If2", "If3"}
    <3>1. Len(Owned(k2[i])) = 0
      BY <2>5, OwnedIs
    <3>. QED  BY <1>2, <3>1
  <2>. QED  BY <2>2, <2>3, <2>4, <2>5
<1>3. ASSUME NEW a \in 1..Len(heap), NEW j \in 1..2, j <= Len(heap[a].kids)
      PROVE  heap[a].kids[j] \in Pointer
  <2>1. heap[a] \in AnfNode
    BY ElementOfSeq DEF TypeOK
  <2>2. heap[a].kids \in Seq(Pointer)
    BY <2>1 DEF AnfNode
  <2>3. j \in 1..Len(heap[a].kids)
    BY <1>3, <2>2, LenProperties
  <2>. QED  BY <2>2, <2>3, ElementOfSeq
<1>4. k2Exp \in Pointer
  BY DEF TypeOK
<1>5. \A o \in PlacesOf(heap, k2) : At(heap, k2Exp, k2, o) \in Pointer
  BY <1>2, <1>3, <1>4 DEF PlacesOf, At, Exp2
<1>. QED  BY <1>1, <1>5 DEF Pointer, Made

\* The places a step changes, when it changes at most one frame or adds one.
LEMMA ChangingTop ==
  ASSUME NEW h, NEW w, NEW n \in Nat, Len(h) \in Nat, Len(w) \in {n, n + 1}
  PROVE  /\ Exp2 \in Changing(h, w, n, Len(h))
         /\ Len(w) = n + 1 =>
               /\ \A j \in 1..2 : j <= Len(Owned(w[n + 1]))
                     => <<"k2", n + 1, j>> \in Changing(h, w, n, Len(h))
               /\ \A o \in Changing(h, w, n, Len(h)) : o # Exp2 =>
                     \E j \in 1..2 : o = <<"k2", n + 1, j>> /\ j <= Len(Owned(w[n + 1]))
         /\ Len(w) = n => \A o \in Changing(h, w, n, Len(h)) : o = Exp2
BY DEF Changing, PlacesOf, Exp2

\* A frame that owns nothing is pushed.
LEMMA PushOwns ==
  ASSUME TypeOK, OwnedOnce, UNCHANGED <<heap, k2Exp>>,
         NEW f, Owned(f) = <<>>, k2' = Append(k2, f)
  PROVE  OwnedOnce'
<1>1. PICK n, m : n = Len(k2) /\ m = Len(heap)
  OBVIOUS
<1>2. n \in Nat /\ m \in Nat
  BY <1>1, PlacesPoint
<1>3. Len(k2') = n + 1 /\ k2'[n + 1] = f /\ \A i \in 1..n : k2'[i] = k2[i]
  <2>. DEFINE S == K2Frame \cup {f}
  <2>1. k2 \in Seq(S) /\ f \in S
    BY SeqMonotonic DEF TypeOK
  <2>. HIDE DEF S
  <2>. QED  BY <1>1, <2>1, Push
<1>4. /\ \A o \in Changing(heap, k2, n, m) : o = Exp2
      /\ Exp2 \in Changing(heap, k2, n, m) /\ Exp2 \in Changing(heap, k2', n, m)
  BY <1>1, <1>2, <1>3, ChangingTop
<1>5. \A o \in Changing(heap, k2', n, m) : o = Exp2
  <2>1. Len(Owned(k2'[n + 1])) = 0
    BY <1>3
  <2>2. \A j \in 1..2 : ~(j <= Len(Owned(k2'[n + 1])))
    BY <2>1
  <2>. QED  BY <1>1, <1>2, <1>3, <2>2, ChangingTop
<1>6. At(heap, k2Exp, k2, Exp2) = k2Exp /\ At(heap, k2Exp, k2', Exp2) = k2Exp
  BY DEF At, Exp2
<1>7. /\ OneOwner(heap, k2Exp, k2)
      /\ \A o \in PlacesOf(heap, k2) : At(heap, k2Exp, k2, o) \in 1..m \cup {Null}
  BY <1>1, OneOwnerIs, PlacesPoint
<1>8. PICK T : T = [o \in {Exp2} |-> o]
  OBVIOUS
<1>9. T[Exp2] = Exp2
  BY <1>8
<1>10. MovesTo(T, n, heap, k2Exp, k2, heap', k2Exp', k2')
  BY <1>1, <1>4, <1>5, <1>6, <1>9 DEF MovesTo
<1>11. OneOwner(heap', k2Exp', k2')
  <2>1. \A a \in (Len(heap) + 1)..Len(heap') :
            \E o \in Changing(heap', k2', n, Len(heap)) :
               /\ At(heap', k2Exp', k2', o) = a
               /\ \A q \in Changing(heap', k2', n, Len(heap)) :
                     At(heap', k2Exp', k2', q) = a => q = o
    BY <1>1, <1>2
  <2>2. \A o \in PlacesOf(heap, k2) : At(heap, k2Exp, k2, o) \in 1..Len(heap) \cup {Null}
    BY <1>1, <1>7
  <2>3. /\ Len(heap) \in Nat /\ Len(heap') \in Nat /\ Len(k2) \in Nat /\ Len(k2') \in Nat
        /\ n <= Len(k2) /\ n <= Len(k2') /\ Len(heap) <= Len(heap') /\ n \in Nat
    BY <1>1, <1>2, <1>3
  <2>4. /\ \A i \in 1..n : k2'[i] = k2[i]
        /\ \A a \in 1..Len(heap) : heap'[a] = heap[a]
    BY <1>3
  <2>. QED  BY ONLY <1>7, <1>10, <2>1, <2>2, <2>3, <2>4, Moves
<1>. QED  BY <1>11, OneOwnerIs

\* A term ends: the node without children belongs to k2_exp, which was null.
LEMMA EndOwns ==
  ASSUME TypeOK, OwnedOnce, UNCHANGED k2, k2Exp = Null,
         NEW node, node.kids = <<>>, EndTerm(node)
  PROVE  OwnedOnce'
<1>. DEFINE m == Len(heap)
            n == Len(k2)
<1>1. n \in Nat /\ m \in Nat
  BY PlacesPoint
<1>2. Len(heap') = m + 1 /\ heap'[m + 1] = node /\ \A a \in 1..m : heap'[a] = heap[a]
  <2>. DEFINE S == AnfNode \cup {node}
  <2>1. heap \in Seq(S) /\ node \in S /\ heap' = Append(heap, node)
    BY SeqMonotonic DEF TypeOK, EndTerm
  <2>. HIDE DEF S
  <2>. QED  BY <2>1, Push
<1>3. \A o \in Changing(heap, k2, n, m) : o = Exp2
  BY <1>1, ChangingTop
<1>4. Exp2 \in Changing(heap', k2, n, m) /\ \A o \in Changing(heap', k2, n, m) : o = Exp2
  <2>1. Len(heap'[m + 1].kids) = 0
    BY <1>2
  <2>. QED  BY <1>1, <1>2, <2>1 DEF Changing, PlacesOf, Exp2
<1>5. /\ At(heap, k2Exp, k2, Exp2) = Null /\ At(heap', k2Exp', k2, Exp2) = m + 1
  BY DEF At, Exp2, EndTerm
<1>6. /\ OneOwner(heap, k2Exp, k2)
      /\ \A o \in PlacesOf(heap, k2) : At(heap, k2Exp, k2, o) \in 1..Len(heap) \cup {Null}
  BY OneOwnerIs, PlacesPoint
<1>7. PICK T : T = [o \in {Exp2} |-> o]
  OBVIOUS
<1>8. MovesTo(T, n, heap, k2Exp, k2, heap', k2Exp', k2')
  <2>1. \A o \in Changing(heap, k2, n, m) : At(heap, k2Exp, k2, o) \notin 1..m
    BY <1>3, <1>5 DEF Null
  <2>2. \A o \in Changing(heap', k2, n, m) : At(heap', k2Exp', k2, o) \notin 1..m
    BY <1>1, <1>4, <1>5
  <2>. QED  BY <2>1, <2>2 DEF MovesTo
<1>9. OneOwner(heap', k2Exp', k2')
  <2>1. \A a \in (m + 1)..Len(heap') : a = m + 1
    BY <1>1, <1>2
  <2>2. \A a \in (m + 1)..Len(heap') :
            \E o \in Changing(heap', k2, n, m) :
               /\ At(heap', k2Exp', k2, o) = a
               /\ \A q \in Changing(heap', k2, n, m) : At(heap', k2Exp', k2, q) = a => q = o
    BY <1>4, <1>5, <2>1
  <2>3. Len(heap) = m /\ Len(k2) = n /\ m <= Len(heap') /\ Len(heap') \in Nat
    BY <1>1, <1>2
  <2>. HIDE DEF m, n
  <2>. QED  BY <1>1, <1>2, <1>6, <1>8, <2>2, <2>3, Moves
<1>. QED  BY <1>9, OneOwnerIs

\* The place of node or frame i that is its j-th.
FramePlace(i, j) == <<"k2", i, j>>
NodePlace(a, j) == <<"node", a, j>>

LEMMA PlacesDiffer ==
  /\ \A i, j : FramePlace(i, j) # Exp2 /\ NodePlace(i, j) # Exp2
  /\ \A i, j, a, c : FramePlace(i, j) # NodePlace(a, c)
  /\ \A i, j, a, c : FramePlace(i, j) = FramePlace(a, c) => i = a /\ j = c
  /\ \A i, j, a, c : NodePlace(i, j) = NodePlace(a, c) => i = a /\ j = c
BY DEF Exp2, FramePlace, NodePlace

LEMMA AtIs ==
  /\ \A h, e, w : At(h, e, w, Exp2) = e
  /\ \A h, e, w, i, j : At(h, e, w, FramePlace(i, j)) = Owned(w[i])[j]
  /\ \A h, e, w, i, j : At(h, e, w, NodePlace(i, j)) = h[i].kids[j]
BY DEF At, Exp2, FramePlace, NodePlace

\* The places a step may change when it changes the top frame, and when it makes a
\* node instead of it.
FrameChanging(h, w, n, m, l) ==
    /\ Exp2 \in Changing(h, w, n, m)
    /\ l >= 1 => FramePlace(n + 1, 1) \in Changing(h, w, n, m)
    /\ l = 2 => FramePlace(n + 1, 2) \in Changing(h, w, n, m)
    /\ \A o \in Changing(h, w, n, m) :
          \/ o = Exp2
          \/ l >= 1 /\ o = FramePlace(n + 1, 1)
          \/ l = 2 /\ o = FramePlace(n + 1, 2)

LEMMA ChangingFrame ==
  ASSUME NEW h, NEW w, NEW n \in Nat, NEW m \in Nat, Len(h) = m, Len(w) = n + 1,
         NEW l \in 0..2, Len(Owned(w[n + 1])) = l
  PROVE  FrameChanging(h, w, n, m, l)
<1>1. \A i \in 1..(n + 1) : i > n => i = n + 1
  OBVIOUS
<1>2. n + 1 \in 1..(n + 1) /\ n + 1 > n
  OBVIOUS
<1>. QED  BY <1>1, <1>2 DEF FrameChanging, Changing, PlacesOf, Exp2, FramePlace

LEMMA ChangingNode ==
  ASSUME NEW h, NEW w, NEW n \in Nat, NEW m \in Nat, Len(h) = m + 1, Len(w) = n,
         NEW l \in 0..2, Len(h[m + 1].kids) = l
  PROVE  /\ Exp2 \in Changing(h, w, n, m)
         /\ l >= 1 => NodePlace(m + 1, 1) \in Changing(h, w, n, m)
         /\ l = 2 => NodePlace(m + 1, 2) \in Changing(h, w, n, m)
         /\ \A o \in Changing(h, w, n, m) :
               \/ o = Exp2
               \/ l >= 1 /\ o = NodePlace(m + 1, 1)
               \/ l = 2 /\ o = NodePlace(m + 1, 2)
<1>1. \A i \in 1..(m + 1) : i > m => i = m + 1
  OBVIOUS
<1>2. m + 1 \in 1..(m + 1) /\ m + 1 > m
  OBVIOUS
<1>. QED  BY <1>1, <1>2 DEF Changing, PlacesOf, Exp2, NodePlace

\* A frame takes over what its predecessor owned, and k2_exp before it.
LEMMA HandOwns ==
  ASSUME TypeOK, OwnedOnce, UNCHANGED heap, k2 # <<>>, k2Exp' = Null,
         NEW f, k2' = Append(Front(k2), f), NEW top, top = Last(k2),
         \/ Owned(top) = <<>> /\ Owned(f) = <<k2Exp>>
         \/ \E p : Owned(top) = <<p>> /\ Owned(f) = <<k2Exp, p>>
  PROVE  OwnedOnce'
<1>1. PICK n, m, l : n = Len(k2) - 1 /\ m = Len(heap) /\ l = Len(Owned(top))
  OBVIOUS
<1>2. n \in Nat /\ m \in Nat /\ Len(k2) = n + 1 /\ k2[n + 1] = top
  BY <1>1, PlacesPoint, Tops
<1>3. Len(k2') = n + 1 /\ k2'[n + 1] = f /\ \A i \in 1..n : k2'[i] = k2[i]
  <2>. DEFINE S == K2Frame \cup {f}
  <2>1. Front(k2) \in Seq(K2Frame) /\ Len(Front(k2)) = n /\ \A i \in 1..n : Front(k2)[i] = k2[i]
    BY <1>1, Tops
  <2>2. Front(k2) \in Seq(S) /\ f \in S
    BY <2>1, SeqMonotonic
  <2>. HIDE DEF S
  <2>. QED  BY <2>1, <2>2, Push
<1>4. /\ l \in {0, 1} /\ Len(Owned(f)) = l + 1 /\ Owned(f)[1] = k2Exp
      /\ l = 1 => Owned(f)[2] = Owned(top)[1]
  <2>1. CASE Owned(top) = <<>> /\ Owned(f) = <<k2Exp>>
    BY <1>1, <2>1
  <2>2. ASSUME NEW p, Owned(top) = <<p>> /\ Owned(f) = <<k2Exp, p>>
        PROVE  /\ l \in {0, 1} /\ Len(Owned(f)) = l + 1 /\ Owned(f)[1] = k2Exp
               /\ l = 1 => Owned(f)[2] = Owned(top)[1]
    BY <1>1, <2>2
  <2>. QED  BY <2>1, <2>2
<1>5. PICK F1, F2 : F1 = FramePlace(n + 1, 1) /\ F2 = FramePlace(n + 1, 2)
  OBVIOUS
<1>6. F1 # F2 /\ Exp2 # F1 /\ Exp2 # F2
  BY <1>5, PlacesDiffer
<1>7. PICK T : T[Exp2] = F1 /\ T[F1] = F2
  <2>. DEFINE U == [o \in {Exp2, F1} |-> IF o = Exp2 THEN F1 ELSE F2]
  <2>1. U[Exp2] = F1 /\ U[F1] = F2
    BY <1>6
  <2>. QED  BY <2>1
<1>8. /\ At(heap, k2Exp, k2, Exp2) = k2Exp /\ At(heap, k2Exp, k2, F1) = Owned(top)[1]
      /\ At(heap', k2Exp', k2', Exp2) = Null
      /\ At(heap', k2Exp', k2', F1) = Owned(f)[1] /\ At(heap', k2Exp', k2', F2) = Owned(f)[2]
  <2>1. k2Exp' = Null
    OBVIOUS
  <2>. QED  BY ONLY <1>2, <1>3, <1>5, <2>1, AtIs
<1>9. /\ Exp2 \in Changing(heap, k2, n, m)
      /\ l = 1 => F1 \in Changing(heap, k2, n, m)
      /\ \A o \in Changing(heap, k2, n, m) : o = Exp2 \/ (l = 1 /\ o = F1)
  <2>1. Len(Owned(k2[n + 1])) = l
    BY <1>1, <1>2
  <2>2. l \in 0..2 /\ (l >= 1 <=> l = 1) /\ l # 2
    BY <1>4
  <2>3. Len(heap) = m
    BY <1>1
  <2>4. FrameChanging(heap, k2, n, m, l)
    BY ONLY <1>2, <2>1, <2>2, <2>3, ChangingFrame
  <2>. QED  BY ONLY <1>5, <2>2, <2>4 DEF FrameChanging
<1>10. /\ F1 \in Changing(heap', k2', n, m)
       /\ l = 1 => F2 \in Changing(heap', k2', n, m)
       /\ \A o \in Changing(heap', k2', n, m) : o = Exp2 \/ o = F1 \/ (l = 1 /\ o = F2)
  <2>1. Len(Owned(k2'[n + 1])) = l + 1
    BY ONLY <1>3, <1>4
  <2>2. l + 1 \in 0..2 /\ l + 1 >= 1 /\ (l + 1 = 2 <=> l = 1)
    BY <1>4
  <2>3. Len(heap') = m /\ Len(k2') = n + 1
    BY <1>1, <1>3
  <2>4. FrameChanging(heap', k2', n, m, l + 1)
    BY ONLY <1>2, <2>1, <2>2, <2>3, ChangingFrame
  <2>. QED  BY ONLY <1>5, <2>2, <2>4 DEF FrameChanging
<1>11. MovesTo(T, n, heap, k2Exp, k2, heap', k2Exp', k2')
  <2>1. Null \notin 1..m
    BY <1>2 DEF Null
  <2>. QED  BY ONLY <1>1, <1>3, <1>4, <1>7, <1>8, <1>9, <1>10, <2>1, SMTT(40) DEF MovesTo
<1>12. OneOwner(heap', k2Exp', k2')
  <2>1. \A a \in (Len(heap) + 1)..Len(heap') :
            \E o \in Changing(heap', k2', n, Len(heap)) :
               /\ At(heap', k2Exp', k2', o) = a
               /\ \A q \in Changing(heap', k2', n, Len(heap)) :
                     At(heap', k2Exp', k2', q) = a => q = o
    BY <1>1, <1>2
  <2>2. /\ \A o \in PlacesOf(heap, k2) : At(heap, k2Exp, k2, o) \in 1..Len(heap) \cup {Null}
        /\ OneOwner(heap, k2Exp, k2)
    BY OneOwnerIs, PlacesPoint
  <2>3. /\ Len(heap) \in Nat /\ Len(heap') \in Nat /\ Len(k2) \in Nat /\ Len(k2') \in Nat
        /\ n <= Len(k2) /\ n <= Len(k2') /\ Len(heap) <= Len(heap') /\ n \in Nat
    BY <1>1, <1>2, <1>3
  <2>4. /\ \A i \in 1..n : k2'[i] = k2[i]
        /\ \A a \in 1..Len(heap) : heap'[a] = heap[a]
    BY <1>3
  <2>. QED  BY ONLY <1>11, <2>1, <2>2, <2>3, <2>4, Moves
<1>. QED  BY <1>12, OneOwnerIs

\* A new node takes over what the top frame owned, and what k2_exp owned behind it.
LEMMA PrependOwns ==
  ASSUME TypeOK, OwnedOnce, k2 # <<>>, NEW node, NEW top, top = Last(k2),
         heap' = Append(heap, node), k2Exp' = Len(heap) + 1, k2' = Front(k2),
         \/ Owned(top) = <<>> /\ node.kids = <<k2Exp>>
         \/ \E p : Owned(top) = <<p>> /\ node.kids = <<p, k2Exp>>
  PROVE  OwnedOnce'
<1>1. PICK n, m, l : n = Len(k2) - 1 /\ m = Len(heap) /\ l = Len(Owned(top))
  OBVIOUS
<1>2. n \in Nat /\ m \in Nat /\ Len(k2) = n + 1 /\ k2[n + 1] = top
  BY <1>1, PlacesPoint, Tops
<1>3. /\ Len(heap') = m + 1 /\ heap'[m + 1] = node /\ \A a \in 1..m : heap'[a] = heap[a]
      /\ k2Exp' = m + 1
      /\ Len(k2') = n /\ \A i \in 1..n : k2'[i] = k2[i]
  <2>. DEFINE S == AnfNode \cup {node}
  <2>1. heap \in Seq(S) /\ node \in S
    BY SeqMonotonic DEF TypeOK
  <2>. HIDE DEF S
  <2>. QED  BY <1>1, <2>1, Push, Tops
<1>4. /\ l \in {0, 1} /\ Len(node.kids) = l + 1 /\ node.kids[l + 1] = k2Exp
      /\ l = 1 => node.kids[1] = Owned(top)[1]
  <2>1. CASE Owned(top) = <<>> /\ node.kids = <<k2Exp>>
    BY <1>1, <2>1
  <2>2. ASSUME NEW p, Owned(top) = <<p>> /\ node.kids = <<p, k2Exp>>
        PROVE  /\ l \in {0, 1} /\ Len(node.kids) = l + 1 /\ node.kids[l + 1] = k2Exp
               /\ l = 1 => node.kids[1] = Owned(top)[1]
    BY <1>1, <2>2
  <2>. QED  BY <2>1, <2>2
<1>5. PICK F1, N1, NL :
          F1 = FramePlace(n + 1, 1) /\ N1 = NodePlace(m + 1, 1) /\ NL = NodePlace(m + 1, l + 1)
  OBVIOUS
<1>6. Exp2 # F1 /\ Exp2 # N1 /\ Exp2 # NL
  BY <1>5, PlacesDiffer
<1>7. PICK T : T[Exp2] = NL /\ T[F1] = N1
  <2>. DEFINE U == [o \in {Exp2, F1} |-> IF o = Exp2 THEN NL ELSE N1]
  <2>1. U[Exp2] = NL /\ U[F1] = N1
    BY <1>6
  <2>. QED  BY <2>1
<1>8. /\ At(heap, k2Exp, k2, Exp2) = k2Exp /\ At(heap, k2Exp, k2, F1) = Owned(top)[1]
      /\ At(heap', k2Exp', k2', Exp2) = m + 1
      /\ At(heap', k2Exp', k2', N1) = node.kids[1]
      /\ At(heap', k2Exp', k2', NL) = node.kids[l + 1]
  BY ONLY <1>2, <1>3, <1>5, AtIs
<1>9. /\ Exp2 \in Changing(heap, k2, n, m)
      /\ l = 1 => F1 \in Changing(heap, k2, n, m)
      /\ \A o \in Changing(heap, k2, n, m) : o = Exp2 \/ (l = 1 /\ o = F1)
  <2>1. Len(Owned(k2[n + 1])) = l
    BY <1>1, <1>2
  <2>2. l \in 0..2 /\ (l >= 1 <=> l = 1) /\ l # 2
    BY <1>4
  <2>3. Len(heap) = m
    BY <1>1
  <2>4. FrameChanging(heap, k2, n, m, l)
    BY ONLY <1>2, <2>1, <2>2, <2>3, ChangingFrame
  <2>. QED  BY ONLY <1>5, <2>2, <2>4 DEF FrameChanging
<1>10. /\ Exp2 \in Changing(heap', k2', n, m) /\ NL \in Changing(heap', k2', n, m)
       /\ l = 1 => N1 \in Changing(heap', k2', n, m)
       /\ \A o \in Changing(heap', k2', n, m) : o = Exp2 \/ o = NL \/ (l = 1 /\ o = N1)
  <2>1. Len(heap'[m + 1].kids) = l + 1
    BY ONLY <1>3, <1>4
  <2>2. l + 1 \in 0..2 /\ l + 1 >= 1 /\ (l + 1 = 2 <=> l = 1) /\ (l = 0 \/ l = 1)
    BY <1>4
  <2>3. l = 0 => NL = N1
    BY <1>5
  <2>4. l = 1 => NL = NodePlace(m + 1, 2)
    BY <1>5
  <2>5. /\ Exp2 \in Changing(heap', k2', n, m)
        /\ N1 \in Changing(heap', k2', n, m)
        /\ l = 1 => NL \in Changing(heap', k2', n, m)
        /\ \A o \in Changing(heap', k2', n, m) : o = Exp2 \/ o = N1 \/ (l = 1 /\ o = NL)
    BY ONLY <1>2, <1>3, <1>5, <2>1, <2>2, <2>4, ChangingNode
  <2>. QED  BY <2>2, <2>3, <2>5
<1>11. MovesTo(T, n, heap, k2Exp, k2, heap', k2Exp', k2')
  <2>1. m + 1 \notin 1..m /\ Len(heap) = m
    BY <1>1, <1>2
  <2>. QED  BY ONLY <1>4, <1>7, <1>8, <1>9, <1>10, <2>1 DEF MovesTo
<1>12. OneOwner(heap', k2Exp', k2')
  <2>1. \A o \in PlacesOf(heap, k2) : At(heap, k2Exp, k2, o) \in 1..Len(heap) \cup {Null}
    BY PlacesPoint
  <2>2. /\ Len(heap) = m /\ Len(k2') \in Nat /\ n <= Len(k2) /\ n <= Len(k2')
        /\ Len(heap) \in Nat /\ Len(heap') \in Nat /\ Len(k2) \in Nat
        /\ Len(heap) <= Len(heap') /\ n \in Nat
    BY <1>1, <1>2, <1>3
  <2>3. ASSUME NEW o \in Changing(heap', k2', n, m), At(heap', k2Exp', k2', o) = m + 1
        PROVE  o = Exp2
    <3>1. k2Exp \in 1..m \cup {Null} /\ (l = 1 => Owned(top)[1] \in 1..m \cup {Null})
      BY <1>8, <1>9, <2>1, <2>2 DEF Changing
    <3>2. m + 1 \notin 1..m \cup {Null}
      BY <1>2 DEF Null
    <3>. QED  BY ONLY <1>4, <1>8, <1>10, <2>3, <3>1, <3>2
  <2>4. \A a \in (Len(heap) + 1)..Len(heap') : a = m + 1
    BY ONLY <1>2, <1>3, <2>2
  <2>5. \A a \in (Len(heap) + 1)..Len(heap') :
            \E o \in Changing(heap', k2', n, Len(heap)) :
               /\ At(heap', k2Exp', k2', o) = a
               /\ \A q \in Changing(heap', k2', n, Len(heap)) :
                     At(heap', k2Exp', k2', q) = a => q = o
    BY ONLY <1>8, <1>10, <2>2, <2>3, <2>4
  <2>6. OneOwner(heap, k2Exp, k2)
    BY OneOwnerIs
  <2>. QED  BY ONLY <1>3, <1>11, <2>1, <2>2, <2>5, <2>6, Moves
<1>. QED  BY <1>12, OneOwnerIs

\* The places a step may change when it makes two nodes of two children each.
LEMMA ChangingNodes ==
  ASSUME NEW h, NEW w, NEW n \in Nat, NEW m \in Nat, Len(h) = m + 2, Len(w) = n,
         Len(h[m + 1].kids) = 2, Len(h[m + 2].kids) = 2
  PROVE  /\ Exp2 \in Changing(h, w, n, m)
         /\ NodePlace(m + 1, 1) \in Changing(h, w, n, m)
         /\ NodePlace(m + 1, 2) \in Changing(h, w, n, m)
         /\ NodePlace(m + 2, 1) \in Changing(h, w, n, m)
         /\ NodePlace(m + 2, 2) \in Changing(h, w, n, m)
         /\ \A o \in Changing(h, w, n, m) :
               \/ o = Exp2
               \/ o = NodePlace(m + 1, 1) \/ o = NodePlace(m + 1, 2)
               \/ o = NodePlace(m + 2, 1) \/ o = NodePlace(m + 2, 2)
<1>1. \A i \in 1..(m + 2) : i > m => i = m + 1 \/ i = m + 2
  OBVIOUS
<1>2. m + 1 \in 1..(m + 2) /\ m + 2 \in 1..(m + 2) /\ m + 1 > m /\ m + 2 > m
  OBVIOUS
<1>3. Exp2 \in Changing(h, w, n, m)
  BY DEF Changing, PlacesOf, Exp2
<1>4. /\ NodePlace(m + 1, 1) \in Changing(h, w, n, m)
      /\ NodePlace(m + 1, 2) \in Changing(h, w, n, m)
  BY <1>2 DEF Changing, PlacesOf, Exp2, NodePlace
<1>5. /\ NodePlace(m + 2, 1) \in Changing(h, w, n, m)
      /\ NodePlace(m + 2, 2) \in Changing(h, w, n, m)
  BY <1>2 DEF Changing, PlacesOf, Exp2, NodePlace
<1>6. ASSUME NEW o \in Changing(h, w, n, m), o # Exp2
      PROVE  \/ o = NodePlace(m + 1, 1) \/ o = NodePlace(m + 1, 2)
             \/ o = NodePlace(m + 2, 1) \/ o = NodePlace(m + 2, 2)
  <2>1. o \in {"node"} \X (1..(m + 2)) \X (1..2) /\ o[2] > m
    BY <1>6 DEF Changing, PlacesOf, Exp2
  <2>2. o = NodePlace(o[2], o[3])
    BY <2>1 DEF NodePlace
  <2>3. (o[2] = m + 1 \/ o[2] = m + 2) /\ (o[3] = 1 \/ o[3] = 2)
    BY <2>1
  <2>. QED  BY <2>2, <2>3
<1>. QED  BY <1>3, <1>4, <1>5, <1>6

\* An IfExp takes over the first branch, which the frame owned, and the second from
\* k2_exp, and a JoinExp the rest from the frame, and the IfExp itself.
LEMMA JoinOwns ==
  ASSUME TypeOK, OwnedOnce, k2 # <<>>, NEW a, NEW b, NEW top, top = Last(k2),
         heap' = heap \o <<a, b>>, k2Exp' = Len(heap) + 2, k2' = Front(k2),
         NEW t, NEW rest, Owned(top) = <<t, rest>>,
         a.kids = <<t, k2Exp>>, b.kids = <<rest, Len(heap) + 1>>
  PROVE  OwnedOnce'
<1>1. PICK n, m : n = Len(k2) - 1 /\ m = Len(heap)
  OBVIOUS
<1>2. n \in Nat /\ m \in Nat /\ Len(k2) = n + 1 /\ k2[n + 1] = top
  BY <1>1, PlacesPoint, Tops
<1>3. /\ Len(heap') = m + 2 /\ heap'[m + 1] = a /\ heap'[m + 2] = b
      /\ \A i \in 1..m : heap'[i] = heap[i]
      /\ k2Exp' = m + 2
      /\ Len(k2') = n /\ \A i \in 1..n : k2'[i] = k2[i]
  <2>. DEFINE S == AnfNode \cup {a, b}
  <2>1. heap \in Seq(S) /\ <<a, b>> \in Seq(S)
    BY SeqMonotonic DEF TypeOK
  <2>2. /\ Len(heap') = m + 2
        /\ \A i \in 1..Len(heap') : heap'[i] = IF i <= m THEN heap[i] ELSE <<a, b>>[i - m]
    <3>. HIDE DEF S
    <3>. QED  BY <1>1, <2>1, ConcatProperties
  <2>3. heap'[m + 1] = a /\ heap'[m + 2] = b /\ \A i \in 1..m : heap'[i] = heap[i]
    <3>1. /\ m + 1 \in 1..Len(heap') /\ m + 2 \in 1..Len(heap') /\ ~(m + 1 <= m) /\ ~(m + 2 <= m)
          /\ (m + 1) - m = 1 /\ (m + 2) - m = 2
      BY ONLY <1>2, <2>2
    <3>2. \A i \in 1..m : i \in 1..Len(heap') /\ i <= m
      BY ONLY <1>2, <2>2
    <3>. QED  BY ONLY <2>2, <3>1, <3>2
  <2>. QED  BY <1>1, <2>2, <2>3, Tops
<1>4. /\ Len(Owned(top)) = 2 /\ Owned(top)[1] = t /\ Owned(top)[2] = rest
      /\ Len(a.kids) = 2 /\ a.kids[1] = t /\ a.kids[2] = k2Exp
      /\ Len(b.kids) = 2 /\ b.kids[1] = rest /\ b.kids[2] = m + 1
  BY <1>1
<1>5. PICK F1, F2, A1, A2, B1, B2 :
          /\ F1 = FramePlace(n + 1, 1) /\ F2 = FramePlace(n + 1, 2)
          /\ A1 = NodePlace(m + 1, 1) /\ A2 = NodePlace(m + 1, 2)
          /\ B1 = NodePlace(m + 2, 1) /\ B2 = NodePlace(m + 2, 2)
  OBVIOUS
<1>6. Exp2 # F1 /\ Exp2 # F2 /\ F1 # F2
  BY <1>5, PlacesDiffer
<1>7. PICK T : T[Exp2] = A2 /\ T[F1] = A1 /\ T[F2] = B1
  <2>. DEFINE U == [o \in {Exp2, F1, F2} |-> IF o = Exp2 THEN A2 ELSE IF o = F1 THEN A1 ELSE B1]
  <2>1. U[Exp2] = A2 /\ U[F1] = A1 /\ U[F2] = B1
    BY <1>6
  <2>. QED  BY <2>1
<1>8. /\ At(heap, k2Exp, k2, Exp2) = k2Exp /\ At(heap, k2Exp, k2, F1) = t
      /\ At(heap, k2Exp, k2, F2) = rest
      /\ At(heap', k2Exp', k2', Exp2) = m + 2
      /\ At(heap', k2Exp', k2', A1) = t /\ At(heap', k2Exp', k2', A2) = k2Exp
      /\ At(heap', k2Exp', k2', B1) = rest /\ At(heap', k2Exp', k2', B2) = m + 1
  BY ONLY <1>2, <1>3, <1>4, <1>5, AtIs
<1>9. /\ Exp2 \in Changing(heap, k2, n, m) /\ F1 \in Changing(heap, k2, n, m)
      /\ F2 \in Changing(heap, k2, n, m)
      /\ \A o \in Changing(heap, k2, n, m) : o = Exp2 \/ o = F1 \/ o = F2
  <2>1. Len(Owned(k2[n + 1])) = 2 /\ 2 \in 0..2 /\ 2 >= 1
    BY <1>2, <1>4
  <2>2. Len(heap) = m
    BY <1>1
  <2>3. FrameChanging(heap, k2, n, m, 2)
    BY ONLY <1>2, <2>1, <2>2, ChangingFrame
  <2>. QED  BY ONLY <1>5, <2>1, <2>3 DEF FrameChanging
<1>10. /\ Exp2 \in Changing(heap', k2', n, m)
       /\ A1 \in Changing(heap', k2', n, m) /\ A2 \in Changing(heap', k2', n, m)
       /\ B1 \in Changing(heap', k2', n, m) /\ B2 \in Changing(heap', k2', n, m)
       /\ \A o \in Changing(heap', k2', n, m) :
             o = Exp2 \/ o = A1 \/ o = A2 \/ o = B1 \/ o = B2
  <2>1. Len(heap'[m + 1].kids) = 2 /\ Len(heap'[m + 2].kids) = 2
    BY ONLY <1>3, <1>4
  <2>. QED  BY ONLY <1>2, <1>3, <1>5, <2>1, ChangingNodes
<1>11. MovesTo(T, n, heap, k2Exp, k2, heap', k2Exp', k2')
  <2>1. m + 1 \notin 1..m /\ m + 2 \notin 1..m /\ Len(heap) = m
    BY <1>1, <1>2
  <2>. QED  BY ONLY <1>7, <1>8, <1>9, <1>10, <2>1 DEF MovesTo
<1>12. OneOwner(heap', k2Exp', k2')
  <2>1. \A o \in PlacesOf(heap, k2) : At(heap, k2Exp, k2, o) \in 1..Len(heap) \cup {Null}
    BY PlacesPoint
  <2>2. /\ Len(heap) = m /\ Len(k2') \in Nat /\ n <= Len(k2) /\ n <= Len(k2')
        /\ Len(heap) \in Nat /\ Len(heap') \in Nat /\ Len(k2) \in Nat
        /\ Len(heap) <= Len(heap') /\ n \in Nat
    BY <1>1, <1>2, <1>3
  <2>3. ASSUME NEW o \in Changing(heap', k2', n, m)
        PROVE  /\ At(heap', k2Exp', k2', o) = m + 1 => o = B2
               /\ At(heap', k2Exp', k2', o) = m + 2 => o = Exp2
    <3>1. k2Exp \in 1..m \cup {Null} /\ t \in 1..m \cup {Null} /\ rest \in 1..m \cup {Null}
      BY <1>8, <1>9, <2>1, <2>2 DEF Changing
    <3>2. m + 1 \notin 1..m \cup {Null} /\ m + 2 \notin 1..m \cup {Null} /\ m + 1 # m + 2
      BY <1>2 DEF Null
    <3>. QED  BY ONLY <1>8, <1>10, <2>3, <3>1, <3>2
  <2>4. \A i \in (Len(heap) + 1)..Len(heap') : i = m + 1 \/ i = m + 2
    BY ONLY <1>2, <1>3, <2>2
  <2>5. \A i \in (Len(heap) + 1)..Len(heap') :
            \E o \in Changing(heap', k2', n, Len(heap)) :
               /\ At(heap', k2Exp', k2', o) = i
               /\ \A q \in Changing(heap', k2', n, Len(heap)) :
                     At(heap', k2Exp', k2', q) = i => q = o
    BY ONLY <1>8, <1>10, <2>2, <2>3, <2>4
  <2>6. OneOwner(heap, k2Exp, k2)
    BY OneOwnerIs
  <2>. QED  BY ONLY <1>3, <1>11, <2>1, <2>2, <2>5, <2>6, Moves
<1>. QED  BY <1>12, OneOwnerIs

-----------------------------------------------------------------------------
LEMMA SameOwns ==
  ASSUME OwnedOnce, UNCHANGED <<heap, k2Exp, k2>>
  PROVE  OwnedOnce'
BY OneOwnerIs

LEMMA GoOwns ==
  ASSUME TypeOK, OwnedOnce, Go
  PROVE  OwnedOnce'
<1>1. CASE GoLam
  <2>1. Owned(K2Lam1(k, prog.name[goExp])) = <<>>
    BY OwnedIs DEF K2Lam1
  <2>. QED  BY <1>1, <2>1, PushOwns DEF GoLam
<1>2. CASE GoInt \/ GoVar \/ GoApp \/ GoBop \/ GoIf
  BY <1>2, SameOwns DEF GoInt, GoVar, GoValue, GoApp, GoBop, GoIf, GoOperand
<1>. QED  BY <1>1, <1>2 DEF Go

LEMMA ApplyKOwns ==
  ASSUME TypeOK, ReadsNothingMoved, OwnedOnce, ApplyK
  PROVE  OwnedOnce'
<1>1. k2Exp = Null
  BY DEF ApplyK, ApplyHalt, ApplyKIf2, ApplyKApp1, ApplyKBop1, NextOperand, ApplyKApp2,
         ApplyInt, ApplyKBop2, ApplyKIf1, KTop, Runs, ReadsNothingMoved
<1>2. CASE ApplyHalt
  <2>1. HaltExp(value).kids = <<>>
    BY DEF HaltExp, Node
  <2>. QED  BY <1>1, <1>2, <2>1, EndOwns DEF ApplyHalt
<1>3. CASE ApplyKIf2
  <2>1. JumpExp(Last(k).j, <<value>>).kids = <<>>
    BY DEF JumpExp, Node
  <2>. QED  BY <1>1, <1>3, <2>1, EndOwns DEF ApplyKIf2
<1>4. CASE ApplyKApp1 \/ ApplyKBop1 \/ ApplyInt
  BY <1>4, SameOwns DEF ApplyKApp1, ApplyKBop1, NextOperand, ApplyInt
<1>5. CASE ApplyKApp2
  <2>1. Owned(K2App1(Tmp(counter), Last(k).f.var, value)) = <<>>
    BY OwnedIs DEF K2App1
  <2>. QED  BY <1>5, <2>1, PushOwns DEF ApplyKApp2, Bind
<1>6. CASE ApplyKBop2
  <2>1. Owned(K2Bop1(Tmp(counter), Last(k).bop, Last(k).x, value)) = <<>>
    BY OwnedIs DEF K2Bop1
  <2>. QED  BY <1>6, <2>1, PushOwns DEF ApplyKBop2, Bind
<1>7. CASE ApplyKIf1
  <2>1. Owned(K2If1(Last(k).t, Last(k).f, Tmp(counter), Tmp(counter + 1), value)) = <<>>
    BY OwnedIs DEF K2If1
  <2>. QED  BY <1>7, <2>1, PushOwns DEF ApplyKIf1, Bind
<1>. QED  BY <1>2, <1>3, <1>4, <1>5, <1>6, <1>7 DEF ApplyK

LEMMA ApplyK2Owns ==
  ASSUME TypeOK, OwnedOnce, ApplyK2
  PROVE  OwnedOnce'
<1>. PICK top : top = Last(k2)
  OBVIOUS
<1>1. CASE ApplyK2Lam1
  <2>1. Owned(K2Lam2(Tmp(counter), top.v, k2Exp)) = <<k2Exp>>
    BY OwnedIs DEF K2Lam2
  <2>2. Owned(top) = <<>>
    BY <1>1, OwnedIs DEF ApplyK2Lam1, K2Top
  <2>. QED  BY <1>1, <2>1, <2>2, HandOwns DEF ApplyK2Lam1, K2Top
<1>2. CASE ApplyK2Lam2
  <2>1. Owned(top) = <<top.body>>
    BY <1>2, OwnedIs DEF ApplyK2Lam2, Prepend, K2Top
  <2>2. FunExp(top.f, <<top.v>>, top.body, k2Exp).kids = <<top.body, k2Exp>>
    BY DEF FunExp, Node
  <2>. QED  BY <1>2, <2>1, <2>2, PrependOwns DEF ApplyK2Lam2, Prepend, K2Top
<1>3. CASE ApplyK2App1
  <2>1. Owned(top) = <<>>
    BY <1>3, OwnedIs DEF ApplyK2App1, Prepend, K2Top
  <2>2. AppExp(top.r, top.f, <<top.x>>, k2Exp).kids = <<k2Exp>>
    BY DEF AppExp, Node
  <2>. QED  BY <1>3, <2>1, <2>2, PrependOwns DEF ApplyK2App1, Prepend, K2Top
<1>4. CASE ApplyK2Bop1
  <2>1. Owned(top) = <<>>
    BY <1>4, OwnedIs DEF ApplyK2Bop1, Prepend, K2Top
  <2>2. BopExp(top.r, top.bop, top.x, top.y, k2Exp).kids = <<k2Exp>>
    <3>1. \A n, c : [n EXCEPT !.bop = c].kids = n.kids \/ "kids" \notin DOMAIN n
      OBVIOUS
    <3>. QED  BY <3>1 DEF BopExp, Node
  <2>. QED  BY <1>4, <2>1, <2>2, PrependOwns DEF ApplyK2Bop1, Prepend, K2Top
<1>5. CASE ApplyK2If1
  <2>1. Owned(K2If2(top.f, top.j, top.p, top.c, k2Exp)) = <<k2Exp>>
    BY OwnedIs DEF K2If2
  <2>2. Owned(top) = <<>>
    BY <1>5, OwnedIs DEF ApplyK2If1, Branch, K2Top
  <2>. QED  BY <1>5, <2>1, <2>2, HandOwns DEF ApplyK2If1, Branch, K2Top
<1>6. CASE ApplyK2If2
  <2>1. Owned(K2If3(k2Exp, top.j, top.p, top.c, top.rest)) = <<k2Exp, top.rest>>
    BY OwnedIs DEF K2If3
  <2>2. Owned(top) = <<top.rest>>
    BY <1>6, OwnedIs DEF ApplyK2If2, Branch, K2Top
  <2>. QED  BY <1>6, <2>1, <2>2, HandOwns DEF ApplyK2If2, Branch, K2Top
<1>7. CASE ApplyK2If3
  <2>1. Owned(top) = <<top.t, top.rest>>
    BY <1>7, OwnedIs DEF ApplyK2If3, K2Top
  <2>2. /\ IfExp(top.c, top.t, k2Exp).kids = <<top.t, k2Exp>>
        /\ JoinExp(top.j, <<top.p>>, top.rest, Len(heap) + 1).kids = <<top.rest, Len(heap) + 1>>
    BY DEF IfExp, JoinExp, Node
  <2>. QED  BY <1>7, <2>1, <2>2, JoinOwns, SMTT(40) DEF ApplyK2If3, K2Top
<1>8. CASE Return
  BY <1>8, SameOwns DEF Return
<1>. QED  BY <1>1, <1>2, <1>3, <1>4, <1>5, <1>6, <1>7, <1>8 DEF ApplyK2

\* No code is lost and none is used twice: at every moment each node that
\* convertDefunc has made is owned by exactly one of k2_exp, a frame of the stack
\* and another node.
THEOREM EveryNodeHasOneOwner == Spec => []OwnedOnce
<1>1. Init => OwnedOnce
  BY DEF Init, OwnedOnce, Made
<1>2. ASSUME TypeOK, ReadsNothingMoved, OwnedOnce, [Next]_vars
      PROVE  OwnedOnce'
  <2>1. CASE Terminated \/ UNCHANGED vars
    BY <1>2, <2>1, SameOwns DEF Terminated, vars
  <2>. QED  BY <1>2, <2>1, GoOwns, ApplyKOwns, ApplyK2Owns DEF Next
<1>. QED  BY <1>1, <1>2, TypeCorrect, NothingMovedIsRead, PTL DEF Spec


-----------------------------------------------------------------------------
(***************************************************************************)
(* The conversion throws for the programs that apply an integer, and only  *)
(* for those                                                               *)
(***************************************************************************)

\* A frame with the value of an operator holds a name, if it is not to throw.
Named(f) == f.kind = "App2" => f.f.kind = "var"

AllNamed(ks) == \A i \in 1..Len(ks) : Named(ks[i])

LamsNamed(w) == \A i \in 1..Len(w) : w[i].kind = "Lam1" => AllNamed(w[i].k)

\* An operator is next, or its value has just been found.
AtOperator == k # <<>> /\ Last(k).kind = "App1"

\* When no integer is applied, all operators that have a value are names.
OperatorsNamed ==
    /\ status # "thrown"
    /\ AllNamed(k) /\ LamsNamed(k2)
    /\ AtOperator /\ dispatch = "GO" =>
          \E n \in Exps(prog) : prog.tag[n] = "App" /\ prog.kids[n][1] = goExp
    /\ AtOperator /\ dispatch = "APPLY_K" => value.kind = "var"

ThrowsOnly == AppliesInt(prog) \/ OperatorsNamed

LEMMA NamedPush ==
  ASSUME NEW S, NEW ks \in Seq(S), NEW f \in S
  PROVE  /\ AllNamed(ks) /\ Named(f) => AllNamed(Append(ks, f))
         /\ LamsNamed(ks) /\ (f.kind = "Lam1" => AllNamed(f.k)) => LamsNamed(Append(ks, f))
<1>1. /\ Len(Append(ks, f)) = Len(ks) + 1 /\ Append(ks, f)[Len(ks) + 1] = f
      /\ \A i \in 1..Len(ks) : Append(ks, f)[i] = ks[i]
      /\ Len(ks) \in Nat
  BY Push, LenProperties
<1>2. \A i \in 1..(Len(ks) + 1) : i \in 1..Len(ks) \/ i = Len(ks) + 1
  BY <1>1
<1>. QED  BY <1>1, <1>2 DEF AllNamed, LamsNamed

LEMMA NamedPop ==
  ASSUME NEW S, NEW ks \in Seq(S), ks # <<>>
  PROVE  /\ AllNamed(ks) => AllNamed(Front(ks)) /\ Named(Last(ks))
         /\ LamsNamed(ks) => LamsNamed(Front(ks)) /\ (Last(ks).kind = "Lam1" => AllNamed(Last(ks).k))
<1>1. /\ Last(ks) = ks[Len(ks)] /\ Len(ks) \in Nat \ {0} /\ Len(Front(ks)) = Len(ks) - 1
      /\ \A i \in 1..(Len(ks) - 1) : Front(ks)[i] = ks[i]
  BY Pop
<1>2. Len(ks) \in 1..Len(ks) /\ \A i \in 1..(Len(ks) - 1) : i \in 1..Len(ks)
  BY <1>1
<1>. QED  BY <1>1, <1>2 DEF AllNamed, LamsNamed

LEMMA GoNamed ==
  ASSUME TypeOK, OperatorsNamed, Go
  PROVE  ThrowsOnly'
<1>1. dispatch = "GO" /\ prog' = prog /\ status' # "thrown" /\ status' = status
  BY DEF Go, GoInt, GoVar, GoValue, GoLam, GoApp, GoBop, GoIf, GoOperand, Gos, Runs
<1>2. CASE GoInt
  <2>1. k' = k /\ k2' = k2 /\ dispatch' = "APPLY_K" /\ prog.tag[goExp] = "Int"
    BY <1>2 DEF GoInt, GoValue, Gos
  <2>2. AtOperator => AppliesInt(prog)
    BY <1>1, <2>1 DEF OperatorsNamed, AppliesInt
  <2>. QED  BY <1>1, <2>1, <2>2 DEF ThrowsOnly, OperatorsNamed, AtOperator
<1>3. CASE GoVar
  <2>1. k' = k /\ k2' = k2 /\ dispatch' = "APPLY_K" /\ value' = VarValue(prog.name[goExp])
    BY <1>3 DEF GoVar, GoValue
  <2>2. VarValue(prog.name[goExp]).kind = "var"
    BY DEF VarValue, Val
  <2>. QED  BY <1>1, <2>1, <2>2 DEF ThrowsOnly, OperatorsNamed, AtOperator
<1>4. CASE GoLam
  <2>1. K2Lam1(k, prog.name[goExp]) \in K2Frame
    BY <1>1, NodeFields, K2FrameTypes DEF TypeOK
  <2>2. K2Lam1(k, prog.name[goExp]).k = k
    BY DEF K2Lam1
  <2>3. LamsNamed(k2')
    BY <1>4, <2>1, <2>2, NamedPush DEF GoLam, OperatorsNamed, TypeOK
  <2>4. AllNamed(k') /\ ~AtOperator'
    BY <1>4 DEF GoLam, AllNamed, AtOperator
  <2>. QED  BY <1>1, <2>3, <2>4 DEF ThrowsOnly, OperatorsNamed
<1>5. ASSUME NEW tag, NEW frame \in KFrame, frame.kind # "App2", GoOperand(tag, frame),
             frame.kind = "App1" => tag = "App"
      PROVE  ThrowsOnly'
  <2>1. /\ k' = Append(k, frame) /\ k2' = k2 /\ prog.tag[goExp] = tag
        /\ goExp' = prog.kids[goExp][1] /\ goExp \in Exps(prog) /\ dispatch' = "GO"
    BY <1>1, <1>5 DEF GoOperand, Gos, TypeOK
  <2>2. AllNamed(k') /\ Last(k') = frame
    BY <1>5, <2>1, NamedPush, Push DEF OperatorsNamed, Named, TypeOK
  <2>. QED  BY <1>1, <1>5, <2>1, <2>2 DEF ThrowsOnly, OperatorsNamed, AtOperator
<1>6. CASE GoApp
  <2>1. KApp1(prog.kids[goExp][2]) \in KFrame /\ KApp1(prog.kids[goExp][2]).kind # "App2"
    BY <1>6, NodeFields, KFrameTypes DEF GoApp, GoOperand, Gos, Runs, Arity, KApp1
  <2>. QED  BY <1>5, <1>6, <2>1 DEF GoApp
<1>7. CASE GoBop
  <2>1. KBop1(prog.kids[goExp][2], prog.data[goExp]) \in KFrame
    BY <1>7, NodeFields, KFrameTypes DEF GoBop, GoOperand, Gos, Runs, Arity
  <2>2. KBop1(prog.kids[goExp][2], prog.data[goExp]).kind = "Bop1"
    BY DEF KBop1
  <2>. QED  BY <1>5, <1>7, <2>1, <2>2 DEF GoBop
<1>8. CASE GoIf
  <2>1. KIf1(prog.kids[goExp][2], prog.kids[goExp][3]) \in KFrame
    BY <1>8, NodeFields, KFrameTypes DEF GoIf, GoOperand, Gos, Runs, Arity
  <2>2. KIf1(prog.kids[goExp][2], prog.kids[goExp][3]).kind = "If1"
    BY DEF KIf1
  <2>. QED  BY <1>5, <1>8, <2>1, <2>2 DEF GoIf
<1>. QED  BY <1>2, <1>3, <1>4, <1>6, <1>7, <1>8 DEF Go

LEMMA ApplyKNamed ==
  ASSUME TypeOK, OperatorsNamed, ApplyK
  PROVE  OperatorsNamed'
<1>1. dispatch = "APPLY_K" /\ AllNamed(k) /\ LamsNamed(k2)
  BY DEF ApplyK, ApplyHalt, ApplyKIf2, ApplyKApp1, ApplyKBop1, NextOperand, ApplyKApp2,
         ApplyInt, ApplyKBop2, ApplyKIf1, KTop, Runs, OperatorsNamed
<1>2. k # <<>> => AllNamed(Front(k)) /\ Named(Last(k)) /\ Front(k) \in Seq(KFrame)
  BY <1>1, NamedPop, Tops DEF TypeOK
<1>3. CASE ApplyHalt
  BY <1>3 DEF ApplyHalt, EndTerm, OperatorsNamed, AtOperator
<1>4. CASE ApplyKIf2
  BY <1>1, <1>2, <1>4 DEF ApplyKIf2, EndTerm, KTop, OperatorsNamed
<1>5. ASSUME NEW kind, NEW next, NEW frame \in KFrame, Named(frame), frame.kind # "App1",
             NextOperand(kind, next, frame)
      PROVE  OperatorsNamed'
  <2>1. /\ k # <<>> /\ k' = Append(Front(k), frame) /\ k2' = k2 /\ dispatch' = "GO"
        /\ status' = status
    BY <1>5 DEF NextOperand, KTop
  <2>2. AllNamed(k') /\ Last(k') = frame
    BY <1>2, <1>5, <2>1, NamedPush, Push
  <2>. QED  BY <1>1, <1>5, <2>1, <2>2 DEF OperatorsNamed, AtOperator
<1>6. CASE ApplyKApp1
  <2>1. value.kind = "var"
    BY <1>1, <1>6 DEF ApplyKApp1, NextOperand, KTop, OperatorsNamed, AtOperator
  <2>2. KApp2(value) \in KFrame /\ Named(KApp2(value)) /\ KApp2(value).kind # "App1"
    BY <2>1, KFrameTypes DEF TypeOK, KApp2, Named
  <2>. QED  BY <1>5, <1>6, <2>2 DEF ApplyKApp1
<1>7. CASE ApplyKBop1
  <2>1. KBop2(value, Last(k).bop) \in KFrame
    BY <1>7, Tops, KFrameFields, KFrameTypes DEF ApplyKBop1, NextOperand, KTop, TypeOK
  <2>2. Named(KBop2(value, Last(k).bop)) /\ KBop2(value, Last(k).bop).kind # "App1"
    BY DEF KBop2, Named
  <2>. QED  BY <1>5, <1>7, <2>1, <2>2 DEF ApplyKBop1
<1>8. ASSUME NEW frame \in K2Frame, frame.kind # "Lam1", NEW names, k # <<>>, Bind(frame, names)
      PROVE  OperatorsNamed'
  <2>1. LamsNamed(k2')
    BY <1>1, <1>8, NamedPush DEF Bind, TypeOK
  <2>2. value'.kind = "var"
    BY <1>8 DEF Bind, VarValue, Val
  <2>. QED  BY <1>1, <1>2, <1>8, <2>1, <2>2 DEF Bind, OperatorsNamed
<1>9. counter \in Nat /\ Tmp(counter) \in Ident /\ Tmp(counter + 1) \in Ident
  BY TmpType DEF TypeOK
<1>10. CASE ApplyKApp2
  <2>1. K2App1(Tmp(counter), Last(k).f.var, value) \in K2Frame
    BY <1>9, <1>10, Tops, KFrameFields, K2FrameTypes, ValueTypes DEF ApplyKApp2, KTop, TypeOK
  <2>2. K2App1(Tmp(counter), Last(k).f.var, value).kind # "Lam1"
    BY DEF K2App1
  <2>. QED  BY <1>8, <1>10, <2>1, <2>2 DEF ApplyKApp2, KTop
<1>11. CASE ApplyKBop2
  <2>1. K2Bop1(Tmp(counter), Last(k).bop, Last(k).x, value) \in K2Frame
    BY <1>9, <1>11, Tops, KFrameFields, K2FrameTypes DEF ApplyKBop2, KTop, TypeOK
  <2>2. K2Bop1(Tmp(counter), Last(k).bop, Last(k).x, value).kind # "Lam1"
    BY DEF K2Bop1
  <2>. QED  BY <1>8, <1>11, <2>1, <2>2 DEF ApplyKBop2, KTop
<1>12. CASE ApplyKIf1
  <2>1. K2If1(Last(k).t, Last(k).f, Tmp(counter), Tmp(counter + 1), value) \in K2Frame
    BY <1>9, <1>12, Tops, KFrameFields, K2FrameTypes DEF ApplyKIf1, KTop, TypeOK
  <2>2. K2If1(Last(k).t, Last(k).f, Tmp(counter), Tmp(counter + 1), value).kind # "Lam1"
    BY DEF K2If1
  <2>. QED  BY <1>8, <1>12, <2>1, <2>2 DEF ApplyKIf1, KTop
<1>13. CASE ApplyInt
  BY <1>2, <1>13 DEF ApplyInt, KTop, Named
<1>. QED  BY <1>3, <1>4, <1>6, <1>7, <1>10, <1>11, <1>12, <1>13 DEF ApplyK

LEMMA ApplyK2Named ==
  ASSUME TypeOK, OperatorsNamed, ApplyK2
  PROVE  OperatorsNamed'
<1>1. AllNamed(k) /\ LamsNamed(k2) /\ status # "thrown"
  BY DEF OperatorsNamed
<1>2. k2 # <<>> => /\ LamsNamed(Front(k2)) /\ (Last(k2).kind = "Lam1" => AllNamed(Last(k2).k))
                   /\ Front(k2) \in Seq(K2Frame) /\ Last(k2) \in K2Frame
  BY <1>1, NamedPop, Tops DEF TypeOK
<1>3. CASE ApplyK2Lam1
  <2>. PICK frame : frame = K2Lam2(Tmp(counter), Last(k2).v, k2Exp)
    OBVIOUS
  <2>1. /\ k2 # <<>> /\ Last(k2).kind = "Lam1" /\ k' = Last(k2).k
        /\ k2' = Append(Front(k2), frame) /\ status' = status
    BY <1>3 DEF ApplyK2Lam1, K2Top
  <2>2. frame \in K2Frame
    BY <1>2, <2>1, K2FrameFields, K2FrameTypes, TmpType DEF TypeOK
  <2>3. frame.kind = "Lam2"
    BY DEF K2Lam2
  <2>4. AllNamed(k') /\ LamsNamed(k2')
    BY <1>2, <2>1, <2>2, <2>3, NamedPush
  <2>5. value'.kind = "var" /\ dispatch' = "APPLY_K"
    BY <1>3 DEF ApplyK2Lam1, VarValue, Val
  <2>. QED  BY <1>1, <2>1, <2>4, <2>5 DEF OperatorsNamed
<1>4. CASE ApplyK2Lam2 \/ ApplyK2App1 \/ ApplyK2Bop1 \/ ApplyK2If3 \/ Return
  <2>1. /\ k' = k /\ LamsNamed(k2') /\ dispatch' = "APPLY_K2" /\ status' # "thrown"
    BY <1>1, <1>2, <1>4 DEF ApplyK2Lam2, ApplyK2App1, ApplyK2Bop1, Prepend, ApplyK2If3, Return,
                            K2Top, Runs
  <2>. QED  BY <1>1, <2>1 DEF OperatorsNamed
<1>5. ASSUME NEW kind, NEW exp, NEW frame \in K2Frame, frame.kind # "Lam1",
             Branch(kind, exp, frame)
      PROVE  OperatorsNamed'
  <2>1. /\ k2 # <<>> /\ k' = <<KIf2(frame.j)>> /\ k2' = Append(Front(k2), frame)
        /\ status' = status
    BY <1>5 DEF Branch, K2Top
  <2>2. Len(k') = 1 /\ k'[1].kind = "If2" /\ Last(k') = k'[1]
    BY <2>1 DEF KIf2, Last
  <2>3. AllNamed(k') /\ ~AtOperator'
    BY <2>2 DEF AllNamed, Named, AtOperator
  <2>4. LamsNamed(k2')
    BY <1>2, <1>5, <2>1, NamedPush
  <2>. QED  BY <1>1, <2>1, <2>3, <2>4 DEF OperatorsNamed
<1>6. CASE ApplyK2If1
  <2>. PICK f : f = Last(k2)
    OBVIOUS
  <2>1. K2If2(f.f, f.j, f.p, f.c, k2Exp) \in K2Frame
    BY <1>2, <1>6, K2FrameFields, K2FrameTypes DEF ApplyK2If1, Branch, K2Top, TypeOK
  <2>2. K2If2(f.f, f.j, f.p, f.c, k2Exp).kind = "If2"
    BY DEF K2If2
  <2>. QED  BY <1>5, <1>6, <2>1, <2>2 DEF ApplyK2If1
<1>7. CASE ApplyK2If2
  <2>. PICK f : f = Last(k2)
    OBVIOUS
  <2>1. K2If3(k2Exp, f.j, f.p, f.c, f.rest) \in K2Frame
    BY <1>2, <1>7, K2FrameFields, K2FrameTypes DEF ApplyK2If2, Branch, K2Top, TypeOK
  <2>2. K2If3(k2Exp, f.j, f.p, f.c, f.rest).kind = "If3"
    BY DEF K2If3
  <2>. QED  BY <1>5, <1>7, <2>1, <2>2 DEF ApplyK2If2
<1>. QED  BY <1>3, <1>4, <1>6, <1>7 DEF ApplyK2

(***************************************************************************)
(* The other direction: an application of an integer is still to come as   *)
(* long as nothing was thrown.                                             *)
(***************************************************************************)

\* The subtree of n, and the applications of an integer.
Sub(p, n) == n..p.last[n]

Bad(p, n) == p.tag[n] = "App" /\ p.tag[p.kids[n][1]] = "Int"

\* Frame f waits for a subtree with node n in it, or is going to throw.
Covers(p, f, n) ==
    \/ f.kind = "App1" /\ n \in Sub(p, f.x)
    \/ f.kind = "App2" /\ f.f.kind # "var"
    \/ f.kind = "Bop1" /\ n \in Sub(p, f.y)
    \/ f.kind = "If1" /\ (n \in Sub(p, f.t) \/ n \in Sub(p, f.f))

CoversK(p, ks, n) == \E i \in 1..Len(ks) : Covers(p, ks[i], n)

Covers2(p, f, n) ==
    \/ f.kind = "Lam1" /\ CoversK(p, f.k, n)
    \/ f.kind = "If1" /\ (n \in Sub(p, f.t) \/ n \in Sub(p, f.f))
    \/ f.kind = "If2" /\ n \in Sub(p, f.f)

CoversK2(p, w, n) == \E i \in 1..Len(w) : Covers2(p, w[i], n)

\* The operator that is about to get a value, or just got one, is an integer.
BadOperator ==
    /\ AtOperator
    /\ \/ dispatch = "GO" /\ prog.tag[goExp] = "Int"
       \/ dispatch = "APPLY_K" /\ value.kind # "var"

StillToCome(n) ==
    \/ dispatch = "GO" /\ n \in Sub(prog, goExp)
    \/ BadOperator
    \/ CoversK(prog, k, n)
    \/ CoversK2(prog, k2, n)

ThrowsAll == \A n \in Exps(prog) : Bad(prog, n) => StillToCome(n)

LEMMA CoversPush ==
  ASSUME NEW S, NEW w \in Seq(S), NEW f \in S, NEW p, NEW n
  PROVE  /\ CoversK(p, w, n) \/ Covers(p, f, n) => CoversK(p, Append(w, f), n)
         /\ CoversK2(p, w, n) \/ Covers2(p, f, n) => CoversK2(p, Append(w, f), n)
<1>1. /\ Len(Append(w, f)) = Len(w) + 1 /\ Append(w, f)[Len(w) + 1] = f
      /\ \A i \in 1..Len(w) : Append(w, f)[i] = w[i]
      /\ Len(w) \in Nat
  BY Push, LenProperties
<1>2. /\ Len(w) + 1 \in 1..Len(Append(w, f))
      /\ \A i \in 1..Len(w) : i \in 1..Len(Append(w, f))
  BY <1>1
<1>. QED  BY <1>1, <1>2 DEF CoversK, CoversK2

LEMMA CoversPop ==
  ASSUME NEW S, NEW w \in Seq(S), w # <<>>, NEW p, NEW n
  PROVE  /\ CoversK(p, w, n) => CoversK(p, Front(w), n) \/ Covers(p, Last(w), n)
         /\ CoversK2(p, w, n) => CoversK2(p, Front(w), n) \/ Covers2(p, Last(w), n)
<1>1. /\ Last(w) = w[Len(w)] /\ Len(w) \in Nat \ {0} /\ Len(Front(w)) = Len(w) - 1
      /\ \A i \in 1..(Len(w) - 1) : Front(w)[i] = w[i]
  BY Pop
<1>2. \A i \in 1..Len(w) : i = Len(w) \/ i \in 1..Len(Front(w))
  BY <1>1
<1>. QED  BY <1>1, <1>2 DEF CoversK, CoversK2

\* A subtree is its root and the subtrees of its children.
LEMMA SubIs ==
  ASSUME NEW p, IsAst(p), NEW e \in Exps(p), NEW n \in Sub(p, e), n # e
  PROVE  \E i \in 1..Arity[p.tag[e]] : n \in Sub(p, p.kids[e][i])
<1>1. /\ e \in Nat /\ n \in Nat /\ e < n /\ n <= p.last[e] /\ p.last[e] \in Nat
  BY NodeFacts DEF Sub
<1>2. /\ p.kids[e] \in Seq(Exps(p)) /\ Len(p.kids[e]) = Arity[p.tag[e]] /\ p.tag[e] \in Tag
      /\ p.kids[e] = <<>> => p.last[e] = e
      /\ p.kids[e] # <<>> => /\ p.kids[e][Len(p.kids[e])] = e + 1
                             /\ p.last[e] = p.last[p.kids[e][1]]
      /\ \A i \in 1..(Len(p.kids[e]) - 1) : p.kids[e][i] = p.last[p.kids[e][i + 1]] + 1
  BY NodeFacts
<1>3. \A i \in 1..Len(p.kids[e]) : p.kids[e][i] \in Exps(p)
  BY <1>2, ElementOfSeq
<1>4. \A i \in 1..Len(p.kids[e]) : p.kids[e][i] \in Nat /\ p.last[p.kids[e][i]] \in Nat
  BY <1>3, NodeFacts
<1>5. Len(p.kids[e]) \in {1, 2, 3}
  <2>1. Len(p.kids[e]) \in 0..3
    BY <1>2 DEF Arity, Tag
  <2>2. Len(p.kids[e]) # 0
    BY <1>1, <1>2, EmptySeq
  <2>. QED  BY <2>1, <2>2
<1>6. p.kids[e] # <<>>
  BY <1>5
<1>7. CASE Len(p.kids[e]) = 1
  <2>1. n \in Sub(p, p.kids[e][1])
    BY <1>1, <1>2, <1>4, <1>6, <1>7 DEF Sub
  <2>. QED  BY <1>2, <1>7, <2>1
<1>8. CASE Len(p.kids[e]) = 2
  <2>1. p.kids[e][2] = e + 1 /\ p.kids[e][1] = p.last[p.kids[e][2]] + 1
    BY <1>2, <1>6, <1>8
  <2>2. n \in Sub(p, p.kids[e][1]) \/ n \in Sub(p, p.kids[e][2])
    BY <1>1, <1>2, <1>4, <1>6, <1>8, <2>1, SMTT(40) DEF Sub
  <2>. QED  BY <1>2, <1>8, <2>2
<1>9. CASE Len(p.kids[e]) = 3
  <2>1. /\ p.kids[e][3] = e + 1 /\ p.kids[e][2] = p.last[p.kids[e][3]] + 1
        /\ p.kids[e][1] = p.last[p.kids[e][2]] + 1
    BY <1>2, <1>6, <1>9
  <2>. PICK a, b, c : a = p.kids[e][1] /\ b = p.kids[e][2] /\ c = p.kids[e][3]
    OBVIOUS
  <2>2. /\ a \in Nat /\ b \in Nat /\ c \in Nat
        /\ p.last[a] \in Nat /\ p.last[b] \in Nat /\ p.last[c] \in Nat
    BY <1>4, <1>9
  <2>3. c = e + 1 /\ b = p.last[c] + 1 /\ a = p.last[b] + 1 /\ p.last[e] = p.last[a]
    BY <1>2, <1>6, <2>1
  <2>4. n \in a..p.last[a] \/ n \in b..p.last[b] \/ n \in c..p.last[c]
    BY ONLY <1>1, <2>2, <2>3
  <2>5. n \in Sub(p, a) \/ n \in Sub(p, b) \/ n \in Sub(p, c)
    BY <2>4 DEF Sub
  <2>. QED  BY <1>2, <1>9, <2>5
<1>. QED  BY <1>5, <1>7, <1>8, <1>9

LEMMA GoCovers ==
  ASSUME TypeOK, Go, NEW n \in Exps(prog), Bad(prog, n), StillToCome(n)
  PROVE  StillToCome(n)'
<1>1. /\ dispatch = "GO" /\ prog' = prog /\ IsAst(prog) /\ goExp \in Exps(prog)
  BY NodeFields DEF Go, GoInt, GoVar, GoValue, GoLam, GoApp, GoBop, GoIf, GoOperand, Gos, Runs
<1>2. n = goExp => prog.tag[goExp] = "App"
  BY DEF Bad
<1>3. n \in Sub(prog, goExp) /\ n # goExp =>
         \E i \in 1..Arity[prog.tag[goExp]] : n \in Sub(prog, prog.kids[goExp][i])
  BY <1>1, SubIs
<1>4. BadOperator => prog.tag[goExp] = "Int"
  BY <1>1 DEF BadOperator
<1>5. CASE GoInt
  <2>1. /\ k' = k /\ k2' = k2 /\ dispatch' = "APPLY_K" /\ prog.tag[goExp] = "Int"
        /\ value'.kind = "int"
    BY <1>5 DEF GoInt, GoValue, Gos, IntValue, Val
  <2>2. n \notin Sub(prog, goExp)
    BY <1>2, <1>3, <2>1 DEF Arity
  <2>. QED  BY <1>1, <2>1, <2>2 DEF StillToCome, BadOperator, AtOperator
<1>6. CASE GoVar
  <2>1. k' = k /\ k2' = k2 /\ prog.tag[goExp] = "Var"
    BY <1>6 DEF GoVar, GoValue, Gos
  <2>2. n \notin Sub(prog, goExp)
    BY <1>2, <1>3, <2>1 DEF Arity
  <2>. QED  BY <1>1, <1>4, <2>1, <2>2 DEF StillToCome
<1>7. CASE GoLam
  <2>. PICK frame : frame = K2Lam1(k, prog.name[goExp])
    OBVIOUS
  <2>1. /\ prog.tag[goExp] = "Lam" /\ goExp' = prog.kids[goExp][1] /\ dispatch' = "GO"
        /\ k2' = Append(k2, frame)
    BY <1>1, <1>7 DEF GoLam, Gos
  <2>2. frame \in K2Frame /\ frame.kind = "Lam1" /\ frame.k = k
    BY <1>1, NodeFields, K2FrameTypes DEF TypeOK, K2Lam1
  <2>3. n \in Sub(prog, goExp) => n \in Sub(prog, goExp')
    BY <1>2, <1>3, <2>1 DEF Arity
  <2>4. CoversK(prog, k, n) => CoversK2(prog, k2', n)
    BY <2>1, <2>2, CoversPush DEF Covers2, TypeOK
  <2>5. CoversK2(prog, k2, n) => CoversK2(prog, k2', n)
    BY <2>1, <2>2, CoversPush DEF TypeOK
  <2>. QED  BY <1>1, <1>4, <2>1, <2>3, <2>4, <2>5 DEF StillToCome
<1>8. ASSUME NEW tag \in {"App", "Bop", "If"}, NEW frame \in KFrame, GoOperand(tag, frame),
             tag = "App" <=> frame.kind = "App1",
             \A i \in 2..Arity[tag] :
                n \in Sub(prog, prog.kids[goExp][i]) => Covers(prog, frame, n)
      PROVE  StillToCome(n)'
  <2>1. /\ prog.tag[goExp] = tag /\ goExp' = prog.kids[goExp][1] /\ dispatch' = "GO"
        /\ k' = Append(k, frame) /\ k2' = k2
    BY <1>1, <1>8 DEF GoOperand, Gos
  <2>2. k' # <<>> /\ Last(k') = frame
    BY <1>8, <2>1, Push DEF TypeOK
  <2>3. CASE n = goExp
    <3>1. frame.kind = "App1" /\ prog.tag[goExp'] = "Int"
      BY <1>2, <1>8, <2>1, <2>3 DEF Bad
    <3>2. BadOperator'
      BY <1>1, <2>1, <2>2, <3>1 DEF BadOperator, AtOperator
    <3>. QED  BY <3>2 DEF StillToCome
  <2>4. CASE n \in Sub(prog, goExp) /\ n # goExp
    <3>1. PICK i \in 1..Arity[tag] : n \in Sub(prog, prog.kids[goExp][i])
      BY <1>3, <2>1, <2>4
    <3>2. i = 1 \/ i \in 2..Arity[tag]
      BY DEF Arity
    <3>3. CASE i = 1
      BY <1>1, <2>1, <3>1, <3>3 DEF StillToCome
    <3>4. CASE i \in 2..Arity[tag]
      <4>1. CoversK(prog, k', n)
        BY <1>8, <2>1, <3>1, <3>4, CoversPush DEF TypeOK
      <4>. QED  BY <1>1, <4>1 DEF StillToCome
    <3>. QED  BY <3>2, <3>3, <3>4
  <2>5. CASE CoversK(prog, k, n)
    <3>1. CoversK(prog, k', n)
      BY <1>8, <2>1, <2>5, CoversPush DEF TypeOK
    <3>. QED  BY <1>1, <3>1 DEF StillToCome
  <2>6. CASE CoversK2(prog, k2, n)
    BY <1>1, <2>1, <2>6 DEF StillToCome
  <2>. QED  BY <1>4, <1>8, <2>1, <2>3, <2>4, <2>5, <2>6 DEF StillToCome
<1>9. CASE GoApp
  <2>1. KApp1(prog.kids[goExp][2]) \in KFrame
    BY <1>9, NodeFields, KFrameTypes DEF GoApp, GoOperand, Gos, Runs, Arity
  <2>2. \A i \in 2..Arity["App"] :
           n \in Sub(prog, prog.kids[goExp][i]) => Covers(prog, KApp1(prog.kids[goExp][2]), n)
    BY DEF Arity, Covers, KApp1
  <2>3. KApp1(prog.kids[goExp][2]).kind = "App1"
    BY DEF KApp1
  <2>. QED  BY <1>8, <1>9, <2>1, <2>2, <2>3 DEF GoApp
<1>10. CASE GoBop
  <2>. PICK frame : frame = KBop1(prog.kids[goExp][2], prog.data[goExp])
    OBVIOUS
  <2>1. frame \in KFrame
    BY <1>10, NodeFields, KFrameTypes DEF GoBop, GoOperand, Gos, Runs, Arity
  <2>2. \A i \in 2..Arity["Bop"] :
           n \in Sub(prog, prog.kids[goExp][i]) => Covers(prog, frame, n)
    BY DEF Arity, Covers, KBop1
  <2>3. frame.kind = "Bop1"
    BY DEF KBop1
  <2>. QED  BY <1>8, <1>10, <2>1, <2>2, <2>3 DEF GoBop
<1>11. CASE GoIf
  <2>. PICK frame : frame = KIf1(prog.kids[goExp][2], prog.kids[goExp][3])
    OBVIOUS
  <2>1. frame \in KFrame
    BY <1>11, NodeFields, KFrameTypes DEF GoIf, GoOperand, Gos, Runs, Arity
  <2>2. \A i \in 2..Arity["If"] :
           n \in Sub(prog, prog.kids[goExp][i]) => Covers(prog, frame, n)
    <3>1. \A i \in 2..Arity["If"] : i = 2 \/ i = 3
      BY DEF Arity
    <3>. QED  BY <3>1 DEF Covers, KIf1
  <2>3. frame.kind = "If1"
    BY DEF KIf1
  <2>. QED  BY <1>8, <1>11, <2>1, <2>2, <2>3 DEF GoIf
<1>. QED  BY <1>5, <1>6, <1>7, <1>9, <1>10, <1>11 DEF Go

LEMMA ApplyKCovers ==
  ASSUME TypeOK, ApplyK, NEW n \in Exps(prog), StillToCome(n)
  PROVE  StillToCome(n)'
<1>1. dispatch = "APPLY_K" /\ prog' = prog
  BY DEF ApplyK, ApplyHalt, ApplyKIf2, ApplyKApp1, ApplyKBop1, NextOperand, ApplyKApp2,
         ApplyInt, ApplyKBop2, ApplyKIf1, Bind, KTop, Runs
<1>2. BadOperator \/ CoversK(prog, k, n) \/ CoversK2(prog, k2, n)
  BY <1>1 DEF StillToCome
<1>3. k # <<>> /\ CoversK(prog, k, n) =>
         CoversK(prog, Front(k), n) \/ Covers(prog, Last(k), n)
  BY CoversPop DEF TypeOK
<1>4. BadOperator => Last(k).kind = "App1" /\ value.kind # "var" /\ k # <<>>
  BY <1>1 DEF BadOperator, AtOperator
<1>5. CASE ApplyHalt
  <2>1. k = <<>> /\ k' = k /\ k2' = k2
    BY <1>5 DEF ApplyHalt
  <2>. QED  BY <1>1, <1>2, <1>4, <2>1 DEF StillToCome
<1>6. CASE ApplyKIf2
  <2>1. Last(k).kind = "If2" /\ k # <<>> /\ k' = Front(k) /\ k2' = k2
    BY <1>6 DEF ApplyKIf2, KTop
  <2>2. ~Covers(prog, Last(k), n)
    BY <2>1 DEF Covers
  <2>. QED  BY <1>1, <1>2, <1>3, <1>4, <2>1, <2>2 DEF StillToCome
<1>7. ASSUME NEW kind, NEW next, NEW frame \in KFrame, NextOperand(kind, next, frame),
             Covers(prog, Last(k), n) => n \in Sub(prog, next),
             BadOperator => Covers(prog, frame, n)
      PROVE  StillToCome(n)'
  <2>1. /\ k # <<>> /\ k' = Append(Front(k), frame) /\ k2' = k2 /\ dispatch' = "GO"
        /\ goExp' = next
    BY <1>7 DEF NextOperand, KTop
  <2>2. CoversK(prog, Front(k), n) \/ Covers(prog, frame, n) => CoversK(prog, k', n)
    BY <2>1, Tops, CoversPush
  <2>. QED  BY <1>1, <1>2, <1>3, <1>7, <2>1, <2>2 DEF StillToCome
<1>8. CASE ApplyKApp1
  <2>1. KApp2(value) \in KFrame
    BY KFrameTypes DEF TypeOK
  <2>2. BadOperator => Covers(prog, KApp2(value), n)
    BY <1>4 DEF Covers, KApp2
  <2>3. Covers(prog, Last(k), n) => n \in Sub(prog, Last(k).x)
    BY <1>8 DEF ApplyKApp1, NextOperand, KTop, Covers
  <2>. QED  BY <1>7, <1>8, <2>1, <2>2, <2>3 DEF ApplyKApp1
<1>9. CASE ApplyKBop1
  <2>1. KBop2(value, Last(k).bop) \in KFrame
    BY <1>9, Tops, KFrameFields, KFrameTypes DEF ApplyKBop1, NextOperand, KTop, TypeOK
  <2>2. ~BadOperator
    BY <1>4, <1>9 DEF ApplyKBop1, NextOperand, KTop
  <2>3. Covers(prog, Last(k), n) => n \in Sub(prog, Last(k).y)
    BY <1>9 DEF ApplyKBop1, NextOperand, KTop, Covers
  <2>. QED  BY <1>7, <1>9, <2>1, <2>2, <2>3 DEF ApplyKBop1
<1>10. ASSUME NEW frame \in K2Frame, NEW names, k # <<>>, Last(k).kind # "App1",
              Bind(frame, names), Covers(prog, Last(k), n) => Covers2(prog, frame, n)
       PROVE  StillToCome(n)'
  <2>1. k' = Front(k) /\ k2' = Append(k2, frame)
    BY <1>10 DEF Bind
  <2>2. CoversK2(prog, k2, n) \/ Covers2(prog, frame, n) => CoversK2(prog, k2', n)
    BY <2>1, CoversPush DEF TypeOK
  <2>. QED  BY <1>1, <1>2, <1>3, <1>4, <1>10, <2>1, <2>2 DEF StillToCome
<1>11. counter \in Nat /\ Tmp(counter) \in Ident /\ Tmp(counter + 1) \in Ident
  BY TmpType DEF TypeOK
<1>12. CASE ApplyKApp2
  <2>1. K2App1(Tmp(counter), Last(k).f.var, value) \in K2Frame
    BY <1>11, <1>12, Tops, KFrameFields, K2FrameTypes, ValueTypes DEF ApplyKApp2, KTop, TypeOK
  <2>2. ~Covers(prog, Last(k), n) /\ k # <<>> /\ Last(k).kind # "App1"
    BY <1>12 DEF ApplyKApp2, KTop, Covers
  <2>. QED  BY <1>10, <1>12, <2>1, <2>2 DEF ApplyKApp2
<1>13. CASE ApplyKBop2
  <2>1. K2Bop1(Tmp(counter), Last(k).bop, Last(k).x, value) \in K2Frame
    BY <1>11, <1>13, Tops, KFrameFields, K2FrameTypes DEF ApplyKBop2, KTop, TypeOK
  <2>2. ~Covers(prog, Last(k), n) /\ k # <<>> /\ Last(k).kind # "App1"
    BY <1>13 DEF ApplyKBop2, KTop, Covers
  <2>. QED  BY <1>10, <1>13, <2>1, <2>2 DEF ApplyKBop2
<1>14. CASE ApplyKIf1
  <2>. PICK frame : frame = K2If1(Last(k).t, Last(k).f, Tmp(counter), Tmp(counter + 1), value)
    OBVIOUS
  <2>1. frame \in K2Frame
    BY <1>11, <1>14, Tops, KFrameFields, K2FrameTypes DEF ApplyKIf1, KTop, TypeOK
  <2>2. /\ Covers(prog, Last(k), n) => Covers2(prog, frame, n)
        /\ k # <<>> /\ Last(k).kind # "App1"
    BY <1>14 DEF ApplyKIf1, KTop, Covers, Covers2, K2If1
  <2>. QED  BY <1>10, <1>14, <2>1, <2>2 DEF ApplyKIf1
<1>15. CASE ApplyInt
  BY <1>15 DEF ApplyInt, StillToCome, BadOperator, AtOperator
<1>. QED  BY <1>5, <1>6, <1>8, <1>9, <1>12, <1>13, <1>14, <1>15 DEF ApplyK

LEMMA ApplyK2Covers ==
  ASSUME TypeOK, JumpDiscipline, ApplyK2, NEW n \in Exps(prog), StillToCome(n)
  PROVE  StillToCome(n)'
<1>1. dispatch = "APPLY_K2" /\ prog' = prog
  BY DEF ApplyK2, ApplyK2Lam1, ApplyK2Lam2, ApplyK2App1, ApplyK2Bop1, Prepend,
         ApplyK2If1, ApplyK2If2, Branch, ApplyK2If3, Return, K2Top, Runs
<1>2. CoversK2(prog, k2, n)
  <2>1. k = <<>> /\ ~BadOperator
    BY <1>1 DEF JumpDiscipline, BadOperator
  <2>2. ~CoversK(prog, k, n)
    BY <2>1 DEF CoversK
  <2>. QED  BY <1>1, <2>1, <2>2 DEF StillToCome
<1>3. k2 # <<>> => /\ CoversK2(prog, Front(k2), n) \/ Covers2(prog, Last(k2), n)
                   /\ Last(k2) \in K2Frame /\ Front(k2) \in Seq(K2Frame)
  BY <1>2, CoversPop, Tops DEF TypeOK
<1>4. CASE ApplyK2Lam1
  <2>. PICK frame : frame = K2Lam2(Tmp(counter), Last(k2).v, k2Exp)
    OBVIOUS
  <2>1. /\ k2 # <<>> /\ Last(k2).kind = "Lam1" /\ k' = Last(k2).k
        /\ k2' = Append(Front(k2), frame)
    BY <1>4 DEF ApplyK2Lam1, K2Top
  <2>2. frame \in K2Frame
    BY <1>3, <2>1, K2FrameFields, K2FrameTypes, TmpType DEF TypeOK
  <2>3. Covers2(prog, Last(k2), n) => CoversK(prog, k', n)
    BY <2>1 DEF Covers2
  <2>4. CoversK2(prog, Front(k2), n) => CoversK2(prog, k2', n)
    BY <1>3, <2>1, <2>2, CoversPush
  <2>. QED  BY <1>1, <1>3, <2>1, <2>3, <2>4 DEF StillToCome
<1>5. CASE ApplyK2Lam2 \/ ApplyK2App1 \/ ApplyK2Bop1 \/ ApplyK2If3
  <2>1. k2 # <<>> /\ k2' = Front(k2) /\ Last(k2).kind \in {"Lam2", "App1", "Bop1", "If3"}
    BY <1>5 DEF ApplyK2Lam2, ApplyK2App1, ApplyK2Bop1, Prepend, ApplyK2If3, K2Top
  <2>2. ~Covers2(prog, Last(k2), n)
    BY <2>1 DEF Covers2
  <2>. QED  BY <1>1, <1>3, <2>1, <2>2 DEF StillToCome
<1>6. ASSUME NEW kind, NEW exp, NEW frame \in K2Frame, Branch(kind, exp, frame),
             Covers2(prog, Last(k2), n) => n \in Sub(prog, exp) \/ Covers2(prog, frame, n)
      PROVE  StillToCome(n)'
  <2>1. /\ k2 # <<>> /\ k2' = Append(Front(k2), frame) /\ goExp' = exp /\ dispatch' = "GO"
    BY <1>6 DEF Branch, K2Top
  <2>2. CoversK2(prog, Front(k2), n) \/ Covers2(prog, frame, n) => CoversK2(prog, k2', n)
    BY <1>3, <2>1, CoversPush
  <2>. QED  BY <1>1, <1>3, <1>6, <2>1, <2>2 DEF StillToCome
<1>7. CASE ApplyK2If1
  <2>. PICK f : f = Last(k2)
    OBVIOUS
  <2>. PICK frame : frame = K2If2(f.f, f.j, f.p, f.c, k2Exp)
    OBVIOUS
  <2>1. frame \in K2Frame
    BY <1>3, <1>7, K2FrameFields, K2FrameTypes DEF ApplyK2If1, Branch, K2Top, TypeOK
  <2>2. Covers2(prog, Last(k2), n) => n \in Sub(prog, f.t) \/ Covers2(prog, frame, n)
    BY <1>7 DEF ApplyK2If1, Branch, K2Top, Covers2, K2If2
  <2>. QED  BY <1>6, <1>7, <2>1, <2>2 DEF ApplyK2If1
<1>8. CASE ApplyK2If2
  <2>. PICK f : f = Last(k2)
    OBVIOUS
  <2>1. K2If3(k2Exp, f.j, f.p, f.c, f.rest) \in K2Frame
    BY <1>3, <1>8, K2FrameFields, K2FrameTypes DEF ApplyK2If2, Branch, K2Top, TypeOK
  <2>2. Covers2(prog, Last(k2), n) => n \in Sub(prog, f.f)
    BY <1>8 DEF ApplyK2If2, Branch, K2Top, Covers2
  <2>. QED  BY <1>6, <1>8, <2>1, <2>2 DEF ApplyK2If2
<1>9. CASE Return
  BY <1>9 DEF Return, StillToCome, BadOperator, AtOperator
<1>. QED  BY <1>4, <1>5, <1>7, <1>8, <1>9 DEF ApplyK2

\* The loop ends with nothing left to do.
EndsEmpty == status = "done" => dispatch = "APPLY_K2" /\ k2 = <<>>

LEMMA EndsEmptyStep ==
  ASSUME EndsEmpty, [Next]_vars
  PROVE  EndsEmpty'
<1>1. CASE status # "run"
  <2>1. UNCHANGED vars
    BY <1>1 DEF Next, Go, GoInt, GoVar, GoValue, GoLam, GoApp, GoBop, GoIf, GoOperand,
           Gos, ApplyK, ApplyHalt, ApplyKIf2, ApplyKApp1, ApplyKBop1, NextOperand,
           ApplyKApp2, ApplyInt, ApplyKBop2, ApplyKIf1, KTop,
           ApplyK2, ApplyK2Lam1, ApplyK2Lam2, ApplyK2App1, ApplyK2Bop1, Prepend,
           ApplyK2If1, ApplyK2If2, Branch, ApplyK2If3, Return, K2Top, Runs, Terminated
  <2>. QED  BY <2>1 DEF vars, EndsEmpty
<1>2. CASE status = "run"
  <2>1. CASE Go
    BY <1>2, <2>1 DEF EndsEmpty, Go, GoInt, GoVar, GoValue, GoLam, GoApp, GoBop, GoIf, GoOperand
  <2>2. CASE ApplyK
    BY <1>2, <2>2 DEF EndsEmpty, ApplyK, ApplyHalt, ApplyKIf2, ApplyKApp1, ApplyKBop1,
           NextOperand, ApplyKApp2, ApplyInt, ApplyKBop2, ApplyKIf1, Bind
  <2>3. CASE ApplyK2
    BY <1>2, <2>3 DEF EndsEmpty, ApplyK2, ApplyK2Lam1, ApplyK2Lam2, ApplyK2App1, ApplyK2Bop1,
           Prepend, ApplyK2If1, ApplyK2If2, Branch, ApplyK2If3, Return, Runs
  <2>4. CASE Terminated \/ UNCHANGED vars
    BY <1>2, <2>4 DEF EndsEmpty, Terminated, vars
  <2>. QED  BY <2>1, <2>2, <2>3, <2>4 DEF Next
<1>. QED  BY <1>1, <1>2

LEMMA ThrowsOnlyStep ==
  ASSUME TypeOK, ThrowsOnly, [Next]_vars
  PROVE  ThrowsOnly'
<1>1. prog' = prog
  BY DEF Next, Go, GoInt, GoVar, GoValue, GoLam, GoApp, GoBop, GoIf, GoOperand,
         ApplyK, ApplyHalt, ApplyKIf2, ApplyKApp1, ApplyKBop1, NextOperand,
         ApplyKApp2, ApplyInt, ApplyKBop2, ApplyKIf1, Bind,
         ApplyK2, ApplyK2Lam1, ApplyK2Lam2, ApplyK2App1, ApplyK2Bop1, Prepend,
         ApplyK2If1, ApplyK2If2, Branch, ApplyK2If3, Return, Terminated, vars
<1>2. CASE AppliesInt(prog)
  BY <1>1, <1>2 DEF ThrowsOnly, AppliesInt, Exps
<1>3. CASE OperatorsNamed
  <2>1. CASE Terminated \/ UNCHANGED vars
    BY <1>3, <2>1 DEF Terminated, vars, ThrowsOnly, OperatorsNamed, AtOperator
  <2>. QED  BY <1>3, <2>1, GoNamed, ApplyKNamed, ApplyK2Named DEF Next, ThrowsOnly
<1>. QED  BY <1>2, <1>3 DEF ThrowsOnly

LEMMA ThrowsAllStep ==
  ASSUME TypeOK, JumpDiscipline, ThrowsAll, [Next]_vars
  PROVE  ThrowsAll'
<1>1. prog' = prog
  BY DEF Next, Go, GoInt, GoVar, GoValue, GoLam, GoApp, GoBop, GoIf, GoOperand,
         ApplyK, ApplyHalt, ApplyKIf2, ApplyKApp1, ApplyKBop1, NextOperand,
         ApplyKApp2, ApplyInt, ApplyKBop2, ApplyKIf1, Bind,
         ApplyK2, ApplyK2Lam1, ApplyK2Lam2, ApplyK2App1, ApplyK2Bop1, Prepend,
         ApplyK2If1, ApplyK2If2, Branch, ApplyK2If3, Return, Terminated, vars
<1>2. ASSUME NEW n \in Exps(prog), Bad(prog, n), StillToCome(n)
      PROVE  StillToCome(n)'
  <2>1. CASE Terminated \/ UNCHANGED vars
    BY <1>2, <2>1 DEF Terminated, vars, StillToCome, BadOperator, AtOperator
  <2>. QED  BY <1>2, <2>1, GoCovers, ApplyKCovers, ApplyK2Covers DEF Next
<1>. QED  BY <1>1, <1>2 DEF ThrowsAll

\* convertDefunc throws for the programs that apply an integer literal, and for no
\* others: no such application escapes the loop, whatever surrounds it.
THEOREM ThrowsForIntegers == Spec => []ThrowsIffIntApplied
<1>1. Init => ThrowsOnly /\ ThrowsAll /\ EndsEmpty
  <2>. SUFFICES ASSUME Init PROVE ThrowsOnly /\ ThrowsAll /\ EndsEmpty
    OBVIOUS
  <2>1. ThrowsOnly /\ EndsEmpty
    BY DEF Init, ThrowsOnly, OperatorsNamed, AllNamed, LamsNamed, AtOperator, EndsEmpty
  <2>2. \A n \in Exps(prog) : n \in Sub(prog, goExp)
    <3>1. IsAst(prog) /\ goExp = Root
      BY ProgramsAssumption DEF Init
    <3>2. prog.last[Root] = Len(prog.tag) /\ Len(prog.tag) \in Nat
      BY <3>1, RootFacts
    <3>. QED  BY <3>1, <3>2 DEF Sub, Root, Exps
  <2>. QED  BY <2>1, <2>2 DEF Init, ThrowsAll, StillToCome
<1>2. TypeOK /\ JumpDiscipline /\ ThrowsOnly /\ ThrowsAll /\ EndsEmpty /\ [Next]_vars
         => ThrowsOnly' /\ ThrowsAll' /\ EndsEmpty'
  BY ThrowsOnlyStep, ThrowsAllStep, EndsEmptyStep
<1>3. JumpDiscipline /\ ThrowsOnly /\ ThrowsAll /\ EndsEmpty => ThrowsIffIntApplied
  <2>1. ASSUME ThrowsOnly, status = "thrown" PROVE AppliesInt(prog)
    BY <2>1 DEF ThrowsOnly, OperatorsNamed
  <2>2. ASSUME JumpDiscipline, ThrowsAll, EndsEmpty, status = "done"
        PROVE  ~AppliesInt(prog)
    <3>1. dispatch = "APPLY_K2" /\ k = <<>> /\ k2 = <<>>
      BY <2>2 DEF EndsEmpty, JumpDiscipline
    <3>2. \A n : ~StillToCome(n)
      BY <3>1 DEF StillToCome, BadOperator, CoversK, CoversK2
    <3>. QED  BY <2>2, <3>2 DEF ThrowsAll, AppliesInt, Bad
  <2>. QED  BY <2>1, <2>2 DEF ThrowsIffIntApplied
<1>. QED  BY <1>1, <1>2, <1>3, TypeCorrect, BranchesJumpHome, PTL DEF Spec
-----------------------------------------------------------------------------
(***************************************************************************)
(* What is still to be converted                                           *)
(***************************************************************************)

\* The nodes that a frame waits for, and that a stack waits for.
Ahead(p, f) ==
    CASE f.kind = "App1" -> Sub(p, f.x)
      [] f.kind = "Bop1" -> Sub(p, f.y)
      [] f.kind = "If1"  -> Sub(p, f.t) \cup Sub(p, f.f)
      [] OTHER           -> {}

AheadK(p, ks) == UNION {Ahead(p, ks[i]) : i \in 1..Len(ks)}

Ahead2(p, f) ==
    CASE f.kind = "Lam1" -> AheadK(p, f.k)
      [] f.kind = "If1"  -> Sub(p, f.t) \cup Sub(p, f.f)
      [] f.kind = "If2"  -> Sub(p, f.f)
      [] OTHER           -> {}

AheadK2(p, w) == UNION {Ahead2(p, w[i]) : i \in 1..Len(w)}

\* A node is waited for in one place only.
Branches(p, f) == f.kind = "If1" => Sub(p, f.t) \cap Sub(p, f.f) = {}

OnceK(p, ks) ==
    /\ \A i \in 1..Len(ks) : Branches(p, ks[i])
    /\ \A i, j \in 1..Len(ks) : i # j => Ahead(p, ks[i]) \cap Ahead(p, ks[j]) = {}

Once2(p, f) == Branches(p, f) /\ (f.kind = "Lam1" => OnceK(p, f.k))

OnceK2(p, w) ==
    /\ \A i \in 1..Len(w) : Once2(p, w[i])
    /\ \A i, j \in 1..Len(w) : i # j => Ahead2(p, w[i]) \cap Ahead2(p, w[j]) = {}

Going == IF dispatch = "GO" THEN Sub(prog, goExp) ELSE {}

ToDo == Going \cup AheadK(prog, k) \cup AheadK2(prog, k2)

(***************************************************************************)
(* No part of the program is converted twice: go_exp and the frames of     *)
(* both stacks, those set aside in a K2Lam1 included, wait for different   *)
(* nodes.                                                                  *)
(***************************************************************************)
ToDoOnce ==
    /\ OnceK(prog, k) /\ OnceK2(prog, k2)
    /\ Going \cap AheadK(prog, k) = {}
    /\ Going \cap AheadK2(prog, k2) = {}
    /\ AheadK(prog, k) \cap AheadK2(prog, k2) = {}

\* The subtrees of the children of a node are parts of its own, without the
\* node, and have nothing in common.
LEMMA KidsApart ==
  ASSUME NEW p, IsAst(p), NEW e \in Exps(p)
  PROVE  /\ e \in Sub(p, e)
         /\ \A i \in 1..Arity[p.tag[e]] : Sub(p, p.kids[e][i]) \subseteq Sub(p, e) \ {e}
         /\ \A i, j \in 1..Arity[p.tag[e]] :
               i # j => Sub(p, p.kids[e][i]) \cap Sub(p, p.kids[e][j]) = {}
<1>1. e \in Nat /\ p.last[e] \in Nat /\ e <= p.last[e]
  BY NodeFacts
<1>2. /\ p.kids[e] \in Seq(Exps(p)) /\ Len(p.kids[e]) = Arity[p.tag[e]] /\ p.tag[e] \in Tag
      /\ p.kids[e] # <<>> => /\ p.kids[e][Len(p.kids[e])] = e + 1
                             /\ p.last[e] = p.last[p.kids[e][1]]
      /\ \A i \in 1..(Len(p.kids[e]) - 1) : p.kids[e][i] = p.last[p.kids[e][i + 1]] + 1
  BY NodeFacts
<1>3. \A i \in 1..Len(p.kids[e]) : p.kids[e][i] \in Exps(p)
  BY <1>2, ElementOfSeq
<1>4. \A i \in 1..Len(p.kids[e]) : /\ p.kids[e][i] \in Nat /\ p.last[p.kids[e][i]] \in Nat
                                   /\ p.kids[e][i] <= p.last[p.kids[e][i]]
  <2>1. \A a \in Exps(p) : a \in Nat /\ p.last[a] \in Nat /\ a <= p.last[a]
    BY NodeFacts
  <2>. QED  BY ONLY <1>3, <2>1
<1>5. Len(p.kids[e]) \in {0, 1, 2, 3}
  BY <1>2 DEF Arity, Tag
<1>6. e \in Sub(p, e)
  BY <1>1 DEF Sub
<1>7. CASE Len(p.kids[e]) = 0
  BY <1>2, <1>6, <1>7
<1>8. CASE Len(p.kids[e]) = 1
  <2>. PICK a : a = p.kids[e][1]
    OBVIOUS
  <2>1. a = e + 1 /\ p.last[e] = p.last[a] /\ a \in Nat /\ p.last[a] \in Nat
    BY <1>2, <1>4, <1>8
  <2>2. Sub(p, a) \subseteq Sub(p, e) \ {e}
    BY <1>1, <2>1 DEF Sub
  <2>3. \A i \in 1..1 : i = 1
    OBVIOUS
  <2>. QED  BY <1>2, <1>6, <1>8, <2>2, <2>3
<1>9. CASE Len(p.kids[e]) = 2
  <2>. PICK a, b : a = p.kids[e][1] /\ b = p.kids[e][2]
    OBVIOUS
  <2>1. /\ b = e + 1 /\ a = p.last[b] + 1 /\ p.last[e] = p.last[a]
        /\ a \in Nat /\ p.last[a] \in Nat /\ b \in Nat /\ p.last[b] \in Nat
        /\ a <= p.last[a] /\ b <= p.last[b]
    BY <1>2, <1>4, <1>9
  <2>2. /\ Sub(p, a) \subseteq Sub(p, e) \ {e} /\ Sub(p, b) \subseteq Sub(p, e) \ {e}
        /\ Sub(p, a) \cap Sub(p, b) = {}
    BY <1>1, <2>1 DEF Sub
  <2>3. \A i \in 1..2 : i = 1 \/ i = 2
    OBVIOUS
  <2>. QED  BY <1>2, <1>6, <1>9, <2>2, <2>3
<1>10. CASE Len(p.kids[e]) = 3
  <2>. PICK a, b, c : a = p.kids[e][1] /\ b = p.kids[e][2] /\ c = p.kids[e][3]
    OBVIOUS
  <2>1. /\ c = e + 1 /\ b = p.last[c] + 1 /\ a = p.last[b] + 1 /\ p.last[e] = p.last[a]
        /\ a \in Nat /\ p.last[a] \in Nat /\ b \in Nat /\ p.last[b] \in Nat
        /\ c \in Nat /\ p.last[c] \in Nat
        /\ a <= p.last[a] /\ b <= p.last[b] /\ c <= p.last[c]
    BY <1>2, <1>4, <1>10
  <2>2. /\ Sub(p, a) \subseteq Sub(p, e) \ {e} /\ Sub(p, b) \subseteq Sub(p, e) \ {e}
        /\ Sub(p, c) \subseteq Sub(p, e) \ {e}
        /\ Sub(p, a) \cap Sub(p, b) = {} /\ Sub(p, a) \cap Sub(p, c) = {}
        /\ Sub(p, b) \cap Sub(p, c) = {}
    BY <1>1, <2>1 DEF Sub
  <2>3. \A i \in 1..3 : i = 1 \/ i = 2 \/ i = 3
    OBVIOUS
  <2>. QED  BY <1>2, <1>6, <1>10, <2>2, <2>3
<1>. QED  BY <1>5, <1>7, <1>8, <1>9, <1>10

\* Pushing a frame on k, and on k2.
LEMMA AheadPush ==
  ASSUME NEW S, NEW w \in Seq(S), NEW f \in S, NEW p
  PROVE  /\ AheadK(p, Append(w, f)) = AheadK(p, w) \cup Ahead(p, f)
         /\ OnceK(p, w) /\ Branches(p, f) /\ Ahead(p, f) \cap AheadK(p, w) = {}
              => OnceK(p, Append(w, f))
<1>1. /\ Len(Append(w, f)) = Len(w) + 1 /\ Append(w, f)[Len(w) + 1] = f
      /\ \A i \in 1..Len(w) : Append(w, f)[i] = w[i]
      /\ Len(w) \in Nat
  BY Push, LenProperties
<1>2. /\ \A i \in 1..(Len(w) + 1) : i = Len(w) + 1 \/ i \in 1..Len(w)
      /\ \A i \in 1..Len(w) : i \in 1..(Len(w) + 1)
      /\ Len(w) + 1 \in 1..(Len(w) + 1)
  BY <1>1
<1>3. AheadK(p, Append(w, f)) = AheadK(p, w) \cup Ahead(p, f)
  BY <1>1, <1>2 DEF AheadK
<1>4. \A i \in 1..Len(w) : Ahead(p, w[i]) \subseteq AheadK(p, w)
  BY DEF AheadK
<1>5. ASSUME OnceK(p, w), Branches(p, f), Ahead(p, f) \cap AheadK(p, w) = {}
      PROVE  OnceK(p, Append(w, f))
  BY <1>1, <1>2, <1>4, <1>5 DEF OnceK
<1>. QED  BY <1>3, <1>5

LEMMA AheadPush2 ==
  ASSUME NEW S, NEW w \in Seq(S), NEW f \in S, NEW p
  PROVE  /\ AheadK2(p, Append(w, f)) = AheadK2(p, w) \cup Ahead2(p, f)
         /\ OnceK2(p, w) /\ Once2(p, f) /\ Ahead2(p, f) \cap AheadK2(p, w) = {}
              => OnceK2(p, Append(w, f))
<1>1. /\ Len(Append(w, f)) = Len(w) + 1 /\ Append(w, f)[Len(w) + 1] = f
      /\ \A i \in 1..Len(w) : Append(w, f)[i] = w[i]
      /\ Len(w) \in Nat
  BY Push, LenProperties
<1>2. /\ \A i \in 1..(Len(w) + 1) : i = Len(w) + 1 \/ i \in 1..Len(w)
      /\ \A i \in 1..Len(w) : i \in 1..(Len(w) + 1)
      /\ Len(w) + 1 \in 1..(Len(w) + 1)
  BY <1>1
<1>3. AheadK2(p, Append(w, f)) = AheadK2(p, w) \cup Ahead2(p, f)
  BY <1>1, <1>2 DEF AheadK2
<1>4. \A i \in 1..Len(w) : Ahead2(p, w[i]) \subseteq AheadK2(p, w)
  BY DEF AheadK2
<1>5. ASSUME OnceK2(p, w), Once2(p, f), Ahead2(p, f) \cap AheadK2(p, w) = {}
      PROVE  OnceK2(p, Append(w, f))
  BY <1>1, <1>2, <1>4, <1>5 DEF OnceK2
<1>. QED  BY <1>3, <1>5

\* Taking the top of k, and of k2.
LEMMA AheadPop ==
  ASSUME NEW S, NEW w \in Seq(S), w # <<>>, NEW p, OnceK(p, w)
  PROVE  /\ AheadK(p, w) = AheadK(p, Front(w)) \cup Ahead(p, Last(w))
         /\ AheadK(p, Front(w)) \cap Ahead(p, Last(w)) = {}
         /\ OnceK(p, Front(w)) /\ Branches(p, Last(w))
<1>1. /\ Last(w) = w[Len(w)] /\ Len(w) \in Nat \ {0} /\ Len(Front(w)) = Len(w) - 1
      /\ \A i \in 1..(Len(w) - 1) : Front(w)[i] = w[i]
  BY Pop
<1>2. /\ \A i \in 1..Len(w) : i = Len(w) \/ i \in 1..(Len(w) - 1)
      /\ \A i \in 1..(Len(w) - 1) : i \in 1..Len(w) /\ i # Len(w)
      /\ Len(w) \in 1..Len(w)
  BY <1>1
<1>3. AheadK(p, w) = AheadK(p, Front(w)) \cup Ahead(p, Last(w))
  BY <1>1, <1>2 DEF AheadK
<1>4. AheadK(p, Front(w)) \cap Ahead(p, Last(w)) = {}
  BY <1>1, <1>2 DEF AheadK, OnceK
<1>5. OnceK(p, Front(w)) /\ Branches(p, Last(w))
  BY <1>1, <1>2 DEF OnceK
<1>. QED  BY <1>3, <1>4, <1>5

LEMMA AheadPop2 ==
  ASSUME NEW S, NEW w \in Seq(S), w # <<>>, NEW p, OnceK2(p, w)
  PROVE  /\ AheadK2(p, w) = AheadK2(p, Front(w)) \cup Ahead2(p, Last(w))
         /\ AheadK2(p, Front(w)) \cap Ahead2(p, Last(w)) = {}
         /\ OnceK2(p, Front(w)) /\ Once2(p, Last(w))
<1>1. /\ Last(w) = w[Len(w)] /\ Len(w) \in Nat \ {0} /\ Len(Front(w)) = Len(w) - 1
      /\ \A i \in 1..(Len(w) - 1) : Front(w)[i] = w[i]
  BY Pop
<1>2. /\ \A i \in 1..Len(w) : i = Len(w) \/ i \in 1..(Len(w) - 1)
      /\ \A i \in 1..(Len(w) - 1) : i \in 1..Len(w) /\ i # Len(w)
      /\ Len(w) \in 1..Len(w)
  BY <1>1
<1>3. AheadK2(p, w) = AheadK2(p, Front(w)) \cup Ahead2(p, Last(w))
  BY <1>1, <1>2 DEF AheadK2
<1>4. AheadK2(p, Front(w)) \cap Ahead2(p, Last(w)) = {}
  BY <1>1, <1>2 DEF AheadK2, OnceK2
<1>5. OnceK2(p, Front(w)) /\ Once2(p, Last(w))
  BY <1>1, <1>2 DEF OnceK2
<1>. QED  BY <1>3, <1>4, <1>5

LEMMA NothingAhead ==
  ASSUME NEW p
  PROVE  AheadK(p, <<>>) = {} /\ OnceK(p, <<>>)
BY DEF AheadK, OnceK

\* The work that is left only shrinks.
LEMMA GoToDo ==
  ASSUME TypeOK, ToDoOnce, Go
  PROVE  ToDoOnce' /\ ToDo' \subseteq ToDo /\ (GoLam => goExp \in ToDo \ ToDo')
<1>1. /\ dispatch = "GO" /\ prog' = prog /\ IsAst(prog) /\ goExp \in Exps(prog)
      /\ k \in Seq(KFrame) /\ k2 \in Seq(K2Frame)
  BY NodeFields DEF Go, GoInt, GoVar, GoValue, GoLam, GoApp, GoBop, GoIf, GoOperand, Gos, Runs,
         TypeOK
<1>2. Going = Sub(prog, goExp)
  BY <1>1 DEF Going
<1>3. /\ goExp \in Sub(prog, goExp)
      /\ \A i \in 1..Arity[prog.tag[goExp]] :
            Sub(prog, prog.kids[goExp][i]) \subseteq Sub(prog, goExp) \ {goExp}
      /\ \A i, j \in 1..Arity[prog.tag[goExp]] :
            i # j => Sub(prog, prog.kids[goExp][i]) \cap Sub(prog, prog.kids[goExp][j]) = {}
  BY <1>1, KidsApart
<1>4. CASE GoInt \/ GoVar
  <2>1. /\ k' = k /\ k2' = k2 /\ dispatch' = "APPLY_K" /\ ~GoLam
    BY <1>4 DEF GoInt, GoVar, GoValue, GoLam, Gos
  <2>2. Going' = {}
    BY <2>1 DEF Going
  <2>. QED  BY <1>1, <2>1, <2>2 DEF ToDoOnce, ToDo
<1>5. CASE GoLam
  <2>. PICK frame : frame = K2Lam1(k, prog.name[goExp])
    OBVIOUS
  <2>1. /\ prog.tag[goExp] = "Lam" /\ goExp' = prog.kids[goExp][1] /\ dispatch' = "GO"
        /\ k' = <<>> /\ k2' = Append(k2, frame)
    BY <1>1, <1>5 DEF GoLam, Gos
  <2>2. frame \in K2Frame
    BY <1>1, NodeFields, K2FrameTypes
  <2>3. Ahead2(prog, frame) = AheadK(prog, k) /\ (OnceK(prog, k) => Once2(prog, frame))
    BY DEF Ahead2, Once2, Branches, K2Lam1
  <2>4. /\ AheadK2(prog, k2') = AheadK2(prog, k2) \cup AheadK(prog, k)
        /\ OnceK2(prog, k2')
    BY <1>1, <2>1, <2>2, <2>3, AheadPush2 DEF ToDoOnce
  <2>5. Going' \subseteq Going \ {goExp}
    BY <1>1, <1>2, <1>3, <2>1 DEF Going, Arity
  <2>6. AheadK(prog, k') = {} /\ OnceK(prog, k')
    BY <2>1, NothingAhead
  <2>. QED  BY <1>1, <1>2, <1>3, <2>4, <2>5, <2>6 DEF ToDoOnce, ToDo
<1>6. ASSUME NEW tag \in {"App", "Bop", "If"}, NEW frame \in KFrame, GoOperand(tag, frame),
             Branches(prog, frame), Ahead(prog, frame) \subseteq Sub(prog, goExp),
             Ahead(prog, frame) \cap Sub(prog, prog.kids[goExp][1]) = {}
      PROVE  ToDoOnce' /\ ToDo' \subseteq ToDo /\ (GoLam => goExp \in ToDo \ ToDo')
  <2>1. /\ prog.tag[goExp] = tag /\ goExp' = prog.kids[goExp][1] /\ dispatch' = "GO"
        /\ k' = Append(k, frame) /\ k2' = k2 /\ ~GoLam
    BY <1>1, <1>6 DEF GoOperand, GoLam, Gos
  <2>2. Ahead(prog, frame) \cap AheadK(prog, k) = {}
    BY <1>2, <1>6 DEF ToDoOnce
  <2>3. AheadK(prog, k') = AheadK(prog, k) \cup Ahead(prog, frame) /\ OnceK(prog, k')
    BY <1>1, <1>6, <2>1, <2>2, AheadPush DEF ToDoOnce
  <2>4. 1 \in 1..Arity[tag]
    BY DEF Arity
  <2>5. Going' \subseteq Going /\ Going' \cap Ahead(prog, frame) = {}
    BY <1>1, <1>2, <1>3, <1>6, <2>1, <2>4 DEF Going
  <2>. QED  BY <1>1, <1>2, <1>6, <2>1, <2>3, <2>5 DEF ToDoOnce, ToDo
<1>7. CASE GoApp
  <2>. PICK frame : frame = KApp1(prog.kids[goExp][2])
    OBVIOUS
  <2>1. prog.tag[goExp] = "App" /\ 1 \in 1..Arity["App"] /\ 2 \in 1..Arity["App"]
    BY <1>7 DEF GoApp, GoOperand, Gos, Arity
  <2>2. frame \in KFrame
    BY <1>1, <2>1, NodeFields, KFrameTypes
  <2>3. Branches(prog, frame) /\ Ahead(prog, frame) = Sub(prog, prog.kids[goExp][2])
    BY DEF Branches, Ahead, KApp1
  <2>. QED  BY <1>3, <1>6, <1>7, <2>1, <2>2, <2>3 DEF GoApp
<1>8. CASE GoBop
  <2>. PICK frame : frame = KBop1(prog.kids[goExp][2], prog.data[goExp])
    OBVIOUS
  <2>1. prog.tag[goExp] = "Bop" /\ 1 \in 1..Arity["Bop"] /\ 2 \in 1..Arity["Bop"]
    BY <1>8 DEF GoBop, GoOperand, Gos, Arity
  <2>2. frame \in KFrame
    BY <1>1, <2>1, NodeFields, KFrameTypes
  <2>3. Branches(prog, frame) /\ Ahead(prog, frame) = Sub(prog, prog.kids[goExp][2])
    BY DEF Branches, Ahead, KBop1
  <2>. QED  BY <1>3, <1>6, <1>8, <2>1, <2>2, <2>3 DEF GoBop
<1>9. CASE GoIf
  <2>. PICK frame : frame = KIf1(prog.kids[goExp][2], prog.kids[goExp][3])
    OBVIOUS
  <2>1. /\ prog.tag[goExp] = "If" /\ 1 \in 1..Arity["If"] /\ 2 \in 1..Arity["If"]
        /\ 3 \in 1..Arity["If"]
    BY <1>9 DEF GoIf, GoOperand, Gos, Arity
  <2>2. frame \in KFrame
    BY <1>1, <2>1, NodeFields, KFrameTypes
  <2>3. Ahead(prog, frame) =
           Sub(prog, prog.kids[goExp][2]) \cup Sub(prog, prog.kids[goExp][3])
    BY DEF Ahead, KIf1
  <2>4. Branches(prog, frame)
    BY <1>3, <2>1 DEF Branches, KIf1
  <2>5. Ahead(prog, frame) \cap Sub(prog, prog.kids[goExp][1]) = {}
    BY <1>3, <2>1, <2>3
  <2>. QED  BY <1>3, <1>6, <1>9, <2>1, <2>2, <2>3, <2>4, <2>5 DEF GoIf
<1>. QED  BY <1>4, <1>5, <1>7, <1>8, <1>9 DEF Go

LEMMA ApplyKToDo ==
  ASSUME TypeOK, ToDoOnce, ApplyK
  PROVE  ToDoOnce' /\ ToDo' \subseteq ToDo
<1>1. dispatch = "APPLY_K" /\ prog' = prog /\ k \in Seq(KFrame) /\ k2 \in Seq(K2Frame)
  BY DEF ApplyK, ApplyHalt, ApplyKIf2, ApplyKApp1, ApplyKBop1, NextOperand, ApplyKApp2,
         ApplyInt, ApplyKBop2, ApplyKIf1, Bind, KTop, Runs, TypeOK
<1>2. Going = {}
  BY <1>1 DEF Going
<1>3. k # <<>> => /\ AheadK(prog, k) = AheadK(prog, Front(k)) \cup Ahead(prog, Last(k))
                  /\ AheadK(prog, Front(k)) \cap Ahead(prog, Last(k)) = {}
                  /\ OnceK(prog, Front(k)) /\ Branches(prog, Last(k))
                  /\ Last(k) \in KFrame /\ Front(k) \in Seq(KFrame)
  BY <1>1, AheadPop, Tops DEF ToDoOnce
<1>4. CASE ApplyHalt \/ ApplyInt
  <2>1. k' = k /\ k2' = k2 /\ dispatch' # "GO"
    BY <1>1, <1>4 DEF ApplyHalt, EndTerm, ApplyInt
  <2>2. Going' = {}
    BY <2>1 DEF Going
  <2>. QED  BY <1>1, <1>2, <2>1, <2>2 DEF ToDoOnce, ToDo
<1>5. CASE ApplyKIf2
  <2>1. k # <<>> /\ k' = Front(k) /\ k2' = k2 /\ dispatch' # "GO"
    BY <1>5 DEF ApplyKIf2, EndTerm, KTop
  <2>2. Going' = {}
    BY <2>1 DEF Going
  <2>. QED  BY <1>1, <1>2, <1>3, <2>1, <2>2 DEF ToDoOnce, ToDo
<1>6. ASSUME NEW kind, NEW next, NEW frame \in KFrame, NextOperand(kind, next, frame),
             Ahead(prog, Last(k)) = Sub(prog, next), Ahead(prog, frame) = {},
             Branches(prog, frame)
      PROVE  ToDoOnce' /\ ToDo' \subseteq ToDo
  <2>1. /\ k # <<>> /\ k' = Append(Front(k), frame) /\ k2' = k2 /\ dispatch' = "GO"
        /\ goExp' = next
    BY <1>6 DEF NextOperand, KTop
  <2>2. Going' = Ahead(prog, Last(k))
    BY <1>1, <1>6, <2>1 DEF Going
  <2>. PICK u : u = Front(k)
    OBVIOUS
  <2>3. /\ Ahead(prog, frame) \cap AheadK(prog, u) = {} /\ u \in Seq(KFrame)
        /\ OnceK(prog, u) /\ Branches(prog, frame) /\ frame \in KFrame
    BY <1>3, <1>6, <2>1
  <2>4. /\ AheadK(prog, Append(u, frame)) = AheadK(prog, u) \cup Ahead(prog, frame)
        /\ OnceK(prog, Append(u, frame))
    BY ONLY <2>3, AheadPush
  <2>5. AheadK(prog, k') = AheadK(prog, Front(k)) /\ OnceK(prog, k')
    BY <1>6, <2>1, <2>4
  <2>. QED  BY <1>1, <1>2, <1>3, <2>1, <2>2, <2>5 DEF ToDoOnce, ToDo
<1>7. CASE ApplyKApp1
  <2>1. KApp2(value) \in KFrame
    BY KFrameTypes DEF TypeOK
  <2>2. Ahead(prog, KApp2(value)) = {} /\ Branches(prog, KApp2(value))
    BY DEF Ahead, Branches, KApp2
  <2>3. Ahead(prog, Last(k)) = Sub(prog, Last(k).x)
    BY <1>7 DEF ApplyKApp1, NextOperand, KTop, Ahead
  <2>. QED  BY <1>6, <1>7, <2>1, <2>2, <2>3 DEF ApplyKApp1
<1>8. CASE ApplyKBop1
  <2>. PICK frame : frame = KBop2(value, Last(k).bop)
    OBVIOUS
  <2>1. frame \in KFrame
    BY <1>8, Tops, KFrameFields, KFrameTypes DEF ApplyKBop1, NextOperand, KTop, TypeOK
  <2>2. Ahead(prog, frame) = {} /\ Branches(prog, frame)
    BY DEF Ahead, Branches, KBop2
  <2>3. Ahead(prog, Last(k)) = Sub(prog, Last(k).y)
    BY <1>8 DEF ApplyKBop1, NextOperand, KTop, Ahead
  <2>. QED  BY <1>6, <1>8, <2>1, <2>2, <2>3 DEF ApplyKBop1
<1>9. ASSUME NEW frame \in K2Frame, NEW names, k # <<>>, Bind(frame, names),
             Once2(prog, frame), Ahead2(prog, frame) \subseteq Ahead(prog, Last(k))
      PROVE  ToDoOnce' /\ ToDo' \subseteq ToDo
  <2>1. k' = Front(k) /\ k2' = Append(k2, frame) /\ dispatch' = dispatch
    BY <1>9 DEF Bind
  <2>2. Going' = {}
    BY <1>1, <2>1 DEF Going
  <2>3. Ahead2(prog, frame) \cap AheadK2(prog, k2) = {}
    BY <1>3, <1>9 DEF ToDoOnce
  <2>4. /\ AheadK2(prog, k2') = AheadK2(prog, k2) \cup Ahead2(prog, frame)
        /\ OnceK2(prog, k2')
    BY <1>1, <1>9, <2>1, <2>3, AheadPush2 DEF ToDoOnce
  <2>. QED  BY <1>1, <1>2, <1>3, <1>9, <2>1, <2>2, <2>4 DEF ToDoOnce, ToDo
<1>10. counter \in Nat /\ Tmp(counter) \in Ident /\ Tmp(counter + 1) \in Ident
  BY TmpType DEF TypeOK
<1>11. CASE ApplyKApp2
  <2>. PICK frame : frame = K2App1(Tmp(counter), Last(k).f.var, value)
    OBVIOUS
  <2>1. frame \in K2Frame
    BY <1>10, <1>11, Tops, KFrameFields, K2FrameTypes, ValueTypes DEF ApplyKApp2, KTop, TypeOK
  <2>2. Once2(prog, frame) /\ Ahead2(prog, frame) = {}
    BY DEF Once2, Branches, Ahead2, K2App1
  <2>. QED  BY <1>9, <1>11, <2>1, <2>2 DEF ApplyKApp2, KTop
<1>12. CASE ApplyKBop2
  <2>. PICK frame : frame = K2Bop1(Tmp(counter), Last(k).bop, Last(k).x, value)
    OBVIOUS
  <2>1. frame \in K2Frame
    BY <1>10, <1>12, Tops, KFrameFields, K2FrameTypes DEF ApplyKBop2, KTop, TypeOK
  <2>2. Once2(prog, frame) /\ Ahead2(prog, frame) = {}
    BY DEF Once2, Branches, Ahead2, K2Bop1
  <2>. QED  BY <1>9, <1>12, <2>1, <2>2 DEF ApplyKBop2, KTop
<1>13. CASE ApplyKIf1
  <2>. PICK frame : frame = K2If1(Last(k).t, Last(k).f, Tmp(counter), Tmp(counter + 1), value)
    OBVIOUS
  <2>1. frame \in K2Frame
    BY <1>10, <1>13, Tops, KFrameFields, K2FrameTypes DEF ApplyKIf1, KTop, TypeOK
  <2>2. k # <<>> /\ Last(k).kind = "If1"
    BY <1>13 DEF ApplyKIf1, KTop
  <2>3. Once2(prog, frame)
    BY <1>3, <2>2 DEF Once2, Branches, K2If1
  <2>4. Ahead2(prog, frame) = Ahead(prog, Last(k))
    BY <2>2 DEF Ahead2, Ahead, K2If1
  <2>. QED  BY <1>9, <1>13, <2>1, <2>2, <2>3, <2>4 DEF ApplyKIf1
<1>. QED  BY <1>4, <1>5, <1>7, <1>8, <1>11, <1>12, <1>13 DEF ApplyK

LEMMA ApplyK2ToDo ==
  ASSUME TypeOK, JumpDiscipline, ToDoOnce, ApplyK2
  PROVE  ToDoOnce' /\ ToDo' \subseteq ToDo
<1>1. dispatch = "APPLY_K2" /\ prog' = prog /\ k2 \in Seq(K2Frame)
  BY DEF ApplyK2, ApplyK2Lam1, ApplyK2Lam2, ApplyK2App1, ApplyK2Bop1, Prepend,
         ApplyK2If1, ApplyK2If2, Branch, ApplyK2If3, Return, K2Top, Runs, TypeOK
<1>2. Going = {} /\ k = <<>> /\ AheadK(prog, k) = {}
  BY <1>1, NothingAhead DEF Going, JumpDiscipline
<1>3. k2 # <<>> => /\ AheadK2(prog, k2) = AheadK2(prog, Front(k2)) \cup Ahead2(prog, Last(k2))
                   /\ AheadK2(prog, Front(k2)) \cap Ahead2(prog, Last(k2)) = {}
                   /\ OnceK2(prog, Front(k2)) /\ Once2(prog, Last(k2))
                   /\ Last(k2) \in K2Frame /\ Front(k2) \in Seq(K2Frame)
  BY <1>1, AheadPop2, Tops DEF ToDoOnce
<1>4. CASE ApplyK2Lam1
  <2>. PICK frame : frame = K2Lam2(Tmp(counter), Last(k2).v, k2Exp)
    OBVIOUS
  <2>1. /\ k2 # <<>> /\ Last(k2).kind = "Lam1" /\ k' = Last(k2).k
        /\ k2' = Append(Front(k2), frame) /\ dispatch' # "GO"
    BY <1>4 DEF ApplyK2Lam1, K2Top
  <2>2. frame \in K2Frame
    BY <1>3, <2>1, K2FrameFields, K2FrameTypes, TmpType DEF TypeOK
  <2>3. Once2(prog, frame) /\ Ahead2(prog, frame) = {}
    BY DEF Once2, Branches, Ahead2, K2Lam2
  <2>. PICK u : u = Front(k2)
    OBVIOUS
  <2>4. /\ Ahead2(prog, frame) \cap AheadK2(prog, u) = {} /\ u \in Seq(K2Frame)
        /\ OnceK2(prog, u)
    BY <1>3, <2>1, <2>3
  <2>5. /\ AheadK2(prog, Append(u, frame)) = AheadK2(prog, u) \cup Ahead2(prog, frame)
        /\ OnceK2(prog, Append(u, frame))
    BY ONLY <2>2, <2>3, <2>4, AheadPush2
  <2>6. AheadK2(prog, k2') = AheadK2(prog, Front(k2)) /\ OnceK2(prog, k2')
    BY <2>1, <2>3, <2>5
  <2>7. AheadK(prog, k') = Ahead2(prog, Last(k2)) /\ OnceK(prog, k') /\ Going' = {}
    BY <1>3, <2>1 DEF Ahead2, Once2, Going
  <2>. QED  BY <1>1, <1>3, <2>1, <2>6, <2>7 DEF ToDoOnce, ToDo
<1>5. CASE ApplyK2Lam2 \/ ApplyK2App1 \/ ApplyK2Bop1 \/ ApplyK2If3
  <2>1. k2 # <<>> /\ k2' = Front(k2) /\ k' = k /\ dispatch' # "GO"
    BY <1>1, <1>5 DEF ApplyK2Lam2, ApplyK2App1, ApplyK2Bop1, Prepend, ApplyK2If3, K2Top
  <2>2. Going' = {}
    BY <2>1 DEF Going
  <2>. QED  BY <1>1, <1>2, <1>3, <2>1, <2>2 DEF ToDoOnce, ToDo
<1>6. ASSUME NEW kind, NEW exp, NEW frame \in K2Frame, Branch(kind, exp, frame),
             Once2(prog, frame), Sub(prog, exp) \subseteq Ahead2(prog, Last(k2)),
             Ahead2(prog, frame) \subseteq Ahead2(prog, Last(k2)),
             Ahead2(prog, frame) \cap Sub(prog, exp) = {}
      PROVE  ToDoOnce' /\ ToDo' \subseteq ToDo
  <2>1. /\ k2 # <<>> /\ k2' = Append(Front(k2), frame) /\ goExp' = exp /\ dispatch' = "GO"
        /\ k' = <<KIf2(frame.j)>>
    BY <1>6 DEF Branch, K2Top
  <2>2. Going' = Sub(prog, exp)
    BY <1>1, <2>1 DEF Going
  <2>3. Ahead2(prog, frame) \cap AheadK2(prog, Front(k2)) = {}
    BY <1>3, <1>6, <2>1
  <2>4. /\ AheadK2(prog, k2') = AheadK2(prog, Front(k2)) \cup Ahead2(prog, frame)
        /\ OnceK2(prog, k2')
    BY <1>3, <1>6, <2>1, <2>3, AheadPush2
  <2>5. AheadK(prog, k') = {} /\ OnceK(prog, k')
    BY <2>1 DEF AheadK, OnceK, Ahead, Branches, KIf2
  <2>. QED  BY <1>1, <1>3, <1>6, <2>1, <2>2, <2>4, <2>5 DEF ToDoOnce, ToDo
<1>7. CASE ApplyK2If1
  <2>. PICK f : f = Last(k2)
    OBVIOUS
  <2>. PICK frame : frame = K2If2(f.f, f.j, f.p, f.c, k2Exp)
    OBVIOUS
  <2>1. /\ frame \in K2Frame
        /\ k2 # <<>> /\ f.kind = "If1"
    BY <1>3, <1>7, K2FrameFields, K2FrameTypes DEF ApplyK2If1, Branch, K2Top, TypeOK
  <2>2. /\ Ahead2(prog, frame) = Sub(prog, f.f) /\ Once2(prog, frame)
        /\ Ahead2(prog, f) = Sub(prog, f.t) \cup Sub(prog, f.f)
    BY <2>1 DEF Ahead2, Once2, Branches, K2If2
  <2>3. Sub(prog, f.t) \cap Sub(prog, f.f) = {}
    BY <1>3, <2>1 DEF Once2, Branches
  <2>. QED  BY <1>6, <1>7, <2>1, <2>2, <2>3 DEF ApplyK2If1
<1>8. CASE ApplyK2If2
  <2>. PICK f : f = Last(k2)
    OBVIOUS
  <2>. PICK frame : frame = K2If3(k2Exp, f.j, f.p, f.c, f.rest)
    OBVIOUS
  <2>1. /\ frame \in K2Frame
        /\ k2 # <<>> /\ f.kind = "If2"
    BY <1>3, <1>8, K2FrameFields, K2FrameTypes DEF ApplyK2If2, Branch, K2Top, TypeOK
  <2>2. /\ Ahead2(prog, frame) = {} /\ Once2(prog, frame)
        /\ Ahead2(prog, f) = Sub(prog, f.f)
    BY <2>1 DEF Ahead2, Once2, Branches, K2If3
  <2>. QED  BY <1>6, <1>8, <2>1, <2>2 DEF ApplyK2If2
<1>9. CASE Return
  <2>1. k' = k /\ k2' = k2 /\ dispatch' = dispatch
    BY <1>9 DEF Return
  <2>2. Going' = {}
    BY <1>1, <2>1 DEF Going
  <2>. QED  BY <1>1, <1>2, <2>1, <2>2 DEF ToDoOnce, ToDo
<1>. QED  BY <1>4, <1>5, <1>7, <1>8, <1>9 DEF ApplyK2

LEMMA ToDoInit ==
  ASSUME Init
  PROVE  ToDoOnce
<1>1. AheadK(prog, k) = {} /\ OnceK(prog, k) /\ AheadK2(prog, k2) = {} /\ OnceK2(prog, k2)
  BY NothingAhead DEF Init, AheadK2, OnceK2
<1>. QED  BY <1>1 DEF ToDoOnce

LEMMA ToDoStep ==
  ASSUME TypeOK, JumpDiscipline, ToDoOnce, [Next]_vars
  PROVE  ToDoOnce' /\ ToDo' \subseteq ToDo
<1>1. CASE Terminated \/ UNCHANGED vars
  BY <1>1 DEF Terminated, vars, ToDoOnce, ToDo, Going
<1>. QED  BY <1>1, GoToDo, ApplyKToDo, ApplyK2ToDo DEF Next

-----------------------------------------------------------------------------
(***************************************************************************)
(* Names                                                                   *)
(***************************************************************************)

\* The names in a list of binders, none of which occurs twice.
Names(r) == {r[j] : j \in 1..Len(r)}

Once(r) == \A j, m \in 1..Len(r) : r[j] = r[m] => j = m

\* The names that the frames in w are going to bind, and that the nodes in h do.
Promised(w) == UNION {Names(Reserved(w[i])) : i \in 1..Len(w)}
BoundIn(h) == UNION {Names(Binders(h[a])) : a \in 1..Len(h)}

Taken(h, w) == Promised(w) \cup BoundIn(h)

Distinct(h, w) ==
    /\ \A i \in 1..Len(w) : Once(Reserved(w[i]))
    /\ \A a \in 1..Len(h) : Once(Binders(h[a]))
    /\ \A i, j \in 1..Len(w) : i # j =>
          Names(Reserved(w[i])) \cap Names(Reserved(w[j])) = {}
    /\ \A a, b \in 1..Len(h) : a # b =>
          Names(Binders(h[a])) \cap Names(Binders(h[b])) = {}
    /\ \A i \in 1..Len(w), a \in 1..Len(h) :
          Names(Reserved(w[i])) \cap Names(Binders(h[a])) = {}

\* Two lists that are put together.
LEMMA ShortLists ==
  ASSUME NEW x, NEW y
  PROVE  /\ <<>> \o <<>> = <<>> /\ <<x>> \o <<>> = <<x>> /\ <<x>> \o <<y>> = <<x, y>>
         /\ Names(<<>>) = {} /\ Names(<<x>>) = {x} /\ Names(<<x, y>>) = {x, y}
         /\ Once(<<>>) /\ Once(<<x>>) /\ (x # y => Once(<<x, y>>))
<1>1. <<>> \in Seq({x, y}) /\ <<x>> \in Seq({x, y}) /\ <<y>> \in Seq({x, y})
      /\ <<x, y>> \in Seq({x, y})
  OBVIOUS
<1>2. <<>> \o <<>> = <<>> /\ <<x>> \o <<>> = <<x>>
  BY <1>1, ConcatEmptySeq
<1>3. <<x>> \o <<y>> = <<x, y>>
  <2>. PICK c, d : c = <<x>> \o <<y>> /\ d = <<x, y>>
    OBVIOUS
  <2>1. c \in Seq({x, y}) /\ Len(c) = 2 /\ c[1] = x /\ c[2] = y
    BY <1>1, ConcatProperties
  <2>2. d \in Seq({x, y}) /\ Len(d) = 2 /\ d[1] = x /\ d[2] = y
    BY <1>1
  <2>3. \A i \in 1..2 : i = 1 \/ i = 2
    OBVIOUS
  <2>4. \A i \in 1..Len(c) : c[i] = d[i]
    BY ONLY <2>1, <2>2, <2>3
  <2>. QED  BY <2>1, <2>2, <2>4, SeqEqual
<1>4. Len(<<>>) = 0 /\ Len(<<x>>) = 1 /\ Len(<<x, y>>) = 2
  OBVIOUS
<1>5. 1..0 = {} /\ 1..1 = {1} /\ 1..2 = {1, 2}
  OBVIOUS
<1>6. Names(<<>>) = {} /\ Names(<<x>>) = {x} /\ Names(<<x, y>>) = {x, y}
  BY <1>4, <1>5 DEF Names
<1>7. Once(<<>>) /\ Once(<<x>>) /\ (x # y => Once(<<x, y>>))
  BY <1>4, <1>5 DEF Once
<1>. QED  BY <1>2, <1>3, <1>6, <1>7

\* Pushing a frame.
LEMMA PushBinds ==
  ASSUME NEW S, NEW w \in Seq(S), NEW f \in S, NEW h
  PROVE  /\ Taken(h, Append(w, f)) = Taken(h, w) \cup Names(Reserved(f))
         /\ (Distinct(h, w) /\ Once(Reserved(f)) /\ Names(Reserved(f)) \cap Taken(h, w) = {}
               => Distinct(h, Append(w, f)))
<1>1. /\ Len(Append(w, f)) = Len(w) + 1 /\ Append(w, f)[Len(w) + 1] = f
      /\ \A i \in 1..Len(w) : Append(w, f)[i] = w[i]
      /\ Len(w) \in Nat
  BY Push, LenProperties
<1>2. /\ \A i \in 1..(Len(w) + 1) : i = Len(w) + 1 \/ i \in 1..Len(w)
      /\ \A i \in 1..Len(w) : i \in 1..(Len(w) + 1)
      /\ Len(w) + 1 \in 1..(Len(w) + 1)
  BY <1>1
<1>3. Promised(Append(w, f)) = Promised(w) \cup Names(Reserved(f))
  BY <1>1, <1>2 DEF Promised
<1>4. /\ \A i \in 1..Len(w) : Names(Reserved(w[i])) \subseteq Taken(h, w)
      /\ \A a \in 1..Len(h) : Names(Binders(h[a])) \subseteq Taken(h, w)
  BY DEF Taken, Promised, BoundIn
<1>5. ASSUME Distinct(h, w), Once(Reserved(f)), Names(Reserved(f)) \cap Taken(h, w) = {}
      PROVE  Distinct(h, Append(w, f))
  BY <1>1, <1>2, <1>4, <1>5 DEF Distinct
<1>. QED  BY <1>3, <1>5 DEF Taken

\* Making a node.
LEMMA MakeBinds ==
  ASSUME NEW S, NEW h \in Seq(S), NEW n \in S, NEW w
  PROVE  /\ Taken(Append(h, n), w) = Taken(h, w) \cup Names(Binders(n))
         /\ (Distinct(h, w) /\ Once(Binders(n)) /\ Names(Binders(n)) \cap Taken(h, w) = {}
               => Distinct(Append(h, n), w))
<1>1. /\ Len(Append(h, n)) = Len(h) + 1 /\ Append(h, n)[Len(h) + 1] = n
      /\ \A i \in 1..Len(h) : Append(h, n)[i] = h[i]
      /\ Len(h) \in Nat
  BY Push, LenProperties
<1>2. /\ \A i \in 1..(Len(h) + 1) : i = Len(h) + 1 \/ i \in 1..Len(h)
      /\ \A i \in 1..Len(h) : i \in 1..(Len(h) + 1)
      /\ Len(h) + 1 \in 1..(Len(h) + 1)
  BY <1>1
<1>3. BoundIn(Append(h, n)) = BoundIn(h) \cup Names(Binders(n))
  BY <1>1, <1>2 DEF BoundIn
<1>4. /\ \A i \in 1..Len(w) : Names(Reserved(w[i])) \subseteq Taken(h, w)
      /\ \A a \in 1..Len(h) : Names(Binders(h[a])) \subseteq Taken(h, w)
  BY DEF Taken, Promised, BoundIn
<1>5. ASSUME Distinct(h, w), Once(Binders(n)), Names(Binders(n)) \cap Taken(h, w) = {}
      PROVE  Distinct(Append(h, n), w)
  BY <1>1, <1>2, <1>4, <1>5 DEF Distinct
<1>. QED  BY <1>3, <1>5 DEF Taken

\* Taking the top frame: its names are free again.
LEMMA PopBinds ==
  ASSUME NEW S, NEW w \in Seq(S), w # <<>>, NEW h
  PROVE  /\ Taken(h, w) = Taken(h, Front(w)) \cup Names(Reserved(Last(w)))
         /\ (Distinct(h, w) => /\ Distinct(h, Front(w)) /\ Once(Reserved(Last(w)))
                               /\ Names(Reserved(Last(w))) \cap Taken(h, Front(w)) = {})
<1>1. /\ Last(w) = w[Len(w)] /\ Len(w) \in Nat \ {0} /\ Len(Front(w)) = Len(w) - 1
      /\ \A i \in 1..(Len(w) - 1) : Front(w)[i] = w[i]
  BY Pop
<1>2. /\ \A i \in 1..Len(w) : i = Len(w) \/ i \in 1..(Len(w) - 1)
      /\ \A i \in 1..(Len(w) - 1) : i \in 1..Len(w) /\ i # Len(w)
      /\ Len(w) \in 1..Len(w)
  BY <1>1
<1>3. Promised(w) = Promised(Front(w)) \cup Names(Reserved(Last(w)))
  BY <1>1, <1>2 DEF Promised
<1>4. ASSUME Distinct(h, w)
      PROVE  /\ Distinct(h, Front(w)) /\ Once(Reserved(Last(w)))
             /\ Names(Reserved(Last(w))) \cap Taken(h, Front(w)) = {}
  <2>1. Distinct(h, Front(w)) /\ Once(Reserved(Last(w)))
    BY <1>1, <1>2, <1>4 DEF Distinct
  <2>2. /\ \A i \in 1..(Len(w) - 1) :
              Names(Reserved(Last(w))) \cap Names(Reserved(Front(w)[i])) = {}
        /\ \A a \in 1..Len(h) : Names(Reserved(Last(w))) \cap Names(Binders(h[a])) = {}
    BY <1>1, <1>2, <1>4 DEF Distinct
  <2>3. Names(Reserved(Last(w))) \cap Promised(Front(w)) = {}
    BY <1>1, <2>2 DEF Promised
  <2>4. Names(Reserved(Last(w))) \cap BoundIn(h) = {}
    BY <2>2 DEF BoundIn
  <2>. QED  BY <2>1, <2>3, <2>4 DEF Taken
<1>. QED  BY <1>3, <1>4 DEF Taken

\* BindersDistinct in these terms.
LEMMA BindersAre ==
  ASSUME TypeOK, Distinct(heap, k2)
  PROVE  BindersDistinct
<1>. DEFINE Frames ==
              {o \in {"k2"} \X (1..Len(k2)) \X (1..2) : o[3] <= Len(Reserved(k2[o[2]]))}
            Nodes ==
              {o \in {"node"} \X Made \X (1..2) : o[3] <= Len(Binders(heap[o[2]]))}
            Bound(o) == IF o[1] = "k2" THEN Reserved(k2[o[2]])[o[3]]
                                       ELSE Binders(heap[o[2]])[o[3]]
<1>1. \A o \in Frames : /\ o[1] = "k2" /\ o[2] \in 1..Len(k2)
                        /\ o[3] \in 1..2 /\ o[3] <= Len(Reserved(k2[o[2]]))
                        /\ o = <<o[1], o[2], o[3]>>
  OBVIOUS
<1>2. \A o \in Nodes : /\ o[1] = "node" /\ o[2] \in 1..Len(heap)
                       /\ o[3] \in 1..2 /\ o[3] <= Len(Binders(heap[o[2]]))
                       /\ o = <<o[1], o[2], o[3]>>
  BY DEF Made
<1>3. \A i \in 1..Len(k2) : Len(Reserved(k2[i])) \in Nat
  <2>. SUFFICES ASSUME NEW i \in 1..Len(k2) PROVE Len(Reserved(k2[i])) \in Nat
    OBVIOUS
  <2>1. k2[i] \in K2Frame
    BY ElementOfSeq DEF TypeOK
  <2>2. k2[i].kind \in {"Lam1", "Lam2", "App1", "Bop1", "If1", "If2", "If3"}
    BY <2>1, K2FrameFields
  <2>. QED  BY <2>2 DEF Reserved
<1>4. \A a \in 1..Len(heap) : Len(Binders(heap[a])) \in Nat
  <2>. SUFFICES ASSUME NEW a \in 1..Len(heap) PROVE Len(Binders(heap[a])) \in Nat
    OBVIOUS
  <2>1. heap[a] \in AnfNode
    BY ElementOfSeq DEF TypeOK
  <2>2. heap[a].params \in Seq(Ident) /\ heap[a].name \in Ident
    <3>1. \A n \in AnfNode : n.params \in Seq(Ident)
      BY Zenon DEF AnfNode
    <3>2. \A n \in AnfNode : n.name \in Ident
      BY Zenon DEF AnfNode
    <3>. QED  BY <2>1, <3>1, <3>2
  <2>. PICK none, one : none = <<>> /\ one = <<heap[a].name>>
    OBVIOUS
  <2>3. none \in Seq(Ident) /\ one \in Seq(Ident)
    BY <2>2
  <2>4. none \o heap[a].params \in Seq(Ident) /\ one \o heap[a].params \in Seq(Ident)
    BY <2>2, <2>3, ConcatProperties
  <2>5. Binders(heap[a]) \in Seq(Ident)
    BY <2>4 DEF Binders
  <2>. QED  BY <2>5, LenProperties
<1>5. \A o \in Frames : /\ o[3] \in 1..Len(Reserved(k2[o[2]]))
                        /\ Bound(o) = Reserved(k2[o[2]])[o[3]]
  BY <1>1, <1>3
<1>6. \A o \in Nodes : /\ o[3] \in 1..Len(Binders(heap[o[2]]))
                       /\ Bound(o) = Binders(heap[o[2]])[o[3]]
  BY <1>2, <1>4
<1>. HIDE DEF Frames, Nodes, Bound
<1>7. /\ \A o \in Frames : Bound(o) \in Names(Reserved(k2[o[2]]))
      /\ \A o \in Nodes : Bound(o) \in Names(Binders(heap[o[2]]))
  BY <1>5, <1>6 DEF Names
<1>8. ASSUME NEW o \in Frames, NEW q \in Frames, Bound(o) = Bound(q) PROVE o = q
  <2>1. o[2] = q[2]
    BY <1>1, <1>7, <1>8 DEF Distinct
  <2>2. o[3] = q[3]
    BY <1>1, <1>5, <1>8, <2>1 DEF Distinct, Once
  <2>. QED  BY <1>1, <2>1, <2>2
<1>9. ASSUME NEW o \in Nodes, NEW q \in Nodes, Bound(o) = Bound(q) PROVE o = q
  <2>1. o[2] = q[2]
    BY <1>2, <1>7, <1>9 DEF Distinct
  <2>2. o[3] = q[3]
    BY <1>2, <1>6, <1>9, <2>1 DEF Distinct, Once
  <2>. QED  BY <1>2, <2>1, <2>2
<1>10. \A o \in Frames, q \in Nodes : Bound(o) # Bound(q)
  BY <1>1, <1>2, <1>7 DEF Distinct
<1>11. \A o, q \in Frames \cup Nodes : Bound(o) = Bound(q) => o = q
  BY <1>8, <1>9, <1>10
<1>. QED  BY <1>11 DEF BindersDistinct, Frames, Nodes, Bound

(***************************************************************************)
(* Where the names come from                                               *)
(***************************************************************************)
Origin ==
    \A x \in Taken(heap, k2) :
        \/ \E i \in 0..(counter - 1) : x = Tmp(i)
        \/ \E n \in Lams(prog) \ ToDo : x = prog.name[n]

BindInv ==
    /\ Origin
    /\ NamesApart(prog) /\ counter <= IntMax => Distinct(heap, k2)

\* fresh() returns different names.
LEMMA TmpInjective ==
  ASSUME NEW c \in Nat, NEW d \in Nat, c <= IntMax, d <= IntMax, Tmp(c) = Tmp(d)
  PROVE  c = d
<1>1. \A i \in Nat : Tmp(i).digits = Decimal(i)
  <2>. SUFFICES ASSUME NEW i \in Nat PROVE Tmp(i).digits = Decimal(i)
    OBVIOUS
  <2>1. <<>> \o Decimal(i) = Decimal(i)
    BY DecimalType, ConcatEmptySeq
  <2>. QED  BY <2>1 DEF Tmp, Fresh, Name
<1>. QED  BY <1>1, DecimalInjective

LEMMA TmpBase ==
  ASSUME NEW c
  PROVE  Tmp(c).base = "tmp"
BY DEF Tmp, Fresh, Name

\* A name from the counter is not taken, nor is that of a LamExp still to come.
LEMMA TmpFresh ==
  ASSUME TypeOK, Origin, NamesApart(prog), NEW c \in Nat, counter <= c, c <= IntMax
  PROVE  Tmp(c) \notin Taken(heap, k2)
<1>. SUFFICES ASSUME Tmp(c) \in Taken(heap, k2) PROVE FALSE
  OBVIOUS
<1>1. counter \in Nat
  BY DEF TypeOK
<1>2. CASE \E i \in 0..(counter - 1) : Tmp(c) = Tmp(i)
  <2>1. PICK i \in 0..(counter - 1) : Tmp(c) = Tmp(i)
    BY <1>2
  <2>2. PICK m : m = IntMax
    OBVIOUS
  <2>3. IntMax \in Nat
    BY DEF IntMax
  <2>4. i \in Nat /\ i < c /\ i <= IntMax
    BY <1>1, <2>1, <2>3
  <2>. QED  BY <2>1, <2>4, TmpInjective
<1>3. CASE \E n \in Lams(prog) \ ToDo : Tmp(c) = prog.name[n]
  BY <1>3, TmpBase DEF NamesApart
<1>. QED  BY <1>2, <1>3 DEF Origin

LEMMA LamFresh ==
  ASSUME Origin, NamesApart(prog), NEW n \in Lams(prog), n \in ToDo
  PROVE  prog.name[n] \notin Taken(heap, k2)
BY TmpBase DEF Origin, NamesApart

LEMMA Ranges ==
  ASSUME NEW c \in Nat, NEW d \in Nat, c <= d
  PROVE  /\ \A i \in 0..(c - 1) : i \in 0..(d - 1)
         /\ \A i \in c..(d - 1) : i \in 0..(d - 1)
OBVIOUS

\* A step that takes no names but from the counter.
LEMMA OriginStep ==
  ASSUME TypeOK, Origin, prog' = prog, ToDo' \subseteq ToDo, counter' \in Nat, counter <= counter',
         \A x \in Taken(heap', k2') : x \in Taken(heap, k2)
                                      \/ \E i \in counter..(counter' - 1) : x = Tmp(i)
  PROVE  Origin'
<1>1. PICK c \in Nat, d \in Nat : c = counter /\ d = counter' /\ c <= d
  BY DEF TypeOK
<1>2. /\ \A i \in 0..(c - 1) : i \in 0..(d - 1)
      /\ \A i \in c..(d - 1) : i \in 0..(d - 1)
  BY <1>1, Ranges
<1>3. Lams(prog) \ ToDo \subseteq Lams(prog') \ ToDo'
  OBVIOUS
<1>. QED  BY <1>1, <1>2, <1>3 DEF Origin

\* A step that leaves the nodes and the frames of k2 alone.
LEMMA SameBinds ==
  ASSUME TypeOK, BindInv, UNCHANGED <<prog, counter, heap, k2>>, ToDo' \subseteq ToDo
  PROVE  BindInv'
BY OriginStep DEF BindInv, TypeOK

\* What the two lists are, for the frames and nodes that are made.
LEMMA ReservedIs ==
  /\ \A ks, v : Reserved(K2Lam1(ks, v)) = <<v>>
  /\ \A f, v, b : Reserved(K2Lam2(f, v, b)) = <<f, v>>
  /\ \A r, f, x : Reserved(K2App1(r, f, x)) = <<r>>
  /\ \A r, b, x, y : Reserved(K2Bop1(r, b, x, y)) = <<r>>
  /\ \A t, f, j, p, c : Reserved(K2If1(t, f, j, p, c)) = <<j, p>>
  /\ \A f, j, p, c, rest : Reserved(K2If2(f, j, p, c, rest)) = <<j, p>>
  /\ \A t, j, p, c, rest : Reserved(K2If3(t, j, p, c, rest)) = <<j, p>>
BY DEF Reserved, K2Lam1, K2Lam2, K2App1, K2Bop1, K2If1, K2If2, K2If3

LEMMA BindersIs ==
  /\ \A v : Binders(HaltExp(v)) = <<>>
  /\ \A f, x, b, r : Binders(FunExp(f, <<x>>, b, r)) = <<f, x>>
  /\ \A j, x, b, r : Binders(JoinExp(j, <<x>>, b, r)) = <<j, x>>
  /\ \A j, vs : Binders(JumpExp(j, vs)) = <<>>
  /\ \A x, f, vs, r : Binders(AppExp(x, f, vs, r)) = <<x>>
  /\ \A x, b, v, w, r : Binders(BopExp(x, b, v, w, r)) = <<x>>
  /\ \A c, t, e : Binders(IfExp(c, t, e)) = <<>>
<1>. DEFINE Plain == {"Halt", "Jump", "If"}
<1>1. \A x, y : /\ <<>> \o <<>> = <<>> /\ <<x>> \o <<>> = <<x>> /\ <<x>> \o <<y>> = <<x, y>>
  BY ShortLists
<1>2. ASSUME NEW n, n.tag \in Plain, n.params = <<>> PROVE Binders(n) = <<>>
  <2>1. Binders(n) = <<>> \o <<>>
    BY <1>2 DEF Binders
  <2>. QED  BY Zenon, <1>1, <2>1
<1>3. ASSUME NEW n, n.tag \notin Plain, n.params = <<>> PROVE Binders(n) = <<n.name>>
  <2>1. Binders(n) = <<n.name>> \o <<>>
    BY <1>3 DEF Binders
  <2>. QED  BY Zenon, <1>1, <2>1
<1>4. ASSUME NEW n, NEW y, n.tag \notin Plain, n.params = <<y>>
      PROVE  Binders(n) = <<n.name, y>>
  <2>1. Binders(n) = <<n.name>> \o <<y>>
    BY <1>4 DEF Binders
  <2>. QED  BY Zenon, <1>1, <2>1
<1>5. ASSUME NEW v PROVE Binders(HaltExp(v)) = <<>>
  <2>. PICK n : n = HaltExp(v)
    OBVIOUS
  <2>1. n.tag = "Halt" /\ n.params = <<>>
    BY DEF HaltExp, Node
  <2>. QED  BY <1>2, <2>1
<1>6. ASSUME NEW j, NEW vs PROVE Binders(JumpExp(j, vs)) = <<>>
  <2>. PICK n : n = JumpExp(j, vs)
    OBVIOUS
  <2>1. n.tag = "Jump" /\ n.params = <<>>
    BY DEF JumpExp, Node
  <2>. QED  BY <1>2, <2>1
<1>7. ASSUME NEW c, NEW t, NEW e PROVE Binders(IfExp(c, t, e)) = <<>>
  <2>. PICK n : n = IfExp(c, t, e)
    OBVIOUS
  <2>1. n.tag = "If" /\ n.params = <<>>
    BY DEF IfExp, Node
  <2>. QED  BY <1>2, <2>1
<1>8. ASSUME NEW x, NEW f, NEW vs, NEW r PROVE Binders(AppExp(x, f, vs, r)) = <<x>>
  <2>. PICK n : n = AppExp(x, f, vs, r)
    OBVIOUS
  <2>1. n.tag = "App" /\ n.params = <<>> /\ n.name = x
    BY DEF AppExp, Node
  <2>. QED  BY <1>3, <2>1
<1>9. ASSUME NEW x, NEW b, NEW v, NEW w, NEW r PROVE Binders(BopExp(x, b, v, w, r)) = <<x>>
  <2>. PICK n : n = BopExp(x, b, v, w, r)
    OBVIOUS
  <2>1. n.tag = "Bop" /\ n.params = <<>> /\ n.name = x
    BY DEF BopExp, Node
  <2>. QED  BY <1>3, <2>1
<1>10. ASSUME NEW f, NEW x, NEW b, NEW r PROVE Binders(FunExp(f, <<x>>, b, r)) = <<f, x>>
  <2>. PICK n : n = FunExp(f, <<x>>, b, r)
    OBVIOUS
  <2>1. n.tag = "Fun" /\ n.params = <<x>> /\ n.name = f
    BY DEF FunExp, Node
  <2>. QED  BY <1>4, <2>1
<1>11. ASSUME NEW j, NEW x, NEW b, NEW r PROVE Binders(JoinExp(j, <<x>>, b, r)) = <<j, x>>
  <2>. PICK n : n = JoinExp(j, <<x>>, b, r)
    OBVIOUS
  <2>1. n.tag = "Join" /\ n.params = <<x>> /\ n.name = j
    BY DEF JoinExp, Node
  <2>. QED  BY <1>4, <2>1
<1>. QED  BY Zenon, <1>5, <1>6, <1>7, <1>8, <1>9, <1>10, <1>11

\* Only a LamExp takes a name from the program.
LEMMA GoBinds ==
  ASSUME TypeOK, ToDoOnce, BindInv, Go
  PROVE  BindInv'
<1>1. ToDo' \subseteq ToDo /\ (GoLam => goExp \in ToDo \ ToDo')
  BY GoToDo
<1>2. CASE GoLam
  <2>. PICK v : v = prog.name[goExp]
    OBVIOUS
  <2>. PICK frame : frame = K2Lam1(k, v)
    OBVIOUS
  <2>1. /\ goExp \in Lams(prog) /\ goExp \in ToDo \ ToDo' /\ UNCHANGED <<prog, counter, heap>>
        /\ k2' = Append(k2, frame)
    BY <1>1, <1>2 DEF GoLam, Gos, Lams, TypeOK
  <2>2. frame \in K2Frame /\ k2 \in Seq(K2Frame)
    BY <1>2, NodeFields, K2FrameTypes DEF GoLam, Gos, Runs, TypeOK
  <2>3. Reserved(frame) = <<v>> /\ Names(<<v>>) = {v} /\ Once(<<v>>)
    BY ReservedIs, ShortLists
  <2>4. /\ Taken(heap, Append(k2, frame)) = Taken(heap, k2) \cup {v}
        /\ (Distinct(heap, k2) /\ {v} \cap Taken(heap, k2) = {}
              => Distinct(heap, Append(k2, frame)))
    BY ONLY <2>2, <2>3, PushBinds
  <2>5. Origin'
    <3>1. Lams(prog) \ ToDo \subseteq Lams(prog') \ ToDo' /\ goExp \in Lams(prog') \ ToDo'
      BY <1>1, <2>1
    <3>. QED  BY <2>1, <2>4, <3>1 DEF Origin, BindInv
  <2>6. NamesApart(prog) => v \notin Taken(heap, k2)
    BY <2>1, LamFresh DEF BindInv
  <2>. QED  BY <2>1, <2>4, <2>5, <2>6 DEF BindInv
<1>3. CASE ~GoLam
  BY <1>1, <1>3, SameBinds
     DEF Go, GoInt, GoVar, GoValue, GoApp, GoBop, GoIf, GoOperand
<1>. QED  BY <1>2, <1>3

\* A step that pushes a frame which binds names from the counter.
LEMMA NamingStep ==
  ASSUME TypeOK, BindInv, ToDo' \subseteq ToDo, UNCHANGED <<prog, heap>>,
         NEW names \in {1, 2}, NEW frame \in K2Frame, k2' = Append(k2, frame),
         counter' = counter + names,
         \/ names = 1 /\ Reserved(frame) = <<Tmp(counter)>>
         \/ names = 2 /\ Reserved(frame) = <<Tmp(counter), Tmp(counter + 1)>>
  PROVE  BindInv'
<1>1. counter \in Nat /\ k2 \in Seq(K2Frame) /\ counter' \in Nat /\ counter <= counter'
  BY DEF TypeOK
<1>2. /\ Taken(heap', k2') = Taken(heap, k2) \cup Names(Reserved(frame))
      /\ (Distinct(heap, k2) /\ Once(Reserved(frame))
            /\ Names(Reserved(frame)) \cap Taken(heap, k2) = {} => Distinct(heap', k2'))
  BY <1>1, PushBinds
<1>. PICK t, t2 : t = Tmp(counter) /\ t2 = Tmp(counter + 1)
  OBVIOUS
<1>9. /\ Names(<<t>>) = {t} /\ Once(<<t>>)
      /\ Names(<<t, t2>>) = {t, t2} /\ (t # t2 => Once(<<t, t2>>))
  BY ONLY ShortLists
<1>3. \A x \in Names(Reserved(frame)) : \E i \in counter..(counter' - 1) : x = Tmp(i)
  <2>1. CASE names = 1
    <3>1. counter \in counter..(counter' - 1)
      BY <1>1, <2>1
    <3>2. Names(Reserved(frame)) = {t}
      BY <1>9, <2>1
    <3>. QED  BY <3>1, <3>2
  <2>2. CASE names = 2
    <3>1. counter \in counter..(counter' - 1) /\ counter + 1 \in counter..(counter' - 1)
      BY <1>1, <2>2
    <3>2. Names(Reserved(frame)) = {t, t2}
      BY <1>9, <2>2
    <3>. QED  BY <3>1, <3>2
  <2>. QED  BY <2>1, <2>2
<1>4. Origin'
  BY <1>1, <1>2, <1>3, OriginStep DEF BindInv
<1>5. ASSUME NamesApart(prog'), counter' <= IntMax
      PROVE  Distinct(heap', k2')
  <2>. PICK m : m = IntMax
    OBVIOUS
  <2>1. m \in Int /\ counter' <= m
    BY <1>5 DEF IntMax
  <2>2. counter <= m /\ \A i \in counter..(counter' - 1) : i \in Nat /\ counter <= i /\ i <= m
    BY <1>1, <2>1
  <2>3. Names(Reserved(frame)) \cap Taken(heap, k2) = {}
    BY <1>3, <1>5, <2>2, TmpFresh DEF BindInv
  <2>4. Once(Reserved(frame))
    <3>1. CASE names = 1
      BY <1>9, <3>1
    <3>2. CASE names = 2
      <4>1. counter + 1 \in Nat /\ counter + 1 <= m /\ counter # counter + 1
        BY <1>1, <2>1, <3>2
      <4>2. Tmp(counter) # Tmp(counter + 1)
        BY <1>1, <2>2, <4>1, TmpInjective
      <4>. QED  BY <1>9, <3>2, <4>2
    <3>. QED  BY <3>1, <3>2
  <2>. QED  BY <1>2, <1>5, <2>2, <2>3, <2>4 DEF BindInv
<1>. QED  BY <1>4, <1>5 DEF BindInv

\* A step that makes nodes without a binder.
LEMMA PlainNode ==
  ASSUME TypeOK, BindInv, ToDo' \subseteq ToDo, UNCHANGED <<prog, counter, k2>>,
         NEW node, heap' = Append(heap, node), Binders(node) = <<>>
  PROVE  BindInv'
<1>. PICK S : S = AnfNode \cup {node}
  OBVIOUS
<1>1. heap \in Seq(S) /\ node \in S
  BY SeqMonotonic DEF TypeOK
<1>2. Names(Binders(node)) = {} /\ Once(Binders(node))
  BY ShortLists
<1>3. /\ Taken(Append(heap, node), k2) = Taken(heap, k2) \cup Names(Binders(node))
      /\ (Distinct(heap, k2) /\ Once(Binders(node))
            /\ Names(Binders(node)) \cap Taken(heap, k2) = {} => Distinct(Append(heap, node), k2))
  BY ONLY <1>1, MakeBinds
<1>4. Taken(heap', k2') = Taken(heap, k2) /\ (Distinct(heap, k2) => Distinct(heap', k2'))
  BY <1>2, <1>3
<1>. QED  BY <1>4, OriginStep DEF BindInv, TypeOK

LEMMA ApplyKBinds ==
  ASSUME TypeOK, ToDoOnce, BindInv, ApplyK
  PROVE  BindInv'
<1>1. ToDo' \subseteq ToDo
  BY ApplyKToDo
<1>2. CASE ApplyHalt
  BY <1>1, <1>2, BindersIs, PlainNode DEF ApplyHalt, EndTerm
<1>3. CASE ApplyKIf2
  BY <1>1, <1>3, BindersIs, PlainNode DEF ApplyKIf2, EndTerm
<1>4. CASE ApplyKApp1 \/ ApplyKBop1 \/ ApplyInt
  BY <1>1, <1>4, SameBinds DEF ApplyKApp1, ApplyKBop1, NextOperand, ApplyInt
<1>5. counter \in Nat /\ Tmp(counter) \in Ident /\ Tmp(counter + 1) \in Ident
  BY TmpType DEF TypeOK
<1>6. CASE ApplyKApp2
  <2>. PICK frame : frame = K2App1(Tmp(counter), Last(k).f.var, value)
    OBVIOUS
  <2>1. frame \in K2Frame
    BY <1>5, <1>6, Tops, KFrameFields, K2FrameTypes, ValueTypes DEF ApplyKApp2, KTop, TypeOK
  <2>. QED  BY <1>1, <1>6, <2>1, ReservedIs, NamingStep DEF ApplyKApp2, Bind
<1>7. CASE ApplyKBop2
  <2>. PICK frame : frame = K2Bop1(Tmp(counter), Last(k).bop, Last(k).x, value)
    OBVIOUS
  <2>1. frame \in K2Frame
    BY <1>5, <1>7, Tops, KFrameFields, K2FrameTypes DEF ApplyKBop2, KTop, TypeOK
  <2>. QED  BY <1>1, <1>7, <2>1, ReservedIs, NamingStep DEF ApplyKBop2, Bind
<1>8. CASE ApplyKIf1
  <2>. PICK frame : frame = K2If1(Last(k).t, Last(k).f, Tmp(counter), Tmp(counter + 1), value)
    OBVIOUS
  <2>1. frame \in K2Frame
    BY <1>5, <1>8, Tops, KFrameFields, K2FrameTypes DEF ApplyKIf1, KTop, TypeOK
  <2>. QED  BY <1>1, <1>8, <2>1, ReservedIs, NamingStep DEF ApplyKIf1, Bind
<1>. QED  BY <1>2, <1>3, <1>4, <1>6, <1>7, <1>8 DEF ApplyK

\* A step that replaces the top frame by one that binds the same names.
LEMMA PassOn ==
  ASSUME TypeOK, BindInv, ToDo' \subseteq ToDo, UNCHANGED <<prog, counter, heap>>,
         k2 # <<>>, NEW frame \in K2Frame, k2' = Append(Front(k2), frame),
         Reserved(frame) = Reserved(Last(k2))
  PROVE  BindInv'
<1>. PICK u : u = Front(k2)
  OBVIOUS
<1>1. k2 \in Seq(K2Frame) /\ u \in Seq(K2Frame)
  BY Tops DEF TypeOK
<1>2. /\ Taken(heap, k2) = Taken(heap, u) \cup Names(Reserved(frame))
      /\ (Distinct(heap, k2) => /\ Distinct(heap, u) /\ Once(Reserved(frame))
                                /\ Names(Reserved(frame)) \cap Taken(heap, u) = {})
  BY <1>1, PopBinds
<1>3. /\ Taken(heap, Append(u, frame)) = Taken(heap, u) \cup Names(Reserved(frame))
      /\ (Distinct(heap, u) /\ Once(Reserved(frame))
            /\ Names(Reserved(frame)) \cap Taken(heap, u) = {}
              => Distinct(heap, Append(u, frame)))
  BY ONLY <1>1, frame \in K2Frame, PushBinds
<1>4. Taken(heap', k2') = Taken(heap, k2) /\ (Distinct(heap, k2) => Distinct(heap', k2'))
  BY <1>2, <1>3
<1>. QED  BY <1>4, OriginStep DEF BindInv, TypeOK

\* A function gets its name when its body is complete.
LEMMA LamNamed ==
  ASSUME TypeOK, BindInv, ToDo' \subseteq ToDo, ApplyK2Lam1
  PROVE  BindInv'
<1>. PICK u, v, t : u = Front(k2) /\ v = Last(k2).v /\ t = Tmp(counter)
  OBVIOUS
<1>. PICK frame : frame = K2Lam2(t, v, k2Exp)
  OBVIOUS
<1>1. /\ k2 # <<>> /\ Last(k2).kind = "Lam1" /\ k2' = Append(u, frame)
      /\ UNCHANGED <<prog, heap>> /\ counter' = counter + 1
      /\ counter \in Nat /\ counter' \in Nat /\ counter <= counter'
      /\ k2 \in Seq(K2Frame) /\ u \in Seq(K2Frame) /\ Last(k2) \in K2Frame
  BY Tops DEF ApplyK2Lam1, K2Top, TypeOK
<1>2. frame \in K2Frame
  BY <1>1, K2FrameFields, K2FrameTypes, TmpType DEF TypeOK
<1>3. Reserved(Last(k2)) = <<v>> /\ Reserved(frame) = <<t, v>>
  <2>1. Reserved(Last(k2)) = <<v>>
    BY <1>1 DEF Reserved
  <2>2. Reserved(frame) = <<t, v>>
    BY ReservedIs
  <2>. QED  BY <2>1, <2>2
<1>4. /\ Taken(heap, k2) = Taken(heap, u) \cup {v}
      /\ (Distinct(heap, k2) => Distinct(heap, u) /\ v \notin Taken(heap, u))
  <2>1. Names(<<v>>) = {v}
    BY ShortLists
  <2>. QED  BY <1>1, <1>3, <2>1, PopBinds
<1>5. /\ Taken(heap, Append(u, frame)) = Taken(heap, u) \cup {t, v}
      /\ (Distinct(heap, u) /\ t # v /\ {t, v} \cap Taken(heap, u) = {}
            => Distinct(heap, Append(u, frame)))
  <2>1. Names(<<t, v>>) = {t, v} /\ (t # v => Once(<<t, v>>))
    BY ShortLists
  <2>2. /\ Taken(heap, Append(u, frame)) = Taken(heap, u) \cup Names(Reserved(frame))
        /\ (Distinct(heap, u) /\ Once(Reserved(frame))
              /\ Names(Reserved(frame)) \cap Taken(heap, u) = {}
                => Distinct(heap, Append(u, frame)))
    BY ONLY <1>1, <1>2, PushBinds
  <2>. QED  BY ONLY <1>3, <2>1, <2>2
<1>6. Taken(heap', k2') = Taken(heap, k2) \cup {t}
  BY <1>1, <1>4, <1>5
<1>7. Origin'
  <2>1. counter \in counter..(counter' - 1)
    BY <1>1
  <2>. QED  BY <1>1, <1>6, <2>1, OriginStep DEF BindInv
<1>8. ASSUME NamesApart(prog'), counter' <= IntMax
      PROVE  Distinct(heap', k2')
  <2>. PICK m : m = IntMax
    OBVIOUS
  <2>1. m \in Int /\ counter' <= m
    BY <1>8 DEF IntMax
  <2>2. counter <= m
    BY <1>1, <2>1
  <2>3. t \notin Taken(heap, k2)
    BY <1>1, <1>8, <2>2, TmpFresh DEF BindInv
  <2>. QED  BY <1>1, <1>4, <1>5, <1>8, <2>2, <2>3 DEF BindInv
<1>. QED  BY <1>7, <1>8 DEF BindInv

\* Two nodes are made one after the other.
LEMMA AppendTwo ==
  ASSUME NEW S, NEW h \in Seq(S), NEW a \in S, NEW b \in S
  PROVE  h \o <<a, b>> = Append(Append(h, a), b)
<1>. PICK two : two = <<a, b>>
  OBVIOUS
<1>1. two \in Seq(S) /\ Len(two) = 2 /\ two[1] = a /\ two[2] = b /\ Len(h) \in Nat
  BY LenProperties
<1>. PICK n \in Nat : n = Len(h)
  BY <1>1
<1>2. /\ h \o two \in Seq(S) /\ Len(h \o two) = n + 2
      /\ \A i \in 1..(n + 2) : (h \o two)[i] = IF i <= n THEN h[i] ELSE two[i - n]
  BY <1>1, ConcatProperties
<1>. PICK g : g = Append(h, a)
  OBVIOUS
<1>3. g \in Seq(S) /\ Len(g) = n + 1 /\ g[n + 1] = a /\ \A i \in 1..n : g[i] = h[i]
  BY Push
<1>4. /\ Append(g, b) \in Seq(S) /\ Len(Append(g, b)) = n + 2
      /\ Append(g, b)[n + 2] = b /\ \A i \in 1..(n + 1) : Append(g, b)[i] = g[i]
  BY <1>3, Push
<1>5. ASSUME NEW i \in 1..(n + 2)
      PROVE  (h \o two)[i] = Append(g, b)[i]
  <2>1. CASE i \in 1..n
    <3>1. i <= n /\ i \in 1..(n + 1)
      BY <2>1
    <3>. QED  BY <1>2, <1>3, <1>4, <2>1, <3>1
  <2>2. CASE i = n + 1
    <3>1. ~(i <= n) /\ i - n = 1 /\ i \in 1..(n + 1)
      BY <2>2
    <3>. QED  BY <1>1, <1>2, <1>3, <1>4, <2>2, <3>1
  <2>3. CASE i = n + 2
    <3>1. ~(i <= n) /\ i - n = 2
      BY <2>3
    <3>. QED  BY <1>1, <1>2, <1>4, <2>3, <3>1
  <2>. QED  BY <2>1, <2>2, <2>3
<1>. QED  BY <1>2, <1>4, <1>5, SeqEqual

\* A step that puts a node with the names of the top frame in its place, perhaps
\* with a plain node before it.
LEMMA HandOver ==
  ASSUME TypeOK, BindInv, ToDo' \subseteq ToDo, UNCHANGED <<prog, counter>>,
         k2 # <<>>, k2' = Front(k2), NEW node, NEW plain,
         \/ heap' = Append(heap, node)
         \/ heap' = heap \o <<plain, node>>,
         Binders(node) = Reserved(Last(k2)), Binders(plain) = <<>>
  PROVE  BindInv'
<1>. PICK u, r, S : u = Front(k2) /\ r = Reserved(Last(k2)) /\ S = AnfNode \cup {node, plain}
  OBVIOUS
<1>1. k2 \in Seq(K2Frame) /\ heap \in Seq(S) /\ node \in S /\ plain \in S
  BY SeqMonotonic DEF TypeOK
<1>2. PICK h \in Seq(S) : heap' = Append(h, node) /\ (h = heap \/ h = Append(heap, plain))
  <2>1. Append(heap, plain) \in Seq(S)
    BY ONLY <1>1, Push
  <2>2. heap \o <<plain, node>> = Append(Append(heap, plain), node)
    BY ONLY <1>1, AppendTwo
  <2>. QED  BY <1>1, <2>1, <2>2
<1>3. /\ Taken(heap, k2) = Taken(heap, u) \cup Names(r)
      /\ (Distinct(heap, k2) => /\ Distinct(heap, u) /\ Once(r)
                                /\ Names(r) \cap Taken(heap, u) = {})
  BY <1>1, PopBinds
<1>4. Taken(h, u) = Taken(heap, u) /\ (Distinct(heap, u) => Distinct(h, u))
  <2>1. Names(Binders(plain)) = {} /\ Once(Binders(plain))
    BY ShortLists
  <2>2. /\ Taken(Append(heap, plain), u) = Taken(heap, u) \cup Names(Binders(plain))
        /\ (Distinct(heap, u) /\ Once(Binders(plain))
              /\ Names(Binders(plain)) \cap Taken(heap, u) = {}
                => Distinct(Append(heap, plain), u))
    BY ONLY <1>1, MakeBinds
  <2>3. /\ Taken(Append(heap, plain), u) = Taken(heap, u)
        /\ (Distinct(heap, u) => Distinct(Append(heap, plain), u))
    BY <2>1, <2>2
  <2>. QED  BY <1>2, <2>3
<1>5. /\ Taken(Append(h, node), u) = Taken(h, u) \cup Names(r)
      /\ (Distinct(h, u) /\ Once(r) /\ Names(r) \cap Taken(h, u) = {}
            => Distinct(Append(h, node), u))
  <2>1. Binders(node) = r
    OBVIOUS
  <2>. QED  BY ONLY <1>1, h \in Seq(S), <2>1, MakeBinds
<1>6. Taken(heap', k2') = Taken(heap, k2) /\ (Distinct(heap, k2) => Distinct(heap', k2'))
  BY <1>2, <1>3, <1>4, <1>5
<1>. QED  BY <1>6, OriginStep DEF BindInv, TypeOK

LEMMA ApplyK2Binds ==
  ASSUME TypeOK, JumpDiscipline, ToDoOnce, BindInv, ApplyK2
  PROVE  BindInv'
<1>1. ToDo' \subseteq ToDo
  BY ApplyK2ToDo
<1>. PICK top : top = Last(k2)
  OBVIOUS
<1>2. k2 # <<>> => top \in K2Frame
  BY Tops
<1>. PICK plain : plain = HaltExp(value)
  OBVIOUS
<1>3. Binders(plain) = <<>>
  BY BindersIs
<1>4. CASE ApplyK2Lam1
  BY <1>1, <1>2, <1>4, LamNamed
<1>5. CASE ApplyK2Lam2
  <2>. PICK node : node = FunExp(top.f, <<top.v>>, top.body, k2Exp)
    OBVIOUS
  <2>1. k2 # <<>> /\ Reserved(Last(k2)) = <<top.f, top.v>>
    BY <1>5 DEF ApplyK2Lam2, Prepend, K2Top, Reserved
  <2>2. Binders(node) = <<top.f, top.v>>
    BY BindersIs
  <2>3. /\ UNCHANGED <<prog, counter>> /\ k2' = Front(k2) /\ heap' = Append(heap, node)
    BY <1>5 DEF ApplyK2Lam2, Prepend
  <2>4. Binders(node) = Reserved(Last(k2))
    BY <2>1, <2>2
  <2>. QED  BY ONLY TypeOK, BindInv, <1>1, <1>3, <2>1, <2>3, <2>4, HandOver
<1>6. CASE ApplyK2App1
  <2>. PICK node : node = AppExp(top.r, top.f, <<top.x>>, k2Exp)
    OBVIOUS
  <2>1. k2 # <<>> /\ Reserved(Last(k2)) = <<top.r>>
    BY <1>6 DEF ApplyK2App1, Prepend, K2Top, Reserved
  <2>2. Binders(node) = <<top.r>>
    BY BindersIs
  <2>3. /\ UNCHANGED <<prog, counter>> /\ k2' = Front(k2) /\ heap' = Append(heap, node)
    BY <1>6 DEF ApplyK2App1, Prepend
  <2>4. Binders(node) = Reserved(Last(k2))
    BY <2>1, <2>2
  <2>. QED  BY ONLY TypeOK, BindInv, <1>1, <1>3, <2>1, <2>3, <2>4, HandOver
<1>7. CASE ApplyK2Bop1
  <2>. PICK node : node = BopExp(top.r, top.bop, top.x, top.y, k2Exp)
    OBVIOUS
  <2>1. k2 # <<>> /\ Reserved(Last(k2)) = <<top.r>>
    BY <1>7 DEF ApplyK2Bop1, Prepend, K2Top, Reserved
  <2>2. Binders(node) = <<top.r>>
    BY BindersIs
  <2>3. /\ UNCHANGED <<prog, counter>> /\ k2' = Front(k2) /\ heap' = Append(heap, node)
    BY <1>7 DEF ApplyK2Bop1, Prepend
  <2>4. Binders(node) = Reserved(Last(k2))
    BY <2>1, <2>2
  <2>. QED  BY ONLY TypeOK, BindInv, <1>1, <1>3, <2>1, <2>3, <2>4, HandOver
<1>8. CASE ApplyK2If1
  <2>. PICK frame : frame = K2If2(top.f, top.j, top.p, top.c, k2Exp)
    OBVIOUS
  <2>1. frame \in K2Frame /\ k2 # <<>> /\ Reserved(top) = <<top.j, top.p>>
    BY <1>2, <1>8, K2FrameFields, K2FrameTypes DEF ApplyK2If1, Branch, K2Top, Reserved, TypeOK
  <2>. QED  BY <1>1, <1>8, <2>1, ReservedIs, PassOn DEF ApplyK2If1, Branch
<1>9. CASE ApplyK2If2
  <2>. PICK frame : frame = K2If3(k2Exp, top.j, top.p, top.c, top.rest)
    OBVIOUS
  <2>1. frame \in K2Frame /\ k2 # <<>> /\ Reserved(top) = <<top.j, top.p>>
    BY <1>2, <1>9, K2FrameFields, K2FrameTypes DEF ApplyK2If2, Branch, K2Top, Reserved, TypeOK
  <2>. QED  BY <1>1, <1>9, <2>1, ReservedIs, PassOn DEF ApplyK2If2, Branch
<1>10. CASE ApplyK2If3
  <2>. PICK node, first : /\ node = JoinExp(top.j, <<top.p>>, top.rest, Len(heap) + 1)
                          /\ first = IfExp(top.c, top.t, k2Exp)
    OBVIOUS
  <2>1. k2 # <<>> /\ Reserved(Last(k2)) = <<top.j, top.p>>
    BY <1>10 DEF ApplyK2If3, K2Top, Reserved
  <2>2. Binders(node) = <<top.j, top.p>> /\ Binders(first) = <<>>
    BY BindersIs
  <2>3. UNCHANGED <<prog, counter>> /\ k2' = Front(k2) /\ heap' = heap \o <<first, node>>
    BY <1>10 DEF ApplyK2If3
  <2>4. Binders(node) = Reserved(Last(k2))
    BY <2>1, <2>2
  <2>. QED  BY ONLY TypeOK, BindInv, <1>1, <2>1, <2>2, <2>3, <2>4, HandOver
<1>11. CASE Return
  BY <1>1, <1>11, SameBinds DEF Return
<1>. QED  BY <1>4, <1>5, <1>6, <1>7, <1>8, <1>9, <1>10, <1>11 DEF ApplyK2

LEMMA BindStep ==
  ASSUME TypeOK, JumpDiscipline, ToDoOnce, BindInv, [Next]_vars
  PROVE  BindInv'
<1>1. CASE Terminated \/ UNCHANGED vars
  <2>1. ToDo' = ToDo /\ UNCHANGED <<prog, counter, heap, k2>>
    BY <1>1 DEF Terminated, vars, ToDo, Going
  <2>. QED  BY <2>1, SameBinds
<1>. QED  BY <1>1, GoBinds, ApplyKBinds, ApplyK2Binds DEF Next

\* No name is bound twice in the term, for every program whose parameters differ from
\* each other and from the names fresh() makes up, until the counter overflows an int.
\* (The finding anf_tmp is a program with a parameter that does not.)
THEOREM NoNameBoundTwice ==
  Spec => [](NamesApart(prog) /\ counter <= IntMax => BindersDistinct)
<1>1. Init => ToDoOnce /\ BindInv
  <2>. SUFFICES ASSUME Init PROVE ToDoOnce /\ BindInv
    OBVIOUS
  <2>1. heap = <<>> /\ k2 = <<>> /\ 1..0 = {} /\ Len(<<>>) = 0
    BY DEF Init
  <2>2. Taken(heap, k2) = {} /\ Distinct(heap, k2)
    BY <2>1 DEF Taken, Promised, BoundIn, Distinct
  <2>. QED  BY <2>2, ToDoInit DEF BindInv, Origin
<1>2. TypeOK /\ JumpDiscipline /\ ToDoOnce /\ BindInv /\ [Next]_vars => ToDoOnce' /\ BindInv'
  BY ToDoStep, BindStep
<1>3. TypeOK /\ BindInv => (NamesApart(prog) /\ counter <= IntMax => BindersDistinct)
  BY BindersAre DEF BindInv
<1>. QED  BY <1>1, <1>2, <1>3, TypeCorrect, BranchesJumpHome, PTL DEF Spec
=============================================================================
