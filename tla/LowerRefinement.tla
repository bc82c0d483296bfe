-------------------------- MODULE LowerRefinement --------------------------
(***************************************************************************)
(* What lowering is for: LLVM functions with the meaning of the functions  *)
(* of blocks they were made from.  Of LLVM, this interprets what Lower     *)
(* emits: registers and stack slots belong to one activation of a function *)
(* and a slot is what the last store put there.                            *)
(***************************************************************************)
EXTENDS Lower, Meaning

Activation(regs, slots, args) == [regs |-> regs, slots |-> slots, args |-> args]

\* What operand v is worth in activation a; a register never written is Stuck.
Worth(v, a) ==
    CASE v.kind = "const" -> IntV(v.int)
      [] v.kind = "reg"   -> Lookup(a.regs, v.int, Stuck)
      [] v.kind = "arg"   -> a.args[v.int]
      [] v.kind = "fn"    -> CodeV(v.name)
      [] OTHER            -> Stuck

RECURSIVE RunIR(_, _, _, _, _)
\* Function f of module mod, from instruction m of block b on.
RunIR(mod, f, b, m, a) ==
    LET instr   == f.blocks[b].code[m]
        val(i)  == Worth(instr.args[i], a)
        vals    == [i \in 1..Len(instr.args) |-> val(i)]
        next(v) == IF v = Stuck THEN Stuck
                   ELSE RunIR(mod, f, b, m + 1, [a EXCEPT !.regs = Put(@, instr.dst, v)])
    IN  CASE instr.op = "alloca" -> RunIR(mod, f, b, m + 1, a)
          [] instr.op = "load"   -> next(Lookup(a.slots, instr.args[1].int, Stuck))
          [] instr.op = "store"  ->
                RunIR(mod, f, b, m + 1, [a EXCEPT !.slots = Put(@, instr.args[2].int, val(1))])
          [] instr.op = "br"     -> RunIR(mod, f, instr.imm[1], 1, a)
          [] \E i \in 1..Len(vals) : vals[i] = Stuck -> Stuck
          [] instr.op = "ret"    -> val(1)
          [] instr.op = "condbr" ->
                RunIR(mod, f, instr.imm[IF val(1) # IntV(0) THEN 1 ELSE 2], 1, a)
          [] instr.op = "bop"    -> next(Compute(instr.imm[1], val(1), val(2)))
          [] instr.op = "tuple"  -> next(TupleV(vals))
          [] instr.op = "proj"   -> next(IF val(1).kind = "tuple"
                                         THEN val(1).vals[instr.imm[1] + 1] ELSE Stuck)
          [] instr.op = "call"   ->
                IF val(1).kind # "code" THEN Stuck
                ELSE LET g == CHOOSE g \in Range(mod) : g.name = val(1).name
                     IN  next(RunIR(mod, g, 1, 1,
                                    Activation(EmptyMap, EmptyMap, Tail(vals))))

(***************************************************************************)
(* The blocks of a function as terms: what a node continues with is the    *)
(* rest of its block.                                                      *)
(***************************************************************************)
RECURSIVE TermOf(_)
TermOf(nodes) ==
    IF Len(nodes) = 1 THEN nodes[1]
    ELSE [nodes[1] EXCEPT !.kids = <<TermOf(Tail(nodes))>>]

TermBlock(b)    == [b EXCEPT !.body = TermOf(@)]
TermFunction(f) == [f EXCEPT !.entry = TermBlock(@),
                             !.blocks = [i \in 1..Len(@) |-> TermBlock(@[i])]]

(***************************************************************************)
(* The LLVM function main returns what the function main computes: the     *)
(* value passed to a block gets there through its stack slot, and every    *)
(* name stands for the value it has at that place, although the map of     *)
(* values is that of the order of lowering and not that of the run.        *)
(***************************************************************************)
PreservesMeaning ==
    status = "done" =>
        LET fns  == [i \in 1..Len(input) |-> TermFunction(input[i])]
            main == Last(fns)
        IN  Observe(RunIR(module, Last(module), 1, 1,
                          Activation(EmptyMap, EmptyMap, <<>>)))
                = Observe(RunCode(fns, main, main.entry.body, EmptyMap))
=============================================================================
