-------------------------------- MODULE Lower --------------------------------
(***************************************************************************)
(* lowerModule of src/lower.cpp: from functions of basic blocks to LLVM    *)
(* functions.                                                              *)
(*                                                                         *)
(* Blocks are lowered in the order of the list, and three maps, which live *)
(* as long as a function is lowered, lead from names to what was emitted   *)
(* for them: values, blocks, and the stack slots that pass values to       *)
(* blocks.  Looking up a name that is not there yields a null pointer.     *)
(*                                                                         *)
(* Of LLVM, what the code uses is modelled: a function is a sequence of    *)
(* blocks, a block a sequence of instructions, which define registers.     *)
(* The arithmetic that stores a tuple word by word is one instruction.     *)
(***************************************************************************)
EXTENDS Anf, SequencesExt

CONSTANT Inputs
    \* the programs lowerModule is called with: sequences of functions
    \*     [name, params, entry, blocks],    entry and blocks of the form
    \*     [name, slot, body],     body the sequence of nodes of a block

VARIABLES
    input,          \* fns
    module,         \* the functions emitted so far
    fn,             \* the function in the second loop, 0 before the first
    block,          \* the block in the inner loop, 1 is the entry block
    body,           \* the nodes of the block that are still to be lowered
    insertBlock,    \* the insert point of builder_: the end of this block
    namedValues,    \* namedValues_
    namedBlocks,    \* namedBlocks_
    spillSlots,     \* spillSlots_
    registers,      \* how many registers the function has
    status          \* "run", "done", or "crashed" on a null pointer

vars == <<input, module, fn, block, body, insertBlock, namedValues, namedBlocks,
          spillSlots, registers, status>>

-----------------------------------------------------------------------------
(***************************************************************************)
(* LLVM's values and instructions.                                         *)
(***************************************************************************)
Operand(kind, int, name) == [kind |-> kind, int |-> int, name |-> name]

Const(i)  == Operand("const", i, NoName)
Reg(r)    == Operand("reg", r, NoName)
Arg(i)    == Operand("arg", i, NoName)
FnPtr(f)  == Operand("fn", 0, f)
Global(g) == Operand("global", 0, g)
NullPtr   == Operand("null", 0, NoName)

Instr(op, args, imm) == [op |-> op, dst |-> 0, args |-> args, imm |-> imm]
Defines(r, instr)     == [instr EXCEPT !.dst = r]

Terminators == {"ret", "br", "condbr"}

Lookup(map, x, null) == IF x \in DOMAIN map THEN map[x] ELSE null

\* visitIntValue, visitVarValue and visitGlobValue
Lowered(v) ==
    CASE v.kind = "int"  -> Const(v.int)
      [] v.kind = "var"  -> Lookup(namedValues, v.var, NullPtr)
      [] v.kind = "glob" -> IF \E i \in 1..Len(module) : module[i].name = v.var
                            THEN FnPtr(v.var) ELSE Global(v.var)

-----------------------------------------------------------------------------
Blocks(f) == <<f.entry>> \o f.blocks

Init ==
    /\ input \in Inputs
    /\ module = <<>>
    /\ fn = 0 /\ block = 0 /\ body = <<>>
    /\ insertBlock = 0
    /\ namedValues = EmptyMap /\ namedBlocks = EmptyMap /\ spillSlots = EmptyMap
    /\ registers = 0
    /\ status = "run"

\* The first loop declares every function.
Declare ==
    /\ status = "run" /\ Len(module) < Len(input)
    /\ module' = Append(module, [name |-> input[Len(module) + 1].name, blocks |-> <<>>])
    /\ UNCHANGED <<input, fn, block, body, insertBlock, namedValues, namedBlocks,
                   spillSlots, registers, status>>

(***************************************************************************)
(* The second loop starts a function with new maps: it creates all blocks, *)
(* emits a stack slot for each block that has one in the entry block, and  *)
(* names the arguments.                                                    *)
(***************************************************************************)
Slotted(f) == SelectSeq(f.blocks, LAMBDA b : b.slot # <<>>)

\* The last of the sequence ms that has name x, as a map would have it.
LastNamed(ms, x) == Max({i \in 1..Len(ms) : ms[i].name = x})

BlockMap(f) == [x \in {b.name : b \in Range(Blocks(f))} |-> LastNamed(Blocks(f), x)]

SlotMap(f) ==
    [x \in {b.name : b \in Range(Slotted(f))} |-> Reg(LastNamed(Slotted(f), x))]

Values(f) ==
    [x \in Range(f.params) |-> Arg(Max({i \in 1..Len(f.params) : f.params[i] = x}))]

NextFunction == fn + 1

StartFunction ==
    /\ status = "run" /\ Len(module) = Len(input)
    /\ body = <<>> /\ fn < Len(input)
    /\ fn > 0 => block = Len(Blocks(input[fn]))
    /\ LET f     == input[NextFunction]
           slots == Len(Slotted(f))
           code  == [r \in 1..slots |-> Defines(r, Instr("alloca", <<>>, <<>>))]
       IN  /\ module' = [module EXCEPT ![NextFunction].blocks =
                 [b \in 1..Len(Blocks(f)) |-> [name |-> Blocks(f)[b].name,
                                               code |-> IF b = 1 THEN code ELSE <<>>]]]
           /\ namedBlocks' = BlockMap(f)
           /\ spillSlots' = SlotMap(f)
           /\ namedValues' = Values(f)
           /\ registers' = slots
           /\ body' = f.entry.body
    /\ fn' = NextFunction
    /\ block' = 1
    /\ insertBlock' = 1
    /\ UNCHANGED <<input, status>>

(***************************************************************************)
(* The inner loop goes on to the next block and loads its slot.            *)
(***************************************************************************)
AtBlockEnd == status = "run" /\ fn > 0 /\ body = <<>> /\ block < Len(Blocks(input[fn]))
NextBlock  == Blocks(input[fn])[block + 1]

\* Slip: the slot is loaded before the insert point moves.
LoadPointOld(b) == insertBlock

LoadPoint(b) == namedBlocks[b.name]

StartBlock ==
    /\ AtBlockEnd
    /\ LET b    == NextBlock
           r    == registers + 1
           load == Defines(r, Instr("load", <<spillSlots[b.name]>>, <<>>))
       IN  /\ IF b.slot = <<>>
              THEN UNCHANGED <<module, namedValues, registers>>
              ELSE /\ module' = [module EXCEPT ![fn].blocks[LoadPoint(b)].code = Append(@, load)]
                   /\ namedValues' = Put(namedValues, b.slot[1], Reg(r))
                   /\ registers' = r
           /\ insertBlock' = namedBlocks[b.name]
           /\ body' = b.body
    /\ block' = block + 1
    /\ UNCHANGED <<input, fn, namedBlocks, spillSlots, status>>

-----------------------------------------------------------------------------
(***************************************************************************)
(* One node of a block.  A null pointer among the operands is dereferenced *)
(* by the builder, or by what the IR is handed to next, except by          *)
(* CreateRet, which takes it for void.  That the builder computes a result *)
(* whose operands are constants is left out.                               *)
(***************************************************************************)
NodeIs(tag) == status = "run" /\ body # <<>> /\ Head(body).tag = tag

\* Slip: value_, the one result of visitValue, is read after all of the visits.
OperandsLast(n) == [i \in 1..Len(n.vals) |-> Lowered(Last(n.vals))]

Operands(n) == [i \in 1..Len(n.vals) |-> Lowered(n.vals[i])]

\* The function an AppExp calls: a value, or else a function of that name.
Callee(n) ==
    Lookup(namedValues, n.vals[1].var,
           IF \E i \in 1..Len(module) : module[i].name = n.vals[1].var
           THEN FnPtr(n.vals[1].var) ELSE NullPtr)

Emit(instrs) ==
    module' = [module EXCEPT ![fn].blocks[insertBlock].code = @ \o instrs]

LowerHalt ==
    /\ NodeIs("Halt")
    /\ Emit(<<Instr("ret", Operands(Head(body)), <<>>)>>)
    /\ body' = <<>>
    /\ UNCHANGED <<input, fn, block, insertBlock, namedValues, namedBlocks,
                   spillSlots, registers, status>>

\* The name of a tuple is bound before its values are visited.
TupleArgs(n) ==
    [i \in 1..Len(n.vals) |->
        IF n.vals[i] = VarValue(n.name) THEN Reg(registers + 1) ELSE Operands(n)[i]]

\* A node that binds a name to the result of an instruction.
Bind(op, args, imm) ==
    /\ NullPtr \notin Range(args)
    /\ Emit(<<Defines(registers + 1, Instr(op, args, imm))>>)
    /\ namedValues' = Put(namedValues, Head(body).name, Reg(registers + 1))
    /\ registers' = registers + 1
    /\ body' = Tail(body)
    /\ UNCHANGED <<input, fn, block, insertBlock, namedBlocks, spillSlots, status>>

CallArgs(n) == <<Callee(n)>> \o Tail(Operands(n))

LowerApp   == NodeIs("App") /\ Bind("call", CallArgs(Head(body)), <<>>)
LowerBop   == NodeIs("Bop") /\ Bind("bop", Operands(Head(body)), <<Head(body).bop>>)
LowerTuple == NodeIs("Tuple") /\ Bind("tuple", TupleArgs(Head(body)), <<>>)
LowerProj  == NodeIs("Proj") /\ Bind("proj", Operands(Head(body)), <<Head(body).index>>)

\* A value is stored to the slot of the block that a jump leads to.
Stores(jump, value) ==
    IF jump.vals = <<>> THEN <<>>
    ELSE <<Instr("store", <<value, Lookup(spillSlots, jump.name, NullPtr)>>, <<>>)>>

Target(jump) == Lookup(namedBlocks, jump.name, 0)

\* Whether instructions get by without a null pointer, and branches arrive.
Sound(instrs) ==
    \A i \in 1..Len(instrs) :
        NullPtr \notin Range(instrs[i].args) /\ 0 \notin Range(instrs[i].imm)

Branch(instrs) ==
    /\ Sound(instrs)
    /\ Emit(instrs)
    /\ body' = <<>>
    /\ UNCHANGED <<input, fn, block, insertBlock, namedValues, namedBlocks,
                   spillSlots, registers, status>>

Br(target)           == <<Instr("br", <<>>, <<target>>)>>
CondBr(v, then, els) == <<Instr("condbr", <<v>>, <<then, els>>)>>

JumpCode(n) ==
    (IF n.vals = <<>> THEN <<>> ELSE Stores(n, Lowered(n.vals[1]))) \o Br(Target(n))

\* visitIfJump: both branches are jumps.  What is stored is the condition.
IfCode(n) ==
    LET v == Lowered(n.vals[1])
    IN  Stores(n.kids[1], v) \o Stores(n.kids[2], v)
           \o CondBr(v, Target(n.kids[1]), Target(n.kids[2]))

LowerJump == NodeIs("Jump") /\ Branch(JumpCode(Head(body)))
LowerIf   == NodeIs("If") /\ Branch(IfCode(Head(body)))

\* The builder dereferences a null pointer.
Crash ==
    /\ status = "run" /\ body # <<>>
    /\ LET n == Head(body)
       IN  CASE n.tag = "App"  -> NullPtr \in Range(CallArgs(n))
             [] n.tag = "Tuple" -> NullPtr \in Range(TupleArgs(n))
             [] n.tag \in {"Bop", "Proj"} -> NullPtr \in Range(Operands(n))
             [] n.tag = "Jump" -> ~Sound(JumpCode(n))
             [] n.tag = "If"   -> ~Sound(IfCode(n))
             [] n.tag = "Halt" -> FALSE
    /\ status' = "crashed"
    /\ UNCHANGED <<input, module, fn, block, body, insertBlock, namedValues,
                   namedBlocks, spillSlots, registers>>

Return ==
    /\ status = "run" /\ Len(module) = Len(input)
    /\ body = <<>> /\ fn = Len(input)
    /\ fn > 0 => block = Len(Blocks(input[fn]))
    /\ status' = "done"
    /\ UNCHANGED <<input, module, fn, block, body, insertBlock, namedValues,
                   namedBlocks, spillSlots, registers>>

\* lowerModule is over.
Terminated == status # "run" /\ UNCHANGED vars

LowerNode == \/ LowerHalt \/ LowerApp \/ LowerBop \/ LowerTuple \/ LowerProj
             \/ LowerJump \/ LowerIf

Next == Declare \/ StartFunction \/ StartBlock \/ LowerNode \/ Crash \/ Return \/ Terminated

Spec == Init /\ [][Next]_vars
-----------------------------------------------------------------------------
(***************************************************************************)
(* What LLVM requires of the shape of a module; the code drops the         *)
(* verifier's answer.  Every block ends in one terminator, with none       *)
(* before the end, and on every path to a use of a register the register   *)
(* was defined, although one map of values serves all blocks.              *)
(***************************************************************************)
Registers(instrs) == {instrs[m].dst : m \in 1..Len(instrs)} \ {0}
Used(instr) == {v.int : v \in {v \in Range(instr.args) : v.kind = "reg"}}

Successors(f, b) ==
    UNION {Range(f.blocks[b].code[m].imm) :
              m \in {m \in 1..Len(f.blocks[b].code) : f.blocks[b].code[m].op \in {"br", "condbr"}}}

\* The blocks that can be reached from block 1 without entering block avoided.
Reached(f, avoided) ==
    LET step(S) == S \cup (UNION {Successors(f, b) : b \in S} \ {avoided})
        R[n \in 0..Len(f.blocks)] == IF n = 0 THEN {1} \ {avoided} ELSE step(R[n - 1])
    IN  R[Len(f.blocks)]

\* Block b is on every path from the entry block to block c.
Dominates(f, b, c) == b = c \/ c \notin Reached(f, b)

ModuleIsValid ==
    status = "done" => \A f \in Range(module) : \A b \in 1..Len(f.blocks) :
        LET code == f.blocks[b].code
        IN  /\ \A m \in 1..Len(code) : code[m].op \in Terminators <=> m = Len(code)
            /\ code # <<>>
            /\ \A m \in 1..Len(code) : \A r \in Used(code[m]) :
                  \/ r \in Registers(SubSeq(code, 1, m - 1))
                  \/ \E c \in (1..Len(f.blocks)) \ {b} :
                        r \in Registers(f.blocks[c].code) /\ Dominates(f, c, b)

(***************************************************************************)
(* Every program that hoisting makes can be lowered.                       *)
(***************************************************************************)
NeverCrashes == status # "crashed"
=============================================================================
